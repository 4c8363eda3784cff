---------------------------- MODULE MCSnoopCommand ----------------------------
(* Builds and command lines for the run of SnoopCommand.                   *)
EXTENDS SnoopCommand

MCWords == {"--sensor", "--self-test", "--run-id", "--proc-log", "--target-cgroup-id", "12",
            "", "EPERM"}
MCLines == UNION {[1..n -> MCWords] : n \in 0..4}

\* With both required logs, without one of them, with an empty, a zero or a bad cgroup.
Set == [s \in Settings \ {"--duration-ms"} |-> IF s \in Required THEN "log" ELSE Unset]
MCVariables == {Set, [Set EXCEPT !["--proc-log"] = Unset],
                [Set EXCEPT !["--target-cgroup-id"] = "", !["--network-log"] = "log"],
                [Set EXCEPT !["--target-cgroup-id"] = "0"],
                [Set EXCEPT !["--target-cgroup-id"] = "EPERM"]}

\* Any build with a plain command line, any command line with a plain build.
Plain == {<<"--sensor">>, <<"--self-test">>}
MCBounded(line, variables, build) ==
    \/ line \in Plain /\ variables = Set
    \/ build[2] = 1 /\ build[3] = [skip |-> FALSE, obj |-> FALSE] /\ build[4] = Missing
       /\ build[1] /\ build[6].current
=============================================================================
