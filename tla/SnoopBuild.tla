------------------------------ MODULE SnoopBuild ------------------------------
(***************************************************************************)
(* How the sensor's program comes to hold its eBPF object: build.rs, run   *)
(* by cargo, leaves OUT_DIR/snoop-ebpf and the program embeds that file.   *)
(*                                                                         *)
(* An object is known by the layout of the events it writes: the version   *)
(* of snoop-common it was compiled with; a later version adds a field, so  *)
(* its events are longer.  cargo is external: it runs the script again     *)
(* when it has not yet succeeded or something changed that the script      *)
(* asked to be watched, and compiles the program when the script succeeds. *)
(***************************************************************************)
EXTENDS Integers

CONSTANT MaxLayout      \* bound: versions of snoop-common

ASSUME SomeLayout == MaxLayout \in Nat \ {0}

VARIABLES
    linux,      \* the target of the build
    common,     \* the version of snoop-common in the sources
    buildEnv,   \* SNOOP_SKIP_EBPF_BUILD and SNOOP_EBPF_OBJ are set
    objFile,    \* the file SNOOP_EBPF_OBJ names
    outFile,    \* OUT_DIR/snoop-ebpf
    script,     \* what cargo knows of the last run of build.rs
    binary      \* the program: the layout it was compiled with and its embedded object;
                \* history: the environment, and snoop-common when the script last ran

buildVars == <<linux, common, buildEnv, objFile, outFile, script, binary>>

Missing == -1
Empty == 0
Layouts == 1..MaxLayout
Files == {Missing, Empty} \cup Layouts
Environments == [skip : BOOLEAN, obj : BOOLEAN]
NoBinary == [layout |-> Missing]

BuildInit ==
    /\ linux \in BOOLEAN /\ common = 1 /\ buildEnv = [skip |-> FALSE, obj |-> FALSE]
    /\ objFile = Missing /\ outFile = Missing
    /\ script = [current |-> FALSE, env |-> buildEnv, common |-> common, watchesObj |-> FALSE]
    /\ binary = NoBinary

-----------------------------------------------------------------------------
(* What happens to the sources and the environment between two builds.     *)

EditCommon ==
    /\ common < MaxLayout
    /\ common' = common + 1
    /\ UNCHANGED <<linux, buildEnv, objFile, outFile, script, binary>>

EditEbpf ==
    /\ script' = [script EXCEPT !.current = FALSE]
    /\ UNCHANGED <<linux, common, buildEnv, objFile, outFile, binary>>

SetEnvironment ==
    /\ buildEnv' \in Environments
    /\ UNCHANGED <<linux, common, objFile, outFile, script, binary>>

\* An object compiled by hand, as the gates do, or left empty by a compilation that broke off.
ProvideObject ==
    /\ objFile' \in {common, Empty}
    /\ script' = [script EXCEPT !.current = @ /\ ~script.watchesObj]
    /\ UNCHANGED <<linux, common, buildEnv, outFile, binary>>

-----------------------------------------------------------------------------
\* What the script writes to OUT_DIR, given the object cargo would compile for it.
Output(compiled) ==
    IF ~linux THEN outFile
    ELSE IF buildEnv.skip THEN Empty
    ELSE IF buildEnv.obj THEN objFile
    ELSE compiled

Compile == binary' = [layout |-> common, embedded |-> outFile', env |-> buildEnv,
                      scriptCommon |-> script'.common]

(* build.rs.  It fails when the object to copy is not there or cannot be   *)
(* compiled, and then the program is not compiled either: an earlier one   *)
(* stays.  The directory it watches is ../snoop-ebpf, not ../snoop-common. *)
RunScript(compiled) ==
    IF linux /\ Output(compiled) = Missing
    THEN /\ script' = [script EXCEPT !.current = FALSE]
         /\ UNCHANGED <<outFile, binary>>
    ELSE /\ outFile' = Output(compiled)
         /\ script' = [current |-> TRUE, env |-> buildEnv, common |-> common,
                       watchesObj |-> linux /\ ~buildEnv.skip /\ buildEnv.obj]
         /\ Compile

UpToDate_AnyEnvironment == script.current  \* mutant: no rerun-if-env-changed
UpToDate == script.current /\ script.env = buildEnv

CargoBuild ==
    /\ IF UpToDate
       THEN /\ UNCHANGED <<outFile, script>> /\ Compile
       ELSE \E compiled \in {common, Missing} : RunScript(compiled)
    /\ UNCHANGED <<linux, common, buildEnv, objFile>>

BuildNext == EditCommon \/ EditEbpf \/ SetEnvironment \/ ProvideObject \/ CargoBuild
=============================================================================
