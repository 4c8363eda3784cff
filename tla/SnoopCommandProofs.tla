--------------------------- MODULE SnoopCommandProofs ---------------------------
(***************************************************************************)
(* Proofs about SnoopCommand and SnoopBuild, for every command line, every *)
(* environment, any number of versions of snoop-common and of events.      *)
(***************************************************************************)
EXTENDS SnoopCommand, TLAPS

-----------------------------------------------------------------------------
(* What OUT_DIR holds after a run of build.rs under an environment, with   *)
(* the version snoop-common had when the script ran.                       *)
Fits(e, file, version) ==
    /\ e.skip => file = Empty
    /\ ~e.skip /\ ~e.obj => file \in Layouts /\ file = version

Scripts == [current : BOOLEAN, env : Environments, common : Layouts, watchesObj : BOOLEAN]
Binaries == [layout : Layouts, embedded : Files, env : Environments, scriptCommon : Layouts]

BuildTyped ==
    /\ common \in Layouts /\ objFile \in Files /\ outFile \in Files
    /\ buildEnv \in Environments /\ script \in Scripts /\ binary \in Binaries \cup {NoBinary}

BuildInv ==
    /\ BuildTyped
    /\ linux /\ script.current => Fits(script.env, outFile, script.common)
    /\ linux /\ binary # NoBinary => Fits(binary.env, binary.embedded, binary.scriptCommon)

-----------------------------------------------------------------------------
(* Where the program is and what it has done by then.                      *)
Reading == {"build", "run", "env", "args"}
Looping == {"check", "drain", "flush"}

\* The programs attached and whether a log may be open when run_sensor is at a step.
AttachedAt(s) ==
    CASE s = "exec" -> {"openat"}
      [] s = "exit" -> {"openat", "exec"}
      [] s = "connectEnter" -> {"openat", "exec", "exit"}
      [] s = "connectReturn" -> {"openat", "exec", "exit", "connectEnter"}
      [] s \in {"map", "files", "procs", "network"} \cup Looping -> Programs
      [] OTHER -> {}
LogsAt(s) == s \in {"procs", "network"} \cup Looping

StepInv ==
    /\ step \in Reading \cup Range(SensorSteps) \cup Range(TestSteps) \cup Looping \cup {"ended"}
    /\ exit = NotYet <=> step # "ended"
    /\ step \in {"env", "args", "flush"} => mode = "sensor"
    /\ step \notin Reading \cup {"ended"} => mode \in {"sensor", "self-test"}
    /\ step # "build" => binary # NoBinary
    /\ step = "ended" => attached = {}

OrderInv ==
    /\ step \in Reading \/ mode = "self-test" => opened = {}
    /\ step \in Reading => attached = {}
    /\ mode = "sensor" /\ exit = NotYet => attached = AttachedAt(step) /\ (opened # {} => LogsAt(step))

\* The rows a sensor owed and wrote, and the object it reads the events of.
RowsInv ==
    /\ step \in Reading => due = 0 /\ rows = 0
    /\ mode = "sensor" /\ step \notin Reading \cup {"ended"} => linux
    /\ mode = "sensor" /\ step = "object" => due = 0 /\ rows = 0
    /\ mode = "sensor" /\ exit # 1 /\ exit # 77 /\ step \notin Reading \cup {"object"} =>
          /\ linux /\ object = Loaded /\ object \in Layouts /\ due \in Nat
          /\ rows = IF TooShort(object) THEN 0 ELSE due

-----------------------------------------------------------------------------
(* The build keeps in OUT_DIR and in the program what was asked of it.     *)
LEMMA BuildTypedStep ==
  ASSUME BuildTyped, [Next]_vars
  PROVE  BuildTyped'
<1>1. ASSUME EditCommon \/ SetEnvironment PROVE BuildTyped'
  BY <1>1, SomeLayout DEF BuildTyped, EditCommon, SetEnvironment, Layouts
<1>2. ASSUME EditEbpf \/ ProvideObject PROVE BuildTyped'
  <2>1. \E b \in BOOLEAN : script' = [script EXCEPT !.current = b]
    BY <1>2 DEF EditEbpf, ProvideObject, BuildTyped, Scripts
  <2>2. script' \in Scripts
    BY <2>1 DEF BuildTyped, Scripts
  <2>3. objFile' \in Files /\ UNCHANGED <<common, buildEnv, outFile, binary>>
    BY <1>2 DEF EditEbpf, ProvideObject, BuildTyped, Files
  <2> QED BY <2>2, <2>3 DEF BuildTyped
<1>3. ASSUME CargoBuild PROVE BuildTyped'
  <2>1. UNCHANGED <<common, objFile, buildEnv>>
    BY <1>3 DEF CargoBuild
  <2>2. outFile' \in Files
    BY <1>3 DEF CargoBuild, RunScript, Output, BuildTyped, Files
  <2>3. script' \in Scripts
    <3>1. \/ script' = script \/ script' = [script EXCEPT !.current = FALSE]
          \/ \E w \in BOOLEAN : script' = [current |-> TRUE, env |-> buildEnv, common |-> common,
                                        watchesObj |-> w]
      BY Zenon, <1>3 DEF CargoBuild, RunScript
    <3>2. common \in Layouts /\ buildEnv \in Environments /\ script \in Scripts
      BY DEF BuildTyped
    <3>3. \A w \in BOOLEAN : [current |-> TRUE, env |-> buildEnv, common |-> common,
                             watchesObj |-> w] \in Scripts
      BY <3>2 DEF Scripts
    <3>4. [script EXCEPT !.current = FALSE] \in Scripts
      BY <3>2 DEF Scripts
    <3> QED BY Zenon, <3>1, <3>2, <3>3, <3>4
  <2>4. binary' \in Binaries \cup {NoBinary}
    <3>1. binary' = binary \/ Compile
      BY <1>3 DEF CargoBuild, RunScript
    <3>2. script'.common \in Layouts
      BY <2>3 DEF Scripts
    <3> QED BY <2>2, <3>1, <3>2 DEF Compile, BuildTyped, Binaries
  <2> QED BY <2>1, <2>2, <2>3, <2>4 DEF BuildTyped
<1>4. CASE UNCHANGED buildVars
  BY <1>4 DEF buildVars, BuildTyped
<1>5. BuildNext \/ UNCHANGED buildVars
  BY DEF Next, Start, Proceed, Run, ReadEnvironment, ReadArgument, EndArguments, Setup, SetupFails,
         CheckDeadline, TestItem, TakeItem, WriteFails, RingEmpty, Flush, Event, DeadlinePasses,
         configUnchanged, loopUnchanged, vars
<1> QED BY <1>1, <1>2, <1>3, <1>4, <1>5 DEF BuildNext

LEMMA BuildStep == BuildInv /\ [Next]_vars => BuildInv'
<1> SUFFICES ASSUME BuildInv, [Next]_vars PROVE BuildInv'
  OBVIOUS
<1>1. BuildTyped /\ BuildTyped'
  BY BuildTypedStep DEF BuildInv
<1>2. /\ linux /\ script.current => Fits(script.env, outFile, script.common)
      /\ linux /\ binary # NoBinary => Fits(binary.env, binary.embedded, binary.scriptCommon)
  BY DEF BuildInv
<1>3. SUFFICES /\ linux' /\ script'.current => Fits(script'.env, outFile', script'.common)
               /\ linux' /\ binary' # NoBinary =>
                     Fits(binary'.env, binary'.embedded, binary'.scriptCommon)
  BY <1>1 DEF BuildInv, Fits
<1>4. CASE UNCHANGED <<linux, script, outFile, binary>>
  BY <1>2, <1>4
<1>5. CASE EditEbpf \/ ProvideObject
  <2>1. UNCHANGED <<linux, outFile, binary>>
    BY <1>5 DEF EditEbpf, ProvideObject
  <2>2. \E b \in BOOLEAN : (b => script.current) /\ script' = [script EXCEPT !.current = b]
    BY <1>1, <1>5 DEF EditEbpf, ProvideObject, BuildTyped, Scripts
  <2>3. script'.env = script.env /\ script'.common = script.common /\ (script'.current => script.current)
    BY <1>1, <2>2 DEF BuildTyped, Scripts
  <2> QED BY <1>2, <2>1, <2>3
<1>6. CASE CargoBuild /\ UpToDate
  <2>1. UNCHANGED <<linux, script, outFile>> /\ Compile /\ script.current /\ script.env = buildEnv
    BY <1>6 DEF CargoBuild, UpToDate
  <2>2. /\ binary'.env = buildEnv /\ binary'.embedded = outFile'
        /\ binary'.scriptCommon = script'.common
    BY <2>1 DEF Compile
  <2> QED BY <1>2, <2>1, <2>2
<1>7. ASSUME NEW compiled \in {common, Missing}, RunScript(compiled), UNCHANGED linux
      PROVE  /\ linux' /\ script'.current => Fits(script'.env, outFile', script'.common)
             /\ linux' /\ binary' # NoBinary =>
                   Fits(binary'.env, binary'.embedded, binary'.scriptCommon)
  <2>1. CASE linux /\ Output(compiled) = Missing
    <3>1. ~script'.current /\ UNCHANGED <<outFile, binary>>
      BY <1>1, <1>7, <2>1 DEF RunScript, BuildTyped, Scripts
    <3> QED BY <1>2, <1>7, <3>1
  <2>2. CASE ~(linux /\ Output(compiled) = Missing)
    <3>1. /\ outFile' = Output(compiled) /\ Compile
          /\ script'.env = buildEnv /\ script'.common = common
      BY <1>7, <2>2 DEF RunScript
    <3>2. linux => Fits(buildEnv, outFile', common)
      BY <1>1, <2>2, <3>1 DEF Output, Fits, BuildTyped
    <3>3. /\ binary'.env = buildEnv /\ binary'.embedded = outFile'
          /\ binary'.scriptCommon = common
      BY <3>1 DEF Compile
    <3> QED BY <1>7, <3>1, <3>2, <3>3
  <2> QED BY <2>1, <2>2
<1>8. \/ UNCHANGED <<linux, script, outFile, binary>> \/ EditEbpf \/ ProvideObject
      \/ CargoBuild
  BY DEF Next, BuildNext, EditCommon, SetEnvironment, Start, Proceed, Run, ReadEnvironment,
         ReadArgument, EndArguments, Setup, SetupFails, CheckDeadline, TestItem, TakeItem, WriteFails,
         RingEmpty, Flush, Event, DeadlinePasses, configUnchanged, loopUnchanged, buildVars, vars
<1> QED BY <1>4, <1>5, <1>6, <1>7, <1>8 DEF CargoBuild

LEMMA BuildStarts == Init => BuildInv
<1> SUFFICES ASSUME Init PROVE BuildInv
  OBVIOUS
<1>1. /\ common = 1 /\ objFile = Missing /\ outFile = Missing /\ binary = NoBinary
      /\ buildEnv = [skip |-> FALSE, obj |-> FALSE]
      /\ script = [current |-> FALSE, env |-> buildEnv, common |-> common, watchesObj |-> FALSE]
  BY DEF Init, BuildInit
<1>2. 1 \in Layouts /\ buildEnv \in Environments
  BY <1>1, SomeLayout DEF Layouts, Environments
<1>3. script \in Scripts /\ ~script.current
  BY <1>1, <1>2 DEF Scripts
<1> QED BY <1>1, <1>2, <1>3 DEF BuildInv, BuildTyped, Files

(* Whatever was built before, under another environment and from other     *)
(* sources, the program embeds what its own build asked for.               *)
THEOREM EmbeddedIsWhatWasAskedFor == Spec => []EmbeddedFitsBuild
<1>1. BuildInv => EmbeddedFitsBuild
  BY DEF BuildInv, Fits, EmbeddedFitsBuild
<1> QED BY <1>1, BuildStarts, BuildStep, PTL DEF Spec

-----------------------------------------------------------------------------
(* The steps of run_sensor and run_self_test, as sets.                     *)
LEMMA SensorStepsAre ==
  /\ SensorSteps = <<"object", "catalog", "load", "openat", "exec", "exit", "connectEnter",
                     "connectReturn", "map", "files", "procs", "network">>
  /\ Range(SensorSteps) = {"object", "catalog", "load", "openat", "exec", "exit", "connectEnter",
                           "connectReturn", "map", "files", "procs", "network"}
  /\ Range(TestSteps) = {"object", "load", "exec", "map", "true"}
  /\ Programs = {"openat", "exec", "exit", "connectEnter", "connectReturn"}
<1>1. SensorSteps = <<"object", "catalog", "load", "openat", "exec", "exit", "connectEnter",
                     "connectReturn", "map", "files", "procs", "network">>
  BY DEF SensorSteps
<1>2. Range(SensorSteps) = {"object", "catalog", "load", "openat", "exec", "exit", "connectEnter",
                           "connectReturn", "map", "files", "procs", "network"}
  BY <1>1 DEF Range
<1>3. Range(TestSteps) = {"object", "load", "exec", "map", "true"}
  BY DEF Range, TestSteps
<1>4. Programs = {"openat", "exec", "exit", "connectEnter", "connectReturn"}
  BY DEF Programs
<1> QED BY <1>1, <1>2, <1>3, <1>4

(* The step that follows another.                                          *)
LEMMA SensorFollows ==
  ASSUME mode = "sensor"
  PROVE  \A k \in 1..11 : Follows(SensorSteps[k]) = SensorSteps[k + 1]
         /\ Follows("network") = "check"
<1> DEFINE S == <<"object", "catalog", "load", "openat", "exec", "exit", "connectEnter",
                  "connectReturn", "map", "files", "procs", "network">>
<1>1. Steps = S
  BY SensorStepsAre DEF Steps
<1>2. \A j, k \in 1..12 : S[j] = S[k] => j = k
  OBVIOUS
<1>3. Last(S) = "network" /\ DOMAIN S = 1..12 /\ S[12] = "network"
  BY DEF Last
<1>4. ASSUME NEW k \in 1..11 PROVE Follows(S[k]) = S[k + 1]
  <2>1. S[k] # "network"
    BY <1>2, <1>3
  <2>2. (CHOOSE j \in DOMAIN S : S[j] = S[k]) = k
    BY <1>2, <1>3
  <2> QED BY <1>1, <1>3, <2>1, <2>2 DEF Follows
<1>5. Follows("network") = "check"
  BY <1>1, <1>3 DEF Follows
<1> QED BY <1>4, <1>5, SensorStepsAre

(* A step is followed by one of the same list, the last one by the loop.   *)
LEMMA FollowsInside ==
  ASSUME mode \in {"sensor", "self-test"}, NEW s \in Range(Steps)
  PROVE  Follows(s) \in Range(Steps) \cup {"check"}
<1>1. CASE mode = "sensor"
  <2>1. PICK k \in 1..12 : s = SensorSteps[k]
    BY <1>1, SensorStepsAre DEF Steps, Range
  <2>2. CASE k = 12
    BY <1>1, <2>1, <2>2, SensorFollows, SensorStepsAre
  <2>3. CASE k \in 1..11
    <3>1. Follows(s) = SensorSteps[k + 1]
      BY <1>1, <2>1, <2>3, SensorFollows
    <3>2. k + 1 \in DOMAIN SensorSteps
      BY <2>3, SensorStepsAre
    <3> QED BY <1>1, <3>1, <3>2 DEF Steps, Range
  <2> QED BY <2>1, <2>2, <2>3
<1>2. CASE mode = "self-test"
  <2> DEFINE S == <<"object", "load", "exec", "map", "true">>
  <2>1. Steps = S /\ Last(S) = "true" /\ DOMAIN S = 1..5 /\ S[5] = "true"
    BY <1>2 DEF Steps, TestSteps, Last
  <2>2. \A j, k \in 1..5 : S[j] = S[k] => j = k
    OBVIOUS
  <2>3. PICK k \in 1..5 : s = S[k]
    BY <2>1 DEF Range
  <2>4. CASE k = 5
    BY <2>1, <2>3, <2>4 DEF Follows
  <2>5. CASE k \in 1..4
    <3>1. (CHOOSE j \in DOMAIN S : S[j] = S[k]) = k /\ S[k] # "true"
      BY <2>1, <2>2, <2>5
    <3>2. Follows(s) = S[k + 1]
      BY <2>1, <2>3, <3>1 DEF Follows
    <3>3. k + 1 \in DOMAIN S
      BY <2>1, <2>5
    <3> QED BY <2>1, <3>2, <3>3 DEF Range
  <2> QED BY <2>3, <2>4, <2>5
<1> QED BY <1>1, <1>2

(* A failure ends the program with one of two exit codes, its programs     *)
(* detached.                                                               *)
LEMMA FailEnds ==
  ASSUME NEW isRefused, NEW tells, Fail(isRefused, tells)
  PROVE  step' = "ended" /\ attached' = {} /\ exit' \in {77, 1}
BY DEF Fail, Exit, is_permission_error

(* What every step leaves alone, and where the program goes.               *)
LEMMA StepsStep == StepInv /\ [Next]_vars => StepInv'
<1> SUFFICES ASSUME StepInv, [Next]_vars PROVE StepInv'
  OBVIOUS
<1> USE DEF configUnchanged, loopUnchanged
<1> DEFINE AllSteps == Reading \cup Range(SensorSteps) \cup Range(TestSteps) \cup Looping \cup {"ended"}
<1>0. /\ Range(SensorSteps) \cap (Reading \cup Looping \cup {"ended"}) = {}
      /\ Range(TestSteps) \cap (Reading \cup Looping \cup {"ended"}) = {}
      /\ "object" \in Range(SensorSteps) /\ Range(Steps) \subseteq AllSteps
  BY SensorStepsAre DEF Reading, Looping, Steps
<1>1. CASE BuildNext /\ step = "build" /\ UNCHANGED commandVars
  BY <1>1 DEF StepInv, commandVars
<1>2. CASE Start
  BY <1>2, <1>0 DEF Start, StepInv, buildVars, Reading
<1>3. CASE Run
  BY <1>3, <1>0 DEF Run, Fail, Exit, StepInv, buildVars, Reading, NotYet, is_permission_error
<1>4. CASE ReadEnvironment \/ ReadArgument \/ EndArguments
  <2>1. step \in {"env", "args"} /\ UNCHANGED <<binary, mode>>
    BY <1>4 DEF ReadEnvironment, ReadArgument, EndArguments, buildVars
  <2>2. \/ step' \in {"args", "object"} /\ UNCHANGED <<attached, exit>>
        \/ step' = "ended" /\ attached' = {} /\ exit' \in {77, 1}
    BY <1>4, <2>1 DEF ReadEnvironment, ReadArgument, EndArguments, Fail, Exit, is_permission_error
  <2>3. binary # NoBinary /\ mode = "sensor" /\ exit = NotYet
    BY <2>1 DEF StepInv
  <2>4. CASE step' \in {"args", "object"} /\ UNCHANGED <<attached, exit>>
    BY <1>0, <2>1, <2>3, <2>4 DEF StepInv, Reading, Looping
  <2>5. CASE step' = "ended" /\ attached' = {} /\ exit' \in {77, 1}
    BY <2>1, <2>3, <2>5 DEF StepInv, NotYet
  <2> QED BY <2>2, <2>4, <2>5
<1>5. CASE Setup
  <2>1. /\ step \in Range(Steps) /\ step' = Follows(step) /\ mode' = mode /\ binary' = binary
        /\ exit' = exit
    BY <1>5 DEF Setup, buildVars
  <2>2. mode \in {"sensor", "self-test"} /\ step \notin Reading \cup {"ended"} \cup Looping
    BY <1>0, <2>1 DEF StepInv, Steps
  <2>3. step' \in Range(Steps) \cup {"check"}
    BY <2>1, <2>2, FollowsInside
  <2>4. step' \in AllSteps /\ step' \notin Reading \cup {"ended", "flush"}
    BY <1>0, <2>3 DEF Steps, Reading, Looping
  <2> QED BY <2>1, <2>2, <2>4 DEF StepInv, Reading
<1>6. CASE SetupFails
  <2>1. step' = "ended" /\ attached' = {} /\ exit' \in {77, 1} /\ UNCHANGED <<binary, mode>>
    BY <1>6, FailEnds DEF SetupFails, buildVars
  <2>2. step # "build"
    BY <1>0, <1>6 DEF SetupFails, Steps, Reading
  <2> QED BY <2>1, <2>2 DEF StepInv, NotYet
<1>7. CASE Event \/ DeadlinePasses
  BY <1>7 DEF Event, DeadlinePasses, StepInv, buildVars
<1>8. CASE CheckDeadline \/ TestItem \/ TakeItem \/ WriteFails \/ RingEmpty \/ Flush
  BY <1>8, <1>0 DEF CheckDeadline, TestItem, TakeItem, WriteFails, RingEmpty, Flush, Fail, Exit, StepInv,
                    buildVars, Looping, Reading, NotYet, is_permission_error
<1>9. CASE UNCHANGED vars
  BY <1>9 DEF vars, commandVars, buildVars, StepInv
<1> QED BY <1>1, <1>2, <1>3, <1>4, <1>5, <1>6, <1>7, <1>8, <1>9 DEF Next, Proceed

(* A step of run_sensor finds the programs attached that precede it.       *)
LEMMA AttachesInOrder ==
  ASSUME mode = "sensor", NEW s \in Range(SensorSteps)
  PROVE  /\ AttachedAt(Follows(s)) = IF s \in Programs THEN AttachedAt(s) \cup {s} ELSE AttachedAt(s)
         /\ LogsAt(s) => LogsAt(Follows(s))
         /\ s \in Logs => LogsAt(Follows(s))
         /\ Follows(s) # "object"
<1>1. /\ Follows("object") = "catalog" /\ Follows("catalog") = "load" /\ Follows("load") = "openat"
      /\ Follows("openat") = "exec" /\ Follows("exec") = "exit" /\ Follows("exit") = "connectEnter"
      /\ Follows("connectEnter") = "connectReturn" /\ Follows("connectReturn") = "map"
      /\ Follows("map") = "files" /\ Follows("files") = "procs" /\ Follows("procs") = "network"
      /\ Follows("network") = "check"
  <2>1. /\ SensorSteps[1] = "object" /\ SensorSteps[2] = "catalog" /\ SensorSteps[3] = "load"
        /\ SensorSteps[4] = "openat" /\ SensorSteps[5] = "exec" /\ SensorSteps[6] = "exit"
        /\ SensorSteps[7] = "connectEnter" /\ SensorSteps[8] = "connectReturn"
        /\ SensorSteps[9] = "map" /\ SensorSteps[10] = "files" /\ SensorSteps[11] = "procs"
        /\ SensorSteps[12] = "network"
    BY SensorStepsAre
  <2>2. /\ Follows(SensorSteps[1]) = SensorSteps[2] /\ Follows(SensorSteps[2]) = SensorSteps[3]
        /\ Follows(SensorSteps[3]) = SensorSteps[4] /\ Follows(SensorSteps[4]) = SensorSteps[5]
        /\ Follows(SensorSteps[5]) = SensorSteps[6] /\ Follows(SensorSteps[6]) = SensorSteps[7]
        /\ Follows(SensorSteps[7]) = SensorSteps[8] /\ Follows(SensorSteps[8]) = SensorSteps[9]
        /\ Follows(SensorSteps[9]) = SensorSteps[10] /\ Follows(SensorSteps[10]) = SensorSteps[11]
        /\ Follows(SensorSteps[11]) = SensorSteps[12]
    BY SensorFollows
  <2> QED BY <2>1, <2>2, SensorFollows
<1>2. /\ Programs = {"openat", "exec", "exit", "connectEnter", "connectReturn"}
      /\ s \in {"object", "catalog", "load", "openat", "exec", "exit", "connectEnter",
                "connectReturn", "map", "files", "procs", "network"}
  BY SensorStepsAre
<1>3. CASE s \in {"object", "catalog", "load"}
  BY <1>1, <1>2, <1>3 DEF AttachedAt, LogsAt, Looping, Logs
<1>4. CASE s \in Programs
  BY <1>1, <1>2, <1>4 DEF AttachedAt, LogsAt, Looping, Logs
<1>5. CASE s \in {"map", "files", "procs", "network"}
  BY <1>1, <1>2, <1>5 DEF AttachedAt, LogsAt, Looping, Logs
<1> QED BY <1>2, <1>3, <1>4, <1>5

(* The logs are opened last: what is open stays so, and nothing is         *)
(* detached before the end.                                                *)
LEMMA OrderStep == StepInv /\ OrderInv /\ [Next]_vars => OrderInv'
<1> SUFFICES ASSUME StepInv, OrderInv, [Next]_vars PROVE OrderInv'
  OBVIOUS
<1> USE DEF configUnchanged, loopUnchanged
<1>0. /\ Range(SensorSteps) \cap (Reading \cup Looping \cup {"ended"}) = {}
      /\ Range(TestSteps) \cap (Reading \cup Looping \cup {"ended"}) = {}
      /\ "object" \in Range(SensorSteps) /\ "object" \notin Reading
      /\ \A s \in Reading : AttachedAt(s) = {}
      /\ AttachedAt("object") = {}
      /\ \A s \in Looping : AttachedAt(s) = Programs /\ LogsAt(s)
  BY SensorStepsAre DEF Reading, Looping, AttachedAt, LogsAt
<1>1. /\ step \in Reading \/ mode = "self-test" => opened = {}
      /\ step \in Reading => attached = {}
      /\ mode = "sensor" /\ exit = NotYet => attached = AttachedAt(step) /\ (opened # {} => LogsAt(step))
  BY DEF OrderInv
<1>2. CASE UNCHANGED <<step, attached, opened, exit, mode>>
  BY <1>1, <1>2 DEF OrderInv
<1>3. CASE Start
  BY <1>0, <1>1, <1>3 DEF Start, OrderInv, Reading
<1>4. ASSUME step' = "ended" /\ attached' = {} /\ exit' \in {77, 1, 0} /\ UNCHANGED <<mode, opened>>
      PROVE  OrderInv'
  BY <1>1, <1>4 DEF OrderInv, NotYet, Reading
<1>5. CASE Run
  <2>1. step = "run" /\ opened' = {} /\ attached = {}
    BY <1>1, <1>5 DEF Run, Reading
  <2>2. \/ step' \in {"object", "env"} /\ attached' = {}
        \/ step' = "ended" /\ exit' \in {77, 1, 0}
    BY <1>5, <2>1, FailEnds DEF Run, Exit
  <2>3. (mode' = "sensor" => step' = "env") /\ UNCHANGED opened
    BY <1>5, <2>1 DEF Run
  <2> QED BY <1>0, <2>1, <2>2, <2>3 DEF OrderInv, Reading, NotYet
<1>6. CASE ReadEnvironment \/ ReadArgument \/ EndArguments
  <2>1. /\ step \in {"env", "args"} /\ opened' = {} /\ attached = {} /\ mode' = "sensor"
        /\ UNCHANGED <<mode, opened>>
    BY <1>1, <1>6 DEF ReadEnvironment, ReadArgument, EndArguments, Reading, StepInv
  <2>2. \/ step' \in {"args", "object"} /\ attached' = {}
        \/ step' = "ended" /\ attached' = {} /\ exit' \in {77, 1}
    BY <1>6, <2>1, FailEnds DEF ReadEnvironment, ReadArgument, EndArguments
  <2> QED BY <1>0, <2>1, <2>2, <1>4 DEF OrderInv, Reading
<1>7. CASE Setup
  <2>1. /\ step \in Range(Steps) /\ step' = Follows(step) /\ UNCHANGED <<mode, exit>>
        /\ attached' = IF step \in Programs THEN attached \cup {step} ELSE attached
        /\ opened' = opened \/ (step \in Logs /\ opened' = opened \cup {step})
    BY <1>7 DEF Setup
  <2>2. mode \in {"sensor", "self-test"} /\ step \notin Reading \cup {"ended"}
    BY <1>0, <2>1 DEF StepInv, Steps
  <2>3. step' \notin Reading
    <3>1. step' \in Range(Steps) \cup {"check"}
      BY <2>1, <2>2, FollowsInside
    <3> QED BY <1>0, <3>1 DEF Steps, Reading
  <2>4. CASE mode = "self-test"
    <3>1. step \notin Logs
      BY <2>1, <2>4, SensorStepsAre DEF Steps, Logs
    <3> QED BY <1>1, <2>1, <2>3, <2>4, <3>1 DEF OrderInv
  <2>5. CASE mode = "sensor"
    <3>1. step \in Range(SensorSteps)
      BY <2>1, <2>5 DEF Steps
    <3>2. /\ AttachedAt(step') = IF step \in Programs THEN AttachedAt(step) \cup {step}
                                                             ELSE AttachedAt(step)
          /\ LogsAt(step) => LogsAt(step')
          /\ step \in Logs => LogsAt(step')
      BY <2>1, <2>5, <3>1, AttachesInOrder
    <3>3. mode' = "sensor" /\ mode' # "self-test"
      BY <2>1, <2>5
    <3> QED BY <1>1, <2>1, <2>3, <2>5, <3>2, <3>3 DEF OrderInv
  <2> QED BY <2>2, <2>4, <2>5
<1>8. CASE SetupFails
  BY <1>4, <1>8, FailEnds DEF SetupFails
<1>9. CASE CheckDeadline \/ TestItem \/ TakeItem \/ WriteFails \/ RingEmpty \/ Flush
  <2>1. UNCHANGED <<mode, opened>> /\ step \in Looping
    BY <1>9 DEF CheckDeadline, TestItem, TakeItem, WriteFails, RingEmpty, Flush, Looping
  <2>2. \/ step' \in Looping /\ UNCHANGED <<attached, exit>>
        \/ step' = "ended" /\ attached' = {} /\ exit' \in {77, 1, 0}
    BY <1>9, FailEnds DEF CheckDeadline, TestItem, TakeItem, WriteFails, RingEmpty, Flush, Looping, Exit
  <2>3. CASE step' \in Looping /\ UNCHANGED <<attached, exit>>
    BY <1>0, <1>1, <2>1, <2>3 DEF OrderInv, Reading, Looping
  <2> QED BY <1>4, <2>1, <2>2, <2>3
<1>10. CASE Event \/ DeadlinePasses
  BY <1>2, <1>10 DEF Event, DeadlinePasses
<1>11. CASE BuildNext /\ step = "build" /\ UNCHANGED commandVars
  BY <1>2, <1>11 DEF commandVars
<1>12. CASE UNCHANGED vars
  BY <1>2, <1>12 DEF vars, commandVars
<1> QED BY <1>3, <1>5, <1>6, <1>7, <1>8, <1>9, <1>10, <1>11, <1>12 DEF Next, Proceed

(* A log that is there before the sensor has ended was opened after every  *)
(* program was attached, whatever step fails and whatever the command line:*)
(* what the gates that wait for the log rely on.                           *)
THEOREM ReadyOnceAttached == Spec => []ReadyMeansAttached
<1>1. Init => StepInv /\ OrderInv
  BY DEF Init, BuildInit, StepInv, OrderInv, Reading, AttachedAt, Looping, NotYet, None
<1>2. StepInv /\ OrderInv => ReadyMeansAttached
  <2> SUFFICES ASSUME StepInv, OrderInv, opened # {}, exit = NotYet PROVE attached = Programs
    BY DEF ReadyMeansAttached
  <2>1. step \notin Reading \cup {"ended"} /\ mode = "sensor"
    BY DEF StepInv, OrderInv
  <2>2. attached = AttachedAt(step) /\ LogsAt(step)
    BY <2>1 DEF OrderInv
  <2> QED BY <2>2 DEF AttachedAt, LogsAt, Looping
<1> QED BY <1>1, <1>2, StepsStep, OrderStep, PTL DEF Spec

-----------------------------------------------------------------------------
(* The rows of a sensor: all it owes, or none.                             *)
LEMMA RowsStep == StepInv /\ RowsInv /\ [Next]_vars => RowsInv'
<1> SUFFICES ASSUME StepInv, RowsInv, [Next]_vars PROVE RowsInv'
  OBVIOUS
<1> USE DEF configUnchanged, loopUnchanged
<1>0. /\ Range(SensorSteps) \cap (Reading \cup Looping \cup {"ended"}) = {}
      /\ Range(TestSteps) \cap (Reading \cup Looping \cup {"ended"}) = {}
      /\ "object" \in Range(SensorSteps) /\ "object" \notin Reading \cup Looping
      /\ (Reading \cup {"ended"}) \cap Looping = {}
  BY SensorStepsAre DEF Reading, Looping
<1>1. /\ step \in Reading => due = 0 /\ rows = 0
      /\ mode = "sensor" /\ step \notin Reading \cup {"ended"} => linux
      /\ mode = "sensor" /\ step = "object" => due = 0 /\ rows = 0
      /\ mode = "sensor" /\ exit # 1 /\ exit # 77 /\ step \notin Reading \cup {"object"} =>
          /\ linux /\ object = Loaded /\ object \in Layouts /\ due \in Nat
          /\ rows = IF TooShort(object) THEN 0 ELSE due
  BY DEF RowsInv
<1>2. UNCHANGED <<objEnv, buildVars, object>> =>
        UNCHANGED linux /\ Loaded' = Loaded /\ TooShort(object)' = TooShort(object)
  BY DEF buildVars, Loaded, TooShort
<1>3. CASE step = "build" /\ UNCHANGED commandVars
  BY <1>1, <1>3 DEF RowsInv, commandVars, Reading
<1>4. CASE Start
  BY <1>1, <1>4 DEF Start, RowsInv, Reading
\* A failure leaves nothing to show.
<1>5. ASSUME step' = "ended" /\ exit' \in {77, 1} PROVE RowsInv'
  BY <1>5 DEF RowsInv, Reading
<1>6. CASE Run
  <2>1. step = "run" /\ due' = 0 /\ rows' = 0 /\ (mode' = "sensor" => step' = "env")
    BY <1>1, <1>6 DEF Run, Reading
  <2> QED BY <2>1 DEF RowsInv, Reading
<1>7. CASE ReadEnvironment \/ ReadArgument \/ EndArguments
  <2>1. step \in {"env", "args"} /\ due' = 0 /\ rows' = 0
    BY <1>1, <1>7 DEF ReadEnvironment, ReadArgument, EndArguments, Reading
  <2>2. \/ step' = "args"
        \/ step' = "object" /\ linux'
        \/ step' = "ended" /\ exit' \in {77, 1}
    <3>1. CASE ReadEnvironment
      BY <3>1, FailEnds DEF ReadEnvironment
    <3>2. CASE ReadArgument
      BY <3>2, FailEnds DEF ReadArgument
    <3>3. CASE EndArguments
      BY <3>3, FailEnds DEF EndArguments, buildVars
    <3> QED BY <1>7, <3>1, <3>2, <3>3
  <2> QED BY <1>5, <2>1, <2>2 DEF RowsInv, Reading
<1>8. CASE Setup
  <2>1. /\ step \in Range(Steps) /\ step' = Follows(step)
        /\ UNCHANGED <<mode, exit, due, rows, objEnv, buildVars>>
        /\ IF step = "object" THEN Loaded \in Layouts /\ object' = Loaded ELSE object' = object
    BY <1>8 DEF Setup
  <2>2. mode \in {"sensor", "self-test"} /\ step \notin Reading \cup {"ended"}
    BY <1>0, <2>1 DEF StepInv, Steps
  <2>3. step' \notin Reading \cup {"ended"}
    <3>1. step' \in Range(Steps) \cup {"check"}
      BY <2>1, <2>2, FollowsInside
    <3> QED BY <1>0, <3>1 DEF Steps, Reading, Looping
  <2>4. CASE mode = "sensor"
    <3>1. step' # "object" /\ linux'
      BY <1>1, <2>1, <2>2, <2>4, AttachesInOrder DEF Steps, buildVars
    <3>2. CASE step = "object"
      <4>1. object' = Loaded' /\ object' \in Layouts /\ rows' = 0 /\ due' = 0
        BY <1>1, <2>1, <2>4, <3>2 DEF Loaded, buildVars
      <4> QED BY <2>3, <3>1, <4>1 DEF RowsInv
    <3>3. CASE step # "object"
      <4>1. Loaded' = Loaded /\ TooShort(object)' = TooShort(object) /\ object' = object
        BY <1>2, <2>1, <3>3
      <4> QED BY <1>1, <2>1, <2>2, <2>3, <2>4, <3>1, <3>3, <4>1 DEF RowsInv
    <3> QED BY <3>2, <3>3
  <2>5. CASE mode = "self-test"
    BY <2>1, <2>3, <2>5 DEF RowsInv
  <2> QED BY <2>2, <2>4, <2>5
<1>9. CASE SetupFails
  BY <1>5, <1>9, FailEnds DEF SetupFails
<1>10. CASE CheckDeadline \/ RingEmpty \/ Flush \/ Event \/ DeadlinePasses
  <2>1. UNCHANGED <<mode, object, objEnv, buildVars, due, rows>>
    BY <1>10 DEF CheckDeadline, RingEmpty, Flush, Event, DeadlinePasses
  <2>2. \/ UNCHANGED <<step, exit>>
        \/ step \in Looping /\ step' \in Looping /\ UNCHANGED exit
        \/ step \in Looping /\ step' = "ended" /\ exit' = 0 /\ exit = NotYet
        \/ step' = "ended" /\ exit' \in {77, 1}
    BY <1>10, FailEnds DEF CheckDeadline, RingEmpty, Flush, Event, DeadlinePasses, Looping, Exit, StepInv
  <2>3. CASE UNCHANGED <<step, exit>>
    BY <1>1, <1>2, <2>1, <2>3 DEF RowsInv
  <2>4. CASE step \in Looping /\ step' \in Looping /\ UNCHANGED exit
    BY <1>0, <1>1, <1>2, <2>1, <2>4 DEF RowsInv
  <2>5. CASE step \in Looping /\ step' = "ended" /\ exit' = 0 /\ exit = NotYet
    <3>1. mode = "sensor" => /\ linux /\ object = Loaded /\ object \in Layouts /\ due \in Nat
                             /\ rows = IF TooShort(object) THEN 0 ELSE due
      BY <1>0, <1>1, <2>5 DEF NotYet
    <3>2. step' \notin Reading \cup {"object"}
      BY <2>5 DEF Reading
    <3> QED BY <1>2, <2>1, <2>5, <3>1, <3>2 DEF RowsInv
  <2> QED BY <1>5, <2>2, <2>3, <2>4, <2>5
<1>11. CASE TestItem \/ TakeItem
  <2>1. /\ step = "drain" /\ UNCHANGED <<mode, object, objEnv, buildVars>>
        /\ exit = NotYet /\ mode \in {"sensor", "self-test"} /\ step \notin Reading \cup {"object"}
    BY <1>11 DEF TestItem, TakeItem, StepInv, Reading
  <2>2. CASE TakeItem
    <3>1. UNCHANGED <<step, exit>> /\ mode = "sensor"
      BY <2>2 DEF TakeItem
    <3>2. \/ due' = due /\ rows' = rows
          \/ due' = due + 1 /\ rows' = IF TooShort(object) THEN rows ELSE rows + 1
      BY <2>2 DEF TakeItem
    <3>3. due' \in Nat /\ rows' = IF TooShort(object) THEN 0 ELSE due'
      BY <1>1, <2>1, <3>1, <3>2 DEF NotYet
    <3> QED BY <1>1, <1>2, <2>1, <3>1, <3>3 DEF RowsInv, NotYet
  <2>3. CASE TestItem
    <3>1. step' \notin Reading /\ mode = "self-test"
      BY <2>1, <2>3 DEF TestItem, Exit, Reading
    <3> QED BY <2>1, <3>1 DEF RowsInv
  <2> QED BY <1>11, <2>2, <2>3
<1>12. CASE WriteFails
  BY <1>5, <1>12, FailEnds DEF WriteFails
<1>13. CASE UNCHANGED vars
  BY <1>1, <1>2, <1>13 DEF vars, commandVars, RowsInv
<1> QED BY <1>3, <1>4, <1>6, <1>7, <1>8, <1>9, <1>10, <1>11, <1>12, <1>13 DEF Next, Proceed

(* A sensor that ended well and wrote fewer rows than its configuration    *)
(* asks for of the events it drained wrote none: its object is of an older *)
(* layout than the program, and so was snoop-common when build.rs ran,     *)
(* unless someone handed the object in.                                    *)
THEOREM SilenceIsStaleness == Spec => []SilentSensorIsStale
<1>1. Init => StepInv /\ RowsInv
  BY DEF Init, BuildInit, StepInv, RowsInv, Reading, NotYet, None
<1>2. BuildInv /\ StepInv /\ RowsInv => SilentSensorIsStale
  <2> SUFFICES ASSUME BuildInv, StepInv, RowsInv, exit = 0, mode = "sensor", rows < due
               PROVE  /\ rows = 0 /\ object < binary.layout
                      /\ ~objEnv /\ ~binary.env.obj => binary.scriptCommon < binary.layout
    BY DEF SilentSensorIsStale
  <2>1. step = "ended" /\ binary # NoBinary
    BY DEF StepInv, NotYet
  <2>2. /\ linux /\ object = Loaded /\ object \in Layouts /\ due \in Nat
        /\ rows = IF TooShort(object) THEN 0 ELSE due
    BY <2>1 DEF RowsInv, Reading
  <2>3. rows = 0 /\ object < binary.layout
    BY <2>2 DEF TooShort
  <2>4. ASSUME ~objEnv, ~binary.env.obj PROVE object = binary.scriptCommon
    <3>1. Fits(binary.env, binary.embedded, binary.scriptCommon) /\ object = binary.embedded
      BY <2>1, <2>2, <2>4 DEF BuildInv, Loaded
    <3>2. object # Empty
      BY <2>2 DEF Layouts, Empty
    <3> QED BY <2>4, <3>1, <3>2 DEF Fits
  <2> QED BY <2>3, <2>4
<1> QED BY <1>1, <1>2, BuildStarts, BuildStep, StepsStep, RowsStep, PTL DEF Spec

-----------------------------------------------------------------------------
(* What is left to read is the end of the command line.                    *)
WordsInv ==
    /\ words \in Seq(STRING) /\ args \in Seq(STRING) /\ Len(args) <= Len(words)
    /\ \A k \in DOMAIN args : args[k] = words[Len(words) - Len(args) + k]
    /\ step \in {"build", "run", "env"} => args = words

LEMMA WordsStep == StepInv /\ WordsInv /\ [Next]_vars => WordsInv'
<1> SUFFICES ASSUME StepInv, WordsInv, [Next]_vars PROVE WordsInv'
  OBVIOUS
<1> USE DEF configUnchanged, loopUnchanged
<1>1. CASE Start
  <2>1. words' \in Seq(STRING) /\ args' = words' /\ step' = "run"
    BY <1>1, LinesAreWords DEF Start
  <2>2. Len(words') \in Nat /\ DOMAIN words' = 1..Len(words')
    BY <2>1
  <2>3. \A k \in DOMAIN args' : args'[k] = words'[Len(words') - Len(args') + k]
    BY <2>1, <2>2
  <2> QED BY <2>1, <2>2, <2>3 DEF WordsInv
<1>2. CASE ReadArgument
  <2>1. /\ words \in Seq(STRING) /\ args \in Seq(STRING) /\ Len(args) <= Len(words) /\ args # <<>>
        /\ words' = words /\ step' \in {"args", "ended"}
        /\ \A k \in DOMAIN args : args[k] = words[Len(words) - Len(args) + k]
    BY <1>2, FailEnds DEF ReadArgument, WordsInv
  <2>2. \/ args' = args
        \/ args' = Tail(args)
        \/ Len(args) > 1 /\ args' = Tail(Tail(args))
    BY <1>2 DEF ReadArgument
  <2>3. /\ Tail(args) \in Seq(STRING) /\ Len(Tail(args)) = Len(args) - 1
        /\ \A k \in 1..(Len(args) - 1) : Tail(args)[k] = args[k + 1]
    BY <2>1
  <2>4. ASSUME Len(args) > 1
        PROVE  /\ Tail(Tail(args)) \in Seq(STRING) /\ Len(Tail(Tail(args))) = Len(args) - 2
               /\ \A k \in 1..(Len(args) - 2) : Tail(Tail(args))[k] = args[k + 2]
    <3>1. Tail(args) # <<>>
      BY <2>1, <2>3, <2>4
    <3>2. /\ Tail(Tail(args)) \in Seq(STRING) /\ Len(Tail(Tail(args))) = Len(args) - 2
          /\ \A k \in 1..(Len(args) - 2) : Tail(Tail(args))[k] = Tail(args)[k + 1]
      BY <2>3, <3>1
    <3> QED BY <2>1, <2>3, <3>2
  <2>5. /\ args' \in Seq(STRING) /\ Len(args') <= Len(args)
        /\ \A k \in 1..Len(args') : args'[k] = args[Len(args) - Len(args') + k]
    <3>1. CASE args' = args
      BY <2>1, <3>1
    <3>2. CASE args' = Tail(args)
      BY <2>1, <2>3, <3>2
    <3>3. CASE Len(args) > 1 /\ args' = Tail(Tail(args))
      <4>1. args' \in Seq(STRING) /\ Len(args') = Len(args) - 2 /\ Len(args) \in Nat
        BY <2>1, <2>4, <3>3
      <4>2. \A k \in 1..Len(args') : Len(args) - Len(args') + k = k + 2
        BY <4>1
      <4>3. \A k \in 1..Len(args') : args'[k] = args[k + 2]
        BY <2>4, <3>3, <4>1
      <4>4. \A k \in 1..Len(args') : args'[k] = args[Len(args) - Len(args') + k]
        BY Zenon, <4>2, <4>3
      <4>5. Len(args') <= Len(args)
        BY <4>1
      <4> QED BY <4>1, <4>4, <4>5
    <3> QED BY <2>2, <3>1, <3>2, <3>3
  <2>6. \A k \in DOMAIN args' : args'[k] = words'[Len(words') - Len(args') + k]
    <3> SUFFICES ASSUME NEW k \in 1..Len(args')
                 PROVE  args'[k] = words[Len(words) - Len(args') + k]
      <4>1. DOMAIN args' = 1..Len(args') /\ words' = words
        BY <2>1, <2>5
      <4> QED BY <4>1
    <3>1. Len(args) \in Nat /\ Len(args') \in Nat /\ Len(words) \in Nat /\ DOMAIN args = 1..Len(args)
      BY <2>1, <2>5
    <3>2. Len(args) - Len(args') + k \in DOMAIN args
      BY <2>5, <3>1
    <3>3. Len(words) - Len(args) + (Len(args) - Len(args') + k) = Len(words) - Len(args') + k
      BY <3>1
    <3> QED BY <2>1, <2>5, <3>2, <3>3
  <2> QED BY <2>1, <2>5, <2>6 DEF WordsInv
<1>3. CASE Setup
  <2>1. step \in Range(Steps) /\ step' = Follows(step) /\ UNCHANGED <<words, args>>
    BY <1>3 DEF Setup
  <2>2. mode \in {"sensor", "self-test"}
    BY <2>1, SensorStepsAre DEF StepInv, Steps, Reading
  <2>3. step' \in Range(Steps) \cup {"check"}
    BY <2>1, <2>2, FollowsInside
  <2>4. step' \notin {"build", "run", "env"}
    BY <2>3, SensorStepsAre DEF Steps
  <2> QED BY <2>1, <2>4 DEF WordsInv
<1>4. ASSUME UNCHANGED <<words, args>>,
             step' \in {"build", "run", "env"} => step \in {"build", "run", "env"}
      PROVE  WordsInv'
  BY <1>4 DEF WordsInv
<1>5. CASE Run \/ ReadEnvironment \/ EndArguments
  <2>1. UNCHANGED <<words, args>>
    BY <1>5 DEF Run, ReadEnvironment, EndArguments
  <2>2. step' \in {"build", "run", "env"} => step \in {"build", "run", "env"}
    <3>1. CASE Run
      BY <3>1 DEF Run
    <3>2. CASE ReadEnvironment
      BY <3>2 DEF ReadEnvironment
    <3>3. CASE EndArguments
      BY <3>3, FailEnds DEF EndArguments
    <3> QED BY <1>5, <3>1, <3>2, <3>3
  <2> QED BY <1>4, <2>1, <2>2
<1>6. CASE SetupFails \/ WriteFails
  BY <1>4, <1>6, FailEnds DEF SetupFails, WriteFails
<1>7. CASE CheckDeadline \/ TestItem \/ TakeItem \/ RingEmpty \/ Flush
  BY <1>4, <1>7, FailEnds DEF CheckDeadline, TestItem, TakeItem, RingEmpty, Flush, Exit
<1>8. CASE Event \/ DeadlinePasses
  BY <1>4, <1>8 DEF Event, DeadlinePasses
<1>9. CASE UNCHANGED commandVars
  BY <1>4, <1>9 DEF commandVars
<1> QED BY <1>1, <1>2, <1>3, <1>5, <1>6, <1>7, <1>8, <1>9 DEF Next, Proceed, vars

(* What reads like a refusal is one, or a word the sensor was given.       *)
LEMMA SkippedStep ==
  ASSUME StepInv, WordsInv, SkippedMeansRefused, [Next]_vars
  PROVE  SkippedMeansRefused'
<1> USE DEF configUnchanged, loopUnchanged
<1>1. exit # NotYet => step = "ended"
  BY DEF StepInv
<1>2. CASE UNCHANGED <<exit, refused, mode, words>>
  BY <1>2 DEF SkippedMeansRefused
<1>3. ASSUME NEW tells, tells \/ ~tells, Fail(TRUE, tells) PROVE SkippedMeansRefused'
  BY <1>3 DEF Fail, SkippedMeansRefused
<1>4. ASSUME Fail(FALSE, FALSE) \/ Exit(0) PROVE SkippedMeansRefused'
  BY <1>4 DEF Fail, Exit, is_permission_error, SkippedMeansRefused
<1>5. CASE ReadArgument
  <2>1. /\ step = "args" /\ args # <<>> /\ UNCHANGED <<mode, words>> /\ mode = "sensor"
        /\ exit = NotYet
    BY <1>5 DEF ReadArgument, StepInv
  <2>2. CASE UNCHANGED <<exit, refused>>
    BY <1>2, <2>1, <2>2
  <2>3. CASE Fail(FALSE, Head(args) \notin Settings /\ Head(args) \in Telling)
    <3>1. exit' = 77 => Head(args) \in Telling
      BY <2>3 DEF Fail, Exit, is_permission_error
    <3>2. \E k \in DOMAIN words : words[k] = Head(args)
      <4>1. /\ words \in Seq(STRING) /\ args \in Seq(STRING) /\ Len(args) <= Len(words)
            /\ 1 \in DOMAIN args /\ args[1] = Head(args)
            /\ args[1] = words[Len(words) - Len(args) + 1]
        BY <2>1 DEF WordsInv
      <4>2. Len(words) - Len(args) + 1 \in DOMAIN words
        BY <4>1
      <4> QED BY <4>1, <4>2
    <3> QED BY <2>1, <3>1, <3>2 DEF SkippedMeansRefused
  <2> QED BY <1>5, <2>2, <2>3 DEF ReadArgument
<1>6. CASE Run
  <2>1. exit = NotYet
    BY <1>1, <1>6 DEF Run
  <2>2. exit' = exit \/ Fail(FALSE, FALSE) \/ Exit(0)
    BY <1>6 DEF Run
  <2>3. CASE exit' = exit
    BY <2>1, <2>3 DEF SkippedMeansRefused, NotYet
  <2> QED BY <1>4, <2>2, <2>3
<1>7. CASE ReadEnvironment \/ EndArguments
  BY <1>2, <1>4, <1>7 DEF ReadEnvironment, EndArguments
<1>8. CASE SetupFails
  BY <1>3, <1>4, <1>8 DEF SetupFails
<1>9. CASE CheckDeadline \/ TestItem \/ TakeItem \/ WriteFails \/ RingEmpty \/ Flush \/ Event \/ DeadlinePasses
  <2>1. UNCHANGED <<exit, refused>> \/ Fail(FALSE, FALSE) \/ Exit(0)
    BY <1>9 DEF CheckDeadline, TestItem, TakeItem, WriteFails, RingEmpty, Flush, Event, DeadlinePasses
  <2>2. UNCHANGED <<mode, words>>
    BY <1>9 DEF CheckDeadline, TestItem, TakeItem, WriteFails, RingEmpty, Flush, Event, DeadlinePasses
  <2> QED BY <1>2, <1>4, <2>1, <2>2
<1>10. CASE Start
  BY <1>1, <1>10 DEF Start, SkippedMeansRefused, NotYet
<1>11. CASE Setup
  BY <1>2, <1>11 DEF Setup
<1>12. CASE UNCHANGED commandVars
  BY <1>2, <1>12 DEF commandVars
<1> QED BY <1>5, <1>6, <1>7, <1>8, <1>9, <1>10, <1>11, <1>12 DEF Next, Proceed, vars

(* Exit code 77, by which the tests are skipped, follows a refusal of the  *)
(* kernel, or a word of the sensor's own command line that reads like one. *)
THEOREM SkippedOnlyIfRefused == Spec => []SkippedMeansRefused
<1>1. Init => StepInv /\ WordsInv /\ SkippedMeansRefused
  <2> SUFFICES ASSUME Init PROVE StepInv /\ WordsInv /\ SkippedMeansRefused
    OBVIOUS
  <2>1. StepInv
    BY DEF Init, BuildInit, StepInv, Reading, NotYet, None
  <2>2. words = <<>> /\ args = <<>> /\ <<>> \in Seq(STRING) /\ Len(<<>>) = 0 /\ exit = NotYet
    BY DEF Init
  <2> QED BY <2>1, <2>2 DEF WordsInv, SkippedMeansRefused, NotYet
<1> QED BY <1>1, StepsStep, WordsStep, SkippedStep, PTL DEF Spec

-----------------------------------------------------------------------------
(* What the loop over the arguments has read: the flags before the next    *)
(* word, each with its value, and of each setting the last one.            *)
At == Len(words) - Len(args) + 1

Known(c, s, p) ==
    \/ c[s] = FromEnv(s) /\ \A k \in Said(s) : k >= p
    \/ \E k \in Said(s) : /\ k < p /\ c[s] = words[k + 1]
                          /\ \A j \in Said(s) : j < p => j <= k

ReadTo(c, p) ==
    /\ p \in DOMAIN words => p \in Flags
    /\ \A k \in Flags : k < p => \/ words[k] = "--sensor" /\ k + 1 <= p
                                 \/ words[k] \in Settings /\ k + 2 <= p
    /\ DOMAIN c = Settings /\ \A s \in Settings : Known(c, s, p)

ReadInv ==
    mode = "sensor" /\ step \in {"args"} \cup Range(SensorSteps) =>
        ReadTo(config, At) /\ (step # "args" => args = <<>>)

(* The least set exists: the flags are closed themselves.                  *)
LEMMA FlagsAreClosed ==
  ASSUME words \in Seq(STRING)
  PROVE  /\ Flags \subseteq DOMAIN words /\ Closed(Flags) /\ DOMAIN words = 1..Len(words)
         /\ Len(words) \in Nat
         /\ \A F \in SUBSET DOMAIN words : Closed(F) => Flags \subseteq F
<1>1. Flags \subseteq DOMAIN words /\ DOMAIN words = 1..Len(words) /\ Len(words) \in Nat
  BY DEF Flags
<1>2. \A F \in SUBSET DOMAIN words : Closed(F) => Flags \subseteq F
  BY DEF Flags
<1>3. 1 \in DOMAIN words => 1 \in Flags
  BY DEF Flags, Closed
<1>4. ASSUME NEW k \in Flags, words[k] = "--sensor", k + 1 \in DOMAIN words PROVE k + 1 \in Flags
  BY <1>4 DEF Flags, Closed
<1>5. ASSUME NEW k \in Flags, words[k] \in Settings, k + 2 \in DOMAIN words PROVE k + 2 \in Flags
  BY <1>5 DEF Flags, Closed
<1> QED BY <1>1, <1>2, <1>3, <1>4, <1>5 DEF Closed

(* The value of a setting is not a flag, however it looks.                 *)
LEMMA ValueIsNoFlag ==
  ASSUME words \in Seq(STRING), NEW p \in Flags, words[p] \in Settings,
         \A k \in Flags : k < p => \/ words[k] = "--sensor" /\ k + 1 <= p
                                   \/ words[k] \in Settings /\ k + 2 <= p
  PROVE  p + 1 \notin Flags
<1> DEFINE F == {k \in DOMAIN words : (k \in Flags /\ k <= p) \/ k >= p + 2}
<1>1. /\ Flags \subseteq DOMAIN words /\ Closed(Flags) /\ DOMAIN words = 1..Len(words)
      /\ Len(words) \in Nat /\ p \in Nat /\ p \in DOMAIN words
  BY FlagsAreClosed
<1>2. words[p] # "--sensor"
  BY DEF Settings
<1>3. 1 \in DOMAIN words => 1 \in F
  BY <1>1 DEF Closed
<1>4. ASSUME NEW k \in F, words[k] = "--sensor", k + 1 \in DOMAIN words PROVE k + 1 \in F
  <2>1. CASE k >= p + 2
    BY <1>1, <1>4, <2>1
  <2>2. CASE k \in Flags /\ k <= p
    <3>1. k # p /\ k + 1 \in Flags /\ k \in Nat
      BY <1>1, <1>2, <1>4, <2>2 DEF Closed
    <3>2. k + 1 <= p
      BY <1>1, <2>2, <3>1
    <3> QED BY <1>4, <3>1, <3>2
  <2> QED BY <2>1, <2>2
<1>5. ASSUME NEW k \in F, words[k] \in Settings, k + 2 \in DOMAIN words PROVE k + 2 \in F
  <2>1. CASE k >= p + 2
    BY <1>1, <1>5, <2>1
  <2>2. CASE k = p
    BY <1>1, <1>5, <2>2
  <2>3. CASE k \in Flags /\ k < p
    <3>1. k + 2 \in Flags /\ words[k] # "--sensor"
      BY <1>1, <1>5, <2>3 DEF Closed, Settings
    <3>2. k + 2 <= p
      BY <2>3, <3>1
    <3> QED BY <1>5, <3>1, <3>2
  <2> QED BY <1>1, <2>1, <2>2, <2>3
<1>6. Flags \subseteq F
  BY <1>3, <1>4, <1>5, FlagsAreClosed DEF Closed
<1> QED BY <1>1, <1>6

(* Past a "--sensor" as much is known as before it.                        *)
LEMMA ReadSensor ==
  ASSUME words \in Seq(STRING), NEW c, NEW p \in DOMAIN words, ReadTo(c, p),
         words[p] = "--sensor"
  PROVE  ReadTo(c, p + 1)
<1>1. /\ Flags \subseteq DOMAIN words /\ Closed(Flags) /\ DOMAIN words = 1..Len(words)
      /\ Len(words) \in Nat /\ p \in Nat /\ p \in Flags
  BY FlagsAreClosed DEF ReadTo
<1>2. p + 1 \in DOMAIN words => p + 1 \in Flags
  BY <1>1 DEF Closed
<1>3. \A k \in Flags : k \in Nat /\ (k < p + 1 => k < p \/ k = p)
  BY <1>1
<1>4. ASSUME NEW k \in Flags, k < p + 1
      PROVE  \/ words[k] = "--sensor" /\ k + 1 <= p + 1
             \/ words[k] \in Settings /\ k + 2 <= p + 1
  <2>1. CASE k = p
    BY <1>1, <2>1
  <2>2. CASE k < p
    BY <1>1, <1>3, <2>2 DEF ReadTo
  <2> QED BY <1>3, <1>4, <2>1, <2>2
<1>5. ASSUME NEW s \in Settings PROVE Known(c, s, p + 1)
  <2>1. \A k \in Said(s) : k \in Flags /\ k # p
    BY DEF Said, Settings
  <2>2. \A k \in Said(s) : (k < p + 1 <=> k < p) /\ (k >= p => k >= p + 1)
    BY <1>1, <1>3, <2>1
  <2>3. Known(c, s, p)
    BY DEF ReadTo
  <2> QED BY <2>2, <2>3 DEF Known
<1> QED BY <1>2, <1>4, <1>5 DEF ReadTo

(* Past a setting and its value, that value is the last one said.          *)
LEMMA ReadSetting ==
  ASSUME words \in Seq(STRING), NEW c, NEW p \in DOMAIN words, ReadTo(c, p),
         words[p] \in Settings
  PROVE  ReadTo([c EXCEPT ![words[p]] = words[p + 1]], p + 2)
<1> DEFINE d == [c EXCEPT ![words[p]] = words[p + 1]]
<1>1. /\ Flags \subseteq DOMAIN words /\ Closed(Flags) /\ DOMAIN words = 1..Len(words)
      /\ Len(words) \in Nat /\ p \in Nat /\ p \in Flags
  BY FlagsAreClosed DEF ReadTo
<1>2. p + 2 \in DOMAIN words => p + 2 \in Flags
  BY <1>1 DEF Closed
<1>3. \A k \in Flags : k < p => \/ words[k] = "--sensor" /\ k + 1 <= p
                                \/ words[k] \in Settings /\ k + 2 <= p
  BY DEF ReadTo
<1>4. p + 1 \notin Flags
  BY <1>1, <1>3, ValueIsNoFlag
<1>5. \A k \in Flags : k \in Nat /\ k # p + 1
  BY <1>1, <1>4
<1>6. \A k \in Flags : k < p + 2 => k < p \/ k = p
  BY <1>1, <1>5
<1>7. ASSUME NEW k \in Flags, k < p + 2
      PROVE  \/ words[k] = "--sensor" /\ k + 1 <= p + 2
             \/ words[k] \in Settings /\ k + 2 <= p + 2
  <2>1. CASE k = p
    BY <1>1, <2>1
  <2>2. CASE k < p
    BY <1>1, <1>3, <1>5, <2>2
  <2> QED BY <1>6, <1>7, <2>1, <2>2
<1>8. DOMAIN c = Settings /\ DOMAIN d = Settings
  BY DEF ReadTo
<1>9. ASSUME NEW s \in Settings PROVE Known(d, s, p + 2)
  <2>1. \A k \in Said(s) : k \in Nat /\ k \in Flags /\ words[k] = s
    BY <1>5 DEF Said
  <2>2. CASE s = words[p]
    <3>1. p \in Said(s) /\ d[s] = words[p + 1]
      BY <1>1, <1>8, <2>2 DEF Said
    <3>2. p < p + 2 /\ \A j \in Said(s) : j < p + 2 => j <= p
      BY <1>1, <1>6, <2>1
    <3> QED BY <3>1, <3>2 DEF Known
  <2>3. CASE s # words[p]
    <3>1. d[s] = c[s] /\ \A k \in Said(s) : k # p
      BY <1>8, <2>1, <2>3
    <3>2. \A k \in Said(s) : (k < p + 2 <=> k < p) /\ (k >= p => k >= p + 2)
      BY <1>1, <1>5, <2>1, <3>1
    <3>3. Known(c, s, p)
      BY DEF ReadTo
    <3> HIDE DEF d
    <3> QED BY <3>1, <3>2, <3>3 DEF Known
  <2> QED BY <2>2, <2>3
<1> QED BY <1>2, <1>7, <1>8, <1>9 DEF ReadTo

(* Before the first word nothing is known but the environment.             *)
LEMMA ReadNothing ==
  ASSUME words \in Seq(STRING)
  PROVE  ReadTo([s \in Settings |-> FromEnv(s)], 1)
<1>1. Flags \subseteq DOMAIN words /\ Closed(Flags) /\ DOMAIN words = 1..Len(words)
  BY FlagsAreClosed
<1>2. \A k \in Flags : k \in Nat /\ k >= 1
  BY <1>1
<1>3. \A s \in Settings : \A k \in Said(s) : k >= 1
  BY <1>2 DEF Said
<1>4. 1 \in DOMAIN words => 1 \in Flags
  BY <1>1 DEF Closed
<1> QED BY <1>2, <1>3, <1>4 DEF ReadTo, Known

(* What the words mean depends on the words and the variables.             *)
LEMMA ReadUnchanged ==
  ASSUME UNCHANGED <<words, env>>, NEW c, NEW p, ReadTo(c, p)
  PROVE  ReadTo(c, p)'
<1>1. Flags' = Flags
  BY DEF Flags, Closed
<1>2. \A s : Said(s)' = Said(s)
  BY <1>1 DEF Said
<1>3. \A s : FromEnv(s)' = FromEnv(s)
  BY DEF FromEnv
<1>4. \A s : Known(c, s, p)' = Known(c, s, p)
  BY <1>2, <1>3 DEF Known
<1> QED BY <1>1, <1>4 DEF ReadTo

(* One turn of the loop.                                                   *)
LEMMA ReadStep ==
  ASSUME StepInv, WordsInv, ReadInv, [Next]_vars
  PROVE  ReadInv'
<1> USE DEF configUnchanged, loopUnchanged
<1>1. /\ words \in Seq(STRING) /\ args \in Seq(STRING) /\ Len(args) <= Len(words)
      /\ Len(words) \in Nat /\ Len(args) \in Nat /\ DOMAIN words = 1..Len(words) /\ At \in Nat
      /\ At >= 1
  BY DEF WordsInv, At
<1>2. Range(SensorSteps) \cap {"args", "ended", "run", "env", "build"} = {}
  BY SensorStepsAre
<1>14. ASSUME UNCHANGED <<words, env>>, NEW c, NEW p, ReadTo(c, p), config' = c, At' = p,
             step' # "args" => args' = <<>>
      PROVE  ReadInv'
  <2>1. ReadTo(c, p)'
    BY <1>14, ReadUnchanged
  <2>2. ReadTo(config, At)'
    BY <1>14, <2>1
  <2> QED BY <1>14, <2>2 DEF ReadInv
<1>3. ASSUME UNCHANGED <<words, env, args, config, mode>>,
             mode = "sensor" /\ step' \in {"args"} \cup Range(SensorSteps) =>
                /\ step \in {"args"} \cup Range(SensorSteps)
                /\ step' # "args" /\ step = "args" => args = <<>>
                /\ step' = "args" => step = "args"
      PROVE  ReadInv'
  <2>1. CASE ~(mode' = "sensor" /\ step' \in {"args"} \cup Range(SensorSteps))
    BY <2>1 DEF ReadInv
  <2>2. CASE mode' = "sensor" /\ step' \in {"args"} \cup Range(SensorSteps)
    <3>1. ReadTo(config, At) /\ (step' # "args" => args' = <<>>)
      BY <1>3, <2>2 DEF ReadInv
    <3>2. At' = At
      BY <1>3 DEF At
    <3> QED BY <1>3, <1>14, <3>1, <3>2
  <2> QED BY <2>1, <2>2
<1>4. ASSUME mode' = "sensor" => step' \notin {"args"} \cup Range(SensorSteps) PROVE ReadInv'
  BY <1>4 DEF ReadInv
<1>5. CASE ReadEnvironment
  <2>1. args = words /\ UNCHANGED <<words, args, env>>
        /\ config' = [s \in Settings |-> FromEnv(s)]
    BY <1>5 DEF ReadEnvironment, WordsInv
  <2>2. step' \in {"args", "ended"}
    BY <1>5, FailEnds DEF ReadEnvironment
  <2>3. CASE step' = "ended"
    BY <1>2, <1>4, <2>3
  <2>4. CASE step' = "args"
    <3>1. At' = 1
      BY <1>1, <2>1 DEF At
    <3>2. ReadTo([s \in Settings |-> FromEnv(s)], 1)
      BY <1>1, ReadNothing
    <3> QED BY <1>14, <2>1, <2>4, <3>1, <3>2
  <2> QED BY <2>2, <2>3, <2>4
<1>6. CASE ReadArgument
  <2> DEFINE flag == Head(args)
  <2>1. /\ step = "args" /\ args # <<>> /\ mode = "sensor" /\ UNCHANGED <<words, env, mode>>
        /\ Len(args) >= 1
    BY <1>1, <1>6 DEF ReadArgument, StepInv
  <2>2. At \in DOMAIN words /\ flag = words[At] /\ ReadTo(config, At)
    <3>1. At \in DOMAIN words
      BY <1>1, <2>1 DEF At
    <3>2. 1 \in DOMAIN args /\ flag = args[1]
      BY <1>1, <2>1
    <3>3. flag = words[At]
      BY <1>1, <3>2 DEF WordsInv, At
    <3> QED BY <2>1, <3>1, <3>3 DEF ReadInv
  <2>3. CASE step' = "ended"
    BY <1>2, <1>4, <2>3
  <2>4. CASE flag = "--sensor" /\ args' = Tail(args) /\ UNCHANGED <<config, step>>
    <3>1. Len(Tail(args)) = Len(args) - 1
      BY <1>1, <2>1
    <3>2. At' = At + 1
      BY <1>1, <2>1, <2>4, <3>1 DEF At
    <3>3. ReadTo(config, At + 1)
      BY <1>1, <2>2, <2>4, ReadSensor
    <3> QED BY <1>14, <2>1, <2>4, <3>2, <3>3
  <2>5. CASE /\ flag \in Settings /\ Len(args) > 1
             /\ config' = [config EXCEPT ![flag] = args[2]]
             /\ args' = Tail(Tail(args)) /\ UNCHANGED step
    <3>1. Tail(args) \in Seq(STRING) /\ Len(Tail(args)) = Len(args) - 1
      BY <1>1, <2>1
    <3>2. Tail(args) # <<>>
      <4>1. Len(args) > 1 /\ Len(args) \in Nat /\ Len(Tail(args)) = Len(args) - 1
        BY <1>1, <2>5, <3>1
      <4>2. PICK n \in Nat : n = Len(args)
        BY <4>1
      <4>3. n > 1 /\ Len(Tail(args)) = n - 1
        BY <4>1, <4>2
      <4>4. n - 1 # 0
        BY <4>2, <4>3
      <4>5. Len(<<>>) = 0
        OBVIOUS
      <4> QED BY <4>3, <4>4, <4>5
    <3>3. Len(Tail(Tail(args))) = Len(args) - 2
      BY <1>1, <3>1, <3>2
    <3>4. At' = At + 2
      <4>1. words' = words /\ Len(args') = Len(args) - 2
        <5>1. words' = words
          BY <2>1
        <5>2. args' = Tail(Tail(args))
          BY <2>5
        <5> QED BY <3>3, <5>1, <5>2
      <4>2. At' = Len(words) - Len(args') + 1
        BY <4>1 DEF At
      <4> QED BY <1>1, <4>1, <4>2 DEF At
    <3>5. args[2] = words[At + 1]
      <4>1. 2 \in DOMAIN args
        BY <1>1, <2>5
      <4>2. args[2] = words[Len(words) - Len(args) + 2]
        BY <4>1 DEF WordsInv
      <4> QED BY <1>1, <4>2 DEF At
    <3>6. ReadTo([config EXCEPT ![words[At]] = words[At + 1]], At + 2)
      BY <1>1, <2>2, <2>5, ReadSetting
    <3>7. config' = [config EXCEPT ![words[At]] = words[At + 1]]
      BY <2>2, <2>5, <3>5
    <3> QED BY <1>14, <2>1, <2>5, <3>4, <3>6, <3>7
  <2> QED BY <1>6, <2>3, <2>4, <2>5, FailEnds DEF ReadArgument, Put
<1>7. CASE EndArguments
  <2>1. /\ step = "args" /\ args = <<>> /\ UNCHANGED <<words, env, args, config, mode>>
        /\ step' \in {"object", "ended"}
    BY <1>7, FailEnds DEF EndArguments
  <2> QED BY <1>3, <2>1
<1>8. CASE Setup
  <2>1. /\ step \in Range(Steps) /\ step' = Follows(step)
        /\ UNCHANGED <<words, env, args, config, mode>>
    BY <1>8 DEF Setup
  <2>2. mode = "sensor" => step \in Range(SensorSteps) /\ step' \in Range(SensorSteps) \cup {"check"}
    BY <2>1, FollowsInside DEF Steps
  <2> QED BY <1>2, <1>3, <2>1, <2>2, SensorStepsAre
<1>9. CASE Start \/ Run
  <2>1. mode' = "sensor" => step' \in {"run", "env"}
    BY <1>9 DEF Start, Run
  <2> QED BY <1>2, <1>4, <2>1
<1>10. CASE SetupFails \/ WriteFails
  BY <1>2, <1>4, <1>10, FailEnds DEF SetupFails, WriteFails
<1>11. CASE CheckDeadline \/ TestItem \/ TakeItem \/ RingEmpty \/ Flush
  <2>1. step' \in {"drain", "check", "flush", "ended"}
    BY <1>11, FailEnds DEF CheckDeadline, TestItem, TakeItem, RingEmpty, Flush, Exit
  <2> QED BY <1>4, <2>1, SensorStepsAre
<1>12. CASE Event \/ DeadlinePasses
  BY <1>3, <1>12 DEF Event, DeadlinePasses
<1>13. CASE UNCHANGED commandVars
  BY <1>3, <1>13 DEF commandVars
<1> QED BY <1>5, <1>6, <1>7, <1>8, <1>9, <1>10, <1>11, <1>12, <1>13 DEF Next, Proceed, vars

(* The configuration a sensor starts with is what its command line says    *)
(* last of each setting, else its variable, else the value built in, for   *)
(* every command line that is accepted.                                    *)
THEOREM LastSaidCounts == Spec => []ConfigIsLastSaid
<1>1. Init => StepInv /\ WordsInv /\ ReadInv
  <2> SUFFICES ASSUME Init PROVE StepInv /\ WordsInv /\ ReadInv
    OBVIOUS
  <2>1. StepInv
    BY DEF Init, BuildInit, StepInv, Reading, NotYet, None
  <2>2. /\ words = <<>> /\ args = <<>> /\ <<>> \in Seq(STRING) /\ Len(<<>>) = 0 /\ mode = None
    BY DEF Init
  <2> QED BY <2>1, <2>2 DEF WordsInv, ReadInv, None
<1>2. WordsInv /\ ReadInv => ConfigIsLastSaid
  <2> SUFFICES ASSUME WordsInv, ReadInv, mode = "sensor", step \in Range(SensorSteps),
                      NEW s \in Settings
               PROVE  config[s] = IF Said(s) = {} THEN FromEnv(s)
                        ELSE words[(CHOOSE k \in Said(s) : \A j \in Said(s) : j <= k) + 1]
    BY DEF ConfigIsLastSaid
  <2>1. /\ Known(config, s, At) /\ args = <<>> /\ words \in Seq(STRING)
    BY SensorStepsAre DEF ReadInv, ReadTo, WordsInv
  <2>2. \A k \in Said(s) : k \in Nat /\ k < At
    <3>1. Flags \subseteq 1..Len(words) /\ Len(words) \in Nat /\ At = Len(words) + 1
      BY <2>1, FlagsAreClosed DEF At
    <3> QED BY <3>1 DEF Said
  <2>3. CASE config[s] = FromEnv(s) /\ Said(s) = {}
    BY <2>3
  <2>4. ASSUME NEW k \in Said(s), config[s] = words[k + 1], \A j \in Said(s) : j <= k
        PROVE  config[s] = words[(CHOOSE i \in Said(s) : \A j \in Said(s) : j <= i) + 1]
               /\ Said(s) # {}
    <3>1. \A i \in Said(s) : (\A j \in Said(s) : j <= i) => i = k
      BY <2>2, <2>4
    <3>2. (CHOOSE i \in Said(s) : \A j \in Said(s) : j <= i) = k
      BY <2>4, <3>1
    <3> QED BY <2>4, <3>2
  <2>5. \/ config[s] = FromEnv(s) /\ Said(s) = {}
        \/ \E k \in Said(s) : config[s] = words[k + 1] /\ \A j \in Said(s) : j <= k
    <3>1. At \in Nat
      BY <2>1 DEF At
    <3> QED BY <2>1, <2>2, <3>1 DEF Known
  <2> QED BY <2>3, <2>4, <2>5
<1> QED BY <1>1, <1>2, StepsStep, WordsStep, ReadStep, PTL DEF Spec
=============================================================================
