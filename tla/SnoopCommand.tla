----------------------------- MODULE SnoopCommand -----------------------------
(***************************************************************************)
(* The program snoop from its command line to its exit code: main and run, *)
(* the loop over the arguments, the steps of run_sensor and run_self_test  *)
(* in their order, each of which may fail, and their loop over the ring.   *)
(* The program comes out of SnoopBuild, so that an object may be missing,  *)
(* empty or compiled for another layout of the events than the program.    *)
(*                                                                         *)
(* What the rows say is the business of Sensor and Tracing: of an event    *)
(* only its kind and whether it is of the target count here.  The kernel,  *)
(* the file system and aya are external: a step of theirs may fail, refused*)
(* by the kernel or for another reason, and the text of a refusal may or   *)
(* may not say so.                                                         *)
(***************************************************************************)
EXTENDS SnoopBuild, Sequences, SequencesExt

CONSTANTS
    Numbers,            \* the words that are numbers
    Zeros,              \* those that are zero
    Telling,            \* the words that read like a refusal ("Permission denied")
    CommandLines,       \* command lines, without the name of the program
    Variables,          \* environments: setting -> value of its variable, or Unset
    Bounded(_, _, _),   \* bound: command lines and environments tried with a build
    RingSize,           \* events the ring holds
    MaxItems            \* bound: events a sensor drains

ASSUME ZerosAreNumbers == Zeros \subseteq Numbers
ASSUME LinesAreWords == CommandLines \subseteq Seq(STRING)
ASSUME RingHoldsSome == RingSize \in Nat \ {0} /\ MaxItems \in Nat

VARIABLES
    words,      \* the command line, without the name of the program
    env,        \* setting -> its environment variable, or Unset
    objEnv,     \* SNOOP_EBPF_OBJ is set
    args,       \* what of the command line is not yet read
    config,     \* SensorConfig
    mode,       \* what run was asked to do
    step,       \* where the program is
    object,     \* the object it loaded
    attached,   \* programs attached
    opened,     \* logs opened
    deadline,   \* the duration, or two seconds, are over
    pending,    \* events in the ring
    drained, rows,      \* events taken from it, rows written
    due,        \* history: of the events taken, those the configuration asks a row for
    refused,    \* history: the kernel refused a step
    exit        \* exit code

commandVars == <<words, env, objEnv, args, config, mode, step, object, attached, opened,
                 deadline, pending, drained, rows, due, refused, exit>>
vars == <<buildVars, commandVars>>

None == "none"
Unset == "unset"        \* a variable or setting without a value
Default == "default"    \* the value built in
NotYet == -1            \* no exit code yet

Settings == {"--run-id", "--sample-id", "--files-log", "--proc-log", "--network-log",
             "--canary-catalog", "--canary-mount", "--target-cgroup-id", "--container-id",
             "--duration-ms"}
Numeric == {"--target-cgroup-id", "--duration-ms"}
Required == {"--files-log", "--proc-log"}
\* Their variables count as not set when they are empty.
EmptyIsUnset == {"--network-log", "--canary-catalog", "--target-cgroup-id", "--container-id"}
Optional == Required \cup EmptyIsUnset

ASSUME NumbersAreValues == Numbers \cap (Settings \cup {None, Unset, Default, ""}) = {}

Programs == {"openat", "exec", "exit", "connectEnter", "connectReturn"}
Logs == {"files", "procs", "network"}
\* Mutant: the logs are opened before the programs are attached.
SensorSteps_LogsFirst ==
    <<"object", "catalog", "load", "files", "procs", "network", "openat", "exec", "exit",
      "connectEnter", "connectReturn", "map">>
SensorSteps ==
    <<"object", "catalog", "load", "openat", "exec", "exit", "connectEnter", "connectReturn",
      "map", "files", "procs", "network">>
TestSteps == <<"object", "load", "exec", "map", "true">>
Steps == IF mode = "sensor" THEN SensorSteps ELSE TestSteps

-----------------------------------------------------------------------------
(* main: the text of an error decides between exit codes 77 and 1.         *)

is_permission_error_Any(tells) == TRUE  \* mutant: every failure counts as a missing right
is_permission_error(tells) == tells

Exit(code) == exit' = code /\ step' = "ended" /\ attached' = {}

Fail(isRefused, tells) ==
    /\ Exit(IF is_permission_error(tells) THEN 77 ELSE 1)
    /\ refused' = isRefused

Start ==
    /\ step = "build" /\ binary # NoBinary
    /\ words' \in CommandLines /\ env' \in Variables /\ objEnv' \in BOOLEAN
    /\ Bounded(words', env', buildVars)
    /\ args' = words' /\ step' = "run"
    /\ UNCHANGED <<buildVars, config, mode, object, attached, opened, deadline, pending,
                   drained, rows, due, refused, exit>>

\* run: --self-test anywhere on the command line wins over --sensor.
Run ==
    /\ step = "run"
    /\ mode' = IF Contains(words, "--self-test") THEN "self-test"
               ELSE IF Contains(words, "--sensor") THEN "sensor" ELSE "name"
    /\ \/ mode' = "name" /\ Exit(0) /\ UNCHANGED refused
       \/ mode' # "name" /\ ~linux /\ mode' = "self-test" /\ Fail(FALSE, FALSE)
       \/ mode' = "self-test" /\ linux /\ step' = "object" /\ UNCHANGED <<refused, attached, exit>>
       \/ mode' = "sensor" /\ step' = "env" /\ UNCHANGED <<refused, attached, exit>>
    /\ UNCHANGED <<buildVars, words, env, objEnv, args, config, object, opened, deadline,
                   pending, drained, rows, due>>

-----------------------------------------------------------------------------
(* SensorConfig::from_env_and_args. *)

FromEnv(s) ==
    IF s \notin DOMAIN env \/ env[s] = Unset \/ (s \in EmptyIsUnset /\ env[s] = "")
    THEN IF s \in Optional THEN Unset ELSE Default
    ELSE env[s]

Parses(s, value) == s \in Numeric => value \in Numbers

ReadEnvironment ==
    /\ step = "env"
    /\ config' = [s \in Settings |-> FromEnv(s)]
    /\ IF config'["--target-cgroup-id"] \in Numbers \cup {Unset}
       THEN step' = "args" /\ UNCHANGED <<refused, attached, exit>>
       ELSE Fail(FALSE, FALSE)
    /\ UNCHANGED <<buildVars, words, env, objEnv, args, mode, object, opened, deadline,
                   pending, drained, rows, due>>

configUnchanged == UNCHANGED <<buildVars, words, env, objEnv, mode, object, opened, deadline,
                               pending, drained, rows, due>>

Put_First(s, value) ==   \* mutant: what was said first stays
    config' = [config EXCEPT ![s] = IF @ = FromEnv(s) THEN value ELSE @]
Put(s, value) == config' = [config EXCEPT ![s] = value]

\* One turn of the loop; a setting takes the next word whatever it looks like.
ReadArgument ==
    /\ step = "args" /\ args # <<>>
    /\ LET flag == Head(args) IN
       CASE flag = "--sensor" ->
                args' = Tail(args) /\ UNCHANGED <<config, step, refused, attached, exit>>
         [] flag \in Settings /\ Len(args) > 1 /\ Parses(flag, args[2]) ->
                /\ Put(flag, args[2])
                /\ args' = Tail(Tail(args))
                /\ UNCHANGED <<step, refused, attached, exit>>
         [] OTHER ->   \* the text of the error repeats an unknown word
                Fail(FALSE, flag \notin Settings /\ flag \in Telling) /\ UNCHANGED <<args, config>>
    /\ configUnchanged

EndArguments ==
    /\ step = "args" /\ args = <<>>
    /\ IF linux /\ \A s \in Required : config[s] # Unset
       THEN step' = "object" /\ UNCHANGED <<refused, attached, exit>>
       ELSE Fail(FALSE, FALSE)
    /\ UNCHANGED <<args, config>> /\ configUnchanged

-----------------------------------------------------------------------------
(* The steps before the loop, in the order of run_sensor and run_self_test.*)

Skipped(s) == \/ s = "catalog" /\ config["--canary-catalog"] = Unset
              \/ s = "network" /\ config["--network-log"] = Unset

\* SNOOP_EBPF_OBJ, when set, is read instead of the embedded object.
Loaded == IF objEnv THEN objFile ELSE binary.embedded

Follows(s) ==
    IF s = Last(Steps) THEN "check"
    ELSE Steps[(CHOOSE k \in DOMAIN Steps : Steps[k] = s) + 1]

Setup ==
    /\ step \in Range(Steps)
    /\ step = "object" => Loaded \in Layouts
    /\ step' = Follows(step)
    /\ object' = IF step = "object" THEN Loaded ELSE object
    /\ attached' = IF step \in Programs THEN attached \cup {step} ELSE attached
    /\ opened' = IF step \in Logs /\ ~Skipped(step) THEN opened \cup {step} ELSE opened
    /\ pending' = IF step = "true" /\ pending < RingSize THEN pending + 1 ELSE pending
    /\ UNCHANGED <<buildVars, words, env, objEnv, args, config, mode, deadline, drained, rows,
                   due, refused, exit>>

\* A log file may be created by a step that then fails; an empty or missing object always fails.
SetupFails ==
    /\ step \in Range(Steps) /\ ~Skipped(step)
    /\ \/ Fail(FALSE, FALSE)
       \/ \E tells \in BOOLEAN : Fail(TRUE, tells)
    /\ UNCHANGED <<buildVars, words, env, objEnv, args, config, mode, object, opened, deadline,
                   pending, drained, rows, due>>

-----------------------------------------------------------------------------
(* The loop over the ring until the deadline. *)

loopUnchanged == UNCHANGED <<buildVars, words, env, objEnv, args, config, mode, object, opened>>

InLoop == step \in {"check", "drain"}

\* A traced event of any process of the host.
Event ==
    /\ attached # {} /\ pending < RingSize
    /\ mode = "sensor" => pending + drained < MaxItems
    /\ pending' = pending + 1
    /\ UNCHANGED <<attached, step, deadline, drained, rows, due, refused, exit>> /\ loopUnchanged

DeadlinePasses ==
    /\ InLoop /\ ~deadline
    /\ deadline' = TRUE
    /\ UNCHANGED <<attached, step, pending, drained, rows, due, refused, exit>> /\ loopUnchanged

(* What the loops read in an item.  An object of the program's own layout  *)
(* writes the kinds of the programs attached; in one of a longer layout    *)
(* the fields may lie elsewhere.                                           *)
Items == [kind : IF object > binary.layout THEN {"openat", "execve", "exit", "connect", "other"}
                 ELSE IF mode = "sensor" THEN {"openat", "execve", "exit", "connect"}
                 ELSE {"execve"},
          target : BOOLEAN]

CheckDeadline ==
    /\ step = "check"
    /\ \/ ~deadline /\ step' = "drain" /\ UNCHANGED <<attached, refused, exit>>
       \/ deadline /\ mode = "self-test" /\ Fail(FALSE, FALSE)
       \/ deadline /\ mode = "sensor" /\ step' = "flush" /\ UNCHANGED <<attached, refused, exit>>
    /\ UNCHANGED <<deadline, pending, drained, rows, due>> /\ loopUnchanged

TooShort_OrExact(item) == item <= binary.layout   \* mutant
\* item.len() < size_of::<SensorEvent>()
TooShort(item) == item < binary.layout

\* Mutant: the self-test waits for another kind than the one it traces.
TestItem_Opens ==
    /\ step = "drain" /\ mode = "self-test" /\ pending > 0
    /\ pending' = pending - 1
    /\ \E item \in Items :
          IF ~TooShort(object) /\ item.kind = "openat"
          THEN Exit(0) ELSE UNCHANGED <<attached, step, exit>>
    /\ UNCHANGED <<deadline, drained, rows, due, refused>> /\ loopUnchanged

\* The self-test ends with the first exec it reads.  The deadline is not looked at.
TestItem ==
    /\ step = "drain" /\ mode = "self-test" /\ pending > 0
    /\ pending' = pending - 1
    /\ \E item \in Items :
          IF ~TooShort(object) /\ item.kind = "execve"
          THEN Exit(0) ELSE UNCHANGED <<attached, step, exit>>
    /\ UNCHANGED <<deadline, drained, rows, due, refused>> /\ loopUnchanged

\* Of any cgroup without a target, of a known kind; a connect only with a log for it.
Due(item) ==
    /\ config["--target-cgroup-id"] \in Zeros \cup {Unset} \/ item.target
    /\ item.kind # "other"
    /\ item.kind = "connect" => ~Skipped("network")

\* One item of the sensor: too short a one is skipped, whatever it was for.
TakeItem ==
    /\ step = "drain" /\ mode = "sensor" /\ pending > 0
    /\ pending' = pending - 1 /\ drained' = drained + 1
    /\ \E item \in Items :
          /\ due' = IF Due(item) THEN due + 1 ELSE due
          /\ rows' = IF Due(item) /\ ~TooShort(object) THEN rows + 1 ELSE rows
    /\ UNCHANGED <<attached, step, deadline, refused, exit>> /\ loopUnchanged

WriteFails ==
    /\ step = "drain" /\ mode = "sensor" /\ pending > 0 /\ ~TooShort(object)
    /\ \E item \in Items : Due(item)
    /\ pending' = pending - 1 /\ drained' = drained + 1 /\ due' = due + 1
    /\ Fail(FALSE, FALSE)
    /\ UNCHANGED <<deadline, rows>> /\ loopUnchanged

RingEmpty ==
    /\ step = "drain" /\ pending = 0
    /\ step' = "check"
    /\ UNCHANGED <<attached, deadline, pending, drained, rows, due, refused, exit>> /\ loopUnchanged

\* The three logs are flushed, the programs detached.
Flush ==
    /\ step = "flush"
    /\ \/ Exit(0) /\ UNCHANGED refused
       \/ Fail(FALSE, FALSE)
    /\ UNCHANGED <<deadline, pending, drained, rows, due>> /\ loopUnchanged

-----------------------------------------------------------------------------
Init ==
    /\ BuildInit
    /\ words = <<>> /\ env = [s \in {} |-> Unset] /\ objEnv = FALSE /\ args = <<>>
    /\ config = [s \in Settings |-> Unset] /\ mode = None /\ step = "build" /\ object = Missing
    /\ attached = {} /\ opened = {} /\ deadline = FALSE /\ pending = 0
    /\ drained = 0 /\ rows = 0 /\ due = 0 /\ refused = FALSE /\ exit = NotYet

Proceed == \/ Run \/ ReadEnvironment \/ ReadArgument \/ EndArguments \/ Setup \/ SetupFails
           \/ CheckDeadline \/ TestItem \/ TakeItem \/ WriteFails \/ RingEmpty \/ Flush

Next ==
    \/ step = "build" /\ BuildNext /\ UNCHANGED commandVars
    \/ Start \/ Proceed \/ Event \/ DeadlinePasses

Spec == Init /\ [][Next]_vars

\* Once started the program runs, and time passes.
FairSpec == Spec /\ WF_vars(Proceed) /\ WF_vars(DeadlinePasses)

-----------------------------------------------------------------------------
(* Properties. *)

(* The positions of the command line read as flags, not as values, are the *)
(* least set that holds the first one, what follows a "--sensor" of the set*)
(* and what follows the value of a setting of the set.                     *)
Closed(F) ==
    /\ 1 \in DOMAIN words => 1 \in F
    /\ \A k \in F : words[k] = "--sensor" /\ k + 1 \in DOMAIN words => k + 1 \in F
    /\ \A k \in F : words[k] \in Settings /\ k + 2 \in DOMAIN words => k + 2 \in F
Flags == {k \in DOMAIN words : \A F \in SUBSET DOMAIN words : Closed(F) => k \in F}

Said(s) == {k \in Flags : words[k] = s}

(* An accepted command line means what was said last of each setting, else *)
(* what its variable says, else what is built in; a value that looks like  *)
(* a flag is a value, and an empty variable may be as good as none.        *)
ConfigIsLastSaid ==
    step \in Range(SensorSteps) /\ mode = "sensor" =>
        \A s \in Settings :
            config[s] = IF Said(s) = {} THEN FromEnv(s)
                        ELSE words[(CHOOSE k \in Said(s) : \A j \in Said(s) : j <= k) + 1]

(* A test that is skipped (exit code 77) was refused by the kernel, never  *)
(* failed in another way; only a sensor can be made to say so by a word of *)
(* its command line, which the text of the error repeats.                  *)
SkippedMeansRefused ==
    exit = 77 => refused \/ (mode = "sensor" /\ \E k \in DOMAIN words : words[k] \in Telling)

(* The gates wait for the sensor's log before they let the sample go: once *)
(* a log is there and the sensor has not ended, every program is attached. *)
ReadyMeansAttached ==
    opened # {} /\ exit = NotYet => attached = Programs

(* What is embedded is what the build asked for, whatever was built before *)
(* under another environment: nothing when told to skip, else an object,   *)
(* and one of an older layout only if copied or if snoop-common is all     *)
(* that was edited since the script ran.                                   *)
EmbeddedFitsBuild ==
    linux /\ binary # NoBinary =>
        /\ binary.env.skip => binary.embedded = Empty
        /\ ~binary.env.skip /\ ~binary.env.obj =>
                binary.embedded \in Layouts /\ binary.embedded = binary.scriptCommon

(* A sensor that ends well wrote a row for every event it drained that its *)
(* configuration asks one for, unless its object writes shorter events     *)
(* than it expects: then it wrote none, and neither the sensor nor the     *)
(* build of its program said so.                                           *)
SilentSensorIsStale ==
    exit = 0 /\ mode = "sensor" /\ rows < due =>
        /\ rows = 0 /\ object < binary.layout
        /\ ~objEnv /\ ~binary.env.obj => binary.scriptCommon < binary.layout

(* A self-test ends however many events the host produces, if its object   *)
(* was compiled for its layout: with an event, or after two seconds.       *)
SelfTestEnds ==
    (mode = "self-test" /\ InLoop /\ object = binary.layout) ~> exit # NotYet
=============================================================================
