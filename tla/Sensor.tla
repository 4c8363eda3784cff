-------------------------------- MODULE Sensor --------------------------------
(***************************************************************************)
(* The kernel sensor (rust-observer): eBPF programs on the host's system   *)
(* calls write events to one ring buffer, run_sensor attaches them one     *)
(* after the other, drains the ring until its deadline, keeps the events   *)
(* of the target cgroup and writes them to three logs.                     *)
(*                                                                         *)
(* A connect() is seen by two programs.  The entry kprobe keeps the        *)
(* address of an AF_INET or AF_INET6 call in CONNECT_ARGS under the        *)
(* thread; the kretprobe takes it out and writes the event.  A kretprobe   *)
(* is armed when the call enters, so a call that enters before it is       *)
(* attached, or when the kernel has no return instance left, returns       *)
(* unseen.  The threads, the calls and the maps' kernel side are external. *)
(*                                                                         *)
(* Two fields of an event are history, not in the code: thread (the code   *)
(* writes its process) and call (the address the returning call was given).*)
(***************************************************************************)
EXTENDS Naturals, Sequences, FiniteSets

CONSTANTS
    Threads,        \* threads of the host
    Target,         \* the threads of the target cgroup
    Addresses,      \* internet addresses
    Local,          \* any other address: another family, null or unreadable
    Setups,         \* what run_sensor may be given, subsets of Inputs
    RingSize,       \* events the ring holds
    MaxEntries,     \* entries of CONNECT_ARGS
    MaxCalls,       \* bound: system calls of a thread
    MaxMissed       \* bound: calls the kernel has no return instance for

ASSUME SizesAreNaturals == {RingSize, MaxEntries, MaxCalls, MaxMissed} \subseteq Nat
\* A configuration that names a network log; an object whose events have the expected length.
Inputs == {"networkLog", "wholeEvents"}

ASSUME SetupsOfInputs == Setups \subseteq SUBSET Inputs
ASSUME TargetThreads == Target \subseteq Threads
ASSUME LocalIsNoAddress == Local \notin Addresses

VARIABLES
    attached,    \* programs attached so far, in the order of run_sensor
    sensor,      \* where run_sensor is
    deadline,    \* the duration is over
    call,        \* thread -> address of the connect() it is in, or Idle
    armed,       \* thread -> its return will be seen
    connectArgs, \* CONNECT_ARGS: thread -> address
    ring,        \* EVENTS
    given,       \* of Inputs, what run_sensor was given
    files, procs, network,   \* rows written
    calls,       \* thread -> system calls made
    missed,      \* returns missed so far
    entered,     \* history: connects entered while traced
    gone,        \* history: connect events per cause of loss
    unseen       \* history: threads that entered a traced connect unarmed

history == <<entered, gone, unseen>>
vars == <<attached, sensor, deadline, call, armed, connectArgs, ring, given, files, procs,
          network, calls, missed, history>>
threads == <<call, armed, calls, missed>>
writers == <<given, files, procs, network>>

Idle == "idle"
None == "none"
ASSUME IdleIsNoAddress == Idle \notin Addresses \cup {Local}
Programs == <<"openat", "exec", "exit", "connectEnter", "connectReturn">>
Attached(program) == \E k \in 1..attached : Programs[k] = program
Kinds == {"openat", "execve", "exit", "connect"}
Event == [kind : Kinds, thread : Threads, dst : Addresses \cup {Local},
          call : Addresses \cup {Local}]
Causes == {"ringFull", "evicted", "overwritten", "tooShort", "outOfScope", "noLog", "writeError"}

-----------------------------------------------------------------------------
(* The programs.  reserve fails when the ring is full; the event is then   *)
(* dropped without a trace.                                                *)

Lose(cause) == gone' = [gone EXCEPT ![cause] = @ + 1]

Submit(event) ==
    IF Len(ring) < RingSize
    THEN ring' = Append(ring, event) /\ UNCHANGED gone
    ELSE /\ UNCHANGED ring
         /\ IF event.kind = "connect" THEN Lose("ringFull") ELSE UNCHANGED gone

Calls(t) == /\ call[t] = Idle /\ calls[t] < MaxCalls
            /\ calls' = [calls EXCEPT ![t] = @ + 1]

\* open and openat, exec, exit: one program each, nothing kept between calls.
Trace(t, kind) ==
    /\ Calls(t)
    /\ Attached(IF kind = "execve" THEN "exec" ELSE kind)
    /\ Submit([kind |-> kind, thread |-> t, dst |-> Local, call |-> Local])
    /\ UNCHANGED <<attached, sensor, deadline, call, armed, connectArgs, writers, missed, entered, unseen>>

Count == entered' = entered + 1

\* Mutant: a plain map, into which nothing more goes when it is full.
Insert_Plain(t, a) ==
    IF t \notin DOMAIN connectArgs /\ Cardinality(DOMAIN connectArgs) = MaxEntries
    THEN UNCHANGED <<connectArgs, gone>>
    ELSE /\ connectArgs' = [x \in DOMAIN connectArgs \cup {t} |->
                                IF x = t THEN a ELSE connectArgs[x]]
         /\ IF t \in DOMAIN connectArgs THEN Lose("overwritten") ELSE UNCHANGED gone

\* CONNECT_ARGS.insert: a full map makes room by dropping an entry of another thread.
Insert(t, a) ==
    IF t \notin DOMAIN connectArgs /\ Cardinality(DOMAIN connectArgs) = MaxEntries
    THEN \E old \in DOMAIN connectArgs :
            /\ connectArgs' = [x \in (DOMAIN connectArgs \ {old}) \cup {t} |->
                                IF x = t THEN a ELSE connectArgs[x]]
            /\ Lose("evicted")
    ELSE /\ connectArgs' = [x \in DOMAIN connectArgs \cup {t} |->
                                IF x = t THEN a ELSE connectArgs[x]]
         /\ IF t \in DOMAIN connectArgs THEN Lose("overwritten") ELSE UNCHANGED gone

\* Only a readable sockaddr of AF_INET or AF_INET6 is kept.
read_sockaddr(a) == a # Local

ConnectEnter(t, a) ==
    /\ Calls(t)
    /\ call' = [call EXCEPT ![t] = a]
    /\ IF Attached("connectEnter") /\ read_sockaddr(a)
       THEN Insert(t, a) /\ Count
       ELSE UNCHANGED <<connectArgs, entered, gone>>
    /\ \/ /\ armed' = [armed EXCEPT ![t] = Attached("connectReturn")]
          /\ UNCHANGED missed
       \/ /\ Attached("connectReturn") /\ missed < MaxMissed
          /\ missed' = missed + 1 /\ armed' = [armed EXCEPT ![t] = FALSE]
    /\ unseen' = IF Attached("connectEnter") /\ read_sockaddr(a) /\ ~armed'[t]
                 THEN unseen \cup {t} ELSE unseen
    /\ UNCHANGED <<attached, sensor, deadline, ring, writers>>

Remove_Forgotten(t) == UNCHANGED connectArgs  \* mutant
Remove(t) == connectArgs' = [x \in DOMAIN connectArgs \ {t} |-> connectArgs[x]]

\* The return of connect(): the entry is taken out before room in the ring is asked for.
ConnectReturn(t) ==
    /\ call[t] # Idle
    /\ IF armed[t] /\ Attached("connectReturn") /\ t \in DOMAIN connectArgs
       THEN /\ Remove(t)
            /\ Submit([kind |-> "connect", thread |-> t, dst |-> connectArgs[t], call |-> call[t]])
       ELSE UNCHANGED <<connectArgs, ring, gone>>
    /\ call' = [call EXCEPT ![t] = Idle] /\ armed' = [armed EXCEPT ![t] = FALSE]
    /\ UNCHANGED <<attached, sensor, deadline, writers, calls, missed, entered, unseen>>

-----------------------------------------------------------------------------
(* run_sensor. *)

Attach ==
    /\ sensor = "attach" /\ attached < Len(Programs)
    /\ attached' = attached + 1
    /\ UNCHANGED <<sensor, deadline, threads, connectArgs, ring, writers, history>>

\* A program that does not load or attach, a missing map, a log that does not open.
SetupFails ==
    /\ sensor = "attach"
    /\ sensor' = "failed" /\ attached' = 0
    /\ UNCHANGED <<deadline, threads, connectArgs, ring, writers, history>>

\* The logs are open and the deadline is set.
StartLoop ==
    /\ sensor = "attach" /\ attached = Len(Programs)
    /\ sensor' = "check"
    /\ UNCHANGED <<attached, deadline, threads, connectArgs, ring, writers, history>>

DeadlinePasses ==
    /\ sensor \in {"check", "drain", "sleep"} /\ ~deadline
    /\ deadline' = TRUE
    /\ UNCHANGED <<attached, sensor, threads, connectArgs, ring, writers, history>>

\* The head of the outer loop; past the deadline the logs are flushed, the programs detached.
CheckDeadline ==
    /\ sensor = "check"
    /\ IF deadline THEN sensor' = "stopped" /\ attached' = 0
                   ELSE sensor' = "drain" /\ UNCHANGED attached
    /\ UNCHANGED <<deadline, threads, connectArgs, ring, writers, history>>

\* The inner loop found the ring empty: sleep, then check again.
RingEmpty ==
    /\ sensor = "drain" /\ ring = <<>>
    /\ sensor' = "sleep"
    /\ UNCHANGED <<attached, deadline, threads, connectArgs, ring, writers, history>>

Wake ==
    /\ sensor = "sleep"
    /\ sensor' = "check"
    /\ UNCHANGED <<attached, deadline, threads, connectArgs, ring, writers, history>>

\* A target of no cgroup, or of number 0, is every thread.
event_in_scope(event) == event.thread \in Target

Forget(event, cause) == IF event.kind = "connect" THEN Lose(cause) ELSE UNCHANGED gone

\* The items the loop has no row for, in the order in which it asks.
NoRow(event) ==
    IF "wholeEvents" \notin given THEN "tooShort"
    ELSE IF ~event_in_scope(event) THEN "outOfScope"
    ELSE IF event.kind = "connect" /\ "networkLog" \notin given THEN "noLog"
    ELSE None

Write(event) ==
    CASE event.kind = "openat" -> files' = Append(files, event) /\ UNCHANGED <<given, procs, network>>
      [] event.kind \in {"execve", "exit"} ->
            procs' = Append(procs, event) /\ UNCHANGED <<given, files, network>>
      [] event.kind = "connect" ->
            network' = Append(network, event) /\ UNCHANGED <<given, files, procs>>

\* Mutant: an item without a row stays in the ring.
Drain_Peek ==
    /\ sensor = "drain" /\ ring # <<>>
    /\ ring' = IF NoRow(Head(ring)) = None THEN Tail(ring) ELSE ring
    /\ IF NoRow(Head(ring)) = None
       THEN Write(Head(ring)) /\ UNCHANGED gone
       ELSE Forget(Head(ring), NoRow(Head(ring))) /\ UNCHANGED writers
    /\ UNCHANGED <<attached, sensor, deadline, threads, connectArgs, entered, unseen>>

Drain ==
    /\ sensor = "drain" /\ ring # <<>>
    /\ ring' = Tail(ring)
    /\ IF NoRow(Head(ring)) = None
       THEN Write(Head(ring)) /\ UNCHANGED gone
       ELSE Forget(Head(ring), NoRow(Head(ring))) /\ UNCHANGED writers
    /\ UNCHANGED <<attached, sensor, deadline, threads, connectArgs, entered, unseen>>

\* write_json_line fails: run_sensor returns the error.  The ring is gone with the programs;
\* what becomes of the rows still buffered is told in NetworkRows.
DrainFails ==
    /\ sensor = "drain" /\ ring # <<>> /\ NoRow(Head(ring)) = None
    /\ ring' = Tail(ring) /\ Forget(Head(ring), "writeError")
    /\ sensor' = "failed" /\ attached' = 0
    /\ UNCHANGED <<deadline, threads, connectArgs, writers, entered, unseen>>

-----------------------------------------------------------------------------
Init ==
    /\ attached = 0 /\ sensor = "attach" /\ deadline = FALSE
    /\ call = [t \in Threads |-> Idle] /\ armed = [t \in Threads |-> FALSE]
    /\ connectArgs = [t \in {} |-> Local]
    /\ given \in Setups
    /\ ring = <<>> /\ files = <<>> /\ procs = <<>> /\ network = <<>>
    /\ calls = [t \in Threads |-> 0] /\ missed = 0
    /\ entered = 0 /\ gone = [c \in Causes |-> 0] /\ unseen = {}

Next ==
    \/ \E t \in Threads, kind \in {"openat", "execve", "exit"} : Trace(t, kind)
    \/ \E t \in Threads, a \in Addresses \cup {Local} : ConnectEnter(t, a)
    \/ \E t \in Threads : ConnectReturn(t)
    \/ Attach \/ SetupFails \/ StartLoop \/ DeadlinePasses \/ CheckDeadline \/ RingEmpty \/ Wake
    \/ Drain \/ DrainFails

Spec == Init /\ [][Next]_vars

\* The thread of run_sensor is scheduled; nothing is assumed of the sample's threads.
Loop == CheckDeadline \/ RingEmpty \/ Wake \/ Drain \/ DrainFails
FairSpec == Spec /\ WF_vars(Loop)

-----------------------------------------------------------------------------
(* Properties. *)

TypeOK ==
    /\ attached \in 0..5 /\ deadline \in BOOLEAN
    /\ sensor \in {"attach", "check", "drain", "sleep", "stopped", "failed"}
    /\ call \in [Threads -> Addresses \cup {Local, Idle}] /\ armed \in [Threads -> BOOLEAN]
    /\ DOMAIN connectArgs \subseteq Threads
    /\ \A t \in DOMAIN connectArgs : connectArgs[t] \in Addresses
    /\ given \in Setups
    /\ ring \in Seq(Event) /\ files \in Seq(Event) /\ procs \in Seq(Event)
    /\ network \in Seq(Event)
    /\ calls \in [Threads -> 0..MaxCalls] /\ missed \in 0..MaxMissed
    /\ entered \in Nat /\ gone \in [Causes -> Nat]
    /\ unseen \subseteq Threads

ConnectsIn(s) == {k \in DOMAIN s : s[k].kind = "connect"}
In(s) == [x \in Threads \X Addresses |->
            Cardinality({k \in ConnectsIn(s) : s[k].thread = x[1] /\ s[k].dst = x[2]})]
Kept == [x \in Threads \X Addresses |->
            IF x[1] \in DOMAIN connectArgs /\ connectArgs[x[1]] = x[2] THEN 1 ELSE 0]

Ledger == INSTANCE ConnectLedger WITH
    Connects <- Threads \X Addresses, kept <- Kept, queued <- In(ring), logged <- In(network)

(* However the calls of the threads interleave with the sensor, with a map *)
(* and a ring that overflow and returns that are missed: a connect of a    *)
(* thread to an address is reported once at most, by that thread and for   *)
(* that address, and never again once it was taken out of a place.         *)
EachConnectMovesOnce == Ledger!Spec

Lost == gone["ringFull"] + gone["evicted"] + gone["overwritten"] + gone["tooShort"]
            + gone["outOfScope"] + gone["noLog"] + gone["writeError"]

(* Every traced connect is in CONNECT_ARGS, in the ring or in network.jsonl*)
(* or went one of the ways the code drops one: a full ring, a full or      *)
(* reused map entry, an event shorter than expected, another cgroup, no    *)
(* network log asked for, a failed write.                                  *)
ConnectsConserved ==
    Cardinality(DOMAIN connectArgs) + Cardinality(ConnectsIn(ring)) + Len(network)
        + Lost = entered

(* The pair of programs is exact while it is complete: a row names another *)
(* address than its call did only for a thread that once entered a traced  *)
(* connect whose return was not seen, never because of an eviction, a full *)
(* ring or another thread.                                                 *)
MisreportNeedsUnseenReturn ==
    \A k \in DOMAIN network : network[k].dst # network[k].call => network[k].thread \in unseen

(* run_sensor does not watch the deadline while it drains; it ends all the *)
(* same once the calls of the host pause long enough to empty the ring.    *)
SensorEnds == deadline ~> sensor \in {"stopped", "failed"}
=============================================================================
