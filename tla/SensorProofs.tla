------------------------------ MODULE SensorProofs ------------------------------
(* Theorems about Sensor, for any number of threads, addresses, calls and  *)
(* missed returns and any size of the ring and the map.                    *)
EXTENDS Sensor, TLAPS, SequenceTheorems, FiniteSetTheorems

(* TypeOK is inductive.                                                    *)
LEMMA InitTyped == Init => TypeOK
<1> SUFFICES ASSUME Init PROVE TypeOK
  OBVIOUS
<1>1. DOMAIN connectArgs = {}
  BY DEF Init
<1>2. calls \in [Threads -> 0..MaxCalls] /\ missed \in 0..MaxMissed
  BY SizesAreNaturals DEF Init
<1>3. entered \in Nat /\ gone \in [Causes -> Nat]
  BY DEF Init
<1>4. ring \in Seq(Event) /\ files \in Seq(Event) /\ procs \in Seq(Event) /\ network \in Seq(Event)
  BY DEF Init
<1>5. call \in [Threads -> Addresses \cup {Local, Idle}] /\ armed \in [Threads -> BOOLEAN]
  BY DEF Init
<1>6. attached = 0 /\ unseen = {} /\ sensor = "attach"
  BY DEF Init
<1>7. attached \in 0..5 /\ unseen \subseteq Threads
      /\ sensor \in {"attach", "check", "drain", "sleep", "stopped", "failed"}
  BY <1>6
<1>8. deadline \in BOOLEAN
  BY Zenon DEF Init
<1>9. given \in Setups
  BY DEF Init
<1> QED BY <1>1, <1>2, <1>3, <1>4, <1>5, <1>7, <1>8, <1>9 DEF TypeOK

(* The Boolean variables, apart from the others.                           *)
LEMMA FlagsTyped ==
  ASSUME deadline \in BOOLEAN, armed \in [Threads -> BOOLEAN], [Next]_vars
  PROVE  deadline' \in BOOLEAN /\ armed' \in [Threads -> BOOLEAN]
<1>1. deadline' \in BOOLEAN
  <2>1. deadline' = deadline \/ deadline' = TRUE
    BY Zenon DEF Next, Trace, ConnectEnter, ConnectReturn, Attach, SetupFails, StartLoop,
        DeadlinePasses, CheckDeadline, RingEmpty, Wake, Drain, DrainFails, vars
  <2> QED BY Zenon, <2>1
<1>2. \A program : Attached(program) \in BOOLEAN
  BY Zenon DEF Attached
<1>3. \/ armed' = armed
      \/ \E t \in Threads, b \in BOOLEAN : armed' = [armed EXCEPT ![t] = b]
  BY Zenon, <1>2 DEF Next, Trace, ConnectEnter, ConnectReturn, Attach, SetupFails, StartLoop,
      DeadlinePasses, CheckDeadline, RingEmpty, Wake, Drain, DrainFails, vars, threads
<1>4. armed' \in [Threads -> BOOLEAN]
  BY Zenon, <1>3
<1> QED BY <1>1, <1>4

(* What a writer of an event does to the ring and the counts of losses.    *)
LEMMA SubmitTyped ==
  ASSUME TypeOK, NEW e \in Event, Submit(e)
  PROVE  ring' \in Seq(Event) /\ gone' \in [Causes -> Nat]
<1>1. \A cause \in Causes : Lose(cause) => gone' \in [Causes -> Nat]
  BY DEF Lose, TypeOK
<1>2. "ringFull" \in Causes
  BY DEF Causes
<1>3. ring \in Seq(Event) /\ gone \in [Causes -> Nat]
  BY DEF TypeOK
<1>4. CASE Len(ring) < RingSize
  BY <1>3, <1>4 DEF Submit
<1>5. CASE ~(Len(ring) < RingSize)
  BY <1>1, <1>2, <1>3, <1>5 DEF Submit
<1> QED BY <1>4, <1>5

(* The entry probe keeps addresses of threads only.                        *)
LEMMA InsertTyped ==
  ASSUME TypeOK, NEW t \in Threads, NEW a \in Addresses, Insert(t, a)
  PROVE  /\ DOMAIN connectArgs' \subseteq Threads
         /\ \A x \in DOMAIN connectArgs' : connectArgs'[x] \in Addresses
         /\ gone' \in [Causes -> Nat]
<1>1. \A cause \in Causes : Lose(cause) => gone' \in [Causes -> Nat]
  BY DEF Lose, TypeOK
<1>2. "evicted" \in Causes /\ "overwritten" \in Causes
  BY DEF Causes
<1>3. /\ DOMAIN connectArgs \subseteq Threads
      /\ \A x \in DOMAIN connectArgs : connectArgs[x] \in Addresses
      /\ gone \in [Causes -> Nat]
  BY DEF TypeOK
<1> QED BY <1>1, <1>2, <1>3 DEF Insert

(* An item without a row is counted under a cause.                         *)
LEMMA NoRowCauses == \A event : NoRow(event) \in Causes \cup {None}
  BY DEF NoRow, Causes

(* TypeOK is kept by each action.                                          *)
LEMMA NextTyped == TypeOK /\ [Next]_vars => TypeOK'
<1> SUFFICES ASSUME TypeOK, [Next]_vars PROVE TypeOK'
  OBVIOUS
<1> USE DEF history, threads, writers
<1>0. deadline' \in BOOLEAN /\ armed' \in [Threads -> BOOLEAN]
  BY FlagsTyped DEF TypeOK
<1>1. ASSUME NEW t \in Threads, NEW kind \in {"openat", "execve", "exit"}, Trace(t, kind)
      PROVE  TypeOK'
  <2>1. [kind |-> kind, thread |-> t, dst |-> Local, call |-> Local] \in Event
    BY DEF Event, Kinds
  <2>2. ring' \in Seq(Event) /\ gone' \in [Causes -> Nat]
    BY <1>1, <2>1, SubmitTyped DEF Trace
  <2>3. calls' \in [Threads -> 0..MaxCalls]
    BY <1>1, SizesAreNaturals DEF Trace, Calls, TypeOK
  <2> QED BY <1>0, <1>1, <2>2, <2>3 DEF Trace, TypeOK
<1>2. ASSUME NEW t \in Threads, NEW a \in Addresses \cup {Local}, ConnectEnter(t, a)
      PROVE  TypeOK'
  <2>1. calls' \in [Threads -> 0..MaxCalls]
    BY <1>2, SizesAreNaturals DEF ConnectEnter, Calls, TypeOK
  <2>2. CASE Attached("connectEnter") /\ read_sockaddr(a)
    <3>1. a \in Addresses /\ Insert(t, a) /\ Count
      BY <1>2, <2>2 DEF ConnectEnter, read_sockaddr
    <3>2. entered' \in Nat
      BY <3>1 DEF Count, TypeOK
    <3>3. missed' \in 0..MaxMissed
      BY <1>2, SizesAreNaturals DEF ConnectEnter, TypeOK
    <3> QED BY <1>0, <1>2, <2>1, <3>1, <3>2, <3>3, InsertTyped DEF ConnectEnter, TypeOK
  <2>3. CASE ~(Attached("connectEnter") /\ read_sockaddr(a))
    <3>1. missed' \in 0..MaxMissed
      BY <1>2, SizesAreNaturals DEF ConnectEnter, TypeOK
    <3> QED BY <1>0, <1>2, <2>1, <2>3, <3>1 DEF ConnectEnter, TypeOK
  <2> QED BY <2>2, <2>3
<1>3. ASSUME NEW t \in Threads, ConnectReturn(t) PROVE TypeOK'
  <2>1. CASE armed[t] /\ Attached("connectReturn") /\ t \in DOMAIN connectArgs
    <3> DEFINE e == [kind |-> "connect", thread |-> t, dst |-> connectArgs[t], call |-> call[t]]
    <3>0. connectArgs[t] \in Addresses /\ call[t] \in Addresses \cup {Local}
      BY <1>3, <2>1 DEF ConnectReturn, TypeOK
    <3>1. e \in Event
      BY <3>0 DEF Event, Kinds
    <3>2. Remove(t) /\ Submit(e)
      BY <1>3, <2>1 DEF ConnectReturn
    <3>3. ring' \in Seq(Event) /\ gone' \in [Causes -> Nat]
      BY <3>1, <3>2, SubmitTyped
    <3> QED BY <1>0, <1>3, <3>2, <3>3 DEF ConnectReturn, Remove, TypeOK
  <2>2. CASE ~(armed[t] /\ Attached("connectReturn") /\ t \in DOMAIN connectArgs)
    BY <1>0, <1>3, <2>2 DEF ConnectReturn, TypeOK
  <2> QED BY <2>1, <2>2
<1>4. ASSUME Attach \/ SetupFails \/ StartLoop \/ DeadlinePasses \/ CheckDeadline
             \/ RingEmpty \/ Wake
      PROVE  TypeOK'
  <2>1. /\ attached' \in 0..5 /\ deadline' \in BOOLEAN
        /\ sensor' \in {"attach", "check", "drain", "sleep", "stopped", "failed"}
    BY <1>0, <1>4 DEF Attach, SetupFails, StartLoop, DeadlinePasses, CheckDeadline, RingEmpty, Wake,
                Programs, TypeOK
  <2>2. UNCHANGED <<threads, connectArgs, ring, writers, history>>
    BY <1>4 DEF Attach, SetupFails, StartLoop, DeadlinePasses, CheckDeadline, RingEmpty, Wake
  <2> QED BY <1>0, <2>1, <2>2 DEF TypeOK
<1>5. ASSUME Drain \/ DrainFails PROVE TypeOK'
  <2>1. Head(ring) \in Event /\ ring' \in Seq(Event)
    <3>1. ring \in Seq(Event) /\ ring # <<>> /\ ring' = Tail(ring)
      BY <1>5 DEF Drain, DrainFails, TypeOK
    <3> QED BY <3>1
  <2>2. gone' \in [Causes -> Nat]
    <3>1. \A cause \in Causes : Lose(cause) => gone' \in [Causes -> Nat]
      BY DEF Lose, TypeOK
    <3>2. "writeError" \in Causes /\ gone \in [Causes -> Nat]
      BY DEF Causes, TypeOK
    <3>3. gone' = gone \/ Lose("writeError")
          \/ (NoRow(Head(ring)) # None /\ Lose(NoRow(Head(ring))))
      BY <1>5 DEF Drain, DrainFails, Forget
    <3>4. NoRow(Head(ring)) \in Causes \cup {None}
      BY NoRowCauses
    <3> QED BY <3>1, <3>2, <3>3, <3>4
  <2>3. CASE Drain
    <3>1. files' \in Seq(Event) /\ procs' \in Seq(Event) /\ network' \in Seq(Event)
      <4>1. /\ files \in Seq(Event) /\ procs \in Seq(Event) /\ network \in Seq(Event)
            /\ Head(ring).kind \in {"openat", "execve", "exit", "connect"}
        BY <2>1 DEF Event, Kinds, TypeOK
      <4>2. \A s \in Seq(Event) : Append(s, Head(ring)) \in Seq(Event)
        BY <2>1
      <4>3. CASE UNCHANGED writers
        BY <4>1, <4>3
      <4>4. CASE Write(Head(ring))
        BY <4>1, <4>2, <4>4 DEF Write
      <4> QED BY <2>3, <4>3, <4>4 DEF Drain
    <3>2. given' = given
      <4>1. Head(ring).kind \in {"openat", "execve", "exit", "connect"}
        BY <2>1 DEF Event, Kinds
      <4> QED BY <2>3, <4>1 DEF Drain, Write
    <3>3. UNCHANGED <<attached, sensor, deadline, threads, connectArgs, entered, unseen>>
      BY <2>3 DEF Drain
    <3> QED BY <1>0, <2>1, <2>2, <3>1, <3>2, <3>3 DEF TypeOK
  <2>4. CASE DrainFails
    <3>1. UNCHANGED <<deadline, threads, connectArgs, writers, entered, unseen>>
          /\ sensor' = "failed" /\ attached' = 0
      BY <2>4 DEF DrainFails
    <3> QED BY <1>0, <2>1, <2>2, <3>1 DEF TypeOK
  <2> QED BY <1>5, <2>3, <2>4
<1>6. CASE UNCHANGED vars
  BY <1>0, <1>6 DEF vars, TypeOK
<1> QED BY <1>1, <1>2, <1>3, <1>4, <1>5, <1>6 DEF Next

(* All that the probes keep and the logs hold is of the kind it says.      *)
THEOREM TypeCorrect == Spec => []TypeOK
<1>1. Init => TypeOK
  BY InitTyped
<1>2. TypeOK /\ [Next]_vars => TypeOK'
  BY NextTyped
<1> QED BY <1>1, <1>2, PTL DEF Spec

-----------------------------------------------------------------------------
(* Which address a row names.  While the sensor runs, an entry of          *)
(* CONNECT_ARGS belongs to the call its thread is in, and that call's      *)
(* return will be seen; or the thread has entered a call unseen.           *)

Done == sensor \in {"stopped", "failed"}
Explained(e) == e.kind = "connect" /\ e.dst # e.call => e.thread \in unseen

ArmedInv == ~Done => \A t \in Threads : armed[t] => Attached("connectReturn")
EntryInv ==
    ~Done => \A t \in DOMAIN connectArgs :
        t \in unseen \/ (armed[t] /\ call[t] = connectArgs[t])
EventInv ==
    /\ \A k \in DOMAIN ring : Explained(ring[k])
    /\ \A k \in DOMAIN network : network[k].kind = "connect" /\ Explained(network[k])
DoneInv == Done => attached = 0
IInv == TypeOK /\ DoneInv /\ ArmedInv /\ EntryInv /\ EventInv

(* A sensor that has ended stays so, its programs detached; one that runs  *)
(* keeps every program it has attached.                                    *)
LEMMA Detached ==
  ASSUME TypeOK, DoneInv, [Next]_vars
  PROVE  /\ DoneInv'
         /\ ~Done' => ~Done /\ attached <= attached'
<1> USE DEF history, threads, writers
<1> DEFINE Same == UNCHANGED <<sensor, attached>>
           More == ~Done /\ ~Done' /\ attached' \in {attached, attached + 1}
           Ends == ~Done /\ Done' /\ attached' = 0
<1>1. ASSUME \/ \E t \in Threads, kind \in {"openat", "execve", "exit"} : Trace(t, kind)
             \/ \E t \in Threads, a \in Addresses \cup {Local} : ConnectEnter(t, a)
             \/ \E t \in Threads : ConnectReturn(t)
             \/ DeadlinePasses \/ Drain \/ UNCHANGED vars
      PROVE  Same
  BY <1>1 DEF Trace, ConnectEnter, ConnectReturn, DeadlinePasses, Drain, vars
<1>2. ASSUME Attach \/ StartLoop \/ RingEmpty \/ Wake PROVE More
  BY <1>2 DEF Attach, StartLoop, RingEmpty, Wake, Done
<1>3. ASSUME SetupFails \/ DrainFails PROVE Ends
  BY <1>3 DEF SetupFails, DrainFails, Done
<1>4. ASSUME CheckDeadline PROVE More \/ Ends
  BY <1>4 DEF CheckDeadline, Done
<1>5. Same \/ More \/ Ends
  BY <1>1, <1>2, <1>3, <1>4 DEF Next
<1>6. attached \in Nat
  BY DEF TypeOK
<1> QED BY <1>5, <1>6 DEF Done, DoneInv

(* Once a program is attached it stays so while the sensor runs.           *)
LEMMA StaysAttached ==
  ASSUME TypeOK, DoneInv, [Next]_vars, ~Done', NEW program, Attached(program)
  PROVE  Attached(program)'
<1>1. attached \in Nat /\ attached' \in Nat /\ attached <= attached'
  BY Detached, NextTyped, SMTT(60) DEF TypeOK
<1>2. PICK k \in 1..attached : Programs[k] = program
  BY DEF Attached
<1>3. k \in 1..attached'
  BY <1>1, <1>2
<1> QED BY <1>2, <1>3 DEF Attached, Programs

(* The steps of the threads: what they do to one entry of the map.         *)
LEMMA EntriesStep ==
  ASSUME IInv, [Next]_vars, ~Done'
  PROVE  EntryInv'
<1> USE DEF history, threads, writers
<1>1. /\ ~Done /\ \A x \in Threads : armed[x] => Attached("connectReturn")
      /\ \A x \in DOMAIN connectArgs : x \in unseen \/ (armed[x] /\ call[x] = connectArgs[x])
      /\ \A x \in DOMAIN connectArgs : x \in Threads /\ connectArgs[x] # Idle
  BY Detached, IdleIsNoAddress DEF IInv, ArmedInv, EntryInv, TypeOK
<1>2. ASSUME NEW t \in Threads, NEW a \in Addresses \cup {Local}, ConnectEnter(t, a)
      PROVE  EntryInv'
  <2>1. /\ call[t] = Idle /\ call' = [call EXCEPT ![t] = a]
        /\ call \in [Threads -> Addresses \cup {Local, Idle}] /\ armed \in [Threads -> BOOLEAN]
        /\ \E b \in BOOLEAN : armed' = [armed EXCEPT ![t] = b]
        /\ unseen \subseteq unseen'
    BY <1>2 DEF ConnectEnter, Calls, Attached, IInv, TypeOK
  <2>2. \A x \in Threads \ {t} : call'[x] = call[x] /\ armed'[x] = armed[x]
    BY <2>1
  <2>3. CASE Attached("connectEnter") /\ read_sockaddr(a)
    <3>1. /\ DOMAIN connectArgs' \subseteq DOMAIN connectArgs \cup {t}
          /\ \A x \in DOMAIN connectArgs' : connectArgs'[x] = IF x = t THEN a ELSE connectArgs[x]
      BY <1>2, <2>3 DEF ConnectEnter, Insert
    <3>2. armed'[t] \/ t \in unseen'
      BY <1>2, <2>3 DEF ConnectEnter
    <3>3. call'[t] = a
      BY <2>1
    <3> QED BY <1>1, <2>1, <2>2, <3>1, <3>2, <3>3 DEF EntryInv
  <2>4. CASE ~(Attached("connectEnter") /\ read_sockaddr(a))
    <3>1. connectArgs' = connectArgs
      BY <1>2, <2>4 DEF ConnectEnter
    <3>2. t \in DOMAIN connectArgs => t \in unseen
      BY <1>1, <2>1
    <3> QED BY <1>1, <2>1, <2>2, <3>1, <3>2 DEF EntryInv
  <2> QED BY <2>3, <2>4
<1>3. ASSUME NEW t \in Threads, ConnectReturn(t) PROVE EntryInv'
  <2>1. /\ call' = [call EXCEPT ![t] = Idle] /\ armed' = [armed EXCEPT ![t] = FALSE]
        /\ call \in [Threads -> Addresses \cup {Local, Idle}] /\ armed \in [Threads -> BOOLEAN]
        /\ unseen' = unseen
    BY <1>3 DEF ConnectReturn, IInv, TypeOK
  <2>2. \A x \in Threads \ {t} : call'[x] = call[x] /\ armed'[x] = armed[x]
    BY <2>1
  <2>3. CASE armed[t] /\ Attached("connectReturn") /\ t \in DOMAIN connectArgs
    <3>1. connectArgs' = [x \in DOMAIN connectArgs \ {t} |-> connectArgs[x]]
      BY <1>3, <2>3 DEF ConnectReturn, Remove
    <3> QED BY <1>1, <2>1, <2>2, <3>1 DEF EntryInv
  <2>4. CASE ~(armed[t] /\ Attached("connectReturn") /\ t \in DOMAIN connectArgs)
    <3>1. connectArgs' = connectArgs
      BY <1>3, <2>4 DEF ConnectReturn
    <3>2. t \in DOMAIN connectArgs => t \in unseen
      BY <1>1, <2>4
    <3> QED BY <1>1, <2>1, <2>2, <3>1, <3>2 DEF EntryInv
  <2> QED BY <2>3, <2>4
<1>4. CASE UNCHANGED <<call, armed, connectArgs, unseen>>
  BY <1>1, <1>4 DEF EntryInv
<1>5. \/ \E t \in Threads, a \in Addresses \cup {Local} : ConnectEnter(t, a)
      \/ \E t \in Threads : ConnectReturn(t)
      \/ UNCHANGED <<call, armed, connectArgs, unseen>>
  BY DEF Next, Trace, Attach, SetupFails, StartLoop, DeadlinePasses, CheckDeadline, RingEmpty,
         Wake, Drain, DrainFails, vars
<1> QED BY <1>2, <1>3, <1>4, <1>5

(* A return that finds the entry of its own call writes a true event.      *)
LEMMA EventsStep ==
  ASSUME IInv, [Next]_vars
  PROVE  EventInv'
<1> USE DEF history, threads, writers
<1>1. /\ ring \in Seq(Event) /\ network \in Seq(Event) /\ unseen \subseteq Threads
      /\ \A k \in DOMAIN ring : Explained(ring[k])
      /\ \A k \in DOMAIN network : network[k].kind = "connect" /\ Explained(network[k])
  BY DEF IInv, EventInv, TypeOK
<1>2. unseen \subseteq unseen'
  BY DEF Next, Trace, ConnectEnter, ConnectReturn, Attach, SetupFails, StartLoop, DeadlinePasses,
         CheckDeadline, RingEmpty, Wake, Drain, DrainFails, vars
<1>3. \A e : Explained(e) => Explained(e)'
  BY <1>2 DEF Explained
<1>4. ASSUME NEW e \in Event, Explained(e), Submit(e), UNCHANGED network
      PROVE  EventInv'
  <2>1. CASE ring' = Append(ring, e)
    <3>1. \A k \in DOMAIN ring' : ring'[k] = e \/ (k \in DOMAIN ring /\ ring'[k] = ring[k])
      BY <1>1, <1>4, <2>1
    <3> QED BY <1>1, <1>3, <1>4, <3>1 DEF EventInv, Explained
  <2>2. CASE ring' = ring
    BY <1>1, <1>3, <1>4, <2>2 DEF EventInv, Explained
  <2> QED BY <1>4, <2>1, <2>2 DEF Submit
<1>5. ASSUME NEW t \in Threads, NEW kind \in {"openat", "execve", "exit"}, Trace(t, kind)
      PROVE  EventInv'
  <2> DEFINE e == [kind |-> kind, thread |-> t, dst |-> Local, call |-> Local]
  <2>1. e \in Event /\ Explained(e)
    BY DEF Event, Kinds, Explained
  <2>2. Submit(e) /\ UNCHANGED network
    BY <1>5 DEF Trace
  <2> QED BY <1>4, <2>1, <2>2
<1>6. ASSUME NEW t \in Threads, ConnectReturn(t), armed[t], Attached("connectReturn"),
             t \in DOMAIN connectArgs
      PROVE  EventInv'
  <2> DEFINE e == [kind |-> "connect", thread |-> t, dst |-> connectArgs[t], call |-> call[t]]
  <2>1. connectArgs[t] \in Addresses /\ call[t] \in Addresses \cup {Local}
    BY <1>6 DEF ConnectReturn, IInv, TypeOK
  <2>2. ~Done
    BY <1>6 DEF Attached, IInv, DoneInv
  <2>3. t \in unseen \/ call[t] = connectArgs[t]
    BY <1>6, <2>2 DEF IInv, EntryInv
  <2>4. e \in Event /\ Explained(e)
    BY <2>1, <2>3 DEF Event, Kinds, Explained
  <2>5. Submit(e) /\ UNCHANGED network
    BY <1>6 DEF ConnectReturn
  <2> QED BY <1>4, <2>4, <2>5
<1>7. ASSUME Drain PROVE EventInv'
  <2>1. ring # <<>> /\ ring' = Tail(ring)
    BY <1>7 DEF Drain
  <2>2. /\ Explained(Head(ring))
        /\ \A k \in DOMAIN ring' : \E j \in DOMAIN ring : ring'[k] = ring[j]
    <3>1. \A k \in DOMAIN ring' : k + 1 \in DOMAIN ring /\ ring'[k] = ring[k + 1]
      BY <1>1, <2>1
    <3>2. 1 \in DOMAIN ring /\ Head(ring) = ring[1]
      BY <1>1, <2>1
    <3> QED BY <1>1, <3>1, <3>2
  <2>3. Head(ring) \in Event
    BY <1>1, <2>1
  <2>4. \/ UNCHANGED network
        \/ Head(ring).kind = "connect" /\ network' = Append(network, Head(ring))
    <3>1. Head(ring).kind \in {"openat", "execve", "exit", "connect"}
      BY <2>3 DEF Event, Kinds
    <3> QED BY <1>7, <3>1 DEF Drain, Write
  <2>5. \A k \in DOMAIN network' :
            \/ k \in DOMAIN network /\ network'[k] = network[k]
            \/ Head(ring).kind = "connect" /\ network'[k] = Head(ring)
    BY <1>1, <2>3, <2>4
  <2> QED BY <1>1, <1>3, <2>2, <2>5 DEF EventInv
<1>8. ASSUME DrainFails PROVE EventInv'
  <2>1. ring # <<>> /\ ring' = Tail(ring) /\ UNCHANGED network
    BY <1>8 DEF DrainFails
  <2>2. \A k \in DOMAIN ring' : k + 1 \in DOMAIN ring /\ ring'[k] = ring[k + 1]
    BY <1>1, <2>1
  <2> QED BY <1>1, <1>3, <2>1, <2>2 DEF EventInv
<1>9. CASE UNCHANGED <<ring, network>>
  BY <1>1, <1>3, <1>9 DEF EventInv
<1>10. \/ \E t \in Threads, kind \in {"openat", "execve", "exit"} : Trace(t, kind)
       \/ \E t \in Threads : /\ ConnectReturn(t) /\ armed[t] /\ Attached("connectReturn")
                             /\ t \in DOMAIN connectArgs
       \/ Drain \/ DrainFails \/ UNCHANGED <<ring, network>>
  BY DEF Next, ConnectEnter, ConnectReturn, Attach, SetupFails, StartLoop, DeadlinePasses,
         CheckDeadline, RingEmpty, Wake, vars
<1> QED BY <1>5, <1>6, <1>7, <1>8, <1>9, <1>10

(* A call that is armed entered while its return probe was attached.       *)
LEMMA ArmedStep ==
  ASSUME IInv, [Next]_vars
  PROVE  ArmedInv'
<1> USE DEF history, threads, writers
<1> SUFFICES ASSUME ~Done', NEW x \in Threads, armed'[x] PROVE Attached("connectReturn")'
  BY DEF ArmedInv
<1>1. armed[x] => Attached("connectReturn")
  BY Detached DEF IInv, ArmedInv
<1>2. ASSUME NEW t \in Threads, NEW a \in Addresses \cup {Local}, ConnectEnter(t, a)
      PROVE  armed[x] \/ Attached("connectReturn")
  BY <1>2 DEF ConnectEnter, IInv, TypeOK
<1>3. ASSUME NEW t \in Threads, ConnectReturn(t) PROVE armed[x]
  BY <1>3 DEF ConnectReturn, IInv, TypeOK
<1>4. armed[x] \/ Attached("connectReturn")
  <2>1. \/ \E t \in Threads, a \in Addresses \cup {Local} : ConnectEnter(t, a)
        \/ \E t \in Threads : ConnectReturn(t)
        \/ UNCHANGED armed
    BY DEF Next, Trace, Attach, SetupFails, StartLoop, DeadlinePasses, CheckDeadline, RingEmpty,
           Wake, Drain, DrainFails, vars
  <2> QED BY <1>2, <1>3, <2>1
<1> QED BY <1>1, <1>4, StaysAttached DEF IInv

(* A row of network.jsonl names another address than its call was given    *)
(* only for a thread that once entered a traced connect() whose return was *)
(* not seen: not after an eviction, a full ring or any interleaving of     *)
(* other threads, and however the probes are attached and detached.        *)
THEOREM MisreportsAreExplained == Spec => []MisreportNeedsUnseenReturn
<1>1. Init => IInv
  <2> SUFFICES ASSUME Init PROVE IInv
    OBVIOUS
  <2>1. TypeOK
    BY InitTyped
  <2>2. /\ ~Done /\ ring = <<>> /\ network = <<>> /\ DOMAIN connectArgs = {}
        /\ \A t \in Threads : ~armed[t]
    BY DEF Init, Done
  <2> QED BY <2>1, <2>2 DEF IInv, DoneInv, ArmedInv, EntryInv, EventInv
<1>2. IInv /\ [Next]_vars => IInv'
  <2> SUFFICES ASSUME IInv, [Next]_vars PROVE IInv'
    OBVIOUS
  <2>1. TypeOK' /\ DoneInv'
    BY NextTyped, Detached DEF IInv
  <2>2. EntryInv'
    BY EntriesStep DEF EntryInv
  <2> QED BY <2>1, <2>2, ArmedStep, EventsStep DEF IInv
<1>3. IInv => MisreportNeedsUnseenReturn
  BY DEF IInv, EventInv, Explained, MisreportNeedsUnseenReturn
<1> QED BY <1>1, <1>2, <1>3, PTL DEF Spec

-----------------------------------------------------------------------------
\* The places of a sequence that hold an event of a set, and what one place more or less counts.
Places(s, D) == {k \in DOMAIN s : s[k] \in D}
One(cond) == IF cond THEN 1 ELSE 0

(* The places of a sequence of events can be counted.                      *)
LEMMA PlacesFinite ==
  ASSUME NEW s \in Seq(Event), NEW D
  PROVE  IsFiniteSet(Places(s, D)) /\ Cardinality(Places(s, D)) \in Nat
<1>1. DOMAIN s = 1..Len(s) /\ Len(s) \in Nat
  OBVIOUS
<1>2. IsFiniteSet(1..Len(s)) /\ Places(s, D) \in SUBSET (1..Len(s))
  BY <1>1, FS_Interval DEF Places
<1>3. IsFiniteSet(Places(s, D))
  BY <1>2, FS_Subset
<1> QED BY <1>3, FS_CardinalityType

(* What is appended is counted once if it is of the set.                   *)
LEMMA PlacesAppend ==
  ASSUME NEW s \in Seq(Event), NEW e \in Event, NEW D
  PROVE  Cardinality(Places(Append(s, e), D)) = Cardinality(Places(s, D)) + One(e \in D)
<1> DEFINE n == Len(s) + 1
<1>1. DOMAIN Append(s, e) = 1..n /\ DOMAIN s = 1..Len(s) /\ Len(s) \in Nat
  OBVIOUS
<1>2. Append(s, e)[n] = e /\ \A k \in 1..Len(s) : Append(s, e)[k] = s[k]
  OBVIOUS
<1>3. n \notin Places(s, D) /\ IsFiniteSet(Places(s, D))
  <2>1. n \notin Places(s, D)
    BY <1>1 DEF Places
  <2> QED BY <2>1, PlacesFinite
<1>4. CASE e \in D
  <2>1. Places(Append(s, e), D) = Places(s, D) \cup {n}
    BY <1>1, <1>2, <1>4 DEF Places
  <2> QED BY <1>3, <1>4, <2>1, FS_AddElement DEF One
<1>5. CASE e \notin D
  <2>1. Places(Append(s, e), D) = Places(s, D)
    BY <1>1, <1>2, <1>5 DEF Places
  <2> QED BY <1>5, <2>1, PlacesFinite DEF One
<1> QED BY <1>4, <1>5

(* What is taken off the head was counted once if it is of the set.        *)
LEMMA PlacesTail ==
  ASSUME NEW s \in Seq(Event), s # <<>>, NEW D
  PROVE  Cardinality(Places(s, D)) = Cardinality(Places(Tail(s), D)) + One(Head(s) \in D)
<1>1. /\ DOMAIN s = 1..Len(s) /\ Len(s) \in Nat /\ 1 \in DOMAIN s /\ Head(s) = s[1]
      /\ Tail(s) \in Seq(Event) /\ DOMAIN Tail(s) = 1..(Len(s) - 1)
      /\ \A k \in 1..(Len(s) - 1) : Tail(s)[k] = s[k + 1]
  OBVIOUS
<1> DEFINE Rest == Places(s, D) \ {1}
           f == [k \in Places(Tail(s), D) |-> k + 1]
<1>2. IsFiniteSet(Places(Tail(s), D)) /\ IsFiniteSet(Places(s, D))
  BY <1>1, PlacesFinite
<1>3. f \in Bijection(Places(Tail(s), D), Rest)
  <2>1. f \in [Places(Tail(s), D) -> Rest]
    BY <1>1 DEF Places
  <2>2. \A j, k \in Places(Tail(s), D) : f[j] = f[k] => j = k
    BY <1>1 DEF Places
  <2>3. \A r \in Rest : \E k \in Places(Tail(s), D) : f[k] = r
    <3> SUFFICES ASSUME NEW r \in Rest PROVE r - 1 \in Places(Tail(s), D) /\ f[r - 1] = r
      OBVIOUS
    <3>1. r \in Nat /\ r - 1 \in 1..(Len(s) - 1) /\ s[r] \in D
      BY <1>1 DEF Places
    <3> QED BY <1>1, <3>1 DEF Places
  <2> QED BY <2>1, <2>2, <2>3 DEF Bijection, Injection, Surjection, IsInjective
<1>4. Cardinality(Rest) = Cardinality(Places(Tail(s), D))
  BY <1>2, <1>3, FS_Bijection DEF ExistsBijection
<1>5. 1 \in Places(s, D) <=> Head(s) \in D
  BY <1>1 DEF Places
<1>6. /\ Cardinality(Rest) = IF 1 \in Places(s, D) THEN Cardinality(Places(s, D)) - 1
                                                  ELSE Cardinality(Places(s, D))
      /\ Cardinality(Places(s, D)) \in Nat
  BY <1>2, FS_RemoveElement, FS_CardinalityType
<1> QED BY <1>4, <1>5, <1>6 DEF One

-----------------------------------------------------------------------------
(* No connect is lost unaccounted for.  The equality is inductive with     *)
(* TypeOK and the map being finite, which no bound on the threads gives.   *)
ConnectEvents == {e \in Event : e.kind = "connect"}
Conserved == TypeOK /\ IsFiniteSet(DOMAIN connectArgs) /\ ConnectsConserved

(* The connects of the ring are the places of it that hold one.            *)
LEMMA RingCount ==
  ASSUME NEW s \in Seq(Event)
  PROVE  ConnectsIn(s) = Places(s, ConnectEvents) /\ Cardinality(ConnectsIn(s)) \in Nat
<1>1. \A k \in DOMAIN s : s[k] \in Event
  OBVIOUS
<1>2. ConnectsIn(s) = Places(s, ConnectEvents)
  BY <1>1 DEF ConnectsIn, Places, ConnectEvents
<1> QED BY <1>2, PlacesFinite

(* A loss is counted once, under its cause.                                *)
LEMMA LostCount ==
  ASSUME TypeOK
  PROVE  /\ Lost \in Nat
         /\ UNCHANGED gone => Lost' = Lost
         /\ \A cause \in Causes : Lose(cause) => Lost' = Lost + 1
<1>1. /\ gone["ringFull"] \in Nat /\ gone["evicted"] \in Nat /\ gone["overwritten"] \in Nat
      /\ gone["tooShort"] \in Nat /\ gone["outOfScope"] \in Nat /\ gone["noLog"] \in Nat
      /\ gone["writeError"] \in Nat
  BY DEF TypeOK, Causes
<1>2. ASSUME NEW cause \in Causes, Lose(cause) PROVE Lost' = Lost + 1
  <2>1. \A c \in Causes : gone'[c] = IF c = cause THEN gone[c] + 1 ELSE gone[c]
    BY <1>2 DEF Lose, TypeOK
  <2>2. CASE cause \in {"ringFull", "evicted", "overwritten"}
    <3>1. /\ gone'["tooShort"] = gone["tooShort"] /\ gone'["outOfScope"] = gone["outOfScope"]
          /\ gone'["noLog"] = gone["noLog"] /\ gone'["writeError"] = gone["writeError"]
      BY <2>1, <2>2 DEF Causes
    <3>2. gone'["ringFull"] + gone'["evicted"] + gone'["overwritten"]
            = gone["ringFull"] + gone["evicted"] + gone["overwritten"] + 1
      BY <1>1, <2>1, <2>2 DEF Causes
    <3> QED BY <1>1, <3>1, <3>2 DEF Lost
  <2>3. CASE cause \in {"tooShort", "outOfScope", "noLog", "writeError"}
    <3>1. /\ gone'["ringFull"] = gone["ringFull"] /\ gone'["evicted"] = gone["evicted"]
          /\ gone'["overwritten"] = gone["overwritten"]
      BY <2>1, <2>3 DEF Causes
    <3>2. gone'["tooShort"] + gone'["outOfScope"] + gone'["noLog"] + gone'["writeError"]
            = gone["tooShort"] + gone["outOfScope"] + gone["noLog"] + gone["writeError"] + 1
      BY <1>1, <2>1, <2>3 DEF Causes
    <3>3. \A c \in Causes : gone'[c] \in Nat
      <4>1. \A c \in Causes : gone[c] \in Nat
        BY DEF TypeOK
      <4> QED BY <2>1, <4>1
    <3>4. /\ gone'["tooShort"] \in Nat /\ gone'["outOfScope"] \in Nat
          /\ gone'["noLog"] \in Nat /\ gone'["writeError"] \in Nat
      BY <3>3 DEF Causes
    <3> QED BY <1>1, <3>1, <3>2, <3>4 DEF Lost
  <2> QED BY <2>2, <2>3 DEF Causes
<1> QED BY <1>1, <1>2 DEF Lost

(* The writer of a connect queues it or counts it as lost.                 *)
LEMMA SubmitCounts ==
  ASSUME TypeOK, NEW e \in Event, Submit(e)
  PROVE  Cardinality(ConnectsIn(ring')) + Lost'
            = Cardinality(ConnectsIn(ring)) + Lost + One(e.kind = "connect")
<1>1. ring \in Seq(Event) /\ Lost \in Nat /\ Cardinality(ConnectsIn(ring)) \in Nat
  BY LostCount, RingCount DEF TypeOK
<1>2. CASE Len(ring) < RingSize
  <2>1. ring' = Append(ring, e) /\ UNCHANGED gone
    BY <1>2 DEF Submit
  <2>2. ring' \in Seq(Event) /\ Lost' = Lost
    BY <1>1, <2>1, LostCount
  <2>3. Cardinality(ConnectsIn(ring')) = Cardinality(ConnectsIn(ring)) + One(e \in ConnectEvents)
    BY <1>1, <2>1, <2>2, RingCount, PlacesAppend, ZenonT(60)
  <2> QED BY <1>1, <2>2, <2>3 DEF ConnectEvents, One
<1>3. CASE ~(Len(ring) < RingSize)
  <2>1. ring' = ring /\ IF e.kind = "connect" THEN Lose("ringFull") ELSE UNCHANGED gone
    BY <1>3 DEF Submit
  <2>2. Lost' = Lost + One(e.kind = "connect")
    BY <1>1, <2>1, LostCount DEF Causes, One
  <2>3. One(e.kind = "connect") \in Nat /\ ConnectsIn(ring') = ConnectsIn(ring)
    BY <2>1 DEF One, ConnectsIn
  <2> QED BY <1>1, <2>2, <2>3
<1> QED BY <1>2, <1>3

(* The entry probe adds one connect, and may push one out.                 *)
LEMMA InsertCounts ==
  ASSUME Conserved, NEW t \in Threads, NEW a \in Addresses, Insert(t, a)
  PROVE  /\ IsFiniteSet(DOMAIN connectArgs')
         /\ Cardinality(DOMAIN connectArgs') + Lost' = Cardinality(DOMAIN connectArgs) + Lost + 1
<1> DEFINE D == DOMAIN connectArgs
<1>1. IsFiniteSet(D) /\ Cardinality(D) \in Nat /\ TypeOK
  BY FS_CardinalityType DEF Conserved
<1>2. Lost \in Nat
  BY <1>1, LostCount
<1>3. CASE t \notin D /\ Cardinality(D) = MaxEntries
  <2>1. PICK old \in D : DOMAIN connectArgs' = (D \ {old}) \cup {t} /\ Lose("evicted")
    BY <1>3 DEF Insert
  <2>2. IsFiniteSet(D \ {old}) /\ Cardinality(D \ {old}) = Cardinality(D) - 1
    BY <1>1, FS_RemoveElement
  <2>3. /\ IsFiniteSet((D \ {old}) \cup {t})
        /\ Cardinality((D \ {old}) \cup {t}) = Cardinality(D \ {old}) + 1
    BY <1>3, <2>2, FS_AddElement
  <2>4. Lost' = Lost + 1
    BY <1>1, <2>1, LostCount DEF Causes
  <2> QED BY <1>1, <1>2, <2>1, <2>2, <2>3, <2>4
<1>4. CASE ~(t \notin D /\ Cardinality(D) = MaxEntries)
  <2>1. /\ DOMAIN connectArgs' = D \cup {t}
        /\ IF t \in D THEN Lose("overwritten") ELSE UNCHANGED gone
    BY <1>4 DEF Insert
  <2>2. /\ IsFiniteSet(D \cup {t})
        /\ Cardinality(D \cup {t}) = Cardinality(D) + One(t \notin D)
    BY <1>1, FS_AddElement DEF One
  <2>3. Lost' = Lost + One(t \in D)
    BY <1>1, <1>2, <2>1, LostCount DEF Causes, One
  <2> QED BY <1>1, <1>2, <2>1, <2>2, <2>3 DEF One
<1> QED BY <1>3, <1>4

(* The drain takes one event: a connect goes to the log or is counted lost.*)
LEMMA DrainCounts ==
  ASSUME TypeOK, Drain \/ DrainFails
  PROVE  Cardinality(ConnectsIn(ring')) + Len(network') + Lost'
            = Cardinality(ConnectsIn(ring)) + Len(network) + Lost
<1> DEFINE e == Head(ring)
<1> USE DEF history, threads, writers
<1>1. ring \in Seq(Event) /\ network \in Seq(Event) /\ ring # <<>> /\ ring' = Tail(ring)
  BY DEF TypeOK, Drain, DrainFails
<1>2. e \in Event /\ ring' \in Seq(Event) /\ e.kind \in {"openat", "execve", "exit", "connect"}
  <2>1. e \in Event /\ ring' \in Seq(Event)
    BY <1>1
  <2> QED BY <2>1 DEF Event, Kinds
<1>3. Cardinality(ConnectsIn(ring)) = Cardinality(ConnectsIn(ring')) + One(e \in ConnectEvents)
  BY <1>1, <1>2, RingCount, PlacesTail
<1>4. /\ Lost \in Nat /\ Len(network) \in Nat
      /\ Cardinality(ConnectsIn(ring)) \in Nat /\ Cardinality(ConnectsIn(ring')) \in Nat
  <2>1. Lost \in Nat /\ Len(network) \in Nat
    BY <1>1, LostCount
  <2>2. Cardinality(ConnectsIn(ring)) \in Nat
    BY <1>1, RingCount
  <2>3. Cardinality(ConnectsIn(ring')) \in Nat
    BY <1>2, RingCount
  <2> QED BY <2>1, <2>2, <2>3
<1>5. Len(network') + Lost' = Len(network) + Lost + One(e.kind = "connect")
  <2>1. ASSUME NEW cause \in Causes, Forget(e, cause), UNCHANGED network
        PROVE  Len(network') + Lost' = Len(network) + Lost + One(e.kind = "connect")
    BY <1>4, <2>1, LostCount DEF Forget, One
  <2>2. CASE Drain /\ NoRow(e) = None
    <3>1. /\ Lost' = Lost
          /\ IF e.kind = "connect" THEN network' = Append(network, e) ELSE network' = network
      BY <1>2, <2>2, LostCount DEF Drain, Write
    <3>2. Len(Append(network, e)) = Len(network) + 1
      BY <1>1, <1>2
    <3> QED BY <1>4, <3>1, <3>2 DEF One
  <2>3. CASE Drain /\ NoRow(e) # None
    <3>1. NoRow(e) \in Causes
      BY <2>3, NoRowCauses
    <3>2. Forget(e, NoRow(e)) /\ UNCHANGED network
      BY <2>3 DEF Drain
    <3> QED BY <2>1, <3>1, <3>2
  <2>4. CASE DrainFails
    BY <2>1, <2>4 DEF DrainFails, Causes
  <2> QED BY <2>2, <2>3, <2>4
<1>6. One(e \in ConnectEvents) = One(e.kind = "connect") /\ One(e.kind = "connect") \in Nat
  BY <1>2 DEF ConnectEvents, One
<1>7. Len(network') \in Nat /\ Lost' \in Nat
  <2>1. TypeOK'
    BY NextTyped DEF Next
  <2>2. network' \in Seq(Event) /\ gone' \in [Causes -> Nat]
    BY <2>1 DEF TypeOK
  <2> QED BY <2>2 DEF Lost, Causes
<1>8. PICK d \in Nat : /\ Cardinality(ConnectsIn(ring)) = Cardinality(ConnectsIn(ring')) + d
                      /\ Len(network') + Lost' = Len(network) + Lost + d
  BY Zenon, <1>3, <1>5, <1>6
<1>9. PICK q \in Nat, q1 \in Nat : q = Cardinality(ConnectsIn(ring)) /\ q1 = Cardinality(ConnectsIn(ring'))
  BY <1>4
<1>10. PICK n \in Nat, l \in Nat, m \in Nat :
         n = Len(network') + Lost' /\ l = Len(network) /\ m = Lost
  BY <1>4, <1>7
<1>11. q = q1 + d /\ n = l + m + d
  BY <1>8, <1>9, <1>10
<1>12. q1 + n = q + l + m
  BY <1>11
<1>13. q1 + n = (q1 + Len(network')) + Lost'
  BY <1>7, <1>10
<1> QED BY <1>9, <1>10, <1>12, <1>13

(* The step: each action moves a connect or counts it.                     *)
LEMMA ConservedStep == Conserved /\ [Next]_vars => Conserved'
<1> SUFFICES ASSUME Conserved, [Next]_vars PROVE Conserved'
  OBVIOUS
<1> USE DEF history, threads, writers
<1> DEFINE D == DOMAIN connectArgs
           Queued(s) == Cardinality(ConnectsIn(s))
<1>1. /\ TypeOK /\ IsFiniteSet(D) /\ Cardinality(D) + Queued(ring) + Len(network) + Lost = entered
      /\ TypeOK'
  BY NextTyped DEF Conserved, ConnectsConserved
<1>2. /\ Cardinality(D) \in Nat /\ Queued(ring) \in Nat /\ Len(network) \in Nat
      /\ Lost \in Nat /\ entered \in Nat
  <2>1. Cardinality(D) \in Nat
    BY <1>1, FS_CardinalityType
  <2>2. ring \in Seq(Event) /\ network \in Seq(Event) /\ entered \in Nat
    BY <1>1 DEF TypeOK
  <2>3. Queued(ring) \in Nat
    BY <2>2, RingCount
  <2>4. Lost \in Nat
    BY <1>1, LostCount
  <2> QED BY <2>1, <2>2, <2>3, <2>4
<1>3. Queued(ring') \in Nat /\ Lost' \in Nat
  <2>1. ring' \in Seq(Event) /\ gone' \in [Causes -> Nat]
    BY <1>1 DEF TypeOK
  <2> QED BY <2>1, RingCount DEF Lost, Causes
<1>4. SUFFICES /\ IsFiniteSet(D')
               /\ Cardinality(D') + Queued(ring') + Len(network') + Lost' = entered'
  BY <1>1 DEF Conserved, ConnectsConserved
<1>5. ASSUME NEW t \in Threads, NEW kind \in {"openat", "execve", "exit"}, Trace(t, kind)
      PROVE  IsFiniteSet(D') /\ Cardinality(D') + Queued(ring') + Len(network') + Lost' = entered'
  <2> DEFINE e == [kind |-> kind, thread |-> t, dst |-> Local, call |-> Local]
  <2>1. e \in Event /\ Submit(e) /\ UNCHANGED <<connectArgs, network, entered>> /\ e.kind # "connect"
    BY <1>5 DEF Trace, Event, Kinds
  <2>2. Queued(ring') + Lost' = Queued(ring) + Lost
    <3>1. Queued(ring') + Lost' = Queued(ring) + Lost + One(e.kind = "connect")
      BY <1>1, <2>1, SubmitCounts
    <3> QED BY <1>2, <2>1, <3>1 DEF One
  <2> QED BY <1>1, <1>2, <1>3, <2>1, <2>2, SMTT(60)
<1>6. ASSUME NEW t \in Threads, NEW a \in Addresses \cup {Local}, ConnectEnter(t, a)
      PROVE  IsFiniteSet(D') /\ Cardinality(D') + Queued(ring') + Len(network') + Lost' = entered'
  <2>1. UNCHANGED <<ring, network>>
    BY <1>6 DEF ConnectEnter
  <2>2. CASE Attached("connectEnter") /\ read_sockaddr(a)
    <3>1. a \in Addresses /\ Insert(t, a) /\ entered' = entered + 1
      BY <1>6, <2>2 DEF ConnectEnter, Count, read_sockaddr
    <3>2. IsFiniteSet(D') /\ Cardinality(D') + Lost' = Cardinality(D) + Lost + 1
      BY <3>1, InsertCounts
    <3>3. Cardinality(D') \in Nat
      BY <3>2, FS_CardinalityType
    <3>4. Queued(ring') = Queued(ring) /\ Len(network') = Len(network)
      BY <2>1
    <3> QED BY <1>1, <1>2, <1>3, <3>1, <3>2, <3>3, <3>4, SMTT(60)
  <2>3. CASE ~(Attached("connectEnter") /\ read_sockaddr(a))
    <3>1. UNCHANGED <<connectArgs, entered, gone>>
      BY <1>6, <2>3 DEF ConnectEnter
    <3>2. Lost' = Lost
      BY <1>1, <3>1, LostCount
    <3> QED BY <1>1, <2>1, <3>1, <3>2
  <2> QED BY <2>2, <2>3
<1>7. ASSUME NEW t \in Threads, ConnectReturn(t)
      PROVE  IsFiniteSet(D') /\ Cardinality(D') + Queued(ring') + Len(network') + Lost' = entered'
  <2>1. UNCHANGED <<network, entered>>
    BY <1>7 DEF ConnectReturn
  <2>2. CASE armed[t] /\ Attached("connectReturn") /\ t \in D
    <3> DEFINE e == [kind |-> "connect", thread |-> t, dst |-> connectArgs[t], call |-> call[t]]
    <3>1. Remove(t) /\ Submit(e) /\ call[t] # Idle
      BY <1>7, <2>2 DEF ConnectReturn
    <3>2. connectArgs[t] \in Addresses /\ call[t] \in Addresses \cup {Local}
      BY <1>1, <2>2, <3>1 DEF TypeOK
    <3>3. e \in Event /\ e.kind = "connect"
      BY <3>2 DEF Event, Kinds
    <3>4. Queued(ring') + Lost' = Queued(ring) + Lost + 1
      <4>1. Queued(ring') + Lost' = Queued(ring) + Lost + One(e.kind = "connect")
        BY <1>1, <3>1, <3>3, SubmitCounts
      <4> QED BY <3>3, <4>1 DEF One
    <3>5. IsFiniteSet(D') /\ Cardinality(D') = Cardinality(D) - 1
      BY <1>1, <2>2, <3>1, FS_RemoveElement DEF Remove
    <3>6. Cardinality(D') \in Nat /\ Len(network') = Len(network) /\ entered' = entered
      BY <2>1, <3>5, FS_CardinalityType
    <3>7. Cardinality(D') + (Queued(ring') + Lost') = Cardinality(D) + Queued(ring) + Lost
      BY <1>2, <1>3, <3>4, <3>5, <3>6
    <3>8. PICK d1 \in Nat, q1 \in Nat, l1 \in Nat :
            d1 = Cardinality(D') /\ q1 = Queued(ring') /\ l1 = Lost'
      BY Zenon, <1>3, <3>6
    <3>9. PICK d \in Nat, q \in Nat, l \in Nat, n \in Nat :
            d = Cardinality(D) /\ q = Queued(ring) /\ l = Lost /\ n = Len(network)
      BY Zenon, <1>2
    <3>10. d1 + (q1 + l1) = d + q + l
      BY Zenon, <3>7, <3>8, <3>9
    <3>11. d1 + q1 + n + l1 = d + q + n + l
      BY <3>10
    <3> QED BY Zenon, <1>1, <3>5, <3>6, <3>8, <3>9, <3>11
  <2>3. CASE ~(armed[t] /\ Attached("connectReturn") /\ t \in D)
    <3>1. UNCHANGED <<connectArgs, ring, gone>>
      BY <1>7, <2>3 DEF ConnectReturn
    <3>2. Lost' = Lost
      BY <1>1, <3>1, LostCount
    <3> QED BY <1>1, <2>1, <3>1, <3>2
  <2> QED BY <2>2, <2>3
<1>8. ASSUME Drain \/ DrainFails
      PROVE  IsFiniteSet(D') /\ Cardinality(D') + Queued(ring') + Len(network') + Lost' = entered'
  <2>1. UNCHANGED <<connectArgs, entered>>
    BY <1>8 DEF Drain, DrainFails
  <2>2. Queued(ring') + Len(network') + Lost' = Queued(ring) + Len(network) + Lost
    BY <1>1, <1>8, DrainCounts
  <2>3. Len(network') \in Nat
    <3>1. network' \in Seq(Event)
      BY <1>1 DEF TypeOK
    <3> QED BY <3>1
  <2> QED BY <1>1, <1>2, <1>3, <2>1, <2>2, <2>3, SMTT(60)
<1>9. ASSUME UNCHANGED <<connectArgs, ring, network, gone, entered>>
      PROVE  IsFiniteSet(D') /\ Cardinality(D') + Queued(ring') + Len(network') + Lost' = entered'
  <2>1. Lost' = Lost
    BY <1>1, <1>9, LostCount
  <2> QED BY <1>1, <1>9, <2>1
<1>10. \/ \E t \in Threads, kind \in {"openat", "execve", "exit"} : Trace(t, kind)
       \/ \E t \in Threads, a \in Addresses \cup {Local} : ConnectEnter(t, a)
       \/ \E t \in Threads : ConnectReturn(t)
       \/ Drain \/ DrainFails \/ UNCHANGED <<connectArgs, ring, network, gone, entered>>
  BY DEF Next, Attach, SetupFails, StartLoop, DeadlinePasses, CheckDeadline, RingEmpty, Wake, vars
<1> QED BY <1>5, <1>6, <1>7, <1>8, <1>9, <1>10

(* Every connect the sensor traced is in the map, in the ring or in the    *)
(* log, or is counted under the one way the code dropped it, whatever the  *)
(* sizes of the map and the ring and however the threads interleave.       *)
THEOREM ConnectsAreConserved == Spec => []ConnectsConserved
<1>1. Init => Conserved
  <2> SUFFICES ASSUME Init PROVE Conserved
    OBVIOUS
  <2>1. /\ TypeOK /\ DOMAIN connectArgs = {} /\ ring = <<>> /\ network = <<>> /\ entered = 0
        /\ gone = [c \in Causes |-> 0]
    BY InitTyped DEF Init
  <2>2. ConnectsIn(ring) = {} /\ Lost = 0 /\ Len(network) = 0
    BY <2>1 DEF ConnectsIn, Lost, Causes
  <2>3. /\ IsFiniteSet(DOMAIN connectArgs) /\ Cardinality(DOMAIN connectArgs) = 0
        /\ Cardinality(ConnectsIn(ring)) = 0
    BY <2>1, <2>2, FS_EmptySet
  <2> QED BY <2>1, <2>2, <2>3 DEF Conserved, ConnectsConserved
<1>2. Conserved => ConnectsConserved
  BY DEF Conserved
<1> QED BY <1>1, <1>2, ConservedStep, PTL DEF Spec

-----------------------------------------------------------------------------
(* Sensor implements ConnectLedger: the map is what is kept, the ring what *)
(* is queued, network.jsonl what is logged.                                *)
Connects == Threads \X Addresses
EventsOf(c) == {e \in Event : e.kind = "connect" /\ e.thread = c[1] /\ e.dst = c[2]}
Named(e) == <<e.thread, e.dst>>

(* How many events of a connect a sequence holds.                          *)
LEMMA InCounts ==
  ASSUME NEW s \in Seq(Event)
  PROVE  /\ In(s) = [c \in Connects |-> Cardinality(Places(s, EventsOf(c)))]
         /\ In(s) \in [Connects -> Nat]
<1>1. ASSUME NEW c \in Connects
      PROVE  {k \in ConnectsIn(s) : s[k].thread = c[1] /\ s[k].dst = c[2]} = Places(s, EventsOf(c))
  <2>1. \A k \in DOMAIN s : s[k] \in Event
    OBVIOUS
  <2> QED BY <2>1 DEF ConnectsIn, Places, EventsOf
<1>2. In(s) = [c \in Connects |-> Cardinality(Places(s, EventsOf(c)))]
  BY <1>1 DEF In, Connects
<1>3. \A c \in Connects : Cardinality(Places(s, EventsOf(c))) \in Nat
  BY PlacesFinite
<1> QED BY <1>2, <1>3

(* A connect to an address is an event of one connect, any other of none.  *)
LEMMA EventOfOne ==
  ASSUME NEW e \in Event
  PROVE  /\ e.kind = "connect" /\ e.dst \in Addresses =>
                Named(e) \in Connects /\ \A c \in Connects : e \in EventsOf(c) <=> c = Named(e)
         /\ ~(e.kind = "connect" /\ e.dst \in Addresses) => \A c \in Connects : e \notin EventsOf(c)
<1>1. e.thread \in Threads
  BY DEF Event
<1>2. \A c \in Connects : c = <<c[1], c[2]>> /\ c[1] \in Threads /\ c[2] \in Addresses
  BY DEF Connects
<1>3. \A c \in Connects : c = Named(e) <=> e.thread = c[1] /\ e.dst = c[2]
  BY <1>2 DEF Named
<1>4. \A c \in Connects : e \in EventsOf(c) <=> e.kind = "connect" /\ c = Named(e)
  BY <1>3 DEF EventsOf
<1>5. \A c \in Connects : c = Named(e) => e.dst \in Addresses
  BY <1>2 DEF Named
<1> QED BY <1>1, <1>4, <1>5 DEF Named, Connects

(* One event more.                                                         *)
LEMMA InAppend ==
  ASSUME NEW s \in Seq(Event), NEW e \in Event
  PROVE  In(Append(s, e)) = IF e.kind = "connect" /\ e.dst \in Addresses
                            THEN [In(s) EXCEPT ![Named(e)] = @ + 1] ELSE In(s)
<1>1. Append(s, e) \in Seq(Event)
  OBVIOUS
<1>2. \A c \in Connects : In(Append(s, e))[c] = In(s)[c] + One(e \in EventsOf(c))
  BY <1>1, InCounts, PlacesAppend, ZenonT(60)
<1>3. In(s) \in [Connects -> Nat] /\ In(Append(s, e)) \in [Connects -> Nat]
  BY <1>1, InCounts
<1>4. CASE e.kind = "connect" /\ e.dst \in Addresses
  BY <1>2, <1>3, <1>4, EventOfOne DEF One
<1>5. CASE ~(e.kind = "connect" /\ e.dst \in Addresses)
  BY <1>2, <1>3, <1>5, EventOfOne DEF One
<1> QED BY <1>4, <1>5

(* One event less: it was there.                                           *)
LEMMA InTail ==
  ASSUME NEW s \in Seq(Event), s # <<>>, NEW e, e = Head(s)
  PROVE  IF e.kind = "connect" /\ e.dst \in Addresses
         THEN In(s)[Named(e)] > 0 /\ In(Tail(s)) = [In(s) EXCEPT ![Named(e)] = @ - 1]
         ELSE In(Tail(s)) = In(s)
<1>1. Tail(s) \in Seq(Event) /\ e \in Event
  OBVIOUS
<1>2. \A c \in Connects : In(s)[c] = In(Tail(s))[c] + One(e \in EventsOf(c))
  BY <1>1, InCounts, PlacesTail
<1>3. In(s) \in [Connects -> Nat] /\ In(Tail(s)) \in [Connects -> Nat]
  BY <1>1, InCounts
<1>4. CASE e.kind = "connect" /\ e.dst \in Addresses
  <2>1. Named(e) \in Connects /\ \A c \in Connects : One(e \in EventsOf(c)) = One(c = Named(e))
    BY <1>1, <1>4, EventOfOne
  <2>2. \A c \in Connects : In(Tail(s))[c] = IF c = Named(e) THEN In(s)[c] - 1 ELSE In(s)[c]
    BY <1>2, <1>3, <2>1 DEF One
  <2>3. In(s)[Named(e)] > 0
    BY <1>2, <1>3, <2>1 DEF One
  <2>4. In(Tail(s)) = [In(s) EXCEPT ![Named(e)] = @ - 1]
    BY <1>3, <2>1, <2>2
  <2> QED BY <1>4, <2>3, <2>4
<1>5. CASE ~(e.kind = "connect" /\ e.dst \in Addresses)
  BY <1>1, <1>2, <1>3, <1>5, EventOfOne DEF One
<1> QED BY <1>4, <1>5

(* The entry probe keeps the connect, in an empty place or instead of the  *)
(* one it overwrites or pushes out.                                        *)
LEMMA InsertMoves ==
  ASSUME TypeOK, NEW t \in Threads, NEW a \in Addresses, Insert(t, a)
  PROVE  \/ Kept' = [Kept EXCEPT ![<<t, a>>] = @ + 1]
         \/ \E old \in Connects :
               /\ Kept[old] > 0
               /\ Kept' = [[Kept EXCEPT ![old] = @ - 1] EXCEPT ![<<t, a>>] = @ + 1]
<1> DEFINE D == DOMAIN connectArgs
           c == <<t, a>>
           Entry(f, x) == IF x[1] \in DOMAIN f /\ f[x[1]] = x[2] THEN 1 ELSE 0
<1>1. /\ Kept = [x \in Connects |-> Entry(connectArgs, x)]
      /\ Kept' = [x \in Connects |-> Entry(connectArgs', x)]
  BY DEF Kept, Connects
<1>2. c \in Connects /\ \A x \in Connects : x = <<x[1], x[2]>>
  BY DEF Connects
<1>3. \A o \in D : <<o, connectArgs[o]>> \in Connects /\ Kept[<<o, connectArgs[o]>>] = 1
  BY <1>1 DEF TypeOK, Connects
<1>4. CASE t \notin D /\ Cardinality(D) = MaxEntries
  <2>1. PICK o \in D : connectArgs' = [x \in (D \ {o}) \cup {t} |->
                                        IF x = t THEN a ELSE connectArgs[x]]
    BY <1>4 DEF Insert
  <2> DEFINE old == <<o, connectArgs[o]>>
  <2>2. \A x \in Connects : Entry(connectArgs', x) =
            IF x = c THEN 1 ELSE IF x = old THEN 0 ELSE Entry(connectArgs, x)
    BY <1>2, <1>4, <2>1
  <2>3. Entry(connectArgs, c) = 0 /\ Entry(connectArgs, old) = 1 /\ old # c /\ old \in Connects
    BY <1>3, <1>4
  <2>4. Kept' = [[Kept EXCEPT ![old] = @ - 1] EXCEPT ![c] = @ + 1]
    BY <1>1, <1>2, <2>2, <2>3
  <2>5. Kept[old] > 0
    BY <1>3
  <2> HIDE DEF old
  <2> QED BY Zenon, <2>3, <2>4, <2>5
<1>5. CASE ~(t \notin D /\ Cardinality(D) = MaxEntries)
  <2>1. connectArgs' = [x \in D \cup {t} |-> IF x = t THEN a ELSE connectArgs[x]]
    BY <1>5 DEF Insert
  <2>2. CASE t \in D
    <3> DEFINE old == <<t, connectArgs[t]>>
    <3>1. \A x \in Connects : Entry(connectArgs', x) =
              IF x = c THEN 1 ELSE IF x = old THEN 0 ELSE Entry(connectArgs, x)
      BY <1>2, <2>1, <2>2
    <3>2. Entry(connectArgs, c) = IF old = c THEN 1 ELSE 0
      BY <2>2
    <3>3. Entry(connectArgs, old) = 1 /\ old \in Connects
      BY <1>3, <2>2
    <3>4. Kept' = [[Kept EXCEPT ![old] = @ - 1] EXCEPT ![c] = @ + 1]
      BY <1>1, <1>2, <3>1, <3>2, <3>3
    <3>5. Kept[old] > 0
      BY <1>3, <2>2
    <3> HIDE DEF old
    <3> QED BY Zenon, <3>3, <3>4, <3>5
  <2>3. CASE t \notin D
    <3>1. \A x \in Connects : Entry(connectArgs', x) = IF x = c THEN 1 ELSE Entry(connectArgs, x)
      BY <1>2, <2>1, <2>3
    <3>2. Entry(connectArgs, c) = 0
      BY <2>3
    <3>3. Kept' = [Kept EXCEPT ![c] = @ + 1]
      BY <1>1, <1>2, <3>1, <3>2
    <3> QED BY <3>3
  <2> QED BY <2>2, <2>3
<1> QED BY <1>4, <1>5

(* The return probe takes one kept connect out.                            *)
LEMMA RemoveMoves ==
  ASSUME TypeOK, NEW t \in DOMAIN connectArgs, Remove(t)
  PROVE  LET c == <<t, connectArgs[t]>> IN
         c \in Connects /\ Kept[c] > 0 /\ Kept' = [Kept EXCEPT ![c] = @ - 1]
<1> DEFINE c == <<t, connectArgs[t]>>
           Entry(f, x) == IF x[1] \in DOMAIN f /\ f[x[1]] = x[2] THEN 1 ELSE 0
<1>1. /\ Kept = [x \in Connects |-> Entry(connectArgs, x)]
      /\ Kept' = [x \in Connects |-> Entry(connectArgs', x)]
  BY DEF Kept, Connects
<1>2. c \in Connects /\ Entry(connectArgs, c) = 1 /\ \A x \in Connects : x = <<x[1], x[2]>>
  BY DEF TypeOK, Connects
<1>3. \A x \in Connects : Entry(connectArgs', x) = IF x = c THEN 0 ELSE Entry(connectArgs, x)
  BY <1>2 DEF Remove
<1>4. Kept' = [Kept EXCEPT ![c] = @ - 1]
  BY <1>1, <1>2, <1>3
<1> QED BY <1>1, <1>2, <1>4

(* Each step moves one connect as the ledger allows, or none.              *)
LEMMA LedgerStep ==
  ASSUME TypeOK, [Next]_vars
  PROVE  Ledger!Next \/ UNCHANGED <<Kept, In(ring), In(network)>>
<1> USE DEF history, threads, writers
<1> DEFINE Move == Ledger!Next \/ UNCHANGED <<Kept, In(ring), In(network)>>
<1>1. ring \in Seq(Event) /\ network \in Seq(Event)
  BY DEF TypeOK
<1>2. (connectArgs' = connectArgs => Kept' = Kept)
      /\ (ring' = ring => In(ring)' = In(ring)) /\ (network' = network => In(network)' = In(network))
  BY DEF Kept, In, ConnectsIn
<1>3. ASSUME NEW t \in Threads, NEW kind \in {"openat", "execve", "exit"}, Trace(t, kind)
      PROVE  Move
  <2> DEFINE e == [kind |-> kind, thread |-> t, dst |-> Local, call |-> Local]
  <2>1. e \in Event /\ e.kind # "connect" /\ Submit(e) /\ UNCHANGED <<connectArgs, network>>
    BY <1>3 DEF Trace, Event, Kinds
  <2>2. ring' = ring \/ ring' = Append(ring, e)
    BY <2>1 DEF Submit
  <2>3. In(ring') = In(ring)
    BY <1>1, <2>1, <2>2, InAppend
  <2> QED BY <1>2, <2>1, <2>3
<1>4. ASSUME NEW t \in Threads, NEW a \in Addresses \cup {Local}, ConnectEnter(t, a)
      PROVE  Move
  <2>1. UNCHANGED <<ring, network>>
    BY <1>4 DEF ConnectEnter
  <2>2. CASE Attached("connectEnter") /\ read_sockaddr(a)
    <3>1. a \in Addresses /\ Insert(t, a) /\ <<t, a>> \in Connects
      BY <1>4, <2>2 DEF ConnectEnter, read_sockaddr, Connects
    <3>2. \/ Kept' = [Kept EXCEPT ![<<t, a>>] = @ + 1]
          \/ \E old \in Connects :
               /\ Kept[old] > 0
               /\ Kept' = [[Kept EXCEPT ![old] = @ - 1] EXCEPT ![<<t, a>>] = @ + 1]
      BY <3>1, InsertMoves
    <3>3. Ledger!Enter(<<t, a>>) \/ \E old \in Connects : Ledger!Replace(old, <<t, a>>)
      BY <1>2, <2>1, <3>2 DEF Ledger!Enter, Ledger!Replace, Ledger!More, Ledger!Less, Ledger!Has
    <3> QED BY <3>1, <3>3 DEF Ledger!Next, Connects
  <2>3. CASE ~(Attached("connectEnter") /\ read_sockaddr(a))
    BY <1>2, <1>4, <2>1, <2>3 DEF ConnectEnter
  <2> QED BY <2>2, <2>3
<1>5. ASSUME NEW t \in Threads, ConnectReturn(t) PROVE Move
  <2>1. UNCHANGED network
    BY <1>5 DEF ConnectReturn
  <2>2. CASE armed[t] /\ Attached("connectReturn") /\ t \in DOMAIN connectArgs
    <3> DEFINE e == [kind |-> "connect", thread |-> t, dst |-> connectArgs[t], call |-> call[t]]
               c == <<t, connectArgs[t]>>
    <3>1. Remove(t) /\ Submit(e) /\ call[t] # Idle
      BY <1>5, <2>2 DEF ConnectReturn
    <3>2. connectArgs[t] \in Addresses /\ call[t] \in Addresses \cup {Local}
      BY <2>2, <3>1 DEF TypeOK
    <3>3. e \in Event /\ e.kind = "connect" /\ e.dst \in Addresses /\ Named(e) = c
      BY <3>2 DEF Event, Kinds, Named
    <3>4. c \in Connects /\ Kept[c] > 0 /\ Kept' = [Kept EXCEPT ![c] = @ - 1]
      BY <2>2, <3>1, RemoveMoves
    <3>5. ring' = ring \/ In(ring') = [In(ring) EXCEPT ![c] = @ + 1]
      <4>1. ring' = ring \/ ring' = Append(ring, e)
        BY <3>1 DEF Submit
      <4>2. In(Append(ring, e)) = [In(ring) EXCEPT ![c] = @ + 1]
        BY <1>1, <3>3, InAppend
      <4> QED BY <4>1, <4>2
    <3>6. Ledger!Return(c) \/ Ledger!Forget(c)
      BY <1>2, <2>1, <3>4, <3>5 DEF Ledger!Return, Ledger!Forget, Ledger!More, Ledger!Less, Ledger!Has
    <3> QED BY <3>4, <3>6 DEF Ledger!Next, Connects
  <2>3. CASE ~(armed[t] /\ Attached("connectReturn") /\ t \in DOMAIN connectArgs)
    BY <1>2, <1>5, <2>1, <2>3 DEF ConnectReturn
  <2> QED BY <2>2, <2>3
<1>6. ASSUME Drain \/ DrainFails PROVE Move
  <2> DEFINE e == Head(ring)
             c == Named(e)
             isConnect == e.kind = "connect" /\ e.dst \in Addresses
  <2>1. UNCHANGED connectArgs /\ ring # <<>> /\ ring' = Tail(ring)
    BY <1>6 DEF Drain, DrainFails
  <2>2. e \in Event /\ e.kind \in {"openat", "execve", "exit", "connect"}
    <3>1. e \in Event
      BY <1>1, <2>1
    <3> QED BY <3>1 DEF Event, Kinds
  <2>3. IF isConnect THEN In(ring)[c] > 0 /\ In(ring') = [In(ring) EXCEPT ![c] = @ - 1]
                     ELSE In(ring') = In(ring)
    BY <1>1, <2>1, InTail
  <2>4. \/ UNCHANGED network
        \/ e.kind = "connect" /\ network' = Append(network, e)
    BY <1>6, <2>2 DEF Drain, DrainFails, Write
  <2>5. \/ In(network') = In(network)
        \/ isConnect /\ In(network') = [In(network) EXCEPT ![c] = @ + 1]
    BY <1>1, <1>2, <2>2, <2>4, InAppend
  <2>6. CASE isConnect
    <3>1. c \in Connects
      BY <2>2, <2>6, EventOfOne
    <3>2. Ledger!Log(c) \/ Ledger!Drop(c)
      BY <1>2, <2>1, <2>3, <2>5, <2>6
         DEF Ledger!Log, Ledger!Drop, Ledger!More, Ledger!Less, Ledger!Has
    <3> QED BY <3>1, <3>2 DEF Ledger!Next, Connects
  <2>7. CASE ~isConnect
    BY <1>2, <2>1, <2>3, <2>5, <2>7
  <2> QED BY <2>6, <2>7
<1>7. CASE UNCHANGED <<connectArgs, ring, network>>
  BY <1>2, <1>7
<1>8. \/ \E t \in Threads, kind \in {"openat", "execve", "exit"} : Trace(t, kind)
      \/ \E t \in Threads, a \in Addresses \cup {Local} : ConnectEnter(t, a)
      \/ \E t \in Threads : ConnectReturn(t)
      \/ Drain \/ DrainFails \/ UNCHANGED <<connectArgs, ring, network>>
  BY DEF Next, Attach, SetupFails, StartLoop, DeadlinePasses, CheckDeadline, RingEmpty, Wake, vars
<1> QED BY <1>3, <1>4, <1>5, <1>6, <1>7, <1>8

(* However the calls of the threads interleave with the sensor, a connect  *)
(* of a thread to an address is kept, then queued, then logged, each time  *)
(* once: Sensor implements ConnectLedger for any number of threads and     *)
(* addresses and any size of the map and the ring.                         *)
THEOREM SensorImplementsLedger == Spec => EachConnectMovesOnce
<1>1. Init => Ledger!Init
  <2> SUFFICES ASSUME Init PROVE Ledger!Init
    OBVIOUS
  <2>1. DOMAIN connectArgs = {} /\ ring = <<>> /\ network = <<>>
    BY DEF Init
  <2>2. Kept = [c \in Connects |-> 0]
    BY <2>1 DEF Kept, Connects
  <2>3. In(<<>>) = [c \in Connects |-> 0]
    <3>1. <<>> \in Seq(Event) /\ \A c \in Connects : Places(<<>>, EventsOf(c)) = {}
      BY DEF Places
    <3> QED BY <3>1, InCounts, FS_EmptySet
  <2> QED BY <2>1, <2>2, <2>3 DEF Ledger!Init, Ledger!None, Connects
<1>2. TypeOK /\ [Next]_vars => [Ledger!Next]_<<Kept, In(ring), In(network)>>
  BY LedgerStep
<1> QED BY <1>1, <1>2, TypeCorrect, PTL DEF Spec, EachConnectMovesOnce, Ledger!Spec
=============================================================================
