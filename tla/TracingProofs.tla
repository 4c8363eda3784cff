---------------------------- MODULE TracingProofs ----------------------------
(***************************************************************************)
(* Proofs about Tracing, for any processes, paths and sizes: what a row    *)
(* says of its process is true or late (ProcRowsAreTrueOrLate), nothing    *)
(* follows the last exit (NoRowAfterTheLastExit), and every mark of a      *)
(* canary file, or its absence, has a reason (CanaryMarksAreExplained).    *)
(***************************************************************************)
EXTENDS Tracing, SequenceTheorems, TLAPS

-----------------------------------------------------------------------------
(* Sequences of anything.                                                  *)
IsSeq(s) == s \in Seq(Range(s))

(* A sequence of some set is one of its own elements.                      *)
LEMMA SeqIsSeq ==
  ASSUME NEW S, NEW s \in Seq(S)
  PROVE  IsSeq(s)
<1>1. DOMAIN s = 1..Len(s) /\ Len(s) \in Nat /\ s \in [1..Len(s) -> Range(s)]
  BY DEF Range
<1> QED BY <1>1 DEF IsSeq

(* What Append and Tail do to the elements.                                *)
LEMMA AppendElements ==
  ASSUME NEW s, IsSeq(s), NEW e
  PROVE  /\ IsSeq(Append(s, e)) /\ Len(s) \in Nat /\ DOMAIN s = 1..Len(s)
         /\ DOMAIN Append(s, e) = 1..(Len(s) + 1)
         /\ \A k \in 1..Len(s) : Append(s, e)[k] = s[k]
         /\ Append(s, e)[Len(s) + 1] = e
<1> DEFINE S == Range(s) \cup {e}
<1>1. s \in Seq(S)
  BY DEF IsSeq
<1>2. e \in S
  OBVIOUS
<1> HIDE DEF S
<1>3. Append(s, e) \in Seq(S)
  BY <1>1, <1>2
<1>4. /\ Len(s) \in Nat /\ DOMAIN s = 1..Len(s) /\ DOMAIN Append(s, e) = 1..(Len(s) + 1)
      /\ \A k \in 1..Len(s) : Append(s, e)[k] = s[k]
      /\ Append(s, e)[Len(s) + 1] = e
  BY <1>1, <1>2
<1> QED BY <1>3, <1>4, SeqIsSeq

LEMMA TailElements ==
  ASSUME NEW s, IsSeq(s), s # <<>>
  PROVE  /\ IsSeq(Tail(s)) /\ Len(s) \in Nat /\ DOMAIN s = 1..Len(s) /\ 1 \in DOMAIN s
         /\ Head(s) = s[1]
         /\ \A k \in DOMAIN Tail(s) : k \in Nat /\ k + 1 \in DOMAIN s /\ k + 1 > 1 /\ Tail(s)[k] = s[k + 1]
<1> DEFINE S == Range(s)
<1>1. s \in Seq(S)
  BY DEF IsSeq
<1> HIDE DEF S
<1>2. /\ Tail(s) \in Seq(S) /\ Len(s) \in Nat /\ DOMAIN s = 1..Len(s) /\ Len(s) >= 1
      /\ DOMAIN Tail(s) = 1..(Len(s) - 1) /\ Head(s) = s[1]
      /\ \A k \in 1..(Len(s) - 1) : Tail(s)[k] = s[k + 1]
  BY <1>1
<1>3. IsSeq(Tail(s))
  BY <1>2, SeqIsSeq
<1>4. DOMAIN s = 1..Len(s) /\ 1 \in DOMAIN s /\ Head(s) = s[1] /\ Len(s) \in Nat
  BY <1>2
<1>5. \A k \in DOMAIN Tail(s) : k \in Nat /\ k + 1 \in DOMAIN s /\ k + 1 > 1 /\ Tail(s)[k] = s[k + 1]
  BY <1>2
<1> QED BY <1>3, <1>4, <1>5

-----------------------------------------------------------------------------
(* The second word after the last parenthesis of a stat line is the        *)
(* parent, whatever the name of the executable holds.                      *)
AfterName(t) == t[SelectLastInSeq(t, LAMBDA w : w = ")") + 2]

LEMMA AfterTheName ==
  ASSUME NEW a, NEW b, NEW c, NEW d, NEW e, NEW s, IsSeq(s), c = ")", d # ")", e # ")"
  PROVE  AfterName(<<a, b>> \o s \o <<c, d, e>>) = e
<1> DEFINE W == Range(s) \cup {a, b, c, d, e}
           h == <<a, b>>
           f == <<c, d, e>>
           hs == h \o s
           t == hs \o f
           n == Len(s)
<1>1. h \in Seq(W) /\ Len(h) = 2
  OBVIOUS
<1>2. f \in Seq(W) /\ Len(f) = 3 /\ f[1] = c /\ f[2] = d /\ f[3] = e
  OBVIOUS
<1>3. s \in Seq(W) /\ n \in Nat
  BY DEF IsSeq
<1> HIDE DEF W, h, f
<1>4. hs \in Seq(W) /\ Len(hs) = n + 2
  <2>1. hs \in Seq(W) /\ Len(hs) = Len(h) + n
    BY <1>1, <1>3, ConcatProperties
  <2> QED BY <1>1, <1>3, <2>1
<1> HIDE DEF hs, n
<1>5. /\ t \in Seq(W) /\ Len(t) = n + 5
      /\ \A k \in 1..(n + 5) : t[k] = IF k <= n + 2 THEN hs[k] ELSE f[k - (n + 2)]
  <2>1. /\ t \in Seq(W) /\ Len(t) = Len(hs) + Len(f)
        /\ \A k \in 1..(Len(hs) + Len(f)) :
              t[k] = IF k <= Len(hs) THEN hs[k] ELSE f[k - Len(hs)]
    BY <1>2, <1>4, ConcatProperties
  <2>2. Len(hs) = n + 2 /\ Len(f) = 3 /\ Len(hs) + Len(f) = n + 5
    BY <1>2, <1>3, <1>4
  <2> QED BY <2>1, <2>2
<1> HIDE DEF t
<1>6. t[n + 3] = c /\ t[n + 4] = d /\ t[n + 5] = e
  BY <1>2, <1>3, <1>5
<1> DEFINE I == {i \in 1..Len(t) : t[i] = ")"}
<1>7. n + 3 \in I /\ \A i \in I : i <= n + 3 /\ i \in Nat
  BY <1>3, <1>5, <1>6
<1>8. Max(I) = n + 3
  <2> HIDE DEF I
  <2>1. \A m \in I : (\A y \in I : m >= y) => m = n + 3
    BY <1>3, <1>7
  <2> QED BY <1>3, <1>7, <2>1 DEF Max
<1>9. SelectLastInSeq(t, LAMBDA w : w = ")") = n + 3
  BY <1>7, <1>8 DEF SelectLastInSeq
<1>10. n + 3 + 2 = n + 5
  BY <1>3
<1>11. AfterName(t) = e
  BY <1>6, <1>9, <1>10 DEF AfterName
<1> QED BY <1>11 DEF t, hs, h, f

-----------------------------------------------------------------------------
(* The processes: numbers are of one process at a time, lives never used   *)
(* twice.                                                                  *)
Numbers == Pids \cup {Top}

ProcessInv ==
    /\ lives \in Nat /\ DOMAIN process \subseteq Numbers
    /\ process \in [DOMAIN process -> [life : 1..lives, parent : Numbers, exe : Executables,
                                       threads : Nat, state : {"S", "X", "Z"}]]
    /\ \A p, q \in DOMAIN process : process[p].life = process[q].life => p = q

(* What a step may do to the processes: a number has a new process, or the *)
(* one it had, which loses its parent to Top only and never revives.       *)
Evolves ==
    /\ lives' \in Nat /\ lives' >= lives /\ catalogDir' = catalogDir
    /\ \A p \in DOMAIN process' :
          \/ process'[p].life > lives
          \/ /\ p \in DOMAIN process /\ process'[p].life = process[p].life
             /\ process'[p].parent \in {process[p].parent, Top}
             /\ process'[p].state = "S" => process[p].state = "S"

(* Every step keeps the processes in order.                                *)
LEMMA ProcessStep ==
  ASSUME ProcessInv, [Next]_vars
  PROVE  ProcessInv' /\ Evolves
<1> DEFINE Rec(n) == [life : 1..n, parent : Numbers, exe : Executables, threads : Nat,
                      state : {"S", "X", "Z"}]
<1>1. /\ lives \in Nat /\ DOMAIN process \subseteq Numbers
      /\ process \in [DOMAIN process -> Rec(lives)]
      /\ \A p, q \in DOMAIN process : process[p].life = process[q].life => p = q
  BY DEF ProcessInv
<1>2. ASSUME UNCHANGED <<lives, catalogDir>>, DOMAIN process' \subseteq DOMAIN process,
             process' \in [DOMAIN process' -> Rec(lives)],
             \A p \in DOMAIN process' :
                /\ process'[p].life = process[p].life
                /\ process'[p].parent \in {process[p].parent, Top}
                /\ process'[p].state = "S" => process[p].state = "S"
      PROVE  ProcessInv' /\ Evolves
  <2>1. ProcessInv'
    BY <1>1, <1>2 DEF ProcessInv
  <2>2. Evolves
    BY <1>1, <1>2 DEF Evolves
  <2> QED BY <2>1, <2>2
<1>3. ASSUME UNCHANGED <<lives, process, catalogDir>> PROVE ProcessInv' /\ Evolves
  BY <1>1, <1>2, <1>3
<1>4. ASSUME NEW p \in DOMAIN process, UNCHANGED <<lives, catalogDir>>,
             \/ \E exe \in Executables : process' = [process EXCEPT ![p].exe = exe]
             \/ \E n \in Nat : process' = [process EXCEPT ![p].threads = n]
             \/ process' = [process EXCEPT ![p].state = "X"] /\ process[p].state = "S"
      PROVE  ProcessInv' /\ Evolves
  <2>1. DOMAIN process' = DOMAIN process /\ process' \in [DOMAIN process' -> Rec(lives)]
    BY <1>1, <1>4
  <2>2. \A x \in DOMAIN process' :
           /\ process'[x].life = process[x].life /\ process'[x].parent = process[x].parent
           /\ process'[x].state = "S" => process[x].state = "S"
    BY <1>1, <1>4
  <2> QED BY <1>2, <1>4, <2>1, <2>2
<1>5. ASSUME NEW p \in Numbers, NEW exe \in Executables, Exec(p, exe) PROVE ProcessInv' /\ Evolves
  <2>1. p \in DOMAIN process /\ UNCHANGED <<lives, catalogDir>>
        /\ process' = [process EXCEPT ![p].exe = exe]
    BY <1>5 DEF Exec, Alive
  <2> QED BY <1>4, <2>1
<1>6. ASSUME NEW p \in Pids, ThreadExit(p) PROVE ProcessInv' /\ Evolves
  <2>1. /\ p \in DOMAIN process /\ process[p].state = "S" /\ UNCHANGED <<lives, catalogDir>>
        /\ process' = IF process[p].threads > 1
                      THEN [process EXCEPT ![p].threads = @ - 1]
                      ELSE [process EXCEPT ![p].state = "X"]
    BY <1>6 DEF ThreadExit, Alive
  <2>2. process[p].threads \in Nat
    BY <1>1, <2>1
  <2>3. CASE process[p].threads > 1
    <3>1. process[p].threads - 1 \in Nat
      BY <2>2, <2>3
    <3> QED BY <1>4, <2>1, <2>3, <3>1
  <2>4. CASE ~(process[p].threads > 1)
    BY <1>4, <2>1, <2>4
  <2> QED BY <2>3, <2>4
<1>7. ASSUME NEW p \in Pids, StartThread(p) PROVE ProcessInv' /\ Evolves
  <2>1. /\ p \in DOMAIN process /\ UNCHANGED <<lives, catalogDir>>
        /\ process' = [process EXCEPT ![p].threads = @ + 1]
    BY <1>7 DEF StartThread, Alive
  <2>2. process[p].threads + 1 \in Nat
    BY <1>1, <2>1
  <2> QED BY <1>4, <2>1, <2>2
<1>8. ASSUME NEW p \in Numbers, NEW path, OpenAt(p, path) PROVE ProcessInv' /\ Evolves
  BY <1>3, <1>8 DEF OpenAt
<1>9. CASE Drain
  BY <1>3, <1>9 DEF Drain
<1>10. ASSUME NEW p \in Numbers, NEW q \in Pids, Fork(p, q) PROVE ProcessInv' /\ Evolves
  <2>1. /\ p \in DOMAIN process /\ q \notin DOMAIN process /\ lives' = lives + 1
        /\ catalogDir' = catalogDir
        /\ process' = [x \in DOMAIN process \cup {q} |->
                         IF x = q THEN Process(p, process[p].exe, lives') ELSE process[x]]
    BY <1>10 DEF Fork, Alive
  <2>2. DOMAIN process' = DOMAIN process \cup {q} /\ lives' \in Nat /\ lives' > lives
    BY <1>1, <2>1
  <2>3. process'[q] \in Rec(lives') /\ process'[q].life = lives'
    BY <1>1, <2>1, <2>2 DEF Process
  <2>4. ASSUME NEW x \in DOMAIN process
        PROVE  process'[x] = process[x] /\ process'[x] \in Rec(lives') /\ process[x].life < lives'
    BY <1>1, <2>1, <2>2
  <2>5. process' \in [DOMAIN process' -> Rec(lives')]
    BY <2>1, <2>2, <2>3, <2>4
  <2>6. \A x, y \in DOMAIN process' : process'[x].life = process'[y].life => x = y
    BY <1>1, <2>2, <2>3, <2>4
  <2>7. ProcessInv'
    BY <1>1, <2>2, <2>5, <2>6 DEF ProcessInv, Numbers
  <2>8. Evolves
    BY <1>1, <2>1, <2>2, <2>3, <2>4 DEF Evolves
  <2> QED BY <2>7, <2>8
<1>11. ASSUME NEW p \in Pids, Die(p) PROVE ProcessInv' /\ Evolves
  <2>1. /\ p \in DOMAIN process /\ UNCHANGED <<lives, catalogDir>>
        /\ process' = [x \in DOMAIN process |->
                         IF x = p THEN [process[x] EXCEPT !.state = "Z"]
                         ELSE IF process[x].parent = p THEN [process[x] EXCEPT !.parent = Top]
                         ELSE process[x]]
    BY <1>11 DEF Die
  <2>2. ASSUME NEW x \in DOMAIN process
        PROVE  /\ process'[x] \in Rec(lives) /\ process'[x].life = process[x].life
               /\ process'[x].parent \in {process[x].parent, Top}
               /\ process'[x].state = "S" => process[x].state = "S"
    <3>1. process[x] \in Rec(lives)
      BY <1>1
    <3> QED BY <2>1, <3>1 DEF Numbers
  <2>3. DOMAIN process' = DOMAIN process
    BY <2>1
  <2>4. process' \in [DOMAIN process' -> Rec(lives)]
    BY <2>1, <2>2, <2>3
  <2> QED BY <1>2, <2>1, <2>2, <2>3, <2>4
<1>12. ASSUME NEW p \in Pids, Reap(p) PROVE ProcessInv' /\ Evolves
  <2>1. UNCHANGED <<lives, catalogDir>> /\ process' = [x \in DOMAIN process \ {p} |-> process[x]]
    BY <1>12 DEF Reap, Restrict
  <2> QED BY <1>1, <1>2, <2>1
<1>13. CASE UNCHANGED vars
  BY <1>3, <1>13 DEF vars
<1> QED BY <1>5, <1>6, <1>7, <1>8, <1>9, <1>10, <1>11, <1>12, <1>13 DEF Next, Numbers

-----------------------------------------------------------------------------
(* The events.                                                             *)
LastExit(e) == e.kind = "exit" /\ e.last

\* The process of that life is there and not yet at its end.
Living(l) == \E p \in DOMAIN process : process[p].life = l /\ process[p].state = "S"

\* It is not, nor will ever be.
Gone(l) ==
    /\ l \in Nat /\ l <= lives
    /\ \A p \in DOMAIN process : process[p].life = l => process[p].state # "S"

\* A name is whole, or it was too long, or it was not read.
NameOK(e) ==
    /\ e.exe = None \/ e.exe = e.ran \/ Len(e.ran) >= PathMax
    /\ e.kind = "exit" => e.exe = None

\* What an event of the ring, however late it is drained, says of its process.
EventOK(e) ==
    /\ e.ppid = Zero /\ e.life \in Nat /\ 1 <= e.life /\ e.life <= lives
    /\ NameOK(e)
    /\ e.pid \in DOMAIN process =>
          /\ process[e.pid].life >= e.life
          /\ process[e.pid].life = e.life => process[e.pid].parent \in {e.parent, Top}
    /\ LastExit(e) => Gone(e.life)

PathOK(e) == e.kind = "openat" => e.given \in Paths /\ e.path \in write_user_path(e.given)

\* An event that a step submits.
Submitted(e) == EventOK(e)' /\ PathOK(e) /\ Living(e.life)

RingMoves ==
    \/ UNCHANGED <<ring, procs, files>>
    \/ \E e : Submitted(e) /\ ring' = Append(ring, e) /\ UNCHANGED <<procs, files>>
    \/ Drain

(* Once gone, gone.                                                        *)
LEMMA GoneForever ==
  ASSUME ProcessInv, Evolves, NEW l, Gone(l)
  PROVE  Gone(l)'
<1>1. l \in Nat /\ l <= lives /\ lives \in Nat /\ lives' \in Nat /\ lives' >= lives
  BY DEF Gone, Evolves, ProcessInv
<1>2. ASSUME NEW p \in DOMAIN process', process'[p].life = l PROVE process'[p].state # "S"
  <2>1. ~(process'[p].life > lives)
    BY <1>1, <1>2
  <2>2. /\ p \in DOMAIN process /\ process'[p].life = process[p].life
        /\ process'[p].state = "S" => process[p].state = "S"
    BY <2>1 DEF Evolves
  <2> QED BY <1>2, <2>2 DEF Gone
<1> QED BY <1>1, <1>2 DEF Gone

(* An event stays as true as it was.                                       *)
LEMMA EventStays ==
  ASSUME ProcessInv, ProcessInv', Evolves, NEW e, EventOK(e)
  PROVE  EventOK(e)'
<1>1. /\ e.life \in Nat /\ e.life <= lives /\ lives \in Nat /\ lives' \in Nat /\ lives' >= lives
  BY DEF EventOK, Evolves, ProcessInv
<1>2. e.pid \in DOMAIN process' =>
          /\ process'[e.pid].life >= e.life
          /\ process'[e.pid].life = e.life => process'[e.pid].parent \in {e.parent, Top}
  <2> SUFFICES ASSUME e.pid \in DOMAIN process'
               PROVE  /\ process'[e.pid].life >= e.life
                      /\ process'[e.pid].life = e.life => process'[e.pid].parent \in {e.parent, Top}
    OBVIOUS
  <2>1. CASE process'[e.pid].life > lives
    <3>1. PICK n \in Nat : n = process'[e.pid].life
      BY DEF ProcessInv
    <3>2. n >= e.life /\ n # e.life
      BY <1>1, <2>1, <3>1
    <3> QED BY <3>1, <3>2
  <2>2. CASE /\ e.pid \in DOMAIN process /\ process'[e.pid].life = process[e.pid].life
             /\ process'[e.pid].parent \in {process[e.pid].parent, Top}
    BY <2>2 DEF EventOK
  <2> QED BY <2>1, <2>2 DEF Evolves
<1>3. LastExit(e) => Gone(e.life)'
  BY GoneForever DEF EventOK
<1>4. e.ppid = Zero /\ 1 <= e.life /\ NameOK(e)
  BY DEF EventOK
<1>5. e.life <= lives'
  BY <1>1
<1> QED BY <1>1, <1>2, <1>3, <1>4, <1>5 DEF EventOK, LastExit

\* An event of a process as it is.
EventOf(e, p) ==
    /\ e.pid = p /\ e.ppid = Zero /\ e.life = process[p].life /\ e.parent = process[p].parent
    /\ NameOK(e)

(* What a program submits of a living process is true.                     *)
LEMMA Submits ==
  ASSUME ProcessInv, ProcessInv', Evolves, NEW p \in DOMAIN process, process[p].state = "S",
         p \in DOMAIN process', process'[p].life = process[p].life,
         NEW e, EventOf(e, p), LastExit(e) => process'[p].state # "S", PathOK(e)
  PROVE  Submitted(e)
<1>1. process[p].life \in 1..lives /\ lives \in Nat /\ lives' \in Nat /\ lives' >= lives
  BY DEF ProcessInv, Evolves
<1>2. PICK n \in 1..lives : n = process[p].life
  BY <1>1
<1>3. n \in Nat /\ 1 <= n /\ n <= lives' /\ ~(n > lives) /\ n >= n
  BY <1>1
<1>4. process'[p].parent \in {process[p].parent, Top}
  BY <1>2, <1>3 DEF Evolves
<1>5. \A q \in DOMAIN process' : process'[q].life = n => q = p
  BY <1>2 DEF ProcessInv
<1>6. e.life = n /\ e.pid = p /\ e.parent = process[p].parent
  BY <1>2 DEF EventOf
<1>7. LastExit(e) => Gone(n)'
  BY <1>3, <1>5 DEF Gone
<1>8. EventOK(e)'
  BY <1>2, <1>3, <1>4, <1>6, <1>7 DEF EventOf, EventOK, LastExit
<1> QED BY <1>2, <1>6, <1>8 DEF Submitted, Living

(* The events of the three programs.                                       *)
LEMMA ExecEvent ==
  ASSUME NEW p, NEW exe \in Executables, NEW name \in write_sched_exec_filename(exe), NEW e,
         e = [write_base_event("execve", p) EXCEPT !.exe = name, !.ran = exe]
  PROVE  EventOf(e, p) /\ e.kind = "execve"
<1>1. e.exe = name /\ e.ran = exe /\ e.kind = "execve"
  BY DEF write_base_event
<1>2. name = None \/ name = exe \/ Len(exe) >= PathMax
  BY PathsAreSequences, RoomForPaths DEF write_sched_exec_filename, Fitting
<1>3. NameOK(e)
  BY <1>1, <1>2 DEF NameOK
<1>4. e.pid = p /\ e.ppid = Zero /\ e.life = process[p].life /\ e.parent = process[p].parent
  BY DEF write_base_event
<1> QED BY <1>1, <1>3, <1>4 DEF EventOf

LEMMA ExitEvent ==
  ASSUME NEW p, NEW e, e = write_base_event("exit", p)
  PROVE  EventOf(e, p) /\ e.kind = "exit" /\ e.last = (process[p].threads = 1)
BY DEF write_base_event, EventOf, NameOK

(* What a step does to the ring and the rows.                              *)
LEMMA RingStep ==
  ASSUME ProcessInv, [Next]_vars
  PROVE  RingMoves
<1>1. ProcessInv' /\ Evolves
  BY ProcessStep
<1>2. ASSUME NEW e, Submit(e), UNCHANGED <<procs, files>>, Submitted(e) PROVE RingMoves
  BY <1>2 DEF Submit, RingMoves
<1>3. ASSUME UNCHANGED <<ring, procs, files>> PROVE RingMoves
  BY <1>3 DEF RingMoves
<1>4. ASSUME NEW p \in Numbers, NEW exe \in Executables, Exec(p, exe) PROVE RingMoves
  <2>1. /\ p \in DOMAIN process /\ process[p].state = "S" /\ UNCHANGED <<procs, files>>
        /\ process' = [process EXCEPT ![p].exe = exe]
    BY <1>4 DEF Exec, Alive
  <2>2. PICK name \in write_sched_exec_filename(exe) :
           Submit([write_base_event("execve", p) EXCEPT !.exe = name, !.ran = exe])
    BY <1>4 DEF Exec
  <2> DEFINE e == [write_base_event("execve", p) EXCEPT !.exe = name, !.ran = exe]
  <2>3. p \in DOMAIN process' /\ process'[p].life = process[p].life
    BY <2>1 DEF ProcessInv
  <2>4. EventOf(e, p) /\ e.kind = "execve"
    BY ExecEvent
  <2>5. Submit(e)
    BY <2>2
  <2> HIDE DEF e
  <2>6. Submitted(e)
    BY <1>1, <2>1, <2>3, <2>4, Submits DEF LastExit, PathOK
  <2> QED BY <1>2, <2>1, <2>5, <2>6
<1>5. ASSUME NEW p \in Pids, ThreadExit(p) PROVE RingMoves
  <2>1. /\ p \in DOMAIN process /\ process[p].state = "S" /\ UNCHANGED <<procs, files>>
        /\ process' = IF process[p].threads > 1
                      THEN [process EXCEPT ![p].threads = @ - 1]
                      ELSE [process EXCEPT ![p].state = "X"]
    BY <1>5 DEF ThreadExit, Alive
  <2> DEFINE e == write_base_event("exit", p)
  <2>2. Submit(e)
    BY <1>5 DEF ThreadExit
  <2>3. /\ p \in DOMAIN process' /\ process'[p].life = process[p].life
        /\ process[p].threads = 1 => process'[p].state = "X"
    BY <2>1 DEF ProcessInv
  <2>4. EventOf(e, p) /\ e.kind = "exit" /\ e.last = (process[p].threads = 1)
    BY ExitEvent
  <2> HIDE DEF e
  <2>5. LastExit(e) => process'[p].state # "S"
    BY <2>3, <2>4 DEF LastExit
  <2>6. Submitted(e)
    BY <1>1, <2>1, <2>3, <2>4, <2>5, Submits DEF PathOK
  <2> QED BY <1>2, <2>1, <2>2, <2>6
<1>6. ASSUME NEW p \in Numbers, NEW path \in Paths, OpenAt(p, path) PROVE RingMoves
  <2>1. /\ p \in DOMAIN process /\ process[p].state = "S" /\ UNCHANGED <<procs, files, process>>
    BY <1>6 DEF OpenAt, Alive
  <2>2. PICK read \in write_user_path(path) :
           Submit([write_base_event("openat", p) EXCEPT !.path = read, !.given = path])
    BY <1>6 DEF OpenAt
  <2> DEFINE e == [write_base_event("openat", p) EXCEPT !.path = read, !.given = path]
  <2>3. EventOf(e, p) /\ e.kind = "openat" /\ e.path = read /\ e.given = path
    BY DEF EventOf, NameOK, write_base_event
  <2>4. Submit(e)
    BY <2>2
  <2> HIDE DEF e
  <2>5. PathOK(e)
    BY <2>3 DEF PathOK
  <2>6. Submitted(e)
    BY <1>1, <2>1, <2>3, <2>5, Submits DEF LastExit
  <2> QED BY <1>2, <2>1, <2>4, <2>6
<1>7. ASSUME NEW p, NEW q, Fork(p, q) PROVE RingMoves
  BY <1>3, <1>7 DEF Fork
<1>8. ASSUME NEW p, StartThread(p) \/ Die(p) \/ Reap(p) PROVE RingMoves
  BY <1>3, <1>8 DEF StartThread, Die, Reap
<1>9. CASE Drain
  BY <1>9 DEF RingMoves
<1>10. CASE UNCHANGED vars
  BY <1>3, <1>10 DEF vars
<1> QED BY <1>4, <1>5, <1>6, <1>7, <1>8, <1>9, <1>10 DEF Next, Numbers

RingInv ==
    /\ IsSeq(ring) /\ IsSeq(procs) /\ IsSeq(files)
    /\ \A k \in DOMAIN ring : EventOK(ring[k]) /\ PathOK(ring[k])

(* The event drained, and where its row goes.                              *)
LEMMA Drained ==
  ASSUME RingInv, Drain
  PROVE  /\ ring # <<>> /\ ring' = Tail(ring) /\ 1 \in DOMAIN ring /\ UNCHANGED process
         /\ EventOK(ring[1]) /\ PathOK(ring[1])
         /\ \/ /\ ring[1].kind = "openat" /\ UNCHANGED procs
               /\ files' = Append(files, render_file_event(ring[1]))
            \/ /\ ring[1].kind # "openat" /\ UNCHANGED files
               /\ procs' = Append(procs, render_proc_event(ring[1]))
<1>1. ring # <<>> /\ ring' = Tail(ring) /\ UNCHANGED process
  BY DEF Drain
<1>2. 1 \in DOMAIN ring /\ Head(ring) = ring[1]
  BY <1>1, TailElements DEF RingInv
<1> QED BY <1>1, <1>2 DEF Drain, RingInv

(* Every event of the ring stays true until it is drained.                 *)
LEMMA RingInvStep ==
  ASSUME ProcessInv, RingInv, [Next]_vars
  PROVE  RingInv'
<1>1. ProcessInv' /\ Evolves /\ RingMoves
  BY ProcessStep, RingStep
<1>3. ASSUME NEW k \in DOMAIN ring, NEW e, e = ring[k] PROVE EventOK(e)' /\ PathOK(e)
  BY <1>1, <1>3, EventStays DEF RingInv
<1>4. CASE UNCHANGED <<ring, procs, files>>
  <2>1. \A k \in DOMAIN ring' : \E e : e = ring'[k] /\ EventOK(e)' /\ PathOK(e)
    BY <1>3, <1>4
  <2> QED BY <1>4, <2>1 DEF RingInv
<1>5. ASSUME NEW e, Submitted(e), ring' = Append(ring, e), UNCHANGED <<procs, files>> PROVE RingInv'
  <2>1. /\ IsSeq(ring') /\ Len(ring) \in Nat /\ DOMAIN ring = 1..Len(ring)
        /\ DOMAIN ring' = 1..(Len(ring) + 1) /\ ring'[Len(ring) + 1] = e
        /\ \A k \in 1..Len(ring) : ring'[k] = ring[k]
    BY <1>5, AppendElements DEF RingInv
  <2>2. ASSUME NEW k \in DOMAIN ring' PROVE \E x : x = ring'[k] /\ EventOK(x)' /\ PathOK(x)
    <3>1. CASE k \in DOMAIN ring
      BY <1>3, <2>1, <3>1
    <3>2. CASE k = Len(ring) + 1
      BY <1>5, <2>1, <3>2 DEF Submitted
    <3> QED BY <2>1, <3>1, <3>2
  <2> QED BY <1>5, <2>1, <2>2 DEF RingInv, IsSeq
<1>6. CASE Drain
  <2>1. ring # <<>> /\ ring' = Tail(ring)
    BY <1>6, Drained
  <2>2. /\ IsSeq(ring')
        /\ \A k \in DOMAIN ring' : k + 1 \in DOMAIN ring /\ ring'[k] = ring[k + 1]
    BY <2>1, TailElements DEF RingInv
  <2>3. \A k \in DOMAIN ring' : \E e : e = ring'[k] /\ EventOK(e)' /\ PathOK(e)
    BY <1>3, <2>2
  <2>4. IsSeq(procs') /\ IsSeq(files')
    <3>1. \A s, e : IsSeq(s) => IsSeq(Append(s, e))
      BY AppendElements
    <3>2. /\ procs' = procs \/ procs' = Append(procs, render_proc_event(ring[1]))
          /\ files' = files \/ files' = Append(files, render_file_event(ring[1]))
      BY <1>6, Drained
    <3> QED BY <3>1, <3>2 DEF RingInv
  <2> QED BY <2>2, <2>3, <2>4 DEF RingInv, IsSeq
<1> QED BY <1>1, <1>4, <1>5, <1>6 DEF RingMoves

(* It starts with the first process and no event.                          *)
LEMMA Starts ==
  ASSUME Init
  PROVE  ProcessInv /\ RingInv
<1>1. PICK exe \in Executables : process = [p \in {Top} |-> Process(Top, exe, 1)]
  BY DEF Init
<1>2. process[Top] \in [life : 1..1, parent : Numbers, exe : Executables, threads : Nat,
                       state : {"S", "X", "Z"}]
  BY <1>1 DEF Process, Numbers
<1>3. lives = 1 /\ DOMAIN process = {Top} /\ process \in [{Top} -> {process[Top]}]
  BY <1>1 DEF Init
<1>4. ProcessInv
  BY <1>2, <1>3 DEF ProcessInv, Numbers
<1>5. IsSeq(<<>>)
  BY DEF IsSeq
<1>6. RingInv
  BY <1>5 DEF Init, RingInv
<1> QED BY <1>4, <1>6

-----------------------------------------------------------------------------
(* The rows of proc.jsonl.                                                 *)

(* proc_ppid finds the parent that the process has.                        *)
LEMMA ParentFound ==
  ASSUME ProcessInv, NEW p
  PROVE  proc_ppid(p) = IF p \in DOMAIN process THEN process[p].parent ELSE Zero
<1>1. CASE p \notin DOMAIN process
  BY <1>1 DEF proc_ppid
<1>2. CASE p \in DOMAIN process
  <2>1. /\ process[p].parent \in Numbers /\ process[p].state \in {"S", "X", "Z"}
        /\ process[p].exe \in Executables
    BY <1>2 DEF ProcessInv
  <2>2. IsSeq(Comm[process[p].exe])
    BY <2>1, NamesAreWords DEF IsSeq
  <2>3. process[p].state # ")" /\ process[p].parent # ")"
    BY <2>1, NumbersAreNumbers DEF Numbers
  <2>4. AfterName(Stat(p)) = process[p].parent
    BY <2>2, <2>3, AfterTheName DEF Stat
  <2>5. proc_ppid(p) = process[p].parent
    BY <1>2, <2>1, <2>4 DEF proc_ppid, Numbers, AfterName
  <2> QED BY <1>2, <2>5
<1> QED BY <1>1, <1>2

TrueOrLate(row) ==
    /\ row.found = row.life => row.ppid \in {row.parent, Top}
    /\ row.found = 0 => row.ppid = Zero
    /\ row.found \notin {0, row.life} => row.ppid # Zero /\ row.found > row.life
    /\ row.named => row.exe = row.ran \/ Len(row.ran) >= PathMax
    /\ row.event = "exit" /\ row.last /\ row.exe # None => row.found > row.life

LEMMA TrueOrLateIf ==
  ASSUME NEW row, NEW l \in Nat, NEW f \in Nat, row.life = l, row.found = f, l # 0,
         f # 0 => f >= l /\ row.ppid # Zero, f = 0 => row.ppid = Zero,
         f = l => row.ppid \in {row.parent, Top},
         row.named => row.exe = row.ran \/ Len(row.ran) >= PathMax,
         row.event = "exit" /\ row.last /\ row.exe # None => f \notin {0, l}
  PROVE  TrueOrLate(row)
<1>1. f \notin {0, l} => f > l /\ row.ppid # Zero
  OBVIOUS
<1> QED BY <1>1 DEF TrueOrLate

(* The row of an event that is still true is true or late.                 *)
LEMMA RowIsTrueOrLate ==
  ASSUME ProcessInv, NEW e, EventOK(e), NEW row, row = render_proc_event(e)
  PROVE  TrueOrLate(row)
<1>1. /\ row.life = e.life /\ row.parent = e.parent /\ row.ran = e.ran /\ row.last = e.last
      /\ row.event = e.kind /\ row.named = (e.exe # None)
      /\ row.exe = IF e.exe # None THEN e.exe ELSE proc_exe(e.pid)
      /\ row.found = IF e.pid \in DOMAIN process THEN process[e.pid].life ELSE 0
      /\ row.ppid = IF e.ppid # Zero THEN e.ppid ELSE proc_ppid(e.pid)
  BY DEF render_proc_event
<1>2. row.ppid = IF e.pid \in DOMAIN process THEN process[e.pid].parent ELSE Zero
  BY <1>1, ParentFound DEF EventOK
<1>3. PICK l \in Nat \ {0} : l = e.life
  <2>1. e.life \in Nat /\ 1 <= e.life
    BY DEF EventOK
  <2> QED BY <2>1
<1>4. PICK f \in Nat : f = row.found
  <2>1. \A p \in DOMAIN process : process[p].life \in Nat
    BY DEF ProcessInv
  <2> QED BY <1>1, <2>1
<1>5. l # 0
  BY <1>3
<1>6. row.named => row.exe = row.ran \/ Len(row.ran) >= PathMax
  BY <1>1 DEF EventOK, NameOK
<1>7. CASE e.pid \notin DOMAIN process
  <2>1. f = 0 /\ row.ppid = Zero
    BY <1>1, <1>2, <1>4, <1>7
  <2>2. row.event = "exit" => row.exe = None
    BY <1>1, <1>7 DEF EventOK, NameOK, proc_exe, Alive
  <2> QED BY <1>1, <1>3, <1>4, <1>5, <1>6, <2>1, <2>2, TrueOrLateIf
<1>8. CASE e.pid \in DOMAIN process
  <2>1. f = process[e.pid].life /\ row.ppid = process[e.pid].parent
    BY <1>1, <1>2, <1>4, <1>8
  <2>2. f # 0
    BY <1>8, <2>1 DEF ProcessInv
  <2>3. row.ppid # Zero
    <3>1. row.ppid \in Numbers
      BY <1>8, <2>1 DEF ProcessInv
    <3> QED BY <3>1, NumbersAreNumbers DEF Numbers, Zero
  <2>4. f >= l /\ (f = l => row.ppid \in {row.parent, Top})
    BY <1>1, <1>3, <1>8, <2>1 DEF EventOK
  <2>5. row.event = "exit" /\ row.last /\ row.exe # None => f # l
    <3> SUFFICES ASSUME row.event = "exit", row.last, row.exe # None, f = l
                 PROVE  FALSE
      OBVIOUS
    <3>1. Alive(e.pid)
      BY <1>1 DEF EventOK, NameOK, proc_exe
    <3>2. Gone(e.life)
      BY <1>1 DEF EventOK, LastExit
    <3> QED BY <1>3, <1>8, <2>1, <3>1, <3>2 DEF Gone, Alive
  <2> QED BY <1>1, <1>3, <1>4, <1>5, <1>6, <2>2, <2>3, <2>4, <2>5, TrueOrLateIf
<1> QED BY <1>7, <1>8

(* The parent in a row is the one at the event, or Top or 0 since that one *)
(* or the process has ended; a name that was read is that of what was      *)
(* executed, unless it was too long, and only a reused number gives        *)
(* another's parent or executable.                                         *)
THEOREM RowsAreTrueOrLate == Spec => []ProcRowsAreTrueOrLate
<1> DEFINE Rows == \A k \in DOMAIN procs : TrueOrLate(procs[k])
<1>1. Init => ProcessInv /\ RingInv /\ Rows
  BY Starts DEF Init
<1>2. ASSUME ProcessInv, RingInv, Rows, [Next]_vars PROVE Rows'
  <2>1. CASE UNCHANGED procs
    BY <1>2, <2>1
  <2>2. CASE Drain
    <3>1. CASE procs' = Append(procs, render_proc_event(ring[1]))
      <4>1. TrueOrLate(render_proc_event(ring[1]))
        BY <1>2, <2>2, Drained, RowIsTrueOrLate
      <4>2. /\ DOMAIN procs = 1..Len(procs) /\ DOMAIN procs' = 1..(Len(procs) + 1) /\ Len(procs) \in Nat
            /\ procs'[Len(procs) + 1] = render_proc_event(ring[1])
            /\ \A k \in 1..Len(procs) : procs'[k] = procs[k]
        BY <1>2, <3>1, AppendElements DEF RingInv
      <4>3. ASSUME NEW k \in DOMAIN procs' PROVE TrueOrLate(procs'[k])
        <5>1. CASE k \in DOMAIN procs
          BY <1>2, <4>2, <5>1
        <5>2. CASE k = Len(procs) + 1
          BY <4>1, <4>2, <5>2
        <5> QED BY <4>2, <4>3, <5>1, <5>2
      <4> QED BY <4>3
    <3> QED BY <1>2, <2>1, <2>2, <3>1, Drained
  <2> QED BY <1>2, <2>1, <2>2, RingStep DEF RingMoves
<1>3. Rows => ProcRowsAreTrueOrLate
  BY DEF TrueOrLate, ProcRowsAreTrueOrLate
<1>4. ProcessInv /\ RingInv /\ [Next]_vars => ProcessInv' /\ RingInv'
  BY ProcessStep, RingInvStep
<1> QED BY <1>1, <1>2, <1>3, <1>4, PTL DEF Spec

-----------------------------------------------------------------------------
(* The order of the rows.                                                  *)
LastRow(row) == row.event = "exit" /\ row.last

\* Nothing is drained, in the ring or still to come of a life whose last exit was seen.
OrderInv ==
    /\ \A j, k \in DOMAIN procs : j < k /\ LastRow(procs[j]) => procs[k].life # procs[j].life
    /\ \A j \in DOMAIN procs : LastRow(procs[j]) =>
          /\ Gone(procs[j].life)
          /\ \A k \in DOMAIN ring : ring[k].life # procs[j].life
    /\ \A j, k \in DOMAIN ring : j < k /\ LastExit(ring[j]) => ring[k].life # ring[j].life

(* No step breaks the order.                                               *)
LEMMA OrderStep ==
  ASSUME ProcessInv, RingInv, OrderInv, [Next]_vars
  PROVE  OrderInv'
<1>1. ProcessInv' /\ Evolves /\ RingMoves
  BY ProcessStep, RingStep
<1>2. \A l : Gone(l) => Gone(l)' /\ ~Living(l)
  BY <1>1, GoneForever DEF Gone, Living
<1>3. ASSUME NEW j \in DOMAIN procs, LastRow(procs[j]), NEW l, l = procs[j].life PROVE Gone(l)'
  BY <1>2, <1>3 DEF OrderInv
<1>4. ASSUME NEW j \in DOMAIN ring, LastExit(ring[j]), NEW l, l = ring[j].life PROVE Gone(l)' /\ Gone(l)
  BY <1>2, <1>4 DEF RingInv, EventOK
<1>5. CASE UNCHANGED <<ring, procs, files>>
  <2>1. \A k \in DOMAIN procs' : LastRow(procs'[k]) => \E l : l = procs'[k].life /\ Gone(l)'
    BY <1>3, <1>5
  <2> QED BY <1>5, <2>1 DEF OrderInv, LastRow, LastExit
<1>6. ASSUME NEW e, Submitted(e), ring' = Append(ring, e), UNCHANGED <<procs, files>> PROVE OrderInv'
  <2>1. /\ Len(ring) \in Nat /\ DOMAIN ring = 1..Len(ring)
        /\ DOMAIN ring' = 1..(Len(ring) + 1) /\ ring'[Len(ring) + 1] = e
        /\ \A k \in 1..Len(ring) : ring'[k] = ring[k]
    BY <1>6, AppendElements DEF RingInv
  <2>2. \A l : Gone(l) => e.life # l
    BY <1>2, <1>6 DEF Submitted
  <2>3. ASSUME NEW j \in DOMAIN procs', LastRow(procs'[j])
        PROVE  \A k \in DOMAIN ring' : ring'[k].life # procs'[j].life
    <3>1. procs' = procs /\ Gone(procs[j].life) /\ \A k \in DOMAIN ring : ring[k].life # procs[j].life
      BY <1>6, <2>3 DEF OrderInv
    <3>2. e.life # procs[j].life
      BY <2>2, <3>1
    <3> QED BY <2>1, <3>1, <3>2
  <2>4. ASSUME NEW j \in DOMAIN ring', NEW k \in DOMAIN ring', j < k, LastExit(ring'[j])
        PROVE  ring'[k].life # ring'[j].life
    <3>1. j \in DOMAIN ring /\ ring'[j] = ring[j]
      BY <2>1, <2>4
    <3>2. CASE k \in DOMAIN ring
      BY <2>1, <2>4, <3>1, <3>2 DEF OrderInv
    <3>3. CASE k = Len(ring) + 1
      <4>1. Gone(ring[j].life)
        BY <1>4, <2>4, <3>1
      <4> QED BY <2>1, <2>2, <3>1, <3>3, <4>1
    <3> QED BY <2>1, <3>2, <3>3
  <2>5. \A k \in DOMAIN procs' : LastRow(procs'[k]) => \E l : l = procs'[k].life /\ Gone(l)'
    BY <1>3, <1>6
  <2>6. \A j, k \in DOMAIN procs' : j < k /\ LastRow(procs'[j]) => procs'[k].life # procs'[j].life
    BY <1>6 DEF OrderInv
  <2> QED BY <2>3, <2>4, <2>5, <2>6 DEF OrderInv, LastRow, LastExit
<1>7. CASE Drain
  <2>1. ring # <<>> /\ ring' = Tail(ring) /\ 1 \in DOMAIN ring
    BY <1>7, Drained
  <2>2. \A k \in DOMAIN ring' : /\ k \in Nat /\ k + 1 \in DOMAIN ring /\ k + 1 > 1
                               /\ ring'[k] = ring[k + 1]
    BY <2>1, TailElements DEF RingInv
  <2>3. ASSUME NEW j \in DOMAIN ring', NEW k \in DOMAIN ring', j < k, LastExit(ring'[j])
        PROVE  ring'[k].life # ring'[j].life
    <3>1. j + 1 < k + 1
      BY <2>2, <2>3
    <3> QED BY <2>2, <2>3, <3>1 DEF OrderInv
  <2>4. CASE UNCHANGED procs
    <3>1. \A k \in DOMAIN procs' : LastRow(procs'[k]) => \E l : l = procs'[k].life /\ Gone(l)'
      BY <1>3, <2>4
    <3>2. \A j, k \in DOMAIN procs' : j < k /\ LastRow(procs'[j]) => procs'[k].life # procs'[j].life
      BY <2>4 DEF OrderInv
    <3>3. \A j \in DOMAIN procs' : LastRow(procs'[j]) =>
             \A k \in DOMAIN ring' : ring'[k].life # procs'[j].life
      BY <2>2, <2>4 DEF OrderInv
    <3> QED BY <2>3, <3>1, <3>2, <3>3 DEF OrderInv, LastRow, LastExit
  <2>5. CASE procs' = Append(procs, render_proc_event(ring[1]))
    <3> DEFINE row == render_proc_event(ring[1])
    <3>1. row.life = ring[1].life /\ row.event = ring[1].kind /\ row.last = ring[1].last
      BY DEF render_proc_event
    <3>2. LastRow(row) <=> LastExit(ring[1])
      BY <3>1 DEF LastRow, LastExit
    <3> HIDE DEF row
    <3>3. /\ DOMAIN procs = 1..Len(procs) /\ DOMAIN procs' = 1..(Len(procs) + 1) /\ Len(procs) \in Nat
          /\ procs'[Len(procs) + 1] = row
          /\ \A k \in 1..Len(procs) : procs'[k] = procs[k]
      BY <2>5, AppendElements DEF RingInv, row
    <3>4. ASSUME NEW j \in DOMAIN procs', NEW k \in DOMAIN procs', j < k, LastRow(procs'[j])
          PROVE  procs'[k].life # procs'[j].life
      <4>1. j \in DOMAIN procs /\ procs'[j] = procs[j]
        BY <3>3, <3>4
      <4>2. CASE k \in DOMAIN procs
        BY <3>3, <3>4, <4>1, <4>2 DEF OrderInv
      <4>3. CASE k = Len(procs) + 1
        <5>1. ring[1].life # procs[j].life
          BY <2>1, <3>4, <4>1 DEF OrderInv
        <5> QED BY <3>1, <3>3, <4>1, <4>3, <5>1
      <4> QED BY <3>3, <4>2, <4>3
    <3>5. ASSUME NEW j \in DOMAIN procs', LastRow(procs'[j])
          PROVE  /\ \E l : l = procs'[j].life /\ Gone(l)'
                 /\ \A k \in DOMAIN ring' : ring'[k].life # procs'[j].life
      <4>1. CASE j \in DOMAIN procs
        <5>1. procs'[j] = procs[j]
          BY <3>3, <4>1
        <5>2. \A k \in DOMAIN ring : ring[k].life # procs[j].life
          BY <3>5, <4>1, <5>1 DEF OrderInv
        <5> QED BY <1>3, <2>2, <3>5, <4>1, <5>1, <5>2
      <4>2. CASE j = Len(procs) + 1
        <5>1. LastExit(ring[1]) /\ procs'[j].life = ring[1].life
          BY <3>1, <3>2, <3>3, <3>5, <4>2
        <5>2. \A k \in DOMAIN ring : 1 < k => ring[k].life # ring[1].life
          BY <2>1, <5>1 DEF OrderInv
        <5>3. \A k \in DOMAIN ring' : ring'[k].life # ring[1].life
          BY <2>2, <5>2
        <5> QED BY <1>4, <2>1, <5>1, <5>3
      <4> QED BY <3>3, <3>5, <4>1, <4>2
    <3> QED BY <2>3, <3>4, <3>5 DEF OrderInv, LastRow, LastExit
  <2> QED BY <1>7, <2>4, <2>5, Drained
<1> QED BY <1>1, <1>5, <1>6, <1>7 DEF RingMoves

(* After the exit row of its last thread a process has no row, and that    *)
(* row once, whatever becomes of its number.                               *)
THEOREM NothingFollowsTheLastExit == Spec => []NoRowAfterTheLastExit
<1>1. Init => ProcessInv /\ RingInv /\ OrderInv
  BY Starts DEF Init, OrderInv
<1>2. ProcessInv /\ RingInv /\ [Next]_vars => ProcessInv' /\ RingInv'
  BY ProcessStep, RingInvStep
<1>3. OrderInv => NoRowAfterTheLastExit
  BY DEF OrderInv, NoRowAfterTheLastExit, LastRow
<1> QED BY <1>1, <1>2, <1>3, OrderStep, PTL DEF Spec

-----------------------------------------------------------------------------
(* The marks.                                                              *)

(* A path and one below it, taken apart again.                             *)
LEMMA BelowPath ==
  ASSUME NEW S, NEW s \in Seq(S), NEW n \in Seq(S), s # <<>>, n # <<>>
  PROVE  /\ SubSeq(s \o n, Len(s) + 1, Len(s \o n)) = n
         /\ IsPrefix(s, s \o n)
<1>1. /\ s \o n \in Seq(S) /\ Len(s \o n) = Len(s) + Len(n) /\ Len(s) \in Nat /\ Len(n) \in Nat
      /\ Len(s) >= 1 /\ Len(n) >= 1
  BY ConcatProperties
<1>2. SubSeq(s \o n, Len(s) + 1, Len(s) + Len(n)) = n
  <2> DEFINE a == Len(s) + 1
             b == Len(s) + Len(n)
  <2>1. a \in Len(s) + 1 .. Len(s) + Len(n) /\ b \in Len(s) + 1 .. Len(s) + Len(n)
        /\ a - Len(s) = 1 /\ b - Len(s) = Len(n)
    BY <1>1
  <2> HIDE DEF a, b
  <2>2. SubSeq(s \o n, a, b) = SubSeq(n, a - Len(s), b - Len(s))
    BY <2>1, SubSeqOfConcat2
  <2>3. SubSeq(n, 1, Len(n)) = n
    BY SubSeqFull
  <2> QED BY <2>1, <2>2, <2>3 DEF a, b
<1>3. SubSeq(s \o n, 1, Len(s)) = SubSeq(s, 1, Len(s))
  BY <1>1, SubSeqOfConcat1
<1>4. Len(s) <= Len(s \o n)
  BY <1>1
<1> QED BY <1>1, <1>2, <1>3, <1>4 DEF IsPrefix

Explained(row) ==
    /\ row.is_canary => \/ row.given \in SecretFiles \/ Len(row.given) >= PathMax
                        \/ catalogDir # CanaryDir /\ Mountable # {}
    /\ row.given # None /\ Opened(row.given) \in SecretFiles /\ ~row.is_canary =>
          \/ row.given # Opened(row.given) \/ row.path = None \/ Len(row.given) >= PathMax
          \/ catalogDir # CanaryDir

(* Read from the directory of its secrets, the catalog marks the secrets,  *)
(* there and below the mount, and from another only what is recorded.      *)
LEMMA Marked ==
  /\ catalogDir = CanaryDir => CanaryPaths = SecretFiles
  /\ Mountable = {} => CanaryPaths \subseteq SecretFiles
  /\ <<>> \notin SecretFiles
<1>1. ASSUME NEW name \in SecretNames
      PROVE  /\ SubSeq(CanaryDir \o name, Len(CanaryDir) + 1, Len(CanaryDir \o name)) = name
             /\ IsPrefix(CanaryDir, CanaryDir \o name)
             /\ CanaryDir \o name # <<>> /\ Mount \o name # <<>>
  <2>1. /\ name \in Seq(STRING) /\ CanaryDir \in Seq(STRING) /\ Mount \in Seq(STRING)
        /\ name # <<>> /\ CanaryDir # <<>>
    BY PathsAreSequences
  <2>2. CanaryDir \o name # <<>> /\ Mount \o name # <<>>
    BY <2>1, ConcatProperties
  <2> QED BY <2>1, <2>2, BelowPath
<1>2. ASSUME catalogDir = CanaryDir PROVE CanaryPaths = SecretFiles
  <2>1. catalogDir # None
    BY <1>2, PathsAreSequences DEF None
  <2>2. Mountable = Secrets
    BY <1>1, <1>2, <2>1 DEF Mountable, Secrets
  <2>3. \A name \in SecretNames : Mounted(CanaryDir \o name) = Mount \o name
    BY <1>1, <1>2 DEF Mounted
  <2> QED BY <2>1, <2>2, <2>3, ZenonT(60) DEF CanaryPaths, SecretFiles, Secrets
<1>3. Mountable = {} => CanaryPaths \subseteq SecretFiles
  BY DEF CanaryPaths, SecretFiles
<1>4. <<>> \notin SecretFiles
  BY <1>1 DEF SecretFiles, Secrets
<1> QED BY <1>2, <1>3, <1>4

(* The row of an opened file, from the event as it was submitted.          *)
LEMMA MarkIsExplained ==
  ASSUME NEW e, PathOK(e), e.kind = "openat", NEW row, row = render_file_event(e)
  PROVE  Explained(row)
<1>1. row.given = e.given /\ row.path = e.path /\ (row.is_canary <=> e.path \in CanaryPaths)
  BY DEF render_file_event, is_canary
<1>2. e.path \in write_user_path(e.given) /\ e.given \in Paths
  BY DEF PathOK
<1>3. PICK n \in Nat : n = Len(e.given)
  BY <1>2, PathsAreSequences
<1>4. PathMax \in Nat /\ (n < PathMax \/ n >= PathMax)
  BY RoomForPaths
<1>5. CASE n < PathMax
  <2>1. e.path \in {e.given, None}
    BY <1>2, <1>3, <1>5 DEF write_user_path, Fitting
  <2>2. ASSUME e.path \in CanaryPaths, ~(catalogDir # CanaryDir /\ Mountable # {})
        PROVE  e.given \in SecretFiles
    <3>1. e.path \in SecretFiles
      BY <2>2, Marked
    <3> QED BY <2>1, <3>1, Marked DEF None
  <2>3. ASSUME e.given # None, Opened(e.given) \in SecretFiles, e.path \notin CanaryPaths,
               e.given = Opened(e.given), catalogDir = CanaryDir
        PROVE  e.path = None
    BY <2>1, <2>3, Marked
  <2> QED BY <1>1, <2>2, <2>3 DEF Explained
<1>6. CASE n >= PathMax
  BY <1>1, <1>3, <1>6 DEF Explained
<1> QED BY <1>4, <1>5, <1>6

(* Every mark of a canary file has a reason: a path spelled as the catalog *)
(* spells a secret, one cut, a catalog from elsewhere.  So has every       *)
(* missing one, another spelling or a link among them.                     *)
THEOREM MarksAreExplained == Spec => []CanaryMarksAreExplained
<1> DEFINE Marks == \A k \in DOMAIN files : Explained(files[k])
<1>1. Init => ProcessInv /\ RingInv /\ Marks
  BY Starts DEF Init
<1>2. ASSUME ProcessInv, RingInv, Marks, [Next]_vars PROVE Marks'
  <2>1. catalogDir' = catalogDir
    BY <1>2, ProcessStep DEF Evolves
  <2>2. \A row : Explained(row)' <=> Explained(row)
    BY <2>1 DEF Explained, SecretFiles, Secrets, Mountable
  <2>3. CASE UNCHANGED files
    BY <1>2, <2>2, <2>3
  <2>4. CASE Drain
    <3>1. CASE ring[1].kind = "openat" /\ files' = Append(files, render_file_event(ring[1]))
      <4>1. PathOK(ring[1])
        BY <1>2, <2>4, Drained
      <4>2. Explained(render_file_event(ring[1]))
        BY <3>1, <4>1, MarkIsExplained
      <4>3. /\ DOMAIN files = 1..Len(files) /\ DOMAIN files' = 1..(Len(files) + 1) /\ Len(files) \in Nat
            /\ files'[Len(files) + 1] = render_file_event(ring[1])
            /\ \A k \in 1..Len(files) : files'[k] = files[k]
        BY <1>2, <3>1, AppendElements DEF RingInv
      <4>4. ASSUME NEW k \in DOMAIN files' PROVE \E row : row = files'[k] /\ Explained(row)
        <5>1. CASE k \in DOMAIN files
          BY <1>2, <4>3, <5>1
        <5>2. CASE k = Len(files) + 1
          BY <4>2, <4>3, <5>2
        <5> QED BY <4>3, <4>4, <5>1, <5>2
      <4> QED BY <2>2, <4>4
    <3> QED BY <1>2, <2>3, <2>4, <3>1, Drained
  <2> QED BY <1>2, <2>3, <2>4, RingStep DEF RingMoves
<1>3. Marks => CanaryMarksAreExplained
  BY DEF Explained, CanaryMarksAreExplained
<1>4. ProcessInv /\ RingInv /\ [Next]_vars => ProcessInv' /\ RingInv'
  BY ProcessStep, RingInvStep
<1> QED BY <1>1, <1>2, <1>3, <1>4, PTL DEF Spec
=============================================================================
