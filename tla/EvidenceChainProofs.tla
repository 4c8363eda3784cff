-------------------------- MODULE EvidenceChainProofs --------------------------
(***************************************************************************)
(* Proofs about EvidenceChain, for every parent map, every log and every   *)
(* value of the bounds.                                                    *)
(***************************************************************************)
EXTENDS EvidenceChain, TLAPS, SequenceTheorems, FunctionTheorems, FiniteSetTheorems

(* TypeOK is inductive. *)
LEMMA InitTyped == Init => TypeOK
  BY NullIsNoPid DEF Init, TypeOK, Processes

(* TypeOK is kept by each action.                                          *)
LEMMA NextTyped == TypeOK /\ [Next]_vars => TypeOK'
<1> SUFFICES ASSUME TypeOK, [Next]_vars PROVE TypeOK'
  OBVIOUS
<1> USE DEF TypeOK, Processes
<1>1. ASSUME NEW row \in ProcRow, ReadProc(row) PROVE TypeOK'
  BY <1>1, AppendProperties DEF ReadProc, walk
<1>2. ASSUME NEW row \in FileRow, ReadFile(row) PROVE TypeOK'
  BY <1>2, AppendProperties DEF ReadFile, walk
<1>3. ASSUME NEW row \in EgressEvent, GiveEgress(row) PROVE TypeOK'
  BY <1>3, AppendProperties DEF GiveEgress, walk
<1>4. CASE EndRead
  BY <1>4 DEF EndRead, input, walk
<1>5. CASE PutParent
  <2>1. proc[f] \in ProcRow
    BY <1>5 DEF PutParent
  <2>2. proc[f].pid \in Pids /\ proc[f].ppid \in Processes
    BY <2>1 DEF ProcRow
  <2>3. CASE proc[f].event = "execve"
    <3>1. parentByPid' = [p \in DOMAIN parentByPid \cup {proc[f].pid} |->
                            IF p = proc[f].pid THEN proc[f].ppid ELSE parentByPid[p]]
      BY <1>5, <2>3 DEF PutParent
    <3>2. DOMAIN parentByPid' \subseteq Pids
             /\ \A p \in DOMAIN parentByPid' : parentByPid'[p] \in Processes
      BY <3>1, <2>2
    <3>3. f' = f + 1 /\ UNCHANGED <<phase, proc, files, egress, e, cursor, seen, reversed, chains>>
      BY <1>5 DEF PutParent, input, walk
    <3> QED
      BY <3>2, <3>3
  <2>4. CASE proc[f].event # "execve"
    BY <1>5, <2>4 DEF PutParent, input, walk
  <2> QED
    BY <2>3, <2>4
<1>6. CASE EndParents
  BY <1>6 DEF EndParents, input, walk
<1>7. CASE SkipFile
  BY <1>7 DEF SkipFile, input, walk
<1>8. CASE SkipEvent
  BY <1>8 DEF SkipEvent, input, walk
<1>9. CASE SameProcess
  <2>0. files[f] \in FileRow
    BY <1>9 DEF SameProcess
  <2>1. files[f].pid \in Processes
    BY <2>0 DEF FileRow
  <2>2. [file |-> f, event |-> e, path |-> <<files[f].pid>>] \in Chain
    BY <2>1 DEF Chain
  <2>3. chains' \in Seq(Chain)
    BY <1>9, <2>2, AppendProperties DEF SameProcess, NewChain
  <2>4. e' = e + 1 /\ UNCHANGED <<phase, proc, files, egress, parentByPid, f, cursor, seen, reversed>>
    BY <1>9 DEF SameProcess, input, walk
  <2> QED
    BY <2>3, <2>4
<1>10. CASE StartWalk
  <2>1. e \in DOMAIN egress /\ egress[e].pid # Null
    BY <1>10 DEF StartWalk, Eligible
  <2>2. egress[e] \in EgressEvent
    BY <2>1
  <2>3. egress[e].pid \in Pids
    BY <2>1, <2>2 DEF EgressEvent
  <2> QED
    BY <1>10, <2>3 DEF StartWalk, input
<1>11. CASE Climb
  BY <1>11, AppendProperties DEF Climb, MayVisit, parentOf, input
<1>12. CASE FoundSource
  <2>1. cursor \in Processes
    BY <1>12 DEF FoundSource, MayVisit
  <2>2. Append(reversed, cursor) \in Seq(Processes)
    BY <2>1
  <2>3. Backwards(Append(reversed, cursor)) \in Seq(Processes)
    BY <2>2 DEF Backwards
  <2>4. chains' \in Seq(Chain)
    BY <1>12, <2>3 DEF FoundSource, NewChain, Chain
  <2> QED
    BY <1>12, <2>4 DEF FoundSource, input
<1>13. CASE NoPath
  BY <1>13 DEF NoPath, input
<1>14. CASE Finish
  BY <1>14 DEF Finish, input, walk
<1>15. CASE UNCHANGED vars
  BY <1>15 DEF vars, walk, input
<1> QED
  BY <1>1, <1>2, <1>3, <1>4, <1>5, <1>6, <1>7, <1>8, <1>9, <1>10, <1>11, <1>12, <1>13,
     <1>14, <1>15 DEF Next, Analyze

(* Every variable of EvidenceChain keeps its type: the indices of the two  *)
(* loops stay positive, the walk and the chains hold processes only.       *)
THEOREM TypeCorrect == Spec => []TypeOK
<1>1. Init => TypeOK
  BY InitTyped
<1>2. TypeOK /\ [Next]_vars => TypeOK'
  BY NextTyped
<1> QED
  BY <1>1, <1>2, PTL DEF Spec

-----------------------------------------------------------------------------
(* The inductive invariant behind ChainsSound and NoProcessTwice.          *)

\* parentByPid holds the last exec row among those the first loop has passed.
ParentRead(p) ==
    \E k \in DOMAIN proc :
        /\ k < f \/ phase # "parents"
        /\ proc[k].event = "execve" /\ proc[k].pid = p /\ proc[k].ppid = parentByPid[p]
        /\ \A n \in DOMAIN proc :
             (n < f \/ phase # "parents") /\ proc[n].event = "execve" /\ proc[n].pid = p => n <= k

ParentsInv ==
    /\ phase = "read" => DOMAIN parentByPid = {}
    /\ phase \in {"read", "parents"} => chains = <<>>
    /\ \A p \in DOMAIN parentByPid : ParentRead(p)

\* The walk so far leads from the sender upwards, and cursor is the next one up.
WalkInv ==
    phase = "walk" =>
        /\ f \in DOMAIN files /\ files[f].isCanary /\ e \in DOMAIN egress
        /\ files[f].ts <= egress[e].ts
        /\ reversed = <<>> => cursor = egress[e].pid
        /\ reversed # <<>> =>
             /\ reversed[1] = egress[e].pid
             /\ cursor # Null => IsParent(cursor, reversed[Len(reversed)])
        /\ \A n \in 1..Len(reversed) - 1 : IsParent(reversed[n + 1], reversed[n])

SeenInv == \A n \in DOMAIN reversed : reversed[n] \in seen

IInv == TypeOK /\ ParentsInv /\ WalkInv /\ SeenInv /\ ChainsSound /\ NoProcessTwice

-----------------------------------------------------------------------------
(* What the map says of a parent is what proc.jsonl says.                  *)
LEMMA ParentOfIsParent ==
  ASSUME TypeOK, ParentsInv, phase = "walk", NEW p \in Processes, parentOf(p) # Null
  PROVE  IsParent(parentOf(p), p)
<1>1. p \in DOMAIN parentByPid /\ parentOf(p) = parentByPid[p]
  BY DEF parentOf
<1> QED
  BY <1>1 DEF ParentsInv, ParentRead, IsParent

(* Backwards turns a walk round: the last becomes the first.               *)
LEMMA BackwardsReverses ==
  ASSUME NEW S, NEW s \in Seq(S), Len(s) > 0
  PROVE  /\ Backwards(s) \in Seq(S) /\ Len(Backwards(s)) = Len(s)
         /\ Backwards(s)[1] = s[Len(s)] /\ Backwards(s)[Len(s)] = s[1]
         /\ \A n \in 1..Len(s) : Backwards(s)[n] = s[Len(s) + 1 - n]
  BY DEF Backwards

-----------------------------------------------------------------------------
(* One lemma per part of IInv.                                             *)

(* parentByPid.put keeps the last row of a pid; nothing else touches it.   *)
LEMMA ParentsStep == TypeOK /\ ParentsInv /\ [Next]_vars => ParentsInv'
<1> SUFFICES ASSUME TypeOK, ParentsInv, [Next]_vars PROVE ParentsInv'
  OBVIOUS
<1>1. CASE phase = "read" /\ UNCHANGED <<parentByPid, chains>> /\ phase' \in {"read", "parents"}
  BY <1>1 DEF ParentsInv
<1>2. CASE PutParent
  <2>1. /\ phase = "parents" /\ phase' = "parents" /\ f \in DOMAIN proc /\ f' = f + 1
        /\ proc' = proc /\ chains' = chains /\ f \in Nat
    BY <1>2 DEF PutParent, input, TypeOK
  <2>2. \A n \in DOMAIN proc : n < f' <=> n < f \/ n = f
    BY <2>1 DEF TypeOK
  <2>3. CASE proc[f].event = "execve"
    <3>1. parentByPid' = [p \in DOMAIN parentByPid \cup {proc[f].pid} |->
                            IF p = proc[f].pid THEN proc[f].ppid ELSE parentByPid[p]]
      BY <1>2, <2>3 DEF PutParent
    <3>2. SUFFICES ASSUME NEW p \in DOMAIN parentByPid' PROVE ParentRead(p)'
      BY <2>1 DEF ParentsInv
    <3>3. CASE p = proc[f].pid
      <4>1. \A n \in DOMAIN proc : n < f' => n <= f
        BY <2>1, <2>2 DEF TypeOK
      <4>2. parentByPid'[p] = proc[f].ppid
        BY <3>1, <3>3
      <4> QED
        BY <2>1, <2>2, <2>3, <3>3, <4>1, <4>2 DEF ParentRead
    <3>4. CASE p # proc[f].pid
      <4>1. p \in DOMAIN parentByPid /\ parentByPid'[p] = parentByPid[p]
        BY <3>1, <3>2, <3>4
      <4>2. ParentRead(p)
        BY <4>1 DEF ParentsInv
      <4> QED
        BY <2>1, <2>2, <3>4, <4>1, <4>2 DEF ParentRead
    <3> QED
      BY <3>3, <3>4
  <2>4. CASE proc[f].event # "execve"
    <3>1. parentByPid' = parentByPid
      BY <1>2, <2>4 DEF PutParent
    <3>2. ASSUME NEW p \in DOMAIN parentByPid PROVE ParentRead(p)'
      <4>1. ParentRead(p)
        BY <3>2 DEF ParentsInv
      <4> QED
        BY <2>1, <2>2, <2>4, <3>1, <4>1 DEF ParentRead
    <3> QED
      BY <2>1, <3>1, <3>2 DEF ParentsInv
  <2> QED
    BY <2>3, <2>4
<1>3. CASE EndParents
  <2>1. /\ phase = "parents" /\ phase' = "pairs" /\ f > Len(proc)
        /\ UNCHANGED <<proc, parentByPid, chains>>
    BY <1>3 DEF EndParents, input
  <2>2. \A n \in DOMAIN proc : n < f
    BY <2>1 DEF TypeOK
  <2>3. ASSUME NEW p \in DOMAIN parentByPid PROVE ParentRead(p)'
    <3>1. ParentRead(p)
      BY <2>3 DEF ParentsInv
    <3> QED
      BY <2>1, <2>2, <3>1 DEF ParentRead
  <2> QED
    BY <2>1, <2>3 DEF ParentsInv
<1>4. CASE phase \in {"pairs", "walk"} /\ phase' \in {"pairs", "walk", "done"}
           /\ UNCHANGED <<proc, parentByPid>>
  BY <1>4 DEF ParentsInv, ParentRead
<1>5. CASE UNCHANGED vars
  BY <1>5 DEF vars, ParentsInv, ParentRead
<1>6. ASSUME Next PROVE \/ phase = "read" /\ UNCHANGED <<parentByPid, chains>> /\ phase' \in {"read", "parents"}
                        \/ PutParent \/ EndParents
                        \/ phase \in {"pairs", "walk"} /\ phase' \in {"pairs", "walk", "done"}
                             /\ UNCHANGED <<proc, parentByPid>>
  BY <1>6 DEF Next, Analyze, ReadProc, ReadFile, GiveEgress, EndRead, SkipFile, SkipEvent,
     SameProcess, StartWalk, Climb, FoundSource, NoPath, Finish, input
<1> QED
  BY <1>1, <1>2, <1>3, <1>4, <1>5, <1>6

(* Climb extends the walk by a parent, and only by a process not yet seen. *)
LEMMA WalkStep ==
  TypeOK /\ ParentsInv /\ WalkInv /\ SeenInv /\ NoProcessTwice /\ [Next]_vars
    => WalkInv' /\ SeenInv' /\ NoProcessTwice'
<1> SUFFICES ASSUME TypeOK, ParentsInv, WalkInv, SeenInv, NoProcessTwice, [Next]_vars
             PROVE  WalkInv' /\ SeenInv' /\ NoProcessTwice'
  OBVIOUS
<1>1. CASE phase' # "walk" /\ UNCHANGED <<seen, reversed>>
  BY <1>1 DEF WalkInv, SeenInv, NoProcessTwice
<1>2. CASE phase' # "walk" /\ reversed' = <<>>
  BY <1>2 DEF WalkInv, SeenInv, NoProcessTwice
<1>3. CASE StartWalk
  <2>1. /\ f \in DOMAIN files /\ files[f].isCanary /\ e \in DOMAIN egress
        /\ files[f].ts <= egress[e].ts /\ phase' = "walk"
        /\ cursor' = egress[e].pid /\ reversed' = <<>> /\ UNCHANGED <<files, egress, f, e>>
    BY <1>3 DEF StartWalk, Eligible, input
  <2> QED
    BY <2>1 DEF WalkInv, SeenInv, NoProcessTwice
<1>4. CASE Climb
  <2>1. /\ phase = "walk" /\ phase' = "walk" /\ cursor \in Processes /\ cursor \notin seen
        /\ seen' = seen \cup {cursor} /\ reversed' = Append(reversed, cursor)
        /\ cursor' = parentOf(cursor) /\ UNCHANGED <<proc, files, egress, f, e>>
    BY <1>4 DEF Climb, MayVisit, input, TypeOK
  <2>2. /\ reversed \in Seq(Processes) /\ reversed' \in Seq(Processes)
        /\ Len(reversed') = Len(reversed) + 1 /\ reversed'[Len(reversed')] = cursor
        /\ \A n \in 1..Len(reversed) : reversed'[n] = reversed[n]
    BY <2>1, AppendProperties DEF TypeOK
  <2>3. \A p, q : IsParent(q, p)' <=> IsParent(q, p)
    BY <2>1 DEF IsParent
  <2>4. cursor' # Null => IsParent(cursor', cursor)
    BY <2>1, ParentOfIsParent
  <2>5. \A n \in 1..Len(reversed') - 1 : IsParent(reversed'[n + 1], reversed'[n])
    <3> TAKE n \in 1..Len(reversed') - 1
    <3>1. CASE n = Len(reversed)
      <4>1. reversed # <<>> /\ cursor # Null
        BY <2>1, <2>2, <3>1, NullIsNoPid DEF Processes
      <4>2. IsParent(cursor, reversed[Len(reversed)])
        BY <2>1, <4>1 DEF WalkInv
      <4> QED
        BY <2>2, <3>1, <4>2
    <3>2. CASE n # Len(reversed)
      <4>1. n \in 1..Len(reversed) - 1
        BY <2>2, <3>2
      <4>2. IsParent(reversed[n + 1], reversed[n])
        BY <2>1, <4>1 DEF WalkInv
      <4> QED
        BY <2>2, <4>1, <4>2
    <3> QED
      BY <3>1, <3>2
  <2>6. reversed'[1] = egress[e].pid
    <3>1. CASE reversed = <<>>
      BY <2>1, <2>2, <3>1 DEF WalkInv
    <3>2. CASE reversed # <<>>
      <4>1. 1 \in 1..Len(reversed) /\ reversed[1] = egress[e].pid
        BY <2>1, <2>2, <3>2 DEF WalkInv
      <4> QED
        BY <2>2, <4>1
    <3> QED
      BY <3>1, <3>2
  <2>7. WalkInv'
    <3>1. reversed' # <<>>
      BY <2>2
    <3>2. f \in DOMAIN files /\ files[f].isCanary /\ e \in DOMAIN egress /\ files[f].ts <= egress[e].ts
      BY <2>1 DEF WalkInv
    <3>3. cursor' # Null => IsParent(cursor, reversed[Len(reversed)])'
      BY <2>1, <2>2, <2>4 DEF IsParent
    <3>4. \A n \in 1..Len(reversed') - 1 : IsParent(reversed[n + 1], reversed[n])'
      BY <2>3, <2>5
    <3> QED
      BY <2>1, <2>6, <3>1, <3>2, <3>3, <3>4 DEF WalkInv
  <2>8. SeenInv'
    BY <2>1, <2>2 DEF SeenInv
  <2>9. NoProcessTwice'
    <3> SUFFICES ASSUME NEW m \in 1..Len(reversed'), NEW n \in 1..Len(reversed'),
                        reversed'[m] = reversed'[n], m < n
                 PROVE  FALSE
      BY <2>2 DEF NoProcessTwice
    <3>1. m \in 1..Len(reversed) /\ reversed'[m] = reversed[m] /\ reversed[m] \in seen
      BY <2>2 DEF SeenInv
    <3>2. CASE n = Len(reversed')
      BY <2>1, <2>2, <3>1, <3>2
    <3>3. CASE n # Len(reversed')
      <4>1. n \in 1..Len(reversed) /\ reversed'[n] = reversed[n]
        BY <2>2, <3>3
      <4>2. m = n
        <5>1. m \in DOMAIN reversed /\ n \in DOMAIN reversed
          BY <2>2, <3>1, <4>1
        <5>2. reversed[m] = reversed[n]
          BY <3>1, <4>1
        <5>3. m = n
          BY <5>1, <5>2 DEF NoProcessTwice
        <5> QED
          BY <5>3
      <4> QED
        BY <2>2, <4>2
    <3> QED
      BY <3>2, <3>3
  <2> QED
    BY <2>7, <2>8, <2>9
<1>5. CASE UNCHANGED vars
  BY <1>5 DEF vars, WalkInv, SeenInv, NoProcessTwice, IsParent
<1>6. ASSUME Next PROVE \/ phase' # "walk" /\ UNCHANGED <<seen, reversed>>
                        \/ phase' # "walk" /\ reversed' = <<>>
                        \/ StartWalk \/ Climb
  BY <1>6 DEF Next, Analyze, ReadProc, ReadFile, GiveEgress, EndRead, PutParent, EndParents,
     SkipFile, SkipEvent, SameProcess, FoundSource, NoPath, Finish, input, walk
<1> QED
  BY <1>1, <1>2, <1>3, <1>4, <1>5, <1>6

\* What ChainsSound says of one chain with the given fields.
SoundChain(c) ==
    LET path == c.path
        file == files[c.file]
        event == egress[c.event]
    IN /\ Len(path) > 0 /\ path[1] = file.pid /\ path[Len(path)] = event.pid
       /\ \A n \in 1..Len(path) - 1 : IsParent(path[n], path[n + 1])
       /\ file.isCanary /\ file.ts <= event.ts

(* A chain is added by SameProcess and FoundSource only, and those are sound.*)
LEMMA ChainsStep ==
  TypeOK /\ ParentsInv /\ WalkInv /\ ChainsSound /\ [Next]_vars => ChainsSound'
<1> SUFFICES ASSUME TypeOK, ParentsInv, WalkInv, ChainsSound, [Next]_vars PROVE ChainsSound'
  OBVIOUS
<1>1. CASE phase = "read" /\ chains' = chains
  BY <1>1 DEF ParentsInv, ChainsSound
<1>0. ASSUME UNCHANGED <<proc, files, egress>>
      PROVE  \A c : SoundChain(c)' <=> SoundChain(c)
  <2>1. \A p, q : IsParent(q, p)' <=> IsParent(q, p)
    BY <1>0 DEF IsParent
  <2> QED
    BY <1>0, <2>1 DEF SoundChain
<1>2. CASE UNCHANGED <<proc, files, egress, chains>>
  <2>1. \A k \in DOMAIN chains : SoundChain(chains[k])
    BY DEF ChainsSound, SoundChain
  <2>2. \A k \in DOMAIN chains' : SoundChain(chains[k])'
    BY <1>0, <1>2, <2>1
  <2> QED
    BY <2>2 DEF ChainsSound, SoundChain
<1>3. ASSUME UNCHANGED <<proc, files, egress>>,
             NEW c, c \in Chain, SoundChain(c), chains' = Append(chains, c)
      PROVE  ChainsSound'
  <2>1. /\ Len(chains') = Len(chains) + 1 /\ chains'[Len(chains')] = c
        /\ \A k \in 1..Len(chains) : chains'[k] = chains[k]
        /\ DOMAIN chains' = 1..Len(chains') /\ DOMAIN chains = 1..Len(chains) /\ Len(chains) \in Nat
    BY <1>3, AppendProperties DEF TypeOK
  <2>2. \A k \in DOMAIN chains : SoundChain(chains[k])
    BY DEF ChainsSound, SoundChain
  <2>3. \A k \in DOMAIN chains' : SoundChain(chains'[k])
    <3> TAKE k \in DOMAIN chains'
    <3>1. CASE k = Len(chains')
      BY <1>3, <2>1, <3>1
    <3>2. CASE k # Len(chains')
      BY <2>1, <2>2, <3>2
    <3> QED
      BY <3>1, <3>2
  <2>4. \A k \in DOMAIN chains' : SoundChain(chains[k])'
    BY <1>0, <1>3, <2>3
  <2> QED
    BY <2>4 DEF ChainsSound, SoundChain
<1>4. CASE SameProcess
  <2> DEFINE c == [file |-> f, event |-> e, path |-> <<files[f].pid>>]
  <2>1. /\ f \in DOMAIN files /\ files[f].isCanary /\ e \in DOMAIN egress
        /\ files[f].ts <= egress[e].ts /\ files[f].pid = egress[e].pid
        /\ chains' = Append(chains, c) /\ UNCHANGED <<proc, files, egress>>
    BY <1>4 DEF SameProcess, Eligible, NewChain, input
  <2>2. files[f] \in FileRow
    BY <2>1 DEF TypeOK
  <2>3. c \in Chain
    BY <2>2 DEF FileRow, Chain, TypeOK
  <2>4. SoundChain(c)
    BY <2>1 DEF SoundChain
  <2> QED
    BY <1>3, <2>1, <2>3, <2>4
<1>5. CASE FoundSource
  <2> DEFINE s == Append(reversed, cursor)
             c == [file |-> f, event |-> e, path |-> Backwards(s)]
  <2>1. /\ phase = "walk" /\ cursor \in Processes /\ cursor = files[f].pid
        /\ chains' = Append(chains, c) /\ UNCHANGED <<proc, files, egress>>
    BY <1>5 DEF FoundSource, MayVisit, NewChain, input, TypeOK
  <2>2. /\ reversed \in Seq(Processes) /\ s \in Seq(Processes) /\ Len(reversed) \in Nat
        /\ Len(s) = Len(reversed) + 1 /\ s[Len(s)] = cursor
        /\ \A n \in 1..Len(reversed) : s[n] = reversed[n]
    BY <2>1, AppendProperties DEF TypeOK
  <2>3. s[1] = egress[e].pid
    <3>1. CASE reversed = <<>>
      BY <2>1, <2>2, <3>1 DEF WalkInv
    <3>2. CASE reversed # <<>>
      <4>1. 1 \in 1..Len(reversed) /\ reversed[1] = egress[e].pid
        BY <2>1, <2>2, <3>2 DEF WalkInv
      <4> QED
        BY <2>2, <4>1
    <3> QED
      BY <3>1, <3>2
  <2>4. \A n \in 1..Len(s) - 1 : IsParent(s[n + 1], s[n])
    <3> TAKE n \in 1..Len(s) - 1
    <3>1. CASE n = Len(reversed)
      <4>1. reversed # <<>> /\ cursor # Null
        BY <2>1, <2>2, <3>1, NullIsNoPid DEF Processes
      <4>2. IsParent(cursor, reversed[Len(reversed)])
        BY <2>1, <4>1 DEF WalkInv
      <4> QED
        BY <2>2, <3>1, <4>2
    <3>2. CASE n # Len(reversed)
      <4>1. n \in 1..Len(reversed) - 1
        BY <2>2, <3>2
      <4>2. IsParent(reversed[n + 1], reversed[n])
        BY <2>1, <4>1 DEF WalkInv
      <4>3. n \in 1..Len(reversed) /\ n + 1 \in 1..Len(reversed)
        BY <2>2, <4>1
      <4>4. s[n] = reversed[n] /\ s[n + 1] = reversed[n + 1]
        BY <2>2, <4>3
      <4> QED
        BY <4>2, <4>4
    <3> QED
      BY <3>1, <3>2
  <2> DEFINE path == Backwards(s)
  <2>5. /\ path \in Seq(Processes) /\ Len(path) = Len(s) /\ Len(s) \in Nat /\ Len(s) > 0
        /\ path[1] = s[Len(s)] /\ path[Len(s)] = s[1]
        /\ \A n \in 1..Len(s) : path[n] = s[Len(s) + 1 - n]
    <3>1. s \in Seq(Processes) /\ Len(s) \in Nat /\ Len(s) > 0
      BY <2>2
    <3> HIDE DEF s
    <3> QED
      BY <3>1, BackwardsReverses
  <2>6. \A n \in 1..Len(path) - 1 : IsParent(path[n], path[n + 1])
    <3> TAKE n \in 1..Len(path) - 1
    <3>1. /\ n \in 1..Len(s) /\ n + 1 \in 1..Len(s) /\ Len(s) - n \in 1..Len(s) - 1
          /\ (Len(s) - n) + 1 = Len(s) + 1 - n /\ Len(s) + 1 - (n + 1) = Len(s) - n
      BY <2>5
    <3>2. path[n] = s[(Len(s) - n) + 1] /\ path[n + 1] = s[Len(s) - n]
      BY <2>5, <3>1
    <3> HIDE DEF s, path
    <3> QED
      BY <2>4, <3>1, <3>2
  <2>7. f \in Nat /\ e \in Nat /\ files[f].isCanary /\ files[f].ts <= egress[e].ts
    <3>1. f \in Nat /\ e \in Nat
      BY DEF TypeOK
    <3>2. files[f].isCanary /\ files[f].ts <= egress[e].ts
      BY <2>1 DEF WalkInv
    <3> QED
      BY <3>1, <3>2
  <2>8. c \in Chain
    BY <2>5, <2>7 DEF Chain, Processes
  <2>9. SoundChain(c)
    <3>1. c.path = path /\ c.file = f /\ c.event = e
      OBVIOUS
    <3> HIDE DEF c, path, s
    <3> QED
      BY <2>1, <2>2, <2>3, <2>5, <2>6, <2>7, <3>1 DEF SoundChain
  <2> QED
    BY <1>3, <2>1, <2>8, <2>9
<1>6. CASE UNCHANGED vars
  BY <1>2, <1>6 DEF vars
<1>7. ASSUME Next PROVE \/ phase = "read" /\ chains' = chains
                        \/ UNCHANGED <<proc, files, egress, chains>>
                        \/ SameProcess \/ FoundSource
  BY <1>7 DEF Next, Analyze, ReadProc, ReadFile, GiveEgress, EndRead, PutParent, EndParents,
     SkipFile, SkipEvent, StartWalk, Climb, NoPath, Finish, input, walk
<1> QED
  BY <1>1, <1>2, <1>4, <1>5, <1>6, <1>7

-----------------------------------------------------------------------------
(* IInv holds in every reachable state. *)
LEMMA Inductive == Spec => []IInv
<1>1. Init => IInv
  <2> SUFFICES ASSUME Init PROVE IInv
    OBVIOUS
  <2>1. TypeOK
    BY InitTyped
  <2> QED
    BY <2>1 DEF Init, IInv, ParentsInv, WalkInv, SeenInv, ChainsSound, NoProcessTwice
<1>2. IInv /\ [Next]_vars => IInv'
  BY NextTyped, ParentsStep, WalkStep, ChainsStep DEF IInv
<1> QED
  BY <1>1, <1>2, PTL DEF Spec

(* processPath and evidenceChains: every chain of the report is backed by  *)
(* exec rows from the opener of the canary down to the sender, and the     *)
(* event is not older than the access, for any parent map with any cycles. *)
THEOREM ChainsAreSound == Spec => []ChainsSound
<1>1. IInv => ChainsSound
  BY DEF IInv
<1> QED
  BY <1>1, Inductive, PTL

(* The set seen: no walk enters a process twice, on any parent map, so it  *)
(* takes at most one step per process.                                     *)
THEOREM WalksNeverRepeat == Spec => []NoProcessTwice
<1>1. IInv => NoProcessTwice
  BY DEF IInv
<1> QED
  BY <1>1, Inductive, PTL

-----------------------------------------------------------------------------
(* The inductive invariant behind ChainsComplete.                          *)

\* An exec row the first loop has passed is in parentByPid.
RowsReadInv ==
    \A k \in DOMAIN proc :
        (phase = "parents" => k < f) /\ phase # "read" /\ proc[k].event = "execve"
            => proc[k].pid \in DOMAIN parentByPid

\* The walk began at the sender, has not met the opener, and a parent of a visited process is
\* visited or the next one up.
ReachInv ==
    phase = "walk" =>
        /\ f \in DOMAIN files /\ e \in DOMAIN egress /\ egress[e].pid # Null
        /\ egress[e].pid \in seen \cup {cursor} /\ files[f].pid \notin seen
        /\ \A x \in seen, y \in Processes : IsParent(y, x) => y \in seen \cup {cursor}

\* The opener of file a is the sender of event b or above it, and b is not older.
Linked(a, b) ==
    /\ files[a].isCanary /\ files[a].ts <= egress[b].ts
    /\ egress[b].pid # Null /\ files[a].pid \in AncestorsOf(egress[b].pid)

HasChain(a, b) == \E c \in DOMAIN chains : chains[c].file = a /\ chains[c].event = b

\* The two loops have passed file a and event b.
Passed(a, b) == a < f \/ (a = f /\ b < e)

CoverInv ==
    /\ phase = "done" => f > Len(files)
    /\ phase \in {"pairs", "walk", "done"} =>
         \A a \in DOMAIN files, b \in DOMAIN egress : Passed(a, b) /\ Linked(a, b) => HasChain(a, b)

-----------------------------------------------------------------------------
(* The first loop leaves out no exec row.                                  *)
LEMMA RowsReadStep == TypeOK /\ RowsReadInv /\ [Next]_vars => RowsReadInv'
<1> SUFFICES ASSUME TypeOK, RowsReadInv, [Next]_vars PROVE RowsReadInv'
  OBVIOUS
<1>1. CASE phase' = "read"
  BY <1>1 DEF RowsReadInv
<1>2. CASE EndRead
  <2>1. phase' = "parents" /\ f' = 1 /\ proc' = proc
    BY <1>2 DEF EndRead, input
  <2>2. \A k \in DOMAIN proc : ~(k < 1)
    BY DEF TypeOK
  <2> QED
    BY <2>1, <2>2 DEF RowsReadInv
<1>3. CASE PutParent
  <2>1. /\ phase = "parents" /\ phase' = "parents" /\ f \in DOMAIN proc /\ f' = f + 1
        /\ proc' = proc /\ f \in Nat
    BY <1>3 DEF PutParent, input, TypeOK
  <2>2. \A n \in DOMAIN proc : n < f' => n < f \/ n = f
    BY <2>1 DEF TypeOK
  <2>3. /\ DOMAIN parentByPid \subseteq DOMAIN parentByPid'
        /\ proc[f].event = "execve" => proc[f].pid \in DOMAIN parentByPid'
    BY <1>3 DEF PutParent
  <2> QED
    BY <2>1, <2>2, <2>3 DEF RowsReadInv
<1>4. CASE EndParents
  <2>1. /\ phase = "parents" /\ phase' = "pairs" /\ f > Len(proc)
        /\ UNCHANGED <<proc, parentByPid>>
    BY <1>4 DEF EndParents, input
  <2>2. \A n \in DOMAIN proc : n < f
    BY <2>1 DEF TypeOK
  <2> QED
    BY <2>1, <2>2 DEF RowsReadInv
<1>5. CASE phase \in {"pairs", "walk"} /\ UNCHANGED <<proc, parentByPid>>
  BY <1>5 DEF RowsReadInv
<1>6. CASE UNCHANGED vars
  BY <1>6 DEF vars, RowsReadInv
<1>7. ASSUME Next PROVE \/ phase' = "read" \/ EndRead \/ PutParent \/ EndParents
                        \/ phase \in {"pairs", "walk"} /\ UNCHANGED <<proc, parentByPid>>
  BY <1>7 DEF Next, Analyze, ReadProc, ReadFile, GiveEgress, SkipFile, SkipEvent,
     SameProcess, StartWalk, Climb, FoundSource, NoPath, Finish, input
<1> QED
  BY <1>1, <1>2, <1>3, <1>4, <1>5, <1>6, <1>7

(* What proc.jsonl says of a parent is what the map says.                  *)
LEMMA IsParentIsParentOf ==
  ASSUME TypeOK, ParentsInv, RowsReadInv, phase = "walk", NEW p, NEW q, IsParent(q, p)
  PROVE  parentOf(p) = q
<1>1. PICK k \in DOMAIN proc :
        /\ proc[k].event = "execve" /\ proc[k].pid = p /\ proc[k].ppid = q
        /\ \A n \in DOMAIN proc : proc[n].event = "execve" /\ proc[n].pid = p => n <= k
  BY DEF IsParent
<1>2. p \in DOMAIN parentByPid
  BY <1>1 DEF RowsReadInv
<1>3. PICK m \in DOMAIN proc :
        /\ proc[m].event = "execve" /\ proc[m].pid = p /\ proc[m].ppid = parentByPid[p]
        /\ \A n \in DOMAIN proc : proc[n].event = "execve" /\ proc[n].pid = p => n <= m
  BY <1>2 DEF ParentsInv, ParentRead
<1>4. k = m
  <2>1. k <= m /\ m <= k /\ k \in Nat /\ m \in Nat
    BY <1>1, <1>3 DEF TypeOK
  <2> QED
    BY <2>1
<1> QED
  BY <1>1, <1>2, <1>3, <1>4 DEF parentOf

(* While the walk goes on, what it has visited is closed but for cursor.   *)
LEMMA ReachStep ==
  TypeOK /\ ParentsInv /\ RowsReadInv /\ ReachInv /\ [Next]_vars => ReachInv'
<1> SUFFICES ASSUME TypeOK, ParentsInv, RowsReadInv, ReachInv, [Next]_vars PROVE ReachInv'
  OBVIOUS
<1>1. CASE phase' # "walk"
  BY <1>1 DEF ReachInv
<1>2. CASE StartWalk
  <2>1. /\ f \in DOMAIN files /\ e \in DOMAIN egress /\ egress[e].pid # Null
        /\ cursor' = egress[e].pid /\ seen' = {} /\ UNCHANGED <<files, egress, f, e>>
    BY <1>2 DEF StartWalk, Eligible, input
  <2> QED
    BY <2>1 DEF ReachInv
<1>3. CASE Climb
  <2>1. /\ phase = "walk" /\ cursor # files[f].pid
        /\ seen' = seen \cup {cursor} /\ cursor' = parentOf(cursor)
        /\ UNCHANGED <<proc, files, egress, f, e>>
    BY <1>3 DEF Climb, input
  <2>2. \A p, q : IsParent(q, p)' <=> IsParent(q, p)
    BY <2>1 DEF IsParent
  <2>3. \A y \in Processes : IsParent(y, cursor) => y = cursor'
    BY <2>1, IsParentIsParentOf
  <2>4. \A x \in seen', y \in Processes : IsParent(y, x) => y \in seen' \cup {cursor'}
    BY <2>1, <2>3 DEF ReachInv
  <2> QED
    BY <2>1, <2>2, <2>4 DEF ReachInv
<1>4. CASE UNCHANGED vars
  BY <1>4 DEF vars, ReachInv, IsParent
<1>5. ASSUME Next PROVE phase' # "walk" \/ StartWalk \/ Climb
  BY <1>5 DEF Next, Analyze, ReadProc, ReadFile, GiveEgress, EndRead, PutParent, EndParents,
     SkipFile, SkipEvent, SameProcess, FoundSource, NoPath, Finish
<1> QED
  BY <1>1, <1>2, <1>3, <1>4, <1>5

(* A walk that can visit no further process has closed what is above the   *)
(* sender: the opener is not there.                                        *)
LEMMA NoPathNoLink ==
  ASSUME TypeOK, ReachInv, phase = "walk", ~MayVisit
  PROVE  ~Linked(f, e)
<1>1. /\ egress[e].pid # Null /\ egress[e].pid \in seen \cup {cursor} /\ files[f].pid \notin seen
      /\ \A x \in seen, y \in Processes : IsParent(y, x) => y \in seen \cup {cursor}
      /\ seen \in SUBSET Processes
  BY DEF ReachInv, TypeOK
<1>2. egress[e].pid \in seen
  BY <1>1 DEF MayVisit
<1>3. \A x \in seen, y \in Processes : IsParent(y, x) => y \in seen
  <2>1. cursor = Null \/ cursor \in seen
    BY DEF MayVisit
  <2>2. Null \notin Processes
    BY NullIsNoPid DEF Processes
  <2> QED
    BY <1>1, <2>1, <2>2
<1>4. AncestorsOf(egress[e].pid) \subseteq seen
  BY <1>1, <1>2, <1>3 DEF AncestorsOf
<1> QED
  BY <1>1, <1>4 DEF Linked

-----------------------------------------------------------------------------
(* While the logs stay as they are, so does what is linked.                *)
LEMMA LinkedStays ==
  ASSUME UNCHANGED <<proc, files, egress>>, NEW a, NEW b
  PROVE  Linked(a, b)' <=> Linked(a, b)
<1>1. \A p, q : IsParent(q, p)' <=> IsParent(q, p)
  BY DEF IsParent
<1>2. \A p : AncestorsOf(p)' = AncestorsOf(p)
  BY <1>1 DEF AncestorsOf
<1> QED
  BY <1>2 DEF Linked

(* A chain that was found stays, whatever is added.                        *)
LEMMA ChainAdded ==
  ASSUME TypeOK, NEW c, c \in Chain, chains' = Append(chains, c)
  PROVE  /\ HasChain(c.file, c.event)'
         /\ \A a, b : HasChain(a, b) => HasChain(a, b)'
<1>1. /\ Len(chains) \in Nat /\ DOMAIN chains = 1..Len(chains)
      /\ DOMAIN chains' = 1..Len(chains) + 1 /\ chains'[Len(chains) + 1] = c
      /\ \A k \in 1..Len(chains) : chains'[k] = chains[k]
  BY AppendProperties DEF TypeOK
<1> QED
  BY <1>1 DEF HasChain

(* A pair is passed when it is not linked or its chain has been added.     *)
LEMMA PairPassed ==
  ASSUME TypeOK, CoverInv, phase \in {"pairs", "walk"}, phase' \in {"pairs", "walk"},
         UNCHANGED <<proc, files, egress, f>>, e' = e + 1,
         \A a, b : HasChain(a, b) => HasChain(a, b)',
         NEW x, NEW y, x = f, y = e, Linked(x, y) => HasChain(x, y)'
  PROVE  CoverInv'
<1> SUFFICES ASSUME NEW a \in DOMAIN files, NEW b \in DOMAIN egress,
                    Passed(a, b)', Linked(a, b)
             PROVE  HasChain(a, b)'
  BY LinkedStays DEF CoverInv
<1>1. e \in Nat /\ b \in Nat
  BY DEF TypeOK
<1>2. Passed(a, b) \/ (a = x /\ b = y)
  BY <1>1 DEF Passed
<1>3. CASE Passed(a, b)
  BY <1>3 DEF CoverInv
<1>4. CASE a = x /\ b = y
  BY <1>4
<1> QED
  BY <1>2, <1>3, <1>4

(* The loops pass no linked pair without a chain.                          *)
LEMMA CoverStep ==
  TypeOK /\ WalkInv /\ ReachInv /\ CoverInv /\ [Next]_vars => CoverInv'
<1> SUFFICES ASSUME TypeOK, WalkInv, ReachInv, CoverInv, [Next]_vars PROVE CoverInv'
  OBVIOUS
<1>1. CASE phase' \in {"read", "parents"}
  BY <1>1 DEF CoverInv
<1>2. CASE EndParents
  <2>1. phase' = "pairs" /\ f' = 1 /\ e' = 1 /\ files' = files /\ egress' = egress
    BY <1>2 DEF EndParents, input
  <2>2. /\ \A a \in DOMAIN files : a \in Nat /\ ~(a < 1)
        /\ \A b \in DOMAIN egress : b \in Nat /\ ~(b < 1)
    BY DEF TypeOK
  <2>3. \A a \in DOMAIN files', b \in DOMAIN egress' : ~Passed(a, b)'
    BY <2>1, <2>2 DEF Passed
  <2> QED
    BY <2>1, <2>3 DEF CoverInv
<1>3. CASE SkipFile
  <2>1. /\ phase = "pairs" /\ phase' = "pairs" /\ f \in DOMAIN files
        /\ UNCHANGED <<proc, files, egress, chains>>
    BY <1>3 DEF SkipFile, input
  <2>2. f' = f + 1 /\ e' = 1
    BY <1>3 DEF SkipFile
  <2> SUFFICES ASSUME NEW a \in DOMAIN files, NEW b \in DOMAIN egress,
                      Passed(a, b)', Linked(a, b)
               PROVE  HasChain(a, b)
    BY <2>1, LinkedStays DEF CoverInv, HasChain
  <2>3. a \in Nat /\ b \in Nat /\ b >= 1 /\ b <= Len(egress) /\ f \in Nat /\ e \in Nat /\ Len(egress) \in Nat
    BY DEF TypeOK
  <2>4. a < f \/ a = f
    BY <2>2, <2>3 DEF Passed
  <2>5. a = f => b < e
    BY <1>3, <2>3 DEF SkipFile, Linked
  <2>6. Passed(a, b)
    BY <2>4, <2>5 DEF Passed
  <2> QED
    BY <2>1, <2>6 DEF CoverInv
<1>4. CASE SkipEvent
  <2>1. /\ phase = "pairs" /\ phase' = "pairs" /\ e' = e + 1 /\ ~Linked(f, e)
        /\ UNCHANGED <<proc, files, egress, f, chains>>
    BY <1>4 DEF SkipEvent, Eligible, Linked, input
  <2>2. \A a, b : HasChain(a, b) => HasChain(a, b)'
    BY <2>1 DEF HasChain
  <2>3. PICK x, y : x = f /\ y = e
    OBVIOUS
  <2> QED
    BY <2>1, <2>2, <2>3, PairPassed
<1>5. CASE SameProcess
  <2> DEFINE c == [file |-> f, event |-> e, path |-> <<files[f].pid>>]
  <2>1. /\ phase = "pairs" /\ phase' = "pairs" /\ e' = e + 1 /\ chains' = Append(chains, c)
        /\ f \in DOMAIN files /\ UNCHANGED <<proc, files, egress, f>>
    BY <1>5 DEF SameProcess, NewChain, input
  <2>2. files[f] \in FileRow
    BY <2>1 DEF TypeOK
  <2>3. c \in Chain /\ c.file = f /\ c.event = e
    BY <2>2 DEF FileRow, Chain, TypeOK
  <2> HIDE DEF c
  <2>4. PICK d : d = c
    OBVIOUS
  <2>5. PICK x, y : x = f /\ y = e
    OBVIOUS
  <2>6. d \in Chain /\ d.file = x /\ d.event = y /\ chains' = Append(chains, d)
    BY <2>1, <2>3, <2>4, <2>5
  <2>7. HasChain(x, y)' /\ \A a, b : HasChain(a, b) => HasChain(a, b)'
    BY <2>6, ChainAdded
  <2> QED
    BY <2>1, <2>5, <2>7, PairPassed
<1>6. CASE FoundSource
  <2> DEFINE path == Backwards(Append(reversed, cursor))
             c == [file |-> f, event |-> e, path |-> path]
  <2>1. /\ phase = "walk" /\ phase' = "pairs" /\ e' = e + 1 /\ chains' = Append(chains, c)
        /\ cursor \in Processes /\ UNCHANGED <<proc, files, egress, f>>
    BY <1>6 DEF FoundSource, MayVisit, NewChain, input, TypeOK
  <2>2. Append(reversed, cursor) \in Seq(Processes)
    BY <2>1, AppendProperties DEF TypeOK
  <2>3. path \in Seq(Processes)
    BY <2>2 DEF Backwards
  <2>4. c \in Chain /\ c.file = f /\ c.event = e
    <3> HIDE DEF path
    <3> QED
      BY <2>3 DEF Chain, TypeOK, Processes
  <2> HIDE DEF c
  <2>5. PICK d : d = c
    OBVIOUS
  <2>6. PICK x, y : x = f /\ y = e
    OBVIOUS
  <2>7. d \in Chain /\ d.file = x /\ d.event = y /\ chains' = Append(chains, d)
    BY <2>1, <2>4, <2>5, <2>6
  <2>8. HasChain(x, y)' /\ \A a, b : HasChain(a, b) => HasChain(a, b)'
    BY <2>7, ChainAdded
  <2> QED
    BY <2>1, <2>6, <2>8, PairPassed
<1>7. CASE NoPath
  <2>1. /\ phase = "walk" /\ phase' = "pairs" /\ e' = e + 1 /\ ~MayVisit
        /\ UNCHANGED <<proc, files, egress, f, chains>>
    BY <1>7 DEF NoPath, input
  <2>2. ~Linked(f, e)
    BY <2>1, NoPathNoLink
  <2>3. \A a, b : HasChain(a, b) => HasChain(a, b)'
    BY <2>1 DEF HasChain
  <2>4. PICK x, y : x = f /\ y = e
    OBVIOUS
  <2> QED
    BY <2>1, <2>2, <2>3, <2>4, PairPassed
<1>8. CASE /\ phase \in {"pairs", "walk"} /\ phase' \in {"pairs", "walk", "done"}
           /\ phase' = "done" => f > Len(files)
           /\ UNCHANGED <<proc, files, egress, f, e, chains>>
  <2>1. \A a, b : (Passed(a, b)' <=> Passed(a, b)) /\ (HasChain(a, b)' <=> HasChain(a, b))
    BY <1>8 DEF Passed, HasChain
  <2>2. \A a, b : Linked(a, b)' <=> Linked(a, b)
    BY <1>8, LinkedStays
  <2> QED
    BY <1>8, <2>1, <2>2 DEF CoverInv
<1>9. CASE UNCHANGED vars
  <2>1. \A a, b : (Passed(a, b)' <=> Passed(a, b)) /\ (HasChain(a, b)' <=> HasChain(a, b))
    BY <1>9 DEF vars, Passed, HasChain
  <2>2. \A a, b : Linked(a, b)' <=> Linked(a, b)
    BY <1>9, LinkedStays DEF vars
  <2> QED
    BY <1>9, <2>1, <2>2 DEF CoverInv, vars
<1>10. ASSUME Next
       PROVE  \/ phase' \in {"read", "parents"} \/ EndParents \/ SkipFile \/ SkipEvent
              \/ SameProcess \/ FoundSource \/ NoPath
              \/ /\ phase \in {"pairs", "walk"} /\ phase' \in {"pairs", "walk", "done"}
                 /\ phase' = "done" => f > Len(files)
                 /\ UNCHANGED <<proc, files, egress, f, e, chains>>
  BY <1>10 DEF Next, Analyze, ReadProc, ReadFile, GiveEgress, EndRead, PutParent,
     StartWalk, Climb, Finish, input, walk
<1> QED
  BY <1>1, <1>2, <1>3, <1>4, <1>5, <1>6, <1>7, <1>8, <1>9, <1>10

(* evidenceChains: when the analysis is done, every canary file and later  *)
(* event whose sender is the opener or below it, as proc.jsonl has it, are *)
(* linked by a chain, for any parent map with any cycles.                  *)
THEOREM ChainsAreComplete == Spec => []ChainsComplete
<1>1. Init => RowsReadInv /\ ReachInv /\ CoverInv
  BY DEF Init, RowsReadInv, ReachInv, CoverInv
<1>2. IInv /\ RowsReadInv /\ ReachInv /\ CoverInv /\ [Next]_vars
        => RowsReadInv' /\ ReachInv' /\ CoverInv'
  BY RowsReadStep, ReachStep, CoverStep DEF IInv
<1>3. IInv /\ CoverInv => ChainsComplete
  <2> SUFFICES ASSUME IInv, CoverInv, phase = "done", NEW a \in DOMAIN files, NEW b \in DOMAIN egress
               PROVE  Linked(a, b) => HasChain(a, b)
    BY DEF ChainsComplete, Linked, HasChain
  <2>1. a < f
    <3>1. f > Len(files) /\ f \in Nat /\ a \in 1..Len(files) /\ Len(files) \in Nat
      BY DEF CoverInv, IInv, TypeOK
    <3> QED
      BY <3>1
  <2>2. Passed(a, b)
    BY <2>1 DEF Passed
  <2> QED
    BY <2>2 DEF CoverInv
<1> QED
  BY <1>1, <1>2, <1>3, Inductive, PTL DEF Spec

-----------------------------------------------------------------------------
(* The safety half of AnalysisEnds: how far each loop can go.              *)

\* Every process the walk has passed, and the last one while a parent follows, has an exec row.
PassedInv ==
    phase = "walk" =>
        /\ \A n \in 1..Len(reversed) - 1 : reversed[n] \in DOMAIN parentByPid
        /\ reversed # <<>> /\ cursor # Null => reversed[Len(reversed)] \in DOMAIN parentByPid

\* The two nested loops and the one over proc.jsonl end one past their rows.
IndexInv ==
    /\ phase = "parents" => f <= Len(proc) + 1
    /\ phase \in {"pairs", "walk"} => f <= Len(files) + 1 /\ e <= Len(egress) + 1

\* processPath's loop: one turn per process with an exec row, and one for a process with none.
WalkIsShort ==
    phase = "walk" => Len(reversed) <= Cardinality(DOMAIN parentByPid) + 1

\* The positions of all loops have bounds that the rows of the run fix.
LoopBounds == IndexInv /\ WalkIsShort

\* A step of the program leads to a later phase, or to a later position of the innermost loop.
Advances ==
    \/ phase = "read" /\ phase' = "parents"
    \/ phase = "parents" /\ phase' = "parents" /\ f' = f + 1 /\ f <= Len(proc)
    \/ phase = "parents" /\ phase' = "pairs"
    \/ /\ phase \in {"pairs", "walk"} /\ phase' = "pairs" /\ f <= Len(files)
       /\ f' = f + 1 \/ (f' = f /\ e' = e + 1 /\ e <= Len(egress))
    \/ phase = "pairs" /\ phase' = "walk" /\ UNCHANGED <<f, e>>
    \/ /\ phase = "walk" /\ phase' = "walk" /\ UNCHANGED <<f, e>>
       /\ Len(reversed') = Len(reversed) + 1 /\ Len(reversed) <= Cardinality(DOMAIN parentByPid)
    \/ phase = "pairs" /\ phase' = "done"

LoopInv == IsFiniteSet(DOMAIN parentByPid) /\ IndexInv /\ PassedInv

-----------------------------------------------------------------------------
(* The parent map is finite.                                               *)
LEMMA ParentsFinite ==
  IsFiniteSet(DOMAIN parentByPid) /\ [Next]_vars => IsFiniteSet(DOMAIN parentByPid')
<1> SUFFICES ASSUME IsFiniteSet(DOMAIN parentByPid), [Next]_vars
             PROVE  IsFiniteSet(DOMAIN parentByPid')
  OBVIOUS
<1>1. CASE PutParent
  <2>1. \/ DOMAIN parentByPid' = DOMAIN parentByPid
        \/ DOMAIN parentByPid' = DOMAIN parentByPid \cup {proc[f].pid}
    BY <1>1 DEF PutParent
  <2> QED
    BY <2>1, FS_AddElement
<1>2. CASE parentByPid' = parentByPid
  BY <1>2
<1>3. ASSUME Next PROVE PutParent \/ parentByPid' = parentByPid
  BY <1>3 DEF Next, Analyze, ReadProc, ReadFile, GiveEgress, EndRead, EndParents, SkipFile,
     SkipEvent, SameProcess, StartWalk, Climb, FoundSource, NoPath, Finish
<1> QED
  BY <1>1, <1>2, <1>3 DEF vars

(* No loop passes the end of its rows.                                     *)
LEMMA IndexStep == TypeOK /\ IndexInv /\ WalkInv /\ [Next]_vars => IndexInv'
<1> SUFFICES ASSUME TypeOK, IndexInv, WalkInv, [Next]_vars PROVE IndexInv'
  OBVIOUS
<1> USE DEF IndexInv
<1>0. Len(proc) \in Nat /\ Len(files) \in Nat /\ Len(egress) \in Nat /\ f \in Nat /\ e \in Nat
  BY DEF TypeOK
<1>1. CASE phase' \in {"read", "done"}
  BY <1>1
<1>2. CASE EndRead
  BY <1>0, <1>2 DEF EndRead, input
<1>3. CASE PutParent
  BY <1>0, <1>3 DEF PutParent, input, TypeOK
<1>4. CASE EndParents
  BY <1>0, <1>4 DEF EndParents, input
<1>5. CASE SkipFile
  BY <1>0, <1>5 DEF SkipFile, input, TypeOK
<1>6. CASE SkipEvent \/ SameProcess
  BY <1>0, <1>6 DEF SkipEvent, SameProcess, input, TypeOK
<1>7. CASE StartWalk \/ Climb
  BY <1>0, <1>7 DEF StartWalk, Climb, input
<1>8. CASE FoundSource \/ NoPath
  <2>1. phase = "walk" /\ f' = f /\ e' = e + 1 /\ UNCHANGED <<files, egress>> /\ phase' = "pairs"
    BY <1>8 DEF FoundSource, NoPath, input
  <2>2. e \in 1..Len(egress)
    BY <2>1 DEF WalkInv, TypeOK
  <2> QED
    BY <1>0, <2>1, <2>2
<1>9. CASE UNCHANGED vars
  BY <1>9 DEF vars
<1>10. ASSUME Next
       PROVE \/ phase' \in {"read", "done"} \/ EndRead \/ PutParent \/ EndParents
             \/ SkipFile \/ SkipEvent \/ SameProcess \/ StartWalk \/ Climb
             \/ FoundSource \/ NoPath
  BY <1>10 DEF Next, Analyze, ReadProc, ReadFile, GiveEgress, Finish
<1> QED
  BY <1>1, <1>2, <1>3, <1>4, <1>5, <1>6, <1>7, <1>8, <1>9, <1>10

(* The walk goes on only from a process that has an exec row.              *)
LEMMA PassedStep == TypeOK /\ PassedInv /\ [Next]_vars => PassedInv'
<1> SUFFICES ASSUME TypeOK, PassedInv, [Next]_vars PROVE PassedInv'
  OBVIOUS
<1>1. CASE phase' # "walk"
  BY <1>1 DEF PassedInv
<1>2. CASE StartWalk
  BY <1>2 DEF StartWalk, PassedInv
<1>3. CASE Climb
  <2>1. /\ phase = "walk" /\ cursor # Null /\ reversed' = Append(reversed, cursor)
        /\ cursor' = parentOf(cursor) /\ parentByPid' = parentByPid
    BY <1>3 DEF Climb, MayVisit
  <2>2. reversed \in Seq(Processes) /\ cursor \in Processes /\ Len(reversed) \in Nat
    BY <2>1 DEF TypeOK
  <2>3. /\ Len(reversed') = Len(reversed) + 1 /\ reversed'[Len(reversed')] = cursor
        /\ \A n \in 1..Len(reversed) : reversed'[n] = reversed[n]
    BY <2>1, <2>2, AppendProperties
  <2>4. \A n \in 1..Len(reversed) : reversed[n] \in DOMAIN parentByPid
    <3> SUFFICES ASSUME NEW n \in 1..Len(reversed) PROVE reversed[n] \in DOMAIN parentByPid
      OBVIOUS
    <3>1. CASE n = Len(reversed)
      <4>1. reversed # <<>>
        BY <2>2, <3>1
      <4> QED
        BY <2>1, <3>1, <4>1 DEF PassedInv
    <3>2. CASE n # Len(reversed)
      <4>1. n \in 1..Len(reversed) - 1
        BY <2>2, <3>2
      <4> QED
        BY <2>1, <4>1 DEF PassedInv
    <3> QED
      BY <3>1, <3>2
  <2>5. cursor' # Null => cursor \in DOMAIN parentByPid
    BY <2>1 DEF parentOf
  <2>6. \A n \in 1..Len(reversed') - 1 : reversed'[n] \in DOMAIN parentByPid'
    BY <2>1, <2>2, <2>3, <2>4
  <2> QED
    BY <2>1, <2>3, <2>5, <2>6 DEF PassedInv
<1>4. CASE UNCHANGED vars
  BY <1>4 DEF vars, walk, PassedInv
<1>5. ASSUME Next PROVE phase' # "walk" \/ StartWalk \/ Climb
  BY <1>5 DEF Next, Analyze, ReadProc, ReadFile, GiveEgress, EndRead, PutParent, EndParents,
     SkipFile, SkipEvent, SameProcess, FoundSource, NoPath, Finish
<1> QED
  BY <1>1, <1>2, <1>3, <1>4, <1>5

(* No process twice, and all but the last with an exec row: the pigeonhole *)
(* principle bounds the walk.                                              *)
LEMMA WalkBound == IInv /\ LoopInv => WalkIsShort
<1> SUFFICES ASSUME IInv, LoopInv, phase = "walk"
             PROVE  Len(reversed) <= Cardinality(DOMAIN parentByPid) + 1
  BY DEF WalkIsShort
<1> DEFINE passed == [n \in 1..Len(reversed) - 1 |-> reversed[n]]
<1>1. Len(reversed) \in Nat /\ DOMAIN reversed = 1..Len(reversed)
  BY DEF IInv, TypeOK
<1>2. \A n \in 1..Len(reversed) - 1 : n \in DOMAIN reversed /\ reversed[n] \in DOMAIN parentByPid
  BY <1>1 DEF LoopInv, PassedInv
<1>3. passed \in Injection(1..Len(reversed) - 1, DOMAIN parentByPid)
  <2>1. passed \in [1..Len(reversed) - 1 -> DOMAIN parentByPid]
    BY <1>2
  <2>2. \A m, n \in 1..Len(reversed) - 1 : passed[m] = passed[n] => m = n
    BY <1>2 DEF IInv, NoProcessTwice
  <2> QED
    BY <2>1, <2>2, Fun_IsInj
<1>4. Cardinality(1..Len(reversed) - 1) <= Cardinality(DOMAIN parentByPid)
  <2> HIDE DEF passed
  <2> QED
    BY <1>3, FS_Injection DEF LoopInv
<1>5. Cardinality(DOMAIN parentByPid) \in Nat
  BY FS_CardinalityType DEF LoopInv
<1>6. Cardinality(1..Len(reversed) - 1) = IF 1 > Len(reversed) - 1 THEN 0 ELSE Len(reversed) - 1
  <2>1. 1 \in Int /\ Len(reversed) - 1 \in Int
    BY <1>1
  <2>2. Len(reversed) - 1 - 1 + 1 = Len(reversed) - 1
    BY <1>1
  <2> QED
    BY <2>1, <2>2, FS_Interval
<1> QED
  BY <1>1, <1>4, <1>5, <1>6

(* Both invariants hold in every reachable state.                          *)
LEMMA LoopsBounded == Spec => [](IInv /\ LoopInv)
<1>1. Init => LoopInv
  <2> SUFFICES ASSUME Init PROVE LoopInv
    OBVIOUS
  <2>1. DOMAIN parentByPid = {} /\ phase = "read"
    BY DEF Init
  <2> QED
    BY <2>1, FS_EmptySet DEF LoopInv, IndexInv, PassedInv
<1>2. IInv /\ LoopInv /\ [Next]_vars => LoopInv'
  BY ParentsFinite, IndexStep, PassedStep DEF IInv, LoopInv
<1> QED
  BY <1>1, <1>2, Inductive, PTL DEF Spec

(* evidenceChains and processPath: every position stays within its rows,   *)
(* and a walk takes at most one turn more than there are processes with an *)
(* exec row, whatever cycles pid reuse made in the parent map.             *)
THEOREM LoopsStayBounded == Spec => []LoopBounds
<1>1. IInv /\ LoopInv => LoopBounds
  BY WalkBound DEF LoopBounds, LoopInv
<1> QED
  BY <1>1, LoopsBounded, PTL

(* A step of the program takes it on, and what it has read stays.          *)
LEMMA AnalyzeAdvances ==
  ASSUME IInv, LoopInv, IInv', LoopInv', Analyze
  PROVE  Advances /\ UNCHANGED input
<1>0. /\ f \in Nat \ {0} /\ e \in Nat \ {0} /\ reversed \in Seq(Processes)
      /\ f \in DOMAIN files => f <= Len(files)
      /\ e \in DOMAIN egress => e <= Len(egress)
      /\ f \in DOMAIN proc => f <= Len(proc)
  <2>1. /\ f \in Nat \ {0} /\ e \in Nat \ {0} /\ reversed \in Seq(Processes)
        /\ files \in Seq(FileRow) /\ egress \in Seq(EgressEvent) /\ proc \in Seq(ProcRow)
    BY DEF IInv, TypeOK
  <2>2. DOMAIN files = 1..Len(files) /\ DOMAIN egress = 1..Len(egress) /\ DOMAIN proc = 1..Len(proc)
    BY <2>1
  <2> QED
    BY <2>1, <2>2
<1>1. UNCHANGED input
  BY DEF Analyze, EndRead, PutParent, EndParents, SkipFile, SkipEvent, SameProcess, StartWalk,
     Climb, FoundSource, NoPath, Finish
<1> USE DEF Advances
<1>2. CASE EndRead
  BY <1>2 DEF EndRead
<1>3. CASE PutParent
  BY <1>0, <1>3 DEF PutParent
<1>4. CASE EndParents
  BY <1>4 DEF EndParents
<1>5. CASE SkipFile
  BY <1>0, <1>5 DEF SkipFile
<1>6. CASE SkipEvent
  BY <1>0, <1>6 DEF SkipEvent
<1>7. CASE SameProcess
  BY <1>0, <1>7 DEF SameProcess
<1>8. CASE StartWalk
  BY <1>8 DEF StartWalk
<1>9. CASE Climb
  <2>1. /\ phase = "walk" /\ phase' = "walk" /\ UNCHANGED <<f, e, parentByPid>>
        /\ reversed' = Append(reversed, cursor) /\ cursor \in Processes
    BY <1>9 DEF Climb, MayVisit, IInv, TypeOK
  <2>2. Len(reversed') = Len(reversed) + 1 /\ Len(reversed) \in Nat
    BY <1>0, <2>1, AppendProperties
  <2>3. Len(reversed') <= Cardinality(DOMAIN parentByPid') + 1
    <3>1. WalkIsShort'
      BY WalkBound, PTL
    <3> QED
      BY <2>1, <3>1 DEF WalkIsShort
  <2>4. Cardinality(DOMAIN parentByPid) \in Nat
    BY FS_CardinalityType DEF LoopInv
  <2>5. Len(reversed) <= Cardinality(DOMAIN parentByPid)
    BY <2>1, <2>2, <2>3, <2>4
  <2> QED
    BY <1>1, <2>1, <2>2, <2>5
<1>10. CASE FoundSource \/ NoPath
  <2>1. /\ phase = "walk" /\ phase' = "pairs" /\ f' = f /\ e' = e + 1
    BY <1>10 DEF FoundSource, NoPath
  <2>2. f \in DOMAIN files /\ e \in DOMAIN egress
    BY <2>1 DEF IInv, WalkInv
  <2> QED
    BY <1>0, <1>1, <2>1, <2>2
<1>11. CASE Finish
  BY <1>11 DEF Finish
<1> QED
  BY <1>2, <1>3, <1>4, <1>5, <1>6, <1>7, <1>8, <1>9, <1>10, <1>11 DEF Analyze

(* The analysis never goes back: each step of the one thread moves to a    *)
(* later phase or to the next row, pair or parent, within the bounds of    *)
(* LoopBounds and with the rows it has read unchanged.  AnalysisEnds needs *)
(* no more than that its steps are taken.                                  *)
THEOREM AnalysisAdvances == Spec => [][Analyze => Advances /\ UNCHANGED input]_vars
<1>1. (IInv /\ LoopInv) /\ (IInv /\ LoopInv)' /\ [Next]_vars
        => [Analyze => Advances /\ UNCHANGED input]_vars
  BY AnalyzeAdvances
<1> QED
  BY <1>1, LoopsBounded, PTL DEF Spec
=============================================================================
