----------------------------- MODULE ConnectLedger -----------------------------
(***************************************************************************)
(* What the sensor promises of the connects it traces, told without maps,  *)
(* rings and threads: each is in one place at a time, kept until it        *)
(* returns, then queued, then logged, and one that is lost on the way is   *)
(* gone for good.  A step moves one connect, never to a place behind it,   *)
(* and a connect that enters may push another out.                         *)
(***************************************************************************)
EXTENDS Naturals

CONSTANT Connects   \* what a connect is told apart by: its thread and its address

VARIABLES
    kept,     \* connect -> how many of it have entered and not returned
    queued,   \* connect -> how many returned and wait to be written
    logged    \* connect -> how many are in the log

None == [c \in Connects |-> 0]
Init == kept = None /\ queued = None /\ logged = None

More(f, c) == [f EXCEPT ![c] = @ + 1]
Less(f, c) == [f EXCEPT ![c] = @ - 1]
Has(f, c) == f[c] > 0

Enter(c) == kept' = More(kept, c) /\ UNCHANGED <<queued, logged>>
Replace(old, c) == Has(kept, old) /\ kept' = More(Less(kept, old), c) /\ UNCHANGED <<queued, logged>>
Return(c) == /\ Has(kept, c) /\ kept' = Less(kept, c)
             /\ queued' = More(queued, c) /\ UNCHANGED logged
Forget(c) == Has(kept, c) /\ kept' = Less(kept, c) /\ UNCHANGED <<queued, logged>>
Log(c) == /\ Has(queued, c) /\ queued' = Less(queued, c)
          /\ logged' = More(logged, c) /\ UNCHANGED kept
Drop(c) == Has(queued, c) /\ queued' = Less(queued, c) /\ UNCHANGED <<kept, logged>>

Next == \E c \in Connects :
    Enter(c) \/ Return(c) \/ Forget(c) \/ Log(c) \/ Drop(c) \/ \E old \in Connects : Replace(old, c)

Spec == Init /\ [][Next]_<<kept, queued, logged>>
=============================================================================
