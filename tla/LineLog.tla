-------------------------------- MODULE LineLog --------------------------------
(***************************************************************************)
(* What a buffered log promises its one writer: what is handed to it is    *)
(* kept in the order it was handed over, nothing twice and nothing left    *)
(* out; a log that is closed has kept all of it, and a log that breaks has *)
(* kept a beginning.                                                       *)
(***************************************************************************)
EXTENDS Naturals, Sequences, SequencesExt

VARIABLES
    handed,   \* what the writer has handed over
    kept,     \* what is on disk
    state     \* open, closed or broken

Init == handed = <<>> /\ kept = <<>> /\ state = "open"

Hand == /\ state = "open"
        /\ IsStrictPrefix(handed, handed') /\ UNCHANGED <<kept, state>>

Keep == /\ state # "closed"
        /\ IsStrictPrefix(kept, kept') /\ IsPrefix(kept', handed)
        /\ UNCHANGED handed
        /\ state' \in {state, "broken"}

Close == /\ state = "open"
         /\ kept' = handed /\ state' = "closed" /\ UNCHANGED handed

Break == /\ state = "open"
         /\ state' = "broken" /\ UNCHANGED <<handed, kept>>

Next == Hand \/ Keep \/ Close \/ Break

Spec == Init /\ [][Next]_<<handed, kept, state>>
=============================================================================
