------------------------------ MODULE MCCanaryScan ------------------------------
(* Tokens of different lengths, one of which overlaps itself and the other. *)
EXTENDS CanaryScan

CONSTANTS s1, s2, a, b

MCSecrets == {s1, s2}
MCCatalog == <<s1, s2>>
MCMatchToken == [s \in MCSecrets |-> IF s = s1 THEN <<a, b, a, b>> ELSE <<b, b>>]
=============================================================================
