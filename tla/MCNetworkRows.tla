----------------------------- MODULE MCNetworkRows -----------------------------
(* A run that begins in the last second of a 28 February before a leap     *)
(* day, of a 29 February of a year divisible by 400, and of a year.        *)
EXTENDS NetworkRows

EndOf(day) == 86400 * day + 86399
MCStarts == {EndOf(d) : d \in {11015, 11016, 17166}}
=============================================================================
