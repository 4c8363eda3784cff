------------------------------- MODULE CanaryScan -------------------------------
(***************************************************************************)
(* scanRequestBody (http-listener/main.go): one request body is read in    *)
(* chunks as they come from the client, hashed and searched for tokens.    *)
(* Only the last bytes of what was read are kept for the next search, so a *)
(* token that straddles two or more reads is found through this tail.      *)
(***************************************************************************)
EXTENDS CanaryMatcher

CONSTANTS
    ChunkSize,     \* requestBodyChunkSize
    MaxBody        \* bound: bytes the client sends

ASSUME SizesAreNaturals == ChunkSize \in Nat \ {0} /\ MaxBody \in Nat

VARIABLES
    phase,         \* "reading", "done" or "failed"
    hashed,        \* the bytes given to the hasher so far
    readAny, tail, matches

vars == <<phase, hashed, readAny, tail, matches>>

maxTail == IF Secrets = {} THEN 0 ELSE maxMatchTokenLen - 1

(* Mutant: one byte too few.                                               *)
boundedSuffix_Short(value, maxLen) ==
    IF Len(value) < maxLen THEN value
    ELSE SubSeq(value, Len(value) - maxLen + 2, Len(value))
boundedSuffix(value, maxLen) ==
    IF Len(value) <= maxLen THEN value
    ELSE SubSeq(value, Len(value) - maxLen + 1, Len(value))

(* What Body.Read may return: any bytes that fit the buffer, also none.    *)
Chunks == UNION {[1..n -> Bytes] : n \in 0..ChunkSize}

-----------------------------------------------------------------------------
Init ==
    /\ phase = "reading" /\ hashed = <<>> /\ readAny = FALSE
    /\ tail = <<>> /\ matches = {}

(* n > 0: hash the chunk, search it behind the tail, keep a new tail.      *)
Take(chunk) ==
    LET candidate == tail \o chunk
    IN  /\ readAny' = TRUE
        /\ hashed' = hashed \o chunk
        /\ IF Secrets = {}
           THEN UNCHANGED <<tail, matches>>
           ELSE /\ matches' = matches \cup tokensIn(candidate)
                /\ tail' = boundedSuffix(candidate, maxTail)

(* One turn of the loop.  Read may report its error along with the last    *)
(* bytes; they are processed before the error is looked at.                *)
Read(chunk, err) ==
    /\ phase = "reading"
    /\ Len(hashed) + Len(chunk) <= MaxBody
    /\ IF Len(chunk) > 0 THEN Take(chunk)
       ELSE UNCHANGED <<hashed, readAny, tail, matches>>
    /\ phase' = CASE err = "nil" -> "reading"
                  [] err = "eof" -> "done"
                  [] OTHER -> "failed"

(* The hash returned: nil for an empty body and after an error.            *)
returnsHash == phase = "done" /\ readAny

Next == \E chunk \in Chunks, err \in {"nil", "eof", "error"} : Read(chunk, err)

Spec == Init /\ [][Next]_vars

-----------------------------------------------------------------------------
TypeOK ==
    /\ phase \in {"reading", "done", "failed"}
    /\ hashed \in Seq(Bytes)
    /\ readAny \in BOOLEAN
    /\ tail \in Seq(Bytes)
    /\ matches \subseteq Secrets

(* However the client splits its body into reads, the tokens found are     *)
(* those of the bytes read so far taken as one string: none that straddles *)
(* a read is missed, none is found that the tail alone put together, and   *)
(* bytes that come together with an error count.                           *)
ScanIsExact == matches = tokensIn(hashed)

(* The scan keeps less than the longest token of a body of any size, and   *)
(* what it keeps is the end of what was hashed.                            *)
IsEndOf(t, s) ==
    /\ Len(t) <= Len(s)
    /\ \A i \in 1..Len(t) : t[i] = s[Len(s) - Len(t) + i]

TailIsTheEnd ==
    /\ Len(tail) <= maxTail
    /\ IsEndOf(tail, hashed)
    /\ Secrets # {} /\ Len(tail) < maxTail => tail = hashed
=============================================================================
