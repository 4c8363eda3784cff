--------------------------- MODULE MCEvidenceChain ---------------------------
(* The logs of the run of EvidenceChain.                                   *)
EXTENDS EvidenceChain

CONSTANTS p1, p2, p3

(* Every parent map of three processes.  Nothing orders pids, so the file  *)
(* is opened by p1 and a sender other than the opener is p2.               *)
Trees(pr, fs, es) ==
    /\ Len(pr) <= 3 /\ Len(fs) <= 1 /\ Len(es) <= 1
    /\ \A k \in DOMAIN fs : fs[k] = [pid |-> p1, ts |-> 1, isCanary |-> TRUE]
    /\ \A k \in DOMAIN es : es[k].pid \in {p1, p2} /\ es[k].ts = 1

(* Files and events at two instants, of two processes or of none.          *)
Pairs(pr, fs, es) ==
    /\ Len(pr) <= 1 /\ Len(fs) <= 2 /\ Len(es) <= 2
    /\ \A k \in DOMAIN pr : pr[k].pid # p3 /\ pr[k].ppid # p3
    /\ \A k \in DOMAIN fs : fs[k].pid # p3
    /\ \A k \in DOMAIN es : es[k].pid # p3

MCBounded(pr, fs, es) == Trees(pr, fs, es) \/ Pairs(pr, fs, es)
=============================================================================
