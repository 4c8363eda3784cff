----------------------------- MODULE MCCorrelator -----------------------------
(* The logs of the runs of Correlator: each instance lets some fields vary *)
(* and fixes the others.                                                   *)
EXTENDS Correlator

CONSTANTS r1, e1, p1

Only(log, runs, instants, endpoints, protos, pids) ==
    \A k \in DOMAIN log :
        /\ log[k].run \in runs /\ log[k].ts \in instants
        /\ log[k].endpoint \in endpoints /\ log[k].proto \in protos
        /\ log[k].pid \in pids \cup {NoPid}

(* Two processes and two flows compete within, at and beyond the window.   *)
Competing(n, h) ==
    /\ Len(n) <= 4 /\ h = <<>>
    /\ Only(n, {r1}, Instants, {e1}, {"tcp"}, Pids)

(* Requests of two flows, requests of no flow, times that do not parse.    *)
Requests(n, h) ==
    /\ Len(n) <= 3 /\ Len(h) <= 2
    /\ Only(n, {r1}, {1, BadTs}, {e1}, {"tcp"}, {p1})
    /\ \A k \in DOMAIN h : h[k].run = r1 /\ h[k].ts \in {1, BadTs}

(* Rows of two runs, to two endpoints, over two protocols.                 *)
SeveralRuns(n, h) ==
    /\ Len(n) <= 2 /\ h = <<>>
    /\ Only(n, RunIds, {1, BadTs}, Endpoints, Protos, {p1})

MCBounded(n, h) == Competing(n, h) \/ Requests(n, h) \/ SeveralRuns(n, h)
=============================================================================
