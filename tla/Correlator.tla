------------------------------ MODULE Correlator ------------------------------
(***************************************************************************)
(* The join of the analyzer: java-analyzer's EventCorrelator, run by       *)
(* App.main over the rows JsonlReader has read.  For every run id it joins *)
(* each connection the honeynet accepted (source "honeynet") with at most  *)
(* one connect() the kernel sensor saw (source "aya_connect"), and turns   *)
(* every row of both logs into egress events.                              *)
(*                                                                         *)
(* The correlator is sequential: a behaviour reads the two logs row by row *)
(* (their contents are arbitrary, so every order of rows is covered) and   *)
(* then runs correlateRun for each run id, one loop iteration per step.    *)
(* An endpoint stands for dst_ip and dst_port together, an instant is a    *)
(* number of ticks since the epoch.  files, proc and the evidence chains   *)
(* are modelled in EvidenceChain.                                          *)
(***************************************************************************)
EXTENDS Naturals, Sequences, FiniteSets, Functions

CONSTANTS
    RunIds,       \* run_id values
    Pids,         \* pids the sensor reports
    Endpoints,    \* dst_ip:dst_port pairs
    Protos,       \* proto values; "other" is compatible with each
    Instants,     \* instants a ts may denote
    Flows,        \* flow ids the honeynet assigns
    CanaryIds,    \* ids of planted canaries
    JoinWindow,   \* JOIN_WINDOW, in ticks
    NoPid, NoFlow, BadTs,   \* null pid, null flow_id, a ts that does not parse
    Bounded(_, _)           \* bound: the contents of network.jsonl and http.jsonl

ASSUME InstantsAreNaturals == Instants \subseteq Nat /\ JoinWindow \in Nat
ASSUME NullsAreNotValues == NoPid \notin Pids /\ NoFlow \notin Flows

VARIABLES
    phase,     \* where the program is
    network,   \* rows of network.jsonl, then sorted by instant
    http,      \* rows of http.jsonl, then sorted by instant
    pending,   \* run ids that correlate has still to visit
    run,       \* the run id correlateRun works on
    i,         \* position in network of the loop that is running
    j,         \* position in http of the inner loop
    match,     \* the bestAyaMatch of network[i], a set of at most one row
    usedAya,   \* rows already joined, compared by value
    egress,    \* the list under construction
    results    \* run id -> CorrelatedRun, for the runs that are finished

vars == <<phase, network, http, pending, run, i, j, match, usedAya, egress, results>>
input == <<network, http>>

-----------------------------------------------------------------------------
(* Rows and results. *)

Timestamps == Instants \cup {BadTs}

AyaRow == [source : {"aya_connect"}, run : RunIds, ts : Timestamps, endpoint : Endpoints,
           proto : Protos, pid : Pids, flow : {NoFlow}]
HoneynetRow == [source : {"honeynet"}, run : RunIds, ts : Timestamps, endpoint : Endpoints,
                proto : Protos, pid : {NoPid}, flow : Flows]
NetworkRow == AyaRow \cup HoneynetRow
HttpRow == [run : RunIds, ts : Timestamps, flow : Flows \cup {NoFlow},
            canary : SUBSET CanaryIds]

\* A timestamp that does not parse counts as the epoch.
instant(ts) == IF ts = BadTs THEN 0 ELSE ts

(* Stable sorting by instant: the one permutation of the positions of s    *)
(* under which instants never decrease and equal ones keep their order.    *)
StableOrders(s) ==
    {p \in Bijection(DOMAIN s, DOMAIN s) :
        \A a, b \in DOMAIN s : a < b =>
            \/ instant(s[p[a]].ts) < instant(s[p[b]].ts)
            \/ instant(s[p[a]].ts) = instant(s[p[b]].ts) /\ p[a] < p[b]}
Reordered(s, p) == [k \in DOMAIN s |-> s[p[k]]]

-----------------------------------------------------------------------------
(* bestAyaMatch. *)

sameDestination(a, h) == a.endpoint = h.endpoint
protoCompatible(a, h) == a.proto = h.proto \/ "other" \in {a.proto, h.proto}
\* Mutants: the window excludes its bound; the order of the two instants is not asked.
inWindow_Strict(a, h) ==
    instant(a.ts) <= instant(h.ts) /\ instant(h.ts) < instant(a.ts) + JoinWindow
inWindow_Unordered(a, h) == instant(h.ts) <= instant(a.ts) + JoinWindow
inWindow(a, h) ==
    /\ instant(a.ts) <= instant(h.ts)
    /\ instant(h.ts) <= instant(a.ts) + JoinWindow
Compatible(a, h) == sameDestination(a, h) /\ protoCompatible(a, h) /\ inWindow(a, h)

RowsOf(src) == {k \in DOMAIN network : network[k].run = run /\ network[k].source = src}
AyaRows == RowsOf("aya_connect")
HoneynetRows == RowsOf("honeynet")
httpByFlow(flow) ==
    {k \in DOMAIN http : http[k].run = run /\ http[k].flow = flow /\ flow # NoFlow}

Candidates(h) == {k \in AyaRows : network[k] \notin usedAya /\ Compatible(network[k], h)}

\* Stream.max keeps the first of the rows with the greatest instant.
bestAyaMatch(h) ==
    {network[k] : k \in {c \in Candidates(h) : \A d \in Candidates(h) :
        \/ instant(network[d].ts) < instant(network[c].ts)
        \/ instant(network[d].ts) = instant(network[c].ts) /\ c <= d}}

fromNetworkPair(h, m, canary) ==
    [run |-> run, ts |-> h.ts, endpoint |-> h.endpoint, proto |-> h.proto,
     pid |-> IF m = {} THEN h.pid ELSE (CHOOSE a \in m : TRUE).pid,
     flow |-> h.flow, canary |-> canary,
     joined |-> m # {}, networkOnly |-> FALSE, honeynetOnly |-> m = {}]

fromAyaOnly(a) ==
    [run |-> run, ts |-> a.ts, endpoint |-> a.endpoint, proto |-> a.proto, pid |-> a.pid,
     flow |-> NoFlow, canary |-> {},
     joined |-> FALSE, networkOnly |-> TRUE, honeynetOnly |-> FALSE]

-----------------------------------------------------------------------------
(* Reading the logs.  The honeynet numbers its flows, so no two of its     *)
(* rows share one.                                                         *)

FreshFlow(row) ==
    row.source = "honeynet" => \A k \in DOMAIN network : network[k].flow # row.flow

ReadNetwork(row) ==
    /\ phase = "network" /\ FreshFlow(row) /\ Bounded(Append(network, row), http)
    /\ network' = Append(network, row)
    /\ UNCHANGED <<phase, http, pending, run, i, j, match, usedAya, egress, results>>

EndNetwork ==
    /\ phase = "network"
    /\ phase' = "http"
    /\ UNCHANGED <<network, http, pending, run, i, j, match, usedAya, egress, results>>

ReadHttp(row) ==
    /\ phase = "http" /\ Bounded(network, Append(http, row))
    /\ http' = Append(http, row)
    /\ UNCHANGED <<phase, network, pending, run, i, j, match, usedAya, egress, results>>

runIds == {network[k].run : k \in DOMAIN network} \cup {http[k].run : k \in DOMAIN http}

EndHttp ==
    /\ phase = "http"
    /\ phase' = "runs" /\ pending' = runIds
    /\ UNCHANGED <<network, http, run, i, j, match, usedAya, egress, results>>

-----------------------------------------------------------------------------
(* correlateRun. *)

StartRun(r) ==
    /\ phase = "runs" /\ r \in pending
    /\ \E p \in StableOrders(network) : network' = Reordered(network, p)
    /\ \E p \in StableOrders(http) : http' = Reordered(http, p)
    /\ phase' = "join" /\ run' = r /\ i' = 1
    /\ usedAya' = {} /\ egress' = <<>>
    /\ UNCHANGED <<pending, j, match, results>>

\* A row of another run or of the sensor: the loop's filter passes over it.
SkipRow ==
    /\ phase = "join" /\ i \in DOMAIN network \ HoneynetRows
    /\ i' = i + 1
    /\ UNCHANGED <<phase, network, http, pending, run, j, match, usedAya, egress, results>>

\* A flow without http rows: one egress event, with the null host.
JoinFlow ==
    /\ phase = "join" /\ i \in HoneynetRows
    /\ httpByFlow(network[i].flow) = {}
    /\ LET m == bestAyaMatch(network[i]) IN
        /\ usedAya' = usedAya \cup m
        /\ egress' = Append(egress, fromNetworkPair(network[i], m, {}))
    /\ i' = i + 1
    /\ UNCHANGED <<phase, network, http, pending, run, j, match, results>>

\* A flow with http rows: the match is fixed once, then one egress event per row.
\* Mutant: the inner loop goes on where the previous flow's ended.
JoinRequests_NoReset ==
    /\ phase = "join" /\ i \in HoneynetRows
    /\ httpByFlow(network[i].flow) # {}
    /\ match' = bestAyaMatch(network[i])
    /\ usedAya' = usedAya \cup match'
    /\ phase' = "emit" /\ j' = j
    /\ UNCHANGED <<network, http, pending, run, i, egress, results>>

JoinRequests ==
    /\ phase = "join" /\ i \in HoneynetRows
    /\ httpByFlow(network[i].flow) # {}
    /\ match' = bestAyaMatch(network[i])
    /\ usedAya' = usedAya \cup match'
    /\ phase' = "emit" /\ j' = 1
    /\ UNCHANGED <<network, http, pending, run, i, egress, results>>

EmitRequest ==
    /\ phase = "emit" /\ j \in httpByFlow(network[i].flow)
    /\ egress' = Append(egress, fromNetworkPair(network[i], match, http[j].canary))
    /\ j' = j + 1
    /\ UNCHANGED <<phase, network, http, pending, run, i, match, usedAya, results>>

SkipHttp ==
    /\ phase = "emit" /\ j \in DOMAIN http \ httpByFlow(network[i].flow)
    /\ j' = j + 1
    /\ UNCHANGED <<phase, network, http, pending, run, i, match, usedAya, egress, results>>

EndRequests ==
    /\ phase = "emit" /\ j > Len(http)
    /\ phase' = "join" /\ i' = i + 1 /\ match' = {}
    /\ UNCHANGED <<network, http, pending, run, j, usedAya, egress, results>>

\* Mutant: the second loop does not start over.
EndJoin_NoReset ==
    /\ phase = "join" /\ i > Len(network)
    /\ phase' = "ayaOnly" /\ i' = i
    /\ UNCHANGED <<network, http, pending, run, j, match, usedAya, egress, results>>

EndJoin ==
    /\ phase = "join" /\ i > Len(network)
    /\ phase' = "ayaOnly" /\ i' = 1
    /\ UNCHANGED <<network, http, pending, run, j, match, usedAya, egress, results>>

ReportUnused ==
    /\ phase = "ayaOnly" /\ i \in AyaRows /\ network[i] \notin usedAya
    /\ egress' = Append(egress, fromAyaOnly(network[i]))
    /\ i' = i + 1
    /\ UNCHANGED <<phase, network, http, pending, run, j, match, usedAya, results>>

SkipUsed ==
    /\ phase = "ayaOnly" /\ i \in DOMAIN network
    /\ i \in AyaRows => network[i] \in usedAya
    /\ i' = i + 1
    /\ UNCHANGED <<phase, network, http, pending, run, j, match, usedAya, egress, results>>

matchedCanaries(s) == UNION {s[k].canary : k \in DOMAIN s}

FinishRun ==
    /\ phase = "ayaOnly" /\ i > Len(network)
    /\ \E p \in StableOrders(egress) :
        results' = [r \in DOMAIN results \cup {run} |->
            IF r = run THEN [egress |-> Reordered(egress, p),
                             matched |-> matchedCanaries(Reordered(egress, p))]
                       ELSE results[r]]
    /\ phase' = "runs" /\ pending' = pending \ {run}
    /\ egress' = <<>> /\ usedAya' = {}
    /\ UNCHANGED <<network, http, run, i, j, match>>

-----------------------------------------------------------------------------
Init ==
    /\ phase = "network" /\ network = <<>> /\ http = <<>>
    /\ pending = {} /\ run \in RunIds /\ i = 1 /\ j = 1
    /\ match = {} /\ usedAya = {} /\ egress = <<>>
    /\ results = [r \in {} |-> {}]

Correlate ==
    \/ \E r \in RunIds : StartRun(r)
    \/ SkipRow \/ JoinFlow \/ JoinRequests \/ EmitRequest \/ SkipHttp \/ EndRequests
    \/ EndJoin \/ ReportUnused \/ SkipUsed \/ FinishRun

Next ==
    \/ \E row \in NetworkRow : ReadNetwork(row)
    \/ EndNetwork
    \/ \E row \in HttpRow : ReadHttp(row)
    \/ EndHttp
    \/ Correlate

Spec == Init /\ [][Next]_vars

-----------------------------------------------------------------------------
(* Properties.  They are stated over the finished results and the rows     *)
(* that were read, without the correlator's own operators.                 *)

\* A connect() reported as a can be the origin of the connection reported as h:
\* the same endpoint, compatible protocols, and a precedes h by JoinWindow at most.
CanBeOriginOf(a, h) ==
    /\ a.run = h.run /\ a.endpoint = h.endpoint
    /\ a.proto = h.proto \/ a.proto = "other" \/ h.proto = "other"
    /\ \E d \in 0..JoinWindow : instant(a.ts) + d = instant(h.ts)

ConnectsOf(r) == {k \in DOMAIN network : network[k].source = "aya_connect" /\ network[k].run = r}
FlowsOf(r) == {k \in DOMAIN network : network[k].source = "honeynet" /\ network[k].run = r}
Events(r) == {results[r].egress[k] : k \in DOMAIN results[r].egress}
Positions(r, flow) == {k \in DOMAIN results[r].egress : results[r].egress[k].flow = flow}
RequestsOf(r, flow) == {k \in DOMAIN http : http[k].run = r /\ http[k].flow = flow}

(* bestAyaMatch over all of ayaEvents: the greedy loop leaves no pair      *)
(* behind.  No flow is reported without a pid (honeynetOnly) while a       *)
(* connect() that can be its origin is reported as networkOnly.            *)
NoMissedJoin ==
    \A r \in DOMAIN results : \A e, f \in Events(r) :
        e.honeynetOnly /\ f.networkOnly => ~CanBeOriginOf(f, e)

(* The pid of a joined event is the pid of a sensor row of the same run    *)
(* that can be the origin of that flow: no join crosses runs, endpoints or *)
(* the window, in either direction of time.                                *)
JoinedPidConnected ==
    \A r \in DOMAIN results : \A e \in Events(r) : e.joined =>
        \E k \in ConnectsOf(r) : network[k].pid = e.pid /\ CanBeOriginOf(network[k], e)

(* usedAya over both loops: a connect() explains one flow or is reported   *)
(* alone.  For each process and endpoint the joined flows and the network- *)
(* only events of a run are no more than the sensor's rows and no fewer    *)
(* than its different rows: only rows that are equal in every field, which *)
(* usedAya cannot tell apart, hide one another.                            *)
ConnectsReportedOnce ==
    \A r \in DOMAIN results, p \in Pids, ep \in Endpoints :
        LET Reported == {k \in DOMAIN results[r].egress :
                            results[r].egress[k].pid = p /\ results[r].egress[k].endpoint = ep}
            Alone == {k \in Reported : results[r].egress[k].networkOnly}
            Joined == {results[r].egress[k].flow : k \in Reported \ Alone}
            Rows == {k \in ConnectsOf(r) : network[k].pid = p /\ network[k].endpoint = ep}
            n == Cardinality(Joined) + Cardinality(Alone)
        IN  /\ n <= Cardinality(Rows)
            /\ n >= Cardinality({network[k] : k \in Rows})

(* The loop over honeynet rows and its inner loop over httpByFlow: a flow  *)
(* has one egress event per request, or one when it has none, all of them  *)
(* name the same process, and a canary is reported for a run exactly when  *)
(* a request of one of that run's flows carried it.                        *)
RequestsOfFlowsReported ==
    \A r \in DOMAIN results :
        /\ \A k \in FlowsOf(r) :
            LET flow == network[k].flow
                requests == RequestsOf(r, flow)
            IN  /\ Cardinality(Positions(r, flow)) = IF requests = {} THEN 1 ELSE Cardinality(requests)
                /\ \A a, b \in Positions(r, flow) :
                     results[r].egress[a].pid = results[r].egress[b].pid
        /\ results[r].matched =
                UNION {http[q].canary : q \in UNION {RequestsOf(r, network[k].flow) : k \in FlowsOf(r)}}
=============================================================================
