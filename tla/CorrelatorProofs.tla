---------------------------- MODULE CorrelatorProofs ----------------------------
(***************************************************************************)
(* Proofs about Correlator, for logs of any length, order and content, any *)
(* number of runs and any join window, and about Classifier, which judges  *)
(* what the join reports, for any rows and any lists of domains.           *)
(***************************************************************************)
EXTENDS Correlator, Classifier, SequenceTheorems, FiniteSetTheorems, WellFoundedInduction, TLAPS

EgressEvent ==
    [run : RunIds, ts : Timestamps, endpoint : Endpoints, proto : Protos,
     pid : Pids \cup {NoPid}, flow : Flows \cup {NoFlow}, canary : SUBSET CanaryIds,
     joined : BOOLEAN, networkOnly : BOOLEAN, honeynetOnly : BOOLEAN]

Phases == {"network", "http", "runs", "join", "emit", "ayaOnly"}
InRun == {"join", "emit", "ayaOnly"}

TypeOK ==
    /\ phase \in Phases /\ run \in RunIds /\ pending \subseteq RunIds
    /\ network \in Seq(NetworkRow) /\ http \in Seq(HttpRow)
    /\ i \in Nat \ {0} /\ j \in Nat \ {0}
    /\ phase = "emit" => i \in HoneynetRows
    /\ match \subseteq AyaRow /\ usedAya \subseteq AyaRow
    /\ egress \in Seq(EgressEvent)
    /\ DOMAIN results \subseteq RunIds
    /\ \A r \in DOMAIN results : results[r].egress \in Seq(EgressEvent)

-----------------------------------------------------------------------------
(* Rows, and the orders the logs are put in.                               *)

(* An instant is a number, also of a time that does not parse.             *)
LEMMA InstantIsNatural ==
  ASSUME NEW ts \in Timestamps
  PROVE  instant(ts) \in Nat
  BY InstantsAreNaturals DEF instant, Timestamps

(* Rows of the sensor and of the honeynet have the fields the join reads.  *)
LEMMA RowFields ==
  ASSUME NEW row \in NetworkRow
  PROVE  /\ row.run \in RunIds /\ row.ts \in Timestamps /\ row.endpoint \in Endpoints
         /\ row.proto \in Protos /\ row.pid \in Pids \cup {NoPid}
         /\ row.flow \in Flows \cup {NoFlow}
         /\ row.source = "aya_connect" => row \in AyaRow
         /\ row.source = "honeynet" => row \in HoneynetRow
  BY DEF NetworkRow, AyaRow, HoneynetRow

(* Sorting moves rows and loses none.                                      *)
LEMMA ReorderedKeepsRows ==
  ASSUME NEW S, NEW s \in Seq(S), NEW p \in StableOrders(s)
  PROVE  /\ Reordered(s, p) \in Seq(S) /\ DOMAIN Reordered(s, p) = DOMAIN s
         /\ \A k \in DOMAIN s : p[k] \in DOMAIN s /\ Reordered(s, p)[k] = s[p[k]]
         /\ \A k \in DOMAIN s : \E l \in DOMAIN s : p[l] = k
         /\ p \in Bijection(DOMAIN s, DOMAIN s)
<1>1. p \in Bijection(DOMAIN s, DOMAIN s)
  BY DEF StableOrders
<1>2. /\ \A k \in DOMAIN s : p[k] \in DOMAIN s
      /\ \A k \in DOMAIN s : \E l \in DOMAIN s : p[l] = k
  BY <1>1 DEF Bijection, Injection, Surjection
<1>3. DOMAIN s = 1..Len(s) /\ Len(s) \in Nat /\ \A k \in DOMAIN s : s[k] \in S
  OBVIOUS
<1>4. Reordered(s, p) \in [1..Len(s) -> S]
  BY <1>2, <1>3 DEF Reordered
<1>5. Reordered(s, p) \in Seq(S)
  BY <1>3, <1>4
<1> QED
  BY <1>1, <1>2, <1>5 DEF Reordered

-----------------------------------------------------------------------------
(* bestAyaMatch.                                                           *)

(* Every non-empty set of naturals has a least element.                    *)
LEMMA LeastNatural ==
  ASSUME NEW T, T \subseteq Nat, T # {}
  PROVE  \E x \in T : \A y \in T : x <= y
<1>1. PICK x \in T : \A y \in T : <<y, x>> \notin OpToRel(<, Nat)
  BY NatLessThanWellFounded, WFMin
<1>2. ASSUME NEW y \in T PROVE x <= y
  <2>1. x \in Nat /\ y \in Nat
    OBVIOUS
  <2>2. ~(y < x)
    BY <1>1, <2>1 DEF OpToRel
  <2> QED
    BY <2>1, <2>2
<1> QED
  BY <1>2

(* A match is a candidate, and there is one at most.                       *)
LEMMA MatchIsCandidate ==
  ASSUME TypeOK, NEW h, NEW a \in bestAyaMatch(h)
  PROVE  /\ a \in AyaRow /\ a.run = run /\ a \notin usedAya /\ Compatible(a, h)
         /\ \E k \in AyaRows : a = network[k]
         /\ bestAyaMatch(h) = {a}
<1> DEFINE Best(c) == \A d \in Candidates(h) :
              \/ instant(network[d].ts) < instant(network[c].ts)
              \/ instant(network[d].ts) = instant(network[c].ts) /\ c <= d
<1>1. PICK c \in Candidates(h) : a = network[c] /\ Best(c)
  BY DEF bestAyaMatch
<1>2. /\ c \in AyaRows /\ c \in DOMAIN network /\ a.run = run /\ a.source = "aya_connect"
      /\ a \notin usedAya /\ Compatible(a, h)
  BY <1>1 DEF Candidates, AyaRows, RowsOf
<1>3. a \in AyaRow
  BY <1>1, <1>2, RowFields DEF TypeOK
<1>4. ASSUME NEW d \in Candidates(h), Best(d) PROVE network[d] = a
  <2>1. /\ c \in Nat /\ d \in Nat
        /\ instant(network[c].ts) \in Nat /\ instant(network[d].ts) \in Nat
    <3>1. c \in DOMAIN network /\ d \in DOMAIN network
      BY DEF Candidates, AyaRows, RowsOf
    <3> QED
      BY <3>1, RowFields, InstantIsNatural DEF TypeOK
  <2>2. c <= d /\ d <= c
    BY <1>1, <1>4, <2>1
  <2>3. c = d
    BY <2>1, <2>2
  <2> QED
    BY <1>1, <2>3
<1>5. bestAyaMatch(h) = {a}
  BY <1>4 DEF bestAyaMatch
<1> QED
  BY <1>1, <1>2, <1>3, <1>5

(* Where there is a candidate, there is a match: the first of the latest.  *)
LEMMA CandidateIsMatched ==
  ASSUME TypeOK, NEW h, instant(h.ts) \in Nat, bestAyaMatch(h) = {}
  PROVE  \A k \in AyaRows : network[k] \notin usedAya => ~Compatible(network[k], h)
<1> SUFFICES ASSUME Candidates(h) # {} PROVE FALSE
  BY DEF Candidates
<1> DEFINE at(k) == instant(network[k].ts)
           late == instant(h.ts)
           Ages == {late - at(k) : k \in Candidates(h)}
<1>1. \A k \in Candidates(h) : k \in Nat /\ at(k) \in Nat /\ at(k) <= late
  <2> TAKE k \in Candidates(h)
  <2>1. k \in DOMAIN network /\ Compatible(network[k], h)
    BY DEF Candidates, AyaRows, RowsOf
  <2>2. k \in Nat /\ at(k) \in Nat
    BY <2>1, RowFields, InstantIsNatural DEF TypeOK
  <2> QED
    BY <2>1, <2>2 DEF Compatible, inWindow
<1>2. Ages \subseteq Nat /\ Ages # {}
  BY <1>1
<1>3. PICK age \in Ages : \A x \in Ages : age <= x
  BY <1>2, LeastNatural
<1> DEFINE Latest == {k \in Candidates(h) : late - at(k) = age}
<1>4. Latest \subseteq Nat /\ Latest # {}
  BY <1>1, <1>3
<1>5. PICK c \in Latest : \A k \in Latest : c <= k
  BY <1>4, LeastNatural
<1>6. \A d \in Candidates(h) : at(d) < at(c) \/ (at(d) = at(c) /\ c <= d)
  <2> TAKE d \in Candidates(h)
  <2>1. age <= late - at(d) /\ age = late - at(c)
    BY <1>3, <1>5
  <2>2. at(d) = at(c) => d \in Latest
    BY <2>1
  <2> QED
    BY <1>1, <1>5, <2>1, <2>2
<1>7. network[c] \in bestAyaMatch(h)
  BY <1>6 DEF bestAyaMatch
<1> QED
  BY <1>7

-----------------------------------------------------------------------------
(* Types.                                                                  *)

(* An egress event takes its fields from the rows it is made of.           *)
LEMMA PairFields ==
  ASSUME TypeOK, NEW h \in HoneynetRow, NEW m \in SUBSET AyaRow, NEW canary \in SUBSET CanaryIds
  PROVE  fromNetworkPair(h, m, canary) \in EgressEvent
<1>1. /\ h.ts \in Timestamps /\ h.endpoint \in Endpoints /\ h.proto \in Protos
      /\ h.pid = NoPid /\ h.flow \in Flows /\ run \in RunIds
  BY DEF HoneynetRow, TypeOK
<1>2. (IF m = {} THEN h.pid ELSE (CHOOSE a \in m : TRUE).pid) \in Pids \cup {NoPid}
  <2>1. CASE m = {}
    BY <1>1, <2>1
  <2>2. CASE m # {}
    <3>1. (CHOOSE a \in m : TRUE) \in AyaRow
      BY <2>2
    <3> QED
      BY <2>2, <3>1 DEF AyaRow
  <2> QED
    BY <2>1, <2>2
<1> QED
  BY <1>1, <1>2 DEF fromNetworkPair, EgressEvent

(* So does the event of a connect that is joined with nothing.             *)
LEMMA AloneFields ==
  ASSUME TypeOK, NEW a \in AyaRow
  PROVE  fromAyaOnly(a) \in EgressEvent
  BY DEF fromAyaOnly, EgressEvent, AyaRow, TypeOK

(* bestAyaMatch gives rows of the sensor.                                  *)
LEMMA MatchFields ==
  ASSUME TypeOK, NEW h
  PROVE  bestAyaMatch(h) \in SUBSET AyaRow
  BY MatchIsCandidate

(* A row of a run of the honeynet is one of its rows.                      *)
LEMMA FlowRow ==
  ASSUME TypeOK, NEW k \in HoneynetRows
  PROVE  k \in DOMAIN network /\ network[k] \in HoneynetRow /\ network[k].run = run
<1>1. k \in DOMAIN network /\ network[k].source = "honeynet" /\ network[k].run = run
  BY DEF HoneynetRows, RowsOf
<1> QED
  BY <1>1, RowFields DEF TypeOK

(* And so is one of the sensor.                                            *)
LEMMA ConnectRow ==
  ASSUME TypeOK, NEW k \in AyaRows
  PROVE  k \in DOMAIN network /\ network[k] \in AyaRow /\ network[k].run = run
<1>1. k \in DOMAIN network /\ network[k].source = "aya_connect" /\ network[k].run = run
  BY DEF AyaRows, RowsOf
<1> QED
  BY <1>1, RowFields DEF TypeOK

LEMMA InitTyped == Init => TypeOK
  BY DEF Init, TypeOK, Phases

(* TypeOK is kept by each action.                                          *)
LEMMA NextTyped == TypeOK /\ [Next]_vars => TypeOK'
<1> SUFFICES ASSUME TypeOK, [Next]_vars PROVE TypeOK'
  OBVIOUS
<1>0. ASSUME UNCHANGED <<network, run>> PROVE HoneynetRows' = HoneynetRows
  BY <1>0 DEF HoneynetRows, RowsOf
<1>1. ASSUME NEW row \in NetworkRow, ReadNetwork(row) PROVE TypeOK'
  BY <1>1, AppendProperties DEF ReadNetwork, TypeOK
<1>2. CASE EndNetwork
  BY <1>2 DEF EndNetwork, TypeOK, Phases
<1>3. ASSUME NEW row \in HttpRow, ReadHttp(row) PROVE TypeOK'
  BY <1>3, AppendProperties DEF ReadHttp, TypeOK
<1>4. CASE EndHttp
  <2>1. \A k \in DOMAIN network : network[k].run \in RunIds
    BY RowFields DEF TypeOK
  <2>2. \A k \in DOMAIN http : http[k].run \in RunIds
    <3>1. \A k \in DOMAIN http : http[k] \in HttpRow
      BY DEF TypeOK
    <3> QED
      BY <3>1 DEF HttpRow
  <2>3. runIds \subseteq RunIds
    BY <2>1, <2>2 DEF runIds
  <2> QED
    BY <1>4, <2>3 DEF EndHttp, TypeOK, Phases
<1>5. ASSUME NEW r \in RunIds, StartRun(r) PROVE TypeOK'
  <2>1. PICK p \in StableOrders(network), q \in StableOrders(http) :
          network' = Reordered(network, p) /\ http' = Reordered(http, q)
    BY <1>5 DEF StartRun
  <2>2. network' \in Seq(NetworkRow)
    BY <2>1, ReorderedKeepsRows DEF TypeOK
  <2>3. http' \in Seq(HttpRow)
    BY <2>1, ReorderedKeepsRows DEF TypeOK
  <2>4. /\ phase' = "join" /\ run' = r /\ i' = 1 /\ usedAya' = {} /\ egress' = <<>>
        /\ UNCHANGED <<pending, j, match, results>>
    BY <1>5 DEF StartRun
  <2> QED
    BY <2>2, <2>3, <2>4 DEF TypeOK, Phases
<1>6. CASE SkipRow
  BY <1>6 DEF SkipRow, TypeOK
<1>7. CASE JoinFlow
  <2> DEFINE m == bestAyaMatch(network[i])
             event == fromNetworkPair(network[i], m, {})
  <2>1. /\ i \in HoneynetRows /\ usedAya' = usedAya \cup m /\ egress' = Append(egress, event)
        /\ i' = i + 1 /\ UNCHANGED <<phase, network, http, pending, run, j, match, results>>
    BY <1>7 DEF JoinFlow
  <2>2. network[i] \in HoneynetRow
    BY <2>1, FlowRow
  <2>3. m \in SUBSET AyaRow
    BY MatchFields
  <2> HIDE DEF m
  <2>4. event \in EgressEvent
    BY <2>2, <2>3, PairFields
  <2> HIDE DEF event
  <2>5. egress' \in Seq(EgressEvent) /\ phase' = "join"
    BY <1>7, <2>1, <2>4, AppendProperties DEF JoinFlow, TypeOK
  <2> QED
    BY <2>1, <2>3, <2>5 DEF TypeOK
<1>8. CASE JoinRequests
  <2>1. match' \in SUBSET AyaRow
    BY <1>8, MatchFields DEF JoinRequests
  <2>2. i \in HoneynetRows /\ HoneynetRows' = HoneynetRows
    BY <1>0, <1>8 DEF JoinRequests
  <2> QED
    BY <1>8, <2>1, <2>2 DEF JoinRequests, TypeOK, Phases
<1>9. CASE EmitRequest
  <2> DEFINE event == fromNetworkPair(network[i], match, http[j].canary)
  <2>1. /\ j \in httpByFlow(network[i].flow) /\ egress' = Append(egress, event) /\ j' = j + 1
        /\ UNCHANGED <<phase, network, http, pending, run, i, match, usedAya, results>>
    BY <1>9 DEF EmitRequest
  <2>2. http[j] \in HttpRow
    BY <2>1 DEF httpByFlow, TypeOK
  <2>3. http[j].canary \in SUBSET CanaryIds
    BY <2>2 DEF HttpRow
  <2>4. network[i] \in HoneynetRow
    BY <1>9, FlowRow DEF EmitRequest, TypeOK
  <2>5. event \in EgressEvent
    BY <2>3, <2>4, PairFields DEF TypeOK
  <2> HIDE DEF event
  <2>6. HoneynetRows' = HoneynetRows
    BY <1>0, <2>1
  <2> QED
    BY <2>1, <2>5, <2>6, AppendProperties DEF TypeOK
<1>10. CASE SkipHttp
  <2>1. HoneynetRows' = HoneynetRows
    BY <1>0, <1>10 DEF SkipHttp
  <2> QED
    BY <1>10, <2>1 DEF SkipHttp, TypeOK
<1>11. CASE EndRequests
  BY <1>11 DEF EndRequests, TypeOK, Phases
<1>12. CASE EndJoin
  BY <1>12 DEF EndJoin, TypeOK, Phases
<1>13. CASE ReportUnused
  <2>1. network[i] \in AyaRow
    BY <1>13, ConnectRow DEF ReportUnused
  <2>2. fromAyaOnly(network[i]) \in EgressEvent
    BY <2>1, AloneFields
  <2> QED
    BY <1>13, <2>2, AppendProperties DEF ReportUnused, TypeOK
<1>14. CASE SkipUsed
  BY <1>14 DEF SkipUsed, TypeOK
<1>15. CASE FinishRun
  <2>1. PICK p \in StableOrders(egress) :
          results' = [r \in DOMAIN results \cup {run} |->
            IF r = run THEN [egress |-> Reordered(egress, p),
                             matched |-> matchedCanaries(Reordered(egress, p))]
                       ELSE results[r]]
    BY <1>15 DEF FinishRun
  <2>2. Reordered(egress, p) \in Seq(EgressEvent)
    BY <2>1, ReorderedKeepsRows DEF TypeOK
  <2>3. \A r \in DOMAIN results' : results'[r].egress \in Seq(EgressEvent)
    <3> TAKE r \in DOMAIN results'
    <3>1. CASE r = run
      BY <2>1, <2>2, <3>1
    <3>2. CASE r # run
      <4>1. r \in DOMAIN results /\ results'[r] = results[r]
        BY <2>1, <3>2
      <4> QED
        BY <4>1 DEF TypeOK
    <3> QED
      BY <3>1, <3>2
  <2>4. DOMAIN results' \subseteq RunIds
    BY <2>1 DEF TypeOK
  <2>5. /\ phase' = "runs" /\ pending' \subseteq pending /\ egress' = <<>> /\ usedAya' = {}
        /\ UNCHANGED <<network, http, run, i, j, match>>
    BY <1>15 DEF FinishRun
  <2> QED
    BY <2>3, <2>4, <2>5 DEF TypeOK, Phases
<1>16. CASE UNCHANGED vars
  <2>1. HoneynetRows' = HoneynetRows
    BY <1>0, <1>16 DEF vars
  <2> QED
    BY <1>16, <2>1 DEF vars, TypeOK
<1> QED
  BY <1>1, <1>2, <1>3, <1>4, <1>5, <1>6, <1>7, <1>8, <1>9, <1>10, <1>11, <1>12, <1>13,
     <1>14, <1>15, <1>16 DEF Next, Correlate

-----------------------------------------------------------------------------
(* The inductive invariants behind JoinedPidConnected and NoMissedJoin.    *)

\* A connect of the run can be the origin of e, and gave it its pid.
HasOrigin(r, e) ==
    \E k \in ConnectsOf(r) : network[k].pid = e.pid /\ CanBeOriginOf(network[k], e)

\* No connect the join has left over can be the origin of e.
NoneLeftFor(e) ==
    \A k \in AyaRows : network[k] \notin usedAya => ~CanBeOriginOf(network[k], e)

\* What is true of each event of the list while its run is worked on.
EventOK(e) ==
    /\ e.joined => HasOrigin(run, e)
    /\ e.honeynetOnly => NoneLeftFor(e)
    /\ e.networkOnly => /\ phase = "ayaOnly"
                        /\ \E k \in AyaRows : network[k] \notin usedAya /\ e = fromAyaOnly(network[k])

MatchOK ==
    /\ \A a \in match : Compatible(a, network[i]) /\ \E k \in AyaRows : a = network[k]
    /\ match = {} => \A k \in AyaRows : network[k] \notin usedAya => ~Compatible(network[k], network[i])

JoinInv ==
    /\ phase \in {"network", "http"} => DOMAIN results = {}
    /\ phase \in InRun => \A n \in DOMAIN egress : EventOK(egress[n])
    /\ phase = "emit" => MatchOK

(* A connect can be the origin of the event of a flow exactly when the     *)
(* join takes the two rows to be compatible.                               *)
LEMMA OriginIsCompatible ==
  ASSUME TypeOK, NEW h \in HoneynetRow, NEW a \in AyaRow, a.run = run, NEW m, NEW canary
  PROVE  CanBeOriginOf(a, fromNetworkPair(h, m, canary)) <=> Compatible(a, h)
<1> DEFINE e == fromNetworkPair(h, m, canary)
<1>1. e.run = run /\ e.ts = h.ts /\ e.endpoint = h.endpoint /\ e.proto = h.proto
  BY DEF fromNetworkPair
<1>2. h \in NetworkRow /\ a \in NetworkRow
  BY DEF NetworkRow
<1>3. PICK s, t \in Nat : s = instant(a.ts) /\ t = instant(h.ts)
  BY <1>2, RowFields, InstantIsNatural
<1>4. (\E d \in 0..JoinWindow : s + d = t) <=> s <= t /\ t <= s + JoinWindow
  <2>1. ASSUME s <= t, t <= s + JoinWindow PROVE t - s \in 0..JoinWindow /\ s + (t - s) = t
    BY <2>1, InstantsAreNaturals
  <2> QED
    BY <2>1, InstantsAreNaturals
<1>5. inWindow(a, h) <=> \E d \in 0..JoinWindow : instant(a.ts) + d = instant(h.ts)
  BY <1>3, <1>4 DEF inWindow
<1>6. CanBeOriginOf(a, e) <=> Compatible(a, h)
  <2> HIDE DEF e
  <2> QED
    BY <1>1, <1>5 DEF CanBeOriginOf, Compatible, sameDestination, protoCompatible
<1> QED
  BY <1>6

(* So the event of a flow is in order as soon as its match is.             *)
LEMMA PairOK ==
  ASSUME TypeOK, NEW h \in HoneynetRow, NEW canary, NEW m \in SUBSET AyaRow,
         \A a \in m : Compatible(a, h) /\ \E k \in AyaRows : a = network[k],
         m = {} => \A k \in AyaRows : network[k] \notin usedAya => ~Compatible(network[k], h)
  PROVE  EventOK(fromNetworkPair(h, m, canary))
<1> DEFINE e == fromNetworkPair(h, m, canary)
<1>1. /\ e.joined = (m # {}) /\ e.honeynetOnly = (m = {}) /\ e.networkOnly = FALSE
      /\ m # {} => e.pid = (CHOOSE a \in m : TRUE).pid
  BY DEF fromNetworkPair
<1>2. ASSUME m # {} PROVE HasOrigin(run, e)
  <2>1. PICK a \in m : a = (CHOOSE b \in m : TRUE)
    BY <1>2
  <2>2. PICK k \in AyaRows : a = network[k]
    OBVIOUS
  <2>3. k \in ConnectsOf(run) /\ a \in AyaRow /\ a.run = run
    BY <2>2, ConnectRow DEF ConnectsOf, AyaRows, RowsOf
  <2>4. CanBeOriginOf(a, e)
    BY <2>3, OriginIsCompatible
  <2>5. a.pid = e.pid
    BY <1>1, <1>2, <2>1
  <2> HIDE DEF e
  <2> QED
    BY <2>2, <2>3, <2>4, <2>5 DEF HasOrigin
<1>3. ASSUME m = {} PROVE NoneLeftFor(e)
  <2>1. ASSUME NEW k \in AyaRows, network[k] \notin usedAya PROVE ~CanBeOriginOf(network[k], e)
    BY <1>3, <2>1, ConnectRow, OriginIsCompatible
  <2> QED
    BY <2>1 DEF NoneLeftFor
<1>4. EventOK(e)
  <2> HIDE DEF e
  <2> QED
    BY <1>1, <1>2, <1>3 DEF EventOK
<1> QED
  BY <1>4

(* The event of a connect alone is in order when nothing has used it.      *)
LEMMA AloneOK ==
  ASSUME TypeOK, phase = "ayaOnly", NEW k \in AyaRows, network[k] \notin usedAya
  PROVE  EventOK(fromAyaOnly(network[k]))
<1>1. /\ fromAyaOnly(network[k]).joined = FALSE
      /\ fromAyaOnly(network[k]).honeynetOnly = FALSE
  BY DEF fromAyaOnly
<1> QED
  BY <1>1 DEF EventOK

(* An event stays in order while rows are used and the second loop has not *)
(* begun; from then on nothing is used.                                    *)
LEMMA EventStaysOK ==
  ASSUME NEW e, EventOK(e), UNCHANGED <<network, run>>, usedAya \subseteq usedAya',
         \/ phase \in {"join", "emit"}
         \/ phase' = "ayaOnly" /\ usedAya' = usedAya
  PROVE  EventOK(e)'
<1>1. AyaRows' = AyaRows
  BY DEF AyaRows, RowsOf
<1>2. e.joined => HasOrigin(run, e)'
  BY DEF EventOK, HasOrigin, ConnectsOf
<1>3. e.honeynetOnly => NoneLeftFor(e)'
  BY <1>1 DEF EventOK, NoneLeftFor
<1>4. e.networkOnly => /\ phase' = "ayaOnly"
                       /\ \E k \in AyaRows' : network'[k] \notin usedAya' /\ e = fromAyaOnly(network[k])'
  <2>1. \A k : fromAyaOnly(network[k])' = fromAyaOnly(network[k])
    BY DEF fromAyaOnly
  <2> QED
    BY <1>1, <2>1 DEF EventOK
<1> QED
  BY <1>2, <1>3, <1>4 DEF EventOK

(* Appending an event that is in order keeps the list so.                  *)
LEMMA EventAppended ==
  ASSUME TypeOK, JoinInv, phase \in InRun, NEW d, d \in EgressEvent, EventOK(d)',
         egress' = Append(egress, d), UNCHANGED <<network, run>>, usedAya \subseteq usedAya',
         \/ phase \in {"join", "emit"}
         \/ phase' = "ayaOnly" /\ usedAya' = usedAya
  PROVE  \A n \in DOMAIN egress' : EventOK(egress[n])'
<1>1. /\ Len(egress) \in Nat /\ DOMAIN egress = 1..Len(egress)
      /\ DOMAIN egress' = 1..Len(egress) + 1 /\ egress'[Len(egress) + 1] = d
      /\ \A k \in 1..Len(egress) : egress'[k] = egress[k]
  BY AppendProperties DEF TypeOK
<1>2. ASSUME NEW n \in DOMAIN egress PROVE EventOK(egress[n])'
  <2>1. PICK e : e = egress[n] /\ e = egress'[n]
    BY <1>1, <1>2
  <2>2. EventOK(e)
    BY <2>1 DEF JoinInv
  <2>3. EventOK(e)'
    BY <2>2, EventStaysOK
  <2> QED
    BY <2>1, <2>3
<1> QED
  BY <1>1, <1>2

(* The list stays in order where a step adds nothing to it.                *)
LEMMA EventsStayOK ==
  ASSUME JoinInv, phase \in InRun, UNCHANGED <<network, run, egress>>, usedAya \subseteq usedAya',
         \/ phase \in {"join", "emit"}
         \/ phase' = "ayaOnly" /\ usedAya' = usedAya
  PROVE  \A n \in DOMAIN egress' : EventOK(egress[n])'
<1> SUFFICES ASSUME NEW n \in DOMAIN egress PROVE EventOK(egress[n])'
  OBVIOUS
<1>1. PICK e : e = egress[n] /\ e = egress'[n]
  OBVIOUS
<1>2. EventOK(e)
  BY <1>1 DEF JoinInv
<1>3. EventOK(e)'
  BY <1>2, EventStaysOK
<1> QED
  BY <1>1, <1>3

(* Each iteration of correlateRun keeps the list in order.                 *)
LEMMA JoinStep == TypeOK /\ JoinInv /\ [Next]_vars => JoinInv'
<1> SUFFICES ASSUME TypeOK, JoinInv, [Next]_vars PROVE JoinInv'
  OBVIOUS
<1> USE DEF InRun
<1>1. CASE phase \in {"network", "http"} /\ phase' \notin InRun /\ results' = results
  BY <1>1 DEF JoinInv
<1>2. ASSUME NEW r \in RunIds, StartRun(r) PROVE JoinInv'
  BY <1>2 DEF StartRun, JoinInv
<1>3. CASE SkipRow
  <2>1. phase = "join" /\ phase' = "join" /\ UNCHANGED <<network, run, egress, usedAya>>
    BY <1>3 DEF SkipRow
  <2> QED
    BY <2>1, EventsStayOK DEF JoinInv
<1>4. CASE JoinFlow
  <2> DEFINE m == bestAyaMatch(network[i])
             event == fromNetworkPair(network[i], m, {})
  <2>1. /\ i \in HoneynetRows /\ usedAya' = usedAya \cup m /\ egress' = Append(egress, event)
        /\ phase = "join" /\ phase' = "join" /\ UNCHANGED <<network, run>>
    BY <1>4 DEF JoinFlow
  <2>2. network[i] \in HoneynetRow
    BY <2>1, FlowRow
  <2>3. m \in SUBSET AyaRow
    BY MatchFields
  <2>4. \A a \in m : Compatible(a, network[i]) /\ \E k \in AyaRows : a = network[k]
    BY MatchIsCandidate
  <2>5. m = {} => \A k \in AyaRows : network[k] \notin usedAya => ~Compatible(network[k], network[i])
    <3>1. instant(network[i].ts) \in Nat
      BY <2>2, RowFields, InstantIsNatural DEF NetworkRow
    <3> QED
      BY <3>1, CandidateIsMatched
  <2> HIDE DEF m
  <2>6. EventOK(event) /\ event \in EgressEvent
    BY <2>2, <2>3, <2>4, <2>5, PairOK, PairFields
  <2> HIDE DEF event
  <2>7. PICK d : d = event
    OBVIOUS
  <2>8. EventOK(d) /\ d \in EgressEvent /\ egress' = Append(egress, d)
    BY <2>1, <2>6, <2>7
  <2>9. EventOK(d)'
    BY <2>1, <2>8, EventStaysOK
  <2>10. \A n \in DOMAIN egress' : EventOK(egress[n])'
    BY <2>1, <2>8, <2>9, EventAppended
  <2> QED
    BY <2>1, <2>10 DEF JoinInv
<1>5. CASE JoinRequests
  <2>1. /\ phase = "join" /\ phase' = "emit" /\ i \in HoneynetRows
        /\ match' = bestAyaMatch(network[i]) /\ usedAya' = usedAya \cup match'
        /\ UNCHANGED <<network, run, i, egress>>
    BY <1>5 DEF JoinRequests
  <2>2. \A n \in DOMAIN egress' : EventOK(egress[n])'
    BY <2>1, EventsStayOK
  <2>3. AyaRows' = AyaRows
    BY <2>1 DEF AyaRows, RowsOf
  <2>4. \A a, h : Compatible(a, h)' <=> Compatible(a, h)
    OBVIOUS
  <2>5. \A a \in match' : Compatible(a, network[i]) /\ \E k \in AyaRows : a = network[k]
    BY <2>1, MatchIsCandidate
  <2>6. match' = {} => \A k \in AyaRows : network[k] \notin usedAya => ~Compatible(network[k], network[i])
    <3>1. network[i] \in NetworkRow
      BY <2>1, FlowRow DEF NetworkRow
    <3>2. instant(network[i].ts) \in Nat
      BY <3>1, RowFields, InstantIsNatural
    <3> QED
      BY <2>1, <3>2, CandidateIsMatched
  <2>7. MatchOK'
    BY <2>1, <2>3, <2>5, <2>6 DEF MatchOK
  <2> QED
    BY <2>1, <2>2, <2>7 DEF JoinInv
<1>6. CASE EmitRequest
  <2> DEFINE event == fromNetworkPair(network[i], match, http[j].canary)
  <2>1. /\ phase = "emit" /\ phase' = "emit" /\ j \in httpByFlow(network[i].flow)
        /\ egress' = Append(egress, event)
        /\ UNCHANGED <<network, run, i, match, usedAya>>
    BY <1>6 DEF EmitRequest
  <2>2. network[i] \in HoneynetRow
    BY <2>1, FlowRow DEF TypeOK
  <2>3. match \in SUBSET AyaRow /\ MatchOK
    BY <2>1 DEF TypeOK, JoinInv
  <2>4. http[j] \in HttpRow
    BY <2>1 DEF httpByFlow, TypeOK
  <2>5. http[j].canary \in SUBSET CanaryIds
    BY <2>4 DEF HttpRow
  <2>6. EventOK(event) /\ event \in EgressEvent
    BY <2>2, <2>3, <2>5, PairOK, PairFields DEF MatchOK
  <2> HIDE DEF event
  <2>7. PICK d : d = event
    OBVIOUS
  <2>8. EventOK(d) /\ d \in EgressEvent /\ egress' = Append(egress, d)
    BY <2>1, <2>6, <2>7
  <2>9. EventOK(d)'
    BY <2>1, <2>8, EventStaysOK
  <2>10. \A n \in DOMAIN egress' : EventOK(egress[n])'
    BY <2>1, <2>8, <2>9, EventAppended
  <2>11. MatchOK'
    BY <2>1, <2>3 DEF MatchOK, AyaRows, RowsOf
  <2> QED
    BY <2>1, <2>10, <2>11 DEF JoinInv
<1>7. CASE SkipHttp
  <2>1. phase = "emit" /\ phase' = "emit" /\ UNCHANGED <<network, run, i, match, egress, usedAya>>
    BY <1>7 DEF SkipHttp
  <2>2. MatchOK'
    BY <2>1 DEF JoinInv, MatchOK, AyaRows, RowsOf
  <2> QED
    BY <2>1, <2>2, EventsStayOK DEF JoinInv
<1>8. CASE EndRequests
  <2>1. phase = "emit" /\ phase' = "join" /\ UNCHANGED <<network, run, egress, usedAya>>
    BY <1>8 DEF EndRequests
  <2> QED
    BY <2>1, EventsStayOK DEF JoinInv
<1>9. CASE EndJoin
  <2>1. phase = "join" /\ phase' = "ayaOnly" /\ UNCHANGED <<network, run, egress, usedAya>>
    BY <1>9 DEF EndJoin
  <2> QED
    BY <2>1, EventsStayOK DEF JoinInv
<1>10. CASE ReportUnused
  <2>1. /\ phase = "ayaOnly" /\ phase' = "ayaOnly" /\ i \in AyaRows /\ network[i] \notin usedAya
        /\ egress' = Append(egress, fromAyaOnly(network[i]))
        /\ UNCHANGED <<network, run, usedAya>>
    BY <1>10 DEF ReportUnused
  <2>2. EventOK(fromAyaOnly(network[i])) /\ fromAyaOnly(network[i]) \in EgressEvent
    BY <2>1, AloneOK, AloneFields, ConnectRow
  <2>3. PICK d : d = fromAyaOnly(network[i])
    OBVIOUS
  <2>4. EventOK(d) /\ d \in EgressEvent /\ egress' = Append(egress, d)
    BY <2>1, <2>2, <2>3
  <2>5. EventOK(d)'
    BY <2>1, <2>4, EventStaysOK
  <2>6. \A n \in DOMAIN egress' : EventOK(egress[n])'
    BY <2>1, <2>4, <2>5, EventAppended
  <2> QED
    BY <2>1, <2>6 DEF JoinInv
<1>11. CASE SkipUsed
  <2>1. phase = "ayaOnly" /\ phase' = "ayaOnly" /\ UNCHANGED <<network, run, egress, usedAya>>
    BY <1>11 DEF SkipUsed
  <2> QED
    BY <2>1, EventsStayOK DEF JoinInv
<1>12. CASE FinishRun
  BY <1>12 DEF FinishRun, JoinInv
<1>13. CASE UNCHANGED vars
  <2>1. UNCHANGED <<phase, network, run, i, match, egress, usedAya, results>>
    BY <1>13 DEF vars
  <2>2. phase \in InRun => \A n \in DOMAIN egress' : EventOK(egress[n])'
    <3> SUFFICES ASSUME phase \in InRun PROVE \A n \in DOMAIN egress' : EventOK(egress[n])'
      OBVIOUS
    <3> QED
      BY <2>1, EventsStayOK
  <2>3. phase = "emit" => MatchOK'
    BY <2>1 DEF JoinInv, MatchOK, AyaRows, RowsOf
  <2> QED
    BY <2>1, <2>2, <2>3 DEF JoinInv
<1>14. ASSUME Next
       PROVE  \/ phase \in {"network", "http"} /\ phase' \notin InRun /\ results' = results
              \/ Correlate
  BY <1>14 DEF Next, ReadNetwork, EndNetwork, ReadHttp, EndHttp
<1> QED
  BY <1>1, <1>2, <1>3, <1>4, <1>5, <1>6, <1>7, <1>8, <1>9, <1>10, <1>11, <1>12, <1>13,
     <1>14 DEF Correlate

-----------------------------------------------------------------------------
(* The results: FinishRun hands the list over, sorted.                     *)

\* A list of events that is in order as a result of run r.
ResultOK(r, s) ==
    /\ \A n \in DOMAIN s : s[n].joined => HasOrigin(r, s[n])
    /\ \A m, n \in DOMAIN s : s[m].honeynetOnly /\ s[n].networkOnly => ~CanBeOriginOf(s[n], s[m])

ResultsInv == \A r \in DOMAIN results : ResultOK(r, results[r].egress)

(* A list in order is one whose connects alone explain none of its flows.  *)
LEMMA ListIsResult ==
  ASSUME TypeOK, JoinInv, phase = "ayaOnly"
  PROVE  ResultOK(run, egress)
<1>1. \A n \in DOMAIN egress : EventOK(egress[n])
  BY DEF JoinInv, InRun
<1>2. ASSUME NEW m \in DOMAIN egress, NEW n \in DOMAIN egress,
             egress[m].honeynetOnly, egress[n].networkOnly
      PROVE  ~CanBeOriginOf(egress[n], egress[m])
  <2>1. PICK k \in AyaRows : network[k] \notin usedAya /\ egress[n] = fromAyaOnly(network[k])
    BY <1>1, <1>2 DEF EventOK
  <2>2. ~CanBeOriginOf(network[k], egress[m])
    BY <1>1, <1>2, <2>1 DEF EventOK, NoneLeftFor
  <2>3. /\ egress[n].run = network[k].run /\ egress[n].endpoint = network[k].endpoint
        /\ egress[n].proto = network[k].proto /\ egress[n].ts = network[k].ts
    BY <2>1, ConnectRow DEF fromAyaOnly
  <2> QED
    BY <2>2, <2>3 DEF CanBeOriginOf
<1> QED
  BY <1>1, <1>2 DEF ResultOK, EventOK

(* The order of a result is of no matter.                                  *)
LEMMA ResultReordered ==
  ASSUME NEW r, NEW s \in Seq(EgressEvent), NEW p \in StableOrders(s), ResultOK(r, s)
  PROVE  ResultOK(r, Reordered(s, p))
<1>1. /\ DOMAIN Reordered(s, p) = DOMAIN s
      /\ \A k \in DOMAIN s : p[k] \in DOMAIN s /\ Reordered(s, p)[k] = s[p[k]]
  BY ReorderedKeepsRows
<1> QED
  BY <1>1 DEF ResultOK

(* Nor is that of the rows, whose places change with each run.             *)
LEMMA ResultStays ==
  ASSUME TypeOK, NEW p \in StableOrders(network), network' = Reordered(network, p),
         NEW r, NEW s, ResultOK(r, s)
  PROVE  ResultOK(r, s)'
<1>0. /\ DOMAIN Reordered(network, p) = DOMAIN network
      /\ \A k \in DOMAIN network : Reordered(network, p)[k] = network[p[k]]
      /\ \A k \in DOMAIN network : \E l \in DOMAIN network : p[l] = k
  <2>1. network \in Seq(NetworkRow)
    BY DEF TypeOK
  <2> QED
    BY <2>1, ReorderedKeepsRows
<1>1. ASSUME NEW e, HasOrigin(r, e) PROVE HasOrigin(r, e)'
  <2>1. PICK k \in ConnectsOf(r) : network[k].pid = e.pid /\ CanBeOriginOf(network[k], e)
    BY <1>1 DEF HasOrigin
  <2>2. PICK l \in DOMAIN network : p[l] = k /\ network'[l] = network[k] /\ l \in DOMAIN network'
    <3>1. k \in DOMAIN network
      BY DEF ConnectsOf
    <3> QED
      BY <1>0, <3>1
  <2>3. l \in ConnectsOf(r)'
    BY <2>2 DEF ConnectsOf
  <2>4. network'[l].pid = e.pid /\ CanBeOriginOf(network'[l], e)
    BY <2>1, <2>2
  <2> QED
    BY <2>3, <2>4 DEF HasOrigin, CanBeOriginOf
<1> QED
  BY <1>1 DEF ResultOK

LEMMA ResultsStep == TypeOK /\ JoinInv /\ ResultsInv /\ [Next]_vars => ResultsInv'
<1> SUFFICES ASSUME TypeOK, JoinInv, ResultsInv, [Next]_vars PROVE ResultsInv'
  OBVIOUS
<1>1. CASE phase \in {"network", "http"} /\ results' = results
  BY <1>1 DEF JoinInv, ResultsInv
<1>2. ASSUME NEW q \in RunIds, StartRun(q) PROVE ResultsInv'
  <2>1. PICK p \in StableOrders(network) : network' = Reordered(network, p)
    BY <1>2 DEF StartRun
  <2>2. results' = results
    BY <1>2 DEF StartRun
  <2>3. ASSUME NEW r \in DOMAIN results PROVE ResultOK(r, results[r].egress)'
    <3>1. PICK s : s = results[r].egress /\ s = results'[r].egress
      BY <2>2
    <3>2. ResultOK(r, s)'
      BY <2>1, <3>1, ResultStays DEF ResultsInv
    <3> QED
      BY <3>1, <3>2
  <2> QED
    BY <2>2, <2>3 DEF ResultsInv
<1>3. CASE FinishRun
  <2>1. PICK p \in StableOrders(egress) :
          results' = [r \in DOMAIN results \cup {run} |->
            IF r = run THEN [egress |-> Reordered(egress, p),
                             matched |-> matchedCanaries(Reordered(egress, p))]
                       ELSE results[r]]
    BY <1>3 DEF FinishRun
  <2>2. ResultOK(run, Reordered(egress, p))
    BY <1>3, ListIsResult, ResultReordered DEF FinishRun, TypeOK
  <2>3. \A r, s : ResultOK(r, s)' <=> ResultOK(r, s)
    BY <1>3 DEF FinishRun, ResultOK, HasOrigin, ConnectsOf
  <2>4. ASSUME NEW r \in DOMAIN results' PROVE ResultOK(r, results'[r].egress)
    <3>1. CASE r = run
      BY <2>1, <2>2, <3>1
    <3>2. CASE r # run
      <4>1. r \in DOMAIN results /\ results'[r] = results[r]
        BY <2>1, <3>2
      <4> QED
        BY <4>1 DEF ResultsInv
    <3> QED
      BY <3>1, <3>2
  <2>5. ASSUME NEW r \in DOMAIN results' PROVE ResultOK(r, results[r].egress)'
    <3>1. PICK s : s = results'[r].egress
      OBVIOUS
    <3> QED
      BY <2>3, <2>4, <3>1
  <2> QED
    BY <2>5 DEF ResultsInv
<1>4. CASE UNCHANGED <<network, results>>
  <2>1. \A r, s : ResultOK(r, s)' <=> ResultOK(r, s)
    BY <1>4 DEF ResultOK, HasOrigin, ConnectsOf
  <2>2. ASSUME NEW r \in DOMAIN results PROVE ResultOK(r, results[r].egress)'
    <3>1. PICK s : s = results[r].egress /\ s = results'[r].egress
      BY <1>4
    <3> QED
      BY <2>1, <3>1 DEF ResultsInv
  <2> QED
    BY <1>4, <2>2 DEF ResultsInv
<1>5. CASE UNCHANGED vars
  BY <1>4, <1>5 DEF vars
<1>6. ASSUME Next
      PROVE  \/ phase \in {"network", "http"} /\ results' = results
             \/ \E q \in RunIds : StartRun(q)
             \/ FinishRun
             \/ UNCHANGED <<network, results>>
  BY <1>6 DEF Next, Correlate, ReadNetwork, EndNetwork, ReadHttp, EndHttp, SkipRow, JoinFlow,
     JoinRequests, EmitRequest, SkipHttp, EndRequests, EndJoin, ReportUnused, SkipUsed
<1> QED
  BY <1>1, <1>2, <1>3, <1>4, <1>5, <1>6

LEMMA Inductive == Spec => [](TypeOK /\ JoinInv /\ ResultsInv)
<1>1. Init => TypeOK /\ JoinInv /\ ResultsInv
  BY InitTyped DEF Init, JoinInv, ResultsInv, InRun
<1>2. TypeOK /\ JoinInv /\ ResultsInv /\ [Next]_vars => (TypeOK /\ JoinInv /\ ResultsInv)'
  BY NextTyped, JoinStep, ResultsStep
<1> QED
  BY <1>1, <1>2, PTL DEF Spec

(* The pid of a joined event is that of a connect of the same run, to the  *)
(* same endpoint and no more than the join window older than the flow, for *)
(* any logs: a join crosses neither runs nor endpoints nor the window.     *)
THEOREM PidsComeFromOrigins == Spec => []JoinedPidConnected
<1>1. ResultsInv => JoinedPidConnected
  BY DEF ResultsInv, ResultOK, JoinedPidConnected, HasOrigin, Events
<1> QED
  BY <1>1, Inductive, PTL

(* The greedy join: whatever the order of the rows, no run ends with a     *)
(* flow without a pid beside an unused connect that can be its origin.     *)
THEOREM GreedyMissesNothing == Spec => []NoMissedJoin
<1>1. ResultsInv => NoMissedJoin
  BY DEF ResultsInv, ResultOK, NoMissedJoin, Events
<1> QED
  BY <1>1, Inductive, PTL

-----------------------------------------------------------------------------
(* Counting.                                                               *)

\* The positions of s that hold a member of T.
Where(s, T) == {k \in DOMAIN s : s[k] \in T}

(* Positions of a list can be counted.                                     *)
LEMMA WhereFinite ==
  ASSUME NEW S, NEW T, NEW s \in Seq(S)
  PROVE  /\ IsFiniteSet(DOMAIN s) /\ IsFiniteSet(Where(s, T))
         /\ Cardinality(Where(s, T)) \in Nat
<1>1. DOMAIN s = 1..Len(s) /\ Len(s) \in Nat
  OBVIOUS
<1>2. IsFiniteSet(DOMAIN s)
  BY <1>1, FS_Interval
<1>3. Where(s, T) \in SUBSET DOMAIN s
  BY DEF Where
<1> QED
  BY <1>2, <1>3, FS_Subset, FS_CardinalityType

(* Appending adds the new position exactly when the element is a member.   *)
LEMMA CountAppend ==
  ASSUME NEW S, NEW T, NEW s \in Seq(S), NEW x \in S
  PROVE  Cardinality(Where(Append(s, x), T))
           = Cardinality(Where(s, T)) + (IF x \in T THEN 1 ELSE 0)
<1>1. /\ Len(s) \in Nat /\ DOMAIN s = 1..Len(s)
      /\ DOMAIN Append(s, x) = 1..(Len(s) + 1) /\ Append(s, x)[Len(s) + 1] = x
      /\ \A k \in 1..Len(s) : Append(s, x)[k] = s[k]
  BY AppendProperties
<1>2. IsFiniteSet(Where(s, T)) /\ Len(s) + 1 \notin Where(s, T) /\ Cardinality(Where(s, T)) \in Nat
  <2>1. IsFiniteSet(Where(s, T)) /\ Cardinality(Where(s, T)) \in Nat
    BY WhereFinite
  <2> QED
    BY <1>1, <2>1 DEF Where
<1>3. CASE x \in T
  <2>1. Where(Append(s, x), T) = Where(s, T) \cup {Len(s) + 1}
    BY <1>1, <1>3 DEF Where
  <2> QED
    BY <1>2, <1>3, <2>1, FS_AddElement
<1>4. CASE x \notin T
  <2>1. Where(Append(s, x), T) = Where(s, T)
    BY <1>1, <1>4 DEF Where
  <2> QED
    BY <1>2, <1>4, <2>1
<1> QED
  BY <1>3, <1>4

(* Sorting moves the positions and keeps their number.                     *)
LEMMA CountReordered ==
  ASSUME NEW S, NEW T, NEW s \in Seq(S), NEW p \in StableOrders(s)
  PROVE  Cardinality(Where(Reordered(s, p), T)) = Cardinality(Where(s, T))
<1> DEFINE A == Where(Reordered(s, p), T)
           B == Where(s, T)
           move == [k \in A |-> p[k]]
<1>1. /\ Reordered(s, p) \in Seq(S) /\ DOMAIN Reordered(s, p) = DOMAIN s
      /\ \A k \in DOMAIN s : p[k] \in DOMAIN s /\ Reordered(s, p)[k] = s[p[k]]
      /\ \A k \in DOMAIN s : \E l \in DOMAIN s : p[l] = k
      /\ p \in Bijection(DOMAIN s, DOMAIN s)
  BY ReorderedKeepsRows
<1>2. \A k, l \in DOMAIN s : p[k] = p[l] => k = l
  BY <1>1 DEF Bijection, Injection, IsInjective
<1>3. IsFiniteSet(A)
  BY <1>1, WhereFinite
<1>4. move \in [A -> B]
  BY <1>1 DEF Where
<1>5. \A k, l \in A : move[k] = move[l] => k = l
  BY <1>1, <1>2 DEF Where
<1>6. \A b \in B : \E k \in A : move[k] = b
  BY <1>1 DEF Where
<1> HIDE DEF A, B, move
<1>7. move \in Bijection(A, B)
  BY <1>4, <1>5, <1>6 DEF Bijection, Injection, Surjection, IsInjective
<1>8. ExistsBijection(A, B)
  BY <1>7 DEF ExistsBijection
<1> QED
  BY <1>3, <1>8, FS_Bijection DEF A, B

-----------------------------------------------------------------------------
(* The honeynet's rows of all runs have different flows.                   *)
FlowsDistinct ==
    \A k, l \in DOMAIN network :
        /\ network[k].source = "honeynet" /\ network[l].source = "honeynet"
        /\ network[k].flow = network[l].flow
        => k = l

LEMMA FlowsStep == TypeOK /\ FlowsDistinct /\ [Next]_vars => FlowsDistinct'
<1> SUFFICES ASSUME TypeOK, FlowsDistinct, [Next]_vars PROVE FlowsDistinct'
  OBVIOUS
<1>1. ASSUME NEW row \in NetworkRow, ReadNetwork(row) PROVE FlowsDistinct'
  <2>1. network' = Append(network, row) /\ FreshFlow(row)
    BY <1>1 DEF ReadNetwork
  <2>2. /\ Len(network) \in Nat /\ DOMAIN network = 1..Len(network)
        /\ DOMAIN network' = 1..(Len(network) + 1) /\ network'[Len(network) + 1] = row
        /\ \A k \in 1..Len(network) : network'[k] = network[k]
    BY <2>1, AppendProperties DEF TypeOK
  <2> QED
    BY <2>1, <2>2 DEF FlowsDistinct, FreshFlow
<1>2. ASSUME NEW r \in RunIds, StartRun(r) PROVE FlowsDistinct'
  <2>1. PICK p \in StableOrders(network) : network' = Reordered(network, p)
    BY <1>2 DEF StartRun
  <2>2. network \in Seq(NetworkRow)
    BY DEF TypeOK
  <2>3. /\ DOMAIN Reordered(network, p) = DOMAIN network
        /\ \A k \in DOMAIN network : p[k] \in DOMAIN network /\ Reordered(network, p)[k] = network[p[k]]
        /\ p \in Bijection(DOMAIN network, DOMAIN network)
    BY <2>2, ReorderedKeepsRows
  <2>4. \A k, l \in DOMAIN network : p[k] = p[l] => k = l
    BY <2>3 DEF Bijection, Injection, IsInjective
  <2> QED
    BY <2>1, <2>3, <2>4 DEF FlowsDistinct
<1>3. CASE network' = network
  BY <1>3 DEF FlowsDistinct
<1>4. ASSUME Next
      PROVE  \/ \E row \in NetworkRow : ReadNetwork(row)
             \/ \E r \in RunIds : StartRun(r)
             \/ network' = network
  BY <1>4 DEF Next, Correlate, EndNetwork, ReadHttp, EndHttp, SkipRow, JoinFlow,
     JoinRequests, EmitRequest, SkipHttp, EndRequests, EndJoin, ReportUnused, SkipUsed, FinishRun
<1> QED
  BY <1>1, <1>2, <1>3, <1>4 DEF vars

-----------------------------------------------------------------------------
(* The inductive invariant behind ConnectsReportedOnce.                    *)

\* The first loop has come to the flow of row k.
Visited(k) == phase = "ayaOnly" \/ k < i \/ (phase = "emit" /\ k = i)

\* a is the match of the flow whose requests are being gone through, and none has been met yet.
Pending(a) == phase = "emit" /\ a \in match /\ \A q \in httpByFlow(network[i].flow) : q >= j

\* The event of the flow that used connect a.
IsUse(e, a, flow) ==
    /\ ~e.networkOnly /\ e.flow = flow /\ e.pid = a.pid /\ e.endpoint = a.endpoint

\* g gives each used connect the one flow it was joined with.
Uses(g) ==
    /\ g \in [usedAya -> Flows] /\ \A a, b \in usedAya : g[a] = g[b] => a = b
    /\ \A a \in usedAya : \E k \in HoneynetRows : g[a] = network[k].flow /\ Visited(k)
    /\ \A n \in DOMAIN egress : ~egress[n].networkOnly /\ egress[n].pid \in Pids
         => \E a \in usedAya : IsUse(egress[n], a, g[a])
    /\ \A a \in usedAya : Pending(a) \/ \E n \in DOMAIN egress : IsUse(egress[n], a, g[a])
    /\ phase = "emit" => \A a \in match : a \in usedAya /\ g[a] = network[i].flow

\* Connects of a process to an endpoint that the second loop has reported.
UnusedBefore(p, ep) ==
    {k \in AyaRows : /\ k < i /\ network[k] \notin usedAya
                     /\ network[k].pid = p /\ network[k].endpoint = ep}

AloneOf(p, ep) == {e \in EgressEvent : e.networkOnly /\ e.pid = p /\ e.endpoint = ep}

UsedInv ==
    phase \in InRun =>
        /\ \A a \in usedAya : \E k \in AyaRows : a = network[k]
        /\ \E g : Uses(g)
        /\ phase = "emit" => httpByFlow(network[i].flow) # {} /\ \A a, b \in match : a = b

AloneInv ==
    phase = "ayaOnly" => \A p \in Pids, ep \in Endpoints :
        Cardinality(Where(egress, AloneOf(p, ep))) = Cardinality(UnusedBefore(p, ep))

(* A flow the loop comes to has not been given to a connect before.        *)
LEMMA FlowIsFresh ==
  ASSUME TypeOK, FlowsDistinct, phase = "join", i \in HoneynetRows, NEW g, Uses(g)
  PROVE  \A a \in usedAya : g[a] # network[i].flow
<1> SUFFICES ASSUME NEW a \in usedAya, g[a] = network[i].flow PROVE FALSE
  OBVIOUS
<1>1. PICK k \in HoneynetRows : g[a] = network[k].flow /\ Visited(k)
  BY DEF Uses
<1>2. k = i
  BY <1>1 DEF FlowsDistinct, HoneynetRows, RowsOf
<1> QED
  BY <1>1, <1>2 DEF Visited, TypeOK

\* g gives each member of U a flow of its own.
OneEach(g, U) == g \in [U -> Flows] /\ \A a, b \in U : g[a] = g[b] => a = b
NoneHas(g, U, flow) == \A a \in U : g[a] # flow
SameOn(g, h, U) == \A a \in U : h[a] = g[a]

(* A connect that is used is given the flow.                               *)
LEMMA UseExtended ==
  ASSUME NEW U, NEW g, OneEach(g, U), NEW c, c \notin U, NEW flow \in Flows, NoneHas(g, U, flow)
  PROVE  \E h : OneEach(h, U \cup {c}) /\ h[c] = flow /\ SameOn(g, h, U)
<1> DEFINE h == [a \in U \cup {c} |-> IF a = c THEN flow ELSE g[a]]
<1>1. h \in [U \cup {c} -> Flows] /\ h[c] = flow /\ \A a \in U : h[a] = g[a]
  BY DEF OneEach
<1> HIDE DEF h
<1>2. \A a, b \in U \cup {c} : h[a] = h[b] => a = b
  BY <1>1 DEF OneEach, NoneHas
<1> QED
  BY <1>1, <1>2 DEF OneEach, SameOn

(* What the event of a flow says of its connect.                           *)
LEMMA PairUse ==
  ASSUME TypeOK, NEW h \in HoneynetRow, NEW m \in SUBSET AyaRow, NEW canary
  PROVE  LET e == fromNetworkPair(h, m, canary) IN
           /\ e.flow = h.flow /\ e.endpoint = h.endpoint /\ e.networkOnly = FALSE /\ e.canary = canary
           /\ m = {} => e.pid \notin Pids
           /\ \A a \in m : (\A b \in m : a = b) /\ a.endpoint = h.endpoint => IsUse(e, a, h.flow)
<1> DEFINE e == fromNetworkPair(h, m, canary)
<1>1. /\ e.flow = h.flow /\ e.endpoint = h.endpoint /\ e.networkOnly = FALSE /\ e.canary = canary
      /\ e.pid = IF m = {} THEN h.pid ELSE (CHOOSE a \in m : TRUE).pid
  BY DEF fromNetworkPair
<1>2. h.pid \notin Pids
  BY NullsAreNotValues DEF HoneynetRow
<1>3. ASSUME NEW a \in m, \A b \in m : a = b, a.endpoint = h.endpoint PROVE IsUse(e, a, h.flow)
  <2>1. (CHOOSE b \in m : TRUE) = a
    BY <1>3
  <2> HIDE DEF e
  <2> QED
    BY <1>1, <1>3, <2>1 DEF IsUse
<1> HIDE DEF e
<1> QED
  BY <1>1, <1>2, <1>3 DEF e

(* Where a step adds no event and no use, the uses stay as they are.       *)
LEMMA UsesKept ==
  ASSUME NEW g, Uses(g), UNCHANGED <<network, run, egress, usedAya>>,
         \A k \in HoneynetRows : Visited(k) => Visited(k)',
         \A a \in usedAya : Pending(a) => Pending(a)',
         phase' = "emit" => phase = "emit" /\ UNCHANGED <<i, match>>
  PROVE  Uses(g)'
<1>1. HoneynetRows' = HoneynetRows
  BY DEF HoneynetRows, RowsOf
<1> QED
  BY <1>1 DEF Uses, IsUse

(* A new event of a flow is the use of its match, or of none.              *)
LEMMA UsesAppended ==
  ASSUME TypeOK, NEW g, Uses(g), phase \in InRun, NEW d \in EgressEvent, egress' = Append(egress, d),
         UNCHANGED <<network, run, usedAya>>,
         ~d.networkOnly /\ d.pid \in Pids => \E a \in usedAya : IsUse(d, a, g[a]),
         \A k \in HoneynetRows : Visited(k) => Visited(k)',
         \A a \in usedAya : Pending(a) => Pending(a)' \/ IsUse(d, a, g[a]),
         phase' = "emit" => phase = "emit" /\ UNCHANGED <<i, match>>
  PROVE  Uses(g)'
<1>1. HoneynetRows' = HoneynetRows
  BY DEF HoneynetRows, RowsOf
<1>2. /\ Len(egress) \in Nat /\ DOMAIN egress = 1..Len(egress)
      /\ DOMAIN egress' = 1..(Len(egress) + 1) /\ egress'[Len(egress) + 1] = d
      /\ \A k \in 1..Len(egress) : egress'[k] = egress[k]
  BY AppendProperties DEF TypeOK
<1>3. \A n \in DOMAIN egress' : ~egress'[n].networkOnly /\ egress'[n].pid \in Pids
        => \E a \in usedAya : IsUse(egress'[n], a, g[a])
  BY <1>2 DEF Uses
<1>4. \A a \in usedAya : Pending(a)' \/ \E n \in DOMAIN egress' : IsUse(egress'[n], a, g[a])
  <2> TAKE a \in usedAya
  <2>1. CASE Pending(a)
    BY <1>2, <2>1
  <2>2. CASE ~Pending(a)
    <3>1. PICK n \in DOMAIN egress : IsUse(egress[n], a, g[a])
      BY <2>2 DEF Uses
    <3>2. n \in DOMAIN egress' /\ egress'[n] = egress[n]
      BY <1>2
    <3> QED
      BY <3>1, <3>2
  <2> QED
    BY <2>1, <2>2
<1>5. \A a \in usedAya : \E k \in HoneynetRows : g[a] = network[k].flow /\ Visited(k)'
  BY DEF Uses
<1>6. phase' = "emit" => \A a \in match' : a \in usedAya /\ g[a] = network[i'].flow
  BY DEF Uses
<1> QED
  BY <1>1, <1>3, <1>4, <1>5, <1>6 DEF Uses, IsUse

\* h gives the uses of before and those in m the flows they have when m is used.
NextUses(h, m) ==
    /\ h \in [usedAya \cup m -> Flows]
    /\ \A a, b \in usedAya \cup m : h[a] = h[b] => a = b
    /\ \A a \in m : h[a] = network[i].flow
    /\ \A a \in usedAya : \E k \in HoneynetRows : h[a] = network[k].flow /\ Visited(k)
    /\ \A n \in DOMAIN egress : ~egress[n].networkOnly /\ egress[n].pid \in Pids
         => \E a \in usedAya : IsUse(egress[n], a, h[a])
    /\ \A a \in usedAya : \E n \in DOMAIN egress : IsUse(egress[n], a, h[a])

(* A match that is used for the first time is given the flow at hand.      *)
LEMMA UseAdded ==
  ASSUME TypeOK, FlowsDistinct, UsedInv, phase = "join", i \in HoneynetRows,
         NEW m, m = bestAyaMatch(network[i])
  PROVE  \E h : NextUses(h, m)
<1>1. PICK g : Uses(g)
  BY DEF UsedInv, InRun
<1>2. \A a \in usedAya : ~Pending(a)
  BY DEF Pending
<1>3. CASE m = {}
  <2>1. usedAya \cup m = usedAya
    BY <1>3
  <2>2. g \in [usedAya \cup m -> Flows] /\ \A a, b \in usedAya \cup m : g[a] = g[b] => a = b
    BY <1>1, <2>1 DEF Uses
  <2> QED
    BY <1>1, <1>2, <1>3, <2>2 DEF Uses, NextUses
<1>4. CASE m # {}
  <2>1. PICK c \in m : m = {c} /\ c \notin usedAya
    BY <1>4, MatchIsCandidate
  <2>2. network[i].flow \in Flows
    <3>1. network[i] \in HoneynetRow
      BY FlowRow
    <3> QED
      BY <3>1 DEF HoneynetRow
  <2>3. OneEach(g, usedAya)
    BY <1>1 DEF Uses, OneEach
  <2>4. NoneHas(g, usedAya, network[i].flow)
    BY <1>1, FlowIsFresh DEF NoneHas
  <2>5. PICK h : OneEach(h, usedAya \cup {c}) /\ h[c] = network[i].flow /\ SameOn(g, h, usedAya)
    BY <2>1, <2>2, <2>3, <2>4, UseExtended
  <2>6. h \in [usedAya \cup m -> Flows] /\ \A a, b \in usedAya \cup m : h[a] = h[b] => a = b
    BY <2>1, <2>5 DEF OneEach
  <2>7. /\ \A a \in usedAya : \E k \in HoneynetRows : h[a] = network[k].flow /\ Visited(k)
        /\ \A n \in DOMAIN egress : ~egress[n].networkOnly /\ egress[n].pid \in Pids
             => \E a \in usedAya : IsUse(egress[n], a, h[a])
        /\ \A a \in usedAya : \E n \in DOMAIN egress : IsUse(egress[n], a, h[a])
    BY <1>1, <1>2, <2>5 DEF Uses, SameOn
  <2> QED
    BY <2>1, <2>5, <2>6, <2>7 DEF NextUses
<1> QED
  BY <1>3, <1>4

(* Both loops keep, for each used connect, one flow that used it.          *)
LEMMA UsedStep ==
  TypeOK /\ FlowsDistinct /\ JoinInv /\ UsedInv /\ [Next]_vars => UsedInv'
<1> SUFFICES ASSUME TypeOK, FlowsDistinct, JoinInv, UsedInv, [Next]_vars PROVE UsedInv'
  OBVIOUS
<1>0. ASSUME UNCHANGED <<network, run>>
      PROVE  AyaRows' = AyaRows /\ HoneynetRows' = HoneynetRows
  BY <1>0 DEF AyaRows, HoneynetRows, RowsOf
<1>1. CASE phase' \notin InRun
  BY <1>1 DEF UsedInv
<1>2. ASSUME NEW r \in RunIds, StartRun(r) PROVE UsedInv'
  <2>1. phase' = "join" /\ usedAya' = {} /\ egress' = <<>>
    BY <1>2 DEF StartRun
  <2>2. DOMAIN egress' = {}
    BY <2>1
  <2> DEFINE g == [a \in {} |-> NoFlow]
  <2>3. g \in [{} -> Flows]
    OBVIOUS
  <2>4. PICK g0 : g0 = g
    OBVIOUS
  <2>5. g0 \in [usedAya' -> Flows]
    BY <2>1, <2>3, <2>4
  <2> HIDE DEF g
  <2>6. Uses(g0)'
    BY <2>1, <2>2, <2>5 DEF Uses
  <2> QED
    BY <2>1, <2>6 DEF UsedInv
<1>3. ASSUME phase \in InRun, UNCHANGED <<network, run, egress, usedAya>>,
             \A k \in HoneynetRows : Visited(k) => Visited(k)',
             \A a \in usedAya : Pending(a) => Pending(a)',
             phase' = "emit" => phase = "emit" /\ UNCHANGED <<i, match, http>>
      PROVE  UsedInv'
  <2>1. PICK g : Uses(g)
    BY <1>3 DEF UsedInv
  <2>2. Uses(g)'
    BY <1>3, <2>1, UsesKept
  <2>3. phase' = "emit" => httpByFlow(network[i].flow)' = httpByFlow(network[i].flow)
    BY <1>3 DEF httpByFlow
  <2> QED
    BY <1>0, <1>3, <2>2, <2>3 DEF UsedInv
<1>4. CASE SkipRow
  <2>1. /\ phase = "join" /\ phase' = "join" /\ i' = i + 1 /\ UNCHANGED <<network, run, egress, usedAya>>
    BY <1>4 DEF SkipRow
  <2>2. \A k \in HoneynetRows : Visited(k) => Visited(k)'
    BY <2>1 DEF Visited, HoneynetRows, RowsOf, TypeOK
  <2> QED
    BY <1>3, <2>1, <2>2 DEF Pending, InRun
<1>5. CASE JoinFlow
  <2> DEFINE event == fromNetworkPair(network[i], bestAyaMatch(network[i]), {})
  <2>1. /\ i \in HoneynetRows /\ usedAya' = usedAya \cup bestAyaMatch(network[i])
        /\ egress' = Append(egress, event) /\ i' = i + 1
        /\ phase = "join" /\ phase' = "join" /\ UNCHANGED <<network, run>>
    BY <1>5 DEF JoinFlow
  <2>2. PICK m, d : m = bestAyaMatch(network[i]) /\ d = event
    OBVIOUS
  <2>3. network[i] \in HoneynetRow /\ i \in DOMAIN network
    BY <2>1, FlowRow
  <2>4. m \in SUBSET AyaRow
    BY <2>2, MatchFields
  <2>5. d \in EgressEvent
    BY <2>2, <2>3, <2>4, PairFields
  <2>6. \A a \in m : /\ (\A b \in m : a = b) /\ a.endpoint = network[i].endpoint
                     /\ \E k \in AyaRows : a = network[k]
    BY <2>2, MatchIsCandidate DEF Compatible, sameDestination
  <2>7. /\ ~d.networkOnly /\ d.flow = network[i].flow
        /\ m = {} => d.pid \notin Pids
        /\ \A a \in m : IsUse(d, a, network[i].flow)
    <3>1. d = fromNetworkPair(network[i], m, {})
      BY <2>2
    <3>2. d.networkOnly = FALSE /\ d.flow = network[i].flow
      BY <3>1 DEF fromNetworkPair
    <3>4. m = {} => d.pid \notin Pids
      BY <2>3, <2>4, <3>1, PairUse
    <3>3. \A a \in m : (\A b \in m : a = b) /\ a.endpoint = network[i].endpoint
                       => IsUse(d, a, network[i].flow)
      BY <2>3, <2>4, <3>1, PairUse
    <3> QED
      BY <2>6, <3>2, <3>3, <3>4
  <2> HIDE DEF event
  <2>80. PICK h : NextUses(h, m)
    BY <2>1, <2>2, UseAdded
  <2>8. /\ h \in [usedAya \cup m -> Flows]
        /\ \A a, b \in usedAya \cup m : h[a] = h[b] => a = b
        /\ \A a \in m : h[a] = network[i].flow
        /\ \A a \in usedAya : \E k \in HoneynetRows : h[a] = network[k].flow /\ Visited(k)
        /\ \A n \in DOMAIN egress : ~egress[n].networkOnly /\ egress[n].pid \in Pids
             => \E a \in usedAya : IsUse(egress[n], a, h[a])
        /\ \A a \in usedAya : \E n \in DOMAIN egress : IsUse(egress[n], a, h[a])
    BY <2>80 DEF NextUses
  <2>9. /\ Len(egress) \in Nat /\ DOMAIN egress = 1..Len(egress)
        /\ DOMAIN egress' = 1..(Len(egress) + 1) /\ egress'[Len(egress) + 1] = d
        /\ \A k \in 1..Len(egress) : egress'[k] = egress[k]
    BY <2>1, <2>2, <2>5, AppendProperties DEF TypeOK
  <2>10. usedAya' = usedAya \cup m
    BY <2>1, <2>2
  <2>11. \A k \in HoneynetRows : Visited(k) \/ k = i => Visited(k)'
    BY <2>1, <2>3 DEF Visited, HoneynetRows, RowsOf, TypeOK
  <2>12. \A a \in usedAya' : \E k \in HoneynetRows : h[a] = network[k].flow /\ Visited(k)'
    BY <2>1, <2>8, <2>10, <2>11
  <2>13. \A n \in DOMAIN egress' : ~egress'[n].networkOnly /\ egress'[n].pid \in Pids
           => \E a \in usedAya' : IsUse(egress'[n], a, h[a])
    <3> TAKE n \in DOMAIN egress'
    <3>1. CASE n \in DOMAIN egress
      <4>1. egress'[n] = egress[n]
        BY <2>9, <3>1
      <4> QED
        BY <2>8, <2>10, <3>1, <4>1
    <3>2. CASE n \notin DOMAIN egress
      <4>1. egress'[n] = d
        BY <2>9, <3>2
      <4>2. \A a \in m : IsUse(d, a, h[a])
        BY <2>7, <2>8
      <4> QED
        BY <2>7, <2>10, <4>1, <4>2
    <3> QED
      BY <3>1, <3>2
  <2>14. \A a \in usedAya' : \E n \in DOMAIN egress' : IsUse(egress'[n], a, h[a])
    <3> TAKE a \in usedAya'
    <3>1. CASE a \in m
      <4>1. IsUse(d, a, h[a])
        BY <2>7, <2>8, <3>1
      <4> QED
        BY <2>9, <4>1
    <3>2. CASE a \notin m
      <4>1. PICK n \in DOMAIN egress : IsUse(egress[n], a, h[a])
        BY <2>8, <2>10, <3>2
      <4>2. n \in DOMAIN egress' /\ egress'[n] = egress[n]
        BY <2>9
      <4> QED
        BY <4>1, <4>2
    <3> QED
      BY <3>1, <3>2
  <2>15. Uses(h)'
    BY <1>0, <2>1, <2>8, <2>10, <2>12, <2>13, <2>14 DEF Uses
  <2>16. \A a \in usedAya' : \E k \in AyaRows : a = network[k]
    BY <2>1, <2>6, <2>10 DEF UsedInv, InRun
  <2> QED
    BY <1>0, <2>1, <2>15, <2>16 DEF UsedInv
<1>6. CASE JoinRequests
  <2>1. /\ phase = "join" /\ phase' = "emit" /\ i \in HoneynetRows
        /\ match' = bestAyaMatch(network[i]) /\ usedAya' = usedAya \cup match'
        /\ httpByFlow(network[i].flow) # {} /\ j' = 1
        /\ UNCHANGED <<network, http, run, i, egress>>
    BY <1>6 DEF JoinRequests
  <2>2. PICK m : m = bestAyaMatch(network[i]) /\ m = match' /\ usedAya' = usedAya \cup m
    BY <2>1
  <2>3. \A a \in m : (\A b \in m : a = b) /\ \E k \in AyaRows : a = network[k]
    <3>1. \A a \in bestAyaMatch(network[i]) :
            bestAyaMatch(network[i]) = {a} /\ \E k \in AyaRows : a = network[k]
      BY MatchIsCandidate
    <3> QED
      BY <2>2, <3>1
  <2>40. PICK h : NextUses(h, m)
    BY <2>1, <2>2, UseAdded
  <2>4. /\ h \in [usedAya \cup m -> Flows]
        /\ \A a, b \in usedAya \cup m : h[a] = h[b] => a = b
        /\ \A a \in m : h[a] = network[i].flow
        /\ \A a \in usedAya : \E k \in HoneynetRows : h[a] = network[k].flow /\ Visited(k)
        /\ \A n \in DOMAIN egress : ~egress[n].networkOnly /\ egress[n].pid \in Pids
             => \E a \in usedAya : IsUse(egress[n], a, h[a])
        /\ \A a \in usedAya : \E n \in DOMAIN egress : IsUse(egress[n], a, h[a])
    BY <2>40 DEF NextUses
  <2>5. httpByFlow(network[i].flow)' = httpByFlow(network[i].flow)
    BY <2>1 DEF httpByFlow
  <2>6. \A q \in httpByFlow(network[i].flow) : q >= 1
    BY DEF httpByFlow, TypeOK
  <2>7. \A a \in m : Pending(a)'
    BY <2>1, <2>2, <2>5, <2>6 DEF Pending
  <2>8. \A a \in usedAya' : \E k \in HoneynetRows : h[a] = network[k].flow /\ Visited(k)'
    <3>1. \A k \in HoneynetRows : Visited(k) \/ k = i => Visited(k)'
      BY <2>1 DEF Visited
    <3> QED
      BY <2>1, <2>2, <2>4, <3>1
  <2>9. Uses(h)'
    BY <1>0, <2>1, <2>2, <2>4, <2>7, <2>8 DEF Uses
  <2>10. \A a \in usedAya' : \E k \in AyaRows : a = network[k]
    BY <2>1, <2>2, <2>3 DEF UsedInv, InRun
  <2>11. \A a, b \in match' : a = b
    BY <2>2, <2>3
  <2> QED
    BY <1>0, <2>1, <2>5, <2>9, <2>10, <2>11 DEF UsedInv
<1>7. CASE EmitRequest
  <2> DEFINE event == fromNetworkPair(network[i], match, http[j].canary)
  <2>1. /\ phase = "emit" /\ phase' = "emit" /\ j \in httpByFlow(network[i].flow)
        /\ egress' = Append(egress, event) /\ j' = j + 1
        /\ UNCHANGED <<network, http, run, i, match, usedAya>>
    BY <1>7 DEF EmitRequest
  <2>2. network[i] \in HoneynetRow /\ match \in SUBSET AyaRow
    BY <2>1, FlowRow DEF TypeOK
  <2>3. http[j] \in HttpRow
    BY <2>1 DEF httpByFlow, TypeOK
  <2>4. http[j].canary \in SUBSET CanaryIds
    BY <2>3 DEF HttpRow
  <2>5. \A a \in match : (\A b \in match : a = b) /\ a.endpoint = network[i].endpoint
    BY <2>1 DEF UsedInv, InRun, JoinInv, MatchOK, Compatible, sameDestination
  <2>6. PICK d : d = event
    OBVIOUS
  <2>7. d \in EgressEvent
    BY <2>2, <2>4, <2>6, PairFields
  <2>8. /\ match = {} => d.pid \notin Pids
        /\ \A a \in match : IsUse(d, a, network[i].flow)
    BY <2>2, <2>5, <2>6, PairUse
  <2> HIDE DEF event
  <2>9. PICK g : Uses(g)
    BY <2>1 DEF UsedInv, InRun
  <2>10. \A a \in match : a \in usedAya /\ IsUse(d, a, g[a])
    BY <2>1, <2>8, <2>9 DEF Uses
  <2>11. ~d.networkOnly /\ d.pid \in Pids => \E a \in usedAya : IsUse(d, a, g[a])
    BY <2>8, <2>10
  <2>12. \A k \in HoneynetRows : Visited(k) => Visited(k)'
    BY <2>1 DEF Visited
  <2>13. \A a \in usedAya : Pending(a) => IsUse(d, a, g[a])
    BY <2>10 DEF Pending
  <2>14. Uses(g)'
    BY <2>1, <2>6, <2>7, <2>9, <2>11, <2>12, <2>13, UsesAppended DEF InRun
  <2>15. httpByFlow(network[i].flow)' = httpByFlow(network[i].flow)
    BY <2>1 DEF httpByFlow
  <2> QED
    BY <1>0, <2>1, <2>14, <2>15 DEF UsedInv, InRun
<1>8. CASE SkipHttp
  <2>1. /\ phase = "emit" /\ phase' = "emit" /\ j \notin httpByFlow(network[i].flow) /\ j' = j + 1
        /\ UNCHANGED <<network, run, http, egress, usedAya, i, match>>
    BY <1>8 DEF SkipHttp
  <2>2. httpByFlow(network[i].flow)' = httpByFlow(network[i].flow)
    BY <2>1 DEF httpByFlow
  <2>3. \A q \in httpByFlow(network[i].flow) : q >= j => q >= j + 1
    BY <2>1 DEF httpByFlow, TypeOK
  <2>4. \A a \in usedAya : Pending(a) => Pending(a)'
    BY <2>1, <2>2, <2>3 DEF Pending
  <2>5. \A k \in HoneynetRows : Visited(k) => Visited(k)'
    BY <2>1 DEF Visited
  <2> QED
    BY <1>3, <2>1, <2>4, <2>5 DEF InRun
<1>9. CASE EndRequests
  <2>1. /\ phase = "emit" /\ phase' = "join" /\ j > Len(http) /\ i' = i + 1
        /\ UNCHANGED <<network, run, egress, usedAya>>
    BY <1>9 DEF EndRequests
  <2>2. PICK q : q \in httpByFlow(network[i].flow)
    BY <2>1 DEF UsedInv, InRun
  <2>3. ~(q >= j)
    BY <2>1, <2>2 DEF httpByFlow, TypeOK
  <2>4. \A a \in usedAya : Pending(a) => Pending(a)'
    BY <2>2, <2>3 DEF Pending
  <2>5. \A k \in HoneynetRows : Visited(k) => Visited(k)'
    BY <2>1 DEF Visited, HoneynetRows, RowsOf, TypeOK
  <2> QED
    BY <1>3, <2>1, <2>4, <2>5 DEF InRun
<1>10. CASE EndJoin \/ SkipUsed
  <2>1. /\ phase \in {"join", "ayaOnly"} /\ phase' = "ayaOnly" /\ UNCHANGED <<network, run, egress, usedAya>>
    BY <1>10 DEF EndJoin, SkipUsed
  <2> QED
    BY <1>3, <2>1 DEF InRun, Pending, Visited
<1>11. CASE ReportUnused
  <2>1. /\ phase = "ayaOnly" /\ phase' = "ayaOnly" /\ i \in AyaRows
        /\ egress' = Append(egress, fromAyaOnly(network[i]))
        /\ UNCHANGED <<network, run, usedAya>>
    BY <1>11 DEF ReportUnused
  <2>2. PICK d : d = fromAyaOnly(network[i])
    OBVIOUS
  <2>3. d \in EgressEvent /\ d.networkOnly
    BY <2>1, <2>2, ConnectRow, AloneFields DEF fromAyaOnly
  <2>4. PICK g : Uses(g)
    BY <2>1 DEF UsedInv, InRun
  <2>5. /\ \A k \in HoneynetRows : Visited(k) => Visited(k)'
        /\ \A a \in usedAya : ~Pending(a)
    BY <2>1 DEF Visited, Pending
  <2>6. Uses(g)'
    BY <2>1, <2>2, <2>3, <2>4, <2>5, UsesAppended DEF InRun
  <2> QED
    BY <1>0, <2>1, <2>6 DEF UsedInv, InRun
<1>12. CASE UNCHANGED vars
  <2>1. UNCHANGED <<phase, network, run, http, egress, usedAya, i, j, match>>
    BY <1>12 DEF vars
  <2>2. httpByFlow(network[i].flow)' = httpByFlow(network[i].flow)
    BY <2>1 DEF httpByFlow
  <2>3. \A a \in usedAya : Pending(a) => Pending(a)'
    BY <2>1, <2>2 DEF Pending
  <2>4. \A k \in HoneynetRows : Visited(k) => Visited(k)'
    BY <2>1 DEF Visited
  <2>5. CASE phase \in InRun
    BY <1>3, <2>1, <2>3, <2>4, <2>5
  <2> QED
    BY <1>1, <2>1, <2>5
<1>13. ASSUME Next, phase' \in InRun
       PROVE  (\E r \in RunIds : StartRun(r)) \/ SkipRow \/ JoinFlow \/ JoinRequests \/ EmitRequest
              \/ SkipHttp \/ EndRequests \/ EndJoin \/ ReportUnused \/ SkipUsed
  BY <1>13 DEF Next, Correlate, ReadNetwork, EndNetwork, ReadHttp, EndHttp, FinishRun, InRun
<1> QED
  BY <1>1, <1>2, <1>4, <1>5, <1>6, <1>7, <1>8, <1>9, <1>10, <1>11, <1>12, <1>13

(* The second loop reports the unused connects it passes, and no other.    *)
LEMMA AloneStep ==
  TypeOK /\ JoinInv /\ AloneInv /\ [Next]_vars => AloneInv'
<1> SUFFICES ASSUME TypeOK, JoinInv, AloneInv, [Next]_vars, phase' = "ayaOnly",
                    NEW p \in Pids, NEW ep \in Endpoints
             PROVE  Cardinality(Where(egress', AloneOf(p, ep))) = Cardinality(UnusedBefore(p, ep)')
  BY DEF AloneInv
<1>0. ASSUME UNCHANGED <<network, run>> PROVE AyaRows' = AyaRows
  BY <1>0 DEF AyaRows, RowsOf
<1>1. CASE EndJoin
  <2>1. phase = "join" /\ i' = 1 /\ egress' = egress
    BY <1>1 DEF EndJoin
  <2>2. \A n \in DOMAIN egress : ~egress[n].networkOnly
    BY <2>1 DEF JoinInv, EventOK, InRun
  <2>3. Where(egress', AloneOf(p, ep)) = {}
    BY <2>1, <2>2 DEF Where, AloneOf
  <2>4. UnusedBefore(p, ep)' = {}
    <3>1. \A k \in AyaRows' : k \in Nat /\ k # 0
      BY <1>0, <1>1 DEF EndJoin, AyaRows, RowsOf, TypeOK
    <3> QED
      BY <2>1, <3>1 DEF UnusedBefore
  <2> QED
    BY <2>3, <2>4
<1>2. CASE ReportUnused
  <2>1. /\ phase = "ayaOnly" /\ i \in AyaRows /\ network[i] \notin usedAya /\ i' = i + 1
        /\ egress' = Append(egress, fromAyaOnly(network[i]))
        /\ UNCHANGED <<network, run, usedAya>>
    BY <1>2 DEF ReportUnused
  <2>2. PICK d : d = fromAyaOnly(network[i])
    OBVIOUS
  <2>3. /\ d \in EgressEvent /\ d.networkOnly
        /\ d.pid = network[i].pid /\ d.endpoint = network[i].endpoint
    BY <2>1, <2>2, ConnectRow, AloneFields DEF fromAyaOnly
  <2>4. egress \in Seq(EgressEvent) /\ egress' = Append(egress, d)
    BY <2>1, <2>2 DEF TypeOK
  <2>5. Cardinality(Where(egress', AloneOf(p, ep)))
          = Cardinality(Where(egress, AloneOf(p, ep))) + (IF d \in AloneOf(p, ep) THEN 1 ELSE 0)
    BY <2>3, <2>4, CountAppend
  <2>6. Cardinality(Where(egress, AloneOf(p, ep))) = Cardinality(UnusedBefore(p, ep))
    BY <2>1 DEF AloneInv
  <2>7. \A k \in AyaRows : k < i' <=> k < i \/ k = i
    BY <2>1 DEF AyaRows, RowsOf, TypeOK
  <2>8. i \notin UnusedBefore(p, ep) /\ IsFiniteSet(UnusedBefore(p, ep))
    <3>1. network \in Seq(NetworkRow) /\ i \in Nat
      BY DEF TypeOK
    <3>2. UnusedBefore(p, ep) \subseteq 1..Len(network)
      BY <3>1 DEF UnusedBefore, AyaRows, RowsOf
    <3>3. IsFiniteSet(1..Len(network))
      BY <3>1, FS_Interval
    <3>4. IsFiniteSet(UnusedBefore(p, ep))
      BY <3>2, <3>3, FS_Subset
    <3>5. ~(i < i)
      BY <3>1
    <3> QED
      BY <3>4, <3>5 DEF UnusedBefore
  <2>9. CASE d \in AloneOf(p, ep)
    <3>1. UnusedBefore(p, ep)' = UnusedBefore(p, ep) \cup {i}
      BY <1>0, <2>1, <2>3, <2>7, <2>9 DEF UnusedBefore, AloneOf
    <3>2. Cardinality(UnusedBefore(p, ep) \cup {i}) = Cardinality(UnusedBefore(p, ep)) + 1
      BY <2>8, FS_AddElement
    <3> QED
      BY <2>5, <2>6, <2>9, <3>1, <3>2
  <2>10. CASE d \notin AloneOf(p, ep)
    <3>1. UnusedBefore(p, ep)' = UnusedBefore(p, ep)
      BY <1>0, <2>1, <2>3, <2>7, <2>10 DEF UnusedBefore, AloneOf
    <3>2. Cardinality(UnusedBefore(p, ep)) \in Nat
      BY <2>8, FS_CardinalityType
    <3> QED
      BY <2>5, <2>6, <2>10, <3>1, <3>2
  <2> QED
    BY <2>9, <2>10
<1>3. CASE SkipUsed
  <2>1. /\ phase = "ayaOnly" /\ (i \in AyaRows => network[i] \in usedAya) /\ i' = i + 1
        /\ UNCHANGED <<network, run, usedAya, egress>>
    BY <1>3 DEF SkipUsed
  <2>2. \A k \in AyaRows : k < i' <=> k < i \/ k = i
    BY <2>1 DEF AyaRows, RowsOf, TypeOK
  <2>3. UnusedBefore(p, ep)' = UnusedBefore(p, ep)
    BY <1>0, <2>1, <2>2 DEF UnusedBefore
  <2> QED
    BY <2>1, <2>3 DEF AloneInv
<1>4. CASE UNCHANGED vars
  <2>1. UNCHANGED <<phase, network, run, i, usedAya, egress>>
    BY <1>4 DEF vars
  <2>2. UnusedBefore(p, ep)' = UnusedBefore(p, ep)
    BY <1>0, <2>1 DEF UnusedBefore
  <2> QED
    BY <2>1, <2>2 DEF AloneInv
<1>5. ASSUME Next PROVE EndJoin \/ ReportUnused \/ SkipUsed
  BY <1>5 DEF Next, Correlate, ReadNetwork, EndNetwork, ReadHttp, EndHttp, StartRun, SkipRow,
     JoinFlow, JoinRequests, EmitRequest, SkipHttp, EndRequests, FinishRun
<1> QED
  BY <1>1, <1>2, <1>3, <1>4, <1>5

-----------------------------------------------------------------------------
(* What the counts come to when both loops are done.                       *)

JoinedOf(p, ep) == {e \in EgressEvent : ~e.networkOnly /\ e.pid = p /\ e.endpoint = ep}
ConnectRows(r, p, ep) == {a \in AyaRow : a.run = r /\ a.pid = p /\ a.endpoint = ep}

Alone(s, p, ep) == Where(s, AloneOf(p, ep))
JoinedFlows(s, p, ep) == {s[k].flow : k \in Where(s, JoinedOf(p, ep))}
Connects(r, p, ep) == Where(network, ConnectRows(r, p, ep))

\* A list of events counts the connects of run r.
CountsOK(r, s) ==
    \A p \in Pids, ep \in Endpoints :
        LET n == Cardinality(JoinedFlows(s, p, ep)) + Cardinality(Alone(s, p, ep))
        IN  /\ n <= Cardinality(Connects(r, p, ep))
            /\ n >= Cardinality({network[k] : k \in Connects(r, p, ep)})

(* The image of a finite set is no larger, and as large if one to one.     *)
LEMMA ImageSize ==
  ASSUME NEW S, IsFiniteSet(S), NEW f
  PROVE  /\ IsFiniteSet({f[x] : x \in S}) /\ Cardinality({f[x] : x \in S}) \in Nat
         /\ Cardinality({f[x] : x \in S}) <= Cardinality(S)
         /\ (\A x, y \in S : f[x] = f[y] => x = y)
              => Cardinality({f[x] : x \in S}) = Cardinality(S)
<1> DEFINE T == {f[x] : x \in S}
           h == [x \in S |-> f[x]]
<1>1. h \in Surjection(S, T)
  BY DEF Surjection
<1>2. (\A x, y \in S : f[x] = f[y] => x = y) => h \in Injection(S, T)
  BY DEF Injection, IsInjective
<1> HIDE DEF T, h
<1>3. /\ IsFiniteSet(T) /\ Cardinality(T) <= Cardinality(S)
      /\ (\A x, y \in S : f[x] = f[y] => x = y) => Cardinality(T) = Cardinality(S)
  BY <1>1, <1>2, FS_Surjection
<1> QED
  BY <1>3, FS_CardinalityType DEF T

(* Joined flows are as many as used connects, events alone as many as      *)
(* unused rows; only equal rows make a difference.                         *)
LEMMA ListCounts ==
  ASSUME TypeOK, JoinInv, UsedInv, AloneInv, phase = "ayaOnly", i > Len(network)
  PROVE  CountsOK(run, egress)
<1> SUFFICES ASSUME NEW p \in Pids, NEW ep \in Endpoints
             PROVE  LET n == Cardinality(JoinedFlows(egress, p, ep)) + Cardinality(Alone(egress, p, ep))
                    IN  /\ n <= Cardinality(Connects(run, p, ep))
                        /\ n >= Cardinality({network[k] : k \in Connects(run, p, ep)})
  BY DEF CountsOK
<1> DEFINE J == JoinedFlows(egress, p, ep)
           A == Alone(egress, p, ep)
           R == Connects(run, p, ep)
           U == {k \in R : network[k] \notin usedAya}
           V == {k \in R : network[k] \in usedAya}
           W == {network[k] : k \in V}
           D == {network[k] : k \in R}
           DU == {network[k] : k \in U}
<1>1. IsFiniteSet(R) /\ IsFiniteSet(U) /\ IsFiniteSet(V)
  <2>1. IsFiniteSet(R)
    BY WhereFinite DEF Connects, TypeOK
  <2>2. U \in SUBSET R /\ V \in SUBSET R
    OBVIOUS
  <2> QED
    BY <2>1, <2>2, FS_Subset
<1>2. Cardinality(R) = Cardinality(U) + Cardinality(V)
  <2>1. R = U \cup V /\ U \cap V = {}
    OBVIOUS
  <2>2. Cardinality(U \cup V) = Cardinality(U) + Cardinality(V) - Cardinality(U \cap V)
    BY <1>1, FS_Union
  <2>3. Cardinality(U \cap V) = 0
    BY <2>1, FS_EmptySet
  <2>4. Cardinality(U) \in Nat /\ Cardinality(V) \in Nat
    BY <1>1, FS_CardinalityType
  <2> HIDE DEF R, U, V
  <2> QED
    BY <2>1, <2>2, <2>3, <2>4
<1>3. Cardinality(A) = Cardinality(U)
  <2>1. \A k \in AyaRows : k < i
    BY DEF AyaRows, RowsOf, TypeOK
  <2>2. \A k \in DOMAIN network : k \in AyaRows <=> network[k] \in AyaRow /\ network[k].run = run
    <3>1. \A a \in AyaRow : a.source = "aya_connect"
      BY DEF AyaRow
    <3> QED
      BY <3>1, ConnectRow DEF AyaRows, RowsOf
  <2>3. U = UnusedBefore(p, ep)
    BY <2>1, <2>2 DEF Connects, ConnectRows, Where, UnusedBefore, AyaRows, RowsOf
  <2>4. Cardinality(Where(egress, AloneOf(p, ep))) = Cardinality(UnusedBefore(p, ep))
    BY DEF AloneInv
  <2>5. A = Where(egress, AloneOf(p, ep))
    BY DEF Alone
  <2> HIDE DEF U, A
  <2> QED
    BY <2>3, <2>4, <2>5
<1>4. W = {a \in usedAya : a.pid = p /\ a.endpoint = ep}
  <2>1. \A a \in usedAya : \E k \in AyaRows : a = network[k]
    BY DEF UsedInv, InRun
  <2>2. \A k \in AyaRows : k \in DOMAIN network /\ network[k] \in AyaRow /\ network[k].run = run
    BY ConnectRow
  <2> QED
    BY <2>1, <2>2 DEF Connects, ConnectRows, Where
<1>5. IsFiniteSet(W) /\ Cardinality(W) \in Nat /\ Cardinality(W) <= Cardinality(V)
  BY <1>1, ImageSize
<1>6. Cardinality(J) = Cardinality(W)
  <2>1. PICK g : Uses(g)
    BY DEF UsedInv, InRun
  <2>2. \A a \in usedAya : ~Pending(a)
    BY DEF Pending
  <2>3. \A n \in DOMAIN egress : egress[n] \in EgressEvent
    BY DEF TypeOK
  <2>4. J = {g[a] : a \in W}
    <3>1. ASSUME NEW n \in Where(egress, JoinedOf(p, ep)) PROVE \E a \in W : egress[n].flow = g[a]
      <4>1. n \in DOMAIN egress /\ ~egress[n].networkOnly /\ egress[n].pid = p /\ egress[n].endpoint = ep
        BY DEF Where, JoinedOf
      <4>2. PICK a \in usedAya : IsUse(egress[n], a, g[a])
        BY <2>1, <4>1 DEF Uses
      <4> QED
        BY <1>4, <4>1, <4>2 DEF IsUse
    <3>2. ASSUME NEW a \in W PROVE \E n \in Where(egress, JoinedOf(p, ep)) : g[a] = egress[n].flow
      <4>1. a \in usedAya /\ a.pid = p /\ a.endpoint = ep
        BY <1>4
      <4>2. PICK n \in DOMAIN egress : IsUse(egress[n], a, g[a])
        BY <2>1, <2>2, <4>1 DEF Uses
      <4>3. n \in Where(egress, JoinedOf(p, ep))
        BY <2>3, <4>1, <4>2 DEF Where, JoinedOf, IsUse
      <4> QED
        BY <4>2, <4>3 DEF IsUse
    <3> HIDE DEF W
    <3> QED
      BY <3>1, <3>2 DEF JoinedFlows
  <2>5. \A a, b \in W : g[a] = g[b] => a = b
    BY <1>4, <2>1 DEF Uses
  <2> HIDE DEF W, J
  <2> QED
    BY <1>5, <2>4, <2>5, ImageSize
<1>7. Cardinality(D) <= Cardinality(W) + Cardinality(U)
  <2>1. D = W \cup DU
    OBVIOUS
  <2>2. IsFiniteSet(DU) /\ Cardinality(DU) \in Nat /\ Cardinality(DU) <= Cardinality(U)
    BY <1>1, ImageSize
  <2> HIDE DEF W, DU, U, D
  <2>3. /\ Cardinality(W \cup DU) = Cardinality(W) + Cardinality(DU) - Cardinality(W \cap DU)
        /\ IsFiniteSet(W \cap DU)
    BY <1>5, <2>2, FS_Union, FS_Intersection
  <2>4. Cardinality(W \cap DU) \in Nat /\ Cardinality(U) \in Nat
    BY <1>1, <2>3, FS_CardinalityType
  <2> QED
    BY <1>5, <2>1, <2>2, <2>3, <2>4
<1>8. Cardinality(U) \in Nat /\ Cardinality(V) \in Nat
  BY <1>1, FS_CardinalityType
<1>9. /\ Cardinality(J) + Cardinality(A) <= Cardinality(R)
      /\ Cardinality(J) + Cardinality(A) >= Cardinality(D)
  <2> HIDE DEF J, A, R, U, V, W, D
  <2>1. Cardinality(D) <= Cardinality(J) + Cardinality(A)
    BY <1>3, <1>6, <1>7
  <2> QED
    BY <1>2, <1>3, <1>5, <1>6, <1>8, <2>1
<1> QED
  BY <1>9

\* What stands at the positions that are counted, and the flows named there.
ValuesAt(s, T) == {s[k] : k \in Where(s, T)}
FlowsAt(s, T) == {s[k].flow : k \in Where(s, T)}

(* Sorting keeps the values at the positions that are counted.             *)
LEMMA ValuesReordered ==
  ASSUME NEW S, NEW T, NEW s \in Seq(S), NEW p \in StableOrders(s)
  PROVE  /\ ValuesAt(Reordered(s, p), T) = ValuesAt(s, T)
         /\ FlowsAt(Reordered(s, p), T) = FlowsAt(s, T)
<1> DEFINE t == Reordered(s, p)
<1>1. /\ DOMAIN t = DOMAIN s
      /\ \A k \in DOMAIN s : p[k] \in DOMAIN s /\ t[k] = s[p[k]]
      /\ \A k \in DOMAIN s : \E l \in DOMAIN s : p[l] = k
  BY ReorderedKeepsRows
<1> HIDE DEF t
<1>2. \A k \in Where(t, T) : p[k] \in Where(s, T) /\ t[k] = s[p[k]]
  BY <1>1 DEF Where
<1>3. ASSUME NEW k \in Where(s, T) PROVE \E l \in Where(t, T) : t[l] = s[k]
  <2>1. k \in DOMAIN s /\ s[k] \in T
    BY DEF Where
  <2>2. PICK l \in DOMAIN s : p[l] = k
    BY <1>1, <2>1
  <2>3. l \in DOMAIN t /\ t[l] = s[k]
    BY <1>1, <2>2
  <2> QED
    BY <2>1, <2>3 DEF Where
<1>4. ValuesAt(t, T) = ValuesAt(s, T) /\ FlowsAt(t, T) = FlowsAt(s, T)
  BY <1>2, <1>3 DEF ValuesAt, FlowsAt
<1> QED
  BY <1>4 DEF t

(* Sorting the events changes no count,                                    *)
LEMMA CountsReordered ==
  ASSUME NEW r, NEW s \in Seq(EgressEvent), NEW q \in StableOrders(s), CountsOK(r, s)
  PROVE  CountsOK(r, Reordered(s, q))
<1> SUFFICES ASSUME NEW p \in Pids, NEW ep \in Endpoints
             PROVE  /\ JoinedFlows(Reordered(s, q), p, ep) = JoinedFlows(s, p, ep)
                    /\ Cardinality(Alone(Reordered(s, q), p, ep)) = Cardinality(Alone(s, p, ep))
  BY DEF CountsOK
<1>1. JoinedFlows(Reordered(s, q), p, ep) = JoinedFlows(s, p, ep)
  <2>1. FlowsAt(Reordered(s, q), JoinedOf(p, ep)) = FlowsAt(s, JoinedOf(p, ep))
    BY ValuesReordered
  <2> QED
    BY <2>1 DEF JoinedFlows, FlowsAt
<1>2. Cardinality(Alone(Reordered(s, q), p, ep)) = Cardinality(Alone(s, p, ep))
  BY CountReordered DEF Alone
<1> QED
  BY <1>1, <1>2

(* nor does sorting the log again for the next run.                        *)
LEMMA CountsStay ==
  ASSUME TypeOK, NEW q \in StableOrders(network), network' = Reordered(network, q),
         NEW r, NEW s, CountsOK(r, s)
  PROVE  CountsOK(r, s)'
<1>1. network \in Seq(NetworkRow)
  BY DEF TypeOK
<1> SUFFICES ASSUME NEW p \in Pids, NEW ep \in Endpoints
             PROVE  /\ Cardinality(Connects(r, p, ep)') = Cardinality(Connects(r, p, ep))
                    /\ {network'[k] : k \in Connects(r, p, ep)'} = {network[k] : k \in Connects(r, p, ep)}
  BY DEF CountsOK
<1> DEFINE T == ConnectRows(r, p, ep)
<1>2. Cardinality(Where(Reordered(network, q), T)) = Cardinality(Where(network, T))
  BY <1>1, CountReordered
<1>3. ValuesAt(Reordered(network, q), T) = ValuesAt(network, T)
  BY <1>1, ValuesReordered
<1>4. Connects(r, p, ep)' = Where(Reordered(network, q), T) /\ Connects(r, p, ep) = Where(network, T)
  BY DEF Connects
<1> QED
  BY <1>2, <1>3, <1>4 DEF ValuesAt

CountsInv == \A r \in DOMAIN results : CountsOK(r, results[r].egress)

LEMMA CountsStep ==
  TypeOK /\ JoinInv /\ UsedInv /\ AloneInv /\ CountsInv /\ [Next]_vars => CountsInv'
<1> SUFFICES ASSUME TypeOK, JoinInv, UsedInv, AloneInv, CountsInv, [Next]_vars PROVE CountsInv'
  OBVIOUS
<1>1. CASE phase \in {"network", "http"} /\ results' = results
  BY <1>1 DEF JoinInv, CountsInv
<1>2. ASSUME NEW n \in RunIds, StartRun(n) PROVE CountsInv'
  <2>1. PICK q \in StableOrders(network) : network' = Reordered(network, q)
    BY <1>2 DEF StartRun
  <2>2. results' = results
    BY <1>2 DEF StartRun
  <2>3. ASSUME NEW r \in DOMAIN results PROVE CountsOK(r, results[r].egress)'
    <3>1. PICK s : s = results[r].egress /\ s = results'[r].egress
      BY <2>2
    <3>2. CountsOK(r, s)'
      BY <2>1, <3>1, CountsStay DEF CountsInv
    <3> QED
      BY <3>1, <3>2
  <2> QED
    BY <2>2, <2>3 DEF CountsInv
<1>3. CASE FinishRun
  <2>1. PICK q \in StableOrders(egress) :
          results' = [r \in DOMAIN results \cup {run} |->
            IF r = run THEN [egress |-> Reordered(egress, q),
                             matched |-> matchedCanaries(Reordered(egress, q))]
                       ELSE results[r]]
    BY <1>3 DEF FinishRun
  <2>2. CountsOK(run, Reordered(egress, q))
    BY <1>3, ListCounts, CountsReordered DEF FinishRun, TypeOK
  <2>3. \A r, s : CountsOK(r, s)' <=> CountsOK(r, s)
    BY <1>3 DEF FinishRun, CountsOK, Connects
  <2>4. ASSUME NEW r \in DOMAIN results' PROVE CountsOK(r, results'[r].egress)
    <3>1. CASE r = run
      BY <2>1, <2>2, <3>1
    <3>2. CASE r # run
      <4>1. r \in DOMAIN results /\ results'[r] = results[r]
        BY <2>1, <3>2
      <4> QED
        BY <4>1 DEF CountsInv
    <3> QED
      BY <3>1, <3>2
  <2>5. ASSUME NEW r \in DOMAIN results' PROVE CountsOK(r, results[r].egress)'
    <3>1. PICK s : s = results'[r].egress
      OBVIOUS
    <3> QED
      BY <2>3, <2>4, <3>1
  <2> QED
    BY <2>5 DEF CountsInv
<1>4. CASE UNCHANGED <<network, results>>
  <2>1. \A r, s : CountsOK(r, s)' <=> CountsOK(r, s)
    BY <1>4 DEF CountsOK, Connects
  <2>2. ASSUME NEW r \in DOMAIN results PROVE CountsOK(r, results[r].egress)'
    <3>1. PICK s : s = results[r].egress /\ s = results'[r].egress
      BY <1>4
    <3> QED
      BY <2>1, <3>1 DEF CountsInv
  <2> QED
    BY <1>4, <2>2 DEF CountsInv
<1>5. CASE UNCHANGED vars
  BY <1>4, <1>5 DEF vars
<1>6. ASSUME Next
      PROVE  \/ phase \in {"network", "http"} /\ results' = results
             \/ \E n \in RunIds : StartRun(n)
             \/ FinishRun
             \/ UNCHANGED <<network, results>>
  BY <1>6 DEF Next, Correlate, ReadNetwork, EndNetwork, ReadHttp, EndHttp, SkipRow, JoinFlow,
     JoinRequests, EmitRequest, SkipHttp, EndRequests, EndJoin, ReportUnused, SkipUsed
<1> QED
  BY <1>1, <1>2, <1>3, <1>4, <1>5, <1>6

LEMMA CountsInductive == Spec => [](TypeOK /\ FlowsDistinct /\ UsedInv /\ AloneInv /\ CountsInv)
<1>1. Init => FlowsDistinct /\ UsedInv /\ AloneInv /\ CountsInv
  BY DEF Init, FlowsDistinct, UsedInv, AloneInv, CountsInv, InRun
<1>2. /\ TypeOK /\ JoinInv /\ FlowsDistinct /\ UsedInv /\ AloneInv /\ CountsInv /\ [Next]_vars
      => (FlowsDistinct /\ UsedInv /\ AloneInv /\ CountsInv)'
  BY FlowsStep, UsedStep, AloneStep, CountsStep
<1> QED
  BY <1>1, <1>2, Inductive, PTL DEF Spec

(* usedAya over both loops: for any logs, a connect() is the process of    *)
(* one flow or reported alone, never both and never neither; only rows     *)
(* that are equal in every field can hide one another.                     *)
THEOREM ConnectsCountOnce == Spec => []ConnectsReportedOnce
<1>1. TypeOK /\ CountsInv => ConnectsReportedOnce
  <2> SUFFICES ASSUME TypeOK, CountsInv, NEW r \in DOMAIN results, NEW p \in Pids, NEW ep \in Endpoints
               PROVE  LET Reported == {k \in DOMAIN results[r].egress :
                              results[r].egress[k].pid = p /\ results[r].egress[k].endpoint = ep}
                          A == {k \in Reported : results[r].egress[k].networkOnly}
                          J == {results[r].egress[k].flow : k \in Reported \ A}
                          R == {k \in ConnectsOf(r) : network[k].pid = p /\ network[k].endpoint = ep}
                          n == Cardinality(J) + Cardinality(A)
                      IN  n <= Cardinality(R) /\ n >= Cardinality({network[k] : k \in R})
    BY DEF ConnectsReportedOnce
  <2> DEFINE s == results[r].egress
             Reported == {k \in DOMAIN s : s[k].pid = p /\ s[k].endpoint = ep}
             A == {k \in Reported : s[k].networkOnly}
             R == {k \in ConnectsOf(r) : network[k].pid = p /\ network[k].endpoint = ep}
  <2>1. \A k \in DOMAIN s : s[k] \in EgressEvent
    BY DEF TypeOK
  <2>2. A = Alone(s, p, ep)
    BY <2>1 DEF Alone, AloneOf, Where
  <2>3. {s[k].flow : k \in Reported \ A} = JoinedFlows(s, p, ep)
    <3>1. Reported \ A = Where(s, JoinedOf(p, ep))
      BY <2>1 DEF JoinedOf, Where
    <3> QED
      BY <3>1 DEF JoinedFlows
  <2>4. R = Connects(r, p, ep)
    <3>1. \A k \in DOMAIN network : network[k].source = "aya_connect" <=> network[k] \in AyaRow
      <4>1. \A a \in AyaRow : a.source = "aya_connect"
        BY DEF AyaRow
      <4> QED
        BY <4>1, RowFields DEF TypeOK
    <3> QED
      BY <3>1 DEF Connects, ConnectRows, Where, ConnectsOf
  <2>5. CountsOK(r, s)
    BY DEF CountsInv
  <2> QED
    BY <2>2, <2>3, <2>4, <2>5 DEF CountsOK
<1> QED
  BY <1>1, CountsInductive, PTL

-----------------------------------------------------------------------------
(* The inductive invariant behind RequestsOfFlowsReported.                 *)

OfFlow(flow) == {e \in EgressEvent : e.flow = flow}
FlowEvents(flow) == Where(egress, OfFlow(flow))
OneOr(n) == IF n = 0 THEN 1 ELSE n

\* The first loop is done with the flow of row k, or goes through its requests.
Finished(k) == phase = "ayaOnly" \/ k < i
Current(k) == phase = "emit" /\ k = i

\* The flow of row k has the events its requests call for so far.
CountOK(k) ==
    LET flow == network[k].flow
        requests == httpByFlow(flow)
    IN  /\ Finished(k) => Cardinality(FlowEvents(flow)) = OneOr(Cardinality(requests))
        /\ Current(k) => Cardinality(FlowEvents(flow)) = Cardinality({q \in requests : q < j})
        /\ ~Finished(k) /\ ~Current(k) => FlowEvents(flow) = {}

CountInv == phase \in InRun => \A k \in HoneynetRows : CountOK(k)

(* A new event is one more for its flow and none for the others.           *)
LEMMA EventCounted ==
  ASSUME TypeOK, NEW d \in EgressEvent, egress' = Append(egress, d), NEW flow
  PROVE  /\ Cardinality(FlowEvents(flow)') = Cardinality(FlowEvents(flow)) + (IF d.flow = flow THEN 1 ELSE 0)
         /\ d.flow # flow => FlowEvents(flow)' = FlowEvents(flow)
<1>1. egress \in Seq(EgressEvent)
  BY DEF TypeOK
<1>2. Cardinality(Where(Append(egress, d), OfFlow(flow)))
        = Cardinality(Where(egress, OfFlow(flow))) + (IF d \in OfFlow(flow) THEN 1 ELSE 0)
  BY <1>1, CountAppend
<1>3. d \in OfFlow(flow) <=> d.flow = flow
  BY DEF OfFlow
<1>4. /\ Len(egress) \in Nat /\ DOMAIN egress = 1..Len(egress)
      /\ DOMAIN egress' = 1..(Len(egress) + 1) /\ egress'[Len(egress) + 1] = d
      /\ \A n \in 1..Len(egress) : egress'[n] = egress[n]
  BY AppendProperties DEF TypeOK
<1>5. d.flow # flow => FlowEvents(flow)' = FlowEvents(flow)
  <2> SUFFICES ASSUME d.flow # flow PROVE Where(egress', OfFlow(flow)) = Where(egress, OfFlow(flow))
    BY DEF FlowEvents
  <2> QED
    BY <1>3, <1>4 DEF Where
<1> QED
  BY <1>2, <1>3, <1>5 DEF FlowEvents

(* Requests and events of a flow can be counted.                           *)
LEMMA FlowFinite ==
  ASSUME TypeOK, NEW flow
  PROVE  /\ IsFiniteSet(httpByFlow(flow)) /\ Cardinality(httpByFlow(flow)) \in Nat
         /\ httpByFlow(flow) = {} <=> Cardinality(httpByFlow(flow)) = 0
         /\ Cardinality(FlowEvents(flow)) \in Nat
<1>1. http \in Seq(HttpRow) /\ egress \in Seq(EgressEvent)
  BY DEF TypeOK
<1>2. httpByFlow(flow) \subseteq DOMAIN http
  BY DEF httpByFlow
<1>3. IsFiniteSet(DOMAIN http)
  BY <1>1, WhereFinite
<1>4. IsFiniteSet(httpByFlow(flow))
  BY <1>2, <1>3, FS_Subset
<1>5. Cardinality(Where(egress, OfFlow(flow))) \in Nat
  BY <1>1, WhereFinite
<1> QED
  BY <1>4, <1>5, FS_CardinalityType, FS_EmptySet DEF FlowEvents

(* Each flow gets one event, or one for each of its requests.              *)
LEMMA CountStep ==
  TypeOK /\ FlowsDistinct /\ UsedInv /\ CountInv /\ [Next]_vars => CountInv'
<1> SUFFICES ASSUME TypeOK, FlowsDistinct, UsedInv, CountInv, [Next]_vars,
                    phase' \in InRun, NEW k \in HoneynetRows'
             PROVE  CountOK(k)'
  BY DEF CountInv
<1>1. ASSUME NEW r \in RunIds, StartRun(r) PROVE CountOK(k)'
  <2>1. phase' = "join" /\ i' = 1 /\ egress' = <<>>
    BY <1>1 DEF StartRun
  <2>2. k \in Nat /\ k # 0
    <3>1. PICK p \in StableOrders(network) : network' = Reordered(network, p)
      BY <1>1 DEF StartRun
    <3>2. network' \in Seq(NetworkRow)
      BY <3>1, ReorderedKeepsRows DEF TypeOK
    <3> QED
      BY <3>2 DEF HoneynetRows, RowsOf
  <2>3. ~Finished(k)' /\ ~Current(k)'
    BY <2>1, <2>2 DEF Finished, Current
  <2>4. PICK f : f = network'[k].flow
    OBVIOUS
  <2>5. FlowEvents(f)' = {}
    BY <2>1 DEF FlowEvents, Where
  <2> QED
    BY <2>3, <2>4, <2>5 DEF CountOK
<1>2. ASSUME NEW flow, UNCHANGED <<http, run>> PROVE httpByFlow(flow)' = httpByFlow(flow)
  BY <1>2 DEF httpByFlow
<1>3. ASSUME UNCHANGED <<network, run>>, phase \in InRun
      PROVE  /\ k \in HoneynetRows /\ k \in Nat /\ CountOK(k)
             /\ network'[k].flow = network[k].flow /\ network[k].flow \in Flows
             /\ \A l \in HoneynetRows : network[l].flow = network[k].flow => l = k
  <2>1. k \in HoneynetRows
    BY <1>3 DEF HoneynetRows, RowsOf
  <2>2. network[k] \in HoneynetRow /\ k \in Nat
    BY <2>1, FlowRow DEF TypeOK
  <2>3. \A l \in HoneynetRows : network[l].flow = network[k].flow => l = k
    BY <2>1 DEF FlowsDistinct, HoneynetRows, RowsOf
  <2> QED
    BY <1>3, <2>1, <2>2, <2>3 DEF CountInv, HoneynetRow
\* Steps that add no event and leave each flow as far as it was.
<1>4. ASSUME UNCHANGED <<network, run, http, egress>>, phase \in InRun,
             Finished(k)' <=> Finished(k), Current(k)' => Current(k),
             Current(k) => /\ Current(k)'
                           /\ \A q \in httpByFlow(network[k].flow) : q < j' <=> q < j
      PROVE  CountOK(k)'
  <2>1. PICK f : f = network[k].flow /\ f = network'[k].flow
    BY <1>4
  <2>2. FlowEvents(f)' = FlowEvents(f) /\ httpByFlow(f)' = httpByFlow(f)
    BY <1>2, <1>4 DEF FlowEvents
  <2>3. CountOK(k)
    BY <1>3, <1>4
  <2>4. Current(k)' => {q \in httpByFlow(f) : q < j'} = {q \in httpByFlow(f) : q < j}
    BY <1>4, <2>1
  <2> QED
    BY <1>4, <2>1, <2>2, <2>3, <2>4 DEF CountOK
<1>5. CASE SkipRow
  <2>1. /\ phase = "join" /\ phase' = "join" /\ i \notin HoneynetRows /\ i' = i + 1
        /\ UNCHANGED <<network, run, http, egress>>
    BY <1>5 DEF SkipRow
  <2>2. k \in HoneynetRows /\ k \in Nat
    BY <1>3, <2>1 DEF InRun
  <2>3. Finished(k)' <=> Finished(k)
    BY <2>1, <2>2 DEF Finished, TypeOK
  <2> QED
    BY <1>4, <2>1, <2>3 DEF InRun, Current
<1>6. CASE JoinFlow
  <2>1. /\ phase = "join" /\ phase' = "join" /\ i \in HoneynetRows /\ i' = i + 1
        /\ httpByFlow(network[i].flow) = {}
        /\ egress' = Append(egress, fromNetworkPair(network[i], bestAyaMatch(network[i]), {}))
        /\ UNCHANGED <<network, run, http>>
    BY <1>6 DEF JoinFlow
  <2>2. PICK d : d = fromNetworkPair(network[i], bestAyaMatch(network[i]), {})
    OBVIOUS
  <2>3. network[i] \in HoneynetRow /\ bestAyaMatch(network[i]) \in SUBSET AyaRow
    BY <2>1, FlowRow, MatchFields
  <2>4. d \in EgressEvent /\ d.flow = network[i].flow
    <3>1. d \in EgressEvent
      BY <2>2, <2>3, PairFields
    <3> QED
      BY <2>2, <3>1 DEF fromNetworkPair
  <2>5. PICK f : f = network[k].flow /\ f = network'[k].flow
    BY <2>1
  <2>6. httpByFlow(f)' = httpByFlow(f)
    BY <1>2, <2>1
  <2>7. /\ Cardinality(FlowEvents(f)') = Cardinality(FlowEvents(f)) + (IF d.flow = f THEN 1 ELSE 0)
        /\ d.flow # f => FlowEvents(f)' = FlowEvents(f)
    BY <2>1, <2>2, <2>4, EventCounted
  <2>8. k \in Nat /\ i \in Nat /\ CountOK(k) /\ (d.flow = f <=> k = i)
    BY <1>3, <2>1, <2>4, <2>5 DEF InRun, TypeOK
  <2>9. ~Current(k) /\ ~Current(k)' /\ (Finished(k) <=> k < i) /\ (Finished(k)' <=> k < i + 1)
    BY <2>1 DEF Current, Finished
  <2>10. CASE k = i
    <3>1. FlowEvents(f) = {}
      BY <2>5, <2>8, <2>9, <2>10 DEF CountOK
    <3>2. Cardinality(FlowEvents(f)) = 0 /\ Cardinality(httpByFlow(f)) = 0
      BY <2>1, <2>5, <2>10, <3>1, FS_EmptySet
    <3>3. Cardinality(FlowEvents(f)') = 1
      BY <2>7, <2>8, <2>10, <3>2
    <3>4. Finished(k)'
      BY <2>8, <2>9, <2>10
    <3> QED
      BY <2>5, <2>6, <2>9, <3>2, <3>3, <3>4 DEF CountOK, OneOr
  <2>11. CASE k # i
    <3>1. FlowEvents(f)' = FlowEvents(f)
      BY <2>7, <2>8, <2>11
    <3>2. Finished(k)' <=> Finished(k)
      BY <2>8, <2>9, <2>11
    <3> QED
      BY <2>5, <2>6, <2>8, <2>9, <3>1, <3>2 DEF CountOK
  <2> QED
    BY <2>10, <2>11
<1>7. CASE JoinRequests
  <2>1. /\ phase = "join" /\ phase' = "emit" /\ i' = i /\ j' = 1
        /\ UNCHANGED <<network, run, http, egress>>
    BY <1>7 DEF JoinRequests
  <2>2. PICK f : f = network[k].flow /\ f = network'[k].flow
    BY <2>1
  <2>3. FlowEvents(f)' = FlowEvents(f) /\ httpByFlow(f)' = httpByFlow(f)
    BY <1>2, <2>1 DEF FlowEvents
  <2>4. CountOK(k) /\ k \in Nat /\ i \in Nat
    BY <1>3, <2>1 DEF InRun, TypeOK
  <2>5. ~Current(k) /\ (Finished(k)' <=> Finished(k)) /\ (Current(k)' => ~Finished(k))
    BY <2>1, <2>4 DEF Current, Finished
  <2>6. {q \in httpByFlow(f) : q < j'} = {}
    BY <2>1 DEF httpByFlow, TypeOK
  <2>7. Cardinality({q \in httpByFlow(f) : q < j'}) = 0
    BY <2>6, FS_EmptySet
  <2>8. FlowEvents(f) = {} => Cardinality(FlowEvents(f)) = 0
    BY FS_EmptySet
  <2> QED
    BY <2>2, <2>3, <2>4, <2>5, <2>7, <2>8 DEF CountOK
<1>8. CASE EmitRequest
  <2>1. /\ phase = "emit" /\ phase' = "emit" /\ i' = i /\ j \in httpByFlow(network[i].flow) /\ j' = j + 1
        /\ egress' = Append(egress, fromNetworkPair(network[i], match, http[j].canary))
        /\ UNCHANGED <<network, run, http>>
    BY <1>8 DEF EmitRequest
  <2>2. PICK d : d = fromNetworkPair(network[i], match, http[j].canary)
    OBVIOUS
  <2>3. network[i] \in HoneynetRow /\ match \in SUBSET AyaRow /\ i \in HoneynetRows
    BY <2>1, FlowRow DEF TypeOK
  <2>4. http[j].canary \in SUBSET CanaryIds
    <3>1. http[j] \in HttpRow
      BY <2>1 DEF httpByFlow, TypeOK
    <3> QED
      BY <3>1 DEF HttpRow
  <2>5. d \in EgressEvent /\ d.flow = network[i].flow
    <3>1. d \in EgressEvent
      BY <2>2, <2>3, <2>4, PairFields
    <3> QED
      BY <2>2, <3>1 DEF fromNetworkPair
  <2>6. PICK f : f = network[k].flow /\ f = network'[k].flow
    BY <2>1
  <2>7. httpByFlow(f)' = httpByFlow(f)
    BY <1>2, <2>1
  <2>8. /\ Cardinality(FlowEvents(f)') = Cardinality(FlowEvents(f)) + (IF d.flow = f THEN 1 ELSE 0)
        /\ d.flow # f => FlowEvents(f)' = FlowEvents(f)
    BY <2>1, <2>2, <2>5, EventCounted
  <2>9. k \in Nat /\ i \in Nat /\ j \in Nat /\ CountOK(k) /\ (d.flow = f <=> k = i)
    BY <1>3, <2>1, <2>3, <2>5, <2>6 DEF InRun, TypeOK
  <2>10. /\ (Current(k) <=> k = i) /\ (Current(k)' <=> k = i)
         /\ (Finished(k) <=> k < i) /\ (Finished(k)' <=> k < i)
    BY <2>1 DEF Current, Finished
  <2>11. CASE k = i
    <3> DEFINE done == {q \in httpByFlow(f) : q < j}
    <3>1. {q \in httpByFlow(f) : q < j'} = done \cup {j} /\ j \notin done
      BY <2>1, <2>6, <2>9, <2>11 DEF httpByFlow, TypeOK
    <3>2. IsFiniteSet(done)
      BY FlowFinite, FS_Subset
    <3>3. Cardinality(done \cup {j}) = Cardinality(done) + 1
      BY <3>1, <3>2, FS_AddElement
    <3>4. Cardinality(FlowEvents(f)) = Cardinality(done)
      BY <2>6, <2>9, <2>10, <2>11 DEF CountOK
    <3>5. Cardinality(FlowEvents(f)') = Cardinality({q \in httpByFlow(f) : q < j'})
      BY <2>8, <2>9, <2>11, <3>1, <3>3, <3>4
    <3>6. ~Finished(k)' /\ Current(k)'
      BY <2>9, <2>10, <2>11
    <3> QED
      BY <2>6, <2>7, <3>5, <3>6 DEF CountOK
  <2>12. CASE k # i
    <3>1. FlowEvents(f)' = FlowEvents(f)
      BY <2>8, <2>9, <2>12
    <3> QED
      BY <2>6, <2>7, <2>9, <2>10, <2>12, <3>1 DEF CountOK
  <2> QED
    BY <2>11, <2>12
<1>9. CASE SkipHttp
  <2>1. /\ phase = "emit" /\ phase' = "emit" /\ i' = i /\ j \notin httpByFlow(network[i].flow) /\ j' = j + 1
        /\ UNCHANGED <<network, run, http, egress>>
    BY <1>9 DEF SkipHttp
  <2>2. (Finished(k)' <=> Finished(k)) /\ (Current(k)' <=> Current(k))
    BY <2>1 DEF Finished, Current
  <2>3. Current(k) => \A q \in httpByFlow(network[k].flow) : q < j' <=> q < j
    BY <2>1 DEF Current, httpByFlow, TypeOK
  <2> QED
    BY <1>4, <2>1, <2>2, <2>3 DEF InRun
<1>10. CASE EndRequests
  <2>1. /\ phase = "emit" /\ phase' = "join" /\ j > Len(http) /\ i' = i + 1
        /\ UNCHANGED <<network, run, http, egress>>
    BY <1>10 DEF EndRequests
  <2>2. PICK f : f = network[k].flow /\ f = network'[k].flow
    BY <2>1
  <2>3. FlowEvents(f)' = FlowEvents(f) /\ httpByFlow(f)' = httpByFlow(f)
    BY <1>2, <2>1 DEF FlowEvents
  <2>4. CountOK(k) /\ k \in Nat /\ i \in Nat
    BY <1>3, <2>1 DEF InRun, TypeOK
  <2>5. /\ ~Current(k)' /\ (Current(k) <=> k = i)
        /\ (Finished(k) <=> k < i) /\ (Finished(k)' <=> k < i + 1)
    BY <2>1 DEF Current, Finished
  <2>6. CASE k = i
    <3>1. {q \in httpByFlow(f) : q < j} = httpByFlow(f)
      BY <2>1 DEF httpByFlow, TypeOK
    <3>2. httpByFlow(f) # {}
      BY <2>1, <2>2, <2>6 DEF UsedInv, InRun
    <3>3. Cardinality(httpByFlow(f)) # 0
      BY <3>2, FlowFinite
    <3>4. Cardinality(FlowEvents(f)) = OneOr(Cardinality(httpByFlow(f)))
      BY <2>2, <2>4, <2>5, <2>6, <3>1, <3>3 DEF CountOK, OneOr
    <3>5. Finished(k)'
      BY <2>4, <2>5, <2>6
    <3> QED
      BY <2>2, <2>3, <2>5, <3>4, <3>5 DEF CountOK
  <2>7. CASE k # i
    <3>1. Finished(k)' <=> Finished(k)
      BY <2>4, <2>5, <2>7
    <3> QED
      BY <2>2, <2>3, <2>4, <2>5, <2>7, <3>1 DEF CountOK
  <2> QED
    BY <2>6, <2>7
<1>11. CASE EndJoin
  <2>1. /\ phase = "join" /\ phase' = "ayaOnly" /\ i > Len(network)
        /\ UNCHANGED <<network, run, http, egress>>
    BY <1>11 DEF EndJoin
  <2>2. k \in DOMAIN network
    BY <1>3, <2>1 DEF InRun, HoneynetRows, RowsOf
  <2>3. k < i
    BY <2>1, <2>2 DEF TypeOK
  <2> QED
    BY <1>4, <2>1, <2>3 DEF InRun, Finished, Current
<1>12. CASE ReportUnused
  <2>1. /\ phase = "ayaOnly" /\ phase' = "ayaOnly" /\ i \in AyaRows
        /\ egress' = Append(egress, fromAyaOnly(network[i]))
        /\ UNCHANGED <<network, run, http>>
    BY <1>12 DEF ReportUnused
  <2>2. PICK d : d = fromAyaOnly(network[i])
    OBVIOUS
  <2>3. d \in EgressEvent /\ d.flow = NoFlow
    BY <2>1, <2>2, ConnectRow, AloneFields DEF fromAyaOnly
  <2>4. PICK f : f = network[k].flow /\ f = network'[k].flow
    BY <2>1
  <2>5. d.flow # f
    BY <1>3, <2>1, <2>3, <2>4, NullsAreNotValues DEF InRun
  <2>6. FlowEvents(f)' = FlowEvents(f)
    BY <2>1, <2>2, <2>3, <2>5, EventCounted
  <2>7. httpByFlow(f)' = httpByFlow(f) /\ CountOK(k)
    BY <1>2, <1>3, <2>1 DEF InRun
  <2> QED
    BY <2>1, <2>4, <2>6, <2>7 DEF CountOK, Finished, Current
<1>13. CASE SkipUsed
  <2>1. phase = "ayaOnly" /\ phase' = "ayaOnly" /\ UNCHANGED <<network, run, http, egress>>
    BY <1>13 DEF SkipUsed
  <2> QED
    BY <1>4, <2>1 DEF InRun, Finished, Current
<1>14. CASE UNCHANGED vars
  <2>1. UNCHANGED <<phase, network, run, http, egress, i, j>>
    BY <1>14 DEF vars
  <2> QED
    BY <1>4, <2>1 DEF Finished, Current
<1>15. ASSUME Next
       PROVE  (\E r \in RunIds : StartRun(r)) \/ SkipRow \/ JoinFlow \/ JoinRequests \/ EmitRequest
              \/ SkipHttp \/ EndRequests \/ EndJoin \/ ReportUnused \/ SkipUsed
  BY <1>15 DEF Next, Correlate, ReadNetwork, EndNetwork, ReadHttp, EndHttp, FinishRun, InRun
<1> QED
  BY <1>1, <1>5, <1>6, <1>7, <1>8, <1>9, <1>10, <1>11, <1>12, <1>13, <1>14, <1>15

\* The pid that goes into the events of flow h with match m.
PairPid(h, m) == IF m = {} THEN h.pid ELSE (CHOOSE a \in m : TRUE).pid

\* Events of one flow name one process.
SamePids(s) ==
    \A m, n \in DOMAIN s : s[m].flow \in Flows /\ s[m].flow = s[n].flow => s[m].pid = s[n].pid

PidInv ==
    phase \in InRun =>
        /\ SamePids(egress)
        /\ phase = "emit" => \A n \in DOMAIN egress :
              egress[n].flow = network[i].flow => egress[n].pid = PairPid(network[i], match)

(* The list grows by one event at its end.                                 *)
LEMMA ListGrows ==
  ASSUME TypeOK, NEW d, egress' = Append(egress, d)
  PROVE  /\ DOMAIN egress \subseteq DOMAIN egress' /\ \A n \in DOMAIN egress : egress'[n] = egress[n]
         /\ \A n \in DOMAIN egress' : n \in DOMAIN egress \/ egress'[n] = d
         /\ \E n \in DOMAIN egress' : egress'[n] = d
<1>1. /\ Len(egress) \in Nat /\ DOMAIN egress = 1..Len(egress)
      /\ DOMAIN egress' = 1..(Len(egress) + 1) /\ egress'[Len(egress) + 1] = d
      /\ \A n \in 1..Len(egress) : egress'[n] = egress[n]
  BY DEF TypeOK
<1> QED
  BY <1>1

(* The flow the loop comes to has no event yet.                            *)
LEMMA NoEventYet ==
  ASSUME TypeOK, CountInv, phase = "join", i \in HoneynetRows
  PROVE  \A n \in DOMAIN egress : egress[n].flow # network[i].flow
<1>1. FlowEvents(network[i].flow) = {}
  <2>1. CountOK(i) /\ ~Finished(i) /\ ~Current(i)
    BY DEF CountInv, InRun, Finished, Current, TypeOK
  <2> QED
    BY <2>1 DEF CountOK
<1>2. \A n \in DOMAIN egress : egress[n] \in EgressEvent
  BY DEF TypeOK
<1> QED
  BY <1>1, <1>2 DEF FlowEvents, Where, OfFlow

(* The match is fixed once for all the requests of a flow.                 *)
LEMMA PidStep == TypeOK /\ CountInv /\ PidInv /\ [Next]_vars => PidInv'
<1> SUFFICES ASSUME TypeOK, CountInv, PidInv, [Next]_vars, phase' \in InRun PROVE PidInv'
  BY DEF PidInv
<1>1. ASSUME NEW r \in RunIds, StartRun(r) PROVE PidInv'
  BY <1>1 DEF StartRun, PidInv, SamePids
<1>2. ASSUME UNCHANGED egress, phase \in InRun,
             phase' = "emit" => phase = "emit" /\ UNCHANGED <<network, i, match>>
      PROVE  PidInv'
  <2>1. SamePids(egress')
    BY <1>2 DEF PidInv
  <2> QED
    BY <1>2, <2>1 DEF PidInv
<1>3. CASE SkipRow \/ SkipHttp \/ EndRequests \/ EndJoin \/ SkipUsed \/ UNCHANGED vars
  <2>1. UNCHANGED egress /\ (phase' = "emit" => phase = "emit" /\ UNCHANGED <<network, i, match>>)
    BY <1>3 DEF SkipRow, SkipHttp, EndRequests, EndJoin, SkipUsed, vars
  <2>2. phase \in InRun
    BY <1>3 DEF SkipRow, SkipHttp, EndRequests, EndJoin, SkipUsed, vars, InRun
  <2> QED
    BY <1>2, <2>1, <2>2
<1>4. CASE JoinFlow
  <2>1. PICK d : /\ d = fromNetworkPair(network[i], bestAyaMatch(network[i]), {})
                 /\ egress' = Append(egress, d)
    BY <1>4 DEF JoinFlow
  <2>2. d.flow = network[i].flow
    BY <2>1 DEF fromNetworkPair
  <2>3. \A n \in DOMAIN egress : egress[n].flow # d.flow
    BY <1>4, <2>2, NoEventYet DEF JoinFlow
  <2>4. SamePids(egress)
    BY <1>4 DEF PidInv, JoinFlow, InRun
  <2>5. SamePids(egress')
    BY <2>1, <2>3, <2>4, ListGrows DEF SamePids
  <2> QED
    BY <1>4, <2>5 DEF PidInv, JoinFlow
<1>5. CASE JoinRequests
  <2>1. /\ UNCHANGED <<network, i, egress>>
        /\ \A n \in DOMAIN egress : egress[n].flow # network[i].flow
        /\ SamePids(egress)
    BY <1>5, NoEventYet DEF JoinRequests, PidInv, InRun
  <2> QED
    BY <2>1 DEF PidInv
<1>6. CASE EmitRequest
  <2>1. PICK d : /\ d = fromNetworkPair(network[i], match, http[j].canary)
                 /\ egress' = Append(egress, d)
    BY <1>6 DEF EmitRequest
  <2>2. d.flow = network[i].flow /\ d.pid = PairPid(network[i], match)
    BY <2>1 DEF fromNetworkPair, PairPid
  <2>3. /\ SamePids(egress)
        /\ \A n \in DOMAIN egress :
             egress[n].flow = network[i].flow => egress[n].pid = PairPid(network[i], match)
    BY <1>6 DEF PidInv, EmitRequest, InRun
  <2>4. PICK h, pid : h = network[i] /\ pid = PairPid(network[i], match)
    OBVIOUS
  <2>5. /\ SamePids(egress')
        /\ \A n \in DOMAIN egress' : egress'[n].flow = h.flow => egress'[n].pid = pid
    BY <2>1, <2>2, <2>3, <2>4, ListGrows DEF SamePids
  <2>6. h = network'[i'] /\ pid = PairPid(network'[i'], match')
    BY <1>6, <2>4 DEF EmitRequest, PairPid
  <2> QED
    BY <2>5, <2>6 DEF PidInv
<1>7. CASE ReportUnused
  <2>1. PICK d : d = fromAyaOnly(network[i]) /\ egress' = Append(egress, d)
    BY <1>7 DEF ReportUnused
  <2>2. d.flow \notin Flows
    BY <2>1, NullsAreNotValues DEF fromAyaOnly
  <2>3. SamePids(egress) /\ phase' = "ayaOnly"
    BY <1>7 DEF PidInv, ReportUnused, InRun
  <2>4. SamePids(egress')
    BY <2>1, <2>2, <2>3, ListGrows DEF SamePids
  <2> QED
    BY <2>3, <2>4 DEF PidInv
<1>8. ASSUME Next
      PROVE  \/ \E r \in RunIds : StartRun(r)
             \/ SkipRow \/ SkipHttp \/ EndRequests \/ EndJoin \/ SkipUsed \/ UNCHANGED vars
             \/ JoinFlow \/ JoinRequests \/ EmitRequest \/ ReportUnused
  BY <1>8 DEF Next, Correlate, ReadNetwork, EndNetwork, ReadHttp, EndHttp, FinishRun, InRun
<1> QED
  BY <1>1, <1>3, <1>4, <1>5, <1>6, <1>7, <1>8

\* Request q of the flow of row k has been turned into an event.
Emitted(k, q) == Finished(k) \/ (Current(k) /\ q < j)
RequestOf(k, q) == k \in HoneynetRows /\ q \in httpByFlow(network[k].flow)

CanaryInv ==
    phase \in InRun =>
        /\ \A n \in DOMAIN egress : \A c \in egress[n].canary :
              \E k, q : RequestOf(k, q) /\ c \in http[q].canary
        /\ \A k, q : RequestOf(k, q) /\ Emitted(k, q)
              => \E n \in DOMAIN egress : http[q].canary \subseteq egress[n].canary

(* Canaries come from the requests of the run's flows, and none is lost.   *)
LEMMA CanaryStep == TypeOK /\ CanaryInv /\ [Next]_vars => CanaryInv'
<1> SUFFICES ASSUME TypeOK, CanaryInv, [Next]_vars, phase' \in InRun PROVE CanaryInv'
  BY DEF CanaryInv
<1>1. ASSUME NEW r \in RunIds, StartRun(r) PROVE CanaryInv'
  <2>1. phase' = "join" /\ i' = 1 /\ egress' = <<>>
    BY <1>1 DEF StartRun
  <2>2. \A k : k \in HoneynetRows' => k \in Nat /\ k # 0
    <3>1. PICK p \in StableOrders(network) : network' = Reordered(network, p)
      BY <1>1 DEF StartRun
    <3>2. network' \in Seq(NetworkRow)
      BY <3>1, ReorderedKeepsRows DEF TypeOK
    <3> QED
      BY <3>2 DEF HoneynetRows, RowsOf
  <2> QED
    BY <2>1, <2>2 DEF CanaryInv, RequestOf, Emitted, Finished, Current
<1>2. ASSUME UNCHANGED <<network, run, http>>
      PROVE  \A k, q : RequestOf(k, q)' <=> RequestOf(k, q)
  BY <1>2 DEF RequestOf, HoneynetRows, RowsOf, httpByFlow
<1>3. \A k, q : RequestOf(k, q) => k \in Nat /\ q \in Nat /\ k \in DOMAIN network /\ q \in DOMAIN http
  BY DEF RequestOf, HoneynetRows, RowsOf, httpByFlow, TypeOK
\* Steps that add no event and pass no request.
<1>4. ASSUME UNCHANGED <<network, run, http, egress>>, phase \in InRun,
             \A k, q : RequestOf(k, q) /\ Emitted(k, q)' => Emitted(k, q)
      PROVE  CanaryInv'
  BY <1>2, <1>4 DEF CanaryInv
\* Steps that add an event.
<1>5. ASSUME UNCHANGED <<network, run, http>>, phase \in InRun, NEW d, egress' = Append(egress, d),
             \A c \in d.canary : \E k, q : RequestOf(k, q) /\ c \in http[q].canary,
             \A k, q : RequestOf(k, q) /\ Emitted(k, q)' => Emitted(k, q) \/ http[q].canary \subseteq d.canary
      PROVE  CanaryInv'
  <2>1. /\ DOMAIN egress \subseteq DOMAIN egress' /\ \A n \in DOMAIN egress : egress'[n] = egress[n]
        /\ \A n \in DOMAIN egress' : n \in DOMAIN egress \/ egress'[n] = d
        /\ \E n \in DOMAIN egress' : egress'[n] = d
    BY <1>5, ListGrows
  <2>2. \A n \in DOMAIN egress' : \A c \in egress'[n].canary :
          \E k, q : RequestOf(k, q)' /\ c \in http'[q].canary
    BY <1>2, <1>5, <2>1 DEF CanaryInv
  <2>3. ASSUME NEW k, NEW q, RequestOf(k, q)', Emitted(k, q)'
        PROVE  \E n \in DOMAIN egress' : http'[q].canary \subseteq egress'[n].canary
    <3>1. RequestOf(k, q)
      BY <1>2, <1>5, <2>3
    <3>2. CASE Emitted(k, q)
      <4>1. PICK n \in DOMAIN egress : http[q].canary \subseteq egress[n].canary
        BY <1>5, <3>1, <3>2 DEF CanaryInv
      <4> QED
        BY <1>5, <2>1, <4>1
    <3>3. CASE http[q].canary \subseteq d.canary
      BY <1>5, <2>1, <3>3
    <3> QED
      BY <1>5, <2>3, <3>1, <3>2, <3>3
  <2> QED
    BY <2>2, <2>3 DEF CanaryInv
<1>6. CASE SkipRow
  <2>1. /\ phase = "join" /\ phase' = "join" /\ i \notin HoneynetRows /\ i' = i + 1
        /\ UNCHANGED <<network, run, http, egress>>
    BY <1>6 DEF SkipRow
  <2>2. \A k, q : RequestOf(k, q) /\ Emitted(k, q)' => Emitted(k, q)
    BY <1>3, <2>1 DEF Emitted, Finished, Current, RequestOf, TypeOK
  <2> QED
    BY <1>4, <2>1, <2>2 DEF InRun
<1>7. CASE JoinFlow
  <2>1. /\ phase = "join" /\ phase' = "join" /\ httpByFlow(network[i].flow) = {} /\ i' = i + 1
        /\ UNCHANGED <<network, run, http>>
    BY <1>7 DEF JoinFlow
  <2>2. PICK d : d = fromNetworkPair(network[i], bestAyaMatch(network[i]), {}) /\ egress' = Append(egress, d)
    BY <1>7 DEF JoinFlow
  <2>3. d.canary = {}
    BY <2>2 DEF fromNetworkPair
  <2>4. \A k, q : RequestOf(k, q) => k # i /\ (k < i + 1 => k < i \/ k = i)
    <3>1. \A k, q : RequestOf(k, q) => k # i
      BY <2>1 DEF RequestOf
    <3>2. \A k, q : RequestOf(k, q) => (k < i + 1 => k < i \/ k = i)
      BY <1>3 DEF TypeOK
    <3> QED
      BY <3>1, <3>2
  <2>5. \A k, q : RequestOf(k, q) /\ Emitted(k, q)' => Emitted(k, q)
    BY <2>1, <2>4 DEF Emitted, Finished, Current
  <2> QED
    BY <1>5, <2>1, <2>2, <2>3, <2>5 DEF InRun
<1>8. CASE JoinRequests
  <2>1. /\ phase = "join" /\ phase' = "emit" /\ j' = 1 /\ UNCHANGED <<network, run, http, egress, i>>
    BY <1>8 DEF JoinRequests
  <2>2. \A k, q : RequestOf(k, q) => ~(q < 1)
    BY <1>3 DEF TypeOK
  <2>3. \A k, q : RequestOf(k, q) /\ Emitted(k, q)' => Emitted(k, q)
    BY <2>1, <2>2 DEF Emitted, Finished, Current
  <2> QED
    BY <1>4, <2>1, <2>3 DEF InRun
<1>9. CASE EmitRequest
  <2>1. /\ phase = "emit" /\ phase' = "emit" /\ j \in httpByFlow(network[i].flow) /\ j' = j + 1
        /\ UNCHANGED <<network, run, http, i>>
    BY <1>9 DEF EmitRequest
  <2>2. PICK d : d = fromNetworkPair(network[i], match, http[j].canary) /\ egress' = Append(egress, d)
    BY <1>9 DEF EmitRequest
  <2>3. d.canary = http[j].canary
    BY <2>2 DEF fromNetworkPair
  <2>4. RequestOf(i, j)
    BY <2>1 DEF RequestOf, TypeOK
  <2>5. \A k, q : RequestOf(k, q) => q < j + 1 <=> q < j \/ q = j
    BY <1>3 DEF TypeOK
  <2>6. \A k, q : RequestOf(k, q) /\ Emitted(k, q)' => Emitted(k, q) \/ q = j
    BY <2>1, <2>5 DEF Emitted, Finished, Current
  <2> QED
    BY <1>5, <2>1, <2>2, <2>3, <2>4, <2>6 DEF InRun
<1>10. CASE SkipHttp
  <2>1. /\ phase = "emit" /\ phase' = "emit" /\ j \notin httpByFlow(network[i].flow) /\ j' = j + 1
        /\ UNCHANGED <<network, run, http, egress, i>>
    BY <1>10 DEF SkipHttp
  <2>2. \A k, q : RequestOf(k, q) => q < j + 1 <=> q < j \/ q = j
    BY <1>3 DEF TypeOK
  <2>3. \A k, q : RequestOf(k, q) /\ Emitted(k, q)' => Emitted(k, q)
    BY <2>1, <2>2 DEF Emitted, Finished, Current, RequestOf
  <2> QED
    BY <1>4, <2>1, <2>3 DEF InRun
<1>11. CASE EndRequests
  <2>1. /\ phase = "emit" /\ phase' = "join" /\ j > Len(http) /\ i' = i + 1
        /\ UNCHANGED <<network, run, http, egress>>
    BY <1>11 DEF EndRequests
  <2>2. \A k, q : RequestOf(k, q) => q < j
    BY <1>3, <2>1 DEF TypeOK
  <2>3. \A k, q : RequestOf(k, q) /\ k < i + 1 => k < i \/ k = i
    BY <1>3 DEF TypeOK
  <2>4. \A k, q : RequestOf(k, q) /\ Emitted(k, q)' => Emitted(k, q)
    BY <2>1, <2>2, <2>3 DEF Emitted, Finished, Current
  <2> QED
    BY <1>4, <2>1, <2>4 DEF InRun
<1>12. CASE EndJoin
  <2>1. /\ phase = "join" /\ phase' = "ayaOnly" /\ i > Len(network)
        /\ UNCHANGED <<network, run, http, egress>>
    BY <1>12 DEF EndJoin
  <2>2. \A k, q : RequestOf(k, q) => k < i
    BY <1>3, <2>1 DEF TypeOK
  <2> QED
    BY <1>4, <2>1, <2>2 DEF InRun, Emitted, Finished
<1>13. CASE ReportUnused
  <2>1. phase = "ayaOnly" /\ phase' = "ayaOnly" /\ UNCHANGED <<network, run, http>>
    BY <1>13 DEF ReportUnused
  <2>2. PICK d : d = fromAyaOnly(network[i]) /\ egress' = Append(egress, d)
    BY <1>13 DEF ReportUnused
  <2>3. d.canary = {}
    BY <2>2 DEF fromAyaOnly
  <2> QED
    BY <1>5, <2>1, <2>2, <2>3 DEF InRun, Emitted, Finished
<1>14. CASE SkipUsed
  <2>1. phase = "ayaOnly" /\ phase' = "ayaOnly" /\ UNCHANGED <<network, run, http, egress>>
    BY <1>14 DEF SkipUsed
  <2> QED
    BY <1>4, <2>1 DEF InRun, Emitted, Finished
<1>15. CASE UNCHANGED vars
  <2>1. UNCHANGED <<phase, network, run, http, egress, i, j>>
    BY <1>15 DEF vars
  <2> QED
    BY <1>4, <2>1 DEF Emitted, Finished, Current
<1>16. ASSUME Next
       PROVE  (\E r \in RunIds : StartRun(r)) \/ SkipRow \/ JoinFlow \/ JoinRequests \/ EmitRequest
              \/ SkipHttp \/ EndRequests \/ EndJoin \/ ReportUnused \/ SkipUsed
  BY <1>16 DEF Next, Correlate, ReadNetwork, EndNetwork, ReadHttp, EndHttp, FinishRun, InRun
<1> QED
  BY <1>1, <1>6, <1>7, <1>8, <1>9, <1>10, <1>11, <1>12, <1>13, <1>14, <1>15, <1>16

-----------------------------------------------------------------------------
(* Results name the requests of their run, in whatever order the logs are. *)

FlowRows(r) == {h \in HoneynetRow : h.run = r}
RequestRows(r, flow) == {x \in HttpRow : x.run = r /\ x.flow = flow}
RequestsAt(r, flow) == Where(http, RequestRows(r, flow))
Canaries(r) ==
    UNION {x.canary : x \in
        UNION {ValuesAt(http, RequestRows(r, h.flow)) : h \in ValuesAt(network, FlowRows(r))}}

\* The list s and the canaries m tell of the flows of run r.
ReqsOK(r, s, m) ==
    /\ \A h \in ValuesAt(network, FlowRows(r)) :
         Cardinality(Where(s, OfFlow(h.flow))) = OneOr(Cardinality(RequestsAt(r, h.flow)))
    /\ SamePids(s)
    /\ m = Canaries(r)

(* The positions of the run's flows and requests, by the rows they hold.   *)
LEMMA RowsOfRun ==
  ASSUME TypeOK, NEW r
  PROVE  /\ FlowsOf(r) = Where(network, FlowRows(r))
         /\ \A flow : RequestsOf(r, flow) = RequestsAt(r, flow)
         /\ \A k \in FlowsOf(r) : network[k].flow \in Flows /\ network[k] \in ValuesAt(network, FlowRows(r))
         /\ \A h \in ValuesAt(network, FlowRows(r)) : \E k \in FlowsOf(r) : h = network[k]
<1>1. FlowsOf(r) = Where(network, FlowRows(r))
  <2>1. \A k \in DOMAIN network : network[k].source = "honeynet" <=> network[k] \in HoneynetRow
    <3>1. \A h \in HoneynetRow : h.source = "honeynet"
      BY DEF HoneynetRow
    <3> QED
      BY <3>1, RowFields DEF TypeOK
  <2> QED
    BY <2>1 DEF FlowsOf, Where, FlowRows
<1>2. \A k \in DOMAIN http : http[k] \in HttpRow
  BY DEF TypeOK
<1>3. \A flow : RequestsOf(r, flow) = RequestsAt(r, flow)
  BY <1>2 DEF RequestsOf, RequestsAt, Where, RequestRows
<1>4. \A h \in HoneynetRow : h.flow \in Flows
  BY DEF HoneynetRow
<1> QED
  BY <1>1, <1>3, <1>4 DEF ValuesAt, Where, FlowRows

(* The canaries of a run are those of the requests of its flows.           *)
LEMMA CanariesOfRun ==
  ASSUME TypeOK, NEW r
  PROVE  Canaries(r) = UNION {http[q].canary : q \in UNION {RequestsOf(r, network[k].flow) : k \in FlowsOf(r)}}
<1> DEFINE C == UNION {http[q].canary : q \in UNION {RequestsOf(r, network[k].flow) : k \in FlowsOf(r)}}
<1>1. \A flow : ValuesAt(http, RequestRows(r, flow)) = {http[q] : q \in RequestsOf(r, flow)}
  BY RowsOfRun DEF ValuesAt, RequestsAt
<1>2. ASSUME NEW c \in Canaries(r) PROVE c \in C
  <2>1. PICK h \in ValuesAt(network, FlowRows(r)) :
          \E x \in ValuesAt(http, RequestRows(r, h.flow)) : c \in x.canary
    BY <1>2 DEF Canaries
  <2>2. PICK k \in FlowsOf(r) : h = network[k]
    BY RowsOfRun
  <2>3. PICK q \in RequestsOf(r, network[k].flow) : c \in http[q].canary
    BY <1>1, <2>1, <2>2
  <2> QED
    BY <2>3
<1>3. ASSUME NEW c \in C PROVE c \in Canaries(r)
  <2>1. PICK k \in FlowsOf(r) : \E q \in RequestsOf(r, network[k].flow) : c \in http[q].canary
    BY <1>3
  <2>2. PICK q \in RequestsOf(r, network[k].flow) : c \in http[q].canary
    BY <2>1
  <2>3. network[k] \in ValuesAt(network, FlowRows(r)) /\ http[q] \in ValuesAt(http, RequestRows(r, network[k].flow))
    BY <1>1, <2>2, RowsOfRun
  <2> QED
    BY <2>2, <2>3 DEF Canaries
<1> HIDE DEF C
<1>4. Canaries(r) = C
  BY <1>2, <1>3
<1> QED
  BY <1>4 DEF C

(* When both loops are done the list tells of the run's flows.             *)
LEMMA ListReqs ==
  ASSUME TypeOK, CountInv, PidInv, CanaryInv, phase = "ayaOnly"
  PROVE  ReqsOK(run, egress, matchedCanaries(egress))
<1>1. FlowsOf(run) = HoneynetRows
  BY DEF FlowsOf, HoneynetRows, RowsOf
<1>2. ASSUME NEW k \in HoneynetRows PROVE httpByFlow(network[k].flow) = RequestsOf(run, network[k].flow)
  BY <1>1, RowsOfRun, NullsAreNotValues DEF httpByFlow, RequestsOf
<1>3. ASSUME NEW h \in ValuesAt(network, FlowRows(run))
      PROVE  Cardinality(Where(egress, OfFlow(h.flow))) = OneOr(Cardinality(RequestsAt(run, h.flow)))
  <2>1. PICK k \in HoneynetRows : h = network[k]
    BY <1>1, RowsOfRun
  <2>2. Cardinality(FlowEvents(network[k].flow)) = OneOr(Cardinality(httpByFlow(network[k].flow)))
    BY DEF CountInv, InRun, CountOK, Finished
  <2>3. httpByFlow(network[k].flow) = RequestsAt(run, network[k].flow)
    BY <1>2, RowsOfRun
  <2> QED
    BY <2>1, <2>2, <2>3 DEF FlowEvents
<1>4. SamePids(egress)
  BY DEF PidInv, InRun
<1>5. matchedCanaries(egress) = Canaries(run)
  <2> DEFINE C == UNION {http[q].canary : q \in UNION {RequestsOf(run, network[k].flow) : k \in FlowsOf(run)}}
  <2>1. ASSUME NEW c \in matchedCanaries(egress) PROVE c \in C
    <3>1. PICK n \in DOMAIN egress : c \in egress[n].canary
      BY <2>1 DEF matchedCanaries
    <3>2. PICK k, q : RequestOf(k, q) /\ c \in http[q].canary
      BY <3>1 DEF CanaryInv, InRun
    <3>3. k \in FlowsOf(run) /\ q \in RequestsOf(run, network[k].flow)
      BY <1>1, <1>2, <3>2 DEF RequestOf
    <3> QED
      BY <3>2, <3>3
  <2>2. ASSUME NEW c \in C PROVE c \in matchedCanaries(egress)
    <3>1. PICK k \in FlowsOf(run) : \E q \in RequestsOf(run, network[k].flow) : c \in http[q].canary
      BY <2>2
    <3>2. PICK q \in RequestsOf(run, network[k].flow) : c \in http[q].canary
      BY <3>1
    <3>3. RequestOf(k, q) /\ Emitted(k, q)
      BY <1>1, <1>2, <3>2 DEF RequestOf, Emitted, Finished
    <3>4. PICK n \in DOMAIN egress : http[q].canary \subseteq egress[n].canary
      BY <3>3 DEF CanaryInv, InRun
    <3> QED
      BY <3>2, <3>4 DEF matchedCanaries
  <2>3. Canaries(run) = C
    BY CanariesOfRun
  <2> HIDE DEF C
  <2> QED
    BY <2>1, <2>2, <2>3
<1> QED
  BY <1>3, <1>4, <1>5 DEF ReqsOK

(* Sorting the events changes nothing of this,                             *)
LEMMA ReqsReordered ==
  ASSUME NEW r, NEW s \in Seq(EgressEvent), NEW q \in StableOrders(s), ReqsOK(r, s, matchedCanaries(s))
  PROVE  ReqsOK(r, Reordered(s, q), matchedCanaries(Reordered(s, q)))
<1> DEFINE t == Reordered(s, q)
<1>1. /\ DOMAIN t = DOMAIN s
      /\ \A k \in DOMAIN s : q[k] \in DOMAIN s /\ t[k] = s[q[k]]
      /\ \A k \in DOMAIN s : \E l \in DOMAIN s : q[l] = k
  BY ReorderedKeepsRows
<1>2. \A T : Cardinality(Where(t, T)) = Cardinality(Where(s, T))
  BY CountReordered
<1> HIDE DEF t
<1>3. \A k \in DOMAIN s : \E l \in DOMAIN t : t[l] = s[k]
  <2> TAKE k \in DOMAIN s
  <2>1. PICK l \in DOMAIN s : q[l] = k
    BY <1>1
  <2> QED
    BY <1>1, <2>1
<1>4. matchedCanaries(t) = matchedCanaries(s)
  <2>1. \A k \in DOMAIN t : \E l \in DOMAIN s : t[k].canary = s[l].canary
    BY <1>1
  <2>2. \A k \in DOMAIN s : \E l \in DOMAIN t : s[k].canary = t[l].canary
    BY <1>3
  <2>3. {t[k].canary : k \in DOMAIN t} = {s[k].canary : k \in DOMAIN s}
    BY <2>1, <2>2
  <2> QED
    BY <2>3 DEF matchedCanaries
<1>5. SamePids(t)
  <2> SUFFICES ASSUME NEW m \in DOMAIN t, NEW n \in DOMAIN t, t[m].flow \in Flows, t[m].flow = t[n].flow
               PROVE  t[m].pid = t[n].pid
    BY DEF SamePids
  <2>1. q[m] \in DOMAIN s /\ t[m] = s[q[m]] /\ q[n] \in DOMAIN s /\ t[n] = s[q[n]]
    BY <1>1
  <2>2. SamePids(s)
    BY DEF ReqsOK
  <2> QED
    BY <2>1, <2>2 DEF SamePids
<1>6. ReqsOK(r, t, matchedCanaries(t))
  BY <1>2, <1>4, <1>5 DEF ReqsOK
<1> QED
  BY <1>6 DEF t

(* nor does sorting the logs again for the next run.                       *)
LEMMA ReqsStay ==
  ASSUME TypeOK, NEW p \in StableOrders(network), network' = Reordered(network, p),
         NEW q \in StableOrders(http), http' = Reordered(http, q),
         NEW r, NEW s, NEW m, ReqsOK(r, s, m)
  PROVE  ReqsOK(r, s, m)'
<1>1. network \in Seq(NetworkRow) /\ http \in Seq(HttpRow)
  BY DEF TypeOK
<1>2. ValuesAt(network', FlowRows(r)) = ValuesAt(network, FlowRows(r))
  <2>1. ValuesAt(Reordered(network, p), FlowRows(r)) = ValuesAt(network, FlowRows(r))
    BY <1>1, ValuesReordered
  <2> QED
    BY <2>1
<1>3. \A T : ValuesAt(http', T) = ValuesAt(http, T) /\ Cardinality(Where(http', T)) = Cardinality(Where(http, T))
  <2> TAKE T
  <2>1. ValuesAt(Reordered(http, q), T) = ValuesAt(http, T)
    BY <1>1, ValuesReordered
  <2>2. Cardinality(Where(Reordered(http, q), T)) = Cardinality(Where(http, T))
    BY <1>1, CountReordered
  <2> QED
    BY <2>1, <2>2
<1>4. Canaries(r)' = Canaries(r)
  BY <1>2, <1>3 DEF Canaries
<1>5. \A flow : Cardinality(Where(http', RequestRows(r, flow))) = Cardinality(RequestsAt(r, flow))
  BY <1>3 DEF RequestsAt
<1> QED
  BY <1>2, <1>4, <1>5 DEF ReqsOK, RequestsAt

ReqsInv == \A r \in DOMAIN results : ReqsOK(r, results[r].egress, results[r].matched)

LEMMA ReqsStep ==
  TypeOK /\ JoinInv /\ CountInv /\ PidInv /\ CanaryInv /\ ReqsInv /\ [Next]_vars => ReqsInv'
<1> SUFFICES ASSUME TypeOK, JoinInv, CountInv, PidInv, CanaryInv, ReqsInv, [Next]_vars PROVE ReqsInv'
  OBVIOUS
<1>1. CASE phase \in {"network", "http"} /\ results' = results
  BY <1>1 DEF JoinInv, ReqsInv
<1>2. ASSUME NEW n \in RunIds, StartRun(n) PROVE ReqsInv'
  <2>1. PICK p \in StableOrders(network), q \in StableOrders(http) :
          network' = Reordered(network, p) /\ http' = Reordered(http, q)
    BY <1>2 DEF StartRun
  <2>2. results' = results
    BY <1>2 DEF StartRun
  <2>3. ASSUME NEW r \in DOMAIN results PROVE ReqsOK(r, results[r].egress, results[r].matched)'
    <3>1. PICK s, m : s = results[r].egress /\ s = results'[r].egress /\ m = results[r].matched /\ m = results'[r].matched
      BY <2>2
    <3>2. ReqsOK(r, s, m)
      BY <3>1 DEF ReqsInv
    <3>3. ReqsOK(r, s, m)'
      BY <2>1, <3>2, ReqsStay
    <3> QED
      BY <3>1, <3>3
  <2> QED
    BY <2>2, <2>3 DEF ReqsInv
<1>3. CASE FinishRun
  <2>1. PICK q \in StableOrders(egress) :
          results' = [r \in DOMAIN results \cup {run} |->
            IF r = run THEN [egress |-> Reordered(egress, q),
                             matched |-> matchedCanaries(Reordered(egress, q))]
                       ELSE results[r]]
    BY <1>3 DEF FinishRun
  <2>2. ReqsOK(run, Reordered(egress, q), matchedCanaries(Reordered(egress, q)))
    BY <1>3, ListReqs, ReqsReordered DEF FinishRun, TypeOK
  <2>3. \A r, s, m : ReqsOK(r, s, m)' <=> ReqsOK(r, s, m)
    BY <1>3 DEF FinishRun, ReqsOK, Canaries, RequestsAt
  <2>4. ASSUME NEW r \in DOMAIN results' PROVE ReqsOK(r, results'[r].egress, results'[r].matched)
    <3>1. CASE r = run
      BY <2>1, <2>2, <3>1
    <3>2. CASE r # run
      <4>1. r \in DOMAIN results /\ results'[r] = results[r]
        BY <2>1, <3>2
      <4> QED
        BY <4>1 DEF ReqsInv
    <3> QED
      BY <3>1, <3>2
  <2>5. ASSUME NEW r \in DOMAIN results' PROVE ReqsOK(r, results[r].egress, results[r].matched)'
    <3>1. PICK s, m : s = results'[r].egress /\ m = results'[r].matched
      OBVIOUS
    <3> QED
      BY <2>3, <2>4, <3>1
  <2> QED
    BY <2>5 DEF ReqsInv
<1>4. CASE UNCHANGED <<network, http, results>>
  <2>1. \A r, s, m : ReqsOK(r, s, m)' <=> ReqsOK(r, s, m)
    BY <1>4 DEF ReqsOK, Canaries, RequestsAt
  <2>2. ASSUME NEW r \in DOMAIN results PROVE ReqsOK(r, results[r].egress, results[r].matched)'
    <3>1. PICK s, m : s = results[r].egress /\ s = results'[r].egress /\ m = results[r].matched /\ m = results'[r].matched
      BY <1>4
    <3> QED
      BY <2>1, <3>1 DEF ReqsInv
  <2> QED
    BY <1>4, <2>2 DEF ReqsInv
<1>5. CASE UNCHANGED vars
  BY <1>4, <1>5 DEF vars
<1>6. ASSUME Next
      PROVE  \/ phase \in {"network", "http"} /\ results' = results
             \/ \E n \in RunIds : StartRun(n)
             \/ FinishRun
             \/ UNCHANGED <<network, http, results>>
  BY <1>6 DEF Next, Correlate, ReadNetwork, EndNetwork, ReadHttp, EndHttp, SkipRow, JoinFlow,
     JoinRequests, EmitRequest, SkipHttp, EndRequests, EndJoin, ReportUnused, SkipUsed
<1> QED
  BY <1>1, <1>2, <1>3, <1>4, <1>5, <1>6

LEMMA RequestsInductive == Spec => [](TypeOK /\ CountInv /\ PidInv /\ CanaryInv /\ ReqsInv)
<1>1. Init => CountInv /\ PidInv /\ CanaryInv /\ ReqsInv
  BY DEF Init, CountInv, PidInv, CanaryInv, ReqsInv, InRun
<1>2. /\ TypeOK /\ JoinInv /\ FlowsDistinct /\ UsedInv /\ CountInv /\ PidInv /\ CanaryInv /\ ReqsInv
      /\ [Next]_vars
      => (CountInv /\ PidInv /\ CanaryInv /\ ReqsInv)'
  BY CountStep, PidStep, CanaryStep, ReqsStep
<1> QED
  BY <1>1, <1>2, Inductive, CountsInductive, PTL DEF Spec

(* The inner loop over httpByFlow: for any logs, a flow is reported once   *)
(* for each of its requests, or once when it has none, always with one     *)
(* process, and the canaries reported for a run are those its flows'       *)
(* requests carried.                                                       *)
THEOREM RequestsAreReported == Spec => []RequestsOfFlowsReported
<1>1. TypeOK /\ ReqsInv => RequestsOfFlowsReported
  <2> SUFFICES ASSUME TypeOK, ReqsInv, NEW r \in DOMAIN results
               PROVE  /\ \A k \in FlowsOf(r) :
                           LET flow == network[k].flow
                               requests == RequestsOf(r, flow)
                           IN  /\ Cardinality(Positions(r, flow)) = IF requests = {} THEN 1 ELSE Cardinality(requests)
                               /\ \A a, b \in Positions(r, flow) :
                                    results[r].egress[a].pid = results[r].egress[b].pid
                      /\ results[r].matched =
                           UNION {http[q].canary : q \in UNION {RequestsOf(r, network[k].flow) : k \in FlowsOf(r)}}
    BY DEF RequestsOfFlowsReported
  <2>1. ReqsOK(r, results[r].egress, results[r].matched)
    BY DEF ReqsInv
  <2>2. \A n \in DOMAIN results[r].egress : results[r].egress[n] \in EgressEvent
    BY DEF TypeOK
  <2>3. ASSUME NEW k \in FlowsOf(r)
        PROVE  LET flow == network[k].flow
                   requests == RequestsOf(r, flow)
               IN  /\ Cardinality(Positions(r, flow)) = IF requests = {} THEN 1 ELSE Cardinality(requests)
                   /\ \A a, b \in Positions(r, flow) :
                        results[r].egress[a].pid = results[r].egress[b].pid
    <3> DEFINE flow == network[k].flow
               requests == RequestsOf(r, flow)
    <3>1. flow \in Flows /\ network[k] \in ValuesAt(network, FlowRows(r)) /\ requests = RequestsAt(r, flow)
      BY RowsOfRun
    <3>2. Positions(r, flow) = Where(results[r].egress, OfFlow(flow))
      BY <2>2 DEF Positions, Where, OfFlow
    <3>3. Cardinality(Positions(r, flow)) = OneOr(Cardinality(requests))
      BY <2>1, <3>1, <3>2 DEF ReqsOK
    <3>4. requests = {} <=> Cardinality(requests) = 0
      <4>1. http \in Seq(HttpRow)
        BY DEF TypeOK
      <4>2. IsFiniteSet(Where(http, RequestRows(r, flow)))
        BY <4>1, WhereFinite
      <4> QED
        BY <3>1, <4>2, FS_EmptySet DEF RequestsAt
    <3>5. \A a, b \in Positions(r, flow) : results[r].egress[a].pid = results[r].egress[b].pid
      BY <2>1, <3>1 DEF ReqsOK, SamePids, Positions
    <3> HIDE DEF requests
    <3>6. Cardinality(Positions(r, flow)) = IF requests = {} THEN 1 ELSE Cardinality(requests)
      BY <3>3, <3>4 DEF OneOr
    <3> QED
      BY <3>5, <3>6 DEF requests
  <2>4. results[r].matched =
          UNION {http[q].canary : q \in UNION {RequestsOf(r, network[k].flow) : k \in FlowsOf(r)}}
    BY <2>1, CanariesOfRun DEF ReqsOK
  <2> QED
    BY <2>3, <2>4
<1> QED
  BY <1>1, RequestsInductive, PTL

-----------------------------------------------------------------------------
(* The verdicts on the reported events.                                    *)

(* No rows take back what some of them showed: the confirmations, the      *)
(* other reasons and the download of an event grow with the rows.          *)
LEMMA ReasonsGrow ==
  ASSUME NEW ev, NEW H, NEW H2, H \subseteq H2, NEW D, NEW D2, D \subseteq D2
  PROVE  /\ confirmations(ev, D) \subseteq confirmations(ev, D2)
         /\ destinationReasons(ev, D) \subseteq destinationReasons(ev, D2)
         /\ downloadState(ev, H) = "OBSERVED" => downloadState(ev, H2) = "OBSERVED"
<1>1. matchingDnsCanary(ev, D) => matchingDnsCanary(ev, D2)
  BY DEF matchingDnsCanary
<1>2. confirmations(ev, D) \subseteq confirmations(ev, D2)
  BY <1>1 DEF confirmations
<1>3. \A host : looksLikeDnsSubdomainExfil(host, D) => looksLikeDnsSubdomainExfil(host, D2)
  BY DEF looksLikeDnsSubdomainExfil
<1>4. destinationReasons(ev, D) \subseteq destinationReasons(ev, D2)
  BY <1>3 DEF destinationReasons
<1>5. downloadState(ev, H) = "OBSERVED" => downloadState(ev, H2) = "OBSERVED"
  BY DEF downloadState
<1> QED BY <1>2, <1>4, <1>5

Harder(new, old) ==
    /\ new.egress = old.egress
    /\ Severity(new.disposition) >= Severity(old.disposition)
    /\ old.reasons \ {"no_suspicious_signals"} \subseteq new.reasons
    /\ old.downloadState = "OBSERVED" => new.downloadState = "OBSERVED"

(* So no rows soften a verdict.                                            *)
LEMMA MoreRowsNoSofter ==
  ASSUME NEW ev, NEW H, NEW H2, H \subseteq H2, NEW D, NEW D2, D \subseteq D2
  PROVE  Harder(classifyOne(ev, H2, D2), classifyOne(ev, H, D))
<1>1. PICK c, c2, d, d2, s, s2 :
         /\ c = confirmations(ev, D) /\ c2 = confirmations(ev, D2)
         /\ d = destinationReasons(ev, D) /\ d2 = destinationReasons(ev, D2)
         /\ s = downloadState(ev, H) /\ s2 = downloadState(ev, H2)
  OBVIOUS
<1>2. c \subseteq c2 /\ d \subseteq d2 /\ (s = "OBSERVED" => s2 = "OBSERVED")
  BY <1>1, ReasonsGrow
<1> DEFINE
      Exfil(x) == IF "dns_canary_match" \in x THEN {"dns_exfil"} ELSE {}
      Synthetic(x) == IF x = "OBSERVED" THEN {"synthetic_honeynet_response"} ELSE {}
      Reasons(x, y, z) == x \cup Exfil(x) \cup y \cup Synthetic(z)
      Disposition(x, r) == IF x # {} THEN "EXFIL_CONFIRMED"
                           ELSE IF suspicious(r) THEN "SUSPICIOUS" ELSE "LEGIT_LOOKING"
      Verdict(x, y, z) ==
          [egress |-> ev, disposition |-> Disposition(x, Reasons(x, y, z)), downloadState |-> z,
           reasons |-> IF Disposition(x, Reasons(x, y, z)) = "LEGIT_LOOKING"
                       THEN Reasons(x, y, z) \cup {"no_suspicious_signals"} ELSE Reasons(x, y, z)]
<1>3. classifyOne(ev, H, D) = Verdict(c, d, s)
  BY <1>1 DEF classifyOne
<1>4. classifyOne(ev, H2, D2) = Verdict(c2, d2, s2)
  BY <1>1 DEF classifyOne
<1>5. Reasons(c, d, s) \subseteq Reasons(c2, d2, s2)
  BY <1>2
<1>6. Severity(Disposition(c2, Reasons(c2, d2, s2)))
        >= Severity(Disposition(c, Reasons(c, d, s)))
  <2>1. suspicious(Reasons(c, d, s)) => suspicious(Reasons(c2, d2, s2))
    BY <1>5 DEF suspicious
  <2>2. PICK r, r2 : r = Reasons(c, d, s) /\ r2 = Reasons(c2, d2, s2)
    OBVIOUS
  <2> HIDE DEF Reasons
  <2> QED BY <1>2, <2>1, <2>2 DEF Severity
<1>7. /\ Verdict(c, d, s).egress = ev /\ Verdict(c2, d2, s2).egress = ev
      /\ Verdict(c, d, s).downloadState = s /\ Verdict(c2, d2, s2).downloadState = s2
      /\ Verdict(c, d, s).disposition = Disposition(c, Reasons(c, d, s))
      /\ Verdict(c2, d2, s2).disposition = Disposition(c2, Reasons(c2, d2, s2))
      /\ Verdict(c, d, s).reasons \subseteq Reasons(c, d, s) \cup {"no_suspicious_signals"}
      /\ Reasons(c2, d2, s2) \subseteq Verdict(c2, d2, s2).reasons
  OBVIOUS
<1> HIDE DEF Verdict, Reasons, Disposition
<1> QED BY <1>2, <1>3, <1>4, <1>5, <1>6, <1>7 DEF Harder

(* A verdict given is that of an event reported, from rows that are there. *)
VerdictInv ==
    /\ reported \subseteq EgressEvents /\ DOMAIN result = Runs
    /\ \A r \in Runs : \A v \in result[r] :
          \E ev \in OfRun(reported, r), H \in SUBSET OfRun(httpSeen, r),
             D \in SUBSET OfRun(dns, r) : v = classifyOne(ev, H, D)

(* Events and rows are only added, and each call gives what they say now.  *)
LEMMA VerdictStep ==
  ASSUME VerdictInv, [ClassifierNext]_classifierVars
  PROVE  /\ VerdictInv'
         /\ \A r \in Runs : \A old \in result[r] : \E new \in result'[r] : Harder(new, old)
<1>1. /\ reported \subseteq reported' /\ httpSeen \subseteq httpSeen' /\ dns \subseteq dns'
      /\ reported' \subseteq EgressEvents
  BY DEF VerdictInv, ClassifierNext, AddEgress, AddHttp, AddDns,
     classify, classifierVars
<1>2. \A r : /\ OfRun(reported, r) \subseteq OfRun(reported', r)
             /\ OfRun(httpSeen, r) \subseteq OfRun(httpSeen', r)
             /\ OfRun(dns, r) \subseteq OfRun(dns', r)
  BY <1>1 DEF OfRun
<1>3. DOMAIN result' = Runs
  BY DEF VerdictInv, ClassifierNext, AddEgress, AddHttp, AddDns,
     classify, classifierVars
<1>4. ASSUME NEW r \in Runs, NEW old \in result[r]
      PROVE  \E new \in result'[r] : Harder(new, old)
  <2>1. PICK ev \in OfRun(reported, r), H \in SUBSET OfRun(httpSeen, r),
             D \in SUBSET OfRun(dns, r) : old = classifyOne(ev, H, D)
    BY <1>4 DEF VerdictInv
  <2>2. CASE old \in result'[r]
    BY <2>1, <2>2, MoreRowsNoSofter
  <2>3. CASE classify(r)
    <3>1. classifyOne(ev, OfRun(httpSeen, r), OfRun(dns, r)) \in result'[r]
      BY <2>1, <2>3 DEF classify, classification, VerdictInv
    <3> QED BY <2>1, <3>1, MoreRowsNoSofter
  <2>4. old \in result'[r] \/ classify(r)
    BY <1>4 DEF VerdictInv, ClassifierNext, AddEgress, AddHttp,
       AddDns, classify, classifierVars
  <2> QED BY <2>2, <2>3, <2>4
<1>5. ASSUME NEW r \in Runs, NEW v \in result'[r]
      PROVE  \E ev \in OfRun(reported', r), H \in SUBSET OfRun(httpSeen', r),
                D \in SUBSET OfRun(dns', r) : v = classifyOne(ev, H, D)
  <2>1. CASE v \in result[r]
    BY <1>2, <2>1 DEF VerdictInv
  <2>2. CASE classify(r)
    <3>1. PICK ev \in OfRun(reported, r) :
            v = classifyOne(ev, OfRun(httpSeen, r), OfRun(dns, r))
      BY <1>5, <2>2 DEF classify, classification, VerdictInv
    <3> QED BY <1>2, <3>1
  <2>3. v \in result[r] \/ classify(r)
    BY <1>5 DEF VerdictInv, ClassifierNext, AddEgress, AddHttp,
       AddDns, classify, classifierVars
  <2> QED BY <2>1, <2>2, <2>3
<1>6. VerdictInv'
  BY <1>1, <1>3, <1>5 DEF VerdictInv
<1> QED BY <1>4, <1>6

(* DownloadClassifier: whatever rows are added between two calls, a later  *)
(* verdict on an event of a run is no softer, keeps the reasons given and  *)
(* takes no completed download back.                                       *)
THEOREM VerdictsOnlyHarden == ClassifierSpec => VerdictNeverSoftens
<1>1. ClassifierInit => VerdictInv
  BY DEF ClassifierInit, VerdictInv
<1>2. VerdictInv /\ [ClassifierNext]_classifierVars => VerdictInv'
  BY VerdictStep
<1>3. VerdictInv /\ [ClassifierNext]_classifierVars =>
        [\A r \in Runs : \A old \in result[r] : \E new \in result'[r] : Harder(new, old)
        ]_classifierVars
  BY VerdictStep
<1> QED BY <1>1, <1>2, <1>3, PTL DEF ClassifierSpec, VerdictNeverSoftens, Harder
=============================================================================
