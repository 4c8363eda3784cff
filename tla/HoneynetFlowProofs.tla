--------------------------- MODULE HoneynetFlowProofs ---------------------------
(***************************************************************************)
(* Proofs about HoneynetFlow, for any number of connections, requests and  *)
(* log faults, and about HoneynetLifecycle, the scripts that start and     *)
(* remove the honeynet, for any number of starts and turns of the wait.    *)
(***************************************************************************)
EXTENDS HoneynetFlow, HoneynetLifecycle, TLAPS, SequenceTheorems, FiniteSetTheorems

-----------------------------------------------------------------------------
(* What the three outcomes of eventLogger.write do to the state of the logs.*)
LEMMA WriteKeepsLogs ==
  ASSUME TypeOK, NEW log \in Logs,
         \/ Written(log) /\ UNCHANGED faults
         \/ Written(log) /\ Fault(log)
         \/ Fault(log) /\ (torn' = torn \/ torn' = [torn EXCEPT ![log] = TRUE])
  PROVE  torn' \in [Logs -> BOOLEAN] /\ faults' \in [Logs -> 0..MaxFaults]
<1>1. torn' \in [Logs -> BOOLEAN]
  BY ZenonT(60) DEF TypeOK, Written, Fault
<1>2. faults' \in [Logs -> 0..MaxFaults]
  <2>1. CASE faults' = faults
    BY <2>1 DEF TypeOK
  <2>2. CASE Fault(log)
    <3>1. faults["network"] \in Nat /\ faults["http"] \in Nat /\ faults["network"] + faults["http"] < MaxFaults
      BY <2>2 DEF TypeOK, Fault, Logs
    <3>2. faults[log] + 1 \in 0..MaxFaults
      BY <3>1, BoundsAreNaturals DEF Logs
    <3> QED
      BY <2>2, <3>2 DEF TypeOK, Fault
  <2> QED
    BY <2>1, <2>2 DEF Written
<1> QED
  BY <1>1, <1>2

(* LogNetwork: Accept writes the row of the connection or refuses it.      *)
LEMMA LogNetworkEffect ==
  ASSUME TypeOK, NEW c \in Conns, LogNetwork(c) \/ LogNetworkFails(c)
  PROVE  /\ torn' \in [Logs -> BOOLEAN] /\ faults' \in [Logs -> 0..MaxFaults]
         /\ networkRows' \subseteq Conns \X BOOLEAN /\ networkRows \subseteq networkRows'
         /\ LogNetwork(c) => \E b \in BOOLEAN : <<c, b>> \in networkRows'
<1>1. torn["network"] \in BOOLEAN /\ "network" \in Logs
  BY DEF TypeOK, Logs
<1>2. \/ Written("network") /\ UNCHANGED faults
      \/ Written("network") /\ Fault("network")
      \/ Fault("network") /\ (torn' = torn \/ torn' = [torn EXCEPT !["network"] = TRUE])
  BY DEF LogNetwork, LogNetworkFails, WriteOk, SyncFails, WriteFails
<1>3. networkRows' = networkRows \cup {<<c, ~torn["network"]>>} \/ networkRows' = networkRows
  BY DEF LogNetwork, LogNetworkFails, WriteOk, SyncFails, WriteFails, NetworkRow
<1>4. LogNetwork(c) => networkRows' = networkRows \cup {<<c, ~torn["network"]>>}
  BY DEF LogNetwork, WriteOk, NetworkRow
<1>5. torn' \in [Logs -> BOOLEAN] /\ faults' \in [Logs -> 0..MaxFaults]
  BY <1>1, <1>2, WriteKeepsLogs
<1>6. <<c, ~torn["network"]>> \in Conns \X BOOLEAN /\ networkRows \subseteq Conns \X BOOLEAN
  BY <1>1 DEF TypeOK
<1>7. networkRows' \subseteq Conns \X BOOLEAN /\ networkRows \subseteq networkRows'
  BY <1>3, <1>6
<1>8. LogNetwork(c) => \E b \in BOOLEAN : <<c, b>> \in networkRows'
  BY <1>1, <1>4
<1> QED
  BY <1>5, <1>7, <1>8

\* The row a goroutine writes to http.jsonl.
Row(c, kind) ==
    [kind |-> kind, canary |-> IF kind = "request" THEN found[c] ELSE {},
     host |-> IF kind = "request" THEN NoHost ELSE host[c], clean |-> ~torn["http"]]

(* LogRequest and LogOpaque: http.jsonl gets one row of the flow or none.  *)
LEMMA LogHttpEffect ==
  ASSUME TypeOK, NEW c \in Conns, NEW kind \in {"request", "opaque"},
         \/ kind = "request" /\ (LogRequest(c) \/ LogRequestFails(c))
         \/ kind = "opaque" /\ LogOpaque(c)
  PROVE  /\ torn' \in [Logs -> BOOLEAN] /\ faults' \in [Logs -> 0..MaxFaults]
         /\ Row(c, kind) \in HttpRow
         /\ \/ httpRows' = httpRows
            \/ httpRows' = [httpRows EXCEPT ![c] = Append(@, Row(c, kind))]
         /\ LogRequest(c) => httpRows' = [httpRows EXCEPT ![c] = Append(@, Row(c, kind))]
<1>1. torn["http"] \in BOOLEAN /\ "http" \in Logs
  BY DEF TypeOK, Logs
<1>2. \/ Written("http") /\ UNCHANGED faults
      \/ Written("http") /\ Fault("http")
      \/ Fault("http") /\ (torn' = torn \/ torn' = [torn EXCEPT !["http"] = TRUE])
  BY DEF LogRequest, LogRequestFails, LogOpaque, WriteOk, SyncFails, WriteFails
<1>3. Row(c, kind) \in HttpRow
  BY <1>1 DEF Row, HttpRow, TypeOK
<1>4. CASE kind = "request" /\ LogRequest(c)
  <2>1. httpRows' = [httpRows EXCEPT ![c] = Append(@, Row(c, kind))]
    BY <1>4 DEF LogRequest, WriteOk, RequestRow, Row
  <2> QED
    BY <1>1, <1>2, <1>3, <2>1, WriteKeepsLogs
<1>5. CASE kind = "request" /\ LogRequestFails(c) /\ ~LogRequest(c)
  <2>1. \/ httpRows' = httpRows
        \/ httpRows' = [httpRows EXCEPT ![c] = Append(@, Row(c, kind))]
    BY <1>5 DEF LogRequestFails, SyncFails, WriteFails, RequestRow, Row
  <2> QED
    BY <1>1, <1>2, <1>3, <1>5, <2>1, WriteKeepsLogs
<1>6. CASE kind = "opaque" /\ LogOpaque(c)
  <2>1. \/ httpRows' = httpRows
        \/ httpRows' = [httpRows EXCEPT ![c] = Append(@, Row(c, kind))]
    BY <1>6 DEF LogOpaque, WriteOk, SyncFails, WriteFails, OpaqueRow, Row
  <2>2. ~LogRequest(c)
    BY <1>6 DEF LogOpaque, LogRequest
  <2> QED
    BY <1>1, <1>2, <1>3, <2>1, <2>2, WriteKeepsLogs
<1> QED
  BY <1>4, <1>5, <1>6

(* The state of the logs keeps its type when a goroutine writes http.jsonl.*)
LEMMA HttpTyped ==
  ASSUME TypeOK, NEW c \in Conns, LogRequest(c) \/ LogRequestFails(c) \/ LogOpaque(c)
  PROVE  /\ torn' \in [Logs -> BOOLEAN] /\ faults' \in [Logs -> 0..MaxFaults]
         /\ httpRows' \in [Conns -> Seq(HttpRow)]
<1>1. PICK kind \in {"request", "opaque"} :
         \/ kind = "request" /\ (LogRequest(c) \/ LogRequestFails(c))
         \/ kind = "opaque" /\ LogOpaque(c)
  OBVIOUS
<1>2. /\ torn' \in [Logs -> BOOLEAN] /\ faults' \in [Logs -> 0..MaxFaults]
      /\ Row(c, kind) \in HttpRow
      /\ \/ httpRows' = httpRows
         \/ httpRows' = [httpRows EXCEPT ![c] = Append(@, Row(c, kind))]
  BY <1>1, LogHttpEffect
<1>3. httpRows \in [Conns -> Seq(HttpRow)]
  BY DEF TypeOK
<1>4. Append(httpRows[c], Row(c, kind)) \in Seq(HttpRow)
  BY <1>2, <1>3
<1>5. httpRows' \in [Conns -> Seq(HttpRow)]
  BY <1>2, <1>3, <1>4
<1> QED
  BY <1>2, <1>5

-----------------------------------------------------------------------------
\* Every call of Close still to come is counted, so the count never falls below 0.
CloseCounted == \A c \in Conns : pc[c] \in {"closing", "opaque"} => closes[c] > 0

(* TypeOK is inductive together with CloseCounted. *)
LEMMA InitTyped == Init => TypeOK
<1> SUFFICES ASSUME Init PROVE TypeOK
  OBVIOUS
<1>1. /\ answers \in [Conns -> Seq({200, 400, 500})] /\ httpRows \in [Conns -> Seq(HttpRow)]
      /\ requests \in [Conns -> 0..MaxRequests] /\ faults \in [Logs -> 0..MaxFaults]
  BY BoundsAreNaturals DEF Init
<1>2. pc \in [Conns -> PCs] /\ host \in [Conns -> Hosts \cup {NoHost}]
  BY DEF Init, PCs
<1>3. /\ tls \in [Conns -> BOOLEAN] /\ requestSeen \in [Conns -> BOOLEAN]
      /\ opaqueLogged \in [Conns -> BOOLEAN]
      /\ failed \in BOOLEAN /\ stopped \in BOOLEAN
  BY DEF Init
<1>4. found \in [Conns -> SUBSET CanaryIds]
  BY DEF Init
<1>5. networkRows \subseteq Conns \X BOOLEAN
  BY DEF Init
<1>6. closes \in [Conns -> 0..2]
  BY DEF Init
<1>7. torn \in [Logs -> BOOLEAN]
  BY DEF Init
<1> QED
  BY <1>1, <1>2, <1>3, <1>4, <1>5, <1>6, <1>7 DEF TypeOK

(* TypeOK is kept by each action.                                          *)
LEMMA NextTyped == TypeOK /\ CloseCounted /\ [Next]_vars => TypeOK'
<1> SUFFICES ASSUME TypeOK, CloseCounted, [Next]_vars PROVE TypeOK'
  OBVIOUS
<1> USE DEF TypeOK, flow, handler, logs
<1>1. ASSUME NEW c \in Conns, NEW t \in BOOLEAN, Accept(c, t) PROVE TypeOK'
  BY <1>1 DEF Accept, PCs
<1>2. ASSUME NEW c \in Conns, LogNetwork(c) PROVE TypeOK'
  BY <1>2, LogNetworkEffect DEF LogNetwork, PCs
<1>3. ASSUME NEW c \in Conns, LogNetworkFails(c) PROVE TypeOK'
  BY <1>3, LogNetworkEffect DEF LogNetworkFails, PCs
<1>4. ASSUME NEW c \in Conns, NEW name \in Hosts \cup {NoHost}, GetCertificate(c, name) PROVE TypeOK'
  BY <1>4 DEF GetCertificate, noteTLSHost, PCs
<1>5. ASSUME NEW c \in Conns, HandshakeDone(c) PROVE TypeOK'
  BY <1>5 DEF HandshakeDone, PCs
<1>6. ASSUME NEW c \in Conns, HandshakeFails(c) PROVE TypeOK'
  BY <1>6 DEF HandshakeFails, PCs
<1>7. ASSUME NEW c \in Conns, NEW name \in Hosts \cup {NoHost}, NEW meta \in SUBSET CanaryIds,
             Request(c, name, meta) PROVE TypeOK'
  BY <1>7, BoundsAreNaturals DEF Request, noteTLSHost, PCs
<1>8. ASSUME NEW c \in Conns, NEW body \in SUBSET CanaryIds, BodyRead(c, body) PROVE TypeOK'
  BY <1>8 DEF BodyRead, PCs
<1>9. ASSUME NEW c \in Conns, BodyFails(c) PROVE TypeOK'
  BY <1>9 DEF BodyFails, Answer, PCs
<1>10. ASSUME NEW c \in Conns, LogRequest(c) \/ LogRequestFails(c) PROVE TypeOK'
  <2>1. /\ torn' \in [Logs -> BOOLEAN] /\ faults' \in [Logs -> 0..MaxFaults]
        /\ httpRows' \in [Conns -> Seq(HttpRow)]
    BY <1>10, HttpTyped
  <2>2. /\ pc' = [pc EXCEPT ![c] = "waiting"]
        /\ \E status \in {200, 500} : answers' = [answers EXCEPT ![c] = Append(@, status)]
        /\ UNCHANGED <<tls, requestSeen, opaqueLogged, host, closes, found, requests, networkRows,
                       failed, stopped>>
    BY <1>10 DEF LogRequest, LogRequestFails, Answer
  <2> QED
    BY <2>1, <2>2 DEF PCs
<1>11. ASSUME NEW c \in Conns, EndServing(c) PROVE TypeOK'
  BY <1>11 DEF EndServing, PCs
<1>12. ASSUME NEW c \in Conns, Close(c) PROVE TypeOK'
  <2>1. closes[c] \in 0..2 /\ closes[c] > 0
    BY <1>12 DEF Close, CloseCounted
  <2>2. pc' \in [Conns -> PCs] /\ closes' \in [Conns -> 0..2] /\ opaqueLogged' \in [Conns -> BOOLEAN]
    <3>1. CASE MustLogOpaque(c)
      <4>1. /\ opaqueLogged' = [opaqueLogged EXCEPT ![c] = TRUE]
            /\ pc' = [pc EXCEPT ![c] = "opaque"] /\ closes' = closes
        BY <1>12, <3>1 DEF Close
      <4>2. "opaque" \in PCs
        BY DEF PCs
      <4> QED
        BY <4>1, <4>2
    <3>2. CASE ~MustLogOpaque(c)
      <4>1. closes[c] - 1 \in 0..2
        BY <2>1
      <4>2. AfterClose(c) \in PCs
        BY DEF AfterClose, PCs
      <4>3. /\ closes' = [closes EXCEPT ![c] = closes[c] - 1]
            /\ pc' = [pc EXCEPT ![c] = AfterClose(c)] /\ opaqueLogged' = opaqueLogged
        BY <1>12, <3>2 DEF Close
      <4> QED
        BY <4>1, <4>2, <4>3
    <3> QED
      BY <3>1, <3>2
  <2> QED
    BY <1>12, <2>2 DEF Close
<1>13. ASSUME NEW c \in Conns, LogOpaque(c) PROVE TypeOK'
  <2>1. closes[c] \in 0..2 /\ closes[c] > 0
    BY <1>13 DEF LogOpaque, CloseCounted
  <2>2. pc' \in [Conns -> PCs] /\ closes' \in [Conns -> 0..2]
    BY <1>13, <2>1 DEF LogOpaque, AfterClose, PCs
  <2>3. /\ torn' \in [Logs -> BOOLEAN] /\ faults' \in [Logs -> 0..MaxFaults]
        /\ httpRows' \in [Conns -> Seq(HttpRow)]
    BY <1>13, HttpTyped
  <2> QED
    BY <1>13, <2>2, <2>3 DEF LogOpaque
<1>14. CASE Exit
  BY <1>14 DEF Exit
<1>15. CASE UNCHANGED vars
  BY <1>15 DEF vars
<1> QED
  BY <1>1, <1>2, <1>3, <1>4, <1>5, <1>6, <1>7, <1>8, <1>9, <1>10, <1>11, <1>12, <1>13,
     <1>14, <1>15, ZenonT(60) DEF Next, Step

-----------------------------------------------------------------------------
(* The inductive invariant: what the logs and the fields of connectionFlow *)
(* hold of a flow, by the point its goroutine has reached.                 *)
Early == {"none", "accepted", "refused"}

FlowInv(c) ==
    /\ pc[c] \in Early => httpRows[c] = <<>>
    /\ pc[c] \notin Early => \E b \in BOOLEAN : <<c, b>> \in networkRows
    /\ pc[c] \in {"reading", "logging"} => requestSeen[c]
    /\ pc[c] = "opaque" => tls[c] /\ ~requestSeen[c] /\ opaqueLogged[c] /\ httpRows[c] = <<>>
    /\ pc[c] = "closed" /\ tls[c] => requestSeen[c] \/ opaqueLogged[c]
    /\ opaqueLogged[c] => pc[c] \in {"opaque", "closing", "closed"}
    /\ opaqueLogged[c] /\ pc[c] # "opaque" /\ faults["http"] = 0 => httpRows[c] # <<>>
    /\ requestSeen[c] => \A k \in DOMAIN httpRows[c] : httpRows[c][k].kind = "request"
    /\ ~requestSeen[c] =>
         /\ ~opaqueLogged[c] => httpRows[c] = <<>>
         /\ Len(httpRows[c]) <= 1
         /\ httpRows[c] # <<>> => tls[c] /\ httpRows[c][1].kind = "opaque"

IInv == TypeOK /\ CloseCounted /\ \A c \in Conns : FlowInv(c)

-----------------------------------------------------------------------------
(* Only a failed write touches the counter of faults, and it adds to it.   *)
LEMMA FaultsGrow ==
  ASSUME TypeOK, NEW log \in Logs, UNCHANGED faults \/ Fault(log), faults'["http"] = 0
  PROVE  faults["http"] = 0
  BY DEF TypeOK, Fault, Logs

Others(c) ==
    /\ \A d \in Conns \ {c} :
         /\ pc'[d] = pc[d] /\ tls'[d] = tls[d] /\ requestSeen'[d] = requestSeen[d]
         /\ opaqueLogged'[d] = opaqueLogged[d] /\ closes'[d] = closes[d]
         /\ httpRows'[d] = httpRows[d] /\ answers'[d] = answers[d]
    /\ networkRows \subseteq networkRows'
    /\ faults'["http"] = 0 => faults["http"] = 0

(* A step of one connection leaves the state of every other alone.         *)
LEMMA StepLocal ==
  ASSUME TypeOK, NEW c \in Conns, Step(c)
  PROVE  Others(c)
<1> USE DEF Others, flow, handler, logs
<1>1. ASSUME NEW t \in BOOLEAN, Accept(c, t) PROVE Others(c)
  BY <1>1 DEF Accept, TypeOK
<1>2. CASE LogNetwork(c) \/ LogNetworkFails(c)
  <2>1. networkRows \subseteq networkRows'
    BY <1>2, LogNetworkEffect
  <2>2. UNCHANGED faults \/ Fault("network")
    BY <1>2 DEF LogNetwork, LogNetworkFails, WriteOk, SyncFails, WriteFails
  <2>3. faults'["http"] = 0 => faults["http"] = 0
    BY <2>2, FaultsGrow DEF Logs
  <2>4. /\ UNCHANGED <<tls, requestSeen, opaqueLogged, closes, httpRows, answers>>
        /\ \A d \in Conns \ {c} : pc'[d] = pc[d]
    BY <1>2 DEF LogNetwork, LogNetworkFails, TypeOK
  <2> QED
    BY <2>1, <2>3, <2>4
<1>3. CASE LogRequest(c) \/ LogRequestFails(c) \/ LogOpaque(c)
  <2>1. UNCHANGED faults \/ Fault("http")
    BY <1>3 DEF LogRequest, LogRequestFails, LogOpaque, WriteOk, SyncFails, WriteFails
  <2>2. faults'["http"] = 0 => faults["http"] = 0
    BY <2>1, FaultsGrow DEF Logs
  <2>3. \A d \in Conns \ {c} : httpRows'[d] = httpRows[d]
    <3>1. \/ httpRows' = httpRows
          \/ \E row : httpRows' = [httpRows EXCEPT ![c] = Append(@, row)]
      BY <1>3, LogHttpEffect
    <3> QED
      BY <3>1 DEF TypeOK
  <2>4. /\ UNCHANGED <<tls, requestSeen, opaqueLogged, networkRows>>
        /\ \A d \in Conns \ {c} : pc'[d] = pc[d] /\ closes'[d] = closes[d] /\ answers'[d] = answers[d]
    BY <1>3 DEF LogRequest, LogRequestFails, LogOpaque, Answer, TypeOK
  <2> QED
    BY <2>2, <2>3, <2>4
<1>4. ASSUME NEW name \in Hosts \cup {NoHost}, GetCertificate(c, name) PROVE Others(c)
  BY <1>4 DEF GetCertificate, TypeOK
<1>5. CASE HandshakeDone(c) \/ HandshakeFails(c) \/ BodyFails(c) \/ EndServing(c)
  BY <1>5 DEF HandshakeDone, HandshakeFails, BodyFails, Answer, EndServing, TypeOK
<1>6. ASSUME NEW name \in Hosts \cup {NoHost}, NEW meta \in SUBSET CanaryIds, Request(c, name, meta)
      PROVE Others(c)
  BY <1>6 DEF Request, TypeOK
<1>7. ASSUME NEW body \in SUBSET CanaryIds, BodyRead(c, body) PROVE Others(c)
  BY <1>7 DEF BodyRead, TypeOK
<1>8. CASE Close(c)
  BY <1>8 DEF Close, TypeOK
<1> QED
  BY <1>1, <1>2, <1>3, <1>4, <1>5, <1>6, <1>7, <1>8 DEF Step

-----------------------------------------------------------------------------
(* A step of a connection keeps its own part of the invariant.             *)
Counted(c) == pc[c] \in {"closing", "opaque"} => closes[c] > 0

(* AfterClose leaves a connection "closing" only while a close is to come. *)
LEMMA CloseLeft ==
  ASSUME TypeOK, NEW c \in Conns, Counted(c), pc[c] \in {"closing", "opaque"},
         pc'[c] = AfterClose(c), closes'[c] = closes[c] - 1
  PROVE  pc'[c] = "closing" => closes'[c] > 0
<1>1. closes[c] \in 0..2
  BY DEF TypeOK
<1>2. closes[c] > 0
  BY DEF Counted
<1>3. pc'[c] = "closing" => closes[c] # 1
  BY DEF AfterClose
<1> QED
  BY <1>1, <1>2, <1>3

(* Each action of c, for c.                                                *)
LEMMA OwnStep ==
  ASSUME TypeOK, NEW c \in Conns, FlowInv(c), Counted(c), Step(c)
  PROVE  FlowInv(c)' /\ Counted(c)'
<1> USE DEF flow, handler, logs, Early
<1>1. ASSUME NEW t \in BOOLEAN, Accept(c, t) PROVE FlowInv(c)' /\ Counted(c)'
  <2>1. /\ pc[c] = "none" /\ pc'[c] = "accepted" /\ httpRows'[c] = httpRows[c]
        /\ requestSeen'[c] = requestSeen[c] /\ opaqueLogged'[c] = opaqueLogged[c]
    BY <1>1 DEF Accept, TypeOK
  <2> QED
    BY <2>1 DEF FlowInv, Counted
<1>2. CASE LogNetwork(c)
  <2>1. \E b \in BOOLEAN : <<c, b>> \in networkRows'
    BY <1>2, LogNetworkEffect
  <2>2. /\ pc[c] = "accepted" /\ pc'[c] \in {"handshake", "waiting"}
        /\ UNCHANGED <<tls, requestSeen, opaqueLogged, httpRows>>
    BY <1>2 DEF LogNetwork, TypeOK
  <2> QED
    BY <2>1, <2>2 DEF FlowInv, Counted
<1>3. CASE LogNetworkFails(c)
  <2>1. /\ pc[c] = "accepted" /\ pc'[c] = "refused"
        /\ UNCHANGED <<tls, requestSeen, opaqueLogged, httpRows>>
    BY <1>3 DEF LogNetworkFails, TypeOK
  <2> QED
    BY <2>1 DEF FlowInv, Counted
<1>4. CASE HandshakeDone(c) \/ \E name \in Hosts \cup {NoHost} : GetCertificate(c, name)
  <2>1. /\ pc[c] \in {"handshake", "hello"} /\ pc'[c] \in {"hello", "waiting"}
        /\ UNCHANGED <<tls, requestSeen, opaqueLogged, httpRows, networkRows, faults>>
    BY <1>4 DEF HandshakeDone, GetCertificate, TypeOK
  <2> QED
    BY <2>1 DEF FlowInv, Counted
<1>5. CASE HandshakeFails(c) \/ EndServing(c)
  <2>1. /\ pc[c] \in {"handshake", "hello", "waiting"} /\ pc'[c] = "closing"
        /\ UNCHANGED <<tls, requestSeen, opaqueLogged, httpRows, networkRows, faults>>
    BY <1>5 DEF HandshakeFails, EndServing, TypeOK
  <2>2. closes'[c] > 0
    BY <1>5 DEF HandshakeFails, EndServing, TypeOK
  <2> QED
    BY <2>1, <2>2 DEF FlowInv, Counted
<1>6. ASSUME NEW name \in Hosts \cup {NoHost}, NEW meta \in SUBSET CanaryIds, Request(c, name, meta)
      PROVE FlowInv(c)' /\ Counted(c)'
  <2>1. /\ pc[c] = "waiting" /\ pc'[c] = "reading" /\ requestSeen'[c]
        /\ UNCHANGED <<tls, opaqueLogged, httpRows, networkRows, faults>>
    BY <1>6 DEF Request, TypeOK
  <2>2. ~opaqueLogged[c]
    BY <2>1 DEF FlowInv
  <2>3. \A k \in DOMAIN httpRows[c] : httpRows[c][k].kind = "request"
    BY <2>2 DEF FlowInv, TypeOK
  <2> QED
    BY <2>1, <2>2, <2>3 DEF FlowInv, Counted
<1>7. CASE BodyFails(c) \/ \E body \in SUBSET CanaryIds : BodyRead(c, body)
  <2>1. /\ pc[c] = "reading" /\ pc'[c] \in {"logging", "waiting"}
        /\ UNCHANGED <<tls, requestSeen, opaqueLogged, httpRows, networkRows, faults>>
    BY <1>7 DEF BodyFails, BodyRead, TypeOK
  <2> QED
    BY <2>1 DEF FlowInv, Counted
<1>8. CASE LogRequest(c) \/ LogRequestFails(c)
  <2>1. /\ pc[c] = "logging" /\ pc'[c] = "waiting" /\ requestSeen[c] /\ ~opaqueLogged[c]
        /\ UNCHANGED <<tls, requestSeen, opaqueLogged, networkRows>>
    BY <1>8 DEF LogRequest, LogRequestFails, TypeOK, FlowInv
  <2>2. \/ httpRows'[c] = httpRows[c]
        \/ httpRows'[c] = Append(httpRows[c], Row(c, "request"))
    BY <1>8, LogHttpEffect DEF TypeOK
  <2>3. httpRows[c] \in Seq(HttpRow) /\ Row(c, "request") \in HttpRow
        /\ Row(c, "request").kind = "request"
    BY <1>8, LogHttpEffect, ZenonT(60) DEF TypeOK, Row
  <2>4. \A k \in DOMAIN httpRows[c] : httpRows[c][k].kind = "request"
    BY <2>1 DEF FlowInv
  <2>5. \A k \in DOMAIN httpRows'[c] : httpRows'[c][k].kind = "request"
    BY <2>2, <2>3, <2>4, AppendProperties, SMTT(60)
  <2> QED
    BY <2>1, <2>5 DEF FlowInv, Counted
<1>9. CASE Close(c) /\ MustLogOpaque(c)
  <2>1. /\ pc[c] = "closing" /\ pc'[c] = "opaque" /\ opaqueLogged'[c]
        /\ tls[c] /\ ~requestSeen[c] /\ ~opaqueLogged[c]
        /\ UNCHANGED <<tls, requestSeen, closes, httpRows, networkRows, faults>>
    BY <1>9 DEF Close, MustLogOpaque, TypeOK
  <2> QED
    BY <2>1 DEF FlowInv, Counted
<1>10. CASE Close(c) /\ ~MustLogOpaque(c)
  <2>1. /\ pc[c] = "closing" /\ pc'[c] = AfterClose(c) /\ closes'[c] = closes[c] - 1
        /\ UNCHANGED <<tls, requestSeen, opaqueLogged, httpRows, networkRows, faults>>
    BY <1>10 DEF Close, TypeOK
  <2>2. tls[c] => requestSeen[c] \/ opaqueLogged[c]
    BY <1>10 DEF MustLogOpaque
  <2>3. pc'[c] \in {"closing", "closed"}
    BY <2>1 DEF AfterClose
  <2>4. pc'[c] = "closing" => closes'[c] > 0
    BY <2>1, CloseLeft
  <2> QED
    BY <2>1, <2>2, <2>3, <2>4 DEF FlowInv, Counted
<1>11. CASE LogOpaque(c)
  <2>1. /\ pc[c] = "opaque" /\ pc'[c] = AfterClose(c) /\ closes'[c] = closes[c] - 1
        /\ tls[c] /\ ~requestSeen[c] /\ opaqueLogged[c] /\ httpRows[c] = <<>>
        /\ UNCHANGED <<tls, requestSeen, opaqueLogged, networkRows>>
    BY <1>11 DEF LogOpaque, FlowInv, TypeOK
  <2>2. pc'[c] \in {"closing", "closed"}
    BY <2>1 DEF AfterClose
  <2>3. pc'[c] = "closing" => closes'[c] > 0
    BY <2>1, CloseLeft
  <2>4. Row(c, "opaque").kind = "opaque" /\ Row(c, "opaque") \in HttpRow
    BY <1>11, LogHttpEffect DEF Row
  <2>5. \/ httpRows'[c] = <<>>
        \/ httpRows'[c] = <<Row(c, "opaque")>>
    BY <1>11, <2>1, LogHttpEffect DEF TypeOK
  <2>6. faults'["http"] = 0 => httpRows'[c] # <<>>
    <3>1. SUFFICES ASSUME faults'["http"] = 0 PROVE httpRows'[c] # <<>>
      OBVIOUS
    <3>2. ~Fault("http")
      BY <3>1 DEF Fault, TypeOK, Logs
    <3>3. httpRows' = [httpRows EXCEPT ![c] = Append(@, Row(c, "opaque"))]
      BY <1>11, <3>2 DEF LogOpaque, WriteOk, SyncFails, WriteFails, OpaqueRow, Row
    <3> QED
      BY <2>1, <2>4, <3>3 DEF TypeOK
  <2>7. Len(httpRows'[c]) <= 1 /\ (httpRows'[c] # <<>> => httpRows'[c][1].kind = "opaque")
    <3> DEFINE row == Row(c, "opaque")
    <3>1. row.kind = "opaque" /\ (httpRows'[c] = <<>> \/ httpRows'[c] = <<row>>)
      BY <2>4, <2>5
    <3> HIDE DEF row
    <3>2. CASE httpRows'[c] = <<>>
      BY <3>2
    <3>3. CASE httpRows'[c] = <<row>>
      BY <3>1, <3>3
    <3> QED
      BY <3>1, <3>2, <3>3
  <2> QED
    BY <2>1, <2>2, <2>3, <2>6, <2>7 DEF FlowInv, Counted
<1> QED
  BY <1>1, <1>2, <1>3, <1>4, <1>5, <1>6, <1>7, <1>8, <1>9, <1>10, <1>11 DEF Step

-----------------------------------------------------------------------------
(* And for every connection, by OwnStep and StepLocal.                     *)
LEMMA FlowStep ==
  TypeOK /\ CloseCounted /\ (\A c \in Conns : FlowInv(c)) /\ [Next]_vars
    => CloseCounted' /\ (\A c \in Conns : FlowInv(c)')
<1> SUFFICES ASSUME TypeOK, CloseCounted, \A c \in Conns : FlowInv(c), [Next]_vars,
                    NEW d \in Conns
             PROVE  FlowInv(d)' /\ Counted(d)'
  BY DEF CloseCounted, Counted
<1>0. Counted(d) /\ FlowInv(d)
  BY DEF CloseCounted, Counted
<1>1. CASE Step(d)
  BY <1>0, <1>1, OwnStep
<1>2. ASSUME NEW c \in Conns, Step(c), d # c PROVE FlowInv(d)' /\ Counted(d)'
  <2>1. /\ pc'[d] = pc[d] /\ tls'[d] = tls[d] /\ requestSeen'[d] = requestSeen[d]
        /\ opaqueLogged'[d] = opaqueLogged[d] /\ closes'[d] = closes[d]
        /\ httpRows'[d] = httpRows[d] /\ networkRows \subseteq networkRows'
        /\ faults'["http"] = 0 => faults["http"] = 0
    BY <1>2, StepLocal DEF Others
  <2> QED
    BY <1>0, <2>1, SMTT(60) DEF FlowInv, Counted
<1>3. CASE Exit \/ UNCHANGED vars
  BY <1>0, <1>3 DEF Exit, vars, flow, logs, handler, FlowInv, Counted
<1> QED
  BY <1>1, <1>2, <1>3 DEF Next

(* IInv holds in every reachable state. *)
LEMMA Inductive == Spec => []IInv
<1>1. Init => IInv
  <2> SUFFICES ASSUME Init PROVE IInv
    OBVIOUS
  <2>1. TypeOK
    BY InitTyped
  <2>2. CloseCounted
    BY DEF Init, CloseCounted
  <2>3. ASSUME NEW c \in Conns PROVE FlowInv(c)
    BY <2>3 DEF Init, FlowInv, Early
  <2> QED
    BY <2>1, <2>2, <2>3 DEF IInv
<1>2. IInv /\ [Next]_vars => IInv'
  BY NextTyped, FlowStep DEF IInv
<1> QED
  BY <1>1, <1>2, PTL DEF Spec

-----------------------------------------------------------------------------
(* The state of the listener and its connections keeps its type: no double *)
(* Close drives the count of closes below zero.                            *)
THEOREM TypeCorrect == Spec => []TypeOK
<1>1. IInv => TypeOK
  BY DEF IInv
<1> QED
  BY <1>1, Inductive, PTL

(* Accept writes and syncs before it returns: whatever fails and however   *)
(* goroutines interleave, a flow in http.jsonl is in network.jsonl.        *)
THEOREM NetworkRowComesFirst == Spec => []NetworkRowFirst
<1>1. IInv => NetworkRowFirst
  BY DEF IInv, NetworkRowFirst, FlowInv
<1> QED
  BY <1>1, Inductive, PTL

(* logFailedTLSHandshake: one opaque row for a TLS flow without a request, *)
(* none for any other, under any number of calls of Close.                 *)
THEOREM OpaqueRowsAreUnique == Spec => []OpaqueOnlyOnce
<1>1. IInv => OpaqueOnlyOnce
  <2> SUFFICES ASSUME IInv, NEW c \in Conns, Rows(c, "opaque") # {}
               PROVE  tls[c] /\ Cardinality(Rows(c, "opaque")) = 1 /\ Rows(c, "request") = {}
    BY DEF OpaqueOnlyOnce
  <2>1. FlowInv(c) /\ httpRows[c] \in Seq(HttpRow)
    BY DEF IInv, TypeOK
  <2>2. ~requestSeen[c]
    BY <2>1 DEF FlowInv, Rows
  <2>3. /\ Len(httpRows[c]) <= 1 /\ httpRows[c] # <<>>
        /\ tls[c] /\ httpRows[c][1].kind = "opaque"
    BY <2>1, <2>2 DEF FlowInv, Rows
  <2>4. DOMAIN httpRows[c] = {1}
    BY <2>1, <2>3
  <2>5. Rows(c, "opaque") = {1} /\ Rows(c, "request") = {}
    BY <2>3, <2>4 DEF Rows
  <2> QED
    BY <2>3, <2>5, FS_Singleton
<1> QED
  BY <1>1, Inductive, PTL

(* Close: while http.jsonl can be written, no TLS connection ends without a*)
(* request or an opaque row, and so none disappears from the report.       *)
THEOREM ClosedTLSIsLogged == Spec => []ClosedTLSIsVisible
<1>1. IInv => ClosedTLSIsVisible
  <2> SUFFICES ASSUME IInv, NEW c \in Conns, pc[c] = "closed", tls[c], faults["http"] = 0,
                      ~requestSeen[c]
               PROVE  Rows(c, "opaque") # {}
    BY DEF ClosedTLSIsVisible
  <2>1. FlowInv(c) /\ httpRows[c] \in Seq(HttpRow)
    BY DEF IInv, TypeOK
  <2>2. httpRows[c] # <<>> /\ httpRows[c][1].kind = "opaque"
    BY <2>1 DEF FlowInv
  <2>3. 1 \in DOMAIN httpRows[c]
    BY <2>1, <2>2
  <2> QED
    BY <2>2, <2>3 DEF Rows
<1> QED
  BY <1>1, Inductive, PTL

-----------------------------------------------------------------------------
\* The positions of s that hold a member of T.
Positions(s, T) == {k \in DOMAIN s : s[k] \in T}

(* Positions(s, T) is finite.                                              *)
LEMMA CountNat ==
  ASSUME NEW S, NEW T, NEW s \in Seq(S)
  PROVE  Cardinality(Positions(s, T)) \in Nat
<1>1. Positions(s, T) \subseteq 1..Len(s) /\ IsFiniteSet(1..Len(s))
  BY FS_Interval DEF Positions
<1> QED
  BY <1>1, FS_Subset, FS_CardinalityType

(* Appending to a sequence adds its new position to the positions that     *)
(* hold a member of T exactly when the new element is one.                 *)
LEMMA CountAppend ==
  ASSUME NEW S, NEW T, NEW s \in Seq(S), NEW x \in S
  PROVE  Cardinality(Positions(Append(s, x), T))
           = Cardinality(Positions(s, T)) + (IF x \in T THEN 1 ELSE 0)
<1>1. /\ Len(s) \in Nat /\ DOMAIN s = 1..Len(s)
      /\ DOMAIN Append(s, x) = 1..(Len(s) + 1) /\ Append(s, x)[Len(s) + 1] = x
      /\ \A k \in 1..Len(s) : Append(s, x)[k] = s[k]
  BY AppendProperties
<1>2. IsFiniteSet(Positions(s, T)) /\ Len(s) + 1 \notin Positions(s, T)
  <2>1. Positions(s, T) \subseteq 1..Len(s) /\ IsFiniteSet(1..Len(s))
    BY <1>1, FS_Interval DEF Positions
  <2>2. IsFiniteSet(Positions(s, T))
    BY <2>1, FS_Subset
  <2> QED
    BY <1>1, <2>1, <2>2
<1>3. CASE x \in T
  <2>1. Positions(Append(s, x), T) = Positions(s, T) \cup {Len(s) + 1}
    BY <1>1, <1>3 DEF Positions
  <2> QED
    BY <1>2, <1>3, <2>1, FS_AddElement, FS_CardinalityType
<1>4. CASE x \notin T
  <2>1. Positions(Append(s, x), T) = Positions(s, T)
    BY <1>1, <1>4 DEF Positions
  <2> QED
    BY <1>2, <1>4, <2>1, FS_CardinalityType
<1> QED
  BY <1>3, <1>4

Requests == {row \in HttpRow : row.kind = "request"}

(* The counts of ServedIsLogged are counts of positions.                   *)
LEMMA RowsArePositions ==
  ASSUME NEW c \in Conns, httpRows[c] \in Seq(HttpRow)
  PROVE  Rows(c, "request") = Positions(httpRows[c], Requests)
  BY DEF Rows, Positions, Requests

(* Likewise for the answers.                                               *)
LEMMA AnsweredArePositions ==
  ASSUME NEW c \in Conns
  PROVE  Answered(c, 200) = Positions(answers[c], {200})
  BY DEF Answered, Positions

\* ServedIsLogged for one connection, in terms of Positions.
Served(c) ==
    Cardinality(Positions(answers[c], {200})) <= Cardinality(Positions(httpRows[c], Requests))
AllServed == \A c \in Conns : Served(c)

(* Only LogRequest answers 200, and it has just appended a request.        *)
LEMMA ServedStep ==
  ASSUME TypeOK, TypeOK', \A c \in Conns : Served(c), [Next]_vars, NEW d \in Conns
  PROVE  Served(d)'
<1> USE DEF flow, handler, logs
<1>0. /\ answers[d] \in Seq({200, 400, 500}) /\ httpRows[d] \in Seq(HttpRow)
      /\ Cardinality(Positions(answers[d], {200})) \in Nat
      /\ Cardinality(Positions(httpRows[d], Requests)) \in Nat
  <2>1. answers[d] \in Seq({200, 400, 500}) /\ httpRows[d] \in Seq(HttpRow)
    BY DEF TypeOK
  <2> QED
    BY <2>1, CountNat
<1>00. ASSUME NEW row \in HttpRow, httpRows'[d] = Append(httpRows[d], row)
       PROVE  Cardinality(Positions(httpRows'[d], Requests))
                = Cardinality(Positions(httpRows[d], Requests)) + (IF row \in Requests THEN 1 ELSE 0)
  BY <1>0, <1>00, CountAppend
<1>1. CASE answers'[d] = answers[d] /\ httpRows'[d] = httpRows[d]
  BY <1>1 DEF Served
<1>2. CASE LogRequest(d)
  <2>1. Row(d, "request") \in HttpRow
        /\ httpRows' = [httpRows EXCEPT ![d] = Append(@, Row(d, "request"))]
    BY <1>2, LogHttpEffect
  <2>2. httpRows'[d] = Append(httpRows[d], Row(d, "request"))
    BY <2>1 DEF TypeOK
  <2>3. Row(d, "request") \in Requests
    BY <2>1 DEF Row, Requests
  <2>4. Cardinality(Positions(httpRows'[d], Requests))
          = Cardinality(Positions(httpRows[d], Requests)) + 1
    BY <1>00, <2>1, <2>2, <2>3
  <2>5. answers'[d] = Append(answers[d], 200)
    BY <1>2 DEF LogRequest, Answer, TypeOK
  <2>6. 200 \in {200, 400, 500} /\ 200 \in {200}
    OBVIOUS
  <2>7. Cardinality(Positions(answers'[d], {200})) = Cardinality(Positions(answers[d], {200})) + 1
    BY <1>0, <2>5, <2>6, CountAppend
  <2> QED
    BY <1>0, <2>4, <2>7 DEF Served
<1>3. CASE LogRequestFails(d) \/ BodyFails(d)
  <2>1. PICK status \in {400, 500} : answers'[d] = Append(answers[d], status)
    BY <1>3 DEF LogRequestFails, BodyFails, Answer, TypeOK
  <2>2. status \in {200, 400, 500} /\ status \notin {200}
    BY <2>1
  <2>3. Cardinality(Positions(answers'[d], {200})) = Cardinality(Positions(answers[d], {200}))
    BY <1>0, <2>1, <2>2, CountAppend
  <2>4. \/ httpRows'[d] = httpRows[d]
        \/ \E row \in HttpRow : httpRows'[d] = Append(httpRows[d], row)
    <3>1. CASE BodyFails(d)
      BY <3>1 DEF BodyFails
    <3>2. CASE LogRequestFails(d)
      <4>1. Row(d, "request") \in HttpRow
            /\ (httpRows' = httpRows \/ httpRows' = [httpRows EXCEPT ![d] = Append(@, Row(d, "request"))])
        BY <3>2, LogHttpEffect
      <4> QED
        BY <4>1 DEF TypeOK
    <3> QED
      BY <1>3, <3>1, <3>2
  <2>5. /\ Cardinality(Positions(httpRows'[d], Requests)) >= Cardinality(Positions(httpRows[d], Requests))
        /\ Cardinality(Positions(httpRows'[d], Requests)) \in Nat
    BY <1>0, <1>00, <2>4
  <2> QED
    BY <1>0, <2>3, <2>5 DEF Served
<1>4. CASE LogOpaque(d)
  <2>1. answers'[d] = answers[d]
    BY <1>4 DEF LogOpaque
  <2>2. \/ httpRows'[d] = httpRows[d]
        \/ \E row \in HttpRow : httpRows'[d] = Append(httpRows[d], row)
    <3>1. Row(d, "opaque") \in HttpRow
          /\ (httpRows' = httpRows \/ httpRows' = [httpRows EXCEPT ![d] = Append(@, Row(d, "opaque"))])
      BY <1>4, LogHttpEffect
    <3> QED
      BY <3>1 DEF TypeOK
  <2>3. /\ Cardinality(Positions(httpRows'[d], Requests)) >= Cardinality(Positions(httpRows[d], Requests))
        /\ Cardinality(Positions(httpRows'[d], Requests)) \in Nat
    BY <1>0, <1>00, <2>2
  <2> QED
    BY <1>0, <2>1, <2>3 DEF Served
<1>5. ASSUME NEW c \in Conns, Step(c)
      PROVE  \/ answers'[d] = answers[d] /\ httpRows'[d] = httpRows[d]
             \/ LogRequest(d) \/ LogRequestFails(d) \/ BodyFails(d) \/ LogOpaque(d)
  <2>1. CASE c # d
    BY <1>5, <2>1, StepLocal DEF Others
  <2>2. CASE c = d
    BY <1>5, <2>2 DEF Step, Accept, LogNetwork, LogNetworkFails, GetCertificate, HandshakeDone,
       HandshakeFails, Request, BodyRead, EndServing, Close
  <2> QED
    BY <2>1, <2>2
<1>6. Exit \/ UNCHANGED vars => answers'[d] = answers[d] /\ httpRows'[d] = httpRows[d]
  BY DEF Exit, vars
<1> QED
  BY <1>1, <1>2, <1>3, <1>4, <1>5, <1>6 DEF Next

(* syntheticHandler: success is never reported to the client before its row*)
(* is in http.jsonl, for any interleaving and any failures.                *)
THEOREM ServedRequestsAreLogged == Spec => []ServedIsLogged
<1>1. Init => AllServed
  <2> SUFFICES ASSUME Init, NEW c \in Conns PROVE Served(c)
    BY DEF AllServed
  <2>1. Positions(answers[c], {200}) = {} /\ Positions(httpRows[c], Requests) = {}
    BY DEF Init, Positions
  <2> QED
    BY <2>1, FS_EmptySet DEF Served
<1>2. TypeOK /\ TypeOK' /\ AllServed /\ [Next]_vars => AllServed'
  BY ServedStep DEF AllServed
<1>3. IInv => TypeOK
  BY DEF IInv
<1>4. TypeOK /\ AllServed => ServedIsLogged
  BY RowsArePositions, AnsweredArePositions DEF ServedIsLogged, AllServed, Served, TypeOK
<1> QED
  BY <1>1, <1>2, <1>3, <1>4, Inductive, PTL DEF Spec

-----------------------------------------------------------------------------
(* Damage to the logs. *)

BadNetwork == {w \in networkRows : ~w[2]}
BadHttp == UNION {{<<c, k>> : k \in {n \in DOMAIN httpRows[c] : ~httpRows[c][n].clean}} : c \in Conns}

\* A fault of the log has paid for each bad row, and for the fragment at its end.
Paid(bad, log) ==
    IsFiniteSet(bad) /\ Cardinality(bad) + (IF torn[log] THEN 1 ELSE 0) <= faults[log]

DamageInv == Paid(BadNetwork, "network") /\ Paid(BadHttp, "http")

(* A write makes one more bad row where it follows a fragment, which it    *)
(* ends; it leaves a fragment only where it fails.                         *)
LEMMA WritePays ==
  ASSUME TypeOK, NEW log \in Logs, NEW bad, NEW bad2, Paid(bad, log),
         \/ /\ WriteOk(log) \/ SyncFails(log)
            /\ bad2 = bad \/ (torn[log] /\ \E x : bad2 = bad \cup {x})
         \/ WriteFails(log) /\ bad2 = bad
  PROVE  /\ IsFiniteSet(bad2)
         /\ Cardinality(bad2) + (IF torn'[log] THEN 1 ELSE 0) <= faults'[log]
         /\ \A other \in Logs \ {log} : torn'[other] = torn[other] /\ faults'[other] = faults[other]
<1>1. PICK n, f \in Nat : n = Cardinality(bad) /\ f = faults[log]
  BY FS_CardinalityType DEF Paid, TypeOK
<1>2. IsFiniteSet(bad) /\ n + (IF torn[log] THEN 1 ELSE 0) <= f /\ torn[log] \in BOOLEAN
  BY <1>1 DEF Paid, TypeOK
<1>3. CASE WriteOk(log) \/ SyncFails(log)
  <2>1. torn' = [torn EXCEPT ![log] = FALSE]
    BY <1>3 DEF WriteOk, SyncFails, Written
  <2>2. faults' = faults \/ faults' = [faults EXCEPT ![log] = @ + 1]
    BY <1>3 DEF WriteOk, SyncFails, Fault
  <2>3. torn'[log] = FALSE /\ (faults'[log] = f \/ faults'[log] = f + 1)
    BY <1>1, <2>1, <2>2 DEF TypeOK
  <2>4. \A other \in Logs \ {log} : torn'[other] = torn[other] /\ faults'[other] = faults[other]
    BY <2>1, <2>2 DEF TypeOK
  <2>5. CASE bad2 = bad
    BY <1>1, <1>2, <2>3, <2>4, <2>5
  <2>6. ASSUME NEW x, torn[log], bad2 = bad \cup {x}
        PROVE  IsFiniteSet(bad2) /\ Cardinality(bad2) \in Nat /\ Cardinality(bad2) <= n + 1
    <3>1. /\ IsFiniteSet(bad \cup {x})
          /\ Cardinality(bad \cup {x}) = IF x \in bad THEN Cardinality(bad) ELSE Cardinality(bad) + 1
      BY <1>2, FS_AddElement
    <3> QED
      BY <1>1, <2>6, <3>1
  <2>7. PICK m : m = Cardinality(bad2)
    OBVIOUS
  <2>8. CASE torn[log] /\ \E x : bad2 = bad \cup {x}
    <3>1. IsFiniteSet(bad2) /\ m \in Nat /\ m <= n + 1
      BY <2>6, <2>7, <2>8
    <3>2. m <= f
      BY <1>1, <1>2, <2>8, <3>1
    <3> QED
      BY <1>1, <2>3, <2>4, <2>7, <3>1, <3>2
  <2>9. bad2 = bad \/ (torn[log] /\ \E x : bad2 = bad \cup {x})
    OBVIOUS
  <2> QED
    BY <2>5, <2>8, <2>9
<1>4. CASE WriteFails(log) /\ bad2 = bad
  <2>1. faults' = [faults EXCEPT ![log] = @ + 1] /\ (torn' = torn \/ torn' = [torn EXCEPT ![log] = TRUE])
    BY <1>4 DEF WriteFails, Fault
  <2>2. /\ faults'[log] = f + 1 /\ torn'[log] \in BOOLEAN
        /\ \A other \in Logs \ {log} : torn'[other] = torn[other] /\ faults'[other] = faults[other]
    BY <1>1, <2>1, ZenonT(60) DEF TypeOK
  <2> QED
    BY <1>1, <1>2, <1>4, <2>2
<1> QED
  BY <1>3, <1>4

(* A row of network.jsonl is bad exactly when it follows a fragment.       *)
LEMMA NetworkDamage ==
  ASSUME TypeOK, NEW c \in Conns, LogNetwork(c) \/ LogNetworkFails(c)
  PROVE  /\ \/ /\ WriteOk("network") \/ SyncFails("network")
               /\ BadNetwork' = BadNetwork \/ (torn["network"] /\ \E x : BadNetwork' = BadNetwork \cup {x})
            \/ WriteFails("network") /\ BadNetwork' = BadNetwork
         /\ BadHttp' = BadHttp
<1>1. torn["network"] \in BOOLEAN
  BY DEF TypeOK, Logs
<1>2. ASSUME NetworkRow(c)
      PROVE  BadNetwork' = BadNetwork \/ (torn["network"] /\ \E x : BadNetwork' = BadNetwork \cup {x})
  <2>1. PICK w : w = <<c, ~torn["network"]>>
    OBVIOUS
  <2>2. networkRows' = networkRows \cup {w} /\ w[2] = ~torn["network"]
    BY <1>2, <2>1 DEF NetworkRow
  <2>3. CASE torn["network"]
    <3>1. BadNetwork' = BadNetwork \cup {w}
      BY <2>2, <2>3 DEF BadNetwork
    <3> QED
      BY <2>3, <3>1
  <2>4. CASE ~torn["network"]
    BY <1>1, <2>2, <2>4 DEF BadNetwork
  <2> QED
    BY <2>3, <2>4
<1>3. UNCHANGED networkRows => BadNetwork' = BadNetwork
  BY DEF BadNetwork
<1>4. BadHttp' = BadHttp
  BY DEF LogNetwork, LogNetworkFails, BadHttp
<1> QED
  BY <1>2, <1>3, <1>4 DEF LogNetwork, LogNetworkFails

BadIn(rows) == {n \in DOMAIN rows : ~rows[n].clean}

(* A bad row is one more bad row.                                          *)
LEMMA BadAppended ==
  ASSUME NEW s \in Seq(HttpRow), NEW row \in HttpRow
  PROVE  BadIn(Append(s, row)) = BadIn(s) \cup (IF row.clean THEN {} ELSE {Len(s) + 1})
<1>1. /\ Len(s) \in Nat /\ DOMAIN s = 1..Len(s)
      /\ DOMAIN Append(s, row) = 1..(Len(s) + 1) /\ Append(s, row)[Len(s) + 1] = row
      /\ \A k \in 1..Len(s) : Append(s, row)[k] = s[k]
  BY AppendProperties
<1>2. row.clean \in BOOLEAN
  BY DEF HttpRow
<1>3. PICK t : t = Append(s, row)
  OBVIOUS
<1>4. CASE row.clean
  BY <1>1, <1>3, <1>4 DEF BadIn
<1>5. CASE ~row.clean
  <2>1. \A k \in DOMAIN t : ~t[k].clean <=> k = Len(s) + 1 \/ (k \in DOMAIN s /\ ~s[k].clean)
    BY <1>1, <1>3, <1>5
  <2>2. DOMAIN t = DOMAIN s \cup {Len(s) + 1}
    BY <1>1, <1>3
  <2>3. BadIn(t) = BadIn(s) \cup {Len(s) + 1}
    BY <2>1, <2>2 DEF BadIn
  <2> QED
    BY <1>3, <1>5, <2>3
<1> QED
  BY <1>4, <1>5

(* And so is a row of http.jsonl.                                          *)
LEMMA HttpDamage ==
  ASSUME TypeOK, NEW c \in Conns, LogRequest(c) \/ LogRequestFails(c) \/ LogOpaque(c)
  PROVE  /\ \/ /\ WriteOk("http") \/ SyncFails("http")
               /\ BadHttp' = BadHttp \/ (torn["http"] /\ \E x : BadHttp' = BadHttp \cup {x})
            \/ WriteFails("http") /\ BadHttp' = BadHttp
         /\ BadNetwork' = BadNetwork
<1>1. torn["http"] \in BOOLEAN /\ httpRows \in [Conns -> Seq(HttpRow)]
  BY DEF TypeOK, Logs
<1>2. ASSUME NEW row \in HttpRow, row.clean = ~torn["http"],
             httpRows' = [httpRows EXCEPT ![c] = Append(@, row)]
      PROVE  BadHttp' = BadHttp \/ (torn["http"] /\ \E x : BadHttp' = BadHttp \cup {x})
  <2>1. /\ \A d \in Conns \ {c} : httpRows'[d] = httpRows[d]
        /\ httpRows'[c] = Append(httpRows[c], row) /\ httpRows[c] \in Seq(HttpRow)
    BY <1>1, <1>2
  <2>2. PICK new : new = IF torn["http"] THEN {Len(httpRows[c]) + 1} ELSE {}
    OBVIOUS
  <2>3. BadIn(httpRows'[c]) = BadIn(httpRows[c]) \cup new
    BY <1>1, <1>2, <2>1, <2>2, BadAppended
  <2>4. BadHttp = UNION {{<<d, k>> : k \in BadIn(httpRows[d])} : d \in Conns}
    BY DEF BadHttp, BadIn
  <2>5. BadHttp' = UNION {{<<d, k>> : k \in BadIn(httpRows'[d])} : d \in Conns}
    BY DEF BadHttp, BadIn
  <2>6. \A d \in Conns : BadIn(httpRows'[d]) = BadIn(httpRows[d]) \cup (IF d = c THEN new ELSE {})
    BY <2>1, <2>3
  <2>7. BadHttp' = BadHttp \cup {<<c, k>> : k \in new}
    BY <2>4, <2>5, <2>6
  <2>8. CASE torn["http"]
    <3>1. PICK x : x = <<c, Len(httpRows[c]) + 1>>
      OBVIOUS
    <3>2. {<<c, k>> : k \in new} = {x}
      BY <2>2, <2>8, <3>1
    <3> QED
      BY <2>7, <2>8, <3>2
  <2>9. CASE ~torn["http"]
    <3>1. {<<c, k>> : k \in new} = {}
      BY <2>2, <2>9
    <3> QED
      BY <2>7, <3>1
  <2> QED
    BY <2>8, <2>9
<1>3. UNCHANGED httpRows => BadHttp' = BadHttp
  BY DEF BadHttp
<1>4. BadNetwork' = BadNetwork
  BY DEF LogRequest, LogRequestFails, LogOpaque, BadNetwork
<1>5. ASSUME RequestRow(c) \/ OpaqueRow(c)
      PROVE  \E row \in HttpRow : row.clean = ~torn["http"] /\ httpRows' = [httpRows EXCEPT ![c] = Append(@, row)]
  <2>1. \A kind \in {"request", "opaque"} : Row(c, kind) \in HttpRow /\ Row(c, kind).clean = ~torn["http"]
    BY <1>1 DEF Row, HttpRow, TypeOK
  <2>2. \/ httpRows' = [httpRows EXCEPT ![c] = Append(@, Row(c, "request"))]
        \/ httpRows' = [httpRows EXCEPT ![c] = Append(@, Row(c, "opaque"))]
    BY <1>5 DEF RequestRow, OpaqueRow, Row
  <2> QED
    BY <2>1, <2>2
<1>6. RequestRow(c) \/ OpaqueRow(c)
        => BadHttp' = BadHttp \/ (torn["http"] /\ \E x : BadHttp' = BadHttp \cup {x})
  BY <1>2, <1>5
<1> QED
  BY <1>3, <1>4, <1>6 DEF LogRequest, LogRequestFails, LogOpaque

LEMMA DamageStep == TypeOK /\ DamageInv /\ [Next]_vars => DamageInv'
<1> SUFFICES ASSUME TypeOK, DamageInv, [Next]_vars PROVE DamageInv'
  OBVIOUS
<1>1. ASSUME NEW c \in Conns, LogNetwork(c) \/ LogNetworkFails(c) PROVE DamageInv'
  <2>1. PICK bad, bad2 : bad = BadNetwork /\ bad2 = BadNetwork'
    OBVIOUS
  <2>2. /\ IsFiniteSet(bad2)
        /\ Cardinality(bad2) + (IF torn'["network"] THEN 1 ELSE 0) <= faults'["network"]
        /\ \A other \in Logs \ {"network"} : torn'[other] = torn[other] /\ faults'[other] = faults[other]
    BY <1>1, <2>1, NetworkDamage, WritePays DEF DamageInv, Logs
  <2>3. BadHttp' = BadHttp
    BY <1>1, NetworkDamage
  <2> QED
    BY <2>1, <2>2, <2>3 DEF DamageInv, Paid, Logs
<1>2. ASSUME NEW c \in Conns, LogRequest(c) \/ LogRequestFails(c) \/ LogOpaque(c) PROVE DamageInv'
  <2>1. PICK bad, bad2 : bad = BadHttp /\ bad2 = BadHttp'
    OBVIOUS
  <2>2. /\ IsFiniteSet(bad2)
        /\ Cardinality(bad2) + (IF torn'["http"] THEN 1 ELSE 0) <= faults'["http"]
        /\ \A other \in Logs \ {"http"} : torn'[other] = torn[other] /\ faults'[other] = faults[other]
    BY <1>2, <2>1, HttpDamage, WritePays DEF DamageInv, Logs
  <2>3. BadNetwork' = BadNetwork
    BY <1>2, HttpDamage
  <2> QED
    BY <2>1, <2>2, <2>3 DEF DamageInv, Paid, Logs
<1>3. CASE UNCHANGED <<networkRows, httpRows, torn, faults>>
  BY <1>3 DEF DamageInv, Paid, BadNetwork, BadHttp
<1>4. ASSUME NEW c \in Conns, Step(c)
      PROVE  \/ LogNetwork(c) \/ LogNetworkFails(c)
             \/ LogRequest(c) \/ LogRequestFails(c) \/ LogOpaque(c)
             \/ UNCHANGED <<networkRows, httpRows, torn, faults>>
  BY <1>4 DEF Step, Accept, GetCertificate, HandshakeDone, HandshakeFails, Request, BodyRead,
     BodyFails, EndServing, Close, logs
<1>5. Exit \/ UNCHANGED vars => UNCHANGED <<networkRows, httpRows, torn, faults>>
  BY DEF Exit, vars, logs
<1> QED
  BY <1>1, <1>2, <1>3, <1>4, <1>5 DEF Next

(* eventLogger.write: for any number of goroutines and failures, a log     *)
(* holds no more unreadable rows than writes to it have failed.            *)
THEOREM DamageIsPaidFor == Spec => []DamageIsBounded
<1>1. Init => DamageInv
  <2> SUFFICES ASSUME Init PROVE DamageInv
    OBVIOUS
  <2>1. BadNetwork = {} /\ BadHttp = {}
    BY DEF Init, BadNetwork, BadHttp
  <2>2. \A log \in Logs : torn[log] = FALSE /\ faults[log] = 0
    BY DEF Init
  <2> QED
    BY <2>1, <2>2, FS_EmptySet DEF DamageInv, Paid, Logs
<1>2. IInv => TypeOK
  BY DEF IInv
<1>3. TypeOK /\ DamageInv => DamageIsBounded
  <2> SUFFICES ASSUME TypeOK, DamageInv PROVE DamageIsBounded
    OBVIOUS
  <2>1. Cardinality(BadNetwork) <= faults["network"] /\ Cardinality(BadHttp) <= faults["http"]
    <3>1. Cardinality(BadNetwork) \in Nat /\ Cardinality(BadHttp) \in Nat
      BY FS_CardinalityType DEF DamageInv, Paid
    <3>2. torn \in [Logs -> BOOLEAN] /\ faults \in [Logs -> 0..MaxFaults] /\ MaxFaults \in Nat
      BY BoundsAreNaturals DEF TypeOK
    <3> QED
      BY <3>1, <3>2 DEF DamageInv, Paid, Logs
  <2> QED
    BY <2>1 DEF DamageIsBounded, BadNetwork, BadHttp
<1> QED
  BY <1>1, <1>2, <1>3, DamageStep, Inductive, PTL DEF Spec

-----------------------------------------------------------------------------
(* The safety half of EveryTLSFlowSettles.                                 *)

\* A TLS connection that was handed over and has neither a request nor an end.
Unsettled(c) ==
    tls[c] /\ ~requestSeen[c] /\ pc[c] \in {"handshake", "hello", "waiting", "closing", "opaque"}

\* The steps its goroutine has left at most: each call of Close takes two when it logs.
StepsLeft(c) ==
    CASE pc[c] = "handshake" -> 8
      [] pc[c] = "hello" -> 7
      [] pc[c] = "waiting" -> 6
      [] pc[c] = "closing" -> 2 * closes[c] + (IF opaqueLogged[c] THEN 0 ELSE 1)
      [] pc[c] = "opaque" -> 2 * closes[c]
      [] OTHER -> 0

\* A step of the goroutine takes it nearer to a request or to its end, others leave it alone.
Settles(c) ==
    Unsettled(c) =>
        /\ StepsLeft(c) \in 1..8
        /\ Step(c) => StepsLeft(c)' < StepsLeft(c) /\ (Unsettled(c)' \/ requestSeen'[c] \/ pc'[c] = "closed")
        /\ Exit \/ (\E d \in Conns \ {c} : Step(d)) => Unsettled(c)' /\ StepsLeft(c)' = StepsLeft(c)

-----------------------------------------------------------------------------
(* What the fields of an unsettled flow allow.                             *)
LEMMA UnsettledLeft ==
  ASSUME IInv, NEW c \in Conns, Unsettled(c)
  PROVE  StepsLeft(c) \in 1..8
<1>1. closes[c] \in 0..2 /\ (pc[c] \in {"closing", "opaque"} => closes[c] > 0)
  BY DEF IInv, TypeOK, CloseCounted
<1>2. 2 * closes[c] \in 0..4 /\ (closes[c] > 0 => 2 * closes[c] \in 2..4)
  BY <1>1
<1> QED
  BY <1>1, <1>2 DEF Unsettled, StepsLeft

(* The goroutine of the flow itself.                                       *)
LEMMA OwnProgress ==
  ASSUME IInv, NEW c \in Conns, Unsettled(c), Step(c)
  PROVE  StepsLeft(c)' < StepsLeft(c) /\ (Unsettled(c)' \/ requestSeen'[c] \/ pc'[c] = "closed")
<1> USE DEF Unsettled, StepsLeft, flow
<1>0. /\ TypeOK /\ FlowInv(c) /\ closes[c] \in 0..2
      /\ pc[c] \in {"closing", "opaque"} => closes[c] > 0
  BY DEF IInv, TypeOK, CloseCounted
<1>1. ASSUME NEW name \in Hosts \cup {NoHost}, GetCertificate(c, name)
      PROVE StepsLeft(c)' < StepsLeft(c) /\ Unsettled(c)'
  BY <1>0, <1>1 DEF GetCertificate, TypeOK
<1>2. CASE HandshakeDone(c)
  BY <1>0, <1>2 DEF HandshakeDone, TypeOK
<1>3. CASE HandshakeFails(c) \/ EndServing(c)
  <2>1. /\ pc[c] \in {"handshake", "hello", "waiting"} /\ pc' = [pc EXCEPT ![c] = "closing"]
        /\ \E n \in 1..2 : closes' = [closes EXCEPT ![c] = n]
        /\ pc[c] = "waiting" => closes' = [closes EXCEPT ![c] = 1]
        /\ UNCHANGED <<tls, requestSeen, opaqueLogged>>
    BY <1>3 DEF HandshakeFails, EndServing
  <2>2. /\ pc'[c] = "closing" /\ closes'[c] \in 1..2
        /\ tls'[c] /\ ~requestSeen'[c] /\ opaqueLogged'[c] = opaqueLogged[c]
    BY <1>0, <2>1 DEF TypeOK
  <2>3. StepsLeft(c)' \in 2..5
    BY <2>2
  <2>4. StepsLeft(c) \in 6..8
    BY <2>1
  <2> QED
    BY <2>2, <2>3, <2>4
<1>4. ASSUME NEW name \in Hosts \cup {NoHost}, NEW meta \in SUBSET CanaryIds, Request(c, name, meta)
      PROVE StepsLeft(c)' < StepsLeft(c) /\ requestSeen'[c]
  BY <1>0, <1>4 DEF Request, TypeOK
<1>5. CASE Close(c)
  <2>1. /\ pc[c] = "closing" /\ UNCHANGED <<tls, requestSeen>>
        /\ tls[c] /\ ~requestSeen[c] /\ closes[c] \in 1..2
    BY <1>0, <1>5 DEF Close
  <2>2. CASE ~opaqueLogged[c]
    <3>1. pc'[c] = "opaque" /\ closes'[c] = closes[c]
      BY <1>0, <1>5, <2>1, <2>2 DEF Close, MustLogOpaque, TypeOK
    <3> QED
      BY <2>1, <2>2, <3>1
  <2>3. CASE opaqueLogged[c]
    <3>1. /\ pc'[c] = (IF closes[c] = 1 THEN "closed" ELSE "closing")
          /\ closes'[c] = closes[c] - 1 /\ opaqueLogged'[c] = opaqueLogged[c]
      BY <1>0, <1>5, <2>1, <2>3 DEF Close, MustLogOpaque, AfterClose, TypeOK
    <3> QED
      BY <2>1, <2>3, <3>1
  <2> QED
    BY <2>2, <2>3
<1>6. CASE LogOpaque(c)
  <2>1. /\ pc[c] = "opaque" /\ UNCHANGED <<tls, requestSeen, opaqueLogged>>
        /\ tls[c] /\ ~requestSeen[c] /\ closes[c] \in 1..2 /\ opaqueLogged[c]
    BY <1>0, <1>6 DEF LogOpaque, FlowInv
  <2>2. /\ pc'[c] = (IF closes[c] = 1 THEN "closed" ELSE "closing")
        /\ closes'[c] = closes[c] - 1
    BY <1>0, <1>6 DEF LogOpaque, AfterClose, TypeOK
  <2> QED
    BY <2>1, <2>2
<1>7. /\ \A t \in BOOLEAN : ~Accept(c, t)
      /\ ~LogNetwork(c) /\ ~LogNetworkFails(c) /\ ~BodyFails(c) /\ ~LogRequest(c) /\ ~LogRequestFails(c)
      /\ \A body \in SUBSET CanaryIds : ~BodyRead(c, body)
  BY DEF Accept, LogNetwork, LogNetworkFails, BodyFails, LogRequest, LogRequestFails, BodyRead
<1> HIDE DEF Unsettled, StepsLeft, flow
<1> QED
  BY <1>1, <1>2, <1>3, <1>4, <1>5, <1>6, <1>7 DEF Step

(* A TLS flow that was handed over has at most eight steps of its own to a *)
(* request or its end, whichever way its handshake goes and however often  *)
(* net/http closes it; no step of another connection adds to them.  With   *)
(* ClosedTLSIsLogged: only a goroutine that is not run keeps a flow from   *)
(* being settled in the log.                                               *)
THEOREM FlowsSettleInEightSteps == Spec => [][\A c \in Conns : Settles(c)]_vars
<1>1. IInv /\ [Next]_vars => [\A c \in Conns : Settles(c)]_vars
  <2> SUFFICES ASSUME IInv, NEW c \in Conns, Unsettled(c)
               PROVE  /\ StepsLeft(c) \in 1..8
                      /\ Step(c) => /\ StepsLeft(c)' < StepsLeft(c)
                                    /\ Unsettled(c)' \/ requestSeen'[c] \/ pc'[c] = "closed"
                      /\ Exit \/ (\E d \in Conns \ {c} : Step(d))
                           => Unsettled(c)' /\ StepsLeft(c)' = StepsLeft(c)
    BY DEF Settles
  <2>1. ASSUME Exit PROVE Unsettled(c)' /\ StepsLeft(c)' = StepsLeft(c)
    <3>1. UNCHANGED <<pc, tls, requestSeen, opaqueLogged, closes>>
      BY <2>1 DEF Exit, flow
    <3> QED
      BY <3>1 DEF Unsettled, StepsLeft
  <2>2. ASSUME NEW d \in Conns \ {c}, Step(d)
        PROVE  Unsettled(c)' /\ StepsLeft(c)' = StepsLeft(c)
    <3>1. Others(d)
      BY <2>2, StepLocal DEF IInv
    <3>2. /\ pc'[c] = pc[c] /\ tls'[c] = tls[c] /\ requestSeen'[c] = requestSeen[c]
          /\ opaqueLogged'[c] = opaqueLogged[c] /\ closes'[c] = closes[c]
      BY <3>1 DEF Others
    <3> QED
      BY <3>2 DEF Unsettled, StepsLeft
  <2> QED
    BY <2>1, <2>2, UnsettledLeft, OwnProgress
<1> QED
  BY <1>1, Inductive, PTL DEF Spec

-----------------------------------------------------------------------------
(* The scripts of the honeynet.                                            *)

(* What is left of an older start was listed, unless docker did not        *)
(* answer, and a container keeps its network.                              *)
LeftInv ==
    /\ since = [containers |-> since.containers, networks |-> since.networks]
    /\ \A c \in containers : c.of \in networks \cup {Alone}
    /\ "containers" \notin unlisted =>
          /\ cleanup = "rm" => containers \subseteq listed \cup since.containers
          /\ cleanup \in {"list", "rmNetworks", "done"} => containers \subseteq since.containers
    /\ "networks" \notin unlisted =>
          /\ cleanup = "rmNetworks" => networks \subseteq listed \cup since.networks
          /\ cleanup = "done" => networks \subseteq since.networks

(* A container that is started counts as new, on a network that exists.    *)
LEMMA StartedIsNew ==
  ASSUME LeftInv, NEW c, StartContainer(c), c.of \in networks \cup {Alone},
         UNCHANGED <<networks, cleaning>>
  PROVE  LeftInv'
<1>1. /\ since' = [containers |-> since.containers \cup {c}, networks |-> since.networks]
      /\ containers' = containers \cup {c}
  BY DEF LeftInv, StartContainer
<1> QED BY <1>1 DEF LeftInv, cleaning

(* No step of the scripts, of docker or of a sample adds an old leftover.  *)
LEMMA LeftStep ==
  ASSUME LeftInv, [LifecycleNext]_lifecycleVars
  PROVE  LeftInv'
<1>1. ASSUME NEW new \in BOOLEAN, Start(new) PROVE LeftInv'
  BY <1>1 DEF Start, LeftInv, cleaning
<1>2. CASE CreateNetwork
  <2>1. CASE UNCHANGED <<docker, cleaning, since>>
    BY <2>1 DEF LeftInv, docker, cleaning
  <2>2. CASE networks' = networks \cup {start} /\ To("http")
             /\ since' = [since EXCEPT !.networks = @ \cup {start}]
             /\ UNCHANGED <<polls, containers, published, caFile>>
    <3>1. since' = [containers |-> since.containers, networks |-> since.networks \cup {start}]
      BY <2>2 DEF LeftInv
    <3> QED BY <2>2, <3>1 DEF LeftInv, To, cleaning
  <2> QED BY <1>2, <2>1, <2>2 DEF CreateNetwork, Fail
<1>3. ASSUME NEW kind, NEW next, RunService(kind, next) PROVE LeftInv'
  <2>1. CASE Fail
    BY <2>1 DEF Fail, LeftInv, docker, cleaning
  <2>2. CASE start \in networks /\ StartContainer(This(kind)) /\ UNCHANGED <<networks, cleaning>>
    <3>1. This(kind).of = start
      BY DEF This
    <3> QED BY <2>2, <3>1, StartedIsNew
  <2> QED BY <1>3, <2>1, <2>2 DEF RunService, To
<1>4. CASE InspectHttp \/ InspectDns \/ PollCA \/ WriteEnv
  <2>1. UNCHANGED <<docker, cleaning, since>>
    BY <1>4 DEF InspectHttp, InspectDns, Inspect, PollCA, WriteEnv, To, Fail
  <2> QED BY <2>1 DEF LeftInv, docker, cleaning
<1>5. ASSUME NEW n, PublishCA(n) PROVE LeftInv'
  BY <1>5 DEF LeftInv, PublishCA, cleaning
<1>6. ASSUME NEW c, End(c) PROVE LeftInv'
  <2>1. /\ since' = [containers |-> since.containers \ {c}, networks |-> since.networks]
        /\ containers' = containers \ {c} /\ UNCHANGED <<networks, cleaning>>
    BY <1>6 DEF LeftInv, End
  <2> QED BY <2>1 DEF LeftInv, cleaning
<1>7. CASE RunSample
  <2>1. PICK of \in networks \cup {Alone} :
          StartContainer([kind |-> "sample", of |-> of]) /\ UNCHANGED <<networks, cleaning>>
    BY <1>7 DEF RunSample
  <2> QED BY <2>1, StartedIsNew
<1>8. CASE NoDocker
  BY <1>8 DEF LeftInv, NoDocker, docker
<1>9. CASE ListContainers
  <2>1. since' = [containers |-> {}, networks |-> since.networks]
    BY <1>9 DEF LeftInv, ListContainers
  <2> QED BY <1>9, <2>1 DEF LeftInv, ListContainers, docker
<1>10. CASE RemoveContainers
  BY <1>10 DEF LeftInv, RemoveContainers
<1>11. CASE ListNetworks
  <2>1. since' = [containers |-> since.containers, networks |-> {}]
    BY <1>11 DEF LeftInv, ListNetworks
  <2> QED BY <1>11, <2>1 DEF LeftInv, ListNetworks, docker
<1>12. CASE RemoveNetworks
  BY <1>12 DEF LeftInv, RemoveNetworks
<1>13. CASE UNCHANGED lifecycleVars
  BY <1>13 DEF LeftInv, lifecycleVars, docker, cleaning
<1> QED
  BY <1>1, <1>2, <1>3, <1>4, <1>5, <1>6, <1>7, <1>8, <1>9, <1>10, <1>11, <1>12, <1>13
     DEF LifecycleNext, StartScript, RunHttp, RunDns

(* What cleanup.sh leaves when it succeeds: where docker listed the        *)
(* networks, nothing but a sample without a honeynet is older than that    *)
(* list, also when it did not list the containers; where it listed the     *)
(* containers, none is older than that.  Proved for any number of starts.  *)
THEOREM CleanupLeavesTheNew == LifecycleSpec => []LeftoversAreNew
<1>1. LifecycleInit => LeftInv
  BY DEF LifecycleInit, LeftInv
<1>2. LeftInv /\ [LifecycleNext]_lifecycleVars => LeftInv'
  BY LeftStep
<1>3. LeftInv => LeftoversAreNew
  BY DEF LeftInv, LeftoversAreNew
<1> QED BY <1>1, <1>2, <1>3, PTL DEF LifecycleSpec

(* The CA file of a log directory that the latest start made is empty or   *)
(* of that start, whose listener then writes no more; the steps after the  *)
(* wait find it there.                                                     *)
CAInv ==
    /\ start \in Nat /\ origin \in 0..start
    /\ \A c \in containers : c.of \in 0..start
    /\ published \subseteq 0..start
    /\ origin = start => caFile = 0 \/ (caFile = start /\ start \in published)
    /\ origin = start /\ script \in {"dns", "inspectDns", "env"} => caFile # 0
    /\ env \in 0..start

(* No step, of whatever listener is still running, breaks it.              *)
LEMMA CAStep ==
  ASSUME CAInv, [LifecycleNext]_lifecycleVars
  PROVE  CAInv'
<1>1. ASSUME NEW new \in BOOLEAN, Start(new) PROVE CAInv'
  <2>1. start' = start + 1 /\ start \in Nat /\ origin' = IF new THEN start' ELSE origin
    BY <1>1 DEF Start, CAInv
  <2>2. 0..start \subseteq 0..start' /\ start' \in Nat /\ origin' \in 0..start' /\ start' \notin 0..start
    BY <2>1 DEF CAInv
  <2>3. origin' = start' => new
    BY <2>1, <2>2 DEF CAInv
  <2> QED BY <1>1, <2>2, <2>3 DEF Start, CAInv
<1>2. CASE CreateNetwork \/ WriteEnv
  <2>1. UNCHANGED <<start, origin, containers, published, caFile>> /\ env' \in {env, start}
    BY <1>2 DEF CreateNetwork, WriteEnv, To, Fail,
       docker
  <2>2. script' \in {"http", "idle"}
    BY <1>2 DEF CreateNetwork, WriteEnv, To, Fail
  <2> QED BY <2>1, <2>2 DEF CAInv
<1>3. CASE RunHttp \/ RunDns
  <2>1. /\ UNCHANGED <<start, origin, published, caFile, env>>
        /\ \A c \in containers' : c \in containers \/ c.of = start
    BY <1>3 DEF RunHttp, RunDns, RunService, StartContainer, This,
       To, Fail, docker
  <2>2. script' \in {"dns", "inspectDns", "env"} => script = "dns"
    BY <1>3 DEF RunHttp, RunDns, RunService,
       To, Fail
  <2> QED BY <2>1, <2>2 DEF CAInv
<1>4. CASE InspectHttp \/ InspectDns
  <2>1. UNCHANGED <<start, origin, containers, published, caFile, env>>
    BY <1>4 DEF InspectHttp, InspectDns, Inspect,
       To, Fail, docker
  <2>2. script' \in {"dns", "inspectDns", "env"} => script = "inspectDns"
    BY <1>4 DEF InspectHttp, InspectDns, Inspect,
       To, Fail
  <2> QED BY <2>1, <2>2 DEF CAInv
<1>5. CASE PollCA
  BY <1>5 DEF CAInv, PollCA, To, Fail, docker
<1>6. ASSUME NEW n, PublishCA(n) PROVE CAInv'
  <2>1. n \in 0..start /\ n \notin published
    BY <1>6 DEF PublishCA, CAInv
  <2>2. origin = start => n >= origin <=> n = start
    BY <2>1 DEF CAInv
  <2> QED BY <1>6, <2>1, <2>2 DEF PublishCA, scripts, CAInv
<1>7. ASSUME NEW c, End(c) PROVE CAInv'
  BY <1>7 DEF CAInv, End, scripts
<1>8. CASE RunSample
  <2>1. Alone \in 0..start
    BY DEF CAInv, Alone
  <2> QED BY <1>8, <2>1 DEF CAInv, RunSample, StartContainer, scripts
<1>9. CASE NoDocker \/ ListContainers \/ ListNetworks
  BY <1>9 DEF CAInv, NoDocker, ListContainers, ListNetworks, scripts,
     docker
<1>10. CASE RemoveContainers \/ RemoveNetworks
  BY <1>10 DEF CAInv, RemoveContainers, RemoveNetworks, scripts
<1>11. CASE UNCHANGED lifecycleVars
  BY <1>11 DEF CAInv, lifecycleVars, scripts, docker
<1> QED
  BY <1>1, <1>2, <1>3, <1>4, <1>5, <1>6, <1>7, <1>8, <1>9, <1>10, <1>11
     DEF LifecycleNext, StartScript

(* start.sh on a new log directory writes its values only with the         *)
(* certificate of its own listener in the file they name, whatever         *)
(* listeners of earlier starts still write.                                *)
THEOREM NewDirectoryHasItsCA == LifecycleSpec => []NewDirectoryNewCA
<1>1. LifecycleInit => CAInv
  BY DEF LifecycleInit, CAInv
<1>2. CAInv /\ [LifecycleNext]_lifecycleVars => CAInv'
  BY CAStep
<1>3. CAInv => NewDirectoryNewCA
  BY DEF CAInv, NewDirectoryNewCA
<1> QED BY <1>1, <1>2, <1>3, PTL DEF LifecycleSpec

-----------------------------------------------------------------------------
(* The safety half of StartEnds.                                           *)

\* The commands start.sh has left when none fails, without the turns of its loop.
CommandsLeft ==
    CASE script = "network" -> 7
      [] script = "http" -> 6
      [] script = "inspectHttp" -> 5
      [] script = "waitCA" -> 4
      [] script = "dns" -> 3
      [] script = "inspectDns" -> 2
      [] script = "env" -> 1
      [] OTHER -> 0

\* With the turns: until the loop is over it may look MaxPolls times.
TurnsLeft ==
    CommandsLeft + (IF script \in {"network", "http", "inspectHttp", "waitCA"}
                    THEN MaxPolls - polls ELSE 0)

\* A step of the script counts down; nothing else moves it, but for the next start.
CountsDown ==
    /\ StartScript => TurnsLeft' < TurnsLeft
    /\ TurnsLeft' # TurnsLeft => StartScript \/ (script = "idle" /\ \E new \in BOOLEAN : Start(new))

ScriptInv == script \in Steps \cup {"idle"} /\ polls \in 0..MaxPolls

(* The script is at one of its steps and never looks once too often.       *)
LEMMA ScriptStep == ScriptInv /\ [LifecycleNext]_lifecycleVars => ScriptInv'
<1> SUFFICES ASSUME ScriptInv, [LifecycleNext]_lifecycleVars PROVE ScriptInv'
  OBVIOUS
<1> USE LifecycleBoundsAreNaturals DEF ScriptInv, Steps
<1>1. ASSUME NEW new \in BOOLEAN, Start(new) PROVE ScriptInv'
  BY <1>1 DEF Start
<1>2. CASE PollCA
  BY <1>2 DEF PollCA, To, Fail
<1>3. CASE CreateNetwork \/ RunHttp \/ InspectHttp \/ RunDns \/ InspectDns \/ WriteEnv
  BY <1>3 DEF CreateNetwork, RunHttp, InspectHttp, RunDns, InspectDns, WriteEnv, RunService,
     Inspect, To, Fail
<1>4. CASE UNCHANGED <<script, polls>>
  BY <1>4
<1>5. ASSUME LifecycleNext
      PROVE  StartScript \/ (\E new \in BOOLEAN : Start(new)) \/ UNCHANGED <<script, polls>>
  BY <1>5 DEF LifecycleNext, PublishCA, End, RunSample, NoDocker, ListContainers, RemoveContainers,
     ListNetworks, RemoveNetworks, scripts
<1> QED
  BY <1>1, <1>2, <1>3, <1>4, <1>5 DEF StartScript, lifecycleVars, scripts

(* Each command and each look at the certificate counts.                   *)
LEMMA ScriptCounts ==
  ASSUME ScriptInv, StartScript
  PROVE  TurnsLeft' < TurnsLeft
<1> USE LifecycleBoundsAreNaturals DEF ScriptInv, TurnsLeft, CommandsLeft
<1>1. CASE PollCA
  BY <1>1 DEF PollCA, To, Fail
<1>2. CASE CreateNetwork \/ RunHttp \/ InspectHttp \/ RunDns \/ InspectDns \/ WriteEnv
  <2>1. /\ polls' = polls
        /\ \/ script' = "idle" /\ script \in Steps
           \/ script = "network" /\ script' = "http"
           \/ script = "http" /\ script' = "inspectHttp"
           \/ script = "inspectHttp" /\ script' = "waitCA"
           \/ script = "dns" /\ script' = "inspectDns"
           \/ script = "inspectDns" /\ script' = "env"
    BY <1>2 DEF CreateNetwork, RunHttp, InspectHttp, RunDns, InspectDns, WriteEnv, RunService,
       Inspect, To, Fail, Steps
  <2> QED
    BY <2>1 DEF Steps
<1> QED
  BY <1>1, <1>2 DEF StartScript

(* start.sh has at most seven commands and MaxPolls turns of its loop, and *)
(* no failure, listener, sample or cleanup ever gives it more: StartEnds   *)
(* needs only that the script is run.                                      *)
THEOREM StartCountsDown ==
  LifecycleSpec => [](TurnsLeft \in 0..(MaxPolls + 7)) /\ [][CountsDown]_lifecycleVars
<1>1. LifecycleInit => ScriptInv
  BY LifecycleBoundsAreNaturals DEF LifecycleInit, ScriptInv
<1>2. ScriptInv /\ [LifecycleNext]_lifecycleVars => ScriptInv'
  BY ScriptStep
<1>3. ScriptInv => TurnsLeft \in 0..(MaxPolls + 7)
  BY LifecycleBoundsAreNaturals DEF ScriptInv, TurnsLeft, CommandsLeft
<1>4. ScriptInv /\ [LifecycleNext]_lifecycleVars => [CountsDown]_lifecycleVars
  <2> SUFFICES ASSUME ScriptInv, LifecycleNext PROVE CountsDown
    BY DEF CountsDown
  <2>1. ASSUME NEW new \in BOOLEAN, Start(new) PROVE script = "idle"
    BY <2>1 DEF Start
  <2>2. \/ StartScript \/ (\E new \in BOOLEAN : Start(new)) \/ UNCHANGED <<script, polls>>
    BY DEF LifecycleNext, PublishCA, End, RunSample, NoDocker, ListContainers, RemoveContainers,
       ListNetworks, RemoveNetworks, scripts
  <2>3. UNCHANGED <<script, polls>> => TurnsLeft' = TurnsLeft
    BY DEF TurnsLeft, CommandsLeft
  <2> QED
    BY <2>1, <2>2, <2>3, ScriptCounts DEF CountsDown
<1> QED
  BY <1>1, <1>2, <1>3, <1>4, PTL DEF LifecycleSpec
=============================================================================
