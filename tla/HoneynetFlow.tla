------------------------------ MODULE HoneynetFlow ------------------------------
(***************************************************************************)
(* The HTTP/TLS terminator of the honeynet (http-listener/main.go): two    *)
(* listeners accept connections, give each a flow id and log it to         *)
(* network.jsonl before anything is served; one net/http goroutine per     *)
(* connection then runs the TLS handshake and the requests, logging one    *)
(* row of http.jsonl per request, or one opaque row when a TLS connection  *)
(* is closed before any request was seen.  Goroutines interleave at every  *)
(* log write and every read from the client.                               *)
(*                                                                         *)
(* A connection is identified with its flow (nextFlowID never repeats).  A *)
(* write or fsync of a log may fail and leave nothing, part of the line or *)
(* all of it; an error of network.jsonl ends Accept, hence Serve, hence    *)
(* run and the process.  What net/http and crypto/tls do between the calls *)
(* of this code (when they read, answer and close) is external.            *)
(***************************************************************************)
EXTENDS Naturals, Sequences, FiniteSets

CONSTANTS
    Conns,         \* connections, and the flow ids given to them
    Hosts,         \* server names a client may send
    CanaryIds,     \* secrets of the canary catalog
    NoHost,        \* the host of a flow that named none
    MaxRequests,   \* bound: requests a connection carries
    MaxFaults      \* bound: failed log writes

ASSUME BoundsAreNaturals == MaxRequests \in Nat /\ MaxFaults \in Nat
ASSUME NoHostIsNoHost == NoHost \notin Hosts

VARIABLES
    pc,            \* where each connection is
    tls,           \* accepted by the TLS listener
    requestSeen, opaqueLogged, host,   \* the fields of connectionFlow
    closes,        \* calls of trackingConn.Close still to come
    found,         \* canaries seen in the request being handled
    requests,      \* requests started
    answers,       \* status codes sent, in order
    networkRows,   \* flows with a row in network.jsonl, as <<flow, clean>>
    httpRows,      \* rows of http.jsonl, per flow
    torn,          \* log -> its last line has no newline
    faults,        \* failed writes so far, per log
    failed,        \* a listener's Serve has returned an error
    stopped        \* the process has exited

flow == <<tls, requestSeen, opaqueLogged, host>>
handler == <<found, requests, answers>>
logs == <<networkRows, httpRows, torn, faults>>
vars == <<pc, flow, closes, handler, logs, failed, stopped>>

Logs == {"network", "http"}
PCs == {"none", "accepted", "refused", "handshake", "hello", "waiting",
        "reading", "logging", "closing", "opaque", "closed"}
HttpRow == [kind : {"request", "opaque"}, canary : SUBSET CanaryIds,
            host : Hosts \cup {NoHost}, clean : BOOLEAN]

-----------------------------------------------------------------------------
(* eventLogger.write, under the logger's mutex: the line and its newline   *)
(* in one Write, then Sync.  The row is clean, readable as a line of its   *)
(* own, unless an earlier failure left a fragment in front of it.          *)

Written_NoNewline(log) == torn' = [torn EXCEPT ![log] = TRUE]  \* mutant
Written(log) == torn' = [torn EXCEPT ![log] = FALSE]
Fault(log) ==
    /\ faults["network"] + faults["http"] < MaxFaults
    /\ faults' = [faults EXCEPT ![log] = @ + 1]

WriteOk(log) == Written(log) /\ UNCHANGED faults
SyncFails(log) == Written(log) /\ Fault(log)
WriteFails(log) ==
    /\ Fault(log)
    /\ torn' = torn \/ torn' = [torn EXCEPT ![log] = TRUE]

-----------------------------------------------------------------------------
(* trackingListener.Accept.  Each listener has one accept goroutine.       *)

Accept(c, t) ==
    /\ ~stopped /\ ~failed /\ pc[c] = "none"
    /\ \A d \in Conns : pc[d] = "accepted" => tls[d] # t
    /\ pc' = [pc EXCEPT ![c] = "accepted"] /\ tls' = [tls EXCEPT ![c] = t]
    /\ UNCHANGED <<requestSeen, opaqueLogged, host, closes, handler, logs, failed, stopped>>

NetworkRow(c) == networkRows' = networkRows \cup {<<c, ~torn["network"]>>}

\* The connection reaches net/http only when its row is written and synced.
LogNetwork(c) ==
    /\ ~stopped /\ pc[c] = "accepted"
    /\ WriteOk("network") /\ NetworkRow(c)
    /\ pc' = [pc EXCEPT ![c] = IF tls[c] THEN "handshake" ELSE "waiting"]
    /\ UNCHANGED <<flow, closes, handler, httpRows, failed, stopped>>

\* Mutant: the connection is served although its row could not be written.
LogNetworkFails_Served(c) ==
    /\ ~stopped /\ pc[c] = "accepted"
    /\ \/ SyncFails("network") /\ NetworkRow(c)
       \/ WriteFails("network") /\ UNCHANGED networkRows
    /\ pc' = [pc EXCEPT ![c] = "waiting"]
    /\ UNCHANGED <<flow, closes, handler, httpRows, failed, stopped>>

\* Otherwise the bare connection is closed and the error ends Serve.
LogNetworkFails(c) ==
    /\ ~stopped /\ pc[c] = "accepted"
    /\ \/ SyncFails("network") /\ NetworkRow(c)
       \/ WriteFails("network") /\ UNCHANGED networkRows
    /\ pc' = [pc EXCEPT ![c] = "refused"] /\ failed' = TRUE
    /\ UNCHANGED <<flow, closes, handler, httpRows, stopped>>

\* run receives the first error of errCh and returns; main exits.
Exit ==
    /\ failed /\ ~stopped
    /\ stopped' = TRUE
    /\ UNCHANGED <<pc, flow, closes, handler, logs, failed>>

-----------------------------------------------------------------------------
(* The TLS handshake: GetCertificate notes the SNI name, if there is one,  *)
(* and mints a leaf; either that or the client may end the handshake.      *)

noteTLSHost(c, name) == host' = [host EXCEPT ![c] = IF @ = NoHost THEN name ELSE @]

GetCertificate(c, name) ==
    /\ ~stopped /\ pc[c] = "handshake"
    /\ noteTLSHost(c, name)
    /\ pc' = [pc EXCEPT ![c] = "hello"]
    /\ UNCHANGED <<tls, requestSeen, opaqueLogged, closes, handler, logs, failed, stopped>>

HandshakeDone(c) ==
    /\ ~stopped /\ pc[c] = "hello"
    /\ pc' = [pc EXCEPT ![c] = "waiting"]
    /\ UNCHANGED <<flow, closes, handler, logs, failed, stopped>>

\* net/http closes the connection; after plain HTTP on the TLS port, twice.
HandshakeFails(c) ==
    /\ ~stopped /\ pc[c] \in {"handshake", "hello"}
    /\ pc' = [pc EXCEPT ![c] = "closing"]
    /\ \E n \in 1..2 : closes' = [closes EXCEPT ![c] = n]
    /\ UNCHANGED <<flow, handler, logs, failed, stopped>>

-----------------------------------------------------------------------------
(* syntheticHandler. *)

\* Mutant: the handler forgets markRequestSeen.
Request_MarkedLate(c, name, meta) ==
    /\ ~stopped /\ pc[c] = "waiting" /\ requests[c] < MaxRequests
    /\ noteTLSHost(c, name)
    /\ found' = [found EXCEPT ![c] = meta] /\ requests' = [requests EXCEPT ![c] = @ + 1]
    /\ pc' = [pc EXCEPT ![c] = "reading"]
    /\ UNCHANGED <<tls, requestSeen, opaqueLogged, closes, answers, logs, failed, stopped>>

\* A request with host name (NoHost: none) and the canaries meta in its metadata.
Request(c, name, meta) ==
    /\ ~stopped /\ pc[c] = "waiting" /\ requests[c] < MaxRequests
    /\ requestSeen' = [requestSeen EXCEPT ![c] = TRUE]
    /\ noteTLSHost(c, name)
    /\ found' = [found EXCEPT ![c] = meta] /\ requests' = [requests EXCEPT ![c] = @ + 1]
    /\ pc' = [pc EXCEPT ![c] = "reading"]
    /\ UNCHANGED <<tls, opaqueLogged, closes, answers, logs, failed, stopped>>

Answer(c, status) == answers' = [answers EXCEPT ![c] = Append(@, status)]

BodyRead(c, body) ==
    /\ ~stopped /\ pc[c] = "reading"
    /\ found' = [found EXCEPT ![c] = @ \cup body]
    /\ pc' = [pc EXCEPT ![c] = "logging"]
    /\ UNCHANGED <<flow, closes, requests, answers, logs, failed, stopped>>

\* scanRequestBody returns an error: 400, and the handler returns without a row.
BodyFails(c) ==
    /\ ~stopped /\ pc[c] = "reading"
    /\ Answer(c, 400) /\ pc' = [pc EXCEPT ![c] = "waiting"]
    /\ UNCHANGED <<flow, closes, found, requests, logs, failed, stopped>>

RequestRow(c) ==
    httpRows' = [httpRows EXCEPT ![c] = Append(@,
        [kind |-> "request", canary |-> found[c], host |-> NoHost, clean |-> ~torn["http"]])]

LogRequest(c) ==
    /\ ~stopped /\ pc[c] = "logging"
    /\ WriteOk("http") /\ RequestRow(c)
    /\ Answer(c, 200) /\ pc' = [pc EXCEPT ![c] = "waiting"]
    /\ UNCHANGED <<flow, closes, found, requests, networkRows, failed, stopped>>

\* Mutant: the result of the write is ignored.
LogRequestFails_Ignored(c) ==
    /\ ~stopped /\ pc[c] = "logging"
    /\ \/ SyncFails("http") /\ RequestRow(c)
       \/ WriteFails("http") /\ UNCHANGED httpRows
    /\ Answer(c, 200) /\ pc' = [pc EXCEPT ![c] = "waiting"]
    /\ UNCHANGED <<flow, closes, found, requests, networkRows, failed, stopped>>

LogRequestFails(c) ==
    /\ ~stopped /\ pc[c] = "logging"
    /\ \/ SyncFails("http") /\ RequestRow(c)
       \/ WriteFails("http") /\ UNCHANGED httpRows
    /\ Answer(c, 500) /\ pc' = [pc EXCEPT ![c] = "waiting"]
    /\ UNCHANGED <<flow, closes, found, requests, networkRows, failed, stopped>>

\* The client leaves, a deadline passes, or keep-alive ends.
EndServing(c) ==
    /\ ~stopped /\ pc[c] = "waiting"
    /\ pc' = [pc EXCEPT ![c] = "closing"] /\ closes' = [closes EXCEPT ![c] = 1]
    /\ UNCHANGED <<flow, handler, logs, failed, stopped>>

-----------------------------------------------------------------------------
(* trackingConn.Close and logFailedTLSHandshake. *)

MustLogOpaque_Repeated(c) == tls[c] /\ ~requestSeen[c]  \* mutant: opaqueLogged is not asked
MustLogOpaque_KnownHost(c) ==  \* mutant: a hello without SNI is passed over
    tls[c] /\ ~requestSeen[c] /\ ~opaqueLogged[c] /\ host[c] # NoHost
MustLogOpaque(c) == tls[c] /\ ~requestSeen[c] /\ ~opaqueLogged[c]

AfterClose(c) == IF closes[c] = 1 THEN "closed" ELSE "closing"

Close(c) ==
    /\ ~stopped /\ pc[c] = "closing"
    /\ IF MustLogOpaque(c)
       THEN /\ opaqueLogged' = [opaqueLogged EXCEPT ![c] = TRUE]
            /\ pc' = [pc EXCEPT ![c] = "opaque"] /\ UNCHANGED closes
       ELSE /\ closes' = [closes EXCEPT ![c] = @ - 1]
            /\ pc' = [pc EXCEPT ![c] = AfterClose(c)] /\ UNCHANGED opaqueLogged
    /\ UNCHANGED <<tls, requestSeen, host, handler, logs, failed, stopped>>

OpaqueRow(c) ==
    httpRows' = [httpRows EXCEPT ![c] = Append(@,
        [kind |-> "opaque", canary |-> {}, host |-> host[c], clean |-> ~torn["http"]])]

LogOpaque(c) ==
    /\ ~stopped /\ pc[c] = "opaque"
    /\ \/ WriteOk("http") /\ OpaqueRow(c)
       \/ SyncFails("http") /\ OpaqueRow(c)
       \/ WriteFails("http") /\ UNCHANGED httpRows
    /\ closes' = [closes EXCEPT ![c] = @ - 1] /\ pc' = [pc EXCEPT ![c] = AfterClose(c)]
    /\ UNCHANGED <<flow, handler, networkRows, failed, stopped>>

-----------------------------------------------------------------------------
Init ==
    /\ pc = [c \in Conns |-> "none"] /\ tls = [c \in Conns |-> FALSE]
    /\ requestSeen = [c \in Conns |-> FALSE] /\ opaqueLogged = [c \in Conns |-> FALSE]
    /\ host = [c \in Conns |-> NoHost]
    /\ closes = [c \in Conns |-> 0]
    /\ found = [c \in Conns |-> {}] /\ requests = [c \in Conns |-> 0]
    /\ answers = [c \in Conns |-> <<>>]
    /\ networkRows = {} /\ httpRows = [c \in Conns |-> <<>>]
    /\ torn = [l \in Logs |-> FALSE] /\ faults = [l \in Logs |-> 0]
    /\ failed = FALSE /\ stopped = FALSE

Step(c) ==
    \/ \E t \in BOOLEAN : Accept(c, t)
    \/ LogNetwork(c) \/ LogNetworkFails(c)
    \/ \E name \in Hosts \cup {NoHost} : GetCertificate(c, name)
    \/ HandshakeDone(c) \/ HandshakeFails(c)
    \/ \E name \in Hosts \cup {NoHost}, meta \in SUBSET CanaryIds : Request(c, name, meta)
    \/ \E body \in SUBSET CanaryIds : BodyRead(c, body)
    \/ BodyFails(c) \/ LogRequest(c) \/ LogRequestFails(c)
    \/ EndServing(c) \/ Close(c) \/ LogOpaque(c)

Next == (\E c \in Conns : Step(c)) \/ Exit

Spec == Init /\ [][Next]_vars

(* Goroutines that have something to do are run.  A client may leave a     *)
(* body unfinished for ever, so nothing is assumed of "reading"; a         *)
(* handshake and the first header have ReadHeaderTimeout, and nothing else *)
(* makes a connection that waits for its next request end.                 *)
Serve(c) ==
    \/ LogNetwork(c) \/ LogNetworkFails(c) \/ HandshakeDone(c) \/ HandshakeFails(c)
    \/ LogRequest(c) \/ LogRequestFails(c)
    \/ (~requestSeen[c] /\ EndServing(c)) \/ Close(c) \/ LogOpaque(c)
FairSpec == Spec /\ WF_vars(Exit) /\ \A c \in Conns : WF_vars(Serve(c))

-----------------------------------------------------------------------------
(* Properties. *)

TypeOK ==
    /\ pc \in [Conns -> PCs] /\ tls \in [Conns -> BOOLEAN]
    /\ requestSeen \in [Conns -> BOOLEAN] /\ opaqueLogged \in [Conns -> BOOLEAN]
    /\ host \in [Conns -> Hosts \cup {NoHost}]
    /\ closes \in [Conns -> 0..2]
    /\ found \in [Conns -> SUBSET CanaryIds] /\ requests \in [Conns -> 0..MaxRequests]
    /\ answers \in [Conns -> Seq({200, 400, 500})]
    /\ networkRows \subseteq Conns \X BOOLEAN
    /\ httpRows \in [Conns -> Seq(HttpRow)]
    /\ torn \in [Logs -> BOOLEAN] /\ faults \in [Logs -> 0..MaxFaults]
    /\ failed \in BOOLEAN /\ stopped \in BOOLEAN

Rows(c, kind) == {k \in DOMAIN httpRows[c] : httpRows[c][k].kind = kind}
Answered(c, status) == {k \in DOMAIN answers[c] : answers[c][k] = status}

(* Accept logs before it hands the connection over: a flow id that occurs  *)
(* in http.jsonl occurs in network.jsonl, or the join by flow_id would     *)
(* lose the request.                                                       *)
NetworkRowFirst == \A c \in Conns : httpRows[c] # <<>> => \E b \in BOOLEAN : <<c, b>> \in networkRows

(* logFailedTLSHandshake under a double Close: a flow has at most one      *)
(* opaque row, only on TLS, and never beside a row of a request.           *)
OpaqueOnlyOnce ==
    \A c \in Conns : Rows(c, "opaque") # {} =>
        tls[c] /\ Cardinality(Rows(c, "opaque")) = 1 /\ Rows(c, "request") = {}

(* The handler answers 200 only after its row is written and synced: the   *)
(* client is never told of a success that http.jsonl does not hold.        *)
ServedIsLogged == \A c \in Conns : Cardinality(Answered(c, 200)) <= Cardinality(Rows(c, "request"))

(* Close after an unfinished handshake or a silent TLS client: a TLS flow  *)
(* that ended without a request is in http.jsonl as opaque, unless writing *)
(* that log failed or the process stopped.                                 *)
ClosedTLSIsVisible ==
    \A c \in Conns : pc[c] = "closed" /\ tls[c] /\ faults["http"] = 0 =>
        requestSeen[c] \/ Rows(c, "opaque") # {}

(* ReadHeaderTimeout and Close together: every TLS connection that was     *)
(* handed over comes to a request or to an opaque row.                     *)
EveryTLSFlowSettles ==
    \A c \in Conns : pc[c] = "handshake" ~>
        requestSeen[c] \/ Rows(c, "opaque") # {} \/ faults["http"] > 0 \/ stopped

(* One Write per line: a failed write spoils at most the one row that      *)
(* follows it, so a log never holds more unreadable rows than faults.      *)
DamageIsBounded ==
    /\ Cardinality({w \in networkRows : ~w[2]}) <= faults["network"]
    /\ Cardinality(UNION {{<<c, k>> : k \in {n \in DOMAIN httpRows[c] : ~httpRows[c][n].clean}}
                          : c \in Conns}) <= faults["http"]

(* README.md:33: the honeynet looks for the token in payload and headers.  *)
(* With no fault of the log, a request that was answered and carried a     *)
(* canary has a row that names it.                                         *)
AnsweredCanaryLogged ==
    \A c \in Conns : pc[c] = "waiting" /\ faults["http"] = 0 =>
        \A id \in found[c] : \E k \in Rows(c, "request") : id \in httpRows[c][k].canary
=============================================================================
