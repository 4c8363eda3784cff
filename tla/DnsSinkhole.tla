------------------------------ MODULE DnsSinkhole ------------------------------
(***************************************************************************)
(* The DNS sinkhole of the honeynet (dns-sinkhole/main.go): one loop reads *)
(* a datagram, parses its question, appends a row to dns.jsonl and answers *)
(* with the address of the listener.  Any error of the log or the socket   *)
(* ends the process; a later start appends to the log that is there.       *)
(*                                                                         *)
(* A datagram is its id, whether it has a whole header, the qdcount of the *)
(* header and the bytes after it; the network may lose, repeat and reorder *)
(* datagrams.                                                              *)
(***************************************************************************)
EXTENDS CanaryMatcher, FiniteSets

CONSTANTS
    Datagrams,     \* what clients send
    Bounded(_, _, _),  \* bound: on the wire, received so far, last query
    MaxFaults      \* bound: failed log writes and sends

IsDatagram(d) ==
    /\ DOMAIN d = {"id", "whole", "qdcount", "body"}
    /\ d.whole \in BOOLEAN /\ d.qdcount \in Nat /\ d.body \in Seq(0..255)

ASSUME DatagramsHaveFields == \A d \in Datagrams : IsDatagram(d)

VARIABLES
    wire,          \* datagrams on their way to the sinkhole
    loop,          \* "receive", "write", "answer" or "dead"
    query,         \* the datagram being handled
    log,           \* the lines of dns.jsonl
    torn,          \* its last line has no newline
    answers,       \* responses sent
    received, faults

sinkholeVars == <<wire, loop, query, log, torn, answers, received, faults>>

-----------------------------------------------------------------------------
(* parseQuestion.  labelAt[o] is where the labels from byte o on lead: the *)
(* byte after the root label and the name read, or no question at all.     *)
NoQuestion == [ok |-> FALSE, name |-> <<>>, end |-> 0]

labels(body) ==
    LET labelAt[o \in 1..Len(body) + 1] ==
            IF o > Len(body) THEN NoQuestion
            ELSE LET length == body[o]
                     rest == labelAt[o + length + 1]
                     label == SubSeq(body, o + 1, o + length)
                 IN  IF length = 0 THEN [ok |-> TRUE, name |-> <<>>, end |-> o + 1]
                     ELSE IF length > 63 \/ o + length > Len(body) \/ ~rest.ok
                     THEN NoQuestion
                     ELSE [rest EXCEPT !.name = IF @ = <<>> THEN label
                                                ELSE label \o <<46>> \o @]
    IN labelAt[1]

Word(body, o) == 256 * body[o] + body[o + 1]

(* Mutant: one byte more than the trailer has is asked for.                *)
parseQuestion_Strict(d) ==
    LET q == IF d.whole /\ d.qdcount # 0 THEN labels(d.body) ELSE NoQuestion
    IN  IF q.ok /\ q.end + 4 <= Len(d.body)
        THEN [ok |-> TRUE,
              name |-> IF q.name = <<>> THEN <<46>> ELSE q.name,
              qtype |-> Word(d.body, q.end), qclass |-> Word(d.body, q.end + 2),
              end |-> q.end + 3]
        ELSE [ok |-> FALSE]

parseQuestion(d) ==
    LET q == IF d.whole /\ d.qdcount # 0 THEN labels(d.body) ELSE NoQuestion
    IN  IF q.ok /\ q.end + 3 <= Len(d.body)
        THEN [ok |-> TRUE,
              name |-> IF q.name = <<>> THEN <<46>> ELSE q.name,
              qtype |-> Word(d.body, q.end), qclass |-> Word(d.body, q.end + 2),
              end |-> q.end + 3]
        ELSE [ok |-> FALSE]

(* buildResponse: header and question as they came, one question, and an   *)
(* A record of class IN if that is what was asked for.                     *)
buildResponse(d, question) ==
    [id |-> d.id, whole |-> TRUE, qdcount |-> 1,
     body |-> SubSeq(d.body, 1, question.end),
     address |-> question.qtype = 1 /\ question.qclass = 1]

(* The row of a query: only the type decides what resolved_ip says.        *)
Event(d, question) ==
    [id |-> d.id, query |-> redact(question.name), qtype |-> question.qtype,
     canary_match |-> tokensIn(question.name), resolved |-> question.qtype = 1]

-----------------------------------------------------------------------------
SinkholeInit ==
    /\ wire = {} /\ loop = "receive" /\ query = <<>>
    /\ log = <<>> /\ torn = FALSE /\ answers = <<>>
    /\ received = 0 /\ faults = 0

(* A client sends a query, or sends it again.                              *)
Send(d) ==
    /\ d \notin wire /\ Bounded(wire \cup {d}, received, query)
    /\ wire' = wire \cup {d}
    /\ UNCHANGED <<loop, query, log, torn, answers, received, faults>>

Lose(d) ==
    /\ d \in wire /\ wire' = wire \ {d}
    /\ UNCHANGED <<loop, query, log, torn, answers, received, faults>>

(* ReadFrom and handleQueryWithMatcher; what does not parse is dropped.    *)
Receive(d, repeated) ==
    /\ loop = "receive" /\ d \in wire /\ Bounded(wire, received, query)
    /\ received' = received + 1
    /\ wire' = IF repeated THEN wire ELSE wire \ {d}
    /\ IF parseQuestion(d).ok
       THEN loop' = "write" /\ query' = d
       ELSE UNCHANGED <<loop, query>>
    /\ UNCHANGED <<log, torn, answers, faults>>

row == Event(query, parseQuestion(query))
Line == [row |-> row, clean |-> ~torn]

(* writeEvent: the line and its newline in one Write, then Sync.           *)
WriteEvent ==
    /\ loop = "write" /\ loop' = "answer"
    /\ log' = Append(log, Line) /\ torn' = FALSE
    /\ UNCHANGED <<wire, query, answers, received, faults>>

Fault == faults < MaxFaults /\ faults' = faults + 1 /\ loop' = "dead"

(* Mutant: the error is ignored and the query answered.                    *)
WriteEventFails_Ignored ==
    /\ loop = "write" /\ loop' = "answer"
    /\ faults < MaxFaults /\ faults' = faults + 1
    /\ \/ log' = Append(log, Line) /\ torn' = FALSE
       \/ torn' \in {torn, TRUE} /\ UNCHANGED log
    /\ UNCHANGED <<wire, query, answers, received>>

(* Write leaves none or part of the line, or Sync fails after all of it,   *)
(* or the container is killed there.                                       *)
WriteEventFails ==
    /\ loop = "write" /\ Fault
    /\ \/ log' = Append(log, Line) /\ torn' = FALSE
       \/ torn' \in {torn, TRUE} /\ UNCHANGED log
    /\ UNCHANGED <<wire, query, answers, received>>

Answer ==
    /\ loop = "answer" /\ loop' = "receive"
    /\ answers' = Append(answers, buildResponse(query, parseQuestion(query)))
    /\ UNCHANGED <<wire, query, log, torn, received, faults>>

AnswerFails ==
    /\ loop = "answer" /\ Fault
    /\ UNCHANGED <<wire, query, log, torn, answers, received>>

(* start.sh with the same log directory: openLog appends to dns.jsonl; the *)
(* network is a new one.                                                   *)
Restart ==
    /\ loop = "dead" /\ loop' = "receive" /\ wire' = {}
    /\ UNCHANGED <<query, log, torn, answers, received, faults>>

SinkholeNext ==
    \/ \E d \in Datagrams : Send(d) \/ Lose(d) \/ \E r \in BOOLEAN : Receive(d, r)
    \/ WriteEvent \/ WriteEventFails \/ Answer \/ AnswerFails \/ Restart

SinkholeSpec == SinkholeInit /\ [][SinkholeNext]_sinkholeVars

-----------------------------------------------------------------------------
Handling == loop \in {"write", "answer"}
RowsOf(id) == Cardinality({k \in 1..Len(log) : log[k].row.id = id})
AnswersTo(id) == Cardinality({k \in 1..Len(answers) : answers[k].id = id})
Ids == {d.id : d \in Datagrams}
Giving(id) == Cardinality({k \in 1..Len(answers) : answers[k].id = id /\ answers[k].address})
Given(id) == Cardinality({k \in 1..Len(log) : log[k].row.id = id /\ log[k].row.resolved})

(* No query is answered before its row is in dns.jsonl, however often it   *)
(* is repeated, and no answer gives an address away that a row does not    *)
(* tell of; beyond the query in hand a row without an answer, as a client  *)
(* that asks again reads it, is the trace of a failed sync or send; and a  *)
(* fragment that a failed write left makes at most one row unreadable, the *)
(* one a later start glues to it.                                          *)
RowsAndAnswersAgree ==
    /\ \A id \in Ids : AnswersTo(id) <= RowsOf(id) /\ Giving(id) <= Given(id)
    /\ Len(log) <= Len(answers) + faults + (IF loop = "answer" THEN 1 ELSE 0)
    /\ Cardinality({k \in 1..Len(log) : ~log[k].clean}) <= faults

(* A question is a chain of labels of at most 63 bytes that ends with the  *)
(* root label and four more bytes, all inside the datagram.                *)
WellFormed(d) ==
    /\ d.whole /\ d.qdcount # 0
    /\ \E starts \in SUBSET (1..Len(d.body)) :
          /\ 1 \in starts
          /\ \A o \in starts :
                IF d.body[o] = 0 THEN o + 4 <= Len(d.body)
                ELSE d.body[o] <= 63 /\ o + d.body[o] + 1 \in starts

(* parseQuestion accepts the datagrams with a question and no others: what *)
(* it drops is never logged.                                               *)
DropsOnlyMalformed ==
    /\ \A d \in wire : parseQuestion(d).ok <=> WellFormed(d)
    /\ Handling => parseQuestion(query).ok

(* No token is left in the logged name whatever the order in which tokens  *)
(* that overlap are replaced, and every label put in stands for a token of *)
(* the name that canary_match lists.                                       *)
RowHidesTokens ==
    Handling =>
        /\ \A s \in Secrets : ~Occurs(row.query, MatchToken[s])
        /\ \A k \in 1..Len(row.query) :
              row.query[k] \in Secrets => row.query[k] \in row.canary_match
=============================================================================
