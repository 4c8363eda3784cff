------------------------------ MODULE NetworkRows ------------------------------
(***************************************************************************)
(* network.jsonl from its two writers to its reader.  The sensor drains a  *)
(* connect, stamps the row with the second of the draining and writes it   *)
(* through a BufWriter; the honeynet logs each connection it accepts with  *)
(* one write of a whole line; both files are open for appending.  The      *)
(* analyzer reads the lines of the file and joins a row of the sensor to a *)
(* flow by their times.  That one file holds the rows of both is what the  *)
(* reader asks for: it opens one network.jsonl per run.                    *)
(*                                                                         *)
(* serde_json writes a row token by token, and a BufWriter that has no     *)
(* room left writes out what it holds first: the file then ends in the     *)
(* middle of a row until the next time the buffer is written.  A row is a  *)
(* few pieces here, named by what a reader makes of a line that begins     *)
(* with them.  The kernel's queue and the honeynet are modelled as far as  *)
(* they put events and rows in; their own modules are Sensor and           *)
(* HoneynetFlow.                                                           *)
(***************************************************************************)
EXTENDS Naturals, Sequences, FiniteSets, CivilDate

CONSTANTS
    Conns,        \* connections of the sample to the honeynet
    Capacities,   \* pieces the buffer of the log may hold
    Starts,       \* seconds since 1970 a run may begin at
    JoinWindow,   \* JOIN_WINDOW, in seconds
    MaxTicks      \* bound: half seconds a run takes

ASSUME SizesArePositive ==
    Capacities \subseteq Nat \ {0} /\ JoinWindow \in Nat /\ MaxTicks \in Nat
ASSUME StartsAreSeconds == Starts \subseteq Nat

VARIABLES
    capacity, \* of the buffer: where its end falls in a row depends on the lengths of all rows
    start,    \* the second the run began at
    ticks,    \* half seconds since then
    ring,     \* connects the sensor has not drained
    seen,     \* connects the programs have reported
    logged,   \* connections the honeynet has logged
    sensor,   \* run_sensor: draining, stopped, failed or ended by an error
    line,     \* pieces of the row being written
    buffer,   \* what the BufWriter holds
    file      \* network.jsonl

vars == <<capacity, start, ticks, ring, seen, logged, sensor, line, buffer, file>>
fixed == <<capacity, start, ticks>>

Now == start + ticks \div 2

\* The pieces of a row.  A text is any token that is no JSON value a row could be read from.
Pieces == <<"open", "text", "null", "close", "newline">>
Closing == 4

to_writer(row) == [k \in DOMAIN Pieces |-> [row |-> row, piece |-> k]]

-----------------------------------------------------------------------------
(* The honeynet and the programs. *)

HoneynetRow(c) == [source |-> "honeynet", conn |-> c, second |-> Now, half |-> ticks % 2]

\* The honeynet logs c in one write, its time to the nanosecond.
LogFlow(c) ==
    /\ c \notin logged
    /\ logged' = logged \cup {c}
    /\ file' = file \o to_writer(HoneynetRow(c))
    /\ UNCHANGED <<fixed, ring, seen, sensor, line, buffer>>

\* The connect() of c has returned and its event is in the ring.
Connect(c) ==
    /\ c \notin seen
    /\ seen' = seen \cup {c} /\ ring' = Append(ring, c)
    /\ UNCHANGED <<fixed, logged, sensor, line, buffer, file>>

Tick ==
    /\ ticks < MaxTicks
    /\ ticks' = ticks + 1
    /\ UNCHANGED <<capacity, start, ring, seen, logged, sensor, line, buffer, file>>

-----------------------------------------------------------------------------
(* The sensor. *)

\* Mutant: the log is not opened for appending: the sensor writes where it last stopped.
Appended_AtOffset(pieces) ==
    LET own == Len(SelectSeq(file, LAMBDA p : p.row.source = "aya_connect"))
    IN [k \in 1..(IF own + Len(pieces) > Len(file) THEN own + Len(pieces) ELSE Len(file)) |->
            IF k \in (own + 1)..(own + Len(pieces)) THEN pieces[k - own] ELSE file[k]]
\* open_jsonl: whatever is written goes to the end of the file.
Appended(pieces) == file \o pieces

rfc3339_now == rfc3339_from_unix(Now)

\* conn tells the rows apart and stands for the fields the join compares besides the time;
\* drained is history.
render_network_event(c) ==
    [source |-> "aya_connect", conn |-> c, ts |-> rfc3339_now, drained |-> Now]

Drain ==
    /\ sensor = "draining" /\ line = <<>> /\ ring # <<>>
    /\ ring' = Tail(ring)
    /\ line' = to_writer(render_network_event(Head(ring)))
    /\ UNCHANGED <<fixed, seen, logged, sensor, buffer, file>>

Smaller(m, n) == IF m < n THEN m ELSE n

\* write_json_line, as long as there is room: the pieces go to the buffer.
Fill ==
    LET room == Smaller(Len(line), capacity - Len(buffer)) IN
    /\ sensor = "draining" /\ room > 0
    /\ buffer' = buffer \o SubSeq(line, 1, room)
    /\ line' = SubSeq(line, room + 1, Len(line))
    /\ UNCHANGED <<fixed, ring, seen, logged, sensor, file>>

Full == sensor = "draining" /\ line # <<>> /\ Len(buffer) = capacity
Over == sensor = "draining" /\ line = <<>> /\ ring = <<>>

\* A full buffer is written out before the next piece is taken.
Spill ==
    /\ Full
    /\ file' = Appended(buffer) /\ buffer' = <<>>
    /\ UNCHANGED <<fixed, ring, seen, logged, sensor, line>>

\* Mutant: the log is closed without a flush.
Stop_NoFlush ==
    /\ Over
    /\ sensor' = "stopped"
    /\ UNCHANGED <<fixed, ring, seen, logged, line, buffer, file>>

\* Past the deadline the log is flushed and closed.
Stop ==
    /\ Over
    /\ file' = Appended(buffer) /\ buffer' = <<>> /\ sensor' = "stopped"
    /\ UNCHANGED <<fixed, ring, seen, logged, line>>

\* Part of the buffer reaches the file, the rest stays in the buffer.
WrittenInPart ==
    \E k \in 0..Len(buffer) :
        /\ file' = Appended(SubSeq(buffer, 1, k))
        /\ buffer' = SubSeq(buffer, k + 1, Len(buffer))

\* The write fails half way, or that of another log does: run_sensor returns the error.
Fail ==
    /\ sensor = "draining"
    /\ \/ (Full \/ Over) /\ WrittenInPart
       \/ line = <<>> /\ UNCHANGED <<buffer, file>>
    /\ sensor' = "failed"
    /\ UNCHANGED <<fixed, ring, seen, logged, line>>

\* The BufWriter is dropped: it writes what it still holds, and nobody hears of an error.
DropWriter ==
    /\ sensor = "failed"
    /\ WrittenInPart
    /\ sensor' = "ended"
    /\ UNCHANGED <<fixed, ring, seen, logged, line>>

-----------------------------------------------------------------------------
(* The analyzer.  A line is read as the JSON value it begins with; what    *)
(* follows the value is ignored, a blank line is skipped, a null becomes a *)
(* row that the list of rows refuses with an exception, and anything else  *)
(* is a parse error.                                                       *)

LineStarts == {i \in DOMAIN file : i = 1 \/ Pieces[file[i - 1].piece] = "newline"}

ReadsRow(i) ==
    \A k \in 1..Closing :
        i + k - 1 \in DOMAIN file /\ file[i + k - 1] = [row |-> file[i].row, piece |-> k]

\* The rows JsonlReader reads, the lines it reports and the lines it takes a null from.
events == {file[i].row : i \in {j \in LineStarts : ReadsRow(j)}}
parseErrors == {i \in LineStarts : ~ReadsRow(i) /\ Pieces[file[i].piece] \notin {"null", "newline"}}
throws == \E i \in LineStarts : Pieces[file[i].piece] = "null"
\* What it returns: List.copyOf refuses a null, and none of the rows gets out.
network == IF throws THEN {} ELSE events

\* Instant.parse of a row's ts, as the seconds since 1970 of that date in the calendar.
DaysBeforeYear(y) == 365 * (y - 1970) + (y - 1) \div 4 - (y - 1) \div 100 + (y - 1) \div 400 - 477
DaysBeforeMonth(y, m) ==
    (367 * m - 362) \div 12 - (IF m <= 2 THEN 0 ELSE IF IsLeap(y) THEN 1 ELSE 2)
instant(ts) ==
    86400 * (DaysBeforeYear(ts.date.year) + DaysBeforeMonth(ts.date.year, ts.date.month)
             + ts.date.day - 1) + 3600 * ts.hour + 60 * ts.minute + ts.second

\* bestAyaMatch, of one candidate: not after the flow, and no more than the window before it.
inWindow_Exclusive(aya, flow) == instant(aya.ts) < flow.second /\ flow.second - instant(aya.ts) < JoinWindow  \* mutant
inWindow(aya, flow) ==
    /\ instant(aya.ts) <= flow.second
    /\ \/ flow.second - instant(aya.ts) < JoinWindow
       \/ flow.second - instant(aya.ts) = JoinWindow /\ flow.half = 0

-----------------------------------------------------------------------------
Init ==
    /\ capacity \in Capacities /\ start \in Starts /\ ticks = 0
    /\ ring = <<>> /\ seen = {} /\ logged = {}
    /\ sensor = "draining" /\ line = <<>> /\ buffer = <<>> /\ file = <<>>

Next ==
    \/ \E c \in Conns : LogFlow(c) \/ Connect(c)
    \/ Tick \/ Drain \/ Fill \/ Spill \/ Stop \/ Fail \/ DropWriter

Spec == Init /\ [][Next]_vars

-----------------------------------------------------------------------------
(* Properties. *)

OfSensor(p) == p.row.source = "aya_connect"

\* The pieces of the sensor in their order: SelectSeq as a function, which proofs can unfold.
OwnPart(pieces) ==
    LET part[n \in 0..Len(pieces)] ==
            IF n = 0 THEN <<>>
            ELSE IF OfSensor(pieces[n]) THEN Append(part[n - 1], pieces[n]) ELSE part[n - 1]
    IN part[Len(pieces)]
SensorPart == OwnPart(file)

SensorLog == INSTANCE LineLog WITH
    handed <- SensorPart \o buffer, kept <- SensorPart,
    state <- IF sensor = "stopped" THEN "closed"
             ELSE IF sensor = "draining" THEN "open" ELSE "broken"

(* The sensor's log keeps what it is handed, whoever else writes to the    *)
(* file: its rows are there in the order they were drained, none twice,    *)
(* all of them once run_sensor has returned without an error.              *)
KeepsWhatItIsHanded == SensorLog!Spec

SensorRows == {file[i].row : i \in {j \in DOMAIN file : OfSensor(file[j])}}
Breaks == {i \in DOMAIN file : /\ OfSensor(file[i]) /\ Pieces[file[i].piece] # "newline"
                               /\ i = Len(file) \/ file[i + 1].row # file[i].row}
BrokenRows == {file[i].row : i \in Breaks}
FlowsRead == {row.conn : row \in {r \in network : r.source = "honeynet"}}

(* What the shared file costs.  Unless the reader throws, a flow of the    *)
(* honeynet is lost only where a write of the sensor ended inside a row,   *)
(* one flow to each such place, and no row of the sensor is lost but those *)
(* it broke there.  The reader throws, and returns no row of either,       *)
(* only where such a break left a null at the head of a line.  A run whose *)
(* rows fit the buffer and whose writes succeed is read whole: no line is  *)
(* refused, no flow lost and the reader does not throw.                    *)
DamageIsOneFlowPerBreak ==
    /\ ~throws =>
        /\ Cardinality(logged \ FlowsRead) <= Cardinality(Breaks)
        /\ SensorRows \ BrokenRows \subseteq network
    /\ throws => \E i \in Breaks : Pieces[file[i].piece + 1] = "null"
    /\ Len(SensorPart) + Len(buffer) + Len(line) <= capacity /\ sensor \in {"draining", "stopped"} =>
        ~throws /\ parseErrors = {} /\ FlowsRead = logged

(* The times of the rows decide nothing but what the clock says: a connect *)
(* and its flow that were both read can be joined unless the event was     *)
(* drained in a later second than the flow was logged in, or more than the *)
(* window before it, over the end of any day, month and year.              *)
JoinNeedsTimelyDrain ==
    \A aya, flow \in network :
        aya.source = "aya_connect" /\ flow.source = "honeynet" /\ aya.conn = flow.conn =>
            (inWindow(aya, flow) <=>
                /\ aya.drained <= flow.second
                /\ 2 * (flow.second - aya.drained) + flow.half <= 2 * JoinWindow)

(* The time the sensor renders goes from each second to the next as the    *)
(* calendar does.                                                          *)
RenderedTimeTicks == rfc3339_from_unix(Now + 1) = NextSecond(rfc3339_from_unix(Now))
=============================================================================
