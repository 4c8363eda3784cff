# TLA+ verification of the exfil analyzer

This directory models the concurrent and order-sensitive core of the exfil analyzer: the
kernel sensor that watches a sandboxed sample, the honeynet that answers its traffic, and the
Java analyzer that joins their logs into a report.  TLC checks small instances, TLAPS proves
the theorems named below for every value of the constants.

    tlc -config Correlator.cfg MCCorrelator        tlapm EvidenceChainProofs.tla

## Inventory of the system

A run of the analyzer executes a sample in a container whose DNS points at a sinkhole.  Four
programs write JSONL logs into one directory; a fifth reads them afterwards.

| Component | State it keeps | Operations | Talks to |
|---|---|---|---|
| Kernel sensor, eBPF half (`rust-observer/snoop-ebpf`) | `CONNECT_ARGS` (LRU map, 4096), `EVENTS` (ring, 1 MiB) | open/exec/exit tracepoints; `connect()` entry kprobe and return kretprobe | the threads of the host; the drain loop through the ring |
| Kernel sensor, user half (`rust-observer/snoop`) | three buffered logs, a deadline | attach five programs in order, drain, filter by cgroup, render, write, flush | `files.jsonl`, `proc.jsonl`, `network.jsonl`; `/proc` for the ppid |
| Rows of processes and files (`sensor.rs`, `snoop-ebpf`) | the canary paths | exec, exit and open events; ppid and exe from `/proc`; mark canaries | the kernel's processes; evidence chains |
| Timestamps (`sensor.rs`) | none | render the second a row is written in | the join |
| Command and build of the sensor (`main.rs`, `build.rs`) | the configuration; the embedded eBPF object | build and embed the object; parse variables and arguments; self-test; exit code | cargo, the gates that start it and wait for its logs |
| HTTP/TLS terminator (`sandbox/honeynet/http-listener`) | two loggers with a mutex, one `connectionFlow` per connection, a certificate cache | accept and log, handshake, handle requests, log one row per request, close and log opaque flows | clients; `network.jsonl`, `http.jsonl` |
| DNS sinkhole (`sandbox/honeynet/dns-sinkhole`) | one log | parse, log, answer with the listener's address | clients; `dns.jsonl` |
| Ingestion (`JsonlReader`) | the rows read, the parse errors | read five logs line by line | the logs |
| Join (`EventCorrelator`) | sorted rows, used sensor rows, egress list | correlate per run: join flows and connects, report the rest | ingestion, evidence chains, classifier |
| Evidence chains (`EventCorrelator`) | parent map, chains | build the parent map, walk from sender to opener | the egress list |
| Classifier (`DownloadClassifier`) | none | verdict and reasons of an egress event | the correlated run |
| Lifecycle (`run-sandboxed.sh`, `start.sh`, `cleanup.sh`) | containers, network, directories | start in order, wait, clean up | docker |
| Canary generator, schemas, gates | files | sequential scripts | -- |

What is hard here, and what makes each part correct:

* **Sensor.**  Two eBPF programs share one map entry per thread, are attached one after the
  other while the host runs, and may miss a return; the ring and the map overflow silently; the
  drain loop has a deadline.  Correct means: no connect is reported twice, each is accounted
  for, and a row carries the address of its own call.
* **Processes and files.**  Events wait in the ring while their processes end, lose their
  parents, or have their number used again; `/proc` is read when the event is drained.  Correct
  means: a row is true, or wrong in a way that lateness explains.
* **Network log.**  The sensor's buffered rows and the honeynet's whole lines go to one file; a
  full buffer is written out in the middle of a row.  Correct means: nothing is lost but where a
  write ended inside a row, and the two clocks of the rows can be compared.
* **Command and build.**  The object comes from one of three places and cargo decides when to make
  it again; errors are told apart by their text; the gates read the log file as a sign.  Correct
  means: the configuration is what was said, "skipped" means refused, "ready" means attached, and
  rows are missing only for a reason.
* **Honeynet.**  Accept loops, one goroutine per connection, double closes by `net/http`, and
  logs whose writes fail in part.  Correct means: a flow is in `network.jsonl` before it is in
  `http.jsonl`, it is opaque at most once and never beside a request, a closed TLS flow is
  visible, success is answered after the row is on disk, and damage to a log stays local.
* **Join.**  Rows of two clocks and two programs come in any order; the greedy choice must
  miss no pair, invent none and use a connect once, and every row must end up in the report.
* **Evidence chains.**  Pid reuse makes the parent map an arbitrary graph with cycles.  Correct
  means: the walk ends, a chain is backed by rows, and it is found whenever rows support it.

* **Sinkhole and token search.**  One loop over untrusted packets.  Correct means: a query that
  parses has its row before it has its answer, what does not parse is exactly what is malformed,
  tokens are found across reads and none is left in a log.
* **Classifier.**  Correct means: more rows never soften a verdict, and rows of other
  runs do not count.
* **Lifecycle.**  Scripts without traps, containers that end by themselves, log directories used
  again.  Correct means: a start ends, it hands out its own certificate, and a cleanup that
  succeeds has left nothing older than the lists docker gave it.

The hazards, each at its line, are in `PROJECT.json`; the properties below are aimed at them.

## Modules

| Module | Models | Correspondence |
|---|---|---|
| `Correlator` | `EventCorrelator.correlate` and `correlateRun` over logs of `JsonlReader` | one action per loop iteration; `phase` says which loop; `network`, `http`, `usedAya`, `egress` are the locals of the same name, `results` the list of `CorrelatedRun`; `JoinFlow`/`JoinRequests` are the two branches of the first loop, `ReportUnused`/`SkipUsed` of the second |
| `EvidenceChain` | `evidenceChains`, `parentByPid`, `processPath` | one action per iteration of the parent loop, of the two nested loops (`f`, `e`) and of the `while` of `processPath` (`cursor`, `seen`, `reversed`) |
| `EvidenceChainProofs` | theorems about `EvidenceChain` | |
| `CorrelatorProofs` | theorems about `Correlator` and `Classifier` | |
| `MCCorrelator`, `MCEvidenceChain` | the logs of the TLC instances | |
| `HoneynetFlow` | `trackingListener`, `trackingConn`, `syntheticHandler`, `eventLogger`, `run` | `pc[c]` is the point a connection's goroutine has reached; one action per log write, per read from the client and per close; each write has the outcomes success, failed sync, failed write |
| `HoneynetFlowProofs` | theorems about `HoneynetFlow` and `HoneynetLifecycle` | |
| `ConnectLedger` | what `Sensor` promises of a connect: kept, queued, logged, or gone | the abstract specification of `Sensor` |
| `Sensor` | the eBPF programs and `run_sensor` | `attached` counts the attached programs in the code's order; `ConnectEnter`/`ConnectReturn` are the two probes with the call they trace; `sensor` is the position in the drain loop |
| `SensorProofs` | theorems about `Sensor` | |
| `Tracing`, `MCTracing` | the exec, exit and open programs, `render_proc_event`, `render_file_event`, `CanaryPathMatcher` | one action per traced event and per turn of the drain loop; forks, threads, ends, reaping and reuse of numbers are the kernel's |
| `TracingProofs` | theorems about `Tracing` | |
| `CivilDate` | `rfc3339_from_unix`, `civil_from_days`, and the Gregorian calendar | one operator per local of the code |
| `LineLog` | what a buffered log promises its writer | the abstract specification of the sensor's half of `NetworkRows` |
| `NetworkRows`, `MCNetworkRows` | `network.jsonl`: `render_network_event`, `write_json_line` through a `BufWriter`, `eventLogger.write`, `JsonlReader.readStream`, the window of `bestAyaMatch` | a row is five pieces, an action moves pieces to the buffer or the buffer to the file; the reader is a function of the file |
| `NetworkRowsProofs` | theorems about `CivilDate` and `NetworkRows`: the calendar, reading times back, types, the order of the pieces in `network.jsonl`, the refinement of `LineLog` | |
| `SnoopBuild` | `build.rs` and the object `main.rs` embeds | one action per edit, environment change and `cargo build` |
| `SnoopCommand`, `MCSnoopCommand` | `main`, `run`, `from_env_and_args`, the steps of `run_sensor` and `run_self_test` | composed with `SnoopBuild`; `step` is the point the program has reached; one action per turn of the argument loop and per step before the loop |
| `SnoopCommandProofs` | theorems about `SnoopBuild` and `SnoopCommand` | |
| `CanaryMatcher` | `canaryMatcher` of both honeynet programs: `matchCandidate`, `redact` | operators over byte sequences |
| `CanaryScan`, `MCCanaryScan` | `scanRequestBody`, `boundedSuffix` | one action per `Body.Read`, with any bytes and any of its three results; `hashed` is what the hasher was given |
| `CanaryScanProofs` | theorems about `CanaryScan` and `DnsSinkhole` | |
| `DnsSinkhole`, `MCDnsSinkhole` | `run` of the sinkhole, `parseQuestion`, `buildResponse`, `writeEvent` | `loop` is the point the loop has reached; a datagram is the bytes after its header with the fields of the header the code looks at; the network loses and repeats |
| `Classifier`, `MCClassifier` | `DownloadClassifier.classify` | one operator per method; the actions add rows and call `classify` |
| `HoneynetLifecycle` | `start.sh`, `cleanup.sh`, the container of `run-sandboxed.sh`, `newCertificateAuthority` | one action per docker command or test of a script; docker and the listener act in between |

Each action is a whole iteration or handler segment between two points where another actor can
act.  The analyzer is one thread, so its actions interleave with nothing; what varies is the
contents and order of the logs, which `Correlator` and `EvidenceChain` leave arbitrary.  In
`HoneynetFlow` every goroutine step interleaves with every other; in `Sensor` the threads of the
host interleave with the attaching and draining of `run_sensor`.

Abstractions: an endpoint is address and port together; a time is a number of ticks (the join
window is 5 s in the code, one tick in the runs, any natural in the module); a token, a host
name, a path are model values; JSON rendering is left out, but that a row may be glued to a
fragment of a failed write is kept (`clean`).  A label
`[canary:ID]` is one element of a redacted name: that an id may itself spell another token is
not modelled.  The classifier's texts are sequences of labels and of the marks `.`, `:` and `/`, which
is where its methods cut; what `java.net.URI` makes of a text with `://` and `java.net.IDN` of a
label, and a label's length and entropy, are constants.  In `HoneynetLifecycle` a start's number stands for its run id, so ids do
not collide, a start has one sample at a time, and the CA file has the number of its writer.  In `Sensor` each event carries two history
fields (its thread and the address its call was given) that the code does not have; `entered` counts
the calls traced, `Lost` adds up the counters of the ways a connect is dropped, each named for its way.

`Sensor`, `Tracing`, `NetworkRows` and `SnoopCommand` look at one drain loop from four sides: where
connects go, what rows of processes and files say, what reaches the disk, how the program ends.
What `run_sensor` is given is a constant of `Sensor` (with and without a network log, an object of
shorter events) and read from the command line in `SnoopCommand`.  In `Tracing` the paths of opens
and of executables are cut between two words, where the code cuts at a byte; a path is as it was
written, so `.`, `..`, doubled slashes and links make other paths of one file; a process execs while it has
one thread, and every event is in scope.  In `NetworkRows` a row is five pieces, three of which a
reader takes for different things when a line begins with them; it assumes that sensor and honeynet
are given the same `network.jsonl`, as the one run directory that `JsonlReader` reads requires.  In
`SnoopBuild` an object is the version of `snoop-common` it was compiled with, and a later version
has longer events; of an object of a longer layout than the program's, any kind may be read.

## Runs

| Run | Bounds | Shows |
|---|---|---|
| `correlator` | the logs of `MCCorrelator`: 4 network rows of 2 processes and 2 flows at 3 instants, window 1; 3 network and 2 http rows with unparsable times; 2 rows of 2 runs, 2 endpoints, 2 protocols | `NoMissedJoin`, `JoinedPidConnected`: flows compete for connects within, at and beyond the window. `ConnectsReportedOnce`: no connect is used twice or left out, but for equal rows. `RequestsOfFlowsReported`: keep-alive flows, requests without a flow, rows of one run beside those of another |
| `evidence_chain` | the logs of `MCEvidenceChain`: 3 pids, 3 proc rows, 1 file, 1 event (all parent maps, up to renaming); 2 files and 2 events at 2 instants | `ChainsComplete` against the least set of ancestors, `ChainsSound`, `NoProcessTwice`, `AnalysisEnds`: self loops, 2- and 3-cycles, overwritten rows |
| `honeynet_flow` | 2 connections, 2 requests each, 2 faults | five safety properties of the two logs and `EveryTLSFlowSettles` |
| `honeynet_body` | one canary | violated: `AnsweredCanaryLogged` |
| `sensor` | 2 threads (one in the target cgroup), 2 addresses, ring of 2, map of 1, 2 calls each, 1 missed return; a network log and whole events, no network log, shorter events | `ConnectsConserved`, `MisreportNeedsUnseenReturn`, `EachConnectMovesOnce` (the refinement of `ConnectLedger`), `SensorEnds`: each way of losing a connect occurs, an item may have no row, the map evicts, the ring overflows |
| `tracing` | 2 processes below the first, 3 lives, 2 threads, 3 events, ring of 2; 2 secrets, 2 executables and 10 paths of up to 5 words, of which 4 fit: by name, relative, with `.`, `..` and doubled slashes, behind a link; the catalog named by the directory it is mounted from, by another name for it, by the directory above it, or none | `ProcRowsAreTrueOrLate`, `NoRowAfterTheLastExit`, `CanaryMarksAreExplained`: reparented, reaped and reused processes, a name that looks like the rest of `/proc/<pid>/stat` |
| `network_rows` | 2 connections, buffers of 7, 9 and 10 pieces (a row has 5), window of 1 s, 3 half seconds from the last second of 28 Feb 2000, 29 Feb 2000 and 31 Dec 2016 | `DamageIsOneFlowPerBreak`, `JoinNeedsTimelyDrain`, `RenderedTimeTicks`, `KeepsWhatItIsHanded` (the refinement of `LineLog`): a buffer that ends in every kind of piece, a reader that throws, writes that fail in part |
| `snoop_command` | 2 event layouts; command lines of up to 4 of 8 words; 4 environments; any build with a plain command line, any command line with a plain build; ring of 2, 3 drained events | `ConfigIsLastSaid`, `SkippedMeansRefused`, `ReadyMeansAttached`, `EmbeddedFitsBuild`, `SilentSensorIsStale`, `SelfTestEnds`: each step fails, objects are empty, missing, older, items are of any kind, out of the target cgroup or without a log |
| `canary_scan` | 2 tokens (lengths 4 and 2, overlapping), bodies of 8 bytes of 2 kinds, reads of 0 to 3 | `ScanIsExact`: tokens over two and more reads, bytes that come with an error |
| `dns_sinkhole` | the traffic of `MCDnsSinkhole`: 5 kinds of packets, 2 on the wire, 3 received, 2 faults; and, one at a time, names of one and two labels with any trailer and all names of 5 letters of 2 kinds | `RowsAndAnswersAgree`, `DropsOnlyMalformed`; `RowHidesTokens` with 2 overlapping tokens |
| `classifier` | 2 runs, 17 egress events, 4 http and 8 dns rows to choose 3 from | `VerdictNeverSoftens`, `LookupsConfirmTheirRun`: of what `classify` returned, with hosts spelled as URLs, with a port, a final dot, in Unicode, and texts that spell no name |
| `lifecycle` | 2 starts, 2 turns of the wait, samples with and without a honeynet, any cleanups | `LeftoversAreNew`, `NewDirectoryNewCA`, `StartEnds`: docker is missing, gives no list, reports a container that is gone; containers end and start in between |

`TypeOK` is proved for `EvidenceChain`, `HoneynetFlow`, `CanaryScan`, `Sensor`, `NetworkRows` and (as a
part of the invariants) `Correlator`; the runs are kept for what could be wrong.  Deadlock checking is off where the system stops: a finished analysis, an
ended program, closed connections.  Bounds (`Bounded` of `Correlator`, `EvidenceChain`,
`DnsSinkhole`, `Tracing` and `SnoopCommand`, which an MC module defines; `MaxRequests`, `MaxFaults`,
`MaxCalls`, `MaxMissed`, `MaxBody`, `MaxEvents`, `MaxLives`, `MaxThreads`, `MaxTicks`, `MaxItems`,
`MaxLayout`, `MaxStarts`) are guards of the environment's actions only; they never block a step of
the program.  They are the smallest at which every branch of the code is taken and at which every
mutant of the code in `PROJECT.json` is caught.

Fairness: the analyzer's evidence chains run to their end (`WF(Analyze)`).  A goroutine that can
run is run, the handshake and the first header end by `ReadHeaderTimeout`; nothing is assumed of
a client that leaves a body unfinished, because the server has no `ReadTimeout`, nor of a
keep-alive connection that has already sent a request.  `start.sh` is a process that goes on with
its next command (`WF(StartScript)`); nothing is assumed of docker or the listener it waits for.
The thread of `run_sensor` is scheduled (`WF(Loop)` of `Sensor`) and nothing else: `SensorEnds` holds
because `MaxCalls` lets the host pause at last, which it says.  Of `snoop`, the program runs and time
passes (`WF(Proceed)`, `WF(DeadlinePasses)` of `SnoopCommand`); `SelfTestEnds` needs no pause of the
host, since the self-test ends with the first exec it reads, which is any event of an object compiled for the
program's own layout.

Two refinements are checked.  `Sensor` implements `ConnectLedger` (`EachConnectMovesOnce`): `kept` is
what `CONNECT_ARGS` holds, `queued` what is in the ring, `logged` what is in `network.jsonl`, each
counted per thread and address.  `NetworkRows` implements `LineLog` (`KeepsWhatItIsHanded`): `kept` is
the sensor's part of the file, `handed` that and the buffer.

## What the code does not do as documented

* A request whose body breaks off is answered with 400 and never logged, even if its headers
  carried a token, against `README.md:33` (run `honeynet_body`).

The following are described by properties that hold, each of which says how far the code departs
from its documents and no further:

* `usedAya` compares rows by value.  Two `connect()`s of one process to one endpoint in one
  second are equal rows, as the sensor writes whole seconds: when one is joined the other is
  neither joined nor reported, against `docs/PHASE_B.md:94` (`ConnectsReportedOnce`: as many
  events as different rows, no more than rows).
* An entry of `CONNECT_ARGS` whose return was not seen is reported at a later return of that
  thread, with the old address, against `schema/network.schema.json:18`
  (`MisreportNeedsUnseenReturn`: nothing else leads to a wrong address).
* An A query of a class other than IN is logged with `resolved_ip`, though the answer has no
  address, against `schema/dns.schema.json:15` (`RowsAndAnswersAgree`: never the other way round).
* A connect that is drained in a later second than its flow was logged in is later than the flow
  and not joined (`JoinNeedsTimelyDrain`).
* A buffer of the sensor that spills in mid-row leaves a line the honeynet's next row is glued to:
  that flow is lost, silently when only the newline was missing, and when the rest of the row
  begins with a `null` the line reads as one, `List.copyOf` throws and every row is lost with the
  analysis, where `JsonlReaderTest` expects a bad line to be a parse error (`DamageIsOneFlowPerBreak`: one
  flow at each such place while the reader does not throw, and it throws only because of one).
* Every thread that ends is an `exit` row of its process (`NoRowAfterTheLastExit`: the last thread's
  is the last row).
* An open of a secret by a relative path, by another spelling of its name (`.`, `..`, a doubled
  slash), by a link, or by a path of 256 bytes and more, is not marked as a canary
  (`CanaryMarksAreExplained`).
* An executable whose name has 256 bytes and more is named by the beginning of it
  (`ProcRowsAreTrueOrLate`).
* `cleanup.sh` ends with success where docker is missing or does not answer a listing, whatever it
  leaves (`LeftoversAreNew`: of the kind it got no list of, and what was started since).
* Exit code 77, "skipped", follows the text of the error, which may repeat a word of the command
  line (`SkippedMeansRefused`).
* After an edit of `snoop-common` alone the program embeds the object of before; if that writes
  shorter events the sensor skips them all and ends with success (`SilentSensorIsStale`: no other reason
  for fewer rows than its configuration asks for).

## Proofs

Each theorem holds for every value of the constants its assumptions allow.  `Classifier`, `DnsSinkhole` and
`HoneynetLifecycle` share their proof module with another component, so their initial states, actions and
specifications carry a name of their own (`SinkholeSpec`, ...).

`CorrelatorProofs` (logs of any length, in any order, with any number of runs; window of any length):

* `PidsComeFromOrigins`: `Spec => []JoinedPidConnected`.  `GreedyMissesNothing`: `Spec => []NoMissedJoin`.
* `ConnectsCountOnce`: `Spec => []ConnectsReportedOnce`.
* `RequestsAreReported`: `Spec => []RequestsOfFlowsReported`.

The properties speak of finished runs; the invariants of the run in work.  `JoinInv` says of each
event of the list why it is what it is: a joined one has its origin, a flow without a process has no
compatible connect left unused, and in the second loop an event is of an unused row.  `ResultsInv` keeps that
for the lists handed over.  Two arguments count.  `UsedInv` has a witness: a one-to-one function `g`
from the used rows to the flows they were given to (`Uses`), so joined flows are as many as used
rows (`FlowIsFresh`: no flow comes up twice); `AloneInv` counts the reported unused rows one by one.
`CountInv` gives each flow the loop has passed as many events as its requests, and the flow in work
as many as the requests passed; `PidInv` and `CanaryInv` go along with it.  `StableOrders`, which a
stable sort is free to choose from, is used as a bijection of positions, so a sorted list counts as the
unsorted one does.  Assumptions: `InstantsAreNaturals`, `NullsAreNotValues`; that flow ids do not
repeat is not assumed but is a guard of the honeynet's writer (`FreshFlow`) and an invariant
(`FlowsDistinct`).

The same module proves of `Classifier` (any rows, runs and names):

* `VerdictsOnlyHarden`: `ClassifierSpec => VerdictNeverSoftens`, an action property.  Confirmations, reasons and the
  download of an event grow with the rows (`ReasonsGrow`); `VerdictInv` says that a verdict given was given for
  some of the rows that are there.

`LookupsConfirmTheirRun` compares spellings and names, which only the constants of a run tie together: it is
model-checked.

`EvidenceChainProofs` (logs of any length and any parent map):

* `TypeCorrect`: `Spec => []TypeOK`.
* `ChainsAreSound`: `Spec => []ChainsSound`; `WalksNeverRepeat`: `Spec => []NoProcessTwice`.
* `ChainsAreComplete`: `Spec => []ChainsComplete`.
* `LoopsStayBounded`: `Spec => []LoopBounds`; `AnalysisAdvances`: each step of the analysis goes to a later
  phase, row, pair or process of the walk and leaves the rows alone.  Together they are the safety half of
  `AnalysisEnds`.

None is inductive.  `IInv` adds that `parentByPid` holds the last exec row among the
rows the first loop has passed (`ParentsInv`), that the walk so far leads from the sender upwards
and `cursor` is the next process up (`WalkInv`), and that what was walked is in `seen`
(`SeenInv`).  One lemma per part shows that a step keeps it; `BackwardsReverses` says what the
reversing loop returns.  Completeness needs no induction over paths: when the walk ends, what it has seen is
closed under "has the parent", and the ancestors are the least such set.  The bound of a walk, one more
than the processes with an exec row, is the pigeonhole principle (`WalkBound`): no process is walked twice, and
all but the last have a parent, so an exec row (`PassedInv`).
Assumption: `Null` is not a process.

`HoneynetFlowProofs` (any number of connections, requests, faults):

* `TypeCorrect`, which needs that each close still to come is counted (`CloseCounted`).
* `NetworkRowComesFirst`, `OpaqueRowsAreUnique`, `ClosedTLSIsLogged`, `ServedRequestsAreLogged`.
* `DamageIsPaidFor`: `Spec => []DamageIsBounded`.
* `FlowsSettleInEightSteps`: a TLS flow that was handed over has at most eight steps of its own to a request
  or its end, each of them counts (`StepsLeft`) and no other connection's step does.  With `ClosedTLSIsLogged`
  it is the safety half of `EveryTLSFlowSettles`.

`FlowInv(c)` ties the rows of a flow to `requestSeen`, `opaqueLogged` and the point its goroutine
has reached.  `StepLocal` shows that a step of one connection leaves the others alone, `OwnStep`
that it keeps the part of its own connection; `ServedRequestsAreLogged` counts with
`CountAppend`.  For `DamageIsPaidFor` the number of bad rows is too weak by one: a fragment that no row
is glued to yet has been paid for too (`Paid`), and the next row spends it.  Assumptions: the bounds
are naturals, `NoHost` is not a host.

The same module proves of `HoneynetLifecycle` (any number of starts, turns of the wait and cleanups):

* `CleanupLeavesTheNew`: `LifecycleSpec => []LeftoversAreNew`, from `LeftInv`: of each kind docker gave a list of,
  what is there is on the list and not yet removed, or was started since it was asked for (`since`); and a container
  is of a network that exists, so what a list without answer missed keeps its network on the list of networks.
* `NewDirectoryHasItsCA`: `LifecycleSpec => []NewDirectoryNewCA`, from `CAInv`: in a directory this start made the file is
  missing or of its own listener, since listeners of earlier starts write to directories of theirs.
* `StartCountsDown`: `start.sh` has seven commands and `MaxPolls` turns of its wait; each step of it counts
  (`TurnsLeft`) and nothing else gives it more, the safety half of `StartEnds`.

`CanaryScanProofs` (any tokens, any buffer size, bodies of any length and any split):

* `TypeCorrect`, `ScanExact`: `Spec => []ScanIsExact`, `TailBounded`: `Spec => []TailIsTheEnd`.

The invariant is the conjunction of the three.  The argument
(`OccursAcrossReads`): what a search of tail and chunk finds is in the body, because the tail is its
end, and an occurrence that ends in the new chunk begins no earlier than the tail, because the tail
is all of the body or one byte shorter than the longest token.  `LongestToken` says that `maxMatchTokenLen` is the length of a token and no token
is longer; it rests on the well-foundedness of the naturals.  Assumptions: `TokensAreWords`,
`CatalogListsSecrets`, `SizesAreNaturals`.

The same module proves of `DnsSinkhole` (any datagrams, losses, repetitions, faults and restarts):

* `NoAnswerBeforeItsRow`: `SinkholeSpec => []RowsAndAnswersAgree`.  `AgreeInv` counts the query in hand once its row is
  written as owed an answer (`Owed`), and a fragment at the end of the log as a bad row already paid for.
* `OnlyMalformedIsDropped`: `SinkholeSpec => []DropsOnlyMalformed`, for datagrams that have the fields of one
  (`IsDatagram`).  `labels` is a recursive function; `LabelsAreDefined` shows that there is one, and
  `LabelsAreChains` that it finds a question exactly where a chain of labels begins (`Chained`), both by the
  least place from the end of the datagram where it would not.
* `RowsHideTokens`: `SinkholeSpec => []RowHidesTokens`, for the same datagrams.  `ReplaceToken` and `redact` are
  recursive functions, shown to be defined by `RestsAreDefined` (from the end of the text) and
  `PassesAreDefined` (from the first entry of the catalog).  `Rest` is what every rest of a text satisfies:
  a run of bytes in it is a run of the text at whose beginning no token is (`Copies`).  So a replaced token is
  gone and none comes up that was not there, even where tokens overlap (`ReplaceHides`); `Redacted` carries that
  through the passes.  Also assumed: `SecretsAreNoBytes`, by which a label `[canary:ID]` is no part of a token.

`NetworkRowsProofs` (every second since 1970, no bound on the year; buffers of any size):

* `NextDay`: the date of day `n + 1` is `NextDate` of that of day `n`; `NextTimestamp`: the same of
  seconds.
* `TimesReadBack`: the analyzer's `instant` of what the sensor renders for second `n` is `n`.
* `TypeCorrect`: `Spec => []TypeOK`.
* `TimestampsFollowTheCalendar`: `Spec => []RenderedTimeTicks`.
* `OnlyTheDrainDecides`: `Spec => []JoinNeedsTimelyDrain`.

The divisions of `civil_from_days` are nonlinear to the solver only together: `YearIsYear` and
`QuotientsOfYear` name the quotients, `LeapByQuotients` says what they make of a leap year,
`YearBounds` and `YearOfEra` that the year found is the one the day is in, and one lemma each covers
a step within a year, from one year to the next and from one era to the next.  `TimesReadBack` needs no
inverse of those divisions: `NextSecondIsNextInstant` says that the analyzer's instants of two
successive calendar seconds differ by one, `TimeBegins` that 1970 reads as 0, and the least
second read back wrongly, which the well-foundedness of the naturals would give, has a
predecessor that is read back rightly.  Assumptions: `StartsAreSeconds`, `SizesArePositive`.

* `KeepsWhatIsHanded`: `Spec => KeepsWhatItIsHanded`, the refinement of `LineLog`.
* `DamageIsOnePerBreak`: `Spec => []DamageIsOneFlowPerBreak`.

Neither follows from types.  `OrderInv` says what each piece of the file is next to: a row of the
honeynet is in one place, a row of the sensor in order with at most rows of the honeynet between its pieces
(`Preceded`), and what is still in the buffer and the line resumes where the sensor's part of the file stops
(`Resumes`), all pieces the sensor's (`Handed`).  `SensorAppends` and `FlowAppends` show that both writers
keep it, wherever a write ends; `Writes` is what Spill, Stop and the failing writes have in
common.  `PartConcat` (what is appended to the file is appended to the sensor's part of it, or is none of
it) is an induction along the list, by `Climb`.  For the damage, `FlowsInv` ties the flows in the file to those
logged, `LostAfterABreak` names for each lost flow the break before it, `MiddleBeginsAfterABreak` says that a line which
begins with the middle of a row comes after one, and so does a `null` the reader throws at (`ThrowsAtABreak`), and `OneWriteInv` says
that a sensor whose rows fit the buffer has nothing in the file until it stops and whole rows after.  TLC has
checked the three invariants on the instance of `network_rows`.

`SensorProofs` (any threads, addresses, sizes of ring and map, any number of missed returns):

* `TypeCorrect`: `Spec => []TypeOK`.
* `MisreportsAreExplained`: `Spec => []MisreportNeedsUnseenReturn`.
* `ConnectsAreConserved`: `Spec => []ConnectsConserved`.
* `SensorImplementsLedger`: `Spec => EachConnectMovesOnce`, the refinement of `ConnectLedger`: each action
  is a move of one connect or leaves the three counts alone.

`MisreportNeedsUnseenReturn` speaks of rows and is not inductive.  `IInv` adds that while the sensor runs an entry
of `CONNECT_ARGS` is of the call its thread is in, whose return will be seen, or the thread is in
`unseen` (`EntryInv`); that a return is seen only with the return probe attached (`ArmedInv`); that
an ended sensor has no program attached (`DoneInv`); and the property for what is still in the ring
(`EventInv`).  Assumptions: `SizesAreNaturals`, `IdleIsNoAddress`.

`SnoopCommandProofs` (command lines of any length, any order of edits, builds and runs):

* `EmbeddedIsWhatWasAskedFor`: `Spec => []EmbeddedFitsBuild`, from `BuildInv`: while the script's outcome is
  current, the file in the build directory fits the environment it was made under.
* `ReadyOnceAttached`: `Spec => []ReadyMeansAttached`, from `OrderInv`: what is attached is a function of
  the step reached (`AttachedAt`).
* `SilenceIsStaleness`: `Spec => []SilentSensorIsStale`, from `RowsInv`.
* `SkippedOnlyIfRefused`: `Spec => []SkippedMeansRefused`, from `WordsInv`: what is left to read is the end of
  the command line.
* `LastSaidCounts`: `Spec => []ConfigIsLastSaid`, from `ReadInv`: each setting is what was said last of it
  among the words passed, and the loop stands at a flag.  Which words are flags and which values depends on all
  before them; the least set closed under "the word after `--sensor`, the second after a setting"
  (`Flags`) says so without recursion.

Assumptions: `LinesAreWords`, `NumbersAreValues`, `RingHoldsSome`, `SomeLayout`.

`TracingProofs` (any processes, lives, paths, ring size):

* `RowsAreTrueOrLate`: `Spec => []ProcRowsAreTrueOrLate`, from `ProcessInv` (a number is of one process at a
  time, a life of one number) and `RingInv`: what an event says of its process is still so, or
  has changed in the one direction processes change (`Evolves`).  The last `)` of
  `/proc/<pid>/stat` is found for any name of an executable.
* `NothingFollowsTheLastExit`: `Spec => []NoRowAfterTheLastExit`, from `OrderInv`, which speaks of rows,
  events in the ring and events still to come.
* `MarksAreExplained`: `Spec => []CanaryMarksAreExplained`.

Assumptions: `NumbersAreNumbers`, `NamesAreWords`, `PathsAreSequences`, `TopIsNoOther`, `RoomForPaths`.

Only model-checked: everything under fairness (`AnalysisEnds`, `EveryTLSFlowSettles`, `StartEnds`,
`SensorEnds`, `SelfTestEnds`), which is out of the prover's reach.  Of the first three the safety half is proved:
the steps that are left are bounded and each step uses one up.  What only TLC shows is that some step is
enabled until the end.  The other two wait for the host or for a deadline, which no count of steps bounds.

## Plan

1. Done: the modules and proofs above.
2. `CertificateCache`: the leaf cache of the honeynet under its mutex and the expiry of its leaves.

## Not modelled

The canary generator and the schema and gate scripts are sequential and keep no state another
part reads while they run.  Option parsing of the sandbox scripts, certificate cryptography and
the wire formats of TLS and HTTP are libraries or pure I/O.  Of the sensor's rows, the hash of an
executable's name, the rendering of an address and of a cgroup number, and the mapping of protocol
numbers are plain conversions no property is about.  The certificate cache of the honeynet is left
to the plan.  The threads and processes of the host, cargo, `aya`, `net/http`, `crypto/tls` and docker
are external and appear only through the calls this code makes or receives.
