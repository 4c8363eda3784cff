----------------------------- MODULE EvidenceChain -----------------------------
(***************************************************************************)
(* The evidence chains of the analyzer: EventCorrelator.evidenceChains,    *)
(* with parentByPid and processPath.  A chain links the process that       *)
(* opened a planted canary file to the process of a later egress event,    *)
(* through the parents that exec rows of proc.jsonl report.                *)
(*                                                                         *)
(* The kernel reuses pids and the sensor reads a parent pid late, so the   *)
(* parent map of a run may be any function, with cycles: proc rows are     *)
(* read in any number, order and content.  Null is a missing pid, Zero the *)
(* ppid the sensor writes for a process that was gone when it looked.      *)
(***************************************************************************)
EXTENDS Naturals, Sequences, FiniteSets

CONSTANTS
    Pids,        \* process ids
    Null, Zero,  \* no pid; pid 0
    Instants,    \* instants of file and egress rows
    Bounded(_, _, _)   \* bound: the contents of proc, files and egress

ASSUME NullIsNoPid == Null \notin Pids \cup {Zero}
ASSUME InstantsNat == Instants \subseteq Nat

VARIABLES
    phase,         \* where the program is
    proc,          \* rows of proc.jsonl
    files,         \* rows of files.jsonl
    egress,        \* egress events of the run
    parentByPid,   \* pid -> parent, for pids that have an exec row
    f, e,          \* positions of the two nested loops
    cursor,        \* the process processPath has reached
    seen,          \* processes it has visited
    reversed,      \* the path it has walked, egress process first
    chains         \* the chains found

vars == <<phase, proc, files, egress, parentByPid, f, e, cursor, seen, reversed, chains>>
input == <<proc, files, egress>>
walk == <<cursor, seen, reversed>>

ProcRow == [event : {"execve", "exit"}, pid : Pids, ppid : Pids \cup {Zero}]
FileRow == [pid : Pids, ts : Instants, isCanary : BOOLEAN]
EgressEvent == [pid : Pids \cup {Null}, ts : Instants]
Chain == [file : Nat, event : Nat, path : Seq(Pids \cup {Zero})]

-----------------------------------------------------------------------------
(* JsonlReader reads files.jsonl before proc.jsonl; the egress events are  *)
(* the correlator's.                                                       *)

ReadFile(row) ==
    /\ phase = "read" /\ proc = <<>> /\ egress = <<>>
    /\ Bounded(proc, Append(files, row), egress)
    /\ files' = Append(files, row)
    /\ UNCHANGED <<phase, proc, egress, parentByPid, f, e, walk, chains>>

ReadProc(row) ==
    /\ phase = "read" /\ egress = <<>>
    /\ Bounded(Append(proc, row), files, egress)
    /\ proc' = Append(proc, row)
    /\ UNCHANGED <<phase, files, egress, parentByPid, f, e, walk, chains>>

GiveEgress(row) ==
    /\ phase = "read" /\ Bounded(proc, files, Append(egress, row))
    /\ egress' = Append(egress, row)
    /\ UNCHANGED <<phase, proc, files, parentByPid, f, e, walk, chains>>

EndRead ==
    /\ phase = "read"
    /\ phase' = "parents" /\ f' = 1
    /\ UNCHANGED <<input, parentByPid, e, walk, chains>>

(* parentByPid: HashMap.put per exec row, so the last one of a pid wins.   *)
\* Mutant: the first exec row of a pid wins (putIfAbsent).
PutParent_First ==
    /\ phase = "parents" /\ f \in DOMAIN proc
    /\ parentByPid' =
        IF proc[f].event = "execve" /\ proc[f].pid \notin DOMAIN parentByPid
        THEN [p \in DOMAIN parentByPid \cup {proc[f].pid} |->
                IF p = proc[f].pid THEN proc[f].ppid ELSE parentByPid[p]]
        ELSE parentByPid
    /\ f' = f + 1
    /\ UNCHANGED <<phase, input, e, walk, chains>>

PutParent ==
    /\ phase = "parents" /\ f \in DOMAIN proc
    /\ parentByPid' =
        IF proc[f].event = "execve"
        THEN [p \in DOMAIN parentByPid \cup {proc[f].pid} |->
                IF p = proc[f].pid THEN proc[f].ppid ELSE parentByPid[p]]
        ELSE parentByPid
    /\ f' = f + 1
    /\ UNCHANGED <<phase, input, e, walk, chains>>

EndParents ==
    /\ phase = "parents" /\ f > Len(proc)
    /\ phase' = "pairs" /\ f' = 1 /\ e' = 1
    /\ UNCHANGED <<input, parentByPid, walk, chains>>

-----------------------------------------------------------------------------
(* The nested loops over canary files and egress events. *)

SkipFile ==
    /\ phase = "pairs" /\ f \in DOMAIN files
    /\ ~files[f].isCanary \/ e > Len(egress)
    /\ f' = f + 1 /\ e' = 1
    /\ UNCHANGED <<phase, input, parentByPid, walk, chains>>

Eligible_AnyTime == egress[e].pid # Null  \* mutant: the time of the file is ignored
Eligible == egress[e].pid # Null /\ files[f].ts <= egress[e].ts

SkipEvent ==
    /\ phase = "pairs" /\ f \in DOMAIN files /\ files[f].isCanary
    /\ e \in DOMAIN egress /\ ~Eligible
    /\ e' = e + 1
    /\ UNCHANGED <<phase, input, parentByPid, f, walk, chains>>

NewChain(path) == Append(chains, [file |-> f, event |-> e, path |-> path])

\* processPath returns at once when both processes are the same.
SameProcess ==
    /\ phase = "pairs" /\ f \in DOMAIN files /\ files[f].isCanary
    /\ e \in DOMAIN egress /\ Eligible /\ files[f].pid = egress[e].pid
    /\ chains' = NewChain(<<files[f].pid>>)
    /\ e' = e + 1
    /\ UNCHANGED <<phase, input, parentByPid, f, walk>>

StartWalk ==
    /\ phase = "pairs" /\ f \in DOMAIN files /\ files[f].isCanary
    /\ e \in DOMAIN egress /\ Eligible /\ files[f].pid # egress[e].pid
    /\ phase' = "walk"
    /\ cursor' = egress[e].pid /\ seen' = {} /\ reversed' = <<>>
    /\ UNCHANGED <<input, parentByPid, f, e, chains>>

-----------------------------------------------------------------------------
(* processPath's loop: cursor != null && seen.add(cursor). *)

parentOf(pid) == IF pid \in DOMAIN parentByPid THEN parentByPid[pid] ELSE Null

MayVisit_Unguarded == cursor # Null  \* mutant: visited processes are not remembered
MayVisit == cursor # Null /\ cursor \notin seen

Climb ==
    /\ phase = "walk" /\ MayVisit /\ cursor # files[f].pid
    /\ seen' = seen \cup {cursor}
    /\ reversed' = Append(reversed, cursor)
    /\ cursor' = parentOf(cursor)
    /\ UNCHANGED <<phase, input, parentByPid, f, e, chains>>

Backwards(s) == [k \in DOMAIN s |-> s[Len(s) + 1 - k]]

FoundSource ==
    /\ phase = "walk" /\ MayVisit /\ cursor = files[f].pid
    /\ chains' = NewChain(Backwards(Append(reversed, cursor)))
    /\ phase' = "pairs" /\ e' = e + 1
    /\ cursor' = Null /\ seen' = {} /\ reversed' = <<>>
    /\ UNCHANGED <<input, parentByPid, f>>

\* Mutant: only the end of the parents ends the loop.
NoPath_NullOnly ==
    /\ phase = "walk" /\ cursor = Null
    /\ phase' = "pairs" /\ e' = e + 1
    /\ cursor' = Null /\ seen' = {} /\ reversed' = <<>>
    /\ UNCHANGED <<input, parentByPid, f, chains>>

NoPath ==
    /\ phase = "walk" /\ ~MayVisit
    /\ phase' = "pairs" /\ e' = e + 1
    /\ cursor' = Null /\ seen' = {} /\ reversed' = <<>>
    /\ UNCHANGED <<input, parentByPid, f, chains>>

Finish ==
    /\ phase = "pairs" /\ f > Len(files)
    /\ phase' = "done"
    /\ UNCHANGED <<input, parentByPid, f, e, walk, chains>>

-----------------------------------------------------------------------------
Init ==
    /\ phase = "read" /\ proc = <<>> /\ files = <<>> /\ egress = <<>>
    /\ parentByPid = [p \in {} |-> Null]
    /\ f = 1 /\ e = 1
    /\ cursor = Null /\ seen = {} /\ reversed = <<>>
    /\ chains = <<>>

Analyze ==
    \/ EndRead \/ PutParent \/ EndParents
    \/ SkipFile \/ SkipEvent \/ SameProcess \/ StartWalk
    \/ Climb \/ FoundSource \/ NoPath \/ Finish

Next ==
    \/ \E row \in ProcRow : ReadProc(row)
    \/ \E row \in FileRow : ReadFile(row)
    \/ \E row \in EgressEvent : GiveEgress(row)
    \/ Analyze

\* The analyzer is one thread that runs to its end.
Spec == Init /\ [][Next]_vars /\ WF_vars(Analyze)

-----------------------------------------------------------------------------
(* Properties. *)

Processes == Pids \cup {Zero}

TypeOK ==
    /\ phase \in {"read", "parents", "pairs", "walk", "done"}
    /\ proc \in Seq(ProcRow) /\ files \in Seq(FileRow) /\ egress \in Seq(EgressEvent)
    /\ DOMAIN parentByPid \subseteq Pids
    /\ \A p \in DOMAIN parentByPid : parentByPid[p] \in Processes
    /\ f \in Nat \ {0} /\ e \in Nat \ {0}
    /\ cursor \in Processes \cup {Null}
    /\ seen \subseteq Processes /\ reversed \in Seq(Processes)
    /\ chains \in Seq(Chain)

\* What proc.jsonl says of p's parent: its last exec row decides.
IsParent(q, p) ==
    \E k \in DOMAIN proc :
        /\ proc[k].event = "execve" /\ proc[k].pid = p /\ proc[k].ppid = q
        /\ \A n \in DOMAIN proc : proc[n].event = "execve" /\ proc[n].pid = p => n <= k

\* p and every process above it: the least set that has p and the parents of its members.
AncestorsOf(p) ==
    {q \in Processes : \A S \in SUBSET Processes :
        p \in S /\ (\A x \in S, y \in Processes : IsParent(y, x) => y \in S) => q \in S}

(* processPath: the path of a chain leads from the process that opened the *)
(* file to the process of the event, every process the parent of the next, *)
(* and the event is not older than the file access.                        *)
ChainsSound ==
    \A c \in DOMAIN chains :
        LET path == chains[c].path
            file == files[chains[c].file]
            event == egress[chains[c].event]
        IN /\ Len(path) > 0 /\ path[1] = file.pid /\ path[Len(path)] = event.pid
           /\ \A n \in 1..Len(path) - 1 : IsParent(path[n], path[n + 1])
           /\ file.isCanary /\ file.ts <= event.ts

(* evidenceChains: a canary file and a later event are linked exactly when *)
(* the opener is the sender or one of its ancestors, cycles or not.        *)
ChainsComplete ==
    phase = "done" =>
        \A a \in DOMAIN files, b \in DOMAIN egress :
            /\ files[a].isCanary /\ files[a].ts <= egress[b].ts
            /\ egress[b].pid # Null /\ files[a].pid \in AncestorsOf(egress[b].pid)
            => \E c \in DOMAIN chains : chains[c].file = a /\ chains[c].event = b

(* seen: a walk never enters a process twice, so a chain never repeats one *)
(* even where pid reuse closes a cycle of parents.                         *)
NoProcessTwice ==
    \A m, n \in DOMAIN reversed : reversed[m] = reversed[n] => m = n

(* The while loop of processPath ends on every parent map, so the analysis *)
(* of a run ends.                                                          *)
AnalysisEnds == phase = "parents" ~> phase = "done"
=============================================================================
