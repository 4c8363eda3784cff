-------------------------------- MODULE Tracing --------------------------------
(***************************************************************************)
(* What the sensor says of processes and of opened files: the programs on  *)
(* sys_enter, sched_process_exec and sched_process_exit, and the rows that *)
(* render_proc_event and render_file_event make of their events.           *)
(*                                                                         *)
(* An event holds what the kernel told its program; the parent, and an     *)
(* executable whose name was not read, are taken from /proc when the event *)
(* is drained.  By then the process may have ended, lost its parent, run   *)
(* something else, or its number may be another's.  The processes are      *)
(* external: they fork, start threads, exec, end, and are reaped; numbers  *)
(* are reused and orphans go to Top.  Connects are the business of Sensor. *)
(*                                                                         *)
(* Of an event, life, parent, ran, last and given are history; of a row    *)
(* also found, the life of the process that had the number when drained.   *)
(***************************************************************************)
EXTENDS Naturals, Sequences, SequencesExt, Functions

CONSTANTS
    Top,            \* the first process of the container, which adopts orphans
    Pids,           \* the other process numbers
    Executables,    \* executable files, by the paths they are run under
    Comm,           \* executable -> the words of its name, which becomes comm
    Paths,          \* paths that are opened, as the sample spells them
    Links,          \* symbolic link -> the file behind it
    CanaryDir,      \* the directory of the secrets, as the catalog records it
    SecretNames,    \* paths of the secrets below it
    Mount,          \* EXFIL_CANARY_MOUNT, also the working directory of the sample
    CatalogDirs,    \* directories the catalog is read from; None, without a catalog
    Bounded(_, _),  \* bound: the steps that are tried with a catalog, and without
    PathMax,        \* SENSOR_PATH_MAX, in words and the final NUL
    RingSize,       \* events the ring holds
    MaxEvents,      \* bound: traced events
    MaxLives,       \* bound: processes
    MaxThreads      \* bound: threads of a process

ASSUME TopIsNoOther == Top \notin Pids
ASSUME NumbersAreNumbers == {"0", ")"} \cap (Pids \cup {Top}) = {}
ASSUME NamesAreWords == \A exe \in Executables : Comm[exe] \in Seq(Range(Comm[exe]))
ASSUME RoomForPaths == PathMax \in Nat \ {0}
\* A path is the words between its slashes, after "/" if it starts with one; a doubled slash
\* leaves an empty word.
ASSUME PathsAreSequences ==
    /\ Paths \cup Executables \cup SecretNames \cup {Mount, CanaryDir} \subseteq Seq(STRING)
    /\ CanaryDir # <<>> /\ <<>> \notin SecretNames

VARIABLES
    catalogDir, \* the directory of canary.json as it was given to the sensor, less the "." and
                \* the doubled slashes that Path does not compare
    process,    \* number -> its process
    lives,      \* processes so far
    events,     \* events so far
    ring,       \* EVENTS
    procs, files    \* rows of proc.jsonl and files.jsonl

vars == <<catalogDir, process, lives, events, ring, procs, files>>

None == <<>>
Zero == "0"
Alive(p) == p \in DOMAIN process /\ process[p].state = "S"

Process(parent, exe, life) ==
    [life |-> life, parent |-> parent, exe |-> exe, threads |-> 1, state |-> "S"]

-----------------------------------------------------------------------------
(* The programs. *)

\* pid and tgid are both the process; its parent is left to userspace.
write_base_event(kind, p) ==
    [kind |-> kind, pid |-> p, ppid |-> Zero, exe |-> None, path |-> None,
     life |-> process[p].life, parent |-> process[p].parent, ran |-> process[p].exe,
     last |-> process[p].threads = 1, given |-> None]

Submit(event) ==
    /\ events < MaxEvents /\ events' = events + 1
    /\ Bounded(catalogDir, event.kind)
    /\ ring' = IF Len(ring) < RingSize THEN Append(ring, event) ELSE ring

\* bpf_probe_read_*_str_bytes: no more than fits beside the final NUL.  The code cuts at a
\* byte, here a path is cut between two words.
Fitting(path) == IF Len(path) < PathMax THEN path ELSE SubSeq(path, 1, PathMax - 1)

\* The name, or nothing when it cannot be read.
write_sched_exec_filename(exe) == {Fitting(exe), None}

\* A process is followed while it has one thread: the kernel ends the others before an exec.
Exec(p, exe) ==
    /\ Alive(p) /\ process[p].threads = 1
    /\ process' = [process EXCEPT ![p].exe = exe]
    /\ \E name \in write_sched_exec_filename(exe) :
          Submit([write_base_event("execve", p) EXCEPT !.exe = name, !.ran = exe])
    /\ UNCHANGED <<catalogDir, lives, procs, files>>

\* sched_process_exit is hit by each thread that ends, whatever its process does.
ThreadExit(p) ==
    /\ Alive(p) /\ p # Top
    /\ Submit(write_base_event("exit", p))
    /\ process' = IF process[p].threads > 1
                  THEN [process EXCEPT ![p].threads = @ - 1]
                  ELSE [process EXCEPT ![p].state = "X"]
    /\ UNCHANGED <<catalogDir, lives, procs, files>>

\* The path is read when the call enters, if its page is there.
write_user_path(path) == {Fitting(path), None}

OpenAt(p, path) ==
    /\ Alive(p)
    /\ \E read \in write_user_path(path) :
          Submit([write_base_event("openat", p) EXCEPT !.path = read, !.given = path])
    /\ UNCHANGED <<catalogDir, process, lives, procs, files>>

-----------------------------------------------------------------------------
(* The processes of the container. *)

Fork(p, q) ==
    /\ Alive(p) /\ q \in Pids \ DOMAIN process /\ lives < MaxLives
    /\ Bounded(catalogDir, "fork")
    /\ lives' = lives + 1
    /\ process' = [x \in DOMAIN process \cup {q} |->
                      IF x = q THEN Process(p, process[p].exe, lives') ELSE process[x]]
    /\ UNCHANGED <<catalogDir, events, ring, procs, files>>

StartThread(p) ==
    /\ Alive(p) /\ p # Top /\ process[p].threads < MaxThreads
    /\ process' = [process EXCEPT ![p].threads = @ + 1]
    /\ UNCHANGED <<catalogDir, lives, events, ring, procs, files>>

\* The end of an exit: a zombie, whose children go to Top.
Die(p) ==
    /\ p \in DOMAIN process /\ process[p].state = "X"
    /\ process' = [x \in DOMAIN process |->
                      IF x = p THEN [process[x] EXCEPT !.state = "Z"]
                      ELSE IF process[x].parent = p THEN [process[x] EXCEPT !.parent = Top]
                      ELSE process[x]]
    /\ UNCHANGED <<catalogDir, lives, events, ring, procs, files>>

Reap(p) ==
    /\ p \in DOMAIN process /\ process[p].state = "Z"
    /\ process' = Restrict(process, DOMAIN process \ {p})
    /\ UNCHANGED <<catalogDir, lives, events, ring, procs, files>>

-----------------------------------------------------------------------------
(* The rows. *)

\* /proc/<pid>/stat: the name stands in parentheses and may hold any of the rest.
Stat(p) == <<p, "(">> \o Comm[process[p].exe] \o <<")", process[p].state, process[p].parent>>

proc_ppid_FirstParenthesis(p) ==    \* mutant
    IF p \notin DOMAIN process THEN Zero
    ELSE LET parent == Stat(p)[SelectInSeq(Stat(p), LAMBDA w : w = ")") + 2]
         IN IF parent \in Pids \cup {Top} THEN parent ELSE Zero

\* The second word after the last parenthesis, if the process is there and it is a number.
proc_ppid(p) ==
    IF p \notin DOMAIN process THEN Zero
    ELSE LET parent == Stat(p)[SelectLastInSeq(Stat(p), LAMBDA w : w = ")") + 2]
         IN IF parent \in Pids \cup {Top} THEN parent ELSE Zero

\* The link is gone with the memory of the process.
proc_exe(p) == IF Alive(p) THEN process[p].exe ELSE None

render_proc_event(event) ==
    [pid |-> event.pid, event |-> event.kind,
     ppid |-> IF event.ppid # Zero THEN event.ppid ELSE proc_ppid(event.pid),
     exe |-> IF event.exe # None THEN event.exe ELSE proc_exe(event.pid),
     named |-> event.exe # None, life |-> event.life, parent |-> event.parent,
     ran |-> event.ran, last |-> event.last,
     found |-> IF event.pid \in DOMAIN process THEN process[event.pid].life ELSE 0]

Secrets == {CanaryDir \o name : name \in SecretNames}

\* from_catalog_path: the path of a secret, and the same below the mount.
Mounted(secret) == Mount \o SubSeq(secret, Len(catalogDir) + 1, Len(secret))
Mountable == {s \in Secrets : catalogDir # None /\ IsPrefix(catalogDir, s)}
CanaryPaths == IF catalogDir = None THEN {} ELSE Secrets \cup {Mounted(s) : s \in Mountable}
is_canary_Below(path) == \E c \in CanaryPaths : IsPrefix(c, path)    \* mutant
\* The opened path is compared as it stands.
is_canary(path) == path \in CanaryPaths

render_file_event(event) ==
    [pid |-> event.pid, path |-> event.path, is_canary |-> is_canary(event.path),
     given |-> event.given]

Drain_Last ==   \* mutant
    /\ ring # <<>>
    /\ ring' = Front(ring)
    /\ IF Last(ring).kind = "openat"
       THEN files' = Append(files, render_file_event(Last(ring))) /\ UNCHANGED procs
       ELSE procs' = Append(procs, render_proc_event(Last(ring))) /\ UNCHANGED files
    /\ UNCHANGED <<catalogDir, process, lives, events>>

Drain ==
    /\ ring # <<>>
    /\ ring' = Tail(ring)
    /\ IF Head(ring).kind = "openat"
       THEN files' = Append(files, render_file_event(Head(ring))) /\ UNCHANGED procs
       ELSE procs' = Append(procs, render_proc_event(Head(ring))) /\ UNCHANGED files
    /\ UNCHANGED <<catalogDir, process, lives, events>>

-----------------------------------------------------------------------------
Init ==
    /\ catalogDir \in CatalogDirs
    /\ \E exe \in Executables : process = [p \in {Top} |-> Process(Top, exe, 1)]
    /\ lives = 1 /\ events = 0
    /\ ring = <<>> /\ procs = <<>> /\ files = <<>>

Next ==
    \/ \E p \in Pids \cup {Top}, exe \in Executables : Exec(p, exe)
    \/ \E p \in Pids \cup {Top}, path \in Paths : OpenAt(p, path)
    \/ \E p \in Pids \cup {Top}, q \in Pids : Fork(p, q)
    \/ \E p \in Pids : ThreadExit(p) \/ StartThread(p) \/ Die(p) \/ Reap(p)
    \/ Drain

Spec == Init /\ [][Next]_vars

-----------------------------------------------------------------------------
(* Properties. *)

(* The tree is as good as /proc was in time: the parent in a row is the    *)
(* one the process had at its event, or Top because that one has ended, or *)
(* 0 because the process has; only a reused number gives another's parent, *)
(* and no process can pass off a parent by the name of its executable.  An *)
(* exec row names what was executed unless the name was not read or did not*)
(* fit, and the exit row of a process an executable only if another has    *)
(* its number now.                                                         *)
ProcRowsAreTrueOrLate ==
    \A k \in DOMAIN procs : LET row == procs[k] IN
        /\ row.found = row.life => row.ppid \in {row.parent, Top}
        /\ row.found = 0 => row.ppid = Zero
        /\ row.found \notin {0, row.life} => row.ppid # Zero /\ row.found > row.life
        /\ row.named => row.exe = row.ran \/ Len(row.ran) >= PathMax
        /\ row.event = "exit" /\ row.last /\ row.exe # None => row.found > row.life

(* "exit" is a thread's: a process has rows after an exit row only if that *)
(* was not its last thread, and one exit row of its last thread.           *)
NoRowAfterTheLastExit ==
    \A j, k \in DOMAIN procs :
        j < k /\ procs[j].life = procs[k].life => ~(procs[j].event = "exit" /\ procs[j].last)

\* The file that a path means to the sample, which works in the mount.
Enter(dir, word) ==
    IF word \in {"", "."} THEN dir
    ELSE IF word = ".." THEN IF Len(dir) > 1 THEN Front(dir) ELSE dir
    ELSE IF Append(dir, word) \in DOMAIN Links THEN Links[Append(dir, word)]
    ELSE Append(dir, word)
Opened(path) ==
    IF Head(path) = "/" THEN FoldLeft(Enter, <<"/">>, Tail(path)) ELSE FoldLeft(Enter, Mount, path)
SecretFiles == Secrets \cup {Mount \o name : name \in SecretNames}

(* A row marked canary is of an open under the name of a secret, or was cut*)
(* to look like one, or the catalog was read from a directory above or     *)
(* below the one of its secrets; so a secret that is opened by another     *)
(* spelling or a link is not marked.  One that is not marked was opened so,*)
(* or its path could not be read, was too long, or the catalog was not read*)
(* from the directory of its secrets under the name that is recorded.      *)
CanaryMarksAreExplained ==
    \A k \in DOMAIN files : LET row == files[k] IN
        /\ row.is_canary => \/ row.given \in SecretFiles \/ Len(row.given) >= PathMax
                            \/ catalogDir # CanaryDir /\ Mountable # {}
        /\ row.given # None /\ Opened(row.given) \in SecretFiles /\ ~row.is_canary =>
              \/ row.given # Opened(row.given) \/ row.path = None \/ Len(row.given) >= PathMax
              \/ catalogDir # CanaryDir
=============================================================================
