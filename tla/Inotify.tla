------------------------------ MODULE Inotify ------------------------------
(***************************************************************************)
(* The native Linux watcher, watcher_linux.c: the kernel's watches and its *)
(* bounded queue of events, the table from watch descriptors to paths, the *)
(* translation into events of the application, and initial_sync, which     *)
(* starts together with the watcher and is its answer to an overflow.      *)
(* Every directory holds at most one file, which goes by the path of its   *)
(* directory.  The worker is the abstract one of Poll; stopping is left to *)
(* WorkerPool, and the polling that the watcher may fall back to, to Poll. *)
(***************************************************************************)
EXTENDS Naturals, Sequences, SequencesExt

CONSTANTS
    Root,           \* the source directory
    Dirs,           \* the directories that may exist in it, by inode
    Names,
    Depth,          \* bound on the depth of a directory
    Starts,         \* what the service may find: directory -> path, or Unborn
    Operations,     \* what other programs do
    Limit,          \* max_queued_events of the kernel
    MaxChanges      \* bound on the operations of other programs

Paths == UNION {[1..n -> Names] : n \in 0..Depth}
Unborn == <<"unborn">>      \* the places of directories that are not yet
Gone == <<"gone">>          \* in the source, were removed, or were moved
Outside == <<"outside">>    \* out of it

ASSUME InotifyAssumption ==
    /\ Root \notin Dirs
    /\ \A start \in Starts : start[Root] = <<>>
    /\ {"", "file", "unborn", "gone", "outside"} \cap Names = {}
    /\ Operations \subseteq {"mkdir", "rmdir", "rename", "leave", "write", "unlink"}
    /\ {Depth, Limit, MaxChanges} \subseteq Nat

VARIABLES
    place,          \* directory -> path, or one of the three above
    file,           \* directory -> version of its file, 0 for none
    changes,
    watcher,        \* "setup", "native", or "poll" when inotify is given up
    unwatched,      \* the paths that watch_initialize has still to come to
    watched,        \* the directories the kernel reports on
    kernel,         \* its event queue
    table,          \* watcher.watches: the paths of the descriptors
    events,         \* the event queue of the application
    scan,           \* who runs initial_sync: "startup", "watcher" or "idle"
    unscanned,      \* the paths its walk has still to come to
    backup,         \* path -> version of the file
    past,           \* history: directory -> the places it has had, in order
    moved,          \* history: directories that were moved, or one above them
    stray,          \* history: those of them that no MOVE_SELF told of
    swallowed,      \* history: directories with events an overflow replaced
    missed          \* history: directories with a version of the file that
                    \* neither the scan nor the watcher is bound to notice

tree == <<place, file, changes>>
linux == <<watcher, unwatched, table>>
sync == <<scan, unscanned>>
journey == <<past, moved>>
history == <<journey, stray, swallowed, missed>>
vars == <<tree, linux, watched, kernel, events, sync, backup, history>>

AllDirs == Dirs \cup {Root}
Inside == {d \in AllDirs : place[d] \in Paths}
At(path) == {d \in AllDirs : place[d] = path}
Parent(d) == CHOOSE u \in Inside : place[u] = Front(place[d])
Within(path) == {d \in Inside : IsPrefix(path, place[d])}

(* The subdirectories that the listing of a directory has.                 *)
Subdirs(path) == {place[d] : d \in {e \in Inside \ {Root} : Front(place[e]) = path}}

(* An event of the kernel, and one of the application.  Both carry, as     *)
(* history, which place of its directory it happened at.                   *)
Message(wd, kind, name) == [wd |-> wd, kind |-> kind, name |-> name, nth |-> Len(past[wd])]
Event(kind, path, isFile, wd, nth) ==
    [kind |-> kind, path |-> path, file |-> isFile, wd |-> wd, nth |-> nth]

(* app_start has created the thread of the watcher and that of the scan.   *)
Init ==
    /\ place \in Starts
    /\ file \in [AllDirs -> {0, 1}]
    /\ \A d \in AllDirs \ (Inside \ {Root}) : file[d] = 0
    /\ changes = 0
    /\ watcher = "setup"
    /\ unwatched = {<<>>}
    /\ watched = {}
    /\ kernel = <<>>
    /\ table = <<>>
    /\ events = <<>>
    /\ scan = "startup"
    /\ unscanned = {<<>>}
    /\ backup = [p \in Paths |-> 0]
    /\ past = [d \in AllDirs |-> <<place[d]>>]
    /\ moved = {}
    /\ stray = {}
    /\ swallowed = {}
    /\ missed = {}

-----------------------------------------------------------------------------
(* The kernel reports on watched directories, merges equal events in a row *)
(* and replaces what does not fit by one overflow event.                   *)

Overflow == [wd |-> Root, kind |-> "Q_OVERFLOW", name |-> "", nth |-> 0]

Reported(q, m) ==
    IF m.wd \notin watched \/ (q # <<>> /\ Last(q) = m) THEN q
    ELSE IF Len(q) < Limit THEN Append(q, m)
    ELSE IF Last(q) = Overflow THEN q ELSE Append(q, Overflow)

Report(messages) ==
    /\ kernel' = FoldLeft(Reported, kernel, messages)
    /\ swallowed' = IF kernel' # <<>> /\ Last(kernel') = Overflow
                    THEN swallowed \cup {messages[i].wd : i \in DOMAIN messages} ELSE swallowed

(* Other programs.  What they do after inotify was given up is Poll's.     *)

Operation(op) ==
    /\ op \in Operations
    /\ watcher # "poll"
    /\ changes < MaxChanges
    /\ changes' = changes + 1
    /\ UNCHANGED <<linux, events, sync, backup>>

(* Directories move: the new places of all of them.                        *)
Places(new) ==
    /\ place' = new
    /\ past' = [d \in AllDirs |-> IF new[d] = place[d] THEN past[d] ELSE Append(past[d], new[d])]

Mkdir(d, path) ==
    /\ Operation("mkdir")
    /\ place[d] = Unborn
    /\ path # <<>> /\ At(path) = {} /\ At(Front(path)) # {}
    /\ Places([place EXCEPT ![d] = path])
    /\ \E u \in At(Front(path)) : Report(<<Message(u, "CREATE", Last(path))>>)
    /\ UNCHANGED <<file, watched, moved, stray, missed>>

Rmdir(d) ==
    /\ Operation("rmdir")
    /\ d \in Inside \ {Root}
    /\ file[d] = 0
    /\ Within(place[d]) = {d}
    /\ Places([place EXCEPT ![d] = Gone])
    /\ watched' = watched \ {d}
    /\ Report(<<Message(Parent(d), "DELETE", Last(place[d])),
                Message(d, "DELETE_SELF", ""), Message(d, "IGNORED", "")>>)
    /\ UNCHANGED <<file, moved, stray, missed>>

(* A directory goes to path with all that is below it; only it has a       *)
(* MOVE_SELF, if it is watched and the queue has room.                     *)
Move(d, path, messages) ==
    LET below == Within(place[d]) IN
    /\ Places([e \in AllDirs |-> IF e \in below
                                 THEN path \o SubSeq(place[e], Len(place[d]) + 1, Len(place[e]))
                                 ELSE place[e]])
    /\ moved' = moved \cup below
    /\ missed' = missed \cup below
    /\ Report(messages \o <<Message(d, "MOVE_SELF", "")>>)
    /\ stray' = stray \cup (IF d \in watched /\ Last(kernel') = Overflow THEN below ELSE below \ {d})
    /\ UNCHANGED <<file, watched>>

Rename(d, path) ==
    /\ Operation("rename")
    /\ d \in Inside \ {Root}
    /\ path # <<>> /\ At(path) = {} /\ At(Front(path)) # {}
    /\ ~IsPrefix(place[d], path)
    /\ \A e \in Within(place[d]) : Len(path) + Len(place[e]) - Len(place[d]) <= Depth
    /\ \E u \in At(Front(path)) :
          Move(d, path, <<Message(Parent(d), "MOVED_FROM", Last(place[d])),
                          Message(u, "MOVED_TO", Last(path))>>)

(* A directory is moved out of the source.                                 *)
Leave(d) ==
    /\ Operation("leave")
    /\ d \in Inside \ {Root}
    /\ Move(d, Outside, <<Message(Parent(d), "MOVED_FROM", Last(place[d]))>>)

(* The file of a directory that has stayed where it is will be noticed if  *)
(* the directory is watched, or if it was there at the start and the scan  *)
(* is still to come.                                                       *)
Noticed(d) ==
    /\ d \notin moved
    /\ \/ d \in watched
       \/ Len(past[d]) = 1 /\ \E path \in unscanned : d \in Within(path)

(* The file of a directory is written, in a directory moved out as well.   *)
Write(d) ==
    /\ Operation("write")
    /\ place[d] \notin {Unborn, Gone}
    /\ file' = [file EXCEPT ![d] = changes + 2]
    /\ missed' = IF Noticed(d) THEN missed \ {d} ELSE missed \cup {d}
    /\ Report((IF file[d] = 0 THEN <<Message(d, "CREATE", "file")>> ELSE <<>>)
                \o <<Message(d, "CLOSE_WRITE", "file")>>)
    /\ UNCHANGED <<place, watched, journey, stray>>

Unlink(d) ==
    /\ Operation("unlink")
    /\ file[d] # 0
    /\ file' = [file EXCEPT ![d] = 0]
    /\ Report(<<Message(d, "DELETE", "file")>>)
    /\ UNCHANGED <<place, watched, journey, stray, missed>>

-----------------------------------------------------------------------------
(* linux_watch_add: the kernel resolves the path now, and gives the watch  *)
(* that the directory already has.                                         *)
WatchAdd(d, path) ==
    /\ watched' = watched \cup {d}
    /\ table' = [e \in DOMAIN table \cup {d} |-> IF e = d THEN path ELSE table[e]]

(* linux_watch_initialize: the watch on the next directory of the walk, and*)
(* the listing of it.  One that has gone since it was listed is passed over*)
(* or ends the walk, as any failure does.                                  *)
SetUp(path) ==
    /\ watcher = "setup"
    /\ path \in unwatched
    /\ \/ /\ \E d \in At(path) : WatchAdd(d, path)
          /\ unwatched' = (unwatched \ {path}) \cup Subdirs(path)
       \/ /\ At(path) = {}
          /\ unwatched' = unwatched \ {path}
          /\ UNCHANGED <<watched, table>>
    /\ watcher' = IF unwatched' = {} THEN "native" ELSE "setup"
    /\ UNCHANGED <<tree, kernel, events, sync, backup, history>>

SetUpFails ==
    /\ watcher = "setup"
    /\ watcher' = "poll"
    /\ unwatched' = {}
    /\ watched' = {}
    /\ kernel' = <<>>
    /\ table' = <<>>
    /\ UNCHANGED <<tree, events, sync, backup, history>>

-----------------------------------------------------------------------------
(* linux_process_event, for the oldest event of the kernel's queue.        *)

Pending == {kernel[i] : i \in DOMAIN kernel \cap {1}}

Handle(m) ==
    /\ watcher = "native"
    /\ scan # "watcher"
    /\ kernel' = Tail(kernel)
    /\ UNCHANGED <<tree, watcher, unwatched, backup, journey, stray>>

Enqueue(kind, path, m) ==
    events' = Append(events, Event(kind, path, m.name = "file", m.wd, m.nth))

(* Only the names of directories lengthen the path: see above.             *)
PathOf(m) == IF m.name \in Names THEN Append(table[m.wd], m.name) ELSE table[m.wd]
Known(m) == m.kind # "Q_OVERFLOW" /\ m.wd \in DOMAIN table

(* Mutant: an overflow is only logged.                                     *)
HandleOverflowLogs ==
    \E m \in Pending \cap {Overflow} :
        /\ Handle(m)
        /\ swallowed' = {}
        /\ UNCHANGED <<watched, table, events, sync, missed>>

(* The watcher itself scans, and waits for the queue to empty, unless      *)
(* initial_sync is running: then it returns at once, and nobody looks at   *)
(* the directories which that scan has passed.                             *)
HandleOverflow ==
    \E m \in Pending \cap {Overflow} :
        /\ Handle(m)
        /\ swallowed' = {}
        /\ IF scan = "idle"
           THEN scan' = "watcher" /\ unscanned' = {<<>>} /\ UNCHANGED missed
           ELSE /\ missed' = missed \cup (swallowed \ UNION {Within(path) : path \in unscanned})
                /\ UNCHANGED sync
        /\ UNCHANGED <<watched, table, events>>

HandleUnknown ==
    \E m \in Pending :
        /\ Handle(m)
        /\ m.kind # "Q_OVERFLOW" /\ ~Known(m)
        /\ UNCHANGED <<watched, table, events, sync, swallowed, missed>>

(* Mutant: a directory that moved keeps its entry.                         *)
HandleSelfIfDeleted ==
    \E m \in Pending :
        /\ Handle(m) /\ Known(m)
        /\ m.kind \in {"IGNORED", "DELETE_SELF", "MOVE_SELF"}
        /\ table' = IF m.kind = "MOVE_SELF" THEN table
                    ELSE [d \in DOMAIN table \ {m.wd} |-> table[d]]
        /\ UNCHANGED <<watched, events, sync, swallowed, missed>>

(* linux_watch_remove; the kernel's watch stays after a move.              *)
HandleSelf ==
    \E m \in Pending :
        /\ Handle(m) /\ Known(m)
        /\ m.kind \in {"IGNORED", "DELETE_SELF", "MOVE_SELF"}
        /\ table' = [d \in DOMAIN table \ {m.wd} |-> table[d]]
        /\ UNCHANGED <<watched, events, sync, swallowed, missed>>

HandleCreate ==
    \E m \in Pending :
        /\ Handle(m) /\ Known(m)
        /\ m.kind \in {"CREATE", "MOVED_TO"}
        /\ \/ /\ m.name \in Names
              /\ \E d \in At(PathOf(m)) : WatchAdd(d, PathOf(m))
           \/ /\ m.name \in Names => At(PathOf(m)) = {}
              /\ UNCHANGED <<watched, table>>
        /\ Enqueue("CREATE", PathOf(m), m)
        /\ UNCHANGED <<sync, swallowed, missed>>

HandleWrite ==
    \E m \in Pending :
        /\ Handle(m) /\ Known(m)
        /\ m.kind = "CLOSE_WRITE"
        /\ Enqueue("MODIFY", PathOf(m), m)
        /\ UNCHANGED <<watched, table, sync, swallowed, missed>>

(* A directory that was moved may report its deletions under a path that   *)
(* is another one's by now.                                                *)
HandleDelete ==
    \E m \in Pending :
        /\ Handle(m) /\ Known(m)
        /\ m.kind \in {"DELETE", "MOVED_FROM"}
        /\ Enqueue("DELETE", PathOf(m), m)
        /\ missed' = IF m.wd \in moved THEN missed \cup Within(PathOf(m)) ELSE missed
        /\ UNCHANGED <<watched, table, sync, swallowed>>

-----------------------------------------------------------------------------
(* initial_sync: the next directory of its walk, with the file in it.      *)
ScanVisits(path) ==
    /\ path \in unscanned
    /\ unscanned' = (unscanned \ {path}) \cup Subdirs(path)
    /\ \/ \E d \in At(path) :
             /\ file[d] # 0
             /\ events' = Append(events, Event("CREATE", path, TRUE, d, Len(past[d])))
       \/ /\ \A d \in At(path) : file[d] = 0
          /\ UNCHANGED events
    /\ UNCHANGED <<tree, linux, watched, kernel, scan, backup, history>>

(* Its walk ends early: an errno left behind at the end of a nested        *)
(* directory (Walk) or a failing call.                                     *)
ScanGivesUp ==
    /\ unscanned # {}
    /\ unscanned' = {}
    /\ missed' = missed \cup UNION {Within(path) : path \in unscanned}
    /\ UNCHANGED <<tree, linux, watched, kernel, events, scan, backup, journey, stray,
                   swallowed>>

(* The end of the wait for an empty queue.                                 *)
ScanEnds ==
    /\ scan # "idle"
    /\ unscanned = {}
    /\ events = <<>>
    /\ scan' = "idle"
    /\ UNCHANGED <<tree, linux, watched, kernel, events, unscanned, backup, history>>

(* process_event in one step: the DELETE of a directory moves all that is  *)
(* below it, and its CREATE makes an empty one.                            *)
Process ==
    /\ events # <<>>
    /\ events' = Tail(events)
    /\ LET e == Head(events) IN
       backup' = [p \in Paths |->
                    IF e.kind = "DELETE"
                    THEN IF p = e.path \/ (~e.file /\ IsPrefix(e.path, p)) THEN 0 ELSE backup[p]
                    ELSE IF e.file /\ p = e.path /\ \E d \in At(p) : file[d] # 0
                    THEN file[CHOOSE d \in At(p) : TRUE]
                    ELSE backup[p]]
    /\ UNCHANGED <<tree, linux, watched, kernel, sync, history>>

-----------------------------------------------------------------------------
Programs ==
    \/ \E d \in Dirs, path \in Paths : Mkdir(d, path) \/ Rename(d, path)
    \/ \E d \in Dirs : Rmdir(d) \/ Leave(d)
    \/ \E d \in AllDirs : Write(d) \/ Unlink(d)

Watcher ==
    \/ \E path \in Paths : SetUp(path)
    \/ SetUpFails
    \/ HandleOverflow \/ HandleUnknown \/ HandleSelf \/ HandleCreate \/ HandleWrite
    \/ HandleDelete

Scan == (\E path \in Paths : ScanVisits(path)) \/ ScanGivesUp \/ ScanEnds

Next == Programs \/ Watcher \/ Scan \/ Process

Spec == Init /\ [][Next]_vars

(* The three threads of the service keep running.                          *)
FairSpec ==
    /\ Spec
    /\ WF_vars(Watcher)
    /\ WF_vars(Scan)
    /\ WF_vars(Process)

-----------------------------------------------------------------------------
(* What happens to a file is never queued under a path that its directory  *)
(* had left by then, however late the watcher comes to it and wherever the *)
(* directory has gone since: the table changes with the stream of events.  *)
(* A later path is possible, as linux_watch_add gives a directory the path *)
(* it finds it at, also on behalf of an older event.  The exceptions are   *)
(* the directories in stray: those below one that was moved have no        *)
(* MOVE_SELF of their own and keep the old path in the table, and so does  *)
(* one whose MOVE_SELF an overflow swallowed.                              *)
NeverUnderAnOldPath ==
    \A i \in DOMAIN events :
        LET e == events[i] IN
        e.file /\ e.wd \notin stray =>
            \E n \in e.nth..Len(past[e.wd]) : past[e.wd][n] = e.path

(* While inotify is used, every file of a source that no longer changes    *)
(* gets its last version into the backup, overflows included, but for the  *)
(* directories in missed.  These are all the gaps there are: a directory   *)
(* that was moved; one that was created, or was written before its watch   *)
(* was set and after the scan had passed it; one that the scan ended       *)
(* before, and one that a scan had passed when an overflow swallowed its   *)
(* events; one at a path that a moved directory reported a deletion for.   *)
WatchedFilesConverge ==
    <>[](\/ watcher = "poll"
         \/ \A d \in Inside \ missed : file[d] # 0 => backup[place[d]] = file[d])

(* From when inotify is in use and the first scan has come to its end with *)
(* every file it had to find, whatever programs do: once the source is     *)
(* quiet every file in it has its last version in the backup.              *)
Settled == watcher = "native" /\ scan = "idle" /\ missed = {}

TreeConverges ==
    [](Settled => <>[](\A d \in Inside : file[d] # 0 => backup[place[d]] = file[d]))
=============================================================================
