------------------------------- MODULE Mirror -------------------------------
(***************************************************************************)
(* What the workers do to the backup and restore trees: process_event of   *)
(* app.c, run by several workers on the events of one FIFO queue while the *)
(* source files go on changing.  A version stands for the contents, size   *)
(* and modification time of a file; every change of a source file makes a  *)
(* new one (CopyFile justifies treating a verified copy as one version).   *)
(* Files only: directories are not modelled here.                          *)
(***************************************************************************)
EXTENDS Naturals, Sequences, FiniteSets

CONSTANTS
    Paths,          \* relative paths below the source, backup and restore roots
    Workers,
    Attempts,       \* attempts of copy_file (4 in the code)
    Devices,        \* which cases to check: do backup and restore share a
                    \* filesystem, so that rename works
    MaxFaults,      \* bound on calls of the filesystem that fail
    MaxScans,       \* bound on CREATE events queued by a scan
    MaxDisturbances \* bound on changes of the source, scans and failing calls

ASSUME MirrorAssumption ==
    /\ Attempts \in Nat \ {0}
    /\ Devices \subseteq BOOLEAN
    /\ {MaxFaults, MaxScans, MaxDisturbances} \subseteq Nat

Absent == 0
Versions == 0..MaxDisturbances
Slots == 0..MaxDisturbances      \* restore names: plain, .stamp, .stamp.1, ...
NoFile == [ino |-> 0, ver |-> Absent]

VARIABLES
    source,         \* path -> [ino, ver]
    backup,         \* path -> version
    restore,        \* path -> slot -> version
    events,         \* the event queue
    job,            \* worker -> the event it processes and its local variables
    changes,        \* number of changes made to the source
    scans,
    oneDevice,      \* backup and restore share a filesystem
    faults,
    removed,        \* history: <<path, version>> that deletions took out of backup
    contended,      \* history: paths that two workers were processing at once
    clashed,        \* history: those whose moves another worker got in the way of
    failed          \* history: paths whose last event ended with a failing call

history == <<contended, clashed, failed>>
vars == <<source, backup, restore, events, job, changes, scans, oneDevice,
          faults, removed, history>>

Idle == [at |-> "idle"]
Ver(p) == source[p].ver
Exists(p) == source[p] # NoFile

Init ==
    /\ source = [p \in Paths |-> NoFile]
    /\ backup = [p \in Paths |-> Absent]
    /\ restore = [p \in Paths |-> [s \in Slots |-> Absent]]
    /\ events = <<>>
    /\ job = [w \in Workers |-> Idle]
    /\ changes = 0
    /\ scans = 0
    /\ oneDevice \in Devices
    /\ faults = 0
    /\ removed = {}
    /\ contended = {}
    /\ clashed = {}
    /\ failed = {}

-----------------------------------------------------------------------------
(* The source changes and the watcher queues what the kernel reports, in   *)
(* order.                                                                  *)

Undisturbed == changes + scans + faults < MaxDisturbances

Changed(newSource, newEvents) ==
    /\ Undisturbed
    /\ changes' = changes + 1
    /\ source' = newSource
    /\ events' = events \o newEvents
    /\ UNCHANGED <<backup, restore, job, scans, oneDevice, faults, removed, history>>

Event(kind, p) == [kind |-> kind, path |-> p]
NewVersion == changes + 1

(* A new inode appears under p: created there, or moved over p.            *)
Create(p) ==
    Changed([source EXCEPT ![p] = [ino |-> NewVersion, ver |-> NewVersion]],
            <<Event("CREATE", p)>>)

Write(p) ==
    /\ Exists(p)
    /\ Changed([source EXCEPT ![p].ver = NewVersion], <<Event("MODIFY", p)>>)

Delete(p) ==
    /\ Exists(p)
    /\ Changed([source EXCEPT ![p] = NoFile], <<Event("DELETE", p)>>)

Move(p, q) ==
    /\ Exists(p)
    /\ p # q
    /\ Changed([source EXCEPT ![p] = NoFile, ![q] = source[p]],
               <<Event("DELETE", p), Event("CREATE", q)>>)

(* sync_walk queues a CREATE for a file it finds.                          *)
Scan(p) ==
    /\ Exists(p)
    /\ Undisturbed
    /\ scans < MaxScans
    /\ scans' = scans + 1
    /\ events' = Append(events, Event("CREATE", p))
    /\ UNCHANGED <<source, backup, restore, job, changes, oneDevice, faults, removed, history>>

-----------------------------------------------------------------------------
(* Workers.                                                                *)

At(w, label) == job[w].at = label
Becomes(w, j) == job' = [job EXCEPT ![w] = j]
Goto(w, label) == job' = [job EXCEPT ![w].at = label]
Done(w) == Becomes(w, Idle)
Outside == <<source, changes, scans, oneDevice, faults, contended, failed>>
Unmoved == UNCHANGED <<Outside, clashed>>
Others(w, p) == {v \in Workers \ {w} : job[v] # Idle /\ job[v].path = p}

Pop(w) ==
    /\ At(w, "idle")
    /\ events # <<>>
    /\ events' = Tail(events)
    /\ Becomes(w, [at |-> IF Head(events).kind = "DELETE" THEN "exists" ELSE "regular",
                   path |-> Head(events).path,
                   file |-> NoFile,     \* the file copy_file has open
                   left |-> Attempts,
                   slot |-> 0])
    /\ LET path == Head(events).path IN
       /\ contended' = contended \cup
            (IF Others(w, path) = {} THEN {} ELSE {path})
       /\ failed' = failed \ {path}
    /\ UNCHANGED <<source, backup, restore, changes, scans, oneDevice, faults, removed, clashed>>

(* CREATE and MODIFY: fs_is_regular, then (for MODIFY after a pause of     *)
(* 150 ms) files_need_copy.  A false answer of either one skips the file.  *)
CheckRegular(w) ==
    /\ At(w, "regular")
    /\ IF Exists(job[w].path) THEN Goto(w, "compare") ELSE Done(w)
    /\ UNCHANGED <<backup, restore, events, removed>> /\ Unmoved

NeedsCopy(p) == Exists(p) /\ backup[p] # Ver(p)

Compare(w) ==
    /\ At(w, "compare")
    /\ IF NeedsCopy(job[w].path) THEN Goto(w, "open") ELSE Done(w)
    /\ UNCHANGED <<backup, restore, events, removed>> /\ Unmoved

(* copy_file: an attempt opens the source, or reports that it has gone.    *)
OpenSource(w) ==
    /\ At(w, "open")
    /\ IF Exists(job[w].path)
       THEN Becomes(w, [job[w] EXCEPT !.at = "verify", !.file = source[job[w].path]])
       ELSE Done(w)
    /\ UNCHANGED <<backup, restore, events, removed>> /\ Unmoved

(* The copied inode is unchanged: still the source in the same version, or *)
(* unlinked and so out of the writers' reach (unless it was moved and then *)
(* written under its new name).                                            *)
Unchanged(f) == \A p \in Paths : source[p].ino = f.ino => source[p] = f

VerifySource(w) ==
    /\ At(w, "verify")
    /\ IF Unchanged(job[w].file) THEN Goto(w, "commit")
       ELSE IF job[w].left > 1
       THEN Becomes(w, [job[w] EXCEPT !.at = "open", !.left = @ - 1])
       ELSE Done(w)                         \* ERROR is logged
    /\ UNCHANGED <<backup, restore, events, removed>> /\ Unmoved

CommitCopy(w) ==
    /\ At(w, "commit")
    /\ backup' = [backup EXCEPT ![job[w].path] = job[w].file.ver]
    /\ Done(w)
    /\ clashed' = clashed \cup
         {job[v].path : v \in {u \in Others(w, job[w].path) : job[u].at \in {"publish", "unlink"}}}
    /\ UNCHANGED <<restore, events, removed, Outside>>

(* DELETE: nothing to do without a backup; otherwise unique_restore_path   *)
(* picks a name that is free now, and move_path uses it later.             *)
CheckBackup(w) ==
    /\ At(w, "exists")
    /\ IF backup[job[w].path] # Absent THEN Goto(w, "name") ELSE Done(w)
    /\ UNCHANGED <<backup, restore, events, removed>> /\ Unmoved

(* Mutant: the plain name is always used.                                  *)
PlainSlot(p) == 0

FreeSlot(p) ==
    CHOOSE s \in Slots : /\ restore[p][s] = Absent
                         /\ \A r \in Slots : r < s => restore[p][r] # Absent

PickName(w) ==
    /\ At(w, "name")
    /\ Becomes(w, [job[w] EXCEPT !.at = IF oneDevice THEN "move" ELSE "copy",
                                 !.slot = FreeSlot(job[w].path)])
    /\ clashed' = clashed \cup
         {job[v].path : v \in {u \in Others(w, job[w].path) :
                                job[u].at \in {"move", "copy", "publish"}
                                   /\ job[u].slot = FreeSlot(job[u].path)}}
    /\ UNCHANGED <<backup, restore, events, removed, Outside>>

(* rename(backup, restore name) replaces whatever has that name; it fails, *)
(* and an ERROR is logged, when the backup has gone.                       *)
MoveBackup(w) ==
    LET p == job[w].path IN
    /\ At(w, "move")
    /\ IF backup[p] # Absent
       THEN /\ restore' = [restore EXCEPT ![p][job[w].slot] = backup[p]]
            /\ backup' = [backup EXCEPT ![p] = Absent]
            /\ removed' = removed \cup {<<p, backup[p]>>}
       ELSE UNCHANGED <<restore, backup, removed>>
    /\ Done(w)
    /\ UNCHANGED events /\ Unmoved

(* Across filesystems move_path copies the file under its restore name and *)
(* then removes the backup path.                                           *)
OpenBackup(w) ==
    LET p == job[w].path IN
    /\ At(w, "copy")
    /\ IF backup[p] # Absent
       THEN Becomes(w, [job[w] EXCEPT !.at = "publish", !.file.ver = backup[p]])
       ELSE Done(w)
    /\ UNCHANGED <<backup, restore, events, removed>> /\ Unmoved

(* Mutant: a failure of the copy is ignored and the backup removed.        *)
PublishNothing(w) ==
    /\ At(w, "publish")
    /\ Goto(w, "unlink")
    /\ UNCHANGED <<backup, restore, events, removed>> /\ Unmoved

PublishRestore(w) ==
    /\ At(w, "publish")
    /\ restore' = [restore EXCEPT ![job[w].path][job[w].slot] = job[w].file.ver]
    /\ Goto(w, "unlink")
    /\ UNCHANGED <<backup, events, removed>> /\ Unmoved

RemoveBackup(w) ==
    LET p == job[w].path IN
    /\ At(w, "unlink")
    /\ removed' = removed \cup ({<<p, backup[p]>>} \ {<<p, Absent>>})
    /\ backup' = [backup EXCEPT ![p] = Absent]
    /\ Done(w)
    /\ UNCHANGED <<restore, events>> /\ Unmoved

(* A call of the filesystem fails (the disk is full, a directory is not    *)
(* accessible): copy_file gives up, no restore name is found, rename or    *)
(* remove_path fails.  An ERROR is logged and nothing more is done for the *)
(* event; what was published before stays, be it that the backup could not *)
(* be removed or that copy_file failed after its rename.                   *)
WorkerFails(w) ==
    /\ job[w].at \in {"commit", "name", "move", "publish", "unlink"}
    /\ Undisturbed
    /\ faults < MaxFaults
    /\ faults' = faults + 1
    /\ failed' = failed \cup {job[w].path}
    /\ Done(w)
    /\ UNCHANGED <<source, backup, restore, events, changes, scans, oneDevice, removed, contended,
                   clashed>>

-----------------------------------------------------------------------------
SourceStep ==
    \/ \E p \in Paths : Create(p) \/ Write(p) \/ Delete(p) \/ Scan(p)
    \/ \E p, q \in Paths : Move(p, q)

WorkerStep(w) ==
    \/ Pop(w) \/ CheckRegular(w) \/ Compare(w) \/ OpenSource(w)
    \/ VerifySource(w) \/ CommitCopy(w) \/ CheckBackup(w) \/ PickName(w)
    \/ MoveBackup(w) \/ OpenBackup(w) \/ PublishRestore(w) \/ RemoveBackup(w)
    \/ WorkerFails(w)

Next == SourceStep \/ \E w \in Workers : WorkerStep(w)

Spec == Init /\ [][Next]_vars

-----------------------------------------------------------------------------
(* The queue is empty and every worker waits for an event.                 *)
Quiescent == events = <<>> /\ \A w \in Workers : job[w] = Idle

(* When all events have been processed, no file deleted from the source is *)
(* left in the backup: its backup path was moved under restore.            *)
DeletedFileLeavesBackup ==
    Quiescent => \A p \in Paths : ~Exists(p) => backup[p] = Absent

(* Whatever a deletion takes out of the backup is found under the restore  *)
(* names of its path, also when one of the calls of move_path fails.  The  *)
(* exceptions are in clashed, and need two workers on one path: one copies *)
(* a new version while the other is between its copy to restore and the    *)
(* removal, which then removes that version; or both find the same restore *)
(* name free before one of them has used it.                               *)
DeletedContentRetained ==
    \A r \in removed :
        \/ r[1] \in clashed
        \/ \E s \in Slots : restore[r[1]][s] = r[2]

(* No step replaces or removes what a restore name holds, although the     *)
(* name is used some steps after it was found free, with the same          *)
(* exception for two workers that found the same one.                      *)
RestoreNamesNeverReused ==
    [][\A p \in Paths \ clashed, s \in Slots :
          restore[p][s] # Absent => restore'[p][s] = restore[p][s]]_vars
=============================================================================
