------------------------------ MODULE Windows ------------------------------
(***************************************************************************)
(* The watcher thread on Windows, watcher_windows.c: either Windows keeps  *)
(* records of the changes of the source and the thread turns them into     *)
(* events, or the thread polls as Poll does.  What Windows does with the   *)
(* records, and drops when they are too many, is modelled from its use.    *)
(***************************************************************************)
EXTENDS Poll

CONSTANT MaxRecords     \* the records that fit into the buffer of Windows

ASSUME WindowsAssumption == MaxRecords \in Nat \ {0}

VARIABLES
    records,        \* the changes that Windows has not reported yet
    dropped,        \* the paths of those that did not fit: all were dropped
    buffer,         \* the records of the completed call, being dispatched
    native,         \* where the native thread is
    running         \* stats.initial_running, from the start of the process on

system == <<records, dropped>>
windows == <<system, buffer, native, running>>
winVars == <<vars, windows>>

WinInit ==
    /\ Init
    /\ records = <<>>
    /\ dropped = {}
    /\ buffer = <<>>
    /\ native = "off"
    /\ running = TRUE

-----------------------------------------------------------------------------
(* Other programs, and the records that Windows makes of what they do.     *)

Record(action, p) == [action |-> action, path |-> p]
PathsOf(rs) == {rs[i].path : i \in DOMAIN rs}

Recorded(rs) ==
    IF at # "native" THEN UNCHANGED system
    ELSE IF dropped # {} \/ Len(records) + Len(rs) > MaxRecords
    THEN records' = <<>> /\ dropped' = dropped \cup PathsOf(records \o rs)
    ELSE records' = records \o rs /\ UNCHANGED dropped

ChangeFile(p) ==
    /\ Change(p)
    /\ Recorded(<<Record(IF source'[p] = Absent THEN "REMOVED"
                         ELSE IF source[p] = Absent THEN "ADDED" ELSE "MODIFIED", p)>>)
    /\ UNCHANGED <<buffer, native, running>>

RenameFile(p, q) ==
    /\ Rename(p, q)
    /\ Recorded((IF q \in Existing THEN <<Record("REMOVED", q)>> ELSE <<>>)
                   \o <<Record("RENAMED_OLD_NAME", p), Record("RENAMED_NEW_NAME", q)>>)
    /\ UNCHANGED <<buffer, native, running>>

-----------------------------------------------------------------------------
(* watcher_native_main.                                                    *)

(* The source is opened, and the first ReadDirectoryChangesW makes Windows *)
(* keep records.  When the source cannot be opened, or SYSEBA_WATCHER is   *)
(* poll, the thread begins to poll instead.                                *)
OpenDirectory ==
    /\ at = "start"
    /\ ~posix
    /\ at' = "native"
    /\ native' = "wait"
    /\ unseen' = unseen \ Existing
    /\ UNCHANGED <<posix, source, previous, current, listed, todo, lost, unscanned, events,
                   backup, changes, faults, steady, steadyNow, unnoticed, system, buffer,
                   running>>

At(place) == at = "native" /\ native = place

(* ReadDirectoryChangesW again.                                            *)
Issue ==
    /\ At("issue")
    /\ native' = "wait"
    /\ UNCHANGED <<vars, system, buffer, running>>

(* The call completes with what was recorded.                              *)
Completed ==
    /\ At("wait")
    /\ records # <<>>
    /\ buffer' = records
    /\ records' = <<>>
    /\ native' = "dispatch"
    /\ UNCHANGED <<vars, dropped, running>>

(* Mutant: the overflow is only logged.                                    *)
OverflowLogged ==
    /\ At("wait")
    /\ dropped # {}
    /\ dropped' = {}
    /\ unseen' = unseen \cup dropped
    /\ native' = "issue"
    /\ UNCHANGED <<posix, source, poller, unscanned, events, backup, changes, faults,
                   steady, steadyNow, unnoticed, records, buffer, running>>

(* It completes with 0 bytes: the thread runs initial_sync itself, and     *)
(* ignores that it is refused while a scan is running; nobody then looks   *)
(* at the paths that this scan has passed.                                 *)
Overflow ==
    /\ At("wait")
    /\ dropped # {}
    /\ dropped' = {}
    /\ unseen' = unseen \cup dropped
    /\ IF running
       THEN /\ unnoticed' = unnoticed \cup (dropped \ unscanned)
            /\ native' = "issue"
            /\ UNCHANGED <<running, unscanned>>
       ELSE /\ unnoticed' = {}
            /\ running' = TRUE
            /\ unscanned' = Paths
            /\ native' = "sync"
    /\ UNCHANGED <<posix, source, poller, events, backup, changes, faults, steady,
                   steadyNow, records, buffer>>

(* GetOverlappedResult fails: the call is made again, and the records that *)
(* it would have returned are gone.                                        *)
ResultFails ==
    /\ At("wait")
    /\ Fault
    /\ records' = <<>>
    /\ unseen' = unseen \cup PathsOf(records)
    /\ unnoticed' = unnoticed \cup (PathsOf(records) \ unscanned)
    /\ native' = "issue"
    /\ UNCHANGED <<posix, source, poller, unscanned, events, backup, changes, steady,
                   steadyNow, dropped, buffer, running>>

(* ReadDirectoryChangesW or the wait fails, or the call was aborted: the   *)
(* thread ends.                                                            *)
ThreadEnds ==
    /\ At("issue") \/ At("wait")
    /\ Fault
    /\ at' = "dead"
    /\ UNCHANGED <<posix, source, previous, current, listed, todo, lost, unscanned, events,
                   backup, changes, history, windows>>

(* Mutant: a rename is the arrival of a file only.                         *)
KindOfArrivals(action) ==
    CASE action \in {"ADDED", "RENAMED_OLD_NAME", "RENAMED_NEW_NAME"} -> "CREATE"
      [] action = "REMOVED" -> "DELETE"
      [] action = "MODIFIED" -> "MODIFY"

KindOf(action) ==
    CASE action \in {"ADDED", "RENAMED_NEW_NAME"} -> "CREATE"
      [] action \in {"REMOVED", "RENAMED_OLD_NAME"} -> "DELETE"
      [] action = "MODIFIED" -> "MODIFY"

(* windows_dispatch, for one record of the buffer after the other.         *)
Dispatch ==
    /\ At("dispatch")
    /\ LET e == Event(KindOf(Head(buffer).action), Head(buffer).path)
       IN  /\ events' = Append(events, e)
           /\ unseen' = IF e.kind = "DELETE" THEN unseen \ {e.path} ELSE unseen
    /\ buffer' = Tail(buffer)
    /\ native' = IF buffer' = <<>> THEN "issue" ELSE "dispatch"
    /\ UNCHANGED <<posix, source, poller, unscanned, backup, changes, faults, steady,
                   steadyNow, unnoticed, system, running>>

-----------------------------------------------------------------------------
(* initial_sync holds on to initial_running until the queue is empty; the  *)
(* watcher goes on when the scan it runs itself has ended.                 *)
ScanEnds ==
    /\ running
    /\ unscanned = {}
    /\ events = <<>>
    /\ running' = FALSE
    /\ native' = IF native = "sync" THEN "issue" ELSE native
    /\ UNCHANGED <<vars, system, buffer>>

NativeStep ==
    \/ OpenDirectory \/ Issue \/ Completed \/ Overflow \/ ResultFails \/ ThreadEnds
    \/ Dispatch

WinNext ==
    \/ NativeStep \/ ScanEnds
    \/ (PollerStep \/ Process \/ ScanGivesUp \/ \E p \in Paths : Scan(p)) /\ UNCHANGED windows
    \/ \E p \in Paths : ChangeFile(p) \/ \E q \in Paths : RenameFile(p, q)

(* The watcher thread, the scan and the worker go on.                      *)
WinFairSpec ==
    /\ WinInit /\ [][WinNext]_winVars
    /\ WF_winVars(NativeStep \/ (PollerStep /\ UNCHANGED windows))
    /\ WF_winVars(ScanEnds)
    /\ WF_winVars(Process /\ UNCHANGED windows)
    /\ \A p \in Paths : WF_winVars(Scan(p) /\ UNCHANGED windows)

-----------------------------------------------------------------------------
(* Whichever way the source is watched, while the thread lives every file  *)
(* of a source that no longer changes gets its last version into the       *)
(* backup, but for those in unnoticed.  These are all the gaps there are:  *)
(* a version made after the scan passed the file and before the watcher's  *)
(* first look; a file that was renamed away and back between two           *)
(* snapshots; one that a scan ended before, and one that a scan had passed *)
(* when its records were dropped or their result could not be got.  The    *)
(* next change of such a file closes the gap.                              *)
ExistingFilesConverge ==
    [](at # "dead") => <>[](\A p \in Existing \ unnoticed : backup[p] = source[p])

(* In the same cases every deleted file leaves the backup, unless it is in *)
(* unseen: a scan knows nothing of deletions, and no snapshot or record    *)
(* tells of those before the watcher's first look or of those whose        *)
(* records were dropped.                                                   *)
DeletedFilesConverge ==
    [](at # "dead") =>
        <>[](\A p \in Paths \ (Existing \cup unseen) : backup[p] = Absent)
=============================================================================
