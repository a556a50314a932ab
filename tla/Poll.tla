-------------------------------- MODULE Poll --------------------------------
(***************************************************************************)
(* The polling watcher, watcher_poll.c, between the source it looks at and *)
(* the workers it feeds, together with the initial scan that runs beside   *)
(* it: app_start creates the two threads one after the other and waits for *)
(* neither.  A snapshot is built entry by entry while files appear, change *)
(* and disappear; two successive ones are compared and the differences     *)
(* become events.  The worker is the abstract one that Mirror details: one *)
(* event at a time, in order.  Stopping is left to WorkerPool and          *)
(* Lifecycle.                                                              *)
(***************************************************************************)
EXTENDS Naturals, Sequences, SequencesExt

CONSTANTS
    Paths,          \* the files of the source
    MaxDisturbances \* bound on changes of the source and failing calls

ASSUME PollAssumption == MaxDisturbances \in Nat

Absent == 0

VARIABLES
    posix,          \* the POSIX branch of walk_internal, otherwise Windows
    source,         \* path -> version (size and modification time), or Absent
    previous,       \* the snapshot of the last complete build
    current,        \* the snapshot being built
    listed,         \* what the directory held when the build opened it
    todo,           \* the entries the build has not come to yet
    lost,           \* a listed entry had gone when the build came to it
    at,             \* where the watcher thread is; "native" in Windows
    unscanned,      \* the paths initial_sync has not come to yet
    events,         \* the event queue
    backup,         \* path -> version
    changes,
    faults,
    steady,         \* history: paths that never disappeared since previous,
    steadyNow,      \* and since current, was taken of them
    unseen,         \* history: paths that no snapshot held, and that
                    \* an earlier process or the scan put in the backup
    unnoticed       \* history: paths with a version that neither the scan nor
                    \* the watcher is bound to notice

poller == <<previous, current, listed, todo, lost, at>>
history == <<steady, steadyNow, unseen, unnoticed>>
vars == <<posix, source, poller, unscanned, events, backup, changes, faults, history>>

Existing == {p \in Paths : source[p] # Absent}
Event(kind, p) == [kind |-> kind, path |-> p]
Nothing == [p \in Paths |-> Absent]
Disturbance == changes + faults < MaxDisturbances

Init ==
    /\ posix \in BOOLEAN
    /\ source \in [Paths -> {Absent, 1}]
    /\ backup \in [Paths -> {Absent, 1}]
    /\ previous = Nothing
    /\ current = Nothing
    /\ listed = {}
    /\ todo = {}
    /\ lost = FALSE
    /\ at = "start"
    /\ unscanned = Paths
    /\ events = <<>>
    /\ changes = 0
    /\ faults = 0
    /\ steady = {}
    /\ steadyNow = {}
    /\ unseen = {p \in Paths : backup[p] # Absent}
    /\ unnoticed = {}

-----------------------------------------------------------------------------
(* Other programs create, rewrite, delete and rename files.                *)

(* The file p has got version v, the scan has passed it, and the watcher   *)
(* has yet to look at p for the first time or may take v for what it saw.  *)
Unwatched(p, v) ==
    CASE at = "native" -> FALSE
      [] at = "first" -> p \in todo \/ v = current[p]
      [] at = "sleep" -> v = previous[p]
      [] at = "build" -> v = previous[p] \/ (p \notin todo /\ v = current[p])
      [] OTHER -> TRUE

Noticed(p, v) ==
    unnoticed' = IF p \notin unscanned /\ Unwatched(p, v)
                 THEN unnoticed \cup {p} ELSE unnoticed \ {p}

Change(p) ==
    /\ Disturbance
    /\ changes' = changes + 1
    /\ \/ /\ source' = [source EXCEPT ![p] = changes + 2]
          /\ Noticed(p, changes + 2)
          /\ UNCHANGED <<steady, steadyNow>>
       \/ /\ p \in Existing
          /\ source' = [source EXCEPT ![p] = Absent]
          /\ steady' = steady \ {p}
          /\ steadyNow' = steadyNow \ {p}
          /\ UNCHANGED unnoticed
    /\ UNCHANGED <<posix, poller, unscanned, events, backup, faults, unseen>>

Rename(p, q) ==
    /\ Disturbance
    /\ p \in Existing /\ p # q
    /\ changes' = changes + 1
    /\ source' = [source EXCEPT ![p] = Absent, ![q] = source[p]]
    /\ Noticed(q, source[p])
    /\ steady' = steady \ {p}
    /\ steadyNow' = steadyNow \ {p}
    /\ UNCHANGED <<posix, poller, unscanned, events, backup, faults, unseen>>

-----------------------------------------------------------------------------
(* watcher_poll_main and snapshot_build.                                   *)

Fault == Disturbance /\ faults' = faults + 1

(* The thread has started and opens the directory for the first snapshot.  *)
Begin ==
    /\ at = "start"
    /\ at' = "first"
    /\ listed' = Existing
    /\ todo' = Paths
    /\ UNCHANGED <<posix, source, previous, current, lost, unscanned, events, backup, changes,
                   faults, history>>

(* The sleep is over: open the directory for the next snapshot.            *)
Wake ==
    /\ at = "sleep"
    /\ at' = "build"
    /\ listed' = Existing
    /\ todo' = Paths
    /\ UNCHANGED <<posix, source, previous, current, lost, unscanned, events, backup,
                   changes, faults, history>>

(* The build is over, and current is kept as previous or destroyed.        *)
BuildOver ==
    /\ current' = Nothing
    /\ listed' = {}
    /\ todo' = {}
    /\ lost' = FALSE
    /\ steadyNow' = {}

(* build_entry.  A file created after the directory was opened may be      *)
(* listed or not.                                                          *)
Look(p) ==
    /\ at \in {"first", "build"}
    /\ p \in todo
    /\ todo' = todo \ {p}
    /\ \/ /\ current' = [current EXCEPT ![p] = source[p]]
          /\ steadyNow' = IF p \in Existing THEN steadyNow \cup {p} ELSE steadyNow
       \/ /\ p \notin listed
          /\ UNCHANGED <<current, steadyNow>>
    /\ lost' = (lost \/ (posix /\ p \in listed \ Existing))
    /\ UNCHANGED <<posix, source, previous, listed, at, unscanned, events, backup,
                   changes, faults, steady, unseen, unnoticed>>

(* snapshot_reconcile: new and changed entries first, then the missing     *)
(* ones, each group in the order of the hash buckets.                      *)
Created == {p \in Paths : previous[p] = Absent /\ current[p] # Absent}
Modified == {p \in Paths : Absent \notin {previous[p], current[p]} /\ previous[p] # current[p]}
Deleted == {p \in Paths : previous[p] # Absent /\ current[p] = Absent}

Differences ==
    SetToSeq({Event("CREATE", p) : p \in Created} \cup {Event("MODIFY", p) : p \in Modified})
        \o SetToSeq({Event("DELETE", p) : p \in Deleted})

(* FindNextFile fails, and the entries that follow are not listed.  They   *)
(* are not steady any longer: the comparison will find them missing.       *)
CutShort ==
    /\ at \in {"first", "build"}
    /\ ~posix
    /\ todo # {}
    /\ Fault
    /\ todo' = {}
    /\ steady' = steady \ todo
    /\ UNCHANGED <<posix, source, previous, current, listed, lost, at, unscanned, events,
                   backup, changes, steadyNow, unseen, unnoticed>>

(* Mutant: a failed walk is not noticed.                                   *)
BuiltAnyway == \/ todo = {} /\ UNCHANGED faults
               \/ posix /\ Fault

(* The walk succeeds.  It may do so although a listed entry had gone: Walk *)
(* tells when.                                                             *)
Built == todo = {} /\ UNCHANGED faults

FirstSnapshot ==
    /\ at = "first"
    /\ Built
    /\ previous' = current
    /\ steady' = steadyNow
    /\ unseen' = {p \in unseen : current[p] = Absent}
    /\ at' = "sleep"
    /\ BuildOver
    /\ UNCHANGED <<posix, source, unscanned, events, backup, changes, unnoticed>>

Reconcile ==
    /\ at = "build"
    /\ Built
    /\ events' = events \o Differences
    /\ previous' = current
    /\ steady' = steadyNow
    /\ unseen' = {p \in unseen : current[p] = Absent}
    /\ at' = "sleep"
    /\ BuildOver
    /\ UNCHANGED <<posix, source, unscanned, backup, changes, unnoticed>>

(* A failed build is dropped and the next one compared with the same       *)
(* snapshot; a failure of the first one ends the watcher.                  *)
BuildFails ==
    /\ at \in {"first", "build"}
    /\ \/ posix /\ todo = {} /\ lost /\ UNCHANGED faults
       \/ Fault
    /\ at' = IF at = "first" THEN "dead" ELSE "sleep"
    /\ BuildOver
    /\ UNCHANGED <<posix, source, previous, unscanned, events, backup, changes, steady,
                   unseen, unnoticed>>

-----------------------------------------------------------------------------
(* initial_sync queues a CREATE for every file it finds.                   *)
Scan(p) ==
    /\ p \in unscanned
    /\ unscanned' = unscanned \ {p}
    /\ events' = IF p \in Existing THEN Append(events, Event("CREATE", p)) ELSE events
    /\ unseen' = IF p \in Existing /\ previous[p] = Absent /\ at # "native"
                 THEN unseen \cup {p} ELSE unseen
    /\ UNCHANGED <<posix, source, poller, backup, changes, faults, steady, steadyNow, unnoticed>>

(* Its walk ends early, with an errno that a callback left behind at the   *)
(* end of a nested directory (Walk) or a failing call.                     *)
ScanGivesUp ==
    /\ unscanned # {}
    /\ (posix /\ UNCHANGED faults) \/ Fault
    /\ unscanned' = {}
    /\ unnoticed' = unnoticed \cup unscanned
    /\ UNCHANGED <<posix, source, poller, events, backup, changes, steady, steadyNow,
                   unseen>>

(* process_event, in one step.                                             *)
Process ==
    /\ events # <<>>
    /\ events' = Tail(events)
    /\ LET p == Head(events).path IN
       backup' = IF Head(events).kind = "DELETE" THEN [backup EXCEPT ![p] = Absent]
                 ELSE IF p \in Existing THEN [backup EXCEPT ![p] = source[p]]
                 ELSE backup
    /\ UNCHANGED <<posix, source, poller, unscanned, changes, faults, history>>

-----------------------------------------------------------------------------
PollerStep ==
    \/ Begin \/ Wake \/ CutShort \/ FirstSnapshot \/ Reconcile \/ BuildFails
    \/ \E p \in Paths : Look(p)

Next ==
    \/ PollerStep \/ ScanGivesUp \/ Process
    \/ \E p \in Paths : Change(p) \/ Scan(p) \/ \E q \in Paths : Rename(p, q)

Spec == Init /\ [][Next]_vars

-----------------------------------------------------------------------------
DeletesOf(p, es) == Len(SelectSeq(es, LAMBDA e : e = Event("DELETE", p)))

(* A file that existed ever since the last snapshot saw it is never        *)
(* reported as deleted, although files around it come and go and builds    *)
(* fail half way: reconcile compares the snapshots of successful walks     *)
(* only.  Files that a failing FindNextFile kept from a snapshot are not   *)
(* steady, since such a walk succeeds: on Windows they are reported as     *)
(* deleted, and as created by the next snapshot.                           *)
NoSpuriousDelete ==
    [][\A p \in steady : DeletesOf(p, events') <= DeletesOf(p, events)]_vars
=============================================================================
