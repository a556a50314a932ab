----------------------------- MODULE Lifecycle ------------------------------
(***************************************************************************)
(* Starting and stopping SySeBa processes: app_start and app_stop of app.c,*)
(* the single-instance lock, the run loop and signal handling of cli.c,    *)
(* and `syseba status`, which probes the lock.  Several processes run at   *)
(* the same time, any step of a start may fail, and a process may be       *)
(* killed at any step.                                                     *)
(***************************************************************************)
EXTENDS Naturals, FiniteSets

CONSTANTS
    Procs,          \* processes that execute `run`
    Probes,         \* processes that execute `status`
    Nobody,
    MaxStarts       \* bound on the number of starts

ASSUME LifecycleAssumption ==
    /\ Procs \cap Probes = {}
    /\ Nobody \notin Procs \cup Probes
    /\ MaxStarts \in Nat

(* The threads of a process, by role.  All workers are one role here; they *)
(* are modelled one by one in WorkerPool.                                  *)
BackupParts == {"workers", "watcher", "scan"}
Parts == BackupParts \cup {"log", "web"}

VARIABLES
    pc,             \* where the main thread of each process is
    webOnly,        \* app->web_only
    on,             \* the roles whose threads are running
    stopping,       \* app->stop_requested
    pending,        \* the flag set by the signal handler
    shut,           \* the queues that are closed: "events", "log"
    lock,           \* the holder of the flock on the lock file
    busyWith,       \* who held the lock when acquire_lock last failed
    starts

vars == <<pc, webOnly, on, stopping, pending, shut, lock, busyWith, starts>>

Init ==
    /\ pc = [p \in Procs \cup Probes |-> "off"]
    /\ webOnly = [p \in Procs |-> FALSE]
    /\ on = [p \in Procs |-> {}]
    /\ stopping = [p \in Procs |-> FALSE]
    /\ pending = [p \in Procs |-> FALSE]
    /\ shut = [p \in Procs |-> {}]
    /\ lock = Nobody
    /\ busyWith = [p \in Procs |-> Nobody]
    /\ starts = 0

Goto(p, label) == pc' = [pc EXCEPT ![p] = label]
TurnOn(p, part) == on' = [on EXCEPT ![p] = @ \cup {part}]
Release(p) == lock' = IF lock = p THEN Nobody ELSE lock

-----------------------------------------------------------------------------
(* app_start.  The early failures return, the later ones call app_stop.    *)

Start(p) ==
    /\ pc[p] = "off"
    /\ starts < MaxStarts
    /\ starts' = starts + 1
    /\ \E mode \in BOOLEAN : webOnly' = [webOnly EXCEPT ![p] = mode]
    /\ stopping' = [stopping EXCEPT ![p] = FALSE]
    /\ pending' = [pending EXCEPT ![p] = FALSE]
    /\ shut' = [shut EXCEPT ![p] = {}]
    /\ busyWith' = [busyWith EXCEPT ![p] = Nobody]
    /\ Goto(p, "paths")
    /\ UNCHANGED <<on, lock>>

PreparePaths(p) ==
    /\ pc[p] = "paths"
    /\ \/ Goto(p, IF webOnly[p] THEN "log" ELSE "lock")
       \/ Goto(p, "off")
    /\ UNCHANGED <<webOnly, on, stopping, pending, shut, lock, busyWith, starts>>

(* Mutant: a refused flock is ignored.                                     *)
AcquireLockAnyway(p) ==
    /\ pc[p] = "lock"
    /\ lock' = p
    /\ Goto(p, "pid")
    /\ UNCHANGED <<webOnly, on, stopping, pending, shut, busyWith, starts>>

AcquireLock(p) ==
    /\ pc[p] = "lock"
    /\ \/ /\ lock = Nobody
          /\ lock' = p
          /\ Goto(p, "pid")
          /\ UNCHANGED busyWith
       \/ /\ lock # Nobody
          /\ busyWith' = [busyWith EXCEPT ![p] = lock]
          /\ Goto(p, "off")
          /\ UNCHANGED lock
       \/ /\ Goto(p, "off")                 \* open or fstat fails
          /\ UNCHANGED <<lock, busyWith>>
    /\ UNCHANGED <<webOnly, on, stopping, pending, shut, starts>>

(* Truncate the lock file and write the process id; a failure closes it.   *)
WritePid(p) ==
    /\ pc[p] = "pid"
    /\ \/ Goto(p, "log") /\ UNCHANGED lock
       \/ Goto(p, "off") /\ Release(p)
    /\ UNCHANGED <<webOnly, on, stopping, pending, shut, busyWith, starts>>

(* Mutant: a failure keeps the lock.                                       *)
StartLogKeepsLock(p) ==
    /\ pc[p] = "log"
    /\ \/ TurnOn(p, "log") /\ Goto(p, IF webOnly[p] THEN "web" ELSE "workers")
       \/ Goto(p, "off") /\ UNCHANGED on
    /\ UNCHANGED <<webOnly, stopping, pending, shut, lock, busyWith, starts>>

(* database_initialize and log_start.                                      *)
StartLog(p) ==
    /\ pc[p] = "log"
    /\ \/ /\ TurnOn(p, "log")
          /\ Goto(p, IF webOnly[p] THEN "web" ELSE "workers")
          /\ UNCHANGED lock
       \/ /\ Release(p)
          /\ Goto(p, "off")
          /\ UNCHANGED on
    /\ UNCHANGED <<webOnly, stopping, pending, shut, busyWith, starts>>

(* Mutant: the stop flag is not set.                                       *)
BeginStopSilent(p) ==
    /\ Goto(p, "stop_web")
    /\ UNCHANGED stopping

(* app_stop begins by setting the stop flag.                               *)
BeginStop(p) ==
    /\ stopping' = [stopping EXCEPT ![p] = TRUE]
    /\ Goto(p, "stop_web")

(* The workers' array cannot be allocated, or a worker cannot be created:  *)
(* the ones created before it run.                                         *)
StartWorkers(p) ==
    /\ pc[p] = "workers"
    /\ \/ TurnOn(p, "workers") /\ Goto(p, "watcher") /\ UNCHANGED stopping
       \/ TurnOn(p, "workers") /\ BeginStop(p)
       \/ BeginStop(p) /\ UNCHANGED on
    /\ UNCHANGED <<webOnly, pending, shut, lock, busyWith, starts>>

StartWatcher(p) ==
    /\ pc[p] = "watcher"
    /\ \/ TurnOn(p, "watcher") /\ Goto(p, "scan") /\ UNCHANGED stopping
       \/ BeginStop(p) /\ UNCHANGED on
    /\ UNCHANGED <<webOnly, pending, shut, lock, busyWith, starts>>

(* The initial synchronisation gets a thread, unless --no-initial-sync.    *)
StartScan(p) ==
    /\ pc[p] = "scan"
    /\ \/ TurnOn(p, "scan") /\ Goto(p, "web") /\ UNCHANGED stopping
       \/ Goto(p, "web") /\ UNCHANGED <<on, stopping>>
       \/ BeginStop(p) /\ UNCHANGED on
    /\ UNCHANGED <<webOnly, pending, shut, lock, busyWith, starts>>

(* The Web server, always started in Web-only mode and optional otherwise. *)
StartWeb(p) ==
    /\ pc[p] = "web"
    /\ \/ TurnOn(p, "web") /\ Goto(p, "running") /\ UNCHANGED stopping
       \/ ~webOnly[p] /\ Goto(p, "running") /\ UNCHANGED <<on, stopping>>
       \/ BeginStop(p) /\ UNCHANGED on
    /\ UNCHANGED <<webOnly, pending, shut, lock, busyWith, starts>>

-----------------------------------------------------------------------------
(* Signals and the run loop.  The handlers are installed once app_start    *)
(* has returned; before that a signal kills the process.                   *)

Signal(p) ==
    /\ pc[p] = "running"
    /\ pending' = [pending EXCEPT ![p] = TRUE]
    /\ UNCHANGED <<pc, webOnly, on, stopping, shut, lock, busyWith, starts>>

RunLoop(p) ==
    /\ pc[p] = "running"
    /\ pending[p]
    /\ BeginStop(p)
    /\ UNCHANGED <<webOnly, on, pending, shut, lock, busyWith, starts>>

(* A killed process loses its threads, and the kernel drops its lock.      *)
Kill(p) ==
    /\ pc[p] # "off"
    /\ on' = [on EXCEPT ![p] = {}]
    /\ Release(p)
    /\ Goto(p, "off")
    /\ UNCHANGED <<webOnly, stopping, pending, shut, busyWith, starts>>

-----------------------------------------------------------------------------
(* Threads end by themselves: the watcher when it sees the stop flag or    *)
(* cannot be initialised; the scanner at the end of its walk, which has to *)
(* be drained by workers; workers and the log writer once their queue is   *)
(* closed and empty.                                                       *)
MayEnd(p, part) ==
    \/ part = "watcher"
    \/ part = "scan" /\ "workers" \in on[p]
    \/ part = "workers" /\ "events" \in shut[p]
    \/ part = "log" /\ "log" \in shut[p]

ThreadEnds(p, part) ==
    /\ part \in on[p]
    /\ MayEnd(p, part)
    /\ on' = [on EXCEPT ![p] = @ \ {part}]
    /\ UNCHANGED <<pc, webOnly, stopping, pending, shut, lock, busyWith, starts>>

-----------------------------------------------------------------------------
(* app_stop: mg_stop, then the joins, in the order of the code.            *)

StopWeb(p) ==
    /\ pc[p] = "stop_web"
    /\ on' = [on EXCEPT ![p] = @ \ {"web"}]
    /\ Goto(p, "join_watcher")
    /\ UNCHANGED <<webOnly, stopping, pending, shut, lock, busyWith, starts>>

Join(p, here, part, next) ==
    /\ pc[p] = here
    /\ part \notin on[p]
    /\ Goto(p, next)
    /\ UNCHANGED <<webOnly, on, stopping, pending, shut, lock, busyWith, starts>>

(* wait_empty and close, on the event queue and on the log queue.  Without *)
(* an array of workers app_stop skips the former; nobody looks at it then. *)
CloseQueue(p, here, name, next) ==
    /\ pc[p] = here
    /\ shut' = [shut EXCEPT ![p] = @ \cup {name}]
    /\ Goto(p, next)
    /\ UNCHANGED <<webOnly, on, stopping, pending, lock, busyWith, starts>>

(* Mutant: the scanner is not waited for.                                  *)
JoinWatcherOnly(p) == Join(p, "join_watcher", "watcher", "close_events")

JoinWatcher(p) == Join(p, "join_watcher", "watcher", "join_scan")
JoinScan(p) == Join(p, "join_scan", "scan", "close_events")
CloseEvents(p) == CloseQueue(p, "close_events", "events", "join_workers")
JoinWorkers(p) == Join(p, "join_workers", "workers", "close_log")
CloseLog(p) == CloseQueue(p, "close_log", "log", "join_log")
JoinLog(p) == Join(p, "join_log", "log", "release")

ReleaseLock(p) ==
    /\ pc[p] = "release"
    /\ Release(p)
    /\ Goto(p, "off")
    /\ UNCHANGED <<webOnly, on, stopping, pending, shut, busyWith, starts>>

-----------------------------------------------------------------------------
(* lock_is_held: the probe takes the lock for a moment when it is free.    *)

ProbeLock(q) ==
    /\ pc[q] = "off"
    /\ lock = Nobody
    /\ lock' = q
    /\ Goto(q, "probing")
    /\ UNCHANGED <<webOnly, on, stopping, pending, shut, busyWith, starts>>

ProbeUnlock(q) ==
    /\ pc[q] = "probing"
    /\ Release(q)
    /\ Goto(q, "off")
    /\ UNCHANGED <<webOnly, on, stopping, pending, shut, busyWith, starts>>

-----------------------------------------------------------------------------
StartStep(p) ==
    \/ PreparePaths(p) \/ AcquireLock(p) \/ WritePid(p) \/ StartLog(p)
    \/ StartWorkers(p) \/ StartWatcher(p) \/ StartScan(p) \/ StartWeb(p)

StopStep(p) ==
    \/ RunLoop(p) \/ StopWeb(p) \/ JoinWatcher(p) \/ JoinScan(p)
    \/ CloseEvents(p) \/ JoinWorkers(p) \/ CloseLog(p) \/ JoinLog(p)
    \/ ReleaseLock(p)

Next ==
    \/ \E p \in Procs :
          \/ Start(p) \/ StartStep(p) \/ Signal(p) \/ Kill(p) \/ StopStep(p)
          \/ \E part \in Parts : ThreadEnds(p, part)
    \/ \E q \in Probes : ProbeLock(q) \/ ProbeUnlock(q)

Spec == Init /\ [][Next]_vars

(* The main thread goes on, and so does every thread whose end is due: the *)
(* watcher's and the scanner's once the stop flag is set.                  *)
Fairness ==
    \A p \in Procs :
        /\ WF_vars(StartStep(p) \/ StopStep(p))
        /\ \A part \in Parts : WF_vars(stopping[p] /\ ThreadEnds(p, part))

FairSpec == Spec /\ Fairness

-----------------------------------------------------------------------------
Labels == {"off", "paths", "lock", "pid", "log", "workers", "watcher", "scan",
           "web", "running", "stop_web", "join_watcher", "join_scan",
           "close_events", "join_workers", "close_log", "join_log", "release",
           "probing"}

(* Every variable of the processes has its type, and a Web-only process    *)
(* has only the threads of that mode.                                      *)
TypeOK ==
    /\ pc \in [Procs \cup Probes -> Labels]
    /\ webOnly \in [Procs -> BOOLEAN]
    /\ on \in [Procs -> SUBSET Parts]
    /\ stopping \in [Procs -> BOOLEAN]
    /\ pending \in [Procs -> BOOLEAN]
    /\ shut \in [Procs -> SUBSET {"events", "log"}]
    /\ lock \in Procs \cup Probes \cup {Nobody}
    /\ busyWith \in [Procs -> Procs \cup Probes \cup {Nobody}]
    /\ starts \in Nat
    /\ \A p \in Procs : webOnly[p] => on[p] \subseteq {"log", "web"}

(* Never do two processes watch, scan or copy at the same time, even while *)
(* one is stopping, failing to start or being killed.                      *)
OneBackupProcess ==
    \A p, q \in Procs :
        on[p] \cap BackupParts # {} /\ on[q] \cap BackupParts # {} => p = q

(* A process that is not running, because it stopped or because its start  *)
(* failed at any step, has no thread left and does not hold the lock.      *)
NothingLeftBehind == \A p \in Procs : pc[p] = "off" => on[p] = {} /\ lock # p

(* Consumers start before and end after the threads that feed them: what   *)
(* any thread logs reaches the log writer, and the watcher and the scanner *)
(* have workers, so that the wait for the queue to empty can end.          *)
ConsumersStay ==
    \A p \in Procs :
        /\ on[p] # {} => "log" \in on[p]
        /\ on[p] \cap {"watcher", "scan"} # {} => "workers" \in on[p]

(* "SySeBa is already running": a start refused by acquire_lock was        *)
(* refused because of a process that runs.                                 *)
RefusedByRunningProcess == \A p \in Procs : busyWith[p] \notin Probes

(* A signal sent to a running process, and a start that fails after the    *)
(* log writer was started, eventually end the process: no join waits for a *)
(* thread that waits for the process to go on.                             *)
StopEnds == \A p \in Procs : pending[p] \/ stopping[p] ~> pc[p] = "off"
=============================================================================
