-------------------------- MODULE LifecycleProofs ---------------------------
(***************************************************************************)
(* Proofs about Lifecycle, for any number of processes and of probes.  The *)
(* inductive invariant ties the roles that may be running, the closed      *)
(* queues and the lock to the position of the main thread in app_start and *)
(* app_stop.                                                               *)
(***************************************************************************)
EXTENDS Lifecycle, TLAPS

(* The positions at which a backup process holds the lock.                 *)
Locked == Labels \ {"off", "paths", "lock", "probing"}

(* The positions at which the log writer has been started and its queue is *)
(* still open.                                                             *)
Logging == Locked \ {"pid", "log", "join_log", "release"}

(* Where each role can have a running thread: app_start adds the roles one *)
(* by one and app_stop joins them one by one.                              *)
WithWeb == {"running", "stop_web"}
WithWatcher == WithWeb \cup {"scan", "web", "join_watcher"}
WithScan == WithWeb \cup {"web", "join_watcher", "join_scan"}
WithWorkers == WithWatcher \cup WithScan
                   \cup {"watcher", "close_events", "join_workers"}
WithLog == WithWorkers \cup {"workers", "close_log", "join_log"}

(* Every variable has its type.                                            *)
Typed ==
    /\ pc \in [Procs \cup Probes -> Labels]
    /\ webOnly \in [Procs -> BOOLEAN]
    /\ on \in [Procs -> SUBSET Parts]
    /\ stopping \in [Procs -> BOOLEAN]
    /\ pending \in [Procs -> BOOLEAN]
    /\ shut \in [Procs -> SUBSET {"events", "log"}]
    /\ lock \in Procs \cup Probes \cup {Nobody}
    /\ busyWith \in [Procs -> Procs \cup Probes \cup {Nobody}]
    /\ starts \in Nat

(* The threads of p agree with the position of its main thread.            *)
Threading(p) ==
    /\ "web" \in on[p] => pc[p] \in WithWeb
    /\ "watcher" \in on[p] => pc[p] \in WithWatcher
    /\ "scan" \in on[p] => pc[p] \in WithScan
    /\ "workers" \in on[p] => pc[p] \in WithWorkers
    /\ "log" \in on[p] => pc[p] \in WithLog
    /\ on[p] # {} => "log" \in on[p]
    /\ pc[p] \in Logging => "log" \in on[p]
    /\ on[p] \cap {"watcher", "scan"} # {} => "workers" \in on[p]
    /\ pc[p] \in {"watcher", "scan"} => "workers" \in on[p]
    /\ "events" \in shut[p] =>
          pc[p] \in {"off", "join_workers", "close_log", "join_log", "release"}
    /\ "log" \in shut[p] => pc[p] \in {"off", "join_log", "release"}

(* So do its mode and the lock.                                            *)
Locking(p) ==
    /\ webOnly[p] => /\ on[p] \subseteq {"log", "web"}
                     /\ pc[p] \notin {"lock", "pid", "workers", "watcher", "scan"}
                     /\ lock # p
    /\ lock = p => pc[p] \in Locked
    /\ pc[p] \in Locked /\ ~webOnly[p] => lock = p

LifeInv == Typed /\ \A p \in Procs : Threading(p) /\ Locking(p)

(* Before the first start nothing runs and nobody holds the lock.          *)
LEMMA InitLife == Init => LifeInv
BY LifecycleAssumption DEF Init, LifeInv, Typed, Threading, Locking,
   Labels, Locked, Logging, Parts, BackupParts, WithWeb, WithWatcher, WithScan,
   WithWorkers, WithLog

(* Typing of the helpers that the actions share.                           *)
LEMMA GotoTyped ==
    ASSUME Typed, NEW p \in Procs, NEW label \in Labels, Goto(p, label)
    PROVE  pc' \in [Procs \cup Probes -> Labels]
BY DEF Typed, Goto

(* A started role is one of the roles.                                     *)
LEMMA TurnOnTyped ==
    ASSUME Typed, NEW p \in Procs, NEW part \in Parts, TurnOn(p, part)
    PROVE  on' \in [Procs -> SUBSET Parts]
BY DEF Typed, TurnOn

(* The same for the first step of app_stop.                                *)
LEMMA BeginStopTyped ==
    ASSUME Typed, NEW p \in Procs, BeginStop(p)
    PROVE  /\ pc' \in [Procs \cup Probes -> Labels]
           /\ stopping' \in [Procs -> BOOLEAN]
BY DEF Typed, BeginStop, Goto, Labels

(* Every action keeps every variable in its type.                          *)
LEMMA StepTyped == Typed /\ [Next]_vars => Typed'
<1> SUFFICES ASSUME Typed, [Next]_vars PROVE Typed'
  OBVIOUS
<1> USE LifecycleAssumption
    DEF Typed, Labels, Parts, BackupParts, Release
<1>1. ASSUME NEW p \in Procs, Start(p) PROVE Typed'
  BY <1>1 DEF Start, Goto
<1>2. ASSUME NEW p \in Procs, PreparePaths(p) PROVE Typed'
  BY <1>2 DEF PreparePaths, Goto
<1>3. ASSUME NEW p \in Procs, AcquireLock(p) PROVE Typed'
  BY <1>3 DEF AcquireLock, Goto
<1>4. ASSUME NEW p \in Procs, WritePid(p) PROVE Typed'
  BY <1>4 DEF WritePid, Goto
<1>5. ASSUME NEW p \in Procs, StartLog(p) PROVE Typed'
  BY <1>5 DEF StartLog, Goto, TurnOn
<1>6. ASSUME NEW p \in Procs, StartWorkers(p) PROVE Typed'
  BY <1>6, GotoTyped, TurnOnTyped, BeginStopTyped DEF StartWorkers
<1>7. ASSUME NEW p \in Procs, StartWatcher(p) PROVE Typed'
  BY <1>7, GotoTyped, TurnOnTyped, BeginStopTyped DEF StartWatcher
<1>8. ASSUME NEW p \in Procs, StartScan(p) PROVE Typed'
  BY <1>8, GotoTyped, TurnOnTyped, BeginStopTyped DEF StartScan
<1>9. ASSUME NEW p \in Procs, StartWeb(p) PROVE Typed'
  BY <1>9, GotoTyped, TurnOnTyped, BeginStopTyped DEF StartWeb
<1>10. ASSUME NEW p \in Procs, Signal(p) \/ RunLoop(p) PROVE Typed'
  <2>1. CASE Signal(p)
    BY <2>1 DEF Signal
  <2>2. CASE RunLoop(p)
    BY <2>2, GotoTyped, BeginStopTyped DEF RunLoop
  <2> QED
    BY <1>10, <2>1, <2>2
<1>11. ASSUME NEW p \in Procs, Kill(p) PROVE Typed'
  BY <1>11 DEF Kill, Goto
<1>12. ASSUME NEW p \in Procs, NEW part \in Parts, ThreadEnds(p, part)
       PROVE  Typed'
  BY <1>12 DEF ThreadEnds, MayEnd
<1>13. ASSUME NEW p \in Procs, StopWeb(p) PROVE Typed'
  BY <1>13 DEF StopWeb, Goto
<1>14. ASSUME NEW p \in Procs, JoinWatcher(p) \/ JoinScan(p) PROVE Typed'
  BY <1>14 DEF JoinWatcher, JoinScan, Join, Goto
<1>15. ASSUME NEW p \in Procs, JoinWorkers(p) \/ JoinLog(p) PROVE Typed'
  BY <1>15 DEF JoinWorkers, JoinLog, Join, Goto
<1>16. ASSUME NEW p \in Procs, CloseEvents(p) \/ CloseLog(p) PROVE Typed'
  BY <1>16 DEF CloseEvents, CloseLog, CloseQueue, Goto
<1>17. ASSUME NEW p \in Procs, ReleaseLock(p) PROVE Typed'
  BY <1>17 DEF ReleaseLock, Goto
<1>18. ASSUME NEW q \in Probes, ProbeLock(q) \/ ProbeUnlock(q) PROVE Typed'
  BY <1>18 DEF ProbeLock, ProbeUnlock, Goto
<1>19. CASE UNCHANGED vars
  BY <1>19 DEF vars
<1> QED
  BY <1>1, <1>2, <1>3, <1>4, <1>5, <1>6, <1>7, <1>8, <1>9, <1>10, <1>11, <1>12,
     <1>13, <1>14, <1>15, <1>16, <1>17, <1>18, <1>19 DEF Next, StartStep, StopStep

(* The step may be of another process than r: only the lock is shared.     *)
LEMMA StepRole ==
    ASSUME NEW r \in Procs, LifeInv, [Next]_vars
    PROVE  Threading(r)' /\ Locking(r)'
<1> Typed /\ Threading(r) /\ Locking(r)
  BY DEF LifeInv
<1> USE LifecycleAssumption DEF Typed, Threading, Locking, Labels, Locked, Logging,
        Parts, BackupParts, WithWeb, WithWatcher, WithScan, WithWorkers, WithLog,
        Goto, TurnOn, Release, BeginStop
<1>1. ASSUME NEW p \in Procs, Start(p) PROVE Threading(r)' /\ Locking(r)'
  BY <1>1 DEF Start
<1>2. ASSUME NEW p \in Procs, PreparePaths(p) PROVE Threading(r)' /\ Locking(r)'
  BY <1>2 DEF PreparePaths
<1>3. ASSUME NEW p \in Procs, AcquireLock(p) PROVE Threading(r)' /\ Locking(r)'
  BY <1>3 DEF AcquireLock
<1>4. ASSUME NEW p \in Procs, WritePid(p) PROVE Threading(r)' /\ Locking(r)'
  BY <1>4 DEF WritePid
<1>5. ASSUME NEW p \in Procs, StartLog(p) PROVE Threading(r)' /\ Locking(r)'
  BY <1>5 DEF StartLog
<1>6. ASSUME NEW p \in Procs, StartWorkers(p) PROVE Threading(r)' /\ Locking(r)'
  BY <1>6 DEF StartWorkers
<1>7. ASSUME NEW p \in Procs, StartWatcher(p) PROVE Threading(r)' /\ Locking(r)'
  BY <1>7 DEF StartWatcher
<1>8. ASSUME NEW p \in Procs, StartScan(p) PROVE Threading(r)' /\ Locking(r)'
  BY <1>8 DEF StartScan
<1>9. ASSUME NEW p \in Procs, StartWeb(p) PROVE Threading(r)' /\ Locking(r)'
  BY <1>9 DEF StartWeb
<1>10. ASSUME NEW p \in Procs, Signal(p) \/ RunLoop(p) PROVE Threading(r)' /\ Locking(r)'
  BY <1>10 DEF Signal, RunLoop
<1>11. ASSUME NEW p \in Procs, Kill(p) PROVE Threading(r)' /\ Locking(r)'
  BY <1>11 DEF Kill
<1>12. ASSUME NEW p \in Procs, NEW part \in Parts, ThreadEnds(p, part)
       PROVE  Threading(r)' /\ Locking(r)'
  BY <1>12 DEF ThreadEnds, MayEnd
<1>13. ASSUME NEW p \in Procs, StopWeb(p) PROVE Threading(r)' /\ Locking(r)'
  BY <1>13 DEF StopWeb
<1>14. ASSUME NEW p \in Procs, JoinWatcher(p) \/ JoinScan(p) PROVE Threading(r)' /\ Locking(r)'
  BY <1>14 DEF JoinWatcher, JoinScan, Join
<1>15. ASSUME NEW p \in Procs, JoinWorkers(p) \/ JoinLog(p) PROVE Threading(r)' /\ Locking(r)'
  BY <1>15 DEF JoinWorkers, JoinLog, Join
<1>16. ASSUME NEW p \in Procs, CloseEvents(p) \/ CloseLog(p) PROVE Threading(r)' /\ Locking(r)'
  BY <1>16 DEF CloseEvents, CloseLog, CloseQueue
<1>17. ASSUME NEW p \in Procs, ReleaseLock(p) PROVE Threading(r)' /\ Locking(r)'
  BY <1>17 DEF ReleaseLock
<1>18. ASSUME NEW q \in Probes, ProbeLock(q) \/ ProbeUnlock(q) PROVE Threading(r)' /\ Locking(r)'
  BY <1>18 DEF ProbeLock, ProbeUnlock
<1>19. CASE UNCHANGED vars
  BY <1>19 DEF vars
<1> QED
  BY <1>1, <1>2, <1>3, <1>4, <1>5, <1>6, <1>7, <1>8, <1>9, <1>10, <1>11, <1>12,
     <1>13, <1>14, <1>15, <1>16, <1>17, <1>18, <1>19 DEF Next, StartStep, StopStep

(* The invariant is inductive.                                             *)
LEMMA StepLife == LifeInv /\ [Next]_vars => LifeInv'
<1> SUFFICES ASSUME LifeInv, [Next]_vars PROVE LifeInv'
  OBVIOUS
<1>1. Typed'
  BY StepTyped DEF LifeInv
<1>2. \A p \in Procs : Threading(p)' /\ Locking(p)'
  BY StepRole
<1> QED
  BY <1>1, <1>2 DEF LifeInv

(* Every variable has its type, and a Web-only process runs no backup      *)
(* thread, whatever fails and whoever is killed.                           *)
THEOREM LifecycleTypeCorrect == Spec => []TypeOK
<1>1. LifeInv => TypeOK
  BY DEF LifeInv, Typed, Locking, TypeOK
<1> QED
  BY <1>1, InitLife, StepLife, PTL DEF Spec

(* Single instance: at most one process has backup threads, because they   *)
(* run only where the main thread is between acquire_lock and release_lock.*)
THEOREM SingleInstance == Spec => []OneBackupProcess
<1>1. LifeInv => OneBackupProcess
  <2> SUFFICES ASSUME LifeInv, NEW p \in Procs, on[p] \cap BackupParts # {}
               PROVE  lock = p
    BY DEF OneBackupProcess
  <2>1. Typed /\ Threading(p) /\ Locking(p)
    BY DEF LifeInv
  <2>2. "watcher" \in on[p] \/ "scan" \in on[p] \/ "workers" \in on[p]
    BY DEF BackupParts
  <2>3. pc[p] \in Locked
    BY <2>1, <2>2 DEF Threading, Locked, Labels, WithWeb, WithWatcher, WithScan,
       WithWorkers
  <2>4. ~webOnly[p]
    BY <2>1, <2>2 DEF Locking
  <2> QED
    BY <2>1, <2>3, <2>4 DEF Locking
<1> QED
  BY <1>1, InitLife, StepLife, PTL DEF Spec

(* A process whose main thread has returned from run left no thread and no *)
(* lock, whichever step of app_start failed.                               *)
THEOREM CleanExit == Spec => []NothingLeftBehind
<1>1. LifeInv => NothingLeftBehind
  <2> SUFFICES ASSUME LifeInv, NEW p \in Procs, pc[p] = "off"
               PROVE  on[p] = {} /\ lock # p
    BY DEF NothingLeftBehind
  <2>1. Typed /\ Threading(p) /\ Locking(p)
    BY DEF LifeInv
  <2>2. \A part \in Parts : part \notin on[p]
    BY <2>1 DEF Threading, Parts, BackupParts, WithWeb, WithWatcher, WithScan,
       WithWorkers, WithLog
  <2> QED
    BY <2>1, <2>2 DEF Typed, Locking, Locked
<1> QED
  BY <1>1, InitLife, StepLife, PTL DEF Spec

(* Nothing logs into a queue without a writer, and no producer waits for a *)
(* queue without workers, at any point of a start, a stop or a failure.    *)
THEOREM ConsumersOutliveProducers ==
    Spec => []ConsumersStay
<1>1. LifeInv => ConsumersStay
  BY DEF LifeInv, Threading, ConsumersStay
<1> QED
  BY <1>1, InitLife, StepLife, PTL DEF Spec
=============================================================================
