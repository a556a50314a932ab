-------------------------- MODULE WorkerPoolProofs --------------------------
(***************************************************************************)
(* Proofs about WorkerPool, for any numbers of workers, producers and      *)
(* events.  The invariants are proved in layers, each inductive relative   *)
(* to those before it: Typed (types, and who holds an event), Counted (the *)
(* counter and the order of app_stop), Rested (no lost wakeup), Placed     *)
(* (where the accepted events are), Distinct (no event is in two places).  *)
(***************************************************************************)
EXTENDS WorkerPool, FiniteSetTheorems, TLAPS

(* A busy worker, and a producer about to push, has an event.              *)
HoldersHaveEvents ==
    \A t \in Threads : pc[t] \in {"push", "busy"} => holding[t] \in Items

(* What the position of app_stop says about the other threads: past the    *)
(* joins of the producers they are gone; only app_stop closes the queue;   *)
(* from the end of wait_empty on, a queued event implies that every worker *)
(* will look at the queue again; past the joins of the workers nothing is  *)
(* queued.                                                                 *)
StopOrder ==
    /\ pc[Main] \in {"wait", "waiting", "close", "join_workers", "stopped",
                     "destroyed"} => \A p \in Producers : pc[p] = "exited"
    /\ closed => pc[Main] \in {"join_workers", "stopped", "destroyed"}
    /\ pc[Main] \in {"close", "join_workers"} => NoStaleLook
    /\ pc[Main] \in {"stopped", "destroyed"} =>
          queue = <<>> /\ \A w \in Workers : pc[w] = "exited"

(* The types, strengthened until they are inductive.                       *)
Typed == TypeOK /\ HoldersHaveEvents

(* The threads start with their types.                                     *)
LEMMA InitTyped == Init => Typed
<1> SUFFICES ASSUME Init PROVE Typed
  OBVIOUS
<1> USE PoolAssumption DEF Init, QueueInit, Threads
<1>1. /\ \A w \in Workers : pc[w] = "pop"
      /\ \A p \in Producers : pc[p] = "run"
      /\ pc[Main] = "serving"
  OBVIOUS
<1>2. pc \in [Threads -> WorkerLabels \cup ProducerLabels \cup MainLabels]
  BY DEF WorkerLabels, ProducerLabels, MainLabels
<1>3. HoldersHaveEvents
  BY <1>1 DEF HoldersHaveEvents
<1>4. /\ \A w \in Workers : pc[w] \in WorkerLabels
      /\ \A p \in Producers : pc[p] \in ProducerLabels
      /\ pc[Main] \in MainLabels
  BY <1>1 DEF WorkerLabels, ProducerLabels, MainLabels
<1>5. queue \in Seq(Items) /\ accepted \in Seq(Items)
  OBVIOUS
<1>6. holding \in [Threads -> Items \cup {None}]
  OBVIOUS
<1> QED
  BY <1>2, <1>3, <1>4, <1>5, <1>6 DEF Typed, TypeOK

(* Each step of each thread keeps the types.                               *)
LEMMA StepTyped == Typed /\ [Next]_vars => Typed'
<1> SUFFICES ASSUME Typed, [Next]_vars PROVE Typed'
  OBVIOUS
<1> USE PoolAssumption DEF Typed, TypeOK, HoldersHaveEvents, Threads, Waiters,
        WorkerLabels, ProducerLabels, MainLabels, Goto, Hold, history, queueVars
<1>1. ASSUME NEW p \in Producers, Observe(p) PROVE Typed'
  BY <1>1 DEF Observe
<1>2. ASSUME NEW p \in Producers, Enqueue(p) PROVE Typed'
  BY <1>2 DEF Enqueue, Push, Signal
<1>3. ASSUME NEW p \in Producers, EnqueueFails(p) \/ WatcherExits(p)
      PROVE  Typed'
  <2>1. CASE EnqueueFails(p)
    BY <2>1 DEF EnqueueFails, PushFails
  <2>2. CASE WatcherExits(p)
    BY <2>2 DEF WatcherExits
  <2> QED
    BY <1>3, <2>1, <2>2
<1>4. ASSUME NEW w \in Workers, Take(w) PROVE Typed'
  BY <1>4 DEF Take, PopHead
<1>5. ASSUME NEW w \in Workers,
             Block(w) \/ PopReturnsClosed(w) \/ CheckClosed(w)
      PROVE  Typed'
  BY <1>5 DEF Block, PopBlocks, PopReturnsClosed, PopClosed, CheckClosed
<1>6. ASSUME NEW w \in Workers, Finish(w) PROVE Typed'
  BY <1>6 DEF Finish, TaskDone
<1>7. ASSUME NEW w \in Workers, WorkerTimer(w) PROVE Typed'
  <2>1. CASE PopTimesOut(w)
    BY <2>1 DEF PopTimesOut, LeavesAvailable
  <2>2. CASE SpuriousWake(w)
    BY <2>2 DEF SpuriousWake, LeavesAvailable
  <2> QED
    BY <1>7, <2>1, <2>2 DEF WorkerTimer
<1>8. ASSUME NEW t \in {Scanner, Main}, WaiterStep(t) PROVE Typed'
  BY <1>8 DEF WaiterStep, WaitEmpty, WaitDeadline, SpuriousCompleted, TestsEmpty,
     WaitBlocks, WaitOver, WaitExpires, LeavesCompleted, AfterWait
<1>9. CASE WalkEnds \/ RequestStop
  <2>1. CASE WalkEnds
    BY <2>1 DEF WalkEnds
  <2>2. CASE RequestStop
    BY <2>2 DEF RequestStop
  <2> QED
    BY <1>9, <2>1, <2>2
<1>10. CASE JoinProducers \/ JoinWorkers
  <2>1. CASE JoinProducers
    BY <2>1 DEF JoinProducers
  <2>2. CASE JoinWorkers
    BY <2>2 DEF JoinWorkers
  <2> QED
    BY <1>10, <2>1, <2>2
<1>11. CASE CloseQueue
  BY <1>11 DEF CloseQueue, Close
<1>12. CASE DestroyQueue
  BY <1>12 DEF DestroyQueue, Destroy
<1>13. CASE UNCHANGED vars
  BY <1>13 DEF vars
<1> QED
  BY <1>1, <1>2, <1>3, <1>4, <1>5, <1>6, <1>7, <1>8, <1>9, <1>10, <1>11,
     <1>12, <1>13 DEF Next, ProducerStep, WorkerStep, MainStep, Waiters, Ended

(* The variables of the event queue and of its threads keep their types in *)
(* every behaviour of push, pop, task_done, wait_empty and app_stop.       *)
THEOREM TypeCorrect == Spec => []TypeOK
<1>1. Typed => TypeOK
  BY DEF Typed
<1> QED
  BY <1>1, InitTyped, StepTyped, PTL DEF Spec

-----------------------------------------------------------------------------
(* The counter cannot be proved exact on its own: queue_destroy zeroes it, *)
(* which is right only because StopOrder says that the workers are gone;   *)
(* and StopOrder needs the counter, because app_stop leaves wait_empty on  *)
(* unfinished = 0.                                                         *)
Counted == Typed /\ StopOrder /\ UnfinishedExact

(* The busy workers can be counted.                                        *)
LEMMA BusyFinite == IsFiniteSet(Busy) /\ Cardinality(Busy) \in Nat
BY PoolAssumption, FS_Subset, FS_CardinalityType DEF Busy

(* push adds one to the queue and to the counter; pop moves one from the   *)
(* queue to a worker; task_done takes one from a worker and the counter.   *)
LEMMA StepCount == Counted /\ [Next]_vars => UnfinishedExact'
<1> SUFFICES ASSUME Counted, [Next]_vars PROVE UnfinishedExact'
  OBVIOUS
<1> USE PoolAssumption, BusyFinite
    DEF Counted, UnfinishedExact, Typed, TypeOK, Threads, Goto, Hold, history
<1>1. ASSUME Busy' = Busy, Len(queue') = Len(queue), unfinished' = unfinished
      PROVE  UnfinishedExact'
  BY <1>1
<1>2. ASSUME NEW p \in Producers, Enqueue(p) PROVE UnfinishedExact'
  <2>1. Busy' = Busy
    BY <1>2 DEF Enqueue, Busy
  <2>2. Len(queue') = Len(queue) + 1 /\ unfinished' = unfinished + 1
    BY <1>2 DEF Enqueue, Push
  <2> QED
    BY <2>1, <2>2
<1>3. ASSUME NEW p \in Producers, Observe(p) \/ EnqueueFails(p) \/ WatcherExits(p)
      PROVE  UnfinishedExact'
  <2>1. Busy' = Busy
    BY <1>3 DEF Observe, EnqueueFails, WatcherExits, Busy
  <2> QED
    BY <1>1, <1>3, <2>1 DEF Observe, EnqueueFails, WatcherExits, PushFails, queueVars
<1>4. ASSUME NEW w \in Workers, Take(w) PROVE UnfinishedExact'
  <2>1. Busy' = Busy \cup {w} /\ w \notin Busy
    BY <1>4 DEF Take, Tests, Busy
  <2>2. Len(queue') = Len(queue) - 1 /\ unfinished' = unfinished
    BY <1>4 DEF Take, PopHead
  <2>3. Cardinality(Busy') = Cardinality(Busy) + 1
    BY <2>1, FS_AddElement
  <2> QED
    BY <2>2, <2>3
<1>5. ASSUME NEW w \in Workers,
             Block(w) \/ PopReturnsClosed(w) \/ CheckClosed(w) \/ WorkerTimer(w)
      PROVE  UnfinishedExact'
  <2>1. Busy' = Busy
    BY <1>5 DEF Block, PopReturnsClosed, CheckClosed, WorkerTimer, PopTimesOut,
       SpuriousWake, Tests, Busy
  <2> QED
    BY <1>1, <1>5, <2>1 DEF Block, PopBlocks, PopReturnsClosed, PopClosed, CheckClosed,
       WorkerTimer, PopTimesOut, SpuriousWake, LeavesAvailable, queueVars
<1>6. ASSUME NEW w \in Workers, Finish(w) PROVE UnfinishedExact'
  <2>1. Busy' = Busy \ {w} /\ w \in Busy
    BY <1>6 DEF Finish, Busy
  <2>2. Cardinality(Busy') = Cardinality(Busy) - 1 /\ Cardinality(Busy') \in Nat
    BY <2>1, FS_RemoveElement, FS_CardinalityType
  <2>3. queue' = queue /\ unfinished > 0 /\ unfinished' = unfinished - 1
    BY <1>6, <2>2 DEF Finish, TaskDone
  <2> QED
    BY <2>2, <2>3
<1>7. ASSUME NEW t \in Waiters, WaiterStep(t) PROVE UnfinishedExact'
  <2>1. Busy' = Busy
    BY <1>7 DEF WaiterStep, WaitEmpty, WaitDeadline, SpuriousCompleted, AfterWait,
       Waiters, Busy
  <2> QED
    BY <1>1, <1>7, <2>1 DEF WaiterStep, WaitEmpty, WaitDeadline, SpuriousCompleted,
       WaitBlocks, WaitOver, WaitExpires, LeavesCompleted, queueVars
<1>8. CASE WalkEnds \/ RequestStop \/ JoinProducers \/ CloseQueue \/ JoinWorkers
  <2>1. Busy' = Busy
    BY <1>8 DEF WalkEnds, RequestStop, JoinProducers, CloseQueue, JoinWorkers, Busy
  <2> QED
    BY <1>1, <1>8, <2>1 DEF WalkEnds, RequestStop, JoinProducers, CloseQueue, Close,
       JoinWorkers, queueVars
<1>9. CASE DestroyQueue
  <2>1. Busy' = {}
    BY <1>9 DEF DestroyQueue, StopOrder, Busy
  <2>2. Len(queue') = 0 /\ unfinished' = 0
    BY <1>9 DEF DestroyQueue, Destroy
  <2> QED
    BY <2>1, <2>2, FS_EmptySet
<1>10. CASE UNCHANGED vars
  <2>1. Busy' = Busy
    BY <1>10 DEF vars, Busy
  <2> QED
    BY <1>1, <1>10, <2>1 DEF vars, queueVars
<1> QED
  BY <1>2, <1>3, <1>4, <1>5, <1>6, <1>7, <1>8, <1>9, <1>10
     DEF Next, ProducerStep, WorkerStep, MainStep, Ended

(* Each step keeps what app_stop's position says of the other threads.     *)
LEMMA StepStopOrder == Counted /\ [Next]_vars => StopOrder'
<1> SUFFICES ASSUME Counted, [Next]_vars PROVE StopOrder'
  OBVIOUS
<1> USE PoolAssumption DEF Counted, Typed, TypeOK, StopOrder, NoStaleLook, Threads,
        Goto, Hold, history, queueVars
<1>1. ASSUME NEW p \in Producers, ProducerStep(p) PROVE StopOrder'
  BY <1>1 DEF ProducerStep, Observe, Enqueue, Push, EnqueueFails, PushFails,
     WatcherExits
<1>2. ASSUME NEW w \in Workers, Take(w) PROVE StopOrder'
  BY <1>2 DEF Take, PopHead, Tests
<1>3. ASSUME NEW w \in Workers, Block(w) \/ PopReturnsClosed(w) PROVE StopOrder'
  BY <1>3 DEF Block, PopBlocks, PopReturnsClosed, PopClosed, Tests
<1>4. ASSUME NEW w \in Workers, CheckClosed(w) \/ Finish(w) PROVE StopOrder'
  BY <1>4 DEF CheckClosed, Finish, TaskDone
<1>5. ASSUME NEW w \in Workers, WorkerTimer(w) PROVE StopOrder'
  BY <1>5 DEF WorkerTimer, PopTimesOut, SpuriousWake, LeavesAvailable
<1>6. ASSUME NEW t \in Waiters, WaitEmpty(t) PROVE StopOrder'
  <2>1. unfinished = 0 => queue = <<>>
    BY BusyFinite DEF UnfinishedExact
  <2>2. CASE WaitBlocks(t) /\ Goto(t, "waiting")
    BY <1>6, <2>2 DEF WaitEmpty, WaitBlocks, TestsEmpty, Waiters
  <2>3. CASE WaitOver /\ Goto(t, AfterWait(t))
    BY <1>6, <2>1, <2>3 DEF WaitEmpty, WaitOver, TestsEmpty, AfterWait, Waiters
  <2> QED
    BY <1>6, <2>2, <2>3 DEF WaitEmpty
<1>7. ASSUME NEW t \in Waiters, WaitDeadline(t) \/ SpuriousCompleted(t)
      PROVE  StopOrder'
  BY <1>7 DEF WaitDeadline, WaitExpires, SpuriousCompleted, LeavesCompleted,
     AfterWait, Waiters
<1>8. CASE WalkEnds \/ RequestStop \/ JoinProducers
  BY <1>8 DEF WalkEnds, RequestStop, JoinProducers
<1>9. CASE CloseQueue
  BY <1>9 DEF CloseQueue, Close
<1>10. CASE JoinWorkers \/ DestroyQueue
  BY <1>10 DEF JoinWorkers, DestroyQueue, Destroy
<1>11. CASE UNCHANGED vars
  BY <1>11 DEF vars
<1> QED
  BY <1>1, <1>2, <1>3, <1>4, <1>5, <1>6, <1>7, <1>8, <1>9, <1>10, <1>11
     DEF Next, WorkerStep, WaiterStep, MainStep, Ended

(* The counter is exact in the empty pool.                                 *)
LEMMA InitCounted == Init => Counted
<1> SUFFICES ASSUME Init PROVE Counted
  OBVIOUS
<1>1. pc[Main] = "serving" /\ \A w \in Workers : pc[w] = "pop"
  BY PoolAssumption DEF Init, Threads
<1>2. Busy = {}
  BY <1>1 DEF Busy
<1>3. UnfinishedExact
  BY <1>2, FS_EmptySet DEF Init, QueueInit, UnfinishedExact
<1>4. StopOrder
  BY <1>1 DEF Init, QueueInit, StopOrder
<1> QED
  BY <1>3, <1>4, InitTyped DEF Counted

(* queue->unfinished is always the number of queued events plus the number *)
(* of workers processing one: no push, pop, task_done, close or destroy of *)
(* queue.c miscounts, whatever the interleaving.                           *)
THEOREM CounterIsExact == Spec => []UnfinishedExact
<1>1. Counted /\ [Next]_vars => Counted'
  BY StepTyped, StepCount, StepStopOrder DEF Counted
<1>2. Counted => UnfinishedExact
  BY DEF Counted
<1> QED
  BY <1>1, <1>2, InitCounted, PTL DEF Spec

-----------------------------------------------------------------------------
(* The threads on the condition variable are inside pop, and close leaves  *)
(* none there.                                                             *)
SleepersBlocked ==
    /\ \A w \in available : pc[w] = "blocked"
    /\ closed => available = {}

(* The invariant behind the wakeups.                                       *)
Rested == Counted /\ SleepersBlocked /\ NoSleepOnQueuedWork /\ NoSleepWhenEmpty

(* The awake workers can be counted.                                       *)
LEMMA AwakeFinite == IsFiniteSet(Awake) /\ Cardinality(Awake) \in Nat
BY PoolAssumption, FS_Subset, FS_CardinalityType DEF Awake

(* Every step keeps the sets of blocked threads right, and nobody waits    *)
(* for a queue that is empty or closed.                                    *)
LEMMA StepSleepers == Rested /\ [Next]_vars => SleepersBlocked' /\ NoSleepWhenEmpty'
<1> SUFFICES ASSUME Rested, [Next]_vars PROVE SleepersBlocked' /\ NoSleepWhenEmpty'
  OBVIOUS
<1> USE PoolAssumption DEF Rested, Counted, Typed, TypeOK, SleepersBlocked,
        NoSleepWhenEmpty, Threads, Goto, Hold, history, queueVars
<1>1. ASSUME NEW p \in Producers, ProducerStep(p)
      PROVE  SleepersBlocked' /\ NoSleepWhenEmpty'
  BY <1>1 DEF ProducerStep, Observe, Enqueue, Push, Signal, EnqueueFails, PushFails,
     WatcherExits
<1>2. ASSUME NEW w \in Workers, WorkerStep(w)
      PROVE  SleepersBlocked' /\ NoSleepWhenEmpty'
  <2>1. CASE Take(w) \/ Block(w) \/ PopReturnsClosed(w)
    BY <2>1 DEF Take, PopHead, Block, PopBlocks, PopReturnsClosed, PopClosed, Tests
  <2>2. CASE CheckClosed(w) \/ Finish(w)
    BY <2>2 DEF CheckClosed, Finish, TaskDone
  <2> QED
    BY <1>2, <2>1, <2>2 DEF WorkerStep
<1>3. ASSUME NEW w \in Workers, WorkerTimer(w)
      PROVE  SleepersBlocked' /\ NoSleepWhenEmpty'
  BY <1>3 DEF WorkerTimer, PopTimesOut, SpuriousWake, LeavesAvailable
<1>4. ASSUME NEW t \in Waiters, WaiterStep(t)
      PROVE  SleepersBlocked' /\ NoSleepWhenEmpty'
  BY <1>4 DEF WaiterStep, WaitEmpty, WaitDeadline, SpuriousCompleted, TestsEmpty,
     WaitBlocks, WaitOver, WaitExpires, LeavesCompleted, AfterWait, Waiters
<1>5. CASE WalkEnds \/ RequestStop \/ JoinProducers \/ JoinWorkers
  BY <1>5 DEF WalkEnds, RequestStop, JoinProducers, JoinWorkers
<1>6. CASE CloseQueue \/ DestroyQueue
  BY <1>6 DEF CloseQueue, Close, DestroyQueue, Destroy
<1>7. CASE UNCHANGED vars
  BY <1>7 DEF vars
<1> QED
  BY <1>1, <1>2, <1>3, <1>4, <1>5, <1>6, <1>7 DEF Next, MainStep, Ended

(* A push that leaves a sleeper behind has woken another one; a worker     *)
(* that leaves the awake ones for good took an event with it.              *)
LEMMA StepNoLostWakeup == Rested /\ [Next]_vars => NoSleepOnQueuedWork'
<1> SUFFICES ASSUME Rested, [Next]_vars, available' # {}
             PROVE  Len(queue') <= Cardinality(Awake')
  BY DEF NoSleepOnQueuedWork
<1> USE PoolAssumption, AwakeFinite DEF Rested, Counted, Typed, TypeOK,
        SleepersBlocked, NoSleepOnQueuedWork, Threads, Goto, Hold, history
<1>0. IsFiniteSet(Awake') /\ Cardinality(Awake') \in Nat
  BY FS_Subset, FS_CardinalityType DEF Awake
<1>1. ASSUME Len(queue') <= Len(queue), available # {}, Awake \subseteq Awake'
      PROVE  Len(queue') <= Cardinality(Awake')
  <2>1. Cardinality(Awake) <= Cardinality(Awake')
    BY <1>0, <1>1, FS_Subset
  <2>2. Len(queue) <= Cardinality(Awake) /\ Len(queue) \in Nat
    BY <1>1
  <2>3. queue' \in Seq(Items)
    BY StepTyped
  <2> QED
    BY <1>0, <1>1, <2>1, <2>2, <2>3
<1>2. ASSUME NEW p \in Producers, Enqueue(p)
      PROVE  Len(queue') <= Cardinality(Awake')
  <2>1. PICK w \in available : available' = available \ {w}
    BY <1>2 DEF Enqueue, Push, Signal
  <2>2. Awake' = Awake \cup {w} /\ w \notin Awake
    BY <1>2, <2>1 DEF Enqueue, Awake
  <2>3. Cardinality(Awake') = Cardinality(Awake) + 1
    BY <2>2, FS_AddElement
  <2>4. Len(queue') = Len(queue) + 1
    BY <1>2 DEF Enqueue, Push
  <2> QED
    BY <2>1, <2>3, <2>4
<1>3. ASSUME NEW p \in Producers, Observe(p) \/ EnqueueFails(p) \/ WatcherExits(p)
      PROVE  Len(queue') <= Cardinality(Awake')
  <2>1. queue' = queue /\ available' = available
    BY <1>3 DEF Observe, EnqueueFails, PushFails, WatcherExits, queueVars
  <2>2. Awake' = Awake
    BY <1>3, <2>1 DEF Observe, EnqueueFails, WatcherExits, Awake
  <2> QED
    BY <1>1, <2>1, <2>2
<1>4. ASSUME NEW w \in Workers, Take(w)
      PROVE  Len(queue') <= Cardinality(Awake')
  <2>1. Awake' = Awake \ {w} /\ w \in Awake
    BY <1>4 DEF Take, PopHead, Tests, Awake
  <2>2. Cardinality(Awake') = Cardinality(Awake) - 1
    BY <2>1, FS_RemoveElement
  <2>3. Len(queue') = Len(queue) - 1 /\ available' = available
    BY <1>4 DEF Take, PopHead
  <2> QED
    BY <2>2, <2>3
<1>5. ASSUME NEW w \in Workers, Block(w) PROVE Len(queue') <= Cardinality(Awake')
  BY <1>0, <1>5 DEF Block, PopBlocks
<1>6. ASSUME NEW w \in Workers, PopReturnsClosed(w) \/ CheckClosed(w)
      PROVE  Len(queue') <= Cardinality(Awake')
  <2>1. queue' = queue /\ available' = available
    BY <1>6 DEF PopReturnsClosed, PopClosed, CheckClosed, queueVars
  <2>2. ~closed
    BY <2>1
  <2>3. Awake' = Awake
    BY <1>6, <2>1, <2>2 DEF PopReturnsClosed, PopClosed, CheckClosed, Awake
  <2> QED
    BY <1>1, <2>1, <2>3
<1>7. ASSUME NEW w \in Workers, Finish(w) \/ WorkerTimer(w)
      PROVE  Len(queue') <= Cardinality(Awake')
  <2>1. queue' = queue /\ available' \subseteq available
    BY <1>7 DEF Finish, TaskDone, WorkerTimer, PopTimesOut, SpuriousWake,
       LeavesAvailable
  <2>2. Awake \subseteq Awake'
    BY <1>7, <2>1 DEF Finish, WorkerTimer, PopTimesOut, SpuriousWake, Awake
  <2> QED
    BY <1>1, <2>1, <2>2
<1>8. ASSUME NEW t \in Waiters, WaiterStep(t)
      PROVE  Len(queue') <= Cardinality(Awake')
  <2>1. queue' = queue /\ available' = available
    BY <1>8 DEF WaiterStep, WaitEmpty, WaitDeadline, SpuriousCompleted, WaitBlocks,
       WaitOver, WaitExpires, LeavesCompleted, queueVars
  <2>2. Awake' = Awake
    BY <1>8, <2>1 DEF WaiterStep, WaitEmpty, WaitDeadline, SpuriousCompleted,
       AfterWait, Waiters, Awake
  <2> QED
    BY <1>1, <2>1, <2>2
<1>9. CASE WalkEnds \/ RequestStop \/ JoinProducers \/ JoinWorkers
  <2>1. queue' = queue /\ available' = available
    BY <1>9 DEF WalkEnds, RequestStop, JoinProducers, JoinWorkers, queueVars
  <2>2. Awake' = Awake
    BY <1>9, <2>1 DEF WalkEnds, RequestStop, JoinProducers, JoinWorkers, Awake
  <2> QED
    BY <1>1, <2>1, <2>2
<1>10. CASE CloseQueue \/ DestroyQueue
  BY <1>10 DEF CloseQueue, Close, DestroyQueue, Destroy
<1>11. CASE UNCHANGED vars
  <2>1. queue' = queue /\ available' = available /\ Awake' = Awake
    BY <1>11 DEF vars, queueVars, Awake
  <2> QED
    BY <1>1, <2>1
<1> QED
  BY <1>2, <1>3, <1>4, <1>5, <1>6, <1>7, <1>8, <1>9, <1>10, <1>11
     DEF Next, ProducerStep, WorkerStep, MainStep, Ended

(* Nobody sleeps at the start.                                             *)
LEMMA InitRested == Init => Rested
<1> SUFFICES ASSUME Init PROVE Rested
  OBVIOUS
<1>1. available = {} /\ completed = {}
  BY DEF Init, QueueInit
<1> QED
  BY <1>1, InitCounted DEF Rested, SleepersBlocked, NoSleepOnQueuedWork,
     NoSleepWhenEmpty

(* The layers so far, together.                                            *)
LEMMA StepRested == Rested /\ [Next]_vars => Rested'
BY StepTyped, StepCount, StepStopOrder, StepSleepers, StepNoLostWakeup
   DEF Rested, Counted

(* The single cond_signal of push and the broadcasts of task_done and      *)
(* close suffice: no worker sleeps in pop while events outnumber the       *)
(* workers about to look, and nobody sleeps in wait_empty when there is    *)
(* nothing left to wait for.                                               *)
THEOREM NoLostWakeup == Spec => [](NoSleepOnQueuedWork /\ NoSleepWhenEmpty)
<1>1. Rested => NoSleepOnQueuedWork /\ NoSleepWhenEmpty
  BY DEF Rested
<1> QED
  BY <1>1, InitRested, StepRested, PTL DEF Spec

(* app_stop never closes the queue on a producer that is between the stop  *)
(* check of enqueue and its push.                                          *)
THEOREM StopJoinsProducers == Spec => []NoPushOnClosedQueue
<1>1. Rested => NoPushOnClosedQueue
  BY DEF Rested, Counted, StopOrder, NoPushOnClosedQueue
<1> QED
  BY <1>1, InitRested, StepRested, PTL DEF Spec

-----------------------------------------------------------------------------
(* How many of the accepted events have been popped, which ones, and which *)
(* are in the hands of a worker.                                           *)
Started == Len(accepted) - Len(queue)
StartedSet == {accepted[i] : i \in 1..Started}
Held == {holding[w] : w \in Busy}

(* The queue is the part of the accepted sequence that was not popped.     *)
QueueIsTheRest ==
    /\ Len(queue) <= Len(accepted)
    /\ \A i \in 1..Len(queue) : queue[i] = accepted[Started + i]

(* No accepted event is anywhere else, or nowhere.                         *)
Placed == QueueIsTheRest /\ StartedSet = finished \cup Held

(* The events in the workers' hands change only with the busy workers.     *)
LEMMA HeldSame ==
    ASSUME Busy' = Busy, \A v \in Busy : holding'[v] = holding[v]
    PROVE  Held' = Held
BY DEF Held

(* What Append does, index by index.                                       *)
LEMMA AppendFacts ==
    ASSUME NEW s \in Seq(Items), NEW x \in Items
    PROVE  /\ Len(Append(s, x)) = Len(s) + 1
           /\ \A i \in 1..Len(s) : Append(s, x)[i] = s[i]
           /\ Append(s, x)[Len(s) + 1] = x
OBVIOUS

(* Every step moves an event from one place to the next.                   *)
LEMMA StepPlaced == Counted /\ Placed /\ [Next]_vars => Placed'
<1> SUFFICES ASSUME Counted, Placed, [Next]_vars PROVE Placed'
  OBVIOUS
<1> USE PoolAssumption DEF Counted, Typed, TypeOK, Threads, Goto, Hold, history,
        queueVars
<1>1. ASSUME queue' = queue, accepted' = accepted, finished' = finished,
             Held' = Held
      PROVE  Placed'
  BY <1>1 DEF Placed, QueueIsTheRest, Started, StartedSet
<1>2. ASSUME NEW p \in Producers, Enqueue(p) PROVE Placed'
  <2>1. holding[p] \in Items /\ p \in Threads
    BY <1>2 DEF Enqueue, HoldersHaveEvents
  <2>2. queue' = Append(queue, holding[p]) /\ accepted' = Append(accepted, holding[p])
    BY <1>2 DEF Enqueue, Push
  <2>3. Started' = Started /\ Started \in Nat
    BY <2>1, <2>2 DEF Started, Placed, QueueIsTheRest
  <2> DEFINE x == holding[p]
  <2>7. /\ Len(queue') = Len(queue) + 1 /\ Len(accepted') = Len(accepted) + 1
        /\ Len(queue) <= Len(accepted) /\ Started = Len(accepted) - Len(queue)
        /\ \A i \in 1..Len(queue) : queue'[i] = queue[i]
        /\ \A i \in 1..Len(accepted) : accepted'[i] = accepted[i]
        /\ queue'[Len(queue) + 1] = x /\ accepted'[Len(accepted) + 1] = x
    BY <2>1, <2>2, AppendFacts DEF Placed, QueueIsTheRest, Started
  <2>4. QueueIsTheRest'
    <3> SUFFICES ASSUME NEW i \in 1..(Len(queue) + 1)
                 PROVE  queue'[i] = accepted'[Started + i]
      BY <2>3, <2>7 DEF QueueIsTheRest
    <3>1. CASE i = Len(queue) + 1
      BY <2>7, <3>1
    <3>2. CASE i \in 1..Len(queue)
      <4>1. Started + i \in 1..Len(accepted)
        BY <2>3, <2>7, <3>2
      <4>2. queue[i] = accepted[Started + i]
        BY <3>2 DEF Placed, QueueIsTheRest
      <4> QED
        BY <2>7, <3>2, <4>1, <4>2
    <3> QED
      BY <3>1, <3>2
  <2>5. StartedSet' = StartedSet
    <3>1. \A i \in 1..Started : accepted'[i] = accepted[i]
      BY <2>7
    <3> QED
      BY <2>3, <3>1 DEF StartedSet
  <2>6. Held' = Held /\ finished' = finished
    BY <1>2 DEF Enqueue, Held, Busy
  <2> QED
    BY <2>4, <2>5, <2>6 DEF Placed
<1>3. ASSUME NEW p \in Producers, Observe(p) \/ EnqueueFails(p) \/ WatcherExits(p)
      PROVE  Placed'
  <2>0. \A v \in Workers : pc'[v] = pc[v] /\ holding'[v] = holding[v]
    BY <1>3 DEF Observe, EnqueueFails, WatcherExits
  <2>1. Held' = Held
    BY <2>0, HeldSame DEF Busy
  <2> QED
    BY <1>1, <1>3, <2>1 DEF Observe, EnqueueFails, PushFails, WatcherExits
<1>4. ASSUME NEW w \in Workers, Take(w) PROVE Placed'
  <2>1. queue # <<>> /\ queue' = Tail(queue) /\ accepted' = accepted
        /\ finished' = finished
    BY <1>4 DEF Take, PopHead
  <2>2. Started' = Started + 1 /\ Started \in Nat
    BY <2>1 DEF Started, Placed, QueueIsTheRest
  <2>3. QueueIsTheRest'
    BY <2>1, <2>2 DEF Placed, QueueIsTheRest, Started
  <2>4. Head(queue) = accepted[Started + 1]
    BY <2>1 DEF Placed, QueueIsTheRest
  <2>5. StartedSet' = StartedSet \cup {Head(queue)}
    BY <2>1, <2>2, <2>4 DEF StartedSet
  <2>6. Held' = Held \cup {Head(queue)}
    BY <1>4 DEF Take, Tests, Held, Busy
  <2> QED
    BY <2>1, <2>3, <2>5, <2>6 DEF Placed
<1>5. ASSUME NEW w \in Workers, Finish(w) PROVE Placed'
  <2>1. queue' = queue /\ accepted' = accepted /\ finished' = finished \cup {holding[w]}
    BY <1>5 DEF Finish, TaskDone
  <2>2. finished' \cup Held' = finished \cup Held
    BY <1>5 DEF Finish, Held, Busy
  <2>4. Started' = Started
    BY <2>1 DEF Started
  <2>5. StartedSet' = StartedSet
    BY <2>1, <2>4 DEF StartedSet
  <2>3. QueueIsTheRest' /\ StartedSet' = StartedSet
    BY <2>1, <2>4, <2>5 DEF Placed, QueueIsTheRest
  <2> QED
    BY <2>2, <2>3 DEF Placed
<1>6. ASSUME NEW w \in Workers,
             Block(w) \/ PopReturnsClosed(w) \/ CheckClosed(w) \/ WorkerTimer(w)
      PROVE  Placed'
  <2>0. holding' = holding /\ Busy' = Busy
    BY <1>6 DEF Block, PopReturnsClosed, CheckClosed, WorkerTimer, PopTimesOut,
       SpuriousWake, Tests, Busy
  <2>1. Held' = Held
    BY <2>0, HeldSame
  <2> QED
    BY <1>1, <1>6, <2>1 DEF Block, PopBlocks, PopReturnsClosed, PopClosed,
       CheckClosed, WorkerTimer, PopTimesOut, SpuriousWake, LeavesAvailable
<1>7. ASSUME NEW t \in Waiters, WaiterStep(t) PROVE Placed'
  <2>1. Held' = Held
    BY <1>7 DEF WaiterStep, WaitEmpty, WaitDeadline, SpuriousCompleted, AfterWait,
       Waiters, Held, Busy
  <2> QED
    BY <1>1, <1>7, <2>1 DEF WaiterStep, WaitEmpty, WaitDeadline, SpuriousCompleted,
       WaitBlocks, WaitOver, WaitExpires, LeavesCompleted
<1>8. CASE WalkEnds \/ RequestStop \/ MainStep
  <2>0. holding' = holding /\ \A v \in Workers : pc'[v] = pc[v]
    BY <1>8 DEF WalkEnds, RequestStop, MainStep, JoinProducers, CloseQueue,
       JoinWorkers, DestroyQueue
  <2>1. Held' = Held
    BY <2>0, HeldSame DEF Busy
  <2>2. queue' = queue
    BY <1>8 DEF WalkEnds, RequestStop, MainStep, JoinProducers, CloseQueue, Close,
       JoinWorkers, DestroyQueue, Destroy, StopOrder
  <2> QED
    BY <1>1, <1>8, <2>1, <2>2 DEF WalkEnds, RequestStop, MainStep, JoinProducers,
       CloseQueue, JoinWorkers, DestroyQueue
<1>9. CASE UNCHANGED vars
  <2>1. Held' = Held
    BY <1>9 DEF vars, Held, Busy
  <2> QED
    BY <1>1, <1>9, <2>1 DEF vars
<1> QED
  BY <1>2, <1>3, <1>4, <1>5, <1>6, <1>7, <1>8, <1>9
     DEF Next, ProducerStep, WorkerStep, Ended

(* No event has a place at the start.                                      *)
LEMMA InitPlaced == Init => Placed
<1> SUFFICES ASSUME Init PROVE Placed
  OBVIOUS
<1>1. \A w \in Workers : pc[w] = "pop"
  BY PoolAssumption DEF Init, Threads
<1>2. Held = {} /\ finished = {}
  BY <1>1 DEF Init, Held, Busy
<1>3. queue = <<>> /\ accepted = <<>>
  BY DEF Init, QueueInit
<1>4. Started = 0 /\ QueueIsTheRest
  BY <1>3 DEF Started, QueueIsTheRest
<1> QED
  BY <1>2, <1>4 DEF Placed, StartedSet

(* What the scanner enqueued was accepted, and is finished when it returns *)
(* from wait_empty.                                                        *)
ScanTracked ==
    /\ scanned \subseteq AcceptedSet
    /\ ScanWaitsForItsWork

(* With the queue empty and no worker busy, all that was accepted is       *)
(* finished.                                                               *)
LEMMA AllStarted ==
    ASSUME Counted, Placed, queue = <<>>, Busy = {}
    PROVE  AcceptedSet = finished
<1>1. Started = Len(accepted) /\ DOMAIN accepted = 1..Len(accepted)
  BY DEF Counted, Typed, TypeOK, Started
<1>2. StartedSet = AcceptedSet
  BY <1>1 DEF StartedSet, AcceptedSet
<1>3. Held = {}
  BY DEF Held
<1> QED
  BY <1>2, <1>3 DEF Placed

(* An accepted event joins the set of the accepted ones.                   *)
LEMMA AppendedSet ==
    ASSUME TypeOK, NEW x \in Items, accepted' = Append(accepted, x)
    PROVE  AcceptedSet' = AcceptedSet \cup {x}
<1>1. /\ accepted \in Seq(Items) /\ accepted' \in Seq(Items)
      /\ Len(accepted') = Len(accepted) + 1
      /\ \A i \in 1..Len(accepted) : accepted'[i] = accepted[i]
      /\ accepted'[Len(accepted) + 1] = x
  BY AppendFacts DEF TypeOK
<1>2. DOMAIN accepted = 1..Len(accepted) /\ DOMAIN accepted' = 1..Len(accepted) + 1
  BY <1>1
<1>3. DOMAIN accepted' = DOMAIN accepted \cup {Len(accepted) + 1}
  BY <1>1, <1>2
<1>4. \A y : y \in AcceptedSet' <=> \E i \in DOMAIN accepted' : y = accepted'[i]
  BY DEF AcceptedSet
<1>5. \A y : y \in AcceptedSet <=> \E i \in DOMAIN accepted : y = accepted[i]
  BY DEF AcceptedSet
<1>6. \A y : y \in AcceptedSet' <=> y \in AcceptedSet \cup {x}
  BY <1>1, <1>2, <1>3, <1>4, <1>5
<1> QED
  BY <1>6

(* The scanner leaves wait_empty with unfinished = 0: the queue is closed  *)
(* only after the scanner was joined.                                      *)
LEMMA StepScanTracked ==
    Counted /\ Placed /\ ScanTracked /\ [Next]_vars => ScanTracked'
<1> SUFFICES ASSUME Counted, Placed, ScanTracked, [Next]_vars PROVE ScanTracked'
  OBVIOUS
<1> USE PoolAssumption DEF Counted, Typed, TypeOK, Threads, Goto, Hold, history,
        queueVars
<1>1. ASSUME scanned' = scanned, AcceptedSet' = AcceptedSet,
             finished \subseteq finished',
             pc'[Scanner] = "exited" => pc[Scanner] = "exited"
      PROVE  ScanTracked'
  BY <1>1 DEF ScanTracked, ScanWaitsForItsWork
<1>2. ASSUME NEW p \in Producers, Enqueue(p) PROVE ScanTracked'
  <2>1. holding[p] \in Items
    BY <1>2 DEF Enqueue, HoldersHaveEvents
  <2>2. accepted' = Append(accepted, holding[p])
    BY <1>2 DEF Enqueue
  <2>3. AcceptedSet' = AcceptedSet \cup {holding[p]}
    BY <2>1, <2>2, AppendedSet
  <2> QED
    BY <1>2, <2>3 DEF Enqueue, ScanTracked, ScanWaitsForItsWork
<1>3. ASSUME NEW p \in Producers, Observe(p) \/ EnqueueFails(p) \/ WatcherExits(p)
      PROVE  ScanTracked'
  <2>1. scanned' = scanned /\ accepted' = accepted /\ finished' = finished
    BY <1>3 DEF Observe, EnqueueFails, WatcherExits
  <2>2. pc'[Scanner] = "exited" => pc[Scanner] = "exited"
    BY <1>3 DEF Observe, EnqueueFails, WatcherExits
  <2> QED
    BY <1>1, <2>1, <2>2 DEF AcceptedSet
<1>4. ASSUME NEW w \in Workers, WorkerStep(w) \/ WorkerTimer(w) PROVE ScanTracked'
  BY <1>1, <1>4 DEF WorkerStep, WorkerTimer, Take, Block, PopReturnsClosed,
     CheckClosed, Finish, PopTimesOut, SpuriousWake, AcceptedSet
<1>5. ASSUME NEW t \in Waiters, WaiterStep(t) PROVE ScanTracked'
  <2>1. CASE t = Scanner /\ WaitEmpty(t) /\ WaitOver
    <3>1. ~closed
      BY <2>1 DEF WaitEmpty, TestsEmpty, StopOrder
    <3>2. queue = <<>> /\ Cardinality(Busy) = 0
      BY <2>1, <3>1, BusyFinite DEF WaitOver, UnfinishedExact
    <3>3. Busy = {}
      BY <3>2, BusyFinite, FS_EmptySet
    <3>4. scanned \subseteq finished
      BY <3>2, <3>3, AllStarted DEF ScanTracked
    <3> QED
      <4>1. scanned' = scanned /\ accepted' = accepted /\ finished' = finished
        BY <2>1 DEF WaitEmpty
      <4> QED
        BY <3>4, <4>1 DEF ScanTracked, ScanWaitsForItsWork, AcceptedSet
  <2>2. CASE t = Scanner /\ WaitDeadline(t)
    BY <2>2 DEF WaitDeadline, ScanTracked, ScanWaitsForItsWork, AcceptedSet
  <2>3. CASE t = Main \/ (WaitEmpty(t) /\ ~WaitOver) \/ SpuriousCompleted(t)
    <3>1. scanned' = scanned /\ accepted' = accepted /\ finished' = finished
      BY <1>5 DEF WaiterStep, WaitEmpty, WaitDeadline, SpuriousCompleted
    <3>2. pc'[Scanner] = "exited" => pc[Scanner] = "exited"
      BY <1>5, <2>3 DEF WaiterStep, WaitEmpty, WaitDeadline, SpuriousCompleted
    <3> QED
      BY <1>1, <3>1, <3>2 DEF AcceptedSet
  <2> QED
    BY <1>5, <2>1, <2>2, <2>3 DEF WaiterStep, Waiters
<1>6. CASE WalkEnds \/ RequestStop \/ MainStep
  <2> USE DEF WalkEnds, RequestStop, MainStep, JoinProducers, CloseQueue,
          JoinWorkers, DestroyQueue
  <2>1. pc'[Scanner] = "exited" => pc[Scanner] = "exited"
    BY <1>6
  <2>2. scanned' = scanned /\ accepted' = accepted /\ finished' = finished
    BY <1>6
  <2> QED
    BY <1>1, <2>1, <2>2 DEF AcceptedSet
<1>7. CASE UNCHANGED vars
  BY <1>1, <1>7 DEF vars, AcceptedSet
<1> QED
  BY <1>2, <1>3, <1>4, <1>5, <1>6, <1>7 DEF Next, ProducerStep, Ended

(* The inductive invariant behind the safety properties.                   *)
IInv == Rested /\ Placed /\ ScanTracked

(* It holds at the start.                                                  *)
LEMMA InitIInv == Init => IInv
<1> SUFFICES ASSUME Init PROVE ScanTracked
  BY InitRested, InitPlaced DEF IInv
<1> QED
  BY DEF Init, ScanTracked, ScanWaitsForItsWork

(* Every step keeps it.                                                    *)
LEMMA StepIInv == IInv /\ [Next]_vars => IInv'
BY StepRested, StepPlaced, StepScanTracked DEF IInv, Rested

(* When initial_sync returns from wait_empty before its deadline, every    *)
(* event its walk enqueued has been processed by a worker.                 *)
THEOREM ScanIsComplete == Spec => []ScanWaitsForItsWork
<1>1. IInv => ScanWaitsForItsWork
  BY DEF IInv, ScanTracked
<1> QED
  BY <1>1, InitIInv, StepIInv, PTL DEF Spec

(* app_stop loses no accepted event: when it has joined the workers, and   *)
(* after queue_destroy, each one has been processed, even if the 30 s wait *)
(* for the queue expired.                                                  *)
THEOREM NothingLostAtStop == Spec => []StopDrainsQueue
<1>1. IInv => StopDrainsQueue
  <2> SUFFICES ASSUME IInv, pc[Main] \in {"stopped", "destroyed"}
               PROVE  finished = AcceptedSet
    BY DEF StopDrainsQueue
  <2>1. queue = <<>> /\ Busy = {}
    BY DEF IInv, Rested, Counted, StopOrder, Busy
  <2> QED
    BY <2>1, AllStarted DEF IInv, Rested
<1> QED
  BY <1>1, InitIInv, StepIInv, PTL DEF Spec

-----------------------------------------------------------------------------
(* A pop takes the accepted event that follows the ones popped before.     *)
LEMMA PopTakesNext ==
    ASSUME accepted \in Seq(Items), queue \in Seq(Items), QueueIsTheRest,
           queue # <<>>, queue' = Tail(queue), accepted' = accepted
    PROVE  /\ Started' = Started + 1
           /\ Started < Len(accepted)
           /\ Head(queue) = accepted[Started + 1]
           /\ Started \in Nat
<1>1. Len(queue) \in Nat \ {0} /\ Len(Tail(queue)) = Len(queue) - 1
      /\ Head(queue) = queue[1]
  OBVIOUS
<1>2. Len(accepted) \in Nat
  OBVIOUS
<1>3. queue[1] = accepted[Started + 1]
  BY <1>1 DEF QueueIsTheRest
<1> QED
  BY <1>1, <1>2, <1>3 DEF Started, QueueIsTheRest

(* No event is in two places: the accepted ones differ, those about to be  *)
(* pushed differ from them and from each other, and two workers never hold *)
(* the same one.                                                           *)
Distinct ==
    /\ AcceptedSet \subseteq offered
    /\ \A i, j \in DOMAIN accepted : accepted[i] = accepted[j] => i = j
    /\ \A p \in Producers : pc[p] = "push" => holding[p] \in offered \ AcceptedSet
    /\ \A p, q \in Producers :
          pc[p] = "push" /\ pc[q] = "push" /\ holding[p] = holding[q] => p = q
    /\ \A v, w \in Busy : holding[v] = holding[w] => v = w

(* Every step keeps the events apart.                                      *)
LEMMA StepDistinct == IInv /\ Distinct /\ [Next]_vars => Distinct'
<1> SUFFICES ASSUME IInv, Distinct, [Next]_vars PROVE Distinct'
  OBVIOUS
<1>a. ASSUME accepted' = accepted, offered' = offered,
             \A q \in Producers : pc'[q] = "push" =>
                pc[q] = "push" /\ holding'[q] = holding[q],
             \A v, w \in Busy' : holding'[v] = holding'[w] => v = w
      PROVE  Distinct'
  <2>1. AcceptedSet' = AcceptedSet
    BY <1>a DEF AcceptedSet
  <2>2. \A i, j \in DOMAIN accepted' : accepted'[i] = accepted'[j] => i = j
    BY <1>a DEF Distinct
  <2>3. AcceptedSet' \subseteq offered'
    BY <1>a, <2>1 DEF Distinct
  <2>4. \A q \in Producers : pc'[q] = "push" =>
           holding'[q] \in offered' \ AcceptedSet'
    BY <1>a, <2>1 DEF Distinct
  <2>5. \A p, q \in Producers :
           pc'[p] = "push" /\ pc'[q] = "push" /\ holding'[p] = holding'[q] => p = q
    BY <1>a DEF Distinct
  <2> QED
    BY <1>a, <2>2, <2>3, <2>4, <2>5 DEF Distinct
<1>0. ASSUME accepted' = accepted /\ offered' = offered,
             \A q \in Producers : pc'[q] = "push" =>
                pc[q] = "push" /\ holding'[q] = holding[q],
             \A v \in Busy' : v \in Busy /\ holding'[v] = holding[v]
      PROVE  Distinct'
  <2>1. \A v, w \in Busy' : holding'[v] = holding'[w] => v = w
    BY <1>0 DEF Distinct
  <2> QED
    BY <1>0, <1>a, <2>1
<1> USE PoolAssumption DEF IInv, Rested, Counted, Typed, TypeOK, Threads, Goto, Hold,
        history, queueVars
<1>1. ASSUME NEW p \in Producers, Enqueue(p) PROVE Distinct'
  <2>1. holding[p] \in Items /\ accepted' = Append(accepted, holding[p])
    BY <1>1 DEF Enqueue, HoldersHaveEvents
  <2>2. AcceptedSet' = AcceptedSet \cup {holding[p]}
    BY <2>1, AppendedSet
  <2>3. holding[p] \notin AcceptedSet
    BY <1>1 DEF Enqueue, Distinct
  <2>4. \A i, j \in DOMAIN accepted' : accepted'[i] = accepted'[j] => i = j
    <3>1. \A i \in DOMAIN accepted : accepted[i] # holding[p]
      BY <2>3 DEF AcceptedSet
    <3>2. /\ Len(accepted) \in Nat /\ DOMAIN accepted = 1..Len(accepted)
          /\ DOMAIN accepted' = 1..Len(accepted) + 1
          /\ \A i \in DOMAIN accepted : accepted'[i] = accepted[i]
          /\ accepted'[Len(accepted) + 1] = holding[p]
      BY <2>1, AppendFacts
    <3>3. \A i \in DOMAIN accepted' : i \in DOMAIN accepted \/ i = Len(accepted) + 1
      BY <3>2
    <3>4. \A i, j \in DOMAIN accepted : accepted'[i] = accepted'[j] => i = j
      BY <3>2 DEF Distinct
    <3>5. \A i \in DOMAIN accepted : accepted'[i] # accepted'[Len(accepted) + 1]
      BY <3>1, <3>2
    <3> QED
      BY <3>3, <3>4, <3>5
  <2>5. \A v, w \in Busy' : holding'[v] = holding'[w] => v = w
    BY <1>1 DEF Enqueue, Busy, Distinct
  <2>6. \A q \in Producers : pc'[q] = "push" =>
           q # p /\ pc[q] = "push" /\ holding'[q] = holding[q]
    BY <1>1 DEF Enqueue
  <2>7. offered' = offered /\ pc[p] = "push"
    BY <1>1 DEF Enqueue
  <2>8. AcceptedSet' \subseteq offered'
    BY <2>2, <2>7 DEF Distinct
  <2>9. \A q \in Producers : pc'[q] = "push" =>
           holding'[q] \in offered' \ AcceptedSet'
    BY <2>2, <2>6, <2>7 DEF Distinct
  <2> QED
    BY <2>4, <2>5, <2>6, <2>8, <2>9 DEF Distinct
<1>2. ASSUME NEW p \in Producers, Observe(p) PROVE Distinct'
  <2>1. PICK x \in Items \ offered : offered' = offered \cup {x} /\ Hold(p, x)
    BY <1>2 DEF Observe
  <2>2. AcceptedSet' = AcceptedSet /\ accepted' = accepted
    BY <1>2 DEF Observe, AcceptedSet
  <2>0. \A v \in Busy' : v \in Busy /\ holding'[v] = holding[v]
    BY <1>2, <2>1 DEF Observe, Busy
  <2>3. \A v, w \in Busy' : holding'[v] = holding'[w] => v = w
    BY <2>0 DEF Distinct
  <2>4. /\ pc'[p] = "push" /\ holding'[p] = x
        /\ \A q \in Producers \ {p} : pc'[q] = pc[q] /\ holding'[q] = holding[q]
    BY <1>2, <2>1 DEF Observe
  <2>5. AcceptedSet' \subseteq offered' /\ x \notin AcceptedSet
    BY <2>1, <2>2 DEF Distinct
  <2>6. \A q \in Producers : pc'[q] = "push" =>
           holding'[q] \in offered' \ AcceptedSet'
    BY <2>1, <2>2, <2>4, <2>5 DEF Distinct
  <2>7. \A q \in Producers \ {p} : pc'[q] = "push" => holding'[q] # x
    <3>1. \A q \in Producers : pc[q] = "push" => holding[q] \in offered
      BY DEF Distinct
    <3> QED
      BY <2>1, <2>4, <3>1
  <2>8. \A q, r \in Producers :
           pc'[q] = "push" /\ pc'[r] = "push" /\ holding'[q] = holding'[r] => q = r
    BY <2>4, <2>7 DEF Distinct
  <2>9. \A i, j \in DOMAIN accepted' : accepted'[i] = accepted'[j] => i = j
    BY <2>2 DEF Distinct
  <2> QED
    BY <2>3, <2>5, <2>6, <2>8, <2>9 DEF Distinct
<1>3. ASSUME NEW p \in Producers, EnqueueFails(p) \/ WatcherExits(p) PROVE Distinct'
  <2>1. accepted' = accepted /\ offered' = offered
    BY <1>3 DEF EnqueueFails, WatcherExits
  <2>2. \A q \in Producers : pc'[q] = "push" =>
           pc[q] = "push" /\ holding'[q] = holding[q]
    BY <1>3 DEF EnqueueFails, WatcherExits
  <2>3. \A v \in Busy' : v \in Busy /\ holding'[v] = holding[v]
    BY <1>3 DEF EnqueueFails, WatcherExits, Busy
  <2> QED
    BY <1>0, <2>1, <2>2, <2>3
<1>4. ASSUME NEW w \in Workers, Take(w) PROVE Distinct'
  <2>1. queue # <<>> /\ holding' = [holding EXCEPT ![w] = Head(queue)]
        /\ Busy' = Busy \cup {w} /\ w \notin Busy
    BY <1>4 DEF Take, PopHead, Tests, Busy
  <2>2. /\ Started \in Nat /\ Started + 1 \in DOMAIN accepted
        /\ 1..Started \subseteq DOMAIN accepted
        /\ Head(queue) = accepted[Started + 1]
    <3>1. queue' = Tail(queue) /\ accepted' = accepted
      BY <1>4 DEF Take, PopHead
    <3>2. Started \in Nat /\ Started < Len(accepted)
          /\ Head(queue) = accepted[Started + 1]
      BY <2>1, <3>1, PopTakesNext DEF Placed
    <3> QED
      BY <3>2
  <2>3. Head(queue) \notin StartedSet
    <3>1. \A i \in 1..Started : accepted[i] # accepted[Started + 1]
      <4>1. \A i \in 1..Started : i # Started + 1
        BY <2>2
      <4> QED
        BY <2>2, <4>1 DEF Distinct
    <3> QED
      BY <2>2, <3>1 DEF StartedSet
  <2>4. \A v \in Busy : holding[v] # Head(queue)
    BY <2>3 DEF Placed, Held
  <2>5. \A u, v \in Busy' : holding'[u] = holding'[v] => u = v
    <3>1. holding'[w] = Head(queue)
          /\ \A v \in Busy : v # w /\ holding'[v] = holding[v]
      BY <2>1 DEF Busy
    <3>2. \A u, v \in Busy : holding'[u] = holding'[v] => u = v
      BY <3>1 DEF Distinct
    <3>3. \A v \in Busy : holding'[v] # holding'[w]
      BY <2>4, <3>1
    <3> QED
      BY <2>1, <3>2, <3>3
  <2>6. accepted' = accepted /\ offered' = offered
    BY <1>4 DEF Take
  <2>7. \A q \in Producers : pc'[q] = pc[q] /\ holding'[q] = holding[q]
    BY <1>4 DEF Take
  <2> QED
    BY <1>a, <2>5, <2>6, <2>7
<1>5. ASSUME NEW w \in Workers, Finish(w) PROVE Distinct'
  <2>1. \A q \in Producers : pc'[q] = pc[q] /\ holding'[q] = holding[q]
    BY <1>5 DEF Finish
  <2>2. \A v \in Busy' : v \in Busy /\ holding'[v] = holding[v]
    BY <1>5 DEF Finish, Busy
  <2>3. accepted' = accepted /\ offered' = offered
    BY <1>5 DEF Finish
  <2> QED
    BY <1>0, <2>1, <2>2, <2>3
<1>6. ASSUME NEW w \in Workers,
             Block(w) \/ PopReturnsClosed(w) \/ CheckClosed(w) \/ WorkerTimer(w)
      PROVE  Distinct'
  <2> USE DEF Block, PopReturnsClosed, CheckClosed, WorkerTimer, PopTimesOut,
          SpuriousWake
  <2>1. \A q \in Producers : pc'[q] = pc[q] /\ holding'[q] = holding[q]
    BY <1>6
  <2>2. \A v \in Busy' : v \in Busy /\ holding'[v] = holding[v]
    BY <1>6 DEF Busy
  <2>3. accepted' = accepted /\ offered' = offered
    BY <1>6
  <2> QED
    BY <1>0, <2>1, <2>2, <2>3
<1>7. ASSUME NEW t \in Waiters, WaiterStep(t) PROVE Distinct'
  <2> USE DEF WaiterStep, WaitEmpty, WaitDeadline, SpuriousCompleted, AfterWait,
          Waiters
  <2>1. \A q \in Producers : pc'[q] = "push" => pc[q] = "push"
    BY <1>7
  <2>2. \A v \in Busy' : v \in Busy
    BY <1>7 DEF Busy
  <2>3. accepted' = accepted /\ offered' = offered /\ holding' = holding
    BY <1>7
  <2> QED
    BY <1>0, <2>1, <2>2, <2>3
<1>8. CASE WalkEnds \/ RequestStop \/ MainStep
  <2> USE DEF WalkEnds, RequestStop, MainStep, JoinProducers, CloseQueue,
          JoinWorkers, DestroyQueue
  <2>1. \A q \in Producers : pc'[q] = "push" => pc[q] = "push"
    BY <1>8
  <2>2. \A v \in Busy' : v \in Busy
    BY <1>8 DEF Busy
  <2>3. accepted' = accepted /\ offered' = offered /\ holding' = holding
    BY <1>8
  <2> QED
    BY <1>0, <2>1, <2>2, <2>3
<1>9. CASE UNCHANGED vars
  <2>1. accepted' = accepted /\ offered' = offered /\ holding' = holding /\ pc' = pc
    BY <1>9 DEF vars
  <2> QED
    BY <1>0, <2>1 DEF Busy
<1> QED
  BY <1>1, <1>2, <1>3, <1>4, <1>5, <1>6, <1>7, <1>8, <1>9
     DEF Next, ProducerStep, WorkerStep, Ended

(* There are no events to confuse at the start.                            *)
LEMMA InitDistinct == Init => Distinct
<1> SUFFICES ASSUME Init PROVE Distinct
  OBVIOUS
<1>1. /\ \A w \in Workers : pc[w] = "pop"
      /\ \A p \in Producers : pc[p] = "run"
  BY PoolAssumption DEF Init, Threads
<1>2. accepted = <<>> /\ AcceptedSet = {}
  BY DEF Init, AcceptedSet
<1> QED
  BY <1>1, <1>2 DEF Distinct, Busy

(* The ledger ends when app_stop has joined the workers.                   *)
Over == pc[Main] \in {"stopped", "destroyed"}

(* Each step of the pool is a step of the ledger or leaves it as it is:    *)
(* push accepts, a successful pop starts, task_done completes, the join of *)
(* the workers ends it.                                                    *)
LEMMA LedgerStep ==
    IInv /\ Distinct /\ [Next]_vars => [Ledger!LedgerNext]_(Ledger!ledgerVars)
<1> SUFFICES ASSUME IInv, Distinct, [Next]_vars
             PROVE  Ledger!LedgerNext \/ UNCHANGED Ledger!ledgerVars
  OBVIOUS
<1>0. ASSUME accepted' = accepted, Started' = Started, Held' = Held,
             finished' = finished, Over' = Over
      PROVE  UNCHANGED Ledger!ledgerVars
  BY <1>0 DEF Ledger!ledgerVars, Started, Held, Over
<1> USE PoolAssumption DEF IInv, Rested, Counted, Typed, TypeOK, Threads, Goto, Hold,
        history, queueVars
<1>1. ASSUME NEW p \in Producers, Enqueue(p)
      PROVE  Ledger!LedgerNext
  <2>1. holding[p] \in Items /\ accepted' = Append(accepted, holding[p])
    BY <1>1 DEF Enqueue, HoldersHaveEvents
  <2>2. \A i \in DOMAIN accepted : accepted[i] # holding[p]
    <3>1. holding[p] \notin AcceptedSet
      BY <1>1 DEF Enqueue, Distinct
    <3> QED
      BY <3>1 DEF AcceptedSet
  <2>3. ~Over /\ ~Over'
    BY <1>1 DEF Enqueue, StopOrder, Over
  <2>6. Over' = Over
    BY <1>1 DEF Enqueue, Over
  <2>4. Started' = Started
    <3>1. queue' = Append(queue, holding[p])
      BY <1>1 DEF Enqueue, Push
    <3>2. Len(queue') = Len(queue) + 1 /\ Len(accepted') = Len(accepted) + 1
      BY <2>1, <3>1
    <3> QED
      BY <3>2 DEF Started
  <2>9. Busy' = Busy /\ \A v \in Busy : holding'[v] = holding[v]
    BY <1>1 DEF Enqueue, Busy
  <2>5. Held' = Held /\ finished' = finished
    BY <1>1, <2>9, HeldSame DEF Enqueue
  <2>7. PICK x \in Items : x = holding[p]
    BY <2>1
  <2>8. Ledger!Accept(x)
    BY <2>1, <2>2, <2>3, <2>4, <2>5, <2>6, <2>7, Zenon
       DEF Ledger!Accept, Started, Held, Over
  <2> QED
    BY <2>8 DEF Ledger!LedgerNext
<1>2. ASSUME NEW p \in Producers, Observe(p) \/ EnqueueFails(p) \/ WatcherExits(p)
      PROVE  UNCHANGED Ledger!ledgerVars
  <2>0. Busy' = Busy /\ \A v \in Workers : holding'[v] = holding[v]
    BY <1>2 DEF Observe, EnqueueFails, WatcherExits, Busy
  <2>1. Held' = Held
    BY <2>0, HeldSame DEF Busy
  <2> QED
    BY <1>0, <1>2, <2>1 DEF Observe, EnqueueFails, PushFails, WatcherExits, Started,
       Over
<1>3. ASSUME NEW w \in Workers, Take(w) PROVE Ledger!Start
  <2>1. queue # <<>> /\ queue' = Tail(queue) /\ accepted' = accepted
        /\ finished' = finished
    BY <1>3 DEF Take, PopHead
  <2>2. Started' = Started + 1 /\ Started < Len(accepted)
        /\ Head(queue) = accepted[Started + 1]
    BY <2>1, PopTakesNext DEF Placed
  <2>3. Held' = Held \cup {Head(queue)}
    BY <1>3 DEF Take, Tests, Held, Busy
  <2>4. Over' = Over
    BY <1>3 DEF Take, Over
  <2> QED
    BY <2>1, <2>2, <2>3, <2>4 DEF Ledger!Start, Started, Held, Over
<1>4. ASSUME NEW w \in Workers, Finish(w)
      PROVE  Ledger!LedgerNext
  <2>1. holding[w] \in Items /\ w \in Busy
    BY <1>4 DEF Finish, HoldersHaveEvents, Busy
  <2>2. Busy' = Busy \ {w} /\ \A v \in Busy' : holding'[v] = holding[v]
    BY <1>4 DEF Finish, Busy
  <2>3. Held' = Held \ {holding[w]} /\ holding[w] \in Held
    <3>1. \A v \in Busy \ {w} : holding[v] # holding[w]
      BY <2>1 DEF Distinct
    <3> QED
      BY <2>1, <2>2, <3>1 DEF Held
  <2>4. Over' = Over /\ Started' = Started /\ accepted' = accepted
        /\ finished' = finished \cup {holding[w]}
    BY <1>4 DEF Finish, TaskDone, Over, Started
  <2>5. PICK x \in Items : x = holding[w]
    BY <2>1
  <2>6. Ledger!Complete(x)
    BY <2>3, <2>4, <2>5 DEF Ledger!Complete, Started, Held, Over
  <2> QED
    BY <2>6 DEF Ledger!LedgerNext
<1>5. ASSUME NEW w \in Workers,
             Block(w) \/ PopReturnsClosed(w) \/ CheckClosed(w) \/ WorkerTimer(w)
      PROVE  UNCHANGED Ledger!ledgerVars
  <2> USE DEF Block, PopReturnsClosed, CheckClosed, WorkerTimer, PopTimesOut,
          SpuriousWake
  <2>0. Busy' = Busy /\ holding' = holding
    BY <1>5 DEF Tests, Busy
  <2>1. Held' = Held
    BY <2>0, HeldSame
  <2>2. queue' = queue /\ accepted' = accepted /\ finished' = finished
    BY <1>5 DEF PopBlocks, PopClosed, LeavesAvailable
  <2>3. Over' = Over
    BY <1>5 DEF Over
  <2> QED
    BY <1>0, <2>1, <2>2, <2>3 DEF Started
<1>6. ASSUME NEW t \in Waiters, WaiterStep(t) PROVE UNCHANGED Ledger!ledgerVars
  <2>0. Busy' = Busy /\ holding' = holding
    <3>1. holding' = holding /\ \A v \in Workers : pc'[v] = pc[v]
      BY <1>6 DEF WaiterStep, WaitEmpty, WaitDeadline, SpuriousCompleted, Waiters
    <3> QED
      BY <3>1 DEF Busy
  <2>1. Held' = Held
    BY <2>0, HeldSame
  <2>2. Over' = Over
    <3>1. CASE pc' = pc
      BY <3>1 DEF Over
    <3>2. CASE WaitEmpty(t) \/ WaitDeadline(t)
      BY <1>6, <3>2 DEF WaitEmpty, TestsEmpty, WaitDeadline, AfterWait, Waiters, Over
    <3> QED
      BY <1>6, <3>1, <3>2 DEF WaiterStep, SpuriousCompleted
  <2> QED
    <3>1. queue' = queue /\ accepted' = accepted /\ finished' = finished
      BY <1>6 DEF WaiterStep, WaitEmpty, WaitDeadline, SpuriousCompleted, WaitBlocks,
         WaitOver, WaitExpires, LeavesCompleted
    <3> QED
      BY <1>0, <2>1, <2>2, <3>1 DEF Started
<1>7. CASE JoinWorkers
  <2>1. queue = <<>> /\ queue' = queue /\ Busy = {} /\ Busy' = {}
    BY <1>7 DEF JoinWorkers, StopOrder, NoStaleLook, Busy
  <2>2. Started = Len(accepted) /\ Started' = Started
    <3>1. accepted' = accepted /\ Len(accepted) \in Nat /\ Len(queue) = 0
      BY <1>7, <2>1 DEF JoinWorkers
    <3> QED
      BY <2>1, <3>1 DEF Started
  <2>3. Held = {} /\ Held' = {}
    BY <2>1 DEF Held
  <2>4. Over' = TRUE /\ accepted' = accepted /\ finished' = finished
    BY <1>7 DEF JoinWorkers, Over
  <2>5. Ledger!End
    BY <2>2, <2>3, <2>4 DEF Ledger!End, Started, Held, Over
  <2> QED
    BY <2>5 DEF Ledger!LedgerNext
<1>8. CASE WalkEnds \/ RequestStop \/ JoinProducers \/ CloseQueue \/ DestroyQueue
  <2>0. Busy' = Busy /\ holding' = holding
    <3>1. holding' = holding /\ \A v \in Workers : pc'[v] = pc[v]
      BY <1>8 DEF WalkEnds, RequestStop, JoinProducers, CloseQueue, DestroyQueue
    <3> QED
      BY <3>1 DEF Busy
  <2>1. Held' = Held
    BY <2>0, HeldSame
  <2>2. queue' = queue
    <3>1. CASE DestroyQueue
      BY <3>1 DEF DestroyQueue, Destroy, StopOrder
    <3> QED
      BY <1>8, <3>1 DEF WalkEnds, RequestStop, JoinProducers, CloseQueue, Close
  <2>3. Over' = Over
    <3>1. CASE WalkEnds \/ RequestStop
      BY <3>1 DEF WalkEnds, RequestStop, Over
    <3>2. CASE JoinProducers \/ CloseQueue \/ DestroyQueue
      BY <3>2 DEF JoinProducers, CloseQueue, DestroyQueue, Over
    <3> QED
      BY <1>8, <3>1, <3>2
  <2> QED
    <3>1. accepted' = accepted /\ finished' = finished
      BY <1>8 DEF WalkEnds, RequestStop, JoinProducers, CloseQueue, DestroyQueue
    <3> QED
      BY <1>0, <2>1, <2>2, <2>3, <3>1 DEF Started
<1>9. CASE UNCHANGED vars
  <2>1. Held' = Held
    BY <1>9 DEF vars, Held, Busy
  <2> QED
    BY <1>0, <1>9, <2>1 DEF vars, Started, Over
<1>10. ASSUME NEW p \in Producers, ProducerStep(p)
       PROVE  Ledger!LedgerNext \/ UNCHANGED Ledger!ledgerVars
  BY <1>1, <1>2, <1>10, Zenon DEF ProducerStep
<1>11. ASSUME NEW w \in Workers, WorkerStep(w) \/ WorkerTimer(w)
       PROVE  Ledger!LedgerNext \/ UNCHANGED Ledger!ledgerVars
  <2>1. CASE Take(w)
    BY <1>3, <2>1, Zenon DEF Ledger!LedgerNext
  <2>2. CASE Finish(w)
    BY <1>4, <2>2, Zenon
  <2>3. CASE Block(w) \/ PopReturnsClosed(w) \/ CheckClosed(w) \/ WorkerTimer(w)
    BY <1>5, <2>3, Zenon
  <2> QED
    BY <1>11, <2>1, <2>2, <2>3, Zenon DEF WorkerStep
<1>12. CASE WalkEnds \/ RequestStop \/ MainStep
  BY <1>7, <1>8, <1>12, Zenon DEF MainStep
<1> QED
  BY <1>6, <1>9, <1>10, <1>11, <1>12, Zenon DEF Next, Ended

(* The pool starts as an empty ledger.                                     *)
LEMMA LedgerStart == Init => Ledger!LedgerInit
<1> SUFFICES ASSUME Init PROVE Ledger!LedgerInit
  OBVIOUS
<1>1. pc[Main] = "serving" /\ \A w \in Workers : pc[w] = "pop"
  BY PoolAssumption DEF Init, Threads
<1>2. Busy = {}
  BY <1>1 DEF Busy
<1> QED
  BY <1>1, <1>2 DEF Init, QueueInit, Ledger!LedgerInit

(* The event queue with its workers implements the ledger: each accepted   *)
(* event is started exactly once and in order of acceptance, finished      *)
(* after that, and the process ends only with all of them finished.        *)
THEOREM PoolImplementsLedger == Spec => ImplementsLedger
<1>1. IInv /\ Distinct /\ [Next]_vars => (IInv /\ Distinct)'
  BY StepIInv, StepDistinct
<1> QED
  BY <1>1, InitIInv, InitDistinct, LedgerStart, LedgerStep, PTL
     DEF Spec, ImplementsLedger, Ledger!LedgerSpec
=============================================================================
