----------------------------- MODULE WorkerPool -----------------------------
(***************************************************************************)
(* The event queue with the threads around it: producers (the watcher and  *)
(* the initial scanner) that enqueue events, the workers of worker_main,   *)
(* the scanner's wait for the queue to empty, and the part of app_stop     *)
(* that joins the producers, drains the queue and joins the workers.       *)
(* What process_event does with an event is the subject of Mirror; here a  *)
(* worker is simply busy with it.                                          *)
(***************************************************************************)
EXTENDS Queue, FiniteSets

CONSTANTS
    Workers,
    Producers,
    Scanner,        \* the producer that runs initial_sync
    Main,           \* the thread that runs app_stop
    None,           \* no event
    Expiring        \* callers of wait_empty whose deadline may pass

ASSUME PoolAssumption ==
    /\ IsFiniteSet(Workers)
    /\ Workers # {}
    /\ Workers \cap Producers = {}
    /\ Main \notin Workers \cup Producers
    /\ Scanner \in Producers
    /\ None \notin Items
    /\ Expiring \subseteq {Scanner, Main}

Threads == Workers \cup Producers \cup {Main}
Waiters == {Scanner, Main}

VARIABLES
    pc,             \* where each thread is
    holding,        \* the event a worker processes or a producer will push
    stopping,       \* app->stop_requested
    offered,        \* history: the events handed to enqueue, accepted or not
    accepted,       \* history: the events push accepted, in order
    finished,       \* history: the events whose task_done was called
    scanned         \* history: the accepted events of the scanner

history == <<offered, accepted, finished, scanned>>
vars == <<queueVars, pc, holding, stopping, history>>

Goto(t, label) == pc' = [pc EXCEPT ![t] = label]
Hold(t, x) == holding' = [holding EXCEPT ![t] = x]
AcceptedSet == {accepted[i] : i \in DOMAIN accepted}

Init ==
    /\ QueueInit
    /\ pc = [t \in Threads |-> IF t \in Workers THEN "pop"
                               ELSE IF t \in Producers THEN "run"
                               ELSE "serving"]
    /\ holding = [t \in Threads |-> None]
    /\ stopping = FALSE
    /\ offered = {}
    /\ accepted = <<>>
    /\ finished = {}
    /\ scanned = {}

-----------------------------------------------------------------------------
(* Producers.  enqueue reads the stop flag, and only later pushes.         *)

Observe(p) ==
    /\ pc[p] = "run"
    /\ ~stopping
    /\ \E x \in Items \ offered :
          /\ offered' = offered \cup {x}
          /\ Hold(p, x)
    /\ Goto(p, "push")
    /\ UNCHANGED <<queueVars, stopping, accepted, finished, scanned>>

Enqueue(p) ==
    /\ pc[p] = "push"
    /\ Push(holding[p])
    /\ accepted' = Append(accepted, holding[p])
    /\ scanned' = IF p = Scanner THEN scanned \cup {holding[p]} ELSE scanned
    /\ Hold(p, None)
    /\ Goto(p, "run")
    /\ UNCHANGED <<stopping, offered, finished>>

EnqueueFails(p) ==
    /\ pc[p] = "push"
    /\ PushFails
    /\ Hold(p, None)
    /\ Goto(p, "run")
    /\ UNCHANGED <<stopping, history>>

(* The watcher's loop ends when it sees the stop flag.                     *)
WatcherExits(p) ==
    /\ pc[p] = "run"
    /\ p # Scanner
    /\ stopping
    /\ Goto(p, "exited")
    /\ UNCHANGED <<queueVars, holding, stopping, history>>

(* The scanner's walk ends, at its end or because of the stop flag, and    *)
(* initial_sync goes on to wait_empty.                                     *)
WalkEnds ==
    /\ pc[Scanner] = "run"
    /\ Goto(Scanner, "wait")
    /\ UNCHANGED <<queueVars, holding, stopping, history>>

-----------------------------------------------------------------------------
(* Workers: the loop of worker_main around pop.  A worker tests the loop   *)
(* condition of pop when it enters and again when it has been woken.       *)

Tests(w) == pc[w] = "pop" \/ (pc[w] = "blocked" /\ w \notin available)

Take(w) ==
    /\ Tests(w)
    /\ PopHead
    /\ Hold(w, Head(queue))
    /\ Goto(w, "busy")
    /\ UNCHANGED <<stopping, history>>

Block(w) ==
    /\ Tests(w)
    /\ PopBlocks(w)
    /\ Goto(w, "blocked")
    /\ UNCHANGED <<holding, stopping, history>>

PopReturnsClosed(w) ==
    /\ Tests(w)
    /\ PopClosed
    /\ Goto(w, "null")
    /\ UNCHANGED <<holding, stopping, history>>

(* timedwait returns nonzero: pop returns NULL without looking at the head *)
(* again.  The thread may have consumed a signal meant for it.             *)
PopTimesOut(w) ==
    /\ pc[w] = "blocked"
    /\ LeavesAvailable(w)
    /\ Goto(w, "null")
    /\ UNCHANGED <<holding, stopping, history>>

SpuriousWake(w) ==
    /\ w \in available
    /\ LeavesAvailable(w)
    /\ UNCHANGED <<pc, holding, stopping, history>>

(* pop returned NULL: is_closed decides between break and continue.        *)
CheckClosed(w) ==
    /\ pc[w] = "null"
    /\ Goto(w, IF closed THEN "exited" ELSE "pop")
    /\ UNCHANGED <<queueVars, holding, stopping, history>>

Finish(w) ==
    /\ pc[w] = "busy"
    /\ TaskDone
    /\ finished' = finished \cup {holding[w]}
    /\ Hold(w, None)
    /\ Goto(w, "pop")
    /\ UNCHANGED <<stopping, offered, accepted, scanned>>

-----------------------------------------------------------------------------
(* wait_empty, called by the scanner and by app_stop.                      *)

AfterWait(t) == IF t = Main THEN "close" ELSE "exited"
TestsEmpty(t) == pc[t] = "wait" \/ (pc[t] = "waiting" /\ t \notin completed)

WaitEmpty(t) ==
    /\ TestsEmpty(t)
    /\ \/ WaitBlocks(t) /\ Goto(t, "waiting")
       \/ WaitOver /\ Goto(t, AfterWait(t))
    /\ UNCHANGED <<holding, stopping, history>>

(* Timing assumption: app_stop waits 30 s, all that time without a         *)
(* producer, and a wait in pop lasts 500 ms.  So when its deadline passes  *)
(* with events still queued, every worker has looked at the queue since    *)
(* the last push and found an event: it is processing one, or has just     *)
(* finished one and is back at pop.                                        *)
NoStaleLook == queue # <<>> => \A w \in Workers : pc[w] \in {"busy", "pop"}

WaitDeadline(t) ==
    /\ t \in Expiring
    /\ pc[t] \in {"wait", "waiting"}
    /\ t = Main => NoStaleLook
    /\ WaitExpires(t)
    /\ Goto(t, AfterWait(t))
    /\ UNCHANGED <<holding, stopping, history>>

SpuriousCompleted(t) ==
    /\ t \in completed
    /\ LeavesCompleted(t)
    /\ UNCHANGED <<pc, holding, stopping, history>>

-----------------------------------------------------------------------------
(* app_stop, and the queue_destroy of app_destroy.                         *)

RequestStop ==
    /\ pc[Main] = "serving"
    /\ stopping' = TRUE
    /\ Goto(Main, "join_producers")
    /\ UNCHANGED <<queueVars, holding, history>>

JoinProducers ==
    /\ pc[Main] = "join_producers"
    /\ \A p \in Producers : pc[p] = "exited"
    /\ Goto(Main, "wait")
    /\ UNCHANGED <<queueVars, holding, stopping, history>>

CloseQueue ==
    /\ pc[Main] = "close"
    /\ Close
    /\ Goto(Main, "join_workers")
    /\ UNCHANGED <<holding, stopping, history>>

JoinWorkers ==
    /\ pc[Main] = "join_workers"
    /\ \A w \in Workers : pc[w] = "exited"
    /\ Goto(Main, "stopped")
    /\ UNCHANGED <<queueVars, holding, stopping, history>>

DestroyQueue ==
    /\ pc[Main] = "stopped"
    /\ Destroy
    /\ Goto(Main, "destroyed")
    /\ UNCHANGED <<holding, stopping, history>>

(* The process has ended; nothing more happens.                            *)
Ended == pc[Main] = "destroyed" /\ UNCHANGED vars

-----------------------------------------------------------------------------
ProducerStep(p) ==
    Observe(p) \/ Enqueue(p) \/ EnqueueFails(p) \/ WatcherExits(p)

WorkerStep(w) ==
    Take(w) \/ Block(w) \/ PopReturnsClosed(w) \/ CheckClosed(w) \/ Finish(w)

WorkerTimer(w) == PopTimesOut(w) \/ SpuriousWake(w)

WaiterStep(t) == WaitEmpty(t) \/ WaitDeadline(t) \/ SpuriousCompleted(t)

MainStep ==
    JoinProducers \/ CloseQueue \/ JoinWorkers \/ DestroyQueue

Next ==
    \/ \E p \in Producers : ProducerStep(p)
    \/ WalkEnds
    \/ \E w \in Workers : WorkerStep(w) \/ WorkerTimer(w)
    \/ \E t \in Waiters : WaiterStep(t)
    \/ RequestStop
    \/ MainStep
    \/ Ended

Spec == Init /\ [][Next]_vars

(* Every thread that can move eventually does, and the walk of a finite    *)
(* tree ends.  Nothing forces an event to be observed, a stop to be        *)
(* requested, or a wait in pop to time out.                                *)
Fairness ==
    /\ \A p \in Producers :
          WF_vars(Enqueue(p) \/ EnqueueFails(p) \/ WatcherExits(p))
    /\ WF_vars(WalkEnds)
    /\ \A w \in Workers : WF_vars(WorkerStep(w))
    /\ \A t \in Waiters : WF_vars(WaitEmpty(t))
    /\ WF_vars(MainStep)

FairSpec == Spec /\ Fairness

-----------------------------------------------------------------------------
(* Properties.                                                             *)

WorkerLabels == {"pop", "blocked", "null", "busy", "exited"}
ProducerLabels == {"run", "push", "wait", "waiting", "exited"}
MainLabels == {"serving", "join_producers", "wait", "waiting", "close",
               "join_workers", "stopped", "destroyed"}

(* Every variable of the queue and of its threads has its type.            *)
TypeOK ==
    /\ queue \in Seq(Items)
    /\ unfinished \in Nat
    /\ closed \in BOOLEAN
    /\ available \in SUBSET Workers
    /\ completed \in SUBSET Waiters
    /\ pc \in [Threads -> WorkerLabels \cup ProducerLabels \cup MainLabels]
    /\ \A w \in Workers : pc[w] \in WorkerLabels
    /\ \A p \in Producers : pc[p] \in ProducerLabels
    /\ pc[Main] \in MainLabels
    /\ holding \in [Threads -> Items \cup {None}]
    /\ stopping \in BOOLEAN
    /\ offered \in SUBSET Items
    /\ accepted \in Seq(Items)
    /\ finished \in SUBSET Items
    /\ scanned \in SUBSET Items

Busy == {w \in Workers : pc[w] = "busy"}

(* The counter that wait_empty trusts is exact: unfinished is the number   *)
(* of events still queued plus the number of workers that took one and     *)
(* have not called task_done.  So the test `unfinished > 0` of task_done   *)
(* never hides a missing or a doubled call.                                *)
UnfinishedExact == unfinished = Len(queue) + Cardinality(Busy)

(* When initial_sync's wait_empty lets it report completion, every event   *)
(* its walk managed to enqueue has been processed, whatever the watcher    *)
(* and the workers did meanwhile (unless its 24 h deadline passed).        *)
ScanWaitsForItsWork ==
    pc[Scanner] = "exited" /\ Scanner \notin Expiring => scanned \subseteq finished

(* Workers that will look at the head again before they sleep.             *)
Awake == {w \in Workers : \/ pc[w] \in {"pop", "null"}
                          \/ pc[w] = "blocked" /\ w \notin available}

(* No wakeup is lost: while a worker sleeps in pop, each queued event has  *)
(* a worker of its own that is about to look at the queue.  push signals   *)
(* only one thread, and a signal can be consumed by a thread that reports  *)
(* a timeout.                                                              *)
NoSleepOnQueuedWork == available # {} => Len(queue) <= Cardinality(Awake)

(* Nobody sleeps in wait_empty after the event it waits for: task_done and *)
(* close wake every waiter.                                                *)
NoSleepWhenEmpty == completed # {} => unfinished > 0 /\ ~closed

(* app_stop closes the queue only after the producers are gone: an event   *)
(* observed before the stop is never refused because the queue is closed.  *)
NoPushOnClosedQueue == \A p \in Producers : pc[p] = "push" => ~closed

(* Stopping loses no accepted event: once app_stop has joined the workers, *)
(* and also after queue_destroy freed the nodes, every accepted event has  *)
(* been processed, even when the 30 s wait expired.                        *)
StopDrainsQueue ==
    pc[Main] \in {"stopped", "destroyed"} => finished = AcceptedSet

(* The queue with its threads implements the ledger: each accepted event   *)
(* is started once and in order, and none is discarded by the end.         *)
Ledger == INSTANCE TaskLedger WITH
    started <- Len(accepted) - Len(queue),
    active <- {holding[w] : w \in Busy},
    done <- finished,
    over <- pc[Main] \in {"stopped", "destroyed"}

ImplementsLedger == Ledger!LedgerSpec

(* An accepted event is eventually processed, although no wait in pop is   *)
(* assumed to time out: the signals alone are enough.                      *)
EveryEventProcessed ==
    \A x \in Items : x \in AcceptedSet ~> x \in finished

(* A stop request eventually ends the process: no thread waits for another *)
(* forever, in any order of joins, waits and wakeups.                      *)
StopTerminates == stopping ~> pc[Main] = "destroyed"

(* initial_sync returns from wait_empty.                                   *)
ScanReturns == <>(pc[Scanner] = "exited")
=============================================================================
