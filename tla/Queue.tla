------------------------------- MODULE Queue -------------------------------
(***************************************************************************)
(* The mutex/condition-variable queue of queue.c.  Each operator below is  *)
(* what one critical section (from locking queue->mutex to unlocking it,   *)
(* or to the wait that releases it) does to the queue.  Two condition      *)
(* variables are represented by the sets of the threads blocked on them.   *)
(* The module holds no thread control: WorkerPool composes it with the     *)
(* threads that call it.                                                   *)
(***************************************************************************)
EXTENDS Naturals, Sequences

CONSTANT Items              \* the distinct events handed to the queue

VARIABLES
    queue,                  \* the nodes from head to tail
    unfinished,             \* pushed and not yet reported by task_done
    closed,
    available,              \* threads blocked on queue->available
    completed               \* threads blocked on queue->completed

queueVars == <<queue, unfinished, closed, available, completed>>

QueueInit ==
    /\ queue = <<>>
    /\ unfinished = 0
    /\ closed = FALSE
    /\ available = {}
    /\ completed = {}

(* pthread_cond_signal: one blocked thread, any of them, becomes runnable; *)
(* nothing happens, and nothing is remembered, when no thread is blocked.  *)
Signal(cond, after) ==
    \/ cond = {} /\ after = {}
    \/ \E t \in cond : after = cond \ {t}

(* Mutants of Push: unfinished is not counted; the signal is sent only to  *)
(* an empty queue, or not at all; the node goes to the head of the list.   *)
PushUncounted(x) ==
    /\ ~closed
    /\ queue' = Append(queue, x)
    /\ Signal(available, available')
    /\ UNCHANGED <<unfinished, closed, completed>>

PushSignalsEmptyQueue(x) ==
    /\ ~closed
    /\ queue' = Append(queue, x)
    /\ unfinished' = unfinished + 1
    /\ IF queue = <<>> THEN Signal(available, available') ELSE available' = available
    /\ UNCHANGED <<closed, completed>>

PushSilent(x) ==
    /\ ~closed
    /\ queue' = Append(queue, x)
    /\ unfinished' = unfinished + 1
    /\ UNCHANGED <<closed, available, completed>>

PushFront(x) ==
    /\ ~closed
    /\ queue' = <<x>> \o queue
    /\ unfinished' = unfinished + 1
    /\ Signal(available, available')
    /\ UNCHANGED <<closed, completed>>

Push(x) ==
    /\ ~closed
    /\ queue' = Append(queue, x)
    /\ unfinished' = unfinished + 1
    /\ Signal(available, available')
    /\ UNCHANGED <<closed, completed>>

(* The other returns of push: no memory for the node, or the queue closed. *)
PushFails == UNCHANGED queueVars

(* Mutant of Close: the threads blocked in pop are not woken.              *)
CloseSilent ==
    /\ closed' = TRUE
    /\ completed' = {}
    /\ UNCHANGED <<queue, unfinished, available>>

Close ==
    /\ closed' = TRUE
    /\ available' = {}
    /\ completed' = {}
    /\ UNCHANGED <<queue, unfinished>>

(* Mutant: pop counts the event as finished.                               *)
PopHeadFinishes ==
    /\ queue # <<>>
    /\ queue' = Tail(queue)
    /\ unfinished' = unfinished - 1
    /\ UNCHANGED <<closed, available, completed>>

(* The test of pop's loop, made with the mutex held, has three outcomes.   *)
(* A closed queue still hands out the nodes it holds.                      *)
PopHead ==
    /\ queue # <<>>
    /\ queue' = Tail(queue)
    /\ UNCHANGED <<unfinished, closed, available, completed>>

PopBlocks(t) ==
    /\ queue = <<>>
    /\ ~closed
    /\ available' = available \cup {t}
    /\ UNCHANGED <<queue, unfinished, closed, completed>>

PopClosed ==
    /\ queue = <<>>
    /\ closed
    /\ UNCHANGED queueVars

(* A thread leaves its wait on `available` unsignalled: a timeout or a     *)
(* spurious wakeup.  The two differ in what pop does next.                 *)
LeavesAvailable(t) ==
    /\ available' = available \ {t}
    /\ UNCHANGED <<queue, unfinished, closed, completed>>

(* Mutant of TaskDone: the waiters are not woken.                          *)
TaskDoneSilent ==
    /\ unfinished' = IF unfinished > 0 THEN unfinished - 1 ELSE 0
    /\ UNCHANGED <<queue, closed, available, completed>>

TaskDone ==
    /\ unfinished' = IF unfinished > 0 THEN unfinished - 1 ELSE 0
    /\ completed' = IF unfinished' = 0 THEN {} ELSE completed
    /\ UNCHANGED <<queue, closed, available>>

(* wait_empty: the test of its loop blocks the thread or lets it return.   *)
WaitBlocks(t) ==
    /\ unfinished > 0
    /\ ~closed
    /\ completed' = completed \cup {t}
    /\ UNCHANGED <<queue, unfinished, closed, available>>

WaitOver ==
    /\ unfinished = 0 \/ closed
    /\ UNCHANGED queueVars

(* The deadline passes, with the loop's condition still true.              *)
WaitExpires(t) ==
    /\ unfinished > 0
    /\ ~closed
    /\ completed' = completed \ {t}
    /\ UNCHANGED <<queue, unfinished, closed, available>>

LeavesCompleted(t) ==
    /\ completed' = completed \ {t}
    /\ UNCHANGED <<queue, unfinished, closed, available>>

(* destroy closes the queue and frees every node that is still linked.     *)
Destroy ==
    /\ queue' = <<>>
    /\ unfinished' = 0
    /\ closed' = TRUE
    /\ available' = {}
    /\ completed' = {}
=============================================================================
