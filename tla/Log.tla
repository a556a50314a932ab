--------------------------------- MODULE Log ---------------------------------
(***************************************************************************)
(* Logging, log.c with the writer of database.c: threads emit records into *)
(* the ring of recent lines and the log queue, one thread writes them to   *)
(* the text log and to SQLite, and log_stop ends it.  Either output may    *)
(* fail at any record, and memory may run out.  Queue and WorkerPool check *)
(* the queue's counting; here it is its items, and how its consumer waits. *)
(***************************************************************************)
EXTENDS Naturals, Sequences

CONSTANTS
    Producers,      \* the threads that log
    Capacity,       \* SYSEBA_RECENT_LOGS
    MaxRecords,     \* producer -> bound on its records
    MaxFaults       \* bound on failing calls

ASSUME LogAssumption ==
    Capacity \in Nat \ {0} /\ MaxRecords \in [Producers -> Nat] /\ MaxFaults \in Nat

None == <<>>

VARIABLES
    begun,          \* producer -> the calls of log_emit it has begun
    at,             \* producer -> "idle" or "push", between ring and queue
    ring,           \* recent_logs, recent_next and recent_count
    next,
    count,
    queue,
    closed,
    stderr,         \* the records that went to standard error
    writer,         \* "pop", "asleep" in it, "look" after it returned NULL, "file",
                    \* "database" or "exited"
    record,         \* the record the writer holds
    fileOpen,
    file,
    database,       \* "open", "none", or "unprepared": open with no statement
    rows,
    stop,           \* log_stop: "running", "waiting", "closing", "joining" or "stopped"
    faults,
    added,          \* history: the lines that entered the ring, in order
    accepted,       \* history: the records the queue took, in order
    returned,       \* history: the records whose log_emit has returned
    rowsMissing,    \* history: SQLite refused a record
    owed,           \* history: what had been returned when log_stop was called
    expired         \* history: the wait of log_stop ran out with work left

ringState == <<ring, next, count, added>>
outputs == <<fileOpen, file, database, rows, rowsMissing>>
producing == <<begun, at, stderr, accepted, returned>>
stopping == <<stop, owed, expired>>
vars == <<producing, ringState, queue, closed, writer, record, outputs, stopping, faults>>

Init ==
    /\ begun = [p \in Producers |-> 0]
    /\ at = [p \in Producers |-> "idle"]
    /\ ring = [i \in 0..(Capacity - 1) |-> None]
    /\ next = 0
    /\ count = 0
    /\ queue = <<>>
    /\ closed = FALSE
    /\ stderr = {}
    /\ writer = "pop"
    /\ record = None
    /\ fileOpen \in BOOLEAN
    /\ file = <<>>
    /\ database \in {"open", "none"}
    /\ rows = <<>>
    /\ stop = "running"
    /\ faults = 0
    /\ added = <<>>
    /\ accepted = <<>>
    /\ returned = {}
    /\ rowsMissing = FALSE
    /\ owed = {}
    /\ expired = FALSE

Fault == faults < MaxFaults /\ faults' = faults + 1

-----------------------------------------------------------------------------
(* log_emit: the ring first, then the queue.                               *)

Line(p) == <<p, begun[p]>>

(* Mutant: recent_count is not limited.                                    *)
RecentAddUncapped(line) ==
    /\ ring' = [ring EXCEPT ![next] = line]
    /\ next' = (next + 1) % Capacity
    /\ count' = count + 1
    /\ added' = Append(added, line)

RecentAdd(line) ==
    /\ ring' = [ring EXCEPT ![next] = line]
    /\ next' = (next + 1) % Capacity
    /\ count' = IF count < Capacity THEN count + 1 ELSE count
    /\ added' = Append(added, line)

Emit(p) ==
    /\ at[p] = "idle"
    /\ begun[p] < MaxRecords[p]
    /\ begun' = [begun EXCEPT ![p] = @ + 1]
    /\ at' = [at EXCEPT ![p] = "push"]
    /\ \/ RecentAdd(<<p, begun[p] + 1>>) /\ UNCHANGED faults
       \/ Fault /\ UNCHANGED ringState          \* no memory for the copy
    /\ UNCHANGED <<queue, closed, stderr, writer, record, outputs, stopping, accepted,
                   returned>>

(* No memory for the record: log_emit returns having done nothing.         *)
EmitNothing(p) ==
    /\ at[p] = "idle"
    /\ begun[p] < MaxRecords[p]
    /\ Fault
    /\ begun' = [begun EXCEPT ![p] = @ + 1]
    /\ UNCHANGED <<at, ringState, queue, closed, stderr, writer, record, outputs, stopping,
                   accepted, returned>>

Push(p) ==
    /\ at[p] = "push"
    /\ at' = [at EXCEPT ![p] = "idle"]
    /\ returned' = returned \cup {Line(p)}
    /\ \/ /\ ~closed
          /\ queue' = Append(queue, Line(p))
          /\ accepted' = Append(accepted, Line(p))
          /\ UNCHANGED <<stderr, faults>>
       \/ /\ (closed /\ UNCHANGED faults) \/ Fault
          /\ stderr' = stderr \cup {Line(p)}
          /\ UNCHANGED <<queue, accepted>>
    /\ UNCHANGED <<begun, ringState, closed, writer, record, outputs, stopping>>

-----------------------------------------------------------------------------
(* log_writer_main.                                                        *)

Pop ==
    /\ writer = "pop"
    /\ queue # <<>>
    /\ record' = Head(queue)
    /\ queue' = Tail(queue)
    /\ writer' = "file"
    /\ UNCHANGED <<producing, ringState, closed, outputs, stopping, faults>>

(* Mutant: a record that could not be written is skipped.                  *)
WriteFileGoesOn ==
    /\ writer = "file"
    /\ writer' = "database"
    /\ \/ fileOpen /\ file' = Append(file, record) /\ UNCHANGED faults
       \/ fileOpen /\ Fault /\ UNCHANGED file
       \/ ~fileOpen /\ UNCHANGED <<file, faults>>
    /\ UNCHANGED <<producing, ringState, queue, closed, record, fileOpen, database, rows,
                   rowsMissing, stopping>>

(* A failed write closes the text log for good.                            *)
WriteFile ==
    /\ writer = "file"
    /\ writer' = "database"
    /\ \/ fileOpen /\ file' = Append(file, record) /\ UNCHANGED <<fileOpen, faults>>
       \/ fileOpen /\ Fault /\ fileOpen' = FALSE /\ UNCHANGED file
       \/ ~fileOpen /\ UNCHANGED <<file, fileOpen, faults>>
    /\ UNCHANGED <<producing, ringState, queue, closed, record, database, rows, rowsMissing,
                   stopping>>

(* database_write.  When the schema has changed the statement is prepared  *)
(* again and the insertion repeated; if that fails no statement is left.   *)
Insert ==
    /\ database = "open"
    /\ \/ rows' = Append(rows, record) /\ UNCHANGED <<database, rowsMissing, faults>>
       \/ /\ Fault
          /\ rowsMissing' = TRUE
          /\ database' \in {"open", "unprepared"}
          /\ UNCHANGED rows

WriteDatabase ==
    /\ writer = "database"
    /\ writer' = "pop"
    /\ record' = None
    /\ \/ Insert
       \/ database = "unprepared" /\ rowsMissing' = TRUE /\ UNCHANGED <<rows, database, faults>>
       \/ database = "none" /\ UNCHANGED <<rows, rowsMissing, database, faults>>
    /\ UNCHANGED <<producing, ringState, queue, closed, fileOpen, file, stopping>>

(* queue_pop finds the queue empty: it sleeps, is woken by a push or by    *)
(* the closing, or its half second is over, and then it returns NULL       *)
(* without looking at the queue again.                                     *)
PopEmpty ==
    /\ writer = "pop"
    /\ queue = <<>>
    /\ writer' = IF closed THEN "look" ELSE "asleep"
    /\ UNCHANGED <<producing, ringState, queue, closed, record, outputs, stopping, faults>>

PopWoken ==
    /\ writer = "asleep"
    /\ queue # <<>> \/ closed
    /\ writer' = "pop"
    /\ UNCHANGED <<producing, ringState, queue, closed, record, outputs, stopping, faults>>

PopTimesOut ==
    /\ writer = "asleep"
    /\ writer' = "look"
    /\ UNCHANGED <<producing, ringState, queue, closed, record, outputs, stopping, faults>>

(* Mutant: a writer without a record goes on to the next pop.              *)
WriterLooksNever ==
    /\ writer = "look"
    /\ writer' = "pop"
    /\ UNCHANGED <<producing, ringState, queue, closed, record, outputs, stopping, faults>>

(* Without a record: a closed queue ends the writer.                       *)
WriterLooks ==
    /\ writer = "look"
    /\ writer' = IF closed THEN "exited" ELSE "pop"
    /\ UNCHANGED <<producing, ringState, queue, closed, record, outputs, stopping, faults>>

-----------------------------------------------------------------------------
(* log_stop: wait until the queue is empty or ten seconds are over, close  *)
(* it, and join the writer.  app_stop calls it after it has joined the     *)
(* threads it started and stopped the web server; a thread that logs even  *)
(* so is allowed here.                                                     *)

Unfinished == queue # <<>> \/ writer \in {"file", "database"}

StopWaits ==
    /\ stop = "running"
    /\ stop' = "waiting"
    /\ owed' = returned
    /\ UNCHANGED <<producing, ringState, queue, closed, writer, record, outputs, expired, faults>>

(* Mutant: log_stop goes on without waiting.                               *)
StopWaitSkipped ==
    /\ stop = "waiting"
    /\ stop' = "closing"
    /\ UNCHANGED <<producing, ringState, queue, closed, writer, record, outputs, owed, expired,
                   faults>>

StopWaitEnds ==
    /\ stop = "waiting"
    /\ stop' = "closing"
    /\ expired' = Unfinished
    /\ UNCHANGED <<producing, ringState, queue, closed, writer, record, outputs, owed, faults>>

StopCloses ==
    /\ stop = "closing"
    /\ stop' = "joining"
    /\ closed' = TRUE
    /\ UNCHANGED <<producing, ringState, queue, writer, record, outputs, owed, expired, faults>>

StopJoins ==
    /\ stop = "joining"
    /\ writer = "exited"
    /\ stop' = "stopped"
    /\ UNCHANGED <<producing, ringState, queue, closed, writer, record, outputs, owed, expired,
                   faults>>

-----------------------------------------------------------------------------
WriterStep ==
    Pop \/ PopEmpty \/ PopWoken \/ PopTimesOut \/ WriterLooks \/ WriteFile \/ WriteDatabase

StopStep == StopWaitEnds \/ StopCloses \/ StopJoins

Next ==
    \/ \E p \in Producers : Emit(p) \/ EmitNothing(p) \/ Push(p)
    \/ WriterStep
    \/ StopWaits \/ StopStep

Spec == Init /\ [][Next]_vars

(* The writer thread runs, and log_stop, once called, goes on.             *)
FairSpec ==
    /\ Spec
    /\ WF_vars(WriterStep)
    /\ WF_vars(StopStep)

-----------------------------------------------------------------------------
(* What status_json and the dashboard read from the ring.                  *)

Shown ==
    LET first == (next + Capacity - count) % Capacity
    IN  [i \in 1..count |-> ring[(first + i - 1) % Capacity]]

(* The ring shows the last lines that were added, oldest first and as many *)
(* as there is room for, before and after it wraps around.                 *)
RingShowsLatest ==
    /\ count = IF Len(added) < Capacity THEN Len(added) ELSE Capacity
    /\ Shown = SubSeq(added, Len(added) - count + 1, Len(added))

(* The text log holds the records in the order the queue took them, each   *)
(* once; as long as it has not failed, what is missing is in the hands of  *)
(* log_writer_main or queued, whatever SQLite does.                        *)
FileInOrder ==
    /\ file = SubSeq(accepted, 1, Len(file))
    /\ fileOpen => accepted = file \o (IF writer = "file" THEN <<record>> ELSE <<>>) \o queue

(* The same of the rows of SQLite, except that a refused record is left    *)
(* out and later ones may follow.                                          *)
DatabaseInOrder ==
    /\ \A i, j \in DOMAIN rows : \A k, l \in DOMAIN accepted :
          (i < j /\ rows[i] = accepted[k] /\ rows[j] = accepted[l]) => k < l
    /\ (database = "open" /\ ~rowsMissing) =>
          accepted = rows \o (IF writer \in {"file", "database"} THEN <<record>> ELSE <<>>) \o queue

(* Neither output loses, repeats or reorders records, and a failure of one *)
(* of them leaves the other alone.                                         *)
OutputsInOrder == FileInOrder /\ DatabaseInOrder

(* What happens to a record when log_stop has returned and the text log    *)
(* has not failed.  It is in the text log or went to standard error, or it *)
(* is lost in the queue, because the writer's pop had timed out without    *)
(* seeing it and found the queue closed.  The last never happens to one    *)
(* logged before log_stop was called, unless its ten seconds ran out.      *)
StopFlushesLog ==
    (stop = "stopped" /\ fileOpen) =>
        \A r \in returned :
            \/ r \in stderr
            \/ \E i \in DOMAIN file : file[i] = r
            \/ /\ \E i \in DOMAIN queue : queue[i] = r
               /\ r \in owed => expired

(* log_stop returns: the writer drains the queue and ends.                 *)
LogStopReturns == stop = "waiting" ~> stop = "stopped"
=============================================================================
