----------------------------- MODULE LogProofs ------------------------------
(***************************************************************************)
(* Proofs about Log, for any number of producers, records and failing      *)
(* calls: what the two outputs hold, record by record, and what is in them *)
(* when log_stop has returned.                                             *)
(***************************************************************************)
EXTENDS Log, SequenceTheorems, TLAPS

Names == Producers \X Nat

(* The records that log_writer_main has taken, and is done with in the     *)
(* text log and in SQLite.                                                 *)
taken == Len(accepted) - Len(queue)
written == IF writer = "file" THEN taken - 1 ELSE taken
inserted == IF writer \in {"file", "database"} THEN taken - 1 ELSE taken

Calls ==
    /\ begun \in [Producers -> Nat]
    /\ at \in [Producers -> {"idle", "push"}]

Typed ==
    /\ queue \in Seq(Names)
    /\ accepted \in Seq(Names)
    /\ file \in Seq(Names)
    /\ rows \in Seq(Names)
    /\ writer \in {"pop", "asleep", "look", "file", "database", "exited"}
    /\ fileOpen \in BOOLEAN
    /\ closed \in BOOLEAN
    /\ rowsMissing \in BOOLEAN

(* No record is taken twice: a producer numbers its calls of log_emit.     *)
Fresh(k) ==
    LET p == accepted[k][1]
        n == accepted[k][2]
    IN  n <= begun[p] /\ (at[p] = "push" => n < begun[p])

Distinct ==
    /\ \A k \in 1..Len(accepted) : Fresh(k)
    /\ \A k, l \in 1..Len(accepted) : accepted[k] = accepted[l] => k = l

(* The queue holds the last records that it took.                          *)
Queued ==
    /\ Len(queue) <= Len(accepted)
    /\ \A j \in 1..Len(queue) : queue[j] = accepted[taken + j]
    /\ writer \in {"file", "database"} => taken >= 1 /\ record = accepted[taken]

FileHolds ==
    /\ Len(file) <= written
    /\ \A j \in 1..Len(file) : file[j] = accepted[j]
    /\ fileOpen => Len(file) = written

RowsHold ==
    /\ \A i \in 1..Len(rows) : \E k \in 1..inserted : rows[i] = accepted[k]
    /\ \A i, j \in 1..Len(rows) : \A k, l \in 1..Len(accepted) :
          (i < j /\ rows[i] = accepted[k] /\ rows[j] = accepted[l]) => k < l
    /\ (database = "open" /\ ~rowsMissing) =>
          Len(rows) = inserted /\ \A j \in 1..Len(rows) : rows[j] = accepted[j]

(* A returned call has delivered its record, and log_stop waits for the    *)
(* end of the writer.  Once its wait is over and has not run out, the      *)
(* writer is done with the records that were logged before: taking more of *)
(* them, or leaving later ones behind, cannot undo that.                   *)
Stopping ==
    /\ \A r \in returned : r \in stderr \/ \E k \in 1..Len(accepted) : accepted[k] = r
    /\ owed \subseteq returned
    /\ (stop \in {"closing", "joining", "stopped"} /\ ~expired) =>
          \A r \in owed : r \in stderr \/ \E k \in 1..inserted : accepted[k] = r
    /\ stop = "stopped" => writer = "exited"

LInv == Calls /\ Typed /\ Distinct /\ Queued /\ FileHolds /\ RowsHold /\ Stopping

-----------------------------------------------------------------------------
(* Nothing has been logged at first.                                       *)
LEMMA InitLog == Init => LInv
<1> SUFFICES ASSUME Init PROVE LInv
  OBVIOUS
<1>1. Len(queue) = 0 /\ Len(accepted) = 0 /\ Len(file) = 0 /\ Len(rows) = 0
  BY DEF Init
<1>2. Typed
  BY EmptySeq DEF Init, Typed
<1>4. Calls
  BY DEF Init, Calls
<1>3. taken = 0 /\ written = 0 /\ inserted = 0
  BY <1>1 DEF Init, taken, written, inserted
<1> QED
  BY <1>1, <1>2, <1>3, <1>4 DEF Init, LInv, Distinct, Queued, FileHolds, RowsHold, Stopping

(* The lengths are numbers, and what was taken had been accepted.          *)
LEMMA Lengths ==
    ASSUME LInv
    PROVE  /\ Len(accepted) \in Nat /\ Len(queue) \in Nat /\ Len(file) \in Nat /\ Len(rows) \in Nat
           /\ taken \in Nat /\ taken <= Len(accepted)
           /\ inserted \in Nat /\ inserted <= taken
           /\ \A k \in 1..Len(accepted) : accepted[k] \in Names
<1>1. Len(accepted) \in Nat /\ Len(queue) \in Nat /\ Len(file) \in Nat /\ Len(rows) \in Nat
  BY LenProperties DEF LInv, Typed
<1>2. \A k \in 1..Len(accepted) : accepted[k] \in Names
  BY ElementOfSeq DEF LInv, Typed
<1>3. taken \in Nat /\ taken <= Len(accepted)
  BY <1>1 DEF LInv, Queued, taken
<1>4. inserted \in Nat /\ inserted <= taken
  BY <1>3 DEF LInv, Queued, inserted
<1> QED
  BY <1>1, <1>2, <1>3, <1>4

(* What a step outside log_stop has to show of Stopping: the writer is not *)
(* done with fewer records, and a call that returns delivers its record.   *)
LEMMA StoppingStays ==
    ASSUME LInv, UNCHANGED stopping, inserted' \in Nat, inserted <= inserted',
           Len(accepted') \in Nat, Len(accepted) <= Len(accepted'),
           \A k \in 1..Len(accepted) : accepted'[k] = accepted[k],
           stderr \subseteq stderr', returned \subseteq returned',
           \A r \in returned' \ returned :
               r \in stderr' \/ \E k \in 1..Len(accepted') : accepted'[k] = r,
           writer = "exited" => writer' = "exited"
    PROVE  Stopping'
<1>1. stop' = stop /\ owed' = owed /\ expired' = expired
  BY DEF stopping
<1>2. \A r \in returned' : r \in stderr' \/ \E k \in 1..Len(accepted') : accepted'[k] = r
  <2> SUFFICES ASSUME NEW r \in returned, r \notin stderr
               PROVE  \E k \in 1..Len(accepted') : accepted'[k] = r
    OBVIOUS
  <2>1. PICK k \in 1..Len(accepted) : accepted[k] = r
    BY DEF LInv, Stopping
  <2> QED
    BY <2>1, Lengths
<1>3. ASSUME stop \in {"closing", "joining", "stopped"}, ~expired, NEW r \in owed, r \notin stderr
      PROVE  \E k \in 1..inserted' : accepted'[k] = r
  <2>1. PICK k \in 1..inserted : accepted[k] = r
    BY <1>3 DEF LInv, Stopping
  <2> QED
    BY <2>1, Lengths
<1>4. owed' \subseteq returned'
  BY <1>1 DEF LInv, Stopping
<1>5. stop' = "stopped" => writer' = "exited"
  BY <1>1 DEF LInv, Stopping
<1> QED
  BY <1>1, <1>2, <1>3, <1>4, <1>5 DEF Stopping

(* Steps that leave all that LInv speaks of alone.                         *)
LEMMA QuietStep ==
    ASSUME LInv, UNCHANGED <<producing, queue, closed, writer, record, outputs, stopping>>
    PROVE  LInv'
<1>1. /\ UNCHANGED <<begun, at, stderr, accepted, returned, queue, closed, writer, record>>
      /\ UNCHANGED <<fileOpen, file, database, rows, rowsMissing, stop, owed, expired>>
  BY DEF producing, outputs, stopping
<1>2. taken' = taken /\ written' = written /\ inserted' = inserted
  BY <1>1 DEF taken, written, inserted
<1>3. Calls' /\ Typed'
  BY <1>1 DEF LInv, Calls, Typed
<1>4. Distinct'
  BY <1>1 DEF LInv, Distinct, Fresh
<1>5. Queued' /\ FileHolds'
  BY <1>1, <1>2 DEF LInv, Queued, FileHolds
<1>6. RowsHold'
  BY <1>1, <1>2 DEF LInv, RowsHold
<1>7. Stopping'
  BY <1>1, <1>2 DEF LInv, Stopping
<1> QED
  BY <1>3, <1>4, <1>5, <1>6, <1>7 DEF LInv

(* A call of log_emit begins, or gives up for want of memory.              *)
LEMMA StepEmit ==
    ASSUME LInv, NEW p \in Producers, Emit(p) \/ EmitNothing(p) PROVE LInv'
<1>1. /\ begun' = [begun EXCEPT ![p] = @ + 1]
      /\ at[p] = "idle"
      /\ at' = at \/ at' = [at EXCEPT ![p] = "push"]
      /\ UNCHANGED <<queue, closed, stderr, writer, record, outputs, stopping, accepted, returned>>
  BY DEF Emit, EmitNothing
<1>2. Calls /\ Calls'
  <2>1. begun' \in [Producers -> Nat]
    BY <1>1 DEF LInv, Calls
  <2>2. at' \in [Producers -> {"idle", "push"}]
    BY <1>1 DEF LInv, Calls
  <2> QED
    BY <2>1, <2>2 DEF LInv, Calls
<1>3. ASSUME NEW q \in Producers
      PROVE  begun[q] <= begun'[q] /\ (at'[q] = "push" => at[q] = "push" \/ begun[q] < begun'[q])
  BY <1>1, <1>2 DEF Calls
<1>4. Typed'
  BY <1>1 DEF LInv, Typed, outputs
<1>5. ASSUME NEW k \in 1..Len(accepted) PROVE Fresh(k)'
  <2>1. accepted[k] \in Names
    BY ElementOfSeq DEF LInv, Typed
  <2> DEFINE q == accepted[k][1]
             n == accepted[k][2]
  <2>2. q \in Producers /\ n \in Nat
    BY <2>1 DEF Names
  <2>3. n <= begun[q] /\ (at[q] = "push" => n < begun[q])
    BY DEF LInv, Distinct, Fresh
  <2>4. begun[q] \in Nat /\ begun'[q] \in Nat
    BY <1>2, <2>2 DEF Calls
  <2>5. n <= begun'[q] /\ (at'[q] = "push" => n < begun'[q])
    <3> HIDE DEF q, n
    <3> QED
      BY <1>3, <2>2, <2>3, <2>4
  <2> QED
    BY <1>1, <2>5 DEF Fresh
<1>6. Distinct'
  BY <1>1, <1>5 DEF LInv, Distinct
<1>7. taken' = taken /\ written' = written /\ inserted' = inserted
  BY <1>1 DEF taken, written, inserted
<1>8. Queued'
  BY <1>1, <1>7 DEF LInv, Queued
<1>9. FileHolds'
  BY <1>1, <1>7 DEF LInv, FileHolds, outputs
<1>11. RowsHold'
  BY <1>1, <1>7 DEF LInv, RowsHold, outputs
<1>10. Stopping'
  BY <1>1, <1>7, Lengths, StoppingStays
<1> QED
  BY <1>2, <1>4, <1>6, <1>8, <1>9, <1>10, <1>11 DEF LInv

(* The queue takes a record that it has never held.                        *)
LEMMA StepPushAccepted ==
    ASSUME LInv, NEW p \in Producers, Push(p), ~closed,
           queue' = Append(queue, Line(p)), accepted' = Append(accepted, Line(p)),
           UNCHANGED stderr
    PROVE  LInv'
<1> DEFINE L == Line(p)
           A == Len(accepted)
           Ok(k) == /\ accepted'[k][2] <= begun'[accepted'[k][1]]
                    /\ at'[accepted'[k][1]] = "push" =>
                          accepted'[k][2] < begun'[accepted'[k][1]]
<1>1. /\ at[p] = "push"
      /\ at' = [at EXCEPT ![p] = "idle"]
      /\ returned' = returned \cup {L}
      /\ UNCHANGED <<begun, closed, writer, record, outputs, stopping>>
  BY DEF Push
<1>2. L = <<p, begun[p]>> /\ L[1] = p /\ L[2] = begun[p] /\ L \in Names
  BY DEF Line, LInv, Calls, Names
<1>3. Calls'
  BY <1>1 DEF LInv, Calls
<1> HIDE DEF L
<1>4. /\ accepted' \in Seq(Names)
      /\ Len(accepted') = A + 1
      /\ \A k \in 1..A : accepted'[k] = accepted[k]
      /\ accepted'[A + 1] = L
      /\ A \in Nat
  BY <1>2, AppendProperties, LenProperties DEF LInv, Typed, L
<1>5. /\ queue' \in Seq(Names)
      /\ Len(queue') = Len(queue) + 1
      /\ \A k \in 1..Len(queue) : queue'[k] = queue[k]
      /\ queue'[Len(queue) + 1] = L
      /\ Len(queue) \in Nat
  BY <1>2, AppendProperties, LenProperties DEF LInv, Typed, L
<1> HIDE DEF A
<1>6. Typed'
  BY <1>1, <1>4, <1>5 DEF LInv, Typed, outputs
<1>7. /\ taken \in Nat /\ taken + Len(queue) = A /\ taken' = taken /\ written' = written
      /\ inserted' = inserted
  BY <1>1, <1>4, <1>5 DEF LInv, Queued, taken, written, inserted, A
<1>8. ASSUME NEW k \in 1..A PROVE Ok(k) /\ accepted[k] # L
  <2>1. accepted[k] \in Names
    BY ElementOfSeq DEF LInv, Typed, A
  <2> DEFINE q == accepted[k][1]
             n == accepted[k][2]
  <2>2. q \in Producers /\ n \in Nat
    BY <2>1 DEF Names
  <2>3. n <= begun[q] /\ (at[q] = "push" => n < begun[q])
    BY DEF LInv, Distinct, Fresh, A
  <2>4. accepted[k] # L
    <3>1. CASE q = p
      <4>1. begun[p] \in Nat /\ n < begun[p]
        BY <1>1, <2>3, <3>1 DEF LInv, Calls
      <4>2. n # L[2]
        <5> HIDE DEF n
        <5> QED
          BY <1>2, <2>2, <4>1
      <4> QED
        BY <4>2
    <3>2. CASE q # p
      BY <1>2, <3>2
    <3> QED
      BY <3>1, <3>2
  <2>5. n <= begun'[q] /\ (at'[q] = "push" => n < begun'[q])
    <3>1. begun' = begun /\ (at'[q] = "push" => at[q] = "push")
      BY <1>1, <2>2 DEF LInv, Calls
    <3> QED
      BY <2>3, <3>1
  <2> QED
    BY <1>4, <2>4, <2>5
<1>9. Ok(A + 1)
  <2>1. begun'[p] = begun[p] /\ at'[p] # "push" /\ begun[p] \in Nat
    BY <1>1 DEF LInv, Calls
  <2> QED
    BY <1>2, <1>4, <2>1
<1>10. Distinct'
  <2>1. \A k \in 1..(A + 1) : k \in 1..A \/ k = A + 1
    BY <1>4
  <2>2. \A k \in 1..(A + 1) : Ok(k)
    BY <1>8, <1>9, <2>1
  <2>3. \A k, l \in 1..(A + 1) : accepted'[k] = accepted'[l] => k = l
    BY <1>4, <1>8, <2>1 DEF LInv, Distinct, A
  <2>4. \A k \in 1..(A + 1) : Fresh(k)'
    BY <2>2 DEF Fresh
  <2> QED
    BY <1>4, <2>3, <2>4 DEF Distinct
<1>11. Queued'
  <2>1. \A j \in 1..Len(queue) : queue'[j] = accepted'[taken + j]
    BY <1>4, <1>5, <1>7 DEF LInv, Queued
  <2>2. queue'[Len(queue) + 1] = accepted'[taken + (Len(queue) + 1)]
    BY <1>4, <1>5, <1>7
  <2>3. writer \in {"file", "database"} => taken >= 1 /\ record = accepted'[taken]
    BY <1>4, <1>5, <1>7 DEF LInv, Queued
  <2>4. \A j \in 1..(Len(queue) + 1) : j \in 1..Len(queue) \/ j = Len(queue) + 1
    BY <1>5
  <2>5. Len(queue') <= Len(accepted')
    BY <1>4, <1>5, <1>7
  <2> QED
    BY <1>1, <1>5, <1>7, <2>1, <2>2, <2>3, <2>4, <2>5 DEF Queued
<1>12. written \in Int /\ written <= A /\ inserted \in Int /\ inserted <= A
  BY <1>5, <1>7 DEF written, inserted
<1>13. FileHolds'
  <2>1. Len(file) \in Nat
    BY LenProperties DEF LInv, Typed
  <2>2. \A j \in 1..Len(file) : file[j] = accepted'[j]
    BY <1>4, <1>12, <2>1 DEF LInv, FileHolds
  <2> QED
    BY <1>1, <1>7, <2>2 DEF LInv, FileHolds, outputs
<1>14. RowsHold'
  <2>1. Len(rows) \in Nat /\ rows' = rows /\ database' = database /\ rowsMissing' = rowsMissing
    BY <1>1, LenProperties DEF LInv, Typed, outputs
  <2>2. \A i \in 1..Len(rows) : \E k \in 1..inserted : rows[i] = accepted'[k]
    BY <1>4, <1>12 DEF LInv, RowsHold
  <2>3. \A i \in 1..Len(rows) : \A k \in 1..(A + 1) :
            rows[i] = accepted'[k] => k \in 1..A /\ rows[i] = accepted[k]
    <3> SUFFICES ASSUME NEW i \in 1..Len(rows), NEW k \in 1..(A + 1), rows[i] = accepted'[k]
                 PROVE  k \in 1..A /\ rows[i] = accepted[k]
      OBVIOUS
    <3>1. PICK m \in 1..inserted : rows[i] = accepted[m]
      BY DEF LInv, RowsHold
    <3>2. m \in 1..A
      BY <1>4, <1>12
    <3>3. k # A + 1
      BY <1>4, <1>8, <3>1, <3>2
    <3> QED
      BY <1>4, <3>3
  <2>4. (database = "open" /\ ~rowsMissing) =>
            Len(rows) = inserted /\ \A j \in 1..Len(rows) : rows[j] = accepted'[j]
    BY <1>4, <1>12, <2>1 DEF LInv, RowsHold
  <2>5. \A i, j \in 1..Len(rows) : \A k, l \in 1..(A + 1) :
            (i < j /\ rows[i] = accepted'[k] /\ rows[j] = accepted'[l]) => k < l
    BY <2>3 DEF LInv, RowsHold, A
  <2> QED
    <3> HIDE DEF Ok
    <3>1. inserted' = inserted /\ Len(accepted') = A + 1
      BY <1>4, <1>7
    <3>2. (\A i \in 1..Len(rows) : \E k \in 1..inserted : rows[i] = accepted[k])'
      BY <2>1, <2>2, <3>1
    <3>3. (\A i, j \in 1..Len(rows) : \A k, l \in 1..Len(accepted) :
              (i < j /\ rows[i] = accepted[k] /\ rows[j] = accepted[l]) => k < l)'
      BY <2>1, <2>5, <3>1
    <3>4. ((database = "open" /\ ~rowsMissing) =>
              Len(rows) = inserted /\ \A j \in 1..Len(rows) : rows[j] = accepted[j])'
      BY <2>1, <2>4, <3>1
    <3> QED
      BY <3>2, <3>3, <3>4 DEF RowsHold
<1>15. Stopping'
  <2>1. Len(accepted') \in Nat /\ A <= A + 1 /\ A + 1 \in 1..(A + 1)
    BY <1>4
  <2>2. inserted' \in Nat /\ inserted <= inserted'
    BY <1>7, Lengths
  <2>3. \A r \in returned' \ returned : \E k \in 1..Len(accepted') : accepted'[k] = r
    BY <1>1, <1>4, <2>1
  <2> QED
    BY <1>1, <1>4, <2>1, <2>2, <2>3, StoppingStays DEF A
<1> QED
  BY <1>3, <1>6, <1>10, <1>11, <1>13, <1>14, <1>15 DEF LInv

(* The queue is closed or has no memory: the record goes to stderr.        *)
LEMMA StepPushRefused ==
    ASSUME LInv, NEW p \in Producers, Push(p), UNCHANGED <<queue, accepted>>,
           stderr' = stderr \cup {Line(p)}
    PROVE  LInv'
<1>1. /\ at' = [at EXCEPT ![p] = "idle"]
      /\ returned' = returned \cup {Line(p)}
      /\ UNCHANGED <<begun, closed, writer, record, outputs, stopping>>
  BY DEF Push
<1>2. Calls'
  BY <1>1 DEF LInv, Calls
<1>3. Typed'
  BY <1>1 DEF LInv, Typed, outputs
<1>4. ASSUME NEW k \in 1..Len(accepted) PROVE Fresh(k)'
  <2>1. accepted[k] \in Names
    BY ElementOfSeq DEF LInv, Typed
  <2>2. accepted[k][1] \in Producers
    BY <2>1 DEF Names
  <2>3. Fresh(k)
    BY DEF LInv, Distinct
  <2>4. at'[accepted[k][1]] = "push" => at[accepted[k][1]] = "push"
    BY <1>1, <2>2 DEF LInv, Calls
  <2> QED
    BY <1>1, <2>3, <2>4 DEF Fresh
<1>5. Distinct'
  BY <1>4 DEF LInv, Distinct
<1>6. taken' = taken /\ written' = written /\ inserted' = inserted
  BY <1>1 DEF taken, written, inserted
<1>7. Queued' /\ FileHolds'
  BY <1>1, <1>6 DEF LInv, Queued, FileHolds, outputs
<1>8. RowsHold'
  BY <1>1, <1>6 DEF LInv, RowsHold, outputs
<1>9. Stopping'
  BY <1>1, <1>6, Lengths, StoppingStays
<1> QED
  BY <1>2, <1>3, <1>5, <1>7, <1>8, <1>9 DEF LInv

-----------------------------------------------------------------------------
(* What a step of the writer or of log_stop cannot disturb.                *)
LEMMA ProducersStay ==
    ASSUME LInv, UNCHANGED producing
    PROVE  Calls' /\ Distinct' /\ accepted' = accepted /\ returned' = returned /\ stderr' = stderr
<1>1. UNCHANGED <<begun, at, stderr, accepted, returned>>
  BY DEF producing
<1>2. Calls'
  BY <1>1 DEF LInv, Calls
<1>3. Distinct'
  BY <1>1 DEF LInv, Distinct, Fresh
<1> QED
  BY <1>1, <1>2, <1>3

(* The writer takes the record that follows those it is done with.         *)
LEMMA StepPop == ASSUME LInv, Pop PROVE LInv'
<1>1. /\ UNCHANGED <<producing, closed, outputs, stopping>>
      /\ writer = "pop" /\ writer' = "file"
      /\ queue # <<>> /\ queue' = Tail(queue) /\ record' = Head(queue)
  BY DEF Pop
<1>2. Calls' /\ Distinct' /\ accepted' = accepted /\ returned' = returned /\ stderr' = stderr
  BY <1>1, ProducersStay
<1>3. /\ queue' \in Seq(Names)
      /\ Len(queue') = Len(queue) - 1
      /\ \A i \in 1..Len(queue') : queue'[i] = queue[i + 1]
  BY <1>1, HeadTailProperties DEF LInv, Typed
<1>4. Len(queue) >= 1 /\ record' = queue[1]
  BY <1>1, EmptySeq DEF LInv, Typed
<1>5. Typed'
  BY <1>1, <1>2, <1>3 DEF LInv, Typed, outputs
<1>6. taken' = taken + 1 /\ written' = written /\ inserted' = inserted
  BY <1>1, <1>2, <1>3, Lengths DEF taken, written, inserted
<1>7. Queued'
  <2>1. \A j \in 1..Len(queue) : queue[j] = accepted[taken + j]
    BY DEF LInv, Queued
  <2>2. \A j \in 1..Len(queue') : queue'[j] = accepted[(taken + 1) + j]
    <3> SUFFICES ASSUME NEW j \in 1..Len(queue') PROVE queue'[j] = accepted[(taken + 1) + j]
      OBVIOUS
    <3>1. j + 1 \in 1..Len(queue) /\ taken + (j + 1) = (taken + 1) + j
      BY <1>3, Lengths
    <3> QED
      BY <1>3, <2>1, <3>1
  <2>3. record' = accepted[taken + 1]
    BY <1>4, <2>1, Lengths
  <2>4. Len(queue') <= Len(accepted)
    BY <1>3, Lengths DEF LInv, Queued
  <2> QED
    BY <1>2, <1>6, <2>2, <2>3, <2>4, Lengths DEF Queued
<1>8. FileHolds'
  BY <1>1, <1>2, <1>6 DEF LInv, FileHolds, outputs
<1>9. RowsHold'
  BY <1>1, <1>2, <1>6 DEF LInv, RowsHold, outputs
<1>10. Stopping'
  BY <1>1, <1>2, <1>6, Lengths, StoppingStays
<1> QED
  BY <1>2, <1>5, <1>7, <1>8, <1>9, <1>10 DEF LInv

(* The record in hand is the next one of the text log.                     *)
LEMMA StepWriteFile == ASSUME LInv, WriteFile PROVE LInv'
<1>1. /\ UNCHANGED <<producing, queue, closed, record, database, rows, rowsMissing, stopping>>
      /\ writer = "file" /\ writer' = "database"
  BY DEF WriteFile
<1>2. Calls' /\ Distinct' /\ accepted' = accepted /\ returned' = returned /\ stderr' = stderr
  BY <1>1, ProducersStay
<1>3. /\ taken' = taken /\ written = taken - 1 /\ written' = taken /\ inserted' = inserted
      /\ taken >= 1 /\ record = accepted[taken]
  BY <1>1, <1>2 DEF taken, written, inserted, LInv, Queued
<1>4. record \in Names
  BY <1>3, Lengths
<1>5. fileOpen' \in BOOLEAN /\ file' \in Seq(Names) /\ FileHolds'
  <2>1. CASE fileOpen /\ file' = Append(file, record) /\ UNCHANGED fileOpen
    <3>1. /\ file' \in Seq(Names)
          /\ Len(file') = Len(file) + 1
          /\ \A i \in 1..Len(file) : file'[i] = file[i]
          /\ file'[Len(file) + 1] = record
      BY <1>4, <2>1, AppendProperties DEF LInv, Typed
    <3>2. Len(file) = taken - 1 /\ Len(file') = taken
      BY <1>3, <2>1, <3>1, Lengths DEF LInv, FileHolds
    <3>3. \A j \in 1..Len(file') : j \in 1..Len(file) \/ j = Len(file) + 1
      BY <3>1, Lengths
    <3>4. \A j \in 1..Len(file') : file'[j] = accepted[j]
      <4>1. \A j \in 1..Len(file) : file'[j] = accepted[j]
        BY <3>1 DEF LInv, FileHolds
      <4>2. file'[Len(file) + 1] = accepted[Len(file) + 1]
        BY <1>3, <3>1, <3>2, Lengths
      <4> QED
        BY <3>3, <4>1, <4>2
    <3> QED
      BY <1>2, <1>3, <2>1, <3>1, <3>2, <3>4, Lengths DEF FileHolds, LInv, Typed
  <2>2. CASE UNCHANGED file /\ fileOpen' = FALSE
    <3>1. Len(file) <= taken /\ \A j \in 1..Len(file) : file[j] = accepted[j]
      BY <1>3, Lengths DEF LInv, FileHolds
    <3> QED
      BY <1>2, <1>3, <2>2, <3>1 DEF LInv, FileHolds, Typed
  <2> QED
    BY <2>1, <2>2 DEF WriteFile, LInv, Typed
<1>6. Typed'
  BY <1>1, <1>2, <1>5 DEF LInv, Typed
<1>7. Queued'
  BY <1>1, <1>2, <1>3 DEF LInv, Queued
<1>8. RowsHold'
  BY <1>1, <1>2, <1>3 DEF LInv, RowsHold
<1>9. Stopping'
  BY <1>1, <1>2, <1>3, Lengths, StoppingStays
<1> QED
  BY <1>2, <1>5, <1>6, <1>7, <1>8, <1>9 DEF LInv

(* The record in hand comes after every row.                               *)
LEMMA StepWriteDatabase == ASSUME LInv, WriteDatabase PROVE LInv'
<1>1. /\ UNCHANGED <<producing, queue, closed, fileOpen, file, stopping>>
      /\ writer = "database" /\ writer' = "pop"
  BY DEF WriteDatabase
<1>2. Calls' /\ Distinct' /\ accepted' = accepted /\ returned' = returned /\ stderr' = stderr
  BY <1>1, ProducersStay
<1>3. /\ taken' = taken /\ written' = written /\ inserted = taken - 1 /\ inserted' = taken
      /\ taken >= 1 /\ record = accepted[taken]
  BY <1>1, <1>2 DEF taken, written, inserted, LInv, Queued
<1>4. record \in Names
  BY <1>3, Lengths
<1>5. \A i \in 1..Len(rows) : \E k \in 1..(taken - 1) : rows[i] = accepted[k]
  BY <1>3 DEF LInv, RowsHold
<1>6. rows' \in Seq(Names) /\ rowsMissing' \in BOOLEAN /\ RowsHold'
  <2>1. CASE database = "open" /\ rows' = Append(rows, record) /\ UNCHANGED <<database, rowsMissing>>
    <3>1. /\ rows' \in Seq(Names)
          /\ Len(rows') = Len(rows) + 1
          /\ \A i \in 1..Len(rows) : rows'[i] = rows[i]
          /\ rows'[Len(rows) + 1] = record
      BY <1>4, <2>1, AppendProperties DEF LInv, Typed
    <3>2. \A j \in 1..Len(rows') : j \in 1..Len(rows) \/ j = Len(rows) + 1
      BY <3>1, Lengths
    <3>3. \A i \in 1..Len(rows') : \E k \in 1..taken : rows'[i] = accepted[k]
      <4>1. \A i \in 1..Len(rows) : \E k \in 1..taken : rows'[i] = accepted[k]
        BY <1>5, <3>1, Lengths
      <4>2. rows'[Len(rows) + 1] = accepted[taken] /\ taken \in 1..taken
        BY <1>3, <3>1, Lengths
      <4> QED
        BY <3>2, <4>1, <4>2
    <3>4. ASSUME NEW i \in 1..Len(rows'), NEW j \in 1..Len(rows'),
                 NEW k \in 1..Len(accepted), NEW l \in 1..Len(accepted),
                 i < j, rows'[i] = accepted[k], rows'[j] = accepted[l]
          PROVE  k < l
      <4>1. i \in 1..Len(rows)
        <5>1. Len(rows) \in Nat /\ i \in 1..(Len(rows) + 1) /\ j \in 1..(Len(rows) + 1)
          BY <3>1, Lengths
        <5> QED
          BY <3>4, <5>1
      <4>2. CASE j \in 1..Len(rows)
        BY <3>1, <3>4, <4>1, <4>2 DEF LInv, RowsHold
      <4>3. CASE j = Len(rows) + 1
        <5>1. PICK m \in 1..(taken - 1) : rows[i] = accepted[m]
          BY <1>5, <4>1
        <5>2. m \in 1..Len(accepted) /\ taken \in 1..Len(accepted)
          BY <1>3, Lengths
        <5>3. k = m
          BY <3>1, <3>4, <4>1, <5>1, <5>2 DEF LInv, Distinct
        <5>4. l = taken
          BY <1>3, <3>1, <3>4, <4>3, <5>2 DEF LInv, Distinct
        <5> QED
          BY <5>3, <5>4, Lengths
      <4> QED
        BY <3>2, <4>2, <4>3
    <3>5. ~rowsMissing => Len(rows') = taken /\ \A j \in 1..Len(rows') : rows'[j] = accepted[j]
      <4> SUFFICES ASSUME ~rowsMissing
                   PROVE  Len(rows') = taken /\ \A j \in 1..Len(rows') : rows'[j] = accepted[j]
        OBVIOUS
      <4>1. Len(rows) = taken - 1 /\ \A j \in 1..Len(rows) : rows[j] = accepted[j]
        BY <1>3, <2>1 DEF LInv, RowsHold
      <4>2. Len(rows) + 1 = taken
        BY <4>1, Lengths
      <4> QED
        BY <1>3, <3>1, <3>2, <4>1, <4>2
    <3>6. (\A i \in 1..Len(rows) : \E k \in 1..inserted : rows[i] = accepted[k])'
      BY <1>2, <1>3, <3>3
    <3>7. (\A i, j \in 1..Len(rows) : \A k, l \in 1..Len(accepted) :
              (i < j /\ rows[i] = accepted[k] /\ rows[j] = accepted[l]) => k < l)'
      BY <1>2, <3>4
    <3>8. ((database = "open" /\ ~rowsMissing) =>
              Len(rows) = inserted /\ \A j \in 1..Len(rows) : rows[j] = accepted[j])'
      BY <1>2, <1>3, <2>1, <3>5
    <3>9. rowsMissing' \in BOOLEAN
      BY <2>1 DEF LInv, Typed
    <3> QED
      BY <3>1, <3>6, <3>7, <3>8, <3>9 DEF RowsHold
  <2>2. CASE UNCHANGED rows /\ (database' = "none" \/ rowsMissing')
             /\ rowsMissing' \in BOOLEAN
    <3>1. \A i \in 1..Len(rows) : \E k \in 1..taken : rows[i] = accepted[k]
      BY <1>5, Lengths
    <3>2. (\A i \in 1..Len(rows) : \E k \in 1..inserted : rows[i] = accepted[k])'
      BY <1>2, <1>3, <2>2, <3>1
    <3>3. (\A i, j \in 1..Len(rows) : \A k, l \in 1..Len(accepted) :
              (i < j /\ rows[i] = accepted[k] /\ rows[j] = accepted[l]) => k < l)'
      BY <1>2, <2>2 DEF LInv, RowsHold
    <3>4. ~(database = "open" /\ ~rowsMissing)'
      BY <2>2
    <3> QED
      BY <2>2, <3>2, <3>3, <3>4 DEF RowsHold, LInv, Typed
  <2> QED
    BY <2>1, <2>2 DEF WriteDatabase, Insert, LInv, Typed
<1>7. Typed'
  BY <1>1, <1>2, <1>6 DEF LInv, Typed
<1>8. Queued'
  BY <1>1, <1>2, <1>3 DEF LInv, Queued
<1>9. FileHolds'
  BY <1>1, <1>2, <1>3 DEF LInv, FileHolds
<1>10. Stopping'
  BY <1>1, <1>2, <1>3, Lengths, StoppingStays
<1> QED
  BY <1>2, <1>6, <1>7, <1>8, <1>9, <1>10 DEF LInv

(* The steps that leave the queue and the outputs alone: the writer waits, *)
(* or ends, and the steps of log_stop.                                     *)
LEMMA OutputsStay ==
    ASSUME LInv, UNCHANGED <<producing, queue, record, outputs>>, closed' \in BOOLEAN,
           writer \notin {"file", "database"}, writer' \in {"pop", "asleep", "look", "exited"},
           Stopping'
    PROVE  LInv'
<1>1. Calls' /\ Distinct' /\ accepted' = accepted /\ returned' = returned /\ stderr' = stderr
  BY ProducersStay
<1>2. taken' = taken /\ written' = written /\ inserted' = inserted
  BY <1>1 DEF taken, written, inserted
<1>3. Typed'
  BY <1>1 DEF LInv, Typed, outputs
<1>4. Queued'
  BY <1>1, <1>2 DEF LInv, Queued
<1>5. FileHolds'
  BY <1>1, <1>2 DEF LInv, FileHolds, outputs
<1>6. RowsHold'
  BY <1>1, <1>2 DEF LInv, RowsHold, outputs
<1> QED
  BY <1>1, <1>3, <1>4, <1>5, <1>6 DEF LInv

LEMMA StepWaits ==
    ASSUME LInv, PopEmpty \/ PopWoken \/ PopTimesOut \/ WriterLooks PROVE LInv'
<1>1. /\ UNCHANGED <<producing, queue, closed, record, outputs, stopping>>
      /\ writer \in {"pop", "asleep", "look"}
      /\ writer' \in {"pop", "asleep", "look", "exited"}
  BY DEF PopEmpty, PopWoken, PopTimesOut, WriterLooks
<1>2. accepted' = accepted /\ returned' = returned /\ stderr' = stderr /\ inserted' = inserted
  BY <1>1 DEF producing, inserted, taken
<1>3. Stopping'
  BY <1>1, <1>2, Lengths, StoppingStays
<1> QED
  BY <1>1, <1>3, OutputsStay DEF LInv, Typed

(* The steps of log_stop.  When its wait ends and nothing is unfinished,   *)
(* the writer is done with all that the queue has taken.                   *)
LEMMA StepStop ==
    ASSUME LInv, StopWaits \/ StopStep PROVE LInv'
<1>1. /\ UNCHANGED <<producing, queue, writer, record, outputs>>
      /\ closed' \in BOOLEAN
  BY DEF StopWaits, StopStep, StopWaitEnds, StopCloses, StopJoins, LInv, Typed
<1>2. accepted' = accepted /\ returned' = returned /\ stderr' = stderr /\ inserted' = inserted
  BY <1>1 DEF producing, inserted, taken
<1>3. Stopping'
  <2>1. CASE StopWaits
    BY <1>1, <1>2, <2>1 DEF StopWaits, LInv, Stopping
  <2>2. CASE StopWaitEnds
    <3>1. expired' = Unfinished /\ owed' = owed /\ stop' = "closing"
      BY <2>2 DEF StopWaitEnds
    <3>2. ~Unfinished => inserted = Len(accepted)
      <4> SUFFICES ASSUME ~Unfinished PROVE inserted = Len(accepted)
        OBVIOUS
      <4>1. queue = <<>> /\ writer \notin {"file", "database"}
        BY DEF Unfinished
      <4>2. Len(queue) = 0
        BY <4>1
      <4> QED
        BY <4>1, <4>2, Lengths DEF inserted, taken
    <3> QED
      BY <1>1, <1>2, <3>1, <3>2 DEF LInv, Stopping
  <2>3. CASE StopCloses \/ StopJoins
    BY <1>1, <1>2, <2>3 DEF StopCloses, StopJoins, LInv, Stopping
  <2> QED
    BY <2>1, <2>2, <2>3 DEF StopStep
<1>4. CASE writer \in {"file", "database"}
  <2>1. Calls' /\ Distinct'
    BY <1>1, ProducersStay
  <2>2. taken' = taken /\ written' = written
    BY <1>1, <1>2 DEF taken, written
  <2>3. Typed' /\ Queued'
    BY <1>1, <1>2, <2>2 DEF LInv, Typed, Queued, outputs
  <2>4. FileHolds'
    BY <1>1, <1>2, <2>2 DEF LInv, FileHolds, outputs
  <2>5. RowsHold'
    BY <1>1, <1>2, <2>2 DEF LInv, RowsHold, outputs
  <2> QED
    BY <1>3, <2>1, <2>3, <2>4, <2>5 DEF LInv
<1>5. CASE writer \notin {"file", "database"}
  BY <1>1, <1>3, <1>5, OutputsStay DEF LInv, Typed
<1> QED
  BY <1>4, <1>5

(* Every step preserves the invariant.                                     *)
LEMMA StepLog == LInv /\ [Next]_vars => LInv'
<1> SUFFICES ASSUME LInv, [Next]_vars PROVE LInv'
  OBVIOUS
<1>1. CASE UNCHANGED vars
  BY <1>1, QuietStep DEF vars
<1>2. ASSUME NEW p \in Producers, Emit(p) \/ EmitNothing(p) PROVE LInv'
  BY <1>2, StepEmit
<1>3. ASSUME NEW p \in Producers, Push(p) PROVE LInv'
  BY <1>3, StepPushAccepted, StepPushRefused DEF Push
<1>4. CASE WriterStep
  BY <1>4, StepPop, StepWriteFile, StepWriteDatabase, StepWaits DEF WriterStep
<1>5. CASE StopWaits \/ StopStep
  BY <1>5, StepStop
<1> QED
  BY <1>1, <1>2, <1>3, <1>4, <1>5 DEF Next

-----------------------------------------------------------------------------
(* When log_stop has returned and no write to the text log has failed,     *)
(* every record whose log_emit has returned is in it, went to standard     *)
(* error or is still queued; and the last is never so for one logged       *)
(* before log_stop was called, unless its wait of ten seconds ran out.     *)
THEOREM StopFlushes == Spec => []StopFlushesLog
<1>1. LInv => StopFlushesLog
  <2> SUFFICES ASSUME LInv, stop = "stopped", fileOpen, NEW r \in returned, r \notin stderr
               PROVE  \/ \E i \in DOMAIN file : file[i] = r
                      \/ (\E i \in DOMAIN queue : queue[i] = r) /\ (r \in owed => expired)
    BY DEF StopFlushesLog
  <2>1. writer = "exited"
    BY DEF LInv, Stopping
  <2>2. Len(file) = taken /\ inserted = taken
    BY <2>1, Lengths DEF LInv, FileHolds, written, inserted
  <2>3. ASSUME NEW k \in 1..taken, accepted[k] = r PROVE \E i \in DOMAIN file : file[i] = r
    <3>1. DOMAIN file = 1..taken
      BY <2>2, LenProperties DEF LInv, Typed
    <3>2. file[k] = r
      BY <2>2, <2>3 DEF LInv, FileHolds
    <3> QED
      BY <3>1, <3>2
  <2>4. CASE r \in owed /\ ~expired
    <3>1. PICK k \in 1..inserted : accepted[k] = r
      BY <2>4 DEF LInv, Stopping
    <3> QED
      BY <2>2, <2>3, <3>1
  <2>5. CASE r \in owed => expired
    <3>1. PICK k \in 1..Len(accepted) : accepted[k] = r
      BY DEF LInv, Stopping
    <3>2. CASE k <= taken
      <4>1. k \in 1..taken
        BY <3>2, Lengths
      <4> QED
        BY <2>3, <3>1, <4>1
    <3>3. CASE k > taken
      <4>1. k - taken \in 1..Len(queue) /\ taken + (k - taken) = k
        BY <3>3, Lengths DEF taken
      <4>2. queue[k - taken] = r
        BY <3>1, <4>1 DEF LInv, Queued
      <4>3. DOMAIN queue = 1..Len(queue)
        BY LenProperties DEF LInv, Typed
      <4> QED
        BY <2>5, <4>1, <4>2, <4>3
    <3> QED
      BY <3>2, <3>3, Lengths
  <2> QED
    BY <2>4, <2>5
<1> QED
  BY <1>1, InitLog, StepLog, PTL DEF Spec

(* A sequence that is the beginning of another is a prefix of it, and the  *)
(* two and what is in between make up the whole.                           *)
LEMMA PrefixAndRest ==
    ASSUME NEW S, NEW a \in Seq(S), NEW f \in Seq(S), NEW h \in Seq(S), NEW q \in Seq(S),
           \A j \in 1..Len(f) : f[j] = a[j],
           \A j \in 1..Len(h) : h[j] = a[Len(f) + j],
           \A j \in 1..Len(q) : q[j] = a[Len(f) + Len(h) + j],
           Len(a) = Len(f) + Len(h) + Len(q)
    PROVE  a = f \o h \o q
<1>1. Len(a) \in Nat /\ Len(f) \in Nat /\ Len(h) \in Nat /\ Len(q) \in Nat
  BY LenProperties
<1> DEFINE fh == f \o h
           all == fh \o q
<1>2. /\ fh \in Seq(S)
      /\ Len(fh) = Len(f) + Len(h)
      /\ \A i \in 1..(Len(f) + Len(h)) : fh[i] = IF i <= Len(f) THEN f[i] ELSE h[i - Len(f)]
  BY ConcatProperties
<1> HIDE DEF fh
<1>3. /\ all \in Seq(S)
      /\ Len(all) = Len(fh) + Len(q)
      /\ \A i \in 1..(Len(fh) + Len(q)) : all[i] = IF i <= Len(fh) THEN fh[i] ELSE q[i - Len(fh)]
  BY <1>2, ConcatProperties
<1> HIDE DEF all
<1>4. ASSUME NEW i \in 1..Len(a) PROVE a[i] = all[i]
  <2>1. CASE i <= Len(f)
    <3>1. i \in 1..Len(f) /\ i \in 1..(Len(f) + Len(h)) /\ i <= Len(fh)
          /\ i \in 1..(Len(fh) + Len(q))
      BY <1>1, <1>2, <2>1
    <3>2. all[i] = fh[i] /\ fh[i] = f[i]
      BY <1>2, <1>3, <2>1, <3>1
    <3> QED
      BY <3>1, <3>2
  <2>2. CASE i > Len(f) /\ i <= Len(fh)
    <3>1. i - Len(f) \in 1..Len(h) /\ Len(f) + (i - Len(f)) = i
      BY <1>1, <1>2, <2>2
    <3>2. all[i] = h[i - Len(f)]
      BY <1>1, <1>2, <1>3, <2>2
    <3> QED
      BY <3>1, <3>2
  <2>3. CASE i > Len(fh)
    <3>1. i - Len(fh) \in 1..Len(q) /\ Len(f) + Len(h) + (i - Len(fh)) = i
      BY <1>1, <1>2, <2>3
    <3>2. all[i] = q[i - Len(fh)]
      BY <1>1, <1>2, <1>3, <2>3
    <3> QED
      BY <3>1, <3>2
  <2> QED
    BY <1>1, <1>2, <2>1, <2>2, <2>3
<1>5. a = all
  BY <1>1, <1>2, <1>3, <1>4, SeqEqual
<1> QED
  BY <1>5 DEF all, fh

(* The same of the records that the queue took.                            *)
LEMMA AcceptedInParts ==
    ASSUME accepted \in Seq(Names), queue \in Seq(Names), NEW f \in Seq(Names),
           NEW h \in Seq(Names),
           \A j \in 1..Len(f) : f[j] = accepted[j],
           \A j \in 1..Len(h) : h[j] = accepted[Len(f) + j],
           \A j \in 1..Len(queue) : queue[j] = accepted[Len(f) + Len(h) + j],
           Len(accepted) = Len(f) + Len(h) + Len(queue)
    PROVE  accepted = f \o h \o queue
BY PrefixAndRest

(* What agrees with the beginning of a sequence is a prefix of it.         *)
LEMMA IsItsBeginning ==
    ASSUME NEW S, NEW f \in Seq(S), NEW a \in Seq(S), Len(f) <= Len(a),
           \A j \in 1..Len(f) : f[j] = a[j]
    PROVE  f = SubSeq(a, 1, Len(f))
<1>1. Len(f) \in Nat /\ Len(a) \in Nat
  BY LenProperties
<1>2. \A i \in 1..Len(f) : f[i] \in S /\ a[i] \in S
  BY <1>1, ElementOfSeq
<1>4. /\ SubSeq(a, 1, Len(f)) \in Seq(S)
      /\ Len(SubSeq(a, 1, Len(f))) = Len(f)
      /\ \A i \in 1..Len(f) : SubSeq(a, 1, Len(f))[i] = a[i]
  BY <1>1, <1>2
<1> QED
  BY <1>1, <1>4, SeqEqual

(* The text log and the rows of SQLite have the records in the order in    *)
(* which the queue took them, each at most once; as long as an output has  *)
(* not failed, it lacks only what log_writer_main holds and what is still  *)
(* queued, whatever became of the other one.                               *)
THEOREM OutputsKeepOrder == Spec => []OutputsInOrder
<1>1. LInv => OutputsInOrder
  <2> SUFFICES ASSUME LInv PROVE FileInOrder /\ DatabaseInOrder
    BY DEF OutputsInOrder
  <2> DEFINE one == <<record>>
             none == <<>>
  <2>1. writer \in {"file", "database"} =>
            one \in Seq(Names) /\ Len(one) = 1 /\ one[1] = accepted[taken] /\ taken >= 1
    <3> SUFFICES ASSUME writer \in {"file", "database"}
                 PROVE one \in Seq(Names) /\ Len(one) = 1 /\ one[1] = accepted[taken] /\ taken >= 1
      OBVIOUS
    <3>1. taken >= 1 /\ record = accepted[taken]
      BY DEF LInv, Queued
    <3>2. record \in Names
      BY <3>1, Lengths
    <3> QED
      BY <3>1, <3>2
  <2>2. none \in Seq(Names) /\ Len(none) = 0
    BY EmptySeq
  <2>3. \A j \in 1..Len(queue) : queue[j] = accepted[taken + j]
    BY DEF LInv, Queued
  <2>4. Len(accepted) = taken + Len(queue)
    BY Lengths DEF taken
  <2>5. queue \in Seq(Names) /\ accepted \in Seq(Names) /\ file \in Seq(Names) /\ rows \in Seq(Names)
    BY DEF LInv, Typed
  <2>6. ASSUME NEW f \in Seq(Names), NEW n \in {taken - 1, taken}, Len(f) = n,
               \A j \in 1..Len(f) : f[j] = accepted[j], n = taken - 1 => writer \in {"file", "database"}
        PROVE  accepted = f \o (IF n = taken - 1 THEN one ELSE none) \o queue
    <3>1. CASE n = taken - 1
      <4>1. Len(one) = 1 /\ one \in Seq(Names) /\ \A j \in 1..Len(one) : one[j] = accepted[Len(f) + j]
        BY <2>1, <2>6, <3>1, Lengths
      <4> HIDE DEF one
      <4>2. Len(f) + Len(one) = taken
        BY <2>6, <3>1, <4>1, Lengths
      <4>3. accepted = f \o one \o queue
        <5>1. /\ \A j \in 1..Len(queue) : queue[j] = accepted[Len(f) + Len(one) + j]
              /\ Len(accepted) = Len(f) + Len(one) + Len(queue)
          BY <2>3, <2>4, <4>2
        <5> QED
          BY <2>5, <2>6, <4>1, <5>1, AcceptedInParts
      <4> QED
        BY <3>1, <4>3
    <3>2. CASE n # taken - 1
      <4>1. n = taken
        BY <3>2
      <4> HIDE DEF none
      <4>2. \A j \in 1..Len(none) : none[j] = accepted[Len(f) + j]
        BY <2>2
      <4>3. Len(f) + Len(none) = taken
        BY <2>2, <2>6, <4>1, Lengths
      <4>4. accepted = f \o none \o queue
        <5>1. /\ \A j \in 1..Len(queue) : queue[j] = accepted[Len(f) + Len(none) + j]
              /\ Len(accepted) = Len(f) + Len(none) + Len(queue)
          BY <2>3, <2>4, <4>3
        <5> QED
          BY <2>2, <2>5, <2>6, <4>2, <5>1, AcceptedInParts
      <4> QED
        BY <3>2, <4>4
    <3> QED
      BY <3>1, <3>2
  <2> HIDE DEF one, none
  <2>7. FileInOrder
    <3>1. Len(file) <= Len(accepted) /\ \A j \in 1..Len(file) : file[j] = accepted[j]
      BY Lengths DEF LInv, FileHolds, written
    <3>2. file = SubSeq(accepted, 1, Len(file))
      BY <2>5, <3>1, IsItsBeginning
    <3>3. fileOpen => accepted = file \o (IF writer = "file" THEN one ELSE none) \o queue
      <4> SUFFICES ASSUME fileOpen
                   PROVE  accepted = file \o (IF writer = "file" THEN one ELSE none) \o queue
        OBVIOUS
      <4>1. Len(file) = written /\ (written = taken - 1 <=> writer = "file")
            /\ written \in {taken - 1, taken}
        BY Lengths DEF LInv, FileHolds, written
      <4>2. accepted = file \o (IF written = taken - 1 THEN one ELSE none) \o queue
        BY <2>5, <2>6, <3>1, <4>1
      <4> QED
        BY <4>1, <4>2
    <3> QED
      BY <3>2, <3>3 DEF FileInOrder, one, none
  <2>8. DatabaseInOrder
    <3>1. \A i, j \in DOMAIN rows : \A k, l \in DOMAIN accepted :
              (i < j /\ rows[i] = accepted[k] /\ rows[j] = accepted[l]) => k < l
      <4>1. DOMAIN rows = 1..Len(rows) /\ DOMAIN accepted = 1..Len(accepted)
        BY <2>5, LenProperties
      <4> QED
        BY <4>1 DEF LInv, RowsHold
    <3>2. (database = "open" /\ ~rowsMissing) =>
              accepted = rows \o (IF writer \in {"file", "database"} THEN one ELSE none) \o queue
      <4> SUFFICES ASSUME database = "open", ~rowsMissing
                   PROVE  accepted =
                          rows \o (IF writer \in {"file", "database"} THEN one ELSE none) \o queue
        OBVIOUS
      <4>1. /\ Len(rows) = inserted /\ (inserted = taken - 1 <=> writer \in {"file", "database"})
            /\ inserted \in {taken - 1, taken}
            /\ \A j \in 1..Len(rows) : rows[j] = accepted[j]
        BY Lengths DEF LInv, RowsHold, inserted
      <4>2. accepted = rows \o (IF inserted = taken - 1 THEN one ELSE none) \o queue
        BY <2>5, <2>6, <4>1
      <4> QED
        BY <4>1, <4>2
    <3> QED
      BY <3>1, <3>2 DEF DatabaseInOrder, one, none
  <2> QED
    BY <2>7, <2>8
<1> QED
  BY <1>1, InitLog, StepLog, PTL DEF Spec
=============================================================================
