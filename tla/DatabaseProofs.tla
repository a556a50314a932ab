--------------------------- MODULE DatabaseProofs ---------------------------
(***************************************************************************)
(* Proofs about Database, for any number of processes and probes and any   *)
(* list of columns.  Every step of it is a step of Lifecycle or leaves the *)
(* processes alone, so that what is proved there holds here too.           *)
(***************************************************************************)
EXTENDS Database, LifecycleProofs, SequenceTheorems

Waiting(left) == {left[i] : i \in DOMAIN left}

(* What the open transaction is: nothing that was committed is missing,    *)
(* and a column it does not have is one that it will still look at.        *)
Working ==
    /\ transaction \in [by : Users, columns : SUBSET Whole, left : Seq(Columns)]
    /\ schema \subseteq transaction.columns
    /\ Id \in transaction.columns
    /\ Columns \subseteq transaction.columns \cup Waiting(transaction.left)

(* Only the connection that migrates has a transaction; a connection that  *)
(* is ready, and a log writer, came after a commit.                        *)
DInv ==
    /\ Typed
    /\ link \in [Users -> {"closed", "migrate", "ready", "failed"}]
    /\ found \in Found
    /\ MigrationIsAtomic
    /\ transaction # NoTransaction => Working
    /\ \A u \in Users : link[u] = "migrate" => transaction # NoTransaction /\ transaction.by = u
    /\ \A u \in Users : link[u] = "ready" => Columns \subseteq schema
    /\ WritersFindColumns

-----------------------------------------------------------------------------
(* A step of Database is one of Lifecycle, or none.                        *)
LEMMA DatabaseStepIsLifecycleStep == [DatabaseNext]_allVars => [Next]_vars
<1> SUFFICES ASSUME [DatabaseNext]_allVars PROVE [Next]_vars
  OBVIOUS
<1>1. CASE UNCHANGED allVars
  BY <1>1 DEF allVars
<1>2. ASSUME NEW u \in Users, DatabaseStep(u) PROVE UNCHANGED vars
  BY <1>2 DEF DatabaseStep, Open, AddColumn, Commit, Rollback
<1>3. ASSUME NEW p \in Procs, MainStep(p) PROVE StartStep(p) \/ StopStep(p)
  BY <1>3 DEF MainStep, OtherStart, StartStep, StartLogAfterDatabase
<1>4. ASSUME NEW p \in Procs, LogEnds(p) PROVE Next
  BY <1>4 DEF LogEnds, Next, Parts
<1>5. ASSUME NEW p \in Procs, KillWithDatabase(p) PROVE Next
  BY <1>5 DEF KillWithDatabase, Next
<1>6. ASSUME NEW p \in Procs,
             Start(p) \/ Signal(p) \/ \E part \in Parts \ {"log"} : ThreadEnds(p, part)
      PROVE  Next
  BY <1>6 DEF Next
<1>7. ASSUME NEW q \in Probes, ProbeLock(q) \/ ProbeUnlock(q) PROVE Next
  BY <1>7 DEF Next
<1> QED
  BY <1>1, <1>2, <1>3, <1>4, <1>5, <1>6, <1>7 DEF DatabaseNext, Next

(* The processes that share a database are the processes of Lifecycle:     *)
(* the migrations add waiting and failures, and no order of starting or    *)
(* stopping that Lifecycle does not have.                                  *)
THEOREM DatabaseImplementsLifecycle == DatabaseSpec => Spec
<1>1. DatabaseInit => Init
  BY DEF DatabaseInit
<1> QED
  BY <1>1, DatabaseStepIsLifecycleStep, PTL DEF DatabaseSpec, Spec

-----------------------------------------------------------------------------
(* No connection and no log writer at first.                               *)
LEMMA InitDatabase == DatabaseInit => DInv
<1> SUFFICES ASSUME DatabaseInit PROVE DInv
  OBVIOUS
<1>1. Typed
  BY InitLife DEF DatabaseInit, LifeInv
<1>2. \A p \in Procs : on[p] = {}
  BY DEF DatabaseInit, Init
<1> QED
  BY <1>1, <1>2, DatabaseAssumption DEF DatabaseInit, DInv, MigrationIsAtomic,
     WritersFindColumns

(* Looking at the next column leaves none behind.                          *)
LEMMA WaitingTail ==
    ASSUME NEW left \in Seq(Columns), left # <<>>
    PROVE  /\ Head(left) \in Columns
           /\ Tail(left) \in Seq(Columns)
           /\ Waiting(left) \subseteq {Head(left)} \cup Waiting(Tail(left))
<1>1. /\ Head(left) \in Columns
      /\ Tail(left) \in Seq(Columns)
      /\ Len(Tail(left)) = Len(left) - 1
      /\ \A i \in 1..Len(Tail(left)) : Tail(left)[i] = left[i + 1]
  BY HeadTailProperties
<1>2. ASSUME NEW i \in DOMAIN left PROVE left[i] \in {Head(left)} \cup Waiting(Tail(left))
  <2>1. CASE i = 1
    BY <2>1
  <2>2. CASE i # 1
    <3>1. i - 1 \in 1..Len(Tail(left)) /\ (i - 1) + 1 = i
      BY <1>1, <2>2
    <3>2. Tail(left)[i - 1] = left[i] /\ i - 1 \in DOMAIN Tail(left)
      BY <1>1, <3>1
    <3> QED
      BY <3>2 DEF Waiting
  <2> QED
    BY <2>1, <2>2
<1> QED
  BY <1>1, <1>2 DEF Waiting

(* A step that leaves the schema, the transaction and the connections      *)
(* alone and starts no log writer.                                         *)
LEMMA ElsewhereStep ==
    ASSUME DInv, Typed', UNCHANGED databaseVars,
           \A p \in Procs : "log" \in on'[p] => "log" \in on[p]
    PROVE  DInv'
BY DEF DInv, Working, MigrationIsAtomic, WritersFindColumns, databaseVars

(* A step of one connection that leaves the processes and the schema       *)
(* alone.                                                                  *)
LEMMA StepOpen == ASSUME DInv, NEW u \in Users, Open(u) PROVE DInv'
<1>1. UNCHANGED <<schema, found>> /\ Typed' /\ on' = on /\ link[u] = "closed"
  BY DEF Open, vars, DInv, Typed
<1>2. CASE Becomes(u, "failed") /\ UNCHANGED transaction
  BY <1>1, <1>2 DEF DInv, Working, MigrationIsAtomic, WritersFindColumns, Becomes
<1> DEFINE t == [by |-> u, columns |-> IF schema = {} THEN Whole ELSE schema, left |-> Order]
<1>3. CASE transaction = NoTransaction /\ transaction' = t /\ Becomes(u, "migrate")
  <2>1. schema \subseteq Whole /\ (schema # {} => Id \in schema) /\ Id \in Whole
    BY DatabaseAssumption DEF DInv, MigrationIsAtomic, Whole
  <2>2. t \in [by : Users, columns : SUBSET Whole, left : Seq(Columns)]
    BY <2>1, DatabaseAssumption
  <2>3. t.by = u /\ schema \subseteq t.columns /\ Id \in t.columns /\ t.left = Order
    BY <2>1
  <2>4. Columns \subseteq Waiting(Order)
    BY DEF Columns, Waiting
  <2> HIDE DEF t
  <2>5. t # NoTransaction
    BY <2>2, DatabaseAssumption DEF Users
  <2>6. Working'
    BY <1>1, <1>3, <2>2, <2>3, <2>4 DEF Working
  <2>7. \A v \in Users : link'[v] = "migrate" => v = u
    BY <1>3 DEF DInv, Becomes
  <2> QED
    BY <1>1, <1>3, <2>3, <2>5, <2>6, <2>7 DEF DInv, MigrationIsAtomic, WritersFindColumns, Becomes
<1> QED
  BY <1>2, <1>3 DEF Open

(* The column looked at is in the transaction afterwards.                  *)
LEMMA StepAddColumn == ASSUME DInv, NEW u \in Users, AddColumn(u) PROVE DInv'
<1>1. UNCHANGED <<schema, found, link>> /\ Typed' /\ on' = on /\ link[u] = "migrate"
  BY DEF AddColumn, vars, DInv, Typed
<1>2. Working /\ transaction.left # <<>> /\ transaction' = Altered
  BY <1>1 DEF AddColumn, DInv
<1>3. /\ Head(transaction.left) \in Columns
      /\ Tail(transaction.left) \in Seq(Columns)
      /\ Waiting(transaction.left) \subseteq
             {Head(transaction.left)} \cup Waiting(Tail(transaction.left))
  BY <1>2, WaitingTail DEF Working
<1>4. /\ Altered.by = transaction.by
      /\ Altered.columns = transaction.columns \cup {Head(transaction.left)}
      /\ Altered.left = Tail(transaction.left)
  BY DEF Altered
<1>5. Altered \in [by : Users, columns : SUBSET Whole, left : Seq(Columns)]
  BY <1>2, <1>3 DEF Altered, Working, Whole
<1>6. Altered # NoTransaction
  BY <1>5, DatabaseAssumption DEF Users
<1>7. Working'
  BY <1>1, <1>2, <1>3, <1>4, <1>5 DEF Working
<1> QED
  BY <1>1, <1>2, <1>4, <1>6, <1>7 DEF DInv, MigrationIsAtomic, WritersFindColumns

(* The commit of a transaction that looked at every column.                *)
LEMMA StepCommit == ASSUME DInv, NEW u \in Users, Commit(u) PROVE DInv'
<1>1. /\ UNCHANGED found /\ Typed' /\ on' = on /\ link[u] = "migrate"
      /\ schema' = transaction.columns
      /\ transaction' = NoTransaction
      /\ link' = [link EXCEPT ![u] = "ready"]
      /\ transaction.left = <<>>
  BY DEF Commit, vars, DInv, Typed, Becomes
<1>2. Working
  BY <1>1 DEF DInv
<1>3. Waiting(transaction.left) = {}
  BY <1>1 DEF Waiting
<1>4. transaction.columns = Whole
  BY <1>2, <1>3 DEF Working, Whole
<1>5. schema' = Whole /\ schema \subseteq Whole /\ Columns \subseteq Whole
  BY <1>1, <1>2, <1>4 DEF Working, Whole
<1>6. MigrationIsAtomic'
  BY <1>1, <1>5, DatabaseAssumption DEF DInv, MigrationIsAtomic
<1>7. \A v \in Users : link'[v] # "migrate"
  BY <1>1 DEF DInv
<1> QED
  BY <1>1, <1>5, <1>6, <1>7 DEF DInv, WritersFindColumns

(* A rollback leaves the committed table.                                  *)
LEMMA StepRollback == ASSUME DInv, NEW u \in Users, Rollback(u) PROVE DInv'
<1>1. /\ UNCHANGED <<schema, found>> /\ Typed' /\ on' = on /\ link[u] = "migrate"
      /\ transaction' = NoTransaction
      /\ link' = [link EXCEPT ![u] = "failed"]
  BY DEF Rollback, vars, DInv, Typed, Becomes
<1>2. \A v \in Users : link'[v] # "migrate"
  BY <1>1 DEF DInv
<1> QED
  BY <1>1, <1>2 DEF DInv, MigrationIsAtomic, WritersFindColumns

-----------------------------------------------------------------------------
(* Only app_start with a successful migration starts a log writer.         *)
LEMMA StepStartLogAfterDatabase ==
    ASSUME DInv, Typed', NEW p \in Procs, StartLogAfterDatabase(p) PROVE DInv'
<1>1. /\ UNCHANGED <<schema, found, transaction>>
      /\ link' = [link EXCEPT ![Main(p)] = "closed"]
      /\ Main(p) \in Users
  BY DEF StartLogAfterDatabase, Becomes, Main, Users
<1>2. "log" \in on'[p] /\ "log" \notin on[p] => link[Main(p)] = "ready"
  <2>1. pc'[p] = "off" \/ link[Main(p)] = "ready"
    BY DEF StartLogAfterDatabase
  <2>2. CASE on' = on
    BY <2>2
  <2>3. CASE Goto(p, IF webOnly[p] THEN "web" ELSE "workers")
    <3>1. pc'[p] # "off"
      BY <2>3 DEF Goto, DInv, Typed
    <3> QED
      BY <2>1, <3>1
  <2> QED
    BY <2>2, <2>3 DEF StartLogAfterDatabase, StartLog
<1>3. \A q \in Procs : q # p => on'[q] = on[q]
  BY DEF StartLogAfterDatabase, StartLog, TurnOn, DInv, Typed
<1>4. WritersFindColumns'
  BY <1>1, <1>2, <1>3 DEF DInv, WritersFindColumns
<1> QED
  BY <1>1, <1>4 DEF DInv, Working, MigrationIsAtomic

(* The log writer closes its connection.                                   *)
LEMMA StepLogEnds ==
    ASSUME DInv, Typed', NEW p \in Procs, LogEnds(p) PROVE DInv'
<1>1. /\ UNCHANGED <<schema, found, transaction>>
      /\ link' = [link EXCEPT ![Writer(p)] = "closed"]
      /\ Writer(p) \in Users
  BY DEF LogEnds, Becomes, Writer, Users
<1>2. \A q \in Procs : "log" \in on'[q] => "log" \in on[q]
  BY DEF LogEnds, ThreadEnds, DInv, Typed
<1> QED
  BY <1>1, <1>2 DEF DInv, Working, MigrationIsAtomic, WritersFindColumns

(* A kill drops the transaction of that process and no other.              *)
LEMMA StepKillWithDatabase ==
    ASSUME DInv, Typed', NEW p \in Procs, KillWithDatabase(p) PROVE DInv'
<1>1. /\ UNCHANGED <<schema, found>>
      /\ link' = [link EXCEPT ![Main(p)] = "closed", ![Writer(p)] = "closed"]
      /\ Main(p) \in Users /\ Writer(p) \in Users
  BY DEF KillWithDatabase, Writer, Main, Users
<1>2. \A q \in Procs : "log" \in on'[q] => "log" \in on[q]
  BY DEF KillWithDatabase, Kill, DInv, Typed
<1>3. link' \in [Users -> {"closed", "migrate", "ready", "failed"}]
  BY <1>1 DEF DInv
<1>4. \A u \in Users : link'[u] # "closed" => link'[u] = link[u] /\ u[1] # p
  BY <1>1 DEF DInv, Users, Main, Writer
<1>5. transaction' = NoTransaction \/ transaction' = transaction
  BY DEF KillWithDatabase
<1>6. \A u \in Users : link'[u] = "migrate" => transaction' = transaction
  BY <1>4 DEF KillWithDatabase, DInv
<1>7. \A u \in Users :
          link'[u] = "migrate" => transaction' # NoTransaction /\ transaction'.by = u
  BY <1>4, <1>6 DEF DInv
<1>8. transaction' # NoTransaction => Working'
  BY <1>1, <1>5 DEF DInv, Working
<1>9. \A u \in Users : link'[u] = "ready" => Columns \subseteq schema'
  BY <1>1, <1>4 DEF DInv
<1> QED
  BY <1>1, <1>2, <1>3, <1>7, <1>8, <1>9 DEF DInv, MigrationIsAtomic, WritersFindColumns

(* Every step preserves the invariant.                                     *)
LEMMA StepDatabase == DInv /\ [DatabaseNext]_allVars => DInv'
<1> SUFFICES ASSUME DInv, [DatabaseNext]_allVars PROVE DInv'
  OBVIOUS
<1>1. Typed'
  BY StepTyped, DatabaseStepIsLifecycleStep DEF DInv
<1>2. CASE UNCHANGED allVars
  BY <1>1, <1>2, ElsewhereStep DEF allVars, vars, databaseVars
<1>3. ASSUME NEW u \in Users, DatabaseStep(u) PROVE DInv'
  BY <1>3, StepOpen, StepAddColumn, StepCommit, StepRollback DEF DatabaseStep
<1>4. ASSUME NEW p \in Procs, OtherStart(p) \/ StopStep(p), UNCHANGED databaseVars PROVE DInv'
  <2> SUFFICES \A q \in Procs : "log" \in on'[q] => "log" \in on[q]
    BY <1>1, <1>4, ElsewhereStep
  <2>1. ASSUME NEW part \in {"workers", "watcher", "scan", "web"},
               on' = on \/ TurnOn(p, part) \/ on' = [on EXCEPT ![p] = @ \ {"web"}]
        PROVE  \A q \in Procs : "log" \in on'[q] => "log" \in on[q]
    BY <2>1 DEF TurnOn, DInv, Typed
  <2>2. CASE OtherStart(p)
    <3>1. CASE PreparePaths(p) \/ AcquireLock(p) \/ WritePid(p)
      BY <2>1, <3>1 DEF PreparePaths, AcquireLock, WritePid
    <3>2. CASE StartWorkers(p) \/ StartWatcher(p)
      BY <2>1, <3>2 DEF StartWorkers, StartWatcher
    <3>3. CASE StartScan(p) \/ StartWeb(p)
      BY <2>1, <3>3 DEF StartScan, StartWeb
    <3> QED
      BY <2>2, <3>1, <3>2, <3>3 DEF OtherStart
  <2>3. CASE StopStep(p)
    <3>1. on' = on \/ on' = [on EXCEPT ![p] = @ \ {"web"}]
      BY <2>3 DEF StopStep, RunLoop, StopWeb, JoinWatcher, JoinScan, CloseEvents, JoinWorkers,
         CloseLog, JoinLog, Join, CloseQueue, ReleaseLock
    <3> QED
      BY <2>1, <3>1
  <2> QED
    BY <1>4, <2>2, <2>3
<1>5. ASSUME NEW p \in Procs, MainStep(p) PROVE DInv'
  BY <1>1, <1>4, <1>5, StepStartLogAfterDatabase DEF MainStep
<1>6. ASSUME NEW p \in Procs, LogEnds(p) \/ KillWithDatabase(p) PROVE DInv'
  BY <1>1, <1>6, StepLogEnds, StepKillWithDatabase
<1>7. ASSUME NEW p \in Procs, UNCHANGED databaseVars,
             Start(p) \/ Signal(p) \/ \E part \in Parts \ {"log"} : ThreadEnds(p, part)
      PROVE  DInv'
  <2>1. \A q \in Procs : "log" \in on'[q] => "log" \in on[q]
    BY <1>7 DEF Start, Signal, ThreadEnds, DInv, Typed
  <2> QED
    BY <1>1, <1>7, <2>1, ElsewhereStep
<1>8. ASSUME NEW q \in Probes, ProbeLock(q) \/ ProbeUnlock(q), UNCHANGED databaseVars
      PROVE  DInv'
  <2>1. on' = on
    BY <1>8 DEF ProbeLock, ProbeUnlock
  <2> QED
    BY <1>1, <1>8, <2>1, ElsewhereStep
<1> QED
  BY <1>2, <1>3, <1>5, <1>6, <1>7, <1>8 DEF DatabaseNext

-----------------------------------------------------------------------------
(* Whatever statement of a migration fails, whoever waits for whom and     *)
(* whoever is killed: the committed table is the one that was found, or    *)
(* has every column.                                                       *)
THEOREM MigrationAllOrNothing == DatabaseSpec => []MigrationIsAtomic
<1>1. DInv => MigrationIsAtomic
  BY DEF DInv
<1> QED
  BY <1>1, InitDatabase, StepDatabase, PTL DEF DatabaseSpec

(* A log writer, from its start by app_start to its end, always finds the  *)
(* columns of its insert, whoever else migrates or dies meanwhile.         *)
THEOREM WritersHaveTheirTable == DatabaseSpec => []WritersFindColumns
<1>1. DInv => WritersFindColumns
  BY DEF DInv
<1> QED
  BY <1>1, InitDatabase, StepDatabase, PTL DEF DatabaseSpec
=============================================================================
