------------------------------ MODULE Database ------------------------------
(***************************************************************************)
(* The schema of the log database: database.c, called while the processes  *)
(* of Lifecycle start, stop and are killed.  A backup process and Web-only *)
(* processes share one database.  Each migrates it twice: app_start before *)
(* it starts the log writer, and the log writer when it opens its own      *)
(* connection.  SQLite gives one write transaction at a time, and drops    *)
(* the one of a process that dies.                                         *)
(***************************************************************************)
EXTENDS Lifecycle, Sequences

CONSTANTS
    Order,          \* the columns that migrate adds to an older table
    Id,             \* the primary key, which every table has
    Found,          \* the tables the first process may find; {} for none
    NoTransaction

Columns == {Order[i] : i \in DOMAIN Order}
Whole == Columns \cup {Id}

ASSUME DatabaseAssumption ==
    /\ Order \in Seq(Columns)
    /\ Id \notin Columns
    /\ Found \subseteq SUBSET Whole
    /\ \A f \in Found : f # {} => Id \in f
    /\ NoTransaction \notin [by : Procs \X {"main", "log"}, columns : SUBSET Whole,
                            left : Seq(Columns)]

Users == Procs \X {"main", "log"}

VARIABLES
    schema,         \* the committed columns of the table logs
    found,          \* history: the columns at first
    link,           \* connection -> its state
    transaction     \* the write transaction: its connection, the columns it
                    \* sees, and those that it has not looked at yet

databaseVars == <<schema, found, link, transaction>>
allVars == <<vars, databaseVars>>

DatabaseInit ==
    /\ Init
    /\ found \in Found
    /\ schema = found
    /\ link = [u \in Users |-> "closed"]
    /\ transaction = NoTransaction

Main(p) == <<p, "main">>
Writer(p) == <<p, "log">>
Becomes(u, state) == link' = [link EXCEPT ![u] = state]

(* The thread of the connection is in database_initialize, or in           *)
(* database_open_writer at the start of the log writer.                    *)
MayOpen(u) == IF u[2] = "main" THEN pc[u[1]] = "log" ELSE "log" \in on[u[1]]

-----------------------------------------------------------------------------
(* database_open: the directory, the file and the pragmas, any of which    *)
(* may fail.  Then migrate: BEGIN IMMEDIATE waits for the transaction of   *)
(* another connection, but not longer than the busy timeout; CREATE TABLE  *)
(* IF NOT EXISTS.                                                          *)
Open(u) ==
    /\ MayOpen(u)
    /\ link[u] = "closed"
    /\ \/ /\ transaction = NoTransaction
          /\ transaction' = [by |-> u,
                             columns |-> IF schema = {} THEN Whole ELSE schema,
                             left |-> Order]
          /\ Becomes(u, "migrate")
       \/ Becomes(u, "failed") /\ UNCHANGED transaction
    /\ UNCHANGED <<vars, schema, found>>

(* has_column and ALTER TABLE, for the next column.                        *)
Altered ==
    [by |-> transaction.by,
     columns |-> transaction.columns \cup {Head(transaction.left)},
     left |-> Tail(transaction.left)]

(* Mutant: the added column is committed at once.                          *)
AddColumnAlone(u) ==
    /\ link[u] = "migrate"
    /\ transaction.left # <<>>
    /\ transaction' = Altered
    /\ schema' = Altered.columns
    /\ UNCHANGED <<vars, found, link>>

AddColumn(u) ==
    /\ link[u] = "migrate"
    /\ transaction.left # <<>>
    /\ transaction' = Altered
    /\ UNCHANGED <<vars, schema, found, link>>

(* Mutant: the last column is forgotten.                                   *)
CommitEarly(u) ==
    /\ link[u] = "migrate"
    /\ Len(transaction.left) <= 1
    /\ schema' = transaction.columns
    /\ transaction' = NoTransaction
    /\ Becomes(u, "ready")
    /\ UNCHANGED <<vars, found>>

(* CREATE INDEX IF NOT EXISTS, COMMIT; then the insert is prepared.        *)
Commit(u) ==
    /\ link[u] = "migrate"
    /\ transaction.left = <<>>
    /\ schema' = transaction.columns
    /\ transaction' = NoTransaction
    /\ Becomes(u, "ready")
    /\ UNCHANGED <<vars, found>>

(* A statement fails, and the transaction is rolled back.                  *)
Rollback(u) ==
    /\ link[u] = "migrate"
    /\ transaction' = NoTransaction
    /\ Becomes(u, "failed")
    /\ UNCHANGED <<vars, schema, found>>

-----------------------------------------------------------------------------
(* app_start closes its connection and goes on if the migration succeeded; *)
(* the log writer goes on without a database if its own one failed.        *)
StartLogAfterDatabase(p) ==
    /\ link[Main(p)] \in {"ready", "failed"}
    /\ StartLog(p)
    /\ link[Main(p)] = "failed" => pc'[p] = "off"
    /\ Becomes(Main(p), "closed")
    /\ UNCHANGED <<schema, found, transaction>>

LogEnds(p) ==
    /\ link[Writer(p)] \in {"ready", "failed"}
    /\ ThreadEnds(p, "log")
    /\ Becomes(Writer(p), "closed")
    /\ UNCHANGED <<schema, found, transaction>>

KillWithDatabase(p) ==
    /\ Kill(p)
    /\ link' = [link EXCEPT ![Main(p)] = "closed", ![Writer(p)] = "closed"]
    /\ transaction' = IF transaction # NoTransaction /\ transaction.by[1] = p
                      THEN NoTransaction ELSE transaction
    /\ UNCHANGED <<schema, found>>

(* The steps that have nothing to do with the database.                    *)
OtherStart(p) ==
    \/ PreparePaths(p) \/ AcquireLock(p) \/ WritePid(p)
    \/ StartWorkers(p) \/ StartWatcher(p) \/ StartScan(p) \/ StartWeb(p)

DatabaseStep(u) == Open(u) \/ AddColumn(u) \/ Commit(u) \/ Rollback(u)

MainStep(p) ==
    \/ (OtherStart(p) \/ StopStep(p)) /\ UNCHANGED databaseVars
    \/ StartLogAfterDatabase(p)

DatabaseNext ==
    \/ \E u \in Users : DatabaseStep(u)
    \/ \E p \in Procs :
          \/ MainStep(p) \/ LogEnds(p) \/ KillWithDatabase(p)
          \/ (Start(p) \/ Signal(p)) /\ UNCHANGED databaseVars
          \/ \E part \in Parts \ {"log"} : ThreadEnds(p, part) /\ UNCHANGED databaseVars
    \/ (\E q \in Probes : ProbeLock(q) \/ ProbeUnlock(q)) /\ UNCHANGED databaseVars

DatabaseSpec == DatabaseInit /\ [][DatabaseNext]_allVars

(* As in Lifecycle; a thread in a call of database.c goes on as well.      *)
DatabaseFairSpec ==
    /\ DatabaseSpec
    /\ \A u \in Users : WF_allVars(DatabaseStep(u))
    /\ \A p \in Procs :
          /\ WF_allVars(MainStep(p))
          /\ WF_allVars(stopping[p] /\ LogEnds(p))
          /\ \A part \in Parts \ {"log"} :
                WF_allVars(stopping[p] /\ ThreadEnds(p, part) /\ UNCHANGED databaseVars)

-----------------------------------------------------------------------------
(* Whatever fails, and whoever is killed, at any step of any migration,    *)
(* the table is the one that was found or has every column: no process     *)
(* ever finds it half migrated.                                            *)
MigrationIsAtomic == schema \in {found, found \cup Whole}

(* "The migration runs before the log writer": from the moment app_start   *)
(* starts the log writer of any process until it ends, the table has the   *)
(* columns of its insert, also while other processes migrate again.        *)
WritersFindColumns == \A p \in Procs : "log" \in on[p] => Columns \subseteq schema
=============================================================================
