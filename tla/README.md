# SySeBa specifications

TLA+ specifications of SySeBa, the continuous backup service of this repository:
models of its concurrent and failure-prone parts, TLC configurations that check
them on small instances, and TLAPS proofs of the properties that matter most.
`PROJECT.json` relates every definition to the source lines it models, lists the
runs, the mutants that show that each property can fail, the hazards of the
code, the findings and the theorems.

```
tlc -config MCWorkerPool.cfg MCWorkerPool      # one run
tlapm WorkerPoolProofs.tla                     # the proofs of one module
```

## 1. The system

SySeBa is one C11 process. A *watcher* thread turns changes of the source tree
into events; an *initial scanner* queues every file of the source at startup;
*N workers* take events from a FIFO queue and bring the backup tree up to date;
the backup of a deleted file is moved under the restore tree. One *log writer*
drains a second queue into a text file and SQLite. A Web server and a command
line read the state, change the configuration and restore files. A lock file
keeps a second backup process from starting.

### Inventory

| Part | Code | State | Operations | What makes it hard | Modelled by |
|---|---|---|---|---|---|
| Queues | queue.c | list, `unfinished`, `closed`, two condition variables | push, pop, task_done, wait_empty, close, destroy | lost wakeups, timeouts, spurious wakeups, miscounting | Queue |
| Workers, scanner, shutdown | app.c | threads, stop flag | enqueue, worker_main, wait in initial_sync, app_stop | close against push, drain, join order | WorkerPool, TaskLedger |
| File copy | fs.c, app.c | source, temporary, destination | copy_file, files_need_copy, atomic_replace | source changes while read, two copiers, failing calls, power loss | CopyFile |
| Event processing | app.c, fs.c | backup and restore trees | process_event, unique_restore_path, move_path | events of one path on two workers; check, then act; a move that fails half way | Mirror |
| Lifecycle | app.c, cli.c, platform.c | lock, running threads, flags | app_start, app_stop, lock, signals, status probe | failure at any step, kill, second process | Lifecycle |
| Tree walk | fs.c, app.c | open directories, errno | walk_files, copy_tree, remove_path, move_path, sync_walk | tree changes while walked, partial results taken as complete | Walk |
| Polling watcher | watcher_poll.c | two snapshots | build, reconcile, loop | a snapshot is no instant; failed builds | Poll |
| inotify watcher | watcher_linux.c | watch table, kernel queue | process_event, watch add and remove, overflow | directories that move, overflow, late watches, a scan beside the set-up | Inotify |
| Windows watcher | watcher_windows.c | one pending call, its buffer | dispatch, overflow, fallback to polling | records dropped, a scan that is refused | Windows |
| Logging | log.c, database.c | queue, ring of recent lines, file, database | log_emit, writer, log_stop, database_write | failure of one output, stop with records queued, a pop that times out | Log |
| Reading the log | log.c | the end of a growing file | log_tail | chunks and lines out of step, a line half written | LogTail |
| SQLite schema | database.c, app.c | columns, connections, the write transaction | open, migrate, open_writer, close | processes that migrate at the same time, a kill inside | Database |
| Restore | fs.c, web.c, cli.c | restore and source trees | restore_item, unique_restored_path, restore_list | check, then copy; paging of a changing directory | Restore; the listing in Walk and Listing |
| Configuration | config.c, web.c, app.c, cli.c | file, memory of each process, restart flag | load, validate, save, config_post, config state | file and memory diverge, power loss in a save, two requests | Configuration |
| Web, status, dashboard, command line | web.c, dashboard.c, cli.c | none of their own beyond the above | routing, formatting | - | partly, where they change state |
| Services, scripts, vendored libraries | service_*.c, scripts/, third_party/ | outside the process | external commands | - | not modelled |

### How the parts interact, and how the modules compose

```
    Inotify / Poll, Windows --CREATE, MODIFY, DELETE--+
                                                       v
 Walk (scan) -------------CREATE-----------------> WorkerPool (Queue) => TaskLedger
                                                       | one event each
                                                       v
                       Mirror (process_event) -- uses --> CopyFile (copy_file)
                              |                           Walk (move_path of a tree)
                              v
                       Log (its own queue) <-- LogTail reads its file
 Restore (restore_item) writes into the source, which Mirror then backs up
 Lifecycle starts and stops all of the above, in order, under the lock,
 and Database migrates the schema while it does
 Configuration: the file that all processes load and any of them replaces
```

* `WorkerPool` extends `Queue`; `TaskLedger` is the abstract specification of
  both (what was accepted is started in order, completed once, and ending loses
  nothing) and `ImplementsLedger` is the refinement.
* `Mirror` takes two results of the others as steps: the queue is a FIFO that
  loses nothing (`TaskLedger`), and a copy that passes verification is one
  version of the source (`DestinationWhole` of `CopyFile`).
* `Restore` extends `Mirror`: the requests run beside its workers, and what they
  do to the source is reported like the changes of any other program.
* `Windows` extends `Poll`: the thread watches natively or polls, as the code
  does, and the same two convergence properties are stated of both ways.
* `Database` extends `Lifecycle`: opening, migrating and closing happen within
  app_start and the log writer, so that a process can be killed inside a
  migration that another one waits for. `DatabaseImplementsLifecycle` is the
  refinement.
* `LogTail` extends `Log`: a reader of the text file beside its writer.
* `Listing` extends `Walk`: a client that reads a directory of restore page by
  page, each page a request that reads the directory again.
* `Poll`, `Windows` and `Inotify` produce events and contain a worker that
  processes each of them in one step, so that they can state what reaches the backup.
* `Lifecycle` sees each thread as a role; that the roles end when asked is what
  `WorkerPool` (`StopTerminates`) and `Log` (`LogStopReturns`) show.

## 2. The modules

**Queue** (queue.c). A critical section under the queue mutex is one step.
`queue` is the list, `unfinished` the counter, `available` and `completed` are
the threads asleep on the two condition variables. `Push` signals one sleeper,
`Close` and the last `TaskDone` wake all. A sleeper may also leave by itself
(timeout or spurious wakeup). Threads recheck their condition as in the code: a
pop whose wait timed out returns without looking again.

**WorkerPool** (app.c 56-90, 457-492, 494-603, 702-736). Producers read the stop
flag and only later push; a push may fail (`calloc`, or a closed queue). A
worker loops until stopping and the queue is empty. The scanner waits in
wait_empty after its walk. `app_stop` sets the flag, joins the producers, waits
for the queue to empty, closes it, joins the workers and destroys it.
`Expiring` says whose wait_empty deadline may pass (30 s in app_stop; the
scanner's is 24 h). `NoStaleLook` is the one timing assumption of the module:
when the 30 s of app_stop pass with events still queued, every worker has looked
at the queue since the last push, as a wait in pop lasts 500 ms and the producers
are gone. Without it a worker whose pop timed out just before the last push could
end on the closed queue and leave that event; `NothingLostAtStop` rests on it.

**TaskLedger**. The promise of the pool: events are accepted, started in the
order of acceptance, completed, and the ledger ends only with nothing left.

**CopyFile** (fs.c 297-687, app.c 23-47). A file is a sequence of blocks, each
the stamp of the write that made it. Other programs write the source in place
(overwrite, append, truncate), replace it by another inode, or remove it, at any
step. A copier opens and stats the source, copies block by block into its own
temporary, compares identity, size and time, flushes, renames, flushes the
parent directory. `onDisk` is the set of destinations that a power loss may
leave: it grows with a rename and shrinks with the flush of the directory. A
crash also leaves unflushed data arbitrary. Any system call of an attempt may
fail (`MaxFaults`), which `Unlink`, `Cleanup` and `TryAgain` answer. Four failures
are counted apart (`MaxMishaps`), as no further attempt answers them: the
directory of the destination cannot be made, the test for a regular source
fails, an unlink of the temporary fails (it is tried twice; after that the file
stays, `littered`), and the filesystem refuses the flush of the directory, which
sync_parent_directory takes for a success (fs.c:610-612). `Unit` is the
resolution of the modification times that `files_need_copy` sees.

**Mirror** (app.c 342-455, fs.c 931-995). Files are created, written, moved and
deleted, and the watcher queues the events in order. Each worker goes through
process_event step by step: is it regular, does it need a copy, open, verify,
commit; or for a DELETE: does the backup exist, pick a free restore name, rename,
or across filesystems copy and then remove; `WorkerFails` ends an event at any of
the calls that may fail. An open file is an inode: writing it through another
name is seen, unlinking it is not. Three history variables say what went wrong
with a path: `contended` (two workers processed it at once), `clashed` (a worker
got between another one's copy to restore and its removal, or two found the
same restore name) and `failed` (its last event ended with a failing call).

**Restore** (fs.c 997-1072, 1442-1535, web.c 771-859, cli.c 837-1114). A request
comes from the Web, from restore-copy, or from the browser, which chooses the
strategy from an earlier listing. `Look` tests item and destination,
`ChooseName` is unique_restored_path, `MakeTemporary`, `Commit` and `CopyFails` are
copy_file in the source tree, seen by the watcher. Requests concern files under
their plain restore name.

**Lifecycle** (app.c 116-256, 611-736, cli.c, platform.c 290-330). The main
thread of each process is at a named position of app_start or app_stop. Any step
may fail; early failures return, late ones run app_stop. A process may be killed
at any time, which releases its lock. `status` probes by taking the lock. Roles
may end when their guards in the code allow it (a worker: stopping and the queue
closed or empty).

**Walk** (fs.c 689-956, 1261-1313, app.c 494-603). The recursive walk is a stack
of open directories. `errno` is a variable, because the code tests it at the end of a
directory; `Leaves` says what each callback may leave in it. `job` selects the
caller (scan, watch set-up, snapshot, copy_tree, move_path, list), `posix` the
platform. `list` is restore_read_directory, which has a loop of its own. A
callback of the scan that cannot queue its file counts an error and goes on
(`EnqueueFails`); a stop ends it (`ScanStops`). Entries appear and vanish; an open
directory may or may not show a new one. `unshown` has what the copying walk of
move_path need not have been shown.

**Listing** (fs.c 1096-1173, 1315-1434). `Answer` sorts what the walk found,
returns one page of it and, if there is a next one, makes the client ask for it,
with a walk of its own. `Order` stands for the comparator. It has no ties: by
time, and by name where only the case differs, the code's comparators have
them, and then qsort may order the same entries differently each time.

**Poll** (watcher_poll.c). `Wake` starts a build, `Look` stats one entry,
`FirstSnapshot`, `Reconcile` and `BuildFails` end it, and on Windows `CutShort`
ends it early and successfully (fs.c:735). The initial scan runs beside all of
it, in no particular order, as app_start starts both threads without waiting,
and may end early (`ScanGivesUp`). `unnoticed` has the files whose last version
neither of the two is bound to see.

**Windows** (watcher_windows.c). `Issue` and `Completed` are the two ends of an
overlapped ReadDirectoryChangesW, `Dispatch` handles one record, `Overflow` runs
initial_sync in the watcher's own thread, `ResultFails` makes the call again and
`ThreadEnds` ends the loop. What Windows records, and drops when `MaxRecords` do
not fit, is `Recorded`. Without `OpenDirectory` the thread takes the steps of Poll.

**Inotify** (watcher_linux.c, app.c 494-603). The watches are set up one directory
at a time (`SetUp`, `SetUpFails` for the fallback to polling) while the scan visits
one directory at a time (`ScanVisits`, `ScanGivesUp`, `ScanEnds`) and programs
change the tree. The kernel's watches, its bounded queue (`Limit`) with merging
and overflow, and the descriptor table are separate variables. `HandleOverflow`,
`HandleUnknown`, `HandleSelf`, `HandleCreate`, `HandleWrite` and `HandleDelete` are the
branches of linux_process_event in the order of the code. Each directory has
one file, and every change by another program is an operation (`Operations`).
`past` has the places of each directory, `stray` those that no MOVE_SELF told of
and `missed` the directories with a version that nothing is bound to notice.

**Log** (log.c 5-204, queue.c 83-152, database.c 221-260). log_emit adds to the ring under the
state mutex and pushes in a second step; the writer pops, writes the file (and
gives it up at the first error), then inserts (preparing the statement once more
when the schema changed). The pop of the writer is in steps: it sleeps
(`PopEmpty`), wakes (`PopWoken`) or times out without a second look
(`PopTimesOut`), and a writer without a record asks in a further step whether the
queue is closed (`WriterLooks`). `StopWaits`, `StopWaitEnds`, `StopCloses` and
`StopJoins` are log_stop; `owed` has what was logged before it, `expired` says that
its ten seconds ran out.

**LogTail** (log.c 236-316). The text file is a sequence of bytes, of which
`Newline` is one. `TailOpen` finds the end, perhaps inside a line that is being
written; `FindStart` is the loop over chunks from the end, `Split` the one over
lines.

**Database** (database.c 32-219, 262-276, app.c 611-660). `link` is the state of
each connection: one of app_start, closed again before the log writer starts,
and one of the log writer. `transaction` is SQLite's one write transaction with the
columns it sees and those that migrate still has to look at. A statement may
fail at any point; a kill drops the transaction.

**Configuration** (config.c, web.c 423-578, app.c 830-870, cli.c). `file` is what
the name refers to, `disk` the set of what it may be after a power loss. A
request goes through config_post and config_save step by step: validate,
temporary file, flush, rename, flush of the directory (done, failing, or refused
and taken for done), flag, and then the state
that every answer contains (`LoadSaved`, `StoreFlag`: load the file, compare,
store the flag later). Paths are model values; `Within` is the relation that
path_is_within computes after resolving links, `Trimmed` what config_load makes
of a value that ends in a blank. A source can be unmounted, which validation notices.

## 3. Runs

All bounds are constants of the configuration. "States" are distinct states.

| Run | Bounds | States | Shows |
|---|---|---|---|
| pool | 3 events, 2 workers, 2 producers, stop may time out | 159,100 | the counter is exact; no lost wakeup; an accepted event is processed, also across a stop; refinement of TaskLedger; the scanner's wait and the stop end |
| copy | 2 copiers, 2 stamps, 2 inodes, 2 blocks, 2 attempts, 2 calls, 1 power loss, 1 fault, 1 mishap | 579,472 | the destination is always one whole version; reported copies survive where the directory can be flushed; no temporaries stay unless their last unlink fails; a skipped file is current; copy_file returns; a source that stays put is copied |
| restore | 2 files, 1 temporary, 2 workers, 1 client, 4 changes, scans and failing calls, 1 request, one or two filesystems | 4,089,107 | deleted contents are kept and restore names are not reused, but for the two clashes of workers; whenever no event is left, a path that no two workers shared is in the backup as in the source, restored files included, and the temporaries have left it |
| database | 2 processes, 1 probe, 2 starts, 2 columns to add, no table or an old one | 223,844 | one backup process; nothing left behind; consumers outlive producers; a stop ends; no half-migrated table; a log writer finds its columns |
| walk | 2 directories, one with a file, a file and a symbolic link, 2 changes, 1 fault, pages of 1 and 2 | 3,410,203 | success means complete; an undisturbed walk succeeds; a move removes only what it copied or what the copy was never shown; page after page shows every settled entry unless one vanishes |
| watch | 2 paths, 2 changes or faults, 2 records, native or polling, a scan at any time | 1,064,431 | no spurious DELETE; existing and deleted files converge, with every gap listed |
| inotify | 2 directories, nested or created, 2 names, depth 2, kernel queue of 2, 2 changes | 564,932 | changes are never reported under a path the directory had left, except below a moved one; files converge, with every gap listed |
| log | 2 producers, ring of 2, 2 and 1 records, lines of 1 and 3 bytes, chunks of 2, 1 fault | 711,346 | order in file and database; the ring shows the latest; stopping flushes what was logged before it, and ends; log_tail shows the last lines |
| config | 2 processes, 2 requests, 4 updates, 2 POSTs, 1 fault or unmount, 2 kills or power losses | 301,737 | the file is always whole and valid; a returned save survives where the directory can be flushed; restart_required becomes right |
| mirror_ghost | 1 path, 2 workers, 3 changes | violation | see findings |
| walk_errno | quiet tree, scan and listing | violation | see findings |
| inotify_move | one rename, after set-up and scan | violation | see findings |

**Why these bounds.** Two workers are the least for which a signal can go to the
wrong one; three events are the least for which a queue holds two while a third
is processed. One destination is enough for CopyFile, as copies to different
destinations share nothing; two stamps make an old and a new version, two blocks
a mixed file, two attempts a retry and a last attempt. The safety properties of
the copy are also proved, for every number of copiers and stamps. A restore with
a conflict needs a file that was created, deleted and created again, and a
temporary: four changes. They also contain create-delete-create-delete, the
least that needs a restore name twice and, with two workers, the least in which
both take the same one; create-delete-create is the least in which a removal
takes a newer version. Workers are symmetric in this run, whose properties are
all safety. Two columns make a migration with a
middle, two processes one that another waits for or repeats. Two requests are
the least for which one stores what it found before the other saved; the updates
are a path with a blank at its end, valid and invalid numbers, and a log inside
the source. Lines of three bytes over chunks of two begin and end at every place
of a chunk. A rename is two records, so two fit and a third overflows; two changes, or
one and a fault, fall into every gap between a scan and the watcher's first look.
One directory inside another is the least for which a move takes along one that
has no MOVE_SELF; a new directory with a new file is three messages for a queue
of two. With three changes and one directory at the start `inotify` passes too
(2,556,095 states), but not within minutes. Two
directories in the root are the least for which the end of one directory is not
the end of the walk and another follows it. Deadlock checking is off where the
system may stop: the models in which the bounded environment runs dry, and
processes that are off.

**Fairness.** Weak fairness for the threads of the service only: the operating
system runs every thread that can run. No fairness is assumed of other
programs, faults, timeouts, signals, kills, power losses, or of the start of a
process. In `WorkerPool` the watcher need not observe anything, but once it has
taken an event it goes on to push it, and it exits when stopping; the scan ends.
`Configuration` assumes that handlers go on, and strong fairness of the status
request of each process: the page polls it, and the service has a thread for it
now and then though not always. `Windows` and `Inotify` assume that the watcher thread, the
scan and the worker go on, `Log` that the writer and a log_stop do, `Database`
that a thread inside a database call does (BEGIN IMMEDIATE gives up after the
busy timeout). `Lifecycle` assumes of a role only that it ends once stopping is
set and its own exit condition holds.

## 4. Proofs

The proofs hold for every value of the constants that the named assumptions
allow: any finite number of workers, producers, events, copiers, stamps,
processes, any bound.

**WorkerPoolProofs** (from `PoolAssumption`: finitely many workers, at least
one; the threads are different). The inductive invariant is built in layers,
each needed by the next:
`Typed`; `Counted` = the exact counter with `StopOrder` (queue_destroy zeroes
the counter, right only because the workers are gone by then, and app_stop
leaves wait_empty on the counter, so neither can be proved alone); `Rested` =
the sleepers are really inside pop, and the two wakeup properties; `Placed` =
the queue is the tail of the accepted sequence and its head is what is finished
or held by a worker; `ScanTracked`; `Distinct` = no event is in two places, the
last piece for the refinement. Theorems: `TypeCorrect`, `CounterIsExact`,
`NoLostWakeup`, `StopJoinsProducers`, `ScanIsComplete`, `NothingLostAtStop`
(a stop processes every accepted event, `StopDrainsQueue`), and
`PoolImplementsLedger`: the pool implements the safety part of `TaskLedger`.

**CopyFileProofs** (from `CopyAssumption`). `CopyInv`: a modification time
identifies a state of the source; while the open source is unchanged since
fstat, the temporary is a prefix of it; a verified temporary is one state of
the source; what is, or after a power loss may be, at the destination is whole.
Theorems: `NoTornDestination`, `SkipIsSound` (for `Unit = 1`),
`TemporariesAreRemoved` (unless the last unlink fails), `ReportedCopyIsDurable`
(where the flush of the directory is not refused), `CopyTypeCorrect`.

**LifecycleProofs** (from `LifecycleAssumption`). `LifeInv` ties the running
roles, the closed queues and the lock to the position of the main thread.
Theorems: `LifecycleTypeCorrect`, `SingleInstance`, `CleanExit`,
`ConsumersOutliveProducers`.

**DatabaseProofs** (from `DatabaseAssumption`: every table has the primary key).
Every step is one of Lifecycle or leaves the processes alone:
`DatabaseImplementsLifecycle`, by which the theorems of LifecycleProofs hold here
too. `DInv`: only a connection that migrates has the transaction, which contains
all that is committed and all columns but those it will still look at; what
is `ready`, and a log writer, came after a commit. Without the part about the
columns still to be looked at, a commit would not be known to be complete.
Theorems: `MigrationAllOrNothing`, `WritersHaveTheirTable`.

**LogProofs** (no assumption is used). `LInv` counts: the queue is the end of the
accepted records, the record in hand the one before it, the text log the
beginning of them, and the rows come from what is done with; all this by
position, which is possible because no record is accepted twice (`Distinct`: a
producer numbers its calls). For log_stop it adds that a wait that ended in time
found neither a queued record nor one in hand, so that what comes after it was
not `owed`. Theorems: `StopFlushes`, `OutputsKeepOrder`.

**ConfigurationProofs** (from `ConfigurationAssumption` and `FirstAssumption`: the
installed configuration is valid). `CInv`: what is to be renamed was validated
and flushed (`Prepared`), every state of the disk is whole and none newer than
the file (`Kept`), and a save that returned is not newer than any of them
(`Ordered`). Theorem: `ConfigurationSurvives`.

`TypeOK` of WorkerPool, CopyFile and Lifecycle, `NoSleepWhenEmpty`,
`NoPushOnClosedQueue` and `StopDrainsQueue` are left to the theorems; the runs check
the rest.

Only model-checked: every liveness property (the prover has neither fairness nor
ENABLED); `RingShowsLatest`, whose arithmetic modulo a variable the provers do not
handle; `TailShowsLastLines`, since log_tail's loop is a recursive operator; and
the modules Mirror, Restore, Walk, Listing, Poll, Windows and Inotify, whose
invariants concern the order of a sequence of events or the shape of a tree.

## 5. Findings and limits of the code

Three disagreements between the code and its documentation have a run of their
own; `PROJECT.json` quotes the documentation.

* *mirror_ghost*: with two or more workers the DELETE of a file can be processed
  while another worker still copies it; the copy is committed afterwards and the
  deleted file stays in the backup (app.c:426).
* *walk_errno*: walk_internal takes an errno left by a successful callback for a
  failure of readdir (fs.c:783): the scan of a tree with directories ends early
  and part of it is not queued. restore_read_directory (fs.c:1305) is built alike:
  on Linux the listing of a restore directory with files in it fails. The
  shortest counterexample is a listing; with the scan alone in `Cases` TLC shows
  that of the scan. Both were confirmed by running the code.
* *inotify_move*: a renamed directory leaves the backup and is not copied under
  its new name (watcher_linux.c:155).

Others, met while modelling, limit what the passing runs state:

* more effects of two workers on one path: an older copy replaces a newer one,
  two deletions take the same restore name, and across filesystems the removal
  after the copy takes a version that was never copied (fs.c:955).
  docs/OPERATIONS.md:126 says that "deleted backup content is retained"; without
  their exception for `clashed` the restore run refutes `DeletedContentRetained` and
  `RestoreNamesNeverReused`. The default is four workers;
* where a filesystem refuses to flush a directory, copy_file and config_save
  report success all the same (fs.c:610-612), and a power loss may undo it;
* a temporary whose two unlinks fail stays beside the destination;
* move_path across filesystems lists the tree a second time to remove it: what
  another program put there after the copy had opened the directory is removed
  without a copy, and so is, on Windows, what a failing FindNextFile kept from
  the copy (fs.c:735). `MoveKeepsContent` excepts exactly these;
* a record logged while log_stop runs can be lost: the writer's pop has timed out
  before it was pushed and the writer finds the queue closed (log.c:68);
* `CopiedTreeIsReported` (Walk) fails: the errno above makes copy_tree report a
  complete copy as failed;
* `SkippedFileIsCurrent` fails for `Unit = 2`: where times are kept in coarse
  units, two writes of equal size in one unit look the same;
* `ExistingFilesConverge` (Windows) fails without its exception for `unnoticed`.
  The gaps: a change after the scan has passed a file and before the watcher's
  first look (app_start starts the watcher first but does not wait for it); under
  polling, a file renamed away while the scan passes and back before the next
  snapshot; a scan that ends early; an overflow while a scan is running, which
  initial_sync refuses; and records whose GetOverlappedResult failed.
  docs/ARCHITECTURE.md:70 says "Native watcher loss or overflow triggers
  reconciliation", which does not hold of the last two;
* on Windows a snapshot cut short by a failing FindNextFile counts as complete:
  the files it lacks are reported deleted, and created again by the next one;
* `NeverUnderAnOldPath` (Inotify) excepts `stray`: directories below a renamed one
  keep their old path in the table (watcher_linux.c:155 removes one entry);
* `WatchedFilesConverge` excepts `missed`: moved directories; what is written in a
  directory before its watch is set, if the scan does not come to it afterwards;
  what the scan does not reach when it ends early; what was lost in an overflow
  when a running scan had passed it; and files whose backup a DELETE under an
  outdated path took away;
* `RefusedByRunningProcess` (Lifecycle) fails: a start during a status probe is
  refused as if a process were running;
* restore_item looks for a file at its destination before it copies: one that
  appears in between is replaced, also with `fail` and `rename` (fs.c:1472), and
  two requests may choose the same destination. A temporary of a restore that a
  worker has backed up ends under restore, although nobody removed such a file;
* `AnswerIsRight` (Configuration) fails: the answer to a POST reads the flag a
  second time (web.c:551-554), when a status request that loaded the file before
  the save may have stored what it found; the next status request puts it right;
* config_post merges a partial update with the running configuration, not with
  the saved one (web.c:432): a second POST before the restart undoes the fields
  that only the first one changed;
* config_load trims values and config_save does not: a path that ends in a
  blank is read back as another one. If the directory cannot be flushed after the
  rename, config_save reports an error although the file was replaced;
* every page of a listing comes from a new look at the directory: after an entry
  has vanished the pages that follow may leave one out, and entries of equal time
  may change places between two requests;
* files deleted while the service is down stay in the backup, as the scan only
  queues CREATE; a first snapshot that fails ends the polling watcher.

## 6. Not modelled, and why

* Directory events in Mirror: Inotify has them, in one step each; the trees they
  move are Walk's.
* Permissions, ownership and symbolic links beyond "not a regular file"; the
  Windows copy, which has the steps of the POSIX one.
* Path text: resolve_links, path_is_within, safe_join, relative_path and the
  time-stamped restore names are functions of strings with no state. The models
  take the relation or the names they compute.
* The search in a listing, and how its orders compare names, times and sizes:
  Listing takes one order.
* Log texts, JSON, HTML, routing, authentication, parsing of the command line and
  the dashboard: formatting and I/O around the operations above. The counters of
  the initial synchronisation are only displayed.
* Service managers and scripts: sequences of external commands, whose state is
  that of systemd, launchd, the SCM or the file system of the installer.
* SQLite, CivetWeb and cJSON (vendored): of SQLite the transactions and of
  CivetWeb the threads that serve requests are taken from their use.

In numbers, the definitions stand for 39 % of the lines of the implementation; the
rest is what this list names.
