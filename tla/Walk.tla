-------------------------------- MODULE Walk --------------------------------
(***************************************************************************)
(* The recursive directory walk of fs.c, walk_internal, and the operations *)
(* built on it: the scan of initial_sync, the watches of inotify, the      *)
(* snapshot of the polling watcher, copy_tree, remove_path and move_path   *)
(* across filesystems.  restore_list reads one directory with a loop of    *)
(* its own that is built alike; Listing has its pages.  Other programs     *)
(* change the tree during the walk.                                        *)
(*                                                                         *)
(* On POSIX the walk tells the end of a directory from an error of readdir *)
(* by errno, which it clears before the first readdir only.  The variable  *)
(* errno is that of the walking thread: whatever a call leaves in it.      *)
(***************************************************************************)
EXTENDS Naturals, Sequences, FiniteSets, SequencesExt

CONSTANTS
    Root,           \* the directory that is walked
    Nodes,          \* the entries that may exist below it
    Dirs,           \* the nodes that are directories
    Special,        \* the nodes that are neither directories nor regular files
    Up,             \* node -> the directory that holds it
    Cases,          \* the operations to check: [job, posix], posix for the
                    \* POSIX branch of walk_internal, otherwise Windows
    MaxChanges,     \* bound on changes of the tree by other programs
    MaxFaults       \* bound on failing calls

ASSUME WalkAssumption ==
    /\ Root \notin Nodes
    /\ Dirs \subseteq Nodes
    /\ Special \subseteq Nodes \ Dirs
    /\ Up \in [Nodes -> Dirs \cup {Root}]
    /\ Cases \subseteq [job : {"scan", "watch", "snapshot", "copy_tree", "move_path", "list"},
                        posix : BOOLEAN]

VARIABLES
    present,        \* the nodes of the tree, and Root, that exist
    job,
    posix,
    pass,           \* the callbacks of the walks still to make, current first
    at,             \* where the walk is
    entry,          \* the entry being handled
    stack,          \* the open directories: [dir, rest], innermost last
    errno,
    out,            \* the entries handled by the current walk, in order
    target,         \* copy_tree: the entries that exist in the destination
    result,
    faults,
    changes,
    settled,        \* history: the nodes that no other program touched
    unshown,        \* history: the nodes that the listing of their directory
                    \* need not, or did not, have when they were to be copied
    removed         \* history: the nodes that remove_path removed

kind == <<job, posix>>
tree == <<present, changes, settled, unshown, removed>>
vars ==
    <<kind, tree, pass, at, entry, stack, errno, out, target, result, faults>>

Children(d) == {n \in Nodes : Up[n] = d}
Above[n \in Nodes] == {n} \cup IF Up[n] = Root THEN {} ELSE Above[Up[n]]

(* The walks each operation makes; "remove" stands for the removal of what *)
(* the walk before it collected.                                           *)
Passes ==
    [scan |-> <<"count", "enqueue">>,
     watch |-> <<"watch">>,
     snapshot |-> <<"snapshot">>,
     copy_tree |-> <<"copy">>,
     move_path |-> <<"copy", "collect", "remove">>,
     list |-> <<"list">>]

Init ==
    /\ present \in {{Root} \cup P : P \in SUBSET Nodes}
    /\ \A n \in present \cap Nodes : Up[n] \in present
    /\ \E c \in Cases : job = c.job /\ posix = c.posix
    /\ pass = Passes[job]
    /\ at = "open"
    /\ entry = Root
    /\ stack = <<>>
    /\ errno = "0"
    /\ out = <<>>
    /\ target = {}
    /\ result = "running"
    /\ faults = 0
    /\ changes = 0
    /\ settled = present
    /\ unshown = {}
    /\ removed = {}

-----------------------------------------------------------------------------
(* Other programs.  An open directory may or may not show an entry created *)
(* after it was opened.                                                    *)

Vanish(n) ==
    /\ changes < MaxChanges
    /\ n \in present
    /\ Children(n) \cap present = {}
    /\ changes' = changes + 1
    /\ present' = present \ {n}
    /\ settled' = settled \ {n}
    /\ UNCHANGED <<kind, unshown, removed, pass, at, entry, stack, errno, out, target, result, faults>>

(* The copy has still to open the directory of n.                          *)
ToBeCopied(n) ==
    /\ pass[1] = "copy"
    /\ IF Up[n] = Root THEN stack = <<>>
       ELSE Up[n] \notin target \/ (at = "open" /\ entry = Up[n])

Appear(n) ==
    /\ changes < MaxChanges
    /\ n \notin present
    /\ Up[n] \in present
    /\ changes' = changes + 1
    /\ present' = present \cup {n}
    /\ unshown' = IF job = "move_path" /\ ~ToBeCopied(n) THEN unshown \cup {n} ELSE unshown
    /\ \/ UNCHANGED stack
       \/ \E i \in DOMAIN stack :
             /\ stack[i].dir = Up[n]
             /\ stack' = [stack EXCEPT ![i].rest = @ \cup {n}]
    /\ UNCHANGED <<kind, settled, removed, pass, at, entry, errno, out, target, result, faults>>

-----------------------------------------------------------------------------
Op == Head(pass)
Fault == faults < MaxFaults /\ faults' = faults + 1

(* Mutant: the result of a walk is ignored.                                *)
WalkReturnsAnyway(ok) ==
    /\ stack' = <<>>
    /\ entry' = Root
    /\ IF Tail(pass) # <<>>
       THEN /\ pass' = Tail(pass)
            /\ at' = IF pass'[1] = "remove" THEN "remove" ELSE "open"
            /\ out' = IF pass'[1] = "remove" THEN out ELSE <<>>
            /\ UNCHANGED result
       ELSE /\ at' = "done"
            /\ result' = "ok"
            /\ UNCHANGED <<pass, out>>

(* The current walk has ended.  initial_sync makes its second walk even if *)
(* the first one failed; every other operation stops at a failure.         *)
WalkReturns(ok) ==
    /\ stack' = <<>>
    /\ entry' = Root
    /\ IF (ok \/ Op = "count") /\ Tail(pass) # <<>>
       THEN /\ pass' = Tail(pass)
            /\ at' = IF pass'[1] = "remove" THEN "remove" ELSE "open"
            /\ out' = IF pass'[1] = "remove" THEN out ELSE <<>>
            /\ result' = IF ok THEN result ELSE "errors"
       ELSE /\ at' = "done"
            /\ result' = IF ok /\ result = "running" THEN "ok" ELSE "failed"
            /\ UNCHANGED <<pass, out>>

(* opendir of the entry (FindFirstFile on Windows).                        *)
OpenDirectory ==
    /\ at = "open"
    /\ entry \in present
    /\ stack' = Append(stack, [dir |-> entry, rest |-> Children(entry) \cap present])
    /\ errno' = "0"
    /\ at' = "read"
    /\ UNCHANGED <<kind, tree, pass, entry, out, target, result, faults>>

OpenFails ==
    /\ at = "open"
    /\ \/ entry \notin present /\ UNCHANGED faults
       \/ Fault
    /\ errno' = "ENOENT"
    /\ WalkReturns(FALSE)
    /\ UNCHANGED <<kind, tree, target>>

(* readdir returns one more entry.                                         *)
ReadEntry ==
    /\ at = "read"
    /\ \E n \in Last(stack).rest :
          /\ entry' = n
          /\ stack' = [stack EXCEPT ![Len(stack)].rest = @ \ {n}]
    /\ at' = "lstat"
    /\ UNCHANGED <<kind, tree, pass, errno, out, target, result, faults>>

(* lstat: an entry that has gone and one that is neither a directory nor a *)
(* regular file are passed over.  Windows has the type from the listing.   *)
Lstat ==
    /\ at = "lstat"
    /\ Op # "list"
    /\ IF posix /\ entry \notin present
       THEN errno' = "ENOENT" /\ at' = "read"
       ELSE errno' = errno /\ at' = IF entry \in Special THEN "read" ELSE "callback"
    /\ UNCHANGED <<kind, tree, pass, entry, stack, out, target, result, faults>>

(* What a successful callback may leave in errno.  mkdirs meets existing   *)
(* parents whenever it is called; path_is_within of the enqueue calls      *)
(* realpath, which may set errno even though it succeeds.                  *)
Leaves(op, n) ==
    CASE op = "copy" -> {"EEXIST"}
      [] op = "enqueue" -> {errno, "EINVAL"}
      [] OTHER -> {errno}

(* sync_walk: a failing push is counted, and the walk goes on.             *)
EnqueueFails ==
    /\ at = "callback"
    /\ Op = "enqueue"
    /\ Fault
    /\ errno' = "EIO"
    /\ result' = "errors"
    /\ at' = IF entry \in Dirs THEN "open" ELSE "read"
    /\ UNCHANGED <<kind, tree, pass, entry, stack, out, target>>

(* sync_walk and initial_sync: the process is stopping.                    *)
ScanStops ==
    /\ \/ at = "callback" /\ Op \in {"count", "enqueue"}
       \/ at = "open" /\ entry = Root /\ Op = "enqueue"
    /\ at' = "done"
    /\ stack' = <<>>
    /\ entry' = Root
    /\ result' = "stopped"
    /\ UNCHANGED <<kind, tree, pass, errno, out, target, faults>>

(* sync_walk, add_directory, build_entry, copy_tree_entry, remove_collect. *)
(* The copy of a file, and the watch on a directory, need it to exist.     *)
Needed ==
    \/ Op = "copy" /\ entry \notin Dirs
    \/ Op = "watch" /\ entry \in Dirs
    \/ Op = "snapshot"

Callback ==
    /\ at = "callback"
    /\ Op # "list"
    /\ Needed => entry \in present
    /\ errno' \in Leaves(Op, entry)
    /\ out' = Append(out, entry)
    /\ target' = IF Op = "copy" THEN target \cup {entry} ELSE target
    /\ at' = IF entry \in Dirs THEN "open" ELSE "read"
    /\ UNCHANGED <<kind, tree, pass, entry, stack, result, faults>>

(* build_entry passes over an entry that has gone since.                   *)
SnapshotSkips ==
    /\ at = "callback"
    /\ Op = "snapshot"
    /\ entry \notin present
    /\ errno' = "ENOENT"
    /\ at' = IF entry \in Dirs THEN "open" ELSE "read"
    /\ UNCHANGED <<kind, tree, pass, entry, stack, out, target, result, faults>>

(* A failure of lstat, or of another callback, ends the walk.              *)
StepFails ==
    /\ \/ at = "lstat" /\ posix /\ Op # "list" /\ Fault
       \/ at = "callback" /\ Op \notin {"count", "enqueue"} /\ Fault
       \/ /\ at = "callback"
          /\ Needed
          /\ Op # "snapshot"
          /\ entry \notin present
          /\ UNCHANGED faults
    /\ errno' = "EIO"
    /\ WalkReturns(FALSE)
    /\ UNCHANGED <<kind, tree, target>>

(* Mutant: an error of readdir is taken for the end of the directory.      *)
EndOfDirectoryIgnoresErrors ==
    /\ at = "read"
    /\ (Last(stack).rest = {} /\ UNCHANGED faults) \/ Fault
    /\ IF Len(stack) = 1 THEN WalkReturns(TRUE)
       ELSE stack' = Front(stack) /\ UNCHANGED <<pass, at, entry, out, result>>
    /\ UNCHANGED <<kind, tree, errno, target>>

(* readdir returns NULL, at the end or, with errno set, because it failed; *)
(* on Windows nobody asks why FindNextFile returned FALSE.                 *)
EndOfDirectory ==
    /\ at = "read"
    /\ \/ Last(stack).rest = {} /\ UNCHANGED <<errno, faults>>
       \/ Fault /\ errno' = "EIO"
    /\ IF posix /\ errno' # "0" THEN WalkReturns(FALSE)
       ELSE IF Len(stack) = 1 THEN WalkReturns(TRUE)
       ELSE stack' = Front(stack) /\ UNCHANGED <<pass, at, entry, out, result>>
    /\ unshown' = IF job = "move_path" /\ Op = "copy" THEN unshown \cup Last(stack).rest ELSE unshown
    /\ UNCHANGED <<kind, present, changes, settled, removed, target>>

-----------------------------------------------------------------------------
(* restore_read_directory: fs_stat of the entry, on Windows too.  An entry *)
(* that has gone is passed over, and so is any other one of which fs_stat  *)
(* fails: a symbolic link, which is what Special stands for here.          *)
ListLookup ==
    /\ at = "lstat"
    /\ Op = "list"
    /\ \/ entry \notin present /\ errno' = "ENOENT" /\ at' = "read" /\ UNCHANGED faults
       \/ entry \in present \cap Special /\ errno' = "ELOOP" /\ at' = "read" /\ UNCHANGED faults
       \/ entry \in present \ Special /\ at' = "callback" /\ UNCHANGED <<errno, faults>>
       \/ Fault /\ errno' = "EACCES" /\ at' = "read"
    /\ UNCHANGED <<kind, tree, pass, entry, stack, out, target, result>>

(* The item.  safe_join calls realpath, and fs_exists looks for the        *)
(* destination in the source.                                              *)
ListItem ==
    /\ at = "callback"
    /\ Op = "list"
    /\ errno' \in {errno, "EINVAL", "ENOENT"}
    /\ out' = Append(out, entry)
    /\ at' = "read"
    /\ UNCHANGED <<kind, tree, pass, entry, stack, target, result, faults>>

-----------------------------------------------------------------------------
(* remove_path: unlink and rmdir what was collected, last one first, and   *)
(* then the root.                                                          *)

Removable(n) == n \in present /\ Children(n) \cap present = {}

Take(n) ==
    /\ IF Removable(n)
       THEN present' = present \ {n} /\ removed' = removed \cup {n}
       ELSE UNCHANGED <<present, removed>>
    /\ UNCHANGED <<kind, changes, settled, unshown, pass, entry, stack, errno, target, faults>>

(* Mutant: the collected entries are removed in the order of the walk.     *)
RemoveInOrder ==
    /\ at = "remove"
    /\ out # <<>>
    /\ Take(Head(out))
    /\ IF Removable(Head(out)) THEN out' = Tail(out) /\ UNCHANGED <<at, result>>
       ELSE at' = "done" /\ result' = "failed" /\ UNCHANGED out

RemoveCollected ==
    /\ at = "remove"
    /\ out # <<>>
    /\ Take(Last(out))
    /\ IF Removable(Last(out)) THEN out' = Front(out) /\ UNCHANGED <<at, result>>
       ELSE at' = "done" /\ result' = "failed" /\ UNCHANGED out

RemoveRoot ==
    /\ at = "remove"
    /\ out = <<>>
    /\ Take(Root)
    /\ at' = "done"
    /\ result' = IF Removable(Root) THEN "ok" ELSE "failed"
    /\ UNCHANGED out

RemoveFails ==
    /\ at = "remove"
    /\ Fault
    /\ at' = "done"
    /\ result' = "failed"
    /\ UNCHANGED <<kind, tree, pass, entry, stack, errno, out, target>>


-----------------------------------------------------------------------------
WalkStep ==
    \/ OpenDirectory \/ OpenFails \/ ReadEntry \/ Lstat \/ Callback
    \/ EnqueueFails \/ ScanStops \/ SnapshotSkips \/ StepFails \/ EndOfDirectory \/ ListLookup \/ ListItem
    \/ RemoveCollected \/ RemoveRoot \/ RemoveFails

Next == WalkStep \/ \E n \in Nodes : Vanish(n) \/ Appear(n)

Spec == Init /\ [][Next]_vars

-----------------------------------------------------------------------------
Quiet == changes = 0 /\ faults = 0
Handled == ToSet(out) \cup target

(* A walk that reports success has handed every entry that was there all   *)
(* along to its callback, whatever appeared, vanished or failed meanwhile. *)
(* Completeness of the scan, of the watches, of a snapshot and of a copied *)
(* tree all rest on it.  On Windows it needs FindNextFile not to fail: the *)
(* walk takes that for the end of the directory.                           *)
SuccessfulWalkIsComplete ==
    at = "done" /\ result = "ok" /\ job # "list" /\ (posix \/ faults = 0)
        => settled \ Special \subseteq Handled \cup {Root}

(* With nothing changing and nothing failing, a walk succeeds when its     *)
(* callback leaves errno alone, and so does every walk on Windows, unless  *)
(* the process is stopped.                                                 *)
UndisturbedWalkSucceeds ==
    at = "done" /\ Quiet /\ (posix => job \in {"watch", "snapshot"})
                  /\ present \cap Special = {}
        => result \in {"ok", "stopped"}

(* What move_path removes across filesystems is in the destination, or the *)
(* copy was never shown it, or a directory above it: remove_path lists the *)
(* tree anew, and removes also what another program put there after        *)
(* copy_tree had opened the directory and, on Windows, what a failing      *)
(* FindNextFile kept from copy_tree.  Nothing else is removed without a    *)
(* copy, whichever call fails.                                             *)
MoveKeepsContent ==
    \A n \in removed \ {Root} : n \in target \/ Above[n] \cap unshown # {}

(* With nothing changing and nothing failing, the startup scan hands every *)
(* file of the source to the queue, and a directory of restore is listed.  *)
QuietWalkDelivers ==
    at = "done" /\ result # "stopped" /\ Quiet =>
        /\ job = "scan" => present \ (Special \cup {Root}) \subseteq Handled
        /\ job = "list" => result = "ok"

(* A directory copied completely and without any failing call is reported  *)
(* as restored.                                                            *)
CopiedTreeIsReported == at = "done" /\ job = "copy_tree" /\ Quiet => result = "ok"
=============================================================================
