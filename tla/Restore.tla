------------------------------ MODULE Restore -------------------------------
(***************************************************************************)
(* Putting files back: restore_item of fs.c, called by the Web server, by  *)
(* restore-copy and by the restore browser, next to the workers of Mirror  *)
(* and to the programs that use the source.  restore_item copies into the  *)
(* source tree with copy_file, so the watcher reports its temporary files  *)
(* and its result like those of any other program.                         *)
(***************************************************************************)
EXTENDS Mirror, Functions

CONSTANTS
    Users,          \* the paths that other programs use
    Wanted,         \* those that the requests name
    Names,          \* path -> the names unique_restored_path tries, in order
    Clients,
    Temporary,      \* client -> its temporary file in the source tree
    MaxRequests     \* bound on the calls of restore_item

ASSUME RestoreAssumption ==
    /\ Users \subseteq Paths
    /\ Wanted \subseteq Users
    /\ Names \in [Wanted -> Seq(Paths)]
    /\ Temporary \in [Clients -> Paths \ Users]
    /\ IsInjective(Temporary)
    /\ MaxRequests \in Nat

VARIABLES
    request,        \* client -> where it is in restore_item, and its variables
    asked

restoreVars == <<vars, request, asked>>
trees == <<backup, restore, job, scans, oneDevice, faults, removed, history>>

NoRequest == [at |-> "idle"]

RestoreInit ==
    /\ Init
    /\ request = [c \in Clients |-> NoRequest]
    /\ asked = 0

Step(c, r) == request' = [request EXCEPT ![c] = r]
Answer(c) == Step(c, NoRequest)
Item(p) == restore[p][0]

-----------------------------------------------------------------------------
(* The callers.  Items with a time in their name are restored like others, *)
(* to a path of their own; only the plain names are modelled.  The browser *)
(* shows whether the destination exists, if its listing succeeds, and the  *)
(* user's choice comes later.                                              *)

Ask(c, p, strategy) ==
    /\ asked < MaxRequests
    /\ asked' = asked + 1
    /\ Step(c, [at |-> "look", path |-> p, strategy |-> strategy, target |-> p])
    /\ UNCHANGED vars

RestorePost(c) ==
    /\ request[c] = NoRequest
    /\ \E p \in Wanted, strategy \in {"fail", "rename", "overwrite"} : Ask(c, p, strategy)

RestoreCopy(c) ==
    /\ request[c] = NoRequest
    /\ \E p \in Wanted, rename, overwrite \in BOOLEAN :
          Ask(c, p, IF rename THEN "rename" ELSE IF overwrite THEN "overwrite" ELSE "fail")

BrowserLists(c) ==
    /\ request[c] = NoRequest
    /\ asked < MaxRequests
    /\ \E p \in Wanted :
          /\ Item(p) # Absent
          /\ Step(c, [at |-> "choose", path |-> p, conflict |-> Exists(p)])
    /\ UNCHANGED <<vars, asked>>

BrowserChooses(c) ==
    /\ request[c].at = "choose"
    /\ \/ ~request[c].conflict /\ Ask(c, request[c].path, "fail")
       \/ request[c].conflict /\ \E s \in {"rename", "overwrite"} : Ask(c, request[c].path, s)
       \/ Answer(c) /\ UNCHANGED <<vars, asked>>

-----------------------------------------------------------------------------
(* restore_item, for a file; a directory goes through copy_tree (Walk).    *)

(* The item and the destination are looked up; an existing destination is  *)
(* refused, renamed or replaced.                                           *)
Look(c) ==
    /\ request[c].at = "look"
    /\ LET exists == Exists(request[c].path)
           strategy == request[c].strategy
       IN  IF \/ Item(request[c].path) = Absent
              \/ exists /\ strategy = "fail"
           THEN Answer(c)                   \* NOT_FOUND, EXISTS
           ELSE Step(c, [request[c] EXCEPT
                            !.at = IF exists /\ strategy = "rename" THEN "name" ELSE "copy"])
    /\ UNCHANGED <<vars, asked>>

(* unique_restored_path.  The path itself may have become free again.      *)
FreeNames(p) == SelectSeq(<<p>> \o Names[p], LAMBDA q : ~Exists(q))

ChooseName(c) ==
    /\ request[c].at = "name"
    /\ FreeNames(request[c].path) # <<>>    \* the code has 100000 names
    /\ Step(c, [request[c] EXCEPT !.at = "copy",
                                  !.target = Head(FreeNames(request[c].path))])
    /\ UNCHANGED <<vars, asked>>

(* copy_file: the copy is made under a temporary name, which the watcher   *)
(* reports, and has the time of the item, hence its version.               *)
MakeTemporary(c) ==
    /\ request[c].at = "copy"
    /\ Undisturbed
    /\ changes' = changes + 1
    /\ source' = [source EXCEPT
                    ![Temporary[c]] = [ino |-> NewVersion, ver |-> Item(request[c].path)]]
    /\ events' = events \o <<Event("CREATE", Temporary[c]), Event("MODIFY", Temporary[c])>>
    /\ Step(c, [request[c] EXCEPT !.at = "commit"])
    /\ UNCHANGED <<trees, asked>>

(* Mutant: the copy is written to its place without a new name.            *)
CommitUnseen(c) ==
    /\ request[c].at = "commit"
    /\ source' = [source EXCEPT ![Temporary[c]] = NoFile,
                                ![request[c].target] = source[Temporary[c]]]
    /\ events' = Append(events, Event("DELETE", Temporary[c]))
    /\ Answer(c)
    /\ UNCHANGED <<trees, changes, asked>>

(* atomic_replace.                                                         *)
Commit(c) ==
    /\ request[c].at = "commit"
    /\ source' = [source EXCEPT ![Temporary[c]] = NoFile,
                                ![request[c].target] = source[Temporary[c]]]
    /\ events' = events \o <<Event("DELETE", Temporary[c]), Event("CREATE", request[c].target)>>
    /\ Answer(c)
    /\ UNCHANGED <<trees, changes, asked>>

(* The last attempt fails and its temporary is removed.                    *)
CopyFails(c) ==
    /\ request[c].at = "commit"
    /\ source' = [source EXCEPT ![Temporary[c]] = NoFile]
    /\ events' = Append(events, Event("DELETE", Temporary[c]))
    /\ Answer(c)
    /\ UNCHANGED <<trees, changes, asked>>

-----------------------------------------------------------------------------
Programs ==
    \/ \E p \in Users : Create(p) \/ Write(p) \/ Delete(p) \/ Scan(p)
    \/ \E p, q \in Users : Move(p, q)
Backup == \E w \in Workers : WorkerStep(w)

Restoring(c) ==
    Look(c) \/ ChooseName(c) \/ MakeTemporary(c) \/ Commit(c) \/ CopyFails(c)

RestoreNext ==
    \/ (Programs \/ Backup) /\ UNCHANGED <<request, asked>>
    \/ \E c \in Clients :
          RestorePost(c) \/ RestoreCopy(c) \/ BrowserLists(c) \/ BrowserChooses(c)
             \/ Restoring(c)

RestoreSpec == RestoreInit /\ [][RestoreNext]_restoreVars

-----------------------------------------------------------------------------
(* Whenever all events have been processed the backup is the source again: *)
(* what was restored is backed up, and the temporaries that the watcher    *)
(* reported are out of the backup.  Excepted are the paths that two        *)
(* workers were processing at once and those whose last event failed.      *)
RestoredIsBackedUp ==
    Quiescent => \A p \in Paths \ (contended \cup failed) : backup[p] = Ver(p)
=============================================================================
