------------------------------ MODULE CopyFile ------------------------------
(***************************************************************************)
(* The file commit protocol of fs.c: copy_file copies a source file, which *)
(* other programs keep changing, into a temporary file next to the         *)
(* destination, verifies that the source did not change meanwhile, makes   *)
(* the temporary durable and renames it over the destination.  Several     *)
(* threads may copy to the same destination, and the machine may lose      *)
(* power at any step.                                                      *)
(*                                                                         *)
(* A file is a sequence of blocks.  The value of a block is the            *)
(* modification time of the write that made it, so two files with equal    *)
(* blocks have equal contents.                                             *)
(***************************************************************************)
EXTENDS Integers, Sequences, FiniteSets

CONSTANTS
    Copiers,        \* threads that run copy_file on this destination
    Stamps,         \* modification times; each is used for one write only
    Inodes,         \* inodes the source path can refer to
    First,          \* the one it refers to at first
    MaxBlocks,      \* bound on the size of a file
    Attempts,       \* the attempts argument of copy_file (4 in the callers)
    MaxCrashes,     \* bound on power losses
    MaxFaults,      \* bound on failing calls that the next attempt makes good
    MaxMishaps,     \* bound on the others: see Mishap
    MaxCalls,       \* bound on calls of copy_file
    Unit,           \* stat reports modification times in this unit
    Gone            \* no file

OwnTime == -1       \* the time a copy has before it receives its source's

Files == [data : Seq(Stamps), mtime : Stamps]
Temporaries ==
    [data : Seq(Stamps), mtime : Stamps \cup {OwnTime}, synced : BOOLEAN]
Destinations ==
    [data : Seq(Stamps), mtime : Stamps \cup {OwnTime}, synced : BOOLEAN,
     seq : Nat]

ASSUME CopyAssumption ==
    /\ Stamps \subseteq Nat
    /\ MaxBlocks \in Nat \ {0}
    /\ Attempts \in Nat \ {0}
    /\ Unit \in Nat \ {0}
    /\ First \in Inodes
    /\ Gone \notin Inodes
    /\ Gone \notin Destinations

VARIABLES
    inode,          \* inode -> [data, mtime], or Gone while it is unused
    link,           \* the inode the source path names, or Gone
    dest,           \* the destination: [data, mtime, synced, seq], or Gone
    onDisk,         \* the destinations that a power loss may leave
    temp,           \* each copier's temporary file, or Gone
    fd,             \* the source inode each copier has open
    before,         \* what fstat said when the copier opened the source
    attempt,
    pc,
    crashes,
    faults,
    mishaps,
    calls,
    renames,        \* history: number of renames over the destination
    acked,          \* history: the newest rename reported after a flush of the directory
    unseen,         \* history: copiers whose look at the source failed in this call
    littered,       \* history: copiers whose last unlink of a temporary has failed
    seen            \* history: every state the source file ever had

env == <<inode, link, seen>>
disk == <<dest, onDisk>>
bounds == <<crashes, faults, mishaps, calls>>
history == <<renames, acked, unseen, littered>>
vars == <<env, disk, temp, fd, before, attempt, pc, bounds, history>>

Fresh == Stamps \ {f.mtime : f \in seen}

Init ==
    /\ \E m \in Stamps :
          /\ inode = [j \in Inodes |->
                        IF j = First THEN [data |-> <<m>>, mtime |-> m] ELSE Gone]
          /\ link = First
          /\ seen = {[data |-> <<m>>, mtime |-> m]}
    /\ dest = Gone
    /\ onDisk = {Gone}
    /\ temp = [c \in Copiers |-> Gone]
    /\ fd = [c \in Copiers |-> Gone]
    /\ before = [c \in Copiers |-> Gone]
    /\ attempt = [c \in Copiers |-> 0]
    /\ pc = [c \in Copiers |-> "idle"]
    /\ crashes = 0
    /\ faults = 0
    /\ mishaps = 0
    /\ calls = 0
    /\ renames = 0
    /\ acked = 0
    /\ unseen = {}
    /\ littered = {}

-----------------------------------------------------------------------------
(* The programs that own the source.  Every write takes a modification     *)
(* time of its own, not necessarily a later one (see Unit and the README   *)
(* for coarse clocks).                                                     *)

BecomesSource(i, data, m) ==
    /\ inode' = [inode EXCEPT ![i] = [data |-> data, mtime |-> m]]
    /\ link' = i
    /\ seen' = seen \cup {[data |-> data, mtime |-> m]}

WriteInPlace(m) ==
    /\ link # Gone
    /\ LET d == inode[link].data IN
       \/ \E k \in DOMAIN d : BecomesSource(link, [d EXCEPT ![k] = m], m)
       \/ Len(d) < MaxBlocks /\ BecomesSource(link, Append(d, m), m)
       \/ d # <<>> /\ BecomesSource(link, <<>>, m)

(* A new file is renamed over the source path, or created there.           *)
ReplaceSource(m) ==
    \E i \in Inodes : inode[i] = Gone /\ BecomesSource(i, <<m>>, m)

RemoveSource ==
    /\ link # Gone
    /\ link' = Gone
    /\ UNCHANGED <<inode, seen>>

SourceStep ==
    /\ \/ \E m \in Fresh : WriteInPlace(m) \/ ReplaceSource(m)
       \/ RemoveSource
    /\ UNCHANGED <<disk, temp, fd, before, attempt, pc, bounds, history>>

-----------------------------------------------------------------------------
(* fs_stat and files_need_copy, the test made before copy_file.            *)

StatTime(f) == f.mtime \div Unit

(* Mutant: only a later source is copied.                                  *)
NeedsCopyIfNewer(f, d) == Len(f.data) # Len(d.data) \/ StatTime(f) > StatTime(d)

NeedsCopy(f, d) == Len(f.data) # Len(d.data) \/ StatTime(f) # StatTime(d)

-----------------------------------------------------------------------------
(* copy_file and copy_file_once_posix.                                     *)

Goto(c, label) == pc' = [pc EXCEPT ![c] = label]

Fault == faults < MaxFaults /\ faults' = faults + 1

(* Failures that no further attempt makes good: the destination cannot be  *)
(* prepared, the source cannot be looked at, a temporary cannot be         *)
(* removed, the directory cannot be flushed but the code goes on.          *)
Mishap == mishaps < MaxMishaps /\ mishaps' = mishaps + 1

Begin(c) ==
    /\ pc[c] \in {"idle", "ok", "failed"}
    /\ calls < MaxCalls
    /\ calls' = calls + 1
    /\ attempt' = [attempt EXCEPT ![c] = 0]
    /\ unseen' = unseen \ {c}
    /\ \/ Goto(c, "attempt") /\ UNCHANGED mishaps
       \/ Goto(c, "failed") /\ Mishap       \* prepare_destination fails
    /\ UNCHANGED <<env, disk, temp, fd, before, crashes, faults, renames, acked, littered>>

(* The test for a regular source at the start of every attempt.  When it   *)
(* fails, for whatever reason, copy_file returns at once.                  *)
CheckSource(c) ==
    /\ pc[c] = "attempt"
    /\ \/ /\ Goto(c, IF link = Gone THEN "failed" ELSE "open")
          /\ UNCHANGED <<mishaps, unseen>>
       \/ /\ Mishap                         \* lstat fails
          /\ Goto(c, "failed")
          /\ unseen' = unseen \cup {c}
    /\ UNCHANGED <<env, disk, temp, fd, before, attempt, crashes, faults, calls, renames, acked,
                   littered>>

(* open and fstat of the source, exclusive creation of the temporary.  The *)
(* name holds the process id, a monotonic time and the attempt: it is new. *)
Open(c) ==
    /\ pc[c] = "open"
    /\ link # Gone
    /\ fd' = [fd EXCEPT ![c] = link]
    /\ before' = [before EXCEPT ![c] = inode[link]]
    /\ temp' = [temp EXCEPT ![c] =
                   [data |-> <<>>, mtime |-> OwnTime, synced |-> FALSE]]
    /\ Goto(c, "read")
    /\ UNCHANGED <<env, disk, attempt, bounds, history>>

(* One turn of the read/write loop; the end of the file leads to the       *)
(* verification.                                                           *)
Read(c) ==
    /\ pc[c] = "read"
    /\ LET k == Len(temp[c].data) + 1
           d == inode[fd[c]].data
       IN  IF k <= Len(d)
           THEN /\ temp' = [temp EXCEPT ![c].data = Append(@, d[k])]
                /\ UNCHANGED pc
           ELSE /\ Goto(c, "verify")
                /\ UNCHANGED temp
    /\ UNCHANGED <<env, disk, fd, before, attempt, bounds, history>>

(* Mutant: the modification time is not compared.                          *)
SourceSameSize(c) ==
    /\ Len(before[c].data) = Len(inode[fd[c]].data)
    /\ Len(temp[c].data) = Len(before[c].data)

(* The second fstat: size, modification time and the number of copied      *)
(* bytes must match the first one.                                         *)
SourceStable(c) ==
    LET after == inode[fd[c]] IN
    /\ Len(before[c].data) = Len(after.data)
    /\ Len(temp[c].data) = Len(before[c].data)
    /\ before[c].mtime = after.mtime

(* Mutant: wait for the source to become stable instead of starting over.  *)
VerifyWaits(c) ==
    /\ pc[c] = "verify"
    /\ SourceStable(c)
    /\ temp' = [temp EXCEPT ![c].mtime = before[c].mtime]
    /\ Goto(c, "flush")
    /\ UNCHANGED <<env, disk, fd, before, attempt, bounds, history>>

(* A verified copy receives the source's time; the code ignores a failure  *)
(* of futimens.                                                            *)
Verify(c) ==
    /\ pc[c] = "verify"
    /\ \/ /\ SourceStable(c)
          /\ temp' = [temp EXCEPT ![c].mtime = before[c].mtime]
          /\ Goto(c, "flush")
          /\ UNCHANGED faults
       \/ /\ SourceStable(c)
          /\ Fault
          /\ Goto(c, "flush")
          /\ UNCHANGED temp
       \/ /\ ~SourceStable(c)
          /\ Goto(c, "unlink")
          /\ UNCHANGED <<temp, faults>>
    /\ UNCHANGED <<env, disk, fd, before, attempt, crashes, mishaps, calls, history>>

Flush(c) ==
    /\ pc[c] = "flush"
    /\ temp' = [temp EXCEPT ![c].synced = TRUE]
    /\ Goto(c, "rename")
    /\ UNCHANGED <<env, disk, fd, before, attempt, bounds, history>>

(* atomic_replace: the rename is visible at once, but until the parent     *)
(* directory is flushed a power loss may bring back an older entry.        *)
Rename(c) ==
    /\ pc[c] = "rename"
    /\ renames' = renames + 1
    /\ dest' = [data |-> temp[c].data, mtime |-> temp[c].mtime,
                synced |-> temp[c].synced, seq |-> renames + 1]
    /\ onDisk' = onDisk \cup {dest'}
    /\ temp' = [temp EXCEPT ![c] = Gone]
    /\ before' = [before EXCEPT ![c] = Gone]
    /\ fd' = [fd EXCEPT ![c] = Gone]
    /\ Goto(c, "flush_parent")
    /\ UNCHANGED <<env, attempt, bounds, acked, unseen, littered>>

(* Mutant: success is reported without the flush of the parent directory.  *)
FlushParentSkipped(c) ==
    /\ pc[c] = "flush_parent"
    /\ acked' = IF dest.seq > acked THEN dest.seq ELSE acked
    /\ Goto(c, "ok")
    /\ UNCHANGED <<env, disk, temp, fd, before, attempt, bounds, renames, unseen, littered>>

(* sync_parent_directory.  A filesystem that refuses to flush a directory  *)
(* (EINVAL, EROFS) is not held against the copy: it is reported as done.   *)
FlushParent(c) ==
    /\ pc[c] = "flush_parent"
    /\ \/ /\ onDisk' = {dest}
          /\ acked' = IF dest.seq > acked THEN dest.seq ELSE acked
          /\ UNCHANGED mishaps
       \/ /\ Mishap
          /\ UNCHANGED <<onDisk, acked>>
    /\ Goto(c, "ok")
    /\ UNCHANGED <<env, dest, temp, fd, before, attempt, crashes, faults, calls, renames, unseen,
                   littered>>

(* Any system call of the attempt may fail; open also fails when the       *)
(* source has gone.  copy_file_once then removes its file; a failure of    *)
(* atomic_replace, even one of the flush after the rename, leaves that to  *)
(* copy_file.                                                              *)
StepFails(c) ==
    /\ \/ pc[c] = "open" /\ link = Gone /\ UNCHANGED faults
       \/ Fault
    /\ \/ pc[c] \in {"open", "read", "verify", "flush"} /\ Goto(c, "unlink")
       \/ pc[c] \in {"rename", "flush_parent"} /\ Goto(c, "cleanup")
    /\ UNCHANGED <<env, disk, temp, fd, before, attempt, crashes, mishaps, calls, history>>

(* The end of copy_file_once after a failure: the files are closed and the *)
(* temporary is unlinked; that this fails is ignored.                      *)
Unlink(c) ==
    /\ pc[c] = "unlink"
    /\ fd' = [fd EXCEPT ![c] = Gone]
    /\ before' = [before EXCEPT ![c] = Gone]
    /\ \/ temp' = [temp EXCEPT ![c] = Gone] /\ UNCHANGED mishaps
       \/ temp[c] # Gone /\ Mishap /\ UNCHANGED temp
    /\ Goto(c, "cleanup")
    /\ UNCHANGED <<env, disk, attempt, crashes, faults, calls, history>>

(* Sleep and try again while attempts remain.                              *)
TryAgain(c) ==
    IF attempt[c] + 1 < Attempts
    THEN attempt' = [attempt EXCEPT ![c] = @ + 1] /\ Goto(c, "attempt")
    ELSE Goto(c, "failed") /\ UNCHANGED attempt

(* Mutants of Cleanup: the temporary is left to copy_file_once; the first  *)
(* failure is final.                                                       *)
CleanupKeepsFile(c) ==
    /\ pc[c] = "cleanup"
    /\ TryAgain(c)
    /\ fd' = [fd EXCEPT ![c] = Gone]
    /\ before' = [before EXCEPT ![c] = Gone]
    /\ UNCHANGED <<env, disk, temp, bounds, history>>

CleanupGivesUp(c) ==
    /\ pc[c] = "cleanup"
    /\ temp' = [temp EXCEPT ![c] = Gone]
    /\ fd' = [fd EXCEPT ![c] = Gone]
    /\ before' = [before EXCEPT ![c] = Gone]
    /\ Goto(c, "failed")
    /\ UNCHANGED <<env, disk, attempt, bounds, history>>

(* copy_file unlinks the temporary once more, ignoring a failure again,    *)
(* and goes on to the next attempt, whose temporary has another name.      *)
Cleanup(c) ==
    /\ pc[c] = "cleanup"
    /\ TryAgain(c)
    /\ fd' = [fd EXCEPT ![c] = Gone]
    /\ before' = [before EXCEPT ![c] = Gone]
    /\ \/ /\ temp' = [temp EXCEPT ![c] = Gone]
          /\ UNCHANGED <<mishaps, littered>>
       \/ /\ temp[c] # Gone
          /\ Mishap
          /\ littered' = littered \cup {c}
          /\ UNCHANGED temp
    /\ UNCHANGED <<env, disk, crashes, faults, calls, renames, acked, unseen>>

-----------------------------------------------------------------------------
(* Power loss: a file that was not flushed keeps an arbitrary prefix of    *)
(* its blocks, and the destination is one of the entries on the disk.      *)
(* Temporary files stay behind under names no later copy uses.             *)
Surviving(d) ==
    IF d = Gone \/ (d # Gone /\ d.synced) THEN {d}
    ELSE {[d EXCEPT !.data = SubSeq(d.data, 1, n)] : n \in 0..Len(d.data)}

PowerLoss ==
    /\ crashes < MaxCrashes
    /\ crashes' = crashes + 1
    /\ \E d \in onDisk : \E s \in Surviving(d) : dest' = s
    /\ onDisk' = {dest'}
    /\ temp' = [c \in Copiers |-> Gone]
    /\ fd' = [c \in Copiers |-> Gone]
    /\ before' = [c \in Copiers |-> Gone]
    /\ attempt' = [c \in Copiers |-> 0]
    /\ pc' = [c \in Copiers |-> "idle"]
    /\ UNCHANGED <<env, faults, mishaps, calls, history>>

CopierStep(c) ==
    \/ CheckSource(c) \/ Open(c) \/ Read(c) \/ Verify(c) \/ Flush(c)
    \/ Rename(c) \/ FlushParent(c) \/ StepFails(c) \/ Unlink(c) \/ Cleanup(c)

Next ==
    \/ SourceStep
    \/ \E c \in Copiers : Begin(c) \/ CopierStep(c)
    \/ PowerLoss

Spec == Init /\ [][Next]_vars

(* A thread inside copy_file keeps going.                                  *)
FairSpec == Spec /\ \A c \in Copiers : WF_vars(CopierStep(c))

-----------------------------------------------------------------------------
Labels == {"idle", "attempt", "open", "read", "verify", "flush", "rename",
           "flush_parent", "unlink", "cleanup", "ok", "failed"}

(* Every variable of the copy has its type.                                *)
TypeOK ==
    /\ inode \in [Inodes -> Files \cup {Gone}]
    /\ link \in Inodes \cup {Gone}
    /\ dest \in Destinations \cup {Gone}
    /\ onDisk \subseteq Destinations \cup {Gone}
    /\ temp \in [Copiers -> Temporaries \cup {Gone}]
    /\ fd \in [Copiers -> Inodes \cup {Gone}]
    /\ before \in [Copiers -> Files \cup {Gone}]
    /\ attempt \in [Copiers -> 0..(Attempts - 1)]
    /\ pc \in [Copiers -> Labels]
    /\ seen \subseteq Files
    /\ {crashes, faults, mishaps, calls, renames, acked} \subseteq Nat
    /\ unseen \subseteq Copiers
    /\ littered \subseteq Copiers

(* d has the blocks of one state of the source, and its time if any.       *)
CopyOf(d, f) == d.data = f.data /\ d.mtime \in {f.mtime, OwnTime}

(* The destination never holds a partial or a mixed copy: its blocks and   *)
(* its modification time are those the source had at one instant, however  *)
(* writers, copiers, failing system calls and power losses interleave.     *)
DestinationWhole == dest # Gone => \E f \in seen : CopyOf(dest, f)

(* Once copy_file has reported success and the directory could be flushed, *)
(* no power loss brings an older destination back.  Where the filesystem   *)
(* refuses that flush, success says nothing of a power loss.               *)
ReportedCopySurvives == acked > 0 => dest # Gone /\ dest.seq >= acked

(* A call that returned, and an attempt that starts, leave no temporary    *)
(* file of theirs behind, even if the rename or one of the two unlinks     *)
(* failed.  When the last unlink of a temporary fails as well, the file    *)
(* stays for good, and nothing is claimed of that copier any more.         *)
NoTemporaryLeft ==
    \A c \in Copiers \ littered :
        pc[c] \in {"attempt", "ok", "failed"} => temp[c] = Gone

(* The size and time comparison of files_need_copy skips a file only when  *)
(* the destination already has its contents.                               *)
SkippedFileIsCurrent ==
    link # Gone /\ dest # Gone /\ ~NeedsCopy(inode[link], dest)
        => inode[link].data = dest.data

(* When a source no longer changes while it is copied, copy_file succeeds  *)
(* although calls within its attempts fail, as long as those are fewer     *)
(* than the attempts.  The look at the source before each attempt is       *)
(* another matter: copy_file does not try again after one that fails.      *)
StableSourceIsCopied ==
    \A c \in Copiers :
        pc[c] = "attempt" /\ attempt[c] = 0 /\ Fresh = {} /\ link # Gone
            ~> pc[c] = "ok" \/ link = Gone \/ crashes > 0 \/ c \in unseen

(* Every call of copy_file returns.                                        *)
CopyReturns ==
    \A c \in Copiers : pc[c] = "attempt" ~> pc[c] \in {"idle", "ok", "failed"}
=============================================================================
