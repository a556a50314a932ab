--------------------------- MODULE CopyFileProofs ---------------------------
(***************************************************************************)
(* Proofs about CopyFile, for any number of copiers, any sizes of files,   *)
(* any number of failures and of power losses.  The argument: a            *)
(* modification time identifies a state of the source, so an open source   *)
(* that has left the state `before` never returns to it; while it has not  *)
(* left it, the temporary is a prefix of it.                               *)
(***************************************************************************)
EXTENDS CopyFile, TLAPS

(* A modification time belongs to one state of the source only.            *)
TimesIdentify == \A f, g \in seen : f.mtime = g.mtime => f = g

(* The source path names a file that has a recorded state.                 *)
LinkSeen == link # Gone => link \in Inodes /\ inode[link] \in seen

(* s is a prefix of d.                                                     *)
PrefixOf(s, d) == Len(s) <= Len(d) /\ \A k \in 1..Len(s) : s[k] = d[k]

(* A copier that reads has the source open; unless the source has changed  *)
(* since, what it has copied is a prefix of what fstat reported.           *)
Reading(c) ==
    /\ temp[c] \in Temporaries
    /\ fd[c] \in Inodes
    /\ inode[fd[c]] \in seen
    /\ before[c] \in seen
    /\ inode[fd[c]] = before[c] => PrefixOf(temp[c].data, before[c].data)
    /\ temp[c].mtime = OwnTime

(* A verified temporary is a state of the source.                          *)
Verified(c) ==
    /\ temp[c] \in Temporaries
    /\ \E f \in seen : CopyOf(temp[c], f)

(* What each position of copy_file says of the temporary.                  *)
CopierOK(c) ==
    /\ pc[c] \in {"read", "verify"} => Reading(c)
    /\ pc[c] \in {"flush", "rename"} => Verified(c)
    /\ pc[c] = "rename" => temp[c].synced

(* A destination, visible or on the disk, is flushed and whole.            *)
Whole(d) ==
    d # Gone => /\ d.synced = TRUE
                /\ \E f \in seen : CopyOf(d, f)

(* The inductive invariant: DestinationWhole is not inductive by itself,   *)
(* it needs what the temporaries hold, and that needs the identity of the  *)
(* modification times.                                                     *)
CopyInv ==
    /\ seen \subseteq Files
    /\ inode \in [Inodes -> Files \cup {Gone}]
    /\ temp \in [Copiers -> Temporaries \cup {Gone}]
    /\ fd \in [Copiers -> Inodes \cup {Gone}]
    /\ before \in [Copiers -> Files \cup {Gone}]
    /\ pc \in [Copiers -> Labels]
    /\ TimesIdentify
    /\ LinkSeen
    /\ \A c \in Copiers : CopierOK(c)
    /\ Whole(dest)
    /\ \A d \in onDisk : Whole(d)

(* A write to the source, in place or by replacement, takes a new time: an *)
(* open source that was `before` no longer is, and never will be.          *)
LEMMA SourceWrites ==
    ASSUME CopyInv, NEW i \in Inodes, NEW m \in Fresh, NEW data \in Seq(Stamps),
           BecomesSource(i, data, m),
           UNCHANGED <<disk, temp, fd, before, attempt, pc, bounds, history>>
    PROVE  CopyInv'
<1> DEFINE f == [data |-> data, mtime |-> m]
<1> USE CopyAssumption
<1>1. f \in Files /\ \A g \in seen : g.mtime # m
  BY DEF Fresh, Files
<1>2. inode' = [inode EXCEPT ![i] = f] /\ link' = i /\ seen' = seen \cup {f}
  BY DEF BecomesSource
<1>3. f \notin seen /\ f.mtime = m
  BY <1>1
<1>4. seen' \subseteq Files /\ inode' \in [Inodes -> Files \cup {Gone}]
  BY <1>1, <1>2 DEF CopyInv
<1>5. TimesIdentify'
  BY <1>1, <1>2, <1>3 DEF CopyInv, TimesIdentify
<1>6. LinkSeen'
  BY <1>2 DEF CopyInv, LinkSeen
<1>7. ASSUME NEW c \in Copiers PROVE CopierOK(c)'
  <2>1. temp' = temp /\ fd' = fd /\ before' = before /\ pc' = pc
    OBVIOUS
  <2>2. Reading(c) => Reading(c)'
    BY <1>2, <1>3, <2>1 DEF CopyInv, Reading
  <2>3. Verified(c) => Verified(c)'
    BY <1>2, <2>1 DEF Verified
  <2> QED
    BY <2>1, <2>2, <2>3 DEF CopyInv, CopierOK
<1>8. dest' = dest /\ onDisk' = onDisk
  BY DEF disk
<1>9. Whole(dest)' /\ (\A d \in onDisk : Whole(d))'
  BY <1>2, <1>8 DEF CopyInv, Whole
<1> QED
  BY <1>4, <1>5, <1>6, <1>7, <1>9 DEF CopyInv

(* The programs that own the source keep the invariant.                    *)
LEMMA SourceStepInv == CopyInv /\ SourceStep => CopyInv'
<1> SUFFICES ASSUME CopyInv, SourceStep PROVE CopyInv'
  OBVIOUS
<1> USE CopyAssumption
<1>1. UNCHANGED <<disk, temp, fd, before, attempt, pc, bounds, history>>
  BY DEF SourceStep, disk, bounds, history
<1>2. ASSUME NEW m \in Fresh, WriteInPlace(m) PROVE CopyInv'
  <2>1. link \in Inodes /\ inode[link].data \in Seq(Stamps) /\ m \in Stamps
    BY <1>2 DEF WriteInPlace, CopyInv, LinkSeen, Files, Fresh
  <2> DEFINE d == inode[link].data
  <2>2. /\ \A k \in DOMAIN d : [d EXCEPT ![k] = m] \in Seq(Stamps)
        /\ Append(d, m) \in Seq(Stamps)
        /\ <<>> \in Seq(Stamps)
    BY <2>1
  <2>3. \/ \E k \in DOMAIN d : BecomesSource(link, [d EXCEPT ![k] = m], m)
        \/ BecomesSource(link, Append(d, m), m)
        \/ BecomesSource(link, <<>>, m)
    BY <1>2 DEF WriteInPlace
  <2> QED
    BY <1>1, <2>1, <2>2, <2>3, SourceWrites
<1>3. ASSUME NEW m \in Fresh, ReplaceSource(m) PROVE CopyInv'
  <2>1. <<m>> \in Seq(Stamps)
    BY DEF Fresh
  <2>2. PICK i \in Inodes : BecomesSource(i, <<m>>, m)
    BY <1>3 DEF ReplaceSource
  <2> QED
    BY <1>1, <2>1, <2>2, SourceWrites
<1>4. CASE RemoveSource
  BY <1>1, <1>4 DEF RemoveSource, CopyInv, TimesIdentify, LinkSeen, CopierOK, Reading,
     Verified, Whole, disk
<1> QED
  BY <1>2, <1>3, <1>4 DEF SourceStep

(* A step of one copier does not touch the temporary of another.           *)
LEMMA OthersOK ==
    ASSUME CopyInv, NEW c \in Copiers, UNCHANGED env,
           \A x \in Copiers \ {c} :
              /\ pc'[x] = pc[x] /\ temp'[x] = temp[x] /\ fd'[x] = fd[x]
              /\ before'[x] = before[x],
           CopierOK(c)'
    PROVE  \A x \in Copiers : CopierOK(x)'
BY DEF CopyInv, CopierOK, Reading, Verified, env

(* Each step of copy_file keeps the invariant.                             *)
LEMMA CopierStepInv ==
    ASSUME CopyInv, NEW c \in Copiers, Begin(c) \/ CopierStep(c)
    PROVE  CopyInv'
<1> USE CopyAssumption DEF Goto, env, disk
<1>1. CASE Begin(c) \/ CheckSource(c)
  <2>1. CopierOK(c)'
    BY <1>1 DEF Begin, CheckSource, CopyInv, CopierOK
  <2>2. pc' \in [Copiers -> Labels]
    BY <1>1 DEF Begin, CheckSource, CopyInv, Labels
  <2>3. \A x \in Copiers : CopierOK(x)'
    BY <1>1, <2>1, OthersOK DEF Begin, CheckSource, CopyInv
  <2> QED
    BY <1>1, <2>2, <2>3 DEF Begin, CheckSource, CopyInv, TimesIdentify, LinkSeen,
       Whole
<1>2. CASE Open(c)
  <2>1. temp'[c] = [data |-> <<>>, mtime |-> OwnTime, synced |-> FALSE]
        /\ temp'[c] \in Temporaries
        /\ temp'[c].mtime = OwnTime
        /\ temp' \in [Copiers -> Temporaries \cup {Gone}]
    <3> DEFINE t == [data |-> <<>>, mtime |-> OwnTime, synced |-> FALSE]
    <3>1. t \in Temporaries /\ t.mtime = OwnTime
      BY DEF Temporaries
    <3>2. temp' = [temp EXCEPT ![c] = t]
      BY <1>2 DEF Open
    <3> HIDE DEF t
    <3>3. temp'[c] = t /\ temp' \in [Copiers -> Temporaries \cup {Gone}]
      BY <3>1, <3>2 DEF CopyInv
    <3> QED
      BY <3>1, <3>3 DEF t
  <2>2. fd'[c] \in Inodes /\ before'[c] \in seen /\ inode[fd'[c]] \in seen
    BY <1>2 DEF Open, CopyInv, LinkSeen
  <2>3. PrefixOf(<<>>, before'[c].data)
    BY <2>2 DEF PrefixOf, CopyInv, Files
  <2>4. CopierOK(c)'
    BY <1>2, <2>1, <2>2, <2>3 DEF Open, CopyInv, CopierOK, Reading
  <2>5. pc' \in [Copiers -> Labels] /\ fd' \in [Copiers -> Inodes \cup {Gone}]
        /\ before' \in [Copiers -> Files \cup {Gone}]
    BY <1>2, <2>2 DEF Open, CopyInv, LinkSeen, Labels
  <2>6. \A x \in Copiers : CopierOK(x)'
    BY <1>2, <2>4, OthersOK DEF Open, CopyInv
  <2> QED
    BY <1>2, <2>1, <2>5, <2>6 DEF Open, CopyInv, TimesIdentify, LinkSeen, Whole
<1>3. CASE Read(c)
  <2> DEFINE k == Len(temp[c].data) + 1
             d == inode[fd[c]].data
  <2>1. Reading(c) /\ d \in Seq(Stamps) /\ temp[c].data \in Seq(Stamps)
    BY <1>3 DEF Read, CopyInv, CopierOK, Reading, Files, Temporaries
  <2>2. CASE k <= Len(d)
    <3>1. d[k] \in Stamps /\ k \in Nat
      BY <2>1, <2>2
    <3>2. temp' = [temp EXCEPT ![c].data = Append(@, d[k])] /\ pc' = pc
      BY <1>3, <2>2 DEF Read
    <3>3. temp'[c] \in Temporaries /\ temp'[c].data = Append(temp[c].data, d[k])
          /\ temp'[c].mtime = temp[c].mtime
          /\ temp' \in [Copiers -> Temporaries \cup {Gone}]
          /\ \A x \in Copiers \ {c} : temp'[x] = temp[x]
      <4> DEFINE t == Append(temp[c].data, d[k])
      <4>1. t \in Seq(Stamps) /\ temp[c] \in Temporaries
        BY <2>1, <3>1 DEF Reading
      <4>2. temp' = [temp EXCEPT ![c] = [temp[c] EXCEPT !.data = t]]
        BY <3>2
      <4> HIDE DEF t
      <4>3. /\ [temp[c] EXCEPT !.data = t] \in Temporaries
            /\ [temp[c] EXCEPT !.data = t].data = t
            /\ [temp[c] EXCEPT !.data = t].mtime = temp[c].mtime
        BY <4>1 DEF Temporaries
      <4>4. /\ temp'[c] \in Temporaries /\ temp'[c].data = t
            /\ temp'[c].mtime = temp[c].mtime
            /\ temp' \in [Copiers -> Temporaries \cup {Gone}]
            /\ \A x \in Copiers \ {c} : temp'[x] = temp[x]
        BY <4>2, <4>3 DEF CopyInv
      <4> QED
        BY <4>4 DEF t
    <3>4. inode[fd[c]] = before[c] => PrefixOf(temp'[c].data, before[c].data)
      <4> SUFFICES ASSUME inode[fd[c]] = before[c]
                   PROVE  PrefixOf(Append(temp[c].data, d[k]), d)
        BY <3>3
      <4> DEFINE s == temp[c].data
      <4>1. s \in Seq(Stamps) /\ d \in Seq(Stamps) /\ k = Len(s) + 1 /\ k <= Len(d)
            /\ \A j \in 1..Len(s) : s[j] = d[j]
        BY <2>1, <2>2 DEF Reading, PrefixOf
      <4> HIDE DEF s, d, k
      <4>2. Len(Append(s, d[k])) = k
            /\ \A j \in 1..k : Append(s, d[k])[j] = IF j = k THEN d[k] ELSE s[j]
        BY <3>1, <4>1
      <4>3. \A j \in 1..k : Append(s, d[k])[j] = d[j]
        BY <3>1, <4>1, <4>2
      <4>4. PrefixOf(Append(s, d[k]), d)
        BY <4>1, <4>2, <4>3 DEF PrefixOf
      <4> QED
        BY <4>4 DEF s
    <3>5. CopierOK(c)'
      BY <1>3, <2>1, <3>2, <3>3, <3>4 DEF Read, CopierOK, Reading
    <3>6. \A x \in Copiers : CopierOK(x)'
      BY <1>3, <3>2, <3>3, <3>5, OthersOK DEF Read
    <3> QED
      BY <1>3, <3>2, <3>3, <3>6 DEF Read, CopyInv, TimesIdentify, LinkSeen, Whole
  <2>3. CASE ~(k <= Len(d))
    <3>1. CopierOK(c)'
      BY <1>3, <2>1, <2>3 DEF Read, CopyInv, CopierOK, Reading
    <3>2. pc' \in [Copiers -> Labels]
      BY <1>3, <2>3 DEF Read, CopyInv, Labels
    <3>3. \A x \in Copiers : CopierOK(x)'
      BY <1>3, <2>3, <3>1, OthersOK DEF Read, CopyInv
    <3> QED
      BY <1>3, <2>3, <3>2, <3>3 DEF Read, CopyInv, TimesIdentify, LinkSeen, Whole
  <2> QED
    BY <2>2, <2>3
<1>4. CASE Verify(c)
  <2>1. Reading(c)
    BY <1>4 DEF Verify, CopyInv, CopierOK
  <2>2. CASE SourceStable(c)
    <3>1. before[c] \in Files /\ temp[c] \in Temporaries
      BY <2>1 DEF CopyInv, Reading
    <3>2. inode[fd[c]] = before[c]
      BY <2>1, <2>2 DEF SourceStable, CopyInv, TimesIdentify, Reading
    <3>3. temp[c].data = before[c].data
      BY <2>1, <2>2, <3>1, <3>2 DEF SourceStable, Reading, PrefixOf, Files, Temporaries
    <3>4. /\ \/ temp' = [temp EXCEPT ![c].mtime = before[c].mtime]
             \/ temp' = temp
          /\ pc' = [pc EXCEPT ![c] = "flush"]
      BY <1>4, <2>2 DEF Verify
    <3>5. temp'[c] \in Temporaries /\ temp'[c].data = before[c].data
          /\ temp'[c].mtime \in {before[c].mtime, OwnTime}
          /\ temp' \in [Copiers -> Temporaries \cup {Gone}]
          /\ \A x \in Copiers \ {c} : temp'[x] = temp[x]
      <4>1. CASE temp' = temp
        BY <2>1, <3>1, <3>3, <4>1 DEF CopyInv, Reading
      <4>2. CASE temp' = [temp EXCEPT ![c].mtime = before[c].mtime]
        BY <3>1, <3>3, <4>2 DEF CopyInv, Temporaries, Files
      <4> QED
        BY <3>4, <4>1, <4>2
    <3>6. CopyOf(temp'[c], before[c])
      BY <3>5 DEF CopyOf
    <3>7. CopierOK(c)'
      BY <1>4, <2>1, <3>4, <3>5, <3>6 DEF Verify, CopyInv, CopierOK, Verified, Reading
    <3>8. pc' \in [Copiers -> Labels]
      BY <3>4 DEF CopyInv, Labels
    <3>9. \A x \in Copiers : CopierOK(x)'
      BY <1>4, <3>4, <3>5, <3>7, OthersOK DEF Verify, CopyInv
    <3> QED
      BY <1>4, <3>5, <3>8, <3>9 DEF Verify, CopyInv, TimesIdentify, LinkSeen, Whole
  <2>3. CASE ~SourceStable(c)
    <3>1. CopierOK(c)' /\ pc' \in [Copiers -> Labels]
      BY <1>4, <2>3 DEF Verify, CopyInv, CopierOK, Labels
    <3>2. \A x \in Copiers : CopierOK(x)'
      BY <1>4, <2>3, <3>1, OthersOK DEF Verify, CopyInv
    <3> QED
      BY <1>4, <2>3, <3>1, <3>2 DEF Verify, CopyInv, TimesIdentify, LinkSeen, Whole
  <2> QED
    BY <2>2, <2>3
<1>5. CASE Flush(c)
  <2>1. Verified(c) /\ temp[c] \in Temporaries
    BY <1>5 DEF Flush, CopyInv, CopierOK, Verified
  <2>2. temp' = [temp EXCEPT ![c].synced = TRUE] /\ pc' = [pc EXCEPT ![c] = "rename"]
    BY <1>5 DEF Flush
  <2>3. temp'[c] \in Temporaries /\ temp'[c].data = temp[c].data
        /\ temp'[c].mtime = temp[c].mtime /\ temp'[c].synced
        /\ temp' \in [Copiers -> Temporaries \cup {Gone}]
        /\ \A x \in Copiers \ {c} : temp'[x] = temp[x]
    BY <2>1, <2>2 DEF CopyInv, Temporaries
  <2>4. CopierOK(c)'
    BY <1>5, <2>1, <2>2, <2>3 DEF Flush, CopyInv, CopierOK, Verified, CopyOf
  <2>5. pc' \in [Copiers -> Labels]
    BY <2>2 DEF CopyInv, Labels
  <2>6. \A x \in Copiers : CopierOK(x)'
    BY <1>5, <2>2, <2>3, <2>4, OthersOK DEF Flush, CopyInv
  <2> QED
    BY <1>5, <2>3, <2>5, <2>6 DEF Flush, CopyInv, TimesIdentify, LinkSeen, Whole
<1>6. CASE Rename(c)
  <2>1. Verified(c) /\ temp[c].synced = TRUE
    BY <1>6 DEF Rename, CopyInv, CopierOK, Verified, Temporaries
  <2>2. Whole(dest)' /\ (\A d \in onDisk : Whole(d))'
    BY <1>6, <2>1 DEF Rename, CopyInv, Whole, Verified, CopyOf
  <2>3. CopierOK(c)' /\ pc' \in [Copiers -> Labels]
    BY <1>6 DEF Rename, CopyInv, CopierOK, Labels
  <2>4. \A x \in Copiers : CopierOK(x)'
    BY <1>6, <2>3, OthersOK DEF Rename, CopyInv
  <2> QED
    BY <1>6, <2>2, <2>3, <2>4 DEF Rename, CopyInv, TimesIdentify, LinkSeen
<1>7. CASE FlushParent(c)
  <2>1. CopierOK(c)' /\ pc' \in [Copiers -> Labels]
    BY <1>7 DEF FlushParent, CopyInv, CopierOK, Labels
  <2>3. Whole(dest)' /\ (\A d \in onDisk : Whole(d))'
    BY <1>7 DEF FlushParent, CopyInv, Whole
  <2>2. \A x \in Copiers : CopierOK(x)'
    BY <1>7, <2>1, OthersOK DEF FlushParent, CopyInv
  <2> QED
    BY <1>7, <2>1, <2>2, <2>3 DEF FlushParent, CopyInv, TimesIdentify, LinkSeen
<1>8. CASE StepFails(c)
  <2>1. CopierOK(c)' /\ pc' \in [Copiers -> Labels]
    BY <1>8 DEF StepFails, CopyInv, CopierOK, Labels
  <2>2. \A x \in Copiers : CopierOK(x)'
    BY <1>8, <2>1, OthersOK DEF StepFails, CopyInv
  <2> QED
    BY <1>8, <2>1, <2>2 DEF StepFails, CopyInv, TimesIdentify, LinkSeen, Whole
<1>9. CASE Unlink(c) \/ Cleanup(c)
  <2>1. /\ pc'[c] \in {"cleanup", "attempt", "failed"}
        /\ pc' \in [Copiers -> Labels]
        /\ \A x \in Copiers \ {c} : pc'[x] = pc[x]
    BY <1>9 DEF Unlink, Cleanup, TryAgain, CopyInv, Labels
  <2>2. /\ temp' \in [Copiers -> Temporaries \cup {Gone}]
        /\ \A x \in Copiers \ {c} : temp'[x] = temp[x]
    BY <1>9 DEF Unlink, Cleanup, CopyInv
  <2>3. /\ fd' \in [Copiers -> Inodes \cup {Gone}]
        /\ before' \in [Copiers -> Files \cup {Gone}]
        /\ \A x \in Copiers \ {c} : fd'[x] = fd[x] /\ before'[x] = before[x]
    BY <1>9 DEF Unlink, Cleanup, CopyInv
  <2>4. UNCHANGED <<inode, link, seen, dest, onDisk>>
    BY <1>9 DEF Unlink, Cleanup
  <2>5. CopierOK(c)'
    BY <2>1 DEF CopierOK
  <2>6. \A x \in Copiers : CopierOK(x)'
    BY <2>1, <2>2, <2>3, <2>4, <2>5, OthersOK
  <2> QED
    BY <2>1, <2>2, <2>3, <2>4, <2>6 DEF CopyInv, TimesIdentify, LinkSeen, Whole
<1> QED
  BY <1>1, <1>2, <1>3, <1>4, <1>5, <1>6, <1>7, <1>8, <1>9 DEF CopierStep

(* A power loss leaves a flushed destination as it was.                    *)
LEMMA PowerLossInv == CopyInv /\ PowerLoss => CopyInv'
<1> SUFFICES ASSUME CopyInv, PowerLoss PROVE CopyInv'
  OBVIOUS
<1>1. PICK d \in onDisk : dest' \in Surviving(d)
  BY DEF PowerLoss
<1>2. Whole(d)
  BY DEF CopyInv
<1>3. dest' = d
  BY <1>1, <1>2 DEF Surviving, Whole
<1>4. UNCHANGED env /\ onDisk' = {dest'}
  BY DEF PowerLoss
<1>5. Whole(dest)' /\ (\A e \in onDisk : Whole(e))'
  BY <1>2, <1>3, <1>4 DEF Whole, env
<1>6. \A c \in Copiers : CopierOK(c)'
  BY DEF PowerLoss, CopierOK
<1> QED
  BY <1>4, <1>5, <1>6 DEF PowerLoss, CopyInv, TimesIdentify, LinkSeen, Labels, env

(* The invariant holds before the first copy.                              *)
LEMMA InitInv == Init => CopyInv
<1> SUFFICES ASSUME Init PROVE CopyInv
  OBVIOUS
<1> USE CopyAssumption
<1>1. PICK m \in Stamps :
         /\ inode = [j \in Inodes |->
                       IF j = First THEN [data |-> <<m>>, mtime |-> m] ELSE Gone]
         /\ link = First
         /\ seen = {[data |-> <<m>>, mtime |-> m]}
  BY DEF Init
<1> DEFINE f == [data |-> <<m>>, mtime |-> m]
<1>2. f \in Files
  BY DEF Files
<1>3. seen \subseteq Files /\ inode \in [Inodes -> Files \cup {Gone}] /\ LinkSeen
  BY <1>1, <1>2 DEF LinkSeen
<1>4. TimesIdentify
  BY <1>1 DEF TimesIdentify
<1>5. \A c \in Copiers : CopierOK(c)
  BY DEF Init, CopierOK
<1>6. Whole(dest) /\ \A d \in onDisk : Whole(d)
  BY DEF Init, Whole
<1> QED
  BY <1>3, <1>4, <1>5, <1>6 DEF Init, CopyInv, Labels

(* Every step keeps the invariant.                                         *)
LEMMA StepInv == CopyInv /\ [Next]_vars => CopyInv'
<1> SUFFICES ASSUME CopyInv, [Next]_vars PROVE CopyInv'
  OBVIOUS
<1>1. CASE UNCHANGED vars
  BY <1>1 DEF vars, env, disk, CopyInv, TimesIdentify, LinkSeen, CopierOK, Reading,
     Verified, Whole
<1> QED
  BY <1>1, SourceStepInv, CopierStepInv, PowerLossInv DEF Next

(* copy_file never exposes a partial or mixed destination, after any       *)
(* number of concurrent copies, writes to the source, failing calls and    *)
(* power losses: what the destination holds is one state of the source.    *)
THEOREM NoTornDestination == Spec => []DestinationWhole
<1>1. CopyInv => DestinationWhole
  BY DEF CopyInv, Whole, DestinationWhole
<1> QED
  BY <1>1, InitInv, StepInv, PTL DEF Spec

(* With modification times at their full resolution, files_need_copy skips *)
(* a file only when the destination has its contents.                      *)
THEOREM SkipIsSound ==
    ASSUME Unit = 1
    PROVE  Spec => []SkippedFileIsCurrent
<1>1. CopyInv => SkippedFileIsCurrent
  <2> SUFFICES ASSUME CopyInv, link # Gone, dest # Gone,
                      ~NeedsCopy(inode[link], dest)
               PROVE  inode[link].data = dest.data
    BY DEF SkippedFileIsCurrent
  <2>1. PICK g \in seen : CopyOf(dest, g)
    BY DEF CopyInv, Whole
  <2>2. inode[link] \in seen /\ inode[link] \in Files /\ g \in Files
    BY DEF CopyInv, LinkSeen
  <2>3. inode[link].mtime \in Nat /\ g.mtime \in Nat
    BY <2>2, CopyAssumption DEF Files
  <2>4. dest.mtime \in {g.mtime, -1}
    BY <2>1 DEF CopyOf, OwnTime
  <2>5. inode[link].mtime = g.mtime
    BY <2>3, <2>4 DEF NeedsCopy, StatTime
  <2>6. inode[link] = g
    BY <2>2, <2>5 DEF CopyInv, TimesIdentify
  <2> QED
    BY <2>1, <2>6 DEF CopyOf
<1> QED
  BY <1>1, InitInv, StepInv, PTL DEF Spec

-----------------------------------------------------------------------------
(* Where copy_file has no temporary: it has made none yet, or renamed it,  *)
(* or its own unlink came last.                                            *)
NothingToClean ==
    \A c \in Copiers \ littered :
        pc[c] \in {"idle", "attempt", "open", "flush_parent", "ok", "failed"}
            => temp[c] = Gone

(* copy_file leaves no temporary behind on any of its error paths, unless  *)
(* its own unlink, the last of the two, fails.                             *)
THEOREM TemporariesAreRemoved == Spec => []NoTemporaryLeft
<1>1. Init => NothingToClean
  BY DEF Init, NothingToClean
<1>2. CopyInv /\ NothingToClean /\ [Next]_vars => NothingToClean'
  <2> SUFFICES ASSUME CopyInv, NothingToClean, [Next]_vars PROVE NothingToClean'
    OBVIOUS
  <2> USE DEF NothingToClean, CopyInv, Goto, history
  <2>1. CASE SourceStep
    BY <2>1 DEF SourceStep
  <2>2. ASSUME NEW c \in Copiers, Begin(c) \/ CheckSource(c) \/ Open(c) \/ Read(c)
        PROVE  NothingToClean'
    BY <2>2 DEF Begin, CheckSource, Open, Read
  <2>3. ASSUME NEW c \in Copiers, Verify(c) \/ Flush(c) \/ Rename(c)
        PROVE  NothingToClean'
    BY <2>3 DEF Verify, Flush, Rename
  <2>4. ASSUME NEW c \in Copiers, FlushParent(c) \/ StepFails(c) \/ Unlink(c)
        PROVE  NothingToClean'
    BY <2>4 DEF FlushParent, StepFails, Unlink
  <2>5. ASSUME NEW c \in Copiers, Cleanup(c) PROVE NothingToClean'
    BY <2>5 DEF Cleanup, TryAgain
  <2>6. CASE PowerLoss \/ UNCHANGED vars
    BY <2>6 DEF PowerLoss, vars
  <2> QED
    BY <2>1, <2>2, <2>3, <2>4, <2>5, <2>6 DEF Next, CopierStep
<1>3. NothingToClean => NoTemporaryLeft
  BY DEF NothingToClean, NoTemporaryLeft
<1> QED
  BY <1>1, <1>2, <1>3, InitInv, StepInv, PTL DEF Spec

(* Every destination that a power loss may bring back is at least as new   *)
(* as the newest copy reported as done after a flush of the directory.     *)
Durable ==
    /\ renames \in Nat /\ acked \in Nat
    /\ onDisk \subseteq Destinations \cup {Gone}
    /\ dest \in onDisk
    /\ acked <= renames
    /\ \A d \in onDisk : d # Gone => d.seq <= renames
    /\ acked > 0 => \A d \in onDisk : d # Gone /\ d.seq >= acked
    /\ (\E c \in Copiers : pc[c] = "flush_parent") => dest # Gone

(* Nothing has been reported before the first copy.                        *)
LEMMA InitDurable == Init => Durable
BY DEF Init, Durable

(* The parent directory is flushed, or the flush refused, before success   *)
(* is reported.                                                            *)
LEMMA StepDurable == CopyInv /\ Durable /\ [Next]_vars => Durable'
<1> SUFFICES ASSUME CopyInv, Durable, [Next]_vars PROVE Durable'
  OBVIOUS
<1> USE CopyAssumption DEF Goto, disk, history
<1>1. CASE SourceStep
  BY <1>1 DEF SourceStep, Durable
<1>2. ASSUME NEW c \in Copiers,
             \/ Begin(c) \/ CheckSource(c) \/ Open(c) \/ Read(c) \/ Verify(c)
             \/ Flush(c) \/ StepFails(c) \/ Unlink(c) \/ Cleanup(c)
      PROVE  Durable'
  <2>1. /\ UNCHANGED <<dest, onDisk, renames, acked>>
        /\ \A x \in Copiers : pc'[x] = "flush_parent" => pc[x] = "flush_parent"
    BY <1>2 DEF Begin, CheckSource, Open, Read, Verify, Flush, StepFails, Unlink, Cleanup,
       TryAgain, CopyInv
  <2> QED
    BY <2>1 DEF Durable
<1>3. ASSUME NEW c \in Copiers, Rename(c) PROVE Durable'
  <2>1. temp[c] \in Temporaries
    BY <1>3 DEF Rename, CopyInv, CopierOK, Verified
  <2>2. temp[c].data \in Seq(Stamps) /\ temp[c].mtime \in Stamps \cup {OwnTime}
        /\ temp[c].synced \in BOOLEAN
    BY <2>1 DEF Temporaries
  <2>3. dest' \in Destinations /\ dest'.seq = renames + 1 /\ dest' # Gone
    BY <1>3, <2>2 DEF Rename, Destinations, Durable
  <2>4. onDisk' = onDisk \cup {dest'} /\ renames' = renames + 1 /\ acked' = acked
    BY <1>3 DEF Rename
  <2>5. \A d \in onDisk : d # Gone => d \in Destinations /\ d.seq \in Nat
    BY DEF Durable, Destinations
  <2>6. \A d \in onDisk' : d # Gone => d.seq <= renames'
    BY <2>3, <2>4, <2>5 DEF Durable
  <2>7. acked' > 0 => \A d \in onDisk' : d # Gone /\ d.seq >= acked'
    BY <2>3, <2>4, <2>5 DEF Durable
  <2> QED
    BY <2>3, <2>4, <2>6, <2>7 DEF Durable
<1>4. ASSUME NEW c \in Copiers, FlushParent(c) PROVE Durable'
  <2>1. dest \in Destinations /\ dest # Gone /\ dest.seq \in Nat
    BY <1>4 DEF FlushParent, Durable, Destinations
  <2>2. \A x \in Copiers : pc'[x] = "flush_parent" => pc[x] = "flush_parent"
    BY <1>4 DEF FlushParent, CopyInv
  <2>3. CASE onDisk' = {dest} /\ acked' = IF dest.seq > acked THEN dest.seq ELSE acked
    BY <1>4, <2>1, <2>2, <2>3 DEF FlushParent, Durable
  <2>4. CASE UNCHANGED <<onDisk, acked>>
    BY <1>4, <2>2, <2>4 DEF FlushParent, Durable
  <2> QED
    BY <1>4, <2>3, <2>4 DEF FlushParent
<1>5. CASE PowerLoss
  <2>1. PICK d \in onDisk : dest' \in Surviving(d)
    BY <1>5 DEF PowerLoss
  <2>2. dest' = d
    BY <2>1 DEF Surviving, Whole, CopyInv
  <2> QED
    BY <1>5, <2>2 DEF PowerLoss, Durable
<1>6. CASE UNCHANGED vars
  BY <1>6 DEF vars, Durable
<1> QED
  BY <1>1, <1>2, <1>3, <1>4, <1>5, <1>6 DEF Next, CopierStep

(* A copy that copy_file has reported as successful, after a flush of the  *)
(* directory that was not refused, is not undone by a later power loss.    *)
THEOREM ReportedCopyIsDurable == Spec => []ReportedCopySurvives
<1>1. Durable => ReportedCopySurvives
  BY DEF Durable, ReportedCopySurvives
<1> QED
  BY <1>1, InitInv, StepInv, InitDurable, StepDurable, PTL DEF Spec

-----------------------------------------------------------------------------
(* The types that the invariants above leave out.                          *)
OtherTypes ==
    /\ link \in Inodes \cup {Gone}
    /\ attempt \in [Copiers -> 0..(Attempts - 1)]
    /\ crashes \in Nat /\ faults \in Nat /\ mishaps \in Nat /\ calls \in Nat
    /\ unseen \subseteq Copiers /\ littered \subseteq Copiers

(* The variables of copy_file keep their types; in particular the number   *)
(* of attempts stays below its limit.                                      *)
THEOREM CopyTypeCorrect == Spec => []TypeOK
<1> USE CopyAssumption
<1>1. Init => OtherTypes
  BY DEF Init, OtherTypes
<1>2. CopyInv /\ OtherTypes /\ [Next]_vars => OtherTypes'
  <2> SUFFICES ASSUME CopyInv, OtherTypes, [Next]_vars PROVE OtherTypes'
    OBVIOUS
  <2> USE DEF OtherTypes, env, bounds, history
  <2>1. CASE SourceStep
    BY <2>1 DEF SourceStep, WriteInPlace, ReplaceSource, BecomesSource, RemoveSource,
       CopyInv, LinkSeen
  <2>2. ASSUME NEW c \in Copiers, Begin(c) \/ CheckSource(c) PROVE OtherTypes'
    BY <2>2 DEF Begin, CheckSource, Mishap
  <2>3. ASSUME NEW c \in Copiers,
               Open(c) \/ Read(c) \/ Flush(c) \/ Rename(c) \/ FlushParent(c)
        PROVE  OtherTypes'
    BY <2>3 DEF Open, Read, Flush, Rename, FlushParent, Mishap
  <2>4. ASSUME NEW c \in Copiers, Verify(c) \/ StepFails(c) \/ Unlink(c)
        PROVE  OtherTypes'
    BY <2>4 DEF Verify, StepFails, Fault, Unlink, Mishap
  <2>5. ASSUME NEW c \in Copiers, Cleanup(c) PROVE OtherTypes'
    BY <2>5 DEF Cleanup, TryAgain, Mishap
  <2>6. CASE PowerLoss \/ UNCHANGED vars
    BY <2>6 DEF PowerLoss, vars
  <2> QED
    BY <2>1, <2>2, <2>3, <2>4, <2>5, <2>6 DEF Next, CopierStep
<1>3. CopyInv /\ Durable /\ OtherTypes => TypeOK
  BY DEF CopyInv, Durable, OtherTypes, TypeOK
<1> QED
  BY <1>1, <1>2, <1>3, InitInv, StepInv, InitDurable, StepDurable, PTL DEF Spec
=============================================================================
