------------------------ MODULE ConfigurationProofs ------------------------
(***************************************************************************)
(* Proofs about Configuration, for any number of processes, requests,      *)
(* saves, failing calls, kills and power losses, and any paths.            *)
(***************************************************************************)
EXTENDS Configuration, TLAPS

(* The places of a request from the POST to the flag, and after it.        *)
Saving == {"save", "flush", "rename", "sync", "flag"}
Reporting == {"state", "compare", "answer"}

(* What a request holds: nothing, a configuration being saved or reported, *)
(* or only the look at the saved one.                                      *)
PostShape(c) ==
    /\ c = [at |-> c.at, process |-> c.process, candidate |-> c.candidate,
            flushed |-> c.flushed, save |-> c.save]
    /\ c.at \in Saving \cup Reporting

StatusShape(c) ==
    /\ c = [at |-> c.at, process |-> c.process, save |-> c.save]
    /\ c.at \in Reporting

CompareShape(c) ==
    /\ c = [at |-> c.at, process |-> c.process, save |-> c.save, differs |-> c.differs]
    /\ c.at \in Reporting

Shape(c) == c = Idle \/ PostShape(c) \/ StatusShape(c) \/ CompareShape(c)

Shapes ==
    /\ call = [r \in Requests |-> call[r]]
    /\ \A r \in Requests : Shape(call[r])

(* What reaches the file was validated and flushed before.                 *)
Prepared ==
    \A r \in Requests :
        /\ call[r].at \in Saving => DOMAIN call[r].candidate = Fields
        /\ call[r].at \in {"flush", "rename"} => Apart(call[r].candidate)
        /\ call[r].at = "rename" => call[r].flushed

(* Every state of the disk is whole, and none is newer than the file.      *)
Kept ==
    /\ file \in disk
    /\ \A kept \in disk :
          /\ DOMAIN kept.text = Fields
          /\ Apart(kept.text)
          /\ kept.save \in Nat
          /\ kept.save <= file.save

(* A returned save is on the disk, one that renamed is in the file.        *)
Ordered ==
    \A r \in Requests :
        /\ call[r] # Idle => call[r].save \in Nat
        /\ call[r].at = "sync" => call[r].save <= file.save
        /\ call[r].at \in {"flag"} \cup Reporting =>
              \A kept \in disk : call[r].save <= kept.save

CInv == Shapes /\ Prepared /\ Kept /\ Ordered

-----------------------------------------------------------------------------
(* A configuration is not a torn text.                                     *)
LEMMA WholeIsNotTorn == ASSUME NEW c, DOMAIN c = Fields PROVE c # Torn
<1>1. "source" \in DOMAIN c
  BY DEF Fields, PathFields
<1>2. "source" \notin DOMAIN Torn
  BY DEF Torn
<1> QED
  BY <1>1, <1>2

(* Idle has no place in a handler.                                         *)
LEMMA IdleFacts == Idle.at = "idle" /\ Idle.at \notin Saving \cup Reporting
BY DEF Idle, Saving, Reporting

(* The installed configuration is in the file, and no request is served.   *)
LEMMA InitConfiguration == Init => CInv
<1> SUFFICES ASSUME Init PROVE CInv
  OBVIOUS
<1> USE IdleFacts DEF Init
<1>1. Shapes
  BY DEF Shapes, Shape
<1>2. Prepared
  BY DEF Prepared, Saving, Reporting
<1>3. Kept
  BY ConfigurationAssumption, FirstAssumption DEF Kept
<1>4. Ordered
  BY DEF Ordered, Saving, Reporting
<1> QED
  BY <1>1, <1>2, <1>3, <1>4 DEF CInv

-----------------------------------------------------------------------------
(* A step that changes neither the file, the disk nor the requests.        *)
LEMMA QuietStep == CInv /\ UNCHANGED <<file, disk, call>> => CInv'
BY DEF CInv, Shapes, Shape, PostShape, StatusShape, CompareShape, Prepared, Kept, Ordered,
       Apart

(* A step of one request that leaves the file and the disk alone: it need  *)
(* only be looked at what that request holds afterwards.                   *)
LEMMA RequestStep ==
    ASSUME CInv, UNCHANGED <<file, disk>>, NEW r \in Requests, NEW c,
           call' = [call EXCEPT ![r] = c], Shape(c),
           c.at \in Saving => DOMAIN c.candidate = Fields,
           c.at \in {"flush", "rename"} => Apart(c.candidate),
           c.at = "rename" => c.flushed,
           c # Idle => c.save \in Nat,
           c.at = "sync" => c.save <= file.save,
           c.at \in {"flag"} \cup Reporting => \A kept \in disk : c.save <= kept.save
    PROVE  CInv'
<1>1. call'[r] = c /\ \A q \in Requests \ {r} : call'[q] = call[q]
  BY DEF CInv, Shapes
<1>2. Shapes'
  <2>1. call' = [q \in Requests |-> call'[q]]
    BY DEF CInv, Shapes
  <2>2. \A q \in Requests : Shape(call'[q])
    BY <1>1 DEF CInv, Shapes
  <2> QED
    BY <2>1, <2>2 DEF Shapes, Shape, PostShape, StatusShape, CompareShape
<1>3. Prepared'
  BY <1>1 DEF CInv, Prepared, Apart
<1>4. Kept'
  BY DEF CInv, Kept, Apart
<1>5. Ordered'
  BY <1>1 DEF CInv, Ordered
<1> QED
  BY <1>2, <1>3, <1>4, <1>5 DEF CInv

(* Return forgets the request.                                             *)
LEMMA ReturnStep ==
    ASSUME CInv, UNCHANGED <<file, disk>>, NEW r \in Requests, Return(r) PROVE CInv'
<1>1. Idle.at \notin Saving \cup Reporting \cup {"flush", "rename", "sync", "flag"}
  BY DEF Idle, Saving, Reporting
<1>2. Shape(Idle)
  BY DEF Shape
<1> QED
  BY <1>1, <1>2, RequestStep DEF Return, Saving, Reporting

(* What a request that is saving holds, and holds after Goto.              *)
LEMMA PostFacts ==
    ASSUME Shapes, NEW r \in Requests, call[r].at \in Saving, NEW l
    PROVE  /\ PostShape(call[r])
           /\ [call[r] EXCEPT !.at = l] =
                 [at |-> l, process |-> call[r].process, candidate |-> call[r].candidate,
                  flushed |-> call[r].flushed, save |-> call[r].save]
<1>1. PostShape(call[r])
  BY IdleFacts DEF Shapes, Shape, StatusShape, CompareShape, Saving, Reporting
<1> QED
  BY <1>1 DEF PostShape

(* Goto within a POST, when the new place asks for nothing more.           *)
LEMMA GotoStep ==
    ASSUME CInv, UNCHANGED <<file, disk>>, NEW r \in Requests, NEW l, Goto(r, l),
           call[r].at \in Saving, l \in Saving \cup Reporting,
           l = "flush" => Apart(call[r].candidate),
           l \notin {"rename", "sync"},
           l \in {"flag"} \cup Reporting => \A kept \in disk : call[r].save <= kept.save
    PROVE  CInv'
<1> DEFINE c == [call[r] EXCEPT !.at = l]
<1>1. c = [at |-> l, process |-> call[r].process, candidate |-> call[r].candidate,
           flushed |-> call[r].flushed, save |-> call[r].save]
  BY PostFacts DEF CInv
<1>2. call' = [call EXCEPT ![r] = c]
  BY DEF Goto
<1>3. Shape(c)
  BY <1>1 DEF Shape, PostShape
<1>4. DOMAIN c.candidate = Fields
  BY <1>1 DEF CInv, Prepared
<1>5. c.save \in Nat
  BY <1>1, IdleFacts DEF CInv, Ordered
<1>6. c.at = l /\ c.candidate = call[r].candidate /\ c.save = call[r].save
  BY <1>1
<1> HIDE DEF c
<1> QED
  BY <1>2, <1>3, <1>4, <1>5, <1>6, RequestStep

-----------------------------------------------------------------------------
(* config_post begins with a configuration that has every field.           *)
LEMMA StepPost ==
    ASSUME CInv, NEW r \in Requests, NEW p \in Procs, NEW u \in Updates, Post(r, p, u)
    PROVE  CInv'
<1> DEFINE candidate == [f \in Fields |-> IF f \in DOMAIN u THEN u[f] ELSE active[p][f]]
           c == [at |-> "save", process |-> p, candidate |-> candidate, flushed |-> FALSE,
                 save |-> 0]
<1>1. CASE call' = call
  BY <1>1, QuietStep DEF Post
<1>2. CASE call' = [call EXCEPT ![r] = c]
  <2>1. UNCHANGED <<file, disk>>
    BY DEF Post
  <2>2. DOMAIN candidate = Fields
    OBVIOUS
  <2> HIDE DEF candidate
  <2>3. Shape(c)
    BY DEF Shape, PostShape, Saving
  <2>4. c.at = "save" /\ c.candidate = candidate /\ c.save \in Nat
    OBVIOUS
  <2> HIDE DEF c
  <2> QED
    BY <1>2, <2>1, <2>2, <2>3, <2>4, RequestStep DEF Reporting
<1> QED
  BY <1>1, <1>2 DEF Post

(* config_save goes on only with trees that are apart.                     *)
LEMMA StepSaveWrites ==
    ASSUME CInv, NEW r \in Requests, SaveWrites(r) PROVE CInv'
<1>1. UNCHANGED <<file, disk>> /\ call[r].at \in Saving
  BY DEF SaveWrites, At, Saving
<1>2. CASE Return(r)
  BY <1>1, <1>2, ReturnStep
<1>3. CASE Valid(call[r].candidate) /\ Goto(r, "flush")
  BY <1>1, <1>3, GotoStep DEF Valid, Saving, Reporting
<1> QED
  BY <1>2, <1>3 DEF SaveWrites

(* The temporary file is flushed before it is renamed.                     *)
LEMMA StepSaveFlushes ==
    ASSUME CInv, NEW r \in Requests, SaveFlushes(r) PROVE CInv'
<1>1. UNCHANGED <<file, disk>> /\ call[r].at = "flush" /\ call[r].at \in Saving
  BY DEF SaveFlushes, At, Saving
<1>2. CASE Return(r)
  BY <1>1, <1>2, ReturnStep
<1> DEFINE c == [at |-> "rename", process |-> call[r].process,
                 candidate |-> call[r].candidate, flushed |-> TRUE, save |-> call[r].save]
<1>3. CASE call' = [call EXCEPT ![r] = c]
  <2>3. Shape(c)
    BY DEF Shape, PostShape, Saving
  <2>4. DOMAIN call[r].candidate = Fields /\ Apart(call[r].candidate) /\ call[r].save \in Nat
    BY <1>1, IdleFacts DEF CInv, Prepared, Ordered
  <2>5. c.at = "rename" /\ c.candidate = call[r].candidate /\ c.flushed /\ c.save = call[r].save
    OBVIOUS
  <2> HIDE DEF c
  <2> QED
    BY <1>1, <1>3, <2>3, <2>4, <2>5, RequestStep DEF Reporting
<1> QED
  BY <1>2, <1>3 DEF SaveFlushes

(* The rename: the new file is newer than every state of the disk, and it  *)
(* was flushed, so that no torn one joins them.                            *)
LEMMA StepSaveRenames ==
    ASSUME CInv, NEW r \in Requests, SaveRenames(r) PROVE CInv'
<1>1. call[r].at = "rename" /\ call[r].at \in Saving
  BY DEF SaveRenames, At, Saving
<1>2. CASE Return(r) /\ UNCHANGED <<file, disk>>
  BY <1>2, ReturnStep
<1> DEFINE renamed == [text |-> call[r].candidate, save |-> file.save + 1]
           c == [at |-> "sync", process |-> call[r].process, candidate |-> call[r].candidate,
                 flushed |-> call[r].flushed, save |-> renamed.save]
<1>3. CASE file' = renamed /\ disk' = disk \cup {renamed} /\ call' = [call EXCEPT ![r] = c]
  <2>1. /\ renamed.text = call[r].candidate
        /\ renamed.save = file.save + 1
        /\ file.save \in Nat
        /\ DOMAIN call[r].candidate = Fields
        /\ Apart(call[r].candidate)
    BY <1>1 DEF CInv, Prepared, Kept
  <2>2. Shape(c) /\ c # Idle
    BY IdleFacts DEF Shape, PostShape, Saving
  <2>3. c.at = "sync" /\ c.candidate = call[r].candidate /\ c.save = file.save + 1
    BY <2>1
  <2> HIDE DEF c, renamed
  <2>4. call'[r] = c /\ \A q \in Requests \ {r} : call'[q] = call[q]
    BY <1>3 DEF CInv, Shapes
  <2>5. file'.save = file.save + 1 /\ file'.text = call[r].candidate
    BY <1>3, <2>1
  <2>6. Shapes'
    <3>1. call' = [q \in Requests |-> call'[q]]
      BY <1>3 DEF CInv, Shapes
    <3>2. \A q \in Requests : Shape(call'[q])
      BY <2>2, <2>4 DEF CInv, Shapes
    <3> QED
      BY <3>1, <3>2 DEF Shapes, Shape, PostShape, StatusShape, CompareShape
  <2>7. Prepared'
    BY <2>1, <2>3, <2>4 DEF CInv, Prepared, Apart
  <2>8. Kept'
    <3>1. ASSUME NEW kept \in disk
          PROVE  DOMAIN kept.text = Fields /\ Apart(kept.text) /\ kept.save \in Nat
                 /\ kept.save <= file'.save
      BY <2>1, <2>5 DEF CInv, Kept
    <3>2. /\ DOMAIN renamed.text = Fields /\ Apart(renamed.text) /\ renamed.save \in Nat
          /\ renamed.save <= file'.save
      BY <2>1, <2>5
    <3>3. \A kept \in disk' : Apart(kept.text) => Apart(kept.text)'
      BY DEF Apart
    <3>4. \A kept \in disk' :
              DOMAIN kept.text = Fields /\ Apart(kept.text) /\ kept.save \in Nat
              /\ kept.save <= file'.save
      BY <1>3, <3>1, <3>2
    <3>5. file' \in disk'
      BY <1>3
    <3> QED
      BY <3>4, <3>5 DEF Kept, Apart
  <2>9. Ordered'
    <3>1. ASSUME NEW q \in Requests, q # r PROVE call[q].at \in {"flag"} \cup Reporting =>
              \A kept \in disk' : call[q].save <= kept.save
      <4>1. call[q].at \in {"flag"} \cup Reporting => call[q] # Idle
        BY IdleFacts DEF Saving
      <4> QED
        BY <1>3, <2>1, <4>1 DEF CInv, Ordered, Kept
    <3>2. ASSUME NEW q \in Requests, q # r PROVE call[q].at = "sync" => call[q].save <= file'.save
      <4>1. call[q].at = "sync" => call[q] # Idle
        BY IdleFacts DEF Saving
      <4> QED
        BY <2>1, <2>5, <4>1 DEF CInv, Ordered
    <3>3. c.save \in Nat /\ c.save <= file'.save /\ c.at \notin {"flag"} \cup Reporting
      BY <2>1, <2>3, <2>5 DEF Reporting
    <3> QED
      BY <2>4, <3>1, <3>2, <3>3 DEF CInv, Ordered
  <2> QED
    BY <2>6, <2>7, <2>8, <2>9 DEF CInv
<1>4. call[r].flushed
  BY <1>1 DEF CInv, Prepared
<1> QED
  BY <1>2, <1>3, <1>4 DEF SaveRenames

(* The flush of the directory leaves the disk no other state; a refused    *)
(* one changes nothing, and the request stands for no save any more.       *)
LEMMA StepSaveSyncs ==
    ASSUME CInv, NEW r \in Requests, SaveSyncs(r) PROVE CInv'
<1>1. call[r].at = "sync" /\ call[r].at \in Saving /\ file' = file
  BY DEF SaveSyncs, At, Saving
<1>2. CASE Return(r) /\ UNCHANGED disk
  BY <1>1, <1>2, ReturnStep
<1>3. CASE disk' = {file} /\ Goto(r, "flag")
  <2> DEFINE c == [call[r] EXCEPT !.at = "flag"]
  <2>1. c = [at |-> "flag", process |-> call[r].process, candidate |-> call[r].candidate,
             flushed |-> call[r].flushed, save |-> call[r].save]
    BY <1>1, PostFacts DEF CInv
  <2>2. call' = [call EXCEPT ![r] = c]
    BY <1>3 DEF Goto
  <2>3. Shape(c)
    BY <2>1 DEF Shape, PostShape, Saving
  <2>4. c.at = "flag" /\ c.candidate = call[r].candidate /\ c.save = call[r].save
    BY <2>1
  <2> HIDE DEF c
  <2>5. call'[r] = c /\ \A q \in Requests \ {r} : call'[q] = call[q]
    BY <2>2 DEF CInv, Shapes
  <2>6. DOMAIN c.candidate = Fields /\ c.save \in Nat /\ c.save <= file.save
    BY <1>1, <2>4, IdleFacts DEF CInv, Prepared, Ordered
  <2>7. Shapes'
    <3>1. call' = [q \in Requests |-> call'[q]]
      BY <2>2 DEF CInv, Shapes
    <3>2. \A q \in Requests : Shape(call'[q])
      BY <2>3, <2>5 DEF CInv, Shapes
    <3> QED
      BY <3>1, <3>2 DEF Shapes, Shape, PostShape, StatusShape, CompareShape
  <2>8. Prepared'
    BY <2>4, <2>5, <2>6 DEF CInv, Prepared, Apart
  <2>9. Kept'
    BY <1>1, <1>3 DEF CInv, Kept, Apart
  <2>10. Ordered'
    <3>1. \A q \in Requests \ {r} : call[q].at \in {"flag"} \cup Reporting =>
              call[q].save <= file.save
      BY DEF CInv, Ordered, Kept
    <3> QED
      BY <1>1, <1>3, <2>4, <2>5, <2>6, <3>1 DEF CInv, Ordered
  <2> QED
    BY <2>7, <2>8, <2>9, <2>10 DEF CInv
<1> DEFINE d == [at |-> "flag", process |-> call[r].process, candidate |-> call[r].candidate,
                 flushed |-> call[r].flushed, save |-> 0]
<1>4. CASE call' = [call EXCEPT ![r] = d] /\ UNCHANGED disk
  <2>1. Shape(d)
    BY DEF Shape, PostShape, Saving
  <2>2. DOMAIN call[r].candidate = Fields
    BY <1>1 DEF CInv, Prepared
  <2>3. d.at = "flag" /\ d.candidate = call[r].candidate /\ d.save = 0
    OBVIOUS
  <2>4. d.save \in Nat /\ \A kept \in disk : d.save <= kept.save
    BY <2>3 DEF CInv, Kept
  <2>5. UNCHANGED <<file, disk>> /\ d.at \notin {"flush", "rename", "sync"}
    BY <1>1, <1>4, <2>3
  <2> HIDE DEF d
  <2> QED
    BY <1>1, <1>4, <2>1, <2>2, <2>3, <2>4, <2>5, RequestStep
<1> QED
  BY <1>2, <1>3, <1>4 DEF SaveSyncs

(* The flag concerns neither the file nor the disk.                        *)
LEMMA StepSetFlag ==
    ASSUME CInv, NEW r \in Requests, SetFlag(r) PROVE CInv'
<1>1. UNCHANGED <<file, disk>> /\ call[r].at = "flag" /\ Goto(r, "state")
  BY DEF SetFlag, At
<1>2. \A kept \in disk : call[r].save <= kept.save
  BY <1>1 DEF CInv, Ordered
<1> QED
  BY <1>1, <1>2, GotoStep DEF Saving, Reporting

-----------------------------------------------------------------------------
(* A status request has saved nothing.                                     *)
LEMMA StepStatus ==
    ASSUME CInv, NEW r \in Requests, NEW p \in Procs, Status(r, p) PROVE CInv'
<1> DEFINE c == [at |-> "state", process |-> p, save |-> 0]
<1>1. UNCHANGED <<file, disk>> /\ call' = [call EXCEPT ![r] = c]
  BY DEF Status
<1>2. Shape(c)
  BY DEF Shape, StatusShape, Reporting
<1>3. c.at = "state" /\ c.save = 0
  OBVIOUS
<1>4. \A kept \in disk : 0 <= kept.save
  BY DEF CInv, Kept
<1>5. c.at \notin Saving \cup {"flush", "rename", "sync"} /\ c.save \in Nat
  BY <1>3 DEF Saving
<1> HIDE DEF c
<1> QED
  BY <1>1, <1>2, <1>3, <1>4, <1>5, RequestStep

(* The look at the saved configuration forgets the request's own one.      *)
LEMMA StepLoadSaved ==
    ASSUME CInv, NEW r \in Requests, LoadSaved(r) PROVE CInv'
<1> DEFINE c == [at |-> IF Loads(file.text) THEN "compare" ELSE "answer",
                 process |-> call[r].process, save |-> call[r].save,
                 differs |-> Differs(call[r].process)]
<1>1. UNCHANGED <<file, disk>> /\ call' = [call EXCEPT ![r] = c] /\ call[r].at = "state"
  BY DEF LoadSaved, At
<1>2. Shape(c)
  BY DEF Shape, CompareShape, Reporting
<1>3. c.at \in {"compare", "answer"} /\ c.save = call[r].save
  OBVIOUS
<1>4. call[r].save \in Nat /\ \A kept \in disk : call[r].save <= kept.save
  BY <1>1, IdleFacts DEF CInv, Ordered, Reporting
<1> HIDE DEF c
<1> QED
  BY <1>1, <1>2, <1>3, <1>4, RequestStep DEF Saving

(* The stored flag concerns neither the file nor the disk.                 *)
LEMMA StepStoreFlag ==
    ASSUME CInv, NEW r \in Requests, StoreFlag(r) PROVE CInv'
<1> DEFINE c == [call[r] EXCEPT !.at = "answer"]
<1>1. UNCHANGED <<file, disk>> /\ call' = [call EXCEPT ![r] = c] /\ call[r].at = "compare"
  BY DEF StoreFlag, At, Goto
<1>2. Shape(c) /\ c.at = "answer" /\ c.save = call[r].save
  <2>1. PostShape(call[r]) \/ StatusShape(call[r]) \/ CompareShape(call[r])
    BY <1>1, IdleFacts DEF CInv, Shapes, Shape, Reporting
  <2>2. CASE PostShape(call[r])
    <3>1. c = [at |-> "answer", process |-> call[r].process, candidate |-> call[r].candidate,
               flushed |-> call[r].flushed, save |-> call[r].save]
      BY <2>2 DEF PostShape
    <3> QED
      BY <3>1 DEF Shape, PostShape, Reporting
  <2>3. CASE StatusShape(call[r])
    <3>1. c = [at |-> "answer", process |-> call[r].process, save |-> call[r].save]
      BY <2>3 DEF StatusShape
    <3> QED
      BY <3>1 DEF Shape, StatusShape, Reporting
  <2>4. CASE CompareShape(call[r])
    <3>1. c = [at |-> "answer", process |-> call[r].process, save |-> call[r].save,
               differs |-> call[r].differs]
      BY <2>4 DEF CompareShape
    <3> QED
      BY <3>1 DEF Shape, CompareShape, Reporting
  <2> QED
    BY <2>1, <2>2, <2>3, <2>4
<1>3. call[r].save \in Nat /\ \A kept \in disk : call[r].save <= kept.save
  BY <1>1, IdleFacts DEF CInv, Ordered, Reporting
<1> HIDE DEF c
<1> QED
  BY <1>1, <1>2, <1>3, RequestStep DEF Saving

(* The request is over.                                                    *)
LEMMA StepAnswer ==
    ASSUME CInv, NEW r \in Requests, Answer(r) PROVE CInv'
BY ReturnStep DEF Answer

-----------------------------------------------------------------------------
(* A killed process takes its requests with it.                            *)
LEMMA StepStop ==
    ASSUME CInv, NEW p \in Procs, Stop(p) PROVE CInv'
<1>1. UNCHANGED <<file, disk>>
  BY DEF Stop
<1>2. /\ call' = [r \in Requests |-> call'[r]]
      /\ \A r \in Requests : call'[r] = Idle \/ call'[r] = call[r]
  BY DEF Stop
<1>3. Shapes'
  <2>1. \A r \in Requests : Shape(call'[r])
    BY <1>2 DEF CInv, Shapes, Shape
  <2> QED
    BY <1>2, <2>1 DEF Shapes, Shape, PostShape, StatusShape, CompareShape
<1>4. Prepared'
  BY <1>2, IdleFacts DEF CInv, Prepared, Apart, Saving
<1>5. Kept'
  BY <1>1 DEF CInv, Kept, Apart
<1>6. Ordered'
  BY <1>1, <1>2, IdleFacts DEF CInv, Ordered, Saving
<1> QED
  BY <1>3, <1>4, <1>5, <1>6 DEF CInv

(* After a power loss one of the states of the disk is the file.           *)
LEMMA StepPowerLoss == ASSUME CInv, PowerLoss PROVE CInv'
<1>1. call' = [r \in Requests |-> Idle] /\ file' \in disk /\ disk' = {file'}
  BY DEF PowerLoss
<1>2. Shapes'
  BY <1>1 DEF Shapes, Shape
<1>3. Prepared'
  BY <1>1, IdleFacts DEF Prepared, Saving
<1>4. Kept'
  <2>1. /\ DOMAIN file'.text = Fields
        /\ Apart(file'.text)
        /\ file'.save \in Nat
        /\ file'.save <= file'.save
    BY <1>1 DEF CInv, Kept
  <2>2. \A kept \in disk' : kept = file'
    BY <1>1
  <2>3. file' \in disk'
    BY <1>1
  <2> QED
    BY <2>1, <2>2, <2>3 DEF Kept, Apart
<1>5. Ordered'
  BY <1>1, IdleFacts DEF Ordered, Saving
<1> QED
  BY <1>2, <1>3, <1>4, <1>5 DEF CInv

(* Every step preserves the invariant.                                     *)
LEMMA StepConfiguration == CInv /\ [Next]_vars => CInv'
<1> SUFFICES ASSUME CInv, [Next]_vars PROVE CInv'
  OBVIOUS
<1>1. CASE UNCHANGED vars
  BY <1>1, QuietStep DEF vars
<1>2. ASSUME NEW p \in Procs, Start(p) PROVE CInv'
  BY <1>2, QuietStep DEF Start
<1>3. ASSUME NEW p \in Procs, Stop(p) PROVE CInv'
  BY <1>3, StepStop
<1>4. ASSUME NEW p \in Mounts, Mount(p) PROVE CInv'
  BY <1>4, QuietStep DEF Mount
<1>5. CASE PowerLoss
  BY <1>5, StepPowerLoss
<1>6. ASSUME NEW r \in Requests, Serve(r) PROVE CInv'
  BY <1>6, StepSaveWrites, StepSaveFlushes, StepSaveRenames, StepSaveSyncs, StepSetFlag,
     StepLoadSaved, StepStoreFlag, StepAnswer DEF Serve
<1>7. ASSUME NEW r \in Requests, NEW p \in Procs, Status(r, p) PROVE CInv'
  BY <1>7, StepStatus
<1>8. ASSUME NEW r \in Requests, NEW p \in Procs, NEW u \in Updates, Post(r, p, u) PROVE CInv'
  BY <1>8, StepPost
<1> QED
  BY <1>1, <1>2, <1>3, <1>4, <1>5, <1>6, <1>7, <1>8 DEF Next

-----------------------------------------------------------------------------
(* Whatever call of config_save fails, and whenever a process is killed or *)
(* the power goes, the file holds a complete configuration whose trees are *)
(* apart; and after config_save has returned no power loss brings back an  *)
(* earlier one, unless the fsync of the directory was refused.             *)
THEOREM ConfigurationSurvives == Spec => []SavedConfigurationSurvives
<1>1. CInv => SavedConfigurationSurvives
  <2> SUFFICES ASSUME CInv, NEW kept \in disk PROVE
                   /\ kept.text # Torn
                   /\ Apart(kept.text)
                   /\ \A r \in Requests :
                         call[r].at \in {"flag", "state", "compare", "answer"} =>
                             kept.save >= call[r].save
    BY DEF SavedConfigurationSurvives, CInv, Kept
  <2>1. kept.text # Torn /\ Apart(kept.text)
    BY WholeIsNotTorn DEF CInv, Kept
  <2>2. \A r \in Requests : call[r].at \in {"flag", "state", "compare", "answer"} =>
            kept.save >= call[r].save
    <3> SUFFICES ASSUME NEW r \in Requests,
                        call[r].at \in {"flag", "state", "compare", "answer"}
                 PROVE  kept.save >= call[r].save
      OBVIOUS
    <3>1. call[r].save <= kept.save /\ kept.save \in Nat /\ call[r] # Idle
      BY IdleFacts DEF CInv, Ordered, Kept, Reporting, Saving
    <3>2. call[r].save \in Nat
      BY <3>1 DEF CInv, Ordered
    <3> QED
      BY <3>1, <3>2
  <2> QED
    BY <2>1, <2>2
<1> QED
  BY <1>1, InitConfiguration, StepConfiguration, PTL DEF Spec
=============================================================================
