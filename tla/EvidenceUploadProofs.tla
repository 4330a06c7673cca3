------------------------ MODULE EvidenceUploadProofs ------------------------
(***************************************************************************)
(* Theorems about EvidenceUpload, for any runs, jobs, orders and folders   *)
(* and for any mix of storage backends among the processes.                *)
(***************************************************************************)
EXTENDS EvidenceUpload, TLAPS

LEMMA KeyType ==
    ASSUME TypeOK, NEW r \in Run
    PROVE  /\ build_key(r) \in Order
           /\ FolderOf[r] \in Folder
           /\ Object(r) \in Backend \X Order
BY EvidenceAssumption DEF build_key, Object, TypeOK

LEMMA StoreIsFixed == Next => UNCHANGED store
BY DEF Next, Step, Stage, NoArtifact, NotFetched, Probe, CopyStart, CopyEnd, Hash,
   create_evidence, UploadFailed, Report, Crash, Goto

LEMMA ObjectIsFixed ==
    ASSUME NEW r \in Run, UNCHANGED store PROVE Object(r)' = Object(r)
BY DEF Object, build_key

\* Moving a run keeps the places and the history typed.
LEMMA GotoType ==
    ASSUME TypeOK, NEW r \in Run, NEW place \in ActivePlace \cup {"done"},
           Goto(r, place)
    PROVE  /\ pc' \in [Run -> ActivePlace \cup {"idle", "done"}]
           /\ store' \in [Run -> Backend]
           /\ overlap' \in BOOLEAN
           /\ pc'[r] = place
           /\ \A s \in Run : s # r => pc'[s] = pc[s]
BY DEF TypeOK, Goto, Observe

-----------------------------------------------------------------------------
(* The inductive invariant *)

(* EvidenceHasBlob and FileIdIsCommitted hold because of the order of the    *)
(* writes: what a run has behind it at each place.                           *)

\* A run that copies has bytes, one past the copy has an object, one past the
\* evidence rows has them committed.
BehindRun(r) ==
    /\ pc[r] = "copying" => seen[r] # NoRun
    /\ Copying(r) \/ pc[r] \in {"hash", "evidence", "linked"} => exists(Object(r))
    /\ pc[r] = "linked" => files[r].made

EvidenceInv ==
    /\ \A r \in Run : BehindRun(r)
    /\ EvidenceHasBlob
    /\ FileIdIsCommitted

\* An object never leaves the store.
BlobStays == \A o \in Backend \X Order : exists(o) => blob'[o].data # NoRun

-----------------------------------------------------------------------------
(* Type correctness *)

LEMMA TypeStep == TypeOK /\ [Next]_vars => TypeOK'
<1> SUFFICES ASSUME TypeOK, [Next]_vars PROVE TypeOK'
  OBVIOUS
<1> USE KeyType, EvidenceAssumption
<1>1. ASSUME NEW r \in Run, Stage(r) PROVE TypeOK'
  <2>1. "staged" \in ActivePlace
    BY DEF ActivePlace
  <2>2. QED
    BY <1>1, <2>1, GotoType DEF Stage, TypeOK, rows
<1>2. ASSUME NEW r \in Run, NoArtifact(r) \/ NotFetched(r) PROVE TypeOK'
  <2>1. "bare" \in ActivePlace /\ "broken" \in ActivePlace
    BY DEF ActivePlace
  <2>2. QED
    BY <1>2, <2>1, GotoType DEF NoArtifact, NotFetched, TypeOK, rows
<1>3. ASSUME NEW r \in Run, Probe(r) PROVE TypeOK'
  <2>1. "copy" \in ActivePlace /\ "hash" \in ActivePlace
    BY DEF ActivePlace
  <2>2. QED
    BY <1>3, <2>1, GotoType DEF Probe, TypeOK, rows
<1>4. ASSUME NEW r \in Run, CopyStart(r) PROVE TypeOK'
  <2>1. "copying" \in ActivePlace
    BY DEF ActivePlace
  <2>2. blob' \in [Backend \X Order -> Blob]
    <3>1. [data |-> staged[FolderOf[r]], whole |-> FALSE] \in Blob
      BY DEF TypeOK, Blob
    <3>2. QED
      BY <1>4, <3>1 DEF CopyStart, TypeOK
  <2>3. /\ seen' \in [Run -> Run \cup {NoRun}]
        /\ wrote' \subseteq Run /\ torn' \subseteq Run
    BY <1>4 DEF CopyStart, Rivals, TypeOK
  <2>4. QED
    BY <1>4, <2>1, <2>2, <2>3, GotoType DEF CopyStart, TypeOK, rows
<1>5. ASSUME NEW r \in Run, CopyEnd(r) PROVE TypeOK'
  <2>1. "hash" \in ActivePlace
    BY DEF ActivePlace
  <2>2. PICK b \in Blob : blob' = [blob EXCEPT ![Object(r)] = b]
    <3>1. /\ seen[r] \in Run \cup {NoRun}
          /\ staged[FolderOf[r]] \in Run \cup {NoRun}
          /\ blob[Object(r)].data \in Run \cup {NoRun}
      BY DEF TypeOK, Blob
    <3>2. [data |-> seen[r], whole |-> TRUE] \in Blob
      BY <3>1 DEF Blob
    <3>3. [data: {seen[r], staged[FolderOf[r]], blob[Object(r)].data}, whole: BOOLEAN]
             \subseteq Blob
      BY <3>1 DEF Blob
    <3>4. QED
      BY <1>5, <3>2, <3>3 DEF CopyEnd
  <2>4. blob' \in [Backend \X Order -> Blob]
    BY <2>2 DEF TypeOK
  <2>3. QED
    BY <1>5, <2>1, <2>4, GotoType DEF CopyEnd, TypeOK, rows
<1>6. ASSUME NEW r \in Run, Hash(r) PROVE TypeOK'
  <2>1. "evidence" \in ActivePlace
    BY DEF ActivePlace
  <2>2. QED
    BY <1>6, <2>1, GotoType DEF Hash, TypeOK, rows
<1>7. ASSUME NEW r \in Run, create_evidence(r) PROVE TypeOK'
  <2>1. "linked" \in ActivePlace
    BY DEF ActivePlace
  <2>2. files' \in [Run -> FileRow]
    BY <1>7 DEF create_evidence, TypeOK, FileRow
  <2>3. QED
    BY <1>7, <2>1, <2>2, GotoType DEF create_evidence, TypeOK
<1>8. ASSUME NEW r \in Run, UploadFailed(r) PROVE TypeOK'
  <2>1. "broken" \in ActivePlace
    BY DEF ActivePlace
  <2>2. QED
    BY <1>8, <2>1, GotoType DEF UploadFailed, CutShort, TypeOK, rows
<1>9. ASSUME NEW r \in Run, Report(r) PROVE TypeOK'
  <2>1. docs' \in [Job -> Doc]
    <3>1. docs \in [Job -> Doc] /\ JobOf[r] \in Job
      BY DEF TypeOK
    <3>2. /\ docs[JobOf[r]].file \in Run \cup {NoRun}
          /\ docs[JobOf[r]] \in Doc
      BY <3>1 DEF Doc
    <3>3. PICK d \in Doc : docs' = [docs EXCEPT ![JobOf[r]] = d]
      <4>1. [status |-> "uploaded", file |-> r] \in Doc
        BY DEF Doc
      <4>2. [docs[JobOf[r]] EXCEPT !.status = "uploaded"] \in Doc
        BY <3>2 DEF Doc
      <4>3. [docs[JobOf[r]] EXCEPT !.status = "failed"] \in Doc
        BY <3>2 DEF Doc
      <4>4. QED
        BY <1>9, <3>1, <4>1, <4>2, <4>3 DEF Report
    <3>4. QED
      BY <3>1, <3>3
  <2>2. QED
    BY <1>9, <2>1, GotoType DEF Report, TypeOK
<1>10. ASSUME NEW r \in Run, Crash(r) PROVE TypeOK'
  BY <1>10, GotoType DEF Crash, CutShort, TypeOK, rows
<1>11. ASSUME UNCHANGED vars PROVE TypeOK'
  BY <1>11 DEF TypeOK, vars, rows
<1>12. QED
  BY <1>1, <1>2, <1>3, <1>4, <1>5, <1>6, <1>7, <1>8, <1>9, <1>10, <1>11
     DEF Next, Step

\* Every reachable state of the upload protocol is well typed, and an
\* uploading run always has a staged file.
THEOREM EvidenceTypeCorrect == Spec => []TypeOK
<1>1. Init => TypeOK
  <2>1. SUFFICES ASSUME Init PROVE TypeOK
    OBVIOUS
  <2>2. NoBlob \in Blob /\ NoFile \in FileRow
    BY DEF NoBlob, Blob, NoFile, FileRow
  <2>3. [status |-> "fetching", file |-> NoRun] \in Doc
    BY DEF Doc
  <2>4. files \in [Run -> FileRow] /\ blob \in [Backend \X Order -> Blob] /\ docs \in [Job -> Doc]
    BY <2>1, <2>2, <2>3 DEF Init
  <2>5. pc \in [Run -> ActivePlace \cup {"idle", "done"}]
    BY <2>1 DEF Init
  <2>6. QED
    BY <2>1, <2>4, <2>5 DEF Init, TypeOK, _make
<1>2. QED
  BY <1>1, TypeStep, PTL DEF Spec

-----------------------------------------------------------------------------
(* The order of the writes *)

\* Nothing removes an object, and nobody but the run itself moves it or makes
\* its rows.
LEMMA StoreStep ==
    ASSUME TypeOK, EvidenceInv, Next
    PROVE  /\ BlobStays
           /\ \A r \in Run : files[r].made => files'[r].made
<1> USE KeyType, EvidenceAssumption
<1>1. ASSUME NEW r \in Run, CopyStart(r) PROVE BlobStays
  BY <1>1 DEF CopyStart, BlobStays, TypeOK, exists
<1>2. ASSUME NEW r \in Run, CopyEnd(r) PROVE BlobStays
  <2>1. /\ seen[r] # NoRun /\ staged[FolderOf[r]] # NoRun
        /\ store[r] = "local" => blob[Object(r)].data # NoRun
    BY <1>2 DEF CopyEnd, EvidenceInv, BehindRun, Copying, exists, TypeOK
  <2>2. PICK b : b.data # NoRun /\ blob' = [blob EXCEPT ![Object(r)] = b]
    BY <1>2, <2>1 DEF CopyEnd
  <2>3. QED
    BY <2>2 DEF BlobStays, TypeOK, exists
<1>3. ASSUME NEW r \in Run, create_evidence(r)
      PROVE  \A s \in Run : files[s].made => files'[s].made
  BY <1>3 DEF create_evidence, TypeOK
<1>4. ASSUME UNCHANGED blob PROVE BlobStays
  BY <1>4 DEF BlobStays, exists
<1>5. QED
  BY <1>1, <1>2, <1>3, <1>4
     DEF Next, Step, Stage, NoArtifact, NotFetched, Probe, CopyStart,
     CopyEnd, Hash, create_evidence, UploadFailed, Report, Crash, rows

\* A step gives the run it moves what that place promises, and every other
\* run keeps its own.
LEMMA BehindStep ==
    ASSUME TypeOK, EvidenceInv, Next, NEW r \in Run
    PROVE  BehindRun(r)'
<1> USE KeyType, EvidenceAssumption
<1>0. /\ exists(Object(r)) => exists(Object(r))'
      /\ files[r].made => files'[r].made
  BY StoreStep, StoreIsFixed, ObjectIsFixed DEF BlobStays, exists
<1>1. BehindRun(r)
  BY DEF EvidenceInv
<1>2. ASSUME pc'[r] = pc[r], seen'[r] = seen[r] PROVE BehindRun(r)'
  BY <1>0, <1>1, <1>2, StoreIsFixed DEF BehindRun, Copying
<1>3. ASSUME pc'[r] \notin {"copying", "hash", "evidence", "linked"}
      PROVE  BehindRun(r)'
  BY <1>3 DEF BehindRun, Copying
<1>4. ASSUME NEW s \in Run, s # r, Step(s) \/ Crash(s)
      PROVE  pc'[r] = pc[r] /\ seen'[r] = seen[r]
  BY <1>4 DEF Step, Stage, NoArtifact, NotFetched, Probe, CopyStart, CopyEnd, Hash,
     create_evidence, UploadFailed, Report, Crash, Goto, TypeOK
<1>5. CASE \/ Stage(r) \/ NoArtifact(r) \/ NotFetched(r)
           \/ UploadFailed(r) \/ Report(r) \/ Crash(r)
  <2>1. pc'[r] \in {"staged", "bare", "broken", "done"}
    BY <1>5 DEF Stage, NoArtifact, NotFetched, UploadFailed, Report, Crash, Goto, TypeOK
  <2>2. QED
    BY <1>3, <2>1
<1>6. CASE Probe(r)
  <2>1. \/ pc'[r] = "copy"
        \/ pc'[r] = "hash" /\ exists(Object(r))
    BY <1>6 DEF Probe, Goto, TypeOK
  <2>2. QED
    BY <1>0, <1>3, <2>1 DEF BehindRun, Copying
<1>7. CASE CopyStart(r)
  <2>1. pc'[r] = "copying" /\ seen'[r] = staged[FolderOf[r]]
    BY <1>7 DEF CopyStart, Goto, TypeOK
  <2>2. staged[FolderOf[r]] # NoRun
    BY <1>7 DEF CopyStart, TypeOK
  <2>3. store[r] = "local" => blob'[Object(r)].data # NoRun
    BY <1>7, <2>2 DEF CopyStart, TypeOK
  <2>4. QED
    BY <2>1, <2>2, <2>3, StoreIsFixed, ObjectIsFixed DEF BehindRun, Copying, exists
<1>8. CASE CopyEnd(r)
  <2>1. pc'[r] = "hash"
    BY <1>8 DEF CopyEnd, Goto, TypeOK
  <2>2. /\ seen[r] # NoRun /\ staged[FolderOf[r]] # NoRun
        /\ store[r] = "local" => blob[Object(r)].data # NoRun
    BY <1>1, <1>8 DEF CopyEnd, BehindRun, Copying, exists, TypeOK
  <2>3. PICK b : b.data # NoRun /\ blob' = [blob EXCEPT ![Object(r)] = b]
    BY <1>8, <2>2 DEF CopyEnd
  <2>4. blob'[Object(r)].data # NoRun
    BY <2>3 DEF TypeOK
  <2>5. QED
    BY <2>1, <2>4, StoreIsFixed, ObjectIsFixed DEF BehindRun, Copying, exists
<1>9. CASE Hash(r)
  <2>1. pc[r] = "hash" /\ pc'[r] = "evidence"
    BY <1>9 DEF Hash, Goto, TypeOK
  <2>2. QED
    BY <1>0, <1>1, <2>1 DEF BehindRun, Copying
<1>10. CASE create_evidence(r)
  <2>1. pc[r] = "evidence" /\ pc'[r] = "linked" /\ files'[r].made
    BY <1>10 DEF create_evidence, Goto, TypeOK
  <2>2. QED
    BY <1>0, <1>1, <2>1 DEF BehindRun, Copying
<1>11. QED
  BY <1>2, <1>4, <1>5, <1>6, <1>7, <1>8, <1>9, <1>10 DEF Next, Step

LEMMA EvidenceStep == TypeOK /\ EvidenceInv /\ [Next]_vars => EvidenceInv'
<1> USE KeyType, EvidenceAssumption
<1>1. ASSUME TypeOK, EvidenceInv, Next PROVE EvidenceInv'
  <2>1. ASSUME NEW r \in Run, files'[r].made PROVE exists(Object(r))'
    <3>1. CASE files[r].made
      <4>1. exists(Object(r))
        BY <1>1, <3>1 DEF EvidenceInv, EvidenceHasBlob
      <4>2. QED
        BY <1>1, <4>1, StoreStep, StoreIsFixed, ObjectIsFixed DEF BlobStays, exists
    <3>2. CASE ~files[r].made
      <4>1. create_evidence(r)
        BY <1>1, <2>1, <3>2 DEF Next, Step, Stage, NoArtifact, NotFetched, Probe, CopyStart,
           CopyEnd, Hash, create_evidence, UploadFailed, Report, Crash, rows, TypeOK
      <4>2. pc'[r] = "linked"
        BY <1>1, <4>1 DEF create_evidence, Goto, TypeOK
      <4>3. QED
        BY <1>1, <4>2, BehindStep DEF BehindRun
    <3>3. QED
      BY <3>1, <3>2
  <2>2. ASSUME NEW j \in Job, docs'[j].file # NoRun
        PROVE  files'[docs'[j].file].made
    <3>1. CASE docs'[j].file = docs[j].file
      <4>1. docs[j].file \in Run /\ files[docs[j].file].made
        BY <1>1, <2>2, <3>1 DEF EvidenceInv, FileIdIsCommitted, TypeOK, Doc
      <4>2. QED
        BY <1>1, <3>1, <4>1, StoreStep
    <3>2. CASE docs'[j].file # docs[j].file
      <4>1. PICK r \in Run : Report(r)
        BY <1>1, <3>2 DEF Next, Step, Stage, NoArtifact, NotFetched, Probe, CopyStart,
           CopyEnd, Hash, create_evidence, UploadFailed, Crash, rows
      <4>2. pc[r] = "linked" /\ docs'[j].file = r
        <5>1. docs \in [Job -> Doc]
          BY <1>1 DEF TypeOK
        <5>2. JobOf[r] = j
          BY <3>2, <4>1, <5>1 DEF Report, Doc
        <5>3. ASSUME NEW st, docs' = [docs EXCEPT ![j].status = st]
              PROVE  docs'[j].file = docs[j].file
          BY <5>1, <5>3 DEF Doc
        <5>4. /\ pc[r] = "linked"
              /\ docs' = [docs EXCEPT ![j] = [status |-> "uploaded", file |-> r]]
          BY <3>2, <4>1, <5>2, <5>3 DEF Report
        <5>5. QED
          BY <5>1, <5>4
      <4>3. files[r].made
        BY <1>1, <4>2 DEF EvidenceInv, BehindRun
      <4>4. QED
        BY <1>1, <4>2, <4>3, StoreStep
    <3>3. QED
      BY <3>1, <3>2
  <2>3. QED
    BY <1>1, <2>1, <2>2, BehindStep
       DEF EvidenceInv, EvidenceHasBlob, FileIdIsCommitted
<1>2. ASSUME EvidenceInv, UNCHANGED vars PROVE EvidenceInv'
  BY <1>2, ObjectIsFixed DEF EvidenceInv, EvidenceHasBlob, FileIdIsCommitted, BehindRun,
     Copying, exists, vars, rows
<1>3. QED
  BY <1>1, <1>2

LEMMA EvidenceInit == Init => EvidenceInv
<1>1. SUFFICES ASSUME Init PROVE EvidenceInv
  OBVIOUS
<1>2. \A r \in Run : pc[r] = "idle" /\ ~files[r].made
  BY <1>1 DEF Init, NoFile
<1>3. \A j \in Job : docs[j].file = NoRun
  BY <1>1 DEF Init
<1>4. QED
  BY <1>2, <1>3 DEF EvidenceInv, EvidenceHasBlob, FileIdIsCommitted, BehindRun, Copying

LEMMA EvidenceInvariant == Spec => []EvidenceInv
BY EvidenceInit, EvidenceStep, EvidenceTypeCorrect, PTL DEF Spec

\* No File row ever names an object that is not in the store, whatever crashes,
\* fails or interleaves, on either backend.
THEOREM EvidenceIsStored == Spec => []EvidenceHasBlob
<1>1. EvidenceInv => EvidenceHasBlob
  BY DEF EvidenceInv
<1>2. QED
  BY <1>1, EvidenceInvariant, PTL

\* A document row's file_id always names a committed File row.
THEOREM FileIdsAreCommitted == Spec => []FileIdIsCommitted
<1>1. EvidenceInv => FileIdIsCommitted
  BY DEF EvidenceInv
<1>2. QED
  BY <1>1, EvidenceInvariant, PTL

-----------------------------------------------------------------------------
(* Where an incomplete object can come from *)

\* The object of a run is complete, or some run copies or copied to it and did
\* not end, or did not end alone.
Accounted(r) ==
    exists(Object(r)) =>
        \/ blob[Object(r)].whole
        \/ \E s \in Run : Object(s) = Object(r) /\ (Copying(s) \/ s \in torn)

WholeInv == \A r \in Run : Accounted(r)

\* A run that leaves its copy has written the whole file or is in torn; nobody
\* leaves torn.
LEMMA CopyLeft ==
    ASSUME TypeOK, Next
    PROVE  /\ torn \subseteq torn'
           /\ \A s \in Run : Copying(s) => Copying(s)' \/ s \in torn' \/ CopyEnd(s)
<1>1. torn \subseteq torn'
  BY DEF Next, Step, Stage, NoArtifact, NotFetched, Probe, CopyStart, CopyEnd, Hash,
     create_evidence, UploadFailed, Report, Crash, CutShort
<1>2. ASSUME NEW s \in Run, Copying(s), NEW r \in Run, Step(r) \/ Crash(r), r # s
      PROVE  Copying(s)'
  BY <1>2, StoreIsFixed DEF Next, Step, Stage, NoArtifact, NotFetched, Probe, CopyStart,
     CopyEnd, Hash, create_evidence, UploadFailed, Report, Crash, Goto, Copying, TypeOK
<1>3. ASSUME NEW s \in Run, Copying(s), Step(s) \/ Crash(s)
      PROVE  CopyEnd(s) \/ s \in torn'
  BY <1>3 DEF Step, Stage, NoArtifact, NotFetched, Probe, CopyStart,
     Hash, create_evidence, UploadFailed, Report, Crash, CutShort, Copying
<1>4. QED
  BY <1>1, <1>2, <1>3 DEF Next

LEMMA WholeStep == TypeOK /\ WholeInv /\ [Next]_vars => WholeInv'
<1> USE KeyType, EvidenceAssumption
<1>1. ASSUME TypeOK, WholeInv, Next, NEW r \in Run, exists(Object(r))'
      PROVE  Accounted(r)'
  <2>0. /\ UNCHANGED store
        /\ \A s \in Run : Object(s)' = Object(s) /\ Object(s) \in Backend \X Order
        /\ blob \in [Backend \X Order -> Blob]
    BY <1>1, StoreIsFixed, ObjectIsFixed DEF TypeOK
  <2>1. ASSUME NEW s \in Run, CopyStart(s), Object(s) = Object(r), store[s] = "local"
        PROVE  Accounted(r)'
    <3>1. Copying(s)'
      BY <1>1, <2>0, <2>1 DEF CopyStart, Goto, Copying, TypeOK
    <3>2. QED
      BY <2>0, <2>1, <3>1 DEF Accounted
  <2>2. ASSUME NEW s \in Run, CopyEnd(s), Object(s) = Object(r)
        PROVE  Accounted(r)'
    <3>1. CASE s \in torn
      BY <1>1, <2>0, <2>2, <3>1, CopyLeft DEF Accounted
    <3>2. CASE s \notin torn
      <4>1. blob' = [blob EXCEPT ![Object(s)] = [data |-> seen[s], whole |-> TRUE]]
        BY <2>2, <3>2 DEF CopyEnd
      <4>2. blob'[Object(r)].whole
        BY <2>0, <2>2, <4>1
      <4>3. QED
        BY <2>0, <4>2 DEF Accounted
    <3>3. QED
      BY <3>1, <3>2
  <2>3. ASSUME blob'[Object(r)] = blob[Object(r)],
               ~ \E s \in Run : CopyEnd(s) /\ Object(s) = Object(r)
        PROVE  Accounted(r)'
    <3>1. CASE blob[Object(r)].whole
      BY <2>0, <2>3, <3>1 DEF Accounted
    <3>2. CASE ~blob[Object(r)].whole
      <4>1. exists(Object(r))
        BY <1>1, <2>0, <2>3 DEF exists
      <4>2. PICK s \in Run : Object(s) = Object(r) /\ (Copying(s) \/ s \in torn)
        BY <1>1, <3>2, <4>1 DEF WholeInv, Accounted
      <4>3. Copying(s)' \/ s \in torn'
        BY <1>1, <2>3, <4>2, CopyLeft
      <4>4. QED
        BY <2>0, <4>2, <4>3 DEF Accounted
    <3>3. QED
      BY <3>1, <3>2
  <2>4. \/ UNCHANGED blob
        \/ \E s \in Run : CopyStart(s) /\ store[s] = "local"
        \/ \E s \in Run : CopyEnd(s)
    BY <1>1 DEF Next, Step, Stage, NoArtifact, NotFetched, Probe, CopyStart, Hash,
       create_evidence, UploadFailed, Report, Crash
  <2>5. ASSUME NEW s \in Run, CopyStart(s) \/ CopyEnd(s), Object(s) # Object(r)
        PROVE  blob'[Object(r)] = blob[Object(r)]
    <3>1. blob' = blob \/ \E b : blob' = [blob EXCEPT ![Object(s)] = b]
      BY <2>5 DEF CopyStart, CopyEnd
    <3>2. QED
      BY <2>0, <2>5, <3>1
  <2>6. QED
    BY <2>1, <2>2, <2>3, <2>4, <2>5
<1>2. ASSUME WholeInv, UNCHANGED vars PROVE WholeInv'
  BY <1>2, ObjectIsFixed DEF WholeInv, Accounted, Copying, exists, vars
<1>3. QED
  BY <1>1, <1>2 DEF WholeInv, Accounted

LEMMA WholeInit == Init => WholeInv
<1> USE EvidenceAssumption
<1>1. SUFFICES ASSUME Init, NEW r \in Run PROVE ~exists(Object(r))
  BY DEF WholeInv, Accounted
<1>2. Object(r) \in Backend \X Order
  BY <1>1 DEF Object, build_key, Init, _make
<1>3. QED
  BY <1>1, <1>2 DEF Init, exists, NoBlob

\* However runs interleave, fail and crash, on either backend: evidence names an
\* incomplete object only where a copy is under way, was cut short, or met
\* another writer.
THEOREM IncompleteIsTorn == Spec => []WholeUnlessTorn
<1>1. EvidenceInv /\ WholeInv => WholeUnlessTorn
  BY DEF EvidenceInv, EvidenceHasBlob, WholeInv, Accounted, WholeUnlessTorn
<1>2. Spec => []WholeInv
  BY WholeInit, WholeStep, EvidenceTypeCorrect, PTL DEF Spec
<1>3. QED
  BY <1>1, <1>2, EvidenceInvariant, PTL

-----------------------------------------------------------------------------
(* Runs one after the other, on the disk *)

(* KeptWhenSequential and WriterRecordsItsBlob hold because a run that is    *)
(* alone stages, probes, copies and hashes with nothing in between: what it  *)
(* finds at each place is what it left at the one before.                    *)

Alone == \A r, s \in Run : r # s => ~(Active(r) /\ Active(s))

\* What a run on the disk has left behind at each place.
DiskRun(r) ==
    /\ pc[r] = "copy" => ~exists(Object(r))
    /\ pc[r] = "copying" =>
          seen[r] = r /\ blob[Object(r)] = [data |-> r, whole |-> FALSE]
    /\ pc[r] \in {"hash", "evidence"} /\ r \in wrote =>
          blob[Object(r)] = [data |-> r, whole |-> TRUE]
    /\ files[r].made /\ r \in wrote =>
          files[r].digest = r /\ blob[Object(r)] = [data |-> r, whole |-> TRUE]

SeqRun(r) ==
    /\ pc[r] \in {"staged", "copy", "copying", "hash"} => staged[FolderOf[r]] = r
    /\ pc[r] = "evidence" => digest[r] = r
    /\ pc[r] \in {"idle", "staged", "copy"} => r \notin wrote
    /\ pc[r] \in {"idle", "staged", "copy", "copying"} => r \notin torn
    /\ files[r].made => pc[r] \in {"linked", "done"}
    /\ store[r] = "local" => DiskRun(r)

SeqInv == ~overlap => Alone /\ \A r \in Run : SeqRun(r)

\* History: overlap never goes back, and without it nobody is beside a run.
LEMMA Lonely ==
    ASSUME TypeOK, Next, ~overlap' PROVE ~overlap /\ Alone'
<1>1. Observe
  BY DEF Next, Step, Stage, NoArtifact, NotFetched, Probe, CopyStart, CopyEnd, Hash,
     create_evidence, UploadFailed, Report, Crash, Goto
<1>2. QED
  BY <1>1 DEF Observe, Alone, Active, TypeOK

\* A step of another run leaves a run's own state alone.
LEMMA OtherRun ==
    ASSUME TypeOK, NEW r \in Run, NEW s \in Run, s # r, Step(s) \/ Crash(s)
    PROVE  /\ pc'[r] = pc[r] /\ seen'[r] = seen[r] /\ digest'[r] = digest[r]
           /\ files'[r] = files[r]
           /\ r \in wrote' <=> r \in wrote
BY DEF Step, Stage, NoArtifact, NotFetched, Probe, CopyStart, CopyEnd, Hash,
   create_evidence, UploadFailed, Report, Crash, Goto, TypeOK, rows

\* The file of a run that is done is not touched by the one after it.
LEMMA OtherKeepsFile ==
    ASSUME TypeOK, SeqInv, ~overlap, NEW r \in Run, NEW s \in Run, s # r,
           Step(s) \/ Crash(s), store[r] = "local",
           blob[Object(r)] = [data |-> r, whole |-> TRUE]
    PROVE  blob'[Object(r)] = blob[Object(r)]
<1> USE KeyType, EvidenceAssumption
<1>0. /\ blob \in [Backend \X Order -> Blob]
      /\ Object(r) \in Backend \X Order /\ Object(s) \in Backend \X Order
  BY DEF TypeOK
<1>1. ASSUME NEW b, blob' = [blob EXCEPT ![Object(s)] = b], Object(s) # Object(r)
      PROVE  blob'[Object(r)] = blob[Object(r)]
  BY <1>0, <1>1
<1>2. ASSUME Object(s) = Object(r) PROVE DiskRun(s)
  <2>1. store[s] = "local"
    BY <1>2 DEF Object
  <2>2. QED
    BY <2>1 DEF SeqInv, SeqRun
<1>3. CASE CopyStart(s)
  <2>1. Object(s) # Object(r)
    <3>1. SUFFICES ASSUME Object(s) = Object(r) PROVE FALSE
      OBVIOUS
    <3>2. ~exists(Object(s))
      BY <1>2, <1>3, <3>1 DEF DiskRun, CopyStart
    <3>3. QED
      BY <3>1, <3>2, EvidenceAssumption DEF exists
  <2>2. QED
    BY <1>1, <1>3, <2>1 DEF CopyStart
<1>4. CASE CopyEnd(s)
  <2>1. Object(s) # Object(r)
    <3>1. SUFFICES ASSUME Object(s) = Object(r) PROVE FALSE
      OBVIOUS
    <3>2. blob[Object(s)] = [data |-> s, whole |-> FALSE]
      BY <1>2, <1>4, <3>1 DEF DiskRun, CopyEnd
    <3>3. QED
      BY <3>1, <3>2
  <2>2. PICK b : blob' = [blob EXCEPT ![Object(s)] = b]
    BY <1>4 DEF CopyEnd
  <2>3. QED
    BY <1>1, <2>1, <2>2
<1>5. QED
  BY <1>3, <1>4 DEF Step, Stage, NoArtifact, NotFetched, Probe, Hash, create_evidence,
     UploadFailed, Report, Crash

\* A run keeps what it had while another one moves.
LEMMA OtherSeqRun ==
    ASSUME TypeOK, SeqInv, ~overlap, Alone', NEW r \in Run, NEW s \in Run, s # r,
           Step(s) \/ Crash(s)
    PROVE  SeqRun(r)'
<1> USE KeyType, EvidenceAssumption
<1>1. SeqRun(r) /\ Alone
  BY DEF SeqInv
<1>2. UNCHANGED store /\ Object(r)' = Object(r)
  BY StoreIsFixed, ObjectIsFixed DEF Next
<1>3. ASSUME Active(r)
      PROVE  UNCHANGED <<staged, blob, torn>>
  <2>1. ~Active(s) /\ ~Active(s)'
    BY <1>1, <1>3, OtherRun DEF Alone, Active
  <2>2. Report(s) \/ Crash(s) \/ NotFetched(s) \/ NoArtifact(s) \/ Stage(s)
    BY <2>1 DEF Step, Probe, CopyStart, CopyEnd, Hash, create_evidence,
       UploadFailed, Active, ActivePlace
  <2>3. ~Stage(s)
    BY <2>1 DEF Stage, Goto, Active, ActivePlace, TypeOK
  <2>4. QED
    BY <2>1, <2>2, <2>3 DEF Report, Crash, NotFetched, NoArtifact
<1>4. store[r] = "local" => DiskRun(r)'
  <2>1. SUFFICES ASSUME store[r] = "local" PROVE DiskRun(r)'
    OBVIOUS
  <2>2. DiskRun(r)
    BY <1>1, <2>1 DEF SeqRun
  <2>3. CASE Active(r)
    BY <1>2, <1>3, <2>2, <2>3, OtherRun DEF DiskRun, exists
  <2>4. CASE ~Active(r)
    <3>1. pc'[r] \notin {"copy", "copying", "hash", "evidence"}
      BY <2>4, OtherRun DEF Active, ActivePlace
    <3>2. ASSUME files'[r].made, r \in wrote'
          PROVE  /\ files'[r].digest = r
                 /\ blob'[Object(r)] = [data |-> r, whole |-> TRUE]
      BY <2>1, <2>2, <3>2, OtherRun, OtherKeepsFile DEF DiskRun
    <3>3. QED
      BY <1>2, <3>1, <3>2 DEF DiskRun
  <2>5. QED
    BY <2>3, <2>4
<1>5. pc'[r] \in {"staged", "copy", "copying", "hash"} => staged'[FolderOf[r]] = r
  BY <1>1, <1>3, OtherRun DEF SeqRun, Active, ActivePlace
<1>6. r \in torn' => r \in torn
  <2>1. CASE Active(r)
    BY <1>3, <2>1
  <2>2. CASE ~Active(r)
    <3>1. ~Copying(r)
      BY <2>2 DEF Active, ActivePlace, Copying
    <3>2. QED
      BY <3>1 DEF Step, Stage, NoArtifact, NotFetched, Probe, CopyStart, CopyEnd, Hash,
         create_evidence, UploadFailed, Report, Crash, CutShort, Rivals
  <2>3. QED
    BY <2>1, <2>2
<1>7. QED
  BY <1>1, <1>2, <1>4, <1>5, <1>6, OtherRun DEF SeqRun

\* The run that moves leaves at its new place what that place promises.
LEMMA OwnSeqRun ==
    ASSUME TypeOK, SeqInv, ~overlap, NEW r \in Run, Step(r) \/ Crash(r)
    PROVE  SeqRun(r)'
<1> USE KeyType, EvidenceAssumption
<1>0. SeqRun(r)
  BY DEF SeqInv
<1>1. UNCHANGED store /\ Object(r)' = Object(r)
  BY StoreIsFixed, ObjectIsFixed DEF Next
<1>2. /\ blob \in [Backend \X Order -> Blob] /\ Object(r) \in Backend \X Order
      /\ pc \in [Run -> ActivePlace \cup {"idle", "done"}]
      /\ staged \in [Folder -> Run \cup {NoRun}] /\ FolderOf[r] \in Folder
  BY DEF TypeOK
<1>3. CASE Stage(r)
  <2>1. /\ pc[r] = "idle" /\ pc'[r] = "staged" /\ staged'[FolderOf[r]] = r
        /\ UNCHANGED <<files, wrote>>
        /\ r \in torn' => r \in torn
    BY <1>2, <1>3 DEF Stage, Goto, Copying, rows
  <2>2. QED
    BY <1>0, <1>1, <2>1 DEF SeqRun, DiskRun
<1>4. CASE NoArtifact(r) \/ NotFetched(r) \/ UploadFailed(r) \/ Report(r) \/ Crash(r)
  <2>1. /\ pc'[r] \in {"bare", "broken", "done"}
        /\ UNCHANGED <<files, blob, wrote>>
    BY <1>2, <1>4 DEF NoArtifact, NotFetched, UploadFailed, Report, Crash, Goto, rows
  <2>2. files[r].made => pc'[r] = "done"
    BY <1>0, <1>2, <1>4 DEF SeqRun, NoArtifact, NotFetched, UploadFailed, Report, Crash,
       Goto
  <2>3. QED
    BY <1>0, <1>1, <2>1, <2>2 DEF SeqRun, DiskRun
<1>5. CASE Probe(r)
  <2>1. /\ UNCHANGED <<staged, files, blob, torn, wrote>>
        /\ pc[r] = "staged"
        /\ \/ pc'[r] = "hash"
           \/ pc'[r] = "copy" /\ (store[r] = "local" => ~exists(Object(r)))
    BY <1>2, <1>5 DEF Probe, Goto, rows
  <2>2. QED
    BY <1>0, <1>1, <2>1 DEF SeqRun, DiskRun, exists
<1>6. CASE CopyStart(r)
  <2>1. /\ pc[r] = "copy" /\ pc'[r] = "copying" /\ seen'[r] = r
        /\ staged[FolderOf[r]] = r /\ UNCHANGED <<staged, files>>
    BY <1>0, <1>2, <1>6 DEF CopyStart, Goto, SeqRun, TypeOK, rows
  <2>2. store[r] = "local" => blob'[Object(r)] = [data |-> r, whole |-> FALSE]
    BY <1>2, <1>6, <2>1 DEF CopyStart
  <2>3. ~files[r].made
    BY <1>0, <2>1 DEF SeqRun
  <2>4. r \notin torn'
    <3>1. Rivals(r) = {}
      BY <2>1 DEF SeqInv, Alone, Active, ActivePlace, Rivals, Copying
    <3>2. r \notin torn
      BY <1>0, <2>1 DEF SeqRun
    <3>3. QED
      BY <1>6, <3>1, <3>2 DEF CopyStart
  <2>5. QED
    BY <1>1, <2>1, <2>2, <2>3, <2>4 DEF SeqRun, DiskRun
<1>7. CASE CopyEnd(r)
  <2>1. /\ pc[r] = "copying" /\ pc'[r] = "hash"
        /\ staged[FolderOf[r]] = r /\ UNCHANGED <<staged, files>>
    BY <1>0, <1>2, <1>7 DEF CopyEnd, Goto, SeqRun, rows
  <2>2. ~files[r].made
    BY <1>0, <2>1 DEF SeqRun
  <2>3. ASSUME store[r] = "local"
        PROVE  blob'[Object(r)] = [data |-> r, whole |-> TRUE]
    <3>1. seen[r] = r /\ r \notin torn
      BY <1>0, <2>1, <2>3 DEF SeqRun, DiskRun
    <3>2. blob' = [blob EXCEPT ![Object(r)] = [data |-> seen[r], whole |-> TRUE]]
      BY <1>7, <2>1, <3>1 DEF CopyEnd
    <3>3. QED
      BY <1>2, <3>1, <3>2
  <2>4. QED
    BY <1>1, <2>1, <2>2, <2>3 DEF SeqRun, DiskRun
<1>8. CASE Hash(r)
  <2>1. /\ pc[r] = "hash" /\ pc'[r] = "evidence" /\ digest'[r] = r
        /\ UNCHANGED <<files, blob, wrote>>
    BY <1>0, <1>2, <1>8 DEF Hash, Goto, SeqRun, TypeOK, rows
  <2>2. QED
    BY <1>0, <1>1, <2>1 DEF SeqRun, DiskRun
<1>9. CASE create_evidence(r)
  <2>1. /\ pc[r] = "evidence" /\ pc'[r] = "linked" /\ digest[r] = r
        /\ files'[r].digest = r
        /\ UNCHANGED <<blob, wrote>>
    BY <1>0, <1>2, <1>9 DEF create_evidence, Goto, SeqRun, TypeOK
  <2>2. QED
    BY <1>0, <1>1, <2>1 DEF SeqRun, DiskRun
<1>10. QED
  BY <1>3, <1>4, <1>5, <1>6, <1>7, <1>8, <1>9 DEF Step

LEMMA SeqInvariant == Spec => []SeqInv
<1>1. Init => SeqInv
  <2>1. SUFFICES ASSUME Init PROVE Alone /\ \A r \in Run : SeqRun(r)
    BY DEF SeqInv
  <2>2. \A r \in Run :
           pc[r] = "idle" /\ ~files[r].made /\ r \notin wrote /\ r \notin torn
    BY <2>1 DEF Init, NoFile
  <2>3. QED
    BY <2>2 DEF Alone, Active, ActivePlace, SeqRun, DiskRun
<1>2. TypeOK /\ SeqInv /\ [Next]_vars => SeqInv'
  <2>1. ASSUME TypeOK, SeqInv, Next, ~overlap' PROVE Alone' /\ \A r \in Run : SeqRun(r)'
    <3>1. ~overlap /\ Alone'
      BY <2>1, Lonely
    <3>2. PICK s \in Run : Step(s) \/ Crash(s)
      BY <2>1 DEF Next
    <3>3. QED
      BY <2>1, <3>1, <3>2, OtherSeqRun, OwnSeqRun
  <2>2. ASSUME SeqInv, UNCHANGED vars PROVE SeqInv'
    BY <2>2, ObjectIsFixed DEF SeqInv, Alone, Active, SeqRun, DiskRun, exists, vars, rows
  <2>3. QED
    BY <2>1, <2>2 DEF SeqInv
<1>3. QED
  BY <1>1, <1>2, EvidenceTypeCorrect, PTL DEF Spec

\* While no two runs overlapped, the run that wrote a file to the disk recorded
\* the digest of exactly that file.
THEOREM WritersRecordTheirBlob == Spec => []WriterRecordsItsBlob
<1>1. TypeOK /\ SeqInv => WriterRecordsItsBlob
  BY DEF TypeOK, SeqInv, SeqRun, DiskRun, WriterRecordsItsBlob
<1>2. QED
  BY <1>1, SeqInvariant, EvidenceTypeCorrect, PTL

\* While no two runs overlapped, no step changes the bytes of a file that is on
\* the disk, or makes a complete one incomplete.
THEOREM DiskFilesAreKept == Spec => KeptWhenSequential
<1> USE KeyType, EvidenceAssumption
<1>1. ASSUME TypeOK, SeqInv, Next, ~overlap', NEW k \in Order, exists(<<"local", k>>)
      PROVE  /\ blob'[<<"local", k>>].data = blob[<<"local", k>>].data
             /\ blob[<<"local", k>>].whole => blob'[<<"local", k>>].whole
  <2> DEFINE o == <<"local", k>>
  <2>1. blob \in [Backend \X Order -> Blob] /\ o \in Backend \X Order
    BY <1>1 DEF TypeOK, Backend
  <2>2. ASSUME NEW r \in Run, Object(r) = o PROVE DiskRun(r)
    <3>1. store[r] = "local"
      BY <2>2 DEF Object
    <3>2. QED
      BY <1>1, <3>1, Lonely DEF SeqInv, SeqRun
  <2> HIDE DEF o
  <2>3. ASSUME NEW r \in Run, CopyStart(r) PROVE blob'[o] = blob[o]
    <3>1. Object(r) # o
      BY <1>1, <2>2, <2>3 DEF CopyStart, DiskRun, o
    <3>2. QED
      BY <2>1, <2>3, <3>1 DEF CopyStart
  <2>4. ASSUME NEW r \in Run, CopyEnd(r)
        PROVE  blob'[o].data = blob[o].data /\ (blob[o].whole => blob'[o].whole)
    <3>1. PICK b : blob' = [blob EXCEPT ![Object(r)] = b]
      BY <2>4 DEF CopyEnd
    <3>2. CASE Object(r) # o
      BY <2>1, <3>1, <3>2
    <3>3. CASE Object(r) = o
      <4>1. pc[r] = "copying" /\ seen[r] = r /\ blob[o] = [data |-> r, whole |-> FALSE]
        BY <2>2, <2>4, <3>3 DEF CopyEnd, DiskRun
      <4>2. r \notin torn
        BY <1>1, <4>1, Lonely DEF SeqInv, SeqRun
      <4>3. blob' = [blob EXCEPT ![o] = [data |-> r, whole |-> TRUE]]
        BY <2>4, <3>3, <4>1, <4>2 DEF CopyEnd
      <4>4. QED
        BY <2>1, <4>1, <4>3
    <3>4. QED
      BY <3>2, <3>3
  <2>5. UNCHANGED blob \/ \E r \in Run : CopyStart(r) \/ CopyEnd(r)
    BY <1>1 DEF Next, Step, Stage, NoArtifact, NotFetched, Probe, Hash,
       create_evidence, UploadFailed, Report, Crash
  <2>6. QED
    BY <2>3, <2>4, <2>5 DEF o
<1>2. TypeOK /\ SeqInv /\ [Next]_vars =>
        [~overlap' => \A k \in Order :
           LET o == <<"local", k>>
           IN  exists(o) => /\ blob'[o].data = blob[o].data
                            /\ blob[o].whole => blob'[o].whole]_vars
  BY <1>1
<1>3. QED
  BY <1>2, SeqInvariant, EvidenceTypeCorrect, PTL DEF Spec, KeptWhenSequential

=============================================================================
