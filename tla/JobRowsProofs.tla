--------------------------- MODULE JobRowsProofs ---------------------------
(***************************************************************************)
(* Theorems about what the job row says of its documents: the terminal     *)
(* status, the counters and the callback's payload, for every number of    *)
(* workers, documents and clients and every bound.                         *)
(***************************************************************************)
EXTENDS JobLifecycleProofs

Settled(ds) == \A d \in Doc : ds[d].status \in Outcome

Loop == {"boundary", "mark", "fetch"}
Good == {"completed", "partial"}

-----------------------------------------------------------------------------
(* Facts about counting *)

\* The counters by name.
LEMMA RecalcFields ==
    ASSUME NEW ds
    PROVE  /\ recalc_job_counters(ds)["fetched"] = Count(ds, {"fetched", "uploaded"})
           /\ recalc_job_counters(ds)["uploaded"] = Count(ds, {"uploaded"})
           /\ recalc_job_counters(ds)["failed"] = Count(ds, {"failed"})
           /\ recalc_job_counters(ds)["cancelled"] = Count(ds, {"skipped"})
  BY DEF recalc_job_counters, Counter

\* Copies with the same statuses are counted the same.
LEMMA CountSame ==
    ASSUME NEW a, NEW b, \A d \in Doc : a[d].status = b[d].status
    PROVE  /\ \A S : Count(a, S) = Count(b, S)
           /\ recalc_job_counters(a) = recalc_job_counters(b)
           /\ \A s : resolve_job_terminal_status(s, a) = resolve_job_terminal_status(s, b)
<1>1. ASSUME NEW S PROVE Count(a, S) = Count(b, S)
  <2>1. {d \in Doc : a[d].status \in S} = {d \in Doc : b[d].status \in S}
    OBVIOUS
  <2>2. QED
    BY <2>1 DEF Count
<1>2. recalc_job_counters(a) = recalc_job_counters(b)
  <2>1. /\ Count(a, {"fetched", "uploaded"}) = Count(b, {"fetched", "uploaded"})
        /\ Count(a, {"uploaded"}) = Count(b, {"uploaded"})
        /\ Count(a, {"failed"}) = Count(b, {"failed"})
        /\ Count(a, {"skipped"}) = Count(b, {"skipped"})
    BY <1>1
  <2>2. \A c \in Counter : recalc_job_counters(a)[c] = recalc_job_counters(b)[c]
    BY <2>1, RecalcFields DEF Counter
  <2>3. QED
    BY <2>2, RecalcType
<1>3. ASSUME NEW s PROVE resolve_job_terminal_status(s, a) = resolve_job_terminal_status(s, b)
  <2>1. /\ Count(a, {"failed"}) = Count(b, {"failed"})
        /\ Count(a, DocStatus \ {"failed", "skipped"}) = Count(b, DocStatus \ {"failed", "skipped"})
    BY <1>1
  <2>2. QED
    BY <2>1 DEF resolve_job_terminal_status
<1>4. QED
  BY <1>1, <1>2, <1>3

\* Nothing is counted exactly when no document has such a status.
LEMMA CountZero ==
    ASSUME NEW ds, NEW S
    PROVE  /\ Count(ds, S) \in Nat
           /\ Count(ds, S) = 0 <=> \A d \in Doc : ds[d].status \notin S
<1> DEFINE C == {d \in Doc : ds[d].status \in S}
<1>1. IsFiniteSet(C)
  BY DocAssumption, FS_Subset
<1>2. Cardinality(C) \in Nat /\ (Cardinality(C) = 0 <=> C = {})
  BY <1>1, FS_CardinalityType, FS_EmptySet
<1>3. C = {} <=> \A d \in Doc : ds[d].status \notin S
  OBVIOUS
<1>4. QED
  BY <1>2, <1>3 DEF Count

\* What the terminal status says about settled documents.
LEMMA ResolveMeaning ==
    ASSUME NEW ds, Settled(ds), NEW status
    PROVE  LET s == resolve_job_terminal_status(status, ds)
           IN  /\ s = "completed" => Count(ds, {"failed"}) = 0
               /\ s = "partial" => Count(ds, {"failed"}) > 0 /\ Count(ds, {"fetched", "uploaded"}) > 0
               /\ s = "failed" => Count(ds, {"failed"}) > 0 /\ Count(ds, {"fetched", "uploaded"}) = 0
<1> DEFINE failed == Count(ds, {"failed"})
           ok     == Count(ds, DocStatus \ {"failed", "skipped"})
           done   == Count(ds, {"fetched", "uploaded"})
<1>1. failed \in Nat /\ ok \in Nat /\ done \in Nat
  BY CountZero
<1>2. ok = 0 <=> done = 0
  <2>1. \A d \in Doc : ds[d].status \in DocStatus \ {"failed", "skipped"}
                         <=> ds[d].status \in {"fetched", "uploaded"}
    BY DEF Settled, Outcome, DocStatus
  <2>2. QED
    BY <2>1, CountZero
<1>3. resolve_job_terminal_status(status, ds) =
        IF status = "cancelling" THEN "cancelled"
        ELSE IF failed = 0 THEN "completed"
        ELSE IF ok = 0 THEN "failed" ELSE "partial"
  BY DocAssumption DEF resolve_job_terminal_status
<1> HIDE DEF failed, ok, done
<1>4. /\ resolve_job_terminal_status(status, ds) = "completed" => failed = 0
      /\ resolve_job_terminal_status(status, ds) = "partial" => failed > 0 /\ done > 0
      /\ resolve_job_terminal_status(status, ds) = "failed" => failed > 0 /\ done = 0
  BY <1>1, <1>2, <1>3
<1>5. QED
  BY <1>4 DEF failed, done

-----------------------------------------------------------------------------
(* The loop settles every document it leaves behind *)

\* The documents a run has still to settle.
Ahead(w) == IF pc[w] = "boundary" THEN todo[w] ELSE todo[w] \cup {cur[w]}

LoopInv ==
    \A w \in Worker : pc[w] \in Loop =>
        \A d \in Doc \ Ahead(w) : mdocs[w][d].status \in Outcome

\* What the loop needs of one worker.
OwnLoop(w) ==
    pc[w] \in Loop => \A d \in Doc \ Ahead(w) : mdocs[w][d].status \in Outcome

\* A step of worker w leaves the sessions of the others.
Frame(w) ==
    \A v \in Worker \ {w} :
        /\ pc'[v] = pc[v] /\ mjob'[v] = mjob[v] /\ mdocs'[v] = mdocs[v]
        /\ todo'[v] = todo[v] /\ cur'[v] = cur[v] /\ dirty'[v] = dirty[v]

LEMMA WorkerFrame ==
    ASSUME TypeOK, NEW w \in Worker, WorkerStep(w) \/ Fail(w) \/ Crash(w) \/ Kill(w)
    PROVE  Frame(w)
<1> USE DEF TypeOK, Frame
<1>1. ASSUME EndSession(w) PROVE Frame(w)
  BY <1>1 DEF EndSession
<1>2. CASE \E k \in 0..MaxRetries : Receive(w, k)
  BY <1>2 DEF Receive
<1>3. CASE ReadDocs(w)
  BY <1>3 DEF ReadDocs
<1>4. CASE Claim(w)
  BY <1>4 DEF Claim
<1>5. CASE ReRead(w)
  <2>1. PICK d \in todo[w] : /\ cur' = [cur EXCEPT ![w] = d]
                             /\ todo' = [todo EXCEPT ![w] = @ \ {d}]
    BY <1>5 DEF ReRead
  <2>2. QED
    BY <1>5, <2>1 DEF ReRead
<1>6. CASE Skip(w)
  BY <1>6 DEF Skip
<1>7. CASE MarkFetching(w)
  BY <1>7 DEF MarkFetching
<1>8. CASE FetchDone(w)
  <2>1. PICK x : mdocs' = [mdocs EXCEPT ![w][cur[w]] = x]
    BY <1>8 DEF FetchDone
  <2>2. QED
    BY <1>8, <2>1 DEF FetchDone
<1>9. CASE Finalize(w)
  <2>1. CASE EndSession(w)
    BY <1>1, <2>1
  <2>2. CASE ~EndSession(w)
    BY <1>9, <2>2 DEF Finalize
  <2>3. QED
    BY <2>1, <2>2
<1>10. CASE CallbackRefused(w)
  BY <1>1, <1>10 DEF CallbackRefused
<1>11. CASE Drain(w) \/ CallbackAccepted(w) \/ Fail(w) \/ Crash(w) \/ Kill(w)
  BY <1>1, <1>11 DEF Drain, CallbackAccepted, Fail, Crash, Kill
<1>12. QED
  BY <1>2, <1>3, <1>4, <1>5, <1>6, <1>7, <1>8, <1>9, <1>10, <1>11 DEF WorkerStep

\* The calls, the creator and the reaper touch no session.
Outside ==
    \/ Enqueue \/ EnqueueLost \/ Age \/ ReaperRequeue \/ ReaperFailRunning
    \/ \E c \in Client : ApiWrite(c) \/ \E op \in ApiOp : ApiRead(c, op)

LEMMA OutsideFrame ==
    ASSUME Outside \/ UNCHANGED vars
    PROVE  UNCHANGED <<pc, mjob, mdocs, todo, cur, dirty, docs>>
  BY DEF Outside, Enqueue, EnqueueLost, Age, ReaperRequeue, ReaperFailRunning, ApiWrite,
         ApiRead, session, db, vars

\* A session that has ended.
LEMMA EndSessionShape ==
    ASSUME TypeOK, NEW w \in Worker, EndSession(w)
    PROVE  pc'[w] = "idle" /\ dirty'[w] = {}
  BY DEF TypeOK, EndSession

LEMMA OwnLoopStep ==
    ASSUME TypeOK, NEW w \in Worker, OwnLoop(w),
           WorkerStep(w) \/ Fail(w) \/ Crash(w) \/ Kill(w)
    PROVE  OwnLoop(w)'
<1> USE DEF OwnLoop, Loop
<1>1. ASSUME EndSession(w) PROVE OwnLoop(w)'
  BY <1>1, EndSessionShape
<1>2. ASSUME pc'[w] \notin Loop PROVE OwnLoop(w)'
  BY <1>2
<1>3. CASE \E k \in 0..MaxRetries : Receive(w, k)
  BY <1>2, <1>3 DEF Receive, TypeOK
<1>4. CASE ReadDocs(w)
  BY <1>2, <1>4 DEF ReadDocs, TypeOK
<1>5. CASE Claim(w)
  BY <1>5 DEF Claim, TypeOK, Ahead
<1>6. CASE ReRead(w)
  <2>1. PICK d \in todo[w] : /\ cur' = [cur EXCEPT ![w] = d]
                             /\ todo' = [todo EXCEPT ![w] = @ \ {d}]
    BY <1>6 DEF ReRead
  <2>2. pc[w] = "boundary" /\ pc'[w] = "mark" /\ mdocs' = mdocs
    BY <1>6 DEF ReRead, TypeOK
  <2>3. cur'[w] = d /\ todo'[w] = todo[w] \ {d}
    BY <2>1 DEF TypeOK
  <2>4. Ahead(w)' = Ahead(w)
    BY <2>1, <2>2, <2>3 DEF Ahead
  <2>5. QED
    BY <2>2, <2>4
<1>7. CASE Skip(w)
  <2>1. /\ pc[w] = "mark" /\ pc'[w] = "boundary" /\ todo' = todo /\ cur[w] \in Doc
        /\ mdocs' = [mdocs EXCEPT ![w][cur[w]].status = "skipped"]
    BY <1>7 DEF Skip, TypeOK
  <2>2. \A d \in Doc : mdocs'[w][d].status = IF d = cur[w] THEN "skipped" ELSE mdocs[w][d].status
    BY <2>1 DEF TypeOK, DocRow
  <2>3. QED
    BY <2>1, <2>2 DEF Ahead, Outcome
<1>8. CASE MarkFetching(w)
  <2>1. /\ pc[w] = "mark" /\ pc'[w] = "fetch" /\ todo' = todo /\ cur' = cur /\ cur[w] \in Doc
        /\ mdocs' = [mdocs EXCEPT ![w][cur[w]].status = "fetching"]
    BY <1>8 DEF MarkFetching, TypeOK
  <2>2. \A d \in Doc : d # cur[w] => mdocs'[w][d] = mdocs[w][d]
    BY <2>1 DEF TypeOK
  <2>3. QED
    BY <2>1, <2>2 DEF Ahead
<1>9. CASE FetchDone(w)
  <2>1. PICK o \in FetchOutcome :
          mdocs' = [mdocs EXCEPT ![w][cur[w]] = [status |-> o, error |-> @.error \/ o = "failed"]]
    BY <1>9 DEF FetchDone
  <2>2. pc[w] = "fetch" /\ pc'[w] = "boundary" /\ todo' = todo /\ cur[w] \in Doc
    BY <1>9 DEF FetchDone, TypeOK
  <2>3. /\ mdocs'[w][cur[w]].status = o
        /\ \A d \in Doc : d # cur[w] => mdocs'[w][d] = mdocs[w][d]
    BY <2>1, <2>2 DEF TypeOK
  <2>4. QED
    BY <2>2, <2>3, OutcomeAssumption DEF Ahead
<1>10. CASE Finalize(w)
  <2>1. CASE EndSession(w)
    BY <1>1, <2>1
  <2>2. CASE ~EndSession(w)
    BY <1>2, <1>10, <2>2 DEF Finalize, TypeOK
  <2>3. QED
    BY <2>1, <2>2
<1>11. CASE CallbackRefused(w)
  BY <1>1, <1>11 DEF CallbackRefused
<1>12. CASE Drain(w) \/ CallbackAccepted(w) \/ Fail(w) \/ Crash(w) \/ Kill(w)
  BY <1>1, <1>12 DEF Drain, CallbackAccepted, Fail, Crash, Kill
<1>13. QED
  BY <1>3, <1>4, <1>5, <1>6, <1>7, <1>8, <1>9, <1>10, <1>11, <1>12 DEF WorkerStep

LEMMA NextCases ==
    ASSUME [Next]_vars
    PROVE  \/ Outside \/ UNCHANGED vars
           \/ \E w \in Worker : WorkerStep(w) \/ Fail(w) \/ Crash(w) \/ Kill(w)
  BY DEF Next, Outside

LEMMA LoopStep == TypeOK /\ LoopInv /\ [Next]_vars => LoopInv'
<1> SUFFICES ASSUME TypeOK, LoopInv, [Next]_vars PROVE LoopInv'
  OBVIOUS
<1>1. CASE Outside \/ UNCHANGED vars
  BY <1>1, OutsideFrame DEF LoopInv, Ahead
<1>2. ASSUME NEW w \in Worker, WorkerStep(w) \/ Fail(w) \/ Crash(w) \/ Kill(w)
      PROVE  LoopInv'
  <2>1. OwnLoop(w)' /\ Frame(w)
    BY <1>2, WorkerFrame, OwnLoopStep DEF LoopInv, OwnLoop
  <2>2. ASSUME NEW v \in Worker PROVE OwnLoop(v)'
    BY <2>1 DEF LoopInv, OwnLoop, Ahead, Frame
  <2>3. QED
    BY <2>2 DEF LoopInv, OwnLoop
<1>3. QED
  BY <1>1, <1>2, NextCases

LEMMA LoopHolds == Spec => [](TypeOK /\ LoopInv)
<1>1. Init => LoopInv
  BY DEF Init, LoopInv, Loop
<1>2. QED
  BY <1>1, LoopStep, TypeCorrect, PTL DEF Spec

-----------------------------------------------------------------------------
(* The callback's payload *)

Consistent(w) ==
    pc[w] = "callback" =>
        LET s == mjob[w].status
            n == mjob[w].cnt
        IN  /\ s \in Terminal
            /\ s = "completed" => n["failed"] = 0
            /\ s = "partial" => n["failed"] > 0 /\ n["fetched"] > 0
            /\ s = "failed" => n["failed"] > 0 /\ n["fetched"] = 0

\* At the end of the loop every copy is settled.
LEMMA EndIsSettled ==
    ASSUME LoopInv, NEW w \in Worker, pc[w] = "boundary", todo[w] = {}
    PROVE  Settled(mdocs[w])
  BY DEF LoopInv, Loop, Ahead, Settled

LEMMA FinalizedIs ==
    ASSUME TypeOK, NEW w \in Worker
    PROVE  /\ Finalized(w).status = resolve_job_terminal_status(mjob[w].status, mdocs[w])
           /\ Finalized(w).cnt = recalc_job_counters(mdocs[w])
           /\ Finalized(w).delivered = mjob[w].delivered
<1>1. mjob[w] \in JobCopy
  BY DEF TypeOK
<1>2. QED
  BY <1>1 DEF Finalized, JobCopy

LEMMA ConsistentStep ==
    ASSUME TypeOK, LoopInv, NEW w \in Worker, Consistent(w),
           WorkerStep(w) \/ Fail(w) \/ Crash(w) \/ Kill(w)
    PROVE  Consistent(w)'
<1>1. ASSUME EndSession(w) PROVE Consistent(w)'
  BY <1>1, EndSessionShape DEF Consistent
<1>2. ASSUME pc'[w] # "callback" PROVE Consistent(w)'
  BY <1>2 DEF Consistent
<1>3. CASE Finalize(w)
  <2>1. CASE EndSession(w)
    BY <1>1, <2>1
  <2>2. CASE ~EndSession(w)
    <3>1. mjob'[w] = Finalized(w)
      BY <1>3, <2>2 DEF Finalize, TypeOK
    <3>2. Settled(mdocs[w])
      BY <1>3, EndIsSettled DEF Finalize
    <3>3. Finalized(w).status \in Terminal
      BY FinalizedType
    <3> DEFINE s == Finalized(w).status
               n == Finalized(w).cnt
    <3>4. /\ s = "completed" => n["failed"] = 0
          /\ s = "partial" => n["failed"] > 0 /\ n["fetched"] > 0
          /\ s = "failed" => n["failed"] > 0 /\ n["fetched"] = 0
      BY <3>2, FinalizedIs, RecalcFields, ResolveMeaning
    <3> HIDE DEF s, n
    <3>5. QED
      BY <3>1, <3>3, <3>4 DEF Consistent, s, n
  <2>3. QED
    BY <2>1, <2>2
<1>4. CASE CallbackRefused(w)
  <2>1. CASE EndSession(w)
    BY <1>1, <2>1
  <2>2. CASE ~EndSession(w)
    BY <1>4, <2>2 DEF CallbackRefused, Consistent
  <2>3. QED
    BY <2>1, <2>2
<1>5. CASE Drain(w) \/ CallbackAccepted(w) \/ Fail(w) \/ Crash(w) \/ Kill(w)
  BY <1>1, <1>5 DEF Drain, CallbackAccepted, Fail, Crash, Kill
<1>6. CASE \/ (\E k \in 0..MaxRetries : Receive(w, k)) \/ ReadDocs(w) \/ Claim(w) \/ ReRead(w)
           \/ Skip(w) \/ MarkFetching(w) \/ FetchDone(w)
  BY <1>2, <1>6 DEF Receive, ReadDocs, Claim, ReRead, Skip, MarkFetching, FetchDone, TypeOK
<1>7. QED
  BY <1>3, <1>4, <1>5, <1>6 DEF WorkerStep

LEMMA PayloadStep == TypeOK /\ LoopInv /\ PayloadIsConsistent /\ [Next]_vars => PayloadIsConsistent'
<1> SUFFICES ASSUME TypeOK, LoopInv, PayloadIsConsistent, [Next]_vars PROVE PayloadIsConsistent'
  OBVIOUS
<1>1. CASE Outside \/ UNCHANGED vars
  BY <1>1, OutsideFrame DEF PayloadIsConsistent
<1>2. ASSUME NEW w \in Worker, WorkerStep(w) \/ Fail(w) \/ Crash(w) \/ Kill(w)
      PROVE  PayloadIsConsistent'
  <2>1. Consistent(w)' /\ Frame(w)
    BY <1>2, WorkerFrame, ConsistentStep DEF PayloadIsConsistent, Consistent
  <2>2. ASSUME NEW v \in Worker PROVE Consistent(v)'
    BY <2>1 DEF PayloadIsConsistent, Consistent, Frame
  <2>3. QED
    BY <2>2 DEF PayloadIsConsistent, Consistent
<1>3. QED
  BY <1>1, <1>2, NextCases

\* _fire_callback: the status and the counts of a payload agree, for any number
\* of overlapping runs, cancels and sweeps.
THEOREM PayloadsAgree == Spec => []PayloadIsConsistent
<1>1. Init => PayloadIsConsistent
  BY DEF Init, PayloadIsConsistent
<1>2. QED
  BY <1>1, PayloadStep, LoopHolds, PTL DEF Spec

-----------------------------------------------------------------------------
(* One run at a time: the session's copies agree with the rows *)

\* The row tells the truth about the documents.
RowsMatch ==
    job.status \in Good =>
        /\ Settled(docs)
        /\ job.cnt = recalc_job_counters(docs)
        /\ job.status = resolve_job_terminal_status("running", docs)

\* A session before its claim: a job that has ended was read as such.
Reading(w) ==
    pc[w] \in {"gotjob", "gotdocs"} =>
        /\ job.status \in Good => mjob[w].status = job.status
        /\ mjob[w].cnt = job.cnt

\* A session in its loop: the job has not ended, and what the session has not
\* flushed is what the rows say.
Looping(w) ==
    pc[w] \in Loop =>
        /\ job.status \notin Good /\ mjob[w].status \notin Good
        /\ mjob[w].cnt = job.cnt
        /\ \A d \in Doc : mdocs[w][d].status =
                            IF d \in dirty[w] THEN "skipped" ELSE docs[d].status
        /\ pc[w] = "fetch" => dirty[w] = {}

\* What ReadDocs has read, and nothing flushed outside the loop.
Read(w) ==
    /\ pc[w] = "gotdocs" => \A d \in Doc : mdocs[w][d].status = docs[d].status
    /\ pc[w] \notin Loop => dirty[w] = {}

Alone == \A v, w \in Worker : Active(v) /\ Active(w) => v = w

SoloInv ==
    ~overlap => /\ Alone /\ RowsMatch
                /\ \A w \in Worker : Reading(w) /\ Looping(w) /\ Read(w)


\* The row's columns after a session's flush.
LEMMA Written ==
    ASSUME NEW row \in JobRow, NEW o \in JobCopy, NEW n \in JobCopy
    PROVE  /\ WriteBack(row, o, n).status = IF n.status # o.status THEN n.status ELSE row.status
           /\ WriteBack(row, o, n).cnt = [c \in Counter |-> Column(row.cnt[c], o.cnt[c], n.cnt[c])]
           /\ n.cnt = o.cnt => WriteBack(row, o, n).cnt = row.cnt
           /\ o.cnt = row.cnt => WriteBack(row, o, n).cnt = n.cnt
<1>1. /\ WriteBack(row, o, n).status = IF n.status # o.status THEN n.status ELSE row.status
      /\ WriteBack(row, o, n).cnt = [c \in Counter |-> Column(row.cnt[c], o.cnt[c], n.cnt[c])]
  BY DEF WriteBack, Column, JobRow
<1>2. row.cnt \in [Counter -> Nat] /\ o.cnt \in [Counter -> Nat] /\ n.cnt \in [Counter -> Nat]
  BY DEF JobRow, JobCopy
<1>3. ASSUME n.cnt = o.cnt
      PROVE  [c \in Counter |-> Column(row.cnt[c], o.cnt[c], n.cnt[c])] = row.cnt
  BY <1>2, <1>3 DEF Column
<1>4. ASSUME o.cnt = row.cnt
      PROVE  [c \in Counter |-> Column(row.cnt[c], o.cnt[c], n.cnt[c])] = n.cnt
  BY <1>2, <1>4 DEF Column
<1>5. QED
  BY <1>1, <1>3, <1>4

\* completed_at and started_at are columns of their own.
LEMMA WrittenWith ==
    ASSUME NEW row \in JobRow, NEW b \in BOOLEAN
    PROVE  /\ [row EXCEPT !.completed = b].status = row.status
           /\ [row EXCEPT !.completed = b].cnt = row.cnt
           /\ [row EXCEPT !.started = b].status = row.status
           /\ [row EXCEPT !.started = b].cnt = row.cnt
  BY DEF JobRow

LEMMA RowsKept ==
    ASSUME RowsMatch, docs' = docs, job'.cnt = job.cnt,
           job'.status = job.status \/ job'.status \notin Good
    PROVE  RowsMatch'
  BY DEF RowsMatch, Settled

\* The part of one session, and the row.
Session(w) == Reading(w) /\ Looping(w) /\ Read(w)

\* A step that ends the session and leaves the job's status and counters.
LEMMA SoloEnd ==
    ASSUME TypeOK, RowsMatch, NEW w \in Worker, EndSession(w), docs' = docs,
           job'.cnt = job.cnt, job'.status = job.status
    PROVE  RowsMatch' /\ Session(w)'
  BY EndSessionShape, RowsKept DEF Session, Reading, Looping, Read, Loop

\* A step that changes neither row.
LEMMA QuietRows ==
    ASSUME RowsMatch, UNCHANGED db
    PROVE  RowsMatch'
  BY RowsKept DEF db

LEMMA SoloDrain ==
    ASSUME TypeOK, RowsMatch, NEW w \in Worker, Session(w), Drain(w)
    PROVE  RowsMatch' /\ Session(w)'
<1> DEFINE ds  == [d \in Doc |-> [mdocs[w][d] EXCEPT !.status = "skipped"]]
           new == [mjob[w] EXCEPT !.status = "cancelled", !.cnt = recalc_job_counters(ds)]
<1>1. job \in JobRow /\ mjob[w] \in JobCopy /\ recalc_job_counters(ds) \in [Counter -> Nat]
  BY RecalcType DEF TypeOK
<1>2. new \in JobCopy /\ new.status = "cancelled"
  BY <1>1 DEF JobCopy, JobStatus
<1>3. job.status \notin Good
  BY DEF Session, Reading, Drain, CancelSet, Good
<1>4. job' = [WriteBack(job, mjob[w], new) EXCEPT !.completed = TRUE] /\ EndSession(w)
  BY DEF Drain
<1> HIDE DEF new
<1>5. WriteBack(job, mjob[w], new) \in JobRow
  BY <1>1, <1>2, WriteBackType
<1>6. job'.status \in {"cancelled", job.status}
  <2> DEFINE row == WriteBack(job, mjob[w], new)
  <2>1. row.status \in {"cancelled", job.status}
    BY <1>1, <1>2, Written
  <2>2. row \in JobRow
    BY <1>5
  <2> HIDE DEF row
  <2>3. [row EXCEPT !.completed = TRUE].status = row.status
    BY <2>2, WrittenWith
  <2>4. job' = [row EXCEPT !.completed = TRUE]
    BY <1>4 DEF row
  <2>5. QED
    BY <2>1, <2>3, <2>4
<1>7. RowsMatch'
  BY <1>3, <1>6 DEF RowsMatch, Good
<1>8. QED
  BY <1>4, <1>7, EndSessionShape DEF Session, Reading, Looping, Read, Loop

LEMMA SoloClaim ==
    ASSUME TypeOK, RowsMatch, NEW w \in Worker, Session(w), Claim(w)
    PROVE  RowsMatch' /\ Session(w)'
<1> DEFINE new == [mjob[w] EXCEPT !.status = "running"]
<1>1. job \in JobRow /\ mjob[w] \in JobCopy
  BY DEF TypeOK
<1>2. new \in JobCopy /\ new.status = "running" /\ new.cnt = mjob[w].cnt
  BY <1>1 DEF JobCopy, JobStatus
<1>3. /\ job' = [WriteBack(job, mjob[w], new) EXCEPT !.started = TRUE]
      /\ mjob'[w] = new /\ pc'[w] = "boundary" /\ pc[w] = "gotdocs"
      /\ UNCHANGED <<docs, mdocs, dirty>>
  BY DEF Claim, TypeOK
<1> HIDE DEF new
<1>4. WriteBack(job, mjob[w], new) \in JobRow
  BY <1>1, <1>2, WriteBackType
<1>5. /\ job'.status = IF new.status # mjob[w].status THEN "running" ELSE job.status
      /\ job'.cnt = job.cnt
  <2> DEFINE row == WriteBack(job, mjob[w], new)
  <2>1. /\ row.status = IF new.status # mjob[w].status THEN "running" ELSE job.status
        /\ row.cnt = job.cnt
    BY <1>1, <1>2, Written
  <2>2. row \in JobRow
    BY <1>4
  <2> HIDE DEF row
  <2>3. /\ [row EXCEPT !.started = TRUE].status = row.status
        /\ [row EXCEPT !.started = TRUE].cnt = row.cnt
    BY <2>2, WrittenWith
  <2>4. job' = [row EXCEPT !.started = TRUE]
    BY <1>3 DEF row
  <2>5. QED
    BY <2>1, <2>3, <2>4
<1>6. job'.status \notin Good
  BY <1>2, <1>3, <1>5 DEF Session, Reading, Good
<1>7. Looping(w)'
  BY <1>2, <1>3, <1>5, <1>6 DEF Session, Reading, Read, Looping, Good, Loop
<1>8. QED
  BY <1>3, <1>5, <1>6, <1>7, RowsKept DEF Session, Reading, Read, Loop

LEMMA SoloSkip ==
    ASSUME TypeOK, RowsMatch, NEW w \in Worker, Session(w), Skip(w)
    PROVE  RowsMatch' /\ Session(w)'
<1>1. /\ pc[w] = "mark" /\ pc'[w] = "boundary" /\ UNCHANGED <<job, docs, mjob>> /\ cur[w] \in Doc
      /\ mdocs' = [mdocs EXCEPT ![w][cur[w]].status = "skipped"]
      /\ dirty'[w] = IF mdocs[w][cur[w]].status # "skipped" THEN dirty[w] \cup {cur[w]} ELSE dirty[w]
  BY DEF Skip, TypeOK, db
<1>2. \A d \in Doc : mdocs'[w][d].status = IF d = cur[w] THEN "skipped" ELSE mdocs[w][d].status
  BY <1>1 DEF TypeOK, DocRow
<1>3. Looping(w)'
  BY <1>1, <1>2 DEF Session, Looping, Loop
<1>4. QED
  BY <1>1, <1>3, RowsKept DEF Session, Reading, Read, Loop

\* What a commit of the flushed documents makes of the rows.
LEMMA CommittedIsCopy ==
    ASSUME TypeOK, NEW w \in Worker, Looping(w), pc[w] \in Loop, NEW d \in Doc
    PROVE  Committed(w)[d].status = mdocs[w][d].status
<1>1. docs[d] \in DocRow
  BY DEF TypeOK
<1>2. QED
  BY <1>1 DEF Committed, Looping, DocRow

LEMMA SoloMark ==
    ASSUME TypeOK, RowsMatch, NEW w \in Worker, Session(w), MarkFetching(w)
    PROVE  RowsMatch' /\ Session(w)'
<1>1. /\ pc[w] = "mark" /\ pc'[w] = "fetch" /\ UNCHANGED <<job, mjob>> /\ cur[w] \in Doc
      /\ mdocs' = [mdocs EXCEPT ![w][cur[w]].status = "fetching"]
      /\ docs' = [Committed(w) EXCEPT ![cur[w]].status =
                    Column(@, mdocs[w][cur[w]].status, "fetching")]
      /\ dirty'[w] = {}
  BY DEF MarkFetching, TypeOK
<1>2. \A d \in Doc : mdocs'[w][d].status = IF d = cur[w] THEN "fetching" ELSE mdocs[w][d].status
  BY <1>1 DEF TypeOK, DocRow
<1>3. Committed(w) \in [Doc -> DocRow]
  BY CommittedType
<1>4. \A d \in Doc : Committed(w)[d].status = mdocs[w][d].status
  BY <1>1, CommittedIsCopy DEF Session, Loop
<1>5. \A d \in Doc : docs'[d].status = mdocs'[w][d].status
  <2>1. ASSUME NEW d \in Doc, d # cur[w] PROVE docs'[d] = Committed(w)[d]
    BY <1>1, <1>3, <2>1
  <2>2. docs'[cur[w]].status =
          Column(Committed(w)[cur[w]].status, mdocs[w][cur[w]].status, "fetching")
    BY <1>1, <1>3 DEF DocRow
  <2>3. docs'[cur[w]].status = "fetching"
    BY <1>1, <1>4, <2>2 DEF Column
  <2>4. QED
    BY <1>2, <1>4, <2>1, <2>3
<1>6. Looping(w)'
  BY <1>1, <1>5 DEF Session, Looping, Loop
<1>7. RowsMatch'
  BY <1>1 DEF Session, Looping, RowsMatch, Loop
<1>8. QED
  BY <1>1, <1>6, <1>7 DEF Session, Reading, Read, Loop

LEMMA SoloFetched ==
    ASSUME TypeOK, RowsMatch, NEW w \in Worker, Session(w), FetchDone(w)
    PROVE  RowsMatch' /\ Session(w)'
<1> DEFINE e == cur[w]
<1>1. /\ pc[w] = "fetch" /\ pc'[w] = "boundary" /\ UNCHANGED <<job, mjob, dirty>> /\ e \in Doc
  BY DEF FetchDone, TypeOK
<1>2. PICK o \in FetchOutcome :
        /\ docs' = [docs EXCEPT ![e] =
                      [status |-> o,
                       error  |-> Column(@.error, mdocs[w][e].error,
                                         o = "failed" \/ mdocs[w][e].error)]]
        /\ mdocs' = [mdocs EXCEPT ![w][e] = [status |-> o, error |-> @.error \/ o = "failed"]]
  BY DEF FetchDone
<1> HIDE DEF e
<1>3. \A d \in Doc : docs'[d].status = IF d = e THEN o ELSE docs[d].status
  BY <1>1, <1>2 DEF TypeOK
<1>4. \A d \in Doc : mdocs'[w][d].status = IF d = e THEN o ELSE mdocs[w][d].status
  BY <1>1, <1>2 DEF TypeOK
<1>5. dirty[w] = {}
  BY <1>1 DEF Session, Looping, Loop
<1>6. Looping(w)'
  BY <1>1, <1>3, <1>4, <1>5 DEF Session, Looping, Loop
<1>7. RowsMatch'
  BY <1>1 DEF Session, Looping, RowsMatch, Loop
<1>8. QED
  BY <1>1, <1>6, <1>7 DEF Session, Reading, Read, Loop

\* The commit that ends a run makes the row the truth.
LEMMA SoloFinalize ==
    ASSUME TypeOK, LoopInv, RowsMatch, NEW w \in Worker, Session(w), Finalize(w)
    PROVE  RowsMatch' /\ Session(w)'
<1> DEFINE new == Finalized(w)
<1>1. /\ pc[w] = "boundary" /\ todo[w] = {} /\ docs' = Committed(w)
      /\ job' = [WriteBack(job, mjob[w], new) EXCEPT !.completed = TRUE]
  BY DEF Finalize
<1>2. pc'[w] \in {"idle", "callback"} /\ dirty'[w] = {}
  <2>1. CASE EndSession(w)
    BY <2>1, EndSessionShape
  <2>2. CASE ~EndSession(w)
    BY <2>2 DEF Finalize, TypeOK
  <2>3. QED
    BY <2>1, <2>2
<1>3. \A d \in Doc : docs'[d].status = mdocs[w][d].status
  BY <1>1, CommittedIsCopy DEF Session, Loop
<1>4. Settled(mdocs[w])
  BY <1>1, EndIsSettled
<1>5. /\ job \in JobRow /\ mjob[w] \in JobCopy /\ new \in JobCopy
      /\ mjob[w].cnt = job.cnt /\ job.status \notin Good
  BY <1>1, FinalizedType DEF TypeOK, Session, Looping, Loop
<1>6. /\ new.status = resolve_job_terminal_status(mjob[w].status, mdocs[w])
      /\ new.cnt = recalc_job_counters(mdocs[w])
  BY FinalizedIs
<1> HIDE DEF new
<1>7. WriteBack(job, mjob[w], new) \in JobRow
  BY <1>5, WriteBackType
<1>8. job'.cnt = new.cnt /\ job'.status \in {new.status, job.status}
  BY <1>1, <1>5, <1>7, Written, WrittenWith
<1>9. ASSUME job'.status \in Good
      PROVE  job'.status = resolve_job_terminal_status("running", mdocs[w])
  <2>1. job'.status = new.status
    BY <1>5, <1>8, <1>9
  <2>2. mjob[w].status # "cancelling"
    BY <1>6, <1>9, <2>1 DEF resolve_job_terminal_status, Good
  <2>3. QED
    BY <1>6, <2>1, <2>2 DEF resolve_job_terminal_status
<1>10. /\ recalc_job_counters(docs') = recalc_job_counters(mdocs[w])
       /\ resolve_job_terminal_status("running", docs')
            = resolve_job_terminal_status("running", mdocs[w])
  BY <1>3, CountSame
<1>11. Settled(docs')
  BY <1>3, <1>4 DEF Settled
<1>12. RowsMatch'
  BY <1>6, <1>8, <1>9, <1>10, <1>11 DEF RowsMatch, Settled, Good, recalc_job_counters,
     resolve_job_terminal_status, Count
<1>13. QED
  BY <1>2, <1>12 DEF Session, Reading, Looping, Read, Loop

LEMMA SoloAccepted ==
    ASSUME TypeOK, RowsMatch, NEW w \in Worker, CallbackAccepted(w)
    PROVE  RowsMatch' /\ Session(w)'
<1> DEFINE new == [mjob[w] EXCEPT !.delivered = TRUE]
<1>1. job \in JobRow /\ mjob[w] \in JobCopy
  BY DEF TypeOK
<1>2. new \in JobCopy /\ new.status = mjob[w].status /\ new.cnt = mjob[w].cnt
  BY <1>1 DEF JobCopy
<1>3. job' = WriteBack(job, mjob[w], new) /\ EndSession(w) /\ docs' = docs
  BY DEF CallbackAccepted
<1> HIDE DEF new
<1>4. job'.status = job.status /\ job'.cnt = job.cnt
  BY <1>1, <1>2, <1>3, Written
<1>5. QED
  BY <1>3, <1>4, SoloEnd

LEMMA SoloStep ==
    ASSUME TypeOK, LoopInv, RowsMatch, NEW w \in Worker, Session(w),
           WorkerStep(w) \/ Fail(w) \/ Crash(w) \/ Kill(w)
    PROVE  RowsMatch' /\ Session(w)'
<1> USE DEF Session, Reading, Looping, Read, Loop
<1>1. CASE \E k \in 0..MaxRetries : Receive(w, k)
  <2>1. /\ pc[w] = "idle" /\ pc'[w] = "gotjob" /\ mjob'[w] = Loaded(job) /\ dirty' = dirty
        /\ UNCHANGED db
    BY <1>1 DEF Receive, TypeOK
  <2>2. mjob'[w].status = job.status /\ mjob'[w].cnt = job.cnt
    BY <2>1 DEF Loaded
  <2>3. QED
    BY <2>1, <2>2, QuietRows DEF db
<1>2. CASE ReadDocs(w)
  <2>1. /\ pc[w] = "gotjob" /\ pc'[w] = "gotdocs" /\ mdocs'[w] = docs
        /\ UNCHANGED <<db, mjob, dirty>>
    BY <1>2 DEF ReadDocs, TypeOK
  <2>2. QED
    BY <2>1, QuietRows DEF db
<1>3. CASE ReRead(w)
  <2>1. /\ pc[w] = "boundary" /\ pc'[w] = "mark" /\ mjob'[w] = Loaded(job)
        /\ UNCHANGED <<db, mdocs, dirty>>
    BY <1>3 DEF ReRead, TypeOK
  <2>2. mjob'[w].status = job.status /\ mjob'[w].cnt = job.cnt
    BY <2>1 DEF Loaded
  <2>3. QED
    BY <2>1, <2>2, QuietRows DEF db
<1>4. CASE CallbackRefused(w)
  <2>1. CASE EndSession(w)
    BY <1>4, <2>1, SoloEnd DEF CallbackRefused, db
  <2>2. CASE ~EndSession(w)
    BY <1>4, <2>2, QuietRows DEF CallbackRefused, db
  <2>3. QED
    BY <2>1, <2>2
<1>5. CASE Fail(w) \/ Crash(w) \/ Kill(w)
  BY <1>5, SoloEnd DEF Fail, Crash, Kill, db
<1>6. QED
  BY <1>1, <1>2, <1>3, <1>4, <1>5, SoloDrain, SoloClaim, SoloSkip, SoloMark, SoloFetched,
     SoloFinalize, SoloAccepted DEF WorkerStep

\* The calls, the creator and the reaper write no counter and no good status.
LEMMA OutsideRows ==
    ASSUME TypeOK, Outside \/ UNCHANGED vars
    PROVE  job'.cnt = job.cnt /\ (job'.status = job.status \/ job'.status \notin Good)
<1>0. job \in JobRow
  BY DEF TypeOK
<1>1. CASE UNCHANGED job
  BY <1>1
<1>2. CASE ReaperFailRunning
  BY <1>0, <1>2 DEF ReaperFailRunning, JobRow, Good
<1>3. ASSUME NEW c \in Client, ApiWrite(c) PROVE job'.cnt = job.cnt /\ (job'.status = job.status \/ job'.status \notin Good)
  <2> DEFINE a == api[c]
  <2>1. a.op \in {"cancel", "review", "archive"}
    BY <1>3, ApiAssumption DEF ApiWrite, TypeOK
  <2>2. Requested(a.op, a.status) \notin Good
    BY <2>1 DEF Requested, Good
  <2>3. job' = [job EXCEPT !.status = Column(@, a.status, Requested(a.op, a.status)),
                           !.completed = Column(@, a.completed, a.completed /\ a.op # "cancel")]
    BY <1>3 DEF ApiWrite
  <2> HIDE DEF a
  <2>4. job'.cnt = job.cnt /\ job'.status = Column(job.status, a.status, Requested(a.op, a.status))
    BY <1>0, <2>3 DEF JobRow
  <2>5. QED
    BY <2>2, <2>4 DEF Column
<1>4. QED
  BY <1>1, <1>2, <1>3 DEF Outside, Enqueue, EnqueueLost, Age, ReaperRequeue, ApiRead, db, vars

\* Runs that are alone now were alone before.
LEMMA StaysAlone ==
    ASSUME TypeOK, [Next]_vars, ~overlap'
    PROVE  ~overlap /\ (Alone => Alone')
<1>1. CASE UNCHANGED vars
  BY <1>1 DEF vars, session, history, Alone, Active
<1>2. CASE Next
  <2>1. Observe
    BY <1>2 DEF Next, WorkerStep, Enqueue, EnqueueLost, Age, ReaperRequeue, ReaperFailRunning,
       ApiWrite, ApiRead, Receive, ReadDocs, Drain, Claim, ReRead, Skip, MarkFetching, FetchDone,
       Finalize, CallbackAccepted, CallbackRefused, Fail, Crash, Kill
  <2>2. QED
    BY <2>1 DEF Observe, Alone, Active
<1>3. QED
  BY <1>1, <1>2

LEMMA SoloInvStep == TypeOK /\ LoopInv /\ SoloInv /\ [Next]_vars => SoloInv'
<1> SUFFICES ASSUME TypeOK, LoopInv, SoloInv, [Next]_vars, ~overlap'
             PROVE  Alone' /\ RowsMatch' /\ \A w \in Worker : Session(w)'
  BY DEF SoloInv, Session
<1>1. Alone /\ Alone' /\ RowsMatch /\ \A w \in Worker : Session(w)
  BY StaysAlone DEF SoloInv, Session
<1>2. CASE Outside \/ UNCHANGED vars
  <2>1. /\ UNCHANGED <<pc, mjob, mdocs, dirty, docs>> /\ job'.cnt = job.cnt
        /\ job'.status = job.status \/ job'.status \notin Good
    BY <1>2, OutsideFrame, OutsideRows
  <2>2. RowsMatch'
    BY <1>1, <2>1, RowsKept
  <2>3. ASSUME NEW w \in Worker PROVE Session(w)'
    BY <1>1, <2>1 DEF Session, Reading, Looping, Read
  <2>4. QED
    BY <1>1, <2>2, <2>3
<1>3. ASSUME NEW w \in Worker, WorkerStep(w) \/ Fail(w) \/ Crash(w) \/ Kill(w)
      PROVE  Alone' /\ RowsMatch' /\ \A v \in Worker : Session(v)'
  <2>1. RowsMatch' /\ Session(w)' /\ Frame(w)
    BY <1>1, <1>3, SoloStep, WorkerFrame
  <2>2. Active(w) \/ Active(w)'
    BY <1>3 DEF Active, WorkerStep, Receive, ReadDocs, Drain, Claim, ReRead, Skip, MarkFetching,
       FetchDone, Finalize, CallbackAccepted, CallbackRefused, Fail, Crash, Kill, TypeOK
  <2>3. ASSUME NEW v \in Worker, v # w PROVE Session(v)'
    <3>1. pc'[v] = "idle" /\ pc[v] = "idle" /\ dirty'[v] = dirty[v]
      BY <1>1, <2>1, <2>2, <2>3 DEF Alone, Active, Frame
    <3>2. QED
      BY <1>1, <3>1 DEF Session, Reading, Looping, Read, Loop
  <2>4. QED
    BY <1>1, <2>1, <2>3
<1>4. QED
  BY <1>2, <1>3, NextCases

LEMMA SoloHolds == Spec => []SoloInv
<1>1. Init => SoloInv
  BY NewTypes DEF Init, SoloInv, Alone, Active, RowsMatch, Good, Reading, Looping, Read, Loop
<1>2. QED
  BY <1>1, SoloInvStep, LoopHolds, PTL DEF Spec

\* resolve_job_terminal_status: while runs never overlapped, the terminal status
\* is that of the document rows, through crashes, redeliveries, cancels and
\* sweeps, for any documents, clients and bounds.
THEOREM StatusIsOfTheRows == Spec => []StatusMatchesRows
<1>1. SoloInv => StatusMatchesRows
  <2> SUFFICES ASSUME RowsMatch, job.status \in Good
               PROVE  /\ job.status = "completed" =>
                           \A d \in Doc : docs[d].status \in {"uploaded", "fetched", "skipped"}
                      /\ job.status = "partial" =>
                           /\ \A d \in Doc : docs[d].status \in Outcome
                           /\ \E d \in Doc : docs[d].status = "failed"
                           /\ \E d \in Doc : docs[d].status \in {"uploaded", "fetched"}
    BY DEF SoloInv, StatusMatchesRows, Good
  <2>1. Settled(docs) /\ job.status = resolve_job_terminal_status("running", docs)
    BY DEF RowsMatch
  <2>2. /\ job.status = "completed" => Count(docs, {"failed"}) = 0
        /\ job.status = "partial" => /\ Count(docs, {"failed"}) > 0
                                     /\ Count(docs, {"fetched", "uploaded"}) > 0
    BY <2>1, ResolveMeaning
  <2>3. /\ job.status = "completed" => \A d \in Doc : docs[d].status \notin {"failed"}
        /\ job.status = "partial" => /\ \E d \in Doc : docs[d].status \in {"failed"}
                                     /\ \E d \in Doc : docs[d].status \in {"fetched", "uploaded"}
    BY <2>2, CountZero
  <2>4. QED
    BY <2>1, <2>3 DEF Settled, Outcome
<1>2. QED
  BY <1>1, SoloHolds, PTL

\* Settled documents are fetched, failed or skipped, and only one of them.
LEMMA CountsAddUp ==
    ASSUME NEW ds, Settled(ds)
    PROVE  Count(ds, {"fetched", "uploaded"}) + Count(ds, {"failed"}) + Count(ds, {"skipped"})
             = Cardinality(Doc)
<1> DEFINE A == {d \in Doc : ds[d].status \in {"fetched", "uploaded"}}
           B == {d \in Doc : ds[d].status \in {"failed"}}
           C == {d \in Doc : ds[d].status \in {"skipped"}}
<1>1. IsFiniteSet(A) /\ IsFiniteSet(B) /\ IsFiniteSet(C)
  BY DocAssumption, FS_Subset
<1>2. A \cap B = {} /\ (A \cup B) \cap C = {} /\ (A \cup B) \cup C = Doc
  BY DEF Settled, Outcome
<1> HIDE DEF A, B, C
<1>3. IsFiniteSet(A \cup B) /\ Cardinality(A \cup B) = Cardinality(A) + Cardinality(B)
  <2>1. /\ IsFiniteSet(A \cup B)
        /\ Cardinality(A \cup B) = Cardinality(A) + Cardinality(B) - Cardinality(A \cap B)
    BY <1>1, FS_Union
  <2>2. Cardinality(A \cap B) = 0
    BY <1>2, FS_EmptySet
  <2>3. Cardinality(A) \in Nat /\ Cardinality(B) \in Nat
    BY <1>1, FS_CardinalityType
  <2>4. QED
    BY <2>1, <2>2, <2>3
<1>4. Cardinality(Doc) = Cardinality(A \cup B) + Cardinality(C)
  <2> DEFINE D == A \cup B
  <2>1. IsFiniteSet(D) /\ D \cap C = {} /\ D \cup C = Doc
    BY <1>2, <1>3
  <2> HIDE DEF D
  <2>2. Cardinality(D \cup C) = Cardinality(D) + Cardinality(C) - Cardinality(D \cap C)
    BY <1>1, <2>1, FS_Union
  <2>3. Cardinality(D \cap C) = 0
    BY <2>1, FS_EmptySet
  <2>4. Cardinality(D) \in Nat /\ Cardinality(C) \in Nat
    BY <1>1, <2>1, FS_CardinalityType
  <2>5. Cardinality(Doc) = Cardinality(D) + Cardinality(C)
    BY <2>1, <2>2, <2>3, <2>4
  <2>6. QED
    BY <2>5 DEF D
<1>5. QED
  BY <1>3, <1>4 DEF Count, A, B, C

\* recalc_job_counters: while runs never overlapped, the counters of a completed
\* or partial row are those of its documents and add up to all of them.
THEOREM CountersAreOfTheRows == Spec => []CountersMatchRows
<1>1. SoloInv => CountersMatchRows
  <2> SUFFICES ASSUME RowsMatch, job.status \in Good
               PROVE  /\ job.cnt["failed"] = Cardinality({d \in Doc : docs[d].status = "failed"})
                      /\ job.cnt["uploaded"] = Cardinality({d \in Doc : docs[d].status = "uploaded"})
                      /\ job.cnt["fetched"] + job.cnt["failed"] + job.cnt["cancelled"]
                           = Cardinality(Doc)
    BY DEF SoloInv, CountersMatchRows, Good
  <2>1. Settled(docs) /\ job.cnt = recalc_job_counters(docs)
    BY DEF RowsMatch
  <2>2. /\ job.cnt["failed"] = Count(docs, {"failed"})
        /\ job.cnt["uploaded"] = Count(docs, {"uploaded"})
        /\ job.cnt["fetched"] = Count(docs, {"fetched", "uploaded"})
        /\ job.cnt["cancelled"] = Count(docs, {"skipped"})
    BY <2>1, RecalcFields
  <2>3. \A s : {d \in Doc : docs[d].status = s} = {d \in Doc : docs[d].status \in {s}}
    OBVIOUS
  <2>4. QED
    BY <2>1, <2>2, <2>3, CountsAddUp DEF Count
<1>2. QED
  BY <1>1, SoloHolds, PTL

=============================================================================
