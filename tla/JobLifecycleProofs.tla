------------------------- MODULE JobLifecycleProofs -------------------------
(***************************************************************************)
(* Theorems about JobLifecycle, for every number of workers, documents and *)
(* clients and every bound.                                                *)
(***************************************************************************)
EXTENDS JobLifecycle, FiniteSetTheorems, TLAPS

-----------------------------------------------------------------------------
(* Facts about the operators *)

\* Counting documents by status gives a natural number.
LEMMA CountType ==
    ASSUME NEW ds, NEW S
    PROVE  Count(ds, S) \in Nat
<1>1. IsFiniteSet({d \in Doc : ds[d].status \in S})
  BY DocAssumption, FS_Subset
<1>2. QED
  BY <1>1, FS_CardinalityType DEF Count

\* recalc_job_counters yields one natural number per counter.
LEMMA RecalcType ==
    ASSUME NEW ds
    PROVE  recalc_job_counters(ds) \in [Counter -> Nat]
<1>1. /\ Count(ds, {"fetched", "uploaded"}) \in Nat
      /\ Count(ds, {"uploaded"}) \in Nat
      /\ Count(ds, {"failed"}) \in Nat
      /\ Count(ds, {"skipped"}) \in Nat
  BY CountType
<1>2. QED
  BY <1>1 DEF recalc_job_counters, Counter

\* resolve_job_terminal_status returns a terminal status.
LEMMA ResolveTerminal ==
    ASSUME NEW status, NEW ds
    PROVE  resolve_job_terminal_status(status, ds) \in Terminal
BY DEF resolve_job_terminal_status, Terminal

LEMMA TerminalIsStatus == Terminal \subseteq JobStatus
BY DEF Terminal, JobStatus

\* Flushing a copy writes a well-formed row, whose status is either the
\* row's own or, when the session changed it, the session's.
LEMMA WriteBackType ==
    ASSUME NEW row \in JobRow, NEW o \in JobCopy, NEW n \in JobCopy
    PROVE  /\ WriteBack(row, o, n) \in JobRow
           /\ WriteBack(row, o, n).status
                = IF n.status # o.status THEN n.status ELSE row.status
BY DEF WriteBack, Column, JobRow, JobCopy

LEMMA LoadedType ==
    ASSUME NEW row \in JobRow
    PROVE  Loaded(row) \in JobCopy /\ Loaded(row).status = row.status
BY DEF Loaded, JobRow, JobCopy

LEMMA NewTypes == /\ NewJob \in JobRow /\ NewJob.status = "queued"
                  /\ NewDoc \in DocRow
                  /\ NoCopy \in JobCopy
                  /\ ~NewDoc.error /\ NewDoc.status = "queued"
BY DEF NewJob, NewDoc, NoCopy, JobRow, DocRow, JobCopy, JobStatus, DocStatus,
       Counter

-----------------------------------------------------------------------------
(* The type invariant *)

\* The history variables keep their types.
LEMMA ObserveType ==
    ASSUME TypeOK, Observe
    PROVE  late' \in [Worker -> Nat] /\ overlap' \in BOOLEAN
BY DEF TypeOK, Observe

\* Closing a session leaves well-typed worker variables.
LEMMA EndSessionType ==
    ASSUME TypeOK, NEW w \in Worker, EndSession(w)
    PROVE  /\ pc' \in [Worker -> Place]
           /\ tries' \in [Worker -> 0..MaxRetries]
           /\ mjob' \in [Worker -> JobCopy]
           /\ mdocs' \in [Worker -> [Doc -> DocRow]]
           /\ todo' \in [Worker -> SUBSET Doc]
           /\ cur' \in [Worker -> Doc \cup {NoDoc}]
           /\ \A v \in Worker : pc'[v] \in {"mark", "fetch"} => cur'[v] \in Doc
           /\ dirty' \in [Worker -> SUBSET Doc]
           /\ posts' \in [Worker -> Nat]
BY NewTypes, BoundAssumption DEF TypeOK, EndSession, Place

\* The fault budget is never exceeded.
LEMMA FaultsType ==
    ASSUME TypeOK, faults < MaxFaults, faults' = faults + 1
    PROVE  faults' \in 0..MaxFaults
<1>1. faults \in 0..MaxFaults
  BY DEF TypeOK
<1>2. QED
  BY <1>1, BoundAssumption

\* Publishing a message keeps the queue well typed.
LEMMA PublishType ==
    ASSUME TypeOK, NEW k \in 0..MaxRetries, Publish(k)
    PROVE  ready' \in [0..MaxRetries -> Nat]
<1>1. ready \in [0..MaxRetries -> Nat]
  BY DEF TypeOK
<1>2. ready[k] + 1 \in Nat
  BY <1>1
<1>3. QED
  BY <1>1, <1>2 DEF Publish

LEMMA CommittedType ==
    ASSUME TypeOK, NEW w \in Worker
    PROVE  /\ Committed(w) \in [Doc -> DocRow]
           /\ \A d \in Doc : Committed(w)[d].error = docs[d].error
           /\ \A d \in Doc : Committed(w)[d].status \in {"skipped", docs[d].status}
<1>1. docs \in [Doc -> DocRow]
  BY DEF TypeOK
<1>2. ASSUME NEW d \in Doc
      PROVE  /\ Committed(w)[d] \in DocRow
             /\ Committed(w)[d].error = docs[d].error
             /\ Committed(w)[d].status \in {"skipped", docs[d].status}
  <2>1. docs[d] \in DocRow
    BY <1>1
  <2>2. QED
    BY <2>1 DEF Committed, DocRow, DocStatus
<1>3. Committed(w) = [d \in Doc |-> Committed(w)[d]]
  BY DEF Committed
<1>4. QED
  BY <1>2, <1>3

LEMMA FinalizedType ==
    ASSUME TypeOK, NEW w \in Worker
    PROVE  Finalized(w) \in JobCopy /\ Finalized(w).status \in Terminal
<1>1. recalc_job_counters(mdocs[w]) \in [Counter -> Nat]
  BY RecalcType
<1>2. resolve_job_terminal_status(mjob[w].status, mdocs[w]) \in Terminal
  BY ResolveTerminal
<1>3. mjob[w] \in JobCopy
  BY DEF TypeOK
<1>4. QED
  BY <1>1, <1>2, <1>3, TerminalIsStatus DEF Finalized, JobCopy

\* Setting the status of one document in a worker's copies.
LEMMA MemoryType ==
    ASSUME TypeOK, NEW w \in Worker, NEW d \in Doc, NEW s \in DocStatus
    PROVE  [mdocs EXCEPT ![w][d].status = s] \in [Worker -> [Doc -> DocRow]]
<1>1. mdocs \in [Worker -> [Doc -> DocRow]]
  BY DEF TypeOK
<1>2. [mdocs[w][d] EXCEPT !.status = s] \in DocRow
  BY <1>1 DEF DocRow
<1>3. [mdocs[w] EXCEPT ![d] = [mdocs[w][d] EXCEPT !.status = s]] \in [Doc -> DocRow]
  BY <1>1, <1>2
<1>4. QED
  BY <1>1, <1>3

\* Every step preserves the type invariant: one step per action.
LEMMA TypeStep == TypeOK /\ [Next]_vars => TypeOK'
<1> SUFFICES ASSUME TypeOK, [Next]_vars PROVE TypeOK'
  OBVIOUS
<1>1. CASE Enqueue
  BY <1>1, ObserveType, PublishType, BoundAssumption
     DEF Enqueue, TypeOK, db, session, Publish
<1>2. CASE EnqueueLost
  BY <1>2, ObserveType, BoundAssumption DEF EnqueueLost, TypeOK, db, session
<1>3. ASSUME NEW w \in Worker, NEW k \in 0..MaxRetries, Receive(w, k)
      PROVE  TypeOK'
  <2>1. ready \in [0..MaxRetries -> Nat] /\ ready[k] > 0
    BY <1>3 DEF Receive, TypeOK
  <2>2. ready[k] - 1 \in Nat
    BY <2>1
  <2>3. ready' \in [0..MaxRetries -> Nat]
    BY <1>3, <2>1, <2>2 DEF Receive
  <2>4. QED
    BY <1>3, <2>3, ObserveType, LoadedType DEF Receive, TypeOK, db, others, Place
<1>4. ASSUME NEW w \in Worker, ReadDocs(w) PROVE TypeOK'
  BY <1>4, ObserveType DEF ReadDocs, TypeOK, db, others, Place
<1>5. ASSUME NEW w \in Worker, Drain(w) PROVE TypeOK'
  <2> DEFINE ds  == [d \in Doc |-> [mdocs[w][d] EXCEPT !.status = "skipped"]]
             new == [mjob[w] EXCEPT !.status = "cancelled",
                                    !.cnt = recalc_job_counters(ds)]
  <2>1. recalc_job_counters(ds) \in [Counter -> Nat]
    BY RecalcType
  <2>2. mjob[w] \in JobCopy /\ job \in JobRow
    BY DEF TypeOK
  <2>3. new \in JobCopy
    BY <2>1, <2>2 DEF JobCopy, JobStatus
  <2>4. WriteBack(job, mjob[w], new) \in JobRow
    BY <2>2, <2>3, WriteBackType
  <2>5. job' \in JobRow
    BY <1>5, <2>4 DEF Drain, JobRow
  <2>6. docs' \in [Doc -> DocRow]
    <3>1. docs \in [Doc -> DocRow]
      BY DEF TypeOK
    <3>2. ASSUME NEW d \in Doc
          PROVE  [docs[d] EXCEPT !.status =
                    Column(@, mdocs[w][d].status, "skipped")] \in DocRow
      BY <3>1 DEF DocRow, DocStatus, Column
    <3>3. QED
      BY <1>5, <3>2 DEF Drain
  <2>7. EndSession(w) /\ Observe /\ UNCHANGED <<ready, others, faults, lost>>
    BY <1>5 DEF Drain
  <2>8. QED
    BY <2>5, <2>6, <2>7, ObserveType, EndSessionType DEF TypeOK, others
<1>6. ASSUME NEW w \in Worker, Claim(w) PROVE TypeOK'
  <2> DEFINE new == [mjob[w] EXCEPT !.status = "running"]
  <2>1. mjob[w] \in JobCopy /\ job \in JobRow
    BY DEF TypeOK
  <2>2. new \in JobCopy
    BY <2>1 DEF JobCopy, JobStatus
  <2>3. WriteBack(job, mjob[w], new) \in JobRow
    BY <2>1, <2>2, WriteBackType
  <2>4. job' \in JobRow
    BY <1>6, <2>3 DEF Claim, JobRow
  <2>5. mjob' \in [Worker -> JobCopy]
    BY <1>6, <2>2 DEF Claim, TypeOK
  <2>6. QED
    BY <1>6, <2>4, <2>5, ObserveType DEF Claim, TypeOK, others, Place
<1>7. ASSUME NEW w \in Worker, ReRead(w) PROVE TypeOK'
  <2>1. PICK d \in todo[w] : /\ cur' = [cur EXCEPT ![w] = d]
                             /\ todo' = [todo EXCEPT ![w] = @ \ {d}]
    BY <1>7 DEF ReRead
  <2>2. d \in Doc
    BY <2>1 DEF TypeOK
  <2>3. Loaded(job) \in JobCopy
    BY LoadedType DEF TypeOK
  <2>4. mjob' \in [Worker -> JobCopy]
    BY <1>7, <2>3 DEF ReRead, TypeOK
  <2>5. /\ pc' \in [Worker -> Place]
        /\ cur' \in [Worker -> Doc \cup {NoDoc}]
        /\ todo' \in [Worker -> SUBSET Doc]
        /\ \A v \in Worker : pc'[v] \in {"mark", "fetch"} => cur'[v] \in Doc
    BY <1>7, <2>1, <2>2 DEF ReRead, TypeOK, Place
  <2>6. /\ UNCHANGED <<job, docs, ready, tries, mdocs, dirty, posts, others,
                       faults, lost>>
        /\ Observe
    BY <1>7 DEF ReRead, db
  <2>7. QED
    BY <2>4, <2>5, <2>6, ObserveType DEF TypeOK, others
<1>8. ASSUME NEW w \in Worker, Skip(w) PROVE TypeOK'
  <2>1. cur[w] \in Doc
    BY <1>8 DEF Skip, TypeOK
  <2>2. mdocs' \in [Worker -> [Doc -> DocRow]]
    BY <1>8, <2>1, MemoryType DEF Skip, DocStatus
  <2>3. dirty' \in [Worker -> SUBSET Doc]
    BY <1>8, <2>1 DEF Skip, TypeOK
  <2>4. /\ pc' \in [Worker -> Place]
        /\ cur' \in [Worker -> Doc \cup {NoDoc}]
        /\ \A v \in Worker : pc'[v] \in {"mark", "fetch"} => cur'[v] \in Doc
    BY <1>8 DEF Skip, TypeOK, Place
  <2>5. QED
    BY <1>8, <2>2, <2>3, <2>4, ObserveType DEF Skip, TypeOK, db, others
<1>9. ASSUME NEW w \in Worker, MarkFetching(w) PROVE TypeOK'
  <2>1. cur[w] \in Doc
    BY <1>9 DEF MarkFetching, TypeOK
  <2>2. mdocs' \in [Worker -> [Doc -> DocRow]]
    BY <1>9, <2>1, MemoryType DEF MarkFetching, DocStatus
  <2>3. docs' \in [Doc -> DocRow]
    BY <1>9, <2>1, CommittedType DEF MarkFetching, DocRow, DocStatus, Column
  <2>4. QED
    BY <1>9, <2>1, <2>2, <2>3, ObserveType
       DEF MarkFetching, TypeOK, others, Place
<1>10. ASSUME NEW w \in Worker, FetchDone(w) PROVE TypeOK'
  <2>1. cur[w] \in Doc
    BY <1>10 DEF FetchDone, TypeOK
  <2>2. PICK o \in FetchOutcome :
          /\ docs' = [docs EXCEPT ![cur[w]] =
                        [status |-> o,
                         error  |-> Column(@.error, mdocs[w][cur[w]].error,
                                      o = "failed" \/ mdocs[w][cur[w]].error)]]
          /\ mdocs' = [mdocs EXCEPT ![w][cur[w]] =
                         [status |-> o, error |-> @.error \/ o = "failed"]]
    BY <1>10 DEF FetchDone
  <2>3. o \in DocStatus
    BY OutcomeAssumption DEF Outcome, DocStatus
  <2>4. docs' \in [Doc -> DocRow] /\ mdocs' \in [Worker -> [Doc -> DocRow]]
    BY <2>1, <2>2, <2>3 DEF TypeOK, DocRow, Column
  <2>5. QED
    BY <1>10, <2>4, ObserveType DEF FetchDone, TypeOK, others, Place
<1>11. ASSUME NEW w \in Worker, Finalize(w) PROVE TypeOK'
  <2>1. mjob[w] \in JobCopy /\ job \in JobRow
    BY DEF TypeOK
  <2>2. WriteBack(job, mjob[w], Finalized(w)) \in JobRow
    BY <2>1, WriteBackType, FinalizedType
  <2>3. job' \in JobRow
    BY <1>11, <2>2 DEF Finalize, JobRow
  <2>4. docs' \in [Doc -> DocRow]
    BY <1>11, CommittedType DEF Finalize
  <2>5. CASE EndSession(w)
    BY <1>11, <2>3, <2>4, <2>5, ObserveType, EndSessionType
       DEF Finalize, TypeOK, others
  <2>6. CASE ~EndSession(w)
    <3>1. /\ mjob' = [mjob EXCEPT ![w] = Finalized(w)]
          /\ dirty' = [dirty EXCEPT ![w] = {}]
          /\ mdocs' = [mdocs EXCEPT ![w] = [d \in Doc |-> NewDoc]]
          /\ pc' = [pc EXCEPT ![w] = "callback"]
          /\ UNCHANGED <<tries, todo, cur, posts>>
      BY <1>11, <2>6 DEF Finalize
    <3>2. /\ mjob' \in [Worker -> JobCopy]
          /\ dirty' \in [Worker -> SUBSET Doc]
          /\ mdocs' \in [Worker -> [Doc -> DocRow]]
      BY <3>1, FinalizedType, NewTypes DEF TypeOK
    <3>3. /\ pc' \in [Worker -> Place]
          /\ \A v \in Worker : pc'[v] \in {"mark", "fetch"} => cur'[v] \in Doc
      BY <3>1 DEF TypeOK, Place
    <3>4. QED
      BY <1>11, <2>3, <2>4, <3>1, <3>2, <3>3, ObserveType
         DEF Finalize, TypeOK, others
  <2>7. QED
    BY <2>5, <2>6
<1>12. ASSUME NEW w \in Worker, CallbackAccepted(w) PROVE TypeOK'
  <2> DEFINE new == [mjob[w] EXCEPT !.delivered = TRUE]
  <2>1. mjob[w] \in JobCopy /\ job \in JobRow
    BY DEF TypeOK
  <2>2. new \in JobCopy
    BY <2>1 DEF JobCopy
  <2>3. job' \in JobRow
    BY <1>12, <2>1, <2>2, WriteBackType DEF CallbackAccepted
  <2>4. QED
    BY <1>12, <2>3, ObserveType, EndSessionType
       DEF CallbackAccepted, TypeOK, others
<1>13. ASSUME NEW w \in Worker, CallbackRefused(w) PROVE TypeOK'
  <2>1. CASE EndSession(w)
    BY <1>13, <2>1, ObserveType, EndSessionType
       DEF CallbackRefused, TypeOK, db, others
  <2>2. CASE ~EndSession(w)
    <3>1. posts' \in [Worker -> Nat]
      <4>1. posts \in [Worker -> Nat]
        BY DEF TypeOK
      <4>2. QED
        BY <1>13, <2>2, <4>1 DEF CallbackRefused
    <3>2. QED
      BY <1>13, <2>2, <3>1, ObserveType DEF CallbackRefused, TypeOK, db, others
  <2>3. QED
    BY <2>1, <2>2
<1>14. ASSUME NEW w \in Worker, Fail(w) PROVE TypeOK'
  <2>1. lost' \in BOOLEAN
    BY <1>14 DEF Fail, TypeOK
  <2>2. ready' \in [0..MaxRetries -> Nat]
    <3>1. tries[w] \in 0..MaxRetries
      BY DEF TypeOK
    <3>2. CASE tries[w] < MaxRetries /\ Publish(tries[w] + 1)
      <4>1. tries[w] + 1 \in 0..MaxRetries
        BY <3>1, <3>2, BoundAssumption
      <4>2. QED
        BY <3>2, <4>1, PublishType
    <3>3. CASE UNCHANGED ready
      BY <3>3 DEF TypeOK
    <3>4. QED
      BY <1>14, <3>2, <3>3 DEF Fail
  <2>3. faults' \in 0..MaxFaults
    BY <1>14, FaultsType DEF Fail
  <2>4. QED
    BY <1>14, <2>1, <2>2, <2>3, ObserveType, EndSessionType
       DEF Fail, TypeOK, db, others
<1>15. ASSUME NEW w \in Worker, Crash(w) PROVE TypeOK'
  <2>1. faults' \in 0..MaxFaults
    BY <1>15, FaultsType DEF Crash
  <2>2. ready' \in [0..MaxRetries -> Nat]
    <3>1. tries[w] \in 0..MaxRetries
      BY DEF TypeOK
    <3>2. QED
      BY <1>15, <3>1, PublishType DEF Crash
  <2>3. QED
    BY <1>15, <2>1, <2>2, ObserveType, EndSessionType
       DEF Crash, TypeOK, db, others
<1>16. ASSUME NEW w \in Worker, Kill(w) PROVE TypeOK'
  <2>1. faults' \in 0..MaxFaults
    BY <1>16, FaultsType DEF Kill
  <2>2. QED
    BY <1>16, <2>1, ObserveType, EndSessionType DEF Kill, TypeOK, db, others
<1>17. ASSUME NEW c \in Client, ApiWrite(c) PROVE TypeOK'
  <2>1. api[c].op \in ApiOp /\ job \in JobRow
    BY <1>17 DEF ApiWrite, TypeOK
  <2>2. Requested(api[c].op, api[c].status) \in JobStatus
    BY <2>1, ApiAssumption DEF Requested, JobStatus
  <2>3. job' \in JobRow
    BY <1>17, <2>1, <2>2 DEF ApiWrite, JobRow, Column
  <2>4. api' \in [Client -> [op: ApiOp \cup {"none"}, status: JobStatus,
                            completed: BOOLEAN]]
    BY <1>17 DEF ApiWrite, TypeOK, Idle, JobStatus
  <2>5. QED
    BY <1>17, <2>3, <2>4, ObserveType DEF ApiWrite, TypeOK, session
<1>18. ASSUME NEW c \in Client, NEW op \in ApiOp, ApiRead(c, op) PROVE TypeOK'
  <2>1. api' \in [Client -> [op: ApiOp \cup {"none"}, status: JobStatus,
                            completed: BOOLEAN]]
    BY <1>18 DEF ApiRead, TypeOK, JobRow
  <2>2. QED
    BY <1>18, <2>1, ObserveType DEF ApiRead, TypeOK, db, session
<1>19. CASE Age
  BY <1>19, ObserveType DEF Age, TypeOK, db, session
<1>20. CASE ReaperRequeue
  <2>1. ready' \in [0..MaxRetries -> Nat]
    <3>1. CASE Publish(0)
      BY <3>1, PublishType, BoundAssumption
    <3>2. CASE UNCHANGED ready
      BY <3>2 DEF TypeOK
    <3>3. QED
      BY <1>20, <3>1, <3>2 DEF ReaperRequeue
  <2>2. QED
    BY <1>20, <2>1, ObserveType DEF ReaperRequeue, TypeOK, db, session
<1>21. CASE ReaperFailRunning
  <2>1. job' \in JobRow
    BY <1>21 DEF ReaperFailRunning, TypeOK, JobRow, JobStatus
  <2>2. QED
    BY <1>21, <2>1, ObserveType DEF ReaperFailRunning, TypeOK, session
<1>22. CASE UNCHANGED vars
  BY <1>22 DEF vars, db, session, others, history, TypeOK
<1>23. QED
  BY <1>1, <1>2, <1>3, <1>4, <1>5, <1>6, <1>7, <1>8, <1>9, <1>10, <1>11,
     <1>12, <1>13, <1>14, <1>15, <1>16, <1>17, <1>18, <1>19, <1>20, <1>21,
     <1>22 DEF Next, WorkerStep

\* Every reachable state is well typed, for every choice of the constants.
THEOREM TypeCorrect == Spec => []TypeOK
<1>1. Init => TypeOK
  <2> SUFFICES ASSUME Init PROVE TypeOK
    OBVIOUS
  <2>1. job \in JobRow /\ docs \in [Doc -> DocRow]
    BY NewTypes DEF Init
  <2>2. ready \in [0..MaxRetries -> Nat] /\ faults \in 0..MaxFaults
    BY BoundAssumption DEF Init
  <2>3. /\ pc \in [Worker -> Place]
        /\ tries \in [Worker -> 0..MaxRetries]
        /\ mjob \in [Worker -> JobCopy]
        /\ mdocs \in [Worker -> [Doc -> DocRow]]
        /\ todo \in [Worker -> SUBSET Doc]
        /\ cur \in [Worker -> Doc \cup {NoDoc}]
        /\ \A w \in Worker : pc[w] \in {"mark", "fetch"} => cur[w] \in Doc
    BY NewTypes, BoundAssumption DEF Init, Place
  <2>4. /\ dirty \in [Worker -> SUBSET Doc]
        /\ posts \in [Worker -> Nat]
        /\ late \in [Worker -> Nat]
    BY DEF Init
  <2>5. api \in [Client -> [op: ApiOp \cup {"none"}, status: JobStatus,
                           completed: BOOLEAN]]
    BY DEF Init, Idle, JobStatus
  <2>6. QED
    BY <2>1, <2>2, <2>3, <2>4, <2>5 DEF Init, TypeOK
<1>2. QED
  BY <1>1, TypeStep, PTL DEF Spec

-----------------------------------------------------------------------------
(* A running job has an owner *)

(* RunningIsOwned alone is not inductive: an active worker might hold a copy *)
(* of the row that already has the status it resolves to, and finalize       *)
(* without writing the status column.  The strengthening names the worker    *)
(* that will write it: one whose copy says running.                          *)

Owns(w) ==
    /\ pc[w] \in {"gotjob", "gotdocs", "boundary", "mark", "fetch"}
    /\ mjob[w].status = "running"

OwnerInv ==
    job.status = "running" => lost \/ Queued \/ \E w \in Worker : Owns(w)

\* A worker that closes its session disturbs no other owner.
LEMMA OthersKeepOwning ==
    ASSUME TypeOK, NEW w \in Worker, EndSession(w), NEW v \in Worker, v # w, Owns(v)
    PROVE  Owns(v)'
BY DEF TypeOK, EndSession, Owns

\* A published message is a message to deliver.
LEMMA PublishQueues ==
    ASSUME TypeOK, NEW k \in 0..MaxRetries, Publish(k)
    PROVE  Queued'
<1>1. ready \in [0..MaxRetries -> Nat]
  BY DEF TypeOK
<1>2. ready'[k] = ready[k] + 1 /\ ready[k] \in Nat
  BY <1>1 DEF Publish
<1>3. ready'[k] > 0
  BY <1>2
<1>4. QED
  BY <1>3 DEF Queued

\* Every step preserves the ownership invariant.
LEMMA OwnerStep == TypeOK /\ OwnerInv /\ [Next]_vars => OwnerInv'
<1> SUFFICES ASSUME TypeOK, OwnerInv, [Next]_vars, job'.status = "running"
             PROVE  lost' \/ Queued' \/ \E w \in Worker : Owns(w)'
  BY DEF OwnerInv
<1>0. ASSUME job' = job, UNCHANGED <<ready, session, lost>>
      PROVE  lost' \/ Queued' \/ \E w \in Worker : Owns(w)'
  BY <1>0 DEF OwnerInv, Queued, Owns, session
<1>1. CASE Enqueue
  BY <1>1, PublishQueues, BoundAssumption DEF Enqueue
<1>2. CASE EnqueueLost
  BY <1>2, <1>0 DEF EnqueueLost, db
<1>3. ASSUME NEW w \in Worker, NEW k \in 0..MaxRetries, Receive(w, k)
      PROVE  \E v \in Worker : Owns(v)'
  <2>1. job \in JobRow /\ job.status = "running"
    BY <1>3 DEF Receive, db, TypeOK
  <2>2. Owns(w)'
    BY <1>3, <2>1, LoadedType DEF Receive, TypeOK, Owns
  <2>3. QED
    BY <2>2
<1>4. ASSUME NEW w \in Worker, ReadDocs(w)
      PROVE  lost' \/ Queued' \/ \E v \in Worker : Owns(v)'
  <2>1. job' = job /\ UNCHANGED <<ready, mjob, lost>>
    BY <1>4 DEF ReadDocs, db
  <2>2. ASSUME NEW v \in Worker, Owns(v) PROVE Owns(v)'
    BY <1>4, <2>1, <2>2 DEF ReadDocs, TypeOK, Owns
  <2>3. QED
    BY <2>1, <2>2 DEF OwnerInv, Queued
<1>5. ASSUME NEW w \in Worker, Drain(w)
      PROVE  lost' \/ Queued' \/ \E v \in Worker : Owns(v)'
  <2> DEFINE ds  == [d \in Doc |-> [mdocs[w][d] EXCEPT !.status = "skipped"]]
             new == [mjob[w] EXCEPT !.status = "cancelled",
                                    !.cnt = recalc_job_counters(ds)]
  <2>1. mjob[w] \in JobCopy /\ job \in JobRow
    BY DEF TypeOK
  <2>2. recalc_job_counters(ds) \in [Counter -> Nat]
    BY RecalcType
  <2>3. new \in JobCopy /\ new.status = "cancelled"
    BY <2>1, <2>2 DEF JobCopy, JobStatus
  <2>a. job' = [WriteBack(job, mjob[w], new) EXCEPT !.completed = TRUE]
    BY <1>5 DEF Drain
  <2> HIDE DEF new
  <2>4. /\ WriteBack(job, mjob[w], new) \in JobRow
        /\ WriteBack(job, mjob[w], new).status \in {"cancelled", job.status}
    BY <2>1, <2>3, WriteBackType
  <2>5. job'.status \in {"cancelled", job.status}
    BY <2>a, <2>4 DEF JobRow
  <2>6. job.status = "running"
    BY <2>5
  <2>7. mjob[w].status # "running"
    BY <1>5 DEF Drain, CancelSet
  <2>8. EndSession(w) /\ UNCHANGED <<ready, lost>>
    BY <1>5 DEF Drain
  <2>9. QED
    BY <2>6, <2>7, <2>8, OthersKeepOwning DEF OwnerInv, Owns, Queued
<1>6. ASSUME NEW w \in Worker, Claim(w)
      PROVE  \E v \in Worker : Owns(v)'
  <2>1. mjob[w] \in JobCopy
    BY DEF TypeOK
  <2>2. Owns(w)'
    BY <1>6, <2>1 DEF Claim, TypeOK, Owns, JobCopy
  <2>3. QED
    BY <2>2
<1>7. ASSUME NEW w \in Worker, ReRead(w)
      PROVE  \E v \in Worker : Owns(v)'
  <2>1. job \in JobRow /\ job.status = "running"
    BY <1>7 DEF ReRead, db, TypeOK
  <2>2. Owns(w)'
    BY <1>7, <2>1, LoadedType DEF ReRead, TypeOK, Owns
  <2>3. QED
    BY <2>2
<1>8. ASSUME NEW w \in Worker, Skip(w) \/ MarkFetching(w) \/ FetchDone(w)
      PROVE  lost' \/ Queued' \/ \E v \in Worker : Owns(v)'
  <2>1. job' = job /\ UNCHANGED <<ready, mjob, lost>>
    BY <1>8 DEF Skip, MarkFetching, FetchDone, db
  <2>2. pc' \in {[pc EXCEPT ![w] = "boundary"], [pc EXCEPT ![w] = "fetch"]}
    BY <1>8 DEF Skip, MarkFetching, FetchDone
  <2>3. ASSUME NEW v \in Worker, Owns(v) PROVE Owns(v)'
    BY <2>1, <2>2, <2>3 DEF TypeOK, Owns
  <2>4. QED
    BY <2>1, <2>3 DEF OwnerInv, Queued
<1>9. ASSUME NEW w \in Worker, Finalize(w)
      PROVE  lost' \/ Queued' \/ \E v \in Worker : Owns(v)'
  <2>1. mjob[w] \in JobCopy /\ job \in JobRow
    BY DEF TypeOK
  <2>2. Finalized(w) \in JobCopy /\ Finalized(w).status # "running"
    BY FinalizedType DEF Terminal
  <2>3. /\ WriteBack(job, mjob[w], Finalized(w)) \in JobRow
        /\ WriteBack(job, mjob[w], Finalized(w)).status =
             IF Finalized(w).status # mjob[w].status THEN Finalized(w).status
                                                     ELSE job.status
    BY <2>1, <2>2, WriteBackType
  <2>4. job'.status = WriteBack(job, mjob[w], Finalized(w)).status
    BY <1>9, <2>3 DEF Finalize, JobRow
  <2>5. job.status = "running" /\ mjob[w].status # "running"
    BY <2>2, <2>3, <2>4
  <2>6. UNCHANGED <<ready, lost>>
    BY <1>9 DEF Finalize
  <2>7. ASSUME NEW v \in Worker, Owns(v) PROVE Owns(v)'
    <3>1. v # w
      BY <2>5, <2>7 DEF Owns
    <3>2. CASE EndSession(w)
      BY <2>7, <3>1, <3>2, OthersKeepOwning
    <3>3. CASE ~EndSession(w)
      BY <1>9, <2>7, <3>1, <3>3 DEF Finalize, TypeOK, Owns
    <3>4. QED
      BY <3>2, <3>3
  <2>8. QED
    BY <2>5, <2>6, <2>7 DEF OwnerInv, Queued
<1>10. ASSUME NEW w \in Worker, CallbackAccepted(w) \/ CallbackRefused(w)
       PROVE  lost' \/ Queued' \/ \E v \in Worker : Owns(v)'
  <2>1. job.status = "running"
    <3> DEFINE new == [mjob[w] EXCEPT !.delivered = TRUE]
    <3>1. mjob[w] \in JobCopy /\ job \in JobRow
      BY DEF TypeOK
    <3>2. new \in JobCopy /\ new.status = mjob[w].status
      BY <3>1 DEF JobCopy
    <3>3. job' \in {job, WriteBack(job, mjob[w], new)}
      BY <1>10 DEF CallbackAccepted, CallbackRefused, db
    <3> HIDE DEF new
    <3>4. WriteBack(job, mjob[w], new).status = job.status
      BY <3>1, <3>2, WriteBackType
    <3>5. QED
      BY <3>3, <3>4
  <2>2. UNCHANGED <<ready, lost>> /\ pc[w] = "callback"
    BY <1>10 DEF CallbackAccepted, CallbackRefused
  <2>3. ASSUME NEW v \in Worker, Owns(v) PROVE Owns(v)'
    <3>1. v # w
      BY <2>2, <2>3 DEF Owns
    <3>2. CASE EndSession(w)
      BY <2>3, <3>1, <3>2, OthersKeepOwning
    <3>3. CASE ~EndSession(w)
      BY <1>10, <2>3, <3>3 DEF CallbackAccepted, CallbackRefused, Owns
    <3>4. QED
      BY <3>2, <3>3
  <2>4. QED
    BY <2>1, <2>2, <2>3 DEF OwnerInv, Queued
<1>11. ASSUME NEW w \in Worker, Fail(w)
       PROVE  lost' \/ Queued'
  <2>1. CASE tries[w] < MaxRetries /\ Publish(tries[w] + 1)
    <3>1. tries[w] \in 0..MaxRetries
      BY DEF TypeOK
    <3>2. tries[w] + 1 \in 0..MaxRetries
      BY <2>1, <3>1, BoundAssumption
    <3>3. QED
      BY <2>1, <3>2, PublishQueues
  <2>2. CASE lost' = TRUE
    BY <2>2
  <2>3. QED
    BY <1>11, <2>1, <2>2 DEF Fail
<1>12. ASSUME NEW w \in Worker, Crash(w) PROVE Queued'
  <2>1. tries[w] \in 0..MaxRetries
    BY DEF TypeOK
  <2>2. QED
    BY <1>12, <2>1, PublishQueues DEF Crash
<1>13. ASSUME NEW w \in Worker, Kill(w) PROVE lost'
  BY <1>13 DEF Kill
<1>14. ASSUME NEW c \in Client, ApiWrite(c)
       PROVE  lost' \/ Queued' \/ \E v \in Worker : Owns(v)'
  <2>1. api[c].op \in ApiOp /\ job \in JobRow
    BY <1>14 DEF ApiWrite, TypeOK
  <2>2. Requested(api[c].op, api[c].status) # "running"
    BY <2>1, ApiAssumption DEF Requested
  <2>3. job.status = "running"
    BY <1>14, <2>1, <2>2 DEF ApiWrite, JobRow, Column
  <2>4. UNCHANGED <<ready, session, lost>>
    BY <1>14 DEF ApiWrite
  <2>5. QED
    BY <2>3, <2>4 DEF OwnerInv, Queued, Owns, session
<1>15. ASSUME NEW c \in Client, NEW op \in ApiOp, ApiRead(c, op)
       PROVE  lost' \/ Queued' \/ \E v \in Worker : Owns(v)'
  BY <1>15, <1>0 DEF ApiRead, db
<1>16. CASE Age
  BY <1>16, <1>0 DEF Age, db
<1>17. CASE ReaperRequeue
  <2>1. CASE Publish(0)
    BY <2>1, PublishQueues, BoundAssumption
  <2>2. CASE UNCHANGED ready
    BY <1>17, <2>2, <1>0 DEF ReaperRequeue, db
  <2>3. QED
    BY <1>17, <2>1, <2>2 DEF ReaperRequeue
<1>18. CASE ReaperFailRunning
  <2>1. job \in JobRow
    BY DEF TypeOK
  <2>2. job' = job
    BY <1>18, <2>1 DEF ReaperFailRunning, JobRow
  <2>3. QED
    BY <1>18, <2>2, <1>0 DEF ReaperFailRunning
<1>19. CASE UNCHANGED vars
  BY <1>19, <1>0 DEF vars, db
<1>20. QED
  BY <1>1, <1>2, <1>3, <1>4, <1>5, <1>6, <1>7, <1>8, <1>9, <1>10, <1>11,
     <1>12, <1>13, <1>14, <1>15, <1>16, <1>17, <1>18, <1>19
     DEF Next, WorkerStep

\* A job shown as running is never abandoned: unless Celery dropped a task,
\* some worker is still going to finalize it or a message for it is waiting.
\* This holds for any number of workers, however their runs overlap.
THEOREM RunningOwned == Spec => []RunningIsOwned
<1>1. Init => OwnerInv
  BY NewTypes DEF Init, OwnerInv
<1>2. OwnerInv => RunningIsOwned
  BY DEF OwnerInv, RunningIsOwned, Owns, Active
<1>3. QED
  BY <1>1, <1>2, OwnerStep, TypeCorrect, PTL DEF Spec

-----------------------------------------------------------------------------
(* Cancel latency *)

(* CancelLatency is strengthened by why it holds: a worker that has started  *)
(* a document since the cancel cannot be past a boundary with a copy of the  *)
(* row that predates it.                                                     *)

PastBoundaryUnaware(w) == pc[w] = "mark" /\ mjob[w].status \notin CancelSet

LateInv ==
    \A w \in Worker :
        /\ late[w] <= 1
        /\ late[w] # 0 => job.status \in CancelSet /\ ~PastBoundaryUnaware(w)

\* What one step may do to worker v between a boundary and a fetch: only a
\* fresh read of the row takes it past a boundary, and only a worker whose
\* copy shows no cancel starts the document.
BoundaryStep(v) ==
    /\ \/ pc'[v] # "mark"
       \/ pc'[v] = pc[v] /\ mjob'[v] = mjob[v]
       \/ mjob'[v] = Loaded(job)
    /\ pc[v] = "mark" /\ pc'[v] = "fetch" => mjob[v].status \notin CancelSet

LEMMA EndSessionBoundary ==
    ASSUME TypeOK, NEW w \in Worker, EndSession(w), NEW v \in Worker
    PROVE  BoundaryStep(v)
BY DEF TypeOK, EndSession, BoundaryStep

\* Every step is recorded by the history variables and respects BoundaryStep.
LEMMA BoundaryShape ==
    ASSUME TypeOK, Next, NEW v \in Worker
    PROVE  Observe /\ BoundaryStep(v)
<1>0. ASSUME UNCHANGED session PROVE BoundaryStep(v)
  BY <1>0 DEF session, BoundaryStep
<1>1. CASE Enqueue \/ EnqueueLost
  BY <1>0, <1>1 DEF Enqueue, EnqueueLost
<1>2. ASSUME NEW w \in Worker, NEW k \in 0..MaxRetries, Receive(w, k)
      PROVE  Observe /\ BoundaryStep(v)
  BY <1>2 DEF Receive, TypeOK, BoundaryStep
<1>3. ASSUME NEW w \in Worker, ReadDocs(w) \/ Claim(w)
      PROVE  Observe /\ BoundaryStep(v)
  BY <1>3 DEF ReadDocs, Claim, TypeOK, BoundaryStep
<1>4. ASSUME NEW w \in Worker,
             Drain(w) \/ CallbackAccepted(w) \/ Fail(w) \/ Crash(w) \/ Kill(w)
      PROVE  Observe /\ BoundaryStep(v)
  BY <1>4, EndSessionBoundary DEF Drain, CallbackAccepted, Fail, Crash, Kill
<1>5. ASSUME NEW w \in Worker, ReRead(w)
      PROVE  Observe /\ BoundaryStep(v)
  BY <1>5 DEF ReRead, TypeOK, BoundaryStep
<1>6. ASSUME NEW w \in Worker, Skip(w) \/ FetchDone(w)
      PROVE  Observe /\ BoundaryStep(v)
  BY <1>6 DEF Skip, FetchDone, TypeOK, BoundaryStep
<1>7. ASSUME NEW w \in Worker, MarkFetching(w)
      PROVE  Observe /\ BoundaryStep(v)
  BY <1>7 DEF MarkFetching, TypeOK, BoundaryStep
<1>8. ASSUME NEW w \in Worker, Finalize(w)
      PROVE  Observe /\ BoundaryStep(v)
  <2>1. CASE EndSession(w)
    BY <1>8, <2>1, EndSessionBoundary DEF Finalize
  <2>2. CASE ~EndSession(w)
    BY <1>8, <2>2 DEF Finalize, TypeOK, BoundaryStep
  <2>3. QED
    BY <2>1, <2>2
<1>9. ASSUME NEW w \in Worker, CallbackRefused(w)
      PROVE  Observe /\ BoundaryStep(v)
  <2>1. CASE EndSession(w)
    BY <1>9, <2>1, EndSessionBoundary DEF CallbackRefused
  <2>2. CASE ~EndSession(w)
    BY <1>9, <2>2 DEF CallbackRefused, BoundaryStep
  <2>3. QED
    BY <2>1, <2>2
<1>10. ASSUME NEW c \in Client, ApiWrite(c) PROVE Observe /\ BoundaryStep(v)
  BY <1>0, <1>10 DEF ApiWrite
<1>11. ASSUME NEW c \in Client, NEW op \in ApiOp, ApiRead(c, op)
       PROVE  Observe /\ BoundaryStep(v)
  BY <1>0, <1>11 DEF ApiRead
<1>12. CASE Age \/ ReaperRequeue \/ ReaperFailRunning
  BY <1>0, <1>12 DEF Age, ReaperRequeue, ReaperFailRunning
<1>13. QED
  BY <1>1, <1>2, <1>3, <1>4, <1>5, <1>6, <1>7, <1>8, <1>9, <1>10, <1>11,
     <1>12 DEF Next, WorkerStep

LEMMA LateStep == TypeOK /\ LateInv /\ [Next]_vars => LateInv'
<1>1. ASSUME TypeOK, LateInv, Next, NEW v \in Worker
      PROVE  /\ late'[v] <= 1
             /\ late'[v] # 0 => job'.status \in CancelSet /\ ~PastBoundaryUnaware(v)'
  <2>1. Observe /\ BoundaryStep(v)
    BY <1>1, BoundaryShape
  <2>2. late[v] \in Nat /\ job \in JobRow /\ Loaded(job).status = job.status
    BY <1>1, LoadedType DEF TypeOK
  <2>3. CASE job.status \notin CancelSet \/ job'.status \notin CancelSet
    <3>1. late'[v] = 0
      BY <2>1, <2>3 DEF Observe
    <3>2. QED
      BY <3>1
  <2>4. CASE /\ job.status \in CancelSet /\ job'.status \in CancelSet
             /\ pc[v] = "mark" /\ pc'[v] = "fetch"
    <3>1. late'[v] = late[v] + 1
      BY <2>1, <2>4 DEF Observe
    <3>2. late[v] = 0
      BY <1>1, <2>1, <2>4 DEF BoundaryStep, LateInv, PastBoundaryUnaware
    <3>3. QED
      BY <2>4, <3>1, <3>2 DEF PastBoundaryUnaware
  <2>5. CASE /\ job.status \in CancelSet /\ job'.status \in CancelSet
             /\ ~(pc[v] = "mark" /\ pc'[v] = "fetch")
    <3>1. late'[v] = late[v]
      BY <2>1, <2>5 DEF Observe
    <3>2. late[v] # 0 => ~PastBoundaryUnaware(v)'
      BY <1>1, <2>1, <2>2, <2>5 DEF BoundaryStep, LateInv, PastBoundaryUnaware
    <3>3. QED
      BY <1>1, <2>5, <3>1, <3>2 DEF LateInv
  <2>6. QED
    BY <2>3, <2>4, <2>5
<1>2. ASSUME LateInv, UNCHANGED vars PROVE LateInv'
  BY <1>2 DEF LateInv, PastBoundaryUnaware, vars, db, session, history
<1>3. QED
  BY <1>1, <1>2 DEF LateInv

\* From the commit of a cancel on, each worker starts at most one more
\* document while the row keeps the cancel, whatever the other workers do.
THEOREM CancelLatencyHolds == Spec => []CancelLatency
<1>1. Init => LateInv
  BY DEF Init, LateInv
<1>2. LateInv => CancelLatency
  BY DEF LateInv, CancelLatency
<1>3. QED
  BY <1>1, <1>2, LateStep, TypeCorrect, PTL DEF Spec

-----------------------------------------------------------------------------
(* A failed document carries its error *)

(* A session whose copy already has an error does not write the column again *)
(* when the document fails once more.  That is safe because the row cannot   *)
(* have lost it: no copy has an error its row lacks.                         *)

ErrorInv ==
    \A d \in Doc :
        /\ docs[d].status = "failed" => docs[d].error
        /\ \A w \in Worker : mdocs[w][d].error => docs[d].error

\* What one step may do to document d: an error stays on the row, a failure
\* arrives with one, and a copy gains an error only with the row.
ErrorShape(d) ==
    /\ docs[d].error => docs'[d].error
    /\ docs'[d].status = "failed" => docs'[d].error
    /\ \A v \in Worker : mdocs'[v][d].error => mdocs[v][d].error \/ docs'[d].error

LEMMA EndSessionError ==
    ASSUME TypeOK, NEW w \in Worker, EndSession(w), NEW d \in Doc, NEW v \in Worker,
           mdocs'[v][d].error
    PROVE  mdocs[v][d].error
BY NewTypes DEF TypeOK, EndSession

\* Setting the status of a copy leaves the error columns alone.
LEMMA CopyKeepsError ==
    ASSUME TypeOK, NEW w \in Worker, NEW s, NEW d \in Doc, NEW v \in Worker, NEW e
    PROVE  [mdocs EXCEPT ![w][e].status = s][v][d].error = mdocs[v][d].error
BY DEF TypeOK, DocRow

LEMMA ErrorStep ==
    ASSUME TypeOK, ErrorInv, Next, NEW d \in Doc
    PROVE  ErrorShape(d)
<1>0. docs \in [Doc -> DocRow] /\ docs[d] \in DocRow
  BY DEF TypeOK
<1>1. ASSUME docs' = docs, mdocs' = mdocs PROVE ErrorShape(d)
  BY <1>1 DEF ErrorShape, ErrorInv
<1>2. ASSUME docs' = docs, NEW w \in Worker, EndSession(w) PROVE ErrorShape(d)
  BY <1>2, EndSessionError DEF ErrorShape, ErrorInv
<1>3. CASE Enqueue \/ EnqueueLost \/ Age \/ ReaperRequeue \/ ReaperFailRunning
  BY <1>1, <1>3 DEF Enqueue, EnqueueLost, Age, ReaperRequeue,
                    ReaperFailRunning, db, session
<1>4. ASSUME NEW w \in Worker, NEW k \in 0..MaxRetries, Receive(w, k)
      PROVE  ErrorShape(d)
  BY <1>1, <1>4 DEF Receive, db
<1>5. ASSUME NEW w \in Worker, ReadDocs(w) PROVE ErrorShape(d)
  BY <1>5 DEF ReadDocs, db, TypeOK, ErrorShape, ErrorInv
<1>6. ASSUME NEW w \in Worker, Drain(w) PROVE ErrorShape(d)
  <2>1. docs'[d] = [docs[d] EXCEPT !.status =
                      Column(@, mdocs[w][d].status, "skipped")]
    BY <1>6 DEF Drain
  <2>2. /\ docs'[d].error = docs[d].error
        /\ docs'[d].status \in {"skipped", docs[d].status}
    BY <1>0, <2>1 DEF DocRow, Column
  <2>3. EndSession(w)
    BY <1>6 DEF Drain
  <2>4. QED
    BY <2>2, <2>3, EndSessionError DEF ErrorShape, ErrorInv
<1>7. ASSUME NEW w \in Worker, Claim(w) \/ ReRead(w) PROVE ErrorShape(d)
  BY <1>1, <1>7 DEF Claim, ReRead, db
<1>8. ASSUME NEW w \in Worker, Skip(w) PROVE ErrorShape(d)
  <2>1. docs' = docs /\ mdocs' = [mdocs EXCEPT ![w][cur[w]].status = "skipped"]
    BY <1>8 DEF Skip, db
  <2>2. ASSUME NEW v \in Worker PROVE mdocs'[v][d].error = mdocs[v][d].error
    BY <2>1, CopyKeepsError
  <2>3. QED
    BY <2>1, <2>2 DEF ErrorShape, ErrorInv
<1>9. ASSUME NEW w \in Worker, MarkFetching(w) PROVE ErrorShape(d)
  <2>1. mdocs' = [mdocs EXCEPT ![w][cur[w]].status = "fetching"]
    BY <1>9 DEF MarkFetching
  <2>2. ASSUME NEW v \in Worker PROVE mdocs'[v][d].error = mdocs[v][d].error
    BY <2>1, CopyKeepsError
  <2>3. docs' = [Committed(w) EXCEPT ![cur[w]].status =
                    Column(@, mdocs[w][cur[w]].status, "fetching")]
    BY <1>9 DEF MarkFetching
  <2>4. /\ Committed(w) \in [Doc -> DocRow]
        /\ Committed(w)[d] \in DocRow
        /\ Committed(w)[d].error = docs[d].error
        /\ Committed(w)[d].status \in {"skipped", docs[d].status}
    BY CommittedType
  <2>5. /\ docs'[d].error = docs[d].error
        /\ docs'[d].status \in {"skipped", "fetching", docs[d].status}
    BY <2>3, <2>4 DEF DocRow, Column
  <2>6. QED
    BY <2>2, <2>5 DEF ErrorShape, ErrorInv
<1>10. ASSUME NEW w \in Worker, FetchDone(w) PROVE ErrorShape(d)
  <2> DEFINE e == cur[w]
  <2>1. e \in Doc
    BY <1>10 DEF FetchDone, TypeOK
  <2>2. PICK o \in FetchOutcome :
          /\ docs' = [docs EXCEPT ![e] =
                        [status |-> o,
                         error  |-> Column(@.error, mdocs[w][e].error,
                                      o = "failed" \/ mdocs[w][e].error)]]
          /\ mdocs' = [mdocs EXCEPT ![w][e] =
                         [status |-> o, error |-> @.error \/ o = "failed"]]
    BY <1>10 DEF FetchDone
  <2>3. mdocs[w][e].error \in BOOLEAN /\ docs[e].error \in BOOLEAN
    BY <2>1 DEF TypeOK, DocRow
  <2>4. mdocs[w][e].error => docs[e].error
    BY <2>1 DEF ErrorInv
  <2>5. CASE d = e
    <3>1. /\ docs'[d].status = o
          /\ docs'[d].error = Column(docs[d].error, mdocs[w][d].error,
                                     o = "failed" \/ mdocs[w][d].error)
      BY <1>0, <2>2, <2>5
    <3>2. /\ docs[d].error => docs'[d].error
          /\ o = "failed" => docs'[d].error
      BY <2>3, <2>4, <2>5, <3>1 DEF Column
    <3>3. ASSUME NEW v \in Worker, mdocs'[v][d].error
          PROVE  mdocs[v][d].error \/ docs'[d].error
      <4>1. CASE v = w
        <5>1. mdocs'[v][d].error = (mdocs[v][d].error \/ o = "failed")
          BY <2>1, <2>2, <2>5, <4>1 DEF TypeOK
        <5>2. QED
          BY <3>2, <3>3, <5>1
      <4>2. CASE v # w
        BY <2>2, <3>3, <4>2 DEF TypeOK
      <4>3. QED
        BY <4>1, <4>2
    <3>4. QED
      BY <3>1, <3>2, <3>3 DEF ErrorShape
  <2>6. CASE d # e
    <3>1. docs'[d] = docs[d]
      BY <1>0, <2>2, <2>6
    <3>2. ASSUME NEW v \in Worker PROVE mdocs'[v][d] = mdocs[v][d]
      BY <2>1, <2>2, <2>6 DEF TypeOK
    <3>3. QED
      BY <3>1, <3>2 DEF ErrorShape, ErrorInv
  <2>7. QED
    BY <2>5, <2>6
<1>11. ASSUME NEW w \in Worker, Finalize(w) PROVE ErrorShape(d)
  <2>1. /\ docs'[d].error = docs[d].error
        /\ docs'[d].status \in {"skipped", docs[d].status}
    BY <1>11, CommittedType DEF Finalize
  <2>2. ASSUME NEW v \in Worker, mdocs'[v][d].error PROVE mdocs[v][d].error
    <3>1. CASE EndSession(w)
      BY <2>2, <3>1, EndSessionError
    <3>2. CASE ~EndSession(w)
      <4>1. mdocs' = [mdocs EXCEPT ![w] = [e \in Doc |-> NewDoc]]
        BY <1>11, <3>2 DEF Finalize
      <4>2. CASE v = w
        <5>1. mdocs'[v][d] = NewDoc
          BY <4>1, <4>2 DEF TypeOK
        <5>2. ~NewDoc.error
          BY DEF NewDoc
        <5>3. QED
          BY <2>2, <5>1, <5>2
      <4>3. CASE v # w
        BY <2>2, <4>1, <4>3 DEF TypeOK
      <4>4. QED
        BY <4>2, <4>3
    <3>3. QED
      BY <3>1, <3>2
  <2>3. QED
    BY <2>1, <2>2 DEF ErrorShape, ErrorInv
<1>12. ASSUME NEW w \in Worker, CallbackAccepted(w) \/ Fail(w) \/ Crash(w) \/ Kill(w)
       PROVE  ErrorShape(d)
  BY <1>2, <1>12 DEF CallbackAccepted, Fail, Crash, Kill, db
<1>13. ASSUME NEW w \in Worker, CallbackRefused(w) PROVE ErrorShape(d)
  BY <1>1, <1>2, <1>13 DEF CallbackRefused, db
<1>14. ASSUME NEW c \in Client, ApiWrite(c) PROVE ErrorShape(d)
  BY <1>1, <1>14 DEF ApiWrite, session
<1>15. ASSUME NEW c \in Client, NEW op \in ApiOp, ApiRead(c, op)
       PROVE  ErrorShape(d)
  BY <1>1, <1>15 DEF ApiRead, db, session
<1>16. QED
  BY <1>3, <1>4, <1>5, <1>6, <1>7, <1>8, <1>9, <1>10, <1>11, <1>12, <1>13,
     <1>14, <1>15 DEF Next, WorkerStep

\* A failed document row carries its error, for any number of overlapping
\* sessions writing it.
THEOREM FailedCarriesError == Spec => []FailedHasError
<1>1. Init => ErrorInv
  BY NewTypes DEF Init, ErrorInv
<1>2. TypeOK /\ ErrorInv /\ [Next]_vars => ErrorInv'
  <2>1. ASSUME TypeOK, ErrorInv, Next PROVE ErrorInv'
    BY <2>1, ErrorStep DEF ErrorInv, ErrorShape
  <2>2. ASSUME ErrorInv, UNCHANGED vars PROVE ErrorInv'
    BY <2>2 DEF ErrorInv, vars, db, session
  <2>3. QED
    BY <2>1, <2>2
<1>3. ErrorInv => FailedHasError
  BY DEF ErrorInv, FailedHasError
<1>4. QED
  BY <1>1, <1>2, <1>3, TypeCorrect, PTL DEF Spec

=============================================================================
