---------------------------- MODULE JobLifecycle ----------------------------
(***************************************************************************)
(* The life of one research job: the rows it has in Postgres, the Celery   *)
(* tasks that carry it, the workers that execute research_job, the API     *)
(* calls that cancel or sign it off, and the reaper that sweeps it.        *)
(*                                                                         *)
(* Nothing in the code locks or versions the job row.  Every actor reads   *)
(* the row into a session, decides on that copy, and later writes back the *)
(* columns it changed: SQLAlchemy emits an UPDATE of exactly the columns   *)
(* whose value differs from the loaded one (WriteBack below).  Reads and   *)
(* writes are therefore separate steps here, and other actors' commits     *)
(* fall between them.                                                      *)
(*                                                                         *)
(* Jobs share no row and no task, so one job is modelled; the reaper, the  *)
(* only code that touches several, treats each one separately.             *)
(***************************************************************************)
EXTENDS Naturals, FiniteSets

CONSTANTS
    Doc,              \* the requested doc types, one research_documents row each
    NoDoc,            \* "no current document"
    Worker,           \* Celery worker slots, each executing one task at a time
    Client,           \* API processes serving cancel / review / archive calls
    ApiOp,            \* the calls they make in this instance
    FetchOutcome,     \* the statuses document_fetcher gives in this instance
    CallbackUrl,      \* whether the job was created with a callback_url
    CallbackAttempts, \* settings.CALLBACK_RETRY_ATTEMPTS
    MaxRetries,       \* max_retries of the research_job task
    MaxReady,         \* bound: the reaper publishes only below this queue length
    MaxFaults         \* bound: exceptions, crashes, kills, lost publications

ASSUME DocAssumption == IsFiniteSet(Doc) /\ Doc # {} /\ NoDoc \notin Doc
\* What document_fetcher (or its exception handler) can leave on a document.
Outcome == {"uploaded", "fetched", "skipped", "failed"}

ASSUME OutcomeAssumption == FetchOutcome \subseteq Outcome /\ FetchOutcome # {}
ASSUME ApiAssumption == ApiOp \subseteq {"cancel", "review", "archive"}
ASSUME BoundAssumption ==
    /\ CallbackUrl \in BOOLEAN
    /\ CallbackAttempts \in Nat \ {0}
    /\ MaxRetries \in Nat
    /\ MaxReady \in Nat
    /\ MaxFaults \in Nat

VARIABLES
    \* committed database state
    job,       \* the research_jobs row
    docs,      \* the research_documents rows
    \* broker
    ready,     \* ready[k]: deliverable task messages with request.retries = k
    \* worker sessions
    pc,        \* where each worker is inside research_job
    tries,     \* request.retries of the message a worker holds unacknowledged
    mjob,      \* the worker's ORM copy of the job row, as last loaded or flushed
    mdocs,     \* its copies of the document rows (never refreshed)
    todo,      \* documents the loop has not reached
    cur,       \* the document of the current iteration
    dirty,     \* document rows flushed but not committed (row locks held)
    posts,     \* callback attempts made
    \* the other actors
    api,       \* per client: the call in progress and the row it read
    reaper,    \* where the reaper sweep is
    creator,   \* create_job: committed, then enqueued
    aged,      \* created_at is older than REAPER_STALE_QUEUED_MINUTES
    \* environment budget and history
    faults,    \* exceptions, crashes, kills, lost publications so far
    lost,      \* a task was acknowledged without finishing its job
    late,      \* documents a worker started since the job became cancelled
    overlap    \* two workers have held sessions on the job at once

db      == <<job, docs>>
session == <<pc, tries, mjob, mdocs, todo, cur, dirty, posts>>
others  == <<api, reaper, creator, aged>>
history == <<late, overlap>>
vars    == <<db, ready, session, others, faults, lost, history>>

-----------------------------------------------------------------------------
(* Vocabulary *)

JobStatus == {"queued", "running", "completed", "partial", "failed",
              "cancelling", "cancelled", "reviewed", "archived"}
DocStatus == {"queued", "fetching", "fetched", "uploading", "uploaded",
              "failed", "skipped"}

CancelSet == {"cancelled", "cancelling"}
Terminal  == {"completed", "partial", "failed", "cancelled"}

Counter == {"fetched", "uploaded", "failed", "cancelled"}

\* The columns of research_jobs the properties tell apart; started_at and
\* completed_at only as "is not null".
JobRow == [status: JobStatus, started: BOOLEAN, completed: BOOLEAN,
           delivered: BOOLEAN, cnt: [Counter -> Nat]]
DocRow == [status: DocStatus, error: BOOLEAN]

\* What a worker's copy of the job decides a later write with.
JobCopy == [status: JobStatus, delivered: BOOLEAN, cnt: [Counter -> Nat]]

NewJob == [status |-> "queued", started |-> FALSE, completed |-> FALSE,
           delivered |-> FALSE, cnt |-> [c \in Counter |-> 0]]
NewDoc == [status |-> "queued", error |-> FALSE]

NoCopy == [status |-> "queued", delivered |-> FALSE, cnt |-> [c \in Counter |-> 0]]

Idle == [op |-> "none", status |-> "queued", completed |-> FALSE]

-----------------------------------------------------------------------------
(* The unit of work: which columns an UPDATE writes *)

\* A column of the row after a flush that loaded value o and holds value n.
Column(r, o, n) == IF n # o THEN n ELSE r

\* What a session loads of a job row.
Loaded(row) == [status |-> row.status, delivered |-> row.delivered, cnt |-> row.cnt]

\* The job row after flushing copy n of a session that had loaded o.
WriteBack(row, o, n) ==
    [row EXCEPT !.status    = Column(@, o.status, n.status),
                !.delivered = Column(@, o.delivered, n.delivered),
                !.cnt       = [c \in Counter |-> Column(@[c], o.cnt[c], n.cnt[c])]]

\* The document rows after worker w commits what it has flushed: only the
\* drain flushes (doc.status = skipped) without committing at once.
Committed(w) ==
    [d \in Doc |-> IF d \in dirty[w] THEN [docs[d] EXCEPT !.status = "skipped"]
                                     ELSE docs[d]]

\* An UPDATE of a document row waits for the session that holds its lock.
Unlocked(w, d) == \A v \in Worker \ {w} : d \notin dirty[v]

-----------------------------------------------------------------------------
(* service.py: counters and terminal status *)

Count(ds, S) == Cardinality({d \in Doc : ds[d].status \in S})

recalc_job_counters(ds) ==
    [c \in Counter |->
        CASE c = "fetched"   -> Count(ds, {"fetched", "uploaded"})
          [] c = "uploaded"  -> Count(ds, {"uploaded"})
          [] c = "failed"    -> Count(ds, {"failed"})
          [] c = "cancelled" -> Count(ds, {"skipped"})]

\* Mutant: a single failure is forgiven (failed == 0 written failed <= 1).
ResolveForgivesOneFailure(status, ds) ==
    IF status = "cancelling" THEN "cancelled"
    ELSE IF Count(ds, {"failed"}) <= 1 THEN "completed"
    ELSE IF Count(ds, DocStatus \ {"failed", "skipped"}) = 0 THEN "failed"
    ELSE "partial"

\* status is the session's copy, not the row: a cancel committed after the
\* last document boundary is not seen here.
resolve_job_terminal_status(status, ds) ==
    LET failed      == Count(ds, {"failed"})
        uploaded_ok == Count(ds, DocStatus \ {"failed", "skipped"})
    IN  IF status = "cancelling" THEN "cancelled"
        ELSE IF Doc = {} THEN "failed"
        ELSE IF failed = 0 THEN "completed"
        ELSE IF uploaded_ok = 0 THEN "failed"
        ELSE "partial"

-----------------------------------------------------------------------------
(* History: conjoined to every action, read by no guard *)

Active(w) == pc[w] # "idle"

Observe ==
    /\ late' = [w \in Worker |->
                  IF job.status \notin CancelSet \/ job'.status \notin CancelSet
                  THEN 0
                  ELSE IF pc[w] = "mark" /\ pc'[w] = "fetch" THEN late[w] + 1
                  ELSE late[w]]
    /\ overlap' = (overlap \/ \E v, w \in Worker :
                                 v # w /\ pc'[v] # "idle" /\ pc'[w] # "idle")

Init ==
    /\ job = NewJob
    /\ docs = [d \in Doc |-> NewDoc]
    /\ ready = [k \in 0..MaxRetries |-> 0]
    /\ pc = [w \in Worker |-> "idle"]
    /\ tries = [w \in Worker |-> 0]
    /\ mjob = [w \in Worker |-> NoCopy]
    /\ mdocs = [w \in Worker |-> [d \in Doc |-> NewDoc]]
    /\ todo = [w \in Worker |-> {}]
    /\ cur = [w \in Worker |-> NoDoc]
    /\ dirty = [w \in Worker |-> {}]
    /\ posts = [w \in Worker |-> 0]
    /\ api = [c \in Client |-> Idle]
    /\ reaper = "idle"
    /\ creator = "committed"
    /\ aged = FALSE
    /\ faults = 0
    /\ lost = FALSE
    /\ late = [w \in Worker |-> 0]
    /\ overlap = FALSE

-----------------------------------------------------------------------------
(* create_job, after the commit that made the job visible *)

Publish(k) == ready' = [ready EXCEPT ![k] = @ + 1]

Queued == \E k \in 0..MaxRetries : ready[k] > 0

\* self.enqueue(...) publishes the first task message.
Enqueue ==
    /\ creator = "committed"
    /\ creator' = "done"
    /\ Publish(0)
    /\ UNCHANGED <<db, session, api, reaper, aged, faults, lost>>
    /\ Observe

\* The API process dies, or the broker refuses, between commit and enqueue:
\* the job stays queued with no message until the reaper finds it.
EnqueueLost ==
    /\ creator = "committed"
    /\ faults < MaxFaults
    /\ creator' = "done"
    /\ faults' = faults + 1
    /\ UNCHANGED <<db, ready, session, api, reaper, aged, lost>>
    /\ Observe

-----------------------------------------------------------------------------
(* research_job *)

\* db.close(): the session and everything it had not committed are gone.
EndSession(w) ==
    /\ pc' = [pc EXCEPT ![w] = "idle"]
    /\ tries' = [tries EXCEPT ![w] = 0]
    /\ mjob' = [mjob EXCEPT ![w] = NoCopy]
    /\ mdocs' = [mdocs EXCEPT ![w] = [d \in Doc |-> NewDoc]]
    /\ todo' = [todo EXCEPT ![w] = {}]
    /\ cur' = [cur EXCEPT ![w] = NoDoc]
    /\ dirty' = [dirty EXCEPT ![w] = {}]
    /\ posts' = [posts EXCEPT ![w] = 0]

\* Mutant: the delivery does not wait for a message.
ReceiveUnguarded(w, k) ==
    /\ pc[w] = "idle"
    /\ ready' = [ready EXCEPT ![k] = @ - 1]
    /\ pc' = [pc EXCEPT ![w] = "gotjob"]
    /\ tries' = [tries EXCEPT ![w] = k]
    /\ mjob' = [mjob EXCEPT ![w] = Loaded(job)]
    /\ UNCHANGED <<db, mdocs, todo, cur, dirty, posts, others, faults, lost>>
    /\ Observe

\* A free worker takes a message (acknowledged only when the task ends,
\* task_acks_late), opens a session and reads the job.
Receive(w, k) ==
    /\ pc[w] = "idle"
    /\ ready[k] > 0
    /\ ready' = [ready EXCEPT ![k] = @ - 1]
    /\ pc' = [pc EXCEPT ![w] = "gotjob"]
    /\ tries' = [tries EXCEPT ![w] = k]
    /\ mjob' = [mjob EXCEPT ![w] = Loaded(job)]
    /\ UNCHANGED <<db, mdocs, todo, cur, dirty, posts, others, faults, lost>>
    /\ Observe

\* list_for_job: the only time the document rows are really read.  The later
\* calls return the same objects out of the identity map.
ReadDocs(w) ==
    /\ pc[w] = "gotjob"
    /\ pc' = [pc EXCEPT ![w] = "gotdocs"]
    /\ mdocs' = [mdocs EXCEPT ![w] = docs]
    /\ UNCHANGED <<db, ready, tries, mjob, todo, cur, dirty, posts, others,
                   faults, lost>>
    /\ Observe

\* Delivered after a cancel: every document skipped, counters, cancelled,
\* completed_at, one commit; no source is touched and no callback is sent.
Drain(w) ==
    LET ds  == [d \in Doc |-> [mdocs[w][d] EXCEPT !.status = "skipped"]]
        new == [mjob[w] EXCEPT !.status = "cancelled",
                               !.cnt = recalc_job_counters(ds)]
    IN  /\ pc[w] = "gotdocs"
        /\ mjob[w].status \in CancelSet
        /\ \A d \in Doc : mdocs[w][d].status # "skipped" => Unlocked(w, d)
        /\ docs' = [d \in Doc |-> [docs[d] EXCEPT !.status =
                                     Column(@, mdocs[w][d].status, "skipped")]]
        /\ job' = [WriteBack(job, mjob[w], new) EXCEPT !.completed = TRUE]
        /\ EndSession(w)
        /\ UNCHANGED <<ready, others, faults, lost>>
        /\ Observe

\* Otherwise the job is marked running, whatever its status was: a finished
\* job delivered again starts over, and completed_at keeps its old value.
Claim(w) ==
    LET new == [mjob[w] EXCEPT !.status = "running"]
    IN  /\ pc[w] = "gotdocs"
        /\ mjob[w].status \notin CancelSet
        /\ job' = [WriteBack(job, mjob[w], new) EXCEPT !.started = TRUE]
        /\ mjob' = [mjob EXCEPT ![w] = new]
        /\ pc' = [pc EXCEPT ![w] = "boundary"]
        /\ todo' = [todo EXCEPT ![w] = Doc]
        /\ UNCHANGED <<docs, ready, tries, mdocs, cur, dirty, posts, others,
                       faults, lost>>
        /\ Observe

\* Mutant: without db.expire the identity map returns the stale copy.
ReReadWithoutExpire(w) ==
    /\ pc[w] = "boundary"
    /\ \E d \in todo[w] : /\ cur' = [cur EXCEPT ![w] = d]
                          /\ todo' = [todo EXCEPT ![w] = @ \ {d}]
    /\ pc' = [pc EXCEPT ![w] = "mark"]
    /\ UNCHANGED <<db, ready, tries, mjob, mdocs, dirty, posts, others, faults,
                   lost>>
    /\ Observe

\* Document boundary: db.expire(job) and a fresh read of the committed row.
\* list_for_job orders by created_at, which one transaction gives to all the
\* rows, so the order is open: any remaining document may be next.
ReRead(w) ==
    /\ pc[w] = "boundary"
    /\ \E d \in todo[w] : /\ cur' = [cur EXCEPT ![w] = d]
                          /\ todo' = [todo EXCEPT ![w] = @ \ {d}]
    /\ mjob' = [mjob EXCEPT ![w] = Loaded(job)]
    /\ pc' = [pc EXCEPT ![w] = "mark"]
    /\ UNCHANGED <<db, ready, tries, mdocs, dirty, posts, others, faults, lost>>
    /\ Observe

\* The read saw a cancel: the document is skipped and flushed, and stays
\* uncommitted until some later commit of this session.
Skip(w) ==
    LET d == cur[w]
        changed == mdocs[w][d].status # "skipped"
    IN  /\ pc[w] = "mark"
        /\ mjob[w].status \in CancelSet
        /\ changed => Unlocked(w, d)
        /\ mdocs' = [mdocs EXCEPT ![w][d].status = "skipped"]
        /\ dirty' = [dirty EXCEPT ![w] = IF changed THEN @ \cup {d} ELSE @]
        /\ cur' = [cur EXCEPT ![w] = NoDoc]
        /\ pc' = [pc EXCEPT ![w] = "boundary"]
        /\ UNCHANGED <<db, ready, tries, mjob, todo, posts, others, faults, lost>>
        /\ Observe

\* It did not: the document is fetching, committed with whatever was flushed.
MarkFetching(w) ==
    LET d == cur[w]
    IN  /\ pc[w] = "mark"
        /\ mjob[w].status \notin CancelSet
        /\ mdocs[w][d].status # "fetching" => Unlocked(w, d)
        /\ docs' = [Committed(w) EXCEPT ![d].status =
                       Column(@, mdocs[w][d].status, "fetching")]
        /\ mdocs' = [mdocs EXCEPT ![w][d].status = "fetching"]
        /\ dirty' = [dirty EXCEPT ![w] = {}]
        /\ pc' = [pc EXCEPT ![w] = "fetch"]
        /\ UNCHANGED <<job, ready, tries, mjob, todo, cur, posts, others,
                       faults, lost>>
        /\ Observe

\* Mutant: the failure handler forgets the error columns.
FetchDoneWithoutError(w) ==
    LET d == cur[w]
    IN  /\ pc[w] = "fetch"
        /\ Unlocked(w, d)
        /\ \E o \in FetchOutcome :
              /\ docs' = [docs EXCEPT ![d].status = o]
              /\ mdocs' = [mdocs EXCEPT ![w][d].status = o]
        /\ cur' = [cur EXCEPT ![w] = NoDoc]
        /\ pc' = [pc EXCEPT ![w] = "boundary"]
        /\ UNCHANGED <<job, ready, tries, mjob, todo, dirty, posts, others,
                       faults, lost>>
        /\ Observe

\* document_fetcher returned, or raised and was turned into a failure.  The
\* error columns are written on failure and cleared by nothing.
FetchDone(w) ==
    LET d == cur[w]
    IN  /\ pc[w] = "fetch"
        /\ Unlocked(w, d)
        /\ \E o \in FetchOutcome :
              /\ docs' = [docs EXCEPT ![d] =
                            [status |-> o,
                             error  |-> Column(@.error, mdocs[w][d].error,
                                               o = "failed" \/ mdocs[w][d].error)]]
              /\ mdocs' = [mdocs EXCEPT ![w][d] =
                             [status |-> o, error |-> @.error \/ o = "failed"]]
        /\ cur' = [cur EXCEPT ![w] = NoDoc]
        /\ pc' = [pc EXCEPT ![w] = "boundary"]
        /\ UNCHANGED <<job, ready, tries, mjob, todo, dirty, posts, others,
                       faults, lost>>
        /\ Observe

\* Mutant: the counters are not recomputed before the terminal status.
FinalizedWithoutRecalc(w) ==
    [mjob[w] EXCEPT !.status = resolve_job_terminal_status(@, mdocs[w])]

\* The copy of the job a session finalizes: counters and terminal status.
Finalized(w) ==
    [mjob[w] EXCEPT !.cnt = recalc_job_counters(mdocs[w]),
                    !.status = resolve_job_terminal_status(@, mdocs[w])]

\* Loop over: counters, terminal status and completed_at in one commit, from
\* this session's copies.  Without a callback_url the task is over.
Finalize(w) ==
    /\ pc[w] = "boundary"
    /\ todo[w] = {}
    /\ docs' = Committed(w)
    /\ job' = [WriteBack(job, mjob[w], Finalized(w)) EXCEPT !.completed = TRUE]
    /\ \/ /\ CallbackUrl
          /\ mjob' = [mjob EXCEPT ![w] = Finalized(w)]
          /\ dirty' = [dirty EXCEPT ![w] = {}]
          /\ mdocs' = [mdocs EXCEPT ![w] = [d \in Doc |-> NewDoc]] \* no longer used
          /\ pc' = [pc EXCEPT ![w] = "callback"]
          /\ UNCHANGED <<tries, todo, cur, posts>>
       \/ /\ ~CallbackUrl
          /\ EndSession(w)
    /\ UNCHANGED <<ready, others, faults, lost>>
    /\ Observe

\* _fire_callback, one accepted POST: callback_delivered, commit, task over.
CallbackAccepted(w) ==
    /\ pc[w] = "callback"
    /\ job' = WriteBack(job, mjob[w], [mjob[w] EXCEPT !.delivered = TRUE])
    /\ EndSession(w)
    /\ UNCHANGED <<docs, ready, others, faults, lost>>
    /\ Observe

\* One refused POST: another attempt after the backoff, or give up quietly.
CallbackRefused(w) ==
    /\ pc[w] = "callback"
    /\ \/ /\ posts[w] + 1 < CallbackAttempts
          /\ posts' = [posts EXCEPT ![w] = @ + 1]
          /\ UNCHANGED <<pc, tries, mjob, mdocs, todo, cur, dirty>>
       \/ /\ posts[w] + 1 >= CallbackAttempts
          /\ EndSession(w)
    /\ UNCHANGED <<db, ready, others, faults, lost>>
    /\ Observe

\* Mutant: the handler rolls back and returns instead of raising self.retry.
FailWithoutRetry(w) ==
    /\ Active(w)
    /\ faults < MaxFaults
    /\ faults' = faults + 1
    /\ EndSession(w)
    /\ UNCHANGED <<db, ready, others, lost>>
    /\ Observe

\* An exception outside a document's fetch (database error, deadlock victim,
\* order_provider, soft time limit): rollback, then self.retry publishes the
\* task again, or gives up when max_retries is used up.
Fail(w) ==
    /\ Active(w)
    /\ faults < MaxFaults
    /\ faults' = faults + 1
    /\ \/ tries[w] < MaxRetries /\ Publish(tries[w] + 1) /\ UNCHANGED lost
       \/ tries[w] = MaxRetries /\ lost' = TRUE /\ UNCHANGED ready
    /\ EndSession(w)
    /\ UNCHANGED <<db, others>>
    /\ Observe

\* The whole worker dies with the message unacknowledged: it is redelivered.
Crash(w) ==
    /\ Active(w)
    /\ faults < MaxFaults
    /\ faults' = faults + 1
    /\ Publish(tries[w])
    /\ EndSession(w)
    /\ UNCHANGED <<db, others, lost>>
    /\ Observe

\* The child process is killed (hard time limit): Celery acknowledges the
\* message, since task_reject_on_worker_lost is not set.
Kill(w) ==
    /\ Active(w)
    /\ faults < MaxFaults
    /\ faults' = faults + 1
    /\ lost' = TRUE
    /\ EndSession(w)
    /\ UNCHANGED <<db, ready, others>>
    /\ Observe

-----------------------------------------------------------------------------
(* cancel_job, mark_reviewed, archive_job: read and guard, then write back *)

Allowed(op) ==
    CASE op = "cancel"  -> {"queued", "running", "cancelling"}
      [] op = "review"  -> {"completed", "partial"}
      [] op = "archive" -> {"reviewed"}

\* get_job and the status guard; a refused call changes nothing.
ApiRead(c, op) ==
    /\ api[c].op = "none"
    /\ job.status \in Allowed(op)
    /\ api' = [api EXCEPT ![c] = [op |-> op, status |-> job.status,
                                   completed |-> job.completed]]
    /\ UNCHANGED <<db, ready, session, reaper, creator, aged, faults, lost>>
    /\ Observe

Requested(op, status) ==
    CASE op = "cancel"  -> IF status = "queued" THEN "cancelled" ELSE "cancelling"
      [] op = "review"  -> "reviewed"
      [] op = "archive" -> "archived"

\* The changed columns: status, and completed_at = None on a cancel.
ApiWrite(c) ==
    LET a == api[c]
    IN  /\ a.op # "none"
        /\ job' = [job EXCEPT
                     !.status = Column(@, a.status, Requested(a.op, a.status)),
                     !.completed = Column(@, a.completed,
                                          a.completed /\ a.op # "cancel")]
        /\ api' = [api EXCEPT ![c] = Idle]
        /\ UNCHANGED <<docs, ready, session, reaper, creator, aged, faults, lost>>
        /\ Observe

-----------------------------------------------------------------------------
(* reaper_research_jobs *)

\* Time: the job has been in the table longer than the queued cutoff.
Age ==
    /\ ~aged
    /\ aged' = TRUE
    /\ UNCHANGED <<db, ready, session, api, reaper, creator, faults, lost>>
    /\ Observe

\* Mutant: the sweep only looks at running jobs.
ReaperRequeueNothing ==
    /\ reaper = "idle"
    /\ reaper' = "requeued"
    /\ UNCHANGED <<db, ready, session, api, creator, aged, faults, lost>>
    /\ Observe

\* First half of a sweep: a stale queued job is published again, whether or
\* not a message for it is already waiting.
ReaperRequeue ==
    /\ reaper = "idle"
    /\ reaper' = "requeued"
    /\ \/ /\ job.status = "queued" /\ aged
          /\ ready[0] < MaxReady
          /\ Publish(0)
       \/ /\ job.status # "queued" \/ ~aged
          /\ UNCHANGED ready
    /\ UNCHANGED <<db, session, api, creator, aged, faults, lost>>
    /\ Observe

\* Mutant: the UPDATE asks for completed_at where the code asks started_at.
ReaperFailCompleted ==
    /\ reaper = "requeued"
    /\ reaper' = "idle"
    /\ job' = IF job.status = "running" /\ job.completed
              THEN [job EXCEPT !.status = "failed"] ELSE job
    /\ UNCHANGED <<docs, ready, session, api, creator, aged, faults, lost>>
    /\ Observe

\* Second half: UPDATE ... SET status = failed WHERE status = running AND
\* started_at IS NOT NULL.  No cutoff, no error code, no completed_at.
ReaperFailRunning ==
    /\ reaper = "requeued"
    /\ reaper' = "idle"
    /\ job' = IF job.status = "running" /\ job.started
              THEN [job EXCEPT !.status = "failed"] ELSE job
    /\ UNCHANGED <<docs, ready, session, api, creator, aged, faults, lost>>
    /\ Observe

-----------------------------------------------------------------------------

\* What a worker does when nothing goes wrong around it.
WorkerStep(w) ==
    \/ \E k \in 0..MaxRetries : Receive(w, k)
    \/ ReadDocs(w)
    \/ Drain(w)
    \/ Claim(w)
    \/ ReRead(w)
    \/ Skip(w)
    \/ MarkFetching(w)
    \/ FetchDone(w)
    \/ Finalize(w)
    \/ CallbackAccepted(w)
    \/ CallbackRefused(w)

Next ==
    \/ Enqueue
    \/ EnqueueLost
    \/ \E w \in Worker : WorkerStep(w) \/ Fail(w) \/ Crash(w) \/ Kill(w)
    \/ \E c \in Client : ApiWrite(c) \/ \E op \in ApiOp : ApiRead(c, op)
    \/ Age
    \/ ReaperRequeue
    \/ ReaperFailRunning

Spec == Init /\ [][Next]_vars

\* Workers keep executing (a fetch ends: JOB_HARD_TIME_LIMIT), Celery Beat
\* keeps running the reaper, time passes, an API call that read goes on to
\* write.  Exceptions, crashes and new API calls are never obliged to happen.
Fairness ==
    /\ \A w \in Worker : WF_vars(WorkerStep(w))
    /\ \A c \in Client : WF_vars(ApiWrite(c))
    /\ WF_vars(Enqueue)
    /\ WF_vars(Age)
    /\ WF_vars(ReaperRequeue)
    /\ WF_vars(ReaperFailRunning)

FairSpec == Spec /\ Fairness

-----------------------------------------------------------------------------
(* Type *)

Place == {"idle", "gotjob", "gotdocs", "boundary", "mark", "fetch", "callback"}

\* Every variable has its type; in particular no message is delivered that
\* was not published (ready stays natural) and the loop only names documents
\* of the job.
TypeOK ==
    /\ job \in JobRow
    /\ docs \in [Doc -> DocRow]
    /\ ready \in [0..MaxRetries -> Nat]
    /\ pc \in [Worker -> Place]
    /\ tries \in [Worker -> 0..MaxRetries]
    /\ mjob \in [Worker -> JobCopy]
    /\ mdocs \in [Worker -> [Doc -> DocRow]]
    /\ todo \in [Worker -> SUBSET Doc]
    /\ cur \in [Worker -> Doc \cup {NoDoc}]
    /\ \A w \in Worker : pc[w] \in {"mark", "fetch"} => cur[w] \in Doc
    /\ dirty \in [Worker -> SUBSET Doc]
    /\ posts \in [Worker -> Nat]
    /\ api \in [Client -> [op: ApiOp \cup {"none"}, status: JobStatus, completed: BOOLEAN]]
    /\ reaper \in {"idle", "requeued"}
    /\ creator \in {"committed", "done"}
    /\ aged \in BOOLEAN
    /\ faults \in 0..MaxFaults
    /\ lost \in BOOLEAN
    /\ late \in [Worker -> Nat]
    /\ overlap \in BOOLEAN

-----------------------------------------------------------------------------
(* Safety *)

\* research_job / self.retry / task_acks_late: a job shown as running is never
\* abandoned.  Some worker is still going to finalize it or a task message
\* for it is waiting, unless Celery dropped a task (lost).
RunningIsOwned ==
    job.status = "running" =>
        \/ lost
        \/ Queued
        \/ \E w \in Worker : Active(w) /\ pc[w] # "callback"

\* The per-document re-read: from the moment a cancel is committed, and for as
\* long as the row keeps it, a worker starts at most one more document, the
\* one whose boundary it had already passed.
CancelLatency == \A w \in Worker : late[w] <= 1

\* recalc_job_counters: while runs of the job never overlapped (crashes,
\* retries, redeliveries, cancels and sweeps included), the counters on a
\* completed or partial row are those of the document rows.
CountersMatchRows ==
    ~overlap /\ job.status \in {"completed", "partial"} =>
        /\ job.cnt["failed"] = Cardinality({d \in Doc : docs[d].status = "failed"})
        /\ job.cnt["uploaded"] = Cardinality({d \in Doc : docs[d].status = "uploaded"})
        /\ job.cnt["fetched"] + job.cnt["failed"] + job.cnt["cancelled"]
             = Cardinality(Doc)

\* resolve_job_terminal_status: while runs never overlapped, a completed row
\* has only settled documents and no failure among them, a partial row has a
\* failure and a success.
StatusMatchesRows ==
    ~overlap =>
        /\ job.status = "completed" =>
             \A d \in Doc : docs[d].status \in {"uploaded", "fetched", "skipped"}
        /\ job.status = "partial" =>
             /\ \A d \in Doc : docs[d].status \in Outcome
             /\ \E d \in Doc : docs[d].status = "failed"
             /\ \E d \in Doc : docs[d].status \in {"uploaded", "fetched"}

\* _fire_callback: whatever else happened to the rows, the status and the
\* counts in one payload agree with each other.
PayloadIsConsistent ==
    \A w \in Worker : pc[w] = "callback" =>
        LET s == mjob[w].status
            n == mjob[w].cnt
        IN  /\ s \in Terminal
            /\ s = "completed" => n["failed"] = 0
            /\ s = "partial" => n["failed"] > 0 /\ n["fetched"] > 0
            /\ s = "failed" => n["failed"] > 0 /\ n["fetched"] = 0

\* The per-document handler: a failed document row carries its error, even
\* when two sessions write different columns of it.
FailedHasError ==
    \A d \in Doc : docs[d].status = "failed" => docs[d].error

-----------------------------------------------------------------------------
(* Liveness, under FairSpec *)

\* create_job / reaper: a queued job is eventually taken up or cancelled, even
\* when its first task message was never published.
QueuedIsTakenUp == job.status = "queued" ~> job.status # "queued"

\* worker / reaper: no job stays running for ever, even when its task is lost.
RunningEnds == job.status = "running" ~> job.status # "running"

-----------------------------------------------------------------------------
(* What the documents and comments of the repository say, and the code does  *)
(* not do.  Each one is refuted by a run of its own.                         *)

\* worker.py:160: "never overwrite an external cancelling/cancelled with
\* running".  The row is read at line 154 and written at line 176.
NeverUncancelled ==
    [][job.status \in CancelSet => job'.status # "running"]_vars

\* docs/api-contract-freeze.md:141: running jobs go cancelling "and the worker
\* drains (skipped the rest) to cancelled".
CancellingEnds == job.status = "cancelling" ~> job.status # "cancelling"

=============================================================================
