-------------------------- MODULE ApiRequestProofs --------------------------
(***************************************************************************)
(* Theorems about ApiRequest, for any requests, processes, tenants, orders *)
(* and keys: what a request is shown or writes is its tenant's, a refused  *)
(* request has written nothing, an answer shows settled documents, and the *)
(* limiter lets no more through than it says.                              *)
(***************************************************************************)
EXTENDS ApiRequest, FiniteSetTheorems, FunctionTheorems, TLAPS

RowType == [id : Job, order : Order, status : JobStatus]

Place == {"limit", "storage", "build", "cache", "hit", "auth", "body", "done"} \cup InBody

\* The types the argument needs.
Core ==
    /\ ask \in [Request -> Ask]
    /\ pc \in [Request -> Place]
    /\ row \in [Request -> RowType \cup {None}]
    /\ code \in [Request -> Nat]
    /\ seen \in [Request -> SUBSET Job]
    /\ wrote \in [Request -> SUBSET Job]
    /\ jobs \in [Job -> JobRow \cup {None}]

\* A job is on an order of its own tenant.
Owned == \A j \in Job : jobs[j] # None => OwnerOf[jobs[j].order] = jobs[j].tenant

\* A run that has begun has its job and a session.
Running ==
    /\ run \in [Delivery -> {"lost", "waiting", "read", "going", "over"}]
    /\ session \in [Delivery -> Session \cup {None}]
    /\ again \subseteq Job
    /\ \A d \in Delivery :
         run[d] \in Active => session[d] \in Session /\ jobs[JobOf[d]] # None

Mine(r, j) == j \in Job /\ jobs[j] # None /\ jobs[j].tenant = get_tenant_id(r)

\* Only an answered request has a code, and jobs are shown with a 200.
Answered(r) ==
    /\ code[r] # 0 => pc[r] = "done"
    /\ seen[r] # {} => code[r] = 200

\* Nothing is written before the last check, so no refusal follows a write.
Writes(r) ==
    wrote[r] # {} => pc[r] \in {"refresh", "enqueue", "docs"} \/ code[r] \in {200, 500}

\* In a body the tenant is known.
Known(r) == pc[r] \in InBody \cup {"body"} => get_tenant_id(r) \in Tenant

\* The row a request holds is of a job of its tenant, and agrees with the table
\* on what no step changes; it is there wherever it is used.  So is the
\* request's own job once it is inserted.
HoldsMine(r) ==
    /\ row[r] # None =>
         Mine(r, row[r].id) /\ row[r].order = jobs[row[r].id].order
    /\ pc[r] \in {"cancel", "refresh", "failed", "create", "docs"} => row[r] # None
    /\ pc[r] \in {"failed", "create"} => ask[r].op = "retry"
    /\ pc[r] = "enqueue" => Mine(r, r)

\* The order has passed _resolve_order when the job is inserted.
Resolved(r) ==
    pc[r] = "insert" => OrderOf(r) \in Order /\ OwnerOf[OrderOf(r)] = get_tenant_id(r)

\* What the request shows and has written is its tenant's.
Scoped(r) == \A j \in seen[r] \cup wrote[r] : Mine(r, j)

\* A request's own job is not there before its insert.
Unborn(r) == jobs[r] # None => pc[r] \in {"enqueue", "docs", "done"}

RequestInv(r) ==
    /\ Answered(r) /\ Writes(r) /\ Known(r) /\ HoldsMine(r)
    /\ Resolved(r) /\ Scoped(r) /\ Unborn(r)

IInv == Core /\ Owned /\ Running /\ \A r \in Request : RequestInv(r)

\* What a step that may create the jobs in New leaves of the table.
Keeps(New) ==
    \A j \in Job :
        /\ jobs[j] # None => /\ jobs'[j] # None
                             /\ jobs'[j].tenant = jobs[j].tenant
                             /\ jobs'[j].order = jobs[j].order
        /\ jobs'[j] # None => jobs[j] # None \/ j \in New

-----------------------------------------------------------------------------
(* The table *)

LEMMA NoneIsNoRow == None \notin JobRow /\ None \notin RowType /\ None \notin Tenant
  BY ApiAssumption DEF RowType

\* A row replaced by one of the same tenant and order.
LEMMA RowKept ==
    ASSUME jobs \in [Job -> JobRow \cup {None}], NEW j \in Job, NEW w \in JobRow,
           jobs' = [jobs EXCEPT ![j] = w], jobs[j] # None,
           w.tenant = jobs[j].tenant, w.order = jobs[j].order
    PROVE  jobs' \in [Job -> JobRow \cup {None}] /\ Keeps({})
  BY NoneIsNoRow DEF Keeps

\* A change of status keeps the rest of the row.
LEMMA StatusKept ==
    ASSUME jobs \in [Job -> JobRow \cup {None}], NEW j \in Job, jobs[j] # None,
           NEW s \in JobStatus, jobs' = [jobs EXCEPT ![j].status = s]
    PROVE  jobs' \in [Job -> JobRow \cup {None}] /\ Keeps({})
<1> DEFINE w == [jobs[j] EXCEPT !.status = s]
<1>1. w \in JobRow /\ w.tenant = jobs[j].tenant /\ w.order = jobs[j].order
  BY DEF JobRow
<1>2. jobs' = [jobs EXCEPT ![j] = w]
  OBVIOUS
<1> HIDE DEF w
<1>3. QED
  BY <1>1, <1>2, RowKept

\* The row a commit leaves.
Merged(j, before, after) ==
    [jobs[j] EXCEPT !.status = Written(before.status, after.status, jobs[j].status),
                    !.docs = [t \in Type |->
                                 Written(before.docs[t], after.docs[t], jobs[j].docs[t])]]

LEMMA MergedRow ==
    ASSUME NEW j \in Job, jobs[j] \in JobRow, NEW before \in Session, NEW after \in Session
    PROVE  /\ Merged(j, before, after) \in JobRow
           /\ Merged(j, before, after).tenant = jobs[j].tenant
           /\ Merged(j, before, after).order = jobs[j].order
<1> DEFINE st == Written(before.status, after.status, jobs[j].status)
           ds == [t \in Type |-> Written(before.docs[t], after.docs[t], jobs[j].docs[t])]
<1>1. st \in JobStatus
  BY DEF Written, Session, JobRow
<1>2. ds \in [Type -> DocStatus]
  BY DEF Written, Session, JobRow
<1>3. Merged(j, before, after) = [jobs[j] EXCEPT !.status = st, !.docs = ds]
  BY DEF Merged
<1> HIDE DEF st, ds
<1>4. QED
  BY <1>1, <1>2, <1>3 DEF JobRow

LEMMA MergedColumns ==
    ASSUME NEW j \in Job, jobs[j] \in JobRow, NEW before \in Session, NEW after \in Session
    PROVE  /\ Merged(j, before, after).status =
                 Written(before.status, after.status, jobs[j].status)
           /\ Merged(j, before, after).docs =
                 [t \in Type |-> Written(before.docs[t], after.docs[t], jobs[j].docs[t])]
  BY DEF Merged, JobRow

LEMMA CommitRow ==
    ASSUME NEW j \in Job, jobs[j] \in JobRow, NEW before \in Session, NEW after \in Session,
           Commits(j, before, after)
    PROVE  jobs' = [jobs EXCEPT ![j] = Merged(j, before, after)]
  BY DEF Commits, Merged, JobRow

LEMMA CommitKeeps ==
    ASSUME jobs \in [Job -> JobRow \cup {None}], NEW j \in Job, jobs[j] # None,
           NEW before \in Session, NEW after \in Session, Commits(j, before, after)
    PROVE  jobs' \in [Job -> JobRow \cup {None}] /\ Keeps({})
<1>1. jobs[j] \in JobRow
  OBVIOUS
<1>2. jobs' = [jobs EXCEPT ![j] = Merged(j, before, after)]
  BY <1>1, CommitRow
<1>3. /\ Merged(j, before, after) \in JobRow
      /\ Merged(j, before, after).tenant = jobs[j].tenant
      /\ Merged(j, before, after).order = jobs[j].order
  BY <1>1, MergedRow
<1>4. QED
  BY <1>2, <1>3, RowKept

\* What the sessions commit are sessions.
LEMMA SessionTypes ==
    ASSUME Core, Running, NEW d \in Delivery, run[d] \in Active
    PROVE  /\ [session[d] EXCEPT !.status = "running"] \in Session
           /\ Reread(d) \in Session /\ Reread(d).docs = session[d].docs
           /\ Reread(d).left = session[d].left /\ Reread(d).doc = session[d].doc
           /\ Reread(d).status = jobs[JobOf[d]].status
           /\ session[d] \in Session /\ JobOf[d] \in Job /\ jobs[JobOf[d]] \in JobRow
<1>1. session[d] \in Session /\ JobOf[d] \in Job /\ jobs[JobOf[d]] \in JobRow
  BY ApiAssumption DEF Core, Running
<1>2. jobs[JobOf[d]].status \in JobStatus /\ "running" \in JobStatus
  BY <1>1 DEF JobRow, JobStatus
<1>3. QED
  BY <1>1, <1>2 DEF Session, Reread

LEMMA TerminalType ==
    ASSUME NEW s \in Session
    PROVE  Terminal(s) \in Session /\ Terminal(s).docs = s.docs
<1>1. resolve_job_terminal_status(s.status, s.docs) \in JobStatus
  BY DEF resolve_job_terminal_status, JobStatus
<1>2. QED
  BY <1>1 DEF Terminal, Session

\* The session after the documents that are left are skipped.
Skipped(d) ==
    [Reread(d) EXCEPT !.docs = [t \in Type |-> IF t \in session[d].left THEN "skipped"
                                               ELSE @[t]]]

\* A delivery that has begun commits one of these.
LEMMA SessionCommits ==
    ASSUME Core, Running, NEW d \in Delivery,
           start(d) \/ begin(d) \/ fetch(d) \/ finish(d) \/ skip_rest(d)
    PROVE  \E before \in {session[d], Reread(d)}, after \in Session :
             /\ Commits(JobOf[d], before, after) /\ run[d] \in Active
             /\ Becomes(d, "going", after) \/ Becomes(d, "over", None)
             /\ Worker(d) /\ UNCHANGED again
<1>1. run[d] \in Active
  BY DEF start, begin, fetch, finish, skip_rest, Boundary, Active
<1>2. /\ Reread(d) \in Session /\ session[d] \in Session
      /\ [session[d] EXCEPT !.status = "running"] \in Session
  BY <1>1, SessionTypes
<1>3. CASE start(d)
  BY <1>1, <1>2, <1>3 DEF start
<1>4. CASE begin(d)
  <2>1. PICK t \in session[d].left :
           LET s == [Reread(d) EXCEPT !.docs[t] = "fetching", !.left = @ \ {t}, !.doc = t]
           IN  Commits(JobOf[d], Reread(d), s) /\ Becomes(d, "going", s)
    BY <1>4 DEF begin
  <2> DEFINE s == [Reread(d) EXCEPT !.docs[t] = "fetching", !.left = @ \ {t}, !.doc = t]
  <2>2. t \in Type
    BY <1>2 DEF Session
  <2>3. s \in Session
    BY <1>2, <2>2 DEF Session, DocStatus
  <2>4. Commits(JobOf[d], Reread(d), s) /\ Becomes(d, "going", s)
    BY <2>1
  <2> HIDE DEF s
  <2>5. QED
    BY <1>1, <1>4, <2>3, <2>4 DEF begin
<1>5. CASE fetch(d)
  <2>1. PICK result \in {"uploaded", "failed"} :
           LET s == [session[d] EXCEPT !.docs[session[d].doc] = result, !.doc = None]
           IN  Commits(JobOf[d], session[d], s) /\ Becomes(d, "going", s)
    BY <1>5 DEF fetch
  <2> DEFINE s == [session[d] EXCEPT !.docs[session[d].doc] = result, !.doc = None]
  <2>2. session[d].doc \in Type
    BY <1>2, <1>5 DEF fetch, Session
  <2>3. s \in Session
    BY <1>2, <2>2 DEF Session, DocStatus
  <2>4. Commits(JobOf[d], session[d], s) /\ Becomes(d, "going", s)
    BY <2>1
  <2> HIDE DEF s
  <2>5. QED
    BY <1>1, <1>5, <2>3, <2>4 DEF fetch
<1>6. CASE finish(d)
  BY <1>1, <1>2, <1>6, TerminalType DEF finish, Ends
<1>7. CASE skip_rest(d)
  <2>1. Skipped(d) \in Session
    BY <1>2 DEF Skipped, Session, DocStatus
  <2>2. Ends(d, Reread(d), Skipped(d))
    BY <1>7 DEF skip_rest, Skipped
  <2>3. QED
    BY <1>1, <2>1, <2>2, TerminalType DEF Ends
<1>8. QED
  BY <1>3, <1>4, <1>5, <1>6, <1>7

\* The row a drain leaves.
Drained(j) ==
    [jobs[j] EXCEPT !.status = "cancelled",
                    !.docs = [t \in Type |-> IF jobs[j].docs[t] = "none" THEN "none"
                                             ELSE "skipped"]]

LEMMA DrainRow ==
    ASSUME Core, NEW d \in Delivery, drain(d)
    PROVE  /\ jobs' = [jobs EXCEPT ![JobOf[d]] = Drained(JobOf[d])]
           /\ Drained(JobOf[d]) \in JobRow
           /\ Drained(JobOf[d]).tenant = jobs[JobOf[d]].tenant
           /\ Drained(JobOf[d]).order = jobs[JobOf[d]].order
           /\ Drained(JobOf[d]).status = "cancelled"
           /\ \A t \in Type : Drained(JobOf[d]).docs[t] \in {"none", "skipped"}
<1> DEFINE j == JobOf[d]
           ds == [t \in Type |-> IF jobs[j].docs[t] = "none" THEN "none" ELSE "skipped"]
           w == [jobs[j] EXCEPT !.status = "cancelled", !.docs = ds]
<1>1. j \in Job /\ jobs[j] \in JobRow
  BY ApiAssumption DEF Core, drain
<1>2. ds \in [Type -> DocStatus] /\ \A t \in Type : ds[t] \in {"none", "skipped"}
  BY DEF DocStatus
<1>3. jobs' = [jobs EXCEPT ![j] = w]
  BY <1>1 DEF drain, JobRow
<1>4. w = Drained(j)
  BY DEF Drained
<1>5. /\ w \in JobRow /\ w.tenant = jobs[j].tenant /\ w.order = jobs[j].order
      /\ w.status = "cancelled" /\ w.docs = ds
  <2> HIDE DEF ds, j
  <2>1. QED
    BY <1>1, <1>2 DEF JobRow, JobStatus
<1> HIDE DEF w
<1>6. QED
  BY <1>2, <1>3, <1>4, <1>5

\* The worker changes statuses, of a job and of its documents.
LEMMA WorkKeeps ==
    ASSUME Core, Running, NEW d \in Delivery, Work(d)
    PROVE  jobs' \in [Job -> JobRow \cup {None}] /\ Keeps({})
<1>1. JobOf[d] \in Job
  BY ApiAssumption
<1>2. CASE deliver(d) \/ crash(d)
  BY <1>2 DEF deliver, crash, Core, Keeps
<1>3. CASE drain(d)
  BY <1>1, <1>3, DrainRow, RowKept DEF Core, drain
<1>4. CASE start(d) \/ begin(d) \/ fetch(d) \/ finish(d) \/ skip_rest(d)
  <2>1. PICK before \in {session[d], Reread(d)}, after \in Session :
               Commits(JobOf[d], before, after) /\ run[d] \in Active
    BY <1>4, SessionCommits
  <2>2. jobs[JobOf[d]] # None /\ before \in Session
    BY <2>1, SessionTypes DEF Running
  <2>3. jobs \in [Job -> JobRow \cup {None}] /\ Commits(JobOf[d], before, after)
    BY <2>1 DEF Core
  <2>4. QED
    BY <1>1, <2>2, <2>3, CommitKeeps
<1>5. CASE reap(JobOf[d])
  BY <1>1, <1>5, StatusKept DEF reap, JobStatus, Core
<1>6. QED
  BY <1>2, <1>3, <1>4, <1>5 DEF Work

\* A cancel changes a status.
LEMMA CancelKeeps ==
    ASSUME Core, NEW r \in Request, RequestInv(r), cancel_job(r)
    PROVE  jobs' \in [Job -> JobRow \cup {None}] /\ Keeps({})
<1>1. row[r].id \in Job /\ jobs[row[r].id] # None
  BY DEF RequestInv, HoldsMine, Mine, cancel_job
<1>2. CASE UNCHANGED jobs
  BY <1>2 DEF Core, Keeps
<1>3. ASSUME NEW s \in JobStatus, jobs' = [jobs EXCEPT ![row[r].id].status = s]
      PROVE  jobs' \in [Job -> JobRow \cup {None}] /\ Keeps({})
  BY <1>1, <1>3, StatusKept DEF Core
<1>4. QED
  BY <1>2, <1>3 DEF cancel_job, JobStatus

\* The inserted job is the tenant's, on the order that was resolved.
LEMMA NewJobFits ==
    ASSUME Core, NEW r \in Request, RequestInv(r), pc[r] = "insert"
    PROVE  /\ NewJob(r) \in JobRow
           /\ NewJob(r).tenant = get_tenant_id(r)
           /\ OwnerOf[NewJob(r).order] = get_tenant_id(r)
<1>1. get_tenant_id(r) \in Tenant
  BY DEF RequestInv, Known, InBody
<1>2. OrderOf(r) \in Order /\ OwnerOf[OrderOf(r)] = get_tenant_id(r)
  BY DEF RequestInv, Resolved
<1>3. KeyOf(r) \in Key \cup {None}
  BY DEF KeyOf, Core, Ask
<1>4. [t \in Type |-> IF t \in types[r] THEN "queued" ELSE "none"] \in [Type -> DocStatus]
  BY DEF DocStatus
<1>5. QED
  BY <1>1, <1>2, <1>3, <1>4 DEF NewJob, JobRow, JobStatus

-----------------------------------------------------------------------------
(* A step of a request and the others *)

\* A step of r leaves the inputs and what every other request holds.
Frame(r) ==
    /\ UNCHANGED <<ask, jwt>>
    /\ \A q \in Request \ {r} :
         /\ pc'[q] = pc[q] /\ row'[q] = row[q] /\ code'[q] = code[q]
         /\ seen'[q] = seen[q] /\ wrote'[q] = wrote[q]

\* What the limiter and the authentication share: they touch no row.
LEMMA QuietFrame ==
    ASSUME Core, NEW r \in Request, UNCHANGED <<given, row, seen, wrote, jobs>>,
           NEW place \in Place, pc' = [pc EXCEPT ![r] = place],
           NEW c \in Nat, code' = [code EXCEPT ![r] = c]
    PROVE  Core' /\ Frame(r) /\ Keeps({r})
  BY DEF Core, Frame, Keeps, given

\* Another request's part of the invariant survives.
LEMMA OthersKept ==
    ASSUME Core, Core', NEW r, Frame(r), Keeps({r}),
           NEW q \in Request, q # r, RequestInv(q)
    PROVE  RequestInv(q)'
<1>1. /\ pc'[q] = pc[q] /\ row'[q] = row[q] /\ code'[q] = code[q]
      /\ seen'[q] = seen[q] /\ wrote'[q] = wrote[q] /\ ask' = ask /\ jwt' = jwt
  BY DEF Frame
<1>2. get_tenant_id(q)' = get_tenant_id(q) /\ OrderOf(q)' = OrderOf(q)
  BY <1>1 DEF get_tenant_id, OrderOf
<1>3. \A j : Mine(q, j) => Mine(q, j)' /\ jobs'[j].order = jobs[j].order
  BY <1>2 DEF Mine, Keeps
<1>4. Answered(q)' /\ Writes(q)' /\ Known(q)' /\ Resolved(q)'
  BY <1>1, <1>2 DEF RequestInv, Answered, Writes, Known, Resolved
<1>5. HoldsMine(q)'
  BY <1>1, <1>3 DEF RequestInv, HoldsMine
<1>6. Scoped(q)'
  BY <1>1, <1>3 DEF RequestInv, Scoped
<1>7. Unborn(q)'
  BY <1>1 DEF RequestInv, Unborn, Keeps, Job
<1>8. QED
  BY <1>4, <1>5, <1>6, <1>7 DEF RequestInv

\* Orders of jobs are their tenants', also after a step.
LEMMA OwnedKept ==
    ASSUME Owned, NEW New, Keeps(New),
           \A j \in New \cap Job : jobs[j] = None /\ jobs'[j] # None
                                    => OwnerOf[jobs'[j].order] = jobs'[j].tenant
    PROVE  Owned'
  BY DEF Owned, Keeps

\* An error answers the request; only a 500 may come after a write.
LEMMA FailStep ==
    ASSUME Core, NEW r \in Request, RequestInv(r), UNCHANGED <<given, row, wrote, jobs>>,
           NEW c \in Nat \ {0}, Fails(r, c), pc[r] # "done",
           wrote[r] = {} \/ c = 500
    PROVE  Core' /\ Frame(r) /\ Keeps({r}) /\ RequestInv(r)'
<1>1. Core' /\ Frame(r) /\ Keeps({r})
  <2>1. "done" \in Place /\ c \in Nat
    BY DEF Place
  <2>2. /\ pc' = [pc EXCEPT ![r] = "done"] /\ code' = [code EXCEPT ![r] = c]
        /\ UNCHANGED <<given, row, seen, wrote, jobs>>
    BY DEF Fails, Goto
  <2>3. QED
    BY <2>1, <2>2 DEF Core, Frame, Keeps, given
<1>2. pc'[r] = "done" /\ code'[r] = c /\ seen'[r] = {} /\ wrote'[r] = wrote[r]
  BY DEF Core, RequestInv, Answered, Fails, Goto
<1>3. get_tenant_id(r)' = get_tenant_id(r) /\ (\A j : Mine(r, j)' = Mine(r, j))
  BY DEF get_tenant_id, given, Mine
<1>4. QED
  BY <1>1, <1>2, <1>3
  DEF RequestInv, Answered, Writes, Known, HoldsMine, Resolved, Scoped, Unborn, InBody, given

\* A request that has written nothing goes on to a place that needs no row.
LEMMA GoStep ==
    ASSUME Core, NEW r \in Request, RequestInv(r), UNCHANGED <<given, row, wrote, jobs>>,
           NEW place \in {"limit", "storage", "build", "cache", "hit", "auth", "body", "insert"},
           Goes(r, place), pc[r] # "done", wrote[r] = {}, jobs[r] = None,
           place \in {"body", "insert"} => get_tenant_id(r) \in Tenant,
           place = "insert" => OrderOf(r) \in Order /\ OwnerOf[OrderOf(r)] = get_tenant_id(r)
    PROVE  Core' /\ Frame(r) /\ Keeps({r}) /\ RequestInv(r)'
<1>1. code = [code EXCEPT ![r] = code[r]] /\ code[r] \in Nat /\ UNCHANGED <<code, seen>>
  BY DEF Core, Goes, answer
<1>2. Core' /\ Frame(r) /\ Keeps({r})
  BY <1>1, QuietFrame DEF Place, InBody, Goes, Goto
<1>3. pc'[r] = place /\ code'[r] = 0 /\ seen'[r] = {} /\ wrote'[r] = {}
  BY <1>1 DEF Core, RequestInv, Answered, Goes, Goto
<1>4. /\ get_tenant_id(r)' = get_tenant_id(r) /\ (\A j : Mine(r, j)' = Mine(r, j))
      /\ OrderOf(r)' = OrderOf(r)
  BY DEF get_tenant_id, given, Mine, OrderOf
<1>5. QED
  BY <1>2, <1>3, <1>4
  DEF RequestInv, Answered, Writes, Known, HoldsMine, Resolved, Scoped, Unborn, InBody, given

\* Before its insert a request has written nothing and its job is not there.
LEMMA Early ==
    ASSUME NEW r \in Request, RequestInv(r),
           pc[r] \notin {"refresh", "enqueue", "docs", "done"}
    PROVE  wrote[r] = {} /\ jobs[r] = None /\ code[r] = 0 /\ seen[r] = {}
  BY DEF RequestInv, Writes, Unborn, Answered

LEMMA EarlyStep ==
    ASSUME Core, NEW r \in Request, RequestInv(r),
           \/ _moving_window(r) \/ _storage(r) \/ MakeStorage(r) \/ MakeWindow(r)
           \/ hit(r) \/ Authenticate(r)
    PROVE  Core' /\ Frame(r) /\ Keeps({r}) /\ RequestInv(r)'
<1>1. UNCHANGED <<given, row, wrote, jobs>>
  BY DEF _moving_window, _storage, MakeStorage, MakeWindow, hit, Authenticate, tables, local
<1>2. pc[r] \in {"limit", "storage", "build", "cache", "hit", "auth"}
  BY DEF _moving_window, _storage, MakeStorage, MakeWindow, hit, Authenticate
<1>3. wrote[r] = {} /\ jobs[r] = None /\ pc[r] # "done"
  BY <1>2, Early
<1>4. ASSUME NEW place \in {"storage", "build", "cache", "hit", "auth"}, Goes(r, place)
      PROVE  Core' /\ Frame(r) /\ Keeps({r}) /\ RequestInv(r)'
  BY <1>1, <1>3, <1>4, GoStep
<1>5. ASSUME Goes(r, "body"), get_tenant_id(r) # None
      PROVE  Core' /\ Frame(r) /\ Keeps({r}) /\ RequestInv(r)'
  <2>1. get_tenant_id(r) \in Tenant
    BY <1>5 DEF get_tenant_id, Core, Ask
  <2>2. QED
    BY <1>1, <1>3, <1>5, <2>1, GoStep
<1>6. ASSUME NEW c \in {401, 429, 500}, Fails(r, c)
      PROVE  Core' /\ Frame(r) /\ Keeps({r}) /\ RequestInv(r)'
  BY <1>1, <1>3, <1>6, FailStep
<1>7. \/ \E place \in {"storage", "build", "cache", "hit", "auth"} : Goes(r, place)
      \/ Goes(r, "body") /\ get_tenant_id(r) # None
      \/ \E c \in {401, 429, 500} : Fails(r, c)
  BY DEF _moving_window, _storage, MakeStorage, MakeWindow, hit, Authenticate
<1>8. QED
  BY <1>4, <1>5, <1>6, <1>7

\* A request takes up the row of a job of its tenant and goes on with it.
LEMMA HoldStep ==
    ASSUME Core, NEW r \in Request, RequestInv(r), UNCHANGED <<given, wrote, jobs>>,
           NEW j, Mine(r, j), Holds(r, j),
           NEW place \in {"docs", "cancel", "failed"}, Goes(r, place), pc[r] # "done",
           wrote[r] = {} \/ place = "docs", jobs[r] # None => place = "docs",
           place = "failed" => ask[r].op = "retry",
           get_tenant_id(r) \in Tenant
    PROVE  Core' /\ Frame(r) /\ Keeps({r}) /\ RequestInv(r)'
<1>1. jobs[j] \in JobRow /\ j \in Job
  BY DEF Mine, Core
<1>2. Row(j) \in RowType /\ Row(j).id = j /\ Row(j).order = jobs[j].order
  BY <1>1 DEF Row, RowType, JobRow
<1>3. row' = [row EXCEPT ![r] = Row(j)]
  BY DEF Holds
<1>4. /\ pc' = [pc EXCEPT ![r] = place] /\ place \in Place
      /\ UNCHANGED <<ask, jwt, code, seen, wrote, jobs>>
  BY DEF Goes, Goto, given, answer, Place, InBody
<1> HIDE DEF Holds, Goes
<1>5. Core'
  BY <1>2, <1>3, <1>4 DEF Core
<1>6. Frame(r) /\ Keeps({r})
  BY <1>3, <1>4 DEF Core, Frame, Keeps
<1>7. /\ pc'[r] = place /\ row'[r] = Row(j) /\ code'[r] = 0 /\ seen'[r] = {}
      /\ wrote'[r] = wrote[r]
  BY <1>3, <1>4 DEF Core, RequestInv, Answered
<1>8. get_tenant_id(r)' = get_tenant_id(r) /\ (\A i : Mine(r, i)' = Mine(r, i))
  BY <1>4 DEF get_tenant_id, Mine
<1>9. Row(j) # None
  BY <1>2, NoneIsNoRow
<1>10. QED
  BY <1>2, <1>4, <1>5, <1>6, <1>7, <1>8, <1>9
  DEF RequestInv, Answered, Writes, Known, HoldsMine, Resolved, Scoped, Unborn, InBody

\* The bodies that read one job of the tenant: get, cancel and retry.
LEMMA ReadStep ==
    ASSUME Core, NEW r \in Request, RequestInv(r),
           get_job(r) \/ CancelRead(r) \/ retry_job(r)
    PROVE  Core' /\ Frame(r) /\ Keeps({r}) /\ RequestInv(r)'
<1> USE DEF get_job, CancelRead, retry_job, Enters
<1>1. UNCHANGED <<given, wrote, jobs>> /\ pc[r] = "body"
  BY DEF Sessions, tables
<1>2. wrote[r] = {} /\ jobs[r] = None /\ get_tenant_id(r) \in Tenant
  BY <1>1, Early DEF RequestInv, Known
<1>3. \A j \in Get(r) : Mine(r, j)
  BY DEF Get, Mine, Core, Ask, Job
<1>4. \/ \E c \in {404, 409} : Fails(r, c) /\ UNCHANGED row
      \/ \E j \in Get(r), place \in {"docs", "cancel", "failed"} :
            Holds(r, j) /\ Goes(r, place) /\ (place = "failed" => ask[r].op = "retry")
  BY DEF Missing
<1>5. CASE \E c \in {404, 409} : Fails(r, c) /\ UNCHANGED row
  BY <1>1, <1>2, <1>5, FailStep
<1>6. CASE \E j \in Get(r), place \in {"docs", "cancel", "failed"} :
            Holds(r, j) /\ Goes(r, place) /\ (place = "failed" => ask[r].op = "retry")
  BY <1>1, <1>2, <1>3, <1>6, HoldStep
<1>7. QED
  BY <1>4, <1>5, <1>6

LEMMA CancelStep ==
    ASSUME Core, NEW r \in Request, RequestInv(r), cancel_job(r)
    PROVE  Core' /\ Frame(r) /\ Keeps({r}) /\ RequestInv(r)'
<1> DEFINE j == row[r].id
<1>1. Mine(r, j) /\ row[r] # None /\ wrote[r] = {} /\ code[r] = 0 /\ seen[r] = {}
  BY Early DEF RequestInv, HoldsMine, cancel_job
<1>2. jobs' \in [Job -> JobRow \cup {None}] /\ Keeps({})
  BY CancelKeeps
<1>3. /\ pc' = [pc EXCEPT ![r] = "refresh"] /\ wrote' = [wrote EXCEPT ![r] = wrote[r] \cup {j}]
      /\ UNCHANGED <<ask, jwt, row, code, seen>>
  BY DEF cancel_job, Goes, Goto, Sessions, given, answer, local
<1> HIDE DEF j
<1>4. Core'
  BY <1>1, <1>2, <1>3 DEF Core, Place, InBody, Mine
<1>5. Frame(r) /\ Keeps({r})
  BY <1>2, <1>3 DEF Core, Frame, Keeps
<1>6. pc'[r] = "refresh" /\ wrote'[r] = {j}
  BY <1>1, <1>3 DEF Core
<1>7. get_tenant_id(r)' = get_tenant_id(r)
  BY <1>3 DEF get_tenant_id
<1>8. \A i : Mine(r, i) => Mine(r, i)' /\ jobs'[i].order = jobs[i].order
  BY <1>2, <1>7 DEF Mine, Keeps
<1>9. Answered(r)' /\ Writes(r)' /\ Resolved(r)'
  BY <1>1, <1>3, <1>6 DEF Answered, Writes, Resolved
<1>10. Known(r)'
  BY <1>7 DEF RequestInv, Known, InBody, cancel_job
<1>11. HoldsMine(r)'
  BY <1>1, <1>3, <1>6, <1>8 DEF RequestInv, HoldsMine
<1>12. Scoped(r)'
  BY <1>1, <1>3, <1>6, <1>8 DEF Scoped
<1>13. Unborn(r)'
  <2>1. jobs[r] = None
    BY Early DEF cancel_job
  <2>2. QED
    BY <1>2, <2>1 DEF Unborn, Keeps, Job
<1>14. QED
  BY <1>4, <1>5, <1>9, <1>10, <1>11, <1>12, <1>13 DEF RequestInv

LEMMA RefreshStep ==
    ASSUME Core, NEW r \in Request, RequestInv(r), refresh(r)
    PROVE  Core' /\ Frame(r) /\ Keeps({r}) /\ RequestInv(r)'
<1>1. Mine(r, row[r].id) /\ get_tenant_id(r) \in Tenant
  BY DEF RequestInv, HoldsMine, Known, InBody, refresh
<1>2. /\ Holds(r, row[r].id) /\ Goes(r, "docs") /\ pc[r] # "done"
      /\ UNCHANGED <<given, wrote, jobs>>
  BY DEF refresh, Sessions, tables
<1>3. QED
  BY <1>1, <1>2, HoldStep

LEMMA FailedStep ==
    ASSUME Core, NEW r \in Request, RequestInv(r), list_failed(r)
    PROVE  Core' /\ Frame(r) /\ Keeps({r}) /\ RequestInv(r)'
<1>1. UNCHANGED <<given, row, wrote, jobs>> /\ pc[r] = "failed"
  BY DEF list_failed, Sessions, tables
<1>2. wrote[r] = {} /\ jobs[r] = None /\ code[r] = 0 /\ seen[r] = {}
  BY <1>1, Early
<1>3. Goes(r, "create") \/ Fails(r, 409)
  BY DEF list_failed
<1>4. CASE Fails(r, 409)
  BY <1>1, <1>2, <1>4, FailStep
<1>5. CASE Goes(r, "create")
  <2>1. pc' = [pc EXCEPT ![r] = "create"] /\ UNCHANGED <<code, seen>>
    BY <1>5 DEF Goes, Goto, answer
  <2>2. code = [code EXCEPT ![r] = code[r]] /\ code[r] \in Nat /\ "create" \in Place
    BY DEF Core, Place, InBody
  <2>3. Core' /\ Frame(r) /\ Keeps({r})
    BY <1>1, <2>1, <2>2, QuietFrame
  <2>4. pc'[r] = "create"
    BY <2>1 DEF Core
  <2>5. get_tenant_id(r)' = get_tenant_id(r) /\ (\A j : Mine(r, j)' = Mine(r, j))
    BY <1>1 DEF get_tenant_id, given, Mine
  <2>6. QED
    BY <1>1, <1>2, <2>1, <2>3, <2>4, <2>5
    DEF RequestInv, Answered, Writes, Known, HoldsMine, Resolved, Scoped, Unborn, InBody, given
<1>6. QED
  BY <1>3, <1>4, <1>5

LEMMA CreateStep ==
    ASSUME Core, NEW r \in Request, RequestInv(r), create_job(r)
    PROVE  Core' /\ Frame(r) /\ Keeps({r}) /\ RequestInv(r)'
<1>1. UNCHANGED <<given, wrote, jobs>> /\ pc[r] \in {"create", "body"}
  BY DEF create_job, Enters, Sessions, tables
<1>2. wrote[r] = {} /\ jobs[r] = None /\ get_tenant_id(r) \in Tenant
  BY <1>1, Early DEF RequestInv, Known, InBody
<1>3. CASE Refusal(r) # 0 /\ Fails(r, Refusal(r)) /\ UNCHANGED local
  <2>1. Refusal(r) \in Nat \ {0}
    BY <1>3 DEF Refusal
  <2>2. QED
    BY <1>1, <1>2, <1>3, <2>1, FailStep DEF local
<1>4. CASE (\E j \in Existing(r) : Holds(r, j)) /\ Goes(r, "docs")
  <2>1. PICK j \in Existing(r) : Holds(r, j)
    BY <1>4
  <2>2. Mine(r, j)
    BY DEF Existing, Mine
  <2>3. QED
    BY <1>1, <1>2, <1>4, <2>1, <2>2, HoldStep
<1>5. CASE Refusal(r) = 0 /\ Goes(r, "insert") /\ UNCHANGED row
  <2>1. OwnerOf[OrderOf(r)] = get_tenant_id(r)
    BY <1>5 DEF Refusal
  <2>2. OrderOf(r) \in Order
    <3>1. CASE ask[r].op = "retry"
      <4>1. row[r] # None
        BY <1>1, <3>1 DEF RequestInv, HoldsMine, create_job, Enters
      <4>2. row[r].order \in Order
        BY <4>1 DEF Core, RowType
      <4>3. QED
        BY <3>1, <4>2 DEF OrderOf
    <3>2. CASE ask[r].op # "retry"
      BY <3>2 DEF OrderOf, Core, Ask
    <3>3. QED
      BY <3>1, <3>2
  <2>3. QED
    BY <1>1, <1>2, <1>5, <2>1, <2>2, GoStep
<1>6. QED
  BY <1>3, <1>4, <1>5 DEF create_job

LEMMA InsertStep ==
    ASSUME Core, NEW r \in Request, RequestInv(r), insert(r)
    PROVE  Core' /\ Frame(r) /\ Keeps({r}) /\ RequestInv(r)'
<1>1. /\ wrote[r] = {} /\ jobs[r] = None /\ code[r] = 0 /\ seen[r] = {}
      /\ get_tenant_id(r) \in Tenant /\ pc[r] = "insert"
  BY Early DEF insert, RequestInv, Known, InBody
<1>2. CASE (\E j \in Existing(r) : Holds(r, j)) /\ Goes(r, "docs") /\ UNCHANGED tables
  <2>1. PICK j \in Existing(r) : Holds(r, j)
    BY <1>2
  <2>2. Mine(r, j)
    BY DEF Existing, Mine
  <2>3. UNCHANGED <<given, wrote, jobs>> /\ Goes(r, "docs")
    BY <1>2 DEF insert, Sessions, tables
  <2>4. QED
    BY <1>1, <2>1, <2>2, <2>3, HoldStep
<1>3. CASE /\ jobs' = [jobs EXCEPT ![r] = NewJob(r)] /\ wrote' = [wrote EXCEPT ![r] = {r}]
           /\ Goes(r, "enqueue") /\ UNCHANGED row
  <2>1. /\ pc' = [pc EXCEPT ![r] = "enqueue"] /\ UNCHANGED <<ask, jwt, code, seen, row>>
    BY <1>3 DEF insert, Goes, Goto, answer, Sessions, given
  <2>2. NewJob(r) \in JobRow /\ NewJob(r).tenant = get_tenant_id(r)
    BY <1>1, NewJobFits
  <2>3. r \in Job /\ "enqueue" \in Place
    BY DEF Job, Place, InBody
  <2>4. Core'
    BY <1>3, <2>1, <2>2, <2>3 DEF Core
  <2>5. Frame(r)
    BY <1>3, <2>1 DEF Core, Frame
  <2>6. Keeps({r})
    BY <1>1, <1>3, <2>2, NoneIsNoRow DEF Core, Keeps
  <2>7. /\ pc'[r] = "enqueue" /\ wrote'[r] = {r} /\ jobs'[r] = NewJob(r)
        /\ get_tenant_id(r)' = get_tenant_id(r)
    BY <1>3, <2>1, <2>3 DEF Core, get_tenant_id
  <2>8. \A i : Mine(r, i) => Mine(r, i)' /\ jobs'[i].order = jobs[i].order
    BY <2>6, <2>7 DEF Mine, Keeps
  <2>9. Mine(r, r)'
    BY <2>2, <2>3, <2>7, NoneIsNoRow DEF Mine
  <2>10. Answered(r)' /\ Writes(r)' /\ Known(r)' /\ Resolved(r)' /\ Unborn(r)'
    BY <1>1, <2>1, <2>7 DEF Answered, Writes, Known, Resolved, Unborn
  <2>11. HoldsMine(r)'
    BY <1>1, <2>1, <2>7, <2>8, <2>9 DEF RequestInv, HoldsMine
  <2>12. Scoped(r)'
    BY <1>1, <2>1, <2>7, <2>9 DEF Scoped
  <2>13. QED
    BY <2>4, <2>5, <2>6, <2>10, <2>11, <2>12 DEF RequestInv
<1>4. QED
  BY <1>2, <1>3 DEF insert

LEMMA EnqueueStep ==
    ASSUME Core, NEW r \in Request, RequestInv(r), enqueue(r)
    PROVE  Core' /\ Frame(r) /\ Keeps({r}) /\ RequestInv(r)'
<1>1. Mine(r, r) /\ get_tenant_id(r) \in Tenant /\ pc[r] # "done"
  BY DEF RequestInv, HoldsMine, Known, InBody, enqueue
<1>2. UNCHANGED <<given, wrote, jobs>>
  BY DEF enqueue, Sessions, tables
<1>3. CASE Holds(r, r) /\ Goes(r, "docs")
  BY <1>1, <1>2, <1>3, HoldStep
<1>4. CASE Fails(r, 500) /\ UNCHANGED row
  BY <1>1, <1>2, <1>4, FailStep
<1>5. QED
  BY <1>3, <1>4 DEF enqueue

\* A 200 shows jobs of the tenant.
LEMMA AnswerStep ==
    ASSUME Core, NEW r \in Request, RequestInv(r),
           to_job_schema(r) \/ list_order_jobs(r)
    PROVE  Core' /\ Frame(r) /\ Keeps({r}) /\ RequestInv(r)'
<1>1. PICK S \in SUBSET Job : seen' = [seen EXCEPT ![r] = S] /\ \A j \in S : Mine(r, j)
  <2>1. CASE to_job_schema(r)
    <3>1. Mine(r, row[r].id)
      BY <2>1 DEF to_job_schema, RequestInv, HoldsMine
    <3>2. {row[r].id} \in SUBSET Job
      BY <3>1 DEF Mine
    <3>3. seen' = [seen EXCEPT ![r] = {row[r].id}]
      BY <2>1 DEF to_job_schema
    <3>4. QED
      BY <3>1, <3>2, <3>3
  <2>2. CASE list_order_jobs(r)
    <3> DEFINE S == {j \in Job : /\ jobs[j] # None /\ jobs[j].order = ask[r].order
                                 /\ jobs[j].tenant = get_tenant_id(r)}
    <3>1. seen' = [seen EXCEPT ![r] = S]
      BY <2>2 DEF list_order_jobs
    <3>2. S \in SUBSET Job /\ \A j \in S : Mine(r, j)
      BY DEF Mine
    <3> HIDE DEF S
    <3>3. QED
      BY <3>1, <3>2
  <2>3. QED
    BY <2>1, <2>2
<1>2. /\ pc' = [pc EXCEPT ![r] = "done"] /\ code' = [code EXCEPT ![r] = 200]
      /\ UNCHANGED <<ask, jwt, row, wrote, jobs>>
  BY DEF to_job_schema, list_order_jobs, Goto, Sessions, given, local, tables
<1>3. Core'
  BY <1>1, <1>2 DEF Core, Place
<1>4. Frame(r) /\ Keeps({r})
  BY <1>1, <1>2 DEF Core, Frame, Keeps
<1>5. pc'[r] = "done" /\ code'[r] = 200 /\ seen'[r] = S
  BY <1>1, <1>2 DEF Core
<1>6. get_tenant_id(r)' = get_tenant_id(r) /\ (\A j : Mine(r, j)' = Mine(r, j))
  BY <1>2 DEF get_tenant_id, Mine
<1>7. QED
  BY <1>1, <1>2, <1>3, <1>4, <1>5, <1>6
  DEF RequestInv, Answered, Writes, Known, HoldsMine, Resolved, Scoped, Unborn, InBody

\* A failed query ends the request where it is.
LEMMA ErrorStep ==
    ASSUME Core, NEW r \in Request, RequestInv(r), database_error(r)
    PROVE  Core' /\ Frame(r) /\ Keeps({r}) /\ RequestInv(r)'
<1>1. UNCHANGED <<given, row, wrote, jobs>> /\ pc[r] # "done" /\ Fails(r, 500)
  BY DEF database_error, Enters, InBody, Sessions, local, tables
<1>2. 500 \in Nat \ {0}
  OBVIOUS
<1>3. QED
  BY <1>1, <1>2, FailStep

\* Every step of a request keeps its own part.
LEMMA ServeStep ==
    ASSUME Core, NEW r \in Request, RequestInv(r), Serve(r)
    PROVE  Core' /\ Frame(r) /\ Keeps({r}) /\ RequestInv(r)'
  BY EarlyStep, ReadStep, CancelStep, RefreshStep, FailedStep, CreateStep, InsertStep,
     EnqueueStep, AnswerStep, ErrorStep DEF Serve

\* Requests leave the runs alone.
LEMMA ServeLeavesRuns ==
    ASSUME NEW r \in Request, Serve(r)
    PROVE  UNCHANGED runs
  BY DEF Serve, _moving_window, _storage, MakeStorage, MakeWindow, hit, Authenticate,
         get_job, CancelRead, cancel_job, refresh, retry_job, list_failed, create_job,
         insert, enqueue, to_job_schema, list_order_jobs, database_error, tables

-----------------------------------------------------------------------------
(* The invariant *)

LEMMA InitIInv == Init => IInv
<1> SUFFICES ASSUME Init PROVE IInv
  OBVIOUS
<1>1. PICK l \in Load : /\ ask = l.ask /\ jwt = l.jwt /\ backend = l.backend
                        /\ jobs = [j \in Job |-> IF j = Seed THEN l.seed ELSE None]
  BY DEF Init
<1>2. /\ l.ask \in [Request -> Ask] /\ l.seed \in JobRow \cup {None}
      /\ l.seed # None => OwnerOf[l.seed.order] = l.seed.tenant
  BY ApiAssumption DEF SeedRow
<1>3. Core
  BY <1>1, <1>2 DEF Init, Core, Place
<1>4. Owned
  BY <1>1, <1>2 DEF Owned
<1>5. ASSUME NEW r \in Request PROVE RequestInv(r)
  <2>1. jobs[r] = None
    BY <1>1, ApiAssumption DEF Job
  <2>2. /\ pc[r] \in {"limit", "auth"} /\ code[r] = 0 /\ seen[r] = {}
        /\ wrote[r] = {} /\ row[r] = None
    BY DEF Init
  <2>3. QED
    BY <2>1, <2>2
    DEF RequestInv, Answered, Writes, Known, HoldsMine, Resolved, Scoped, Unborn, InBody
<1>6. Running
  BY DEF Init, Running, Active
<1>7. QED
  BY <1>3, <1>4, <1>5, <1>6 DEF IInv

\* A worker leaves the requests alone.
LEMMA WorkerOnly ==
    ASSUME NEW d \in Delivery, Work(d)
    PROVE  UNCHANGED <<given, redisUp, now, caches, pc, hits, row, types, code, seen, view, wrote>>
  BY DEF Work, deliver, drain, start, begin, fetch, finish, skip_rest, crash, reap, Ends,
         Worker, local, answer

LEMMA WorkRuns ==
    ASSUME Core, Running, NEW d \in Delivery, Work(d), Keeps({})
    PROVE  Running'
<1>1. \A e \in Delivery : JobOf[e] \in Job /\ (jobs[JobOf[e]] # None => jobs'[JobOf[e]] # None)
  BY ApiAssumption DEF Keeps
<1>2. ASSUME NEW place \in {"read", "going"}, NEW s \in Session, Becomes(d, place, s),
             jobs[JobOf[d]] # None, again' \subseteq Job
      PROVE  Running'
  BY <1>1, <1>2 DEF Running, Becomes
<1>3. ASSUME NEW place \in {"waiting", "over"}, Becomes(d, place, None), again' \subseteq Job
      PROVE  Running'
  BY <1>1, <1>3 DEF Running, Becomes, Active
<1>4. CASE deliver(d)
  <2> DEFINE s == [status |-> jobs[JobOf[d]].status, docs |-> jobs[JobOf[d]].docs,
                   doc |-> None, left |-> {t \in Type : jobs[JobOf[d]].docs[t] # "none"}]
  <2>1. jobs[JobOf[d]] \in JobRow /\ Becomes(d, "read", s)
    BY <1>1, <1>4 DEF deliver, Core
  <2>2. s \in Session
    BY <2>1 DEF Session, JobRow
  <2>3. again' \subseteq Job
    BY <1>1, <1>4 DEF deliver, Counts, Running
  <2> HIDE DEF s
  <2>4. QED
    BY <1>2, <1>4, <2>1, <2>2, <2>3 DEF deliver
<1>5. CASE drain(d)
  BY <1>1, <1>3, <1>5 DEF drain, Counts, Running
<1>6. CASE start(d) \/ begin(d) \/ fetch(d) \/ finish(d) \/ skip_rest(d)
  BY <1>2, <1>3, <1>6, SessionCommits DEF Running
<1>7. CASE crash(d)
  BY <1>3, <1>7 DEF crash, Running
<1>8. CASE reap(JobOf[d])
  BY <1>1, <1>8 DEF reap, runs, Running
<1>9. QED
  BY <1>4, <1>5, <1>6, <1>7, <1>8 DEF Work

LEMMA StepIInv == IInv /\ [Next]_vars => IInv'
<1> SUFFICES ASSUME IInv, [Next]_vars PROVE IInv'
  OBVIOUS
<1>1. ASSUME NEW r \in Request, Serve(r) PROVE IInv'
  <2>1. Core' /\ Frame(r) /\ Keeps({r}) /\ RequestInv(r)'
    BY <1>1, ServeStep DEF IInv
  <2>2. ASSUME NEW q \in Request PROVE RequestInv(q)'
    BY <2>1, OthersKept DEF IInv
  <2>3. ASSUME jobs[r] = None, jobs'[r] # None
        PROVE  OwnerOf[jobs'[r].order] = jobs'[r].tenant
    <3>1. insert(r) /\ jobs' = [jobs EXCEPT ![r] = NewJob(r)]
      <4>1. CASE cancel_job(r)
        BY <2>3, <4>1, CancelKeeps DEF IInv, Keeps, Job
      <4>2. QED
        BY <1>1, <2>3, <4>1
        DEF Serve, _moving_window, _storage, MakeStorage, MakeWindow, hit, Authenticate,
            get_job, CancelRead, refresh, retry_job, list_failed, create_job, insert,
            enqueue, to_job_schema, list_order_jobs, database_error, tables
    <3>2. pc[r] = "insert"
      BY <3>1 DEF insert
    <3>3. jobs'[r] = NewJob(r)
      BY <3>1 DEF IInv, Core, Job
    <3>4. QED
      BY <3>2, <3>3, NewJobFits DEF IInv
  <2>4. Owned'
    BY <2>1, <2>3, OwnedKept DEF IInv
  <2>5. Running'
    <3>1. UNCHANGED <<run, session, again>>
      BY <1>1, ServeLeavesRuns DEF runs
    <3>2. \A d \in Delivery : JobOf[d] \in Job
      BY ApiAssumption
    <3>3. QED
      BY <2>1, <3>1, <3>2 DEF IInv, Running, Keeps
  <2>6. QED
    BY <2>1, <2>2, <2>4, <2>5 DEF IInv
<1>2. ASSUME NEW d \in Delivery, Work(d) PROVE IInv'
  <2>1. jobs' \in [Job -> JobRow \cup {None}] /\ Keeps({})
    BY <1>2, WorkKeeps DEF IInv
  <2>2. UNCHANGED <<ask, jwt, pc, row, code, seen, wrote>>
    BY <1>2, WorkerOnly DEF given
  <2>3. Core' /\ Frame(Seed) /\ Keeps({Seed})
    BY <2>1, <2>2 DEF IInv, Core, Frame, Keeps
  <2>4. ASSUME NEW q \in Request PROVE RequestInv(q)'
    BY <2>3, OthersKept, ApiAssumption DEF IInv
  <2>5. Owned'
    BY <2>1, OwnedKept DEF IInv
  <2>6. Running'
    BY <1>2, <2>1, WorkRuns DEF IInv
  <2>7. QED
    BY <2>3, <2>4, <2>5, <2>6 DEF IInv
<1>3. ASSUME RedisStops \/ Tick \/ UNCHANGED vars PROVE IInv'
  <2>1. UNCHANGED <<ask, jwt, pc, row, code, seen, wrote, jobs, run, session, again>>
    BY <1>3 DEF RedisStops, Tick, vars, given, local, answer, tables, runs
  <2>2. Core' /\ Owned' /\ Running' /\ Frame(Seed) /\ Keeps({Seed})
    BY <2>1 DEF IInv, Core, Owned, Running, Frame, Keeps
  <2>3. ASSUME NEW q \in Request PROVE RequestInv(q)'
    BY <2>2, OthersKept, ApiAssumption DEF IInv
  <2>4. QED
    BY <2>2, <2>3 DEF IInv
<1>4. QED
  BY <1>1, <1>2, <1>3 DEF Next

\* Whatever the interleaving of requests, processes and workers, a request is
\* shown and writes only jobs of the tenant it authenticated as, on orders of
\* that tenant.
THEOREM RequestsAreScoped == Spec => []TenantIsolation
<1>1. IInv => TenantIsolation
  <2> SUFFICES ASSUME IInv, NEW r \in Request, NEW j \in seen[r] \cup wrote[r]
               PROVE  /\ jobs[j] # None
                      /\ jobs[j].tenant = Principal(r)
                      /\ OwnerOf[jobs[j].order] = Principal(r)
    BY DEF TenantIsolation
  <2>1. Mine(r, j)
    BY DEF IInv, RequestInv, Scoped
  <2>2. jobs[j].tenant \in Tenant
    BY <2>1 DEF Mine, IInv, Core, JobRow
  <2>3. get_tenant_id(r) = Principal(r)
    BY <2>1, <2>2, ApiAssumption DEF Mine, get_tenant_id, Principal
  <2>4. QED
    BY <2>1, <2>3 DEF Mine, IInv, Owned
<1>2. QED
  BY <1>1, InitIInv, StepIInv, PTL DEF Spec

\* Whatever the interleaving, a request answered with a 4xx has written nothing
\* and shows nothing.
THEOREM RefusalsAreClean == Spec => []RefusedChangesNothing
<1>1. IInv => RefusedChangesNothing
  <2> SUFFICES ASSUME IInv, NEW r \in Request, code[r] \in 400..499
               PROVE  wrote[r] = {} /\ seen[r] = {}
    BY DEF RefusedChangesNothing
  <2>1. code[r] \notin {0, 200, 500}
    OBVIOUS
  <2>2. QED
    BY <2>1 DEF IInv, RequestInv, Answered, Writes
<1>2. QED
  BY <1>1, InitIInv, StepIInv, PTL DEF Spec

-----------------------------------------------------------------------------
(* What an answer shows of the documents *)

GoodEnd == {"completed", "partial"}

Shown == [status : JobStatus, docs : [Type -> DocStatus]]

NoQueue(docs) == \A t \in Type : docs[t] # "queued"

Still(docs) == \A t \in Type : docs[t] \notin {"queued", "fetching"}

Idle == {"waiting", "lost"}

\* No run of the job is going on, and one that comes will not be the first.
Calm(j) ==
    /\ Still(jobs[j].docs)
    /\ \A d \in Delivery : JobOf[d] = j =>
         /\ run[d] \notin Active
         /\ run[d] = "waiting" => \E e \in Delivery : JobOf[e] = j /\ run[e] = "over"

\* What a session knows of its documents: none is queued that it takes for done,
\* and what it has passed is neither queued nor being fetched.
Passed(s) ==
    \A t \in Type : /\ s.docs[t] = "queued" => t \in s.left
                    /\ t \notin s.left /\ t # s.doc => s.docs[t] # "fetching"

Knows(d) ==
    run[d] \in Active =>
        /\ Passed(session[d])
        /\ \A t \in Type : jobs[JobOf[d]].docs[t] = "queued" => session[d].docs[t] = "queued"

\* The first run of a job is alone, and its session holds what is stored.
Lone(j) ==
    j \notin again => \A d \in Delivery : JobOf[d] = j /\ run[d] \in Active =>
        /\ session[d].docs = jobs[j].docs
        /\ \A e \in Delivery : JobOf[e] = j /\ e # d => run[e] \in Idle

EndedRow(j) ==
    jobs[j] # None /\ jobs[j].status \in GoodEnd =>
        NoQueue(jobs[j].docs) /\ (j \in again \/ Calm(j))

JobInv(j) ==
    EndedRow(j) /\ Lone(j) /\ \A d \in Delivery : JobOf[d] = j => Knows(d)

\* A row that says so was read after its documents had settled.
HeldRow(r) ==
    row[r] # None /\ row[r].status \in GoodEnd =>
        /\ NoQueue(jobs[row[r].id].docs)
        /\ row[r].id \in again \/ Calm(row[r].id)

ShownRow(r) ==
    /\ view[r] # None => pc[r] = "done"
    /\ view[r] # None /\ view[r].status \in GoodEnd =>
         NoQueue(view[r].docs) /\ (seen[r] \subseteq again \/ Still(view[r].docs))

AnswerInv ==
    /\ view \in [Request -> Shown \cup {None}]
    /\ \A j \in Job : JobInv(j)
    /\ \A r \in Request : HeldRow(r) /\ ShownRow(r)

\* What a step does to a job: no document is queued again, a calm job stays so
\* or is delivered once more, and its part of the invariant is kept.
Steady(j) ==
    /\ jobs[j] # None => \A t \in Type : jobs'[j].docs[t] = "queued" => jobs[j].docs[t] = "queued"
    /\ jobs[j] # None /\ Calm(j) => j \in again' \/ Calm(j)'
    /\ j \in again => j \in again'
    /\ JobInv(j)'

\* A job that a step leaves alone, but for a status that promises nothing.
LEMMA Untouched ==
    ASSUME NEW j \in Job, JobInv(j), (jobs[j] = None) = (jobs'[j] = None),
           jobs[j] # None => jobs'[j].docs = jobs[j].docs,
           jobs[j] # None => jobs'[j].status \in {jobs[j].status} \cup (JobStatus \ GoodEnd),
           \A d \in Delivery : JobOf[d] = j =>
              /\ run'[d] = run[d] /\ session'[d] = session[d]
              /\ run[d] \in Active => jobs[j] # None,
           (j \in again) = (j \in again')
    PROVE  Steady(j)
<1>1. jobs[j] # None => Calm(j)' = Calm(j)
  BY DEF Calm
<1>2. EndedRow(j)'
  BY <1>1 DEF JobInv, EndedRow
<1>3. Lone(j)'
  BY DEF JobInv, Lone
<1>4. \A d \in Delivery : JobOf[d] = j => Knows(d)'
  BY DEF JobInv, Knows
<1>5. QED
  BY <1>1, <1>2, <1>3, <1>4 DEF Steady, JobInv

\* A step of one delivery leaves the other jobs alone.
LEMMA OtherJobs ==
    ASSUME IInv, AnswerInv, NEW d \in Delivery, NEW w,
           jobs' = [jobs EXCEPT ![JobOf[d]] = w],
           NEW place, NEW s, Becomes(d, place, s),
           again' = again \/ again' = again \cup {JobOf[d]},
           NEW i \in Job, i # JobOf[d]
    PROVE  Steady(i)
<1>1. jobs'[i] = jobs[i] /\ (i \in again) = (i \in again')
  BY DEF IInv, Core
<1>2. \A e \in Delivery : JobOf[e] = i =>
         /\ run'[e] = run[e] /\ session'[e] = session[e]
         /\ run[e] \in Active => jobs[i] # None
  BY DEF IInv, Running, Becomes
<1>3. JobInv(i)
  BY DEF AnswerInv
<1>4. QED
  BY <1>1, <1>2, <1>3, Untouched

\* What the store holds after a commit, document by document.
LEMMA Stored ==
    ASSUME IInv, AnswerInv, NEW d \in Delivery, run[d] \in Active,
           NEW before \in Session, NEW after \in Session, before.docs = session[d].docs,
           Commits(JobOf[d], before, after),
           \A t \in Type : after.docs[t] = "queued" => before.docs[t] = "queued"
    PROVE  LET j == JobOf[d]
           IN  /\ jobs' = [jobs EXCEPT ![j] = Merged(j, before, after)]
               /\ jobs'[j] \in JobRow /\ jobs[j] \in JobRow /\ jobs[j] # None /\ j \in Job
               /\ \/ jobs'[j].status = jobs[j].status
                  \/ jobs'[j].status = after.status /\ after.status # before.status
               /\ \A t \in Type : jobs'[j].docs[t] = "queued" =>
                     jobs[j].docs[t] = "queued" /\ after.docs[t] = "queued"
               /\ j \notin again => jobs'[j].docs = after.docs
<1> DEFINE j == JobOf[d]
<1>1. j \in Job /\ jobs[j] \in JobRow /\ jobs[j] # None
  BY ApiAssumption DEF IInv, Core, Running
<1>2. /\ jobs' = [jobs EXCEPT ![j] = Merged(j, before, after)]
      /\ Merged(j, before, after) \in JobRow
      /\ Merged(j, before, after).status = Written(before.status, after.status, jobs[j].status)
      /\ Merged(j, before, after).docs =
            [t \in Type |-> Written(before.docs[t], after.docs[t], jobs[j].docs[t])]
  BY <1>1, CommitRow, MergedRow, MergedColumns
<1>3. jobs'[j] = Merged(j, before, after)
  BY <1>1, <1>2 DEF IInv, Core
<1>4. \/ jobs'[j].status = jobs[j].status
      \/ jobs'[j].status = after.status /\ after.status # before.status
  BY <1>2, <1>3 DEF Written
<1>5. \A t \in Type : jobs[j].docs[t] = "queued" => before.docs[t] = "queued"
  BY <1>1 DEF AnswerInv, JobInv, Knows
<1>6. \A t \in Type : jobs'[j].docs[t] = Written(before.docs[t], after.docs[t], jobs[j].docs[t])
  BY <1>2, <1>3
<1>7. \A t \in Type : jobs'[j].docs[t] = "queued" =>
         jobs[j].docs[t] = "queued" /\ after.docs[t] = "queued"
  <2> SUFFICES ASSUME NEW t \in Type, jobs'[j].docs[t] = "queued"
               PROVE  jobs[j].docs[t] = "queued" /\ after.docs[t] = "queued"
    OBVIOUS
  <2>1. CASE before.docs[t] = after.docs[t]
    BY <1>5, <1>6, <2>1 DEF Written
  <2>2. CASE before.docs[t] # after.docs[t]
    BY <1>6, <2>2 DEF Written
  <2>3. QED
    BY <2>1, <2>2
<1>8. ASSUME j \notin again PROVE jobs'[j].docs = after.docs
  <2>1. before.docs = jobs[j].docs
    BY <1>1, <1>8 DEF AnswerInv, JobInv, Lone
  <2>2. \A t \in Type : Written(before.docs[t], after.docs[t], jobs[j].docs[t]) = after.docs[t]
    BY <2>1 DEF Written
  <2>3. after.docs \in [Type -> DocStatus]
    BY DEF Session
  <2>4. QED
    BY <1>2, <1>3, <2>2, <2>3
<1>9. QED
  BY <1>1, <1>2, <1>3, <1>4, <1>7, <1>8

\* A job with a run going on is not calm.
LEMMA NotCalm ==
    ASSUME NEW d \in Delivery, run[d] \in Active
    PROVE  ~Calm(JobOf[d])
  BY DEF Calm

\* A run that goes on after its commit.
LEMMA GoesOn ==
    ASSUME IInv, AnswerInv, NEW d \in Delivery, run[d] \in Active,
           NEW before \in Session, NEW after \in Session, before.docs = session[d].docs,
           Commits(JobOf[d], before, after), Becomes(d, "going", after), UNCHANGED again,
           \A t \in Type : after.docs[t] = "queued" => before.docs[t] = "queued",
           Passed(after), after.status = before.status \/ after.status \notin GoodEnd
    PROVE  \A i \in Job : Steady(i)
<1> DEFINE j == JobOf[d]
<1>1. /\ jobs' = [jobs EXCEPT ![j] = Merged(j, before, after)]
      /\ jobs'[j] \in JobRow /\ jobs[j] \in JobRow /\ jobs[j] # None /\ j \in Job
      /\ \/ jobs'[j].status = jobs[j].status
         \/ jobs'[j].status = after.status /\ after.status # before.status
      /\ \A t \in Type : jobs'[j].docs[t] = "queued" =>
            jobs[j].docs[t] = "queued" /\ after.docs[t] = "queued"
      /\ j \notin again => jobs'[j].docs = after.docs
  BY Stored
<1>2. \A i \in Job : i # j => Steady(i)
  BY <1>1, OtherJobs
<1>3. /\ run'[d] = "going" /\ session'[d] = after
      /\ \A e \in Delivery : e # d => run'[e] = run[e] /\ session'[e] = session[e]
  BY DEF Becomes, IInv, Running
<1>4. ~Calm(j) /\ JobInv(j)
  BY <1>1, NotCalm DEF AnswerInv
<1>5. EndedRow(j)'
  <2> SUFFICES ASSUME jobs'[j].status \in GoodEnd
               PROVE  NoQueue(jobs'[j].docs) /\ j \in again
    BY DEF EndedRow
  <2>1. jobs[j].status \in GoodEnd
    BY <1>1
  <2>2. QED
    BY <1>1, <1>4, <2>1 DEF JobInv, EndedRow, NoQueue
<1>6. Lone(j)'
  <2> SUFFICES ASSUME j \notin again
               PROVE  \A e \in Delivery : JobOf[e] = j /\ run'[e] \in Active =>
                         /\ session'[e].docs = jobs'[j].docs
                         /\ \A f \in Delivery : JobOf[f] = j /\ f # e => run'[f] \in Idle
    BY DEF Lone
  <2>1. \A e \in Delivery : JobOf[e] = j /\ e # d => run[e] \in Idle
    BY <1>4 DEF JobInv, Lone
  <2>2. QED
    BY <1>1, <1>3, <2>1 DEF Idle, Active
<1>7. ASSUME NEW e \in Delivery, JobOf[e] = j PROVE Knows(e)'
  <2>1. CASE e = d
    BY <1>1, <1>3, <2>1 DEF Knows
  <2>2. CASE e # d
    BY <1>1, <1>3, <1>4, <1>7, <2>2 DEF Knows, JobInv
  <2>3. QED
    BY <2>1, <2>2
<1>8. Steady(j)
  BY <1>1, <1>4, <1>5, <1>6, <1>7 DEF Steady, JobInv
<1>9. QED
  BY <1>2, <1>8

\* A run that ends with its commit.
LEMMA RunEnds ==
    ASSUME IInv, AnswerInv, NEW d \in Delivery, run[d] \in Active,
           NEW before \in Session, NEW after \in Session, before.docs = session[d].docs,
           Commits(JobOf[d], before, after), Becomes(d, "over", None), UNCHANGED again,
           Still(after.docs)
    PROVE  \A i \in Job : Steady(i)
<1> DEFINE j == JobOf[d]
<1>1. /\ jobs' = [jobs EXCEPT ![j] = Merged(j, before, after)]
      /\ jobs'[j] \in JobRow /\ jobs[j] \in JobRow /\ jobs[j] # None /\ j \in Job
      /\ \A t \in Type : jobs'[j].docs[t] = "queued" =>
            jobs[j].docs[t] = "queued" /\ after.docs[t] = "queued"
      /\ j \notin again => jobs'[j].docs = after.docs
  BY Stored DEF Still
<1>2. \A i \in Job : i # j => Steady(i)
  BY <1>1, OtherJobs
<1>3. /\ run'[d] = "over"
      /\ \A e \in Delivery : e # d => run'[e] = run[e] /\ session'[e] = session[e]
  BY DEF Becomes, IInv, Running
<1>4. ~Calm(j) /\ JobInv(j)
  BY <1>1, NotCalm DEF AnswerInv
<1>5. NoQueue(jobs'[j].docs)
  BY <1>1 DEF NoQueue, Still
<1>6. ASSUME j \notin again
      PROVE  Calm(j)' /\ \A e \in Delivery : JobOf[e] = j => run'[e] \notin Active
  <2>1. \A e \in Delivery : JobOf[e] = j /\ e # d => run[e] \in Idle
    BY <1>4, <1>6 DEF JobInv, Lone
  <2>2. Still(jobs'[j].docs)
    BY <1>1, <1>6
  <2>3. \A e \in Delivery : JobOf[e] = j => run'[e] \notin Active
    BY <1>3, <2>1 DEF Idle, Active
  <2>4. QED
    BY <1>3, <2>2, <2>3 DEF Calm
<1>7. EndedRow(j)' /\ Lone(j)'
  BY <1>5, <1>6 DEF EndedRow, Lone
<1>8. ASSUME NEW e \in Delivery, JobOf[e] = j PROVE Knows(e)'
  <2>1. CASE e = d
    BY <1>3, <2>1 DEF Knows, Active
  <2>2. CASE e # d
    BY <1>1, <1>3, <1>4, <1>8, <2>2 DEF Knows, JobInv
  <2>3. QED
    BY <2>1, <2>2
<1>9. Steady(j)
  BY <1>1, <1>4, <1>7, <1>8 DEF Steady, JobInv
<1>10. QED
  BY <1>2, <1>9

\* A delivery of a job that has had one is counted.
LEMMA CalmIsCounted ==
    ASSUME NEW d \in Delivery, Calm(JobOf[d]), run[d] \in {"waiting", "over"}
    PROVE  Redelivers(d)
  BY DEF Calm, Redelivers

LEMMA DeliverSteady ==
    ASSUME IInv, AnswerInv, NEW d \in Delivery, deliver(d)
    PROVE  \A i \in Job : Steady(i)
<1> DEFINE j == JobOf[d]
           s == [status |-> jobs[j].status, docs |-> jobs[j].docs, doc |-> None,
                 left |-> {t \in Type : jobs[j].docs[t] # "none"}]
<1>1. /\ j \in Job /\ jobs[j] # None /\ jobs[j] \in JobRow /\ JobInv(j)
      /\ jobs' = jobs /\ run[d] \in {"waiting", "over"} /\ Becomes(d, "read", s) /\ Counts(d)
  BY ApiAssumption DEF deliver, IInv, Core, AnswerInv
<1>2. again' = again \/ again' = again \cup {j}
  BY <1>1 DEF Counts
<1>3. jobs' = [jobs EXCEPT ![j] = jobs[j]]
  BY <1>1 DEF IInv, Core
<1>4. s.docs = jobs[j].docs /\ Passed(s)
  BY DEF Passed
<1> HIDE DEF s
<1>5. \A i \in Job : i # j => Steady(i)
  BY <1>1, <1>2, <1>3, OtherJobs
<1>6. /\ run'[d] = "read" /\ session'[d] = s
      /\ \A e \in Delivery : e # d => run'[e] = run[e] /\ session'[e] = session[e]
  BY <1>1 DEF Becomes, IInv, Running
<1>7. j \notin again' => ~Redelivers(d)
  BY <1>1 DEF Counts
<1>8. Calm(j) => j \in again'
  BY <1>1, <1>7, CalmIsCounted
<1>9. j \in again => j \in again'
  BY <1>2
<1>10. EndedRow(j)'
  BY <1>1, <1>8, <1>9 DEF JobInv, EndedRow
<1>11. Lone(j)'
  <2> SUFFICES ASSUME j \notin again'
               PROVE  \A e \in Delivery : JobOf[e] = j /\ run'[e] \in Active =>
                         /\ session'[e].docs = jobs'[j].docs
                         /\ \A f \in Delivery : JobOf[f] = j /\ f # e => run'[f] \in Idle
    BY DEF Lone
  <2>1. \A e \in Delivery : JobOf[e] = j => run[e] \in Idle
    BY <1>7 DEF Redelivers, IInv, Running, Idle, Active
  <2>2. QED
    BY <1>1, <1>4, <1>6, <2>1 DEF Idle, Active
<1>12. ASSUME NEW e \in Delivery, JobOf[e] = j PROVE Knows(e)'
  <2>1. CASE e = d
    BY <1>1, <1>4, <1>6, <2>1 DEF Knows
  <2>2. CASE e # d
    BY <1>1, <1>6, <1>12, <2>2 DEF Knows, JobInv
  <2>3. QED
    BY <2>1, <2>2
<1>13. Steady(j)
  BY <1>1, <1>8, <1>9, <1>10, <1>11, <1>12 DEF Steady, JobInv
<1>14. QED
  BY <1>5, <1>13

LEMMA DrainSteady ==
    ASSUME IInv, AnswerInv, NEW d \in Delivery, drain(d)
    PROVE  \A i \in Job : Steady(i)
<1> DEFINE j == JobOf[d]
<1>1. /\ j \in Job /\ jobs[j] # None /\ jobs[j] \in JobRow /\ JobInv(j)
      /\ run[d] \in {"waiting", "over"} /\ Becomes(d, "over", None) /\ Counts(d)
  BY ApiAssumption DEF drain, IInv, Core, AnswerInv
<1>2. again' = again \/ again' = again \cup {j}
  BY <1>1 DEF Counts
<1>3. /\ jobs' = [jobs EXCEPT ![j] = Drained(j)] /\ Drained(j) \in JobRow
      /\ Drained(j).status = "cancelled"
      /\ \A t \in Type : Drained(j).docs[t] \in {"none", "skipped"}
  BY DrainRow DEF IInv
<1>4. jobs'[j] = Drained(j)
  BY <1>1, <1>3 DEF IInv, Core
<1>5. \A i \in Job : i # j => Steady(i)
  BY <1>1, <1>2, <1>3, OtherJobs
<1>6. /\ run'[d] = "over"
      /\ \A e \in Delivery : e # d => run'[e] = run[e] /\ session'[e] = session[e]
  BY <1>1 DEF Becomes, IInv, Running
<1>7. \A t \in Type : jobs'[j].docs[t] \notin {"queued", "fetching"}
  BY <1>3, <1>4
<1>8. j \notin again' => ~Redelivers(d)
  BY <1>1 DEF Counts
<1>9. Calm(j) => j \in again'
  BY <1>1, <1>8, CalmIsCounted
<1>10. j \in again => j \in again'
  BY <1>2
<1>11. EndedRow(j)'
  BY <1>3, <1>4 DEF EndedRow, GoodEnd
<1>12. Lone(j)'
  <2> SUFFICES ASSUME j \notin again'
               PROVE  \A e \in Delivery : JobOf[e] = j => run'[e] \notin Active
    BY DEF Lone
  <2>1. \A e \in Delivery : JobOf[e] = j => run[e] \notin Active
    BY <1>8 DEF Redelivers
  <2>2. QED
    BY <1>6, <2>1 DEF Active
<1>13. ASSUME NEW e \in Delivery, JobOf[e] = j PROVE Knows(e)'
  <2>1. CASE e = d
    BY <1>6, <2>1 DEF Knows, Active
  <2>2. CASE e # d
    BY <1>1, <1>6, <1>7, <1>13, <2>2 DEF Knows, JobInv
  <2>3. QED
    BY <2>1, <2>2
<1>14. Steady(j)
  BY <1>7, <1>9, <1>10, <1>11, <1>12, <1>13 DEF Steady, JobInv
<1>15. QED
  BY <1>5, <1>14

\* The steps of a run that has begun.
LEMMA SessionSteady ==
    ASSUME IInv, AnswerInv, NEW d \in Delivery,
           start(d) \/ begin(d) \/ fetch(d) \/ finish(d) \/ skip_rest(d)
    PROVE  \A i \in Job : Steady(i)
<1>1. run[d] \in Active /\ Core /\ Running
  BY DEF start, begin, fetch, finish, skip_rest, Boundary, Active, IInv
<1>2. /\ [session[d] EXCEPT !.status = "running"] \in Session
      /\ Reread(d) \in Session /\ Reread(d).docs = session[d].docs
      /\ Reread(d).left = session[d].left /\ Reread(d).doc = session[d].doc
      /\ session[d] \in Session /\ JobOf[d] \in Job
  BY <1>1, SessionTypes
<1>3. Passed(session[d])
  BY <1>1, <1>2 DEF AnswerInv, JobInv, Knows
<1>4. CASE start(d)
  <2> DEFINE s == [session[d] EXCEPT !.status = "running"]
  <2>1. s \in Session /\ s.docs = session[d].docs /\ s.left = session[d].left
        /\ s.doc = session[d].doc /\ s.status \notin GoodEnd
    BY <1>2 DEF Session, GoodEnd
  <2>2. Commits(JobOf[d], session[d], s) /\ Becomes(d, "going", s) /\ UNCHANGED again
    BY <1>4 DEF start
  <2> HIDE DEF s
  <2>3. Passed(s)
    BY <1>3, <2>1 DEF Passed
  <2>4. QED
    BY <1>1, <1>2, <2>1, <2>2, <2>3, GoesOn
<1>5. CASE begin(d)
  <2>1. PICK t \in session[d].left :
           LET s == [Reread(d) EXCEPT !.docs[t] = "fetching", !.left = @ \ {t}, !.doc = t]
           IN  Commits(JobOf[d], Reread(d), s) /\ Becomes(d, "going", s)
    BY <1>5 DEF begin
  <2> DEFINE s == [Reread(d) EXCEPT !.docs[t] = "fetching", !.left = @ \ {t}, !.doc = t]
  <2>2. t \in Type /\ session[d].doc = None
    BY <1>2, <1>5 DEF Session, begin, Boundary
  <2>3. /\ s \in Session /\ s.status = Reread(d).status /\ s.left = session[d].left \ {t}
        /\ s.doc = t /\ s.docs = [session[d].docs EXCEPT ![t] = "fetching"]
    BY <1>2, <2>2 DEF Session, DocStatus
  <2>4. Commits(JobOf[d], Reread(d), s) /\ Becomes(d, "going", s) /\ UNCHANGED again
    BY <1>5, <2>1 DEF begin
  <2>5. session[d].docs \in [Type -> DocStatus]
    BY <1>2 DEF Session
  <2> HIDE DEF s
  <2>6. \A u \in Type : s.docs[u] = IF u = t THEN "fetching" ELSE session[d].docs[u]
    BY <2>3, <2>5
  <2>7. None \notin Type
    BY ApiAssumption
  <2>8. Passed(s)
    BY <1>3, <2>2, <2>3, <2>6, <2>7 DEF Passed
  <2>9. \A u \in Type : s.docs[u] = "queued" => Reread(d).docs[u] = "queued"
    BY <1>2, <2>6
  <2>10. QED
    BY <1>1, <1>2, <2>3, <2>4, <2>8, <2>9, GoesOn
<1>6. CASE fetch(d)
  <2>1. PICK result \in {"uploaded", "failed"} :
           LET s == [session[d] EXCEPT !.docs[session[d].doc] = result, !.doc = None]
           IN  Commits(JobOf[d], session[d], s) /\ Becomes(d, "going", s)
    BY <1>6 DEF fetch
  <2> DEFINE s == [session[d] EXCEPT !.docs[session[d].doc] = result, !.doc = None]
  <2>2. session[d].doc \in Type
    BY <1>2, <1>6 DEF fetch, Session
  <2>3. /\ s \in Session /\ s.status = session[d].status /\ s.left = session[d].left
        /\ s.docs = [session[d].docs EXCEPT ![session[d].doc] = result]
    BY <1>2, <2>2 DEF Session, DocStatus
  <2>4. Commits(JobOf[d], session[d], s) /\ Becomes(d, "going", s) /\ UNCHANGED again
    BY <1>6, <2>1 DEF fetch
  <2>5. session[d].docs \in [Type -> DocStatus]
    BY <1>2 DEF Session
  <2> HIDE DEF s
  <2>6. \A u \in Type : s.docs[u] = IF u = session[d].doc THEN result ELSE session[d].docs[u]
    BY <2>3, <2>5
  <2>7. Passed(s)
    BY <1>3, <2>3, <2>6 DEF Passed
  <2>8. \A u \in Type : s.docs[u] = "queued" => session[d].docs[u] = "queued"
    BY <2>6
  <2>9. QED
    BY <1>1, <1>2, <2>3, <2>4, <2>7, <2>8, GoesOn
<1>7. CASE finish(d)
  <2>1. session[d].left = {} /\ session[d].doc = None /\ None \notin Type
    BY <1>7, ApiAssumption DEF finish, Boundary
  <2>2. Still(session[d].docs)
    BY <1>3, <2>1 DEF Passed, Still
  <2>3. Terminal(session[d]) \in Session /\ Still(Terminal(session[d]).docs)
    BY <1>2, <2>2, TerminalType
  <2>4. QED
    BY <1>1, <1>2, <1>7, <2>3, RunEnds DEF finish, Ends
<1>8. CASE skip_rest(d)
  <2>1. Skipped(d) \in Session
    BY <1>2 DEF Skipped, Session, DocStatus
  <2>2. \A t \in Type : Skipped(d).docs[t] = IF t \in session[d].left THEN "skipped"
                                             ELSE session[d].docs[t]
    BY <1>2 DEF Skipped, Session
  <2>3. session[d].doc = None /\ None \notin Type
    BY <1>8, ApiAssumption DEF skip_rest, Boundary
  <2>4. Still(Skipped(d).docs)
    BY <1>3, <2>2, <2>3 DEF Passed, Still
  <2>5. Ends(d, Reread(d), Skipped(d))
    BY <1>8 DEF skip_rest, Skipped
  <2>6. Terminal(Skipped(d)) \in Session /\ Still(Terminal(Skipped(d)).docs)
    BY <2>1, <2>4, TerminalType
  <2>7. QED
    BY <1>1, <1>2, <2>5, <2>6, RunEnds DEF Ends
<1>9. QED
  BY <1>4, <1>5, <1>6, <1>7, <1>8

LEMMA CrashSteady ==
    ASSUME IInv, AnswerInv, NEW d \in Delivery, crash(d)
    PROVE  \A i \in Job : Steady(i)
<1> DEFINE j == JobOf[d]
<1>1. /\ j \in Job /\ jobs[j] # None /\ JobInv(j) /\ ~Calm(j)
      /\ jobs' = jobs /\ again' = again /\ Becomes(d, "waiting", None)
  BY ApiAssumption, NotCalm DEF crash, IInv, Running, AnswerInv
<1>2. jobs' = [jobs EXCEPT ![j] = jobs[j]]
  BY <1>1 DEF IInv, Core
<1>3. \A i \in Job : i # j => Steady(i)
  BY <1>1, <1>2, OtherJobs
<1>4. /\ run'[d] = "waiting"
      /\ \A e \in Delivery : e # d => run'[e] = run[e] /\ session'[e] = session[e]
  BY <1>1 DEF Becomes, IInv, Running
<1>5. EndedRow(j)'
  BY <1>1 DEF JobInv, EndedRow
<1>6. Lone(j)'
  BY <1>1, <1>4 DEF JobInv, Lone, Active, Idle
<1>7. \A e \in Delivery : JobOf[e] = j => Knows(e)'
  BY <1>1, <1>4 DEF JobInv, Knows, Active
<1>8. Steady(j)
  BY <1>1, <1>5, <1>6, <1>7 DEF Steady, JobInv
<1>9. QED
  BY <1>3, <1>8

\* A change of status that promises nothing.
LEMMA StatusSteady ==
    ASSUME IInv, AnswerInv, NEW j \in Job, jobs[j] # None, NEW s \in JobStatus \ GoodEnd,
           jobs' = [jobs EXCEPT ![j].status = s], UNCHANGED runs
    PROVE  \A i \in Job : Steady(i)
<1> SUFFICES ASSUME NEW i \in Job PROVE Steady(i)
  OBVIOUS
<1>1. jobs[j] \in JobRow /\ jobs \in [Job -> JobRow \cup {None}]
  BY DEF IInv, Core
<1> DEFINE w == [jobs[j] EXCEPT !.status = s]
<1>2. w \in JobRow /\ w.docs = jobs[j].docs /\ w.status = s
  BY <1>1 DEF JobRow
<1>3. jobs' = [jobs EXCEPT ![j] = w]
  OBVIOUS
<1> HIDE DEF w
<1>4. /\ (jobs[i] = None) = (jobs'[i] = None)
      /\ jobs[i] # None => jobs'[i].docs = jobs[i].docs
      /\ jobs[i] # None => jobs'[i].status \in {jobs[i].status} \cup (JobStatus \ GoodEnd)
  <2>1. CASE i = j
    BY <1>1, <1>2, <1>3, <2>1, NoneIsNoRow
  <2>2. CASE i # j
    BY <1>1, <1>3, <2>2
  <2>3. QED
    BY <2>1, <2>2
<1>5. \A d \in Delivery : JobOf[d] = i =>
         /\ run'[d] = run[d] /\ session'[d] = session[d]
         /\ run[d] \in Active => jobs[i] # None
  BY DEF runs, IInv, Running
<1>6. JobInv(i) /\ (i \in again) = (i \in again')
  BY DEF AnswerInv, runs
<1>7. QED
  BY <1>4, <1>5, <1>6, Untouched

LEMMA SameRows ==
    ASSUME IInv, AnswerInv, UNCHANGED <<jobs, run, session, again>>
    PROVE  \A i \in Job : Steady(i)
<1> SUFFICES ASSUME NEW i \in Job PROVE Steady(i)
  OBVIOUS
<1>1. \A d \in Delivery : JobOf[d] = i =>
         /\ run'[d] = run[d] /\ session'[d] = session[d]
         /\ run[d] \in Active => jobs[i] # None
  BY DEF IInv, Running
<1>2. JobInv(i)
  BY DEF AnswerInv
<1>3. QED
  BY <1>1, <1>2, Untouched

LEMMA WorkSteady ==
    ASSUME IInv, AnswerInv, NEW d \in Delivery, Work(d)
    PROVE  \A i \in Job : Steady(i)
<1>1. CASE reap(JobOf[d])
  <2>1. JobOf[d] \in Job /\ "failed" \in JobStatus \ GoodEnd
    BY ApiAssumption DEF JobStatus, GoodEnd
  <2>2. QED
    BY <1>1, <2>1, StatusSteady DEF reap
<1>2. QED
  BY <1>1, DeliverSteady, DrainSteady, SessionSteady, CrashSteady DEF Work

\* A request reads rows, changes a status to a cancel, or inserts a queued job.
LEMMA ServeSteady ==
    ASSUME IInv, AnswerInv, NEW r \in Request, Serve(r)
    PROVE  \A i \in Job : Steady(i)
<1>1. Core /\ RequestInv(r) /\ UNCHANGED runs
  BY ServeLeavesRuns DEF IInv
<1>2. CASE UNCHANGED jobs
  BY <1>1, <1>2, SameRows DEF runs
<1>3. CASE cancel_job(r)
  <2>1. row[r].id \in Job /\ jobs[row[r].id] # None
    BY <1>1, <1>3 DEF RequestInv, HoldsMine, Mine, cancel_job
  <2>2. UNCHANGED jobs \/ \E s \in {"cancelled", "cancelling"} :
                              jobs' = [jobs EXCEPT ![row[r].id].status = s]
    BY <1>3 DEF cancel_job
  <2>3. {"cancelled", "cancelling"} \subseteq JobStatus \ GoodEnd
    BY DEF JobStatus, GoodEnd
  <2>4. QED
    BY <1>1, <1>2, <2>1, <2>2, <2>3, StatusSteady
<1>4. CASE jobs' = [jobs EXCEPT ![r] = NewJob(r)] /\ insert(r)
  <2> SUFFICES ASSUME NEW i \in Job PROVE Steady(i)
    OBVIOUS
  <2>1. NewJob(r) \in JobRow /\ jobs[r] = None /\ r \in Job
    BY <1>1, <1>4, NewJobFits, Early DEF insert, Job
  <2>2. NewJob(r).status \notin GoodEnd
    BY DEF NewJob, GoodEnd
  <2>3. \A d \in Delivery : JobOf[d] = i =>
           /\ run'[d] = run[d] /\ session'[d] = session[d]
           /\ run[d] \in Active => jobs[i] # None
    BY <1>1 DEF IInv, Running, runs
  <2>4. JobInv(i) /\ (i \in again) = (i \in again')
    BY <1>1 DEF AnswerInv, runs
  <2>5. CASE i = r
    <3>1. jobs'[i] = NewJob(r)
      BY <1>1, <1>4, <2>1, <2>5 DEF Core
    <3>2. \A d \in Delivery : JobOf[d] = i => run'[d] \notin Active
      BY <2>1, <2>3, <2>5
    <3>3. JobInv(i)'
      BY <2>2, <3>1, <3>2 DEF JobInv, EndedRow, Lone, Knows
    <3>4. QED
      BY <2>1, <2>4, <2>5, <3>3 DEF Steady
  <2>6. CASE i # r
    <3>1. jobs'[i] = jobs[i]
      BY <1>1, <1>4, <2>6 DEF Core
    <3>2. QED
      BY <2>3, <2>4, <3>1, Untouched
  <2>7. QED
    BY <2>5, <2>6
<1>5. UNCHANGED jobs \/ cancel_job(r) \/ (jobs' = [jobs EXCEPT ![r] = NewJob(r)] /\ insert(r))
  BY DEF Serve, _moving_window, _storage, MakeStorage, MakeWindow, hit, Authenticate,
     get_job, CancelRead, refresh, retry_job, list_failed, create_job, insert, enqueue,
     to_job_schema, list_order_jobs, database_error, tables
<1>6. QED
  BY <1>2, <1>3, <1>4, <1>5

\* The row a request holds after its step: the old one, or one just read.
LEMMA ServeRow ==
    ASSUME IInv, NEW r \in Request, Serve(r)
    PROVE  \/ row'[r] = row[r]
           \/ \E j \in Job : /\ row'[r] = Row(j) /\ jobs[j] # None /\ UNCHANGED jobs
<1> USE DEF Core
<1>1. Core /\ RequestInv(r)
  BY DEF IInv
<1>2. ASSUME NEW j, Holds(r, j) PROVE row'[r] = Row(j)
  BY <1>1, <1>2 DEF Holds
<1>3. CASE get_job(r) \/ CancelRead(r) \/ retry_job(r)
  <2>1. \A j \in Get(r) : j \in Job /\ jobs[j] # None
    BY <1>1 DEF Get, Ask, Job
  <2>2. UNCHANGED jobs
    BY <1>3 DEF get_job, CancelRead, retry_job, tables
  <2>3. UNCHANGED row \/ \E j \in Get(r) : Holds(r, j)
    BY <1>3 DEF get_job, CancelRead, retry_job, Missing
  <2>4. QED
    BY <1>2, <2>1, <2>2, <2>3
<1>4. CASE refresh(r)
  <2>1. row[r].id \in Job /\ jobs[row[r].id] # None
    BY <1>1, <1>4 DEF RequestInv, HoldsMine, Mine, refresh
  <2>2. QED
    BY <1>2, <1>4, <2>1 DEF refresh, tables
<1>5. CASE enqueue(r)
  <2>1. r \in Job /\ jobs[r] # None
    BY <1>1, <1>5 DEF RequestInv, HoldsMine, Mine, enqueue
  <2>2. QED
    BY <1>2, <1>5, <2>1 DEF enqueue, tables
<1>6. CASE create_job(r)
  <2>1. UNCHANGED jobs /\ (UNCHANGED row \/ \E j \in Existing(r) : Holds(r, j))
    BY <1>6 DEF create_job, tables, local
  <2>2. QED
    BY <1>2, <2>1 DEF Existing
<1>7. CASE insert(r)
  <2>1. UNCHANGED row \/ (UNCHANGED jobs /\ \E j \in Existing(r) : Holds(r, j))
    BY <1>7 DEF insert, tables
  <2>2. QED
    BY <1>2, <2>1 DEF Existing
<1>8. CASE \/ _moving_window(r) \/ _storage(r) \/ MakeStorage(r) \/ MakeWindow(r) \/ hit(r)
           \/ Authenticate(r) \/ cancel_job(r) \/ list_failed(r)
           \/ to_job_schema(r) \/ list_order_jobs(r) \/ database_error(r)
  BY <1>8 DEF _moving_window, _storage, MakeStorage, MakeWindow, hit, Authenticate,
              cancel_job, list_failed, to_job_schema, list_order_jobs,
              database_error, local
<1>9. QED
  BY <1>3, <1>4, <1>5, <1>6, <1>7, <1>8 DEF Serve

\* Its answer: unchanged, or the row it holds with the documents as they are.
LEMMA ServeView ==
    ASSUME NEW r \in Request, Serve(r)
    PROVE  \/ UNCHANGED view
           \/ /\ pc[r] = "docs" /\ UNCHANGED jobs /\ pc' = [pc EXCEPT ![r] = "done"]
              /\ seen' = [seen EXCEPT ![r] = {row[r].id}]
              /\ view' = [view EXCEPT ![r] = [status |-> row[r].status,
                                              docs |-> jobs[row[r].id].docs]]
  BY DEF Serve, _moving_window, _storage, MakeStorage, MakeWindow, hit, Authenticate,
         get_job, CancelRead, cancel_job, refresh, retry_job, list_failed, create_job,
         insert, enqueue, to_job_schema, list_order_jobs, database_error, tables, answer,
         Goes, Goto, Fails, Missing

\* A request that is answered takes no step.
LEMMA ServesOnce ==
    ASSUME NEW r \in Request, Serve(r)
    PROVE  pc[r] # "done"
  BY DEF Serve, _moving_window, _storage, MakeStorage, MakeWindow, hit, Authenticate,
         get_job, CancelRead, cancel_job, refresh, retry_job, list_failed, create_job,
         insert, enqueue, to_job_schema, list_order_jobs, database_error, Enters, InBody

\* A held row stays true of its job, and so does an answer.
LEMMA HeldKept ==
    ASSUME IInv, AnswerInv, \A i \in Job : Steady(i), NEW q \in Request, row'[q] = row[q]
    PROVE  HeldRow(q)'
<1>1. row[q] # None => row[q].id \in Job /\ jobs[row[q].id] # None
  BY DEF IInv, RequestInv, HoldsMine, Mine
<1>2. HeldRow(q)
  BY DEF AnswerInv
<1>3. QED
  BY <1>1, <1>2 DEF HeldRow, Steady, NoQueue

LEMMA ShownKept ==
    ASSUME IInv, AnswerInv, \A i \in Job : Steady(i), NEW q \in Request,
           view'[q] = view[q], seen'[q] = seen[q], pc'[q] = pc[q]
    PROVE  ShownRow(q)'
<1>1. seen[q] \subseteq again => seen[q] \subseteq again'
  BY DEF IInv, Core, Steady
<1>2. ShownRow(q)
  BY DEF AnswerInv
<1>3. QED
  BY <1>1, <1>2 DEF ShownRow

LEMMA ServeAnswers ==
    ASSUME IInv, AnswerInv, NEW r \in Request, Serve(r)
    PROVE  AnswerInv'
<1>1. (\A i \in Job : Steady(i)) /\ Core /\ RequestInv(r) /\ view[r] = None
  BY ServeSteady, ServesOnce DEF IInv, AnswerInv, ShownRow
<1>2. \A q \in Request \ {r} : row'[q] = row[q] /\ seen'[q] = seen[q] /\ pc'[q] = pc[q]
  BY <1>1, ServeStep DEF Frame
<1>3. ASSUME NEW q \in Request PROVE HeldRow(q)'
  <2>1. CASE row'[q] = row[q]
    BY <1>1, <2>1, HeldKept
  <2>2. CASE \E j \in Job : row'[q] = Row(j) /\ jobs[j] # None /\ UNCHANGED jobs
    <3>1. PICK j \in Job : row'[q] = Row(j) /\ jobs[j] # None /\ UNCHANGED jobs
      BY <2>2
    <3>2. EndedRow(j)'
      BY <1>1 DEF Steady, JobInv
    <3>3. Row(j).id = j /\ Row(j).status = jobs[j].status
      BY DEF Row
    <3>4. row'[q].id = j /\ row'[q].status = jobs'[j].status /\ jobs'[j] # None
      BY <3>1, <3>3
    <3>5. QED
      BY <3>2, <3>4 DEF HeldRow, EndedRow
  <2>3. QED
    BY <1>2, <2>1, <2>2, ServeRow
<1>4. view' \in [Request -> Shown \cup {None}] /\ \A q \in Request : ShownRow(q)'
  <2>1. CASE UNCHANGED view
    <3>1. ASSUME NEW q \in Request PROVE ShownRow(q)'
      <4>1. CASE q = r
        BY <1>1, <2>1, <4>1 DEF ShownRow
      <4>2. CASE q # r
        BY <1>1, <1>2, <2>1, <4>2, ShownKept
      <4>3. QED
        BY <4>1, <4>2
    <3>2. QED
      BY <2>1, <3>1 DEF AnswerInv
  <2>2. CASE /\ pc[r] = "docs" /\ UNCHANGED jobs /\ pc' = [pc EXCEPT ![r] = "done"]
             /\ seen' = [seen EXCEPT ![r] = {row[r].id}]
             /\ view' = [view EXCEPT ![r] = [status |-> row[r].status,
                                             docs |-> jobs[row[r].id].docs]]
    <3> DEFINE v == [status |-> row[r].status, docs |-> jobs[row[r].id].docs]
    <3>1. row[r] # None /\ row[r].id \in Job /\ jobs[row[r].id] # None
      BY <1>1, <2>2 DEF RequestInv, HoldsMine, Mine
    <3>2. row[r] \in RowType /\ jobs[row[r].id] \in JobRow
      BY <1>1, <3>1 DEF Core
    <3>3. v \in Shown
      BY <3>2 DEF Shown, RowType, JobRow
    <3>4. v.status \in GoodEnd =>
             NoQueue(v.docs) /\ (row[r].id \in again \/ Still(v.docs))
      BY <3>1 DEF AnswerInv, HeldRow, Calm
    <3>5. row[r].id \in again => row[r].id \in again'
      BY <1>1, <3>1 DEF Steady
    <3>6. view' = [view EXCEPT ![r] = v]
      BY <2>2
    <3> HIDE DEF v
    <3>7. view'[r] = v /\ seen'[r] = {row[r].id} /\ pc'[r] = "done"
      BY <1>1, <2>2, <3>6 DEF AnswerInv, Core
    <3>8. ShownRow(r)'
      BY <3>4, <3>5, <3>7 DEF ShownRow
    <3>9. \A q \in Request \ {r} : view'[q] = view[q]
      BY <3>6 DEF AnswerInv
    <3>10. \A q \in Request \ {r} : ShownRow(q)'
      BY <1>1, <1>2, <3>9, ShownKept
    <3>11. view' \in [Request -> Shown \cup {None}]
      BY <3>3, <3>6 DEF AnswerInv
    <3>12. QED
      BY <3>8, <3>10, <3>11
  <2>3. QED
    BY <2>1, <2>2, ServeView
<1>5. QED
  BY <1>1, <1>3, <1>4 DEF AnswerInv, Steady

LEMMA OthersAnswer ==
    ASSUME IInv, AnswerInv, \A i \in Job : Steady(i), UNCHANGED <<row, view, seen, pc>>
    PROVE  AnswerInv'
<1>1. ASSUME NEW q \in Request PROVE HeldRow(q)' /\ ShownRow(q)'
  BY HeldKept, ShownKept
<1>2. QED
  BY <1>1 DEF AnswerInv, Steady

LEMMA InitAnswers == Init => AnswerInv
<1> SUFFICES ASSUME Init PROVE AnswerInv
  OBVIOUS
<1>1. PICK l \in Load :
        /\ jobs = [j \in Job |-> IF j = Seed THEN l.seed ELSE None]
        /\ run = [d \in Delivery |->
                    IF d \in l.lost THEN "lost"
                    ELSE IF JobOf[d] = Seed /\ l.seed # None /\ l.seed.status \in Retryable
                    THEN "over" ELSE "waiting"]
  BY DEF Init
<1>2. l.seed \in SeedRow \cup {None}
  BY ApiAssumption
<1>3. \A d \in Delivery : run[d] \notin Active
  BY <1>1 DEF Active
<1>4. ASSUME NEW j \in Job PROVE JobInv(j)
  <2>1. EndedRow(j)
    <3> SUFFICES ASSUME jobs[j] # None, jobs[j].status \in GoodEnd
                 PROVE  NoQueue(jobs[j].docs) /\ Calm(j)
      BY DEF EndedRow
    <3>1. j = Seed /\ jobs[j] = l.seed /\ l.seed \in SeedRow
      BY <1>1, <1>2
    <3>2. l.seed.status \in Retryable /\ Still(l.seed.docs)
      BY <3>1 DEF SeedRow, GoodEnd, Retryable, Still, Statuses
    <3>3. \A d \in Delivery : JobOf[d] = j => run[d] # "waiting"
      BY <1>1, <3>1, <3>2
    <3>4. QED
      BY <1>3, <3>1, <3>2, <3>3 DEF Calm, NoQueue, Still
  <2>2. Lone(j) /\ \A d \in Delivery : JobOf[d] = j => Knows(d)
    BY <1>3 DEF Lone, Knows
  <2>3. QED
    BY <2>1, <2>2 DEF JobInv
<1>5. QED
  BY <1>4 DEF Init, AnswerInv, HeldRow, ShownRow

LEMMA AnswersHold == Spec => [](IInv /\ AnswerInv)
<1>1. IInv /\ AnswerInv /\ [Next]_vars => AnswerInv'
  <2> SUFFICES ASSUME IInv, AnswerInv, [Next]_vars PROVE AnswerInv'
    OBVIOUS
  <2>1. CASE \E r \in Request : Serve(r)
    BY <2>1, ServeAnswers
  <2>2. CASE \E d \in Delivery : Work(d)
    <3>1. PICK d \in Delivery : Work(d)
      BY <2>2
    <3>2. UNCHANGED <<row, view, seen, pc>>
      BY <3>1, WorkerOnly
    <3>3. QED
      BY <3>1, <3>2, WorkSteady, OthersAnswer
  <2>3. CASE RedisStops \/ Tick \/ UNCHANGED vars
    <3>1. UNCHANGED <<row, view, seen, pc, jobs, run, session, again>>
      BY <2>3 DEF RedisStops, Tick, vars, local, answer, tables, runs
    <3>2. QED
      BY <3>1, SameRows, OthersAnswer
  <2>4. QED
    BY <2>1, <2>2, <2>3 DEF Next
<1>2. QED
  BY <1>1, InitIInv, StepIInv, InitAnswers, PTL DEF Spec

\* to_job_schema: the row is read before the documents.  An answer that says
\* completed or partial shows no document queued, and one being fetched only of
\* a job whose task was delivered once more, whatever workers, crashes, cancels
\* and the reaper commit between the queries.
THEOREM AnswersAreSettled == Spec => []SettledAnswer
<1>1. AnswerInv => SettledAnswer
  BY DEF AnswerInv, ShownRow, SettledAnswer, GoodEnd, NoQueue, Still, Statuses
<1>2. QED
  BY <1>1, AnswersHold, PTL

-----------------------------------------------------------------------------
(* The rate limiter *)

Store == Request \cup {"redis"}

Limiting == {"limit", "storage", "build", "cache", "hit"}

LimiterType ==
    /\ ask \in [Request -> Ask] /\ pc \in [Request -> Place] /\ backend \in Backend
    /\ now \in 0..MaxTime /\ redisUp \in BOOLEAN
    /\ storage \in [Process -> Store \cup {None}]
    /\ window \in [Process -> Store \cup {None}]
    /\ cold \in SUBSET Request
    /\ lim \in [Request -> Store \cup {None}]
    /\ at \in [Request -> Nat]

\* With Redis there is one store.
OneStore ==
    backend = "redis" =>
        /\ \A p \in Process : storage[p] \in {None, "redis"} /\ window[p] \in {None, "redis"}
        /\ \A r \in Request : lim[r] \in {None, "redis"}

\* A request that was let through is past the limiter, and was counted before
\* now.  A request that found a limiter uses the one its process keeps.
HitInv(r) ==
    /\ at[r] <= MaxTime => at[r] <= now /\ lim[r] # None /\ pc[r] \notin Limiting
    /\ pc[r] \in {"storage", "build", "cache"} => r \in cold
    /\ pc[r] \in {"cache", "hit"} => lim[r] # None
    /\ lim[r] # None /\ r \notin cold => window[P(r)] = lim[r]

\* What store s counts of identity i in the window that ends at t.
Counted(s, i, t) ==
    {q \in Request : /\ at[q] <= t /\ at[q] + Window >= t
                     /\ lim[q] = s /\ _identity(q) = i}

\* No store ever counts more than the limit, whenever the window ends.
StoreBound == \A i : \A s \in Store, t \in 0..now : Cardinality(Counted(s, i, t)) <= Limit

LimiterInv ==
    /\ LimiterType /\ OneStore /\ StoreBound
    /\ \A r \in Request : HitInv(r)

LEMMA NoneIsNoStore == None \notin Store /\ Window \in Nat /\ Limit \in Nat \ {0} /\ MaxTime \in Nat
  BY ApiAssumption DEF Store

LEMMA CountedType ==
    ASSUME NEW s, NEW i, NEW t
    PROVE  IsFiniteSet(Counted(s, i, t)) /\ Cardinality(Counted(s, i, t)) \in Nat
<1>1. Counted(s, i, t) \in SUBSET Request /\ IsFiniteSet(Request)
  BY ApiAssumption DEF Counted
<1>2. QED
  BY <1>1, FS_Subset, FS_CardinalityType

\* A request in the limiter is not counted, so its choice of a store changes no count.
LEMMA ChoiceKeepsBound ==
    ASSUME LimiterInv, NEW r \in Request, at[r] > MaxTime, UNCHANGED <<ask, now, at>>,
           \A q \in Request \ {r} : lim'[q] = lim[q]
    PROVE  StoreBound'
<1> SUFFICES ASSUME NEW s \in Store, NEW t \in 0..now, NEW i
             PROVE  Cardinality(Counted(s, i, t)') <= Limit
  BY DEF StoreBound
<1>1. r \notin Counted(s, i, t) /\ r \notin Counted(s, i, t)'
  BY NoneIsNoStore DEF Counted, LimiterInv, LimiterType
<1>2. ASSUME NEW q \in Request, q # r PROVE q \in Counted(s, i, t) <=> q \in Counted(s, i, t)'
  <2>1. lim'[q] = lim[q] /\ at'[q] = at[q] /\ _identity(q)' = _identity(q)
    BY <1>2 DEF _identity
  <2>2. QED
    BY <2>1 DEF Counted
<1>3. Counted(s, i, t)' = Counted(s, i, t)
  BY <1>1, <1>2 DEF Counted
<1>4. QED
  BY <1>3 DEF LimiterInv, StoreBound

\* A step of r inside the limiter: its own place and store, and the caches.
LEMMA ChoiceStep ==
    ASSUME LimiterInv, NEW r \in Request, pc[r] \in Limiting,
           UNCHANGED <<ask, backend, redisUp, now, at>>,
           NEW place \in Limiting, pc' = [pc EXCEPT ![r] = place],
           NEW s \in Store \cup {None}, lim' = [lim EXCEPT ![r] = s],
           storage' \in [Process -> Store \cup {None}],
           window' \in [Process -> Store \cup {None}],
           cold' \in SUBSET Request, cold \subseteq cold',
           \A p \in Process : window[p] # None => window'[p] = window[p],
           backend = "redis" =>
               /\ s \in {None, "redis"}
               /\ \A p \in Process : storage'[p] \in {None, "redis"}
                                     /\ window'[p] \in {None, "redis"},
           place \in {"storage", "build", "cache"} => r \in cold',
           place \in {"cache", "hit"} => s # None,
           s # None /\ r \notin cold' => window'[P(r)] = s
    PROVE  LimiterInv'
<1> USE DEF LimiterInv, LimiterType
<1>1. at[r] > MaxTime
  BY NoneIsNoStore DEF HitInv
<1>2. StoreBound'
  BY <1>1, ChoiceKeepsBound
<1>3. LimiterType'
  BY DEF Limiting, Place
<1>4. OneStore'
  BY DEF OneStore
<1>5. ASSUME NEW q \in Request PROVE HitInv(q)'
  <2>1. P(q)' = P(q) /\ P(q) \in Process
    BY DEF P, Ask
  <2>2. CASE q = r
    <3>1. pc'[q] = place /\ lim'[q] = s /\ at'[q] > MaxTime
      BY <1>1, <2>2
    <3>2. QED
      BY <2>1, <2>2, <3>1, NoneIsNoStore DEF HitInv
  <2>3. CASE q # r
    <3>1. pc'[q] = pc[q] /\ lim'[q] = lim[q] /\ at'[q] = at[q]
      BY <2>3
    <3>2. HitInv(q)
      OBVIOUS
    <3>3. QED
      BY <2>1, <3>1, <3>2, NoneIsNoStore DEF HitInv
  <2>4. QED
    BY <2>2, <2>3
<1>6. QED
  BY <1>2, <1>3, <1>4, <1>5

LEMMA CacheStep ==
    ASSUME LimiterInv, NEW r \in Request,
           _moving_window(r) \/ _storage(r) \/ MakeStorage(r) \/ MakeWindow(r)
    PROVE  LimiterInv'
<1>1. /\ P(r) \in Process /\ storage[P(r)] \in Store \cup {None}
      /\ window[P(r)] \in Store \cup {None} /\ lim[r] \in Store \cup {None}
      /\ r \in Store
  BY DEF LimiterInv, LimiterType, P, Ask, Store
<1>2. /\ storage \in [Process -> Store \cup {None}] /\ window \in [Process -> Store \cup {None}]
      /\ cold \in SUBSET Request /\ backend \in Backend
  BY DEF LimiterInv, LimiterType
<1>3. HitInv(r) /\ OneStore
  BY DEF LimiterInv
<1>4. UNCHANGED <<ask, backend, redisUp, now, at>>
  BY DEF _moving_window, _storage, MakeStorage, MakeWindow, given, hits
<1>5. CASE _moving_window(r)
  <2>1. pc[r] \in Limiting /\ UNCHANGED <<storage, window>>
    BY <1>5 DEF _moving_window, Limiting
  <2>2. CASE window[P(r)] # None
    <3>1. /\ pc' = [pc EXCEPT ![r] = "hit"] /\ lim' = [lim EXCEPT ![r] = window[P(r)]]
          /\ UNCHANGED cold
      BY <1>5, <2>2 DEF _moving_window, Goes, Goto
    <3>2. backend = "redis" => window[P(r)] \in {None, "redis"}
      BY <1>1, <1>3 DEF OneStore
    <3>3. "hit" \in Limiting
      BY DEF Limiting
    <3>4. QED
      BY <1>1, <1>2, <1>3, <1>4, <2>1, <2>2, <3>1, <3>2, <3>3, ChoiceStep DEF OneStore
  <2>3. CASE window[P(r)] = None
    <3>1. /\ pc' = [pc EXCEPT ![r] = "storage"] /\ UNCHANGED lim /\ cold' = cold \cup {r}
      BY <1>5, <2>3 DEF _moving_window, Goes, Goto
    <3>2. lim' = [lim EXCEPT ![r] = lim[r]] /\ (backend = "redis" => lim[r] \in {None, "redis"})
      BY <1>3, <3>1 DEF OneStore, LimiterInv, LimiterType
    <3>3. "storage" \in Limiting /\ cold' \in SUBSET Request /\ cold \subseteq cold' /\ r \in cold'
      BY <1>2, <3>1 DEF Limiting
    <3> DEFINE s == lim[r]
    <3>4. /\ s \in Store \cup {None} /\ lim' = [lim EXCEPT ![r] = s]
          /\ backend = "redis" => s \in {None, "redis"}
      BY <1>1, <3>2 DEF OneStore
    <3>5. pc' = [pc EXCEPT ![r] = "storage"]
      BY <3>1
    <3> HIDE DEF s
    <3>6. QED
      BY <1>1, <1>2, <1>3, <1>4, <2>1, <3>3, <3>4, <3>5, ChoiceStep DEF OneStore
  <2>4. QED
    BY <2>2, <2>3
<1>6. CASE _storage(r)
  <2>1. /\ pc[r] \in Limiting /\ UNCHANGED <<storage, window, cold>> /\ r \in cold
        /\ {"cache", "build"} \subseteq Limiting
    BY <1>3, <1>6 DEF _storage, Limiting, caches, HitInv
  <2>2. CASE storage[P(r)] # None
    <3>1. pc' = [pc EXCEPT ![r] = "cache"] /\ lim' = [lim EXCEPT ![r] = storage[P(r)]]
      BY <1>6, <2>2 DEF _storage, Goes, Goto
    <3>2. backend = "redis" => storage[P(r)] \in {None, "redis"}
      BY <1>1, <1>3 DEF OneStore
    <3>3. QED
      BY <1>1, <1>2, <1>3, <1>4, <2>1, <2>2, <3>1, <3>2, ChoiceStep DEF OneStore
  <2>3. CASE storage[P(r)] = None
    <3>1. pc' = [pc EXCEPT ![r] = "build"] /\ UNCHANGED lim
      BY <1>6, <2>3 DEF _storage, Goes, Goto
    <3>2. lim' = [lim EXCEPT ![r] = lim[r]] /\ (backend = "redis" => lim[r] \in {None, "redis"})
      BY <1>3, <3>1 DEF OneStore, LimiterInv, LimiterType
    <3> DEFINE s == lim[r]
    <3>3. /\ s \in Store \cup {None} /\ lim' = [lim EXCEPT ![r] = s]
          /\ backend = "redis" => s \in {None, "redis"}
      BY <1>1, <3>2 DEF OneStore
    <3>4. pc' = [pc EXCEPT ![r] = "build"]
      BY <3>1
    <3> HIDE DEF s
    <3>5. QED
      BY <1>1, <1>2, <1>3, <1>4, <2>1, <3>3, <3>4, ChoiceStep DEF OneStore
  <2>4. QED
    BY <2>2, <2>3
<1>7. CASE MakeStorage(r)
  <2> DEFINE made == IF backend = "redis" THEN "redis" ELSE r
  <2>1. /\ pc[r] \in Limiting /\ UNCHANGED <<window, cold>> /\ r \in cold
        /\ "cache" \in Limiting
    BY <1>3, <1>7 DEF MakeStorage, Limiting, HitInv
  <2>2. made \in Store /\ made # None /\ (backend = "redis" => made = "redis")
    BY NoneIsNoStore DEF Store
  <2>3. /\ pc' = [pc EXCEPT ![r] = "cache"] /\ lim' = [lim EXCEPT ![r] = made]
        /\ storage' = [storage EXCEPT ![P(r)] = IF storage[P(r)] = None THEN made
                                               ELSE storage[P(r)]]
    BY <1>7 DEF MakeStorage, Goes, Goto
  <2> HIDE DEF made
  <2>4. storage' \in [Process -> Store \cup {None}]
    BY <1>1, <1>2, <2>2, <2>3
  <2>5. backend = "redis" => \A p \in Process : storage'[p] \in {None, "redis"}
    BY <1>2, <1>3, <2>2, <2>3 DEF OneStore
  <2>6. QED
    BY <1>1, <1>2, <1>3, <1>4, <2>1, <2>2, <2>3, <2>4, <2>5, ChoiceStep DEF OneStore
<1>8. CASE MakeWindow(r)
  <2>1. /\ pc[r] \in Limiting /\ UNCHANGED <<storage, cold, lim>> /\ r \in cold
        /\ "hit" \in Limiting /\ lim[r] # None
    BY <1>3, <1>8 DEF MakeWindow, Limiting, HitInv, hits
  <2>2. /\ pc' = [pc EXCEPT ![r] = "hit"] /\ lim' = [lim EXCEPT ![r] = lim[r]]
        /\ window' = [window EXCEPT ![P(r)] = IF window[P(r)] = None THEN lim[r]
                                             ELSE window[P(r)]]
    BY <1>8, <2>1 DEF MakeWindow, Goes, Goto, LimiterInv, LimiterType
  <2>3. /\ window' \in [Process -> Store \cup {None}]
        /\ \A p \in Process : window[p] # None => window'[p] = window[p]
    BY <1>1, <1>2, <2>2
  <2>4. backend = "redis" => /\ lim[r] \in {None, "redis"}
                             /\ \A p \in Process : window'[p] \in {None, "redis"}
    BY <1>2, <1>3, <2>2 DEF OneStore
  <2> DEFINE s == lim[r]
  <2>5. /\ s \in Store \cup {None} /\ s # None /\ lim' = [lim EXCEPT ![r] = s]
        /\ backend = "redis" => s \in {None, "redis"}
    BY <1>1, <2>1, <2>2, <2>4
  <2> HIDE DEF s
  <2>6. /\ pc' = [pc EXCEPT ![r] = "hit"] /\ UNCHANGED <<storage, cold>>
        /\ pc[r] \in Limiting /\ r \in cold /\ "hit" \in Limiting
    BY <2>1, <2>2
  <2>7. QED
    BY <1>1, <1>2, <1>3, <1>4, <2>3, <2>4, <2>5, <2>6, ChoiceStep DEF OneStore
<1>9. QED
  BY <1>5, <1>6, <1>7, <1>8

\* A request that leaves the limiter uncounted, or was never in it.
LEMMA PastStep ==
    ASSUME LimiterInv, NEW r \in Request, UNCHANGED <<ask, backend, redisUp, now, at, lim, caches>>,
           NEW place \in Place \ Limiting, pc' = [pc EXCEPT ![r] = place]
    PROVE  LimiterInv'
<1> USE DEF LimiterInv, LimiterType, caches
<1>1. \A s, i, t : Counted(s, i, t)' = Counted(s, i, t)
  BY DEF Counted, _identity
<1>2. StoreBound'
  BY <1>1 DEF StoreBound
<1>3. LimiterType' /\ OneStore'
  BY DEF OneStore
<1>4. ASSUME NEW q \in Request PROVE HitInv(q)'
  <2>1. HitInv(q) /\ P(q)' = P(q) /\ (pc'[q] = pc[q] \/ pc'[q] = place)
    BY DEF P
  <2>2. QED
    BY <2>1 DEF HitInv, Limiting
<1>5. QED
  BY <1>2, <1>3, <1>4

\* A request is let through only when its store counts less than the limit.
LEMMA AdmitStep ==
    ASSUME LimiterInv, NEW r \in Request, pc[r] = "hit", Cardinality(Recent(r)) < Limit,
           at' = [at EXCEPT ![r] = now], pc' = [pc EXCEPT ![r] = "auth"],
           UNCHANGED <<ask, backend, redisUp, now, lim, caches>>
    PROVE  LimiterInv'
<1> USE DEF LimiterInv, LimiterType, caches
<1>1. at[r] > MaxTime /\ lim[r] # None /\ now \in Nat /\ now <= MaxTime
  BY NoneIsNoStore DEF HitInv, Limiting
<1>2. LimiterType' /\ OneStore'
  BY DEF OneStore, Place
<1>3. ASSUME NEW q \in Request PROVE HitInv(q)'
  <2>1. HitInv(q) /\ P(q)' = P(q)
    BY DEF P
  <2>2. CASE q = r
    <3>1. pc'[q] = "auth" /\ at'[q] = now
      BY <2>2
    <3>2. QED
      BY <1>1, <2>1, <2>2, <3>1 DEF HitInv, Limiting
  <2>3. CASE q # r
    <3>1. pc'[q] = pc[q] /\ at'[q] = at[q]
      BY <2>3
    <3>2. QED
      BY <2>1, <3>1 DEF HitInv
  <2>4. QED
    BY <2>2, <2>3
<1>4. ASSUME NEW s \in Store, NEW t \in 0..now, NEW i
      PROVE  Cardinality(Counted(s, i, t)') <= Limit
  <2>1. \A q \in Request : _identity(q)' = _identity(q)
    BY DEF _identity
  <2>2. r \notin Counted(s, i, t)
    BY <1>1, NoneIsNoStore DEF Counted
  <2>3. \A q \in Request \ {r} : q \in Counted(s, i, t)' <=> q \in Counted(s, i, t)
    BY <2>1 DEF Counted
  <2>4. Cardinality(Counted(s, i, t)) <= Limit
    BY DEF StoreBound
  <2>5. CASE r \notin Counted(s, i, t)'
    <3>1. Counted(s, i, t)' = Counted(s, i, t)
      BY <2>2, <2>3, <2>5 DEF Counted
    <3>2. QED
      BY <2>4, <3>1
  <2>6. CASE r \in Counted(s, i, t)'
    <3>1. t = now /\ lim[r] = s /\ _identity(r) = i
      BY <1>1, <2>1, <2>6 DEF Counted
    <3>2. Recent(r) = Counted(s, i, t)
      BY <3>1 DEF Recent, Counted
    <3>3. Counted(s, i, t)' = Counted(s, i, t) \cup {r}
      BY <2>3, <2>6 DEF Counted
    <3>4. Cardinality(Counted(s, i, t) \cup {r}) = Cardinality(Counted(s, i, t)) + 1
      BY <2>2, CountedType, FS_AddElement
    <3>5. QED
      BY <3>2, <3>3, <3>4, CountedType, NoneIsNoStore
  <2>7. QED
    BY <2>5, <2>6
<1>5. StoreBound'
  BY <1>4 DEF StoreBound
<1>6. QED
  BY <1>2, <1>3, <1>5

LEMMA HitStep ==
    ASSUME LimiterInv, NEW r \in Request, hit(r)
    PROVE  LimiterInv'
<1>1. UNCHANGED <<ask, backend, redisUp, now, lim, caches>> /\ pc[r] = "hit"
  BY DEF hit, given
<1>2. CASE Cardinality(Recent(r)) < Limit /\ at' = [at EXCEPT ![r] = now] /\ Goes(r, "auth")
  BY <1>1, <1>2, AdmitStep DEF Goes, Goto
<1>3. CASE (\E c \in {429, 500} : Fails(r, c)) /\ UNCHANGED at
  <2>1. pc' = [pc EXCEPT ![r] = "done"] /\ "done" \in Place \ Limiting
    BY <1>3 DEF Fails, Goto, Place, Limiting
  <2>2. UNCHANGED <<ask, backend, redisUp, now, at, lim, caches>>
    BY <1>1, <1>3
  <2>3. QED
    BY <2>1, <2>2, PastStep
<1>4. QED
  BY <1>2, <1>3 DEF hit

\* Authentication and the endpoints do not touch the limiter.
LEMMA EndpointLeavesLimiter ==
    ASSUME NEW r \in Request,
           \/ Authenticate(r) \/ get_job(r) \/ CancelRead(r) \/ cancel_job(r) \/ refresh(r)
           \/ retry_job(r) \/ list_failed(r) \/ create_job(r) \/ insert(r) \/ enqueue(r)
           \/ to_job_schema(r) \/ list_order_jobs(r) \/ database_error(r)
    PROVE  /\ UNCHANGED <<ask, backend, redisUp, now, at, lim, caches>>
           /\ \E place \in Place \ Limiting : pc' = [pc EXCEPT ![r] = place]
<1>1. UNCHANGED <<ask, backend, redisUp, now, at, lim, caches>>
  BY DEF Authenticate, get_job, CancelRead, cancel_job, refresh, retry_job, list_failed,
         create_job, insert, enqueue, to_job_schema, list_order_jobs, database_error,
         Sessions, given, hits
<1>2. \E place \in InBody \cup {"body", "done"} : pc' = [pc EXCEPT ![r] = place]
  BY DEF Authenticate, get_job, CancelRead, cancel_job, refresh, retry_job, list_failed,
         create_job, insert, enqueue, to_job_schema, list_order_jobs, database_error, Goes,
         Goto, Fails, Missing, InBody
<1>3. InBody \cup {"body", "done"} \subseteq Place \ Limiting
  BY DEF Place, Limiting, InBody
<1>4. QED
  BY <1>1, <1>2, <1>3

\* Time passes: whoever counts in the window that ends one later counted before.
LEMMA TickStep ==
    ASSUME LimiterInv, Tick
    PROVE  LimiterInv'
<1> USE DEF LimiterInv, LimiterType, Tick, given, caches, hits
<1>1. now \in Nat /\ now' = now + 1 /\ now' <= MaxTime /\ UNCHANGED <<at, lim, ask>>
  BY NoneIsNoStore
<1>2. \A s, i, t : Counted(s, i, t)' = Counted(s, i, t)
  BY DEF Counted, _identity
<1>3. ASSUME NEW s \in Store, NEW t \in 0..now', NEW i
      PROVE  Cardinality(Counted(s, i, t)) <= Limit
  <2>1. CASE t <= now
    BY <1>1, <2>1 DEF StoreBound
  <2>2. CASE t = now + 1
    <3>1. ASSUME NEW q \in Counted(s, i, t) PROVE q \in Counted(s, i, now)
      <4>1. q \in Request /\ at[q] <= now + 1 /\ at[q] + Window >= now + 1 /\ at[q] \in Nat
        BY <2>2, <3>1 DEF Counted
      <4>2. at[q] <= now
        BY <1>1, <4>1, NoneIsNoStore DEF HitInv
      <4>3. QED
        BY <1>1, <3>1, <4>1, <4>2, NoneIsNoStore DEF Counted
    <3>2. Cardinality(Counted(s, i, t)) <= Cardinality(Counted(s, i, now))
      BY <3>1, CountedType, FS_Subset
    <3>3. Cardinality(Counted(s, i, now)) <= Limit
      BY <1>1 DEF StoreBound
    <3>4. QED
      BY <3>2, <3>3, CountedType, NoneIsNoStore
  <2>3. QED
    BY <1>1, <2>1, <2>2
<1>4. StoreBound'
  BY <1>2, <1>3 DEF StoreBound
<1>5. LimiterType' /\ OneStore'
  BY <1>1, NoneIsNoStore DEF OneStore
<1>6. ASSUME NEW q \in Request PROVE HitInv(q)'
  BY <1>1, NoneIsNoStore DEF HitInv, P
<1>7. QED
  BY <1>4, <1>5, <1>6

LEMMA InitLimiter == Init => LimiterInv
<1> SUFFICES ASSUME Init PROVE LimiterInv
  OBVIOUS
<1>1. PICK l \in Load : ask = l.ask /\ backend = l.backend
  BY DEF Init
<1>2. ask \in [Request -> Ask] /\ backend \in Backend
  BY <1>1, ApiAssumption
<1>3. LimiterType
  BY <1>2, NoneIsNoStore DEF Init, LimiterType, Place
<1>4. OneStore /\ \A r \in Request : HitInv(r)
  BY <1>3, NoneIsNoStore DEF Init, OneStore, HitInv, LimiterType, P, Ask
<1>5. ASSUME NEW s \in Store, NEW t \in 0..now, NEW i
      PROVE  Cardinality(Counted(s, i, t)) <= Limit
  <2>1. Counted(s, i, t) = {}
    BY NoneIsNoStore DEF Init, Counted
  <2>2. QED
    BY <2>1, FS_EmptySet, NoneIsNoStore
<1>6. QED
  BY <1>3, <1>4, <1>5 DEF LimiterInv, StoreBound

LEMMA StillLimiter ==
    ASSUME LimiterInv,
           UNCHANGED <<ask, backend, now, pc, caches, hits>>, redisUp' \in BOOLEAN
    PROVE  LimiterInv'
<1>1. \A s, i, t : Counted(s, i, t)' = Counted(s, i, t)
  BY DEF Counted, _identity, hits
<1>2. StoreBound'
  BY <1>1 DEF StoreBound, LimiterInv
<1>3. LimiterType' /\ OneStore'
  BY DEF LimiterInv, LimiterType, OneStore, caches, hits
<1>4. \A q \in Request : HitInv(q)'
  BY DEF LimiterInv, HitInv, P, caches, hits
<1>5. QED
  BY <1>2, <1>3, <1>4 DEF LimiterInv

LEMMA LimiterHolds == Spec => []LimiterInv
<1>1. LimiterInv /\ [Next]_vars => LimiterInv'
  <2> SUFFICES ASSUME LimiterInv, [Next]_vars PROVE LimiterInv'
    OBVIOUS
  <2>1. ASSUME NEW r \in Request, Serve(r) PROVE LimiterInv'
    <3>1. CASE _moving_window(r) \/ _storage(r) \/ MakeStorage(r) \/ MakeWindow(r)
      BY <3>1, CacheStep
    <3>2. CASE hit(r)
      BY <3>2, HitStep
    <3>3. CASE ~(_moving_window(r) \/ _storage(r) \/ MakeStorage(r) \/ MakeWindow(r) \/ hit(r))
      BY <2>1, <3>3, EndpointLeavesLimiter, PastStep DEF Serve
    <3>4. QED
      BY <3>1, <3>2, <3>3
  <2>2. CASE Tick
    BY <2>2, TickStep
  <2>3. CASE RedisStops \/ UNCHANGED vars
    <3>1. UNCHANGED <<ask, backend, now, pc, caches, hits>> /\ redisUp' \in BOOLEAN
      BY <2>3 DEF RedisStops, vars, given, LimiterInv, LimiterType
    <3>2. QED
      BY <3>1, StillLimiter
  <2>4. CASE \E d \in Delivery : Work(d)
    <3>1. UNCHANGED <<ask, backend, redisUp, now, pc, caches, hits>>
      BY <2>4, WorkerOnly DEF given
    <3>2. QED
      BY <3>1, StillLimiter DEF LimiterInv, LimiterType
  <2>5. QED
    BY <2>1, <2>2, <2>3, <2>4 DEF Next
<1>2. QED
  BY <1>1, InitLimiter, PTL DEF Spec

-----------------------------------------------------------------------------
(* What the limiter lets through *)

\* A finite set dealt out so that nobody gets more than n of it.
LEMMA DealtOut ==
    ASSUME NEW A, NEW D, IsFiniteSet(A), IsFiniteSet(D), NEW n \in Nat, NEW f \in [A -> D],
           \A d \in D : Cardinality({a \in A : f[a] = d}) <= n
    PROVE  Cardinality(A) <= n * Cardinality(D)
<1> DEFINE Share(d) == {a \in A : f[a] = d}
           Num(d)   == CHOOSE h \in [Share(d) -> 1..n] : IsInjective(h)
           e        == [a \in A |-> <<f[a], Num(f[a])[a]>>]
<1>1. ASSUME NEW d \in D
      PROVE  /\ Num(d) \in [Share(d) -> 1..n]
             /\ \A a, b \in Share(d) : Num(d)[a] = Num(d)[b] => a = b
  <2> DEFINE S == Share(d)
             c == Cardinality(S)
  <2>1. IsFiniteSet(S) /\ S \in SUBSET A
    BY FS_Subset
  <2>2. c <= n
    OBVIOUS
  <2> HIDE DEF S
  <2>3. c \in Nat /\ ExistsBijection(1..c, S)
    BY <2>1, FS_CardinalityType
  <2>4. ExistsBijection(S, 1..c)
    BY <2>3, Fun_ExistsBijSymmetric
  <2>5. PICK h : h \in Bijection(S, 1..c)
    BY <2>4 DEF ExistsBijection
  <2>6. h \in [S -> 1..c] /\ IsInjective(h)
    BY <2>5 DEF Bijection, Injection
  <2>7. h \in [S -> 1..n]
    BY <2>2, <2>3, <2>6
  <2>8. \E g \in [Share(d) -> 1..n] : IsInjective(g)
    BY <2>6, <2>7 DEF S
  <2>9. Num(d) \in [Share(d) -> 1..n] /\ IsInjective(Num(d))
    BY <2>8
  <2>10. QED
    BY <2>9 DEF IsInjective
<1>2. ASSUME NEW a \in A PROVE f[a] \in D /\ a \in Share(f[a])
  OBVIOUS
<1> HIDE DEF Num
<1>3. e \in [A -> D \X (1..n)]
  <2>1. ASSUME NEW a \in A PROVE <<f[a], Num(f[a])[a]>> \in D \X (1..n)
    <3>1. Num(f[a]) \in [Share(f[a]) -> 1..n]
      BY <1>1, <1>2
    <3>2. Num(f[a])[a] \in 1..n
      BY <1>2, <3>1
    <3>3. QED
      BY <3>2
  <2>2. QED
    BY <2>1
<1>4. ASSUME NEW a \in A, NEW b \in A, e[a] = e[b] PROVE a = b
  <2>1. f[a] = f[b] /\ Num(f[a])[a] = Num(f[b])[b]
    BY <1>4
  <2>2. a \in Share(f[a]) /\ b \in Share(f[a]) /\ f[a] \in D
    BY <1>2, <2>1
  <2>3. QED
    BY <1>1, <2>1, <2>2
<1>5. e \in Injection(A, D \X (1..n))
  <2> HIDE DEF e
  <2>1. IsInjective(e)
    BY <1>3, <1>4 DEF IsInjective
  <2>2. QED
    BY <1>3, <2>1 DEF Injection
<1> HIDE DEF e
<1>6. IsFiniteSet(1..n) /\ Cardinality(1..n) = n
  BY FS_Interval
<1>7. /\ IsFiniteSet(D \X (1..n))
      /\ Cardinality(D \X (1..n)) = Cardinality(D) * n
  BY <1>6, FS_Product
<1>8. Cardinality(A) <= Cardinality(D \X (1..n))
  BY <1>5, <1>7, FS_Injection
<1>9. Cardinality(D) \in Nat /\ Cardinality(A) \in Nat
  BY FS_CardinalityType
<1>10. Cardinality(D) * n = n * Cardinality(D)
  BY <1>9
<1>11. QED
  BY <1>7, <1>8, <1>10

\* rate_limit: with Redis the limit holds over all processes; without it over
\* each process, but for the first requests of a process that made a store of
\* their own.  For any number of requests, processes and identities.
THEOREM LimitHolds == Spec => []WindowBound
<1>1. LimiterInv => WindowBound
  <2> SUFFICES ASSUME LimiterInv, NEW r \in Request, at[r] <= MaxTime
               PROVE  Cardinality(Admitted(r)) <=
                        IF backend = "redis" THEN Limit
                        ELSE Limit * Cardinality(Process) + Cardinality(Stray)
    BY DEF WindowBound
  <2> DEFINE i == _identity(r)
             t == at[r]
  <2>1. /\ t \in 0..now /\ t \in Nat /\ t <= MaxTime
        /\ \A s \in Store : Cardinality(Counted(s, i, t)) <= Limit
    BY NoneIsNoStore DEF LimiterInv, LimiterType, HitInv, StoreBound
  <2>2. \A q \in Admitted(r) : q \in Request /\ at[q] <= MaxTime /\ lim[q] \in Store
                               /\ q \in Counted(lim[q], i, t)
    BY <2>1, NoneIsNoStore DEF Admitted, Counted, LimiterInv, LimiterType, HitInv
  <2>3. CASE backend = "redis"
    <3>1. Admitted(r) \subseteq Counted("redis", i, t)
      BY <2>2, <2>3, NoneIsNoStore DEF LimiterInv, OneStore
    <3>2. Cardinality(Admitted(r)) <= Cardinality(Counted("redis", i, t))
      BY <3>1, CountedType, FS_Subset
    <3>3. Cardinality(Counted("redis", i, t)) <= Limit /\ IsFiniteSet(Admitted(r))
      BY <2>1, <3>1, CountedType, FS_Subset DEF Store
    <3>4. Cardinality(Admitted(r)) \in Nat
      BY <3>3, FS_CardinalityType
    <3>5. QED
      BY <2>3, <3>2, <3>3, <3>4, CountedType, NoneIsNoStore
  <2>4. CASE backend # "redis"
    <3> DEFINE A == Admitted(r) \ Stray
               f == [q \in A |-> P(q)]
    <3>1. IsFiniteSet(Request) /\ IsFiniteSet(Process)
      BY ApiAssumption
    <3>2. IsFiniteSet(A) /\ IsFiniteSet(Stray) /\ IsFiniteSet(Admitted(r))
      <4>1. A \subseteq Request /\ Stray \subseteq Request /\ Admitted(r) \subseteq Request
        BY DEF Admitted, Stray, LimiterInv, LimiterType
      <4>2. QED
        BY <3>1, <4>1, FS_Subset
    <3>3. f \in [A -> Process]
      BY <2>2 DEF P, Ask, LimiterInv, LimiterType
    <3>4. ASSUME NEW p \in Process PROVE Cardinality({q \in A : f[q] = p}) <= Limit
      <4> DEFINE S == {q \in A : f[q] = p}
      <4>1. \A q \in S : lim[q] = window[p]
        BY <2>2, NoneIsNoStore DEF Stray, LimiterInv, HitInv
      <4>2. \A q \in S : q \in Counted(window[p], i, t) /\ window[p] \in Store
        BY <2>2, <4>1
      <4> HIDE DEF S
      <4>3. CASE S = {}
        <5>1. Cardinality(S) = 0
          BY <4>3, FS_EmptySet
        <5>2. QED
          BY <5>1, NoneIsNoStore DEF S
      <4>4. CASE S # {}
        <5>1. S \subseteq Counted(window[p], i, t) /\ window[p] \in Store
          BY <4>2, <4>4
        <5>2. Cardinality(S) <= Cardinality(Counted(window[p], i, t)) /\ IsFiniteSet(S)
          BY <5>1, CountedType, FS_Subset
        <5>3. Cardinality(Counted(window[p], i, t)) <= Limit /\ Cardinality(S) \in Nat
          BY <2>1, <5>1, <5>2, FS_CardinalityType
        <5>4. QED
          BY <5>2, <5>3, CountedType, NoneIsNoStore DEF S
      <4>5. QED
        BY <4>3, <4>4
    <3> HIDE DEF f
    <3>5. Cardinality(A) <= Limit * Cardinality(Process)
      BY <3>1, <3>2, <3>3, <3>4, DealtOut, NoneIsNoStore
    <3> HIDE DEF A
    <3>6. /\ IsFiniteSet(A \cup Stray)
          /\ Cardinality(A \cup Stray) = Cardinality(A) + Cardinality(Stray)
                                           - Cardinality(A \cap Stray)
      BY <3>2, FS_Union
    <3>7. A \cap Stray = {} /\ Admitted(r) \subseteq A \cup Stray
      BY DEF A
    <3>8. Cardinality(A \cap Stray) = 0
      BY <3>7, FS_EmptySet
    <3>9. Cardinality(Admitted(r)) <= Cardinality(A \cup Stray)
      BY <3>6, <3>7, FS_Subset
    <3>10. /\ Cardinality(A) \in Nat /\ Cardinality(Stray) \in Nat
           /\ Cardinality(Admitted(r)) \in Nat /\ Cardinality(Process) \in Nat
      BY <3>1, <3>2, FS_CardinalityType
    <3> DEFINE L == Limit * Cardinality(Process)
    <3>11. L \in Nat
      BY <3>10, NoneIsNoStore
    <3>12. Cardinality(A) <= L
      BY <3>5
    <3> HIDE DEF L
    <3>13. Cardinality(Admitted(r)) <= L + Cardinality(Stray)
      BY <3>6, <3>8, <3>9, <3>10, <3>11, <3>12
    <3>14. QED
      BY <2>4, <3>13 DEF L
  <2>5. QED
    BY <2>3, <2>4
<1>2. QED
  BY <1>1, LimiterHolds, PTL
=============================================================================
