----------------------------- MODULE ApiRequest -----------------------------
(***************************************************************************)
(* The HTTP surface: requests of several tenants on several API processes, *)
(* from the rate limiter through authentication and the service call to    *)
(* the answer, beside the workers that change the same rows.               *)
(*                                                                         *)
(* Dependencies are plain functions and run in threads; an endpoint body   *)
(* is a coroutine without an await, so a process runs one at a time.  Each *)
(* query reads what is committed when it runs.  A new job is named by the  *)
(* request that made it; Seed was there before.                            *)
(***************************************************************************)
EXTENDS Naturals, FiniteSets

CONSTANTS
    Request, Process,
    Tenant, Order, OwnerOf,   \* the tenant of each order
    Blank,                    \* orders without an address
    Type, Unknown,            \* document types, and a name that is not one
    Key, None, Seed,
    Load,                     \* deployments, what their clients ask, Seed's row,
                              \* and the publications the broker loses
    Delivery, JobOf,          \* bound: deliveries of tasks, each of one job
    Limit, Window, MaxTime    \* requests per window, its length, bound on time

\* A client's request: the process that gets it, the X-Tenant-Id header, the
\* tenant claim of the token, whether the actor is known, and the arguments.
Ask == [op : {"create", "get", "retry", "cancel", "list"}, proc : Process,
        head : Tenant \cup {"junk", None}, claim : Tenant \cup {None},
        actor : BOOLEAN, job : Request \cup {Seed}, order : Order,
        key : Key \cup {None}, types : SUBSET (Type \cup {Unknown})]

Backend   == {"off", "redis", "memory"}
Job       == Request \cup {Seed}
JobStatus == {"queued", "running", "cancelling", "cancelled", "completed",
              "partial", "failed"}
DocStatus == {"none", "queued", "fetching", "uploaded", "failed", "skipped"}
JobRow    == [tenant : Tenant, order : Order, key : Key \cup {None},
              status : JobStatus, docs : [Type -> DocStatus]]

Cancellable == {"queued", "running", "cancelling"}
Retryable   == {"completed", "partial", "failed", "cancelled"}

Statuses(docs) == {docs[t] : t \in Type} \ {"none"}

\* A job that may be there before the first request: on an order of its tenant, and
\* either new or ended with its documents.
SeedRow ==
    {j \in JobRow : /\ OwnerOf[j.order] = j.tenant
                    /\ \/ j.status = "queued"
                       \/ /\ j.status \in Retryable
                          /\ {"queued", "fetching"} \cap Statuses(j.docs) = {}}

\* What a worker's session holds of a job: its row and documents as it read or
\* wrote them, the documents still to come, and the one being fetched.
Session == [status : JobStatus, docs : [Type -> DocStatus], left : SUBSET Type,
            doc : Type \cup {None}]

ASSUME ApiAssumption ==
    /\ None \notin Tenant \cup Key \cup JobRow \cup Request \cup Session \cup Type
                   \cup [id : Job, order : Order, status : JobStatus]
                   \cup [status : JobStatus, docs : [Type -> DocStatus]]
    /\ Seed \notin Request /\ "redis" \notin Request /\ None # "redis"
    /\ {"junk", "host"} \cap Tenant = {} /\ Unknown \notin Type
    /\ OwnerOf \in [Order -> Tenant] /\ Blank \subseteq Order
    /\ Load \subseteq [ask : [Request -> Ask], jwt : BOOLEAN, backend : Backend,
                       seed : SeedRow \cup {None}, lost : SUBSET Delivery]
    /\ IsFiniteSet(Request) /\ IsFiniteSet(Process)
    /\ JobOf \in [Delivery -> Job]
    /\ Limit \in Nat \ {0} /\ Window \in Nat /\ MaxTime \in Nat

VARIABLES
    ask, jwt,          \* the requests; is a Cognito pool configured
    backend, redisUp,  \* where hits are kept; does Redis answer
    now,
    storage, window,   \* lru_cache of _storage and _moving_window, per process
    cold,              \* history: requests that found no limiter there
    pc, lim, at,       \* of a request: its place, its limiter's store, its hit
    row, types,        \* the job row it holds, the types it will create
    code, seen, view,  \* its answer: HTTP status, jobs shown, status and docs
    wrote,             \* jobs it has written
    jobs,              \* the tables
    run,               \* of a delivery: lost, waiting, has read its job, going on, over
    session,           \* of a delivery: what its worker holds
    again              \* history: jobs delivered beside a run, or after one

given   == <<ask, jwt, backend>>
caches  == <<storage, window, cold>>
hits    == <<lim, at>>
local   == <<row, types>>
answer  == <<code, seen, view>>
runs    == <<run, session, again>>
tables  == <<jobs, wrote, runs>>
vars    == <<given, redisUp, now, caches, pc, hits, local, answer, tables>>

P(r) == ask[r].proc

Init ==
    /\ \E l \in Load :
         /\ ask = l.ask /\ jwt = l.jwt /\ backend = l.backend
         /\ jobs = [j \in Job |-> IF j = Seed THEN l.seed ELSE None]
         /\ run = [d \in Delivery |->
                     IF d \in l.lost THEN "lost"
                     ELSE IF JobOf[d] = Seed /\ l.seed # None /\ l.seed.status \in Retryable
                     THEN "over" ELSE "waiting"]
    /\ session = [d \in Delivery |-> None] /\ again = {}
    /\ redisUp = TRUE /\ now = 0
    /\ storage = [p \in Process |-> None] /\ window = [p \in Process |-> None]
    /\ cold = {}
    /\ pc = [r \in Request |->
                IF ask[r].op = "create" /\ backend # "off" THEN "limit" ELSE "auth"]
    /\ lim = [r \in Request |-> None] /\ at = [r \in Request |-> MaxTime + 1]
    /\ row = [r \in Request |-> None] /\ types = [r \in Request |-> {}]
    /\ code = [r \in Request |-> 0] /\ seen = [r \in Request |-> {}]
    /\ view = [r \in Request |-> None] /\ wrote = [r \in Request |-> {}]

Goto(r, place) == pc' = [pc EXCEPT ![r] = place]

\* The exception handlers of main: a raised error is answered with its status.
Fails(r, status) ==
    /\ Goto(r, "done")
    /\ code' = [code EXCEPT ![r] = status]
    /\ UNCHANGED <<seen, view>>

Goes(r, place) == Goto(r, place) /\ UNCHANGED answer

-----------------------------------------------------------------------------
(* rate_limit, a dependency of POST /jobs that runs before the others *)

\* _identity: the header as it comes, else the client's host.
_identity(r) == IF ask[r].head # None THEN ask[r].head ELSE "host"

\* Mutant: _moving_window without its lru_cache.
_moving_window_uncached(r) ==
    /\ pc[r] = "limit" /\ Goes(r, "build")
    /\ UNCHANGED <<given, redisUp, now, caches, hits, local, tables>>

\* _moving_window: the cached limiter, or the call that makes one.
_moving_window(r) ==
    /\ pc[r] = "limit"
    /\ \/ /\ window[P(r)] # None
          /\ lim' = [lim EXCEPT ![r] = window[P(r)]]
          /\ Goes(r, "hit") /\ UNCHANGED cold
       \/ /\ window[P(r)] = None
          /\ cold' = cold \cup {r}
          /\ Goes(r, "storage") /\ UNCHANGED lim
    /\ UNCHANGED <<given, redisUp, now, storage, window, at, local, tables>>

\* _storage, when _moving_window was not cached: the cached store, or none.
_storage(r) ==
    /\ pc[r] = "storage"
    /\ \/ /\ storage[P(r)] # None
          /\ lim' = [lim EXCEPT ![r] = storage[P(r)]] /\ Goes(r, "cache")
       \/ /\ storage[P(r)] = None
          /\ Goes(r, "build") /\ UNCHANGED lim
    /\ UNCHANGED <<given, redisUp, now, caches, at, local, tables>>

\* It makes a store of its own, which is cached unless another thread was first.
MakeStorage(r) ==
    LET made == IF backend = "redis" THEN "redis" ELSE r
    IN  /\ pc[r] = "build"
        /\ lim' = [lim EXCEPT ![r] = made]
        /\ storage' = [storage EXCEPT ![P(r)] = IF @ = None THEN made ELSE @]
        /\ Goes(r, "cache")
        /\ UNCHANGED <<given, redisUp, now, window, cold, at, local, tables>>

\* So is the limiter around it.
MakeWindow(r) ==
    /\ pc[r] = "cache"
    /\ window' = [window EXCEPT ![P(r)] = IF @ = None THEN lim[r] ELSE @]
    /\ Goes(r, "hit")
    /\ UNCHANGED <<given, redisUp, now, storage, cold, hits, local, tables>>

\* Requests whose hit the store of r counts against r now.
Recent(r) ==
    {q \in Request : /\ at[q] <= now /\ at[q] + Window >= now
                     /\ lim[q] = lim[r] /\ _identity(q) = _identity(r)}

\* hit, of the limits library: a full window refuses, and a refused request is
\* not counted.  A Redis that does not answer raises, and nothing catches it.
hit(r) ==
    /\ pc[r] = "hit"
    /\ \/ /\ lim[r] = "redis" /\ ~redisUp
          /\ Fails(r, 500) /\ UNCHANGED at
       \/ /\ lim[r] = "redis" => redisUp
          /\ Cardinality(Recent(r)) < Limit
          /\ at' = [at EXCEPT ![r] = now] /\ Goes(r, "auth")
       \/ /\ lim[r] = "redis" => redisUp
          /\ Cardinality(Recent(r)) >= Limit
          /\ Fails(r, 429) /\ UNCHANGED at
    /\ UNCHANGED <<given, redisUp, now, caches, lim, local, tables>>

-----------------------------------------------------------------------------
(* get_actor_id and get_tenant_id *)

\* The token's claim where a pool is configured, the header where none is.
get_tenant_id(r) ==
    IF jwt THEN ask[r].claim
    ELSE IF ask[r].head \in Tenant THEN ask[r].head ELSE None

Authenticate(r) ==
    /\ pc[r] = "auth"
    /\ \/ ask[r].actor /\ get_tenant_id(r) # None /\ Goes(r, "body")
       \/ ~(ask[r].actor /\ get_tenant_id(r) # None) /\ Fails(r, 401)
    /\ UNCHANGED <<given, redisUp, now, caches, hits, local, tables>>

-----------------------------------------------------------------------------
(* The endpoints.  A body starts when no other runs in its process. *)

InBody == {"cancel", "refresh", "failed", "create", "insert", "enqueue", "docs"}

Enters(r, op) ==
    /\ pc[r] = "body" /\ ask[r].op = op
    /\ \A q \in Request : pc[q] \in InBody => P(q) # P(r)

Row(j) == [id |-> j, order |-> jobs[j].order, status |-> jobs[j].status]

Holds(r, j) == row' = [row EXCEPT ![r] = Row(j)]

\* Mutant: the query is not scoped to the tenant.
GetAnyones(r) == {j \in {ask[r].job} : jobs[j] # None}

\* ResearchJobRepository.get: the asked job, if it is the tenant's.
Get(r) == {j \in {ask[r].job} : jobs[j] # None /\ jobs[j].tenant = get_tenant_id(r)}

Missing(r) == Get(r) = {} /\ Fails(r, 404) /\ UNCHANGED row

Sessions(r) == UNCHANGED <<given, redisUp, now, caches, hits>>

\* GET /jobs/{job_id}: the row; its documents are a second query.
get_job(r) ==
    /\ Enters(r, "get")
    /\ \/ Missing(r)
       \/ \E j \in Get(r) : Holds(r, j) /\ Goes(r, "docs")
    /\ Sessions(r) /\ UNCHANGED <<types, tables>>

\* Mutant: the status is written before it is looked at.
CancelEagerly(r) ==
    /\ Enters(r, "cancel")
    /\ \/ Missing(r) /\ UNCHANGED tables
       \/ \E j \in Get(r) :
            /\ jobs' = [jobs EXCEPT ![j].status = "cancelling"]
            /\ wrote' = [wrote EXCEPT ![r] = @ \cup {j}] /\ UNCHANGED runs
            /\ \/ jobs[j].status \in Cancellable /\ Holds(r, j) /\ Goes(r, "cancel")
               \/ jobs[j].status \notin Cancellable /\ Fails(r, 409) /\ UNCHANGED row
    /\ Sessions(r) /\ UNCHANGED types

\* POST /jobs/{job_id}/cancel reads the row ...
CancelRead(r) ==
    /\ Enters(r, "cancel")
    /\ \/ Missing(r)
       \/ \E j \in Get(r) : /\ jobs[j].status \in Cancellable
                            /\ Holds(r, j) /\ Goes(r, "cancel")
       \/ \E j \in Get(r) : /\ jobs[j].status \notin Cancellable
                            /\ Fails(r, 409) /\ UNCHANGED row
    /\ Sessions(r) /\ UNCHANGED <<types, tables>>

\* ... and commits a status decided from what it read.  A status that does not
\* change is not written.
cancel_job(r) ==
    LET j == row[r].id
    IN  /\ pc[r] = "cancel"
        /\ \/ /\ row[r].status = "queued"
              /\ jobs' = [jobs EXCEPT ![j].status = "cancelled"]
           \/ /\ row[r].status = "running"
              /\ jobs' = [jobs EXCEPT ![j].status = "cancelling"]
           \/ row[r].status = "cancelling" /\ UNCHANGED jobs
        /\ wrote' = [wrote EXCEPT ![r] = @ \cup {j}]
        /\ Goes(r, "refresh")
        /\ Sessions(r) /\ UNCHANGED <<local, runs>>

\* db.refresh after the commit.
refresh(r) ==
    /\ pc[r] = "refresh"
    /\ Holds(r, row[r].id) /\ Goes(r, "docs")
    /\ Sessions(r) /\ UNCHANGED <<types, tables>>

\* POST /jobs/{job_id}/retry reads the original ...
retry_job(r) ==
    /\ Enters(r, "retry")
    /\ \/ Missing(r)
       \/ \E j \in Get(r) : /\ jobs[j].status \in Retryable
                            /\ Holds(r, j) /\ Goes(r, "failed")
       \/ \E j \in Get(r) : /\ jobs[j].status \notin Retryable
                            /\ Fails(r, 409) /\ UNCHANGED row
    /\ Sessions(r) /\ UNCHANGED <<types, tables>>

\* ... then its failed documents, by job id alone, and creates a job of them.
list_failed(r) ==
    LET failed == {t \in Type : jobs[row[r].id].docs[t] = "failed"}
        wanted == IF ask[r].types = {} THEN failed ELSE ask[r].types \cap failed
    IN  /\ pc[r] = "failed"
        /\ \/ wanted # {} /\ types' = [types EXCEPT ![r] = wanted] /\ Goes(r, "create")
           \/ wanted = {} /\ Fails(r, 409) /\ UNCHANGED types
        /\ Sessions(r) /\ UNCHANGED <<row, tables>>

\* The order create_job is called with: the request's, or the original job's.
OrderOf(r) == IF ask[r].op = "retry" THEN row[r].order ELSE ask[r].order

KeyOf(r) == IF ask[r].op = "retry" THEN None ELSE ask[r].key

TypesOf(r) ==
    IF ask[r].op = "retry" THEN types[r]
    ELSE IF ask[r].types = {} THEN Type ELSE ask[r].types

\* get_by_idempotency
Existing(r) ==
    {j \in Job : /\ jobs[j] # None /\ KeyOf(r) # None
                 /\ jobs[j].key = KeyOf(r) /\ jobs[j].tenant = get_tenant_id(r)}

\* _resolve_order, by the order provider, and _validate_doc_types.
Refusal(r) ==
    IF OwnerOf[OrderOf(r)] # get_tenant_id(r) THEN 404
    ELSE IF OrderOf(r) \in Blank \/ Unknown \in TypesOf(r) THEN 422
    ELSE 0

\* create_job up to its pre-check: a job of the key is the answer.
create_job(r) ==
    /\ pc[r] = "create" \/ Enters(r, "create")
    /\ \/ Refusal(r) # 0 /\ Fails(r, Refusal(r)) /\ UNCHANGED local
       \/ /\ Refusal(r) = 0
          /\ \E j \in Existing(r) : Holds(r, j)
          /\ Goes(r, "docs") /\ UNCHANGED types
       \/ /\ Refusal(r) = 0 /\ Existing(r) = {}
          /\ types' = [types EXCEPT ![r] = TypesOf(r)]
          /\ Goes(r, "insert") /\ UNCHANGED row
    /\ Sessions(r) /\ UNCHANGED tables

NewJob(r) ==
    [tenant |-> get_tenant_id(r), order |-> OrderOf(r), key |-> KeyOf(r),
     status |-> "queued",
     docs |-> [t \in Type |-> IF t \in types[r] THEN "queued" ELSE "none"]]

\* The transaction: committed, or rolled back by the unique constraint, and then
\* the winner's job is the answer.
insert(r) ==
    /\ pc[r] = "insert"
    /\ \/ /\ \E j \in Existing(r) : Holds(r, j)
          /\ Goes(r, "docs") /\ UNCHANGED tables
       \/ /\ Existing(r) = {}
          /\ jobs' = [jobs EXCEPT ![r] = NewJob(r)]
          /\ wrote' = [wrote EXCEPT ![r] = {r}]
          /\ Goes(r, "enqueue") /\ UNCHANGED <<row, runs>>
    /\ Sessions(r) /\ UNCHANGED types

\* db.refresh, then the publication; a broker that refuses raises.
enqueue(r) ==
    /\ pc[r] = "enqueue"
    /\ \/ Holds(r, r) /\ Goes(r, "docs")
       \/ Fails(r, 500) /\ UNCHANGED row
    /\ Sessions(r) /\ UNCHANGED <<types, tables>>

\* to_job_schema: the row as it was read and the documents as they are now.
to_job_schema(r) ==
    LET j == row[r].id
    IN  /\ pc[r] = "docs" /\ Goto(r, "done")
        /\ code' = [code EXCEPT ![r] = 200]
        /\ seen' = [seen EXCEPT ![r] = {j}]
        /\ view' = [view EXCEPT ![r] = [status |-> row[r].status, docs |-> jobs[j].docs]]
        /\ Sessions(r) /\ UNCHANGED <<local, tables>>

\* GET /orders/{order_id}/jobs, with to_job_summary_schema: one query.
list_order_jobs(r) ==
    /\ Enters(r, "list")
    /\ Goto(r, "done") /\ code' = [code EXCEPT ![r] = 200]
    /\ seen' = [seen EXCEPT ![r] =
                  {j \in Job : /\ jobs[j] # None /\ jobs[j].order = ask[r].order
                               /\ jobs[j].tenant = get_tenant_id(r)}]
    /\ Sessions(r) /\ UNCHANGED <<view, local, tables>>

\* A query or a commit that fails in a body: rolled back, and answered by the
\* handler for everything unforeseen.
database_error(r) ==
    /\ pc[r] \in InBody \/ Enters(r, ask[r].op)
    /\ Fails(r, 500)
    /\ Sessions(r) /\ UNCHANGED <<local, tables>>

-----------------------------------------------------------------------------
(* The workers, as far as an answer shows them: deliveries of a job's task  *)
(* may be repeated after its end and may overlap.  JobLifecycle has more.   *)

Worker(d) == UNCHANGED <<given, redisUp, now, caches, pc, hits, local, answer, wrote>>

Becomes(d, place, s) ==
    run' = [run EXCEPT ![d] = place] /\ session' = [session EXCEPT ![d] = s]

Cancelled == {"cancelling", "cancelled"}

\* A commit writes the columns the session changed and leaves the others.
Written(before, after, stored) == IF before = after THEN stored ELSE after

Commits(j, before, after) ==
    jobs' = [jobs EXCEPT ![j].status = Written(before.status, after.status, @),
                         ![j].docs = [t \in Type |-> Written(before.docs[t], after.docs[t], @[t])]]

Active == {"read", "going"}

\* Is this a delivery beside a run of the job, or after one?
Redelivers(d) ==
    \E e \in Delivery : JobOf[e] = JobOf[d] /\ run[e] \in Active \cup {"over"}

Counts(d) == again' = IF Redelivers(d) THEN again \cup {JobOf[d]} ELSE again

\* A delivery of a job that is not cancelled: the worker reads row and documents.
deliver(d) ==
    LET j == JobOf[d]
    IN  /\ jobs[j] # None /\ run[d] \in {"waiting", "over"} /\ jobs[j].status \notin Cancelled
        /\ Becomes(d, "read", [status |-> jobs[j].status, docs |-> jobs[j].docs, doc |-> None,
                               left |-> {t \in Type : jobs[j].docs[t] # "none"}])
        /\ Counts(d) /\ Worker(d) /\ UNCHANGED jobs

\* A delivery of a cancelled job.
drain(d) ==
    LET j == JobOf[d]
    IN  /\ jobs[j] # None /\ run[d] \in {"waiting", "over"} /\ jobs[j].status \in Cancelled
        /\ jobs' = [jobs EXCEPT ![j].status = "cancelled",
                                ![j].docs = [t \in Type |-> IF @[t] = "none" THEN "none"
                                                            ELSE "skipped"]]
        /\ Becomes(d, "over", None) /\ Counts(d) /\ Worker(d)

\* running, over whatever was written since the row was read.
start(d) ==
    LET s == [session[d] EXCEPT !.status = "running"]
    IN  /\ run[d] = "read"
        /\ Commits(JobOf[d], session[d], s)
        /\ Becomes(d, "going", s) /\ Worker(d) /\ UNCHANGED again

\* A boundary: nothing is being fetched, and the row is read again.
Boundary(d) == run[d] = "going" /\ session[d].doc = None

Reread(d) == [session[d] EXCEPT !.status = jobs[JobOf[d]].status]

\* The next document, fetching.
begin(d) ==
    /\ Boundary(d) /\ Reread(d).status \notin Cancelled
    /\ \E t \in session[d].left :
         LET s == [Reread(d) EXCEPT !.docs[t] = "fetching", !.left = @ \ {t}, !.doc = t]
         IN  Commits(JobOf[d], Reread(d), s) /\ Becomes(d, "going", s)
    /\ Worker(d) /\ UNCHANGED again

\* Every document is committed on its own, before the terminal status.
fetch(d) ==
    /\ run[d] = "going" /\ session[d].doc # None
    /\ \E result \in {"uploaded", "failed"} :
         LET s == [session[d] EXCEPT !.docs[session[d].doc] = result, !.doc = None]
         IN  Commits(JobOf[d], session[d], s) /\ Becomes(d, "going", s)
    /\ Worker(d) /\ UNCHANGED again

resolve_job_terminal_status(status, docs) ==
    IF status = "cancelling" THEN "cancelled"
    ELSE IF Statuses(docs) = {} THEN "failed"
    ELSE IF "failed" \notin Statuses(docs) THEN "completed"
    ELSE IF Statuses(docs) \subseteq {"failed", "skipped"} THEN "failed"
    ELSE "partial"

Terminal(s) == [s EXCEPT !.status = resolve_job_terminal_status(s.status, s.docs)]

Ends(d, before, after) ==
    /\ Commits(JobOf[d], before, Terminal(after))
    /\ Becomes(d, "over", None) /\ Worker(d) /\ UNCHANGED again

\* Mutant: the terminal status is committed with documents still to fetch.
finish_early(d) == Boundary(d) /\ Ends(d, session[d], session[d])

\* The terminal status, over whatever was written since the last boundary.
finish(d) == Boundary(d) /\ session[d].left = {} /\ Ends(d, session[d], session[d])

\* A cancel seen at a boundary: the documents that are left are skipped and
\* committed with the terminal status.
skip_rest(d) ==
    /\ Boundary(d) /\ session[d].left # {} /\ Reread(d).status \in Cancelled
    /\ Ends(d, Reread(d),
            [Reread(d) EXCEPT !.docs = [t \in Type |-> IF t \in session[d].left THEN "skipped"
                                                       ELSE @[t]]])

\* A worker that dies, or an error that is retried: what it committed stays, and
\* the task is delivered again.
crash(d) ==
    /\ run[d] \in Active
    /\ Becomes(d, "waiting", None) /\ Worker(d) /\ UNCHANGED <<jobs, again>>

\* The reaper's sweep fails a running job; its documents stay as they are, and
\* its runs go on.
reap(j) ==
    /\ jobs[j] # None /\ jobs[j].status = "running"
    /\ jobs' = [jobs EXCEPT ![j].status = "failed"]
    /\ Worker(j) /\ UNCHANGED runs

RedisStops ==
    /\ redisUp /\ backend = "redis" /\ redisUp' = FALSE
    /\ UNCHANGED <<given, now, caches, pc, hits, local, answer, tables>>

Tick ==
    /\ backend # "off" /\ now < MaxTime /\ now' = now + 1
    /\ UNCHANGED <<given, redisUp, caches, pc, hits, local, answer, tables>>

Serve(r) ==
    \/ _moving_window(r) \/ _storage(r) \/ MakeStorage(r) \/ MakeWindow(r) \/ hit(r)
    \/ Authenticate(r)
    \/ get_job(r) \/ CancelRead(r) \/ cancel_job(r) \/ refresh(r)
    \/ retry_job(r) \/ list_failed(r)
    \/ create_job(r) \/ insert(r) \/ enqueue(r)
    \/ to_job_schema(r) \/ list_order_jobs(r) \/ database_error(r)

Work(d) ==
    \/ deliver(d) \/ drain(d) \/ start(d) \/ begin(d) \/ fetch(d)
    \/ finish(d) \/ skip_rest(d) \/ crash(d) \/ reap(JobOf[d])

Next ==
    \/ \E r \in Request : Serve(r)
    \/ \E d \in Delivery : Work(d)
    \/ RedisStops \/ Tick

Spec == Init /\ [][Next]_vars
-----------------------------------------------------------------------------
(* Safety *)

\* Who a request is: in production only the token says so.
Principal(r) == IF jwt THEN ask[r].claim ELSE ask[r].head

\* The repository's tenant filter, through every path: whatever a request is
\* shown or has written is a job of the tenant it authenticated as, on an order
\* of that tenant, also where documents are queried by job id alone.
TenantIsolation ==
    \A r \in Request : \A j \in seen[r] \cup wrote[r] :
        /\ jobs[j] # None
        /\ jobs[j].tenant = Principal(r)
        /\ OwnerOf[jobs[j].order] = Principal(r)

\* The error paths come before the first commit: a request that is refused
\* (401, 404, 409, 422, 429) has written nothing.
RefusedChangesNothing ==
    \A r \in Request : code[r] \in 400..499 => wrote[r] = {} /\ seen[r] = {}

\* to_job_schema reads the row before the documents, and workers commit in
\* between: an answer that says completed or partial shows no document queued,
\* and one being fetched only of a job whose task was delivered once more, beside
\* a run or after it (worker.py claims an ended job again).  One that says failed
\* may show any: the reaper fails a job whose documents are still queued.
SettledAnswer ==
    \A r \in Request :
        view[r] # None /\ view[r].status \in {"completed", "partial"} =>
            /\ "queued" \notin Statuses(view[r].docs)
            /\ "fetching" \in Statuses(view[r].docs) => seen[r] \subseteq again

\* Admitted requests of r's identity in the window that ends with r's hit.
Admitted(r) ==
    {q \in Request : /\ at[q] <= at[r] /\ at[q] + Window >= at[r]
                     /\ _identity(q) = _identity(r)}

\* First requests of a process that hit a store it did not keep.
Stray == {r \in cold : at[r] <= MaxTime /\ lim[r] # window[P(r)]}

\* rate_limit: with Redis the limit holds over all processes.  Without it each
\* process has its own store, and threads that find the caches empty at the same
\* time may each make one; nothing else is let through.
WindowBound ==
    \A r \in Request : at[r] <= MaxTime =>
        Cardinality(Admitted(r)) <=
            IF backend = "redis" THEN Limit
            ELSE Limit * Cardinality(Process) + Cardinality(Stray)
=============================================================================
