---------------------------- MODULE JobCreation -----------------------------
(***************************************************************************)
(* create_job and retry_job: concurrent requests of one tenant against one *)
(* table, the idempotency pre-check, the unique constraint that settles    *)
(* the race, the publication after the commit, and the reaper that makes   *)
(* up for a publication that never happened.                               *)
(*                                                                         *)
(* A job is named by the request that created it.  A client that repeats a *)
(* request sends a new one with the same key.                              *)
(***************************************************************************)
EXTENDS Naturals

CONSTANTS
    Request,
    Key, NoKey, KeyOf,      \* X-Idempotency-Key of each request, or none
    NoRequest, OriginalOf,  \* the job a retry is about; NoRequest for a create
    Type, Asked,            \* document types, and the ones each request lists;
                            \* {} is an empty list, and no list for a retry
    MaxMessages             \* bound: the reaper publishes below this many

ASSUME CreationAssumption ==
    /\ NoKey \notin Key
    /\ NoRequest \notin Request /\ NoRequest \notin {"error", "conflict"}
    /\ Request \cap {"error", "conflict"} = {}
    /\ KeyOf \in [Request -> Key \cup {NoKey}]
    /\ OriginalOf \in [Request -> Request \cup {NoRequest}]
    /\ Asked \in [Request -> SUBSET Type]
    /\ \A r \in Request : OriginalOf[r] # NoRequest => KeyOf[r] = NoKey
    /\ Type # {}
    /\ MaxMessages \in Nat

VARIABLES
    pc,        \* where each request is
    types,     \* the document types it is going to create
    table,     \* committed research_jobs rows
    docs,      \* types with a committed research_documents row, per job
    reply,     \* what the client was told: a job, a refusal, or nothing yet
    status,    \* of each job's work, as a retry reads it
    failed,    \* its failed documents
    messages   \* task messages waiting for it

store == <<table, docs>>
work  == <<status, failed>>
vars  == <<pc, types, store, reply, work, messages>>

Init ==
    /\ pc = [r \in Request |-> "start"]
    /\ types = [r \in Request |-> {}]
    /\ table = {}
    /\ docs = [r \in Request |-> {}]
    /\ reply = [r \in Request |-> NoRequest]
    /\ status = [r \in Request |-> "queued"]
    /\ failed = [r \in Request |-> {}]
    /\ messages = [r \in Request |-> 0]

Goto(r, place) == pc' = [pc EXCEPT ![r] = place]

Respond(r, answer) == Goto(r, "done") /\ reply' = [reply EXCEPT ![r] = answer]

\* get_by_idempotency: the committed jobs with the request's key.
get_by_idempotency(r) == {j \in table : KeyOf[j] = KeyOf[r]}

Keyed(r) == KeyOf[r] # NoKey

-----------------------------------------------------------------------------
(* retry_job, up to its call of create_job *)

\* The original must be in a terminal status; otherwise the retry is refused.
ReadOriginal(r) ==
    LET o == OriginalOf[r]
    IN  /\ pc[r] = "start" /\ o # NoRequest
        /\ \/ /\ o \in table /\ status[o] = "ended"
              /\ Goto(r, "failed")
              /\ UNCHANGED reply
           \/ /\ o \notin table \/ status[o] # "ended"
              /\ Respond(r, "error")
        /\ UNCHANGED <<types, store, work, messages>>

\* Mutant: the caller's document types are taken as they come.
ReadFailedUnfiltered(r) ==
    LET wanted == IF Asked[r] = {} THEN failed[OriginalOf[r]] ELSE Asked[r]
    IN  /\ pc[r] = "failed"
        /\ \/ /\ wanted # {}
              /\ types' = [types EXCEPT ![r] = wanted]
              /\ Goto(r, "checked")
              /\ UNCHANGED reply
           \/ /\ wanted = {}
              /\ Respond(r, "error")
              /\ UNCHANGED types
        /\ UNCHANGED <<store, work, messages>>

\* list_failed, then the caller's selection of them; nothing left is refused.
ReadFailed(r) ==
    LET wanted == IF Asked[r] = {} THEN failed[OriginalOf[r]]
                  ELSE Asked[r] \cap failed[OriginalOf[r]]
    IN  /\ pc[r] = "failed"
        /\ \/ /\ wanted # {}
              /\ types' = [types EXCEPT ![r] = wanted]
              /\ Goto(r, "checked")
              /\ UNCHANGED reply
           \/ /\ wanted = {}
              /\ Respond(r, "error")
              /\ UNCHANGED types
        /\ UNCHANGED <<store, work, messages>>

-----------------------------------------------------------------------------
(* create_job *)

\* _validate_doc_types: no list means every type.
Validate(r) ==
    /\ pc[r] = "start" /\ OriginalOf[r] = NoRequest
    /\ types' = [types EXCEPT ![r] = IF Asked[r] = {} THEN Type ELSE Asked[r]]
    /\ Goto(r, "checked")
    /\ UNCHANGED <<store, reply, work, messages>>

\* _resolve_order and _validate_doc_types raise: the order is unknown or has no
\* address, or a type is unknown.  A retry gets here with its types chosen.
Reject(r) ==
    /\ pc[r] = IF OriginalOf[r] = NoRequest THEN "start" ELSE "checked"
    /\ Respond(r, "error")
    /\ UNCHANGED <<types, store, work, messages>>

\* The pre-check: a job of the key that is already visible is the answer.
PreCheck(r) ==
    /\ pc[r] = "checked"
    /\ \/ /\ Keyed(r)
          /\ \E j \in get_by_idempotency(r) : Respond(r, j)
       \/ /\ Keyed(r) => get_by_idempotency(r) = {}
          /\ Goto(r, "insert")
          /\ UNCHANGED reply
    /\ UNCHANGED <<types, store, work, messages>>

\* Requests whose uncommitted insert holds the key's entry in the index.
Holders(r) ==
    {q \in Request \ {r} : pc[q] \in {"inserted", "flushed"} /\ KeyOf[q] = KeyOf[r]}

\* Mutant: the table has no unique constraint on (tenant_id, idempotency_key).
InsertUnconstrained(r) ==
    /\ pc[r] = "insert"
    /\ Goto(r, "inserted")
    /\ UNCHANGED <<types, store, reply, work, messages>>

\* INSERT of the job row.  The unique index makes it wait for an uncommitted
\* insert of the same key, and fail after a committed one (a request without a
\* key gets a fresh one).
Insert(r) ==
    /\ pc[r] = "insert"
    /\ Keyed(r) => Holders(r) = {}
    /\ \/ Keyed(r) /\ get_by_idempotency(r) # {} /\ Goto(r, "conflict")
       \/ (Keyed(r) => get_by_idempotency(r) = {}) /\ Goto(r, "inserted")
    /\ UNCHANGED <<types, store, reply, work, messages>>

\* Mutant: the job row is committed before its documents are inserted.
InsertDocsCommitsEarly(r) ==
    /\ pc[r] = "inserted"
    /\ table' = table \cup {r}
    /\ Goto(r, "flushed")
    /\ UNCHANGED <<types, docs, reply, work, messages>>

\* INSERT of the document rows, in the same transaction.
InsertDocs(r) ==
    /\ pc[r] = "inserted"
    /\ Goto(r, "flushed")
    /\ UNCHANGED <<types, store, reply, work, messages>>

\* db.commit: the job and its documents become visible together.
Commit(r) ==
    /\ pc[r] = "flushed"
    /\ table' = table \cup {r}
    /\ docs' = [docs EXCEPT ![r] = types[r]]
    /\ Goto(r, "publish")
    /\ UNCHANGED <<types, reply, work, messages>>

\* Mutant: the handler gives up without looking the winner's job up.
RecoverGivesUp(r) ==
    /\ pc[r] = "conflict"
    /\ Respond(r, "conflict")
    /\ UNCHANGED <<types, store, work, messages>>

\* IntegrityError: rollback, then the winner's job is the answer if it is
\* there, and IdempotencyConflictError if it is not.
Recover(r) ==
    /\ pc[r] = "conflict"
    /\ \E answer \in IF get_by_idempotency(r) # {} THEN get_by_idempotency(r)
                     ELSE {"conflict"} : Respond(r, answer)
    /\ UNCHANGED <<types, store, work, messages>>

\* enqueue publishes the task and the request is answered with its own job.
Publish(r) ==
    /\ pc[r] = "publish"
    /\ messages' = [messages EXCEPT ![r] = @ + 1]
    /\ Respond(r, r)
    /\ UNCHANGED <<types, store, work>>

\* The process dies, or the broker refuses: uncommitted rows are rolled back,
\* committed ones stay, the client gets an error or nothing.
Abort(r) ==
    /\ pc[r] # "done"
    /\ Respond(r, "error")
    /\ UNCHANGED <<types, store, work, messages>>

-----------------------------------------------------------------------------
(* What happens to a job after it is committed, as this module sees it *)

\* Mutant: the sweep does not publish.
ReapNothing(j) ==
    /\ j \in table /\ status[j] = "queued"
    /\ messages[j] < MaxMessages
    /\ UNCHANGED vars

\* The reaper publishes a job that is still queued.
Reap(j) ==
    /\ j \in table /\ status[j] = "queued"
    /\ messages[j] < MaxMessages
    /\ messages' = [messages EXCEPT ![j] = @ + 1]
    /\ UNCHANGED <<pc, types, store, reply, work>>

\* A worker takes a message and the job runs (again, if it had ended).
Start(j) ==
    /\ messages[j] > 0
    /\ messages' = [messages EXCEPT ![j] = @ - 1]
    /\ status' = [status EXCEPT ![j] = "running"]
    /\ UNCHANGED <<pc, types, store, reply, failed>>

\* The run ends with some of its documents failed.
End(j) ==
    /\ status[j] = "running"
    /\ status' = [status EXCEPT ![j] = "ended"]
    /\ \E F \in SUBSET docs[j] : failed' = [failed EXCEPT ![j] = F]
    /\ UNCHANGED <<pc, types, store, reply, messages>>

Serve(r) ==
    \/ ReadOriginal(r)
    \/ ReadFailed(r)
    \/ Validate(r)
    \/ PreCheck(r)
    \/ Insert(r)
    \/ InsertDocs(r)
    \/ Commit(r)
    \/ Recover(r)
    \/ Publish(r)

Next == \E r \in Request :
    \/ Serve(r) \/ Reject(r) \/ Abort(r)
    \/ Reap(r) \/ Start(r) \/ End(r)

Spec == Init /\ [][Next]_vars

\* A request that is not aborted goes on, Celery Beat runs the reaper, a
\* worker is there for a message.  Aborts are never obliged to happen.
Fairness == \A r \in Request :
    WF_vars(Serve(r)) /\ WF_vars(Reap(r)) /\ WF_vars(Start(r)) /\ WF_vars(End(r))

FairSpec == Spec /\ Fairness

-----------------------------------------------------------------------------
(* Type *)

Place == {"start", "failed", "checked", "insert", "inserted", "flushed",
          "conflict", "publish", "done"}

\* Every variable has its type: no message is taken that was not published, and
\* only a retry looks for failed documents.
TypeOK ==
    /\ pc \in [Request -> Place]
    /\ types \in [Request -> SUBSET Type]
    /\ table \subseteq Request
    /\ docs \in [Request -> SUBSET Type]
    /\ reply \in [Request -> Request \cup {NoRequest, "error", "conflict"}]
    /\ status \in [Request -> {"queued", "running", "ended"}]
    /\ failed \in [Request -> SUBSET Type]
    /\ messages \in [Request -> Nat]
    /\ \A r \in Request : pc[r] = "failed" => OriginalOf[r] \in Request

-----------------------------------------------------------------------------
(* Safety *)

\* create_job: however requests with one key race, the tenant has at most one
\* job with that key.
OneJobPerKey ==
    \A i, j \in table : Keyed(i) /\ KeyOf[i] = KeyOf[j] => i = j

\* The IntegrityError handler: a request that loses the race always finds the
\* winner's job, so the 409 at its end is never sent.
NoSpuriousConflict == \A r \in Request : reply[r] # "conflict"

\* create_job commits once: a visible job has exactly the document rows its
\* request chose, and at least one.
JobHasItsDocuments ==
    \A j \in table : docs[j] = types[j] /\ docs[j] # {}

\* retry_job: a retry re-fetches only documents of the original job.
RetryStaysInside ==
    \A j \in table : OriginalOf[j] # NoRequest => docs[j] \subseteq docs[OriginalOf[j]]

\* The job that holds a key, as IdempotentCreate sees it.
Owner(k) ==
    IF \E j \in table : KeyOf[j] = k THEN CHOOSE j \in table : KeyOf[j] = k
    ELSE NoRequest

\* What the client was told, with every refusal as an error.
Told(r) == IF reply[r] = "conflict" THEN "error" ELSE reply[r]

Abstract == INSTANCE IdempotentCreate
    WITH owner <- [k \in Key |-> Owner(k)],
         reply <- [r \in Request |-> Told(r)]

\* create_job implements the promise: a key is claimed once and for good, and
\* every successful answer to a request with that key is the claimant's job.
Idempotent == Abstract!Spec

-----------------------------------------------------------------------------
(* Liveness, under FairSpec *)

\* create_job / reaper: a committed job reaches a worker although its request
\* may have died, or the broker refused, before the publication.
CommittedIsStarted ==
    \A j \in Request : j \in table ~> status[j] # "queued"

=============================================================================
