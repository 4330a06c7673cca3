------------------------- MODULE JobCreationProofs --------------------------
(***************************************************************************)
(* Theorems about JobCreation, for any requests, keys and document types.  *)
(***************************************************************************)
EXTENDS JobCreation, TLAPS

-----------------------------------------------------------------------------
(* Type correctness *)

LEMMA TypeStep == TypeOK /\ [Next]_vars => TypeOK'
<1> SUFFICES ASSUME TypeOK, [Next]_vars PROVE TypeOK'
  OBVIOUS
<1> USE CreationAssumption DEF TypeOK, Place, Goto, Respond, store, work
<1>1. ASSUME NEW r \in Request, ReadOriginal(r) PROVE TypeOK'
  BY <1>1 DEF ReadOriginal
<1>2. ASSUME NEW r \in Request, ReadFailed(r) PROVE TypeOK'
  <2>1. types' \in [Request -> SUBSET Type]
    <3>1. CASE types' = types
      BY <3>1
    <3>2. CASE types' # types
      <4>1. OriginalOf[r] \in Request
        BY <1>2 DEF ReadFailed
      <4>2. PICK W \in SUBSET Type : types' = [types EXCEPT ![r] = W]
        BY <1>2, <3>2, <4>1 DEF ReadFailed
      <4>3. QED
        BY <4>2
    <3>3. QED
      BY <3>1, <3>2
  <2>2. QED
    BY <1>2, <2>1 DEF ReadFailed
<1>3. ASSUME NEW r \in Request, Validate(r) PROVE TypeOK'
  BY <1>3 DEF Validate
<1>4. ASSUME NEW r \in Request, Reject(r) PROVE TypeOK'
  BY <1>4 DEF Reject
<1>5. ASSUME NEW r \in Request, PreCheck(r) PROVE TypeOK'
  BY <1>5 DEF PreCheck, get_by_idempotency
<1>6. ASSUME NEW r \in Request, Insert(r) PROVE TypeOK'
  BY <1>6 DEF Insert
<1>7. ASSUME NEW r \in Request, InsertDocs(r) PROVE TypeOK'
  BY <1>7 DEF InsertDocs
<1>8. ASSUME NEW r \in Request, Commit(r) PROVE TypeOK'
  BY <1>8 DEF Commit
<1>9. ASSUME NEW r \in Request, Recover(r) PROVE TypeOK'
  BY <1>9 DEF Recover, get_by_idempotency
<1>10. ASSUME NEW r \in Request, Publish(r) PROVE TypeOK'
  BY <1>10 DEF Publish
<1>11. ASSUME NEW r \in Request, Abort(r) PROVE TypeOK'
  BY <1>11 DEF Abort
<1>12. ASSUME NEW r \in Request, Reap(r) PROVE TypeOK'
  BY <1>12 DEF Reap
<1>13. ASSUME NEW r \in Request, Start(r) PROVE TypeOK'
  BY <1>13 DEF Start
<1>14. ASSUME NEW r \in Request, End(r) PROVE TypeOK'
  <2>1. failed' \in [Request -> SUBSET Type]
    BY <1>14 DEF End
  <2>2. QED
    BY <1>14, <2>1 DEF End
<1>15. ASSUME UNCHANGED vars PROVE TypeOK'
  BY <1>15 DEF vars
<1>16. QED
  BY <1>1, <1>2, <1>3, <1>4, <1>5, <1>6, <1>7, <1>8, <1>9, <1>10, <1>11, <1>12,
     <1>13, <1>14, <1>15 DEF Next, Serve

\* Every reachable state of the creation protocol is well typed.
THEOREM CreationTypeCorrect == Spec => []TypeOK
<1>1. Init => TypeOK
  BY CreationAssumption DEF Init, TypeOK, Place
<1>2. QED
  BY <1>1, TypeStep, PTL DEF Spec

-----------------------------------------------------------------------------
(* One job per key *)

\* The request's row is in the unique index: committed, or held by its
\* transaction.
InIndex(r) == r \in table \/ pc[r] \in {"inserted", "flushed"}

UniqueInv ==
    \A r, q \in Request :
        Keyed(r) /\ KeyOf[q] = KeyOf[r] /\ InIndex(r) /\ InIndex(q) => r = q

\* A request's place tells whether its row is committed and whether it has been
\* answered.
PlaceInv ==
    \A r \in Request :
        /\ pc[r] \notin {"publish", "done"} => r \notin table
        /\ pc[r] = "publish" => r \in table
        /\ pc[r] # "done" => reply[r] = NoRequest

\* The row that caused a conflict stays.
ConflictInv ==
    /\ \A r \in Request : pc[r] = "conflict" =>
          Keyed(r) /\ get_by_idempotency(r) # {}
    /\ NoSpuriousConflict

CreateInv == TypeOK /\ UniqueInv /\ PlaceInv /\ ConflictInv

LEMMA UniqueStep == CreateInv /\ [Next]_vars => UniqueInv'
<1> SUFFICES ASSUME CreateInv, [Next]_vars PROVE UniqueInv'
  OBVIOUS
<1> USE CreationAssumption DEF CreateInv, TypeOK, Place, UniqueInv, InIndex, Keyed,
      Goto, Respond, store, work
<1>1. ASSUME NEW r \in Request, ReadOriginal(r) PROVE UniqueInv'
  BY <1>1 DEF ReadOriginal
<1>2. ASSUME NEW r \in Request, ReadFailed(r) PROVE UniqueInv'
  <2>1. table' = table /\ (Goto(r, "checked") \/ Goto(r, "done"))
    BY <1>2 DEF ReadFailed
  <2>2. QED
    BY <2>1
<1>3. ASSUME NEW r \in Request, Validate(r) PROVE UniqueInv'
  BY <1>3 DEF Validate
<1>4. ASSUME NEW r \in Request, Reject(r) PROVE UniqueInv'
  BY <1>4 DEF Reject
<1>5. ASSUME NEW r \in Request, PreCheck(r) PROVE UniqueInv'
  BY <1>5 DEF PreCheck
<1>6. ASSUME NEW r \in Request, Insert(r) PROVE UniqueInv'
  <2>1. CASE Goto(r, "conflict")
    BY <1>6, <2>1 DEF Insert
  <2>2. CASE Goto(r, "inserted") /\ (Keyed(r) => get_by_idempotency(r) = {})
    <3>1. ASSUME NEW q \in Request, q # r, Keyed(r), KeyOf[q] = KeyOf[r], InIndex(q)
          PROVE FALSE
      <4>1. q \notin table
        BY <2>2, <3>1 DEF get_by_idempotency
      <4>2. q \notin Holders(r)
        BY <1>6, <3>1 DEF Insert
      <4>3. QED
        BY <3>1, <4>1, <4>2 DEF Holders
    <3>2. table' = table
      BY <1>6 DEF Insert
    <3>3. QED
      BY <2>2, <3>1, <3>2
  <2>3. QED
    BY <1>6, <2>1, <2>2 DEF Insert
<1>7. ASSUME NEW r \in Request, InsertDocs(r) PROVE UniqueInv'
  BY <1>7 DEF InsertDocs
<1>8. ASSUME NEW r \in Request, Commit(r) PROVE UniqueInv'
  BY <1>8 DEF Commit
<1>9. ASSUME NEW r \in Request, Recover(r) PROVE UniqueInv'
  BY <1>9 DEF Recover
<1>10. ASSUME NEW r \in Request, Publish(r) PROVE UniqueInv'
  BY <1>10 DEF Publish
<1>11. ASSUME NEW r \in Request, Abort(r) PROVE UniqueInv'
  BY <1>11 DEF Abort
<1>12. ASSUME NEW r \in Request, Reap(r) \/ Start(r) \/ End(r) PROVE UniqueInv'
  BY <1>12 DEF Reap, Start, End
<1>13. ASSUME UNCHANGED vars PROVE UniqueInv'
  BY <1>13 DEF vars
<1>14. QED
  BY <1>1, <1>2, <1>3, <1>4, <1>5, <1>6, <1>7, <1>8, <1>9, <1>10, <1>11, <1>12,
     <1>13 DEF Next, Serve

LEMMA PlaceStep == CreateInv /\ [Next]_vars => PlaceInv'
<1> SUFFICES ASSUME CreateInv, [Next]_vars PROVE PlaceInv'
  OBVIOUS
<1> USE CreationAssumption DEF CreateInv, TypeOK, Place, PlaceInv,
      Goto, Respond, store, work
<1>1. ASSUME NEW r \in Request, ReadOriginal(r) PROVE PlaceInv'
  BY <1>1 DEF ReadOriginal
<1>2. ASSUME NEW r \in Request, ReadFailed(r) PROVE PlaceInv'
  <2>1. /\ pc[r] = "failed" /\ table' = table
        /\ (Goto(r, "checked") /\ UNCHANGED reply) \/ Respond(r, "error")
    BY <1>2 DEF ReadFailed
  <2>2. QED
    BY <2>1
<1>3. ASSUME NEW r \in Request, Validate(r) PROVE PlaceInv'
  BY <1>3 DEF Validate
<1>4. ASSUME NEW r \in Request, Reject(r) PROVE PlaceInv'
  BY <1>4 DEF Reject
<1>5. ASSUME NEW r \in Request, PreCheck(r) PROVE PlaceInv'
  BY <1>5 DEF PreCheck
<1>6. ASSUME NEW r \in Request, Insert(r) PROVE PlaceInv'
  BY <1>6 DEF Insert
<1>7. ASSUME NEW r \in Request, InsertDocs(r) PROVE PlaceInv'
  BY <1>7 DEF InsertDocs
<1>8. ASSUME NEW r \in Request, Commit(r) PROVE PlaceInv'
  BY <1>8 DEF Commit
<1>9. ASSUME NEW r \in Request, Recover(r) PROVE PlaceInv'
  BY <1>9 DEF Recover
<1>10. ASSUME NEW r \in Request, Publish(r) PROVE PlaceInv'
  BY <1>10 DEF Publish
<1>11. ASSUME NEW r \in Request, Abort(r) PROVE PlaceInv'
  BY <1>11 DEF Abort
<1>12. ASSUME NEW r \in Request, Reap(r) \/ Start(r) \/ End(r) PROVE PlaceInv'
  BY <1>12 DEF Reap, Start, End
<1>13. ASSUME UNCHANGED vars PROVE PlaceInv'
  BY <1>13 DEF vars
<1>14. QED
  BY <1>1, <1>2, <1>3, <1>4, <1>5, <1>6, <1>7, <1>8, <1>9, <1>10, <1>11, <1>12,
     <1>13 DEF Next, Serve

LEMMA ConflictStep == CreateInv /\ [Next]_vars => ConflictInv'
<1> SUFFICES ASSUME CreateInv, [Next]_vars PROVE ConflictInv'
  OBVIOUS
<1> USE CreationAssumption DEF CreateInv, TypeOK, Place, ConflictInv,
      NoSpuriousConflict, Goto, Respond, store, work
\* The table only grows.
<1>a. ASSUME table \subseteq table', NEW q \in Request, get_by_idempotency(q) # {}
      PROVE get_by_idempotency(q)' # {}
  BY <1>a DEF get_by_idempotency
<1>1. ASSUME NEW r \in Request, ReadOriginal(r) PROVE ConflictInv'
  BY <1>a, <1>1 DEF ReadOriginal
<1>2. ASSUME NEW r \in Request, ReadFailed(r) PROVE ConflictInv'
  <2>1. /\ table' = table
        /\ (Goto(r, "checked") /\ UNCHANGED reply) \/ Respond(r, "error")
    BY <1>2 DEF ReadFailed
  <2>2. QED
    BY <1>a, <2>1
<1>3. ASSUME NEW r \in Request, Validate(r) PROVE ConflictInv'
  BY <1>a, <1>3 DEF Validate
<1>4. ASSUME NEW r \in Request, Reject(r) PROVE ConflictInv'
  BY <1>a, <1>4 DEF Reject
<1>5. ASSUME NEW r \in Request, PreCheck(r) PROVE ConflictInv'
  <2>1. \A j \in get_by_idempotency(r) : j \in Request /\ j # "conflict"
    BY DEF get_by_idempotency
  <2>2. QED
    BY <1>a, <1>5, <2>1 DEF PreCheck
<1>6. ASSUME NEW r \in Request, Insert(r) PROVE ConflictInv'
  BY <1>a, <1>6 DEF Insert
<1>7. ASSUME NEW r \in Request, InsertDocs(r) PROVE ConflictInv'
  BY <1>a, <1>7 DEF InsertDocs
<1>8. ASSUME NEW r \in Request, Commit(r) PROVE ConflictInv'
  BY <1>a, <1>8 DEF Commit
<1>9. ASSUME NEW r \in Request, Recover(r) PROVE ConflictInv'
  <2>1. \A j \in get_by_idempotency(r) : j \in Request /\ j # "conflict"
    BY DEF get_by_idempotency
  <2>2. PICK j \in get_by_idempotency(r) : Respond(r, j)
    BY <1>9 DEF Recover
  <2>3. table' = table
    BY <1>9 DEF Recover
  <2>4. QED
    BY <1>a, <2>1, <2>2, <2>3
<1>10. ASSUME NEW r \in Request, Publish(r) PROVE ConflictInv'
  BY <1>a, <1>10 DEF Publish
<1>11. ASSUME NEW r \in Request, Abort(r) PROVE ConflictInv'
  BY <1>a, <1>11 DEF Abort
<1>12. ASSUME NEW r \in Request, Reap(r) \/ Start(r) \/ End(r) PROVE ConflictInv'
  BY <1>a, <1>12 DEF Reap, Start, End
<1>13. ASSUME UNCHANGED vars PROVE ConflictInv'
  BY <1>a, <1>13 DEF vars
<1>14. QED
  BY <1>1, <1>2, <1>3, <1>4, <1>5, <1>6, <1>7, <1>8, <1>9, <1>10, <1>11, <1>12,
     <1>13 DEF Next, Serve

LEMMA CreateInvHolds == Spec => []CreateInv
<1>1. Init => CreateInv
  BY CreationAssumption DEF Init, CreateInv, TypeOK, Place, UniqueInv, InIndex,
     PlaceInv, ConflictInv, NoSpuriousConflict
<1>2. CreateInv /\ [Next]_vars => CreateInv'
  BY TypeStep, UniqueStep, PlaceStep, ConflictStep DEF CreateInv
<1>3. QED
  BY <1>1, <1>2, PTL DEF Spec

LEMMA CreateInvUnique == CreateInv => OneJobPerKey
  BY DEF CreateInv, TypeOK, UniqueInv, InIndex, OneJobPerKey, Keyed

\* create_job: however many requests with one key race, and wherever they die,
\* at most one job of that key is ever visible.
THEOREM UniqueJob == Spec => []OneJobPerKey
  BY CreateInvHolds, CreateInvUnique, PTL

\* The 409 at the end of the IntegrityError handler is unreachable: the job that
\* caused the conflict is committed and is never removed.
THEOREM ConflictIsAnswered == Spec => []NoSpuriousConflict
<1>1. CreateInv => NoSpuriousConflict
  BY DEF CreateInv, ConflictInv
<1>2. QED
  BY <1>1, CreateInvHolds, PTL

-----------------------------------------------------------------------------
(* The documents of a job *)

\* Places where a request has chosen its document types and not committed.
Chosen == {"checked", "insert", "inserted", "flushed", "conflict"}

\* The types a request has chosen are not empty, and for a retry they are
\* documents of the original; a committed job has a row for each of them.
DocsInv ==
    \A r \in Request :
        /\ pc[r] \in Chosen => types[r] # {}
        /\ r \in table => docs[r] = types[r] /\ types[r] # {}
        /\ r \notin table => docs[r] = {}
        /\ failed[r] \subseteq docs[r]
        /\ OriginalOf[r] # NoRequest /\ pc[r] \in Chosen \cup {"failed"}
              => OriginalOf[r] \in table
        /\ OriginalOf[r] # NoRequest /\ pc[r] \in Chosen => types[r] \subseteq docs[OriginalOf[r]]
        /\ OriginalOf[r] # NoRequest /\ r \in table
              => types[r] \subseteq docs[OriginalOf[r]] /\ OriginalOf[r] \in table

\* Most steps only move a request on, to a place where it has chosen its types
\* only if it had.
LEMMA DocsMove ==
    ASSUME CreateInv, DocsInv, NEW r \in Request, NEW place, Goto(r, place),
           UNCHANGED <<types, table, docs, failed>>,
           place \in Chosen => pc[r] \in Chosen,
           place = "failed" => OriginalOf[r] \in table
    PROVE  DocsInv'
<1>1. \A q \in Request : pc'[q] = IF q = r THEN place ELSE pc[q]
  BY DEF Goto, CreateInv, TypeOK
<1>2. QED
  BY <1>1 DEF DocsInv, Chosen

LEMMA DocsStep == CreateInv /\ DocsInv /\ [Next]_vars => DocsInv'
<1> SUFFICES ASSUME CreateInv, DocsInv, [Next]_vars PROVE DocsInv'
  OBVIOUS
<1> USE CreationAssumption DEF Respond, store, work
<1>1. ASSUME NEW r \in Request, ReadOriginal(r) PROVE DocsInv'
  BY <1>1, DocsMove DEF ReadOriginal, Chosen
<1>2. ASSUME NEW r \in Request, ReadFailed(r) PROVE DocsInv'
  <2>1. pc[r] = "failed" /\ UNCHANGED <<table, docs, failed>>
    BY <1>2 DEF ReadFailed
  <2>2. OriginalOf[r] \in table /\ OriginalOf[r] # NoRequest /\ r \notin table
    BY <2>1 DEF CreateInv, TypeOK, PlaceInv, DocsInv
  <2>3. CASE Goto(r, "done") /\ UNCHANGED types
    BY <2>1, <2>3, DocsMove DEF Chosen
  <2>4. ASSUME NEW W, W # {}, W \subseteq failed[OriginalOf[r]],
               types' = [types EXCEPT ![r] = W], Goto(r, "checked")
        PROVE  DocsInv'
    <3>1. W \subseteq docs[OriginalOf[r]]
      BY <2>2, <2>4 DEF DocsInv, CreateInv, TypeOK
    <3>2. \A q \in Request : /\ pc'[q] = IF q = r THEN "checked" ELSE pc[q]
                             /\ types'[q] = IF q = r THEN W ELSE types[q]
      BY <2>4 DEF Goto, CreateInv, TypeOK
    <3>3. QED
      BY <2>1, <2>2, <2>4, <3>1, <3>2 DEF DocsInv, Chosen
  <2>5. QED
    BY <1>2, <2>3, <2>4 DEF ReadFailed
<1>3. ASSUME NEW r \in Request, Validate(r) PROVE DocsInv'
  <2> DEFINE W == IF Asked[r] = {} THEN Type ELSE Asked[r]
  <2>1. /\ pc[r] = "start" /\ OriginalOf[r] = NoRequest /\ UNCHANGED <<table, docs, failed>>
        /\ types' = [types EXCEPT ![r] = W] /\ Goto(r, "checked") /\ W # {}
    BY <1>3 DEF Validate
  <2> HIDE DEF W
  <2>2. r \notin table
    BY <2>1 DEF CreateInv, PlaceInv
  <2>3. \A q \in Request : /\ pc'[q] = IF q = r THEN "checked" ELSE pc[q]
                           /\ types'[q] = IF q = r THEN W ELSE types[q]
    BY <2>1 DEF Goto, CreateInv, TypeOK
  <2>4. QED
    BY <2>1, <2>2, <2>3 DEF DocsInv, Chosen
<1>4. ASSUME NEW r \in Request, Reject(r) PROVE DocsInv'
  BY <1>4, DocsMove DEF Reject, Chosen
<1>5. ASSUME NEW r \in Request, PreCheck(r) PROVE DocsInv'
  BY <1>5, DocsMove DEF PreCheck, Chosen
<1>6. ASSUME NEW r \in Request, Insert(r) PROVE DocsInv'
  BY <1>6, DocsMove DEF Insert, Chosen
<1>7. ASSUME NEW r \in Request, InsertDocs(r) PROVE DocsInv'
  BY <1>7, DocsMove DEF InsertDocs, Chosen
<1>8. ASSUME NEW r \in Request, Commit(r) PROVE DocsInv'
  <2>1. /\ pc[r] = "flushed" /\ table' = table \cup {r} /\ UNCHANGED <<types, failed>>
        /\ docs' = [docs EXCEPT ![r] = types[r]] /\ Goto(r, "publish")
    BY <1>8 DEF Commit
  <2>2. r \notin table /\ docs[r] = {} /\ failed[r] = {} /\ types[r] # {}
    BY <2>1 DEF CreateInv, PlaceInv, DocsInv, Chosen
  <2>3. \A q \in Request : /\ pc'[q] = IF q = r THEN "publish" ELSE pc[q]
                           /\ docs'[q] = IF q = r THEN types[r] ELSE docs[q]
    BY <2>1 DEF Goto, CreateInv, TypeOK
  <2>4. \A q \in Request : OriginalOf[q] \in table => docs'[OriginalOf[q]] = docs[OriginalOf[q]]
    BY <2>2, <2>3 DEF CreateInv, TypeOK
  <2>5. QED
    BY <2>1, <2>2, <2>3, <2>4 DEF DocsInv, Chosen
<1>9. ASSUME NEW r \in Request, Recover(r) PROVE DocsInv'
  BY <1>9, DocsMove DEF Recover, Chosen
<1>10. ASSUME NEW r \in Request, Publish(r) PROVE DocsInv'
  BY <1>10, DocsMove DEF Publish, Chosen
<1>11. ASSUME NEW r \in Request, Abort(r) PROVE DocsInv'
  BY <1>11, DocsMove DEF Abort, Chosen
<1>12. ASSUME NEW r \in Request, Reap(r) \/ Start(r) PROVE DocsInv'
  BY <1>12 DEF Reap, Start, DocsInv
<1>13. ASSUME NEW r \in Request, End(r) PROVE DocsInv'
  <2>1. PICK F \in SUBSET docs[r] : failed' = [failed EXCEPT ![r] = F]
    BY <1>13 DEF End
  <2>2. UNCHANGED <<pc, types, table, docs>>
    BY <1>13 DEF End
  <2>3. QED
    BY <2>1, <2>2 DEF DocsInv, CreateInv, TypeOK
<1>14. ASSUME UNCHANGED vars PROVE DocsInv'
  BY <1>14 DEF vars, DocsInv
<1>15. QED
  BY <1>1, <1>2, <1>3, <1>4, <1>5, <1>6, <1>7, <1>8, <1>9, <1>10, <1>11, <1>12,
     <1>13, <1>14 DEF Next, Serve

LEMMA DocsInvHolds == Spec => []DocsInv
<1>1. Init => DocsInv
  BY DEF Init, DocsInv, Chosen
<1>2. QED
  BY <1>1, DocsStep, CreateInvHolds, PTL DEF Spec

\* create_job commits a job and its documents together: at every moment, also
\* between the steps of racing and dying requests, a visible job has exactly the
\* documents its request chose.
THEOREM JobsAreComplete == Spec => []JobHasItsDocuments
<1>1. CreateInv /\ DocsInv => JobHasItsDocuments
  BY DEF CreateInv, TypeOK, DocsInv, JobHasItsDocuments
<1>2. QED
  BY <1>1, CreateInvHolds, DocsInvHolds, PTL

\* retry_job: whatever happens to the original between its reads, a retry
\* fetches only documents of the original job.
THEOREM RetriesStayInside == Spec => []RetryStaysInside
<1>1. CreateInv /\ DocsInv => RetryStaysInside
  BY DEF CreateInv, TypeOK, DocsInv, RetryStaysInside
<1>2. QED
  BY <1>1, CreateInvHolds, DocsInvHolds, PTL

-----------------------------------------------------------------------------
(* The refinement *)

\* The CHOOSE in Owner picks the only job of the key.
LEMMA OwnerIs ==
    ASSUME OneJobPerKey, TypeOK, NEW j \in table, KeyOf[j] # NoKey
    PROVE  Owner(KeyOf[j]) = j
  BY DEF OneJobPerKey, TypeOK, Owner, Keyed

LEMMA NoOwner ==
    ASSUME NEW k \in Key, \A j \in table : KeyOf[j] # k
    PROVE  Owner(k) = NoRequest
  BY DEF Owner

\* A step that leaves the table alone leaves every key's owner alone.
LEMMA SameOwner ==
    ASSUME table' = table
    PROVE  [k \in Key |-> Owner(k)]' = [k \in Key |-> Owner(k)]
  BY DEF Owner

\* A step that leaves the answers alone.
LEMMA SameReply ==
    ASSUME reply' = reply
    PROVE  [r \in Request |-> Told(r)]' = [r \in Request |-> Told(r)]
  BY DEF Told

\* A refusal is the abstract Refuse.
LEMMA RefuseStep ==
    ASSUME CreateInv, NEW r \in Request, table' = table, pc[r] # "done",
           NEW e \in {"error", "conflict"}, Respond(r, e)
    PROVE  Abstract!Refuse(r)
<1>1. Told(r) = NoRequest
  BY CreationAssumption DEF CreateInv, PlaceInv, Told
<1>2. [q \in Request |-> Told(q)]' = [[q \in Request |-> Told(q)] EXCEPT ![r] = "error"]
  BY DEF CreateInv, TypeOK, Told, Respond
<1>3. QED
  BY <1>1, <1>2, SameOwner DEF Abstract!Refuse

\* An answer with the job of the request's key, or its own, is the abstract Answer.
LEMMA AnswerStep ==
    ASSUME CreateInv, NEW r \in Request, table' = table, pc[r] # "done",
           NEW j \in table, Respond(r, j),
           IF Keyed(r) THEN KeyOf[j] = KeyOf[r] ELSE j = r
    PROVE  Abstract!Answer(r)
<1> USE CreationAssumption
<1>1. Told(r) = NoRequest
  BY DEF CreateInv, PlaceInv, Told
<1>2. j \in Request /\ j # "conflict"
  BY DEF CreateInv, TypeOK
<1>3. [q \in Request |-> Told(q)]' = [[q \in Request |-> Told(q)] EXCEPT ![r] = j]
  BY <1>2 DEF CreateInv, TypeOK, Told, Respond
<1>4. j = IF KeyOf[r] \in Key THEN [k \in Key |-> Owner(k)][KeyOf[r]] ELSE r
  BY OwnerIs, CreateInvUnique DEF CreateInv, Keyed
<1>5. QED
  BY <1>1, <1>2, <1>3, <1>4, SameOwner DEF Abstract!Answer

\* The commit of a keyed job is the abstract Claim.
LEMMA ClaimStep ==
    ASSUME CreateInv, CreateInv', NEW r \in Request, Commit(r), Keyed(r)
    PROVE  Abstract!Claim(r)
<1> USE CreationAssumption
<1>1. KeyOf[r] \in Key
  BY DEF Keyed
<1>2. \A j \in table : KeyOf[j] # KeyOf[r]
  BY DEF Commit, CreateInv, TypeOK, UniqueInv, InIndex, PlaceInv, Keyed
<1>3. Owner(KeyOf[r]) = NoRequest
  BY <1>1, <1>2, NoOwner
<1>4. table' = table \cup {r}
  BY DEF Commit
<1>5. Owner(KeyOf[r])' = r
  <2>1. (\E j \in table' : KeyOf[j] = KeyOf[r])
    BY <1>4
  <2>2. \A j \in table' : KeyOf[j] = KeyOf[r] => j = r
    BY <1>2, <1>4
  <2>3. QED
    BY <2>1, <2>2 DEF Owner
<1>6. ASSUME NEW k \in Key, k # KeyOf[r] PROVE Owner(k)' = Owner(k)
  <2>1. CASE \E j \in table : KeyOf[j] = k
    <3>1. PICK j \in table : KeyOf[j] = k
      BY <2>1
    <3>2. Owner(k) = j
      BY <3>1, OwnerIs, CreateInvUnique DEF CreateInv
    <3>3. \A i \in table' : KeyOf[i] = k => i = j
      BY <3>1, <1>4, <1>6, CreateInvUnique DEF CreateInv, OneJobPerKey, Keyed
    <3>4. Owner(k)' = j
      BY <3>1, <3>3, <1>4 DEF Owner
    <3>5. QED
      BY <3>2, <3>4
  <2>2. CASE \A j \in table : KeyOf[j] # k
    BY <2>2, <1>4, <1>6, NoOwner DEF Owner
  <2>3. QED
    BY <2>1, <2>2
<1>7. [k \in Key |-> Owner(k)]' = [[k \in Key |-> Owner(k)] EXCEPT ![KeyOf[r]] = r]
  BY <1>1, <1>5, <1>6
<1>8. [q \in Request |-> Told(q)]' = [q \in Request |-> Told(q)]
  BY SameReply DEF Commit
<1>9. QED
  BY <1>1, <1>3, <1>7, <1>8 DEF Abstract!Claim

\* The commit of a job without a key changes nothing the promise speaks of.
LEMMA UnkeyedCommit ==
    ASSUME CreateInv, NEW r \in Request, Commit(r), ~Keyed(r)
    PROVE  UNCHANGED Abstract!vars
<1> USE CreationAssumption
<1>1. table' = table \cup {r} /\ KeyOf[r] = NoKey
  BY DEF Commit, Keyed
<1>2. ASSUME NEW k \in Key PROVE Owner(k)' = Owner(k)
  <2>1. CASE \E j \in table : KeyOf[j] = k
    <3>1. PICK j \in table : KeyOf[j] = k
      BY <2>1
    <3>2. Owner(k) = j
      BY <3>1, OwnerIs, CreateInvUnique DEF CreateInv
    <3>3. \A i \in table' : KeyOf[i] = k => i = j
      BY <3>1, <1>1, CreateInvUnique DEF CreateInv, OneJobPerKey, Keyed
    <3>4. Owner(k)' = j
      BY <3>1, <3>3, <1>1 DEF Owner
    <3>5. QED
      BY <3>2, <3>4
  <2>2. CASE \A j \in table : KeyOf[j] # k
    BY <2>2, <1>1, NoOwner DEF Owner
  <2>3. QED
    BY <2>1, <2>2
<1>3. [k \in Key |-> Owner(k)]' = [k \in Key |-> Owner(k)]
  BY <1>2
<1>4. QED
  BY <1>3, SameReply DEF Commit, Abstract!vars

LEMMA SilentStep ==
    ASSUME table' = table, reply' = reply
    PROVE  UNCHANGED Abstract!vars
  BY SameOwner, SameReply DEF Abstract!vars

LEMMA RefinementStep ==
    CreateInv /\ CreateInv' /\ [Next]_vars => [Abstract!Next]_(Abstract!vars)
<1> SUFFICES ASSUME CreateInv, CreateInv', [Next]_vars
             PROVE  Abstract!Next \/ UNCHANGED Abstract!vars
  OBVIOUS
<1> DEFINE Goal == Abstract!Next \/ UNCHANGED Abstract!vars
<1> USE DEF store, work
<1>a. ASSUME NEW r \in Request,
             Abstract!Claim(r) \/ Abstract!Answer(r) \/ Abstract!Refuse(r)
      PROVE  Abstract!Next
  BY <1>a DEF Abstract!Next
<1> HIDE DEF Goal
<1>b. Abstract!Next => Goal
  BY DEF Goal
<1>c. UNCHANGED Abstract!vars => Goal
  BY DEF Goal
<1>1. ASSUME NEW r \in Request, ReadOriginal(r) PROVE Goal
  <2>1. pc[r] # "done" /\ table' = table /\ (reply' = reply \/ Respond(r, "error"))
    BY <1>1 DEF ReadOriginal
  <2>2. QED
    BY <2>1, <1>a, <1>b, <1>c, SilentStep, RefuseStep
<1>2. ASSUME NEW r \in Request, ReadFailed(r) PROVE Goal
  <2>1. pc[r] # "done" /\ table' = table /\ (reply' = reply \/ Respond(r, "error"))
    BY <1>2 DEF ReadFailed
  <2>2. QED
    BY <2>1, <1>a, <1>b, <1>c, SilentStep, RefuseStep
<1>3. ASSUME NEW r \in Request, Reject(r) \/ Abort(r) PROVE Goal
  <2>1. pc[r] # "done" /\ table' = table /\ Respond(r, "error")
    BY <1>3 DEF Reject, Abort
  <2>2. QED
    BY <2>1, <1>a, <1>b, RefuseStep
<1>4. ASSUME NEW r \in Request, PreCheck(r) PROVE Goal
  <2>1. pc[r] # "done" /\ table' = table
    BY <1>4 DEF PreCheck
  <2>2. CASE reply' = reply
    BY <2>1, <2>2, <1>c, SilentStep
  <2>3. CASE Keyed(r) /\ \E j \in get_by_idempotency(r) : Respond(r, j)
    <3>1. PICK j \in get_by_idempotency(r) : Respond(r, j)
      BY <2>3
    <3>2. j \in table /\ KeyOf[j] = KeyOf[r]
      BY <3>1 DEF get_by_idempotency
    <3>3. Abstract!Answer(r)
      BY <2>1, <2>3, <3>1, <3>2, AnswerStep
    <3>4. QED
      BY <3>3, <1>a, <1>b
  <2>4. QED
    BY <1>4, <2>2, <2>3 DEF PreCheck
<1>5. ASSUME NEW r \in Request, Recover(r) PROVE Goal
  <2>1. pc[r] = "conflict" /\ table' = table
    BY <1>5 DEF Recover
  <2>2. get_by_idempotency(r) # {}
    BY <2>1 DEF CreateInv, ConflictInv
  <2>3. PICK j \in get_by_idempotency(r) : Respond(r, j)
    BY <1>5, <2>2 DEF Recover
  <2>4. j \in table /\ KeyOf[j] = KeyOf[r]
    BY <2>3 DEF get_by_idempotency
  <2>5. Keyed(r)
    BY <2>1 DEF CreateInv, ConflictInv
  <2>6. Abstract!Answer(r)
    BY <2>1, <2>3, <2>4, <2>5, AnswerStep
  <2>7. QED
    BY <2>6, <1>a, <1>b
<1>6. ASSUME NEW r \in Request, Publish(r) PROVE Goal
  <2>1. pc[r] # "done" /\ table' = table /\ Respond(r, r)
    BY <1>6 DEF Publish
  <2>2. r \in table
    BY <1>6 DEF Publish, CreateInv, PlaceInv
  <2>3. Abstract!Answer(r)
    BY <2>1, <2>2, AnswerStep
  <2>4. QED
    BY <2>3, <1>a, <1>b
<1>7. ASSUME NEW r \in Request, Commit(r) PROVE Goal
  BY <1>7, <1>a, <1>b, <1>c, ClaimStep, UnkeyedCommit
<1>8. ASSUME NEW r \in Request, Validate(r) \/ Insert(r) \/ InsertDocs(r) PROVE Goal
  <2>1. table' = table /\ reply' = reply
    BY <1>8 DEF Validate, Insert, InsertDocs
  <2>2. QED
    BY <2>1, <1>c, SilentStep
<1>9. ASSUME NEW r \in Request, Reap(r) \/ Start(r) \/ End(r) PROVE Goal
  <2>1. table' = table /\ reply' = reply
    BY <1>9 DEF Reap, Start, End
  <2>2. QED
    BY <2>1, <1>c, SilentStep
<1>10. ASSUME UNCHANGED vars PROVE Goal
  <2>1. table' = table /\ reply' = reply
    BY <1>10 DEF vars
  <2>2. QED
    BY <2>1, <1>c, SilentStep
<1>11. Goal
  BY <1>1, <1>2, <1>3, <1>4, <1>5, <1>6, <1>7, <1>8, <1>9, <1>10 DEF Next, Serve
<1>12. QED
  BY <1>11 DEF Goal

\* create_job implements IdempotentCreate for any requests and keys: a key is
\* claimed once, by the commit that made its job visible, and every successful
\* answer to a request with that key, first or repeated, names that job.
THEOREM CreateIsIdempotent == Spec => Idempotent
<1>1. Init => Abstract!Init
  <2>1. ASSUME Init, NEW k \in Key PROVE Owner(k) = NoRequest
    BY <2>1, NoOwner DEF Init
  <2>2. ASSUME Init, NEW r \in Request PROVE Told(r) = NoRequest
    BY <2>2, CreationAssumption DEF Init, Told
  <2>3. QED
    BY <2>1, <2>2 DEF Abstract!Init
<1>2. QED
  BY <1>1, CreateInvHolds, RefinementStep, PTL DEF Spec, Idempotent, Abstract!Spec

=============================================================================
