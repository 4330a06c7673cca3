-------------------------- MODULE IdempotentCreate --------------------------
(***************************************************************************)
(* What POST /jobs promises for an idempotency key: the key is claimed at  *)
(* most once, for good, and every answer that is not an error names the    *)
(* job that claimed it.  A job is named by the request that made it.       *)
(***************************************************************************)

CONSTANTS Request, Key, NoKey, KeyOf, NoRequest

VARIABLES
    owner,  \* the job of each key
    reply   \* the answer to each request: a job, "error", or none yet

vars == <<owner, reply>>

Init ==
    /\ owner = [k \in Key |-> NoRequest]
    /\ reply = [r \in Request |-> NoRequest]

\* The first request of a key makes its job; a failed one may have made it too.
Claim(r) ==
    /\ KeyOf[r] \in Key
    /\ owner[KeyOf[r]] = NoRequest
    /\ owner' = [owner EXCEPT ![KeyOf[r]] = r]
    /\ UNCHANGED reply

\* A keyed request is answered with the job of its key, another with its own.
Answer(r) ==
    /\ reply[r] = NoRequest
    /\ \E j \in Request :
          /\ j = IF KeyOf[r] \in Key THEN owner[KeyOf[r]] ELSE r
          /\ reply' = [reply EXCEPT ![r] = j]
    /\ UNCHANGED owner

Refuse(r) ==
    /\ reply[r] = NoRequest
    /\ reply' = [reply EXCEPT ![r] = "error"]
    /\ UNCHANGED owner

Next == \E r \in Request : Claim(r) \/ Answer(r) \/ Refuse(r)

Spec == Init /\ [][Next]_vars

=============================================================================
