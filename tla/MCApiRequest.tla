---------------------------- MODULE MCApiRequest ----------------------------
(***************************************************************************)
(* Three requests on two processes, of two tenants with an order each and  *)
(* one order without an address.  The loads: creates that meet in the      *)
(* limiter, creates that share a key, and calls about the seed job.        *)
(***************************************************************************)
EXTENDS ApiRequest, TLC

CONSTANTS r1, r2, r3, p1, p2, t1, t2, k, d1, d2

MCJobOf == [d \in Delivery |-> Seed]

\* Both deliveries are of the seed job and no request names one.
Deliveries == Permutations(Delivery)

MCOwnerOf == [o \in Order |-> IF o = "theirs" THEN t2 ELSE t1]

Given(s, d) == [tenant |-> t1, order |-> "ours", key |-> k, status |-> s, docs |-> d]

Only(s) == [t \in Type |-> IF t = "DEED" THEN s ELSE "none"]

Fresh == Given("queued", Only("queued"))
Ended == Given("failed", Only("failed"))
Both  == Given("queued", [t \in Type |-> "queued"])

Basic ==
    [op |-> "get", proc |-> p1, head |-> t1, claim |-> t1, actor |-> TRUE, job |-> Seed,
     order |-> "ours", key |-> None, types |-> {}]

Deployed(load, auths, backends, seeds, losses) ==
    [ask : load, jwt : auths, backend : backends, seed : seeds, lost : losses]

\* The task of the seed job is delivered twice, once or never.
Twice == {{}}
Once  == {{d} : d \in Delivery}
Never == {Delivery}

\* Creates of one tenant or of two, on one process or on two.
Crowd ==
    {[r \in Request |->
        [Basic EXCEPT !.op = "create", !.types = {"DEED"},
                      !.proc = IF r = r3 THEN far ELSE p1,
                      !.head = IF r = r3 THEN head ELSE t1,
                      !.claim = IF r = r3 THEN t2 ELSE t1,
                      !.order = IF r = r1 THEN "ours" ELSE "blank"]] :
        far \in {p1, p2}, head \in {t1, t2, None}}

\* Two creates with one key, and a third that is refused or lists everything.
Race ==
    {[r \in Request |->
        IF r = r3 THEN [Basic EXCEPT !.op = "create", !.order = o, !.types = ts, !.proc = p2]
        ELSE [Basic EXCEPT !.op = "create", !.key = key, !.types = {"DEED"},
                           !.proc = IF r = r1 THEN p1 ELSE p2]] :
        o \in {"blank", "theirs"}, ts \in {{"bogus"}, {}}, key \in {k, "fresh"}}

\* The third caller: another tenant, someone unknown, and with a token one that
\* says something else than the header or names no tenant.
Caller(head, claim, actor) == [Basic EXCEPT !.head = head, !.claim = claim, !.actor = actor]

Stranger == {Caller(t2, t2, TRUE), Caller(t2, t2, FALSE), Caller("junk", t2, TRUE)}
Holder   == {Caller(t1, t2, TRUE), Caller(t2, None, TRUE)}

Calls(first, second, third) ==
    {[r \in Request |-> CASE r = r1 -> a [] r = r2 -> b [] OTHER -> c] :
        a \in first, b \in second, c \in third}

About(op, proc, ts) == [Basic EXCEPT !.op = op, !.proc = proc, !.types = ts]

Lists  == About("list", p1, {})
Nobody == Caller(t2, t2, FALSE)

\* Calls about the seed job by its tenant ...
Own ==
    Calls({About("get", p1, {})},
          {About("cancel", p2, {}), About("retry", p2, {}), About("retry", p2, {"PARCEL"})},
          {Lists})
    \cup Calls({About("cancel", p1, {})}, {About("cancel", p2, {})}, {Lists})

\* ... by a stranger ...
Foreign(callers) ==
    Calls({[w EXCEPT !.op = op] : w \in callers, op \in {"get", "cancel", "retry", "list"}},
          {About("cancel", p2, {})}, {Lists})

\* ... and by its tenant alone.
Alone == Calls({About("get", p1, {})}, {Nobody}, {Nobody})

MCLoad ==
    Deployed(Crowd, {TRUE}, {"redis", "memory"}, {None}, Never)
    \cup Deployed(Race, {FALSE}, {"off"}, {Ended}, Never)
    \cup Deployed(Own, {TRUE}, {"off"}, {Fresh, Ended}, Once)
    \cup Deployed(Foreign(Stranger), {FALSE}, {"off"}, {Ended}, Never)
    \cup Deployed(Foreign(Stranger \cup Holder), {TRUE}, {"off"}, {Ended}, Never)
    \cup Deployed(Alone, {TRUE}, {"off"}, {Both}, Once)
    \cup Deployed(Alone, {TRUE}, {"off"}, {Fresh}, Twice)
=============================================================================
