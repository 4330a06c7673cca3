--------------------------- MODULE MCJobCreation ----------------------------
(***************************************************************************)
(* Instances of JobCreation for TLC: two requests with one key and         *)
(* different lists, and two retries of the first, with a list and without. *)
(***************************************************************************)
EXTENDS JobCreation, TLC

CONSTANTS a, b, c, d, k1, t1, t2

KeyOf4      == (a :> k1) @@ (b :> k1) @@ (c :> NoKey) @@ (d :> NoKey)
OriginalOf4 == (a :> NoRequest) @@ (b :> NoRequest) @@ (c :> a) @@ (d :> a)
Asked4      == (a :> {t1}) @@ (b :> {}) @@ (c :> {t1, t2}) @@ (d :> {})

=============================================================================
