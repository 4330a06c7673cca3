-------------------------- MODULE MCEvidenceUpload --------------------------
(***************************************************************************)
(* Instances of EvidenceUpload for TLC: two orders with a job each; in the *)
(* larger instance the first job is delivered twice.  All runs stage in    *)
(* one folder, as orders with one street line and no parcel id do.         *)
(***************************************************************************)
EXTENDS EvidenceUpload, TLC

CONSTANTS r1, r2, r3, j1, j2, o1, o2, f1

\* Three deliveries: two of one job, one of another order's job.
JobOf3   == (r1 :> j1) @@ (r2 :> j1) @@ (r3 :> j2)
OrderOf2 == (j1 :> o1) @@ (j2 :> o2)
FolderOf3 == [r \in {r1, r2, r3} |-> f1]

\* The two deliveries of one job are interchangeable.
Deliveries == Permutations({r1, r2})

\* Two jobs, one run each.
JobOfTwo    == (r1 :> j1) @@ (r2 :> j2)
FolderOfTwo == [r \in {r1, r2} |-> f1]

=============================================================================
