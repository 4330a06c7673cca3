--------------------------- MODULE MCJobLifecycle ---------------------------
(***************************************************************************)
(* Instances of JobLifecycle for TLC.                                      *)
(***************************************************************************)
EXTENDS JobLifecycle, TLC

\* Workers, documents and clients are interchangeable.
Symmetry == Permutations(Worker) \cup Permutations(Doc) \cup Permutations(Client)

=============================================================================
