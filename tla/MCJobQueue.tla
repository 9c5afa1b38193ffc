----------------------------- MODULE MCJobQueue -----------------------------
(* Instances of JobQueue for TLC. *)
EXTENDS JobQueue, TLC

\* Jobs and loops are interchangeable (safety runs only).
Symmetry == Permutations(Jobs) \cup Permutations(Workers)
=============================================================================
