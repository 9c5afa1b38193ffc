------------------------------ MODULE MCCluster -----------------------------
(* Instances of Cluster for TLC. *)
EXTENDS Cluster, TLC

\* Jobs are interchangeable (safety runs only).
Symmetry == Permutations(Jobs)
=============================================================================
