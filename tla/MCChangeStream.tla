--------------------------- MODULE MCChangeStream ---------------------------
(* Instances of ChangeStream for TLC. *)
EXTENDS ChangeStream, TLC
=============================================================================
