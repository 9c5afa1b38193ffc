--------------------------- MODULE MCKataGoOwner ---------------------------
(* Instances of KataGoOwner for TLC. *)
EXTENDS KataGoOwner, TLC
=============================================================================
