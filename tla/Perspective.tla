----------------------------- MODULE Perspective ----------------------------
(***************************************************************************)
(* Whose point of view an evaluation is in (src/src/engine/katago.rs, with *)
(* Color of src/src/engine/sgf.rs).  Win rates are whole percent, leads    *)
(* whole points: what the service does with them is subtract and negate.   *)
(***************************************************************************)
EXTENDS Integers

CONSTANTS
    REPORT_PERSPECTIVE,  \* the frame every query asks KataGo to report in
    None                 \* what the engine left out

Colors == {"B", "W"}
Perspectives == {"BLACK", "WHITE", "SIDETOMOVE"}

ASSUME PerspectiveAssumption == REPORT_PERSPECTIVE \in Perspectives
Other(color) == IF color = "B" THEN "W" ELSE "B"

\* Whose evaluation a reading is: the engine's own claim about who is to move
\* is preferred, what the caller knows is the fallback.
Reporter(claimed, side) ==
    CASE REPORT_PERSPECTIVE = "BLACK"      -> "B"
      [] REPORT_PERSPECTIVE = "WHITE"      -> "W"
      [] REPORT_PERSPECTIVE = "SIDETOMOVE" -> IF claimed = None THEN side ELSE claimed

Evaluation == [winrate : 0..100, scoreLead : Int]

ASSUME NoneAssumption == None \notin Colors \cup Evaluation /\ None \notin Int

Flipped(eval) == [winrate |-> 100 - eval.winrate, scoreLead |-> -eval.scoreLead]

InFrame(eval, reporter, viewer) == IF reporter = viewer THEN eval ELSE Flipped(eval)

\* Mutant: a reading is always taken for the fallback's.
RootAsFallback(root, viewer, side) == InFrame(root.eval, Reporter(None, side), viewer)

\* A root carries the engine's claim.
RootAsSeenBy(root, viewer, side) ==
    InFrame(root.eval, Reporter(root.player, side), viewer)

\* A candidate carries none, and its turn's mover is taken at the caller's word.
CandidateAsSeenBy(info, viewer, side) ==
    InFrame(info.eval, Reporter(side, side), viewer)
=============================================================================
