------------------------------ MODULE Annotate ------------------------------
(***************************************************************************)
(* From the engine's answers to the payload (src/src/engine/annotate.rs).  *)
(* `answers` maps the turns the engine answered to its answers, turn i     *)
(* being the position before move i+1.  An answer is a record              *)
(*   root      an evaluation and the engine's claim who is to move, or None*)
(*   infos     candidate moves, in the engine's order                      *)
(*   ownership, ownershipStdev, policy, humanPolicy                        *)
(*             arrays, known by their length, the turn they were computed  *)
(*             for and, for ownership, the colour they are stated for; a   *)
(*             missing array has length 0                                  *)
(* Cells, probabilities and the rank estimate are not modelled.            *)
(***************************************************************************)
EXTENDS SgfGame, SequencesExt

Turns(game) == 0..Len(game.moves)

\* Turn i is move i+1's; the turn after the last move is its opponent's.
SideToMoveAt(game, turn) ==
    IF turn < Len(game.moves) THEN game.moves[turn + 1].color
    ELSE IF game.moves = <<>> THEN "B"
    ELSE Other(game.moves[Len(game.moves)].color)

RootOf(answers, turn) == IF turn \in DOMAIN answers THEN answers[turn].root ELSE None

\* Mutant: the evaluation after the move is read as the mover's own.
MoveEvalsUnrotated(color, before, after) ==
    [before |-> IF before = None THEN None ELSE RootAsSeenBy(before, color, color),
     after  |-> IF after = None THEN None ELSE after.eval]

\* Both evaluations in the mover's frame.
MoveEvals(color, before, after) ==
    [before |-> IF before = None THEN None ELSE RootAsSeenBy(before, color, color),
     after  |-> IF after = None THEN None ELSE RootAsSeenBy(after, color, Other(color))]

EvalsOf(game, answers, i) ==
    MoveEvals(game.moves[i].color, RootOf(answers, i - 1), RootOf(answers, i))

Distance(a, b) == IF a > b THEN a - b ELSE b - a

\* A move is looked at again when its evaluation moves in either direction,
\* and when there is nothing to judge it by.
Swings(evals, cfg) ==
    \/ evals.before = None
    \/ evals.after = None
    \/ Distance(evals.before.winrate, evals.after.winrate) >= cfg.refineWinrateDelta
    \/ Distance(evals.before.scoreLead, evals.after.scoreLead) >= cfg.refineScoreDelta

\* Mutant: the turns beside a swing are taken one too late.
TurnsToRefineLate(game, answers, cfg) ==
    UNION {{i, i + 1} : i \in {k \in DOMAIN game.moves : Swings(EvalsOf(game, answers, k), cfg)}}

\* Mutant: only losses are looked at again.
TurnsToRefineLosses(game, answers, cfg) ==
    UNION {{i - 1, i} : i \in {k \in DOMAIN game.moves :
        LET e == EvalsOf(game, answers, k) IN
        e.before = None \/ e.after = None
          \/ e.before.winrate - e.after.winrate >= cfg.refineWinrateDelta
          \/ e.before.scoreLead - e.after.scoreLead >= cfg.refineScoreDelta}}

TurnsToRefine(game, answers, cfg) ==
    UNION {{i - 1, i} : i \in {k \in DOMAIN game.moves : Swings(EvalsOf(game, answers, k), cfg)}}

\* `check_turn_alignment`: the engine names another player than the move list.
Misaligned(game, answers) ==
    \E t \in Turns(game) :
        /\ RootOf(answers, t) # None
        /\ answers[t].root.player \notin {None, SideToMoveAt(game, t)}

-----------------------------------------------------------------------------
(* Grids: per-turn arrays, all of them or none.                            *)

NoGrid == <<>>

\* Mutant: a turn without a usable array is skipped.
PerTurnGridPartial(game, arrays, trailing) ==
    [t \in {u \in Turns(game) \cap DOMAIN arrays :
               arrays[u].len = game.size * game.size + trailing} |-> arrays[t]]

\* The arrays of every turn; a missing one has length 0.
PerTurnGrid(game, arrays, trailing) ==
    IF \A t \in Turns(game) :
          t \in DOMAIN arrays /\ arrays[t].len = game.size * game.size + trailing
    THEN [t \in Turns(game) |-> arrays[t]]
    ELSE NoGrid

\* Black-positive whatever frame the engine reported in.  The array names no
\* player, so the move list says who was to move.
BlackPositive(game, turn, array) ==
    [turn  |-> array.turn,
     frame |-> IF Reporter(None, SideToMoveAt(game, turn)) = "B" THEN array.frame
               ELSE Other(array.frame)]

NormaliseOwnership(game, answers) ==
    LET grid == PerTurnGrid(game, [t \in DOMAIN answers |-> answers[t].ownership], 0)
    IN [t \in DOMAIN grid |-> BlackPositive(game, t, grid[t])]

OwnershipStdevGrid(game, answers) ==
    PerTurnGrid(game, [t \in DOMAIN answers |-> answers[t].ownershipStdev], 0)

\* The network's or the human policy; the pass entry is dropped.
PolicyGrid(game, arrays) == PerTurnGrid(game, arrays, 1)

\* A move's entry of one turn's array, pass included: which turn, which index.
PolicyAt(array, mv, size) ==
    IF array.len = size * size + 1 /\ PolicyIndex(mv, size) # None
    THEN <<array.turn, PolicyIndex(mv, size)>>
    ELSE None

-----------------------------------------------------------------------------
(* The payload.                                                            *)

ClassifyWinrate(loss) ==
    IF loss < 3 THEN "good" ELSE IF loss < 7 THEN "inaccuracy"
    ELSE IF loss < 15 THEN "mistake" ELSE "blunder"

ClassifyScore(lost) ==
    IF lost < 1 THEN "good" ELSE IF lost < 3 THEN "inaccuracy"
    ELSE IF lost < 6 THEN "mistake" ELSE "blunder"

AtLeastZero(n) == IF n > 0 THEN n ELSE 0

ByOrder(infos) ==
    LET at == CHOOSE f \in [DOMAIN infos -> DOMAIN infos] :
                 \A k, l \in DOMAIN infos : k < l => infos[f[k]].order < infos[f[l]].order
    IN [k \in DOMAIN infos |-> infos[at[k]]]

\* The first top_k candidates by the engine's order, rotated to the mover.
TopMoves(answer, color, cfg) ==
    LET sorted == ByOrder(answer.infos)
    IN [k \in 1..(IF Len(sorted) < cfg.topK THEN Len(sorted) ELSE cfg.topK) |->
           [mv         |-> sorted[k].mv,
            eval       |-> CandidateAsSeenBy(sorted[k], color, color),
            prior      |-> sorted[k].prior,
            humanPrior |-> sorted[k].humanPrior]]

\* The full array's figure, else the candidate's own.
PriorOf(array, played, own, mv, size) ==
    LET entry == PolicyAt(array, mv, size)
    IN IF entry # None THEN entry ELSE IF played = {} THEN None ELSE own

Annotation(game, answers, cfg, i) ==
    LET color  == game.moves[i].color
        mv     == game.moves[i].mv
        evals  == EvalsOf(game, answers, i)
        \* Nothing before: even.  Nothing after: no loss.
        best   == IF evals.before = None THEN [winrate |-> 50, scoreLead |-> 0] ELSE evals.before
        result == IF evals.after = None THEN best ELSE evals.after
        wloss  == AtLeastZero(best.winrate - result.winrate)
        sloss  == AtLeastZero(best.scoreLead - result.scoreLead)
        top    == IF i - 1 \in DOMAIN answers THEN TopMoves(answers[i - 1], color, cfg) ELSE <<>>
        played == {k \in DOMAIN top : top[k].mv = mv}
        cand   == top[CHOOSE k \in played : \A l \in played : k <= l]
    IN [color        |-> color,
        mv           |-> mv,
        bestWinrate  |-> best.winrate,
        winrate      |-> result.winrate,
        winrateLoss  |-> wloss,
        winrateClass |-> ClassifyWinrate(wloss),
        scoreLead    |-> best.scoreLead,
        scoreLoss    |-> sloss,
        scoreClass   |-> ClassifyScore(sloss),
        prior        |-> IF i - 1 \notin DOMAIN answers THEN None
                         ELSE PriorOf(answers[i - 1].policy, played, cand.prior, mv, game.size),
        humanPrior   |-> IF i - 1 \notin DOMAIN answers THEN None
                         ELSE PriorOf(answers[i - 1].humanPolicy, played, cand.humanPrior,
                                      mv, game.size),
        topMoves     |-> top]

\* One player's report: how many moves, the sums its means come from, and how
\* many moves fell in each class by either lens.
PlayerReport(moves, color) ==
    LET own == {i \in DOMAIN moves : moves[i].color = color}
        Classes == {"good", "inaccuracy", "mistake", "blunder"}
    IN [moves      |-> Cardinality(own),
        winrateSum |-> FoldFunctionOnSet(LAMBDA x, y : x + y, 0,
                           [i \in DOMAIN moves |-> moves[i].winrateLoss], own),
        scoreSum   |-> FoldFunctionOnSet(LAMBDA x, y : x + y, 0,
                           [i \in DOMAIN moves |-> moves[i].scoreLoss], own),
        byWinrate  |-> [c \in Classes |-> Cardinality({i \in own : moves[i].winrateClass = c})],
        byScore    |-> [c \in Classes |-> Cardinality({i \in own : moves[i].scoreClass = c})]]

TwoPass(cfg) == cfg.screenVisits > 0 /\ cfg.screenVisits < cfg.maxVisits

Assemble(game, answers, cfg, humanProfile) ==
    LET moves       == [i \in DOMAIN game.moves |-> Annotation(game, answers, cfg, i)]
        ownership   == NormaliseOwnership(game, answers)
        stdev       == OwnershipStdevGrid(game, answers)
        policy      == PolicyGrid(game, [t \in DOMAIN answers |-> answers[t].policy])
        humanPolicy == PolicyGrid(game, [t \in DOMAIN answers |-> answers[t].humanPolicy])
        profile     == IF humanPolicy = NoGrid THEN None ELSE humanProfile
    IN [moves          |-> moves,
        numMoves       |-> Len(game.moves),
        black          |-> PlayerReport(moves, "B"),
        white          |-> PlayerReport(moves, "W"),
        ownership      |-> ownership,
        ownershipStdev |-> stdev,
        policy         |-> policy,
        humanPolicy    |-> humanPolicy,
        humanProfile   |-> profile,
        warned         |-> Misaligned(game, answers),
        engine         |-> [ownership      |-> ownership # NoGrid,
                            ownershipStdev |-> stdev # NoGrid,
                            policy         |-> policy # NoGrid,
                            humanModel     |-> profile # None,
                            screenVisits   |-> IF TwoPass(cfg) THEN cfg.screenVisits ELSE None]]
=============================================================================
