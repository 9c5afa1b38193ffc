---------------------------- MODULE MCAnalysisJob ---------------------------
(* An instance of AnalysisJob for TLC. *)
EXTENDS AnalysisJob

B(at) == [id |-> "B", at |-> at]
W(at) == [id |-> "W", at |-> at]
Set(id, points) == [id |-> id, points |-> points]
Size(w, h) == [id |-> "SZ", size |-> <<w, h>>]
Bad(name) == [id |-> "invalid", name |-> name]
Near == <<2, 0>>
Far == <<15, 1>>

\* First nodes: with and without a size, handicap, and what is refused.
Roots == {<<>>, <<Size(9, 9)>>, <<Bad("AP"), Size(9, 9), Set("AB", {Near})>>,
          <<Size(21, 21)>>, <<Size(9, 13)>>, <<Size(26, 26)>>, <<Bad("KM")>>}

\* Later ones: moves, passes, points off small boards, and what is refused.
Nodes == {<<B(Near)>>, <<W(Near)>>, <<W(TT)>>, <<B(Far)>>,
          <<Set("AW", {Far})>>, <<B(Near), W(Near)>>, <<Set("AE", {Near})>>}

\* Games of two moves: in turn, the same player twice, White first, a pass.
TwoMoveGames ==
    {<<<<Size(9, 9)>>, <<B(Near)>>, <<W(Near)>>>>, <<<<>>, <<B(Near)>>, <<B(Far)>>>>,
     <<<<Size(9, 9), Set("AB", {Near})>>, <<W(Near)>>, <<B(TT)>>>>}

MCRecords ==
    {<<r>> : r \in Roots} \cup {<<r, m>> : r \in Roots, m \in Nodes} \cup TwoMoveGames
    \cup {<<r, m, <<Set("AW", {Far})>> >> : r \in Roots, m \in Nodes}

Config(size, screen, human, policy, ownership) ==
    [defaultSize |-> size, screenVisits |-> screen, maxVisits |-> 2, topK |-> 1,
     humanModel |-> human, includePolicy |-> policy, includeOwnership |-> ownership,
     refineWinrateDelta |-> 3, refineScoreDelta |-> 1]

MCConfigs == {Config(9, 1, TRUE, TRUE, TRUE), Config(19, 0, TRUE, FALSE, TRUE),
              Config(19, 2, FALSE, TRUE, FALSE)}

MCEngines == [namesPlayer : BOOLEAN, afterLast : BOOLEAN]

MCProfiles == {None, "rank_5k", "rank_99k"}
MCKnown == {"rank_5k"}

Black(winrate, lead) == [winrate |-> winrate, scoreLead |-> lead]
MCShallow == {Black(50, 0), Black(40, 0), Black(51, 2)}
MCDeep == {Black(50, 0), Black(30, -7)}
=============================================================================
