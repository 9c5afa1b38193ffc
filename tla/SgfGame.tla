------------------------------- MODULE SgfGame ------------------------------
(***************************************************************************)
(* What the service accepts as a game (src/src/engine/sgf.rs).  A record   *)
(* is the main variation as `sgf-parse` types it: a sequence of nodes, a   *)
(* node a sequence of properties.  Komi, rules and the result are carried  *)
(* along and decide nothing, so they are left out.                         *)
(***************************************************************************)
EXTENDS Integers, Sequences, FiniteSets, Perspective

\* A property is one of
\*   [id |-> "B" or "W", at |-> a point or Pass]
\*   [id |-> "AB", "AW" or "AE", points |-> a set of points]
\*   [id |-> "SZ", size |-> <<width, height>>]
\*   [id |-> "invalid", name |-> its name]      what `sgf-parse` could not type
Pass == <<>>
GAME_PROPS == {"B", "W", "AB", "AW", "AE", "SZ", "KM"}

\* GTP_LETTERS caps the board; the pre-FF4 pass is `tt`.
MaxSize == 25
TT == <<19, 19>>

Fails == [size |-> 0, moves |-> <<>>, stones |-> {}]

PropsOf(node) == {node[i] : i \in DOMAIN node}
MovesOf(node) == {k \in DOMAIN node : node[k].id \in Colors}   \* where they stand
IsSetup(prop) == prop.id \in {"AB", "AW"}

\* The last size given wins.
SizeOf(record, default) ==
    LET given == {i \in DOMAIN record : \E p \in PropsOf(record[i]) : p.id = "SZ"}
    IN IF given = {} THEN default
       ELSE LET last == CHOOSE i \in given : \A k \in given : k <= i
                sizes == SelectSeq(record[last], LAMBDA p : p.id = "SZ")
            IN sizes[Len(sizes)].size[1]

\* Each of these would have to be guessed at, so each is refused.
Malformed(record) ==
    \E i \in DOMAIN record : \E p \in PropsOf(record[i]) :
        \/ p.id = "invalid" /\ p.name \in GAME_PROPS
        \/ p.id = "SZ" /\ p.size[1] # p.size[2]
        \/ p.id = "AE" /\ p.points # {}

TwoMoves(record) == \E i \in DOMAIN record : \E k, l \in MovesOf(record[i]) : k # l

\* KataGo's query has nowhere to put stones set up after a move.
LateSetup(record) ==
    \E i, k \in DOMAIN record :
        i < k /\ MovesOf(record[i]) # {} /\ \E p \in PropsOf(record[k]) : IsSetup(p)

OnBoard(point, size) == point[1] \in 0..(size - 1) /\ point[2] \in 0..(size - 1)

\* Mutant: KataGo's rows are counted from zero.
ToGtpFromZero(point, size) == <<point[1], size - 1 - point[2]>>

\* Column from the left, row from the bottom.
ToGtp(point, size) == <<point[1], size - point[2]>>
IsPass(at, size) == at = Pass \/ (at = TT /\ size <= 19)
MoveToGtp(at, size) == IF IsPass(at, size) THEN Pass ELSE ToGtp(at, size)

StonesOf(record) ==
    UNION {UNION {{<<p.id, point>> : point \in p.points} :
                     p \in {q \in PropsOf(record[i]) : IsSetup(q)}} : i \in DOMAIN record}

MoveNodes(record) == {i \in DOMAIN record : MovesOf(record[i]) # {}}
NthMoveNode(record, n) ==
    CHOOSE i \in MoveNodes(record) : Cardinality({k \in MoveNodes(record) : k <= i}) = n
MoveOf(node) == node[CHOOSE k \in MovesOf(node) : TRUE]

\* The moves of the record, at most one per node, in order.
PlayedMoves(record) ==
    [n \in 1..Cardinality(MoveNodes(record)) |-> MoveOf(record[NthMoveNode(record, n)])]

Played(move, size) ==
    [color |-> IF move.id = "B" THEN "B" ELSE "W", mv |-> MoveToGtp(move.at, size)]

\* Mutant: points are not checked against the board.
ParseUnchecked(record, default) ==
    LET size  == SizeOf(record, default)
        moves == PlayedMoves(record)
    IN IF Malformed(record) \/ TwoMoves(record) \/ LateSetup(record) \/ size \notin 1..MaxSize
       THEN Fails
       ELSE [size   |-> size,
             moves  |-> [i \in DOMAIN moves |-> Played(moves[i], size)],
             stones |-> {<<s[1], ToGtp(s[2], size)>> : s \in StonesOf(record)}]

Parse(record, default) ==
    LET size  == SizeOf(record, default)
        moves == PlayedMoves(record)
    IN IF \/ Malformed(record) \/ TwoMoves(record) \/ LateSetup(record)
          \/ size \notin 1..MaxSize
          \/ \E i \in DOMAIN moves : ~IsPass(moves[i].at, size) /\ ~OnBoard(moves[i].at, size)
          \/ \E s \in StonesOf(record) : ~OnBoard(s[2], size)
       THEN Fails
       ELSE [size   |-> size,
             moves  |-> [i \in DOMAIN moves |-> Played(moves[i], size)],
             stones |-> {<<s[1], ToGtp(s[2], size)>> : s \in StonesOf(record)}]

\* The check at submit time assumes 19x19 where the record gives no size.
Valid(record) == Parse(record, 19) # Fails

\* Where a move sits in a policy array: the board row by row from the top,
\* then the pass.  None is for what is off the board.
PolicyIndex(mv, size) ==
    IF mv = Pass THEN size * size
    ELSE IF mv[1] < size /\ mv[2] \in 1..size THEN (size - mv[2]) * size + mv[1]
    ELSE None
=============================================================================
