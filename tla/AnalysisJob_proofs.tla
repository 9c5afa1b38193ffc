-------------------------- MODULE AnalysisJob_proofs -------------------------
(***************************************************************************)
(* What is true of every payload, whatever the game, the configuration and *)
(* the engine's answers: readings are in the mover's frame in any of the   *)
(* three report perspectives, the deep search goes to the moves that       *)
(* swung, and grids cover every turn or none.                              *)
(***************************************************************************)
EXTENDS AnalysisJob, FiniteSetTheorems, TLAPS

-----------------------------------------------------------------------------
(* Games.                                                                  *)

\* What `parse` returns: a board the queries can name, and moves of two
\* players on it.
IsGame(g) ==
    /\ g.size \in 1..MaxSize
    /\ Len(g.moves) \in Nat /\ DOMAIN g.moves = 1..Len(g.moves)
    /\ \A i \in DOMAIN g.moves :
          g.moves[i].color \in Colors /\ PolicyIndex(g.moves[i].mv, g.size) # None
    /\ \A s \in g.stones : PolicyIndex(s[2], g.size) # None

LEMMA MoveNodesFinite ==
  ASSUME NEW r \in Records
  PROVE  IsFiniteSet(MoveNodes(r)) /\ Cardinality(MoveNodes(r)) \in Nat
<1>1. IsFiniteSet(1..Len(r))
  BY RecordsAssumption, FS_Interval
<1>2. MoveNodes(r) \subseteq 1..Len(r)
  BY RecordsAssumption DEF MoveNodes
<1>3. IsFiniteSet(MoveNodes(r))
  BY <1>1, <1>2, FS_Subset
<1> QED
  BY <1>3, FS_CardinalityType

LEMMA PlayedMovesIsSeq ==
  ASSUME NEW r \in Records
  PROVE  /\ Len(PlayedMoves(r)) \in Nat
         /\ DOMAIN PlayedMoves(r) = 1..Len(PlayedMoves(r))
<1> DEFINE N == Cardinality(MoveNodes(r))
<1>1. N \in Nat
  BY MoveNodesFinite
<1>2. DOMAIN PlayedMoves(r) = 1..N
  BY DEF PlayedMoves
<1>3. PlayedMoves(r) = [n \in 1..N |-> PlayedMoves(r)[n]]
  BY DEF PlayedMoves
<1> HIDE DEF N
<1> QED
  BY <1>1, <1>2, <1>3

\* Each of the first Cardinality(S) ranks is held by one member of a finite set
\* of integers.
LEMMA RanksAreHeld ==
  ASSUME NEW S \in SUBSET Int, IsFiniteSet(S)
  PROVE  LET Rank(i) == Cardinality({k \in S : k <= i}) IN
         /\ \A i \in S : Rank(i) \in 1..Cardinality(S)
         /\ \A i, j \in S : i < j => Rank(i) < Rank(j)
         /\ \A n \in 1..Cardinality(S) : \E i \in S : Rank(i) = n
<1> DEFINE Upto(i) == {k \in S : k <= i}
           Rank(i) == Cardinality(Upto(i))
           N == Cardinality(S)
<1>1. ASSUME NEW i
      PROVE  IsFiniteSet(Upto(i)) /\ Rank(i) \in Nat /\ Rank(i) <= N
  <2>1. Upto(i) \subseteq S
    OBVIOUS
  <2> HIDE DEF Upto
  <2> QED
    BY <2>1, FS_Subset, FS_CardinalityType
<1>2. N \in Nat
  BY FS_CardinalityType
<1>3. ASSUME NEW i \in S PROVE Rank(i) \in 1..N
  <2>1. Upto(i) # {}
    <3>1. i \in Upto(i)
      OBVIOUS
    <3> QED
      BY <3>1
  <2>2. Rank(i) # 0
    <3>1. IsFiniteSet(Upto(i))
      BY <1>1
    <3> HIDE DEF Upto
    <3> QED
      BY <2>1, <3>1, FS_EmptySet
  <2>3. Rank(i) \in Nat /\ Rank(i) <= N
    BY <1>1
  <2> HIDE DEF Rank, N
  <2> QED
    BY <1>2, <2>2, <2>3
<1>4. ASSUME NEW i \in S, NEW j \in S, i < j PROVE Rank(i) < Rank(j)
  <2>1. \A k \in S : k <= i => k <= j
    BY <1>4
  <2>2. Upto(i) # Upto(j)
    <3>1. j \in Upto(j) /\ j \notin Upto(i)
      BY <1>4
    <3> QED
      BY <3>1
  <2>3. Upto(i) \subseteq Upto(j)
    BY <2>1
  <2>4. Rank(i) <= Rank(j) /\ (Rank(i) = Rank(j) => Upto(i) = Upto(j))
    <3>1. IsFiniteSet(Upto(j))
      BY <1>1
    <3> HIDE DEF Upto
    <3> QED
      BY <2>3, <3>1, FS_Subset
  <2>5. Rank(i) \in Nat /\ Rank(j) \in Nat
    BY <1>1
  <2> HIDE DEF Rank, Upto
  <2> QED
    BY <2>2, <2>4, <2>5
<1>5. ASSUME NEW n \in 1..N PROVE \E i \in S : Rank(i) = n
  <2> DEFINE f == [i \in S |-> Rank(i)]
             R == {Rank(i) : i \in S}
  <2> HIDE DEF Rank, N
  <2>1. f \in Bijection(S, R)
    <3>1. f \in Surjection(S, R)
      BY DEF Surjection
    <3>2. \A i, j \in S : f[i] = f[j] => i = j
      <4> SUFFICES ASSUME NEW i \in S, NEW j \in S, Rank(i) = Rank(j), i # j PROVE FALSE
        OBVIOUS
      <4>1. i < j \/ j < i
        OBVIOUS
      <4>2. Rank(i) \in Nat
        BY <1>1
      <4>3. Rank(i) < Rank(j) \/ Rank(j) < Rank(i)
        BY <1>4, <4>1
      <4> QED
        BY <4>2, <4>3
    <3>3. f \in Injection(S, R)
      <4>1. f \in [S -> R]
        OBVIOUS
      <4> HIDE DEF f, R
      <4> QED
        BY <3>2, <4>1 DEF Injection, IsInjective
    <3> QED
      BY <3>1, <3>3 DEF Bijection
  <2>2. R \subseteq 1..N
    BY <1>3
  <2>3. ExistsBijection(S, R)
    BY <2>1 DEF ExistsBijection
  <2> HIDE DEF R, f
  <2>4. IsFiniteSet(R) /\ Cardinality(R) = N
    BY <2>3, FS_Bijection DEF N
  <2>5. IsFiniteSet(1..N) /\ Cardinality(1..N) = N
    BY <1>2, FS_Interval
  <2>6. R = 1..N
    BY <2>2, <2>4, <2>5, FS_Subset
  <2> QED
    BY <2>6 DEF R
<1> QED
  BY <1>3, <1>4, <1>5

LEMMA OnBoardHasIndex ==
  ASSUME NEW size \in 1..MaxSize, NEW at
  PROVE  /\ OnBoard(at, size) => PolicyIndex(ToGtp(at, size), size) # None
         /\ IsPass(at, size) \/ OnBoard(at, size) => PolicyIndex(MoveToGtp(at, size), size) # None
<1>1. PolicyIndex(Pass, size) # None
  <2>1. size * size \in Int
    BY DEF MaxSize
  <2> QED
    BY <2>1, NoneAssumption DEF PolicyIndex
<1>2. ASSUME OnBoard(at, size) PROVE PolicyIndex(ToGtp(at, size), size) # None
  <2> DEFINE mv == ToGtp(at, size)
  <2>1. mv # Pass
    BY DEF ToGtp, Pass
  <2>2. mv[1] = at[1] /\ mv[2] = size - at[2]
    BY DEF ToGtp
  <2>3. mv[1] \in Nat /\ mv[1] < size /\ mv[2] \in 1..size
    BY <1>2, <2>2 DEF OnBoard, MaxSize
  <2>4. (size - mv[2]) * size + mv[1] \in Int
    BY <2>3 DEF MaxSize
  <2> QED
    BY <2>1, <2>3, <2>4, NoneAssumption DEF PolicyIndex
<1> QED
  BY <1>1, <1>2 DEF MoveToGtp

LEMMA ParseYieldsGame ==
  ASSUME NEW r \in Records, NEW default, Parse(r, default) # Fails
  PROVE  IsGame(Parse(r, default)) /\ Parse(r, default).size = SizeOf(r, default)
<1> DEFINE size  == SizeOf(r, default)
           moves == PlayedMoves(r)
<1>1. /\ size \in 1..MaxSize
      /\ \A i \in DOMAIN moves : IsPass(moves[i].at, size) \/ OnBoard(moves[i].at, size)
      /\ \A s \in StonesOf(r) : OnBoard(s[2], size)
      /\ Parse(r, default) =
            [size   |-> size,
             moves  |-> [i \in DOMAIN moves |-> Played(moves[i], size)],
             stones |-> {<<s[1], ToGtp(s[2], size)>> : s \in StonesOf(r)}]
  BY DEF Parse
<1>2. Len(moves) \in Nat /\ DOMAIN moves = 1..Len(moves)
  BY PlayedMovesIsSeq
<1> DEFINE g == Parse(r, default)
<1>3. g.size = size
  BY <1>1
<1>4. g.moves = [i \in DOMAIN moves |-> Played(moves[i], size)]
  BY <1>1
<1>5. Len(g.moves) \in Nat /\ DOMAIN g.moves = 1..Len(g.moves)
  BY <1>2, <1>4
<1>6. \A i \in DOMAIN g.moves :
         g.moves[i].color \in Colors /\ PolicyIndex(g.moves[i].mv, size) # None
  BY <1>1, <1>4, OnBoardHasIndex DEF Played, Colors
<1>7. \A s \in g.stones : PolicyIndex(s[2], size) # None
  <2> SUFFICES ASSUME NEW s \in StonesOf(r)
               PROVE  PolicyIndex(<<s[1], ToGtp(s[2], size)>>[2], size) # None
    BY <1>1
  <2> QED
    BY <1>1, OnBoardHasIndex
<1> QED
  BY <1>1, <1>3, <1>5, <1>6, <1>7 DEF IsGame

\* A record that names its board parses the same under every default.
LEMMA NamedBoardParsesAlike ==
  ASSUME NEW r, NEW d, NEW e, NEW x, SizeOf(r, x) # x
  PROVE  Parse(r, d) = Parse(r, e)
<1> DEFINE named == {i \in DOMAIN r : \E p \in PropsOf(r[i]) : p.id = "SZ"}
           last  == CHOOSE i \in named : \A k \in named : k <= i
           sizes == SelectSeq(r[last], LAMBDA p : p.id = "SZ")
<1>1. \A n : SizeOf(r, n) = IF named = {} THEN n ELSE sizes[Len(sizes)].size[1]
  BY DEF SizeOf
<1> HIDE DEF named, sizes
<1>2. SizeOf(r, d) = SizeOf(r, e)
  BY <1>1
<1> QED
  BY <1>2 DEF Parse

-----------------------------------------------------------------------------
(* Frames.                                                                 *)

LEMMA FlipFacts ==
  ASSUME NEW a \in Evaluation, NEW b \in Evaluation
  PROVE  /\ Flipped(a) \in Evaluation
         /\ Flipped(Flipped(a)) = a
         /\ Distance(Flipped(a).winrate, Flipped(b).winrate) = Distance(a.winrate, b.winrate)
         /\ Distance(Flipped(a).scoreLead, Flipped(b).scoreLead)
                = Distance(a.scoreLead, b.scoreLead)
<1>1. /\ a.winrate \in 0..100 /\ a.scoreLead \in Int
      /\ b.winrate \in 0..100 /\ b.scoreLead \in Int
  BY DEF Evaluation
<1>2. /\ Flipped(a).winrate = 100 - a.winrate /\ Flipped(a).scoreLead = -a.scoreLead
      /\ Flipped(b).winrate = 100 - b.winrate /\ Flipped(b).scoreLead = -b.scoreLead
  BY DEF Flipped
<1>3. Flipped(a) \in Evaluation
  BY <1>1 DEF Flipped, Evaluation
<1>4. Flipped(Flipped(a)) = a
  <2>1. a = [winrate |-> a.winrate, scoreLead |-> a.scoreLead]
    BY DEF Evaluation
  <2>2. 100 - (100 - a.winrate) = a.winrate /\ -(-a.scoreLead) = a.scoreLead
    BY <1>1
  <2>3. Flipped(Flipped(a)) = [winrate |-> 100 - (100 - a.winrate), scoreLead |-> -(-a.scoreLead)]
    BY <1>2 DEF Flipped
  <2> QED
    BY <2>1, <2>2, <2>3
<1>5. \A x, y \in Int : /\ Distance(100 - x, 100 - y) = Distance(x, y)
                        /\ Distance(-x, -y) = Distance(x, y)
  BY DEF Distance
<1>6. Distance(Flipped(a).winrate, Flipped(b).winrate) = Distance(a.winrate, b.winrate)
  <2>1. a.winrate \in Int /\ b.winrate \in Int
    BY <1>1
  <2>2. Distance(100 - a.winrate, 100 - b.winrate) = Distance(a.winrate, b.winrate)
    BY <2>1, <1>5
  <2> QED
    BY <1>2, <2>2
<1>7. Distance(Flipped(a).scoreLead, Flipped(b).scoreLead) = Distance(a.scoreLead, b.scoreLead)
  <2>1. Distance(-a.scoreLead, -b.scoreLead) = Distance(a.scoreLead, b.scoreLead)
    BY <1>1, <1>5
  <2> QED
    BY <1>2, <2>1
<1> QED
  BY <1>3, <1>4, <1>6, <1>7

\* An evaluation stated for one colour and turned to another is what the latter
\* sees.
LEMMA Turning ==
  ASSUME NEW black \in Evaluation, NEW frame \in Colors, NEW viewer \in Colors
  PROVE  InFrame(StatedFor(black, frame), frame, viewer) = SeenBy(viewer, black)
  BY FlipFacts DEF InFrame, StatedFor, SeenBy, Colors

LEMMA Sides ==
  ASSUME IsGame(game), NEW t \in Turns(game)
  PROVE  EngineSide(t) \in Colors /\ Frame(t) \in Colors
<1>1. SideToMoveAt(game, t) \in Colors
  BY DEF IsGame, Turns, SideToMoveAt, Other, Colors
<1>2. EngineSide(t) \in Colors
  BY <1>1 DEF IsGame, Turns, EngineSide, Other, Colors
<1> QED
  BY <1>2, PerspectiveAssumption DEF Frame, Reporter, Perspectives, Colors

\* The frame `reporter` works out for a root is the one it was stated in, if
\* the engine names the player or the fallback is who the engine moved for.
LEMMA ReporterIsFrame ==
  ASSUME IsGame(game), NEW t \in Turns(game), NEW side,
         \/ REPORT_PERSPECTIVE # "SIDETOMOVE"
         \/ engine.namesPlayer
         \/ side = EngineSide(t)
  PROVE  Reporter(IF engine.namesPlayer THEN EngineSide(t) ELSE None, side) = Frame(t)
<1>1. EngineSide(t) # None
  BY Sides, NoneAssumption
<1> QED
  BY <1>1, PerspectiveAssumption DEF Frame, Reporter, Perspectives

Lacks == {"nothing", "root", "grid"}

\* An answer to a turn of the game, by one of the searches.
IsAnswer(t, a, visits) ==
    \E black \in Evaluation, lost \in Lacks : a = Answer(t, black, visits, lost)

\* What MoveEvals makes of an answer to `t`.
Reading(a, viewer) == IF a.root = None THEN None ELSE SeenBy(viewer, a.black)

LEMMA RootReading ==
  ASSUME IsGame(game), NEW t \in Turns(game), NEW side, NEW viewer \in Colors,
         \/ REPORT_PERSPECTIVE # "SIDETOMOVE"
         \/ engine.namesPlayer
         \/ side = EngineSide(t),
         NEW a, NEW visits, IsAnswer(t, a, visits)
  PROVE  (IF a.root = None THEN None ELSE RootAsSeenBy(a.root, viewer, side))
            = Reading(a, viewer)
<1>1. CASE a.root = None
  BY <1>1 DEF Reading
<1>2. CASE a.root # None
  <2> DEFINE claim == IF engine.namesPlayer THEN EngineSide(t) ELSE None
  <2>0. PICK black \in Evaluation, lost \in Lacks : a = Answer(t, black, visits, lost)
    BY DEF IsAnswer
  <2>1. a.root = [eval |-> StatedFor(black, Frame(t)), player |-> claim] /\ a.black = black
    BY <1>2, <2>0 DEF Answer
  <2>2. RootAsSeenBy(a.root, viewer, side)
           = InFrame(StatedFor(black, Frame(t)), Reporter(claim, side), viewer)
    BY <2>1 DEF RootAsSeenBy
  <2>3. Reporter(claim, side) = Frame(t)
    BY ReporterIsFrame
  <2> QED
    BY <1>2, <2>1, <2>2, <2>3, Turning, Sides DEF Reading
<1> QED
  BY <1>1, <1>2

\* `move_evals`: both readings in the mover's frame.
LEMMA EvalsInMoversFrame ==
  ASSUME IsGame(game), Readable, NEW i \in DOMAIN game.moves, NEW got,
         i - 1 \in DOMAIN got, i \in DOMAIN got, NEW v, NEW w,
         IsAnswer(i - 1, got[i - 1], v), IsAnswer(i, got[i], w)
  PROVE  EvalsOf(game, got, i) = [before |-> Reading(got[i - 1], game.moves[i].color),
                                  after  |-> Reading(got[i], game.moves[i].color)]
<1> DEFINE color == game.moves[i].color
<1>1. i \in Turns(game) /\ i - 1 \in Turns(game) /\ color \in Colors
  BY DEF IsGame, Turns
<1>2. \/ REPORT_PERSPECTIVE # "SIDETOMOVE" \/ engine.namesPlayer
      \/ color = EngineSide(i - 1) /\ Other(color) = EngineSide(i)
  BY DEF Readable
<1>3. (IF got[i - 1].root = None THEN None ELSE RootAsSeenBy(got[i - 1].root, color, color))
         = Reading(got[i - 1], color)
  BY <1>1, <1>2, RootReading
<1>4. (IF got[i].root = None THEN None ELSE RootAsSeenBy(got[i].root, color, Other(color)))
         = Reading(got[i], color)
  BY <1>1, <1>2, RootReading
<1> QED
  BY <1>3, <1>4 DEF EvalsOf, MoveEvals, RootOf

-----------------------------------------------------------------------------
(* The passes.                                                             *)

\* Whatever a pass came to, each turn it asked for has its answer.
IsPassOver(got, turns, visits) ==
    DOMAIN got = turns /\ \A t \in turns : IsAnswer(t, got[t], visits)

LEMMA AnsweredIsPass ==
  ASSUME NEW turns, NEW evals \in SUBSET Evaluation, NEW visits,
         NEW got \in Answered(turns, evals, visits)
  PROVE  IsPassOver(got, turns, visits)
<1>1. PICK black \in [turns -> evals], at \in turns, lost \in Lacks :
         got = [t \in turns |-> Answer(t, black[t], visits, IF t = at THEN lost ELSE "nothing")]
  BY DEF Answered, Lacks
<1>2. \A t \in turns : IsAnswer(t, got[t], visits)
  <2> SUFFICES ASSUME NEW t \in turns PROVE IsAnswer(t, got[t], visits)
    OBVIOUS
  <2>1. got[t] = Answer(t, black[t], visits, IF t = at THEN lost ELSE "nothing")
    BY <1>1
  <2>2. black[t] \in Evaluation /\ (IF t = at THEN lost ELSE "nothing") \in Lacks
    BY <1>1 DEF Lacks
  <2> QED
    BY <2>1, <2>2 DEF IsAnswer
<1> QED
  BY <1>1, <1>2 DEF IsPassOver

-----------------------------------------------------------------------------
(* The invariant.                                                          *)

JobInv ==
    /\ record \in Records /\ wanted \in Profiles /\ cfg \in Configs /\ engine \in Engines
    /\ profile \in {None, wanted} /\ (profile # None => cfg.humanModel)
    /\ stage \notin {"received", "refused"} => Accepted

Searching == stage \in {"full", "screen", "refine", "done"}

GameInv ==
    /\ Searching => game = Parse(record, cfg.defaultSize) /\ game # Fails
    /\ stage \in {"received", "refused", "queued", "full", "screen"} =>
          screened = NoAnswers /\ refine = {}
    /\ stage # "done" => answers = NoAnswers

\* The search whose answer to `t` the payload is made from.
VisitsAt(t) == IF TwoPass(cfg) /\ t \notin refine THEN cfg.screenVisits ELSE cfg.maxVisits

PassInv ==
    /\ stage = "full" => ~TwoPass(cfg)
    /\ stage \in {"screen", "refine"} => TwoPass(cfg)
    /\ stage = "refine" \/ (stage = "done" /\ TwoPass(cfg)) =>
          /\ IsPassOver(screened, Turns(game), cfg.screenVisits)
          /\ refine = TurnsToRefine(game, screened, cfg)
    /\ stage = "done" =>
          /\ DOMAIN answers = Turns(game)
          /\ \A t \in Turns(game) : IsAnswer(t, answers[t], VisitsAt(t))
          /\ payload = Assemble(game, answers, cfg, profile)

IInv == TypeOK /\ JobInv /\ GameInv /\ PassInv

LEMMA InitInv == Init => IInv
<1> SUFFICES ASSUME Init PROVE IInv
  OBVIOUS
<1>1. TypeOK
  BY ProfileAssumption DEF Init, TypeOK, NoAnswers, Turns
<1>2. JobInv /\ GameInv /\ PassInv
  BY DEF Init, JobInv, GameInv, PassInv, Searching
<1> QED
  BY <1>1, <1>2 DEF IInv

LEMMA RefinesTurns ==
  ASSUME IsGame(game), NEW got
  PROVE  TurnsToRefine(game, got, cfg) \subseteq Turns(game)
  BY DEF IsGame, TurnsToRefine, Turns

\* The answers of an earlier pass remain what they are.
LEMMA AnswersKept ==
  ASSUME UNCHANGED <<given, game, profile>>, NEW t, NEW a, NEW visits, IsAnswer(t, a, visits)
  PROVE  IsAnswer(t, a, visits)'
<1>1. PICK black \in Evaluation, lost \in Lacks : a = Answer(t, black, visits, lost)
  BY DEF IsAnswer
<1>2. cfg' = cfg /\ game' = game /\ profile' = profile /\ engine' = engine
  BY DEF given
<1>3. EngineSide(t)' = EngineSide(t)
  BY <1>2 DEF EngineSide, SideToMoveAt
<1>4. Frame(t)' = Frame(t)
  BY <1>3 DEF Frame
<1>5. Points' = Points
  BY <1>2 DEF Points
<1>6. \A n : Array(t, n)' = Array(t, n)
  BY <1>4 DEF Array
<1>7. Answer(t, black, visits, lost)' = Answer(t, black, visits, lost)
  BY <1>2, <1>3, <1>4, <1>5, <1>6 DEF Answer
<1> QED
  BY <1>1, <1>7 DEF IsAnswer

LEMMA ScreenedKept ==
  ASSUME UNCHANGED <<given, game, profile>>, NEW got, screened' = got,
         IsPassOver(got, Turns(game), cfg.screenVisits)
  PROVE  IsPassOver(screened, Turns(game), cfg.screenVisits)'
<1>1. /\ cfg' = cfg /\ Turns(game)' = Turns(game)
      /\ DOMAIN got = Turns(game)
  BY DEF given, IsPassOver
<1> SUFFICES ASSUME NEW t \in Turns(game) PROVE IsAnswer(t, screened[t], cfg.screenVisits)'
  BY <1>1 DEF IsPassOver
<1>2. PICK m, n : m = got[t] /\ n = cfg.screenVisits
  OBVIOUS
<1>3. IsAnswer(t, m, n)
  BY <1>2 DEF IsPassOver
<1>4. IsAnswer(t, m, n)'
  BY <1>3, AnswersKept
<1> QED
  BY <1>1, <1>2, <1>4 DEF IsAnswer

LEMMA MergedKept ==
  ASSUME UNCHANGED <<given, game, profile, refine>>, NEW got, answers' = got,
         \A t \in Turns(game) : IsAnswer(t, got[t], VisitsAt(t))
  PROVE  \A t \in Turns(game)' : IsAnswer(t, answers[t], VisitsAt(t))'
<1>1. cfg' = cfg /\ Turns(game)' = Turns(game)
  BY DEF given
<1> SUFFICES ASSUME NEW t \in Turns(game) PROVE IsAnswer(t, answers[t], VisitsAt(t))'
  BY <1>1
<1>2. PICK m, n : m = got[t] /\ n = VisitsAt(t)
  OBVIOUS
<1>3. IsAnswer(t, m, n)
  BY <1>2
<1>4. IsAnswer(t, m, n)'
  BY <1>3, AnswersKept
<1>5. VisitsAt(t)' = n /\ answers'[t] = m
  BY <1>1, <1>2 DEF VisitsAt
<1> QED
  BY <1>4, <1>5 DEF IsAnswer

LEMMA NextInv == IInv /\ [Next]_vars => IInv'
<1> SUFFICES ASSUME IInv, [Next]_vars PROVE IInv'
  OBVIOUS
<1> USE DEF IInv
<1>1. Searching => IsGame(game)
  BY ParseYieldsGame DEF JobInv, GameInv
<1>2. CASE Submit
  BY <1>2 DEF Submit, given, TypeOK, JobInv, GameInv, PassInv, Searching, Accepted, ProfileAccepted
<1>3. CASE Start
  BY <1>3, ProfileAssumption
     DEF Start, given, TypeOK, JobInv, GameInv, PassInv, Searching, Accepted, ProfileAccepted,
         NoAnswers, Turns, TwoPass
<1>4. CASE PassFails
  BY <1>4 DEF PassFails, given, TypeOK, JobInv, GameInv, PassInv, Searching, Accepted,
              ProfileAccepted, Turns
<1>5. CASE FullPass
  <2>1. PICK got \in Answered(Turns(game), DeepEvals, cfg.maxVisits) : Finish(got)
    BY <1>5 DEF FullPass
  <2>2. IsPassOver(got, Turns(game), cfg.maxVisits)
    BY <2>1, AnsweredIsPass, EvalsAssumption
  <2>3. UNCHANGED <<given, game, profile, screened, refine>> /\ stage = "full"
    BY <1>5 DEF FullPass
  <2>4. answers' = got /\ payload' = Assemble(game, got, cfg, profile) /\ stage' = "done"
    BY <2>1 DEF Finish
  <2>6. /\ Turns(game)' = Turns(game) /\ TwoPass(cfg)' = TwoPass(cfg)
        /\ Assemble(game, answers, cfg, profile)' = payload'
    BY <2>3, <2>4 DEF given
  <2>7. TypeOK' /\ JobInv' /\ GameInv'
    BY <2>2, <2>3, <2>4, <2>6
       DEF given, TypeOK, JobInv, GameInv, Searching, Accepted, ProfileAccepted, IsPassOver
  <2>8. DOMAIN got = Turns(game) /\ ~TwoPass(cfg)
    BY <2>2, <2>3 DEF IsPassOver, PassInv
  <2>9. \A t \in Turns(game) : IsAnswer(t, got[t], VisitsAt(t))
    BY <2>2, <2>8 DEF IsPassOver, VisitsAt
  <2>10. \A t \in Turns(game)' : IsAnswer(t, answers[t], VisitsAt(t))'
    BY <2>3, <2>4, <2>9, MergedKept
  <2> QED
    BY <2>3, <2>4, <2>6, <2>7, <2>8, <2>10 DEF PassInv
<1>6. CASE ScreenPass
  <2>1. PICK got \in Answered(Turns(game), ShallowEvals, cfg.screenVisits) :
           screened' = got /\ refine' = TurnsToRefine(game, got, cfg)
    BY <1>6 DEF ScreenPass
  <2>2. IsPassOver(got, Turns(game), cfg.screenVisits)
    BY <2>1, AnsweredIsPass, EvalsAssumption
  <2>3. UNCHANGED <<given, game, profile, answers, payload>> /\ stage = "screen" /\ stage' = "refine"
    BY <1>6 DEF ScreenPass
  <2>4. Turns(game)' = Turns(game) /\ TwoPass(cfg)' = TwoPass(cfg)
        /\ refine' = TurnsToRefine(game, screened, cfg)'
    BY <2>1, <2>3 DEF given
  <2>5. refine' \subseteq Turns(game)
    BY <1>1, <2>1, <2>3, RefinesTurns DEF Searching
  <2>6. TypeOK' /\ JobInv' /\ GameInv'
    BY <2>1, <2>2, <2>3, <2>4, <2>5
       DEF given, TypeOK, JobInv, GameInv, Searching, Accepted, ProfileAccepted, IsPassOver
  <2>7. IsPassOver(screened, Turns(game), cfg.screenVisits)'
    BY <2>1, <2>2, <2>3, ScreenedKept
  <2> QED
    BY <2>3, <2>4, <2>6, <2>7 DEF PassInv
<1>7. CASE RefinePass
  <2>1. PICK got \in IF refine = {} THEN {NoAnswers} ELSE Answered(refine, DeepEvals, cfg.maxVisits) :
           Finish(MergeTurns(screened, got))
    BY <1>7 DEF RefinePass
  <2>2. UNCHANGED <<given, game, profile, screened, refine>> /\ stage = "refine"
    BY <1>7 DEF RefinePass
  <2>3. IsPassOver(got, refine, cfg.maxVisits)
    <3>1. CASE refine = {}
      BY <2>1, <3>1 DEF IsPassOver, NoAnswers
    <3>2. CASE refine # {}
      BY <2>1, <3>2, AnsweredIsPass, EvalsAssumption
    <3> QED
      BY <3>1, <3>2
  <2>4. /\ IsPassOver(screened, Turns(game), cfg.screenVisits) /\ TwoPass(cfg)
        /\ refine = TurnsToRefine(game, screened, cfg) /\ refine \subseteq Turns(game)
    BY <2>2 DEF PassInv, TypeOK
  <2>5. DOMAIN MergeTurns(screened, got) = Turns(game)
    BY <2>3, <2>4 DEF MergeTurns, IsPassOver
  <2>6. \A t \in Turns(game) : IsAnswer(t, MergeTurns(screened, got)[t], VisitsAt(t))
    BY <2>3, <2>4 DEF MergeTurns, IsPassOver, VisitsAt
  <2>7. /\ answers' = MergeTurns(screened, got) /\ stage' = "done"
        /\ payload' = Assemble(game, MergeTurns(screened, got), cfg, profile)
    BY <2>1 DEF Finish
  <2>8. /\ Turns(game)' = Turns(game) /\ TwoPass(cfg)' = TwoPass(cfg)
        /\ Assemble(game, answers, cfg, profile)' = payload'
        /\ TurnsToRefine(game, screened, cfg)' = TurnsToRefine(game, screened, cfg)
    BY <2>2, <2>7 DEF given
  <2>9. TypeOK' /\ JobInv' /\ GameInv'
    BY <2>2, <2>4, <2>5, <2>7, <2>8
       DEF given, TypeOK, JobInv, GameInv, Searching, Accepted, ProfileAccepted
  <2>10. \A t \in Turns(game)' : IsAnswer(t, answers[t], VisitsAt(t))'
    BY <2>2, <2>6, <2>7, MergedKept
  <2>11. IsPassOver(screened, Turns(game), cfg.screenVisits)'
    BY <2>2, <2>4, ScreenedKept
  <2> QED
    BY <2>2, <2>4, <2>5, <2>7, <2>8, <2>9, <2>10, <2>11 DEF PassInv
<1>8. CASE UNCHANGED vars
  <2>1. UNCHANGED <<given, stage, game, profile, screened, refine, answers, payload>>
    BY <1>8 DEF vars, given
  <2>2. TypeOK' /\ JobInv' /\ GameInv'
    BY <2>1 DEF given, TypeOK, JobInv, GameInv, Searching, Accepted, ProfileAccepted
  <2>3. ASSUME IsPassOver(screened, Turns(game), cfg.screenVisits)
        PROVE  IsPassOver(screened, Turns(game), cfg.screenVisits)'
    BY <2>1, <2>3, ScreenedKept
  <2>4. ASSUME \A t \in Turns(game) : IsAnswer(t, answers[t], VisitsAt(t))
        PROVE  \A t \in Turns(game)' : IsAnswer(t, answers[t], VisitsAt(t))'
    BY <2>1, <2>4, MergedKept
  <2> QED
    BY <2>1, <2>2, <2>3, <2>4 DEF given, PassInv
<1> QED
  BY <1>2, <1>3, <1>4, <1>5, <1>6, <1>7, <1>8 DEF Next

\* The inductive invariant of a job, from its submission to its payload.
THEOREM Invariance == Spec => []IInv
  BY InitInv, NextInv, PTL DEF Spec

\* Every variable has its type, and what is searched are turns of the game.
THEOREM TypeCorrect == Spec => []TypeOK
<1>1. IInv => TypeOK
  BY DEF IInv
<1> QED
  BY <1>1, Invariance, PTL

-----------------------------------------------------------------------------
(* What follows from it.                                                   *)

\* What GTP calls a point of the record lies on that point's cell.
LEMMA CellOfGtp ==
  ASSUME NEW size \in 1..MaxSize, NEW at
  PROVE  /\ at # Pass /\ OnBoard(at, size) =>
               /\ PolicyIndex(ToGtp(at, size), size) = Cell(at, size)
               /\ Cell(at, size) # None
         /\ IsPass(at, size) \/ OnBoard(at, size) =>
               /\ PolicyIndex(MoveToGtp(at, size), size) = Cell(at, size)
               /\ Cell(at, size) # None
<1>1. PolicyIndex(Pass, size) = size * size /\ size * size # None
  <2>1. size * size \in Int
    BY DEF MaxSize
  <2> QED
    BY <2>1, NoneAssumption DEF PolicyIndex
<1>2. ASSUME at # Pass, OnBoard(at, size)
      PROVE  PolicyIndex(ToGtp(at, size), size) = Cell(at, size) /\ Cell(at, size) # None
  <2> DEFINE mv == ToGtp(at, size)
  <2>1. mv # Pass
    BY DEF ToGtp, Pass
  <2>2. mv[1] = at[1] /\ mv[2] = size - at[2]
    BY DEF ToGtp
  <2>3. /\ at[1] \in Int /\ at[2] \in Int /\ at[1] < size /\ mv[2] \in 1..size
        /\ size - mv[2] = at[2]
    BY <1>2, <2>2 DEF OnBoard, MaxSize
  <2>4. PolicyIndex(mv, size) = (size - mv[2]) * size + mv[1]
    BY <2>1, <2>2, <2>3 DEF PolicyIndex
  <2>5. PolicyIndex(mv, size) = at[2] * size + at[1]
    BY <2>2, <2>3, <2>4
  <2>6. Cell(at, size) = at[2] * size + at[1]
    BY <1>2 DEF Cell
  <2>7. at[2] * size + at[1] \in Int
    BY <2>3 DEF MaxSize
  <2> QED
    BY <2>5, <2>6, <2>7, NoneAssumption
<1>3. ASSUME IsPass(at, size) PROVE Cell(at, size) = size * size
  <2>1. CASE at = Pass
    BY <2>1 DEF Cell
  <2>2. CASE at = TT /\ size <= 19
    <3>1. ~OnBoard(at, size)
      BY <2>2 DEF OnBoard, TT, MaxSize
    <3> QED
      BY <2>2, <3>1 DEF Cell
  <2> QED
    BY <1>3, <2>1, <2>2 DEF IsPass
<1>4. ASSUME ~IsPass(at, size) PROVE at # Pass
  BY <1>4 DEF IsPass
<1> QED
  BY <1>1, <1>2, <1>3, <1>4 DEF MoveToGtp

\* The nodes that hold a move, by rank, are the moves of the query.
LEMMA ReplaysMoves ==
  ASSUME record \in Records, game # Fails, NEW d, game = Parse(record, d)
  PROVE  MovesAsRecorded
<1> DEFINE N == Cardinality(MoveNodes(record))
           node == [n \in 1..N |-> NthMoveNode(record, n)]
           moves == PlayedMoves(record)
<1>1. /\ game.size \in 1..MaxSize
      /\ \A i \in DOMAIN moves : IsPass(moves[i].at, game.size) \/ OnBoard(moves[i].at, game.size)
      /\ game.moves = [i \in DOMAIN moves |-> Played(moves[i], game.size)]
      /\ ~TwoMoves(record)
  BY DEF Parse
<1>2. DOMAIN moves = 1..N /\ \A n \in 1..N : moves[n] = MoveOf(record[NthMoveNode(record, n)])
  BY DEF PlayedMoves
<1>3. DOMAIN game.moves = 1..N
  BY <1>1, <1>2
<1> DEFINE Rank(i) == Cardinality({k \in MoveNodes(record) : k <= i})
<1>4. /\ \A i \in MoveNodes(record) : Rank(i) \in 1..N
      /\ \A i, j \in MoveNodes(record) : i < j => Rank(i) < Rank(j)
      /\ \A n \in 1..N : \E i \in MoveNodes(record) : Rank(i) = n
  <2>1. MoveNodes(record) \subseteq Int
    BY RecordsAssumption DEF MoveNodes
  <2>2. IsFiniteSet(MoveNodes(record)) /\ MoveNodes(record) \in SUBSET Int
    BY <2>1, MoveNodesFinite
  <2> HIDE DEF N
  <2> QED
    BY <2>2, RanksAreHeld DEF N
<1>5. \A n \in 1..N : node[n] \in MoveNodes(record) /\ Rank(node[n]) = n
  <2> SUFFICES ASSUME NEW n \in 1..N
               PROVE  NthMoveNode(record, n) \in MoveNodes(record) /\ Rank(NthMoveNode(record, n)) = n
    OBVIOUS
  <2>1. \E i \in MoveNodes(record) : Rank(i) = n
    BY <1>4
  <2> QED
    BY <2>1 DEF NthMoveNode
<1>6. node \in [DOMAIN game.moves -> MoveNodes(record)]
  BY <1>3, <1>5
<1>7. MoveNodes(record) \subseteq Int /\ N \in Nat
  <2>1. MoveNodes(record) \subseteq Int
    BY RecordsAssumption DEF MoveNodes
  <2>2. N \in Nat
    BY MoveNodesFinite
  <2> QED
    BY <2>1, <2>2
<1> HIDE DEF N, Rank
<1>8. {node[n] : n \in DOMAIN game.moves} = MoveNodes(record)
  <2>1. ASSUME NEW i \in MoveNodes(record) PROVE \E n \in 1..N : node[n] = i
    <3>1. Rank(i) \in 1..N
      BY <1>4
    <3> DEFINE j == node[Rank(i)]
    <3>2. j \in MoveNodes(record) /\ Rank(j) = Rank(i)
      BY <1>5, <3>1
    <3> HIDE DEF j, node
    <3>3. j = i
      <4>1. ~(j < i) /\ ~(i < j)
        BY <1>4, <3>1, <3>2
      <4> QED
        BY <1>7, <3>2, <4>1
    <3> QED
      BY <3>1, <3>3 DEF j
  <2> HIDE DEF node
  <2> QED
    BY <1>3, <1>5, <2>1
<1>9. \A n, k \in DOMAIN game.moves : n < k => node[n] < node[k]
  <2> SUFFICES ASSUME NEW n \in 1..N, NEW k \in 1..N, n < k PROVE node[n] < node[k]
    BY <1>3
  <2>1. /\ node[n] \in MoveNodes(record) /\ Rank(node[n]) = n
        /\ node[k] \in MoveNodes(record) /\ Rank(node[k]) = k
    BY <1>5
  <2> HIDE DEF node
  <2>2. node[n] # node[k] /\ ~(node[k] < node[n])
    BY <1>4, <1>7, <2>1
  <2> QED
    BY <1>7, <2>1, <2>2
<1>10. ASSUME NEW n \in DOMAIN game.moves
       PROVE  \E k \in MovesOf(record[node[n]]) :
                 LET m == record[node[n]][k] IN
                 /\ MovesOf(record[node[n]]) = {k}
                 /\ game.moves[n].color = m.id
                 /\ Cell(m.at, game.size) # None
                 /\ PolicyIndex(game.moves[n].mv, game.size) = Cell(m.at, game.size)
  <2>1. n \in 1..N /\ node[n] \in MoveNodes(record) /\ node[n] = NthMoveNode(record, n)
    BY <1>3, <1>5
  <2>2. moves[n] = MoveOf(record[node[n]])
    BY <1>2, <2>1
  <2> HIDE DEF node, moves
  <2> DEFINE k == CHOOSE x \in MovesOf(record[node[n]]) : TRUE
             m == record[node[n]][k]
  <2>3. node[n] \in DOMAIN record /\ k \in MovesOf(record[node[n]])
    BY <2>1 DEF MoveNodes
  <2>4. moves[n] = m
    BY <2>2 DEF MoveOf
  <2>5. m.id \in Colors
    BY <2>3 DEF MovesOf
  <2>6. MovesOf(record[node[n]]) = {k}
    <3> HIDE DEF k
    <3> QED
      BY <1>1, <2>3 DEF TwoMoves
  <2> HIDE DEF k, m
  <2>7. game.moves[n] = Played(m, game.size)
    BY <1>1, <1>2, <2>1, <2>4
  <2>8. game.moves[n].color = m.id
    BY <2>5, <2>7 DEF Played, Colors
  <2>9. game.moves[n].mv = MoveToGtp(m.at, game.size)
    BY <2>7 DEF Played
  <2>10. IsPass(m.at, game.size) \/ OnBoard(m.at, game.size)
    BY <1>1, <1>2, <2>1, <2>4
  <2>11. /\ PolicyIndex(game.moves[n].mv, game.size) = Cell(m.at, game.size)
         /\ Cell(m.at, game.size) # None
    BY <1>1, <2>9, <2>10, CellOfGtp
  <2> QED
    BY <2>3, <2>6, <2>8, <2>11 DEF m
<1> HIDE DEF node, moves
<1> QED
  BY <1>6, <1>8, <1>9, <1>10 DEF MovesAsRecorded

LEMMA ReplaysStones ==
  ASSUME record \in Records, game # Fails, NEW d, game = Parse(record, d)
  PROVE  StonesAsRecorded
<1>1. /\ game.size \in 1..MaxSize
      /\ \A s \in StonesOf(record) : OnBoard(s[2], game.size)
      /\ game.stones = {<<s[1], ToGtp(s[2], game.size)>> : s \in StonesOf(record)}
      /\ ~Malformed(record) /\ ~LateSetup(record)
  BY DEF Parse
<1>2. ASSUME NEW s \in StonesOf(record)
      PROVE  PolicyIndex(ToGtp(s[2], game.size), game.size) = Cell(s[2], game.size)
  BY <1>1, RecordsAssumption, CellOfGtp
<1>3. {<<s[1], PolicyIndex(s[2], game.size)>> : s \in game.stones}
         = {<<s[1], Cell(s[2], game.size)>> : s \in StonesOf(record)}
  <2> DEFINE Stones == StonesOf(record)
             at(s) == <<s[1], ToGtp(s[2], game.size)>>
  <2>1. \A s \in Stones : at(s)[1] = s[1] /\ PolicyIndex(at(s)[2], game.size) = Cell(s[2], game.size)
    BY <1>2
  <2>2. game.stones = {at(s) : s \in Stones}
    BY <1>1
  <2> HIDE DEF Stones, at
  <2> QED
    BY <2>1, <2>2 DEF Stones
<1>4. ASSUME NEW i \in DOMAIN record, NEW p \in PropsOf(record[i]), IsSetup(p),
             NEW k \in MoveNodes(record)
      PROVE  i <= k
  <2>1. ~(k < i)
    BY <1>1, <1>4 DEF LateSetup, MoveNodes
  <2>2. i \in Int /\ k \in Int
    BY RecordsAssumption DEF MoveNodes
  <2> QED
    BY <2>1, <2>2
<1>5. ASSUME NEW i \in DOMAIN record, NEW p \in PropsOf(record[i]), p.id = "AE"
      PROVE  p.points = {}
  BY <1>1, <1>5 DEF Malformed
<1> QED
  BY <1>1, <1>3, <1>4, <1>5 DEF StonesAsRecorded

\* What KataGo is asked to replay is the game of the record, whatever the record
\* and the worker's default board; and `validate` at submission and `parse` in
\* the worker part only over a record that names no board.
THEOREM RecordIsReplayed == Spec => []QueryReplaysRecord
<1>1. IInv => QueryReplaysRecord
  <2> SUFFICES ASSUME IInv PROVE QueryReplaysRecord
    OBVIOUS
  <2>1. ASSUME stage \notin {"received", "refused"}, Parse(record, cfg.defaultSize) = Fails
        PROVE  SizeOf(record, None) = None /\ cfg.defaultSize # 19
    <3>1. Parse(record, 19) # Fails
      BY <2>1 DEF IInv, JobInv, Accepted, Valid
    <3> QED
      BY <2>1, <3>1, NamedBoardParsesAlike
  <2>2. ASSUME Searching
        PROVE  /\ game.size = SizeOf(record, cfg.defaultSize)
               /\ MovesAsRecorded /\ StonesAsRecorded
               /\ profile # None => profile \in KnownProfiles /\ cfg.humanModel
    <3>1. game = Parse(record, cfg.defaultSize) /\ game # Fails /\ record \in Records
      BY <2>2 DEF IInv, GameInv, JobInv
    <3>2. game.size = SizeOf(record, cfg.defaultSize)
      BY <3>1, ParseYieldsGame
    <3>3. MovesAsRecorded /\ StonesAsRecorded
      BY <3>1, ReplaysMoves, ReplaysStones
    <3>4. profile # None => profile \in KnownProfiles /\ cfg.humanModel
      BY <2>2 DEF IInv, JobInv, Searching, Accepted, ProfileAccepted
    <3> QED
      BY <3>2, <3>3, <3>4
  <2> QED
    BY <2>1, <2>2 DEF QueryReplaysRecord, Searching
<1> QED
  BY <1>1, Invariance, PTL

\* A swing is the same in either player's frame.
LEMMA SwingInEitherFrame ==
  ASSUME NEW a, NEW b, a.black \in Evaluation, b.black \in Evaluation, NEW viewer
  PROVE  Swings([before |-> Reading(a, viewer), after |-> Reading(b, viewer)], cfg)
            <=> \/ a.root = None \/ b.root = None
                \/ Distance(a.black.winrate, b.black.winrate) >= cfg.refineWinrateDelta
                \/ Distance(a.black.scoreLead, b.black.scoreLead) >= cfg.refineScoreDelta
<1> DEFINE seen(x) == SeenBy(viewer, x.black)
<1>1. /\ seen(a) # None /\ seen(b) # None
      /\ Distance(seen(a).winrate, seen(b).winrate) = Distance(a.black.winrate, b.black.winrate)
      /\ Distance(seen(a).scoreLead, seen(b).scoreLead)
            = Distance(a.black.scoreLead, b.black.scoreLead)
  BY FlipFacts, NoneAssumption DEF SeenBy
<1> HIDE DEF seen
<1>2. /\ Reading(a, viewer) = IF a.root = None THEN None ELSE seen(a)
      /\ Reading(b, viewer) = IF b.root = None THEN None ELSE seen(b)
  BY DEF Reading, seen
<1> QED
  BY <1>1, <1>2 DEF Swings

\* The second pass looks again at exactly the turns beside a move that swung.
THEOREM SwingsGoDeep == Spec => []SwingsSearchedDeep
<1>1. IInv => SwingsSearchedDeep
  <2> SUFFICES ASSUME IInv, stage = "done"
               PROVE  /\ DOMAIN answers = Turns(game)
                      /\ TwoPass(cfg) /\ Readable => \A t \in Turns(game) :
                            (answers[t].visits = cfg.maxVisits) <=>
                               \E i \in {t, t + 1} \cap DOMAIN game.moves :
                                  LET a == screened[i - 1]
                                      b == screened[i]
                                  IN \/ a.root = None \/ b.root = None
                                     \/ Distance(a.black.winrate, b.black.winrate)
                                           >= cfg.refineWinrateDelta
                                     \/ Distance(a.black.scoreLead, b.black.scoreLead)
                                           >= cfg.refineScoreDelta
    BY DEF SwingsSearchedDeep
  <2>1. IsGame(game)
    BY ParseYieldsGame DEF IInv, JobInv, GameInv, Searching
  <2>2. DOMAIN answers = Turns(game) /\ \A t \in Turns(game) : IsAnswer(t, answers[t], VisitsAt(t))
    BY DEF IInv, PassInv
  <2> DEFINE Swung(i) == LET a == screened[i - 1]
                             b == screened[i]
                         IN \/ a.root = None \/ b.root = None
                            \/ Distance(a.black.winrate, b.black.winrate)
                                  >= cfg.refineWinrateDelta
                            \/ Distance(a.black.scoreLead, b.black.scoreLead)
                                  >= cfg.refineScoreDelta
  <2>3. ASSUME TwoPass(cfg), Readable, NEW t \in Turns(game)
        PROVE  (answers[t].visits = cfg.maxVisits)
                  <=> \E i \in {t, t + 1} \cap DOMAIN game.moves : Swung(i)
    <3>1. answers[t].visits = VisitsAt(t)
      BY <2>2 DEF IsAnswer, Answer
    <3>2. cfg.screenVisits # cfg.maxVisits
      BY <2>3, ConfigsAssumption DEF TwoPass, IInv, JobInv
    <3>3. /\ IsPassOver(screened, Turns(game), cfg.screenVisits)
          /\ refine = TurnsToRefine(game, screened, cfg)
      BY <2>3 DEF IInv, PassInv
    <3>4. ASSUME NEW i \in DOMAIN game.moves
          PROVE  Swings(EvalsOf(game, screened, i), cfg) <=> Swung(i)
      <4>1. i \in Turns(game) /\ i - 1 \in Turns(game)
        BY <2>1 DEF IsGame, Turns
      <4>2. /\ IsAnswer(i - 1, screened[i - 1], cfg.screenVisits)
            /\ IsAnswer(i, screened[i], cfg.screenVisits)
            /\ i \in DOMAIN screened /\ i - 1 \in DOMAIN screened
        BY <3>3, <4>1 DEF IsPassOver
      <4>3. screened[i - 1].black \in Evaluation /\ screened[i].black \in Evaluation
        BY <4>2 DEF IsAnswer, Answer
      <4>4. EvalsOf(game, screened, i) =
               [before |-> Reading(screened[i - 1], game.moves[i].color),
                after  |-> Reading(screened[i], game.moves[i].color)]
        BY <2>1, <2>3, <4>2, EvalsInMoversFrame
      <4> QED
        BY <4>3, <4>4, SwingInEitherFrame
    <3>5. t \in refine <=> \E i \in {t, t + 1} \cap DOMAIN game.moves : Swung(i)
      <4> HIDE DEF Swung
      <4>1. t \in Nat /\ DOMAIN game.moves \subseteq Nat
        BY <2>1 DEF IsGame, Turns
      <4> QED
        BY <3>3, <3>4, <4>1 DEF TurnsToRefine
    <3> QED
      BY <2>3, <3>1, <3>2, <3>5 DEF VisitsAt
  <2> QED
    BY <2>2, <2>3
<1> QED
  BY <1>1, Invariance, PTL

-----------------------------------------------------------------------------
(* Grids.                                                                  *)

\* The arrays of an answer are those of its own turn.
LEMMA ArraysOfTheTurn ==
  ASSUME NEW t, NEW a, NEW visits, IsAnswer(t, a, visits)
  PROVE  /\ a.ownership.turn = t /\ a.ownership.frame = Frame(t)
         /\ a.ownershipStdev.turn = t /\ a.policy.turn = t /\ a.humanPolicy.turn = t
         /\ a.humanPolicy.len # 0 => profile # None
<1>1. PICK black \in Evaluation, lost \in Lacks : a = Answer(t, black, visits, lost)
  BY DEF IsAnswer
<1> QED
  BY <1>1 DEF Answer, Array

WholeGrid(grid) ==
    grid = NoGrid \/ (DOMAIN grid = Turns(game) /\ \A t \in DOMAIN grid : grid[t].turn = t)

LEMMA GridIsWhole ==
  ASSUME NEW arrays, \A t \in Turns(game) : t \in DOMAIN arrays => arrays[t].turn = t, NEW n
  PROVE  /\ WholeGrid(PerTurnGrid(game, arrays, n))
         /\ \A t \in DOMAIN PerTurnGrid(game, arrays, n) :
               t \in Turns(game) /\ PerTurnGrid(game, arrays, n)[t] = arrays[t]
         /\ PerTurnGrid(game, arrays, n) # NoGrid =>
               \A t \in Turns(game) : arrays[t].len = game.size * game.size + n
  BY DEF PerTurnGrid, WholeGrid, NoGrid

LEMMA GridIsThere ==
  ASSUME NEW arrays, DOMAIN arrays = Turns(game), 0 \in Turns(game), NEW n
  PROVE  PerTurnGrid(game, arrays, n) # NoGrid
            <=> \A t \in Turns(game) : arrays[t].len = game.size * game.size + n
<1>1. [t \in Turns(game) |-> arrays[t]] # NoGrid
  BY DEF NoGrid
<1> QED
  BY <1>1 DEF PerTurnGrid

\* `normalise_ownership`, where the engine agrees with the move list.
LEMMA TurnedToBlack ==
  ASSUME IsGame(game), NEW t \in Turns(game), EngineSide(t) = SideToMoveAt(game, t),
         NEW array, array.frame = Frame(t)
  PROVE  BlackPositive(game, t, array).frame = "B"
<1>1. Reporter(None, SideToMoveAt(game, t)) = Frame(t)
  BY PerspectiveAssumption, Sides, NoneAssumption DEF Frame, Reporter, Perspectives
<1> QED
  BY <1>1, Sides DEF BlackPositive, Other, Colors

\* Grids cover every turn with that turn's own array, or are left out, and the
\* payload says which; ownership is Black's wherever the engine agrees with the
\* move list or nothing shows that it does not.
THEOREM GridsCoverAllOrNothing == Spec => []GridsAllOrNothing
<1>1. IInv => GridsAllOrNothing
  <2> SUFFICES ASSUME IInv, stage = "done" PROVE GridsAllOrNothing
    BY DEF GridsAllOrNothing
  <2>1. IsGame(game)
    BY ParseYieldsGame DEF IInv, JobInv, GameInv, Searching
  <2>2. /\ DOMAIN answers = Turns(game)
        /\ \A t \in Turns(game) : IsAnswer(t, answers[t], VisitsAt(t))
        /\ payload = Assemble(game, answers, cfg, profile)
    BY DEF IInv, PassInv
  <2> DEFINE own   == [t \in DOMAIN answers |-> answers[t].ownership]
             stdev == [t \in DOMAIN answers |-> answers[t].ownershipStdev]
             pol   == [t \in DOMAIN answers |-> answers[t].policy]
             hum   == [t \in DOMAIN answers |-> answers[t].humanPolicy]
  <2>3. /\ payload.ownership = NormaliseOwnership(game, answers)
        /\ payload.ownershipStdev = PerTurnGrid(game, stdev, 0)
        /\ payload.policy = PerTurnGrid(game, pol, 1)
        /\ payload.humanPolicy = PerTurnGrid(game, hum, 1)
        /\ payload.humanProfile = IF payload.humanPolicy = NoGrid THEN None ELSE profile
        /\ payload.warned = Misaligned(game, answers)
        /\ payload.engine.ownershipStdev = (payload.ownershipStdev # NoGrid)
        /\ payload.engine.policy = (payload.policy # NoGrid)
    BY <2>2 DEF Assemble, OwnershipStdevGrid, PolicyGrid
  <2>4. \A t \in Turns(game) :
           /\ own[t].turn = t /\ own[t].frame = Frame(t)
           /\ stdev[t].turn = t /\ pol[t].turn = t /\ hum[t].turn = t
           /\ hum[t].len # 0 => profile # None
    BY <2>2, ArraysOfTheTurn
  <2> HIDE DEF own, stdev, pol, hum
  <2>5. /\ WholeGrid(payload.ownershipStdev)
        /\ WholeGrid(payload.policy)
        /\ WholeGrid(payload.humanPolicy)
    BY <2>3, <2>4, GridIsWhole
  <2> DEFINE grid == PerTurnGrid(game, own, 0)
  <2>6. payload.ownership = [t \in DOMAIN grid |-> BlackPositive(game, t, grid[t])]
    BY <2>3 DEF NormaliseOwnership, own
  <2>7. WholeGrid(grid) /\ \A t \in DOMAIN grid : t \in Turns(game) /\ grid[t] = own[t]
    BY <2>4, GridIsWhole
  <2> HIDE DEF grid
  <2>8. WholeGrid(payload.ownership)
    <3>1. CASE grid = NoGrid
      BY <2>6, <3>1 DEF WholeGrid, NoGrid
    <3>2. CASE DOMAIN grid = Turns(game) /\ \A t \in DOMAIN grid : grid[t].turn = t
      BY <2>6, <3>2 DEF WholeGrid, BlackPositive
    <3> QED
      BY <2>7, <3>1, <3>2 DEF WholeGrid
  <2>9. SeemsToAgree => Agrees
    <3> SUFFICES ASSUME SeemsToAgree, NEW t \in Turns(game)
                 PROVE  EngineSide(t) = SideToMoveAt(game, t)
      BY DEF Agrees
    <3>1. answers[t].root # None /\ engine.namesPlayer
      BY DEF SeemsToAgree
    <3>2. answers[t].root.player = EngineSide(t)
      <4>1. PICK black \in Evaluation, lost \in Lacks :
               answers[t] = Answer(t, black, VisitsAt(t), lost)
        BY <2>2 DEF IsAnswer
      <4> QED
        BY <3>1, <4>1 DEF Answer
    <3>3. answers[t].root.player \in {None, SideToMoveAt(game, t)}
      BY <2>2, <2>3, <3>1 DEF SeemsToAgree, Misaligned, RootOf
    <3> QED
      BY <2>1, <3>2, <3>3, Sides, NoneAssumption
  <2>10. ASSUME Agrees, NEW t \in DOMAIN payload.ownership
         PROVE  payload.ownership[t].frame = "B"
    <3>1. t \in DOMAIN grid /\ payload.ownership[t] = BlackPositive(game, t, grid[t])
      BY <2>6
    <3>2. t \in Turns(game) /\ grid[t].frame = Frame(t)
      BY <2>4, <2>7, <3>1
    <3>3. EngineSide(t) = SideToMoveAt(game, t)
      BY <2>10, <3>2 DEF Agrees
    <3> QED
      BY <2>1, <3>1, <3>2, <3>3, TurnedToBlack
  <2>11. payload.humanPolicy # NoGrid => profile # None
    <3>1. 0 \in Turns(game) /\ game.size * game.size + 1 # 0
      <4>1. game.size \in 1..25
        BY <2>1 DEF IsGame, MaxSize
      <4>2. \A n \in 1..25 : n * n + 1 # 0
        OBVIOUS
      <4>3. 0 \in Turns(game)
        BY <2>1 DEF IsGame, Turns
      <4> QED
        BY <4>1, <4>2, <4>3
    <3> QED
      BY <2>3, <2>4, <3>1, GridIsWhole
  <2>12. \A g \in Grids : WholeGrid(g)
    BY <2>5, <2>8 DEF Grids
  <2>13. profile \in {None, wanted}
    BY DEF IInv, JobInv
  <2>14. game.size * game.size \in Int
    <3>1. game.size \in 1..25
      BY <2>1 DEF IsGame, MaxSize
    <3>2. \A n \in 1..25 : n * n \in Int
      OBVIOUS
    <3> QED
      BY <3>1, <3>2
  <2>15. 0 \in Turns(game)
    BY <2>1 DEF IsGame, Turns
  <2>16. /\ payload.engine.ownershipStdev <=>
               \A t \in Turns(game) : stdev[t].len = game.size * game.size + 0
         /\ payload.engine.policy <=>
               \A t \in Turns(game) : pol[t].len = game.size * game.size + 1
    <3>1. DOMAIN stdev = Turns(game) /\ DOMAIN pol = Turns(game)
      BY <2>2 DEF stdev, pol
    <3> QED
      BY <2>3, <2>15, <3>1, GridIsThere
  <2>17. /\ payload.engine.ownershipStdev <=>
               \A t \in Turns(game) : answers[t].ownershipStdev.len = Points
         /\ payload.engine.policy <=>
               \A t \in Turns(game) : answers[t].policy.len = Points + 1
    BY <2>2, <2>14, <2>16 DEF stdev, pol, Points
  <2> QED
    BY <2>3, <2>9, <2>10, <2>11, <2>12, <2>13, <2>17 DEF GridsAllOrNothing, WholeGrid
<1> QED
  BY <1>1, Invariance, PTL

-----------------------------------------------------------------------------
(* Losses.                                                                 *)

\* The best candidates of an answer, in whichever order, are candidates of it.
LEMMA TopMovesAreCandidates ==
  ASSUME NEW a, NEW x, NEW y, a.infos = <<x, y>>, x.order = 1, y.order = 0,
         NEW color, NEW c, c.topK \in Nat, NEW k \in DOMAIN TopMoves(a, color, c)
  PROVE  TopMoves(a, color, c)[k].eval
            \in {CandidateAsSeenBy(x, color, color), CandidateAsSeenBy(y, color, color)}
<1> DEFINE s == <<x, y>>
           Sorted(f) == \A i, j \in DOMAIN s : i < j => s[f[i]].order < s[f[j]].order
           at == CHOOSE f \in [DOMAIN s -> DOMAIN s] : Sorted(f)
           sorted == [i \in DOMAIN s |-> s[at[i]]]
<1>1. DOMAIN s = 1..2 /\ ByOrder(s) = sorted
  BY DEF ByOrder
<1>2. \E f \in [DOMAIN s -> DOMAIN s] : Sorted(f)
  <2> DEFINE f == [i \in 1..2 |-> 3 - i]
  <2>1. f \in [1..2 -> 1..2]
    OBVIOUS
  <2>2. Sorted(f)
    OBVIOUS
  <2> QED
    BY <1>1, <2>1, <2>2
<1>3. at \in [1..2 -> 1..2]
  BY <1>1, <1>2
<1> HIDE DEF at
<1>4. Len(sorted) = 2 /\ \A i \in 1..2 : sorted[i] \in {x, y}
  BY <1>1, <1>3
<1> HIDE DEF sorted
<1>5. TopMoves(a, color, c) =
        [l \in 1..(IF Len(sorted) < c.topK THEN Len(sorted) ELSE c.topK) |->
           [mv         |-> sorted[l].mv,
            eval       |-> CandidateAsSeenBy(sorted[l], color, color),
            prior      |-> sorted[l].prior,
            humanPrior |-> sorted[l].humanPrior]]
  BY <1>1 DEF TopMoves
<1>6. k \in 1..2
  BY <1>4, <1>5
<1> QED
  BY <1>4, <1>5, <1>6

\* Every candidate is turned to the mover, where the engine agrees about who it
\* is.
LEMMA CandidatesInMoversFrame ==
  ASSUME IsGame(game), NEW i \in DOMAIN game.moves, EngineSide(i - 1) = game.moves[i].color,
         cfg \in Configs, NEW a, NEW visits, IsAnswer(i - 1, a, visits),
         NEW k \in DOMAIN TopMoves(a, game.moves[i].color, cfg)
  PROVE  TopMoves(a, game.moves[i].color, cfg)[k].eval = SeenBy(game.moves[i].color, a.black)
<1> DEFINE color == game.moves[i].color
<1>1. PICK black \in Evaluation, lost \in Lacks : a = Answer(i - 1, black, visits, lost)
  BY DEF IsAnswer
<1>2. color \in Colors /\ i - 1 \in Turns(game)
  BY DEF IsGame, Turns
<1>3. PICK x, y : /\ a.infos = <<x, y>> /\ x.order = 1 /\ y.order = 0
                  /\ x.eval = StatedFor(black, Frame(i - 1))
                  /\ y.eval = StatedFor(black, Frame(i - 1))
  BY <1>1 DEF Answer
<1>4. a.black = black
  BY <1>1 DEF Answer
<1>5. Frame(i - 1) = Reporter(color, color)
  BY DEF Frame
<1>6. /\ CandidateAsSeenBy(x, color, color) = SeenBy(color, black)
      /\ CandidateAsSeenBy(y, color, color) = SeenBy(color, black)
  BY <1>2, <1>3, <1>5, Turning, Sides DEF CandidateAsSeenBy
<1> QED
  BY <1>3, <1>4, <1>6, ConfigsAssumption, TopMovesAreCandidates

LEMMA AnnotationFields ==
  ASSUME NEW g, NEW got, NEW c, NEW i, i - 1 \in DOMAIN got
  PROVE  LET evals  == EvalsOf(g, got, i)
             best   == IF evals.before = None THEN [winrate |-> 50, scoreLead |-> 0]
                       ELSE evals.before
             result == IF evals.after = None THEN best ELSE evals.after
             m      == Annotation(g, got, c, i)
         IN /\ m.bestWinrate = best.winrate
            /\ m.winrateLoss = AtLeastZero(best.winrate - result.winrate)
            /\ m.scoreLoss = AtLeastZero(best.scoreLead - result.scoreLead)
            /\ m.topMoves = TopMoves(got[i - 1], g.moves[i].color, c)
<1> DEFINE evals  == EvalsOf(g, got, i)
           best   == IF evals.before = None THEN [winrate |-> 50, scoreLead |-> 0]
                     ELSE evals.before
           result == IF evals.after = None THEN best ELSE evals.after
           m      == Annotation(g, got, c, i)
<1>1. m.bestWinrate = best.winrate
  BY DEF Annotation
<1>2. m.winrateLoss = AtLeastZero(best.winrate - result.winrate)
  BY DEF Annotation
<1>3. m.scoreLoss = AtLeastZero(best.scoreLead - result.scoreLead)
  BY DEF Annotation
<1>4. m.topMoves = TopMoves(got[i - 1], g.moves[i].color, c)
  BY DEF Annotation
<1> QED
  BY <1>1, <1>2, <1>3, <1>4

\* Whatever frame the engine reports in, each move is charged with what its
\* mover lost, if the frame can be told (`move_evals`, `annotate`).
THEOREM LossesAreMovers == Spec => []LossesInMoversFrame
<1>1. IInv => LossesInMoversFrame
  <2> SUFFICES ASSUME IInv, stage = "done", Readable, NEW i \in DOMAIN game.moves
               PROVE  LET color == game.moves[i].color
                          before == answers[i - 1]
                          after == answers[i]
                          m == payload.moves[i]
                      IN /\ before.root # None /\ after.root # None =>
                              /\ m.bestWinrate = SeenBy(color, before.black).winrate
                              /\ m.winrateLoss = AtLeastZero(SeenBy(color, before.black).winrate
                                                             - SeenBy(color, after.black).winrate)
                              /\ m.scoreLoss = AtLeastZero(SeenBy(color, before.black).scoreLead
                                                           - SeenBy(color, after.black).scoreLead)
                         /\ after.root = None => m.winrateLoss = 0 /\ m.scoreLoss = 0
                         /\ Agrees => \A k \in DOMAIN m.topMoves :
                               m.topMoves[k].eval = SeenBy(color, before.black)
    BY DEF LossesInMoversFrame
  <2> DEFINE color == game.moves[i].color
             before == answers[i - 1]
             after == answers[i]
             m == payload.moves[i]
             evals == EvalsOf(game, answers, i)
             best == IF evals.before = None THEN [winrate |-> 50, scoreLead |-> 0]
                     ELSE evals.before
             result == IF evals.after = None THEN best ELSE evals.after
  <2>1. IsGame(game)
    BY ParseYieldsGame DEF IInv, JobInv, GameInv, Searching
  <2>2. i \in Turns(game) /\ i - 1 \in Turns(game) /\ color \in Colors
    BY <2>1 DEF IsGame, Turns
  <2>3. /\ i \in DOMAIN answers /\ i - 1 \in DOMAIN answers
        /\ IsAnswer(i - 1, before, VisitsAt(i - 1)) /\ IsAnswer(i, after, VisitsAt(i))
    BY <2>2 DEF IInv, PassInv
  <2>4. m = Annotation(game, answers, cfg, i)
    BY DEF IInv, PassInv, Assemble
  <2>5. /\ m.bestWinrate = best.winrate
        /\ m.winrateLoss = AtLeastZero(best.winrate - result.winrate)
        /\ m.scoreLoss = AtLeastZero(best.scoreLead - result.scoreLead)
        /\ m.topMoves = TopMoves(before, color, cfg)
    BY <2>3, <2>4, AnnotationFields
  <2>6. evals = [before |-> Reading(before, color), after |-> Reading(after, color)]
    BY <2>1, <2>3, EvalsInMoversFrame
  <2>7. /\ SeenBy(color, before.black) \in Evaluation
        /\ SeenBy(color, after.black) \in Evaluation
    BY <2>3, FlipFacts DEF IsAnswer, Answer, SeenBy
  <2> HIDE DEF m
  <2>8. /\ evals.before = IF before.root = None THEN None ELSE SeenBy(color, before.black)
        /\ evals.after = IF after.root = None THEN None ELSE SeenBy(color, after.black)
    BY <2>6 DEF Reading
  <2> HIDE DEF evals
  <2>9. best \in Evaluation
    <3>1. CASE evals.before = None
      BY <3>1 DEF Evaluation
    <3>2. CASE evals.before # None
      BY <2>7, <2>8, <3>2
    <3> QED
      BY <3>1, <3>2
  <2>10. ASSUME before.root # None, after.root # None
         PROVE  best = SeenBy(color, before.black) /\ result = SeenBy(color, after.black)
    BY <2>7, <2>8, <2>10, NoneAssumption
  <2>11. ASSUME after.root = None
         PROVE  m.winrateLoss = 0 /\ m.scoreLoss = 0
    <3>1. result = best
      BY <2>8, <2>11
    <3>2. best.winrate \in Int /\ best.scoreLead \in Int
      BY <2>9 DEF Evaluation
    <3>3. best.winrate - best.winrate = 0 /\ best.scoreLead - best.scoreLead = 0
      BY <3>2
    <3> QED
      BY <2>5, <3>1, <3>3 DEF AtLeastZero
  <2>12. ASSUME Agrees, NEW k \in DOMAIN m.topMoves
         PROVE  m.topMoves[k].eval = SeenBy(color, before.black)
    <3>1. EngineSide(i - 1) = color
      BY <2>1, <2>2, <2>12 DEF Agrees, SideToMoveAt, IsGame
    <3>2. cfg \in Configs
      BY DEF IInv, JobInv
    <3>3. m.topMoves = TopMoves(before, color, cfg) /\ k \in DOMAIN TopMoves(before, color, cfg)
      BY <2>5, <2>12
    <3> QED
      BY <2>1, <2>3, <3>1, <3>2, <3>3, CandidatesInMoversFrame
  <2> HIDE DEF best, result
  <2> QED
    BY <2>5, <2>10, <2>11, <2>12 DEF m
<1> QED
  BY <1>1, Invariance, PTL
=============================================================================
