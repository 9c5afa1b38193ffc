----------------------------- MODULE AnalysisJob ----------------------------
(***************************************************************************)
(* One game from its submission to its payload: the check at the API       *)
(* (src/src/http/handlers.rs, human.rs), the parse in the worker, the one  *)
(* or two passes over its turns (src/src/engine/mod.rs) and the payload.   *)
(* A pass is one query of the engine owner: it fails as a whole or answers *)
(* each of its turns once (KataGoOwner says how).  Retries are JobQueue's. *)
(***************************************************************************)
EXTENDS Annotate

CONSTANTS
    Records,    \* SGF records a client may send
    Profiles,   \* human profiles a client may ask for; None is no profile
    KnownProfiles, \* those KataGo's grammar accepts
    Configs,    \* [engine] sections a worker may run with
    Engines,    \* how the engine behaves, see EngineSide
    ShallowEvals, DeepEvals   \* evaluations a pass may come to, as Black sees them

ASSUME ProfileAssumption == None \in Profiles /\ KnownProfiles \subseteq Profiles \ {None}
ASSUME RecordsAssumption ==
    \A r \in Records : /\ Len(r) \in Nat /\ DOMAIN r = 1..Len(r)
                       /\ \A s \in StonesOf(r) : s[2] # Pass
ASSUME ConfigsAssumption ==
    \A c \in Configs : /\ c.screenVisits \in Nat /\ c.maxVisits \in Nat /\ c.topK \in Nat
                       /\ c.refineWinrateDelta \in Int /\ c.refineScoreDelta \in Int
ASSUME EvalsAssumption == ShallowEvals \cup DeepEvals \subseteq Evaluation

VARIABLES
    record, wanted, cfg, engine,  \* what the job and the worker are
    stage,    \* "received", "refused", "queued", "full", "screen", "refine", "done", "failed"
    game,
    profile,  \* the profile the queries carry
    screened, \* the screening pass's answers
    refine,   \* the turns to search again
    answers,  \* what the payload is made from
    payload

given == <<record, wanted, cfg, engine>>
vars == <<record, wanted, cfg, engine, stage, game, profile, screened, refine, answers, payload>>

NoAnswers == <<>>

Init ==
    /\ record \in Records /\ wanted \in Profiles
    /\ cfg \in Configs /\ engine \in Engines
    /\ stage = "received"
    /\ game = Fails
    /\ profile = None
    /\ screened = NoAnswers
    /\ refine = {}
    /\ answers = NoAnswers
    /\ payload = None

-----------------------------------------------------------------------------
(* The engine.                                                             *)

\* KataGo takes the player of the next move for the one to move, or the
\* opponent of the last one; they differ when a player moved twice in a row.
EngineSide(turn) ==
    IF engine.afterLast /\ turn > 0 THEN Other(game.moves[turn].color)
    ELSE SideToMoveAt(game, turn)

\* The colour the numbers at this turn are stated for.
Frame(turn) == Reporter(EngineSide(turn), EngineSide(turn))

StatedFor(eval, colour) == IF colour = "B" THEN eval ELSE Flipped(eval)

Points == game.size * game.size
Array(turn, length) == [len |-> length, turn |-> turn, frame |-> Frame(turn)]

\* An answer to `turn`: `black` is the evaluation as Black sees it, which the
\* numbers are taken from; `lost` is what the answer lacks, if anything.
Answer(turn, black, visits, lost) ==
    LET claim == IF engine.namesPlayer THEN EngineSide(turn) ELSE None
        human == cfg.humanModel /\ profile # None
    IN [black  |-> black,
        visits |-> visits,
        root   |-> IF lost = "root" THEN None
                   ELSE [eval |-> StatedFor(black, Frame(turn)), player |-> claim],
        infos  |-> <<[mv |-> Pass, order |-> 1, eval |-> StatedFor(black, Frame(turn)),
                      prior |-> "second", humanPrior |-> IF human THEN "second" ELSE None],
                     [mv |-> <<2, game.size>>, order |-> 0, eval |-> StatedFor(black, Frame(turn)),
                      prior |-> "first", humanPrior |-> IF human THEN "first" ELSE None]>>,
        ownership      |-> Array(turn, IF cfg.includeOwnership /\ lost # "grid" THEN Points ELSE 0),
        ownershipStdev |-> Array(turn, IF cfg.includeOwnership THEN Points ELSE 0),
        policy         |-> Array(turn, IF cfg.includePolicy THEN Points + 1 ELSE 0),
        humanPolicy    |-> Array(turn, IF cfg.includePolicy /\ human /\ lost # "grid"
                                       THEN Points + 1 ELSE 0)]

\* One answer to each turn; at most one of them lacks something.
Answered(turns, evals, visits) ==
    {[t \in turns |-> Answer(t, black[t], visits, IF t = at THEN lost ELSE "nothing")] :
        black \in [turns -> evals], at \in turns, lost \in {"nothing", "root", "grid"}}

-----------------------------------------------------------------------------
(* The API and the passes.                                                 *)

ProfileAccepted == wanted \in KnownProfiles \cup {None}

\* A game that would not parse and a profile KataGo would reject are refused
\* before they take a queue slot, on their own or in a batch.
Accepted == Valid(record) /\ ProfileAccepted

Submit ==
    /\ stage = "received"
    /\ stage' = IF Accepted THEN "queued" ELSE "refused"
    /\ UNCHANGED <<given, game, profile, screened, refine, answers, payload>>

\* Mutant: the profile is sent whether or not a human model is loaded.
StartKeepingProfile ==
    /\ stage = "queued"
    /\ game' = Parse(record, cfg.defaultSize)
    /\ profile' = wanted
    /\ stage' = IF game' = Fails THEN "failed" ELSE IF TwoPass(cfg) THEN "screen" ELSE "full"
    /\ UNCHANGED <<given, screened, refine, answers, payload>>

\* `analyze` begins: the game is parsed with the worker's defaults, and a
\* profile nobody could answer is dropped.
Start ==
    /\ stage = "queued"
    /\ game' = Parse(record, cfg.defaultSize)
    /\ profile' = IF cfg.humanModel THEN wanted ELSE None
    /\ stage' = IF game' = Fails THEN "failed" ELSE IF TwoPass(cfg) THEN "screen" ELSE "full"
    /\ UNCHANGED <<given, screened, refine, answers, payload>>

\* The last step of `analyze`, with what its passes came to.
Finish(got) ==
    /\ answers' = got
    /\ payload' = Assemble(game, got, cfg, profile)
    /\ stage' = "done"

FullPass ==
    /\ stage = "full"
    /\ \E got \in Answered(Turns(game), DeepEvals, cfg.maxVisits) : Finish(got)
    /\ UNCHANGED <<given, game, profile, screened, refine>>

ScreenPass ==
    /\ stage = "screen"
    /\ \E got \in Answered(Turns(game), ShallowEvals, cfg.screenVisits) :
          /\ screened' = got
          /\ refine' = TurnsToRefine(game, got, cfg)
    /\ stage' = "refine"
    /\ UNCHANGED <<given, game, profile, answers, payload>>

\* Mutant: the screening pass wins where both answered.
MergeScreenedWins(shallow, deep) ==
    [t \in DOMAIN shallow \cup DOMAIN deep |->
        IF t \in DOMAIN shallow THEN shallow[t] ELSE deep[t]]

\* The refined turns overlay the screened ones, by turn number.
MergeTurns(shallow, deep) ==
    [t \in DOMAIN shallow \cup DOMAIN deep |->
        IF t \in DOMAIN deep THEN deep[t] ELSE shallow[t]]

\* No turn to refine is no query at all.
RefinePass ==
    /\ stage = "refine"
    /\ \E got \in IF refine = {} THEN {NoAnswers}
                  ELSE Answered(refine, DeepEvals, cfg.maxVisits) :
          Finish(MergeTurns(screened, got))
    /\ UNCHANGED <<given, game, profile, screened, refine>>

\* A pass that queries the engine fails: no answer of the others is kept.
PassFails ==
    /\ stage \in {"full", "screen"} \/ (stage = "refine" /\ refine # {})
    /\ stage' = "failed"
    /\ UNCHANGED <<given, game, profile, screened, refine, answers, payload>>

Next == Submit \/ Start \/ FullPass \/ ScreenPass \/ RefinePass \/ PassFails

Spec == Init /\ [][Next]_vars

-----------------------------------------------------------------------------
(* Properties.                                                             *)

\* The engine agrees with the move list about who is to move.
Agrees == \A t \in Turns(game) : EngineSide(t) = SideToMoveAt(game, t)

\* Whose numbers they are can be told: the frame is fixed, the engine names
\* the player, or its idea of who is to move on either side of a move is that
\* of a game whose players alternate, which is what MoveEvals falls back on.
Readable ==
    \/ REPORT_PERSPECTIVE # "SIDETOMOVE"
    \/ engine.namesPlayer
    \/ \A i \in DOMAIN game.moves :
          /\ EngineSide(i - 1) = game.moves[i].color
          /\ EngineSide(i) = Other(game.moves[i].color)

SeenBy(color, black) == IF color = "B" THEN black ELSE Flipped(black)

\* Every variable has its type; answers and grids are for turns of the game.
TypeOK ==
    /\ stage \in {"received", "refused", "queued", "full", "screen", "refine", "done", "failed"}
    /\ profile \in Profiles
    /\ DOMAIN screened \subseteq Turns(game)
    /\ refine \subseteq Turns(game)
    /\ DOMAIN answers \subseteq Turns(game)
    /\ stage # "done" => payload = None

\* Where a record's point lies in KataGo's arrays, which go through the board
\* row by row from the top, as SGF does; a pass comes after the last point.
Cell(at, size) ==
    IF at # Pass /\ OnBoard(at, size) THEN at[2] * size + at[1]
    ELSE IF at \in {Pass, TT} THEN size * size
    ELSE None

\* The query's moves are the record's, one for one: its stones, in its order, on
\* its points.
MovesAsRecorded ==
    \E node \in [DOMAIN game.moves -> MoveNodes(record)] :
        /\ {node[n] : n \in DOMAIN game.moves} = MoveNodes(record)
        /\ \A n, k \in DOMAIN game.moves : n < k => node[n] < node[k]
        /\ \A n \in DOMAIN game.moves : \E k \in MovesOf(record[node[n]]) :
              LET m == record[node[n]][k] IN
              /\ MovesOf(record[node[n]]) = {k}
              /\ game.moves[n].color = m.id
              /\ Cell(m.at, game.size) # None
              /\ PolicyIndex(game.moves[n].mv, game.size) = Cell(m.at, game.size)

\* So are the stones it starts from: none is misplaced, none was set up, or
\* taken away, after a move.
StonesAsRecorded ==
    /\ {<<s[1], PolicyIndex(s[2], game.size)>> : s \in game.stones}
          = {<<s[1], Cell(s[2], game.size)>> : s \in StonesOf(record)}
    /\ \A s \in StonesOf(record) : OnBoard(s[2], game.size)
    /\ \A i \in DOMAIN record : \A p \in PropsOf(record[i]) :
          /\ IsSetup(p) => \A k \in MoveNodes(record) : i <= k
          /\ p.id = "AE" => p.points = {}

\* "A guess desyncs the board": what KataGo is asked to replay is the game of the
\* record, on the board it names, or the worker's default where it names none;
\* and a profile goes out only if KataGo knows it and a human model is loaded to
\* answer it.  (Whether each move is legal there, only KataGo knows.)  A game
\* accepted with an assumed 19x19 board may still fail in a worker's parse: only
\* if it names no board and the worker assumes another.
QueryReplaysRecord ==
    /\ stage \in {"full", "screen", "refine", "done"} =>
          /\ game.size = SizeOf(record, cfg.defaultSize)
          /\ MovesAsRecorded /\ StonesAsRecorded
          /\ profile # None => profile \in KnownProfiles /\ cfg.humanModel
    /\ stage \notin {"received", "refused"} /\ Parse(record, cfg.defaultSize) = Fails =>
          SizeOf(record, None) = None /\ cfg.defaultSize # 19

\* Payload turns are those of the game, each once, and the deep search is
\* spent on exactly the turns beside a move that swung: no move whose screened
\* evaluation moved either way, or is missing, is judged by a shallow answer,
\* and quiet turns keep theirs.
SwingsSearchedDeep ==
    stage = "done" =>
        /\ DOMAIN answers = Turns(game)
        /\ TwoPass(cfg) /\ Readable => \A t \in Turns(game) :
              (answers[t].visits = cfg.maxVisits) <=>
                 \E i \in {t, t + 1} \cap DOMAIN game.moves :
                    LET a == screened[i - 1]
                        b == screened[i]
                    IN \/ a.root = None \/ b.root = None
                       \/ Distance(a.black.winrate, b.black.winrate) >= cfg.refineWinrateDelta
                       \/ Distance(a.black.scoreLead, b.black.scoreLead)
                             >= cfg.refineScoreDelta

\* Every move is charged with what the mover lost, in the mover's own frame,
\* from the answers on either side of it, whatever frame the engine reports in;
\* with an engine that names the player to move, even where it disagrees with
\* the move list.  An engine that names nobody is misread where a player moved
\* twice in a row, and only there.
LossesInMoversFrame ==
    stage = "done" /\ Readable =>
        \A i \in DOMAIN game.moves :
            LET color == game.moves[i].color
                before == answers[i - 1]
                after == answers[i]
                m == payload.moves[i]
            IN /\ before.root # None /\ after.root # None =>
                    /\ m.bestWinrate = SeenBy(color, before.black).winrate
                    /\ m.winrateLoss = AtLeastZero(SeenBy(color, before.black).winrate
                                                   - SeenBy(color, after.black).winrate)
                    /\ m.scoreLoss = AtLeastZero(SeenBy(color, before.black).scoreLead
                                                 - SeenBy(color, after.black).scoreLead)
               /\ after.root = None => m.winrateLoss = 0 /\ m.scoreLoss = 0
               /\ Agrees => \A k \in DOMAIN m.topMoves :
                     m.topMoves[k].eval = SeenBy(color, before.black)

Grids == {payload.ownership, payload.ownershipStdev, payload.policy, payload.humanPolicy}

\* What a reader of a payload and its job's log can tell of the agreement.
SeemsToAgree ==
    /\ engine.namesPlayer /\ ~payload.warned
    /\ \A t \in Turns(game) : answers[t].root # None

\* A grid has an entry for every turn, computed for that turn, or none at all;
\* ownership is Black-positive at every turn of a job whose engine agrees with
\* the move list, which a root at every turn and no warning show.  A job's flags
\* promise no policy and no deviations that a turn lacks, and its profile is
\* named exactly when the human policy is there.
GridsAllOrNothing ==
    stage = "done" =>
        /\ \A grid \in Grids :
              grid = NoGrid \/ (DOMAIN grid = Turns(game) /\ \A t \in DOMAIN grid : grid[t].turn = t)
        /\ Agrees \/ SeemsToAgree =>
              \A t \in DOMAIN payload.ownership : payload.ownership[t].frame = "B"
        /\ payload.engine.ownershipStdev <=>
              \A t \in Turns(game) : answers[t].ownershipStdev.len = Points
        /\ payload.engine.policy <=> \A t \in Turns(game) : answers[t].policy.len = Points + 1
        /\ (payload.humanProfile # None) <=> (payload.humanPolicy # NoGrid)
        /\ payload.humanProfile \in {None, wanted}
=============================================================================
