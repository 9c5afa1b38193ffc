----------------------------- MODULE TuneSearch -----------------------------
(***************************************************************************)
(* The two searches of the tuner as step functions: where a search starts, *)
(* and where it stands after a trial (src/src/engine/autotune/fast.rs,     *)
(* thorough.rs).  `trial` of a state is the candidate to try next, or None *)
(* when the search is over; `best` is the report's winner then.            *)
(***************************************************************************)
EXTENDS TuningConfig

\* Percent: a window below it is stopped half-way; contenders are measured
\* again; a lead within it does not count.
PRUNE == 92
CLOSE == 8
TIE == 3

Candidate(analysis, servers, batch) ==
    [analysis |-> analysis, servers |-> servers, batch |-> batch]

\* What a key is set to, or None to leave it alone; a winner is a candidate and
\* its rate.
Chosen == (Nat \ {0}) \cup {None}
Candidates == [analysis : Chosen, servers : Chosen, batch : Chosen]
Winners == [cand : Candidates, rate : Nat]

ASSUME NoneAssumption == None \notin Candidates \cup Winners

\* How a trial ends.
Measured(rate) == [kind |-> "measured", rate |-> rate]
Pruned(rate) == [kind |-> "pruned", rate |-> rate]
Failed == [kind |-> "failed", rate |-> 0]

\* The elements of a sequence at the given positions, in order.
Selected(seq, at) ==
    LET selected[n \in 0..Len(seq)] ==
          IF n = 0 THEN <<>>
          ELSE IF n \in at THEN Append(selected[n - 1], seq[n])
          ELSE selected[n - 1]
    IN selected[Len(seq)]

-----------------------------------------------------------------------------
(* The fast search: a walk on a ladder of server threads.                  *)

SERVER_LADDER == <<1, 2, 4, 8, 16>>
MIN_BATCH == 8
HEADROOM_BATCH == 64

BatchCap(total, servers) ==
    Greater(Greater(total \div servers, Lesser(HEADROOM_BATCH, total)), 1)

\* The greatest power of two up to n, or 0.
FloorPow2(n) ==
    LET floor[m \in 0..n] == IF m <= 1 THEN m ELSE 2 * floor[m \div 2]
    IN floor[n]

InFlight(lanes, depth) ==
    LET want == IF lanes = None THEN 256
                ELSE Greater(128, Lesser(512, FloorPow2(lanes \div 16)))
    IN Lesser(want, Greater(FloorPow2(depth), 64))

FastPrior(backend) == IF backend = "rocm" THEN 8 ELSE 4

\* Rungs are pairs of servers and batch; what is pinned is not a rung's to set.
FastLadder(pinned, total) ==
    LET has(key) == key \in DOMAIN pinned
        usable(key) == pinned[key] # Junk /\ pinned[key] > 0
    IN IF has(SERVER_THREADS) /\ has(BATCH_SIZE) THEN <<<<None, None>>>>
       ELSE IF has(SERVER_THREADS) THEN
          <<<<None, IF usable(SERVER_THREADS) THEN BatchCap(total, pinned[SERVER_THREADS])
                    ELSE None>>>>
       ELSE IF has(BATCH_SIZE) THEN
          <<<<IF usable(BATCH_SIZE) THEN Greater(total \div pinned[BATCH_SIZE], 1) ELSE None,
              None>>>>
       ELSE LET kept == {i \in DOMAIN SERVER_LADDER :
                          SERVER_LADDER[i] = 1 \/ total \div SERVER_LADDER[i] >= MIN_BATCH}
                servers == Selected(SERVER_LADDER, kept)
            IN [i \in DOMAIN servers |-> <<servers[i], BatchCap(total, servers[i])>>]

FastSpace(pinned, depth, backend, lanes) ==
    LET total  == InFlight(lanes, depth)
        ladder == FastLadder(pinned, total)
        atMost == {i \in DOMAIN ladder : ladder[i][1] = None \/ ladder[i][1] <= FastPrior(backend)}
    IN [mode     |-> "fast",
        analysis |-> IF ANALYSIS_THREADS \in DOMAIN pinned THEN None ELSE total,
        ladder   |-> ladder,
        prior    |-> IF atMost = {} THEN 1 ELSE CHOOSE i \in atMost : \A l \in atMost : l <= i]

RungCandidate(space, rung) ==
    Candidate(space.analysis, space.ladder[rung][1], space.ladder[rung][2])

Winner(cand, rate) == [cand |-> cand, rate |-> rate]

FastStart(space) ==
    LET first == RungCandidate(space, space.prior)
        fixed == Len(space.ladder) <= 1
    IN [trial |-> IF fixed THEN None ELSE first,
        best  |-> IF fixed THEN Winner(first, 0) ELSE None,
        rung |-> space.prior, top |-> 0, at |-> space.prior, step |-> 1, flipped |-> FALSE,
        measured |-> {}, ranOut |-> FALSE]

\* Mutant: a step that lost ends the walk.
FastAfterNoFlip(space, s, outcome, withinBudget) ==
    LET won == outcome.kind = "measured" /\ (s.best = None \/ outcome.rate > s.best.rate)
        measured == s.measured \cup {s.rung}
        next == s.rung + 1
        go == won /\ next \in DOMAIN space.ladder \ measured /\ withinBudget
    IN [s EXCEPT !.measured = measured,
                 !.best = IF won THEN Winner(s.trial, outcome.rate) ELSE s.best,
                 !.top = IF won THEN s.rung ELSE s.top,
                 !.rung = next,
                 !.trial = IF go THEN RungCandidate(space, next) ELSE None]

\* A step that wins by more than TIE moves the walk; the first that does not
\* turns it round, and so does the end of the ladder; the second ends it.
\* With nothing measured yet the first rung untried is the next.  From the
\* third trial on the time budget is asked.
FastAfter(space, s, outcome, withinBudget) ==
    LET won == /\ outcome.kind = "measured"
               /\ s.best = None \/ 100 * outcome.rate > (100 + TIE) * s.best.rate
        best     == IF won THEN Winner(s.trial, outcome.rate) ELSE s.best
        measured == s.measured \cup {s.rung}
        untried  == DOMAIN space.ladder \ measured
        at       == IF won THEN s.rung ELSE s.at
        lost     == ~won /\ best # None
        onward   == IF lost THEN -s.step ELSE s.step
        blocked  == at + onward \notin untried
        turn     == blocked /\ ~s.flipped /\ ~lost /\ best # None
        step     == IF turn THEN -onward ELSE onward
        next     == IF lost /\ s.flipped THEN None
                    ELSE IF at + step \in untried THEN at + step
                    ELSE IF best = None /\ untried # {}
                         THEN CHOOSE i \in untried : \A l \in untried : i <= l
                    ELSE None
        asked    == Cardinality(measured) >= 2 /\ next # None
        go       == next # None /\ (asked => withinBudget)
    IN [trial |-> IF go THEN RungCandidate(space, next) ELSE None,
        best |-> best,
        rung |-> IF go THEN next ELSE s.rung,
        top |-> IF won THEN s.rung ELSE s.top,
        at |-> at, step |-> step, flipped |-> s.flipped \/ lost \/ turn,
        measured |-> measured, ranOut |-> asked /\ ~withinBudget]

-----------------------------------------------------------------------------
(* The thorough search: every pair of server threads and batch size, then  *)
(* the analysis threads around the winner.                                 *)

ANALYSIS_CANDIDATES == <<256, 128, 512>>
ROCM_SERVER_BATCH == <<<<8, 64>>, <<4, 96>>, <<4, 64>>, <<8, 32>>>>
WGPU_SERVER_BATCH == <<<<4, 64>>, <<8, 32>>, <<6, 48>>, <<2, 128>>>>

Dedup(seq) == Selected(seq, {i \in DOMAIN seq : \A l \in 1..i - 1 : seq[l] # seq[i]})

ThoroughSpace(pinned, depth, backend) ==
    LET pairs == IF backend = "rocm" THEN ROCM_SERVER_BATCH ELSE WGPU_SERVER_BATCH
        servers == [i \in DOMAIN pairs |->
                      IF SERVER_THREADS \in DOMAIN pinned THEN None ELSE pairs[i][1]]
        batches == [i \in DOMAIN pairs |->
                      IF BATCH_SIZE \in DOMAIN pinned THEN None ELSE pairs[i][2]]
    IN [mode        |-> "thorough",
        analysis    |-> IF ANALYSIS_THREADS \in DOMAIN pinned THEN <<None>>
                        ELSE Selected(ANALYSIS_CANDIDATES,
                                      {i \in DOMAIN ANALYSIS_CANDIDATES :
                                          i = 1 \/ ANALYSIS_CANDIDATES[i] <= depth}),
        serverBatch |-> Dedup([i \in DOMAIN pairs |-> <<servers[i], batches[i]>>])]

\* A scored candidate keeps the sum and the number of its windows.
Scored(cand, rate) == [cand |-> cand, sum |-> rate, windows |-> 1]
AtLeast(a, percent, b) == 100 * a.sum * b.windows >= percent * b.sum * a.windows
Leader(scored) == CHOOSE a \in ToSet(scored) : \A b \in ToSet(scored) : AtLeast(a, 100, b)

\* Everyone within CLOSE of the leader, unless that is the leader alone.
Contenders(scored) ==
    IF scored = <<>> THEN <<>>
    ELSE LET near == {i \in DOMAIN scored : AtLeast(scored[i], 100 - CLOSE, Leader(scored))}
             close == Selected([i \in DOMAIN scored |-> i], near)
         IN IF Len(close) > 1 THEN close ELSE <<>>

\* Mutant: the last contender wins.
StageWinnerLast(scored) ==
    scored[SelectLastInSeq(scored, LAMBDA a : AtLeast(a, 100 - CLOSE, Leader(scored)))]

\* The earliest within TIE of the best.
StageWinner(scored) == scored[SelectInSeq(scored, LAMBDA a : AtLeast(a, 100 - TIE, Leader(scored)))]

MeanRate(a) == a.sum \div a.windows

\* A stage: `todo` are the candidates to measure, then `again` the scored ones
\* to measure once more.
Stage(name, todo, again, scored) ==
    [stage |-> name, todo |-> todo, again |-> again, scored |-> scored,
     trial |-> IF todo # <<>> THEN Head(todo)
               ELSE IF again # <<>> THEN scored[Head(again)].cand ELSE None,
     best |-> None]

Over(s, scored, best) == [Stage(s.stage, <<>>, <<>>, scored) EXCEPT !.best = best]

ThoroughStart(space) ==
    LET first == [i \in DOMAIN space.serverBatch |->
                    Candidate(space.analysis[1], space.serverBatch[i][1], space.serverBatch[i][2])]
        begun == Stage("pairs", first, <<>>, <<>>)
    IN IF Len(space.analysis) <= 1 /\ Len(space.serverBatch) <= 1
       THEN Over(begun, <<>>, Winner(first[1], 0))
       ELSE begun

\* The end of a stage: nobody scored ends the search without a winner; the
\* first stage's winner is the second's incumbent.
StageEnds(space, s, scored) ==
    IF scored = <<>> THEN Over(s, scored, None)
    ELSE LET w == StageWinner(scored)
             rest == [i \in 1..Len(space.analysis) - 1 |->
                        [w.cand EXCEPT !.analysis = space.analysis[i + 1]]]
         IN IF s.stage = "pairs" /\ rest # <<>>
            THEN Stage("threads", rest, <<>>, <<w>>)
            ELSE Over(s, scored, Winner(w.cand, MeanRate(w)))

ThoroughAfter(space, s, outcome) ==
    LET counted == outcome.kind = "measured"
    IN IF s.todo # <<>>
       THEN LET scored == IF counted THEN Append(s.scored, Scored(s.trial, outcome.rate))
                          ELSE s.scored
            IN IF Len(s.todo) > 1 THEN Stage(s.stage, Tail(s.todo), <<>>, scored)
               ELSE IF Contenders(scored) # <<>>
                    THEN Stage(s.stage, <<>>, Contenders(scored), scored)
               ELSE StageEnds(space, s, scored)
       ELSE LET i == Head(s.again)
                scored == IF counted
                          THEN [s.scored EXCEPT ![i].sum = @ + outcome.rate, ![i].windows = @ + 1]
                          ELSE s.scored
            IN IF Len(s.again) > 1 THEN Stage(s.stage, <<>>, Tail(s.again), scored)
               ELSE StageEnds(space, s, scored)

-----------------------------------------------------------------------------
(* Either search.                                                          *)

Space(cfg, pinned, depth, lanes) ==
    IF cfg.mode = "fast" THEN FastSpace(pinned, depth, cfg.backend, lanes)
    ELSE ThoroughSpace(pinned, depth, cfg.backend)

SearchStart(space) == IF space.mode = "fast" THEN FastStart(space) ELSE ThoroughStart(space)

SearchAfter(space, s, outcome, withinBudget) ==
    IF space.mode = "fast" THEN FastAfter(space, s, outcome, withinBudget)
    ELSE ThoroughAfter(space, s, outcome)

\* A window may be stopped when its rate is below this share of the best so
\* far; a contender is measured in full.
BestSoFar(space, s) ==
    IF space.mode = "fast" THEN IF s.best = None THEN 0 ELSE s.best.rate
    ELSE IF s.scored = <<>> \/ s.todo = <<>> THEN 0 ELSE MeanRate(Leader(s.scored))
=============================================================================
