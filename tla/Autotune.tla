------------------------------ MODULE Autotune ------------------------------
(***************************************************************************)
(* Workers that tune their engine when they start, and share one cache     *)
(* file (src/src/engine/autotune/{mod,cache}.rs, the plugins of            *)
(* src/src/engine/mod.rs).  A worker starts, looks its key up, searches on *)
(* a miss, stores what it found and goes on to launch; it may be killed,   *)
(* and started again with another configuration.  A trial is one step: an  *)
(* engine of its own, fed until its window is measured.  Rates are steady, *)
(* a candidate measured twice measures the same, so that what a search     *)
(* finds can be told from noise.  A store is its four accesses to the file *)
(* system; what of it fails is a warning.                                  *)
(***************************************************************************)
EXTENDS TuneSearch

CONSTANTS
    Workers,
    Starts(_),    \* how a worker may be started: section, command, forced, fast
    Lanes,        \* the GPU's SIMD lanes, or None when unknown
    Pids,         \* process ids, which workers in containers may share
    Rates,        \* positions per second a candidate may run at
    MaxStarts     \* bound: starts, over all workers

ASSUME RatesAssumption == Rates \subseteq Nat \ {0}
ASSUME MaxStartsAssumption == MaxStarts \in Nat
ASSUME LanesAssumption == Lanes \in Nat \cup {None}

\* A parsed `[engine]` section: numbers for tuning keys, and a raw string,
\* where a tuning key has a number or something that is none.
IsSection(s) ==
    /\ s = [autotune |-> s.autotune, backend |-> s.backend, mode |-> s.mode, fp16 |-> s.fp16,
            host |-> s.host, concurrency |-> s.concurrency, maxVisits |-> s.maxVisits,
            autotuneVisits |-> s.autotuneVisits, humanModel |-> s.humanModel,
            given |-> s.given, override |-> s.override]
    /\ DOMAIN s.given \subseteq TuningKeys /\ s.given \in [DOMAIN s.given -> Nat]
    /\ s.concurrency \in Nat /\ s.maxVisits \in Nat /\ s.autotuneVisits \in Nat
    /\ s.override \in Seq(Range(s.override))
    /\ \A i \in DOMAIN s.override :
          s.override[i][1] \in TuningKeys => s.override[i][2] \in Nat \cup {Junk}

ASSUME StartsAssumption == \A w \in Workers : \A s \in Starts(w) : IsSection(s.section)

VARIABLES
    stage,    \* "off", "lookup", "probe", "tune", then "read", "open", "write" and
              \* "rename" of a store, "apply", "up"
    section,  \* what the worker was started with
    cfg,      \* `[engine]` as it stands: as given, then as tuned
    pinned,   \* the keys set explicitly
    force,    \* ignore a cached result
    space,    \* what is left to search
    search,   \* the search under way
    rate,     \* the rate of each candidate this worker tried
    found,    \* how `cfg` came to be, and what was measured for it
    seen,     \* the entries its store read
    pid,      \* its process id, from the time its store needs it
    fd,       \* where the file is its store has open: still "tmp", "cache" or "gone"
    cache,    \* the file
    tmp,      \* tmp[p]: the temporary file of processes with id p
    shared,   \* history: two stores have used a temporary file at the same time
    starts

storeVars == <<seen, pid, fd, cache, tmp, shared>>
vars == <<stage, section, cfg, pinned, force, space, search, rate, found, storeVars, starts>>

Nothing == [how |-> "nothing", tuned |-> NoOverrides, ran |-> None]
NoRates == [c \in {} |-> 0]

\* Files, and what a reader finds in them: one that is not there, or is no JSON,
\* has no entries.
Absent == [is |-> "absent", entries |-> {}]
Empty == [is |-> "empty", entries |-> {}]
Torn == [is |-> "torn", entries |-> {}]
Whole(es) == [is |-> "whole", entries |-> es]

Init ==
    /\ stage = [w \in Workers |-> "off"]
    /\ section = [w \in Workers |-> None]
    /\ cfg = [w \in Workers |-> None]
    /\ pinned = [w \in Workers |-> NoOverrides]
    /\ force = [w \in Workers |-> FALSE]
    /\ space = [w \in Workers |-> None]
    /\ search = [w \in Workers |-> None]
    /\ rate = [w \in Workers |-> NoRates]
    /\ found = [w \in Workers |-> Nothing]
    /\ seen = [w \in Workers |-> {}]
    /\ pid = [w \in Workers |-> None]
    /\ fd = [w \in Workers |-> "none"]
    /\ cache = Absent
    /\ tmp = [p \in Pids |-> Absent]
    /\ shared = FALSE
    /\ starts = 0

Go(w, to) == stage' = [stage EXCEPT ![w] = to]

\* A search and what it measured are locals of `tune`.
DropSearch(w) ==
    /\ space' = [space EXCEPT ![w] = None]
    /\ search' = [search EXCEPT ![w] = None]
    /\ rate' = [rate EXCEPT ![w] = NoRates]

-----------------------------------------------------------------------------
(* The cache.                                                              *)

\* `[worker].concurrency`, at least one.
Games(w) == Greater(cfg[w].concurrency, 1)

\* Mutant: the pinned keys are left out.
KeyOfUnpinned(w) ==
    [mode |-> cfg[w].mode, host |-> cfg[w].host, backend |-> cfg[w].backend,
     fp16 |-> cfg[w].fp16, concurrency |-> Games(w), maxVisits |-> cfg[w].maxVisits,
     pinned |-> NoOverrides]

\* `host` stands for the GPUs, the engine binary, the network, the config file
\* and the board size.  The visits of a trial are not in it.
KeyOf(w) ==
    [mode |-> cfg[w].mode, host |-> cfg[w].host, backend |-> cfg[w].backend,
     fp16 |-> cfg[w].fp16, concurrency |-> Games(w), maxVisits |-> cfg[w].maxVisits,
     pinned |-> pinned[w]]

\* What a reader may find: a read can fail.
Reads == {cache.entries, {}}

\* An entry for the key, or for the same set-up tuned thoroughly.
Hits(es, key) ==
    LET exact == {e \in es : e.key = key}
    IN IF exact # {} THEN exact ELSE {e \in es : e.key = [key EXCEPT !.mode = "thorough"]}

-----------------------------------------------------------------------------
(* Starting.                                                               *)

\* The worker, or `katago-ws autotune`: the latter tunes even when the section
\* says not to, may ask for the fast search, and may ignore the cache.
Start(w) ==
    /\ stage[w] \in {"off", "up"} /\ starts < MaxStarts
    /\ \E s \in Starts(w) :
          /\ LET given == [s.section EXCEPT !.autotune = @ \/ s.command,
                                            !.mode = IF s.fast THEN "fast" ELSE @]
             IN /\ section' = [section EXCEPT ![w] = given]
                /\ cfg' = [cfg EXCEPT ![w] = ReadSetup(given)]
                /\ pinned' = [pinned EXCEPT ![w] = Pins(cfg'[w])]
          /\ force' = [force EXCEPT ![w] = s.forced]
    /\ found' = [found EXCEPT ![w] = Nothing]
    /\ starts' = starts + 1
    /\ Go(w, "lookup")
    /\ UNCHANGED <<space, search, rate, storeVars>>

TunesNothing(w) ==
    \/ ~cfg[w].autotune
    \/ ~IsGpu(cfg[w].backend)
    \/ TuningKeys \subseteq DOMAIN pinned[w]

\* `apply`, up to the search: tuning is off, pointless, or already done.
Skip(w) ==
    /\ stage[w] = "lookup" /\ TunesNothing(w)
    /\ Go(w, "up")
    /\ UNCHANGED <<section, cfg, pinned, force, space, search, rate, found, storeVars, starts>>

Hit(w) ==
    /\ stage[w] = "lookup" /\ ~TunesNothing(w) /\ ~force[w]
    /\ \E e \in Hits(cache.entries, KeyOf(w)) :
          found' = [found EXCEPT ![w] = [how |-> "hit", tuned |-> e.tuned, ran |-> e.ran]]
    /\ Go(w, "apply")
    /\ UNCHANGED <<section, cfg, pinned, force, space, search, rate, storeVars, starts>>

Miss(w) ==
    /\ stage[w] = "lookup" /\ ~TunesNothing(w)
    /\ force[w] \/ \E es \in Reads : Hits(es, KeyOf(w)) = {}
    /\ Go(w, "probe")
    /\ UNCHANGED <<section, cfg, pinned, force, space, search, rate, found, storeVars, starts>>

-----------------------------------------------------------------------------
(* Searching.                                                              *)

POSITIONS_PER_GAME == 230

\* The host is looked at, and the search begins.
Probe(w) ==
    /\ stage[w] = "probe"
    /\ space' = [space EXCEPT ![w] =
                    Space(cfg[w], pinned[w], Games(w) * POSITIONS_PER_GAME, Lanes)]
    /\ search' = [search EXCEPT ![w] = SearchStart(space'[w])]
    /\ Go(w, "tune")
    /\ UNCHANGED <<section, cfg, pinned, force, rate, found, storeVars, starts>>

\* A candidate's engine fails, or runs at the candidate's rate; a window that
\* is clearly slower may be stopped half-way.
Outcomes(w, r) ==
    {Failed, Measured(r)}
        \cup (IF 100 * r < PRUNE * BestSoFar(space[w], search[w]) THEN {Pruned(r)} ELSE {})

Trial(w) ==
    /\ stage[w] = "tune" /\ search[w].trial # None
    /\ LET c == search[w].trial
       IN \E r \in IF c \in DOMAIN rate[w] THEN {rate[w][c]} ELSE Rates,
             withinBudget \in BOOLEAN :
            \E outcome \in Outcomes(w, r) :
               /\ search' = [search EXCEPT ![w] =
                                SearchAfter(space[w], @, outcome, withinBudget)]
               /\ rate' = [rate EXCEPT ![w] =
                              IF outcome = Failed THEN @
                              ELSE [x \in DOMAIN @ \cup {c} |-> IF x = c THEN r ELSE @[x]]]
    /\ UNCHANGED <<stage, section, cfg, pinned, force, space, found, storeVars, starts>>

\* The search is over: its winner is stored first, then applied.
Finish(w) ==
    /\ stage[w] = "tune" /\ search[w].trial = None /\ search[w].best # None
    /\ LET cand == search[w].best.cand
       IN found' = [found EXCEPT ![w] =
             [how |-> "tuned", tuned |-> TunedKeys(pinned[w], cand),
              ran |-> Engine(LaunchCfg(cfg[w], TrialOverrides(pinned[w], cand)))]]
    /\ Go(w, "read")
    /\ DropSearch(w)
    /\ UNCHANGED <<section, cfg, pinned, force, storeVars, starts>>

\* Every trial failed: the configuration stays as given.
NoWinner(w) ==
    /\ stage[w] = "tune" /\ search[w].trial = None /\ search[w].best = None
    /\ Go(w, "up")
    /\ DropSearch(w)
    /\ UNCHANGED <<section, cfg, pinned, force, found, storeVars, starts>>

\* Mutant: the timeout does not cover the look at the host.
TimedOutInTrials(w) ==
    /\ stage[w] = "tune"
    /\ Go(w, "up")
    /\ DropSearch(w)
    /\ UNCHANGED <<section, cfg, pinned, force, found, storeVars, starts>>

\* The timeout drops the search wherever it is.
TimedOut(w) ==
    /\ stage[w] \in {"probe", "tune"}
    /\ Go(w, "up")
    /\ DropSearch(w)
    /\ UNCHANGED <<section, cfg, pinned, force, found, storeVars, starts>>

-----------------------------------------------------------------------------
(* Storing: the file is read, and replaced by a temporary file that has    *)
(* what was read and the new entry, by a rename.                           *)

othersVars == <<section, cfg, pinned, force, space, search, rate, found, starts>>

\* An unreadable file reads as an empty one.
StoreRead(w) ==
    /\ stage[w] = "read"
    /\ \E es \in Reads : seen' = [seen EXCEPT ![w] = es]
    /\ Go(w, "open")
    /\ UNCHANGED <<othersVars, pid, fd, cache, tmp, shared>>

Storing(w) == stage[w] \in {"write", "rename"}

\* Mutant: the file itself is opened.
StoreOpenInPlace(w) ==
    /\ stage[w] = "open"
    /\ \E p \in Pids : pid' = [pid EXCEPT ![w] = p]
    /\ cache' = Empty
    /\ fd' = [fd EXCEPT ![w] = "cache"]
    /\ Go(w, "write")
    /\ UNCHANGED <<othersVars, seen, tmp, shared>>

\* The temporary file, named by the process id, is opened and truncated.
StoreOpen(w) ==
    /\ stage[w] = "open"
    /\ \E p \in Pids :
          /\ pid' = [pid EXCEPT ![w] = p]
          /\ tmp' = [tmp EXCEPT ![p] = Empty]
          /\ shared' = (shared \/ \E v \in Workers \ {w} : Storing(v) /\ pid[v] = p)
    /\ fd' = [fd EXCEPT ![w] = "tmp"]
    /\ Go(w, "write")
    /\ UNCHANGED <<othersVars, seen, cache>>

\* What is written goes to the file that was opened, wherever it is by now.
Put(w, file) ==
    /\ tmp' = IF fd[w] = "tmp" THEN [tmp EXCEPT ![pid[w]] = file] ELSE tmp
    /\ cache' = IF fd[w] = "cache" THEN file ELSE cache

Opened(w) == IF fd[w] = "tmp" THEN tmp[pid[w]] ELSE cache

Stored(w) ==
    LET key == KeyOf(w)
    IN Whole({e \in seen[w] : e.key # key}
                \cup {[key |-> key, tuned |-> found[w].tuned, ran |-> found[w].ran]})

\* Over what another process has written there, it may be no JSON.
StoreWrite(w) ==
    /\ stage[w] = "write"
    /\ \E file \in {Stored(w)} \cup (IF Opened(w) = Empty THEN {} ELSE {Torn}) : Put(w, file)
    /\ fd' = [fd EXCEPT ![w] = "none"]
    /\ Go(w, "rename")
    /\ UNCHANGED <<othersVars, seen, pid, shared>>

\* Open files go with the rename: one of this name becomes the cache, the old
\* cache has no name any more.
StoreRename(w) ==
    /\ stage[w] = "rename"
    /\ tmp[pid[w]] # Absent
    /\ cache' = tmp[pid[w]]
    /\ tmp' = [tmp EXCEPT ![pid[w]] = Absent]
    /\ fd' = [v \in Workers |-> IF fd[v] = "cache" THEN "gone"
                                ELSE IF fd[v] = "tmp" /\ pid[v] = pid[w] THEN "cache"
                                ELSE fd[v]]
    /\ seen' = [seen EXCEPT ![w] = {}]
    /\ pid' = [pid EXCEPT ![w] = None]
    /\ Go(w, "apply")
    /\ UNCHANGED <<othersVars, shared>>

\* A store ends here; a write that was not done may be half done.
StoreDropped(w) ==
    /\ \/ UNCHANGED <<cache, tmp>>
       \/ stage[w] = "write" /\ Put(w, Torn)
    /\ fd' = [fd EXCEPT ![w] = "none"]
    /\ seen' = [seen EXCEPT ![w] = {}]
    /\ pid' = [pid EXCEPT ![w] = None]
    /\ UNCHANGED shared

\* A directory, an open, the write or the rename failed: the result is used all
\* the same.
StoreFails(w) ==
    /\ stage[w] \in {"open", "write", "rename"}
    /\ StoreDropped(w)
    /\ Go(w, "apply")
    /\ UNCHANGED othersVars

-----------------------------------------------------------------------------

\* The last line of `apply`: what was found goes into the configuration.
Apply(w) ==
    /\ stage[w] = "apply"
    /\ cfg' = [cfg EXCEPT ![w] = WithTuned(@, found[w].tuned)]
    /\ Go(w, "up")
    /\ UNCHANGED <<section, pinned, force, space, search, rate, found, storeVars, starts>>

\* The process is killed, wherever it is.
Killed(w) ==
    /\ stage[w] \notin {"off", "up"}
    /\ StoreDropped(w)
    /\ section' = [section EXCEPT ![w] = None]
    /\ cfg' = [cfg EXCEPT ![w] = None]
    /\ pinned' = [pinned EXCEPT ![w] = NoOverrides]
    /\ force' = [force EXCEPT ![w] = FALSE]
    /\ found' = [found EXCEPT ![w] = Nothing]
    /\ DropSearch(w)
    /\ Go(w, "off")
    /\ UNCHANGED starts

Lookup(w) == Skip(w) \/ Hit(w) \/ Miss(w)
Tune(w) == Probe(w) \/ Trial(w) \/ Finish(w) \/ NoWinner(w)
Store(w) ==
    StoreRead(w) \/ StoreOpen(w) \/ StoreWrite(w) \/ StoreRename(w) \/ StoreFails(w)

Next ==
    \E w \in Workers :
       \/ Start(w) \/ Lookup(w) \/ Tune(w) \/ TimedOut(w) \/ Store(w) \/ Apply(w) \/ Killed(w)

Spec == Init /\ [][Next]_vars

\* What awaits nothing is done, and the timer fires; nothing says that the
\* probe or a trial ends.
FairSpec ==
    Spec /\ \A w \in Workers : /\ WF_vars(Lookup(w)) /\ WF_vars(TimedOut(w))
                               /\ WF_vars(Store(w)) /\ WF_vars(Apply(w))

-----------------------------------------------------------------------------
(* Properties.                                                             *)

Up(w) == stage[w] = "up"

\* Whatever became of the tuning, every setting given explicitly is what the
\* engine makes of its argument: the last value of a key in `override_config`,
\* else the field, unless that is 0.
PinsHonoured ==
    \A w \in Workers : Up(w) =>
        LET raw == section[w].override
            given == section[w].given
        IN /\ \A i \in DOMAIN raw :
                 (\A l \in DOMAIN raw : raw[l][1] = raw[i][1] => l <= i)
                    => Effective(cfg[w])[raw[i][1]] = raw[i][2]
           /\ \A k \in DOMAIN given :
                 given[k] > 0 /\ (\A i \in DOMAIN raw : raw[i][1] # k)
                    => Effective(cfg[w])[k] = given[k]

\* A tuned engine runs with the overrides its winner's trial ran with, the result
\* found now or in the cache, under whatever configuration it was tuned; its
\* visits and its human network are as asked, which the trial spared itself.  An
\* untuned one runs as given.
LaunchedAsMeasured ==
    \A w \in Workers : Up(w) =>
        LET asked == Engine(ReadSetup(section[w]))
            ran == found[w].ran
        IN IF found[w].how = "nothing" THEN Engine(cfg[w]) = asked
           ELSE /\ Engine(cfg[w]) = [asked EXCEPT !.overrides = ran.overrides]
                /\ ran.visits <= asked.visits /\ ran.human = None

\* The winner runs at nearly the best rate of all that was measured: within
\* TIE for the fast search, within TIE twice over for the thorough one, whose
\* two stages each forgive a tie.  The fast walk ends only where both rungs
\* beside its winner were tried, or the budget ran out.
WinnerNearBest ==
    \A w \in Workers : stage[w] = "tune" /\ search[w].trial = None /\ rate[w] # NoRates =>
        LET s == search[w]
            best == s.best.rate
        IN s.best # None =>
           IF cfg[w].mode = "fast"
           THEN /\ \A c \in DOMAIN rate[w] : 100 * rate[w][c] <= (100 + TIE) * best
                /\ ~s.ranOut =>
                      {s.top - 1, s.top + 1} \cap DOMAIN space[w].ladder \subseteq s.measured
           ELSE \A c \in DOMAIN rate[w] :
                   10000 * best >= (100 - TIE) * (100 - TIE) * rate[w][c]

\* "Writing atomically": whatever fails and whoever is killed, the file is never
\* one that does not parse, and would cost every worker its results at the next
\* store.  It takes two processes of one id, in containers that share the
\* directory, storing at the same time.
FileStaysWhole == ~shared => cache.is \in {"absent", "whole"}

\* The auto-tune never keeps a worker from starting, trials that hang included.
BootCompletes == \A w \in Workers : stage[w] = "lookup" ~> stage[w] \in {"up", "off"}
=============================================================================
