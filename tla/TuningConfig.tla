---------------------------- MODULE TuningConfig ----------------------------
(***************************************************************************)
(* The settings an engine is launched with, and which of them the tuner    *)
(* may choose (src/src/engine/autotune/{overrides,mod}.rs,                 *)
(* src/src/config.rs, src/src/engine/mod.rs).                              *)
(*                                                                         *)
(* Overrides, `key=value,...` with unique keys, are functions from keys to *)
(* values; a raw string is a sequence of pairs.  A value is a number or    *)
(* Junk, whatever does not parse as one.  Of a configuration only what     *)
(* bears on the launch is kept: `given` are the tuning fields the file or  *)
(* the environment sets, 0 meaning `leave it to KataGo's config file`.     *)
(***************************************************************************)
EXTENDS Integers, Sequences, FiniteSets, SequencesExt

CONSTANTS None, Junk,
          Cores   \* what `analysis_threads` defaults to

ASSUME CoresAssumption == Cores \in Nat \ {0}
ASSUME NoNumbersAssumption == None \notin Int /\ Junk \notin Int /\ None # Junk

ANALYSIS_THREADS == "numAnalysisThreads"
SEARCH_THREADS == "numSearchThreadsPerAnalysisThread"
SERVER_THREADS == "numNNServerThreadsPerModel"
BATCH_SIZE == "nnMaxBatchSize"
TuningKeys == {ANALYSIS_THREADS, SEARCH_THREADS, SERVER_THREADS, BATCH_SIZE}
FP16 == "burnUseFP16"

Lesser(a, b) == IF a < b THEN a ELSE b
Greater(a, b) == IF a > b THEN a ELSE b

-----------------------------------------------------------------------------
(* Overrides.                                                              *)

NoOverrides == [k \in {} |-> None]

\* A repeated key keeps its last value; KataGo reads its argument so, too.
ParseOverrides(raw) ==
    [k \in {raw[i][1] : i \in DOMAIN raw} |->
        raw[CHOOSE i \in DOMAIN raw :
               raw[i][1] = k /\ \A l \in DOMAIN raw : raw[l][1] = k => l <= i][2]]

\* In any order.
Format(over) == SetToSeq({<<k, over[k]>> : k \in DOMAIN over})

\* What is set already wins.
FillFrom(over, other) ==
    [k \in DOMAIN over \cup DOMAIN other |-> IF k \in DOMAIN over THEN over[k] ELSE other[k]]

Retain(over, keys) == [k \in DOMAIN over \cap keys |-> over[k]]

-----------------------------------------------------------------------------
(* From `[engine]` to the launch.                                          *)

FieldDefault(key) ==
    CASE key = ANALYSIS_THREADS -> Cores
      [] key = SEARCH_THREADS   -> 1
      [] OTHER                  -> 0

\* `EngineSetup::read`: the fields with their defaults, and which were given.
ReadSetup(section) ==
    [autotune |-> section.autotune, backend |-> section.backend, mode |-> section.mode,
     fp16 |-> section.fp16, host |-> section.host, concurrency |-> section.concurrency,
     override |-> section.override, maxVisits |-> section.maxVisits,
     autotuneVisits |-> section.autotuneVisits, humanModel |-> section.humanModel,
     fields |-> FillFrom(section.given, [k \in TuningKeys |-> FieldDefault(k)]),
     explicit |-> DOMAIN section.given]

IsGpu(backend) == backend # "flex"
IsKataGoRs(backend) == backend # "upstream"

\* `katago_overrides`: the fields set, then f16, then the raw overrides.
KatagoOverrides(cfg) ==
    Format(Retain(cfg.fields, {k \in TuningKeys : cfg.fields[k] > 0}))
        \o (IF cfg.fp16 /\ IsKataGoRs(cfg.backend) THEN <<<<FP16, TRUE>>>> ELSE <<>>)
        \o cfg.override

\* What the engine makes of its argument.
Effective(cfg) == ParseOverrides(KatagoOverrides(cfg))

\* What the engine is launched with, and the visits it is asked for: `overrides`,
\* and the human network, or None.
Engine(cfg) ==
    [overrides |-> Effective(cfg), visits |-> cfg.maxVisits, human |-> cfg.humanModel]

\* Mutant: only `override_config` pins.
PinsOverrideOnly(cfg) == ParseOverrides(cfg.override)

\* The keys set explicitly; a key in `override_config` wins over its field.
Pins(cfg) ==
    FillFrom(ParseOverrides(cfg.override),
             Retain(cfg.fields, {k \in cfg.explicit : cfg.fields[k] > 0}))

\* Mutant: a tuned key goes where its field was not given.
WithTunedKeepingGiven(cfg, tuned) ==
    [cfg EXCEPT !.fields = [k \in TuningKeys |->
        IF k \in DOMAIN tuned \ cfg.explicit THEN tuned[k] ELSE cfg.fields[k]]]

\* A default is not emitted beside a pin in `override_config`; tuned numbers go
\* to their fields, anything else joins the raw overrides.
WithTuned(cfg, tuned) ==
    LET pinned  == ParseOverrides(cfg.override)
        numbers == {k \in DOMAIN tuned \cap TuningKeys : tuned[k] # Junk}
    IN [cfg EXCEPT
          !.fields = [k \in TuningKeys |->
              IF k \in numbers THEN tuned[k]
              ELSE IF k \in DOMAIN pinned \ cfg.explicit THEN 0
              ELSE cfg.fields[k]],
          !.override = Format(FillFrom(Retain(tuned, DOMAIN tuned \ numbers), pinned))]

\* Mutant: a trial may search deeper than production.
TrialVisitsUncapped(cfg) ==
    IF cfg.autotuneVisits = 0 THEN cfg.maxVisits ELSE cfg.autotuneVisits

TrialVisits(cfg) ==
    IF cfg.autotuneVisits = 0 THEN cfg.maxVisits ELSE Lesser(cfg.autotuneVisits, cfg.maxVisits)

\* A trial runs with exactly these overrides, at its own visits, and without the
\* human network.
LaunchCfg(cfg, over) ==
    [cfg EXCEPT !.fields = [k \in TuningKeys |-> 0], !.override = Format(over),
                !.maxVisits = TrialVisits(cfg), !.humanModel = None]

\* A candidate leaves None what it does not set.
TunedKeys(pinned, cand) ==
    LET chosen == [k \in TuningKeys |->
            CASE k = SEARCH_THREADS   -> 1
              [] k = ANALYSIS_THREADS -> cand.analysis
              [] k = SERVER_THREADS   -> cand.servers
              [] k = BATCH_SIZE       -> cand.batch]
    IN Retain(chosen, {k \in TuningKeys : chosen[k] # None} \ DOMAIN pinned)

TrialOverrides(pinned, cand) == FillFrom(pinned, TunedKeys(pinned, cand))
=============================================================================
