----------------------------- MODULE MCAutotune -----------------------------
(* An instance of Autotune for TLC. *)
EXTENDS Autotune

Given(key, value) == [k \in {key} |-> value]
AsDefault == NoOverrides

Section(backend, mode, given, override) ==
    [autotune |-> TRUE, backend |-> backend, mode |-> mode, fp16 |-> TRUE, host |-> "h",
     concurrency |-> 1, maxVisits |-> 100, autotuneVisits |-> 16, humanModel |-> "net",
     given |-> given, override |-> override]

PinnedPair == <<<<SERVER_THREADS, 4>>, <<BATCH_SIZE, 32>>, <<BATCH_SIZE, 64>>>>

Off == [Section("rocm", "fast", Given(SEARCH_THREADS, 2), <<>>) EXCEPT !.autotune = FALSE]

\* The first worker searches: with a key or a field pinned, a field left
\* to the config file, a pin that is no number, everything pinned, or not at all.
SearchSections ==
    {Section("rocm", "fast", Given(BATCH_SIZE, 0), <<<<ANALYSIS_THREADS, 64>>, <<FP16, FALSE>>>>),
     Section("rocm", "thorough", AsDefault, <<<<BATCH_SIZE, 64>>>>),
     Section("wgpu", "fast", AsDefault, <<<<SERVER_THREADS, Junk>>>>),
     Off,
     Section("flex", "fast", AsDefault, PinnedPair),
     Section("rocm", "fast", Given(ANALYSIS_THREADS, 64), PinnedPair \o <<<<SEARCH_THREADS, 1>>>>)}

\* The second one has little to search.
PairFast == Section("rocm", "fast", AsDefault, PinnedPair)
PairThorough == Section("rocm", "thorough", Given(ANALYSIS_THREADS, 64), PinnedPair)

\* The same key, other trials; another key.
ShallowTrials == [PairThorough EXCEPT !.autotuneVisits = 1]
FewerVisits == [PairFast EXCEPT !.maxVisits = 10]

\* As a worker, as `katago-ws autotune`, with --force, with --fast.
Serve(s) == [section |-> s, command |-> FALSE, forced |-> FALSE, fast |-> FALSE]
Command(s) == [Serve(s) EXCEPT !.command = TRUE]
Force(s) == [Command(s) EXCEPT !.forced = TRUE]
Fast(s) == [Command(s) EXCEPT !.fast = TRUE]

MCStarts(w) ==
    IF w = "a" THEN {Serve(s) : s \in SearchSections} \cup {Command(Off)}
    ELSE {Serve(PairThorough), Fast(ShallowTrials), Force(FewerVisits)}
MCWorkers == {"a", "b"}
=============================================================================
