\* Two workers on one cache file, two starts in all; three rates: the best,
\* one that ties with it, one that is pruned.
CONSTANTS
    None = None
    Junk = Junk
    Cores = 12
    Workers <- MCWorkers
    Starts <- MCStarts
    Lanes = None
    Rates = {100, 98, 91}
    Pids = {1, 2}
    MaxStarts = 2
SPECIFICATION FairSpec
INVARIANTS PinsHonoured LaunchedAsMeasured WinnerNearBest FileStaysWhole
PROPERTIES BootCompletes
CHECK_DEADLOCK FALSE
