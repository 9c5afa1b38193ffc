\* Boards of 9, 19 and 21; games of up to two moves, by either player in any
\* order; two evaluations per deep search, three per shallow one.
CONSTANTS
    REPORT_PERSPECTIVE = "SIDETOMOVE"
    None = None
    Records <- MCRecords
    Profiles <- MCProfiles
    KnownProfiles <- MCKnown
    Configs <- MCConfigs
    Engines <- MCEngines
    ShallowEvals <- MCShallow
    DeepEvals <- MCDeep
SPECIFICATION Spec
INVARIANTS TypeOK QueryReplaysRecord SwingsSearchedDeep LossesInMoversFrame GridsAllOrNothing
CHECK_DEADLOCK FALSE
