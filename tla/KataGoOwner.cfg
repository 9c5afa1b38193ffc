\* Two queries of two turns, a call of shutdown, pipes and channels of one, and
\* two processes that end on their own.  No symmetry: liveness needs the full
\* state graph.
CONSTANTS
    q1 = q1
    q2 = q2
    c1 = c1
    None = None
    Queries = {q1, q2}
    Closers = {c1}
    Turns = 2
    CmdCapacity = 1
    PipeCapacity = 1
    LineCapacity = 2
    BackoffMin = 1
    BackoffMax = 3
    MaxCrashes = 2
SPECIFICATION FairSpec
INVARIANTS TypeOK AnswersMatch NoDeafEntry ShutdownMeansGone
PROPERTIES OneEngineAtATime EveryCallReturns
CHECK_DEADLOCK FALSE
