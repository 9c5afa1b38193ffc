\* One job, one slot, and two sessions that may overlap.  No symmetry: liveness
\* needs the full state graph.
CONSTANTS
    j1 = j1
    NoJob = NoJob
    Jobs = {j1}
    Slots = 1
    MaxSessions = 2
    MaxSlips = 1
SPECIFICATION FairSpec
PROPERTIES EveryWaiterResolved
CHECK_DEADLOCK FALSE
