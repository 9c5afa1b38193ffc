\* One job between two loops. No symmetry: liveness needs the full state graph.
CONSTANTS
    j1 = j1
    w1 = w1
    w2 = w2
    NoJob = NoJob
    Jobs = {j1}
    Workers = {w1, w2}
    MaxAttempts = 2
    MaxFaults = 2
    MaxSlips = 2
SPECIFICATION FairSpec
PROPERTIES SettlesLifecycle QueueDrains
CHECK_DEADLOCK FALSE
