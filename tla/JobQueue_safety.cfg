\* Two jobs, two loops, two faults and one lost lease: the smallest instance in
\* which a stale handler, its successor and a second job meet.
CONSTANTS
    j1 = j1
    j2 = j2
    w1 = w1
    w2 = w2
    NoJob = NoJob
    Jobs = {j1, j2}
    Workers = {w1, w2}
    MaxAttempts = 2
    MaxFaults = 2
    MaxSlips = 1
SPECIFICATION Spec
SYMMETRY Symmetry
INVARIANTS TypeOK NoLostJob PatientFailure LeaseExclusive NoWastedAnalysis
PROPERTIES SettledRowFinal ImplementsLifecycle
CHECK_DEADLOCK FALSE
