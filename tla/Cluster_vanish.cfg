\* One job, one slot, one session, and no lost lease.
CONSTANTS
    j1 = j1
    NoJob = NoJob
    Jobs = {j1}
    Slots = 1
    MaxSessions = 1
    MaxSlips = 0
SPECIFICATION VanishSpec
PROPERTIES LostWorkerRedelivers
CHECK_DEADLOCK FALSE
