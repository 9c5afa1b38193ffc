CONSTANTS
    j1 = j1
    j2 = j2
    NoJob = NoJob
    Jobs = {j1, j2}
    Slots = 2
    MaxSessions = 1
    MaxSlips = 2
SPECIFICATION Spec
SYMMETRY Symmetry
INVARIANTS TypeOK InFlightWithinSlots NoMutualWait NothingLostInFlight
CHECK_DEADLOCK FALSE
