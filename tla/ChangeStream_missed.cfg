\* Two writing connections; no statement of the stream fails.
CONSTANTS
    j1 = j1
    j2 = j2
    s1 = s1
    s2 = s2
    Jobs = {j1, j2}
    Sessions = {s1, s2}
    MaxTxn = 1
    Settle = 1
    MaxSeq = 2
SPECIFICATION Spec
INVARIANTS NothingMissed
