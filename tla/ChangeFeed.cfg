\* Two writers that overlap and a polling client, which asks for pages of no row
\* at all, of one, and of more than a page may hold. Time never stops, so the
\* state graph has no end states.
CONSTANTS
    j1 = j1
    j2 = j2
    s1 = s1
    s2 = s2
    Jobs = {j1, j2}
    Sessions = {s1, s2}
    MaxTxn = 1
    Settle = 3
    MaxSeq = 3
    MaxLimit = 2
    Requests = {0, 1, 3}
SPECIFICATION FairSpec
INVARIANTS TypeOK NoSkippedChange NoOvertakenWrite NoFalseReset
PROPERTIES NoMoreMeansCaughtUp NeverHandedTwice EveryChangeDelivered
