CONSTANTS
    Starters = {alone1, alone2, sharing}
    Sharing = {sharing}
    Pids = {p1, p2, p3}
    NoPid = NoPid
    CounterMax = 7
    MaxLost = 2
SPECIFICATION Spec
INVARIANT LiveCountsTheServers
CHECK_DEADLOCK FALSE
