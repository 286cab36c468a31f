SPECIFICATION FairSpec
CONSTANTS
    Callers = {g1, g2, g3}
    size = 2
    MaxCmds = 2
    MaxDials = 3
    MaxBreaks = 1
    MaxCalls = 3
CHECK_DEADLOCK FALSE
INVARIANTS Accounts OwnReplies
PROPERTIES CallsEnd LendsInTurn
