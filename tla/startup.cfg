SPECIFICATION FairSpec
CONSTANTS
    maxRetries = 4
    MaxProcesses = 1
    MaxChanges = 4
CHECK_DEADLOCK FALSE
INVARIANTS StagesInOrder
PROPERTIES Starts
