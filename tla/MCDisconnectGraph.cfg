CONSTANTS
    Plans <- MCPlans
    Threads <- MCThreads
    NumGroups = 5
    NumPorts = 2
    MaxLists = 6
SPECIFICATION FairSpec
INVARIANTS NoPortConflict NoOrphans TrialAsLabelled
PROPERTIES GraphEnds TimersEnd
\* The script ends.
CHECK_DEADLOCK FALSE
