CONSTANTS
    Plans <- MCPlans
    Threads <- MCThreads
    NumGroups = 5
    NumPorts = 2
    MaxLists = 6
SPECIFICATION Spec
INVARIANT ShutdownInTest
\* The script ends.
CHECK_DEADLOCK FALSE
