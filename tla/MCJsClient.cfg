CONSTANTS
    Repeats <- MCRepeats
    SPANS_PER_LOOP = 6
SPECIFICATION Spec
INVARIANTS ChildrenFirst ReportsWhole
\* The client has ended.
CHECK_DEADLOCK FALSE
