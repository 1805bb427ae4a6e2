CONSTANTS
    Repeats <- MCRepeats
    SPANS_PER_LOOP = 6
SPECIFICATION Spec
INVARIANT RepeatSpans
\* The client has ended.
CHECK_DEADLOCK FALSE
