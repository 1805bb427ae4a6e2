CONSTANTS
    Args <- MCArgs
    SPANS_PER_LOOP = 6
    SATELLITE_PORTS <- MCPorts
    FirstPort = 8360
    MAX_BUFFERED_SPANS = 4
SPECIFICATION TracedSpec
INVARIANTS DebtConserved DebtBounded WellNested GeneratesRepeat FlushDelivers
\* The client has ended.
CHECK_DEADLOCK FALSE
