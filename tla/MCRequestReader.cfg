CONSTANTS
    Bytes <- MCBytes
    Bodies <- MCBodies
    Splits <- MCSplits
    Widths <- MCWidths
    Extensions <- MCExtensions
    max_bytes = 4
SPECIFICATION ReaderSpec
INVARIANT BodyWhole
PROPERTY ReaderEnds
\* A body has been read, or nothing more arrives.
CHECK_DEADLOCK FALSE
