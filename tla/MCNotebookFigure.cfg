CONSTANTS
    Sizes <- MCSizes
    Default = 600
    Ratios <- MCRatios
    Keys <- MCKeys
    MaxVersion = 3
    MaxEvents = 2
SPECIFICATION FigureSpec
INVARIANTS UpdatesShown OutputSaved
PROPERTY KernelTold
\* The figure is closed, or nothing happens to it any more.
CHECK_DEADLOCK FALSE
