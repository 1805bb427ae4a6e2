CONSTANTS
    NumRates <- MCNumRates
    Trials <- MCTrials
    TRIALS = 2
    Seconds <- MCSeconds
    MaxRuns = 3
SPECIFICATION Spec
INVARIANTS RatesNotMixed DifferencePairs FiguresWhole FilesWhole
PROPERTY ScriptEnds
\* Nobody need run another script.
CHECK_DEADLOCK FALSE
