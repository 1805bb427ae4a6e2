\* Two benchmarks with stray and repeated reports, crashes and restarts.
CONSTANTS
    NumPorts <- MCNumPorts
    Repeat <- MCRepeat
    MaxTests <- MCMaxTests
    MaxResent <- MCMaxResent
SPECIFICATION FairSpec
INVARIANTS NeverNegative NothingMissed NothingForeign QuietIsExact
PROPERTIES ImplementsLedger BenchmarkEnds
\* After MaxTests calls nothing more need happen.
CHECK_DEADLOCK FALSE
