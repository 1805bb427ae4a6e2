\* Two reports and two questions in every mode, lost answers, SIGTERM.
CONSTANTS
    p1 = p1  p2 = p2  g1 = g1  g2 = g2
    NoThread = NoThread
    Posts <- MCPosts
    Gets <- MCGets
    Size <- MCSize
SPECIFICATION FairSpec
INVARIANTS LockProtects AnswersAgree
PROPERTIES ImplementsCounter EveryRequestEnds
\* The requests are finitely many: when all are handled nothing is left to do.
CHECK_DEADLOCK FALSE
