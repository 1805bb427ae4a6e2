\* The documented timeout, when nothing is assumed of the client.
CONSTANT MaxSamples <- MCMaxSamples
SPECIFICATION FairSpec
PROPERTY TimeoutStopsTest
CHECK_DEADLOCK FALSE
