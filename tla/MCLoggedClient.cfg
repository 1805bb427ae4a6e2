\* A client that terminates, unless its output blocks it.
CONSTANTS
    MaxSamples <- MCMaxSamples
    Streams <- MCStreams
    Outputs <- MCOutputs
    Capacity = 1
SPECIFICATION LoggedSpec
INVARIANTS NoHalfSample ResultCoherent NothingMuchMissed LogComplete
PROPERTIES SamplersEnd LoggedRunEnds
\* The run is over when the results are read and the threads have ended.
CHECK_DEADLOCK FALSE
