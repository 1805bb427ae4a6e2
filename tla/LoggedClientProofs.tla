-------------------------- MODULE LoggedClientProofs --------------------------
(***************************************************************************)
(* Proofs about one run of a client, for any number of samples, and about  *)
(* its pipes, for any lines and any capacity: with the pipes a run is      *)
(* still a run of ClientProcess, so that what is proved of that holds for  *)
(* both, and what the threads have logged is complete.                     *)
(***************************************************************************)
EXTENDS LoggedClient, TLAPS

-----------------------------------------------------------------------------
(* The client, its samplers and the main thread (ClientProcess).           *)

(* A sampler is inside its critical section exactly when it holds the lock.*)
LockHeld == /\ lock = "rt" <=> rt \in {"set_program", "set_clock", "release"}
            /\ lock = "list" <=> list \in {"append_cpu", "append_memory", "release"}

(* Outside its critical section the samples of a thread are whole.         *)
WholeSamples ==
    /\ IF rt = "set_clock" THEN program_time = NextSample(clock_time)
                           ELSE program_time = clock_time
    /\ IF list = "append_memory" THEN cpu_list = memory_list + 1
                                 ELSE cpu_list = memory_list
    /\ rt \in {"acquire", "set_program"} => program_time < MaxSamples
    /\ list \in {"acquire", "append_cpu"} => cpu_list < MaxSamples

(* A value read after the exit is the final one, or the next and last one  *)
(* is on its way or already there.                                         *)
Last(value, now, pending) == \/ now = value
                             \/ now = value + 1 /\ ~pending

RtPending == rt \in {"acquire", "set_program"}
ListPending == list \in {"acquire", "append_cpu"}

(* What run_test knows at each point of get_results.                       *)
ReadSoFar ==
    /\ main # "poll" => child = "reaped"
    /\ main = "program" => program_time # Unset
    /\ main \in {"has_clock", "clock", "memory", "cpu", "returned"} =>
          /\ result.program # Unset
          /\ Last(result.program, program_time, RtPending)
          /\ clock_time \in {result.program, result.program + 1}
    /\ main \in {"memory", "cpu", "returned"} =>
          result.clock - result.program \in {0, 1}
    /\ main \in {"cpu", "returned"} =>
          /\ result.memory \in Nat
          /\ Last(result.memory, cpu_list, ListPending)
    /\ main = "returned" =>
          /\ result.cpu - result.memory \in {0, 1}
          /\ Last(result.cpu, cpu_list, ListPending)
    /\ main # "no_clock"

Inv == TypeOK /\ LockHeld /\ WholeSamples /\ ReadSoFar

(* Before the client is started there is no sample.                        *)
LEMMA InvInit == Init => Inv
<1> SUFFICES ASSUME Init
             PROVE  Inv
  OBVIOUS
<1>1. TypeOK
  <2>1. NoResult \in Results
    BY DEF NoResult, Results, Sample
  <2>2. Unset \in Sample /\ 0 \in 0 .. MaxSamples
    BY MaxSamplesAssumption DEF Sample
  <2> QED
    BY <2>1, <2>2 DEF Init, TypeOK, MainPc, RtPc, ListPc
<1>2. LockHeld
  BY DEF Init, LockHeld
<1>3. WholeSamples
  BY DEF Init, WholeSamples
<1>4. ReadSoFar
  BY DEF Init, ReadSoFar
<1> QED
  BY <1>1, <1>2, <1>3, <1>4 DEF Inv

(* Every step of the three threads keeps the invariant.                    *)
LEMMA InvStep == Inv /\ [Next]_vars => Inv'
<1> SUFFICES ASSUME Inv, [Next]_vars
             PROVE  Inv'
  OBVIOUS
<1> USE MaxSamplesAssumption
    DEF Inv, TypeOK, LockHeld, WholeSamples, ReadSoFar, Sample, Results, MainPc,
        RtPc, ListPc, Unset, Last, RtPending, ListPending, NextSample, stats
<1>1. CASE ChildExit
  BY <1>1 DEF ChildExit
<1>2. CASE TimeoutPasses
  BY <1>2 DEF TimeoutPasses
<1>3. CASE MainStep
  <2>1. CASE MainPoll
    BY <2>1 DEF MainPoll, PollCode
  <2>2. CASE HasProgram
    BY <2>2 DEF HasProgram, HasAttr
  <2>3. CASE ReadProgram
    BY <2>3 DEF ReadProgram, LockedRead
  <2>4. CASE HasClock
    BY <2>4 DEF HasClock, HasAttr
  <2>5. CASE ReadClock
    BY <2>5 DEF ReadClock, LockedRead
  <2>6. CASE ReadMemory
    BY <2>6 DEF ReadMemory, LockedRead
  <2>7. CASE ReadCpu
    BY <2>7 DEF ReadCpu, LockedRead
  <2> QED
    BY <1>3, <2>1, <2>2, <2>3, <2>4, <2>5, <2>6, <2>7 DEF MainStep
<1>4. CASE RtStep
  <2>1. CASE RtAttach
    BY <2>1 DEF RtAttach, RtMove
  <2>2. CASE RtPoll
    BY <2>2 DEF RtPoll, RtMove, PollNone, PollCode
  <2>3. CASE RtRead
    BY <2>3 DEF RtRead, RtMove
  <2>4. CASE RtReadFails
    BY <2>4 DEF RtReadFails, RtMove
  <2>5. CASE RtAcquire
    BY <2>5 DEF RtAcquire, RtMove
  <2>6. CASE RtSetProgram
    BY <2>6 DEF RtSetProgram, RtMove
  <2>7. CASE RtSetClock
    BY <2>7 DEF RtSetClock, RtMove
  <2>8. CASE RtRelease
    BY <2>8 DEF RtRelease, RtMove
  <2> QED
    BY <1>4, <2>1, <2>2, <2>3, <2>4, <2>5, <2>6, <2>7, <2>8 DEF RtStep
<1>5. CASE ListStep
  <2>1. CASE ListAttach
    BY <2>1 DEF ListAttach, ListMove
  <2>2. CASE ListPoll
    BY <2>2 DEF ListPoll, ListMove, PollNone, PollCode
  <2>3. CASE ListRead
    BY <2>3 DEF ListRead, ListMove
  <2>4. CASE ListReadFails
    BY <2>4 DEF ListReadFails, ListMove
  <2>5. CASE ListAcquire
    BY <2>5 DEF ListAcquire, ListMove
  <2>6. CASE ListAppendCpu
    BY <2>6 DEF ListAppendCpu, ListMove
  <2>7. CASE ListAppendMemory
    BY <2>7 DEF ListAppendMemory, ListMove
  <2>8. CASE ListRelease
    BY <2>8 DEF ListRelease, ListMove
  <2> QED
    BY <1>5, <2>1, <2>2, <2>3, <2>4, <2>5, <2>6, <2>7, <2>8 DEF ListStep
<1>6. CASE UNCHANGED vars
  BY <1>6 DEF vars
<1> QED
  BY <1>1, <1>2, <1>3, <1>4, <1>5, <1>6 DEF Next

(* The invariant holds throughout a run of the client.                     *)
LEMMA InvCorrect == Spec => []Inv
BY InvInit, InvStep, PTL DEF Spec

(* The variables keep their types, the bound on the samples included.      *)
THEOREM TypeCorrect == Spec => []TypeOK
BY InvCorrect, PTL DEF Inv

(* Half a sample is never seen (134-146, 165-167).                         *)
THEOREM HalfSampleNeverSeen == Spec => []NoHalfSample
<1>1. Inv => NoHalfSample
  BY DEF Inv, ReadSoFar, NoHalfSample
<1> QED
  BY <1>1, InvCorrect, PTL

(* The four values of a result belong together (201-207).                  *)
THEOREM ResultsCohere == Spec => []ResultCoherent
<1>1. Inv => ResultCoherent
  BY DEF Inv, ReadSoFar, ResultCoherent
<1> QED
  BY <1>1, InvCorrect, PTL

(* A result misses at most the last sample of each thread (91-99).         *)
THEOREM ResultsFinal == Spec => []NothingMuchMissed
<1>1. Inv => NothingMuchMissed
  BY MaxSamplesAssumption
     DEF Inv, TypeOK, ReadSoFar, NothingMuchMissed, Last, Results, Sample, Unset
<1> QED
  BY <1>1, InvCorrect, PTL

-----------------------------------------------------------------------------
(* The pipes and their readers (LoggedClient).                             *)

(* A step is one of ClientProcess, or leaves its variables alone.          *)
LEMMA LoggedStep == [LoggedNext]_allVars => [Next]_vars
<1> SUFFICES ASSUME [LoggedNext]_allVars
             PROVE  [Next]_vars
  OBVIOUS
<1>1. CASE Next /\ UNCHANGED pipes
  BY <1>1
<1>2. ASSUME NEW s \in Streams, Write(s) \/ _log_output(s)
      PROVE  UNCHANGED vars
  BY <1>2 DEF Write, _log_output
<1>3. CASE UNCHANGED allVars
  BY <1>3 DEF allVars
<1> QED
  BY <1>1, <1>2, <1>3 DEF LoggedNext

(* start_logging_subprocess leaves the run of a client as it is: the pipes *)
(* delay the client and nothing else (utils.py 12-42).                     *)
THEOREM RunImplemented == LoggedSpec => Spec
<1>1. LoggedInit => Init
  BY DEF LoggedInit
<1> QED
  BY <1>1, LoggedStep, PTL DEF LoggedSpec, Spec

(* So what get_results returns is right while the client's output is being *)
(* logged (controller.py 160-207, utils.py 12-42).                         *)
THEOREM LoggedResultsRight ==
    LoggedSpec => [](NoHalfSample /\ ResultCoherent /\ NothingMuchMissed)
BY RunImplemented, HalfSampleNeverSeen, ResultsCohere, ResultsFinal, PTL

(* What is logged, read and sent, and when.                                *)
PipeInv(s) ==
    /\ sent[s] \in Nat /\ read[s] \in Nat /\ logged[s] \in Nat
    /\ read[s] <= sent[s]
    /\ reader[s] = "reading" => logged[s] = read[s]
    /\ reader[s] = "ended" => child # "running" /\ read[s] = sent[s] /\ logged[s] = sent[s]
    /\ reader[s] = "dead" => logged[s] = read[s] - 1

PipesInv == /\ sent \in [Streams -> Nat]
            /\ read \in [Streams -> Nat]
            /\ logged \in [Streams -> Nat]
            /\ reader \in [Streams -> {"reading", "ended", "dead"}]
            /\ \A s \in Streams : PipeInv(s)

(* The pipes are empty when the client is started.                         *)
LEMMA PipesInit == LoggedInit => PipesInv
BY DEF LoggedInit, PipesInv, PipeInv

(* A client that has ended stays so.                                       *)
LEMMA ChildStays == [Next]_vars => (child # "running" => child' # "running")
<1> USE DEF PollNone, PollCode
<1> SUFFICES ASSUME [Next]_vars, child # "running"
             PROVE  child' # "running"
  OBVIOUS
<1>1. CASE ChildExit
  BY <1>1 DEF ChildExit
<1>2. CASE TimeoutPasses
  BY <1>2 DEF TimeoutPasses
<1>3. CASE MainStep
  BY <1>3 DEF MainStep, MainPoll, HasProgram, HasClock, HasAttr, ReadProgram, ReadClock,
              ReadMemory, ReadCpu, LockedRead
<1>4. CASE RtStep
  BY <1>4 DEF RtStep, RtAttach, RtPoll, RtRead, RtReadFails, RtAcquire, RtSetProgram,
              RtSetClock, RtRelease
<1>5. CASE ListStep
  BY <1>5 DEF ListStep, ListAttach, ListPoll, ListRead, ListReadFails, ListAcquire,
              ListAppendCpu, ListAppendMemory, ListRelease
<1>6. CASE UNCHANGED vars
  BY <1>6 DEF vars
<1> QED
  BY <1>1, <1>2, <1>3, <1>4, <1>5, <1>6 DEF Next

(* The pipes' invariant is kept by the client, by the threads that read    *)
(* and by all that leaves the pipes alone.                                 *)
LEMMA PipesStep == PipesInv /\ [LoggedNext]_allVars => PipesInv'
<1> SUFFICES ASSUME PipesInv, [LoggedNext]_allVars
             PROVE  PipesInv'
  OBVIOUS
<1>1. ASSUME UNCHANGED pipes
      PROVE  PipesInv'
  <2>1. child # "running" => child' # "running"
    BY LoggedStep, ChildStays
  <2> QED
    BY <1>1, <2>1 DEF pipes, PipesInv, PipeInv
<1>2. ASSUME NEW s \in Streams, Write(s)
      PROVE  PipesInv'
  <2>1. /\ UNCHANGED <<child, read, logged, reader>>
        /\ child = "running"
        /\ sent' = [sent EXCEPT ![s] = @ + 1]
    BY <1>2 DEF Write, vars
  <2> QED
    BY <2>1 DEF PipesInv, PipeInv
<1>3. ASSUME NEW s \in Streams, _log_output(s)
      PROVE  PipesInv'
  <2>1. UNCHANGED <<child, sent>> /\ reader[s] = "reading"
    BY <1>3 DEF _log_output, vars
  <2>2. CASE /\ read[s] < sent[s]
             /\ read' = [read EXCEPT ![s] = @ + 1]
             /\ logged' = [logged EXCEPT ![s] = @ + 1] /\ UNCHANGED reader
    BY <2>1, <2>2 DEF PipesInv, PipeInv
  <2>3. CASE /\ read[s] < sent[s]
             /\ read' = [read EXCEPT ![s] = @ + 1]
             /\ reader' = [reader EXCEPT ![s] = "dead"] /\ UNCHANGED logged
    BY <2>1, <2>3 DEF PipesInv, PipeInv
  <2>4. CASE /\ read[s] = sent[s] /\ child # "running"
             /\ reader' = [reader EXCEPT ![s] = "ended"]
             /\ UNCHANGED <<read, logged>>
    BY <2>1, <2>4 DEF PipesInv, PipeInv
  <2> QED
    BY <1>3, <2>2, <2>3, <2>4 DEF _log_output
<1> QED
  BY <1>1, <1>2, <1>3 DEF LoggedNext, allVars

(* What was written before a thread's end is in the log (utils.py 38-42).  *)
THEOREM LogsComplete == LoggedSpec => []LogComplete
<1>1. PipesInv => LogComplete
  BY DEF PipesInv, PipeInv, LogComplete
<1> QED
  BY <1>1, PipesInit, PipesStep, PTL DEF LoggedSpec
=============================================================================
