---------------------------- MODULE ClientProcess ----------------------------
(***************************************************************************)
(* One run of a client: CommandHandle.run_test waits for the process while *)
(* the two daemon threads of ClientProcess sample it (controller.py).      *)
(*                                                                         *)
(*   main   polls the process until it has exited, then takes the results  *)
(*          apart, one locked read after the other                         *)
(*   rt     _save_runtime_stats: every 10 ms, the pair CPU time / clock    *)
(*   list   _save_list_stats: every second, one CPU and one memory sample  *)
(*                                                                         *)
(* What is sampled is abstracted to which sample it is: the n-th pair is   *)
(* n / n, and a list is its length.  Popen.poll answers None until some    *)
(* thread's poll has reaped the exited child; psutil can still read a      *)
(* child that has exited and is not reaped (a zombie), but need not, and   *)
(* raises for one that is reaped.                                          *)
(***************************************************************************)
EXTENDS Integers

CONSTANT MaxSamples   \* bound: samples either thread takes in a run

ASSUME MaxSamplesAssumption == MaxSamples \in Nat \ {0}

VARIABLES
    child,           \* the client: running, zombie (exited) or reaped
    overdue,         \* CommandHandle.timeout seconds have passed
    lock,            \* self._lock: who holds it, or "free"
    main, rt, list,  \* what each thread does next
    program_time, clock_time,    \* the attributes, Unset before the first sample
    cpu_list, memory_list,       \* the lengths of the lists
    result           \* what get_results has read so far

vars == <<child, overdue, lock, main, rt, list, program_time, clock_time,
          cpu_list, memory_list, result>>

Unset == -1

Sample == {Unset} \cup 1 .. MaxSamples

NoResult == [program |-> Unset, clock |-> Unset, memory |-> Unset, cpu |-> Unset]

Results == [program : Sample, clock : Sample,
            memory : {Unset} \cup 0 .. MaxSamples, cpu : {Unset} \cup 0 .. MaxSamples]

MainPc == {"poll", "has_program", "program", "has_clock", "clock", "memory",
           "cpu", "returned", "no_program", "no_clock"}

RtPc == {"attach", "poll", "read", "acquire", "set_program", "set_clock",
         "release", "ended"}

ListPc == {"attach", "poll", "read", "acquire", "append_cpu", "append_memory",
           "release", "ended"}

TypeOK == /\ child \in {"running", "zombie", "reaped"}
          /\ overdue \in BOOLEAN
          /\ lock \in {"free", "rt", "list"}
          /\ main \in MainPc
          /\ rt \in RtPc
          /\ list \in ListPc
          /\ program_time \in Sample /\ clock_time \in Sample
          /\ cpu_list \in 0 .. MaxSamples /\ memory_list \in 0 .. MaxSamples
          /\ result \in Results

Init == /\ child = "running"
        /\ overdue = FALSE
        /\ lock = "free"
        /\ main = "poll"
        /\ rt = "attach"
        /\ list = "attach"
        /\ program_time = Unset /\ clock_time = Unset
        /\ cpu_list = 0 /\ memory_list = 0
        /\ result = NoResult

stats == <<program_time, clock_time, cpu_list, memory_list>>

-----------------------------------------------------------------------------
(* The client finishes, or crashes: nobody looks at its exit code.         *)
ChildExit == /\ child = "running"
             /\ child' = "zombie"
             /\ UNCHANGED <<overdue, lock, main, rt, list, stats, result>>

(* The timeout that benchmark and _calibrate set passes.                   *)
TimeoutPasses == /\ ~overdue
                 /\ main = "poll"
                 /\ overdue' = TRUE
                 /\ UNCHANGED <<child, lock, main, rt, list, stats, result>>

(* Popen.poll: None while the child runs, else it is reaped.               *)
PollNone == child = "running" /\ UNCHANGED child
PollCode == child # "running" /\ child' = "reaped"

-----------------------------------------------------------------------------
\* Fault: run_test stops waiting after the timeout and leaves the client running.
MainPollGivesUp == /\ main = "poll"
                   /\ PollCode \/ (overdue /\ PollNone)
                   /\ main' = "has_program"
                   /\ UNCHANGED <<overdue, lock, rt, list, stats, result>>

(* run_test.  handle_timeout is not called from anywhere, so the loop ends *)
(* with the child and in no other way.                                     *)
MainPoll == /\ main = "poll"
            /\ PollCode
            /\ main' = "has_program"
            /\ UNCHANGED <<overdue, lock, rt, list, stats, result>>

(* get_results evaluates the four properties in turn.  program_time and    *)
(* clock_time first ask, without the lock, whether the attribute is there. *)
HasAttr(from, attribute, found, raised) ==
    /\ main = from
    /\ main' = IF attribute # Unset THEN found ELSE raised
    /\ UNCHANGED <<child, overdue, lock, rt, list, stats, result>>

HasProgram == HasAttr("has_program", program_time, "program", "no_program")
HasClock == HasAttr("has_clock", clock_time, "clock", "no_clock")

(* A read inside `with self._lock`, possible only when nobody holds it.    *)
LockedRead(from, field, value, to) ==
    /\ main = from
    /\ lock = "free"
    /\ result' = [result EXCEPT ![field] = value]
    /\ main' = to
    /\ UNCHANGED <<child, overdue, lock, rt, list, stats>>

\* Fault: program_time is read without the lock.
ReadProgramUnlocked ==
    /\ main = "program"
    /\ result' = [result EXCEPT !.program = program_time]
    /\ main' = "has_clock"
    /\ UNCHANGED <<child, overdue, lock, rt, list, stats>>

ReadProgram == LockedRead("program", "program", program_time, "has_clock")
ReadClock == LockedRead("clock", "clock", clock_time, "memory")
ReadMemory == LockedRead("memory", "memory", memory_list, "cpu")
ReadCpu == LockedRead("cpu", "cpu", cpu_list, "returned")

MainStep == \/ MainPoll \/ HasProgram \/ ReadProgram \/ HasClock \/ ReadClock
            \/ ReadMemory \/ ReadCpu

-----------------------------------------------------------------------------
RtMove(from, to) == /\ rt = from
                    /\ rt' = to
                    /\ UNCHANGED <<overdue, main, list, result>>

(* psutil.Process and the first cpu_percent are outside the try: when the  *)
(* child is reaped already they raise and the thread dies.                 *)
RtAttach == /\ RtMove("attach", IF child = "reaped" THEN "ended" ELSE "poll")
            /\ UNCHANGED <<child, lock, stats>>

(* After the 10 ms of sleep.                                               *)
RtPoll == \/ PollNone /\ RtMove("poll", "read") /\ UNCHANGED <<lock, stats>>
          \/ PollCode /\ RtMove("poll", "ended") /\ UNCHANGED <<lock, stats>>

(* cpu_times ...                                                           *)
RtRead == /\ child # "reaped"
          /\ program_time < MaxSamples
          /\ RtMove("read", "acquire")
          /\ UNCHANGED <<child, lock, stats>>

\* Fault: a read that fails is tried again before the client is polled.
RtReadFailsRetries == /\ child # "running"
                      /\ RtMove("read", "read")
                      /\ UNCHANGED <<child, lock, stats>>

(* ... or AccessDenied / NoSuchProcess, which is ignored.                  *)
RtReadFails == /\ child # "running"
               /\ RtMove("read", "poll")
               /\ UNCHANGED <<child, lock, stats>>

\* Fault: the pair is written without the lock.
RtAcquireUnlocked == /\ RtMove("acquire", "set_program")
                     /\ UNCHANGED <<child, lock, stats>>

RtAcquire == /\ lock = "free"
             /\ lock' = "rt"
             /\ RtMove("acquire", "set_program")
             /\ UNCHANGED <<child, stats>>

NextSample(s) == IF s = Unset THEN 1 ELSE s + 1

RtSetProgram == /\ RtMove("set_program", "set_clock")
                /\ program_time' = NextSample(program_time)
                /\ UNCHANGED <<child, lock, clock_time, cpu_list, memory_list>>

RtSetClock == /\ RtMove("set_clock", "release")
              /\ clock_time' = NextSample(clock_time)
              /\ UNCHANGED <<child, lock, program_time, cpu_list, memory_list>>

RtRelease == /\ RtMove("release", "poll")
             /\ lock' = "free"
             /\ UNCHANGED <<child, stats>>

RtStep == \/ RtAttach \/ RtPoll \/ RtRead \/ RtReadFails \/ RtAcquire
          \/ RtSetProgram \/ RtSetClock \/ RtRelease

-----------------------------------------------------------------------------
ListMove(from, to) == /\ list = from
                      /\ list' = to
                      /\ UNCHANGED <<overdue, main, rt, result>>

ListAttach == /\ ListMove("attach", IF child = "reaped" THEN "ended" ELSE "poll")
              /\ UNCHANGED <<child, lock, stats>>

(* After the second of sleep.                                              *)
ListPoll == \/ PollNone /\ ListMove("poll", "read") /\ UNCHANGED <<lock, stats>>
            \/ PollCode /\ ListMove("poll", "ended") /\ UNCHANGED <<lock, stats>>

(* cpu_percent and memory_info.                                            *)
ListRead == /\ child # "reaped"
            /\ cpu_list < MaxSamples
            /\ ListMove("read", "acquire")
            /\ UNCHANGED <<child, lock, stats>>

ListReadFails == /\ child # "running"
                 /\ ListMove("read", "poll")
                 /\ UNCHANGED <<child, lock, stats>>

ListAcquire == /\ lock = "free"
               /\ lock' = "list"
               /\ ListMove("acquire", "append_cpu")
               /\ UNCHANGED <<child, stats>>

ListAppendCpu == /\ ListMove("append_cpu", "append_memory")
                 /\ cpu_list' = cpu_list + 1
                 /\ UNCHANGED <<child, lock, program_time, clock_time, memory_list>>

ListAppendMemory == /\ ListMove("append_memory", "release")
                    /\ memory_list' = memory_list + 1
                    /\ UNCHANGED <<child, lock, program_time, clock_time, cpu_list>>

ListRelease == /\ ListMove("release", "poll")
               /\ lock' = "free"
               /\ UNCHANGED <<child, stats>>

ListStep == \/ ListAttach \/ ListPoll \/ ListRead \/ ListReadFails
            \/ ListAcquire \/ ListAppendCpu \/ ListAppendMemory \/ ListRelease

-----------------------------------------------------------------------------
Next == ChildExit \/ TimeoutPasses \/ MainStep \/ RtStep \/ ListStep

Spec == Init /\ [][Next]_vars

(* The three threads are scheduled.  psutil answers or raises, so a read   *)
(* ends either way; the samples are bounded, so a thread at the bound      *)
(* waits in its read until the child has exited.                           *)
ThreadFairness == WF_vars(MainStep) /\ WF_vars(RtStep) /\ WF_vars(ListStep)

(* The threads run and time passes; nothing is assumed of the client.      *)
FairSpec == Spec /\ ThreadFairness /\ WF_vars(TimeoutPasses)

-----------------------------------------------------------------------------
(* PROPERTIES *)

(* A first sample is never seen by halves: once program_time is there,     *)
(* clock_time will be too, although hasattr looks at both without the lock *)
(* (134-146, 165-167).                                                     *)
NoHalfSample == main # "no_clock"

(* The four values of a result are read under four separate holds of the   *)
(* lock (203-207) while the samplers may still be at work, and yet belong  *)
(* together: the clock is that of the CPU time's sample or of the next,    *)
(* and there are as many CPU as memory samples or one more.                *)
ResultCoherent ==
    main = "returned" => /\ result.clock - result.program \in {0, 1}
                         /\ result.cpu - result.memory \in {0, 1}

(* Whatever the samplers still record once run_test has seen the exit is   *)
(* one sample each: they poll before every sample.                         *)
NothingMuchMissed ==
    main = "returned" => /\ program_time - result.program \in {0, 1}
                         /\ cpu_list - result.cpu \in {0, 1}

(* The daemon threads of a run do not outlive it: they do not pile up over *)
(* the dozens of benchmarks of a graph.                                    *)
SamplersEnd == child # "running" ~> rt = "ended" /\ list = "ended"

(* The docstring of benchmark (460-462): unless no_timeout is set "the     *)
(* tests will be stopped after `runtime` * 2 seconds".                     *)
TimeoutStopsTest == overdue ~> main # "poll"
=============================================================================
