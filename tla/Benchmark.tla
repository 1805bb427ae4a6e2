------------------------------ MODULE Benchmark ------------------------------
(***************************************************************************)
(* A sequence of Controller.benchmark calls (controller.py) against one    *)
(* MockSatelliteGroup (satellite.py).                                      *)
(*                                                                         *)
(* The controller never resets a satellite.  Each MockSatelliteHandler     *)
(* keeps a baseline, subtracts it from what its satellite says, and moves  *)
(* it up to "reset" the count.  A reset and a get of the group ask the     *)
(* satellites one after the other, while reports of the client, or of a    *)
(* client that has gone, may still be on their way and satellites may die, *)
(* refuse, answer something else, or never answer.                         *)
(*                                                                         *)
(* The satellites count atomically here, which is what SpanCounter         *)
(* promises and MockSatellite shows.  run_test is one step, taken once the *)
(* client has exited; ClientProcess has the threads inside.  The client    *)
(* and its tracer are the environment: a tracer may drop spans, send them, *)
(* send them twice and leave them unsent, and the client may die.  Spans   *)
(* are counted one by one; a report of n spans is n of those steps.        *)
(***************************************************************************)
EXTENDS Integers

CONSTANTS NumPorts,    \* the satellites of the group
          Repeat,      \* spans a benchmark asks its client for
          MaxTests,    \* bound: benchmark calls
          MaxResent    \* bound: spans sent again in one test

ASSUME BenchmarkAssumption ==
    /\ NumPorts \in Nat \ {0}
    /\ Repeat \in Nat /\ MaxTests \in Nat /\ MaxResent \in Nat

Ports == 1 .. NumPorts

VARIABLES
    \* controller
    pc,               \* where benchmark is; idle: the caller has control
    at,               \* the port that the loop of a get or reset is at
    satellites,       \* whether benchmark was given the group
    got,              \* what the loop of a get has summed up
    outcome,          \* how the last call ended: none, returned or raised
    result,           \* the Result it returned
    \* the group
    up,               \* _satellites is a list, not None
    baseline,         \* _spans_received_baseline of each handler
    \* satellite processes
    running,          \* the process is alive
    spans_received,   \* its counter
    \* client and network
    client,           \* none, running or exited
    buffered,         \* spans in the tracer's buffer
    flight,           \* flight[s]: spans of this test on their way to s
    stray             \* stray[s]: spans of earlier tests on their way to s

(* History.                                                                *)
VARIABLES
    test,             \* benchmark calls so far
    generated,        \* spans the client of this test has generated
    resent,           \* spans of this test sent once more
    own,              \* own[s]: spans of this test counted by s
    strayed,          \* spans that were astray when this test reset their s
    owed,             \* sum of own[s] as it was when s was asked
    quiet,            \* nothing was in flight when the get began
    credit,           \* credit[s]: what gets have taken from s
    mark              \* mark[s]: the counter of s at the last get

group == <<up, baseline>>
process == <<running, spans_received>>
network == <<client, buffered, flight, stray>>
history == <<test, generated, resent, own, strayed, owed, quiet, credit, mark>>
call == <<satellites, got, outcome, result>>
vars == <<pc, at, call, group, process, network, history>>

Zero == [s \in Ports |-> 0]
Add(f, s, n) == [f EXCEPT ![s] = @ + n]

NoResult == [spans_sent |-> 0, spans_received |-> 0]

Counts == [Ports -> Nat]

TypeOK ==
    /\ pc \in {"idle", "reset", "start", "run", "check", "get", "final_reset",
               "hung"}
    /\ at \in Ports
    /\ satellites \in BOOLEAN /\ up \in BOOLEAN /\ quiet \in BOOLEAN
    /\ got \in Nat
    /\ outcome \in {"none", "returned", "raised"}
    /\ result \in [spans_sent : Nat, spans_received : Nat]
    /\ running \in [Ports -> BOOLEAN]
    /\ client \in {"none", "running", "exited"}
    /\ baseline \in Counts /\ spans_received \in Counts
    /\ flight \in Counts /\ stray \in Counts /\ own \in Counts
    /\ credit \in Counts /\ mark \in Counts
    /\ buffered \in Nat /\ test \in Nat /\ generated \in Nat /\ resent \in Nat
    /\ strayed \in Nat /\ owed \in Nat

(* A group that is up, or one that has been shut down.                     *)
Init == /\ pc = "idle" /\ at = 1
        /\ satellites = FALSE /\ got = 0
        /\ outcome = "none" /\ result = NoResult
        /\ up \in BOOLEAN /\ baseline = Zero
        /\ running = [s \in Ports |-> up] /\ spans_received = Zero
        /\ client = "none" /\ buffered = 0
        /\ flight = Zero /\ stray = Zero
        /\ test = 0 /\ generated = 0 /\ resent = 0 /\ own = Zero
        /\ strayed = 0 /\ owed = 0 /\ quiet = FALSE
        /\ credit = Zero /\ mark = Zero

-----------------------------------------------------------------------------
(* MockSatelliteHandler, when the satellite answers with its count.        *)

\* Fault: the baseline is not subtracted.
HandlerGetRaw(s) == spans_received[s]

HandlerGet(s) == spans_received[s] - baseline[s]

\* Fault: `=` for `+=`.
HandlerResetAssigns(s) == baseline' = [baseline EXCEPT ![s] = HandlerGet(s)]

HandlerReset(s) == baseline' = [baseline EXCEPT ![s] = @ + HandlerGet(s)]

Last(s) == s = NumPorts

Raise == /\ pc' = "idle"
         /\ outcome' = "raised"

(* all_running                                                             *)
AllRunning == up /\ \A s \in Ports : running[s]

-----------------------------------------------------------------------------
\* Fault: counts on the reset at the end of the call before.
BenchmarkWithoutReset(given) ==
    /\ pc = "idle"
    /\ test < MaxTests
    /\ pc' = "start"
    /\ at' = 1
    /\ satellites' = given
    /\ outcome' = "none"
    /\ result' = NoResult
    /\ client' = "none"
    /\ stray' = [s \in Ports |-> stray[s] + flight[s]]
    /\ flight' = Zero
    /\ test' = test + 1
    /\ generated' = 0 /\ resent' = 0 /\ own' = Zero
    /\ strayed' = 0 /\ owed' = 0 /\ quiet' = FALSE
    /\ UNCHANGED <<got, group, process, buffered, credit, mark>>

(* benchmark is called, with or without the group.  Resetting a group that *)
(* has been shut down only logs a warning.                                 *)
Benchmark(given) ==
    /\ pc = "idle"
    /\ test < MaxTests
    /\ pc' = IF given /\ up THEN "reset" ELSE "start"
    /\ at' = 1
    /\ satellites' = given
    /\ outcome' = "none"
    /\ result' = NoResult
    /\ client' = "none"
    /\ stray' = [s \in Ports |-> stray[s] + flight[s]]
    /\ flight' = Zero
    /\ test' = test + 1
    /\ generated' = 0 /\ resent' = 0 /\ own' = Zero
    /\ strayed' = 0 /\ owed' = 0 /\ quiet' = FALSE
    /\ UNCHANGED <<got, group, process, buffered, credit, mark>>

(* reset_spans_received, before the client is started: one satellite.      *)
Reset ==
    /\ pc = "reset"
    /\ running[at]
    /\ HandlerReset(at)
    /\ strayed' = strayed + stray[at]
    /\ IF Last(at) THEN pc' = "start" /\ at' = 1
                   ELSE pc' = pc /\ at' = at + 1
    /\ UNCHANGED <<call, up, process, network, test, generated, resent, own,
                   owed, quiet, credit, mark>>

Asking == pc \in {"reset", "get", "final_reset"}

(* A satellite, dead or alive, refuses the connection, breaks it off, or   *)
(* answers with another status or no integer.  That ends the call and      *)
(* leaves the baselines of those before it moved.                          *)
AskFails ==
    /\ Asking \/ (pc = "hung" /\ ~running[at])
    /\ Raise
    /\ UNCHANGED <<at, satellites, got, result, group, process, network, history>>

(* A satellite that is alive never answers: requests.get has no timeout,   *)
(* so only the end of the process would let the call go on.                *)
Hang ==
    /\ Asking
    /\ running[at]
    /\ pc' = "hung"
    /\ UNCHANGED <<at, call, group, process, network, history>>

(* _raw_benchmark starts the client ...                                    *)
StartClient ==
    /\ pc = "start"
    /\ pc' = "run"
    /\ client' = "running"
    /\ UNCHANGED <<at, call, group, process, buffered, flight, stray, history>>

Sent == [spans_sent |-> Repeat, spans_received |-> 0]

(* ... and run_test waits until it has exited, however it did, and takes   *)
(* the number of spans sent from the command.                              *)
RunTest ==
    /\ pc = "run"
    /\ client = "exited"
    /\ result' = Sent
    /\ IF satellites THEN pc' = "check" /\ UNCHANGED outcome
                     ELSE pc' = "idle" /\ outcome' = "returned"
    /\ UNCHANGED <<at, satellites, got, group, process, network, history>>

(* get_results raises AttributeError when the client was never sampled.    *)
NoSample ==
    /\ pc = "run"
    /\ client = "exited"
    /\ Raise
    /\ UNCHANGED <<at, satellites, got, result, group, process, network, history>>

(* After a second get_spans_received checks the processes ...              *)
Check ==
    /\ pc = "check"
    /\ AllRunning
    /\ pc' = "get" /\ at' = 1
    /\ got' = 0
    /\ owed' = 0
    /\ quiet' = (flight = Zero /\ stray = Zero)
    /\ UNCHANGED <<satellites, outcome, result, group, process, network, test,
                   generated, resent, own, strayed, credit, mark>>

\* Fault: waits for the satellites to come back instead of raising.
CheckWaits ==
    /\ pc = "check"
    /\ ~AllRunning
    /\ UNCHANGED vars

(* ... raises DeadSatellites if one has exited or the group is shut down,  *)
CheckFails ==
    /\ pc = "check"
    /\ ~AllRunning
    /\ Raise
    /\ UNCHANGED <<at, satellites, got, result, group, process, network, history>>

\* Fault: what the last satellite says instead of the sum.
GetLast ==
    /\ pc = "get"
    /\ running[at]
    /\ got' = HandlerGet(at)
    /\ owed' = owed + own[at]
    /\ credit' = Add(credit, at, HandlerGet(at))
    /\ mark' = [mark EXCEPT ![at] = spans_received[at]]
    /\ IF Last(at)
       THEN /\ pc' = "final_reset" /\ at' = 1
            /\ result' = [result EXCEPT !.spans_received = got']
       ELSE /\ pc' = pc /\ at' = at + 1
            /\ UNCHANGED result
    /\ UNCHANGED <<satellites, outcome, group, process, network, test, generated,
                   resent, own, strayed, quiet>>

(* and sums up what they say: one satellite.                               *)
Get ==
    /\ pc = "get"
    /\ running[at]
    /\ got' = got + HandlerGet(at)
    /\ owed' = owed + own[at]
    /\ credit' = Add(credit, at, HandlerGet(at))
    /\ mark' = [mark EXCEPT ![at] = spans_received[at]]
    /\ IF Last(at)
       THEN /\ pc' = "final_reset" /\ at' = 1
            /\ result' = [result EXCEPT !.spans_received = got']
       ELSE /\ pc' = pc /\ at' = at + 1
            /\ UNCHANGED result
    /\ UNCHANGED <<satellites, outcome, group, process, network, test, generated,
                   resent, own, strayed, quiet>>

(* reset_spans_received once more, after which benchmark returns.          *)
FinalReset ==
    /\ pc = "final_reset"
    /\ running[at]
    /\ HandlerReset(at)
    /\ IF Last(at) THEN pc' = "idle" /\ at' = 1 /\ outcome' = "returned"
                   ELSE pc' = pc /\ at' = at + 1 /\ UNCHANGED outcome
    /\ UNCHANGED <<satellites, got, result, up, process, network, history>>

Controller == \/ Reset \/ AskFails \/ Hang \/ StartClient \/ RunTest
              \/ NoSample \/ Check \/ CheckFails \/ Get \/ FinalReset

-----------------------------------------------------------------------------
(* Between two calls the script that drives the benchmarks may shut the    *)
(* group down: every connection to the satellites is gone ...              *)
Shutdown ==
    /\ pc = "idle"
    /\ up
    /\ up' = FALSE
    /\ running' = [s \in Ports |-> FALSE]
    /\ flight' = Zero /\ stray' = Zero
    /\ UNCHANGED <<pc, at, call, baseline, spans_received, client, buffered, history>>

\* Fault: the handlers of the satellites that were shut down are kept.
StartKeepsHandlers ==
    /\ pc = "idle"
    /\ ~up
    /\ up' = TRUE
    /\ running' = [s \in Ports |-> TRUE]
    /\ spans_received' = Zero
    /\ own' = Zero /\ credit' = Zero /\ mark' = Zero
    /\ outcome' = "none"
    /\ UNCHANGED <<pc, at, satellites, got, result, baseline, network, test, generated,
                   resent, strayed, owed, quiet>>

(* ... and start it again: new processes behind new handlers.              *)
Start ==
    /\ pc = "idle"
    /\ ~up
    /\ up' = TRUE
    /\ baseline' = Zero
    /\ running' = [s \in Ports |-> TRUE]
    /\ spans_received' = Zero
    /\ own' = Zero /\ credit' = Zero /\ mark' = Zero
    /\ outcome' = "none"
    /\ UNCHANGED <<pc, at, satellites, got, result, network, test, generated,
                   resent, strayed, owed, quiet>>

(* A satellite process dies, and what was on its way to it is lost.        *)
Crash(s) ==
    /\ running[s]
    /\ running' = [running EXCEPT ![s] = FALSE]
    /\ flight' = [flight EXCEPT ![s] = 0]
    /\ stray' = [stray EXCEPT ![s] = 0]
    /\ UNCHANGED <<pc, at, call, group, spans_received, client, buffered, history>>

-----------------------------------------------------------------------------
(* The client generates a span, which its tracer buffers, or drops because *)
(* the buffer is full or it is the NoOp tracer.                            *)
Generate ==
    /\ client = "running"
    /\ generated < Repeat
    /\ generated' = generated + 1
    /\ buffered' \in {buffered, buffered + 1}
    /\ UNCHANGED <<pc, at, call, group, process, client, flight, stray, test,
                   resent, own, strayed, owed, quiet, credit, mark>>

(* The tracer reports a span to one of the satellites.                     *)
Send(s) ==
    /\ client = "running"
    /\ buffered > 0
    /\ running[s]
    /\ buffered' = buffered - 1
    /\ flight' = Add(flight, s, 1)
    /\ UNCHANGED <<pc, at, call, group, process, client, stray, history>>

(* A report that was counted, but whose answer was lost, is sent again.    *)
Resend(s) ==
    /\ client = "running"
    /\ running[s]
    /\ own[s] > 0
    /\ resent < MaxResent
    /\ resent' = resent + 1
    /\ flight' = Add(flight, s, 1)
    /\ UNCHANGED <<pc, at, call, group, process, client, buffered, stray, test,
                   generated, own, strayed, owed, quiet, credit, mark>>

(* The client ends, with all its spans generated and flushed or without.   *)
ClientExit ==
    /\ client = "running"
    /\ client' = "exited"
    /\ buffered' = 0
    /\ UNCHANGED <<pc, at, call, group, process, flight, stray, history>>

(* A span in flight is counted, or lost on the way or refused.             *)
Deliver(s) ==
    /\ running[s]
    /\ flight[s] > 0
    /\ flight' = Add(flight, s, -1)
    /\ spans_received' = Add(spans_received, s, 1)
    /\ own' = Add(own, s, 1)
    /\ UNCHANGED <<pc, at, call, group, running, client, buffered, stray, test,
                   generated, resent, strayed, owed, quiet, credit, mark>>

DeliverStray(s) ==
    /\ running[s]
    /\ stray[s] > 0
    /\ stray' = Add(stray, s, -1)
    /\ spans_received' = Add(spans_received, s, 1)
    /\ UNCHANGED <<pc, at, call, group, running, client, buffered, flight, history>>

Lose(s) ==
    /\ \/ flight[s] > 0 /\ flight' = Add(flight, s, -1) /\ UNCHANGED stray
       \/ stray[s] > 0 /\ stray' = Add(stray, s, -1) /\ UNCHANGED flight
    /\ UNCHANGED <<pc, at, call, group, process, client, buffered, history>>

Environment == \/ Generate \/ ClientExit
               \/ \E s \in Ports : \/ Crash(s) \/ Send(s) \/ Resend(s)
                                   \/ Deliver(s) \/ DeliverStray(s) \/ Lose(s)

-----------------------------------------------------------------------------
Next == \/ \E given \in BOOLEAN : Benchmark(given)
        \/ Controller \/ Shutdown \/ Start \/ Environment

Spec == Init /\ [][Next]_vars

(* The controller's thread runs until it waits for an answer that never    *)
(* comes, and the client ends: its loop is finite.  Nothing is assumed of  *)
(* the network, the satellites or the caller.                              *)
FairSpec == Spec /\ WF_vars(Controller) /\ WF_vars(ClientExit)

-----------------------------------------------------------------------------
(* PROPERTIES *)

(* No satellite is ever asked for a negative number of spans: a baseline   *)
(* never passes the counter it was taken from, also across a restart.      *)
NeverNegative == up => \A s \in Ports : baseline[s] <= spans_received[s]

Returned == pc = "idle" /\ outcome = "returned" /\ satellites

(* A result misses nothing: whatever of its test a satellite had counted   *)
(* when it was asked is in it, though the satellites are asked one after   *)
(* the other (130) and the counters are never set back (21-24).            *)
NothingMissed == Returned => result.spans_received >= owed

(* A result has nothing but the spans of its own client, those sent twice, *)
(* and those of an earlier client that were still on their way when this   *)
(* test reset (496-499): nothing that an earlier test left behind, whether *)
(* it returned or failed half-way, is counted again.                       *)
NothingForeign ==
    Returned => result.spans_received <= generated + resent + strayed

(* If the second of grace (512) was enough for all reports to arrive, the  *)
(* result is exact but for strays, and the counters of the group are zero  *)
(* once benchmark has returned, as the tests assume (test.py 57-59).       *)
QuietIsExact ==
    Returned /\ quiet => /\ result.spans_received \in owed .. owed + strayed
                         /\ \A s \in Ports : HandlerGet(s) = 0

(* What is settled at s: all up to the last reset, or the last get if that *)
(* came after it.                                                          *)
Settled(s) == IF mark[s] > baseline[s] THEN mark[s] ELSE baseline[s]

Ledger == INSTANCE SpanLedger WITH counted <- spans_received,
                                   settled <- [s \in Ports |-> Settled(s)],
                                   credited <- credit

(* Every span a satellite counts is settled once: no two gets, of calls    *)
(* that returned or failed half-way, take the same span.                   *)
ImplementsLedger == Ledger!Spec

(* A call of benchmark ends, in a result or an exception, if the client    *)
(* ends and unless it hangs for ever on a satellite that is alive and does *)
(* not answer (satellite.py 47): it waits for nothing else, neither for    *)
(* satellites that are dead or come to be while it asks them, nor for      *)
(* spans that are lost, and a bad answer ends it.                          *)
BenchmarkEnds == pc # "idle" ~> pc = "idle" \/ (pc = "hung" /\ running[at])
=============================================================================
