------------------------------- MODULE JsClient -------------------------------
(***************************************************************************)
(* The client in JavaScript, version 2 (js_client_v2/src/index.js).        *)
(*                                                                         *)
(* All traces are started at once.  A trace is a chain of SPANS_PER_LOOP   *)
(* spans, each the child of the one before; what is left to do for a span  *)
(* hangs on promises, whose reactions the event loop runs in the order in  *)
(* which they became due, those of all traces mixed, and all of them       *)
(* before any timer.                                                       *)
(*                                                                         *)
(* A span is a pair of its trace and its level, the root's level being 1.  *)
(* A reaction is named for what it does:                                   *)
(*   child   the first `then` of generateSpan: start the next span,        *)
(*   adopt   that `then` returned a promise: wait for it,                  *)
(*   settle  it is fulfilled, and with it the first `then`,                *)
(*   finish  the last `then`: finish the span.                             *)
(***************************************************************************)
EXTENDS Integers, Sequences, FiniteSets

CONSTANTS Repeats, SPANS_PER_LOOP

ASSUME JsClientAssumption == Repeats \subseteq Int /\ SPANS_PER_LOOP \in Nat \ {0}

VARIABLES
    repeat, no_flush,     \* the command line
    phase,                \* start, loop, thrown or exited
    started, finished,    \* spans
    fulfilled,            \* spans whose promise is
    adopted,              \* spans that wait for the promise of their child
    microtasks,           \* the reactions that are due
    timers,               \* the timers that are due: of the tracer and, for slices, of work
    reported              \* spans the tracer has taken for a report

spans == <<started, finished, fulfilled, adopted>>
vars == <<repeat, no_flush, phase, spans, microtasks, timers, reported>>

Traces == 1 .. repeat
Job(span, step) == [span |-> span, step |-> step]
Child(span) == <<span[1], span[2] + 1>>
Parent(span) == <<span[1], span[2] - 1>>
ReportTimer == Job(<<0, 0>>, "report")

Init == /\ repeat \in Repeats /\ no_flush \in BOOLEAN
        /\ phase = "start"
        /\ started = {} /\ finished = {} /\ fulfilled = {} /\ adopted = {}
        /\ microtasks = <<>> /\ timers = {}
        /\ reported = {}

-----------------------------------------------------------------------------
\* Fault: work is done in slices, between which the event loop goes on.
doWorkSliced(jobs) == [microtasks |-> <<>>, timers |-> {jobs[i] : i \in DOMAIN jobs}]

(* Work is done before its promise is returned: what is to be done then is *)
(* due at once.                                                            *)
doWork(jobs) == [microtasks |-> jobs, timers |-> {}]

IsLeaf(span) == span[2] = SPANS_PER_LOOP

(* What generateSpan leaves to be done for a span it has started.          *)
generateSpan(span) == Job(span, IF IsLeaf(span) THEN "finish" ELSE "child")

(* The tracer is built and every trace started, or nothing is.             *)
generateTraces ==
    /\ phase = "start"
    /\ IF repeat < 1
       THEN phase' = "thrown" /\ UNCHANGED <<started, microtasks, timers>>
       ELSE LET due == doWork([t \in Traces |-> generateSpan(<<t, 1>>)]) IN
            /\ phase' = "loop"
            /\ started' = {<<t, 1>> : t \in Traces}
            /\ microtasks' = due.microtasks
            /\ timers' = {ReportTimer} \cup due.timers
    /\ UNCHANGED <<repeat, no_flush, finished, fulfilled, adopted, reported>>

(* The reaction at the head of the microtasks: `ready` become due.         *)
React(step, ready) ==
    /\ phase = "loop" /\ microtasks # <<>>
    /\ Head(microtasks).step = step
    /\ microtasks' = Tail(microtasks) \o ready
    /\ UNCHANGED <<repeat, no_flush, phase, reported>>

This == Head(microtasks).span

\* Fault: the promise of the child is not returned, and so not waited for.
StartChildForgets ==
    LET due == doWork(<<generateSpan(Child(This))>>) IN
    /\ React("child", due.microtasks \o <<Job(This, "finish")>>)
    /\ started' = started \cup {Child(This)}
    /\ timers' = timers \cup due.timers
    /\ UNCHANGED <<finished, fulfilled, adopted>>

StartChild ==
    LET due == doWork(<<generateSpan(Child(This))>>) IN
    /\ React("child", due.microtasks \o <<Job(This, "adopt")>>)
    /\ started' = started \cup {Child(This)}
    /\ timers' = timers \cup due.timers
    /\ UNCHANGED <<finished, fulfilled, adopted>>

Adopt ==
    /\ React("adopt", IF Child(This) \in fulfilled THEN <<Job(This, "settle")>> ELSE <<>>)
    /\ adopted' = IF Child(This) \in fulfilled THEN adopted ELSE adopted \cup {This}
    /\ UNCHANGED <<started, finished, fulfilled, timers>>

Settle == /\ React("settle", <<Job(This, "finish")>>)
          /\ UNCHANGED <<spans, timers>>

FinishSpan ==
    /\ React("finish", IF Parent(This) \in adopted THEN <<Job(Parent(This), "settle")>>
                                                   ELSE <<>>)
    /\ finished' = finished \cup {This}
    /\ fulfilled' = fulfilled \cup {This}
    /\ UNCHANGED <<started, adopted, timers>>

-----------------------------------------------------------------------------
(* The event loop turns to a timer.  The tracer's reports what is finished *)
(* and is set again.                                                       *)
NextTimer ==
    /\ phase = "loop" /\ microtasks = <<>>
    /\ \E t \in timers :
           IF t = ReportTimer
           THEN reported' = finished /\ UNCHANGED <<microtasks, timers>>
           ELSE /\ microtasks' = <<t>>
                /\ timers' = timers \ {t}
                /\ UNCHANGED reported
    /\ UNCHANGED <<repeat, no_flush, phase, spans>>

(* Nothing but the tracer's timer is left, and the process ends; unless    *)
(* told not to, the tracer makes a last report.                            *)
Exit ==
    /\ phase = "loop" /\ microtasks = <<>>
    /\ timers = {ReportTimer}
    /\ phase' = "exited"
    /\ reported' = IF no_flush THEN reported ELSE finished
    /\ UNCHANGED <<repeat, no_flush, spans, microtasks, timers>>

Reaction == StartChild \/ Adopt \/ Settle \/ FinishSpan

Next == generateTraces \/ Reaction \/ NextTimer \/ Exit

Spec == Init /\ [][Next]_vars

-----------------------------------------------------------------------------
(* PROPERTIES *)

(* A span is finished after its child, in every trace and however the      *)
(* reactions of the traces are mixed: index.js 88-93 hands the promise of  *)
(* the child on through both `then`s.                                      *)
ChildrenFirst ==
    \A s \in finished : ~IsLeaf(s) => Child(s) \in finished

(* No report goes out before every span of every trace is finished: the    *)
(* reporting timer gets no turn while reactions are due (index.js 31-45,   *)
(* 63-71), so that the tracer holds six spans for each of repeat at once   *)
(* and no report parts a trace.                                            *)
ReportsWhole == reported # {} => reported = Traces \X (1 .. SPANS_PER_LOOP)

(* "It is important that the client generates `c['Repeat']` spans"         *)
(* (docs/adding_tracers.md 10).  This one starts a trace of SPANS_PER_LOOP *)
(* spans for each of repeat (index.js 124-126).                            *)
RepeatSpans == phase = "exited" => Cardinality(finished) = repeat
=============================================================================
