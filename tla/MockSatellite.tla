---------------------------- MODULE MockSatellite ----------------------------
(***************************************************************************)
(* One mock satellite process, benchmark/mock_satellite.py: a              *)
(* ThreadingHTTPServer runs one handler thread per request.  POST threads  *)
(* add the number of spans of their report to the global spans_received    *)
(* under global_lock; GET threads read it without the lock.                *)
(*                                                                         *)
(* `spans_received += n` is a load and a store of a module global, so they *)
(* are two steps here: it is the lock and nothing else that makes them one.*)
(* A peer may hang up before its answer is written, and SIGTERM may stop   *)
(* the process between any two steps.                                      *)
(***************************************************************************)
EXTENDS Integers, FiniteSetsExt

CONSTANTS Posts,       \* the POST requests (each has a handler thread)
          Gets,        \* the GET requests
          Size,        \* Size[p]: number of spans in the report p carries
          NoThread

Threads == Posts \cup Gets

Modes == {"typical", "slow_succeed", "slow_fail"}

ASSUME SatelliteAssumption ==
    /\ Size \in [Posts -> Nat]
    /\ Posts \cap Gets = {}
    /\ NoThread \notin Threads

VARIABLES
    MODE,             \* the response mode the process was started in
    alive,            \* the process has not been stopped
    spans_received,   \* the module global
    global_lock,      \* the thread that holds it, or NoThread
    pc,               \* what each handler thread does next
    loaded,           \* loaded[p]: spans_received as += read it
    code,             \* the response code decided on, 0 before
    body,             \* body[g]: the number a GET answers with
    reply             \* what the peer sees: none, lost or answered

(* History: the count g's sender could already be sure of when it asked,    *)
(* from the answers given by then to anybody.                              *)
VARIABLE floor

vars == <<MODE, alive, spans_received, global_lock, pc, loaded, code, body, reply,
          floor>>

Unread == -1

PcValues == {"idle", "request", "acquire", "load", "store", "release",
             "respond", "done"}

TypeOK == /\ MODE \in Modes
          /\ alive \in BOOLEAN
          /\ spans_received \in Nat
          /\ global_lock \in Posts \cup {NoThread}
          /\ pc \in [Threads -> PcValues]
          /\ loaded \in [Posts -> Nat]
          /\ code \in [Threads -> {0, 200, 400, 500}]
          /\ body \in [Gets -> Nat \cup {Unread}]
          /\ reply \in [Threads -> {"none", "lost", "answered"}]

Init == /\ MODE \in Modes
        /\ alive = TRUE
        /\ spans_received = 0
        /\ global_lock = NoThread
        /\ pc = [t \in Threads |-> "idle"]
        /\ loaded = [p \in Posts |-> 0]
        /\ code = [t \in Threads |-> 0]
        /\ body = [g \in Gets |-> Unread]
        /\ reply = [t \in Threads |-> "none"]
        /\ floor = [g \in Gets |-> 0]

Step(t, from, to) == /\ alive
                     /\ pc[t] = from
                     /\ pc' = [pc EXCEPT ![t] = to]

Decide(t, c) == code' = [code EXCEPT ![t] = c]

(* The reports that went through the critical section.                     *)
Counted == {p \in Posts : code[p] = 200}

SpansOf(P) == MapThenSumSet(LAMBDA p : Size[p], P)

Answered == {t \in Threads : reply[t] = "answered"}

KnownCount == Max({SpansOf(Answered \cap Counted)} \cup
                  {body[g] : g \in {h \in Answered \cap Gets : code[h] = 200}})

-----------------------------------------------------------------------------
(* A connection is accepted and its thread started.                        *)
Arrive(t) ==
    /\ Step(t, "idle", "request")
    /\ floor' = IF t \in Gets THEN [floor EXCEPT ![t] = KnownCount] ELSE floor
    /\ UNCHANGED <<MODE, alive, spans_received, global_lock, loaded, code, body, reply>>

(* The path, and whether the body parses, are the peer's choice.  Neither  *)
(* GET nor POST serves any path but its own: 400.                          *)
WrongPath(t) ==
    /\ Step(t, "request", "respond")
    /\ Decide(t, 400)
    /\ UNCHANGED <<MODE, alive, spans_received, global_lock, loaded, body, reply, floor>>

(* A report that does not parse is answered 500 and not counted.           *)
BadReport(p) ==
    /\ Step(p, "request", "respond")
    /\ Decide(p, 500)
    /\ UNCHANGED <<MODE, alive, spans_received, global_lock, loaded, body, reply, floor>>

\* Fault: the report is counted before the mode is looked at.
SlowFailCounts(p) ==
    /\ MODE = "slow_fail"
    /\ Step(p, "request", "respond")
    /\ Decide(p, 400)
    /\ spans_received' = spans_received + Size[p]
    /\ UNCHANGED <<MODE, alive, global_lock, loaded, body, reply, floor>>

(* In slow_fail mode a report that parses is answered 400 and not counted. *)
SlowFail(p) ==
    /\ MODE = "slow_fail"
    /\ Step(p, "request", "respond")
    /\ Decide(p, 400)
    /\ UNCHANGED <<MODE, alive, spans_received, global_lock, loaded, body, reply, floor>>

(* In the two other modes the thread sleeps, then goes for the lock.       *)
Process(p) ==
    /\ MODE \in {"typical", "slow_succeed"}
    /\ Step(p, "request", "acquire")
    /\ UNCHANGED <<MODE, alive, spans_received, global_lock, loaded, code, body, reply, floor>>

\* Fault: no `with global_lock`.
AcquireUnlocked(p) ==
    /\ Step(p, "acquire", "load")
    /\ global_lock' = p
    /\ UNCHANGED <<MODE, alive, spans_received, loaded, code, body, reply, floor>>

(* `with global_lock`                                                      *)
Acquire(p) ==
    /\ global_lock = NoThread
    /\ Step(p, "acquire", "load")
    /\ global_lock' = p
    /\ UNCHANGED <<MODE, alive, spans_received, loaded, code, body, reply, floor>>

(* `spans_received += spans_in_report`: the load ...                       *)
Load(p) ==
    /\ Step(p, "load", "store")
    /\ loaded' = [loaded EXCEPT ![p] = spans_received]
    /\ UNCHANGED <<MODE, alive, spans_received, global_lock, code, body, reply, floor>>

(* ... and the store, past which nothing but the 200 is left to do.        *)
Store(p) ==
    /\ Step(p, "store", "release")
    /\ spans_received' = loaded[p] + Size[p]
    /\ Decide(p, 200)
    /\ UNCHANGED <<MODE, alive, global_lock, loaded, body, reply, floor>>

\* Fault: acquire() without release().
ReleaseForgotten(p) ==
    /\ Step(p, "release", "respond")
    /\ UNCHANGED <<MODE, alive, spans_received, global_lock, loaded, code, body, reply, floor>>

Release(p) ==
    /\ Step(p, "release", "respond")
    /\ global_lock' = NoThread
    /\ UNCHANGED <<MODE, alive, spans_received, loaded, code, body, reply, floor>>

\* Fault: asking for the count sets it back.
ReadCounterResets(g) ==
    /\ Step(g, "request", "respond")
    /\ body' = [body EXCEPT ![g] = spans_received]
    /\ spans_received' = 0
    /\ Decide(g, 200)
    /\ UNCHANGED <<MODE, alive, global_lock, loaded, reply, floor>>

(* A GET reads spans_received once more after it has logged it; the value  *)
(* of this second read is the one it answers with.                         *)
ReadCounter(g) ==
    /\ Step(g, "request", "respond")
    /\ body' = [body EXCEPT ![g] = spans_received]
    /\ Decide(g, 200)
    /\ UNCHANGED <<MODE, alive, spans_received, global_lock, loaded, reply, floor>>

(* _send_response: the peer gets the answer, or has hung up and the write  *)
(* raises, which ends the thread.                                          *)
Respond(t) ==
    /\ Step(t, "respond", "done")
    /\ \E r \in {"answered", "lost"} : reply' = [reply EXCEPT ![t] = r]
    /\ UNCHANGED <<MODE, alive, spans_received, global_lock, loaded, code, body, floor>>

(* SIGTERM: every thread stops where it is and every open connection is    *)
(* reset.  The count dies with the process.                                *)
Terminate ==
    /\ alive
    /\ alive' = FALSE
    /\ reply' = [t \in Threads |-> IF pc[t] \in {"idle", "done"}
                                   THEN reply[t] ELSE "lost"]
    /\ UNCHANGED <<MODE, spans_received, global_lock, pc, loaded, code, body, floor>>

POST(p) == \/ BadReport(p) \/ SlowFail(p) \/ Process(p)
           \/ Acquire(p) \/ Load(p) \/ Store(p) \/ Release(p)

GET(g) == ReadCounter(g)

Handle(t) == \/ WrongPath(t)
             \/ t \in Posts /\ POST(t)
             \/ t \in Gets /\ GET(t)
             \/ Respond(t)

Next == \/ \E t \in Threads : Arrive(t) \/ Handle(t)
        \/ Terminate

(* A handler thread that can run does run: the interpreter schedules every *)
(* thread.  Nothing forces a request to arrive or the process to be stopped.*)
Fairness == \A t \in Threads : WF_vars(Handle(t))

Spec == Init /\ [][Next]_vars

FairSpec == Spec /\ Fairness

-----------------------------------------------------------------------------
(* PROPERTIES *)

(* The critical section belongs to the thread that holds the lock, and     *)
(* nobody moves the counter between that thread's load and its store.      *)
LockProtects ==
    /\ \A p \in Posts : pc[p] \in {"load", "store", "release"} <=> global_lock = p
    /\ \A p \in Posts : pc[p] = "store" => loaded[p] = spans_received

(* A GET takes no lock (52-59), and still counts every report that had     *)
(* been answered 200 when it was sent, never answers less than an earlier  *)
(* GET was told, and never more than what was posted.                      *)
AnswersAgree ==
    \A g \in Gets : body[g] # Unread =>
        /\ floor[g] <= body[g]
        /\ body[g] <= SpansOf({p \in Posts : pc[p] # "idle"})

Outcome(p) == IF code[p] = 200 THEN "counted"
              ELSE IF code[p] = 0 THEN "open" ELSE "refused"

Counter == INSTANCE SpanCounter WITH count <- spans_received,
                                     verdict <- [p \in Posts |-> Outcome(p)],
                                     seen <- body

(* The process implements the counter it promises: a report is counted     *)
(* whole, once and at one instant, or answered 400 or 500 and never counted *)
(* (64-106).                                                               *)
ImplementsCounter == Counter!Spec

(* Every request gets its answer: the lock is always released (94-95) and  *)
(* nobody waits for ever, unless the process is stopped.                   *)
EveryRequestEnds == \A t \in Threads : pc[t] = "request" ~> (pc[t] = "done" \/ ~alive)
=============================================================================
