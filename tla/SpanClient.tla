----------------------------- MODULE SpanClient ------------------------------
(***************************************************************************)
(* A client program: perform_work and generate_spans of the Python, Go and *)
(* C++ clients, which are meant to do the same.                            *)
(*                                                                         *)
(* Spans are generated in groups of up to SPANS_PER_LOOP.  A group is one  *)
(* trace, built by a recursive function that starts three nested spans and *)
(* calls itself for the rest.  After a group the client owes `sleep` for   *)
(* each of its spans, and sleeps once if it owes more than sleep_interval; *)
(* the controller chose `sleep` so that the client uses its target CPU.    *)
(* It is below zero for a client that cannot use that much.                *)
(*                                                                         *)
(* Times are whole numbers of some unit; work, tags and logs take no part. *)
(***************************************************************************)
EXTENDS Integers, Sequences

CONSTANTS Args,             \* the command lines the client may be given
          SPANS_PER_LOOP

Clients == {"python", "go", "cpp"}

ArgType == [client : Clients, repeat : Nat, sleep : Int, sleep_interval : Nat,
            trace : BOOLEAN, no_flush : BOOLEAN]

ASSUME ClientAssumption == /\ Args \subseteq ArgType
                           /\ SPANS_PER_LOOP \in Nat \ {0}

VARIABLES
    args,           \* the command line
    pc,             \* loop, generate, call, unwind, pay or done
    spans_sent,
    sleep_debt,
    slept,          \* time slept so far
    group,          \* spans_to_send of the current group
    number_spans,   \* spans of the group still to be started
    open,           \* the spans of the group that are not finished, innermost last
    parents,        \* parents[i]: the parent of the group's i-th span, 0 for none
    finished,       \* spans finished so far
    flushed         \* the tracer was flushed or closed

vars == <<args, pc, spans_sent, sleep_debt, slept, group, number_spans, open,
          parents, finished, flushed>>

debt == <<spans_sent, sleep_debt, slept>>
trace == <<number_spans, open, parents, finished>>

Min2(a, b) == IF a < b THEN a ELSE b

TypeOK == /\ args \in Args
          /\ pc \in {"loop", "generate", "call", "unwind", "pay", "done"}
          /\ spans_sent \in Nat /\ sleep_debt \in Int /\ slept \in Nat
          /\ group \in Nat /\ number_spans \in Nat
          /\ open \in Seq(Nat) /\ parents \in Seq(Nat)
          /\ finished \in Nat
          /\ flushed \in BOOLEAN

Init == /\ args \in Args
        /\ pc = "loop"
        /\ spans_sent = 0 /\ sleep_debt = 0 /\ slept = 0
        /\ group = 0 /\ number_spans = 0
        /\ open = <<>> /\ parents = <<>>
        /\ finished = 0
        /\ flushed = FALSE

-----------------------------------------------------------------------------
\* Fault: always a whole group.
NextGroupWhole == /\ pc = "loop"
                  /\ spans_sent < args.repeat
                  /\ group' = SPANS_PER_LOOP
                  /\ number_spans' = group'
                  /\ open' = <<>> /\ parents' = <<>>
                  /\ pc' = "generate"
                  /\ UNCHANGED <<args, debt, finished, flushed>>

(* The head of the loop, with spans left to send.                          *)
NextGroup == /\ pc = "loop"
             /\ spans_sent < args.repeat
             /\ group' = Min2(args.repeat - spans_sent, SPANS_PER_LOOP)
             /\ number_spans' = group'
             /\ open' = <<>> /\ parents' = <<>>
             /\ pc' = "generate"
             /\ UNCHANGED <<args, debt, finished, flushed>>

(* The span started next is the client, server or db span of its call.     *)
Started == Len(parents)
Role == IF Started % 3 = 0 THEN "client" ELSE IF Started % 3 = 1 THEN "server" ELSE "db"

\* Fault: the next call hangs below the db span in every client.
ParentBelowDb == Started

(* A call nests its spans; the call it makes hangs below its server span,  *)
(* in C++ below its db span.                                               *)
ParentOfNext ==
    IF Role # "client" \/ Started = 0 \/ args.client = "cpp" THEN Started
                                                             ELSE Started - 1

StartSpan == /\ pc = "generate"
             /\ number_spans > 0
             /\ parents' = Append(parents, ParentOfNext)
             /\ open' = Append(open, Started + 1)
             /\ number_spans' = number_spans - 1
             /\ pc' = IF number_spans' = 0 THEN "unwind"
                      ELSE IF Role = "db" THEN "call" ELSE "generate"
             /\ UNCHANGED <<args, debt, group, finished, flushed>>

(* The scope of the db span ends before the recursive call in Python; in   *)
(* Go and C++ it lasts until the function returns.                         *)
Recurse == /\ pc = "call"
           /\ IF args.client = "python"
              THEN /\ open' = SubSeq(open, 1, Len(open) - 1)
                   /\ finished' = finished + 1
              ELSE UNCHANGED <<open, finished>>
           /\ pc' = "generate"
           /\ UNCHANGED <<args, debt, group, number_spans, parents, flushed>>

(* The calls return and finish their spans, the innermost first.           *)
FinishSpan == /\ pc = "unwind"
              /\ open # <<>>
              /\ open' = SubSeq(open, 1, Len(open) - 1)
              /\ finished' = finished + 1
              /\ UNCHANGED <<args, pc, debt, group, number_spans, parents, flushed>>

(* The group is done and is charged for.                                   *)
Charge == /\ pc = "unwind"
          /\ open = <<>>
          /\ spans_sent' = spans_sent + group
          /\ sleep_debt' = sleep_debt + args.sleep * group
          /\ pc' = "pay"
          /\ UNCHANGED <<args, slept, group, trace, flushed>>

\* Faults: one sleep settles all debt, or is only as long as for one span.
PayForgets == /\ pc = "pay"
              /\ IF sleep_debt > args.sleep_interval
                 THEN /\ sleep_debt' = 0
                      /\ slept' = slept + args.sleep_interval
                 ELSE UNCHANGED <<sleep_debt, slept>>
              /\ pc' = "loop"
              /\ UNCHANGED <<args, spans_sent, group, trace, flushed>>

PayOneSpan == /\ pc = "pay"
              /\ IF sleep_debt > args.sleep_interval
                 THEN /\ sleep_debt' = sleep_debt - args.sleep
                      /\ slept' = slept + args.sleep
                 ELSE UNCHANGED <<sleep_debt, slept>>
              /\ pc' = "loop"
              /\ UNCHANGED <<args, spans_sent, group, trace, flushed>>

(* One sleep at most, of sleep_interval.                                   *)
Pay == /\ pc = "pay"
       /\ IF sleep_debt > args.sleep_interval
          THEN /\ sleep_debt' = sleep_debt - args.sleep_interval
               /\ slept' = slept + args.sleep_interval
          ELSE UNCHANGED <<sleep_debt, slept>>
       /\ pc' = "loop"
       /\ UNCHANGED <<args, spans_sent, group, trace, flushed>>

\* Fault: `not` is forgotten.
ExitFlushInverted == /\ pc = "loop"
                     /\ spans_sent >= args.repeat
                     /\ flushed' = (args.no_flush /\ (args.trace \/ args.client = "cpp"))
                     /\ pc' = "done"
                     /\ UNCHANGED <<args, debt, group, trace>>

(* All spans are sent: flush.  C++ also closes a NoOp tracer.              *)
Exit == /\ pc = "loop"
        /\ spans_sent >= args.repeat
        /\ flushed' = (~args.no_flush /\ (args.trace \/ args.client = "cpp"))
        /\ pc' = "done"
        /\ UNCHANGED <<args, debt, group, trace>>

GenerateSpans == StartSpan \/ Recurse \/ FinishSpan

PerformWork == NextGroup \/ Charge \/ Pay \/ Exit

Next == PerformWork \/ GenerateSpans

Spec == Init /\ [][Next]_vars

-----------------------------------------------------------------------------
(* PROPERTIES *)

(* Every nanosecond of sleep the controller asked for is either slept or   *)
(* still owed; none is forgotten or slept twice.                           *)
DebtConserved == slept + sleep_debt = args.sleep * spans_sent

(* If a group costs no more sleep than one sleep pays, the client is never *)
(* more than one sleep behind its schedule when it starts a group: the     *)
(* CPU usage that calibration aimed for is kept.                           *)
DebtBounded == args.sleep * SPANS_PER_LOOP <= args.sleep_interval /\ pc # "pay" =>
                   sleep_debt <= args.sleep_interval

(* A span is open for as long as any of its children is, so that every     *)
(* tracer sees well-nested traces.                                         *)
WellNested == \A i \in 1 .. Len(open) :
                  LET p == parents[open[i]]
                  IN  p # 0 => \E j \in 1 .. i - 1 : open[j] = p

(* The client generates and finishes just the spans it was asked for: what *)
(* the controller writes into the Result (controller.py 533) is then true. *)
GeneratesRepeat == pc = "done" => spans_sent = args.repeat /\ finished = args.repeat
=============================================================================
