----------------------------- MODULE TracedClient -----------------------------
(***************************************************************************)
(* A client program (SpanClient) with the tracer it builds.  The tracer    *)
(* keeps the spans that are finished until it reports them, drops those it *)
(* has no room for, and reports to one satellite or to any of them.  It is *)
(* a library, and external; a report arrives (Benchmark has those that     *)
(* do not).                                                                *)
(***************************************************************************)
EXTENDS SpanClient, FiniteSetsExt

CONSTANTS SATELLITE_PORTS, FirstPort, MAX_BUFFERED_SPANS

ASSUME TracerAssumption == /\ IsFiniteSet(SATELLITE_PORTS)
                           /\ FirstPort \in SATELLITE_PORTS
                           /\ MAX_BUFFERED_SPANS \in Nat \ {0}

VARIABLES
    tracer,     \* the argument `tracer` of the Python client
    buffered,   \* spans the tracer keeps
    dropped,    \* spans it had no room for
    received    \* received[p]: spans it has reported to the satellite at p

library == <<buffered, dropped, received>>
tracedVars == <<vars, tracer, library>>

TracedInit == /\ Init
              /\ tracer \in {"vanilla", "cpp"}
              /\ args.client # "python" => tracer = "cpp"
              /\ buffered = 0 /\ dropped = 0
              /\ received = [p \in SATELLITE_PORTS |-> 0]

(* The satellites the tracer was told of; none for a NoOp tracer.          *)
build_tracer == CASE ~args.trace -> {}
                  [] args.trace /\ (args.client = "go" \/ tracer = "vanilla") -> {FirstPort}
                  [] OTHER -> SATELLITE_PORTS

-----------------------------------------------------------------------------
(* A span that is finished goes to the buffer.                             *)
RecordSpan(n) == /\ IF build_tracer = {} THEN UNCHANGED <<buffered, dropped>>
                    ELSE IF buffered + n <= MAX_BUFFERED_SPANS
                    THEN buffered' = buffered + n /\ UNCHANGED dropped
                    ELSE dropped' = dropped + n /\ UNCHANGED buffered
                 /\ UNCHANGED <<tracer, received>>

Work == /\ NextGroup \/ Charge \/ Pay \/ GenerateSpans
        /\ RecordSpan(finished' - finished)

ReportTo(p) == /\ received' = [received EXCEPT ![p] = @ + buffered]
               /\ buffered' = 0
               /\ UNCHANGED <<tracer, dropped>>

(* The tracer's own thread, every REPORTING_PERIOD.                        *)
Report == /\ pc # "done" /\ buffered > 0
          /\ \E p \in build_tracer : ReportTo(p)
          /\ UNCHANGED vars

(* The end of perform_work.  Without a flush the library may or may not    *)
(* report what is left when the process ends.                              *)
FlushAndExit == /\ Exit
                /\ \/ \E p \in build_tracer : ReportTo(p)
                   \/ /\ ~flushed' \/ build_tracer = {}
                      /\ UNCHANGED <<tracer, library>>

TracedNext == Work \/ Report \/ FlushAndExit

TracedSpec == TracedInit /\ [][TracedNext]_tracedVars

-----------------------------------------------------------------------------
(* PROPERTIES *)

(* A client that traces and may flush leaves nothing behind: of the spans  *)
(* it was asked for, the satellites have received all but those for which  *)
(* the buffer had no room (python_client.py 137-140).  The drops that      *)
(* dropped_graphs.py draws are then the tracer's.                          *)
FlushDelivers ==
    pc = "done" /\ args.trace /\ ~args.no_flush =>
        MapThenSumSet(LAMBDA p : received[p], SATELLITE_PORTS) = args.repeat - dropped
=============================================================================
