----------------------------- MODULE SpanCounter -----------------------------
(***************************************************************************)
(* What a mock satellite promises to whoever reports spans to it and to    *)
(* whoever asks how many it received: every report is counted in full, at  *)
(* most once and at one instant, or refused and not counted at all; every  *)
(* question is answered with the value of the counter at one instant.      *)
(*                                                                         *)
(* MockSatellite.tla, the handler threads of benchmark/mock_satellite.py,  *)
(* implements this specification.                                          *)
(***************************************************************************)
EXTENDS Integers

CONSTANTS Posts,   \* the report requests
          Gets,    \* the GET /spans_received requests
          Size     \* Size[p], a natural number: the spans in the report of p

VARIABLES count,     \* spans counted so far
          verdict,   \* verdict[p]: what became of report p
          seen       \* seen[g]: the count question g was answered with

vars == <<count, verdict, seen>>

Unread == -1

Verdicts == {"open", "counted", "refused"}

Init == /\ count = 0
        /\ verdict = [p \in Posts |-> "open"]
        /\ seen = [g \in Gets |-> Unread]

Accept(p) == /\ verdict[p] = "open"
             /\ verdict' = [verdict EXCEPT ![p] = "counted"]
             /\ count' = count + Size[p]
             /\ UNCHANGED seen

Refuse(p) == /\ verdict[p] = "open"
             /\ verdict' = [verdict EXCEPT ![p] = "refused"]
             /\ UNCHANGED <<count, seen>>

Read(g) == /\ seen[g] = Unread
           /\ seen' = [seen EXCEPT ![g] = count]
           /\ UNCHANGED <<count, verdict>>

Next == \/ \E p \in Posts : Accept(p) \/ Refuse(p)
        \/ \E g \in Gets : Read(g)

Spec == Init /\ [][Next]_vars
=============================================================================
