----------------------------- MODULE SpanLedger ------------------------------
(***************************************************************************)
(* What the satellites' counters and the controller's baselines amount to: *)
(* a ledger per satellite.  The spans a satellite has counted are settled  *)
(* in the order in which they arrive, each exactly once, by being credited *)
(* to the result of a benchmark or by being discarded.                     *)
(*                                                                         *)
(* Benchmark.tla, the bookkeeping of Controller.benchmark and              *)
(* MockSatelliteHandler, implements this specification.                    *)
(***************************************************************************)
EXTENDS Naturals

CONSTANT Ports   \* the satellites of the group

VARIABLES counted,    \* counted[s]: the spans satellite s has counted
          settled,    \* settled[s]: how many of them have been settled
          credited    \* credited[s]: how many of those went to a result

vars == <<counted, settled, credited>>

Zero == [s \in Ports |-> 0]

Init == counted = Zero /\ settled = Zero /\ credited = Zero

Count(s) == /\ counted' = [counted EXCEPT ![s] = @ + 1]
            /\ UNCHANGED <<settled, credited>>

(* What is open at s goes to a result ...                                  *)
Credit(s) == /\ credited' = [credited EXCEPT ![s] = @ + (counted[s] - settled[s])]
             /\ settled' = [settled EXCEPT ![s] = counted[s]]
             /\ UNCHANGED counted

(* ... or to nobody.                                                       *)
Discard(s) == /\ settled' = [settled EXCEPT ![s] = counted[s]]
              /\ UNCHANGED <<counted, credited>>

(* A new group of satellites starts new books.                             *)
Restart == counted' = Zero /\ settled' = Zero /\ credited' = Zero

Next == \/ \E s \in Ports : Count(s) \/ Credit(s) \/ Discard(s)
        \/ Restart

Spec == Init /\ [][Next]_vars
=============================================================================
