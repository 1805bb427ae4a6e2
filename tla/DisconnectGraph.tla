--------------------------- MODULE DisconnectGraph ----------------------------
(***************************************************************************)
(* disconnect_graphs.py: one benchmark after the other, each with a new    *)
(* satellite group, which a Timer shuts down and perhaps starts again      *)
(* while the benchmark runs.                                               *)
(*                                                                         *)
(* The Timer's function is a closure over the loop variables `action` and  *)
(* `satellites`, which it looks up when it needs them: they may be those   *)
(* of a later trial.  Nobody cancels a Timer or waits for it.  What keeps  *)
(* it and the main thread apart is that a benchmark of 180 seconds is      *)
(* still running when the Timer, set to 30 seconds, has shut the group     *)
(* down, slept until 120 and started it again.  A plan that is punctual    *)
(* has only such benchmarks; in any other one a benchmark may end at any   *)
(* time, as it does when its client dies.                                  *)
(***************************************************************************)
EXTENDS SatelliteGroup, Sequences

CONSTANT Plans   \* the trials, in their order, and whether benchmarks last

Main == 0

(* Trial k has the k-th group object, and its Timer is thread k.           *)
ASSUME GraphAssumption ==
    /\ \A q \in Plans : /\ q.actions \in Seq({"none", "disconnect", "reconnect"})
                        /\ Len(q.actions) \in Groups
                        /\ q.punctual \in BOOLEAN
    /\ Threads = 0 .. NumGroups

VARIABLES
    plan,     \* the plan of this run
    main,     \* what the main thread does next
    trial,    \* the trial that the loop variable `action` belongs to
    bound,    \* the group `satellites` is bound to
    timer     \* timer[k]: what the Timer of trial k does next

graphVars == <<plan, main, trial, bound, timer>>
vars == <<groupVars, graphVars>>

MainPc == {"construct", "constructing", "benchmark", "after", "shutdown", "plot",
           "done", "failed"}
TimerPc == {"off", "set", "first", "shutdown1", "second", "shutdown2", "sleep",
            "start", "ended"}

TypeOK == /\ GroupTypeOK
          /\ plan \in Plans
          /\ main \in MainPc
          /\ trial \in Groups /\ bound \in Groups
          /\ timer \in [Groups -> TimerPc]

Init == /\ GroupInit
        /\ plan \in Plans
        /\ main = "construct"
        /\ trial = 1 /\ bound = 1
        /\ timer = [k \in Groups |-> "off"]

action == plan.actions[trial]

-----------------------------------------------------------------------------
InMethod(t) == GroupStep(t) /\ UNCHANGED graphVars

SatelliteProcesses == ProcessStep /\ UNCHANGED graphVars

MainMove(from, to) == main = from /\ main' = to

Construct == /\ MainMove("construct", "constructing")
             /\ Call(Main, "spawn", trial)
             /\ UNCHANGED <<satellites, made, process, plan, trial, bound, timer>>

(* When the constructor has returned, the Timer and then the benchmark are *)
(* started; when it has raised DeadSatellites the program ends.            *)
Constructed == /\ Resume(Main)
               /\ \/ /\ At(Main, "returned")
                     /\ MainMove("constructing", "benchmark")
                     /\ bound' = trial
                     /\ timer' = [timer EXCEPT ![trial] = "set"]
                  \/ /\ At(Main, "raised")
                     /\ MainMove("constructing", "failed")
                     /\ UNCHANGED <<bound, timer>>
               /\ UNCHANGED <<satellites, made, process, plan, trial>>

BenchmarkReturns == /\ MainMove("benchmark", "after")
                    /\ plan.punctual => timer[trial] = "ended"
                    /\ UNCHANGED <<groupVars, plan, trial, bound, timer>>

(* The client died before its first sample (ClientProcess!HasProgram).     *)
BenchmarkRaises == /\ MainMove("benchmark", "failed")
                   /\ ~plan.punctual
                   /\ UNCHANGED <<groupVars, plan, trial, bound, timer>>

\* Fault: the group of a reconnect is left to the Timer too.
AfterNone == /\ IF action = "none"
                THEN MainMove("after", "shutdown") /\ Call(Main, "shutdown", bound)
                ELSE MainMove("after", "plot") /\ UNCHANGED frame
             /\ UNCHANGED <<satellites, made, process, plan, trial, bound, timer>>

After == /\ IF action # "disconnect"
            THEN MainMove("after", "shutdown") /\ Call(Main, "shutdown", bound)
            ELSE MainMove("after", "plot") /\ UNCHANGED frame
         /\ UNCHANGED <<satellites, made, process, plan, trial, bound, timer>>

ShutdownReturns == /\ Resume(Main)
                   /\ MainMove("shutdown", IF At(Main, "returned") THEN "plot" ELSE "failed")
                   /\ UNCHANGED <<satellites, made, process, plan, trial, bound, timer>>

NextTrial == /\ IF trial < Len(plan.actions)
                THEN MainMove("plot", "construct") /\ trial' = trial + 1
                ELSE MainMove("plot", "done") /\ UNCHANGED trial
             /\ UNCHANGED <<groupVars, plan, bound, timer>>

MainStep == \/ Construct \/ Constructed \/ BenchmarkReturns \/ BenchmarkRaises
            \/ After \/ ShutdownReturns \/ NextTrial
            \/ InMethod(Main)

-----------------------------------------------------------------------------
TimerMove(k, from, to) == /\ timer[k] = from
                          /\ timer' = [timer EXCEPT ![k] = to]
                          /\ UNCHANGED <<plan, main, trial, bound>>

Fire(k) == TimerMove(k, "set", "first") /\ UNCHANGED groupVars

(* The two ifs of satellite_action.                                        *)
First(k) == /\ IF action = "disconnect"
               THEN TimerMove(k, "first", "shutdown1") /\ Call(k, "shutdown", bound)
               ELSE TimerMove(k, "first", "second") /\ UNCHANGED frame
            /\ UNCHANGED <<satellites, made, process>>

Second(k) == /\ IF action = "reconnect"
                THEN TimerMove(k, "second", "shutdown2") /\ Call(k, "shutdown", bound)
                ELSE TimerMove(k, "second", "ended") /\ UNCHANGED frame
             /\ UNCHANGED <<satellites, made, process>>

(* An exception in a method ends the Timer's thread and nothing else.      *)
Back(k, from, to) == /\ Resume(k)
                     /\ TimerMove(k, from, IF At(k, "returned") THEN to ELSE "ended")
                     /\ UNCHANGED <<satellites, made, process>>

\* Fault: no start after the sleep.
RestartNot(k) == TimerMove(k, "sleep", "ended") /\ UNCHANGED groupVars

Restart(k) == /\ TimerMove(k, "sleep", "start")
              /\ Call(k, "start", bound)
              /\ UNCHANGED <<satellites, made, process>>

satellite_action(k) == \/ First(k) \/ Second(k) \/ Restart(k)
                       \/ Back(k, "shutdown1", "second")
                       \/ Back(k, "shutdown2", "sleep")
                       \/ Back(k, "start", "ended")
                       \/ InMethod(k)

-----------------------------------------------------------------------------
Next == \/ MainStep
        \/ \E k \in Groups : Fire(k) \/ satellite_action(k)
        \/ SatelliteProcesses

Spec == Init /\ [][Next]_vars

(* Threads are scheduled, a Timer goes off, benchmarks are taken to return *)
(* or raise, and a process binds its port, or exits on SIGTERM.            *)
FairSpec == /\ Spec
            /\ WF_vars(MainStep)
            /\ \A k \in Groups : WF_vars(Fire(k)) /\ WF_vars(satellite_action(k))
            /\ WF_vars(SatelliteProcesses)

-----------------------------------------------------------------------------
(* PROPERTIES *)

(* If benchmarks last, no satellite finds its port taken: whoever made the *)
(* satellites before it has waited for their end (61-68), in every order   *)
(* of trials.                                                              *)
NoPortConflict ==
    plan.punctual => \A l \in Lists, p \in Ports : process[l][p] # "refused"

(* If benchmarks last, a satellite that runs is in the list of the group   *)
(* the script holds or in one a method is at work on: none is left running *)
(* behind the back of all (satellite.py 94, 205-207).                      *)
NoOrphans ==
    plan.punctual =>
        \A l \in Lists, p \in Ports : Live(l, p) =>
            satellites[bound] = l \/ \E t \in Threads : frame[t].list = l

(* If benchmarks last, the group is at their end as the trial is labelled  *)
(* in the graph: gone after a disconnect, otherwise running, also after a  *)
(* reconnect.                                                              *)
TrialAsLabelled ==
    plan.punctual /\ main = "after" =>
        /\ satellites[bound] = None <=> action = "disconnect"
        /\ action # "disconnect" => Running(satellites[bound])

(* If benchmarks last, the graph is finished, no thread hangs in a         *)
(* shutdown, and no satellite is left.                                     *)
GraphEnds == plan.punctual => <>[](/\ main = "done"
                                   /\ \A l \in Lists, p \in Ports : ~Live(l, p))

(* Whenever benchmarks end, and however the calls of several Timers and of *)
(* the main thread overlap, no Timer hangs: neither in terminate, which    *)
(* waits for a process it may not have been the only one to signal         *)
(* (satellite.py 61-68), nor after an exception.                           *)
TimersEnd == \A k \in Groups : timer[k] = "set" ~> timer[k] = "ended"

(* "satellites shutdown in the middle of the test" (disconnect_graphs.py   *)
(* 79), that is, of the test that the Timer was started for: it never      *)
(* stops those of another trial.                                           *)
ShutdownInTest == \A k \in Groups : At(k, "terminate") => frame[k].self = k
=============================================================================
