---------------------------- MODULE SatelliteGroup ----------------------------
(***************************************************************************)
(* MockSatelliteGroup (satellite.py) as a library called by several        *)
(* threads: the constructor, start and shutdown, step by step, over        *)
(* satellite processes that compete for ports.                             *)
(*                                                                         *)
(* __init__ starts a list of handlers, one per port, and a group holds the *)
(* list or None.  Lists are numbered in the order in which they are made;  *)
(* 0 stands for None.  The class has no lock: between any two steps here   *)
(* another thread may run.  A thread calls a method by making a frame for  *)
(* it and goes on when the frame has returned or raised.                   *)
(***************************************************************************)
EXTENDS Integers

CONSTANTS Threads,    \* the threads that call methods
          NumGroups,  \* group objects
          NumPorts,   \* ports of a group, the same for all
          MaxLists    \* bound: lists of handlers ever made

ASSUME GroupAssumption == /\ NumGroups \in Nat \ {0} /\ NumPorts \in Nat \ {0}
                          /\ MaxLists \in Nat \ {0}

Groups == 1 .. NumGroups
Ports == 1 .. NumPorts
Lists == 1 .. MaxLists

None == 0

VARIABLES
    satellites,   \* satellites[g]: _satellites of group g, a list or None
    made,         \* lists made so far
    process,      \* process[l][p]: the process of handler p of list l
    frame         \* frame[t]: the call thread t is in

groupVars == <<satellites, made, process, frame>>

ProcessState == {"none", "starting", "serving", "dying", "dead", "refused"}

Steps == {"none", "returned", "raised", "shutdown", "each", "terminate", "wait", "clear",
          "start", "spawn", "assign", "check", "poll"}

Frame == [step : Steps, self : Groups, list : Lists \cup {None}, port : Ports]

NoFrame == [step |-> "none", self |-> 1, list |-> None, port |-> 1]

GroupTypeOK == /\ satellites \in [Groups -> Lists \cup {None}]
               /\ made \in Lists \cup {0}
               /\ process \in [Lists -> [Ports -> ProcessState]]
               /\ frame \in [Threads -> Frame]

GroupInit == /\ satellites = [g \in Groups |-> None]
             /\ made = 0
             /\ process = [l \in Lists |-> [p \in Ports |-> "none"]]
             /\ frame = [t \in Threads |-> NoFrame]

-----------------------------------------------------------------------------
(* Calling a method and going on after it.                                 *)
Call(t, method, g) == frame' = [frame EXCEPT ![t] = [NoFrame EXCEPT !.step = method, !.self = g]]

Resume(t) == /\ frame[t].step \in {"returned", "raised"}
             /\ frame' = [frame EXCEPT ![t] = NoFrame]

Goto(t, step) == frame' = [frame EXCEPT ![t].step = step]

At(t, step) == frame[t].step = step
Mine(t) == satellites[frame[t].self]

(* The process that frame[t] is at.                                        *)
Handler(t) == process[frame[t].list][frame[t].port]
SetHandler(t, state) ==
    process' = [process EXCEPT ![frame[t].list][frame[t].port] = state]

(* On to the next port, after the last one to another step.                *)
NextPort(t, again, after) ==
    LET port == frame[t].port IN
    frame' = [frame EXCEPT
                 ![t].step = IF port < NumPorts THEN again ELSE after,
                 ![t].port = IF port < NumPorts THEN port + 1 ELSE 1]

-----------------------------------------------------------------------------
(* shutdown: nothing to do without a list, ...                             *)
Shutdown(t) == /\ At(t, "shutdown")
               /\ Goto(t, IF Mine(t) = None THEN "returned" ELSE "each")
               /\ UNCHANGED <<satellites, made, process>>

(* ... which is looked up once more: iterating over None is a TypeError.   *)
Each(t) == /\ At(t, "each")
           /\ IF Mine(t) = None
              THEN Goto(t, "raised")
              ELSE frame' = [frame EXCEPT ![t].step = "terminate", ![t].list = Mine(t)]
           /\ UNCHANGED <<satellites, made, process>>

\* Fault: a satellite that serves is not signalled.
TerminateStarting(t) == /\ At(t, "terminate")
                        /\ IF Handler(t) = "starting"
                           THEN SetHandler(t, "dead") ELSE UNCHANGED process
                        /\ Goto(t, "wait")
                        /\ UNCHANGED <<satellites, made>>

(* terminate sends SIGTERM, which does not affect a process that is gone, *)
Terminate(t) == /\ At(t, "terminate")
                /\ IF Handler(t) \in {"starting", "serving"}
                   THEN SetHandler(t, IF Handler(t) = "serving" THEN "dying" ELSE "dead")
                   ELSE UNCHANGED process
                /\ Goto(t, "wait")
                /\ UNCHANGED <<satellites, made>>

\* Fault: terminate does not wait.
WaitNot(t) == /\ At(t, "wait")
              /\ NextPort(t, "terminate", "clear")
              /\ UNCHANGED <<satellites, made, process>>

\* Fault: terminate waits for the exit code that SIGTERM gives.
WaitSignalled(t) == /\ At(t, "wait")
                    /\ Handler(t) = "dead"
                    /\ NextPort(t, "terminate", "clear")
                    /\ UNCHANGED <<satellites, made, process>>

(* and waits for the exit code.                                            *)
Wait(t) == /\ At(t, "wait")
           /\ Handler(t) \in {"dead", "refused"}
           /\ NextPort(t, "terminate", "clear")
           /\ UNCHANGED <<satellites, made, process>>

Clear(t) == /\ At(t, "clear")
            /\ satellites' = [satellites EXCEPT ![frame[t].self] = None]
            /\ Goto(t, "returned")
            /\ UNCHANGED <<made, process>>

(* start: nothing to do with a list, else __init__.                        *)
Start(t) == /\ At(t, "start")
            /\ Goto(t, IF Mine(t) # None THEN "returned" ELSE "spawn")
            /\ UNCHANGED <<satellites, made, process>>

(* __init__ starts one process per port, ...                               *)
Spawn(t) == /\ At(t, "spawn")
            /\ IF frame[t].list = None
               THEN /\ made < MaxLists
                    /\ made' = made + 1
                    /\ frame' = [frame EXCEPT ![t].list = made']
                    /\ UNCHANGED process
               ELSE /\ SetHandler(t, "starting")
                    /\ NextPort(t, "spawn", "assign")
                    /\ UNCHANGED made
            /\ UNCHANGED satellites

(* ... has the list when all are started, sleeps for a second ...          *)
Assign(t) == /\ At(t, "assign")
             /\ satellites' = [satellites EXCEPT ![frame[t].self] = frame[t].list]
             /\ Goto(t, "check")
             /\ UNCHANGED <<made, process>>

(* ... and raises unless all_running, which looks at the list twice.       *)
Check(t) == /\ At(t, "check")
            /\ Goto(t, IF Mine(t) = None THEN "raised" ELSE "poll")
            /\ UNCHANGED <<satellites, made, process>>

Running(l) == \A p \in Ports : process[l][p] \in {"starting", "serving", "dying"}

Poll(t) == /\ At(t, "poll")
           /\ Goto(t, IF Mine(t) # None /\ Running(Mine(t)) THEN "returned" ELSE "raised")
           /\ UNCHANGED <<satellites, made, process>>

GroupStep(t) == \/ Shutdown(t) \/ Each(t) \/ Terminate(t) \/ Wait(t) \/ Clear(t)
                \/ Start(t) \/ Spawn(t) \/ Assign(t) \/ Check(t) \/ Poll(t)

-----------------------------------------------------------------------------
(* A process binds its port, or exits because another one has it.          *)
Taken(p) == \E l \in Lists : process[l][p] \in {"serving", "dying"}

Bind(l, p) == /\ process[l][p] = "starting"
              /\ process' = [process EXCEPT ![l][p] = IF Taken(p) THEN "refused" ELSE "serving"]
              /\ UNCHANGED <<satellites, made, frame>>

Exit(l, p) == /\ process[l][p] = "dying"
              /\ process' = [process EXCEPT ![l][p] = "dead"]
              /\ UNCHANGED <<satellites, made, frame>>

ProcessStep == \E l \in Lists, p \in Ports : Bind(l, p) \/ Exit(l, p)

Live(l, p) == process[l][p] \in {"starting", "serving", "dying"}
=============================================================================
