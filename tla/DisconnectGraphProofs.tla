------------------------ MODULE DisconnectGraphProofs -------------------------
(***************************************************************************)
(* Proofs about the script of the disconnect graph, for any plan, any      *)
(* number of trials and of ports.  If benchmarks last, the main thread and *)
(* the Timers never are in a method of a group at the same time, so that   *)
(* one list of satellites at most is alive; where it is can be told from   *)
(* what the threads do next.                                               *)
(***************************************************************************)
EXTENDS DisconnectGraph, TLAPS

(* The thread that may be in a method, and the method it then is in.       *)
Caller == IF main = "benchmark" THEN trial ELSE Main

InShutdown == \/ main = "shutdown"
              \/ main = "benchmark" /\ timer[trial] \in {"shutdown1", "shutdown2"}
InStart == \/ main = "constructing"
           \/ main = "benchmark" /\ timer[trial] = "start"

(* The Timers of earlier trials have ended, those of later ones are not    *)
(* set, and that of this trial works while its benchmark runs.             *)
Turns ==
    /\ trial <= Len(plan.actions)
    /\ \A k \in Groups : /\ k < trial => timer[k] = "ended"
                         /\ k > trial => timer[k] = "off"
    /\ main # "failed"
    /\ main \in {"construct", "constructing"} => timer[trial] = "off"
    /\ main = "benchmark" => timer[trial] # "off"
    /\ main \in {"after", "shutdown", "plot", "done"} => timer[trial] = "ended"
    /\ main \notin {"construct", "constructing"} => bound = trial

(* Which call belongs to which trial.                                      *)
Labelled ==
    /\ timer[trial] = "shutdown1" => action = "disconnect"
    /\ timer[trial] \in {"shutdown2", "sleep", "start"} => action = "reconnect"
    /\ main = "shutdown" => action # "disconnect"

(* No other thread is in a method, and the caller is in one of its group.  *)
Alone ==
    /\ \A t \in Threads : (t = Caller => ~InShutdown /\ ~InStart) => frame[t].step = "none"
    /\ InShutdown \/ InStart => frame[Caller].self = trial

(* No other group has satellites, and no list that is not made.            *)
Elsewhere ==
    /\ \A g \in Groups : g # trial => satellites[g] = None
    /\ \A l \in Lists : l > made => \A p \in Ports : process[l][p] = "none"

Up == {"starting", "serving"}

(* No list but l has processes.                                            *)
Only(l) == \A k \in Lists : k # l => \A p \in Ports : process[k][p] \in {"none", "dead"}

Exists == LET l == satellites[trial] IN
          l \in Lists /\ l <= made /\ Only(l) /\ \A p \in Ports : process[l][p] \in Up

Gone == satellites[trial] = None /\ Only(None)

(* How far shutdown is.                                                    *)
ShutdownAt(f) ==
    \/ f.step \in {"shutdown", "each"} /\ f.port = 1 /\ Exists
    \/ /\ f.step \in {"terminate", "wait", "clear"}
       /\ f.list \in Lists /\ f.list <= made /\ f.list = satellites[trial] /\ Only(f.list)
       /\ \A p \in Ports : process[f.list][p] \in
              IF f.step = "clear" \/ p < f.port THEN {"dead"}
              ELSE IF f.step = "wait" /\ p = f.port THEN {"dying", "dead"} ELSE Up
    \/ f.step = "returned" /\ Gone

(* How far the constructor is, or start.                                   *)
StartAt(f) ==
    \/ f.step \in {"start", "spawn"} /\ f.list = None /\ f.port = 1 /\ Gone
    \/ /\ f.step \in {"spawn", "assign"}
       /\ f.list \in Lists /\ f.list <= made /\ satellites[trial] = None /\ Only(f.list)
       /\ \A p \in Ports : process[f.list][p] \in
              IF f.step = "assign" \/ p < f.port THEN Up ELSE {"none"}
    \/ f.step \in {"check", "poll", "returned"} /\ f.list = satellites[trial] /\ Exists

(* Where the satellites are at every point of the two threads.             *)
Satellites ==
    /\ InShutdown => ShutdownAt(frame[Caller])
    /\ InStart => StartAt(frame[Caller])
    /\ main \in {"construct", "plot", "done"} => Gone
    /\ main \in {"benchmark", "after"} =>
          /\ timer[trial] \in {"set", "first"} => Exists
          /\ timer[trial] = "sleep" => Gone
          /\ timer[trial] \in {"second", "ended"} =>
                IF action = "disconnect" THEN Gone ELSE Exists

PunctualInv == Turns /\ Labelled /\ Alone /\ Elsewhere /\ Satellites

Inv == TypeOK /\ (plan.punctual => PunctualInv)

-----------------------------------------------------------------------------
(* What the steps of the library do to the frame of their thread, and to   *)
(* no other.                                                               *)

OthersStay(t) == \A u \in Threads : u # t => frame'[u] = frame[u]

(* A record is the same as one with its fields.                            *)
LEMMA StepAndSelf ==
    ASSUME NEW f \in Frame, NEW a, NEW b
    PROVE  [f EXCEPT !.step = a, !.self = b]
               = [step |-> a, self |-> b, list |-> f.list, port |-> f.port]
<1> DEFINE x == [f EXCEPT !.step = a, !.self = b]
           y == [step |-> a, self |-> b, list |-> f.list, port |-> f.port]
<1>1. /\ x = [i \in {"step", "self", "list", "port"} |-> x[i]]
      /\ y = [i \in {"step", "self", "list", "port"} |-> y[i]]
  BY DEF Frame
<1>2. x["step"] = y["step"]
  BY DEF Frame
<1>3. x["self"] = y["self"]
  BY DEF Frame
<1>4. x["list"] = y["list"]
  BY DEF Frame
<1>5. x["port"] = y["port"]
  BY DEF Frame
<1> HIDE DEF x, y
<1>6. x = y
  BY <1>1, <1>2, <1>3, <1>4, <1>5
<1> QED
  BY <1>6 DEF x, y

LEMMA StepAndPort ==
    ASSUME NEW f \in Frame, NEW a, NEW b
    PROVE  [f EXCEPT !.step = a, !.port = b]
               = [step |-> a, self |-> f.self, list |-> f.list, port |-> b]
<1> DEFINE x == [f EXCEPT !.step = a, !.port = b]
           y == [step |-> a, self |-> f.self, list |-> f.list, port |-> b]
<1>1. /\ x = [i \in {"step", "self", "list", "port"} |-> x[i]]
      /\ y = [i \in {"step", "self", "list", "port"} |-> y[i]]
  BY DEF Frame
<1>2. x["step"] = y["step"]
  BY DEF Frame
<1>3. x["self"] = y["self"]
  BY DEF Frame
<1>4. x["list"] = y["list"]
  BY DEF Frame
<1>5. x["port"] = y["port"]
  BY DEF Frame
<1> HIDE DEF x, y
<1>6. x = y
  BY <1>1, <1>2, <1>3, <1>4, <1>5
<1> QED
  BY <1>6 DEF x, y

LEMMA StepAndList ==
    ASSUME NEW f \in Frame, NEW a, NEW b
    PROVE  [f EXCEPT !.step = a, !.list = b]
               = [step |-> a, self |-> f.self, list |-> b, port |-> f.port]
<1> DEFINE x == [f EXCEPT !.step = a, !.list = b]
           y == [step |-> a, self |-> f.self, list |-> b, port |-> f.port]
<1>1. /\ x = [i \in {"step", "self", "list", "port"} |-> x[i]]
      /\ y = [i \in {"step", "self", "list", "port"} |-> y[i]]
  BY DEF Frame
<1>2. x["step"] = y["step"]
  BY DEF Frame
<1>3. x["self"] = y["self"]
  BY DEF Frame
<1>4. x["list"] = y["list"]
  BY DEF Frame
<1>5. x["port"] = y["port"]
  BY DEF Frame
<1> HIDE DEF x, y
<1>6. x = y
  BY <1>1, <1>2, <1>3, <1>4, <1>5
<1> QED
  BY <1>6 DEF x, y

LEMMA CallMakes ==
    ASSUME frame \in [Threads -> Frame], NEW t \in Threads, NEW g \in Groups,
           NEW method \in Steps, Call(t, method, g)
    PROVE  /\ frame' \in [Threads -> Frame] /\ OthersStay(t)
           /\ frame'[t].step = method /\ frame'[t].self = g
           /\ frame'[t].list = None /\ frame'[t].port = 1
<1>1. [NoFrame EXCEPT !.step = method, !.self = g]
          = [step |-> method, self |-> g, list |-> None, port |-> 1]
  <2>1. NoFrame \in Frame /\ NoFrame.list = None /\ NoFrame.port = 1
    BY GroupAssumption DEF NoFrame, Frame, Steps, Groups, Ports
  <2>2. [NoFrame EXCEPT !.step = method, !.self = g]
            = [step |-> method, self |-> g, list |-> NoFrame.list, port |-> NoFrame.port]
    BY <2>1, StepAndSelf
  <2> QED
    BY <2>1, <2>2
<1>2. [step |-> method, self |-> g, list |-> None, port |-> 1] \in Frame
  BY GroupAssumption DEF Frame, Ports
<1> QED
  BY <1>1, <1>2 DEF Call, OthersStay

LEMMA ResumeLeaves ==
    ASSUME frame \in [Threads -> Frame], NEW t \in Threads, Resume(t)
    PROVE  /\ frame' \in [Threads -> Frame] /\ OthersStay(t)
           /\ frame'[t].step = "none"
           /\ frame[t].step \in {"returned", "raised"}
<1>1. NoFrame \in Frame /\ NoFrame.step = "none"
  BY GroupAssumption DEF NoFrame, Frame, Steps, Groups, Ports
<1> QED
  BY <1>1 DEF Resume, OthersStay

LEMMA GotoMoves ==
    ASSUME frame \in [Threads -> Frame], NEW t \in Threads, NEW s \in Steps, Goto(t, s)
    PROVE  /\ frame' \in [Threads -> Frame] /\ OthersStay(t)
           /\ frame'[t].step = s /\ frame'[t].self = frame[t].self
           /\ frame'[t].list = frame[t].list /\ frame'[t].port = frame[t].port
<1> DEFINE f == frame[t]
<1>1. f \in Frame
  OBVIOUS
<1>2. [f EXCEPT !.step = s] = [step |-> s, self |-> f.self, list |-> f.list, port |-> f.port]
  BY <1>1 DEF Frame
<1>3. frame' = [frame EXCEPT ![t] = [f EXCEPT !.step = s]]
  BY DEF Goto
<1>4. [step |-> s, self |-> f.self, list |-> f.list, port |-> f.port] \in Frame
  BY <1>1 DEF Frame
<1> HIDE DEF f
<1>5. frame' = [frame EXCEPT ![t] = [step |-> s, self |-> f.self, list |-> f.list,
                                     port |-> f.port]]
  BY <1>2, <1>3
<1> QED
  BY <1>4, <1>5 DEF OthersStay, f

LEMMA NextPortMoves ==
    ASSUME frame \in [Threads -> Frame], NEW t \in Threads, NEW again \in Steps,
           NEW after \in Steps, NextPort(t, again, after)
    PROVE  /\ frame' \in [Threads -> Frame] /\ OthersStay(t)
           /\ frame'[t].self = frame[t].self /\ frame'[t].list = frame[t].list
           /\ frame'[t].step = IF frame[t].port < NumPorts THEN again ELSE after
           /\ frame'[t].port = IF frame[t].port < NumPorts THEN frame[t].port + 1 ELSE 1
<1> DEFINE f == frame[t]
           h == [step |-> IF f.port < NumPorts THEN again ELSE after, self |-> f.self,
                 list |-> f.list, port |-> IF f.port < NumPorts THEN f.port + 1 ELSE 1]
<1>1. f \in Frame
  OBVIOUS
<1>2. h \in Frame
  BY <1>1, GroupAssumption DEF Frame, Ports
<1>3. frame' = [frame EXCEPT ![t] = [f EXCEPT !.step = h.step, !.port = h.port]]
  BY DEF NextPort
<1>4. [f EXCEPT !.step = h.step, !.port = h.port] = h
  BY <1>1, StepAndPort
<1>7. frame' = [frame EXCEPT ![t] = h]
  BY <1>3, <1>4
<1>8. frame'[t] = h /\ OthersStay(t) /\ frame' \in [Threads -> Frame]
  <2> HIDE DEF h
  <2> QED
    BY <1>2, <1>7 DEF OthersStay
<1> QED
  BY <1>8

LEMMA EachMoves ==
    ASSUME frame \in [Threads -> Frame], NEW t \in Threads, Each(t), Mine(t) \in Lists,
           None \notin Lists
    PROVE  /\ frame' \in [Threads -> Frame] /\ OthersStay(t)
           /\ frame'[t].step = "terminate" /\ frame'[t].self = frame[t].self
           /\ frame'[t].list = Mine(t) /\ frame'[t].port = frame[t].port
<1> DEFINE f == frame[t]
<1>1. PICK l \in Lists : l = Mine(t)
  OBVIOUS
<1>2. frame' = [frame EXCEPT ![t] = [f EXCEPT !.step = "terminate", !.list = l]]
  BY <1>1 DEF Each
<1>3. f \in Frame
  OBVIOUS
<1>4. [f EXCEPT !.step = "terminate", !.list = l]
         = [step |-> "terminate", self |-> f.self, list |-> l, port |-> f.port]
  BY <1>3, StepAndList
<1>5. [step |-> "terminate", self |-> f.self, list |-> l, port |-> f.port] \in Frame
  BY <1>3 DEF Frame, Steps
<1> QED
  BY <1>1, <1>2, <1>4, <1>5 DEF OthersStay

-----------------------------------------------------------------------------
(* The variables of the library keep their types.                          *)

LEMMA GroupTypes ==
    ASSUME GroupTypeOK, NEW t \in Threads, GroupStep(t)
    PROVE  GroupTypeOK' /\ OthersStay(t)
<1>1. /\ frame \in [Threads -> Frame] /\ frame[t] \in Frame
      /\ satellites \in [Groups -> Lists \cup {None}]
      /\ process \in [Lists -> [Ports -> ProcessState]] /\ made \in Lists \cup {0}
      /\ frame[t].self \in Groups /\ frame[t].list \in Lists \cup {None}
      /\ frame[t].port \in Ports
  BY DEF GroupTypeOK, Frame
<1>2. Steps = {"none", "returned", "raised", "shutdown", "each", "terminate", "wait", "clear",
               "start", "spawn", "assign", "check", "poll"}
  BY DEF Steps
<1>3. ASSUME NEW s \in Steps, Goto(t, s)
      PROVE  frame' \in [Threads -> Frame] /\ OthersStay(t)
  BY <1>1, <1>3, GotoMoves
<1>4. ASSUME NEW a \in Steps, NEW b \in Steps, NextPort(t, a, b)
      PROVE  frame' \in [Threads -> Frame] /\ OthersStay(t)
  BY <1>1, <1>4, NextPortMoves
<1>5. ASSUME NEW s \in ProcessState, SetHandler(t, s)
      PROVE  process' \in [Lists -> [Ports -> ProcessState]]
  <2> DEFINE l == frame[t].list
             q == [process[l] EXCEPT ![frame[t].port] = s]
  <2>2. l \in Lists => q \in [Ports -> ProcessState]
    BY <1>1, <1>5
  <2>3. process' = [process EXCEPT ![l] = q]
    BY <1>5 DEF SetHandler
  <2> HIDE DEF q
  <2> QED
    BY <1>1, <2>2, <2>3
<1>6. CASE Shutdown(t)
  BY <1>1, <1>2, <1>3, <1>6 DEF Shutdown, GroupTypeOK
<1>7. CASE Each(t)
  <2>1. CASE Mine(t) = None
    BY <1>1, <1>2, <1>3, <1>7, <2>1 DEF Each, GroupTypeOK
  <2>2. CASE Mine(t) # None
    <3>1. Mine(t) \in Lists /\ None \notin Lists
      BY <1>1, <2>2 DEF Mine, Lists, None
    <3>3. frame' \in [Threads -> Frame] /\ OthersStay(t)
      BY <1>1, <1>7, <3>1, EachMoves
    <3> QED
      BY <1>1, <1>7, <3>3 DEF Each, GroupTypeOK
  <2> QED
    BY <2>1, <2>2
<1>8. CASE Terminate(t)
  <2>1. frame' \in [Threads -> Frame] /\ OthersStay(t)
    BY <1>2, <1>3, <1>8 DEF Terminate
  <2>2. process' \in [Lists -> [Ports -> ProcessState]]
    <3>1. "dying" \in ProcessState /\ "dead" \in ProcessState
      BY DEF ProcessState
    <3> QED
      BY <1>1, <1>5, <1>8, <3>1 DEF Terminate
  <2> QED
    BY <1>1, <1>8, <2>1, <2>2 DEF Terminate, GroupTypeOK
<1>9. CASE Wait(t)
  BY <1>1, <1>2, <1>4, <1>9 DEF Wait, GroupTypeOK
<1>10. CASE Clear(t)
  BY <1>1, <1>2, <1>3, <1>10 DEF Clear, GroupTypeOK
<1>11. CASE Start(t)
  BY <1>1, <1>2, <1>3, <1>11 DEF Start, GroupTypeOK
<1>12. CASE Spawn(t)
  <2>1. CASE frame[t].list = None
    <3>1. made' \in Lists /\ frame' = [frame EXCEPT ![t].list = made']
      BY <1>1, <1>12, <2>1, GroupAssumption DEF Spawn, Lists
    <3>2. frame' \in [Threads -> Frame] /\ OthersStay(t)
      BY <1>1, <3>1 DEF Frame, OthersStay
    <3> QED
      BY <1>1, <1>12, <2>1, <3>1, <3>2 DEF Spawn, GroupTypeOK
  <2>2. CASE frame[t].list # None
    <3>1. "starting" \in ProcessState
      BY DEF ProcessState
    <3>2. process' \in [Lists -> [Ports -> ProcessState]]
      BY <1>1, <1>5, <1>12, <2>2, <3>1 DEF Spawn
    <3>3. frame' \in [Threads -> Frame] /\ OthersStay(t)
      BY <1>2, <1>4, <1>12, <2>2 DEF Spawn
    <3> QED
      BY <1>1, <1>12, <2>2, <3>2, <3>3 DEF Spawn, GroupTypeOK
  <2> QED
    BY <2>1, <2>2
<1>13. CASE Assign(t)
  BY <1>1, <1>2, <1>3, <1>13 DEF Assign, GroupTypeOK
<1>14. CASE Check(t)
  BY <1>1, <1>2, <1>3, <1>14 DEF Check, GroupTypeOK
<1>15. CASE Poll(t)
  BY <1>1, <1>2, <1>3, <1>15 DEF Poll, GroupTypeOK
<1> QED
  BY <1>6, <1>7, <1>8, <1>9, <1>10, <1>11, <1>12, <1>13, <1>14, <1>15 DEF GroupStep

LEMMA ProcessTypes ==
    ASSUME GroupTypeOK, ProcessStep
    PROVE  GroupTypeOK' /\ UNCHANGED <<satellites, made, frame>>
<1>1. PICK l \in Lists, p \in Ports : Bind(l, p) \/ Exit(l, p)
  BY DEF ProcessStep
<1>2. PICK s \in ProcessState : process' = [process EXCEPT ![l][p] = s]
  BY <1>1 DEF Bind, Exit, ProcessState
<1> QED
  BY <1>1, <1>2 DEF GroupTypeOK, Bind, Exit

(* A call, or the end of one, by one of the script's threads.              *)
LEMMA FrameTypes ==
    ASSUME GroupTypeOK, NEW t \in Threads, UNCHANGED <<satellites, made, process>>,
           \/ \E method \in Steps, g \in Groups : Call(t, method, g)
           \/ Resume(t)
           \/ UNCHANGED frame
    PROVE  GroupTypeOK' /\ OthersStay(t)
<1>1. frame' \in [Threads -> Frame] /\ OthersStay(t)
  BY CallMakes, ResumeLeaves DEF GroupTypeOK, OthersStay
<1> QED
  BY <1>1 DEF GroupTypeOK

LEMMA Calls == /\ \A k \in Groups : k \in Threads
               /\ Main \in Threads /\ Main \notin Groups
               /\ {"spawn", "shutdown", "start"} \subseteq Steps
BY GraphAssumption, GroupAssumption DEF Groups, Main, Steps

LEMMA TypesInit == Init => TypeOK
<1> SUFFICES ASSUME Init
             PROVE  TypeOK
  OBVIOUS
<1>1. NoFrame \in Frame
  BY GroupAssumption DEF NoFrame, Frame, Steps, Groups, Ports
<1>2. 1 \in Groups /\ "off" \in TimerPc /\ "construct" \in MainPc /\ "none" \in ProcessState
  BY GroupAssumption DEF Groups, TimerPc, MainPc, ProcessState
<1> QED
  BY <1>1, <1>2 DEF Init, TypeOK, GroupInit, GroupTypeOK

LEMMA TypesStep == TypeOK /\ [Next]_vars => TypeOK'
<1> SUFFICES ASSUME TypeOK, [Next]_vars
             PROVE  TypeOK'
  OBVIOUS
<1>0. GroupTypeOK /\ trial \in Groups /\ bound \in Groups /\ timer \in [Groups -> TimerPc]
  BY DEF TypeOK
<1>1. ASSUME NEW t \in Threads, InMethod(t)
      PROVE  TypeOK'
  BY <1>0, <1>1, GroupTypes DEF InMethod, TypeOK, graphVars
<1>2. CASE SatelliteProcesses
  BY <1>0, <1>2, ProcessTypes DEF SatelliteProcesses, TypeOK, graphVars
<1>3. CASE MainStep
  <2> USE DEF MainMove, MainPc
  <2>1. CASE Construct
    BY <1>0, <2>1, FrameTypes, Calls DEF Construct, TypeOK
  <2>2. CASE Constructed
    <3>1. GroupTypeOK'
      BY <1>0, <2>2, FrameTypes, Calls DEF Constructed
    <3>2. "set" \in TimerPc
      BY DEF TimerPc
    <3> QED
      BY <1>0, <2>2, <3>1, <3>2 DEF Constructed, TypeOK
  <2>3. CASE BenchmarkReturns \/ BenchmarkRaises
    BY <1>0, <2>3 DEF BenchmarkReturns, BenchmarkRaises, TypeOK, GroupTypeOK, groupVars
  <2>4. CASE After
    <3>1. GroupTypeOK'
      BY <1>0, <2>4, FrameTypes, Calls DEF After
    <3> QED
      BY <1>0, <2>4, <3>1 DEF After, TypeOK
  <2>5. CASE ShutdownReturns
    <3>1. GroupTypeOK'
      BY <1>0, <2>5, FrameTypes, Calls DEF ShutdownReturns
    <3> QED
      BY <1>0, <2>5, <3>1 DEF ShutdownReturns, TypeOK
  <2>6. CASE NextTrial
    <3>1. trial < Len(plan.actions) => trial + 1 \in Groups
      BY <1>0, GraphAssumption, GroupAssumption DEF TypeOK, Groups
    <3> QED
      BY <1>0, <2>6, <3>1 DEF NextTrial, TypeOK, GroupTypeOK, groupVars
  <2>7. CASE InMethod(Main)
    BY <1>1, <2>7, Calls
  <2> QED
    BY <1>3, <2>1, <2>2, <2>3, <2>4, <2>5, <2>6, <2>7 DEF MainStep
<1>4. ASSUME NEW k \in Groups, Fire(k) \/ satellite_action(k)
      PROVE  TypeOK'
  <2>0. k \in Threads /\ TimerPc = {"off", "set", "first", "shutdown1", "second", "shutdown2",
                                    "sleep", "start", "ended"}
    BY Calls DEF TimerPc
  <2>1. ASSUME NEW from, NEW to \in TimerPc, TimerMove(k, from, to), GroupTypeOK'
        PROVE  TypeOK'
    BY <1>0, <2>1 DEF TimerMove, TypeOK
  <2>2. CASE Fire(k)
    BY <1>0, <2>0, <2>1, <2>2 DEF Fire, groupVars, GroupTypeOK
  <2>3. CASE First(k)
    <3>1. GroupTypeOK'
      BY <1>0, <2>0, <2>3, FrameTypes, Calls DEF First
    <3> QED
      BY <2>0, <2>1, <2>3, <3>1 DEF First
  <2>4. CASE Second(k)
    <3>1. GroupTypeOK'
      BY <1>0, <2>0, <2>4, FrameTypes, Calls DEF Second
    <3> QED
      BY <2>0, <2>1, <2>4, <3>1 DEF Second
  <2>5. CASE Restart(k)
    <3>1. GroupTypeOK'
      BY <1>0, <2>0, <2>5, FrameTypes, Calls DEF Restart
    <3> QED
      BY <2>0, <2>1, <2>5, <3>1 DEF Restart
  <2>6. ASSUME NEW from, NEW to \in TimerPc, Back(k, from, to)
        PROVE  TypeOK'
    <3>1. GroupTypeOK'
      BY <1>0, <2>0, <2>6, FrameTypes DEF Back
    <3> QED
      BY <2>0, <2>1, <2>6, <3>1 DEF Back
  <2>7. CASE InMethod(k)
    BY <1>1, <2>0, <2>7
  <2> QED
    BY <1>4, <2>0, <2>2, <2>3, <2>4, <2>5, <2>6, <2>7 DEF satellite_action
<1>5. CASE UNCHANGED vars
  BY <1>5 DEF vars, groupVars, graphVars, TypeOK, GroupTypeOK
<1> QED
  BY <1>1, <1>2, <1>3, <1>4, <1>5 DEF Next

(* The variables of the script keep their types.                           *)
THEOREM TypeCorrect == Spec => []TypeOK
BY TypesInit, TypesStep, PTL DEF Spec

-----------------------------------------------------------------------------
(* The library, called by one thread for the group of the trial.           *)

LEMMA SetsHandler ==
    ASSUME process \in [Lists -> [Ports -> ProcessState]], NEW t \in Threads, NEW s,
           frame[t].list \in Lists, frame[t].port \in Ports, SetHandler(t, s)
    PROVE  /\ process'[frame[t].list][frame[t].port] = s
           /\ \A p \in Ports : p # frame[t].port =>
                  process'[frame[t].list][p] = process[frame[t].list][p]
           /\ \A l \in Lists : l # frame[t].list => process'[l] = process[l]
<1> DEFINE l == frame[t].list
           q == [process[l] EXCEPT ![frame[t].port] = s]
<1>1. process' = [process EXCEPT ![l] = q]
  BY DEF SetHandler
<1>2. process[l] \in [Ports -> ProcessState]
  OBVIOUS
<1>3. q[frame[t].port] = s /\ \A p \in Ports : p # frame[t].port => q[p] = process[l][p]
  BY <1>2
<1> HIDE DEF q
<1> QED
  BY <1>1, <1>3

(* shutdown ends with no satellite left.                                   *)
LEMMA ShutdownStep ==
    ASSUME GroupTypeOK, trial \in Groups, UNCHANGED trial, NEW t \in Threads,
           frame[t].self = trial, Elsewhere, ShutdownAt(frame[t]), GroupStep(t)
    PROVE  /\ frame'[t].self = trial
           /\ Elsewhere' /\ ShutdownAt(frame[t])'
<1> DEFINE f == frame[t]
<1>0. PICK l : l = satellites[trial]
  OBVIOUS
<1>1. /\ frame \in [Threads -> Frame] /\ f \in Frame
      /\ satellites \in [Groups -> Lists \cup {None}]
      /\ process \in [Lists -> [Ports -> ProcessState]] /\ made \in Nat
      /\ f.list \in Lists \cup {None}
      /\ f.port \in Ports /\ Ports \subseteq Nat /\ Lists \subseteq Nat /\ None \notin Lists
      /\ Ports = 1 .. NumPorts /\ NumPorts \in Nat \ {0}
  BY GroupAssumption DEF GroupTypeOK, Frame, Lists, Ports, None
<1>2. Mine(t) = l /\ Handler(t) = process[f.list][f.port]
  BY <1>0 DEF Mine, Handler
<1>3. ASSUME NEW s \in Steps, Goto(t, s)
      PROVE  /\ frame'[t].step = s /\ frame'[t].self = trial
             /\ frame'[t].list = f.list /\ frame'[t].port = f.port
  BY <1>1, <1>3, GotoMoves
<1>4. {"each", "wait", "clear", "terminate", "returned"} \subseteq Steps
  BY DEF Steps
<1>5. CASE f.step = "shutdown"
  <2>1. Exists /\ f.port = 1
    BY <1>5 DEF ShutdownAt
  <2>2. Shutdown(t)
    BY <1>5 DEF GroupStep, Shutdown, Each, Terminate, Wait, Clear, Start, Spawn, Assign, Check,
                Poll, At
  <2>3. Goto(t, "each") /\ UNCHANGED <<satellites, made, process>>
    BY <1>0, <1>1, <1>2, <2>1, <2>2 DEF Shutdown, Exists
  <2>4. frame'[t].step = "each" /\ frame'[t].port = 1 /\ frame'[t].self = trial
    BY <1>3, <1>4, <2>1, <2>3
  <2>5. Exists' /\ Elsewhere'
    BY <2>1, <2>3 DEF Exists, Elsewhere, Only
  <2> QED
    BY <2>4, <2>5 DEF ShutdownAt
<1>6. CASE f.step = "each"
  <2>1. Exists /\ f.port = 1
    BY <1>6 DEF ShutdownAt
  <2>2. Each(t)
    BY <1>6 DEF GroupStep, Shutdown, Each, Terminate, Wait, Clear, Start, Spawn, Assign, Check,
                Poll, At
  <2>3. /\ frame' = [frame EXCEPT ![t].step = "terminate", ![t].list = l]
        /\ UNCHANGED <<satellites, made, process>> /\ l \in Lists
    BY <1>1, <1>2, <1>0, <2>1, <2>2 DEF Each, Exists
  <2>4. /\ frame'[t].step = "terminate" /\ frame'[t].port = 1 /\ frame'[t].self = trial
        /\ frame'[t].list = l
    BY <1>1, <1>2, <2>1, <2>2, <2>3, EachMoves
  <2>5. /\ l <= made /\ Only(l)' /\ Elsewhere' /\ \A p \in Ports : process[l][p] \in Up
    BY <1>0, <2>1, <2>3 DEF Exists, Elsewhere, Only
  <2>6. \A p \in Ports : process'[l][p] \in
            IF p < frame'[t].port THEN {"dead"} ELSE Up
    BY <1>1, <2>3, <2>4, <2>5
  <2> QED
    BY <1>0, <2>3, <2>4, <2>5, <2>6 DEF ShutdownAt
<1>7. CASE f.step \in {"terminate", "wait", "clear"}
  <2>1. /\ f.list \in Lists /\ f.list <= made /\ f.list = l /\ Only(l)
        /\ \A p \in Ports : process[l][p] \in
               IF f.step = "clear" \/ p < f.port THEN {"dead"}
               ELSE IF f.step = "wait" /\ p = f.port THEN {"dying", "dead"} ELSE Up
    BY <1>0, <1>7 DEF ShutdownAt
  <2>2. CASE f.step = "terminate"
    <3>1. Terminate(t)
      BY <2>2 DEF GroupStep, Shutdown, Each, Terminate, Wait, Clear, Start, Spawn, Assign,
                  Check, Poll, At
    <3>2. process[l][f.port] \in Up /\ Handler(t) = process[l][f.port]
      BY <1>1, <1>2, <2>1, <2>2
    <3>3. PICK s \in {"dying", "dead"} : SetHandler(t, s)
      BY <3>1, <3>2 DEF Terminate, Up
    <3>4. /\ process'[l][f.port] \in {"dying", "dead"}
          /\ \A p \in Ports : p # f.port => process'[l][p] = process[l][p]
          /\ \A k \in Lists : k # l => process'[k] = process[k]
      BY <1>1, <2>1, <3>3, SetsHandler
    <3>5. /\ frame'[t].step = "wait" /\ frame'[t].port = f.port /\ frame'[t].self = trial
          /\ frame'[t].list = l
          /\ UNCHANGED <<satellites, made>>
      BY <1>3, <1>4, <2>1, <3>1 DEF Terminate
    <3>6. Only(l)' /\ Elsewhere'
      <4>1. \A k \in Lists : k > made => k # l
        BY <1>1, <2>1
      <4>2. \A k \in Lists : k > made => process'[k] = process[k]
        BY <3>4, <4>1
      <4>3. Elsewhere'
        BY <3>5, <4>2 DEF Elsewhere
      <4>4. Only(l)'
        BY <2>1, <3>4 DEF Only
      <4> QED
        BY <4>3, <4>4
    <3>7. \A p \in Ports : process'[l][p] \in
              IF p < f.port THEN {"dead"} ELSE IF p = f.port THEN {"dying", "dead"} ELSE Up
      BY <1>1, <2>1, <2>2, <3>4
    <3> QED
      BY <1>0, <2>1, <3>5, <3>6, <3>7 DEF ShutdownAt
  <2>3. CASE f.step = "wait"
    <3>1. Wait(t)
      BY <2>3 DEF GroupStep, Shutdown, Each, Terminate, Wait, Clear, Start, Spawn, Assign,
                  Check, Poll, At
    <3>2. process[l][f.port] = "dead"
      <4>1. Handler(t) = process[l][f.port] /\ process[l][f.port] \in {"dying", "dead"}
        BY <1>1, <1>2, <2>1, <2>3
      <4> QED
        BY <3>1, <4>1 DEF Wait
    <3>3. NextPort(t, "terminate", "clear") /\ UNCHANGED <<satellites, made, process>>
      BY <3>1 DEF Wait
    <3>4. /\ frame'[t].self = trial /\ frame'[t].list = l
          /\ frame'[t].step = IF f.port < NumPorts THEN "terminate" ELSE "clear"
          /\ frame'[t].port = IF f.port < NumPorts THEN f.port + 1 ELSE 1
      BY <1>1, <1>4, <2>1, <3>3, NextPortMoves
    <3>5. Only(l)' /\ Elsewhere'
      BY <2>1, <3>3 DEF Only, Elsewhere
    <3>6. CASE f.port < NumPorts
      <4>1. \A p \in Ports : process[l][p] \in IF p < f.port + 1 THEN {"dead"} ELSE Up
        BY <1>1, <2>1, <2>3, <3>2
      <4> QED
        BY <1>0, <2>1, <3>3, <3>4, <3>5, <3>6, <4>1 DEF ShutdownAt
    <3>7. CASE ~(f.port < NumPorts)
      <4>1. \A p \in Ports : process[l][p] = "dead"
        BY <1>1, <2>1, <2>3, <3>2, <3>7
      <4> QED
        BY <1>0, <2>1, <3>3, <3>4, <3>5, <3>7, <4>1 DEF ShutdownAt
    <3> QED
      BY <3>6, <3>7
  <2>4. CASE f.step = "clear"
    <3>1. Clear(t)
      BY <2>4 DEF GroupStep, Shutdown, Each, Terminate, Wait, Clear, Start, Spawn, Assign,
                  Check, Poll, At
    <3>2. /\ satellites' = [satellites EXCEPT ![trial] = None]
          /\ UNCHANGED <<made, process>> /\ Goto(t, "returned")
      BY <3>1 DEF Clear
    <3>3. frame'[t].step = "returned" /\ frame'[t].self = trial
      BY <1>3, <1>4, <3>2
    <3>4. Only(None)'
      BY <2>1, <2>4, <3>2 DEF Only
    <3>5. Elsewhere' /\ satellites'[trial] = None
      BY <1>1, <3>2 DEF Elsewhere
    <3> QED
      BY <3>3, <3>4, <3>5 DEF ShutdownAt, Gone
  <2> QED
    BY <1>7, <2>2, <2>3, <2>4
<1>8. f.step # "returned"
  BY DEF GroupStep, Shutdown, Each, Terminate, Wait, Clear, Start, Spawn, Assign, Check, Poll,
         At
<1> QED
  BY <1>5, <1>6, <1>7, <1>8 DEF ShutdownAt

(* start and the constructor end with all satellites of the group running. *)
LEMMA StartStep ==
    ASSUME GroupTypeOK, trial \in Groups, UNCHANGED trial, NEW t \in Threads,
           frame[t].self = trial, Elsewhere, StartAt(frame[t]), GroupStep(t)
    PROVE  /\ frame'[t].self = trial
           /\ Elsewhere' /\ StartAt(frame[t])'
<1> DEFINE f == frame[t]
<1>0. PICK l : l = f.list
  OBVIOUS
<1>1. /\ frame \in [Threads -> Frame] /\ f \in Frame
      /\ satellites \in [Groups -> Lists \cup {None}]
      /\ process \in [Lists -> [Ports -> ProcessState]] /\ made \in Nat
      /\ made \in Lists \cup {0} /\ f.list \in Lists \cup {None}
      /\ f.port \in Ports /\ Ports \subseteq Nat /\ Lists \subseteq Nat /\ None \notin Lists
      /\ Ports = 1 .. NumPorts /\ NumPorts \in Nat \ {0}
      /\ Lists = 1 .. MaxLists /\ MaxLists \in Nat \ {0} /\ None = 0
  BY GroupAssumption DEF GroupTypeOK, Frame, Lists, Ports, None
<1>2. Mine(t) = satellites[trial]
  BY DEF Mine
<1>3. ASSUME NEW s \in Steps, Goto(t, s)
      PROVE  /\ frame'[t].step = s /\ frame'[t].self = trial
             /\ frame'[t].list = f.list /\ frame'[t].port = f.port
  BY <1>1, <1>3, GotoMoves
<1>4. "spawn" \in Steps /\ "assign" \in Steps /\ "check" \in Steps /\ "poll" \in Steps
      /\ "returned" \in Steps
  BY DEF Steps
<1>5. CASE f.step = "start"
  <2>1. f.list = None /\ f.port = 1 /\ Gone
    BY <1>5 DEF StartAt
  <2>2. Start(t)
    BY <1>5 DEF GroupStep, Shutdown, Each, Terminate, Wait, Clear, Start, Spawn, Assign, Check,
                Poll, At
  <2>3. Goto(t, "spawn") /\ UNCHANGED <<satellites, made, process>>
    BY <1>2, <2>1, <2>2 DEF Start, Gone
  <2>4. /\ frame'[t].step = "spawn" /\ frame'[t].self = trial
        /\ frame'[t].list = None /\ frame'[t].port = 1
    BY <1>3, <1>4, <2>1, <2>3
  <2>5. Gone' /\ Elsewhere'
    BY <2>1, <2>3 DEF Gone, Elsewhere, Only
  <2> QED
    BY <2>4, <2>5 DEF StartAt
<1>6. CASE f.step = "spawn"
  <2>1. Spawn(t)
    BY <1>6 DEF GroupStep, Shutdown, Each, Terminate, Wait, Clear, Start, Spawn, Assign, Check,
                Poll, At
  <2>2. CASE f.list = None
    <3>1. f.port = 1 /\ Gone
      BY <1>1, <1>6, <2>2 DEF StartAt
    <3>2. PICK n \in Lists : n = made + 1
      BY <1>1, <2>1, <2>2 DEF Spawn
    <3>3. /\ frame' = [frame EXCEPT ![t].list = n] /\ made' = n
          /\ UNCHANGED <<satellites, process>>
      BY <2>1, <2>2, <3>2 DEF Spawn
    <3>4. /\ frame'[t].step = "spawn" /\ frame'[t].self = trial
          /\ frame'[t].list = n /\ frame'[t].port = 1
      BY <1>1, <1>6, <3>1, <3>3 DEF Frame
    <3>5. satellites'[trial] = None /\ Only(n)'
      BY <1>1, <3>1, <3>3 DEF Gone, Only
    <3>6. \A p \in Ports : process'[n][p] = "none" /\ ~(p < 1)
      <4>1. n > made
        BY <1>1, <3>2
      <4>2. \A p \in Ports : process[n][p] = "none"
        BY <4>1 DEF Elsewhere
      <4> QED
        BY <1>1, <3>3, <4>2
    <3>7. Elsewhere'
      <4>1. \A k \in Lists : k > made' => k > made
        BY <1>1, <3>2, <3>3
      <4> QED
        BY <3>3, <4>1 DEF Elsewhere
    <3>8. n \in Lists /\ n <= made'
      BY <1>1, <3>3
    <3> QED
      BY <3>4, <3>5, <3>6, <3>7, <3>8 DEF StartAt
  <2>3. CASE f.list # None
    <3>1. /\ l \in Lists /\ l <= made /\ satellites[trial] = None /\ Only(l)
          /\ \A p \in Ports : process[l][p] \in IF p < f.port THEN Up ELSE {"none"}
      BY <1>0, <1>6, <2>3 DEF StartAt
    <3>2. /\ SetHandler(t, "starting") /\ NextPort(t, "spawn", "assign")
          /\ UNCHANGED <<satellites, made>>
      BY <2>1, <2>3 DEF Spawn
    <3>3. /\ process'[l][f.port] = "starting"
          /\ \A p \in Ports : p # f.port => process'[l][p] = process[l][p]
          /\ \A k \in Lists : k # l => process'[k] = process[k]
      BY <1>0, <1>1, <3>1, <3>2, SetsHandler
    <3>4. /\ frame'[t].self = trial /\ frame'[t].list = l
          /\ frame'[t].step = IF f.port < NumPorts THEN "spawn" ELSE "assign"
          /\ frame'[t].port = IF f.port < NumPorts THEN f.port + 1 ELSE 1
      BY <1>0, <1>1, <1>4, <3>2, NextPortMoves
    <3>5. Only(l)'
      BY <3>1, <3>3 DEF Only
    <3>6. Elsewhere'
      <4>1. \A k \in Lists : k > made' => k > made /\ k # l
        BY <1>1, <3>1, <3>2
      <4>2. \A k \in Lists : k > made' => process'[k] = process[k]
        BY <3>3, <4>1
      <4> QED
        BY <3>2, <4>1, <4>2 DEF Elsewhere
    <3>7. CASE f.port < NumPorts
      <4>1. \A p \in Ports : process'[l][p] \in IF p < f.port + 1 THEN Up ELSE {"none"}
        BY <1>1, <3>1, <3>3 DEF Up
      <4> QED
        BY <3>1, <3>2, <3>4, <3>5, <3>6, <3>7, <4>1 DEF StartAt
    <3>8. CASE ~(f.port < NumPorts)
      <4>1. \A p \in Ports : process'[l][p] \in Up
        BY <1>1, <3>1, <3>3, <3>8 DEF Up
      <4> QED
        BY <3>1, <3>2, <3>4, <3>5, <3>6, <3>8, <4>1 DEF StartAt
    <3> QED
      BY <3>7, <3>8
  <2> QED
    BY <2>2, <2>3
<1>7. CASE f.step = "assign"
  <2>1. /\ l \in Lists /\ l <= made /\ Only(l)
        /\ \A p \in Ports : process[l][p] \in Up
    BY <1>0, <1>7 DEF StartAt
  <2>2. Assign(t)
    BY <1>7 DEF GroupStep, Shutdown, Each, Terminate, Wait, Clear, Start, Spawn, Assign, Check,
                Poll, At
  <2>3. /\ satellites' = [satellites EXCEPT ![trial] = l]
        /\ UNCHANGED <<made, process>> /\ Goto(t, "check")
    BY <1>0, <2>2 DEF Assign
  <2>4. frame'[t].step = "check" /\ frame'[t].self = trial /\ frame'[t].list = l
    BY <1>0, <1>3, <1>4, <2>3
  <2>5. satellites'[trial] = l /\ Elsewhere'
    BY <1>1, <2>3 DEF Elsewhere
  <2>6. Only(l)'
    BY <2>1, <2>3 DEF Only
  <2>7. Exists'
    BY <2>1, <2>3, <2>5, <2>6 DEF Exists
  <2> QED
    BY <2>4, <2>5, <2>7 DEF StartAt
<1>8. CASE f.step \in {"check", "poll"}
  <2>1. f.list = satellites[trial] /\ Exists
    BY <1>8 DEF StartAt
  <2>2. Check(t) \/ Poll(t)
    BY <1>8 DEF GroupStep, Shutdown, Each, Terminate, Wait, Clear, Start, Spawn, Assign, Check,
                Poll, At
  <2>3. Mine(t) # None /\ Running(Mine(t))
    BY <1>1, <1>2, <2>1 DEF Exists, Running, Up
  <2>4. /\ UNCHANGED <<satellites, made, process>>
        /\ Goto(t, "poll") \/ Goto(t, "returned")
    BY <2>2, <2>3 DEF Check, Poll
  <2>5. /\ frame'[t].step \in {"poll", "returned"} /\ frame'[t].self = trial
        /\ frame'[t].list = satellites[trial]
    BY <1>3, <1>4, <2>1, <2>4
  <2>6. Exists' /\ Elsewhere'
    BY <2>1, <2>4 DEF Exists, Elsewhere, Only
  <2> QED
    BY <2>4, <2>5, <2>6 DEF StartAt
<1>9. f.step # "returned"
  BY DEF GroupStep, Shutdown, Each, Terminate, Wait, Clear, Start, Spawn, Assign, Check, Poll,
         At
<1> QED
  BY <1>5, <1>6, <1>7, <1>8, <1>9 DEF StartAt

(* A process binds its port, or ends.  A satellite that is told to start   *)
(* finds its port free if no list but its own has processes.               *)
LEMMA ProcessMoves ==
    ASSUME GroupTypeOK, NEW l \in Lists \cup {None}, Only(l), ProcessStep
    PROVE  /\ Only(l)'
           /\ \A k \in Lists, p \in Ports :
                  \/ process'[k][p] = process[k][p]
                  \/ k = l /\ process[k][p] = "starting" /\ process'[k][p] = "serving"
                  \/ k = l /\ process[k][p] = "dying" /\ process'[k][p] = "dead"
<1>0. process \in [Lists -> [Ports -> ProcessState]]
  BY DEF GroupTypeOK
<1>1. PICK k \in Lists, p \in Ports : Bind(k, p) \/ Exit(k, p)
  BY DEF ProcessStep
<1>2. k = l
  BY <1>1 DEF Only, Bind, Exit
<1>3. CASE Bind(k, p)
  <2>1. ~Taken(p)
    BY <1>2, <1>3 DEF Taken, Only, Bind
  <2>2. process[k][p] = "starting" /\ process' = [process EXCEPT ![k][p] = "serving"]
    BY <1>3, <2>1 DEF Bind
  <2> QED
    BY <1>0, <1>2, <2>2 DEF Only
<1>4. CASE Exit(k, p)
  BY <1>0, <1>2, <1>4 DEF Only, Exit
<1> QED
  BY <1>1, <1>3, <1>4

LEMMA ProcessesKeep ==
    ASSUME GroupTypeOK, trial \in Groups, UNCHANGED trial, ProcessStep
    PROVE  /\ UNCHANGED <<satellites, made, frame>>
           /\ Gone => Gone'
           /\ Exists => Exists'
           /\ \A t \in Threads : /\ ShutdownAt(frame[t]) => ShutdownAt(frame[t])'
                                 /\ StartAt(frame[t]) => StartAt(frame[t])'
<1>0. None \notin Lists /\ UNCHANGED <<satellites, made, frame>>
  BY GroupAssumption, ProcessTypes DEF None, Lists
<1>1. Gone => Gone'
  BY <1>0, ProcessMoves DEF Gone
<1>2. Exists => Exists'
  <2>1. PICK l : l = satellites[trial]
    OBVIOUS
  <2>2. HAVE Exists
  <2>3. l \in Lists /\ l <= made /\ Only(l) /\ \A p \in Ports : process[l][p] \in Up
    BY <2>1, <2>2 DEF Exists
  <2>4. Only(l)' /\ \A p \in Ports : process'[l][p] \in Up
    BY <2>3, ProcessMoves DEF Up
  <2> QED
    BY <1>0, <2>1, <2>3, <2>4 DEF Exists
<1>3. ASSUME NEW t \in Threads, ShutdownAt(frame[t])
      PROVE  ShutdownAt(frame[t])'
  <2>1. PICK f : f = frame[t] /\ f = frame'[t]
    BY <1>0
  <2>2. CASE f.step \in {"terminate", "wait", "clear"}
    <3>1. /\ f.list \in Lists /\ f.list <= made /\ f.list = satellites[trial] /\ Only(f.list)
          /\ \A p \in Ports : process[f.list][p] \in
                 IF f.step = "clear" \/ p < f.port THEN {"dead"}
                 ELSE IF f.step = "wait" /\ p = f.port THEN {"dying", "dead"} ELSE Up
      BY <1>3, <2>1, <2>2 DEF ShutdownAt
    <3>2. /\ Only(f.list)'
          /\ \A p \in Ports : process'[f.list][p] \in
                 IF f.step = "clear" \/ p < f.port THEN {"dead"}
                 ELSE IF f.step = "wait" /\ p = f.port THEN {"dying", "dead"} ELSE Up
      BY <3>1, ProcessMoves DEF Up
    <3> QED
      BY <1>0, <2>1, <2>2, <3>1, <3>2 DEF ShutdownAt
  <2>3. CASE f.step \in {"shutdown", "each", "returned"}
    BY <1>0, <1>1, <1>2, <1>3, <2>1, <2>3 DEF ShutdownAt
  <2> QED
    BY <1>3, <2>1, <2>2, <2>3 DEF ShutdownAt
<1>4. ASSUME NEW t \in Threads, StartAt(frame[t])
      PROVE  StartAt(frame[t])'
  <2>1. PICK f : f = frame[t] /\ f = frame'[t]
    BY <1>0
  <2>2. CASE f.step \in {"spawn", "assign"} /\ f.list \in Lists
    <3>1. /\ f.list <= made /\ satellites[trial] = None /\ Only(f.list)
          /\ \A p \in Ports : process[f.list][p] \in
                 IF f.step = "assign" \/ p < f.port THEN Up ELSE {"none"}
      BY <1>0, <1>4, <2>1, <2>2 DEF StartAt
    <3>2. /\ Only(f.list)'
          /\ \A p \in Ports : process'[f.list][p] \in
                 IF f.step = "assign" \/ p < f.port THEN Up ELSE {"none"}
      BY <2>2, <3>1, ProcessMoves DEF Up
    <3> QED
      BY <1>0, <2>1, <2>2, <3>1, <3>2 DEF StartAt
  <2>3. CASE ~(f.step \in {"spawn", "assign"} /\ f.list \in Lists)
    BY <1>0, <1>1, <1>2, <1>4, <2>1, <2>3 DEF StartAt
  <2> QED
    BY <2>2, <2>3
<1> QED
  BY <1>0, <1>1, <1>2, <1>3, <1>4

-----------------------------------------------------------------------------
(* The script, if its benchmarks last.                                     *)

(* At the start there is no satellite and no Timer.                        *)
LEMMA PunctualInit == Init => PunctualInv
<1> SUFFICES ASSUME Init
             PROVE  PunctualInv
  OBVIOUS
<1> USE DEF Init, GroupInit
<1>1. 1 \in Groups /\ 1 <= Len(plan.actions)
  BY GraphAssumption, GroupAssumption DEF Groups
<1>2. \A k \in Groups : timer[k] = "off" /\ ~(k < 1)
  BY DEF Groups
<1>3. Turns
  BY <1>1, <1>2 DEF Turns
<1>4. Labelled
  BY <1>1 DEF Labelled
<1>5. \A t \in Threads : frame[t].step = "none"
  BY DEF NoFrame
<1>6. Alone /\ Elsewhere
  BY <1>1, <1>2, <1>5 DEF Alone, Elsewhere, InShutdown, InStart
<1>7. Gone
  BY <1>1 DEF Gone, Only
<1>8. Satellites
  BY <1>7 DEF Satellites, InShutdown, InStart
<1> QED
  BY <1>3, <1>4, <1>6, <1>8 DEF PunctualInv

(* A method goes on in the thread of the caller only.                      *)
LEMMA MethodKeeps ==
    ASSUME TypeOK, PunctualInv, NEW t \in Threads, InMethod(t)
    PROVE  PunctualInv'
<1> USE DEF PunctualInv
<1>0. GroupTypeOK /\ trial \in Groups /\ UNCHANGED graphVars
  BY DEF TypeOK, InMethod
<1>1. t = Caller /\ (InShutdown \/ InStart)
  <2>1. frame[t].step # "none"
    BY DEF InMethod, GroupStep, Shutdown, Each, Terminate, Wait, Clear, Start, Spawn, Assign,
           Check, Poll, At
  <2> QED
    BY <2>1 DEF Alone
<1>2. UNCHANGED <<Caller, InShutdown, InStart, trial>> /\ Turns' /\ Labelled'
  BY <1>0 DEF graphVars, Caller, InShutdown, InStart, Turns, Labelled, action
<1>3. ~(InShutdown /\ InStart)
  BY DEF InShutdown, InStart
<1>4. OthersStay(t) /\ GroupStep(t)
  BY <1>0, GroupTypes DEF InMethod
<1>5. /\ frame'[t].self = trial /\ Elsewhere'
      /\ InShutdown => ShutdownAt(frame[t])'
      /\ InStart => StartAt(frame[t])'
  <2>1. frame[t].self = trial /\ Elsewhere
    BY <1>1 DEF Alone
  <2>2. CASE InShutdown
    <3>1. ShutdownAt(frame[t])
      BY <1>1, <2>2 DEF Satellites
    <3> QED
      BY <1>0, <1>2, <1>3, <1>4, <2>1, <2>2, <3>1, ShutdownStep
  <2>3. CASE InStart
    <3>1. StartAt(frame[t])
      BY <1>1, <2>3 DEF Satellites
    <3> QED
      BY <1>0, <1>2, <1>3, <1>4, <2>1, <2>3, <3>1, StartStep
  <2> QED
    BY <1>1, <2>2, <2>3
<1>6. Alone'
  BY <1>1, <1>2, <1>4, <1>5 DEF Alone, OthersStay
<1>7. Satellites'
  <2>1. main \notin {"construct", "plot", "done", "after"} /\ main' = main /\ timer' = timer
    BY <1>0, <1>1 DEF graphVars, InShutdown, InStart
  <2>2. main = "benchmark" => timer'[trial] \in {"shutdown1", "shutdown2", "start"}
    BY <1>0, <1>1 DEF graphVars, InShutdown, InStart
  <2>3. /\ InShutdown' => ShutdownAt(frame[Caller])'
        /\ InStart' => StartAt(frame[Caller])'
    BY <1>1, <1>2, <1>5
  <2> QED
    BY <1>2, <2>1, <2>2, <2>3 DEF Satellites
<1> QED
  BY <1>2, <1>5, <1>6, <1>7

LEMMA ProcessesKeepInv ==
    ASSUME TypeOK, PunctualInv, SatelliteProcesses
    PROVE  PunctualInv'
<1> USE DEF PunctualInv
<1>0. GroupTypeOK /\ trial \in Groups /\ UNCHANGED graphVars /\ ProcessStep
  BY DEF TypeOK, SatelliteProcesses
<1>1. UNCHANGED <<Caller, InShutdown, InStart, trial, main, timer, action, satellites, made, frame>>
  BY <1>0, ProcessesKeep DEF graphVars, Caller, InShutdown, InStart, action
<1>2. Turns' /\ Labelled'
  BY <1>0, <1>1 DEF graphVars, Turns, Labelled, InShutdown, InStart
<1>3. Alone'
  BY <1>1 DEF Alone
<1>4. Elsewhere'
  <2>1. PICK k \in Lists, p \in Ports : Bind(k, p) \/ Exit(k, p)
    BY <1>0 DEF ProcessStep
  <2>2. PICK s \in ProcessState : process' = [process EXCEPT ![k][p] = s]
    BY <2>1 DEF Bind, Exit, ProcessState
  <2>3. ~(k > made)
    BY <2>1 DEF Elsewhere, Bind, Exit
  <2>4. \A l \in Lists : l > made => process'[l] = process[l]
    BY <1>0, <2>2, <2>3 DEF GroupTypeOK
  <2> QED
    BY <1>1, <2>4 DEF Elsewhere
<1>5. Caller \in Threads
  BY <1>0, Calls DEF Caller
<1>6. /\ Gone => Gone'
      /\ Exists => Exists'
      /\ ShutdownAt(frame[Caller]) => ShutdownAt(frame[Caller])'
      /\ StartAt(frame[Caller]) => StartAt(frame[Caller])'
  <2>1. PICK t \in Threads : t = Caller /\ t = Caller'
    BY <1>1, <1>5
  <2>2. /\ ShutdownAt(frame[t]) => ShutdownAt(frame[t])'
        /\ StartAt(frame[t]) => StartAt(frame[t])'
    BY <1>0, <1>1, ProcessesKeep
  <2> QED
    BY <1>0, <1>1, <2>1, <2>2, ProcessesKeep
<1>7. Satellites'
  BY <1>1, <1>6 DEF Satellites
<1> QED
  BY <1>2, <1>3, <1>4, <1>7

(* What holds of the satellites holds until somebody changes them.         *)
LEMMA SatellitesStay ==
    ASSUME UNCHANGED <<satellites, made, process, trial>>
    PROVE  /\ Gone => Gone'
           /\ Exists => Exists'
           /\ Elsewhere => Elsewhere'
BY DEF Gone, Exists, Elsewhere, Only

LEMMA MainKeeps ==
    ASSUME TypeOK, plan.punctual, PunctualInv, MainStep
    PROVE  PunctualInv'
<1> USE DEF PunctualInv, MainMove
<1>0. /\ frame \in [Threads -> Frame] /\ trial \in Groups /\ trial \in Threads
      /\ Main \in Threads /\ Main # trial
      /\ {"spawn", "shutdown", "start"} \subseteq Steps
      /\ timer \in [Groups -> TimerPc]
      /\ Groups = 1 .. NumGroups /\ NumGroups \in Nat
  BY Calls, GroupAssumption DEF TypeOK, GroupTypeOK, Groups
<1>1. CASE Construct
  <2>1. /\ main = "construct" /\ main' = "constructing"
        /\ UNCHANGED <<satellites, made, process, plan, trial, bound, timer>>
    BY <1>1 DEF Construct
  <2>2. /\ OthersStay(Main)
        /\ frame'[Main].step = "spawn" /\ frame'[Main].self = trial
        /\ frame'[Main].list = None /\ frame'[Main].port = 1
    BY <1>0, <1>1, CallMakes DEF Construct
  <2>3. Turns' /\ Labelled'
    BY <2>1 DEF Turns, Labelled, action
  <2>4. Alone'
    BY <1>0, <2>1, <2>2 DEF Alone, OthersStay, Caller, InShutdown, InStart
  <2>5. Gone' /\ Elsewhere'
    BY <2>1, SatellitesStay DEF Satellites
  <2>6. StartAt(frame[Main])'
    BY <2>2, <2>5 DEF StartAt
  <2>7. Satellites'
    BY <2>1, <2>6 DEF Satellites, Caller, InShutdown, InStart
  <2> QED
    BY <2>3, <2>4, <2>5, <2>7
<1>2. CASE Constructed
  <2>1. main = "constructing" /\ StartAt(frame[Main]) /\ ~InShutdown
    BY <1>2 DEF Constructed, Satellites, Caller, InStart, InShutdown
  <2>2. /\ frame[Main].step \in {"returned", "raised"}
        /\ OthersStay(Main) /\ frame'[Main].step = "none"
    BY <1>0, <1>2, ResumeLeaves DEF Constructed
  <2>3. frame[Main].step = "returned" /\ Exists
    BY <2>1, <2>2 DEF StartAt
  <2>4. /\ main' = "benchmark" /\ bound' = trial /\ timer' = [timer EXCEPT ![trial] = "set"]
        /\ UNCHANGED <<satellites, made, process, plan, trial>>
    BY <1>2, <2>3 DEF Constructed, At
  <2>5. timer'[trial] = "set" /\ \A k \in Groups : k # trial => timer'[k] = timer[k]
    BY <1>0, <2>4
  <2>6. \A k \in Groups : k < trial \/ k > trial => k # trial
    BY <1>0
  <2>7. Turns'
    BY <2>4, <2>5, <2>6 DEF Turns
  <2>8. Labelled'
    BY <2>4, <2>5 DEF Labelled
  <2>9. Alone'
    BY <1>0, <2>1, <2>2, <2>4, <2>5 DEF Alone, OthersStay, Caller, InShutdown, InStart
  <2>10. Exists' /\ Elsewhere'
    BY <2>3, <2>4, SatellitesStay
  <2>11. Satellites'
    BY <2>4, <2>5, <2>10 DEF Satellites, InShutdown, InStart
  <2> QED
    BY <2>7, <2>8, <2>9, <2>10, <2>11
<1>3. CASE BenchmarkReturns
  <2>1. /\ main = "benchmark" /\ main' = "after" /\ timer[trial] = "ended"
        /\ UNCHANGED <<satellites, made, process, frame, plan, trial, bound, timer>>
    BY <1>3 DEF BenchmarkReturns, groupVars
  <2>2. Turns' /\ Labelled'
    BY <2>1 DEF Turns, Labelled, action
  <2>3. Alone'
    BY <1>0, <2>1 DEF Alone, Caller, InShutdown, InStart
  <2>4. /\ Elsewhere'
        /\ Gone => Gone'
        /\ Exists => Exists'
    BY <2>1, SatellitesStay
  <2>5. Satellites'
    BY <2>1, <2>4 DEF Satellites, InShutdown, InStart, action
  <2> QED
    BY <2>2, <2>3, <2>4, <2>5
<1>4. ~BenchmarkRaises
  BY DEF BenchmarkRaises
<1>5. CASE After
  <2>1. /\ main = "after" /\ timer[trial] = "ended" /\ bound = trial
        /\ UNCHANGED <<satellites, made, process, plan, trial, bound, timer>>
    BY <1>5 DEF After, Turns
  <2>2. /\ Elsewhere'
        /\ Gone => Gone'
        /\ Exists => Exists'
    BY <2>1, SatellitesStay
  <2>3. CASE action # "disconnect"
    <3>1. main' = "shutdown" /\ Call(Main, "shutdown", bound) /\ Exists'
      BY <1>5, <2>1, <2>2, <2>3 DEF After, Satellites
    <3>2. /\ OthersStay(Main)
          /\ frame'[Main].step = "shutdown" /\ frame'[Main].self = trial
          /\ frame'[Main].list = None /\ frame'[Main].port = 1
      BY <1>0, <2>1, <3>1, CallMakes
    <3>3. Turns' /\ Labelled'
      BY <2>1, <2>3, <3>1 DEF Turns, Labelled, action
    <3>4. Alone'
      BY <1>0, <2>1, <3>1, <3>2 DEF Alone, OthersStay, Caller, InShutdown, InStart
    <3>5. ShutdownAt(frame[Main])'
      BY <3>1, <3>2 DEF ShutdownAt
    <3>6. Satellites'
      BY <2>1, <3>1, <3>5 DEF Satellites, Caller, InShutdown, InStart
    <3> QED
      BY <2>2, <3>3, <3>4, <3>6
  <2>4. CASE action = "disconnect"
    <3>1. main' = "plot" /\ UNCHANGED frame /\ Gone'
      BY <1>5, <2>1, <2>2, <2>4 DEF After, Satellites
    <3>2. Turns' /\ Labelled'
      BY <2>1, <3>1 DEF Turns, Labelled, action
    <3>3. Alone'
      BY <1>0, <2>1, <3>1 DEF Alone, Caller, InShutdown, InStart
    <3>4. Satellites'
      BY <2>1, <3>1 DEF Satellites, InShutdown, InStart
    <3> QED
      BY <2>2, <3>2, <3>3, <3>4
  <2> QED
    BY <2>3, <2>4
<1>6. CASE ShutdownReturns
  <2>1. main = "shutdown" /\ ShutdownAt(frame[Main])
    BY <1>6 DEF ShutdownReturns, Satellites, Caller, InShutdown
  <2>2. /\ frame[Main].step \in {"returned", "raised"}
        /\ OthersStay(Main) /\ frame'[Main].step = "none"
    BY <1>0, <1>6, ResumeLeaves DEF ShutdownReturns
  <2>3. frame[Main].step = "returned" /\ Gone
    BY <2>1, <2>2 DEF ShutdownAt
  <2>4. main' = "plot" /\ UNCHANGED <<satellites, made, process, plan, trial, bound, timer>>
    BY <1>6, <2>3 DEF ShutdownReturns, At
  <2>5. Turns' /\ Labelled'
    BY <2>1, <2>4 DEF Turns, Labelled, action
  <2>6. Alone'
    BY <1>0, <2>1, <2>2, <2>4 DEF Alone, OthersStay, Caller, InShutdown, InStart
  <2>7. Gone' /\ Elsewhere'
    BY <2>3, <2>4, SatellitesStay
  <2>8. Satellites'
    BY <2>4, <2>7 DEF Satellites, InShutdown, InStart
  <2> QED
    BY <2>5, <2>6, <2>7, <2>8
<1>7. CASE NextTrial
  <2>1. /\ main = "plot" /\ UNCHANGED <<satellites, made, process, frame, plan, bound, timer>>
        /\ Gone /\ timer[trial] = "ended"
    BY <1>7 DEF NextTrial, groupVars, Satellites, Turns
  <2>2. \A t \in Threads : frame[t].step = "none"
    BY <2>1 DEF Alone, InShutdown, InStart
  <2>3. CASE trial < Len(plan.actions)
    <3>1. main' = "construct" /\ trial' = trial + 1
      BY <1>7, <2>3 DEF NextTrial
    <3>2. Len(plan.actions) \in Groups
      BY GraphAssumption DEF TypeOK
    <3>3. trial' \in Groups /\ trial' <= Len(plan.actions)
      BY <1>0, <2>3, <3>1, <3>2
    <3>4. \A k \in Groups : /\ k < trial' => timer[k] = "ended"
                            /\ k > trial' => timer[k] = "off"
                            /\ k = trial' => timer[k] = "off"
      BY <1>0, <2>1, <3>1 DEF Turns
    <3>5. Turns'
      BY <2>1, <3>1, <3>3, <3>4 DEF Turns
    <3>6. Labelled'
      BY <2>1, <3>1, <3>3, <3>4 DEF Labelled
    <3>7. Alone'
      BY <2>1, <2>2, <3>1 DEF Alone, InShutdown, InStart
    <3>8. \A g \in Groups : satellites[g] = None
      BY <2>1 DEF Gone, Elsewhere
    <3>9. Elsewhere' /\ Gone'
      BY <2>1, <3>3, <3>8 DEF Elsewhere, Gone, Only
    <3>10. Satellites'
      BY <3>1, <3>9 DEF Satellites, InShutdown, InStart
    <3> QED
      BY <3>5, <3>6, <3>7, <3>9, <3>10
  <2>4. CASE ~(trial < Len(plan.actions))
    <3>1. main' = "done" /\ trial' = trial
      BY <1>7, <2>4 DEF NextTrial
    <3>2. Turns' /\ Labelled'
      BY <2>1, <3>1 DEF Turns, Labelled, action
    <3>3. Alone'
      BY <2>1, <2>2, <3>1 DEF Alone, InShutdown, InStart
    <3>4. Gone' /\ Elsewhere'
      BY <2>1, <3>1, SatellitesStay
    <3>5. Satellites'
      BY <3>1, <3>4 DEF Satellites, InShutdown, InStart
    <3> QED
      BY <3>2, <3>3, <3>4, <3>5
  <2> QED
    BY <2>3, <2>4
<1>8. CASE InMethod(Main)
  BY <1>0, <1>8, MethodKeeps
<1> QED
  BY <1>1, <1>2, <1>3, <1>4, <1>5, <1>6, <1>7, <1>8 DEF MainStep

LEMMA TimerKeeps ==
    ASSUME TypeOK, plan.punctual, PunctualInv,
           NEW k \in Groups, Fire(k) \/ satellite_action(k)
    PROVE  PunctualInv'
<1> USE DEF PunctualInv
<1>0. /\ frame \in [Threads -> Frame] /\ trial \in Groups
      /\ \A g \in Groups : g \in Threads
      /\ Main \in Threads /\ Main # trial
      /\ {"spawn", "shutdown", "start"} \subseteq Steps
      /\ timer \in [Groups -> TimerPc]
      /\ Groups = 1 .. NumGroups /\ NumGroups \in Nat
  BY Calls, GroupAssumption DEF TypeOK, GroupTypeOK, Groups
<1>1. CASE InMethod(k)
  BY <1>0, <1>1, MethodKeeps
(* The Timer of another trial does nothing.                                *)
<1>2. ASSUME NEW from, NEW to, TimerMove(k, from, to), from \notin {"off", "ended"}
      PROVE  /\ k = trial /\ main = "benchmark" /\ bound = trial /\ timer[trial] = from
             /\ timer' = [timer EXCEPT ![trial] = to] /\ timer'[trial] = to
             /\ \A j \in Groups : j # trial => timer'[j] = timer[j]
             /\ UNCHANGED <<main, plan, trial, bound>>
  <2>1. timer[k] = from /\ timer' = [timer EXCEPT ![k] = to]
        /\ UNCHANGED <<main, plan, trial, bound>>
    BY <1>2 DEF TimerMove
  <2>2. k = trial
    BY <1>0, <1>2, <2>1 DEF Turns
  <2>3. main = "benchmark"
    BY <1>2, <2>1, <2>2 DEF Turns, TypeOK, MainPc
  <2> QED
    BY <1>0, <2>1, <2>2, <2>3 DEF Turns
<1>3. ASSUME NEW from, NEW to, TimerMove(k, from, to), from \notin {"off", "ended"},
             to # "off"
      PROVE  Turns'
  <2>1. \A j \in Groups : j < trial \/ j > trial => j # trial
    BY <1>0
  <2>2. main = "benchmark" /\ main' = "benchmark"
    BY <1>2, <1>3
  <2> QED
    BY <1>2, <1>3, <2>1, <2>2 DEF Turns
(* Steps between two methods.                                              *)
<1>4. ASSUME NEW from, NEW to, TimerMove(k, from, to), UNCHANGED groupVars,
             from \in {"set", "first", "second"}, to \in {"first", "second", "ended"},
             from \in {"set", "first"} /\ to = "second" => action # "disconnect",
             from \in {"set", "first"} => to \in {"first", "second"},
             from = "second" => to = "ended"
      PROVE  PunctualInv'
  <2>0. from \notin {"off", "ended"} /\ to # "off"
    BY <1>4
  <2>1. /\ main = "benchmark" /\ timer[trial] = from /\ timer'[trial] = to
        /\ UNCHANGED <<main, plan, trial, bound, satellites, made, process, frame>>
    BY <1>2, <1>4, <2>0 DEF groupVars
  <2>2. Turns'
    BY <1>3, <1>4, <2>0
  <2>3. Labelled'
    BY <1>4, <2>1 DEF Labelled
  <2>4. Alone'
    BY <1>4, <2>1 DEF Alone, Caller, InShutdown, InStart
  <2>5. /\ Elsewhere'
        /\ Gone => Gone'
        /\ Exists => Exists'
    BY <2>1, SatellitesStay
  <2>6. Satellites'
    BY <1>4, <2>1, <2>5 DEF Satellites, InShutdown, InStart, action
  <2> QED
    BY <2>2, <2>3, <2>4, <2>5, <2>6
(* The call of shutdown.                                                   *)
<1>5. ASSUME NEW from, NEW to, TimerMove(k, from, to), Call(k, "shutdown", bound),
             UNCHANGED <<satellites, made, process>>,
             \/ from = "first" /\ to = "shutdown1" /\ action = "disconnect"
             \/ from = "second" /\ to = "shutdown2" /\ action = "reconnect"
      PROVE  PunctualInv'
  <2>0. from \notin {"off", "ended"} /\ to # "off"
    BY <1>5
  <2>1. /\ k = trial /\ bound = trial
        /\ main = "benchmark" /\ timer[trial] = from /\ timer'[trial] = to
        /\ UNCHANGED <<main, plan, trial, bound>>
    BY <1>2, <1>5, <2>0
  <2>2. /\ OthersStay(trial)
        /\ frame'[trial].step = "shutdown" /\ frame'[trial].self = trial
        /\ frame'[trial].list = None /\ frame'[trial].port = 1
    BY <1>0, <1>5, <2>1, CallMakes
  <2>3. Turns'
    BY <1>3, <1>5, <2>0
  <2>4. Labelled'
    BY <1>5, <2>1 DEF Labelled, action
  <2>5. Alone'
    BY <1>5, <2>1, <2>2 DEF Alone, OthersStay, Caller, InShutdown, InStart
  <2>6. Exists
    BY <1>5, <2>1 DEF Satellites
  <2>7. Exists' /\ Elsewhere'
    BY <1>5, <2>1, <2>6, SatellitesStay
  <2>8. ShutdownAt(frame[trial])'
    BY <2>1, <2>2, <2>7 DEF ShutdownAt
  <2>9. Satellites'
    BY <1>5, <2>1, <2>8 DEF Satellites, Caller, InShutdown, InStart
  <2> QED
    BY <2>3, <2>4, <2>5, <2>7, <2>9
<1>6. ASSUME TimerMove(k, "sleep", "start"), Call(k, "start", bound),
             UNCHANGED <<satellites, made, process>>
      PROVE  PunctualInv'
  <2>1. /\ k = trial /\ bound = trial
        /\ main = "benchmark" /\ timer[trial] = "sleep" /\ timer'[trial] = "start"
        /\ UNCHANGED <<main, plan, trial, bound>>
    BY <1>2, <1>6
  <2>2. /\ OthersStay(trial)
        /\ frame'[trial].step = "start" /\ frame'[trial].self = trial
        /\ frame'[trial].list = None /\ frame'[trial].port = 1
    BY <1>0, <1>6, <2>1, CallMakes
  <2>3. Turns'
    BY <1>3, <1>6
  <2>4. Labelled'
    BY <2>1 DEF Labelled, action
  <2>5. Alone'
    BY <2>1, <2>2 DEF Alone, OthersStay, Caller, InShutdown, InStart
  <2>6. Gone
    BY <2>1 DEF Satellites
  <2>7. Gone' /\ Elsewhere'
    BY <1>6, <2>1, <2>6, SatellitesStay
  <2>8. StartAt(frame[trial])'
    BY <2>1, <2>2, <2>7 DEF StartAt
  <2>9. Satellites'
    BY <2>1, <2>8 DEF Satellites, Caller, InShutdown, InStart
  <2> QED
    BY <2>3, <2>4, <2>5, <2>7, <2>9
(* The end of a method.                                                    *)
<1>7. ASSUME NEW from, NEW to, Back(k, from, to),
             \/ from = "shutdown1" /\ to = "second"
             \/ from = "shutdown2" /\ to = "sleep"
             \/ from = "start" /\ to = "ended"
      PROVE  PunctualInv'
  <2>1. PICK dest : /\ TimerMove(k, from, dest)
                    /\ dest = IF At(k, "returned") THEN to ELSE "ended"
    BY <1>7 DEF Back
  <2>2. from \notin {"off", "ended"} /\ dest # "off"
    BY <1>7, <2>1
  <2>3. /\ k = trial /\ main = "benchmark" /\ timer[trial] = from /\ timer'[trial] = dest
        /\ UNCHANGED <<main, plan, trial, bound, satellites, made, process>>
    BY <1>2, <1>7, <2>1, <2>2 DEF Back
  <2>4. /\ frame[trial].step \in {"returned", "raised"}
        /\ OthersStay(trial) /\ frame'[trial].step = "none"
    BY <1>0, <1>7, <2>3, ResumeLeaves DEF Back
  <2>5. /\ from = "start" => StartAt(frame[trial])
        /\ from # "start" => ShutdownAt(frame[trial])
    BY <1>7, <2>3 DEF Satellites, Caller, InShutdown, InStart
  <2>6. /\ frame[trial].step = "returned"
        /\ IF from = "start" THEN Exists ELSE Gone
    BY <2>4, <2>5 DEF StartAt, ShutdownAt
  <2>7. dest = to
    BY <2>1, <2>3, <2>6 DEF At
  <2>8. Turns'
    BY <1>3, <2>1, <2>2
  <2>9. Labelled'
    BY <1>7, <2>3, <2>7 DEF Labelled, action
  <2>10. Alone'
    BY <1>7, <2>3, <2>4, <2>7 DEF Alone, OthersStay, Caller, InShutdown, InStart
  <2>11. /\ Elsewhere'
         /\ Gone => Gone'
         /\ Exists => Exists'
    BY <2>3, SatellitesStay
  <2>12. /\ from = "shutdown1" => action = "disconnect"
         /\ from # "shutdown1" => action = "reconnect"
    BY <1>7, <2>3 DEF Labelled
  <2>13. Satellites'
    BY <1>7, <2>3, <2>6, <2>7, <2>11, <2>12 DEF Satellites, InShutdown, InStart, action
  <2> QED
    BY <2>8, <2>9, <2>10, <2>11, <2>13
<1>8. CASE Fire(k)
  BY <1>4, <1>8 DEF Fire
<1>9. CASE First(k)
  BY <1>4, <1>5, <1>9 DEF First, groupVars
<1>10. CASE Second(k)
  BY <1>4, <1>5, <1>10 DEF Second, groupVars
<1>11. CASE Restart(k)
  BY <1>6, <1>11 DEF Restart
<1> QED
  BY <1>1, <1>7, <1>8, <1>9, <1>10, <1>11 DEF satellite_action

-----------------------------------------------------------------------------
LEMMA InvStep == Inv /\ [Next]_vars => Inv'
<1> SUFFICES ASSUME Inv, [Next]_vars
             PROVE  Inv'
  OBVIOUS
<1>1. TypeOK'
  BY TypesStep DEF Inv
<1>2. plan' = plan
  BY DEF Next, MainStep, Construct, Constructed, BenchmarkReturns, BenchmarkRaises, After,
         ShutdownReturns, NextTrial, InMethod, Fire, satellite_action, First, Second, Restart,
         Back, TimerMove, SatelliteProcesses, graphVars, vars
<1>3. ASSUME plan.punctual
      PROVE  PunctualInv'
  <2>1. TypeOK /\ PunctualInv
    BY <1>3 DEF Inv
  <2>2. CASE UNCHANGED vars
    BY <2>1, <2>2 DEF vars, groupVars, graphVars, PunctualInv, Turns, Labelled, Alone,
         Elsewhere, Satellites, Caller, InShutdown, InStart, ShutdownAt, StartAt, Exists, Gone,
         Only, action
  <2> QED
    BY <1>3, <2>1, <2>2, MainKeeps, TimerKeeps, ProcessesKeepInv DEF Next
<1> QED
  BY <1>1, <1>2, <1>3 DEF Inv

LEMMA InvCorrect == Spec => []Inv
<1>1. Init => Inv
  BY TypesInit, PunctualInit DEF Inv
<1> QED
  BY <1>1, InvStep, PTL DEF Spec

(* All processes are of one list, of which somebody knows.                 *)
LEMMA OneList ==
    ASSUME TypeOK, PunctualInv
    PROVE  \E l : /\ Only(l)
                  /\ l \in Lists => \A p \in Ports : process[l][p] # "refused"
                  /\ l \in Lists =>
                        satellites[bound] = l \/ \E t \in Threads : frame[t].list = l
<1> USE DEF PunctualInv
<1>0. Caller \in Threads /\ None \notin Lists
  BY Calls DEF TypeOK, Caller, None, Lists
<1>1. CASE Gone
  BY <1>0, <1>1 DEF Gone
<1>2. CASE InShutdown
  <2>1. ShutdownAt(frame[Caller]) /\ bound = trial
    BY <1>2 DEF Satellites, Turns, InShutdown
  <2>2. PICK f : f = frame[Caller]
    OBVIOUS
  <2>3. CASE f.step \in {"terminate", "wait", "clear"}
    <3>1. Only(f.list) /\ \A p \in Ports : process[f.list][p] # "refused"
      BY <2>1, <2>2, <2>3 DEF ShutdownAt, Up
    <3> QED
      BY <1>0, <2>2, <3>1
  <2>4. CASE Exists
    BY <2>1, <2>4 DEF Exists, Up
  <2> QED
    BY <1>1, <2>1, <2>2, <2>3, <2>4 DEF ShutdownAt
<1>3. CASE InStart
  <2>1. StartAt(frame[Caller])
    BY <1>3 DEF Satellites
  <2>2. PICK f : f = frame[Caller]
    OBVIOUS
  <2>3. CASE Gone
    BY <1>1, <2>3
  <2>4. CASE f.step \in {"spawn", "assign"} /\ ~Gone
    <3>1. Only(f.list) /\ \A p \in Ports : process[f.list][p] # "refused"
      BY <2>1, <2>2, <2>4 DEF StartAt, Up
    <3> QED
      BY <1>0, <2>2, <3>1
  <2>5. CASE Exists /\ f.list = satellites[trial]
    <3>1. Only(f.list) /\ \A p \in Ports : process[f.list][p] # "refused"
      BY <2>5 DEF Exists, Up
    <3> QED
      BY <1>0, <2>2, <3>1
  <2> QED
    BY <2>1, <2>2, <2>3, <2>4, <2>5 DEF StartAt
<1>4. CASE ~InShutdown /\ ~InStart /\ ~Gone
  <2>1. main \in {"benchmark", "after"}
    BY <1>4 DEF TypeOK, MainPc, InShutdown, InStart, Turns, Satellites
  <2>2. timer[trial] \in {"set", "first", "second", "sleep", "ended"}
    BY <1>4, <2>1 DEF TypeOK, TimerPc, InShutdown, InStart, Turns
  <2>3. Exists /\ bound = trial
    BY <1>4, <2>1, <2>2 DEF Satellites, Turns
  <2> QED
    BY <2>3 DEF Exists, Up
<1> QED
  BY <1>1, <1>2, <1>3, <1>4

(* At most one list has processes, so that no port is bound twice (61-68). *)
THEOREM PortsAreFree == Spec => []NoPortConflict
<1>1. Inv => NoPortConflict
  BY OneList DEF Inv, NoPortConflict, Only
<1> QED
  BY <1>1, InvCorrect, PTL

(* A satellite that runs is one of those the script or a method knows of   *)
(* (94, 205-207).                                                          *)
THEOREM NobodyIsOrphaned == Spec => []NoOrphans
<1>1. Inv => NoOrphans
  <2> SUFFICES ASSUME Inv, plan.punctual, NEW l \in Lists, NEW p \in Ports, Live(l, p)
               PROVE  satellites[bound] = l \/ \E t \in Threads : frame[t].list = l
    BY DEF NoOrphans
  <2>1. PICK k : /\ Only(k)
                 /\ k \in Lists =>
                       satellites[bound] = k \/ \E t \in Threads : frame[t].list = k
    BY OneList DEF Inv
  <2>2. k = l
    BY <2>1 DEF Only, Live
  <2> QED
    BY <2>1, <2>2
<1> QED
  BY <1>1, InvCorrect, PTL

(* At the end of a benchmark the group is as the graph says: the Timer has *)
(* done all of its work, and nobody else has touched the group.            *)
THEOREM TrialsAreAsLabelled == Spec => []TrialAsLabelled
<1>1. Inv => TrialAsLabelled
  <2> SUFFICES ASSUME Inv, plan.punctual, main = "after"
               PROVE  /\ satellites[bound] = None <=> action = "disconnect"
                      /\ action # "disconnect" => Running(satellites[bound])
    BY DEF TrialAsLabelled
  <2>1. bound = trial /\ IF action = "disconnect" THEN Gone ELSE Exists
    BY DEF Inv, PunctualInv, Turns, Satellites
  <2>2. None \notin Lists
    BY DEF None, Lists
  <2> QED
    BY <2>1, <2>2 DEF Gone, Exists, Running, Up
<1> QED
  BY <1>1, InvCorrect, PTL
=============================================================================
