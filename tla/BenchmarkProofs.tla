--------------------------- MODULE BenchmarkProofs ---------------------------
(***************************************************************************)
(* Proofs about the bookkeeping of benchmark, for any number of            *)
(* satellites, of benchmarks and of spans.                                 *)
(***************************************************************************)
EXTENDS Benchmark, SumTheorems, TLAPS

(* The group is asked only if there is one and the caller gave it.         *)
Asked == /\ pc \in {"reset", "get", "final_reset"} => satellites /\ up
         /\ pc = "check" => satellites

(* Before its client runs nothing of a test is on its way or counted.      *)
NotStarted == pc \in {"reset", "start"} =>
                 client = "none" /\ flight = Zero /\ own = Zero

(* This test has reset satellite s and not yet asked it.                   *)
IsOpen(s) == /\ satellites /\ up
             /\ \/ pc \in {"start", "run", "check"}
                \/ pc = "reset" /\ s < at
                \/ pc = "get" /\ s >= at

(* Where the books of satellite s stand.                                   *)
Books(s) == /\ baseline[s] <= spans_received[s]
            /\ mark[s] <= spans_received[s]
            /\ IsOpen(s) => /\ mark[s] <= baseline[s]
                             /\ own[s] <= spans_received[s] - baseline[s]

(* What the gets of this test have summed up holds what they owe.          *)
Summed == /\ pc = "get" => got >= owed
          /\ pc = "final_reset" => result.spans_received >= owed
          /\ NothingMissed

Inv == /\ TypeOK
       /\ Asked
       /\ NotStarted
       /\ \A s \in Ports : Books(s)
       /\ Summed

-----------------------------------------------------------------------------
(* What the ports and the counters per port are made of.                   *)
LEMMA PortFacts == /\ Ports \subseteq Nat
                   /\ 1 \in Ports
                   /\ \A s \in Ports : ~Last(s) => s + 1 \in Ports
                   /\ \A s \in Ports : Last(s) => \A r \in Ports : r <= s
                   /\ \A s \in Ports : s >= 1
BY BenchmarkAssumption DEF Ports, Last

(* No span counted anywhere is a count for every satellite.                *)
LEMMA ZeroFacts == Zero \in Counts /\ \A s \in Ports : Zero[s] = 0
BY DEF Zero, Counts

(* Adding spans to one satellite changes its number and no other.          *)
LEMMA AddFacts ==
    ASSUME NEW f \in Counts, NEW s \in Ports, NEW n \in Nat
    PROVE  /\ Add(f, s, n) \in Counts
           /\ \A r \in Ports : Add(f, s, n)[r] = IF r = s THEN f[s] + n ELSE f[r]
BY DEF Add, Counts

(* A span can be taken from where there is one.                            *)
LEMMA SubtractFacts ==
    ASSUME NEW f \in Counts, NEW s \in Ports, f[s] > 0
    PROVE  Add(f, s, -1) \in Counts
BY DEF Add, Counts

(* Setting the number of one satellite changes no other.                   *)
LEMMA UpdateFacts ==
    ASSUME NEW f \in Counts, NEW s \in Ports, NEW n \in Nat
    PROVE  /\ [f EXCEPT ![s] = n] \in Counts
           /\ \A r \in Ports : [f EXCEPT ![s] = n][r] = IF r = s THEN n ELSE f[r]
BY DEF Counts

(* The number of a satellite is a natural number.                          *)
LEMMA CountFacts == \A f \in Counts, s \in Ports : f[s] \in Nat
BY DEF Counts

(* A reset of a handler moves its baseline up to the counter it was told.  *)
LEMMA ResetFacts ==
    ASSUME NEW s \in Ports, HandlerReset(s), baseline \in Counts, spans_received \in Counts
    PROVE  baseline' = [baseline EXCEPT ![s] = spans_received[s]]
<1>1. baseline[s] + HandlerGet(s) = spans_received[s]
  BY CountFacts DEF HandlerGet
<1> QED
  BY <1>1 DEF HandlerReset

-----------------------------------------------------------------------------
(* The controller starts with nothing counted, owed or settled.            *)
LEMMA InvInit == Init => Inv
<1> SUFFICES ASSUME Init
             PROVE  Inv
  OBVIOUS
<1> USE PortFacts, ZeroFacts DEF Init
<1>1. TypeOK
  <2>1. running \in [Ports -> BOOLEAN]
    OBVIOUS
  <2>2. result \in [spans_sent : Nat, spans_received : Nat]
    BY DEF NoResult
  <2> QED
    BY <2>1, <2>2 DEF TypeOK
<1>2. Asked /\ NotStarted
  BY DEF Asked, NotStarted
<1>3. \A s \in Ports : Books(s)
  BY DEF Books, IsOpen
<1>4. Summed
  BY DEF Summed, NothingMissed, Returned
<1> QED
  BY <1>1, <1>2, <1>3, <1>4 DEF Inv

(* Each action keeps each part of the invariant.                           *)
LEMMA InvStep == Inv /\ [Next]_vars => Inv'
<1> SUFFICES ASSUME Inv, [Next]_vars
             PROVE  Inv'
  OBVIOUS
<1>0. TypeOK /\ Asked /\ NotStarted /\ Summed /\ \A s \in Ports : Books(s)
  BY DEF Inv
<1> USE BenchmarkAssumption, <1>0, PortFacts, ZeroFacts, CountFacts
    DEF group, process, network, history, call
<1>1. ASSUME NEW given \in BOOLEAN, Benchmark(given) PROVE Inv'
  <2>0. stray' \in Counts
    BY <1>1 DEF Benchmark, TypeOK, Counts
  <2>1. TypeOK'
    <3>1. result' \in [spans_sent : Nat, spans_received : Nat]
      BY <1>1 DEF Benchmark, NoResult
    <3>2. pc' \in {"reset", "start"} /\ quiet' \in BOOLEAN
      BY <1>1 DEF Benchmark
    <3>3. satellites' \in BOOLEAN
      BY <1>1, Zenon DEF Benchmark
    <3>4. /\ at' \in Ports
          /\ test' \in Nat /\ generated' \in Nat /\ resent' \in Nat
          /\ strayed' \in Nat /\ owed' \in Nat
      BY <1>1 DEF TypeOK, Benchmark
    <3>5. /\ client' \in {"none", "running", "exited"}
          /\ outcome' \in {"none", "returned", "raised"}
          /\ flight' \in Counts /\ own' \in Counts
      BY <1>1 DEF Benchmark
    <3>6. UNCHANGED <<got, up, baseline, running, spans_received, buffered, credit, mark>>
      BY <1>1 DEF Benchmark
    <3> QED
      BY <2>0, <3>1, <3>2, <3>3, <3>4, <3>5, <3>6 DEF TypeOK
  <2>2. Asked'
    BY <1>1 DEF Benchmark, Asked
  <2>3. NotStarted'
    BY <1>1 DEF Benchmark, NotStarted, Asked
  <2>4. ASSUME NEW r \in Ports PROVE Books(r)'
    BY <1>1 DEF TypeOK, Benchmark, Books, IsOpen, Asked, NotStarted
  <2>5. Summed'
    BY <1>1 DEF TypeOK, Benchmark, Summed, NothingMissed, Returned
  <2> QED
    BY <2>1, <2>2, <2>3, <2>4, <2>5 DEF Inv
<1>2. CASE Reset
  <2>0. /\ baseline' \in Counts
        /\ \A r \in Ports : baseline'[r] = IF r = at THEN spans_received[r] ELSE baseline[r]
    BY <1>2, ResetFacts, UpdateFacts DEF Reset, TypeOK
  <2>1. TypeOK'
    BY <1>2, <2>0 DEF TypeOK, Reset
  <2>2. Asked'
    BY <1>2 DEF Reset, HandlerReset, HandlerGet, Last, Asked
  <2>3. NotStarted'
    BY <1>2 DEF Reset, HandlerReset, HandlerGet, Last, NotStarted, Asked
  <2>4. ASSUME NEW r \in Ports PROVE Books(r)'
    BY <1>2, <2>0 DEF TypeOK, Reset, Last, Books, IsOpen, Asked, NotStarted
  <2>5. Summed'
    BY <1>2 DEF TypeOK, Reset, HandlerReset, HandlerGet, Last, Summed, NothingMissed,
                   Returned, Books, IsOpen, Asked
  <2> QED
    BY <2>1, <2>2, <2>3, <2>4, <2>5 DEF Inv
<1>3. CASE AskFails \/ Hang
  <2>1. TypeOK'
    BY <1>3 DEF TypeOK, AskFails, Hang, Asking, Raise
  <2>2. Asked'
    BY <1>3 DEF AskFails, Hang, Asking, Raise, Asked
  <2>3. NotStarted'
    BY <1>3 DEF AskFails, Hang, Asking, Raise, NotStarted, Asked
  <2>4. ASSUME NEW r \in Ports PROVE Books(r)'
    BY <1>3 DEF TypeOK, AskFails, Hang, Asking, Raise, Books, IsOpen, Asked, NotStarted
  <2>5. Summed'
    BY <1>3 DEF TypeOK, AskFails, Hang, Asking, Raise, Summed, NothingMissed, Returned
  <2> QED
    BY <2>1, <2>2, <2>3, <2>4, <2>5 DEF Inv
<1>4. CASE StartClient
  <2>1. TypeOK'
    BY <1>4 DEF TypeOK, StartClient
  <2>2. Asked'
    BY <1>4 DEF StartClient, Asked
  <2>3. NotStarted'
    BY <1>4 DEF StartClient, NotStarted, Asked
  <2>4. ASSUME NEW r \in Ports PROVE Books(r)'
    BY <1>4 DEF TypeOK, StartClient, Books, IsOpen, Asked, NotStarted
  <2>5. Summed'
    BY <1>4 DEF TypeOK, StartClient, Summed, NothingMissed, Returned
  <2> QED
    BY <2>1, <2>2, <2>3, <2>4, <2>5 DEF Inv
<1>5. CASE RunTest
  <2>1. TypeOK'
    BY <1>5 DEF TypeOK, RunTest, Sent
  <2>2. Asked'
    BY <1>5 DEF RunTest, Sent, Asked
  <2>3. NotStarted'
    BY <1>5 DEF RunTest, Sent, NotStarted, Asked
  <2>4. ASSUME NEW r \in Ports PROVE Books(r)'
    BY <1>5 DEF TypeOK, RunTest, Sent, Books, IsOpen, Asked, NotStarted
  <2>5. Summed'
    BY <1>5 DEF TypeOK, RunTest, Sent, Summed, NothingMissed, Returned
  <2> QED
    BY <2>1, <2>2, <2>3, <2>4, <2>5 DEF Inv
<1>6. CASE NoSample
  <2>1. TypeOK'
    BY <1>6 DEF TypeOK, NoSample, Raise
  <2>2. Asked'
    BY <1>6 DEF NoSample, Raise, Asked
  <2>3. NotStarted'
    BY <1>6 DEF NoSample, Raise, NotStarted, Asked
  <2>4. ASSUME NEW r \in Ports PROVE Books(r)'
    BY <1>6 DEF TypeOK, NoSample, Raise, Books, IsOpen, Asked, NotStarted
  <2>5. Summed'
    BY <1>6 DEF TypeOK, NoSample, Raise, Summed, NothingMissed, Returned
  <2> QED
    BY <2>1, <2>2, <2>3, <2>4, <2>5 DEF Inv
<1>7. CASE Check
  <2>1. TypeOK'
    BY <1>7 DEF TypeOK, Check, AllRunning
  <2>2. Asked'
    BY <1>7 DEF Check, AllRunning, Asked
  <2>3. NotStarted'
    BY <1>7 DEF Check, AllRunning, NotStarted, Asked
  <2>4. ASSUME NEW r \in Ports PROVE Books(r)'
    BY <1>7 DEF TypeOK, Check, AllRunning, Books, IsOpen, Asked, NotStarted
  <2>5. Summed'
    BY <1>7 DEF TypeOK, Check, AllRunning, Summed, NothingMissed, Returned
  <2> QED
    BY <2>1, <2>2, <2>3, <2>4, <2>5 DEF Inv
<1>8. CASE CheckFails
  <2>1. TypeOK'
    BY <1>8 DEF TypeOK, CheckFails, Raise
  <2>2. Asked'
    BY <1>8 DEF CheckFails, Raise, Asked
  <2>3. NotStarted'
    BY <1>8 DEF CheckFails, Raise, NotStarted, Asked
  <2>4. ASSUME NEW r \in Ports PROVE Books(r)'
    BY <1>8 DEF TypeOK, CheckFails, Raise, Books, IsOpen, Asked, NotStarted
  <2>5. Summed'
    BY <1>8 DEF TypeOK, CheckFails, Raise, Summed, NothingMissed, Returned
  <2> QED
    BY <2>1, <2>2, <2>3, <2>4, <2>5 DEF Inv
<1>9. CASE Get
  <2>0. /\ HandlerGet(at) = spans_received[at] - baseline[at]
        /\ HandlerGet(at) \in Nat
        /\ credit[at] + HandlerGet(at) \in Nat
    BY DEF HandlerGet, Books, TypeOK
  <2>a. credit' \in Counts
    BY <1>9, <2>0, AddFacts DEF Get, TypeOK
  <2>b. /\ mark' \in Counts
        /\ \A r \in Ports : mark'[r] = IF r = at THEN spans_received[r] ELSE mark[r]
    <3>1. mark' = [mark EXCEPT ![at] = spans_received[at]]
      BY <1>9 DEF Get
    <3>2. mark \in Counts /\ spans_received[at] \in Nat /\ at \in Ports
      BY DEF TypeOK
    <3> QED
      BY <3>1, <3>2 DEF Counts
  <2>1. TypeOK'
    <3>1. got' \in Nat /\ owed' \in Nat
      BY <1>9, <2>0 DEF Get, TypeOK
    <3>2. result' \in [spans_sent : Nat, spans_received : Nat]
      BY <1>9, <3>1 DEF Get, TypeOK
    <3>3. at' \in Ports
      BY <1>9 DEF Get, TypeOK
    <3> QED
      BY <1>9, <2>a, <2>b, <3>1, <3>2, <3>3 DEF Get, TypeOK
  <2>2. Asked'
    BY <1>9 DEF Get, HandlerGet, Add, Last, Asked
  <2>3. NotStarted'
    BY <1>9 DEF Get, HandlerGet, Add, Last, NotStarted, Asked
  <2>4. ASSUME NEW r \in Ports PROVE Books(r)'
    BY <1>9, <2>b DEF TypeOK, Get, Last, Books, IsOpen, Asked, NotStarted
  <2>5. Summed'
    BY <1>9, <2>0 DEF TypeOK, Get, Last, Summed, NothingMissed,
                   Returned, Books, IsOpen, Asked
  <2> QED
    BY <2>1, <2>2, <2>3, <2>4, <2>5 DEF Inv
<1>10. CASE FinalReset
  <2>0. /\ baseline' \in Counts
        /\ \A r \in Ports : baseline'[r] = IF r = at THEN spans_received[r] ELSE baseline[r]
    BY <1>10, ResetFacts, UpdateFacts DEF FinalReset, TypeOK
  <2>1. TypeOK'
    BY <1>10, <2>0 DEF TypeOK, FinalReset
  <2>2. Asked'
    BY <1>10 DEF FinalReset, HandlerReset, HandlerGet, Last, Asked
  <2>3. NotStarted'
    BY <1>10 DEF FinalReset, HandlerReset, HandlerGet, Last, NotStarted, Asked
  <2>4. ASSUME NEW r \in Ports PROVE Books(r)'
    BY <1>10, <2>0 DEF TypeOK, FinalReset, Last, Books, IsOpen, Asked, NotStarted
  <2>5. Summed'
    BY <1>10 DEF TypeOK, FinalReset, HandlerReset, HandlerGet, Last, Summed, NothingMissed,
                   Returned, Books, IsOpen, Asked
  <2> QED
    BY <2>1, <2>2, <2>3, <2>4, <2>5 DEF Inv
<1>11. CASE Shutdown
  <2>1. TypeOK'
    BY <1>11 DEF TypeOK, Shutdown
  <2>2. Asked'
    BY <1>11 DEF Shutdown, Asked
  <2>3. NotStarted'
    BY <1>11 DEF Shutdown, NotStarted, Asked
  <2>4. ASSUME NEW r \in Ports PROVE Books(r)'
    BY <1>11 DEF TypeOK, Shutdown, Books, IsOpen, Asked, NotStarted
  <2>5. Summed'
    BY <1>11 DEF TypeOK, Shutdown, Summed, NothingMissed, Returned
  <2> QED
    BY <2>1, <2>2, <2>3, <2>4, <2>5 DEF Inv
<1>12. CASE Start
  <2>1. TypeOK'
    BY <1>12 DEF TypeOK, Start
  <2>2. Asked'
    BY <1>12 DEF Start, Asked
  <2>3. NotStarted'
    BY <1>12 DEF Start, NotStarted, Asked
  <2>4. ASSUME NEW r \in Ports PROVE Books(r)'
    BY <1>12 DEF TypeOK, Start, Books, IsOpen, Asked, NotStarted
  <2>5. Summed'
    BY <1>12 DEF TypeOK, Start, Summed, NothingMissed, Returned
  <2> QED
    BY <2>1, <2>2, <2>3, <2>4, <2>5 DEF Inv
<1>13. CASE Generate
  <2>1. TypeOK'
    BY <1>13 DEF TypeOK, Generate
  <2>2. Asked'
    BY <1>13 DEF Generate, Asked
  <2>3. NotStarted'
    BY <1>13 DEF Generate, NotStarted, Asked
  <2>4. ASSUME NEW r \in Ports PROVE Books(r)'
    BY <1>13 DEF TypeOK, Generate, Books, IsOpen, Asked, NotStarted
  <2>5. Summed'
    BY <1>13 DEF TypeOK, Generate, Summed, NothingMissed, Returned
  <2> QED
    BY <2>1, <2>2, <2>3, <2>4, <2>5 DEF Inv
<1>14. CASE ClientExit
  <2>1. TypeOK'
    BY <1>14 DEF TypeOK, ClientExit
  <2>2. Asked'
    BY <1>14 DEF ClientExit, Asked
  <2>3. NotStarted'
    BY <1>14 DEF ClientExit, NotStarted, Asked
  <2>4. ASSUME NEW r \in Ports PROVE Books(r)'
    BY <1>14 DEF TypeOK, ClientExit, Books, IsOpen, Asked, NotStarted
  <2>5. Summed'
    BY <1>14 DEF TypeOK, ClientExit, Summed, NothingMissed, Returned
  <2> QED
    BY <2>1, <2>2, <2>3, <2>4, <2>5 DEF Inv
<1>15. ASSUME NEW s \in Ports, Crash(s) PROVE Inv'
  <2>0. /\ flight' \in Counts /\ stray' \in Counts
        /\ flight = Zero => flight' = Zero
    <3>1. /\ flight' = [flight EXCEPT ![s] = 0]
          /\ stray' = [stray EXCEPT ![s] = 0]
      BY <1>15 DEF Crash
    <3>2. flight' \in Counts /\ stray' \in Counts
      BY <3>1, UpdateFacts DEF TypeOK
    <3>3. flight = Zero => flight' = Zero
      BY <3>1 DEF Zero
    <3> QED
      BY <3>2, <3>3
  <2>1. TypeOK'
    BY <1>15, <2>0 DEF TypeOK, Crash
  <2>2. Asked'
    BY <1>15 DEF Crash, Asked
  <2>3. NotStarted'
    BY <1>15, <2>0 DEF Crash, NotStarted, Asked
  <2>4. ASSUME NEW r \in Ports PROVE Books(r)'
    BY <1>15 DEF TypeOK, Crash, Books, IsOpen, Asked, NotStarted
  <2>5. Summed'
    BY <1>15 DEF TypeOK, Crash, Summed, NothingMissed, Returned
  <2> QED
    BY <2>1, <2>2, <2>3, <2>4, <2>5 DEF Inv
<1>16. ASSUME NEW s \in Ports, Send(s) PROVE Inv'
  <2>0. flight' \in Counts
    <3>1. flight' = Add(flight, s, 1)
      BY <1>16 DEF Send
    <3> QED
      BY <3>1, AddFacts DEF TypeOK
  <2>1. TypeOK'
    BY <1>16, <2>0 DEF TypeOK, Send
  <2>2. Asked'
    BY <1>16 DEF Send, Add, Asked
  <2>3. NotStarted'
    BY <1>16 DEF Send, Add, NotStarted, Asked
  <2>4. ASSUME NEW r \in Ports PROVE Books(r)'
    BY <1>16 DEF TypeOK, Send, Add, Books, IsOpen, Asked, NotStarted
  <2>5. Summed'
    BY <1>16 DEF TypeOK, Send, Add, Summed, NothingMissed, Returned
  <2> QED
    BY <2>1, <2>2, <2>3, <2>4, <2>5 DEF Inv
<1>17. ASSUME NEW s \in Ports, Resend(s) PROVE Inv'
  <2>0. flight' \in Counts
    <3>1. flight' = Add(flight, s, 1)
      BY <1>17 DEF Resend
    <3> QED
      BY <3>1, AddFacts DEF TypeOK
  <2>1. TypeOK'
    BY <1>17, <2>0 DEF TypeOK, Resend
  <2>2. Asked'
    BY <1>17 DEF Resend, Add, Asked
  <2>3. NotStarted'
    BY <1>17 DEF Resend, Add, NotStarted, Asked
  <2>4. ASSUME NEW r \in Ports PROVE Books(r)'
    BY <1>17 DEF TypeOK, Resend, Add, Books, IsOpen, Asked, NotStarted
  <2>5. Summed'
    BY <1>17 DEF TypeOK, Resend, Add, Summed, NothingMissed, Returned
  <2> QED
    BY <2>1, <2>2, <2>3, <2>4, <2>5 DEF Inv
<1>18. ASSUME NEW s \in Ports, Deliver(s) PROVE Inv'
  <2>0. flight' \in Counts
    BY <1>18, SubtractFacts DEF Deliver, TypeOK
  <2>a. /\ spans_received' \in Counts
        /\ \A r \in Ports : spans_received'[r] = IF r = s THEN spans_received[s] + 1
                                                        ELSE spans_received[r]
    <3>1. spans_received' = Add(spans_received, s, 1)
      BY <1>18 DEF Deliver
    <3>2. spans_received \in Counts
      BY DEF TypeOK
    <3> QED
      BY <3>1, <3>2 DEF Add, Counts
  <2>b. /\ own' \in Counts
        /\ \A r \in Ports : own'[r] = IF r = s THEN own[s] + 1 ELSE own[r]
    <3>1. own' = Add(own, s, 1)
      BY <1>18 DEF Deliver
    <3>2. own \in Counts
      BY DEF TypeOK
    <3> QED
      BY <3>1, <3>2 DEF Add, Counts
  <2>1. TypeOK'
    BY <1>18, <2>0, <2>a, <2>b DEF TypeOK, Deliver
  <2>2. Asked'
    BY <1>18 DEF Deliver, Add, Asked
  <2>3. NotStarted'
    BY <1>18 DEF Deliver, Add, NotStarted, Asked
  <2>4. ASSUME NEW r \in Ports PROVE Books(r)'
    BY <1>18, <2>a, <2>b DEF TypeOK, Deliver, Books, IsOpen
  <2>5. Summed'
    BY <1>18 DEF TypeOK, Deliver, Add, Summed, NothingMissed, Returned
  <2> QED
    BY <2>1, <2>2, <2>3, <2>4, <2>5 DEF Inv
<1>19. ASSUME NEW s \in Ports, DeliverStray(s) PROVE Inv'
  <2>0. stray' \in Counts
    BY <1>19, SubtractFacts DEF DeliverStray, TypeOK
  <2>a. /\ spans_received' \in Counts
        /\ \A r \in Ports : spans_received'[r] = IF r = s THEN spans_received[s] + 1
                                                        ELSE spans_received[r]
    <3>1. spans_received' = Add(spans_received, s, 1)
      BY <1>19 DEF DeliverStray
    <3>2. spans_received \in Counts
      BY DEF TypeOK
    <3> QED
      BY <3>1, <3>2 DEF Add, Counts
  <2>1. TypeOK'
    BY <1>19, <2>0, <2>a DEF TypeOK, DeliverStray
  <2>2. Asked'
    BY <1>19 DEF DeliverStray, Add, Asked
  <2>3. NotStarted'
    BY <1>19 DEF DeliverStray, Add, NotStarted, Asked
  <2>4. ASSUME NEW r \in Ports PROVE Books(r)'
    BY <1>19, <2>a DEF TypeOK, DeliverStray, Books, IsOpen
  <2>5. Summed'
    BY <1>19 DEF TypeOK, DeliverStray, Add, Summed, NothingMissed, Returned
  <2> QED
    BY <2>1, <2>2, <2>3, <2>4, <2>5 DEF Inv
<1>20. ASSUME NEW s \in Ports, Lose(s) PROVE Inv'
  <2>0. flight' \in Counts /\ stray' \in Counts
    BY <1>20, SubtractFacts DEF Lose, TypeOK
  <2>1. TypeOK'
    BY <1>20, <2>0 DEF TypeOK, Lose
  <2>2. Asked'
    BY <1>20 DEF Lose, Add, Asked
  <2>3. NotStarted'
    BY <1>20 DEF Lose, Add, NotStarted, Asked
  <2>4. ASSUME NEW r \in Ports PROVE Books(r)'
    BY <1>20 DEF TypeOK, Lose, Add, Books, IsOpen, Asked, NotStarted
  <2>5. Summed'
    BY <1>20 DEF TypeOK, Lose, Add, Summed, NothingMissed, Returned
  <2> QED
    BY <2>1, <2>2, <2>3, <2>4, <2>5 DEF Inv
<1>21. CASE UNCHANGED vars
  BY <1>21 DEF Inv, TypeOK, vars, Asked, NotStarted, Books, IsOpen, Summed, NothingMissed, Returned
<1> QED
  BY <1>1, <1>2, <1>3, <1>4, <1>5, <1>6, <1>7, <1>8, <1>9, <1>10, <1>11,
     <1>12, <1>13, <1>14, <1>15, <1>16, <1>17, <1>18, <1>19, <1>20, <1>21
     DEF Next, Controller, Environment

(* The invariant holds throughout a sequence of benchmarks.                *)
LEMMA InvCorrect == Spec => []Inv
BY InvInit, InvStep, PTL DEF Spec

(* The variables keep their types.                                         *)
THEOREM TypeCorrect == Spec => []TypeOK
BY InvCorrect, PTL DEF Inv

(* No baseline passes its counter, also across crashes and restarts.       *)
THEOREM BaselineNeverPasses == Spec => []NeverNegative
<1>1. Inv => NeverNegative
  BY DEF Inv, Books, NeverNegative
<1> QED
  BY <1>1, InvCorrect, PTL

(* A result has every span of its test that a satellite had counted when   *)
(* it was asked (513).                                                     *)
THEOREM ResultsMissNothing == Spec => []NothingMissed
<1>1. Inv => NothingMissed
  BY DEF Inv, Summed
<1> QED
  BY <1>1, InvCorrect, PTL

-----------------------------------------------------------------------------
(* The bookkeeping of benchmark implements the ledger: a get credits all   *)
(* that is open at a satellite, which is nothing that an earlier get took. *)
THEOREM LedgerImplemented == Spec => ImplementsLedger
<1>1. Init => Ledger!Init
  BY DEF Init, Ledger!Init, Settled, Zero, Ledger!Zero
<1>2. Inv /\ [Next]_vars => [Ledger!Next]_(Ledger!vars)
  <2> SUFFICES ASSUME Inv, [Next]_vars
               PROVE  Ledger!Next \/ UNCHANGED Ledger!vars
    BY DEF Ledger!vars
  <2>0. TypeOK /\ Asked /\ \A s \in Ports : Books(s)
    BY DEF Inv
  <2> DEFINE settled == [s \in Ports |-> Settled(s)]
  <2> USE DEF group, process, network, history, call
  <2>a. ASSUME UNCHANGED <<spans_received, baseline, credit, mark>>
        PROVE  UNCHANGED Ledger!vars
    BY <2>a DEF Ledger!vars, Settled
  <2>b. ASSUME NEW s \in Ports, HandlerReset(s),
               UNCHANGED <<spans_received, credit, mark>>
        PROVE  Ledger!Discard(s)
    <3>1. baseline' = [baseline EXCEPT ![s] = spans_received[s]]
      BY <2>0, <2>b, ResetFacts DEF TypeOK
    <3>2. Settled(s)' = spans_received[s]
      BY <2>0, <2>b, <3>1, CountFacts DEF Settled, Books, TypeOK, Counts
    <3>3. \A r \in Ports \ {s} : Settled(r)' = Settled(r)
      BY <2>0, <2>b, <3>1 DEF Settled, TypeOK, Counts
    <3>4. settled' = [settled EXCEPT ![s] = spans_received[s]]
      BY <3>2, <3>3
    <3> QED
      BY <2>b, <3>4 DEF Ledger!Discard
  <2>1. CASE Reset
    BY <2>0, <2>1, <2>b DEF Reset, TypeOK, Ledger!Next
  <2>2. CASE FinalReset
    BY <2>0, <2>2, <2>b DEF FinalReset, TypeOK, Ledger!Next
  <2>3. ASSUME NEW s \in Ports, s = at, Get
        PROVE  Ledger!Credit(s)
    <3>1. /\ mark[s] <= baseline[s]
          /\ baseline[s] <= spans_received[s]
      BY <2>0, <2>3, PortFacts DEF Get, TypeOK, Asked, Books, IsOpen
    <3>2. Settled(s) = baseline[s]
      BY <2>0, <3>1, CountFacts DEF Settled, TypeOK
    <3>3. mark' = [mark EXCEPT ![s] = spans_received[s]] /\ baseline' = baseline
      BY <2>3 DEF Get
    <3>4. Settled(s)' = spans_received[s]
      BY <2>0, <3>1, <3>3, CountFacts DEF Settled, TypeOK, Counts
    <3>5. \A r \in Ports \ {s} : Settled(r)' = Settled(r)
      BY <2>0, <3>3 DEF Settled, TypeOK, Counts
    <3>6. settled' = [settled EXCEPT ![s] = spans_received[s]]
      BY <3>1, <3>4, <3>5
    <3>7. credit' = [credit EXCEPT ![s] = @ + (spans_received[s] - settled[s])]
      BY <2>3, <3>1, <3>2 DEF Get, Add, HandlerGet
    <3> QED
      BY <2>3, <3>6, <3>7 DEF Get, Ledger!Credit
  <2>4. CASE Start
    BY <2>4 DEF Start, Settled, Zero, Ledger!Next, Ledger!Restart, Ledger!Zero
  <2>5. ASSUME NEW s \in Ports, Deliver(s) \/ DeliverStray(s)
        PROVE  Ledger!Next
    <3>1. /\ spans_received' = [spans_received EXCEPT ![s] = @ + 1]
          /\ UNCHANGED <<baseline, credit, mark>>
      BY <2>5 DEF Deliver, DeliverStray, Add
    <3>2. settled' = settled
      BY <3>1 DEF Settled
    <3>3. Ledger!Count(s)
      BY <3>1, <3>2 DEF Ledger!Count
    <3> QED
      BY <3>3 DEF Ledger!Next
  <2>6. ASSUME \/ \E given \in BOOLEAN : Benchmark(given)
               \/ AskFails \/ Hang \/ StartClient \/ RunTest \/ NoSample
               \/ Check \/ CheckFails \/ Shutdown \/ Generate \/ ClientExit
               \/ UNCHANGED vars
               \/ \E s \in Ports : Crash(s) \/ Send(s) \/ Resend(s) \/ Lose(s)
        PROVE  UNCHANGED <<spans_received, baseline, credit, mark>>
    BY <2>6 DEF Benchmark, AskFails, Hang, StartClient, RunTest, NoSample, Check,
                CheckFails, Shutdown, Generate, ClientExit, Crash, Send, Resend,
                Lose, vars
  <2> QED
    <3>1. Get => Ledger!Next
      BY <2>0, <2>3 DEF TypeOK, Ledger!Next
    <3> QED
      BY <2>1, <2>2, <3>1, <2>4, <2>5, <2>6, <2>a DEF Next, Controller, Environment
<1> QED
  BY <1>1, <1>2, InvCorrect, PTL DEF Spec, ImplementsLedger, Ledger!Spec

-----------------------------------------------------------------------------
(* Spans at an open satellite that are not of this test: counted since its *)
(* reset, or still on their way from earlier tests.                        *)
Late(s) == IF IsOpen(s) THEN spans_received[s] - baseline[s] - own[s] + stray[s] ELSE 0

LateSum == SumOver([s \in Ports |-> Late(s)], Ports)

(* What a result has beyond the spans of its test was astray at the reset. *)
LateBound ==
    /\ pc \in {"reset", "start", "run", "check"} => LateSum <= strayed
    /\ pc = "get" => got + LateSum <= owed + strayed
    /\ pc = "final_reset" \/ Returned => result.spans_received <= owed + strayed

(* This test has asked satellite s, or asks none any more.                 *)
IsAsked(s) == \/ pc = "get" /\ s < at
              \/ pc \in {"final_reset", "hung", "idle"}

(* Spans of this test that s has or will have when it is asked.            *)
Held(s) == flight[s] + IF IsAsked(s) THEN 0 ELSE own[s]

HeldSum == SumOver([s \in Ports |-> Held(s)], Ports)

(* A span generated or sent again is at one place only: owed to the result,*)
(* at a satellite, on its way, or in the tracer's buffer.                  *)
OwedBound == owed + HeldSum + buffered <= generated + resent

(* The client runs while its test waits for it, and leaves no span behind  *)
(* in its tracer.                                                          *)
ClientWaitedFor == /\ client = "running" => pc = "run"
                   /\ client # "running" => buffered = 0

(* Once all is quiet it stays so, and a reset leaves zero.                 *)
StaysQuiet ==
    quiet => /\ flight = Zero /\ stray = Zero
             /\ pc \in {"get", "final_reset", "hung", "idle"}
             /\ pc = "final_reset" => \A s \in Ports : s < at => HandlerGet(s) = 0
             /\ Returned => \A s \in Ports : HandlerGet(s) = 0

-----------------------------------------------------------------------------
(* The group is finite.                                                    *)
LEMMA PortsFinite == IsFiniteSet(Ports)
BY BenchmarkAssumption, FS_Interval DEF Ports

(* The client's part of the books is kept by every step.                   *)
LEMMA ClientCorrect == Spec => []ClientWaitedFor
<1>1. Init => ClientWaitedFor
  BY DEF Init, ClientWaitedFor
<1>2. Inv /\ ClientWaitedFor /\ [Next]_vars => ClientWaitedFor'
  <2> SUFFICES ASSUME Inv, ClientWaitedFor, [Next]_vars
               PROVE  ClientWaitedFor'
    OBVIOUS
  <2> USE DEF ClientWaitedFor, group, process, network, history, call
  <2>1. ASSUME NEW given \in BOOLEAN, Benchmark(given) PROVE ClientWaitedFor'
    BY <2>1 DEF Benchmark
  <2>2. CASE Controller
    BY <2>2 DEF Controller, Reset, AskFails, Hang, Asking, StartClient, RunTest,
                NoSample, Check, CheckFails, Get, FinalReset, Raise, Inv, NotStarted
  <2>3. CASE Shutdown \/ Start
    BY <2>3 DEF Shutdown, Start
  <2>4. CASE Environment
    BY <2>4 DEF Environment, Generate, ClientExit, Crash, Send, Resend, Deliver,
                DeliverStray, Lose
  <2>5. CASE UNCHANGED vars
    BY <2>5 DEF vars
  <2> QED
    BY <2>1, <2>2, <2>3, <2>4, <2>5 DEF Next
<1> QED
  BY <1>1, <1>2, InvCorrect, PTL DEF Spec

-----------------------------------------------------------------------------
(* What is added up about late spans consists of natural numbers.          *)
LateTyped == /\ \A s \in Ports : Late(s) \in Nat
             /\ LateSum \in Nat
             /\ owed \in Nat /\ strayed \in Nat /\ got \in Nat
             /\ result.spans_received \in Nat

(* The counters and the books make them so.                                *)
LEMMA LateFacts == Inv => LateTyped
<1> SUFFICES ASSUME Inv PROVE LateTyped
  OBVIOUS
<1>1. \A s \in Ports : Late(s) \in Nat
  BY CountFacts DEF Inv, TypeOK, Books, Late
<1>2. LateSum \in Nat
  <2> DEFINE f == [s \in Ports |-> Late(s)]
  <2>1. \A s \in Ports : f[s] \in Nat
    BY <1>1
  <2> HIDE DEF f
  <2>2. SumOver(f, Ports) \in Nat
    BY <2>1, PortsFinite, SumType
  <2> QED
    BY <2>2 DEF LateSum, f
<1> QED
  BY <1>1, <1>2 DEF Inv, TypeOK, LateTyped

(* Fewer late spans at each satellite are fewer in all.                    *)
LEMMA LateSumShrinks ==
    ASSUME Inv, Inv', \A s \in Ports : Late(s)' <= Late(s)
    PROVE  LateSum' <= LateSum
<1> DEFINE f == [s \in Ports |-> Late(s)]
           g == [s \in Ports |-> Late(s)']
<1>0. LateTyped /\ LateTyped'
  BY LateFacts, PTL
<1>1. \A s \in Ports : g[s] \in Nat /\ f[s] \in Nat /\ g[s] <= f[s]
  BY <1>0 DEF LateTyped
<1>2. SumOver(g, Ports) <= SumOver(f, Ports)
  <2> HIDE DEF f, g
  <2> QED
    BY <1>1, PortsFinite, SumBelow
<1> QED
  BY <1>2 DEF LateSum

(* The late spans at one satellite change the sum by what they change.     *)
LEMMA LateSumChanges ==
    ASSUME Inv, Inv', NEW r \in Ports, \A s \in Ports \ {r} : Late(s)' = Late(s)
    PROVE  LateSum' = LateSum - Late(r) + Late(r)'
<1> DEFINE f == [s \in Ports |-> Late(s)]
           g == [s \in Ports |-> Late(s)']
<1>0. LateTyped /\ LateTyped'
  BY LateFacts, PTL
<1>1. /\ \A s \in Ports : f[s] \in Nat /\ g[s] \in Nat
      /\ \A s \in Ports \ {r} : f[s] = g[s]
      /\ f[r] = Late(r) /\ g[r] = Late(r)'
  BY <1>0 DEF LateTyped
<1>2. SumOver(g, Ports) = SumOver(f, Ports) - f[r] + g[r]
  <2> HIDE DEF f, g
  <2> QED
    BY <1>1, PortsFinite, SumChange
<1> QED
  BY <1>1, <1>2 DEF LateSum

(* A step that moves no loop and adds no late span keeps the bound.        *)
LEMMA LateStep ==
    ASSUME Inv, Inv', LateBound,
           UNCHANGED <<pc, satellites, got, outcome, result, strayed, owed>>,
           \A s \in Ports : Late(s)' <= Late(s)
    PROVE  LateBound'
<1>0. LateTyped /\ LateTyped'
  BY LateFacts, PTL
<1>1. LateSum' <= LateSum
  BY LateSumShrinks
<1>2. /\ LateSum \in Nat /\ LateSum' \in Nat
      /\ owed \in Nat /\ strayed \in Nat /\ got \in Nat
  BY <1>0 DEF LateTyped
<1>3. /\ pc' = pc /\ satellites' = satellites /\ got' = got /\ outcome' = outcome
      /\ result' = result /\ strayed' = strayed /\ owed' = owed
  OBVIOUS
<1>4. \A n \in Nat : n <= LateSum =>
          /\ pc \in {"reset", "start", "run", "check"} => n <= strayed
          /\ pc = "get" => got + n <= owed + strayed
  BY <1>2 DEF LateBound
<1>5. (pc = "final_reset" \/ Returned => result.spans_received <= owed + strayed)'
  BY <1>3 DEF LateBound, Returned
<1>6. /\ pc \in {"reset", "start", "run", "check"} => LateSum' <= strayed
      /\ pc = "get" => got + LateSum' <= owed + strayed
  BY <1>1, <1>2, <1>4
<1> QED
  BY <1>3, <1>5, <1>6 DEF LateBound

(* Nothing is late, as while no satellite is open.                         *)
NoLate == \A s \in Ports : Late(s) = 0

(* Then there is nothing to add up.                                        *)
LEMMA NoneLate == NoLate => LateSum = 0
<1> DEFINE f == [s \in Ports |-> Late(s)]
<1> SUFFICES ASSUME NoLate PROVE LateSum = 0
  OBVIOUS
<1>1. \A s \in Ports : f[s] = 0
  BY DEF NoLate
<1> HIDE DEF f
<1>2. SumOver(f, Ports) = 0
  BY <1>1, PortsFinite, SumZero
<1> QED
  BY <1>2 DEF LateSum, f

(* Each step keeps the bound on late spans: a reset takes note of what is  *)
(* astray, a get takes late spans with those of the test.                  *)
LEMMA LateCorrect == Spec => []LateBound
<1>1. Init => LateBound
  BY DEF Init, LateBound, Returned
<1>2. Inv /\ Inv' /\ LateBound /\ [Next]_vars => LateBound'
  <2> SUFFICES ASSUME Inv, Inv', LateBound, [Next]_vars
               PROVE  LateBound'
    OBVIOUS
  <2>0. LateTyped /\ LateTyped' /\ TypeOK /\ \A s \in Ports : Books(s)
    BY LateFacts, PTL DEF Inv
  <2> USE DEF group, process, network, history, call
  <2>a. ASSUME \/ pc' = "idle" /\ outcome' = "raised"
               \/ pc' = "hung"
        PROVE  LateBound'
    BY <2>a DEF LateBound, Returned
  <2>1. ASSUME NEW given \in BOOLEAN, Benchmark(given) PROVE LateBound'
    <3>1. /\ pc' = IF given /\ up THEN "reset" ELSE "start"
          /\ at' = 1 /\ satellites' = given /\ up' = up
          /\ outcome' = "none" /\ strayed' = 0
      BY <2>1 DEF Benchmark
    <3>2. NoLate'
      BY <3>1, PortFacts DEF Late, IsOpen, NoLate
    <3>3. (LateSum = 0)'
      BY <3>2, NoneLate, PTL
    <3> QED
      BY <3>1, <3>3 DEF LateBound, Returned
  <2>2. CASE Reset
    <3>0. PICK r \in Ports : r = at
      BY <2>0 DEF TypeOK
    <3>1. /\ own = Zero /\ pc = "reset" /\ satellites /\ up
          /\ HandlerReset(r) /\ strayed' = strayed + stray[r]
      BY <2>2, <3>0 DEF Reset, Inv, NotStarted, Asked
    <3>2. baseline' = [baseline EXCEPT ![r] = spans_received[r]]
      BY <2>0, <3>1, ResetFacts DEF TypeOK
    <3>3. \A s \in Ports : baseline'[s] = IF s = r THEN spans_received[r] ELSE baseline[s]
      BY <2>0, <3>2, CountFacts, UpdateFacts DEF TypeOK
    <3>4. \A s \in Ports : IsOpen(s)' <=> s = r \/ IsOpen(s)
      BY <2>0, <2>2, <3>0, <3>1, PortFacts DEF Reset, IsOpen
    <3>5. Late(r)' = stray[r]
      BY <2>0, <2>2, <3>1, <3>3, <3>4, ZeroFacts, CountFacts DEF Reset, Late, TypeOK
    <3>6. \A s \in Ports \ {r} : Late(s)' = Late(s)
      BY <2>0, <2>2, <3>3, <3>4 DEF Reset, Late
    <3>7. Late(r) = 0
      BY <3>0, <3>1, PortFacts DEF Late, IsOpen
    <3>8. LateSum' = LateSum - Late(r) + Late(r)'
      BY <3>6, LateSumChanges
    <3>9. LateSum' = LateSum + stray[r] /\ LateSum + stray[r] <= strayed + stray[r]
      BY <2>0, <3>1, <3>5, <3>7, <3>8, CountFacts DEF LateTyped, LateBound, TypeOK
    <3> QED
      BY <2>2, <3>1, <3>9 DEF Reset, LateBound, Returned
  <2>3. CASE AskFails \/ Hang \/ NoSample \/ CheckFails
    BY <2>3, <2>a DEF AskFails, Hang, NoSample, CheckFails, Raise
  <2>4. CASE StartClient
    <3>1. \A s \in Ports : Late(s)' = Late(s)
      BY <2>4 DEF StartClient, Late, IsOpen
    <3>2. LateSum' = LateSum
      BY <3>1 DEF LateSum
    <3> QED
      BY <2>4, <3>2 DEF StartClient, LateBound, Returned
  <2>5. CASE RunTest
    <3>1. CASE satellites
      <4>1. \A s \in Ports : Late(s)' = Late(s)
        BY <2>5, <3>1 DEF RunTest, Late, IsOpen
      <4>2. LateSum' = LateSum
        BY <4>1 DEF LateSum
      <4> QED
        BY <2>5, <3>1, <4>2 DEF RunTest, LateBound, Returned
    <3>2. CASE ~satellites
      BY <2>5, <3>2 DEF RunTest, LateBound, Returned
    <3> QED
      BY <3>1, <3>2
  <2>6. CASE Check
    <3>1. \A s \in Ports : Late(s)' = Late(s)
      BY <2>6, PortFacts DEF Check, Late, IsOpen
    <3>2. LateSum' = LateSum
      BY <3>1 DEF LateSum
    <3>3. pc' = "get" /\ got' = 0 /\ owed' = 0 /\ strayed' = strayed /\ LateSum <= strayed
      BY <2>6 DEF Check, LateBound
    <3>4. 0 + LateSum <= 0 + strayed
      BY <2>0, <3>3 DEF LateTyped
    <3> QED
      BY <3>2, <3>3, <3>4 DEF LateBound, Returned
  <2>7. CASE Get
    <3>0. PICK r \in Ports : r = at
      BY <2>0 DEF TypeOK
    <3>1. /\ pc = "get" /\ satellites /\ up
          /\ got' = got + HandlerGet(r) /\ owed' = owed + own[r]
          /\ strayed' = strayed
      BY <2>7, <3>0 DEF Get, Inv, Asked
    <3>2. \A s \in Ports : IsOpen(s)' <=> s # r /\ IsOpen(s)
      BY <2>0, <2>7, <3>0, <3>1, PortFacts DEF Get, IsOpen
    <3>3. Late(r)' = 0
      BY <3>2 DEF Late
    <3>4. Late(r) = HandlerGet(r) - own[r] + stray[r]
      <4>1. IsOpen(r)
        BY <3>0, <3>1, PortFacts DEF IsOpen
      <4> QED
        BY <4>1 DEF Late, HandlerGet
    <3>5. \A s \in Ports \ {r} : Late(s)' = Late(s)
      BY <2>7, <3>2 DEF Get, Late
    <3>6. LateSum' = LateSum - Late(r) + Late(r)'
      BY <3>5, LateSumChanges
    <3>7. /\ HandlerGet(r) \in Int /\ own[r] \in Nat /\ stray[r] \in Nat
          /\ got + LateSum <= owed + strayed
      BY <2>0, <3>1, CountFacts DEF HandlerGet, TypeOK, LateBound
    <3>8. LateSum' = LateSum - (HandlerGet(r) - own[r] + stray[r])
      BY <2>0, <3>3, <3>4, <3>6, <3>7 DEF LateTyped
    <3>9. \A n \in Nat : n = LateSum - (HandlerGet(r) - own[r] + stray[r])
              => got + HandlerGet(r) + n <= owed + own[r] + strayed
      BY <2>0, <3>7 DEF LateTyped
    <3>10. got' + LateSum' <= owed' + strayed'
      BY <2>0, <3>1, <3>8, <3>9 DEF LateTyped
    <3>11. CASE Last(at)
      <4>1. /\ pc' = "final_reset" /\ result' = [result EXCEPT !.spans_received = got']
        BY <2>7, <3>11 DEF Get
      <4>2. result'.spans_received = got'
        BY <2>0, <4>1 DEF TypeOK
      <4>3. \A n, g, o, s \in Nat : g + n <= o + s => g <= o + s
        OBVIOUS
      <4>4. got' <= owed' + strayed'
        BY <2>0, <3>10, <4>3 DEF LateTyped
      <4> QED
        BY <4>1, <4>2, <4>4 DEF LateBound, Returned
    <3>12. CASE ~Last(at)
      <4>1. pc' = "get"
        BY <2>7, <3>12 DEF Get
      <4> QED
        BY <3>10, <4>1 DEF LateBound, Returned
    <3> QED
      BY <3>11, <3>12
  <2>8. CASE FinalReset
    BY <2>8 DEF FinalReset, LateBound, Returned
  <2>9. CASE Shutdown
    BY <2>9 DEF Shutdown, LateBound, Returned
  <2>10. CASE Start
    BY <2>10 DEF Start, LateBound, Returned
  <2>11. CASE Generate \/ ClientExit
    <3>1. \A s \in Ports : Late(s)' = Late(s)
      BY <2>11 DEF Generate, ClientExit, Late, IsOpen
    <3> QED
      BY <2>0, <2>11, <3>1, LateStep DEF Generate, ClientExit, LateTyped
  <2>12. ASSUME NEW s \in Ports, Send(s) \/ Resend(s)
         PROVE  LateBound'
    <3>1. \A r \in Ports : Late(r)' = Late(r)
      BY <2>12 DEF Send, Resend, Late, IsOpen
    <3> QED
      BY <2>0, <2>12, <3>1, LateStep DEF Send, Resend, LateTyped
  <2>13. ASSUME NEW s \in Ports, Deliver(s)
         PROVE  LateBound'
    <3>1. \A r \in Ports : Late(r)' = Late(r)
      BY <2>0, <2>13, CountFacts DEF Deliver, Add, Late, IsOpen, TypeOK, Counts
    <3> QED
      BY <2>0, <2>13, <3>1, LateStep DEF Deliver, LateTyped
  <2>14. ASSUME NEW s \in Ports, DeliverStray(s)
         PROVE  LateBound'
    <3>1. \A r \in Ports : Late(r)' = Late(r)
      BY <2>0, <2>14, CountFacts DEF DeliverStray, Add, Late, IsOpen, TypeOK, Counts
    <3> QED
      BY <2>0, <2>14, <3>1, LateStep DEF DeliverStray, LateTyped
  <2>15. ASSUME NEW s \in Ports, Crash(s) \/ Lose(s)
         PROVE  LateBound'
    <3>1. /\ UNCHANGED <<pc, at, satellites, up, baseline, spans_received, own>>
          /\ UNCHANGED <<got, outcome, result, strayed, owed>>
      BY <2>15 DEF Crash, Lose
    <3>2. \A r \in Ports : stray'[r] \in Nat /\ stray'[r] <= stray[r]
      BY <2>0, <2>15 DEF Crash, Lose, Add, TypeOK, Counts
    <3>3. \A r \in Ports : Late(r)' <= Late(r)
      BY <2>0, <3>1, <3>2, CountFacts DEF Late, IsOpen, TypeOK
    <3> QED
      BY <3>1, <3>3, LateStep
  <2>16. CASE UNCHANGED vars
    <3>1. \A s \in Ports : Late(s)' = Late(s)
      BY <2>16 DEF vars, Late, IsOpen
    <3> QED
      BY <2>0, <2>16, <3>1, LateStep DEF vars, LateTyped
  <2> QED
    BY <2>1, <2>2, <2>3, <2>4, <2>5, <2>6, <2>7, <2>8, <2>9, <2>10, <2>11,
       <2>12, <2>13, <2>14, <2>15, <2>16 DEF Next, Controller, Environment
<1> QED
  BY <1>1, <1>2, InvCorrect, PTL DEF Spec
-----------------------------------------------------------------------------
(* What is added up about the spans of this test consists of natural       *)
(* numbers.                                                                *)
HeldTyped == /\ \A s \in Ports : Held(s) \in Nat
             /\ HeldSum \in Nat
             /\ owed \in Nat /\ buffered \in Nat
             /\ generated \in Nat /\ resent \in Nat

(* The types make them so.                                                 *)
LEMMA HeldFacts == Inv => HeldTyped
<1> SUFFICES ASSUME Inv PROVE HeldTyped
  OBVIOUS
<1>1. \A s \in Ports : Held(s) \in Nat
  BY CountFacts DEF Inv, TypeOK, Held
<1>2. HeldSum \in Nat
  <2> DEFINE f == [s \in Ports |-> Held(s)]
  <2>1. \A s \in Ports : f[s] \in Nat
    BY <1>1
  <2> HIDE DEF f
  <2>2. SumOver(f, Ports) \in Nat
    BY <2>1, PortsFinite, SumType
  <2> QED
    BY <2>2 DEF HeldSum, f
<1> QED
  BY <1>1, <1>2 DEF Inv, TypeOK, HeldTyped

(* Fewer spans held for each satellite are fewer in all.                   *)
LEMMA HeldSumShrinks ==
    ASSUME Inv, Inv', \A s \in Ports : Held(s)' <= Held(s)
    PROVE  HeldSum' <= HeldSum
<1> DEFINE f == [s \in Ports |-> Held(s)]
           g == [s \in Ports |-> Held(s)']
<1>0. HeldTyped /\ HeldTyped'
  BY HeldFacts, PTL
<1>1. \A s \in Ports : g[s] \in Nat /\ f[s] \in Nat /\ g[s] <= f[s]
  BY <1>0 DEF HeldTyped
<1>2. SumOver(g, Ports) <= SumOver(f, Ports)
  <2> HIDE DEF f, g
  <2> QED
    BY <1>1, PortsFinite, SumBelow
<1> QED
  BY <1>2 DEF HeldSum

(* What is held for one satellite changes the sum by what it changes.      *)
LEMMA HeldSumChanges ==
    ASSUME Inv, Inv', NEW r \in Ports, \A s \in Ports \ {r} : Held(s)' = Held(s)
    PROVE  HeldSum' = HeldSum - Held(r) + Held(r)'
<1> DEFINE f == [s \in Ports |-> Held(s)]
           g == [s \in Ports |-> Held(s)']
<1>0. HeldTyped /\ HeldTyped'
  BY HeldFacts, PTL
<1>1. /\ \A s \in Ports : f[s] \in Nat /\ g[s] \in Nat
      /\ \A s \in Ports \ {r} : f[s] = g[s]
      /\ f[r] = Held(r) /\ g[r] = Held(r)'
  BY <1>0 DEF HeldTyped
<1>2. SumOver(g, Ports) = SumOver(f, Ports) - f[r] + g[r]
  <2> HIDE DEF f, g
  <2> QED
    BY <1>1, PortsFinite, SumChange
<1> QED
  BY <1>1, <1>2 DEF HeldSum

(* Nothing is held, as at the begin of a test.                             *)
NoneHeld == \A s \in Ports : Held(s) = 0

(* Then there is nothing to add up.                                        *)
LEMMA NoneHeldSum == NoneHeld => HeldSum = 0
<1> DEFINE f == [s \in Ports |-> Held(s)]
<1> SUFFICES ASSUME NoneHeld PROVE HeldSum = 0
  OBVIOUS
<1>1. \A s \in Ports : f[s] = 0
  BY DEF NoneHeld
<1> HIDE DEF f
<1>2. SumOver(f, Ports) = 0
  BY <1>1, PortsFinite, SumZero
<1> QED
  BY <1>2 DEF HeldSum, f

(* A step that holds no more spans keeps the bound, unless it owes or      *)
(* buffers more than it generates or sends again.                          *)
LEMMA OwedStep ==
    ASSUME Inv, Inv', OwedBound,
           \A s \in Ports : Held(s)' <= Held(s),
           owed' + buffered' + generated + resent <= owed + buffered + generated' + resent'
    PROVE  OwedBound'
<1>0. HeldTyped /\ HeldTyped'
  BY HeldFacts, PTL
<1>1. HeldSum' <= HeldSum
  BY HeldSumShrinks
<1>2. \A h, o, b, g, r \in Nat :
          h <= HeldSum /\ o + b + generated + resent <= owed + buffered + g + r
              => o + h + b <= g + r
  BY <1>0 DEF HeldTyped, OwedBound
<1> QED
  BY <1>0, <1>1, <1>2 DEF HeldTyped, OwedBound

(* A step that moves spans of one satellite keeps the bound if what it     *)
(* adds in one place is taken from another, generated or sent again.       *)
LEMMA OwedMove ==
    ASSUME Inv, Inv', OwedBound, NEW p \in Ports,
           \A s \in Ports \ {p} : Held(s)' = Held(s),
           owed' + Held(p)' + buffered' + generated + resent
               <= owed + Held(p) + buffered + generated' + resent'
    PROVE  OwedBound'
<1>0. HeldTyped /\ HeldTyped'
  BY HeldFacts, PTL
<1>1. HeldSum' = HeldSum - Held(p) + Held(p)'
  BY HeldSumChanges
<1>2. \A h, k, o, b, g, r \in Nat :
          /\ h = HeldSum - Held(p) + k
          /\ o + k + b + generated + resent <= owed + Held(p) + buffered + g + r
          => o + h + b <= g + r
  BY <1>0 DEF HeldTyped, OwedBound
<1> QED
  BY <1>0, <1>1, <1>2 DEF HeldTyped, OwedBound

(* Each step keeps every span of the test in at most one place.            *)
LEMMA OwedCorrect == Spec => []OwedBound
<1>1. Init => OwedBound
  <2> SUFFICES ASSUME Init PROVE OwedBound
    OBVIOUS
  <2>1. NoneHeld
    BY ZeroFacts DEF Init, NoneHeld, Held
  <2>2. HeldSum = 0
    BY <2>1, NoneHeldSum
  <2> QED
    BY <2>2 DEF Init, OwedBound
<1>2. /\ Inv /\ Inv' /\ ClientWaitedFor /\ OwedBound /\ [Next]_vars
      => OwedBound'
  <2> SUFFICES ASSUME Inv, Inv', ClientWaitedFor, OwedBound, [Next]_vars
               PROVE  OwedBound'
    OBVIOUS
  <2>0. HeldTyped /\ HeldTyped' /\ TypeOK
    BY HeldFacts, PTL DEF Inv
  <2> USE DEF group, process, network, history, call
  <2>a. ASSUME UNCHANGED <<owed, buffered, generated, resent>>,
               \A s \in Ports : Held(s)' <= Held(s)
        PROVE  OwedBound'
    BY <2>0, <2>a, OwedStep DEF HeldTyped
  <2>1. ASSUME NEW given \in BOOLEAN, Benchmark(given) PROVE OwedBound'
    <3>1. NoneHeld'
      BY <2>1, ZeroFacts DEF Benchmark, NoneHeld, Held
    <3>2. (HeldSum = 0)'
      BY <3>1, NoneHeldSum, PTL
    <3>3. /\ owed' = 0 /\ generated' = 0 /\ resent' = 0
          /\ buffered' = 0
      BY <2>1 DEF Benchmark, ClientWaitedFor
    <3> QED
      BY <3>2, <3>3 DEF OwedBound
  <2>2. CASE Reset \/ StartClient \/ FinalReset \/ Shutdown
    <3>1. \A s \in Ports : Held(s)' <= Held(s)
      <4>1. CASE Shutdown
        BY <2>0, <4>1, ZeroFacts, CountFacts DEF Shutdown, Held, IsAsked, TypeOK
      <4>2. CASE Reset \/ StartClient \/ FinalReset
        BY <2>0, <4>2, CountFacts
           DEF Reset, StartClient, FinalReset, Held, IsAsked, TypeOK
      <4> QED
        BY <2>2, <4>1, <4>2
    <3> QED
      BY <2>2, <2>a, <3>1 DEF Reset, StartClient, FinalReset, Shutdown
  <2>3. CASE AskFails \/ Hang \/ RunTest \/ NoSample \/ CheckFails
    <3>1. \A s \in Ports : Held(s)' <= Held(s)
      BY <2>0, <2>3, CountFacts
         DEF AskFails, Hang, Asking, RunTest, NoSample, CheckFails, Raise, Held, IsAsked, TypeOK
    <3> QED
      BY <2>3, <2>a, <3>1 DEF AskFails, Hang, RunTest, NoSample, CheckFails
  <2>4. CASE Check
    <3>1. \A s \in Ports : Held(s)' <= Held(s)
      BY <2>0, <2>4, PortFacts, CountFacts DEF Check, Held, IsAsked, TypeOK
    <3>2. owed' + buffered' + generated + resent <= owed + buffered + generated' + resent'
      BY <2>0, <2>4 DEF Check, HeldTyped
    <3> QED
      BY <3>1, <3>2, OwedStep
  <2>5. CASE Get
    <3>0. PICK p \in Ports : p = at
      BY <2>0 DEF TypeOK
    <3>1. /\ pc = "get" /\ owed' = owed + own[p]
          /\ UNCHANGED <<buffered, generated, resent, flight, own>>
      BY <2>5, <3>0 DEF Get
    <3>2. \A s \in Ports : IsAsked(s)' <=> s = p \/ IsAsked(s)
      BY <2>0, <2>5, <3>0, PortFacts DEF Get, IsAsked
    <3>3. ~IsAsked(p)
      BY <3>0, <3>1, PortFacts DEF IsAsked
    <3>4. Held(p) = flight[p] + own[p] /\ Held(p)' = flight[p]
      BY <2>0, <3>1, <3>2, <3>3, CountFacts DEF Held, TypeOK
    <3>5. \A s \in Ports \ {p} : Held(s)' = Held(s)
      BY <3>1, <3>2 DEF Held
    <3>6. owed' + Held(p)' + buffered' + generated + resent
              <= owed + Held(p) + buffered + generated' + resent'
      BY <2>0, <3>1, <3>4, CountFacts DEF HeldTyped, TypeOK
    <3> QED
      BY <3>5, <3>6, OwedMove
  <2>6. CASE Start
    <3>1. \A s \in Ports : Held(s)' <= Held(s)
      BY <2>0, <2>6, ZeroFacts, CountFacts DEF Start, Held, IsAsked, TypeOK
    <3> QED
      BY <2>6, <2>a, <3>1 DEF Start
  <2>7. CASE Generate \/ ClientExit
    <3>1. \A s \in Ports : Held(s)' <= Held(s)
      BY <2>0, <2>7 DEF Generate, ClientExit, Held, IsAsked, HeldTyped
    <3>2. owed' + buffered' + generated + resent <= owed + buffered + generated' + resent'
      <4>1. CASE Generate
        <5>1. /\ generated' = generated + 1
              /\ buffered' = buffered \/ buffered' = buffered + 1
              /\ UNCHANGED <<owed, resent>>
          BY <4>1 DEF Generate
        <5>2. /\ owed \in Nat /\ buffered \in Nat
              /\ generated \in Nat /\ resent \in Nat
          BY <2>0 DEF HeldTyped
        <5> QED
          BY <5>1, <5>2
      <4>2. CASE ClientExit
        BY <2>0, <4>2 DEF ClientExit, HeldTyped
      <4> QED
        BY <2>7, <4>1, <4>2
    <3> QED
      BY <3>1, <3>2, OwedStep
  <2>8. ASSUME NEW p \in Ports, Send(p) \/ Resend(p)
        PROVE  OwedBound'
    <3>1. \A s \in Ports : flight'[s] = IF s = p THEN flight[p] + 1 ELSE flight[s]
      <4>1. flight' = Add(flight, p, 1)
        BY <2>8 DEF Send, Resend
      <4>2. flight \in Counts /\ 1 \in Nat
        BY <2>0 DEF TypeOK
      <4>3. \A s \in Ports : Add(flight, p, 1)[s] = IF s = p THEN flight[p] + 1 ELSE flight[s]
        BY <4>2, AddFacts
      <4> QED
        BY <4>1, <4>3
    <3>2. Held(p)' = Held(p) + 1
      BY <2>0, <2>8, <3>1, CountFacts DEF Send, Resend, Held, IsAsked, TypeOK
    <3>3. \A s \in Ports \ {p} : Held(s)' = Held(s)
      BY <2>0, <2>8, <3>1 DEF Send, Resend, Held, IsAsked
    <3>4. owed' + Held(p)' + buffered' + generated + resent
              <= owed + Held(p) + buffered + generated' + resent'
      BY <2>0, <2>8, <3>2 DEF Send, Resend, HeldTyped
    <3> QED
      BY <3>3, <3>4, OwedMove
  <2>9. ASSUME NEW p \in Ports, Deliver(p)
        PROVE  OwedBound'
    <3>1. /\ \A s \in Ports : own'[s] = IF s = p THEN own[p] + 1 ELSE own[s]
          /\ \A s \in Ports : flight'[s] = IF s = p THEN flight[p] - 1 ELSE flight[s]
      BY <2>0, <2>9 DEF Deliver, Add, TypeOK, Counts
    <3>2. \A s \in Ports : Held(s)' <= Held(s)
      BY <2>0, <2>9, <3>1, CountFacts DEF Deliver, Held, IsAsked, TypeOK
    <3> QED
      BY <2>9, <2>a, <3>2 DEF Deliver
  <2>10. ASSUME NEW p \in Ports, DeliverStray(p)
         PROVE  OwedBound'
    <3>1. \A s \in Ports : Held(s)' <= Held(s)
      BY <2>0, <2>10 DEF DeliverStray, Held, IsAsked, HeldTyped
    <3> QED
      BY <2>10, <2>a, <3>1 DEF DeliverStray
  <2>11. ASSUME NEW p \in Ports, Crash(p) \/ Lose(p)
         PROVE  OwedBound'
    <3>1. \A s \in Ports : flight'[s] \in Nat /\ flight'[s] <= flight[s]
      BY <2>0, <2>11 DEF Crash, Lose, Add, TypeOK, Counts
    <3>2. UNCHANGED <<pc, at, own, owed, buffered, generated, resent>>
      BY <2>11 DEF Crash, Lose
    <3>3. \A s \in Ports : Held(s)' <= Held(s)
      BY <2>0, <3>1, <3>2, CountFacts DEF Held, IsAsked, TypeOK
    <3> QED
      BY <2>a, <3>2, <3>3
  <2>12. CASE UNCHANGED vars
    <3>1. \A s \in Ports : Held(s)' <= Held(s)
      BY <2>0, <2>12 DEF vars, Held, IsAsked, HeldTyped
    <3> QED
      BY <2>12, <2>a, <3>1 DEF vars
  <2> QED
    BY <2>1, <2>2, <2>3, <2>4, <2>5, <2>6, <2>7, <2>8, <2>9, <2>10, <2>11, <2>12
       DEF Next, Controller, Environment
<1> QED
  BY <1>1, <1>2, InvCorrect, ClientCorrect, PTL DEF Spec

-----------------------------------------------------------------------------
(* A get that began with nothing in flight ends so: no client runs that    *)
(* could send, and a handler that has been reset says zero.                *)
LEMMA QuietCorrect == Spec => []StaysQuiet
<1>1. Init => StaysQuiet
  BY DEF Init, StaysQuiet
<1>2. Inv /\ ClientWaitedFor /\ StaysQuiet /\ [Next]_vars => StaysQuiet'
  <2> SUFFICES ASSUME Inv, ClientWaitedFor, StaysQuiet, [Next]_vars
               PROVE  StaysQuiet'
    OBVIOUS
  <2>0. TypeOK
    BY DEF Inv
  <2> USE DEF group, process, network, history, call
  <2>1. ASSUME NEW given \in BOOLEAN, Benchmark(given) PROVE StaysQuiet'
    BY <2>1 DEF Benchmark, StaysQuiet
  <2>2. CASE Reset \/ StartClient \/ RunTest \/ NoSample \/ CheckFails
    BY <2>2 DEF Reset, StartClient, RunTest, NoSample, CheckFails, StaysQuiet
  <2>3. CASE AskFails \/ Hang
    BY <2>3 DEF AskFails, Hang, Asking, Raise, StaysQuiet, Returned
  <2>4. CASE Check
    BY <2>4, PortFacts DEF Check, StaysQuiet, Returned
  <2>5. CASE Get
    BY <2>5, PortFacts DEF Get, StaysQuiet, Returned
  <2>6. CASE FinalReset
    <3> SUFFICES ASSUME quiet PROVE StaysQuiet'
      BY <2>6 DEF FinalReset, StaysQuiet
    <3>1. baseline' = [baseline EXCEPT ![at] = spans_received[at]]
      BY <2>0, <2>6, ResetFacts DEF FinalReset, TypeOK
    <3>2. \A s \in Ports : s < at \/ s = at => (HandlerGet(s) = 0)'
      BY <2>0, <2>6, <3>1, CountFacts, UpdateFacts
         DEF FinalReset, StaysQuiet, HandlerGet, TypeOK
    <3>3. CASE Last(at)
      <4>1. \A s \in Ports : s < at \/ s = at
        BY <2>0, <3>3, PortFacts DEF TypeOK
      <4> QED
        BY <2>6, <3>2, <3>3, <4>1 DEF FinalReset, StaysQuiet, Returned
    <3>4. CASE ~Last(at)
      <4>1. \A s \in Ports : s < at + 1 => s < at \/ s = at
        BY <2>0, PortFacts DEF TypeOK
      <4> QED
        BY <2>6, <3>2, <3>4, <4>1 DEF FinalReset, StaysQuiet, Returned
    <3> QED
      BY <3>3, <3>4
  <2>7. CASE Shutdown \/ Start
    BY <2>7 DEF Shutdown, Start, StaysQuiet, Returned, HandlerGet
  <2>8. CASE Generate \/ ClientExit
    BY <2>8 DEF Generate, ClientExit, StaysQuiet, ClientWaitedFor
  <2>9. ASSUME NEW s \in Ports, Send(s) \/ Resend(s)
        PROVE  StaysQuiet'
    BY <2>9 DEF Send, Resend, StaysQuiet, ClientWaitedFor
  <2>10. ASSUME NEW s \in Ports, Deliver(s) \/ DeliverStray(s) \/ Lose(s)
         PROVE  StaysQuiet'
    <3>1. ~(flight = Zero /\ stray = Zero) /\ quiet' = quiet
      BY <2>10, ZeroFacts DEF Deliver, DeliverStray, Lose
    <3> QED
      BY <3>1 DEF StaysQuiet
  <2>11. ASSUME NEW s \in Ports, Crash(s)
         PROVE  StaysQuiet'
    <3>1. [Zero EXCEPT ![s] = 0] = Zero
      BY DEF Zero
    <3> QED
      BY <2>11, <3>1 DEF Crash, StaysQuiet, Returned, HandlerGet
  <2>12. CASE UNCHANGED vars
    BY <2>12 DEF vars, StaysQuiet, Returned, HandlerGet
  <2> QED
    BY <2>1, <2>2, <2>3, <2>4, <2>5, <2>6, <2>7, <2>8, <2>9, <2>10, <2>11, <2>12
       DEF Next, Controller, Environment
<1> QED
  BY <1>1, <1>2, InvCorrect, ClientCorrect, PTL DEF Spec

-----------------------------------------------------------------------------
(* A result has nothing but spans of its own client, those sent twice, and *)
(* those of an earlier client still on their way at its reset (496-499).   *)
THEOREM ResultsHaveNothingForeign == Spec => []NothingForeign
<1>1. Inv /\ LateBound /\ OwedBound => NothingForeign
  <2> SUFFICES ASSUME Inv, LateBound, OwedBound, Returned
               PROVE  result.spans_received <= generated + resent + strayed
    BY DEF NothingForeign
  <2>1. LateTyped /\ HeldTyped
    BY LateFacts, HeldFacts
  <2>2. result.spans_received <= owed + strayed
    BY DEF LateBound
  <2>3. owed + HeldSum + buffered <= generated + resent
    BY DEF OwedBound
  <2> QED
    BY <2>1, <2>2, <2>3 DEF LateTyped, HeldTyped
<1> QED
  BY <1>1, InvCorrect, LateCorrect, OwedCorrect, PTL

(* If all reports had arrived when the get began, the result is exact but  *)
(* for strays and the group's counters are zero afterwards.                *)
THEOREM QuietResultsAreExact == Spec => []QuietIsExact
<1>1. Inv /\ LateBound /\ StaysQuiet => QuietIsExact
  <2> SUFFICES ASSUME Inv, LateBound, StaysQuiet, Returned, quiet
               PROVE  /\ result.spans_received \in owed .. owed + strayed
                      /\ \A s \in Ports : HandlerGet(s) = 0
    BY DEF QuietIsExact
  <2>1. LateTyped
    BY LateFacts
  <2>2. result.spans_received <= owed + strayed /\ owed <= result.spans_received
    BY <2>1 DEF LateBound, LateTyped, Inv, Summed, NothingMissed
  <2> QED
    BY <2>1, <2>2 DEF LateTyped, StaysQuiet
<1> QED
  BY <1>1, InvCorrect, LateCorrect, QuietCorrect, PTL
=============================================================================
