------------------------- MODULE MockSatelliteProofs -------------------------
(***************************************************************************)
(* Proofs about one mock satellite process, for any number of requests,    *)
(* any report sizes and all three response modes; and, below, about how it *)
(* reads the body of a report, for any bytes in any chunks.                *)
(***************************************************************************)
EXTENDS MockSatellite, RequestReader, SumTheorems, TLAPS

(* Every step of a handler thread, one disjunct per step.                  *)
LEMMA HandleCases ==
    ASSUME NEW t \in Threads, Handle(t)
    PROVE  \/ WrongPath(t)
           \/ t \in Posts /\ \/ BadReport(t) \/ SlowFail(t) \/ Process(t)
                             \/ Acquire(t) \/ Load(t) \/ Store(t) \/ Release(t)
           \/ t \in Gets /\ ReadCounter(t)
           \/ Respond(t)
BY DEF Handle, POST, GET

(* The variables keep their types.                                         *)
THEOREM TypeCorrect == Spec => []TypeOK
<1>1. Init => TypeOK
  BY DEF Init, TypeOK, PcValues
<1>2. TypeOK /\ [Next]_vars => TypeOK'
  <2> SUFFICES ASSUME TypeOK, [Next]_vars
               PROVE  TypeOK'
    OBVIOUS
  <2> USE SatelliteAssumption DEF TypeOK, Threads, Step, Decide, PcValues
  <2>1. ASSUME NEW t \in Threads, Arrive(t) PROVE TypeOK'
    BY <2>1 DEF Arrive
  <2>2. ASSUME NEW t \in Threads, WrongPath(t) PROVE TypeOK'
    BY <2>2 DEF WrongPath
  <2>3. ASSUME NEW p \in Posts, BadReport(p) PROVE TypeOK'
    BY <2>3 DEF BadReport
  <2>4. ASSUME NEW p \in Posts, SlowFail(p) PROVE TypeOK'
    BY <2>4 DEF SlowFail
  <2>5. ASSUME NEW p \in Posts, Process(p) PROVE TypeOK'
    BY <2>5 DEF Process
  <2>6. ASSUME NEW p \in Posts, Acquire(p) PROVE TypeOK'
    BY <2>6 DEF Acquire
  <2>7. ASSUME NEW p \in Posts, Load(p) PROVE TypeOK'
    BY <2>7 DEF Load
  <2>8. ASSUME NEW p \in Posts, Store(p) PROVE TypeOK'
    BY <2>8 DEF Store
  <2>9. ASSUME NEW p \in Posts, Release(p) PROVE TypeOK'
    BY <2>9 DEF Release
  <2>10. ASSUME NEW g \in Gets, ReadCounter(g) PROVE TypeOK'
    BY <2>10 DEF ReadCounter
  <2>11. ASSUME NEW t \in Threads, Respond(t) PROVE TypeOK'
    BY <2>11 DEF Respond
  <2>12. CASE Terminate
    BY <2>12 DEF Terminate
  <2>13. CASE UNCHANGED vars
    BY <2>13 DEF vars
  <2> QED
    BY <2>1, <2>2, <2>3, <2>4, <2>5, <2>6, <2>7, <2>8, <2>9, <2>10, <2>11,
       <2>12, <2>13, HandleCases DEF Next
<1> QED
  BY <1>1, <1>2, PTL DEF Spec

(* The lock protects the counter: only its holder is between the load and  *)
(* the release, and what it loaded is still the counter when it stores     *)
(* (lines 94-95).                                                          *)
THEOREM LockCorrect == Spec => []LockProtects
<1>1. Init => LockProtects
  BY SatelliteAssumption DEF Init, LockProtects, Threads
<1>2. TypeOK /\ LockProtects /\ [Next]_vars => LockProtects'
  <2> SUFFICES ASSUME TypeOK, LockProtects, [Next]_vars
               PROVE  LockProtects'
    OBVIOUS
  <2> USE SatelliteAssumption DEF TypeOK, LockProtects, Threads, Step, Decide
  <2>1. ASSUME NEW t \in Threads, Arrive(t) PROVE LockProtects'
    BY <2>1 DEF Arrive
  <2>2. ASSUME NEW t \in Threads, WrongPath(t) PROVE LockProtects'
    BY <2>2 DEF WrongPath
  <2>3. ASSUME NEW p \in Posts, BadReport(p) PROVE LockProtects'
    BY <2>3 DEF BadReport
  <2>4. ASSUME NEW p \in Posts, SlowFail(p) PROVE LockProtects'
    BY <2>4 DEF SlowFail
  <2>5. ASSUME NEW p \in Posts, Process(p) PROVE LockProtects'
    BY <2>5 DEF Process
  <2>6. ASSUME NEW p \in Posts, Acquire(p) PROVE LockProtects'
    BY <2>6 DEF Acquire
  <2>7. ASSUME NEW p \in Posts, Load(p) PROVE LockProtects'
    BY <2>7 DEF Load
  <2>8. ASSUME NEW p \in Posts, Store(p) PROVE LockProtects'
    BY <2>8 DEF Store
  <2>9. ASSUME NEW p \in Posts, Release(p) PROVE LockProtects'
    BY <2>9 DEF Release
  <2>10. ASSUME NEW g \in Gets, ReadCounter(g) PROVE LockProtects'
    BY <2>10 DEF ReadCounter
  <2>11. ASSUME NEW t \in Threads, Respond(t) PROVE LockProtects'
    BY <2>11 DEF Respond
  <2>12. CASE Terminate
    BY <2>12 DEF Terminate
  <2>13. CASE UNCHANGED vars
    BY <2>13 DEF vars
  <2> QED
    BY <2>1, <2>2, <2>3, <2>4, <2>5, <2>6, <2>7, <2>8, <2>9, <2>10, <2>11,
       <2>12, <2>13, HandleCases DEF Next
<1> QED
  BY <1>1, <1>2, TypeCorrect, PTL DEF Spec

-----------------------------------------------------------------------------
(* A request that is still being handled has decided nothing: the code of  *)
(* its response is open and, for a GET, so is the number it answers with.  *)
Undecided ==
    /\ \A t \in Threads :
          pc[t] \in {"idle", "request", "acquire", "load", "store"} => code[t] = 0
    /\ \A g \in Gets : pc[g] \in {"idle", "request"} => body[g] = Unread

(* A request is decided by its store, its refusal or its read only.        *)
LEMMA UndecidedCorrect == Spec => []Undecided
<1>1. Init => Undecided
  BY SatelliteAssumption DEF Init, Undecided, Threads
<1>2. TypeOK /\ Undecided /\ [Next]_vars => Undecided'
  <2> SUFFICES ASSUME TypeOK, Undecided, [Next]_vars
               PROVE  Undecided'
    OBVIOUS
  <2> USE SatelliteAssumption DEF TypeOK, Undecided, Threads, Step, Decide
  <2>1. ASSUME NEW t \in Threads, Arrive(t) PROVE Undecided'
    BY <2>1 DEF Arrive
  <2>2. ASSUME NEW t \in Threads, WrongPath(t) PROVE Undecided'
    BY <2>2 DEF WrongPath
  <2>3. ASSUME NEW p \in Posts, BadReport(p) PROVE Undecided'
    BY <2>3 DEF BadReport
  <2>4. ASSUME NEW p \in Posts, SlowFail(p) PROVE Undecided'
    BY <2>4 DEF SlowFail
  <2>5. ASSUME NEW p \in Posts, Process(p) PROVE Undecided'
    BY <2>5 DEF Process
  <2>6. ASSUME NEW p \in Posts, Acquire(p) PROVE Undecided'
    BY <2>6 DEF Acquire
  <2>7. ASSUME NEW p \in Posts, Load(p) PROVE Undecided'
    BY <2>7 DEF Load
  <2>8. ASSUME NEW p \in Posts, Store(p) PROVE Undecided'
    BY <2>8 DEF Store
  <2>9. ASSUME NEW p \in Posts, Release(p) PROVE Undecided'
    BY <2>9 DEF Release
  <2>10. ASSUME NEW g \in Gets, ReadCounter(g) PROVE Undecided'
    BY <2>10 DEF ReadCounter
  <2>11. ASSUME NEW t \in Threads, Respond(t) PROVE Undecided'
    BY <2>11 DEF Respond
  <2>12. CASE Terminate
    BY <2>12 DEF Terminate
  <2>13. CASE UNCHANGED vars
    BY <2>13 DEF vars
  <2> QED
    BY <2>1, <2>2, <2>3, <2>4, <2>5, <2>6, <2>7, <2>8, <2>9, <2>10, <2>11,
       <2>12, <2>13, HandleCases DEF Next
<1> QED
  BY <1>1, <1>2, TypeCorrect, PTL DEF Spec

-----------------------------------------------------------------------------
(* The process implements the counter of SpanCounter: the store of a       *)
(* thread is the instant its report is counted, and every other step of a  *)
(* POST leaves the counter alone.                                          *)
THEOREM Refinement == Spec => ImplementsCounter
<1>1. Init => Counter!Init
  BY SatelliteAssumption DEF Init, Counter!Init, Outcome, Unread, Counter!Unread, Threads
<1>2. TypeOK /\ LockProtects /\ Undecided /\ [Next]_vars
         => [Counter!Next]_(Counter!vars)
  <2> SUFFICES ASSUME TypeOK, LockProtects, Undecided, [Next]_vars
               PROVE  Counter!Next \/ UNCHANGED Counter!vars
    BY DEF Counter!vars
  <2> DEFINE Outcomes == [p \in Posts |-> Outcome(p)]
  <2> USE SatelliteAssumption DEF TypeOK, Undecided, Threads, Step, Decide
  <2>a. ASSUME UNCHANGED <<spans_received, code, body>>
        PROVE  UNCHANGED Counter!vars
    BY <2>a DEF Outcome, Counter!vars
  <2>b. ASSUME NEW p \in Posts, code[p] = 0,
               code' = [code EXCEPT ![p] = 400] \/ code' = [code EXCEPT ![p] = 500],
               spans_received' = spans_received, body' = body
        PROVE  Counter!Refuse(p)
    <3>1. Outcomes[p] = "open"
      BY <2>b DEF Outcome
    <3>2. Outcomes' = [Outcomes EXCEPT ![p] = "refused"]
      <4>1. Outcome(p)' = "refused"
        BY <2>b DEF Outcome
      <4>2. \A q \in Posts \ {p} : Outcome(q)' = Outcome(q)
        BY <2>b DEF Outcome
      <4> QED
        BY <4>1, <4>2
    <3> QED
      BY <2>b, <3>1, <3>2 DEF Counter!Refuse
  <2>1. ASSUME NEW t \in Threads, WrongPath(t)
        PROVE  Counter!Next \/ UNCHANGED Counter!vars
    <3>1. /\ code[t] = 0 /\ code' = [code EXCEPT ![t] = 400]
          /\ spans_received' = spans_received /\ body' = body
      BY <2>1 DEF WrongPath
    <3>2. CASE t \in Posts
      <4>1. Counter!Refuse(t)
        BY <3>1, <3>2, <2>b
      <4> QED
        BY <3>2, <4>1 DEF Counter!Next
    <3>3. CASE t \in Gets
      <4>1. Outcomes' = Outcomes
        BY <3>1, <3>3 DEF Outcome
      <4> QED
        BY <3>1, <4>1 DEF Counter!vars
    <3> QED
      BY <3>2, <3>3
  <2>2. ASSUME NEW p \in Posts, BadReport(p) \/ SlowFail(p)
        PROVE  Counter!Next
    <3>1. \/ code' = [code EXCEPT ![p] = 400]
          \/ code' = [code EXCEPT ![p] = 500]
      BY <2>2 DEF BadReport, SlowFail
    <3>2. code[p] = 0 /\ spans_received' = spans_received /\ body' = body
      BY <2>2 DEF BadReport, SlowFail
    <3>3. Counter!Refuse(p)
      BY <3>1, <3>2, <2>b
    <3> QED
      BY <3>3 DEF Counter!Next
  <2>3. ASSUME NEW p \in Posts, Store(p)
        PROVE  Counter!Next
    <3>1. loaded[p] = spans_received
      BY <2>3 DEF Store, LockProtects
    <3>2. Outcomes[p] = "open"
      BY <2>3 DEF Store, Outcome
    <3>3. Outcomes' = [Outcomes EXCEPT ![p] = "counted"]
      BY <2>3 DEF Store, Outcome
    <3>4. Counter!Accept(p)
      BY <2>3, <3>1, <3>2, <3>3 DEF Store, Counter!Accept
    <3> QED
      BY <3>4 DEF Counter!Next
  <2>4. ASSUME NEW g \in Gets, ReadCounter(g)
        PROVE  Counter!Next
    <3>1. Outcomes' = Outcomes
      BY <2>4 DEF ReadCounter, Outcome
    <3>2. Counter!Read(g)
      BY <2>4, <3>1 DEF ReadCounter, Counter!Read, Unread, Counter!Unread
    <3> QED
      BY <3>2 DEF Counter!Next
  <2>5. ASSUME NEW t \in Threads, Arrive(t) \/ Respond(t) \/ Terminate
        PROVE  UNCHANGED <<spans_received, code, body>>
    BY <2>5 DEF Arrive, Respond, Terminate
  <2>6. ASSUME NEW p \in Posts, Process(p) \/ Acquire(p) \/ Load(p) \/ Release(p)
        PROVE  UNCHANGED <<spans_received, code, body>>
    BY <2>6 DEF Process, Acquire, Load, Release
  <2>7. CASE Terminate \/ UNCHANGED vars
    BY <2>7, <2>a DEF Terminate, vars
  <2> QED
    BY <2>1, <2>2, <2>3, <2>4, <2>5, <2>6, <2>7, <2>a, HandleCases DEF Next
<1> QED
  BY <1>1, <1>2, TypeCorrect, LockCorrect, UndecidedCorrect, PTL
     DEF Spec, ImplementsCounter, Counter!Spec

-----------------------------------------------------------------------------
(* The requests that have arrived.  They are finitely many at any time,    *)
(* though Threads need not be finite.                                      *)
Started == {t \in Threads : pc[t] # "idle"}

(* The counter is the sum of the reports that were counted, a question is  *)
(* asked when no more is known than is counted, and answered by the count. *)
AnswersInv ==
    /\ IsFiniteSet(Started)
    /\ spans_received = SpansOf(Counted)
    /\ floor \in [Gets -> Int]
    /\ \A g \in Gets : IF body[g] = Unread
                       THEN floor[g] <= spans_received
                       ELSE floor[g] <= body[g] /\ body[g] <= spans_received

(* The spans of a set of reports are the sum of their sizes.               *)
LEMMA SpansOfIsSum == \A P : SpansOf(P) = SumOver(Size, P)
BY DEF SpansOf, SumOver

(* The spans of finitely many reports are a number.                        *)
LEMMA SpansOfType ==
    ASSUME NEW P \in SUBSET Posts, IsFiniteSet(P)
    PROVE  SpansOf(P) \in Nat
BY SpansOfIsSum, SumType, SatelliteAssumption

(* More reports have at least as many spans.                               *)
LEMMA SpansOfMonotone ==
    ASSUME NEW P \in SUBSET Posts, IsFiniteSet(P), NEW Q \in SUBSET P
    PROVE  SpansOf(Q) <= SpansOf(P)
BY SpansOfIsSum, SumMonotone, SatelliteAssumption

(* A report that was counted has arrived.                                  *)
LEMMA CountedFacts ==
    ASSUME TypeOK, Undecided, IsFiniteSet(Started)
    PROVE  /\ Counted \in SUBSET {p \in Posts : pc[p] # "idle"}
           /\ IsFiniteSet({p \in Posts : pc[p] # "idle"})
           /\ IsFiniteSet(Counted)
<1>1. Counted \in SUBSET {p \in Posts : pc[p] # "idle"}
  BY DEF Undecided, Counted, Threads
<1>2. {p \in Posts : pc[p] # "idle"} \in SUBSET Started
  BY DEF Started, Threads
<1> QED
  BY <1>1, <1>2, FS_Subset

(* What anybody can know from the answers given is at most the count.      *)
LEMMA KnownIsCounted ==
    ASSUME TypeOK, Undecided, AnswersInv
    PROVE  KnownCount \in Int /\ KnownCount <= spans_received
<1> DEFINE K == {SpansOf(Answered \cap Counted)} \cup
                {body[g] : g \in {h \in Answered \cap Gets : code[h] = 200}}
<1>0. spans_received \in Int /\ Unread \in Int
  BY DEF TypeOK, Unread
<1>1. IsFiniteSet(Counted) /\ Counted \in SUBSET Posts
  BY CountedFacts DEF AnswersInv, Counted
<1>2. /\ SpansOf(Answered \cap Counted) \in Nat
      /\ SpansOf(Answered \cap Counted) <= spans_received
  <2>1. IsFiniteSet(Answered \cap Counted)
    BY <1>1, FS_Intersection
  <2>2. SpansOf(Answered \cap Counted) \in Nat
    BY <1>1, <2>1, SpansOfType
  <2>3. SpansOf(Answered \cap Counted) <= SpansOf(Counted)
    BY <1>1, SpansOfMonotone
  <2> QED
    BY <2>2, <2>3 DEF AnswersInv
<1>3. \A g \in Gets : body[g] \in Int /\ Unread <= body[g] /\ body[g] <= spans_received
  BY DEF TypeOK, AnswersInv, Unread
<1>4. K \in SUBSET (Unread .. spans_received) /\ K # {}
  BY <1>2, <1>3 DEF Unread, TypeOK
<1>5. Max(K) \in K
  <2>1. K \in SUBSET Int /\ IsFiniteSet(K)
    <3>1. IsFiniteSet(Unread .. spans_received)
      BY <1>0, FS_Interval
    <3>2. (Unread .. spans_received) \in SUBSET Int
      BY <1>0
    <3> HIDE DEF K
    <3> QED
      BY <1>4, <3>1, <3>2, FS_Subset
  <2> HIDE DEF K
  <2> QED
    BY <1>4, <2>1, MaxExists
<1>6. KnownCount = Max(K)
  BY DEF KnownCount
<1>7. \A x \in K : x \in Int /\ x <= spans_received
  BY <1>0, <1>4
<1> HIDE DEF K
<1> QED
  BY <1>5, <1>6, <1>7

(* A step that counts and answers nothing leaves the books as they are.    *)
LEMMA AnswersUntouched ==
    ASSUME TypeOK, Undecided, AnswersInv,
           Counted' = Counted, Started' = Started,
           UNCHANGED <<spans_received, body, floor>>
    PROVE  AnswersInv'
<1>1. SpansOf(Counted)' = SpansOf(Counted)
  BY SpansOfIsSum
<1> QED
  BY <1>1 DEF AnswersInv

(* The books are kept by every step: a report enters the sum when it is    *)
(* stored, and a question is answered from the sum.                        *)
LEMMA AnswersCorrect == Spec => []AnswersInv
<1>1. Init => AnswersInv
  <2> SUFFICES ASSUME Init PROVE AnswersInv
    OBVIOUS
  <2>1. Started = {} /\ Counted = {}
    BY SatelliteAssumption DEF Init, Started, Counted, Threads
  <2>2. IsFiniteSet({}) /\ SpansOf({}) = 0
    BY FS_EmptySet, SpansOfIsSum, SumEmpty
  <2> QED
    BY <2>1, <2>2 DEF Init, AnswersInv, Unread
<1>2. TypeOK /\ LockProtects /\ Undecided /\ AnswersInv /\ [Next]_vars => AnswersInv'
  <2> SUFFICES ASSUME TypeOK, LockProtects, Undecided, AnswersInv, [Next]_vars
               PROVE  AnswersInv'
    OBVIOUS
  <2> USE SatelliteAssumption DEF Threads, Step, Decide
  <2>a. ASSUME NEW t \in Threads, code[t] = 0 \/ code[t] # 200,
               \/ code' = [code EXCEPT ![t] = 400]
               \/ code' = [code EXCEPT ![t] = 500]
        PROVE  Counted' = Counted
    BY <2>a DEF Counted, TypeOK
  <2>b. ASSUME NEW t \in Threads, NEW to \in PcValues \ {"idle"},
               pc[t] # "idle", pc' = [pc EXCEPT ![t] = to]
        PROVE  Started' = Started
    BY <2>b DEF Started, TypeOK
  <2>1. ASSUME NEW t \in Threads, Arrive(t) PROVE AnswersInv'
    <3>1. Started' = Started \cup {t} /\ Counted' = Counted
      BY <2>1 DEF Arrive, Started, Counted, TypeOK
    <3>2. IsFiniteSet(Started)'
      BY <3>1, FS_AddElement DEF AnswersInv
    <3>3. (spans_received = SpansOf(Counted))'
      BY <2>1, <3>1 DEF Arrive, AnswersInv
    <3>4. CASE t \in Gets
      <4>1. body[t] = Unread
        BY <2>1, <3>4 DEF Arrive, Undecided
      <4>2. floor' = [floor EXCEPT ![t] = KnownCount]
        BY <2>1, <3>4 DEF Arrive
      <4>3. KnownCount \in Int /\ KnownCount <= spans_received
        BY KnownIsCounted
      <4>4. body' = body /\ spans_received' = spans_received
        BY <2>1 DEF Arrive
      <4>5. floor' \in [Gets -> Int]
        BY <4>2, <4>3 DEF AnswersInv
      <4>6. ASSUME NEW g \in Gets
            PROVE  IF body'[g] = Unread
                   THEN floor'[g] <= spans_received'
                   ELSE floor'[g] <= body'[g] /\ body'[g] <= spans_received'
        BY <4>1, <4>2, <4>3, <4>4 DEF AnswersInv
      <4> QED
        BY <3>2, <3>3, <4>5, <4>6 DEF AnswersInv
    <3>5. CASE t \notin Gets
      BY <2>1, <3>2, <3>3, <3>5 DEF Arrive, AnswersInv
    <3> QED
      BY <3>4, <3>5
  <2>2. ASSUME NEW t \in Threads, WrongPath(t) PROVE AnswersInv'
    BY <2>2, <2>a, <2>b, AnswersUntouched DEF WrongPath, Undecided, PcValues
  <2>3. ASSUME NEW p \in Posts, BadReport(p) PROVE AnswersInv'
    BY <2>3, <2>a, <2>b, AnswersUntouched DEF BadReport, Undecided, PcValues
  <2>4. ASSUME NEW p \in Posts, SlowFail(p) PROVE AnswersInv'
    BY <2>4, <2>a, <2>b, AnswersUntouched DEF SlowFail, Undecided, PcValues
  <2>5. ASSUME NEW p \in Posts, Process(p) PROVE AnswersInv'
    BY <2>5, <2>b, AnswersUntouched DEF Process, PcValues, Counted
  <2>6. ASSUME NEW p \in Posts, Acquire(p) PROVE AnswersInv'
    BY <2>6, <2>b, AnswersUntouched DEF Acquire, PcValues, Counted
  <2>7. ASSUME NEW p \in Posts, Load(p) PROVE AnswersInv'
    BY <2>7, <2>b, AnswersUntouched DEF Load, PcValues, Counted
  <2>8. ASSUME NEW p \in Posts, Store(p) PROVE AnswersInv'
    <3>1. spans_received' = spans_received + Size[p]
      BY <2>8 DEF Store, LockProtects
    <3>2. Started' = Started
      BY <2>8, <2>b DEF Store, PcValues
    <3>3. p \notin Counted /\ Counted' = Counted \cup {p}
      BY <2>8 DEF Store, Undecided, Counted, TypeOK
    <3>4. IsFiniteSet(Counted) /\ Counted \in SUBSET Posts
      BY CountedFacts DEF AnswersInv, Counted
    <3>5. SpansOf(Counted \cup {p}) = Size[p] + SpansOf(Counted)
      BY <3>3, <3>4, SpansOfIsSum, SumAdd
    <3>6. SpansOf(Counted) \in Nat /\ Size[p] \in Nat
      BY <3>4, SpansOfType
    <3>7. (spans_received = SpansOf(Counted))'
      BY <3>1, <3>3, <3>5, <3>6 DEF AnswersInv
    <3>8. spans_received <= spans_received'
      BY <3>1, <3>6 DEF TypeOK
    <3>9. ASSUME NEW g \in Gets
          PROVE  IF body[g] = Unread
                 THEN floor[g] <= spans_received'
                 ELSE floor[g] <= body[g] /\ body[g] <= spans_received'
      <4>1. /\ floor[g] \in Int /\ body[g] \in Int
            /\ spans_received \in Int /\ spans_received' \in Int
        BY <3>1, <3>6 DEF TypeOK, AnswersInv, Unread
      <4> QED
        BY <3>8, <4>1 DEF AnswersInv
    <3> QED
      BY <2>8, <3>2, <3>7, <3>9 DEF Store, AnswersInv
  <2>9. ASSUME NEW p \in Posts, Release(p) PROVE AnswersInv'
    BY <2>9, <2>b, AnswersUntouched DEF Release, PcValues, Counted
  <2>10. ASSUME NEW g \in Gets, ReadCounter(g) PROVE AnswersInv'
    <3>1. Counted' = Counted
      BY <2>10 DEF ReadCounter, Counted, TypeOK
    <3>2. Started' = Started
      BY <2>10, <2>b DEF ReadCounter, PcValues
    <3>3. body[g] = Unread /\ floor[g] <= spans_received
      BY <2>10 DEF ReadCounter, Undecided, AnswersInv
    <3>4. ASSUME NEW h \in Gets
          PROVE  IF body'[h] = Unread
                 THEN floor[h] <= spans_received
                 ELSE floor[h] <= body'[h] /\ body'[h] <= spans_received
      BY <2>10, <3>3 DEF ReadCounter, AnswersInv, TypeOK
    <3> QED
      BY <2>10, <3>1, <3>2, <3>4 DEF ReadCounter, AnswersInv
  <2>11. ASSUME NEW t \in Threads, Respond(t) PROVE AnswersInv'
    BY <2>11, <2>b, AnswersUntouched DEF Respond, PcValues, Counted
  <2>12. CASE Terminate
    BY <2>12, AnswersUntouched DEF Terminate, Counted, Started
  <2>13. CASE UNCHANGED vars
    BY <2>13, AnswersUntouched DEF vars, Counted, Started
  <2> QED
    BY <2>1, <2>2, <2>3, <2>4, <2>5, <2>6, <2>7, <2>8, <2>9, <2>10, <2>11,
       <2>12, <2>13, HandleCases DEF Next
<1> QED
  BY <1>1, <1>2, TypeCorrect, LockCorrect, UndecidedCorrect, PTL DEF Spec

(* A GET, which takes no lock (52-59), answers at least what its sender    *)
(* could know from all earlier answers and at most what has been posted.   *)
THEOREM AnswersTrue == Spec => []AnswersAgree
<1>1. TypeOK /\ Undecided /\ AnswersInv => AnswersAgree
  <2> SUFFICES ASSUME TypeOK, Undecided, AnswersInv,
                      NEW g \in Gets, body[g] # Unread
               PROVE  /\ floor[g] <= body[g]
                      /\ body[g] <= SpansOf({p \in Posts : pc[p] # "idle"})
    BY DEF AnswersAgree
  <2> DEFINE Arrived == {p \in Posts : pc[p] # "idle"}
  <2>1. floor[g] <= body[g] /\ body[g] <= SpansOf(Counted)
    BY DEF AnswersInv
  <2>2. /\ Counted \in SUBSET Arrived
        /\ IsFiniteSet(Arrived) /\ IsFiniteSet(Counted)
        /\ Arrived \in SUBSET Posts /\ Counted \in SUBSET Posts
    BY CountedFacts DEF AnswersInv, Counted
  <2> HIDE DEF Arrived
  <2>3. SpansOf(Counted) <= SpansOf(Arrived)
    BY <2>2, SpansOfMonotone
  <2>4. SpansOf(Counted) \in Nat /\ SpansOf(Arrived) \in Nat
    BY <2>2, SpansOfType
  <2>5. body[g] \in Int
    BY DEF TypeOK, Unread
  <2> QED
    BY <2>1, <2>3, <2>4, <2>5 DEF Arrived
<1> QED
  BY <1>1, TypeCorrect, UndecidedCorrect, AnswersCorrect, PTL

-----------------------------------------------------------------------------
(* THE READER.  Its invariant says where in the frames of a report it is.  *)
(* For that the bytes of a report are laid out frame by frame: the folds   *)
(* over the lengths of the chunks and over the digits of a line are taken  *)
(* position by position.                                                   *)

(* The length of the chunks so far.                                        *)
LEMMA TotalUnrolled ==
    ASSUME NEW n \in Nat, NEW split \in [1 .. n -> Nat]
    PROVE  \E a : /\ a[0] = 0 /\ Total(split) = a[n]
                  /\ \A k \in 1 .. n : a[k] = a[k - 1] + split[k]
<1> DEFINE D == SUBSET (1 .. n)
           step == [x \in Nat \X (1 .. n) |-> x[1] + split[x[2]]]
           Total_(g) == g = [s \in D |-> IF s = {} THEN 0
                                         ELSE g[s \ {Max(s)}] + split[Max(s)]]
           iter == CHOOSE g : Total_(g)
           a == [k \in 0 .. n |-> iter[1 .. k]]
<1>1. \E g : Total_(g)
  <2>1. step \in [Nat \X (1 .. n) -> Nat]
    OBVIOUS
  <2> HIDE DEF step
  <2>2. PICK g \in [D -> Nat] : UnrollsFold(g, 0, step, n)
    BY <2>1, FoldExists
  <2>3. ASSUME NEW s \in D, s # {}
        PROVE  step[<<g[s \ {Max(s)}], Max(s)>>] = g[s \ {Max(s)}] + split[Max(s)]
    <3>1. Max(s) \in 1 .. n /\ s \ {Max(s)} \in D
      BY <2>3, LastOf
    <3>2. <<g[s \ {Max(s)}], Max(s)>> \in Nat \X (1 .. n)
      BY <3>1
    <3> QED
      BY <3>2 DEF step
  <2>4. Total_(g)
    BY <2>2, <2>3 DEF UnrollsFold
  <2> QED
    BY <2>4
<1>2. Total_(iter)
  BY <1>1
<1>3. Total(split) = iter[1 .. n]
  <2>1. DOMAIN split = 1 .. n
    OBVIOUS
  <2> QED
    BY <2>1 DEF Total, FoldLeft, MapThenFoldSet
<1> HIDE DEF iter
<1>4. a[0] = 0 /\ Total(split) = a[n]
  <2>1. 1 .. 0 = {} /\ {} \in D
    OBVIOUS
  <2>2. iter[1 .. 0] = 0
    BY <1>2, <2>1
  <2> QED
    BY <1>3, <2>2
<1>5. ASSUME NEW k \in 1 .. n PROVE a[k] = a[k - 1] + split[k]
  <2>1. iter[1 .. k] = iter[1 .. k - 1] + split[k]
    BY <1>2, UpTo
  <2>2. k \in 0 .. n /\ k - 1 \in 0 .. n
    OBVIOUS
  <2> QED
    BY <2>1, <2>2
<1> HIDE DEF a
<1> QED
  BY <1>4, <1>5

-----------------------------------------------------------------------------
(* The bytes of a report in chunks.                                        *)
Chunked == {r \in Requests : r.kind = "chunked"}
Lengths == 0 .. Len(Digits) - 1
\* The lengths of its chunks, with the last one, and of the line of each.
Chunks(r) == Append(r.split, 0)
LineLen(r) == r.width + Len(r.extension) + 2

LEMMA BytesAre ==
    /\ Len(Digits) = 4 /\ DOMAIN Digits = 1 .. 4 /\ Lengths = 0 .. 3
    /\ Digits[1] = "0" /\ Digits[2] = "1" /\ Digits[3] = "2" /\ Digits[4] = "3"
    /\ CR # LF /\ \A d \in 1 .. 4 : Digits[d] \notin {CR, LF, Semicolon}
    /\ CR # Semicolon /\ LF # Semicolon
    /\ CR \in Bytes /\ LF \in Bytes /\ \A d \in 1 .. 4 : Digits[d] \in Bytes
    /\ Delimiter \in Seq(Bytes) /\ Len(Delimiter) = 2
    /\ Delimiter[1] = CR /\ Delimiter[2] = LF
<1>1. Len(Digits) = 4 /\ DOMAIN Digits = 1 .. 4
  BY DEF Digits
<1>2. Digits[1] = "0" /\ Digits[2] = "1" /\ Digits[3] = "2" /\ Digits[4] = "3"
  BY DEF Digits
<1>3. CR \in Bytes /\ LF \in Bytes /\ \A d \in 1 .. 4 : Digits[d] \in Bytes
  BY <1>1, ReaderAssumption
<1>4. \A d \in 1 .. 4 : d = 1 \/ d = 2 \/ d = 3 \/ d = 4
  OBVIOUS
<1>5. CR # LF /\ CR # Semicolon /\ LF # Semicolon
  BY Zenon DEF CR, LF, Semicolon
<1>7. "0" \notin {CR, LF, Semicolon} /\ "1" \notin {CR, LF, Semicolon}
  BY Zenon DEF CR, LF, Semicolon
<1>8. "2" \notin {CR, LF, Semicolon} /\ "3" \notin {CR, LF, Semicolon}
  BY Zenon DEF CR, LF, Semicolon
<1>9. \A d \in 1 .. 4 : Digits[d] \notin {CR, LF, Semicolon}
  BY <1>2, <1>4, <1>7, <1>8
<1>6. /\ Delimiter \in Seq(Bytes) /\ Len(Delimiter) = 2
      /\ Delimiter[1] = CR /\ Delimiter[2] = LF
  BY <1>3 DEF Delimiter
<1> QED
  BY <1>1, <1>2, <1>3, <1>5, <1>6, <1>9 DEF Lengths

LEMMA ChunkedIs ==
    ASSUME NEW r \in Chunked
    PROVE  /\ r.body \in Seq(Bytes) /\ r.extension \in Seq(Bytes)
           /\ r.extension # <<>> => Len(r.extension) >= 1 /\ r.extension[1] = Semicolon
           /\ r.split \in Seq(1 .. Len(Digits) - 1)
           /\ r.width \in Nat \ {0}
           /\ Total(r.split) = Len(r.body)
<1>1. /\ r.body \in Bodies /\ r.split \in Splits /\ r.width \in Widths
      /\ r.extension \in Extensions /\ Total(r.split) = Len(r.body)
  BY DEF Chunked, Requests
<1>2. <<>> \in Seq(Bytes)
  OBVIOUS
<1>3. ASSUME r.extension # <<>>
      PROVE  Len(r.extension) >= 1 /\ r.extension[1] = Semicolon /\ r.extension \in Seq(Bytes)
  BY <1>1, <1>3, ReaderAssumption
<1> QED
  BY <1>1, <1>2, <1>3, ReaderAssumption

LEMMA ChunksAre ==
    ASSUME NEW r \in Chunked
    PROVE  /\ Len(Chunks(r)) = Len(r.split) + 1 /\ Len(r.split) \in Nat
           /\ Chunks(r) \in [1 .. Len(r.split) + 1 -> Lengths]
           /\ \A k \in 1 .. Len(r.split) : Chunks(r)[k] = r.split[k] /\ r.split[k] # 0
           /\ Chunks(r)[Len(r.split) + 1] = 0
<1>1. r.split \in Seq(1 .. 3)
  BY ChunkedIs DEF Digits
<1> DEFINE n == Len(r.split)
<1>2. n \in Nat /\ r.split \in [1 .. n -> 1 .. 3]
  BY <1>1
<1>3. /\ Len(Chunks(r)) = n + 1 /\ DOMAIN Chunks(r) = 1 .. n + 1
      /\ Chunks(r) = [k \in 1 .. n + 1 |-> Chunks(r)[k]]
      /\ \A k \in 1 .. n : Chunks(r)[k] = r.split[k]
      /\ Chunks(r)[n + 1] = 0
  BY <1>1 DEF Chunks
<1> HIDE DEF n
<1>4. \A k \in 1 .. n : r.split[k] \in 1 .. 3 /\ r.split[k] # 0 /\ r.split[k] \in 0 .. 3
  BY <1>2
<1>5. \A k \in 1 .. n + 1 : Chunks(r)[k] \in Lengths
  <2>1. \A k \in 1 .. n + 1 : k \in 1 .. n \/ k = n + 1
    BY <1>2
  <2>2. Lengths = 0 .. 3 /\ 0 \in 0 .. 3
    BY BytesAre
  <2> QED
    BY <1>3, <1>4, <2>1, <2>2
<1> QED
  BY <1>2, <1>3, <1>4, <1>5 DEF n

(* c is s with t behind.                                                   *)
Joins(c, S, s, t) ==
    /\ c \in Seq(S) /\ Len(c) = Len(s) + Len(t)
    /\ Len(s) \in Nat /\ Len(t) \in Nat
    /\ \A i \in 1 .. Len(s) : c[i] = s[i]
    /\ \A j \in Len(s) + 1 .. Len(s) + Len(t) : c[j] = t[j - Len(s)]

LEMMA Joined == ASSUME NEW S, NEW s \in Seq(S), NEW t \in Seq(S) PROVE Joins(s \o t, S, s, t)
BY DEF Joins

(* The line in front of a chunk: zeros, the digit, the extension, CR LF.   *)
LEMMA LineIs ==
    ASSUME NEW r \in Chunked, NEW m \in Lengths
    PROVE  /\ LengthLine(r, m) \in Seq(Bytes)
           /\ LineLen(r) \in Nat /\ LineLen(r) = r.width + Len(r.extension) + 2
           /\ Len(LengthLine(r, m)) = LineLen(r)
           /\ \A j \in 1 .. r.width - 1 : LengthLine(r, m)[j] = "0"
           /\ LengthLine(r, m)[r.width] = Digits[m + 1]
           /\ \A j \in r.width + 1 .. r.width + Len(r.extension) :
                 LengthLine(r, m)[j] = r.extension[j - r.width]
           /\ LengthLine(r, m)[LineLen(r) - 1] = CR
           /\ LengthLine(r, m)[LineLen(r)] = LF
<1> DEFINE w == r.width
           x == r.extension
           zeros == [i \in 1 .. w - 1 |-> "0"]
           digit == <<Digits[m + 1]>>
           z == zeros \o digit
           e == z \o x
           l == e \o Delimiter
<1>1. w \in Nat \ {0} /\ x \in Seq(Bytes) /\ Len(x) \in Nat
  BY ChunkedIs
<1>2. /\ zeros \in Seq(Bytes) /\ Len(zeros) = w - 1
      /\ \A j \in 1 .. w - 1 : zeros[j] = "0"
  <2>1. "0" \in Bytes
    BY BytesAre
  <2> QED
    BY <1>1, <2>1
<1>3. digit \in Seq(Bytes) /\ Len(digit) = 1 /\ digit[1] = Digits[m + 1]
  <2>1. m + 1 \in 1 .. 4
    BY BytesAre
  <2>2. Digits[m + 1] \in Bytes
    BY <2>1, BytesAre
  <2> QED
    BY <2>2
<1>4. Delimiter \in Seq(Bytes) /\ Len(Delimiter) = 2 /\ Delimiter[1] = CR /\ Delimiter[2] = LF
  BY BytesAre
<1>5. LengthLine(r, m) = l
  BY DEF LengthLine
<1>6. LineLen(r) = w + Len(x) + 2
  BY DEF LineLen
<1> HIDE DEF w, x, zeros, digit
<1>7. /\ z \in Seq(Bytes) /\ Len(z) = w
      /\ \A j \in 1 .. w - 1 : z[j] = "0"
      /\ z[w] = Digits[m + 1]
  <2>1. Joins(z, Bytes, zeros, digit)
    BY <1>2, <1>3, Joined
  <2> HIDE DEF z
  <2>2. w \in Len(zeros) + 1 .. Len(zeros) + Len(digit) /\ w - Len(zeros) = 1
    BY <1>1, <1>2, <1>3
  <2> QED
    BY <1>1, <1>2, <1>3, <2>1, <2>2 DEF Joins
<1> HIDE DEF z
<1>8. /\ e \in Seq(Bytes) /\ Len(e) = w + Len(x)
      /\ \A j \in 1 .. w : e[j] = z[j]
      /\ \A j \in w + 1 .. w + Len(x) : e[j] = x[j - w]
  <2>1. Joins(e, Bytes, z, x)
    BY <1>1, <1>7, Joined
  <2> HIDE DEF e
  <2> QED
    BY <1>7, <2>1 DEF Joins
<1> HIDE DEF e
<1>9. /\ l \in Seq(Bytes) /\ Len(l) = w + Len(x) + 2
      /\ \A j \in 1 .. w + Len(x) : l[j] = e[j]
      /\ \A j \in w + Len(x) + 1 .. w + Len(x) + 2 : l[j] = Delimiter[j - (w + Len(x))]
  <2>1. Joins(l, Bytes, e, Delimiter)
    BY <1>4, <1>8, Joined
  <2> HIDE DEF l
  <2> QED
    BY <1>4, <1>8, <2>1 DEF Joins
<1> HIDE DEF l
<1>10. l[w + Len(x) + 1] = CR /\ l[w + Len(x) + 2] = LF
  BY <1>1, <1>4, <1>9
<1>11. /\ \A j \in 1 .. w - 1 : l[j] = "0"
       /\ l[w] = Digits[m + 1]
       /\ \A j \in w + 1 .. w + Len(x) : l[j] = x[j - w]
  BY <1>1, <1>7, <1>8, <1>9
<1>12. LineLen(r) \in Nat /\ LineLen(r) - 1 = w + Len(x) + 1
  BY <1>1, <1>6
<1> QED
  BY <1>5, <1>6, <1>9, <1>10, <1>11, <1>12 DEF w, x

(* What is sent grows by a line, a piece of the body and CR LF.            *)
NoFrame == [bytes |-> <<>>, lengths |-> {}, from |-> 0]

NextFrame(r, w, n) ==
    [bytes |-> w.bytes \o LengthLine(r, n) \o SubSeq(r.body, w.from + 1, w.from + n)
                   \o Delimiter,
     lengths |-> w.lengths \cup {Len(w.bytes)},
     from |-> w.from + n]

\* What may be in the bytes, if the lengths were beyond the body.
Anything(r) == Bytes \cup {r.body[i] : i \in Int}

States(r) == [bytes : Seq(Anything(r)), lengths : SUBSET Nat, from : Nat]

LEMMA PieceIs ==
    ASSUME NEW r \in Chunked, NEW a \in Nat, NEW n \in Nat
    PROVE  /\ SubSeq(r.body, a + 1, a + n) \in Seq(Anything(r))
           /\ Len(SubSeq(r.body, a + 1, a + n)) = n
           /\ \A j \in 1 .. n : SubSeq(r.body, a + 1, a + n)[j] = r.body[a + j]
<1> DEFINE b == r.body
<1>1. b \in Seq(Bytes)
  BY ChunkedIs
<1>2. \A i \in Int : b[i] \in Anything(r)
  BY DEF Anything
<1> HIDE DEF b
<1>3. SubSeq(b, a + 1, a + n) = [j \in 1 .. n |-> b[j + a]]
  BY <1>1
<1>4. \A j \in 1 .. n : j + a \in Int /\ a + j = j + a
  OBVIOUS
<1>5. /\ SubSeq(b, a + 1, a + n) \in Seq(Anything(r))
      /\ Len(SubSeq(b, a + 1, a + n)) = n
      /\ \A j \in 1 .. n : SubSeq(b, a + 1, a + n)[j] = b[j + a]
  BY <1>2, <1>3, <1>4
<1> QED
  BY <1>4, <1>5 DEF b

(* The bytes of the next frame, position by position.                      *)
LEMMA FrameIs ==
    ASSUME NEW r \in Chunked, NEW w \in States(r), NEW n \in Lengths
    PROVE  LET f == NextFrame(r, w, n)
               p == Len(w.bytes)
               q == p + LineLen(r)
           IN  /\ f \in States(r) /\ p \in Nat /\ f.from = w.from + n
               /\ Len(f.bytes) = q + n + 2
               /\ \A j \in 1 .. p : f.bytes[j] = w.bytes[j]
               /\ \A j \in p + 1 .. q : f.bytes[j] = LengthLine(r, n)[j - p]
               /\ \A j \in q + 1 .. q + n : f.bytes[j] = r.body[w.from + (j - q)]
               /\ f.bytes[q + n + 1] = CR /\ f.bytes[q + n + 2] = LF
<1> DEFINE f == NextFrame(r, w, n)
           p == Len(w.bytes)
           q == p + LineLen(r)
           S == Seq(Anything(r))
           line == LengthLine(r, n)
           piece == SubSeq(r.body, w.from + 1, w.from + n)
           s == w.bytes \o line
           t == s \o piece
           u == t \o Delimiter
<1>1. w.bytes \in S /\ w.lengths \in SUBSET Nat /\ w.from \in Nat /\ p \in Nat
  BY DEF States
<1>2. n \in Nat
  BY BytesAre
<1>3. \A b : b \in Seq(Bytes) => b \in S
  <2>1. Bytes \subseteq Anything(r)
    BY DEF Anything
  <2> QED
    BY <2>1
<1>4. line \in S /\ Len(line) = LineLen(r) /\ LineLen(r) \in Nat
  BY <1>3, LineIs
<1>5. /\ piece \in S /\ Len(piece) = n
      /\ \A j \in 1 .. n : piece[j] = r.body[w.from + j]
  BY <1>1, <1>2, PieceIs
<1>6. Delimiter \in S /\ Len(Delimiter) = 2 /\ Delimiter[1] = CR /\ Delimiter[2] = LF
  BY <1>3, BytesAre
<1>7. f = [bytes |-> u, lengths |-> w.lengths \cup {p}, from |-> w.from + n]
  BY DEF NextFrame
<1> HIDE DEF line, piece
<1>8. /\ s \in S /\ Len(s) = q
      /\ \A j \in 1 .. p : s[j] = w.bytes[j]
      /\ \A j \in p + 1 .. q : s[j] = line[j - p]
  <2>1. Joins(s, Anything(r), w.bytes, line)
    BY <1>1, <1>4, Joined
  <2> HIDE DEF s
  <2> QED
    BY <1>4, <2>1 DEF Joins
<1> HIDE DEF s
<1>9. q \in Nat /\ p <= q
  BY <1>1, <1>4
<1>10. /\ t \in S /\ Len(t) = q + n
       /\ \A j \in 1 .. q : t[j] = s[j]
       /\ \A j \in q + 1 .. q + n : t[j] = piece[j - q]
  <2>1. Joins(t, Anything(r), s, piece)
    BY <1>5, <1>8, Joined
  <2> HIDE DEF t
  <2> QED
    BY <1>5, <1>8, <2>1 DEF Joins
<1> HIDE DEF t
<1>11. /\ u \in S /\ Len(u) = q + n + 2
       /\ \A j \in 1 .. q + n : u[j] = t[j]
       /\ \A j \in q + n + 1 .. q + n + 2 : u[j] = Delimiter[j - (q + n)]
  <2>1. Joins(u, Anything(r), t, Delimiter)
    BY <1>6, <1>10, Joined
  <2> HIDE DEF u
  <2> QED
    BY <1>6, <1>10, <2>1 DEF Joins
<1> HIDE DEF u, q, p
<1>12. u[q + n + 1] = CR /\ u[q + n + 2] = LF
  BY <1>2, <1>6, <1>9, <1>11
<1>13. \A j \in 1 .. p : u[j] = w.bytes[j]
  BY <1>1, <1>2, <1>8, <1>9, <1>10, <1>11
<1>14. \A j \in p + 1 .. q : u[j] = line[j - p]
  BY <1>1, <1>2, <1>8, <1>9, <1>10, <1>11
<1>15. ASSUME NEW j \in q + 1 .. q + n PROVE u[j] = r.body[w.from + (j - q)]
  <2>1. j \in 1 .. q + n /\ j - q \in 1 .. n
    BY <1>2, <1>9
  <2>2. u[j] = piece[j - q]
    BY <1>10, <1>11, <2>1
  <2> QED
    BY <1>5, <2>1, <2>2
<1>16. f \in States(r) /\ f.bytes = u /\ f.from = w.from + n
  BY <1>1, <1>2, <1>7, <1>11 DEF States
<1> QED
  BY <1>1, <1>11, <1>12, <1>13, <1>14, <1>15, <1>16 DEF p, q, line

LEMMA FramesUnrolled ==
    ASSUME NEW r \in Chunked, NEW n, n = Len(r.split) + 1
    PROVE  \E w : /\ w[0] = NoFrame /\ Framed(r) = w[n]
                  /\ \A k \in 1 .. n : w[k] = NextFrame(r, w[k - 1], Chunks(r)[k])
<1> DEFINE D == SUBSET (1 .. n)
           step == [x \in States(r) \X (1 .. n) |-> NextFrame(r, x[1], Chunks(r)[x[2]])]
           Frames(g) == g = [s \in D |-> IF s = {} THEN NoFrame
                                ELSE NextFrame(r, g[s \ {Max(s)}], Chunks(r)[Max(s)])]
           iter == CHOOSE g : Frames(g)
           w == [k \in 0 .. n |-> iter[1 .. k]]
<1>0. n \in Nat /\ Chunks(r) \in [1 .. n -> Lengths]
  BY ChunksAre
<1>1. \E g : Frames(g)
  <2>1. step \in [States(r) \X (1 .. n) -> States(r)]
    <3>1. ASSUME NEW x \in States(r) \X (1 .. n)
          PROVE  NextFrame(r, x[1], Chunks(r)[x[2]]) \in States(r)
      <4>1. x[1] \in States(r) /\ Chunks(r)[x[2]] \in Lengths
        BY <1>0, <3>1
      <4> QED
        BY <4>1, FrameIs
    <3> QED
      BY <3>1
  <2>2. NoFrame \in States(r)
    <3>1. <<>> \in Seq(Anything(r)) /\ {} \in SUBSET Nat /\ 0 \in Nat
      OBVIOUS
    <3> QED
      BY <3>1 DEF NoFrame, States
  <2> HIDE DEF step
  <2>3. PICK g \in [D -> States(r)] : UnrollsFold(g, NoFrame, step, n)
    BY <1>0, <2>1, <2>2, FoldExists
  <2>4. ASSUME NEW s \in D, s # {}
        PROVE  step[<<g[s \ {Max(s)}], Max(s)>>]
                   = NextFrame(r, g[s \ {Max(s)}], Chunks(r)[Max(s)])
    <3>1. Max(s) \in 1 .. n /\ s \ {Max(s)} \in D
      BY <1>0, <2>4, LastOf
    <3>2. <<g[s \ {Max(s)}], Max(s)>> \in States(r) \X (1 .. n)
      BY <3>1
    <3> QED
      BY <3>2 DEF step
  <2>5. Frames(g)
    <3> DEFINE v(s) == IF s = {} THEN NoFrame
                       ELSE NextFrame(r, g[s \ {Max(s)}], Chunks(r)[Max(s)])
    <3>1. \A s \in D : v(s) = IF s = {} THEN NoFrame ELSE step[<<g[s \ {Max(s)}], Max(s)>>]
      BY <2>4
    <3> HIDE DEF v
    <3>2. g = [s \in D |-> v(s)]
      BY <2>3, <3>1 DEF UnrollsFold
    <3> QED
      BY <3>2 DEF v
  <2> QED
    BY <2>5
<1>2. Frames(iter)
  BY <1>1
<1>3. Framed(r) = iter[1 .. n]
  <2>1. DOMAIN Chunks(r) = 1 .. n
    BY <1>0
  <2>2. Framed(r) = FoldLeft(LAMBDA x, k : NextFrame(r, x, k), NoFrame, Chunks(r))
    BY DEF Framed, NextFrame, NoFrame, Chunks
  <2> QED
    BY <2>1, <2>2 DEF FoldLeft, MapThenFoldSet
<1> HIDE DEF iter
<1>4. w[0] = NoFrame /\ Framed(r) = w[n]
  <2>1. 1 .. 0 = {} /\ {} \in D /\ 0 \in 0 .. n /\ n \in 0 .. n
    BY <1>0
  <2>2. iter[1 .. 0] = NoFrame
    BY <1>2, <2>1
  <2> QED
    BY <1>3, <2>1, <2>2
<1>5. ASSUME NEW k \in 1 .. n PROVE w[k] = NextFrame(r, w[k - 1], Chunks(r)[k])
  <2>1. iter[1 .. k] = NextFrame(r, iter[1 .. k - 1], Chunks(r)[k])
    <3>1. 1 .. k \in D /\ 1 .. k # {} /\ Max(1 .. k) = k /\ (1 .. k) \ {Max(1 .. k)} = 1 .. k - 1
      BY <1>0, UpTo
    <3>2. iter[1 .. k] = NextFrame(r, iter[(1 .. k) \ {Max(1 .. k)}], Chunks(r)[Max(1 .. k)])
      BY <1>2, <3>1
    <3> QED
      BY <3>1, <3>2
  <2>2. k \in 0 .. n /\ k - 1 \in 0 .. n
    BY <1>0
  <2> QED
    BY <2>1, <2>2
<1> HIDE DEF w
<1> QED
  BY <1>4, <1>5

(* In the bytes b of a report, frame k stands behind p[k - 1] bytes and    *)
(* carries the body from f[k - 1] on.                                      *)
FrameIn(r, b, f, p, k) ==
    LET c == Chunks(r)[k]
        q == p[k - 1] + LineLen(r)
    IN  /\ \A j \in p[k - 1] + 1 .. q : b[j] = LengthLine(r, c)[j - p[k - 1]]
        /\ \A j \in q + 1 .. q + c : b[j] = r.body[f[k - 1] + (j - q)]
        /\ b[q + c + 1] = CR /\ b[q + c + 2] = LF
        /\ f[k] = f[k - 1] + c /\ p[k] = q + c + 2

Layout(r, b, f, p) ==
    LET n == Len(r.split) + 1
    IN  /\ n \in Nat /\ f \in [0 .. n -> Nat] /\ p \in [0 .. n -> Nat]
        /\ b \in Seq(Anything(r)) /\ Len(b) = p[n]
        /\ f[0] = 0 /\ p[0] = 0 /\ f[n] = Len(r.body)
        /\ \A k \in 0 .. n : f[k] <= f[n] /\ p[k] <= p[n]
        /\ \A k \in 1 .. n : FrameIn(r, b, f, p, k)

(* A frame stays where it is when more is put behind.                      *)
LEMMA FrameStays ==
    ASSUME NEW r \in Chunked, NEW n, n = Len(r.split) + 1, NEW f \in [0 .. n -> Nat],
           NEW p \in [0 .. n -> Nat], NEW k \in 1 .. n, NEW b, NEW d,
           FrameIn(r, b, f, p, k), NEW m \in Nat, p[k] <= m, \A j \in 1 .. m : d[j] = b[j]
    PROVE  FrameIn(r, d, f, p, k)
<1> DEFINE c == Chunks(r)[k]
           o == p[k - 1]
           q == o + LineLen(r)
<1>1. c \in Nat /\ n \in Nat
  <2>1. n \in Nat /\ Chunks(r) \in [1 .. n -> Lengths]
    BY ChunksAre
  <2>2. c \in Lengths
    BY <2>1
  <2> QED
    BY <2>1, <2>2, BytesAre
<1>2. LineLen(r) \in Nat /\ k - 1 \in 0 .. n /\ o \in Nat /\ q \in Nat /\ o <= q
  <2>1. 0 \in Lengths
    BY BytesAre
  <2>2. LineLen(r) \in Nat
    BY <2>1, LineIs
  <2>3. k - 1 \in 0 .. n
    BY <1>1
  <2>4. o \in Nat
    BY <2>3
  <2> HIDE DEF o
  <2> QED
    BY <2>2, <2>3, <2>4
<1>3. /\ \A j \in o + 1 .. q : b[j] = LengthLine(r, c)[j - o]
      /\ \A j \in q + 1 .. q + c : b[j] = r.body[f[k - 1] + (j - q)]
      /\ b[q + c + 1] = CR /\ b[q + c + 2] = LF
      /\ f[k] = f[k - 1] + c /\ p[k] = q + c + 2
  BY DEF FrameIn
<1> HIDE DEF c, q, o
<1>4. \A j \in o + 1 .. q + c + 2 : d[j] = b[j]
  <2>1. \A j \in o + 1 .. q + c + 2 : j \in 1 .. m
    <3>1. p[k] = q + c + 2 /\ p[k] <= m
      BY <1>3
    <3>2. q + c + 2 <= m
      BY <3>1
    <3> QED
      BY <1>1, <1>2, <3>2
  <2> QED
    BY <2>1
<1>5. /\ \A j \in o + 1 .. q : j \in o + 1 .. q + c + 2
      /\ \A j \in q + 1 .. q + c : j \in o + 1 .. q + c + 2
      /\ q + c + 1 \in o + 1 .. q + c + 2 /\ q + c + 2 \in o + 1 .. q + c + 2
  BY <1>1, <1>2
<1>6. /\ \A j \in o + 1 .. q : d[j] = LengthLine(r, c)[j - o]
      /\ \A j \in q + 1 .. q + c : d[j] = r.body[f[k - 1] + (j - q)]
      /\ d[q + c + 1] = CR /\ d[q + c + 2] = LF
  BY <1>3, <1>4, <1>5
<1> QED
  BY <1>3, <1>6 DEF FrameIn, c, q, o

(* The chunks make up the body.                                            *)
LEMMA FromIsTotal ==
    ASSUME NEW r \in Chunked, NEW m, m = Len(r.split), NEW f \in [0 .. m + 1 -> Nat], f[0] = 0,
           \A k \in 1 .. m + 1 : f[k] = f[k - 1] + Chunks(r)[k]
    PROVE  f[m + 1] = Len(r.body)
<1>1. /\ m \in Nat /\ \A k \in 1 .. m : Chunks(r)[k] = r.split[k]
      /\ Chunks(r)[m + 1] = 0
  BY ChunksAre
<1>2. r.split \in [1 .. m -> Nat]
  <2>1. r.split \in Seq(1 .. 3)
    BY ChunkedIs, BytesAre
  <2> QED
    BY <2>1
<1>3. PICK a : /\ a[0] = 0 /\ Total(r.split) = a[m]
               /\ \A k \in 1 .. m : a[k] = a[k - 1] + r.split[k]
  BY <1>1, <1>2, TotalUnrolled
<1> DEFINE Bad == {k \in 0 .. m : a[k] # f[k]}
<1>4. ASSUME Bad # {} PROVE FALSE
  <2>1. PICK k \in Bad : \A j \in Bad : k <= j
    <3>1. Bad \in SUBSET (0 .. m)
      OBVIOUS
    <3> HIDE DEF Bad
    <3> QED
      BY <1>1, <1>4, <3>1, LeastOf
  <2>2. k \in 0 .. m /\ a[k] # f[k] /\ k # 0
    BY <1>3
  <2>3. k \in 1 .. m /\ k - 1 \in 0 .. m /\ k - 1 < k /\ k \in 1 .. m + 1
    BY <1>1, <2>2
  <2>4. k - 1 \notin Bad
    <3> HIDE DEF Bad
    <3> QED
      BY <2>1, <2>3
  <2>5. a[k - 1] = f[k - 1]
    BY <2>3, <2>4
  <2>6. a[k] = a[k - 1] + r.split[k] /\ f[k] = f[k - 1] + r.split[k]
    BY <1>1, <1>3, <2>3
  <2> QED
    BY <2>2, <2>5, <2>6
<1>5. m \in 0 .. m /\ m + 1 \in 1 .. m + 1
  BY <1>1
<1>6. a[m] = f[m]
  BY <1>4, <1>5
<1>7. f[m + 1] = f[m] + 0 /\ f[m] \in Nat
  BY <1>1, <1>5
<1> QED
  BY <1>3, <1>6, <1>7, ChunkedIs

(* So the report is laid out in frames.                                    *)
LEMMA WireIs ==
    ASSUME NEW r \in Chunked
    PROVE  \E f, p : Layout(r, Framed(r).bytes, f, p)
<1> DEFINE n == Len(r.split) + 1
<1>1. n \in Nat /\ n - 1 = Len(r.split) /\ Chunks(r) \in [1 .. n -> Lengths]
  BY ChunksAre
<1>2. PICK w : /\ w[0] = NoFrame /\ Framed(r) = w[n]
               /\ \A k \in 1 .. n : w[k] = NextFrame(r, w[k - 1], Chunks(r)[k])
  BY FramesUnrolled
<1> DEFINE f == [k \in 0 .. n |-> w[k].from]
           p == [k \in 0 .. n |-> Len(w[k].bytes)]
           Good(k) == /\ w[k] \in States(r)
                      /\ \A i \in 0 .. k : f[i] <= f[k] /\ p[i] <= p[k]
                      /\ \A j \in 1 .. k : FrameIn(r, w[k].bytes, f, p, j)
           Bad == {k \in 0 .. n : w[k] \notin States(r)}
           Worse == {k \in 0 .. n : ~Good(k)}
<1> HIDE DEF n
<1>3. ASSUME Bad # {} PROVE FALSE
  <2>1. PICK k \in Bad : \A j \in Bad : k <= j
    <3>1. Bad \in SUBSET (0 .. n)
      OBVIOUS
    <3> HIDE DEF Bad
    <3> QED
      BY <1>1, <1>3, <3>1, LeastOf
  <2>2. w[0] \in States(r)
    <3>1. <<>> \in Seq(Anything(r)) /\ {} \in SUBSET Nat /\ 0 \in Nat
      OBVIOUS
    <3> QED
      BY <1>2, <3>1 DEF NoFrame, States
  <2>3. k \in 0 .. n /\ w[k] \notin States(r) /\ k # 0
    BY <2>2
  <2>4. k \in 1 .. n /\ k - 1 \in 0 .. n /\ k - 1 < k
    BY <1>1, <2>3
  <2>5. k - 1 \notin Bad
    <3> HIDE DEF Bad
    <3> QED
      BY <2>1, <2>4
  <2>6. w[k - 1] \in States(r) /\ Chunks(r)[k] \in Lengths
    BY <1>1, <2>4, <2>5
  <2>7. NextFrame(r, w[k - 1], Chunks(r)[k]) \in States(r)
    BY <2>6, FrameIs
  <2> QED
    BY <1>2, <2>3, <2>4, <2>7
<1>4. \A k \in 0 .. n : w[k] \in States(r)
  BY <1>3
<1>5. f \in [0 .. n -> Nat] /\ p \in [0 .. n -> Nat]
  <2>1. \A k \in 0 .. n : w[k].from \in Nat /\ w[k].bytes \in Seq(Anything(r))
    BY <1>4 DEF States
  <2> QED
    BY <2>1
<1>6. ASSUME NEW k \in 1 .. n
      PROVE  LET c == Chunks(r)[k]
             IN  /\ c \in Nat /\ FrameIn(r, w[k].bytes, f, p, k)
                 /\ p[k] = p[k - 1] + LineLen(r) + c + 2
                 /\ f[k] = f[k - 1] + c
                 /\ \A j \in 1 .. p[k - 1] : w[k].bytes[j] = w[k - 1].bytes[j]
  <2> DEFINE c == Chunks(r)[k]
             g == w[k - 1]
             h == NextFrame(r, g, c)
             o == Len(g.bytes)
             q == o + LineLen(r)
  <2>1. k \in 0 .. n /\ k - 1 \in 0 .. n /\ c \in Lengths /\ c \in Nat
    <3>1. c \in Lengths
      BY <1>1
    <3> QED
      BY <1>1, <3>1, BytesAre
  <2>2. g \in States(r) /\ w[k] = h
    BY <1>2, <1>4, <2>1
  <2>3. /\ h \in States(r) /\ o \in Nat /\ h.from = g.from + c
        /\ Len(h.bytes) = q + c + 2
        /\ \A j \in 1 .. o : h.bytes[j] = g.bytes[j]
        /\ \A j \in o + 1 .. q : h.bytes[j] = LengthLine(r, c)[j - o]
        /\ \A j \in q + 1 .. q + c : h.bytes[j] = r.body[g.from + (j - q)]
        /\ h.bytes[q + c + 1] = CR /\ h.bytes[q + c + 2] = LF
    BY <2>1, <2>2, FrameIs
  <2>4. f[k - 1] = g.from /\ p[k - 1] = o /\ f[k] = h.from /\ p[k] = Len(h.bytes)
    BY <2>1, <2>2
  <2> HIDE DEF f, p, g, h, c, o
  <2>5. FrameIn(r, h.bytes, f, p, k)
    BY <2>3, <2>4 DEF FrameIn, c
  <2>6. w[k - 1] = g
    BY DEF g
  <2> QED
    BY <2>1, <2>2, <2>3, <2>4, <2>5, <2>6 DEF c
<1>7. f[0] = 0 /\ p[0] = 0
  <2>1. w[0].from = 0 /\ w[0].bytes = <<>> /\ 0 \in 0 .. n
    BY <1>1, <1>2 DEF NoFrame
  <2> QED
    BY <2>1
<1>8. Framed(r) = w[n] /\ n \in 0 .. n /\ p[n] = Len(w[n].bytes)
  BY <1>1, <1>2
<1> HIDE DEF f, p
<1>9. ASSUME Worse # {} PROVE FALSE
  <2>1. PICK k \in Worse : \A j \in Worse : k <= j
    <3>1. Worse \in SUBSET (0 .. n)
      OBVIOUS
    <3> HIDE DEF Worse
    <3> QED
      BY <1>1, <1>9, <3>1, LeastOf
  <2>2. Good(0)
    <3>1. 0 \in 0 .. n /\ \A i \in 0 .. 0 : i = 0
      BY <1>1
    <3>2. 1 .. 0 = {}
      OBVIOUS
    <3> QED
      BY <1>4, <1>7, <3>1, <3>2
  <2>3. k \in 0 .. n /\ ~Good(k) /\ k # 0
    BY <2>2
  <2> HIDE DEF Good
  <2>4. k \in 1 .. n /\ k - 1 \in 0 .. n /\ k - 1 < k /\ k - 1 \in Nat
    BY <1>1, <2>3
  <2>5. k - 1 \notin Worse
    <3> HIDE DEF Worse
    <3> QED
      BY <2>1, <2>4
  <2>6. Good(k - 1)
    BY <2>4, <2>5
  <2>7. /\ \A i \in 0 .. k - 1 : f[i] <= f[k - 1] /\ p[i] <= p[k - 1]
        /\ \A j \in 1 .. k - 1 : FrameIn(r, w[k - 1].bytes, f, p, j)
    BY <2>6 DEF Good
  <2>8. /\ f[k] \in Nat /\ p[k] \in Nat /\ f[k - 1] \in Nat /\ p[k - 1] \in Nat
        /\ f[k - 1] <= f[k] /\ p[k - 1] <= p[k]
    <3>1. LineLen(r) \in Nat /\ 0 \in Lengths
      BY BytesAre, LineIs
    <3>2. f[k] \in Nat /\ p[k] \in Nat /\ f[k - 1] \in Nat /\ p[k - 1] \in Nat
      BY <1>5, <2>3, <2>4
    <3> QED
      BY <1>6, <2>4, <3>1, <3>2
  <2>9. ASSUME NEW i \in 0 .. k PROVE f[i] <= f[k] /\ p[i] <= p[k]
    <3>1. f[i] \in Nat /\ p[i] \in Nat /\ (i \in 0 .. k - 1 \/ i = k)
      BY <1>1, <1>5, <2>3, <2>4
    <3> QED
      BY <2>7, <2>8, <3>1
  <2>10. ASSUME NEW j \in 1 .. k PROVE FrameIn(r, w[k].bytes, f, p, j)
    <3>1. CASE j = k
      BY <1>6, <2>4, <3>1
    <3>2. CASE j # k
      <4>1. j \in 1 .. k - 1 /\ j \in 0 .. k - 1 /\ j \in 1 .. n
        BY <1>1, <2>4, <3>2
      <4>2. FrameIn(r, w[k - 1].bytes, f, p, j) /\ p[j] <= p[k - 1]
        BY <2>7, <4>1
      <4>3. \A i \in 1 .. p[k - 1] : w[k].bytes[i] = w[k - 1].bytes[i]
        BY <1>6, <2>4
      <4> QED
        BY <1>5, <2>8, <4>1, <4>2, <4>3, FrameStays DEF n
    <3> QED
      BY <3>1, <3>2
  <2>11. Good(k)
    BY <1>4, <2>3, <2>9, <2>10 DEF Good
  <2> QED
    BY <2>3, <2>11
<1>10. Good(n)
  BY <1>8, <1>9
<1>11. f[n] = Len(r.body)
  <2> DEFINE m == Len(r.split)
  <2>1. n = m + 1
    BY DEF n
  <2> HIDE DEF m
  <2>2. \A k \in 1 .. m + 1 : f[k] = f[k - 1] + Chunks(r)[k]
    BY <1>6, <2>1
  <2>3. f \in [0 .. m + 1 -> Nat]
    BY <1>5, <2>1
  <2>4. m = Len(r.split)
    BY DEF m
  <2> QED
    BY <1>7, <2>1, <2>2, <2>3, <2>4, FromIsTotal
<1>12. w[n].bytes \in Seq(Anything(r))
  BY <1>4, <1>8 DEF States
<1>13. Layout(r, w[n].bytes, f, p)
  BY <1>1, <1>5, <1>7, <1>8, <1>10, <1>11, <1>12 DEF Layout, n
<1> QED
  BY <1>8, <1>13

-----------------------------------------------------------------------------
(* The number on a line.                                                   *)
DigitOf(c) == CHOOSE d \in DOMAIN Digits : Digits[d] = c

LEMMA DigitIs == ASSUME NEW d \in 1 .. 4
                 PROVE  DigitOf(Digits[d]) = d /\ Contains(Digits, Digits[d])
<1>1. \A e \in 1 .. 4 : Digits[e] = Digits[d] => e = d
  <2>1. \A e \in 1 .. 4 : e = 1 \/ e = 2 \/ e = 3 \/ e = 4
    OBVIOUS
  <2>2. Digits[1] = "0" /\ Digits[2] = "1" /\ Digits[3] = "2" /\ Digits[4] = "3"
    BY BytesAre
  <2> QED
    BY <2>1, <2>2
<1>2. DOMAIN Digits = 1 .. 4 /\ Len(Digits) = 4
  BY BytesAre
<1>3. DigitOf(Digits[d]) \in 1 .. 4 /\ Digits[DigitOf(Digits[d])] = Digits[d]
  BY <1>2 DEF DigitOf
<1>4. Contains(Digits, Digits[d])
  BY <1>2 DEF Contains
<1> QED
  BY <1>1, <1>3, <1>4

LEMMA ValueUnrolled ==
    ASSUME NEW n \in Nat \ {0}, NEW line \in [1 .. n -> {Digits[d] : d \in 1 .. 4}]
    PROVE  \E a : /\ a[0] = 0 /\ Value(line) = a[n]
                  /\ \A k \in 1 .. n : a[k] = 16 * a[k - 1] + DigitOf(line[k]) - 1
<1> DEFINE D == SUBSET (1 .. n)
           step == [x \in Int \X (1 .. n) |-> 16 * x[1] + DigitOf(line[x[2]]) - 1]
           Value_(g) == g = [s \in D |-> IF s = {} THEN 0
                                ELSE 16 * g[s \ {Max(s)}] + DigitOf(line[Max(s)]) - 1]
           iter == CHOOSE g : Value_(g)
           a == [k \in 0 .. n |-> iter[1 .. k]]
<1>1. \A i \in 1 .. n : DigitOf(line[i]) \in Int /\ Contains(Digits, line[i])
  <2> SUFFICES ASSUME NEW i \in 1 .. n
               PROVE  DigitOf(line[i]) \in Int /\ Contains(Digits, line[i])
    OBVIOUS
  <2>1. PICK d \in 1 .. 4 : line[i] = Digits[d]
    OBVIOUS
  <2> QED
    BY <2>1, DigitIs
<1>2. \E g : Value_(g)
  <2>1. step \in [Int \X (1 .. n) -> Int]
    <3>1. ASSUME NEW x \in Int \X (1 .. n)
          PROVE  16 * x[1] + DigitOf(line[x[2]]) - 1 \in Int
      <4>1. x[1] \in Int /\ DigitOf(line[x[2]]) \in Int
        BY <1>1, <3>1
      <4> QED
        BY <4>1
    <3> QED
      BY <3>1
  <2> HIDE DEF step
  <2>0. 0 \in Int /\ n \in Nat
    OBVIOUS
  <2>2. PICK g \in [D -> Int] : UnrollsFold(g, 0, step, n)
    BY <2>0, <2>1, FoldExists
  <2>3. ASSUME NEW s \in D, s # {}
        PROVE  step[<<g[s \ {Max(s)}], Max(s)>>]
                   = 16 * g[s \ {Max(s)}] + DigitOf(line[Max(s)]) - 1
    <3>1. Max(s) \in 1 .. n /\ s \ {Max(s)} \in D
      BY <2>3, LastOf
    <3>2. <<g[s \ {Max(s)}], Max(s)>> \in Int \X (1 .. n)
      BY <3>1
    <3> QED
      BY <3>2 DEF step
  <2>4. Value_(g)
    BY <2>2, <2>3 DEF UnrollsFold
  <2> QED
    BY <2>4
<1>3. Value_(iter)
  BY <1>2
<1>4. Value(line) = iter[1 .. n]
  <2>1. DOMAIN line = 1 .. n
    OBVIOUS
  <2>2. line # <<>> /\ \A i \in DOMAIN line : Contains(Digits, line[i])
    BY <1>1, <2>1
  <2>3. Value(line) = FoldLeft(LAMBDA v, c : 16 * v + DigitOf(c) - 1, 0, line)
    BY <2>2 DEF Value, DigitOf
  <2> QED
    BY <2>1, <2>3 DEF FoldLeft, MapThenFoldSet
<1> HIDE DEF iter
<1>5. a[0] = 0 /\ Value(line) = a[n]
  <2>1. 1 .. 0 = {} /\ {} \in D
    OBVIOUS
  <2>2. iter[1 .. 0] = 0
    BY <1>3, <2>1
  <2> QED
    BY <1>4, <2>2
<1>6. ASSUME NEW k \in 1 .. n PROVE a[k] = 16 * a[k - 1] + DigitOf(line[k]) - 1
  <2>1. iter[1 .. k] = 16 * iter[1 .. k - 1] + DigitOf(line[k]) - 1
    <3>1. 1 .. k \in D /\ 1 .. k # {} /\ Max(1 .. k) = k /\ (1 .. k) \ {Max(1 .. k)} = 1 .. k - 1
      BY UpTo
    <3>2. iter[1 .. k] = 16 * iter[(1 .. k) \ {Max(1 .. k)}] + DigitOf(line[Max(1 .. k)]) - 1
      BY <1>3, <3>1
    <3> QED
      BY <3>1, <3>2
  <2>2. k \in 0 .. n /\ k - 1 \in 0 .. n
    OBVIOUS
  <2> QED
    BY <2>1, <2>2
<1> HIDE DEF a
<1> QED
  BY <1>5, <1>6

(* Zeros in front of a digit do not count.                                 *)
LEMMA ValueIs ==
    ASSUME NEW n \in Nat \ {0}, NEW m \in Lengths, NEW line, DOMAIN line = 1 .. n,
           line \in [1 .. n -> Bytes],
           \A j \in 1 .. n - 1 : line[j] = "0", line[n] = Digits[m + 1]
    PROVE  Value(line) = m
<1>1. /\ "0" = Digits[1] /\ m \in 0 .. 3 /\ m + 1 \in 1 .. 4 /\ 1 \in 1 .. 4
      /\ DigitOf("0") = 1 /\ DigitOf(Digits[m + 1]) = m + 1
  BY BytesAre, DigitIs
<1>2. line \in [1 .. n -> {Digits[d] : d \in 1 .. 4}]
  <2>1. \A j \in 1 .. n : j \in 1 .. n - 1 \/ j = n
    OBVIOUS
  <2>2. \A j \in 1 .. n : line[j] \in {Digits[d] : d \in 1 .. 4}
    BY <1>1, <2>1
  <2> QED
    BY <2>2
<1>3. PICK a : /\ a[0] = 0 /\ Value(line) = a[n]
               /\ \A k \in 1 .. n : a[k] = 16 * a[k - 1] + DigitOf(line[k]) - 1
  BY <1>2, ValueUnrolled
<1> DEFINE Bad == {k \in 0 .. n - 1 : a[k] # 0}
<1>4. ASSUME Bad # {} PROVE FALSE
  <2>1. PICK k \in Bad : \A j \in Bad : k <= j
    <3>1. Bad \in SUBSET (0 .. n - 1) /\ n - 1 \in Nat
      OBVIOUS
    <3> HIDE DEF Bad
    <3> QED
      BY <1>4, <3>1, LeastOf
  <2>2. k \in 0 .. n - 1 /\ a[k] # 0 /\ k # 0
    BY <1>3
  <2>3. k \in 1 .. n - 1 /\ k \in 1 .. n /\ k - 1 \in 0 .. n - 1 /\ k - 1 < k
    BY <2>2
  <2>4. k - 1 \notin Bad
    <3> HIDE DEF Bad
    <3> QED
      BY <2>1, <2>3
  <2>5. a[k - 1] = 0
    BY <2>3, <2>4
  <2>6. a[k] = 16 * 0 + 1 - 1
    BY <1>1, <1>3, <2>3, <2>5
  <2> QED
    BY <2>2, <2>6
<1>5. n - 1 \in 0 .. n - 1 /\ n \in 1 .. n
  OBVIOUS
<1>6. a[n - 1] = 0
  BY <1>4, <1>5
<1>7. a[n] = 16 * 0 + (m + 1) - 1
  BY <1>1, <1>3, <1>5, <1>6
<1> QED
  BY <1>1, <1>3, <1>7

(* A line with an extension is no number.                                  *)
LEMMA NoValue ==
    ASSUME NEW line, NEW j \in DOMAIN line, line[j] = Semicolon
    PROVE  Value(line) = BadLength
<1>1. ~Contains(Digits, Semicolon)
  BY BytesAre DEF Contains
<1> QED
  BY <1>1 DEF Value

-----------------------------------------------------------------------------
(* Where a line ends.                                                      *)
LEMMA SuffixIs ==
    ASSUME NEW line \in Seq(Bytes)
    PROVE  IsSuffix(Delimiter, line)
               <=> Len(line) >= 2 /\ line[Len(line) - 1] = CR /\ line[Len(line)] = LF
<1> DEFINE d == Reverse(Delimiter)
           t == Reverse(line)
<1>1. Len(line) \in Nat
  OBVIOUS
<1>2. d \in Seq(Bytes) /\ Len(d) = 2 /\ d[1] = LF /\ d[2] = CR
  BY BytesAre DEF Reverse
<1>3. /\ t \in Seq(Bytes) /\ Len(t) = Len(line)
      /\ \A i \in 1 .. Len(line) : t[i] = line[(Len(line) - i) + 1]
  BY DEF Reverse
<1>4. IsSuffix(Delimiter, line) <=> Len(d) <= Len(t) /\ SubSeq(d, 1, Len(d)) = SubSeq(t, 1, Len(d))
  BY DEF IsSuffix, IsPrefix
<1> HIDE DEF d, t
<1>5. SubSeq(d, 1, 2) = [i \in 1 .. 2 |-> d[i]] /\ SubSeq(t, 1, 2) = [i \in 1 .. 2 |-> t[i]]
  BY <1>2, <1>3
<1>6. ASSUME Len(line) >= 2
      PROVE  /\ (SubSeq(d, 1, 2) = SubSeq(t, 1, 2)) <=> (t[1] = LF /\ t[2] = CR)
             /\ t[1] = line[Len(line)] /\ t[2] = line[Len(line) - 1]
  <2>1. 1 \in 1 .. 2 /\ 2 \in 1 .. 2 /\ \A i \in 1 .. 2 : i = 1 \/ i = 2
    OBVIOUS
  <2>2. (SubSeq(d, 1, 2) = SubSeq(t, 1, 2)) <=> (d[1] = t[1] /\ d[2] = t[2])
    BY <1>5, <2>1
  <2>3. 1 \in 1 .. Len(line) /\ 2 \in 1 .. Len(line)
    BY <1>1, <1>6
  <2>4. (Len(line) - 1) + 1 = Len(line) /\ (Len(line) - 2) + 1 = Len(line) - 1
    BY <1>1
  <2> QED
    BY <1>2, <1>3, <2>2, <2>3, <2>4
<1> QED
  BY <1>1, <1>2, <1>3, <1>4, <1>6

(* What is read of the line of a length ends with CR LF if all of it is    *)
(* read.  If it does earlier there is an extension, and no number.         *)
LEMMA LineEnds ==
    ASSUME NEW r \in Chunked, NEW m \in Lengths, NEW line \in Seq(Bytes),
           NEW l, l = Len(line), l <= LineLen(r),
           \A j \in 1 .. l : line[j] = LengthLine(r, m)[j]
    PROVE  /\ l = LineLen(r) => IsSuffix(Delimiter, line)
           /\ IsSuffix(Delimiter, line) =>
                 IF r.extension = <<>> THEN l = LineLen(r) /\ Value(SubSeq(line, 1, l - 2)) = m
                 ELSE Value(SubSeq(line, 1, l - 2)) = BadLength
<1> DEFINE w == r.width
           x == Len(r.extension)
           t == LengthLine(r, m)
<1>1. /\ w \in Nat \ {0} /\ x \in Nat /\ l \in Nat /\ r.extension \in Seq(Bytes)
      /\ r.extension = <<>> => x = 0
      /\ r.extension # <<>> => x >= 1 /\ r.extension[1] = Semicolon
  BY ChunkedIs
<1>2. /\ LineLen(r) = w + x + 2 /\ LineLen(r) \in Nat
      /\ \A j \in 1 .. w - 1 : t[j] = "0"
      /\ t[w] = Digits[m + 1]
      /\ \A j \in w + 1 .. w + x : t[j] = r.extension[j - w]
      /\ t[LineLen(r) - 1] = CR /\ t[LineLen(r)] = LF
  BY LineIs
<1>3. /\ "0" \notin {CR, LF} /\ Digits[m + 1] \notin {CR, LF}
      /\ CR # LF /\ LF # Semicolon /\ CR # Semicolon
  <2>1. m + 1 \in 1 .. 4 /\ 1 \in 1 .. 4 /\ Digits[1] = "0"
    BY BytesAre
  <2> QED
    BY <2>1, BytesAre
<1> HIDE DEF w, x, t
<1>4. \A j \in 1 .. l : line[j] = t[j]
  BY DEF t
<1>5. ASSUME l = LineLen(r) PROVE IsSuffix(Delimiter, line)
  <2>1. l >= 2 /\ l - 1 \in 1 .. l /\ l \in 1 .. l
    BY <1>1, <1>2, <1>5
  <2>2. line[l - 1] = CR /\ line[l] = LF
    BY <1>2, <1>4, <1>5, <2>1
  <2> QED
    BY <2>1, <2>2, SuffixIs
<1>6. ASSUME IsSuffix(Delimiter, line)
      PROVE  IF r.extension = <<>> THEN l = LineLen(r) /\ Value(SubSeq(line, 1, l - 2)) = m
             ELSE Value(SubSeq(line, 1, l - 2)) = BadLength
  <2>1. l >= 2 /\ line[l - 1] = CR /\ line[l] = LF
    BY <1>6, SuffixIs
  <2>2. t[l - 1] = CR /\ t[l] = LF
    <3>1. l - 1 \in 1 .. l /\ l \in 1 .. l
      BY <1>1, <2>1
    <3> QED
      BY <1>4, <2>1, <3>1
  <2>3. \A j \in 1 .. w : t[j] # CR /\ t[j] # LF
    <3>1. \A j \in 1 .. w : j \in 1 .. w - 1 \/ j = w
      BY <1>1
    <3> QED
      BY <1>2, <1>3, <3>1
  <2>4. l - 1 > w
    <3>1. l - 1 \in Int /\ l - 1 >= 1 /\ w \in Int
      BY <1>1, <2>1
    <3>2. l - 1 <= w => l - 1 \in 1 .. w
      BY <3>1
    <3> QED
      BY <2>2, <2>3, <3>1, <3>2
  <2>5. SubSeq(line, 1, l - 2) = [j \in 1 .. l - 2 |-> line[j]]
    BY <1>1
  <2>6. CASE r.extension = <<>>
    <3>1. l = LineLen(r)
      BY <1>1, <1>2, <2>4, <2>6
    <3> DEFINE digits == SubSeq(line, 1, l - 2)
    <3>2. l - 2 = w
      BY <1>1, <1>2, <2>6, <3>1
    <3>3. /\ DOMAIN digits = 1 .. w
          /\ \A j \in 1 .. w : digits[j] = line[j]
      BY <2>5, <3>2
    <3>4. digits \in [1 .. w -> Bytes]
      <4>1. \A j \in 1 .. w : line[j] \in Bytes
        BY <1>1, <2>4
      <4> QED
        BY <2>5, <3>2, <4>1
    <3> HIDE DEF digits
    <3>5. \A j \in 1 .. w - 1 : digits[j] = "0"
      BY <1>1, <1>2, <1>4, <2>4, <3>3
    <3>6. digits[w] = Digits[m + 1]
      BY <1>1, <1>2, <1>4, <2>4, <3>3
    <3>7. Value(digits) = m
      BY <1>1, <3>3, <3>4, <3>5, <3>6, ValueIs
    <3> QED
      BY <2>6, <3>1, <3>7 DEF digits
  <2>7. CASE r.extension # <<>>
    <3> DEFINE digits == SubSeq(line, 1, l - 2)
    <3>1. w + 1 \in w + 1 .. w + x /\ (w + 1) - w = 1
      BY <1>1, <2>7
    <3>2. t[w + 1] = Semicolon
      BY <1>1, <1>2, <2>7, <3>1
    <3>3. l - 1 # w + 1
      BY <1>3, <2>2, <3>2
    <3>4. w + 1 \in 1 .. l - 2 /\ w + 1 \in 1 .. l
      BY <1>1, <2>4, <3>3
    <3>5. w + 1 \in DOMAIN digits /\ digits[w + 1] = Semicolon
      BY <1>4, <2>5, <3>2, <3>4
    <3> HIDE DEF digits
    <3>6. Value(digits) = BadLength
      BY <3>5, NoValue
    <3> QED
      BY <2>7, <3>6 DEF digits
  <2> QED
    BY <2>6, <2>7
<1> QED
  BY <1>5, <1>6

(* Pieces and beginnings of a body.                                        *)
LEMMA SubSeqIs ==
    ASSUME NEW S, NEW s \in Seq(S), NEW a \in Nat, NEW c \in Nat
    PROVE  SubSeq(s, a + 1, a + c) = [i \in 1 .. c |-> s[i + a]]
OBVIOUS

LEMMA Beginnings ==
    ASSUME NEW S, NEW s \in Seq(S), NEW a \in Nat, a <= Len(s)
    PROVE  /\ IsPrefix(SubSeq(s, 1, a), s) /\ SubSeq(s, 1, Len(s)) = s
           /\ SubSeq(s, 1, a) \in Seq(S) /\ Len(SubSeq(s, 1, a)) = a
           /\ \A i \in 1 .. a : SubSeq(s, 1, a)[i] = s[i]
<1> DEFINE b == SubSeq(s, 1, a)
<1>1. b \in Seq(S) /\ Len(b) = a /\ \A i \in 1 .. a : b[i] = s[i]
  OBVIOUS
<1>2. SubSeq(s, 1, Len(s)) = s
  OBVIOUS
<1>3. IsPrefix(b, s)
  <2>1. SubSeq(b, 1, a) = [i \in 1 .. a |-> b[i]] /\ SubSeq(s, 1, a) = [i \in 1 .. a |-> s[i]]
    OBVIOUS
  <2> HIDE DEF b
  <2> QED
    BY <1>1, <2>1 DEF IsPrefix
<1> QED
  BY <1>1, <1>2, <1>3

LEMMA BeginningGrows ==
    ASSUME NEW S, NEW s \in Seq(S), NEW a \in Nat, NEW c \in Nat, a + c <= Len(s)
    PROVE  SubSeq(s, 1, a) \o SubSeq(s, a + 1, a + c) = SubSeq(s, 1, a + c)
<1> DEFINE b == SubSeq(s, 1, a)
           t == SubSeq(s, a + 1, a + c)
           u == SubSeq(s, 1, a + c)
           v == b \o t
<1>1. b \in Seq(S) /\ Len(b) = a /\ \A i \in 1 .. a : b[i] = s[i]
  OBVIOUS
<1>2. t \in Seq(S) /\ Len(t) = c /\ \A i \in 1 .. c : t[i] = s[i + a]
  OBVIOUS
<1>3. u \in Seq(S) /\ Len(u) = a + c /\ \A i \in 1 .. a + c : u[i] = s[i]
  OBVIOUS
<1> HIDE DEF b, t, u
<1>4. Joins(v, S, b, t)
  BY <1>1, <1>2, Joined
<1> HIDE DEF v
<1>5. v \in Seq(S) /\ Len(v) = a + c
  BY <1>1, <1>2, <1>4 DEF Joins
<1>6. \A i \in 1 .. a : v[i] = u[i]
  BY <1>1, <1>3, <1>4 DEF Joins
<1>7. ASSUME NEW i \in a + 1 .. a + c PROVE v[i] = u[i]
  <2>1. v[i] = t[i - a]
    BY <1>1, <1>2, <1>4 DEF Joins
  <2>2. i - a \in 1 .. c /\ (i - a) + a = i /\ i \in 1 .. a + c
    OBVIOUS
  <2> QED
    BY <1>2, <1>3, <2>1, <2>2
<1>8. \A i \in 1 .. a + c : v[i] = u[i]
  BY <1>6, <1>7
<1>9. v = u
  BY <1>3, <1>5, <1>8
<1> QED
  BY <1>9 DEF v, b, t, u

-----------------------------------------------------------------------------
(* Where frame k is among the bytes.                                       *)
LEMMA PlacesAre ==
    ASSUME NEW r \in Chunked, NEW b, NEW f, NEW p, Layout(r, b, f, p),
           NEW n, n = Len(r.split) + 1, NEW k \in 1 .. n
    PROVE  /\ n \in Nat /\ Chunks(r)[k] \in Lengths /\ Chunks(r)[k] \in Nat
           /\ f[k - 1] \in Nat /\ f[k] \in Nat /\ f[k] <= Len(r.body) /\ f[k - 1] <= Len(r.body)
           /\ p[k - 1] \in Nat /\ p[k] \in Nat /\ p[k] <= Len(b)
           /\ f[k] = f[k - 1] + Chunks(r)[k]
           /\ p[k] = p[k - 1] + LineLen(r) + Chunks(r)[k] + 2
           /\ LineLen(r) \in Nat /\ LineLen(r) >= 3
           /\ r.body \in Seq(Bytes)
           /\ k = n => Chunks(r)[k] = 0 /\ f[k - 1] = Len(r.body)
           /\ k # n => Chunks(r)[k] >= 1 /\ k \in 1 .. n - 1
<1>1. /\ n \in Nat /\ Len(r.split) = n - 1 /\ Chunks(r) \in [1 .. n -> Lengths]
      /\ \A i \in 1 .. n - 1 : Chunks(r)[i] = r.split[i]
      /\ Chunks(r)[n] = 0
  BY ChunksAre
<1>2. Chunks(r)[k] \in Lengths /\ Chunks(r)[k] \in Nat
  <2>1. Chunks(r)[k] \in Lengths
    BY <1>1
  <2> QED
    BY <2>1, BytesAre
<1>3. k - 1 \in 0 .. n /\ k \in 0 .. n /\ n \in 0 .. n
  BY <1>1
<1>4. /\ f \in [0 .. n -> Nat] /\ p \in [0 .. n -> Nat] /\ Len(b) = p[n] /\ f[n] = Len(r.body)
      /\ \A i \in 0 .. n : f[i] <= f[n] /\ p[i] <= p[n]
      /\ \A i \in 1 .. n : FrameIn(r, b, f, p, i)
  BY DEF Layout
<1>5. FrameIn(r, b, f, p, k)
  BY <1>4
<1>6. /\ f[k] = f[k - 1] + Chunks(r)[k]
      /\ p[k] = p[k - 1] + LineLen(r) + Chunks(r)[k] + 2
  BY <1>5 DEF FrameIn
<1>7. LineLen(r) \in Nat /\ LineLen(r) >= 3 /\ r.body \in Seq(Bytes)
  <2>1. /\ r.width \in Nat \ {0} /\ r.extension \in Seq(Bytes) /\ r.body \in Seq(Bytes)
        /\ r.split \in Seq(1 .. Len(Digits) - 1)
    BY ChunkedIs
  <2>2. Len(r.extension) \in Nat
    BY <2>1
  <2>3. LineLen(r) = r.width + Len(r.extension) + 2
    BY DEF LineLen
  <2>4. r.width + Len(r.extension) + 2 \in Nat /\ r.width + Len(r.extension) + 2 >= 3
    <3>1. r.width \in Nat /\ r.width >= 1
      BY <2>1
    <3> QED
      BY <2>2, <3>1
  <2> QED
    BY <2>1, <2>3, <2>4
<1>8. /\ f[k - 1] \in Nat /\ f[k] \in Nat /\ p[k - 1] \in Nat /\ p[k] \in Nat
      /\ f[k] <= f[n] /\ f[k - 1] <= f[n] /\ p[k] <= p[n]
  BY <1>3, <1>4
<1>9. k = n => Chunks(r)[k] = 0 /\ f[k - 1] = Len(r.body)
  BY <1>1, <1>4, <1>6, <1>8
<1>10. k # n => Chunks(r)[k] >= 1 /\ k \in 1 .. n - 1
  <2>1. SUFFICES ASSUME k # n PROVE Chunks(r)[k] >= 1 /\ k \in 1 .. n - 1
    OBVIOUS
  <2>2. k \in 1 .. n - 1
    BY <1>1, <2>1
  <2>3. r.split \in Seq(1 .. 3) /\ k \in 1 .. Len(r.split)
    BY <1>1, <2>2, ChunkedIs, BytesAre
  <2>4. r.split[k] \in 1 .. 3
    BY <2>3
  <2> QED
    BY <1>1, <2>2, <2>4
<1> QED
  BY <1>1, <1>2, <1>4, <1>6, <1>7, <1>8, <1>9, <1>10

-----------------------------------------------------------------------------
(* The inductive invariant.  Where the reader of chunks is in frame k: in  *)
(* the line of its length, of which buf is the beginning; behind that      *)
(* line; or behind its piece of the body, unless the connection ended in   *)
(* it.  What it has is the body up to there.                               *)
InLine(f, p, k) ==
    /\ pos = p[k - 1] + Len(buf)
    /\ buf \in Seq(Bytes) /\ Len(buf) < LineLen(request)
    /\ \A j \in 1 .. Len(buf) : buf[j] = LengthLine(request, Chunks(request)[k])[j]
    /\ binary_body = SubSeq(request.body, 1, f[k - 1])

BehindLine(f, p, k) ==
    /\ pos = p[k - 1] + LineLen(request)
    /\ buf = <<>> /\ read_len = Chunks(request)[k]
    /\ binary_body = SubSeq(request.body, 1, f[k - 1])

BehindPiece(f, p, k) ==
    /\ buf = <<>>
    /\ \/ pos = p[k] - 2 /\ binary_body = SubSeq(request.body, 1, f[k])
       \/ closed /\ pos = arrived

InFrames(f, p) ==
    LET n == Len(request.split) + 1
    IN  /\ reader_pc = "length" => \E k \in 1 .. n : InLine(f, p, k)
        /\ reader_pc = "chunk" => \E k \in 1 .. n - 1 : BehindLine(f, p, k)
        /\ reader_pc = "delimiter" => \E k \in 1 .. n - 1 : BehindPiece(f, p, k)

ReaderTyped ==
    /\ request \in Requests
    /\ arrived \in Nat /\ arrived <= Len(wire.bytes)
    /\ pos \in Nat /\ pos <= arrived

ReaderInv ==
    /\ ReaderTyped
    /\ request.kind # "chunked" => wire.bytes = request.body
    /\ request.kind = "chunked" =>
           \E f, p : Layout(request, wire.bytes, f, p) /\ InFrames(f, p)
    /\ reader_pc = "headers" => pos = 0 /\ buf = <<>> /\ binary_body = <<>>
    /\ reader_pc = "fixed" => request.kind = "fixed" /\ pos = 0
    /\ reader_pc \in {"length", "chunk", "delimiter"} => request.kind = "chunked"
    /\ BodyWhole

(* The headers are followed by a body, or by the first line of a length.   *)
LEMMA HeadersKeep == ASSUME ReaderInv, ReadHeaders PROVE ReaderInv'
<1>1. /\ request' = request /\ wire' = wire /\ arrived' = arrived /\ closed' = closed
      /\ pos' = pos /\ buf' = buf /\ read_len' = read_len /\ binary_body' = binary_body
      /\ reader_pc = "headers"
  BY DEF ReadHeaders
<1>2. ReaderTyped' /\ (request.kind # "chunked" => wire.bytes = request.body)'
  BY <1>1 DEF ReaderInv, ReaderTyped
<1>3. request.kind \in {"fixed", "chunked", "neither"}
  BY DEF ReaderInv, ReaderTyped, Requests
<1>4. pos = 0 /\ buf = <<>> /\ binary_body = <<>>
  BY <1>1 DEF ReaderInv
<1>5. CASE request.kind # "chunked"
  <2>1. reader_pc' \in {"fixed", "raised"} /\ (reader_pc' = "fixed" => request.kind = "fixed")
    BY <1>3, <1>5 DEF ReadHeaders
  <2>2. BodyWhole'
    BY <2>1 DEF BodyWhole
  <2> QED
    BY <1>1, <1>2, <1>4, <1>5, <2>1, <2>2 DEF ReaderInv
<1>6. CASE request.kind = "chunked"
  <2>1. reader_pc' = "length"
    BY <1>6 DEF ReadHeaders
  <2>2. BodyWhole'
    BY <2>1 DEF BodyWhole
  <2>3. request \in Chunked
    BY <1>6 DEF ReaderInv, ReaderTyped, Chunked
  <2>4. PICK f, p : Layout(request, wire.bytes, f, p)
    BY <1>6 DEF ReaderInv
  <2> DEFINE n == Len(request.split) + 1
  <2>5. n \in Nat /\ 1 \in 1 .. n /\ f[0] = 0 /\ p[0] = 0
    <3>1. n \in Nat /\ f[0] = 0 /\ p[0] = 0
      BY <2>4 DEF Layout
    <3>2. Len(request.split) \in Nat
      BY <2>3, ChunksAre
    <3> QED
      BY <3>1, <3>2
  <2>6. LineLen(request) >= 3 /\ LineLen(request) \in Nat /\ request.body \in Seq(Bytes)
    BY <2>3, <2>4, <2>5, PlacesAre
  <2>7. InLine(f, p, 1)'
    <3>1. Len(<<>>) = 0 /\ <<>> \in Seq(Bytes) /\ 1 - 1 = 0 /\ SubSeq(request.body, 1, 0) = <<>>
      BY <2>6
    <3> QED
      BY <1>1, <1>4, <2>5, <2>6, <3>1 DEF InLine
  <2>8. InFrames(f, p)'
    BY <1>1, <2>1, <2>5, <2>7 DEF InFrames
  <2>9. (\E g, q : Layout(request, wire.bytes, g, q) /\ InFrames(g, q))'
    BY <1>1, <2>4, <2>8
  <2> QED
    BY <1>1, <1>2, <1>6, <2>1, <2>2, <2>9 DEF ReaderInv
<1> QED
  BY <1>5, <1>6

(* One read of a body of known length.                                     *)
LEMMA FixedKeeps == ASSUME ReaderInv, ReadFixed PROVE ReaderInv'
<1> DEFINE b == request.body
           m == IF arrived < pos + Len(b) THEN arrived ELSE pos + Len(b)
<1>1. /\ request' = request /\ wire' = wire /\ arrived' = arrived /\ closed' = closed
      /\ reader_pc = "fixed" /\ reader_pc' = "post"
  BY DEF ReadFixed
<1>2. /\ request.kind = "fixed" /\ pos = 0 /\ wire.bytes = b
      /\ arrived \in Nat /\ arrived <= Len(b) /\ request \in Requests
  BY <1>1 DEF ReaderInv, ReaderTyped
<1>3. b \in Seq(Bytes) /\ Len(b) \in Nat
  <2>1. b \in Bodies
    BY <1>2 DEF Requests
  <2> QED
    BY <2>1, ReaderAssumption
<1>4. m \in Nat /\ m <= Len(b) /\ m <= arrived /\ m = arrived /\ (closed \/ m = Len(b))
  BY <1>2, <1>3 DEF ReadFixed, Available
<1>5. binary_body' = SubSeq(b, 1, m)
  BY <1>2 DEF ReadFixed, Got
<1> HIDE DEF b, m
<1>6. /\ IsPrefix(binary_body', b) /\ Len(binary_body') = m
      /\ m = Len(b) => binary_body' = b
  BY <1>3, <1>4, <1>5, Beginnings
<1>7. pos' = m
  <2>1. pos' = pos + Len(binary_body')
    BY DEF ReadFixed
  <2> QED
    BY <1>2, <1>4, <1>6, <2>1
<1>8. ReaderTyped'
  BY <1>1, <1>4, <1>7 DEF ReaderInv, ReaderTyped
<1>9. BodyWhole'
  BY <1>1, <1>2, <1>4, <1>6 DEF BodyWhole, b
<1> QED
  BY <1>1, <1>2, <1>8, <1>9 DEF ReaderInv, b

(* The next byte of a line: one more, or the end of the line, or none that *)
(* is read as a length.                                                    *)
LEMMA LengthByteKeeps == ASSUME ReaderInv, ReadLengthByte PROVE ReaderInv'
<1> DEFINE r == request
           n == Len(r.split) + 1
           line == buf \o Got(1)
<1>1. /\ request' = request /\ wire' = wire /\ arrived' = arrived /\ closed' = closed
      /\ binary_body' = binary_body /\ reader_pc = "length" /\ arrived > pos /\ pos' = pos + 1
  BY DEF ReadLengthByte
<1>2. r.kind = "chunked" /\ r \in Chunked
  BY <1>1 DEF ReaderInv, ReaderTyped, Chunked
<1>3. PICK f, p : Layout(r, wire.bytes, f, p) /\ InFrames(f, p)
  BY <1>2 DEF ReaderInv
<1>4. PICK k \in 1 .. n : InLine(f, p, k)
  BY <1>1, <1>3 DEF InFrames
<1> DEFINE c == Chunks(r)[k]
           L == LineLen(r)
           t == LengthLine(r, c)
           l == Len(buf) + 1
<1>5. /\ n \in Nat /\ c \in Lengths /\ c \in Nat /\ L \in Nat /\ r.body \in Seq(Bytes)
      /\ p[k - 1] \in Nat /\ f[k - 1] \in Nat /\ f[k - 1] <= Len(r.body)
      /\ k = n => c = 0 /\ f[k - 1] = Len(r.body)
      /\ k # n => c >= 1 /\ k \in 1 .. n - 1
  BY <1>2, <1>3, PlacesAre
<1>6. /\ pos = p[k - 1] + Len(buf) /\ buf \in Seq(Bytes) /\ Len(buf) < L
      /\ \A j \in 1 .. Len(buf) : buf[j] = t[j]
      /\ binary_body = SubSeq(r.body, 1, f[k - 1])
  BY <1>4 DEF InLine
<1>7. t \in Seq(Bytes) /\ Len(t) = L
  BY <1>2, <1>5, LineIs
<1>8. arrived \in Nat /\ arrived <= Len(wire.bytes) /\ pos \in Nat
  BY DEF ReaderInv, ReaderTyped
<1> HIDE DEF r, n, c, L, t
<1>9. /\ l \in Nat /\ l \in 1 .. L /\ Len(buf) \in Nat /\ l - 1 = Len(buf)
      /\ pos + 1 = p[k - 1] + l
  <2> DEFINE o == p[k - 1]
  <2>1. /\ o \in Nat /\ pos = o + Len(buf) /\ buf \in Seq(Bytes) /\ Len(buf) < L
        /\ L \in Nat
    BY <1>5, <1>6
  <2> HIDE DEF o
  <2>2. Len(buf) \in Nat
    BY <2>1
  <2>3. /\ l \in Nat /\ l \in 1 .. L /\ Len(buf) \in Nat /\ l - 1 = Len(buf)
        /\ pos + 1 = o + l
    BY <2>1, <2>2
  <2> QED
    BY <2>3 DEF o
<1>10. Got(1) = <<t[l]>> /\ t[l] \in Bytes
  <2>1. FrameIn(r, wire.bytes, f, p, k)
    BY <1>3 DEF Layout, n
  <2>2. p[k - 1] + l \in p[k - 1] + 1 .. p[k - 1] + L /\ (p[k - 1] + l) - p[k - 1] = l
    BY <1>5, <1>9
  <2>3. wire.bytes[p[k - 1] + l] = t[l]
    BY <2>1, <2>2 DEF FrameIn, t, c, L
  <2>4. pos + 1 = p[k - 1] + l
    BY <1>9
  <2>5. wire.bytes \in Seq(Anything(r))
    BY <1>3 DEF Layout
  <2>6. (IF arrived < pos + 1 THEN arrived ELSE pos + 1) = pos + 1
    BY <1>1, <1>8
  <2>7. SubSeq(wire.bytes, pos + 1, pos + 1) = <<wire.bytes[pos + 1]>>
    <3>1. SubSeq(wire.bytes, pos + 1, pos + 1) = [i \in 1 .. 1 |-> wire.bytes[i + pos]]
      BY <1>8, <2>5
    <3>2. [i \in 1 .. 1 |-> wire.bytes[i + pos]] = <<wire.bytes[1 + pos]>>
      OBVIOUS
    <3>3. 1 + pos = pos + 1
      BY <1>8
    <3> QED
      BY <3>1, <3>2, <3>3
  <2>8. Got(1) = <<wire.bytes[pos + 1]>>
    BY <2>6, <2>7 DEF Got
  <2> QED
    BY <1>7, <1>9, <2>3, <2>4, <2>8
<1>11. /\ line \in Seq(Bytes) /\ Len(line) = l
       /\ \A j \in 1 .. l : line[j] = t[j]
  <2>1. Got(1) \in Seq(Bytes) /\ Len(Got(1)) = 1 /\ Got(1)[1] = t[l]
    <3>1. \A e \in Bytes : <<e>> \in Seq(Bytes) /\ Len(<<e>>) = 1 /\ <<e>>[1] = e
      OBVIOUS
    <3>2. <<t[l]>> \in Seq(Bytes) /\ Len(<<t[l]>>) = 1 /\ <<t[l]>>[1] = t[l]
      BY <1>10, <3>1
    <3> QED
      BY <1>10, <3>2
  <2>2. Joins(line, Bytes, buf, Got(1))
    BY <1>6, <2>1, Joined
  <2> HIDE DEF line
  <2>3. line[l] = t[l]
    <3>1. l \in Len(buf) + 1 .. Len(buf) + Len(Got(1)) /\ l - Len(buf) = 1
      BY <1>9, <2>1
    <3> QED
      BY <2>1, <2>2, <3>1 DEF Joins
  <2>4. \A j \in 1 .. l : j \in 1 .. Len(buf) \/ j = l
    BY <1>9
  <2>5. \A j \in 1 .. Len(buf) : line[j] = t[j]
    BY <1>6, <2>2 DEF Joins
  <2> QED
    BY <2>1, <2>2, <2>3, <2>4, <2>5 DEF Joins
<1> DEFINE ends == IsSuffix(Delimiter, line)
           m == Value(SubSeq(line, 1, l - 2))
<1>12. /\ l = L => ends
       /\ ends => IF r.extension = <<>> THEN l = L /\ m = c ELSE m = BadLength
  <2>1. l <= L
    BY <1>9
  <2> HIDE DEF line, l
  <2>2. /\ l = LineLen(r) => IsSuffix(Delimiter, line)
        /\ IsSuffix(Delimiter, line) =>
                 IF r.extension = <<>> THEN l = LineLen(r) /\ m = c
                 ELSE m = BadLength
    BY <1>2, <1>5, <1>11, <2>1, LineEnds DEF r, t, L
  <2> QED
    BY <2>2 DEF L
<1>13. /\ ends => /\ read_len' = m /\ buf' = <<>>
                  /\ reader_pc' = IF m <= 0 THEN "post" ELSE "chunk"
       /\ ~ends /\ Len(line) = max_bytes => buf' = <<>> /\ reader_pc' = "post"
       /\ ~ends /\ Len(line) # max_bytes => buf' = line /\ reader_pc' = "length"
  <2>1. /\ ends => /\ read_len' = Value(SubSeq(line, 1, Len(line) - 2)) /\ buf' = <<>>
                   /\ reader_pc' = IF read_len' <= 0 THEN "post" ELSE "chunk"
        /\ ~ends /\ Len(line) = max_bytes => buf' = <<>> /\ reader_pc' = "post"
        /\ ~ends /\ Len(line) # max_bytes => buf' = line /\ reader_pc' = reader_pc
    BY DEF ReadLengthByte
  <2>2. Value(SubSeq(line, 1, Len(line) - 2)) = m
    BY <1>11
  <2> HIDE DEF line, ends, m
  <2> QED
    BY <1>1, <2>1, <2>2
<1> HIDE DEF ends, m
<1>14. ReaderTyped' /\ (request.kind # "chunked" => wire.bytes = request.body)'
  BY <1>1, <1>8 DEF ReaderInv, ReaderTyped
<1>15. /\ IsPrefix(binary_body, r.body)
       /\ k = n => binary_body = r.body
  BY <1>5, <1>6, Beginnings
<1>16. /\ r.extension # <<>> => ~Readable
       /\ ~ends /\ l = max_bytes => ~Readable
  <2>1. Readable => r.extension = <<>> /\ r.width + 2 <= max_bytes
    BY <1>2 DEF Readable, r
  <2>2. r.extension = <<>> => L = r.width + 2
    <3>1. r.width \in Nat
      BY <1>2, ChunkedIs
    <3> QED
      BY <3>1 DEF L, LineLen
  <2>3. ~ends => l < L
    BY <1>5, <1>9, <1>12
  <2>4. r.width \in Nat
    BY <1>2, ChunkedIs
  <2> QED
    BY <1>5, <1>9, <2>1, <2>2, <2>3, <2>4
<1> HIDE DEF line, l
<1>17. CASE ends /\ m > 0
  <2>1. r.extension = <<>> /\ l = L /\ m = c /\ reader_pc' = "chunk" /\ buf' = <<>> /\ read_len' = c
    <3>1. r.extension = <<>>
      BY <1>12, <1>17 DEF BadLength
    <3>2. m = c /\ l = L
      BY <1>12, <1>17, <3>1
    <3>3. ~(c <= 0)
      BY <1>5, <1>17, <3>2
    <3> QED
      BY <1>13, <1>17, <3>1, <3>2, <3>3
  <2>2. k \in 1 .. n - 1
    BY <1>5, <1>17, <2>1
  <2>3. pos' = p[k - 1] + L
    BY <1>1, <1>5, <1>6, <1>9, <2>1
  <2>4. BehindLine(f, p, k)'
    BY <1>1, <1>6, <2>1, <2>3 DEF BehindLine, r, c, L
  <2>5. InFrames(f, p)'
    BY <1>1, <2>1, <2>2, <2>4 DEF InFrames, n, r
  <2>6. (\E g, q : Layout(request, wire.bytes, g, q) /\ InFrames(g, q))'
    BY <1>1, <1>3, <2>5 DEF r
  <2>7. BodyWhole'
    BY <2>1 DEF BodyWhole
  <2> QED
    BY <1>1, <1>2, <1>14, <2>1, <2>6, <2>7 DEF ReaderInv, r
<1>18. ASSUME reader_pc' = "post", binary_body = r.body \/ ~Readable PROVE ReaderInv'
  <2>1. BodyWhole'
    BY <1>1, <1>2, <1>15, <1>18 DEF BodyWhole, Readable, r
  <2>2. InFrames(f, p)'
    BY <1>18 DEF InFrames
  <2>3. (\E g, q : Layout(request, wire.bytes, g, q) /\ InFrames(g, q))'
    BY <1>1, <1>3, <2>2 DEF r
  <2> QED
    BY <1>1, <1>2, <1>14, <1>18, <2>1, <2>3 DEF ReaderInv, r
<1>19. CASE ends /\ ~(m > 0)
  <2>1. m <= 0
    <3>1. m = c \/ m = BadLength
      BY <1>12, <1>19
    <3>2. m \in Int
      BY <1>5, <3>1 DEF BadLength
    <3> QED
      BY <1>19, <3>2
  <2>2. reader_pc' = "post"
    BY <1>13, <1>19, <2>1
  <2>3. r.extension = <<>> => k = n
    BY <1>5, <1>12, <1>19, <2>1
  <2> QED
    BY <1>15, <1>16, <1>18, <2>2, <2>3
<1>20. CASE ~ends /\ l = max_bytes
  <2>1. reader_pc' = "post"
    BY <1>11, <1>13, <1>20
  <2> QED
    BY <1>16, <1>18, <1>20, <2>1
<1>21. CASE ~ends /\ l # max_bytes
  <2>1. buf' = line /\ reader_pc' = "length"
    BY <1>11, <1>13, <1>21
  <2>2. l < L
    BY <1>5, <1>9, <1>12, <1>21
  <2>3. pos' = p[k - 1] + l
    BY <1>1, <1>9
  <2>4. InLine(f, p, k)'
    BY <1>1, <1>6, <1>11, <2>1, <2>2, <2>3 DEF InLine, r, L, t, c
  <2>5. InFrames(f, p)'
    BY <1>1, <2>1, <2>4 DEF InFrames, n, r
  <2>6. (\E g, q : Layout(request, wire.bytes, g, q) /\ InFrames(g, q))'
    BY <1>1, <1>3, <2>5 DEF r
  <2>7. BodyWhole'
    BY <2>1 DEF BodyWhole
  <2> QED
    BY <1>1, <1>2, <1>14, <2>1, <2>6, <2>7 DEF ReaderInv, r
<1> QED
  BY <1>17, <1>19, <1>20, <1>21

(* One read of a piece: all of it, or what there was at the end.           *)
LEMMA ChunkKeeps == ASSUME ReaderInv, ReadChunk PROVE ReaderInv'
<1> DEFINE r == request
           n == Len(r.split) + 1
<1>1. /\ request' = request /\ wire' = wire /\ arrived' = arrived /\ closed' = closed
      /\ buf' = buf /\ read_len' = read_len /\ reader_pc = "chunk" /\ reader_pc' = "delimiter"
  BY DEF ReadChunk
<1>2. r.kind = "chunked" /\ r \in Chunked
  BY <1>1 DEF ReaderInv, ReaderTyped, Chunked
<1>3. PICK f, p : Layout(r, wire.bytes, f, p) /\ InFrames(f, p)
  BY <1>2 DEF ReaderInv
<1>4. PICK k \in 1 .. n - 1 : BehindLine(f, p, k)
  BY <1>1, <1>3 DEF InFrames
<1> DEFINE c == Chunks(r)[k]
           L == LineLen(r)
           a == f[k - 1]
           m == IF arrived < pos + c THEN arrived ELSE pos + c
<1>5. n \in Nat /\ k \in 1 .. n
  <2>1. n \in Nat
    BY <1>3 DEF Layout
  <2> QED
    BY <2>1
<1>6. /\ c \in Lengths /\ c \in Nat /\ L \in Nat /\ r.body \in Seq(Bytes)
      /\ p[k - 1] \in Nat /\ p[k] \in Nat /\ p[k] = p[k - 1] + L + c + 2
      /\ a \in Nat /\ f[k] = a + c /\ f[k] <= Len(r.body)
  BY <1>2, <1>3, <1>5, PlacesAre
<1>7. /\ pos = p[k - 1] + L /\ buf = <<>> /\ read_len = c
      /\ binary_body = SubSeq(r.body, 1, a)
  BY <1>4 DEF BehindLine
<1>8. arrived \in Nat /\ arrived <= Len(wire.bytes) /\ pos \in Nat /\ pos <= arrived
  BY DEF ReaderInv, ReaderTyped
<1>9. wire.bytes \in Seq(Anything(r)) /\ FrameIn(r, wire.bytes, f, p, k)
  BY <1>3, <1>5 DEF Layout
<1> DEFINE g == Got(c)
<1>10. g = SubSeq(wire.bytes, pos + 1, m)
  BY DEF Got
<1>11. binary_body' = binary_body \o g /\ pos' = pos + Len(g) /\ (closed \/ arrived - pos >= c)
  BY <1>7 DEF ReadChunk, Available
<1> HIDE DEF r, n, c, L, a
<1>12. m \in Nat /\ pos <= m /\ m <= arrived /\ m - pos \in Nat /\ pos + (m - pos) = m
  BY <1>6, <1>8
<1>13. Len(g) = m - pos
  <2>1. Len(SubSeq(wire.bytes, pos + 1, pos + (m - pos))) = m - pos
    <3>1. m - pos \in Nat
      BY <1>12
    <3> HIDE DEF m
    <3> QED
      BY <1>8, <1>9, <3>1
  <2> QED
    BY <1>10, <1>12, <2>1
<1>14. pos' = m
  BY <1>8, <1>11, <1>12, <1>13
<1>15. ReaderTyped' /\ (request.kind # "chunked" => wire.bytes = request.body)'
  BY <1>1, <1>12, <1>14 DEF ReaderInv, ReaderTyped
<1>16. ASSUME m = pos + c
       PROVE  pos' = p[k] - 2 /\ binary_body' = SubSeq(r.body, 1, f[k])
  <2>1. pos' = p[k] - 2
    BY <1>6, <1>7, <1>14, <1>16
  <2>2. g = SubSeq(r.body, a + 1, a + c)
    <3>1. g = [i \in 1 .. c |-> wire.bytes[i + pos]]
      <4>1. SubSeq(wire.bytes, pos + 1, pos + c) = [i \in 1 .. c |-> wire.bytes[i + pos]]
        <5>1. wire.bytes \in Seq(Anything(r)) /\ pos \in Nat /\ c \in Nat
          BY <1>6, <1>8, <1>9
        <5> QED
          BY <5>1, SubSeqIs
      <4> QED
        BY <1>10, <1>16, <4>1
    <3>2. SubSeq(r.body, a + 1, a + c) = [i \in 1 .. c |-> r.body[i + a]]
      BY <1>6, SubSeqIs
    <3>3. ASSUME NEW i \in 1 .. c PROVE wire.bytes[i + pos] = r.body[i + a]
      <4>1. \A j \in pos + 1 .. pos + c : wire.bytes[j] = r.body[a + (j - pos)]
        BY <1>7, <1>9 DEF FrameIn, c, L, a
      <4>2. i + pos \in pos + 1 .. pos + c /\ a + ((i + pos) - pos) = i + a
        BY <1>6, <1>8
      <4> QED
        BY <4>1, <4>2
    <3> QED
      BY <3>1, <3>2, <3>3
  <2>3. SubSeq(r.body, 1, a) \o SubSeq(r.body, a + 1, a + c) = SubSeq(r.body, 1, a + c)
    <3>1. r.body \in Seq(Bytes) /\ a \in Nat /\ c \in Nat /\ a + c <= Len(r.body)
      BY <1>6
    <3> QED
      BY <3>1, BeginningGrows
  <2> QED
    BY <1>6, <1>7, <1>11, <2>1, <2>2, <2>3
<1>17. ASSUME m # pos + c PROVE closed' /\ pos' = arrived'
  BY <1>1, <1>6, <1>8, <1>11, <1>14, <1>17
<1>18. BehindPiece(f, p, k)'
  BY <1>1, <1>7, <1>16, <1>17 DEF BehindPiece, r
<1>19. InFrames(f, p)'
  BY <1>1, <1>18 DEF InFrames, n, r
<1>20. (\E h, q : Layout(request, wire.bytes, h, q) /\ InFrames(h, q))'
  BY <1>1, <1>3, <1>19 DEF r
<1>21. BodyWhole'
  BY <1>1 DEF BodyWhole
<1> QED
  BY <1>1, <1>2, <1>15, <1>20, <1>21 DEF ReaderInv, r

(* Behind a piece stands CR LF, and then the next line.  Anything else,    *)
(* and the end of the connection, raises.                                  *)
LEMMA DelimiterKeeps == ASSUME ReaderInv, ReadDelimiter PROVE ReaderInv'
<1> DEFINE r == request
           n == Len(r.split) + 1
           m == IF arrived < pos + 2 THEN arrived ELSE pos + 2
           g == Got(2)
<1>1. /\ request' = request /\ wire' = wire /\ arrived' = arrived /\ closed' = closed
      /\ buf' = buf /\ binary_body' = binary_body /\ reader_pc = "delimiter"
      /\ pos' = pos + Len(g)
      /\ reader_pc' = IF g = Delimiter THEN "length" ELSE "raised"
  BY DEF ReadDelimiter
<1>2. r.kind = "chunked" /\ r \in Chunked
  BY <1>1 DEF ReaderInv, ReaderTyped, Chunked
<1>3. PICK f, p : Layout(r, wire.bytes, f, p) /\ InFrames(f, p)
  BY <1>2 DEF ReaderInv
<1>4. PICK k \in 1 .. n - 1 : BehindPiece(f, p, k)
  BY <1>1, <1>3 DEF InFrames
<1>5. n \in Nat /\ k \in 1 .. n /\ k + 1 \in 1 .. n /\ (k + 1) - 1 = k
  <2>1. n \in Nat
    BY <1>3 DEF Layout
  <2> QED
    BY <2>1
<1>6. p[k] \in Nat /\ LineLen(r) \in Nat /\ LineLen(r) >= 3
  BY <1>2, <1>3, <1>5, PlacesAre
<1>7. arrived \in Nat /\ arrived <= Len(wire.bytes) /\ pos \in Nat /\ pos <= arrived
  BY DEF ReaderInv, ReaderTyped
<1>8. wire.bytes \in Seq(Anything(r))
  BY <1>3 DEF Layout
<1> HIDE DEF r, n
<1>9. m \in Nat /\ m - pos \in Nat /\ pos + (m - pos) = m /\ m <= arrived
  BY <1>7
<1>10. Len(g) = m - pos
  <2>1. g = SubSeq(wire.bytes, pos + 1, m)
    BY DEF Got
  <2> HIDE DEF g, m
  <2>2. SubSeq(wire.bytes, pos + 1, pos + (m - pos)) = [i \in 1 .. m - pos |-> wire.bytes[i + pos]]
    BY <1>7, <1>8, <1>9, SubSeqIs
  <2>3. g = [i \in 1 .. m - pos |-> wire.bytes[i + pos]]
    BY <1>9, <2>1, <2>2
  <2> QED
    BY <1>9, <2>3
<1> HIDE DEF g
<1>11. pos' = m
  BY <1>1, <1>7, <1>9, <1>10
<1>12. ReaderTyped' /\ (request.kind # "chunked" => wire.bytes = request.body)'
  BY <1>1, <1>7, <1>9, <1>11 DEF ReaderInv, ReaderTyped
<1>13. BodyWhole'
  BY <1>1 DEF BodyWhole
<1>14. CASE g # Delimiter
  <2>1. reader_pc' = "raised"
    BY <1>1, <1>14
  <2>2. InFrames(f, p)'
    BY <2>1 DEF InFrames
  <2>3. (\E h, q : Layout(request, wire.bytes, h, q) /\ InFrames(h, q))'
    BY <1>1, <1>3, <2>2 DEF r
  <2> QED
    BY <1>1, <1>2, <1>12, <1>13, <2>1, <2>3 DEF ReaderInv, r
<1>15. CASE g = Delimiter
  <2>1. reader_pc' = "length" /\ m - pos = 2
    <3>1. Len(Delimiter) = 2
      BY BytesAre
    <3> QED
      BY <1>1, <1>10, <1>15, <3>1
  <2>2. pos # arrived
    BY <1>7, <1>9, <2>1
  <2>3. /\ buf = <<>> /\ pos = p[k] - 2
        /\ binary_body = SubSeq(r.body, 1, f[k])
    BY <1>4, <2>2 DEF BehindPiece, r
  <2>4. pos' = p[k] + 0
    BY <1>6, <1>7, <1>9, <1>11, <2>1, <2>3
  <2>5. InLine(f, p, k + 1)'
    <3>1. Len(<<>>) = 0 /\ <<>> \in Seq(Bytes) /\ 0 < LineLen(r)
      BY <1>6
    <3>2. buf' = <<>> /\ Len(buf') = 0 /\ \A j \in 1 .. 0 : FALSE
      BY <1>1, <2>3, <3>1
    <3>3. p[(k + 1) - 1] = p[k] /\ f[(k + 1) - 1] = f[k]
      BY <1>5
    <3> QED
      BY <1>1, <2>3, <2>4, <3>1, <3>2, <3>3 DEF InLine, r
  <2>6. InFrames(f, p)'
    BY <1>1, <1>5, <2>1, <2>5 DEF InFrames, n, r
  <2>7. (\E h, q : Layout(request, wire.bytes, h, q) /\ InFrames(h, q))'
    BY <1>1, <1>3, <2>6 DEF r
  <2> QED
    BY <1>1, <1>2, <1>12, <1>13, <2>1, <2>7 DEF ReaderInv, r
<1> QED
  BY <1>14, <1>15

(* More bytes arrive, or no more will, or nothing changes.                  *)
LEMMA PeerKeeps == ASSUME ReaderInv, ArriveByte \/ Cut \/ UNCHANGED reader_vars PROVE ReaderInv'
<1>1. /\ request' = request /\ wire' = wire /\ pos' = pos /\ reader_pc' = reader_pc
      /\ buf' = buf /\ read_len' = read_len /\ binary_body' = binary_body
      /\ closed => closed' /\ arrived' = arrived
  BY DEF ArriveByte, Cut, reader, reader_vars
<1>2. ReaderTyped'
  <2>1. /\ arrived \in Nat /\ arrived <= Len(wire.bytes) /\ pos \in Nat /\ pos <= arrived
        /\ request \in Requests
    BY DEF ReaderInv, ReaderTyped
  <2>2. arrived' \in Nat /\ arrived' <= Len(wire.bytes) /\ pos <= arrived'
    <3>1. CASE ArriveByte
      <4>1. arrived < Len(wire.bytes) /\ arrived' = arrived + 1
        BY <3>1 DEF ArriveByte
      <4>2. wire.bytes \in Seq(Anything(request)) \/ wire.bytes = request.body
        BY DEF ReaderInv, Layout
      <4>3. Len(wire.bytes) \in Nat
        <5>1. request.body \in Seq(Bytes)
          BY <2>1, ReaderAssumption DEF Requests
        <5> QED
          BY <4>2, <5>1
      <4> QED
        BY <2>1, <4>1, <4>3
    <3>2. CASE Cut
      BY <2>1, <3>2 DEF Cut
    <3>3. CASE UNCHANGED reader_vars
      BY <2>1, <3>3 DEF reader_vars
    <3> QED
      BY <3>1, <3>2, <3>3
  <2> QED
    BY <1>1, <2>1, <2>2 DEF ReaderTyped
<1>3. BodyWhole'
  <2>1. BodyWhole
    BY DEF ReaderInv
  <2>2. Readable' = Readable
    BY <1>1 DEF Readable
  <2> QED
    BY <1>1, <2>1, <2>2 DEF BodyWhole
<1>4. ASSUME NEW f, NEW p, InFrames(f, p) PROVE InFrames(f, p)'
  <2>1. \A k : InLine(f, p, k) => InLine(f, p, k)'
    BY <1>1 DEF InLine
  <2>2. \A k : BehindLine(f, p, k) => BehindLine(f, p, k)'
    BY <1>1 DEF BehindLine
  <2>3. \A k : BehindPiece(f, p, k) => BehindPiece(f, p, k)'
    BY <1>1 DEF BehindPiece
  <2> QED
    BY <1>1, <1>4, <2>1, <2>2, <2>3 DEF InFrames
<1>5. (request.kind = "chunked" =>
           \E f, p : Layout(request, wire.bytes, f, p) /\ InFrames(f, p))'
  BY <1>1, <1>4 DEF ReaderInv
<1> QED
  BY <1>1, <1>2, <1>3, <1>5 DEF ReaderInv

LEMMA ReaderInvInit == ASSUME ReaderInit PROVE ReaderInv
<1>1. /\ request \in Requests /\ arrived = 0 /\ pos = 0 /\ reader_pc = "headers"
      /\ buf = <<>> /\ binary_body = <<>>
      /\ request.kind = "chunked" => wire = Framed(request)
      /\ request.kind # "chunked" => wire.bytes = request.body
  BY DEF ReaderInit
<1>2. ASSUME request.kind = "chunked"
      PROVE  /\ \E f, p : Layout(request, wire.bytes, f, p) /\ InFrames(f, p)
             /\ wire.bytes \in Seq(Anything(request))
  <2>1. request \in Chunked
    BY <1>1, <1>2 DEF Chunked
  <2>2. PICK f, p : Layout(request, Framed(request).bytes, f, p)
    BY <2>1, WireIs
  <2>3. InFrames(f, p)
    BY <1>1 DEF InFrames
  <2>4. wire.bytes = Framed(request).bytes
    BY <1>1, <1>2
  <2>5. Layout(request, wire.bytes, f, p)
    BY <2>2, <2>4
  <2>6. wire.bytes \in Seq(Anything(request))
    BY <2>5 DEF Layout
  <2> QED
    BY <2>3, <2>5, <2>6
<1>3. ReaderTyped
  <2>1. request.body \in Seq(Bytes)
    BY <1>1, ReaderAssumption DEF Requests
  <2>2. Len(wire.bytes) \in Nat
    <3>1. CASE request.kind = "chunked"
      BY <1>2, <3>1
    <3>2. CASE request.kind # "chunked"
      BY <1>1, <2>1, <3>2
    <3> QED
      BY <3>1, <3>2
  <2> QED
    BY <1>1, <2>2 DEF ReaderTyped
<1> QED
  BY <1>1, <1>2, <1>3 DEF ReaderInv, BodyWhole

LEMMA ReaderInvNext == ASSUME ReaderInv, [ReaderNext]_reader_vars PROVE ReaderInv'
<1>1. CASE ReadHeaders
  BY <1>1, HeadersKeep
<1>2. CASE ReadFixed
  BY <1>2, FixedKeeps
<1>3. CASE ReadLengthByte
  BY <1>3, LengthByteKeeps
<1>4. CASE ReadChunk
  BY <1>4, ChunkKeeps
<1>5. CASE ReadDelimiter
  BY <1>5, DelimiterKeeps
<1>6. CASE ArriveByte \/ Cut \/ UNCHANGED reader_vars
  BY <1>6, PeerKeeps
<1> QED
  BY <1>1, <1>2, <1>3, <1>4, <1>5, <1>6 DEF ReaderNext, do_POST

(* POST gets the body that was sent, however it is cut into chunks and     *)
(* whatever bytes it has, or is not called; it gets a part of it only of a *)
(* body of known length whose connection ends early, and of chunks with a  *)
(* length that cannot be read (utils.py 86-153).                           *)
THEOREM BodyIsWhole == ReaderSpec => []BodyWhole
<1>1. ReaderInit => ReaderInv
  BY ReaderInvInit
<1>2. ReaderInv /\ [ReaderNext]_reader_vars => ReaderInv'
  BY ReaderInvNext
<1>3. ReaderInv => BodyWhole
  BY DEF ReaderInv
<1> QED
  BY <1>1, <1>2, <1>3, PTL DEF ReaderSpec
=============================================================================
