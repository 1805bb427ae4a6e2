---------------------------- MODULE JsClientProofs ----------------------------
(***************************************************************************)
(* Proofs about the client in JavaScript, for any number of traces of any  *)
(* depth: which reactions may be due (Inv), so that children are finished  *)
(* first, and what is due for every span (Underway), so that nothing is    *)
(* left to be done for any of them when no reaction is.                    *)
(***************************************************************************)
EXTENDS JsClient, SequenceTheorems, SumTheorems, TLAPS

Spans == Int \X Int
Jobs == [span : Spans, step : {"child", "adopt", "settle", "finish"}]

(* The reactions that may be due: what is left to do when the child is     *)
(* finished is not due before.                                             *)
Sound == {j \in Jobs : j.step = "settle" \/ (j.step = "finish" /\ ~IsLeaf(j.span))
                           => Child(j.span) \in finished}

Inv == /\ repeat \in Int
       /\ finished \subseteq Spans
       /\ fulfilled = finished
       /\ microtasks \in Seq(Sound)
       /\ timers \subseteq {ReportTimer}
       /\ ChildrenFirst

(* A sequence over a set is one over any larger set.                       *)
LEMMA SeqMonotone == ASSUME NEW S, NEW T, S \subseteq T, NEW q \in Seq(S)
                     PROVE  q \in Seq(T)
<1>1. Len(q) \in Nat /\ q \in [1 .. Len(q) -> S]
  OBVIOUS
<1>2. q \in [1 .. Len(q) -> T]
  BY <1>1
<1> QED
  BY <1>1, <1>2

(* What stays after the head is taken and something is appended.           *)
LEMMA TailAppend == ASSUME NEW S, NEW q \in Seq(S), q # <<>>, NEW r \in Seq(S)
                    PROVE  Head(q) \in S /\ Tail(q) \o r \in Seq(S)
<1>1. Head(q) \in S /\ Tail(q) \in Seq(S)
  OBVIOUS
<1> QED
  BY <1>1

(* What a span leaves to be done when it is started is sound.              *)
LEMMA GeneratedSound == ASSUME NEW s \in Spans
                        PROVE  generateSpan(s) \in Sound
BY DEF generateSpan, Sound, Jobs, Job

(* Nothing is due before the traces are started.                           *)
LEMMA InvInit == Init => Inv
<1> SUFFICES ASSUME Init
             PROVE  Inv
  OBVIOUS
<1>1. <<>> \in Seq(Sound)
  OBVIOUS
<1>2. repeat \in Int
  BY JsClientAssumption DEF Init
<1> QED
  BY <1>1, <1>2 DEF Init, Inv, ChildrenFirst

(* The reaction at the head is sound, and the queue after it is, if what   *)
(* becomes due is.                                                         *)
LEMMA ReactSound ==
    ASSUME Inv, NEW step, NEW ready, React(step, ready),
           finished' \subseteq Spans, finished \subseteq finished',
           ready \in Seq(Sound')
    PROVE  /\ Head(microtasks) \in Sound /\ Head(microtasks).step = step
           /\ microtasks' \in Seq(Sound')
<1>1. Sound \subseteq Sound'
  BY DEF Sound, IsLeaf, Child
<1>2. microtasks \in Seq(Sound')
  BY <1>1, SeqMonotone DEF Inv
<1>3. microtasks # <<>> /\ microtasks' = Tail(microtasks) \o ready
  BY DEF React
<1>4. Head(microtasks) \in Sound
  BY <1>3, TailAppend DEF Inv
<1>5. microtasks' \in Seq(Sound')
  BY <1>2, <1>3, TailAppend
<1> QED
  BY <1>4, <1>5 DEF React

(* The reaction at the head is sound and belongs to a span.                *)
LEMMA HeadSound == ASSUME Inv, NEW step, NEW ready, React(step, ready)
                   PROVE  /\ Head(microtasks) \in Sound /\ Head(microtasks).step = step
                          /\ This \in Spans
<1>1. Head(microtasks) \in Sound /\ Head(microtasks).step = step
  BY TailAppend DEF Inv, React
<1> QED
  BY <1>1 DEF Sound, Jobs, This

(* Which reactions are sound depends on the finished spans only.           *)
LEMMA SoundSame == finished' = finished => Sound' = Sound
BY DEF Sound, IsLeaf, Child

(* A reaction, a timer and the start of the traces keep the invariant.     *)
LEMMA InvStep == Inv /\ [Next]_vars => Inv'
<1> SUFFICES ASSUME Inv, [Next]_vars
             PROVE  Inv'
  OBVIOUS
<1> DEFINE s == This
<1>1. CASE generateTraces
  <2>1. UNCHANGED <<repeat, finished, fulfilled>> /\ Sound' = Sound
    BY <1>1 DEF generateTraces, Sound, IsLeaf, Child
  <2>2. CASE repeat < 1
    BY <1>1, <2>1, <2>2 DEF generateTraces, Inv, ChildrenFirst, IsLeaf, Child
  <2>3. CASE ~(repeat < 1)
    <3>1. /\ microtasks' = [t \in 1 .. repeat |-> generateSpan(<<t, 1>>)]
          /\ timers' = {ReportTimer}
      BY <1>1, <2>3 DEF generateTraces, doWork, Traces
    <3>2. \A t \in 1 .. repeat : generateSpan(<<t, 1>>) \in Sound
      BY GeneratedSound DEF Spans
    <3>3. repeat \in Nat
      BY <2>3 DEF Inv
    <3>4. microtasks' \in Seq(Sound)
      BY <3>1, <3>2, <3>3
    <3> QED
      BY <2>1, <3>1, <3>4 DEF Inv, ChildrenFirst, IsLeaf, Child
  <2> QED
    BY <2>2, <2>3
<1>2. CASE StartChild
  <2> DEFINE ready == <<generateSpan(Child(s))>> \o <<Job(s, "adopt")>>
  <2>1. UNCHANGED <<repeat, finished, fulfilled, timers>> /\ React("child", ready)
    BY <1>2 DEF StartChild, doWork, React, Inv
  <2>2. Sound' = Sound /\ s \in Spans
    BY <2>1, HeadSound, SoundSame
  <2>3. generateSpan(Child(s)) \in Sound /\ Job(s, "adopt") \in Sound
    BY <2>2, GeneratedSound DEF Child, Spans, Sound, Jobs, Job
  <2>4. ready \in Seq(Sound')
    BY <2>2, <2>3
  <2>5. microtasks' \in Seq(Sound')
    BY <2>1, <2>4, ReactSound DEF Inv
  <2> QED
    BY <2>1, <2>5 DEF Inv, ChildrenFirst, IsLeaf, Child
<1>3. CASE Adopt
  <2> DEFINE ready == IF Child(s) \in fulfilled THEN <<Job(s, "settle")>> ELSE <<>>
  <2>1. UNCHANGED <<repeat, finished, fulfilled, timers>> /\ React("adopt", ready)
    BY <1>3 DEF Adopt, React
  <2>2. Sound' = Sound /\ s \in Spans
    BY <2>1, HeadSound, SoundSame
  <2>3. Child(s) \in fulfilled => Job(s, "settle") \in Sound
    BY <2>2 DEF Sound, Jobs, Job, Inv
  <2>4. ready \in Seq(Sound')
    BY <2>2, <2>3
  <2>5. microtasks' \in Seq(Sound')
    BY <2>1, <2>4, ReactSound DEF Inv
  <2> QED
    BY <2>1, <2>5 DEF Inv, ChildrenFirst, IsLeaf, Child
<1>4. CASE Settle
  <2> DEFINE ready == <<Job(s, "finish")>>
  <2>1. UNCHANGED <<repeat, finished, fulfilled, timers>> /\ React("settle", ready)
    BY <1>4 DEF Settle, React, spans
  <2>2. Head(microtasks) \in Sound /\ Head(microtasks).step = "settle"
    BY <2>1, HeadSound
  <2>3. Sound' = Sound /\ s \in Spans /\ Child(s) \in finished
    BY <2>1, <2>2, HeadSound, SoundSame DEF Sound, This
  <2>4. Job(s, "finish") \in Sound
    BY <2>3 DEF Sound, Jobs, Job
  <2>5. ready \in Seq(Sound')
    BY <2>3, <2>4
  <2>6. microtasks' \in Seq(Sound')
    BY <2>1, <2>5, ReactSound DEF Inv
  <2> QED
    BY <2>1, <2>6 DEF Inv, ChildrenFirst, IsLeaf, Child
<1>5. CASE FinishSpan
  <2> DEFINE ready == IF Parent(s) \in adopted THEN <<Job(Parent(s), "settle")>> ELSE <<>>
  <2>1. /\ UNCHANGED <<repeat, timers>> /\ React("finish", ready)
        /\ finished' = finished \cup {s} /\ fulfilled' = fulfilled \cup {s}
    BY <1>5 DEF FinishSpan, React
  <2>2. Head(microtasks) \in Sound /\ Head(microtasks).step = "finish"
    BY <2>1, HeadSound
  <2>3. s \in Spans /\ (~IsLeaf(s) => Child(s) \in finished)
    BY <2>2 DEF Sound, This, Jobs
  <2>4. Parent(s) \in Spans /\ Child(Parent(s)) = s
    BY <2>3 DEF Spans, Parent, Child
  <2>5. Job(Parent(s), "settle") \in Sound'
    BY <2>1, <2>4 DEF Sound, Jobs, Job, Child
  <2>6. ready \in Seq(Sound')
    BY <2>5
  <2>7. finished' \subseteq Spans
    BY <2>1, <2>3 DEF Inv
  <2>8. microtasks' \in Seq(Sound')
    BY <2>1, <2>6, <2>7, ReactSound
  <2>9. ChildrenFirst'
    BY <2>1, <2>3 DEF Inv, ChildrenFirst, IsLeaf, Child
  <2> QED
    BY <2>1, <2>7, <2>8, <2>9 DEF Inv
<1>6. CASE NextTimer \/ Exit
  <2>1. UNCHANGED <<repeat, finished, fulfilled, microtasks, timers>>
    BY <1>6 DEF NextTimer, Exit, spans, Inv
  <2> QED
    BY <2>1 DEF Inv, ChildrenFirst, Sound, IsLeaf, Child
<1>7. CASE UNCHANGED vars
  BY <1>7 DEF vars, spans, Inv, ChildrenFirst, Sound, IsLeaf, Child
<1> QED
  BY <1>1, <1>2, <1>3, <1>4, <1>5, <1>6, <1>7 DEF Next, Reaction

(* A span is finished after its child, however the reactions of the traces *)
(* are mixed (index.js 88-93).                                             *)
THEOREM ChildrenFinishFirst == Spec => []ChildrenFirst
<1>1. Inv => ChildrenFirst
  BY DEF Inv
<1> QED
  BY <1>1, InvInit, InvStep, PTL DEF Spec

-----------------------------------------------------------------------------
(* Where the traces are while the event loop runs.  A span that is started *)
(* is finished, or a reaction of it is due, or it waits for its child; and *)
(* its child is started, or to be started by a reaction.                   *)
Places == Traces \X (1 .. SPANS_PER_LOOP)
Members(q) == {q[i] : i \in 1 .. Len(q)}
Due == Members(microtasks)

Underway ==
    /\ started \subseteq Places /\ {<<t, 1>> : t \in Traces} \subseteq started
    /\ finished \subseteq started /\ adopted \subseteq started
    /\ \A s \in adopted : ~IsLeaf(s)
    /\ \A j \in Due : j.span \in started /\ (j.step # "finish" => ~IsLeaf(j.span))
    /\ \A s \in started : \/ s \in finished
                          \/ \E j \in Due : j.span = s
                          \/ s \in adopted /\ Child(s) \notin finished
    /\ \A s \in started : IsLeaf(s) \/ Child(s) \in started \/ Job(s, "child") \in Due

WholeInv == /\ phase = "start" => started = {} /\ finished = {} /\ adopted = {}
            /\ phase = "loop" => Underway
            /\ reported \in {{}, Places}

(* The members of a queue are its head and those of the rest.              *)
LEMMA MembersOf ==
    ASSUME NEW S, NEW q \in Seq(S), q # <<>>
    PROVE  Members(q) = {Head(q)} \cup Members(Tail(q))
<1>1. /\ Len(q) \in Nat \ {0} /\ Head(q) = q[1]
      /\ Tail(q) \in Seq(S) /\ Len(Tail(q)) = Len(q) - 1
      /\ \A i \in 1 .. Len(Tail(q)) : Tail(q)[i] = q[i + 1]
  <2>1. Len(q) \in Nat \ {0}
    BY EmptySeq
  <2> QED
    BY <2>1, HeadTailProperties
<1>2. ASSUME NEW i \in 1 .. Len(q) PROVE q[i] \in {Head(q)} \cup Members(Tail(q))
  <2>1. CASE i = 1
    BY <1>1, <2>1
  <2>2. CASE i # 1
    <3>1. i - 1 \in 1 .. Len(Tail(q)) /\ (i - 1) + 1 = i
      BY <1>1, <2>2
    <3>2. Tail(q)[i - 1] = q[i]
      BY <1>1, <3>1
    <3> QED
      BY <3>1, <3>2 DEF Members
  <2> QED
    BY <2>1, <2>2
<1>3. ASSUME NEW i \in 1 .. Len(Tail(q)) PROVE Tail(q)[i] \in Members(q)
  <2>1. i + 1 \in 1 .. Len(q) /\ Tail(q)[i] = q[i + 1]
    BY <1>1
  <2> QED
    BY <2>1 DEF Members
<1>4. Head(q) \in Members(q)
  BY <1>1 DEF Members
<1> QED
  BY <1>2, <1>3, <1>4 DEF Members

(* Those of two queues in a row are those of either.                       *)
LEMMA MembersConcat ==
    ASSUME NEW S, NEW p \in Seq(S), NEW q \in Seq(S)
    PROVE  Members(p \o q) = Members(p) \cup Members(q)
<1>1. Len(p) \in Nat /\ Len(q) \in Nat
  BY LenProperties
<1>2. /\ Len(p \o q) = Len(p) + Len(q)
      /\ \A i \in 1 .. Len(p) + Len(q) :
             (p \o q)[i] = IF i <= Len(p) THEN p[i] ELSE q[i - Len(p)]
  BY ConcatProperties
<1>3. ASSUME NEW i \in 1 .. Len(p) + Len(q) PROVE (p \o q)[i] \in Members(p) \cup Members(q)
  <2>1. CASE i <= Len(p)
    BY <1>1, <1>2, <2>1 DEF Members
  <2>2. CASE ~(i <= Len(p))
    <3>1. i - Len(p) \in 1 .. Len(q) /\ (p \o q)[i] = q[i - Len(p)]
      BY <1>1, <1>2, <2>2
    <3> QED
      BY <3>1 DEF Members
  <2> QED
    BY <2>1, <2>2
<1>4. ASSUME NEW i \in 1 .. Len(p) PROVE p[i] \in Members(p \o q)
  <2>1. i \in 1 .. Len(p) + Len(q) /\ (p \o q)[i] = p[i]
    BY <1>1, <1>2
  <2> QED
    BY <1>2, <2>1 DEF Members
<1>5. ASSUME NEW i \in 1 .. Len(q) PROVE q[i] \in Members(p \o q)
  <2>1. /\ Len(p) + i \in 1 .. Len(p) + Len(q) /\ ~(Len(p) + i <= Len(p))
        /\ (Len(p) + i) - Len(p) = i
    BY <1>1
  <2>2. (p \o q)[Len(p) + i] = q[i]
    BY <1>2, <2>1
  <2> QED
    BY <1>2, <2>1, <2>2 DEF Members
<1> QED
  BY <1>2, <1>3, <1>4, <1>5 DEF Members

(* A reaction takes one job and adds those that become due.                *)
LEMMA ReactDue ==
    ASSUME Inv, NEW step, NEW ready, React(step, ready), ready \in Seq(Jobs)
    PROVE  /\ Head(microtasks) \in Due /\ Head(microtasks) \in Jobs
           /\ Head(microtasks).step = step
           /\ \A j \in Due : j = Head(microtasks) \/ j \in Due'
           /\ Members(ready) \subseteq Due'
           /\ \A j \in Due' : j \in Due \/ j \in Members(ready)
<1>1. microtasks \in Seq(Jobs) /\ microtasks # <<>>
  <2>1. Sound \subseteq Jobs
    BY DEF Sound
  <2> QED
    BY <2>1, SeqMonotone DEF Inv, React
<1>2. microtasks' = Tail(microtasks) \o ready /\ Head(microtasks).step = step
  BY DEF React
<1>3. Tail(microtasks) \in Seq(Jobs) /\ Head(microtasks) \in Jobs
  BY <1>1, HeadTailProperties
<1>4. Due = {Head(microtasks)} \cup Members(Tail(microtasks))
  BY <1>1, MembersOf DEF Due
<1>5. Members(Tail(microtasks) \o ready) = Members(Tail(microtasks)) \cup Members(ready)
  BY <1>3, MembersConcat
<1>6. Due' = Members(Tail(microtasks)) \cup Members(ready)
  BY <1>2, <1>5 DEF Due, Members
<1> QED
  BY <1>2, <1>3, <1>4, <1>6

(* The queues of no, one and two jobs.                                     *)
LEMMA FewMembers ==
    /\ Members(<<>>) = {}
    /\ \A a \in Jobs : <<a>> \in Seq(Jobs) /\ Members(<<a>>) = {a}
    /\ \A a, b \in Jobs : /\ <<a>> \o <<b>> \in Seq(Jobs)
                          /\ Members(<<a>> \o <<b>>) = {a, b}
<1>1. Members(<<>>) = {}
  BY DEF Members
<1>2. \A a \in Jobs : <<a>> \in Seq(Jobs) /\ Members(<<a>>) = {a}
  BY DEF Members
<1>3. ASSUME NEW a \in Jobs, NEW b \in Jobs
      PROVE  /\ <<a>> \o <<b>> \in Seq(Jobs)
             /\ Members(<<a>> \o <<b>>) = {a, b}
  <2>1. <<a>> \in Seq(Jobs) /\ <<b>> \in Seq(Jobs)
    BY <1>2
  <2>2. Members(<<a>> \o <<b>>) = Members(<<a>>) \cup Members(<<b>>)
    BY <2>1, MembersConcat
  <2>3. <<a>> \o <<b>> \in Seq(Jobs)
    BY <2>1, ConcatProperties
  <2> QED
    BY <1>2, <2>2, <2>3
<1> QED
  BY <1>1, <1>2, <1>3

(* When nothing is due, every span of every trace is finished: of the      *)
(* spans of a trace that are not, none can be the deepest.                 *)
LEMMA NothingDue == ASSUME Inv, Underway, microtasks = <<>> PROVE finished = Places
<1>0. SPANS_PER_LOOP \in Nat \ {0}
  BY JsClientAssumption
<1>1. Due = {}
  BY FewMembers DEF Due
<1>2. \A s \in Places : s = <<s[1], s[2]>> /\ s[1] \in Traces /\ s[2] \in 1 .. SPANS_PER_LOOP
  BY DEF Places
<1>3. IsFiniteSet(1 .. SPANS_PER_LOOP)
  BY <1>0, FS_Interval
<1>4. started \subseteq finished
  <2> SUFFICES ASSUME NEW s \in started, s \notin finished PROVE FALSE
    OBVIOUS
  <2> DEFINE K == {l \in 1 .. SPANS_PER_LOOP :
                       <<s[1], l>> \in started /\ <<s[1], l>> \notin finished}
             m == Max(K)
  <2>1. s[2] \in K
    BY <1>2 DEF Underway
  <2>2. IsFiniteSet(K) /\ \A k \in K : k \in Int
    <3>1. K \subseteq 1 .. SPANS_PER_LOOP
      OBVIOUS
    <3> HIDE DEF K
    <3>2. IsFiniteSet(K)
      BY <1>3, <3>1, FS_Subset
    <3> QED
      BY <3>1, <3>2
  <2>3. m \in K /\ \A k \in K : k <= m
    <3> HIDE DEF K
    <3> QED
      BY <2>1, <2>2, MaxExists
  <2> HIDE DEF m
  <2> DEFINE u == <<s[1], m>>
  <2>4. u \in started /\ u \notin finished /\ m \in 1 .. SPANS_PER_LOOP
    BY <2>3
  <2>5. u \in adopted /\ ~IsLeaf(u) /\ Child(u) \notin finished /\ Child(u) \in started
    BY <1>1, <2>4 DEF Underway
  <2>6. Child(u) = <<s[1], m + 1>> /\ m # SPANS_PER_LOOP
    BY <2>5 DEF Child, IsLeaf
  <2>7. m + 1 \in K
    BY <1>0, <2>4, <2>5, <2>6
  <2>8. ~(m + 1 <= m)
    BY <2>4
  <2> HIDE DEF K
  <2> QED
    BY <2>3, <2>7, <2>8
<1>5. ASSUME NEW t \in Traces, NEW l \in 1 .. SPANS_PER_LOOP PROVE <<t, l>> \in started
  <2> DEFINE K == {k \in 1 .. SPANS_PER_LOOP : \A j \in 1 .. k : <<t, j>> \in started}
             m == Max(K)
  <2>1. 1 \in K
    <3>1. <<t, 1>> \in started
      BY DEF Underway
    <3>2. \A j \in 1 .. 1 : j = 1
      OBVIOUS
    <3> QED
      BY <1>0, <3>1, <3>2
  <2>2. IsFiniteSet(K) /\ \A k \in K : k \in Int
    <3>1. K \subseteq 1 .. SPANS_PER_LOOP
      OBVIOUS
    <3> HIDE DEF K
    <3>2. IsFiniteSet(K)
      BY <1>3, <3>1, FS_Subset
    <3> QED
      BY <3>1, <3>2
  <2>3. m \in K /\ \A k \in K : k <= m
    <3> HIDE DEF K
    <3> QED
      BY <2>1, <2>2, MaxExists
  <2> HIDE DEF m
  <2>4. m \in 1 .. SPANS_PER_LOOP /\ \A j \in 1 .. m : <<t, j>> \in started
    BY <2>3
  <2>5. CASE m = SPANS_PER_LOOP
    BY <2>4, <2>5
  <2>6. CASE m # SPANS_PER_LOOP
    <3>1. <<t, m>> \in started /\ ~IsLeaf(<<t, m>>)
      BY <2>4, <2>6 DEF IsLeaf
    <3>2. <<t, m + 1>> \in started
      BY <1>1, <3>1 DEF Underway, Child
    <3>3. m + 1 \in 1 .. SPANS_PER_LOOP /\ \A j \in 1 .. m + 1 : j \in 1 .. m \/ j = m + 1
      BY <1>0, <2>4, <2>6
    <3>4. m + 1 \in K
      BY <2>4, <3>2, <3>3
    <3>5. ~(m + 1 <= m)
      BY <2>4
    <3> HIDE DEF K
    <3> QED
      BY <2>3, <3>4, <3>5
  <2> QED
    BY <2>5, <2>6
<1> QED
  BY <1>2, <1>4, <1>5 DEF Underway

(* What a reaction finds: its span is started, and a leaf only finishes.   *)
LEMMA AtHead ==
    ASSUME Inv, Underway, NEW step, NEW ready, React(step, ready), ready \in Seq(Jobs)
    PROVE  /\ This \in started /\ This \in Places /\ This \in Spans
           /\ step # "finish" => ~IsLeaf(This) /\ Child(This) \in Places
           /\ \A j \in Due : j \in Due' \/ (j.span = This /\ j.step = step)
           /\ Members(ready) \subseteq Due'
           /\ \A j \in Due' : j \in Due \/ j \in Members(ready)
           /\ Places' = Places /\ Traces' = Traces
<1>1. /\ Head(microtasks) \in Due /\ Head(microtasks).step = step
      /\ \A j \in Due : j = Head(microtasks) \/ j \in Due'
      /\ Members(ready) \subseteq Due'
      /\ \A j \in Due' : j \in Due \/ j \in Members(ready)
  BY ReactDue
<1>2. This \in started /\ This \in Places
  BY <1>1 DEF Underway, This
<1>3. step # "finish" => ~IsLeaf(This)
  BY <1>1 DEF Underway, This
<1>4. This \in Spans
  BY HeadSound
<1>5. ~IsLeaf(This) => Child(This) \in Places
  <2>1. This[1] \in Traces /\ This[2] \in 1 .. SPANS_PER_LOOP /\ SPANS_PER_LOOP \in Nat
    BY <1>2, JsClientAssumption DEF Places
  <2> QED
    BY <2>1 DEF IsLeaf, Child, Places
<1>6. Places' = Places /\ Traces' = Traces
  BY DEF React, Places, Traces
<1> QED
  BY <1>1, <1>2, <1>3, <1>4, <1>5, <1>6 DEF This

(* A parent's child is the span itself again.                              *)
LEMMA ParentOf == ASSUME NEW s \in Spans
                  PROVE  Parent(Child(s)) = s /\ Child(Parent(s)) = s /\ Child(s) # s
                         /\ Child(s) \in Spans /\ Parent(s) \in Spans
<1>1. s = <<s[1], s[2]>> /\ s[1] \in Int /\ s[2] \in Int
  BY DEF Spans
<1> QED
  BY <1>1 DEF Parent, Child, Spans

(* A job is told by its span and its step.                                 *)
LEMMA JobIs == \A s \in Spans, step \in {"child", "adopt", "settle", "finish"} :
                   /\ Job(s, step) \in Jobs
                   /\ Job(s, step).span = s /\ Job(s, step).step = step
BY DEF Job, Jobs

(* The child that is started has a reaction due, and so has its parent.    *)
LEMMA StartUnderway == ASSUME Inv, Underway, StartChild PROVE Underway'
<1> DEFINE s == This
           c == Child(s)
           gen == generateSpan(c)
           ready == <<gen>> \o <<Job(s, "adopt")>>
<1>1. /\ React("child", ready)
      /\ started' = started \cup {c}
      /\ UNCHANGED <<finished, adopted>>
  BY DEF StartChild, doWork
<1>2. s \in Spans /\ c \in Spans
  BY <1>1, HeadSound, ParentOf
<1>3. /\ gen \in Jobs /\ gen.span = c /\ (gen.step # "finish" => ~IsLeaf(c))
      /\ IsLeaf(c) \/ gen = Job(c, "child")
  BY <1>2, JobIs DEF generateSpan
<1>4. /\ Job(s, "adopt") \in Jobs
      /\ Job(s, "adopt").span = s /\ Job(s, "adopt").step = "adopt"
  BY <1>2, JobIs
<1>5. ready \in Seq(Jobs) /\ Members(ready) = {gen, Job(s, "adopt")}
  BY <1>3, <1>4, FewMembers
<1>6. /\ s \in started /\ ~IsLeaf(s) /\ c \in Places
      /\ \A j \in Due : j \in Due' \/ (j.span = s /\ j.step = "child")
      /\ Members(ready) \subseteq Due'
      /\ \A j \in Due' : j \in Due \/ j \in Members(ready)
      /\ Places' = Places /\ Traces' = Traces
  <2> HIDE DEF ready
  <2> QED
    BY <1>1, <1>5, AtHead
<1>7. gen \in Due' /\ Job(s, "adopt") \in Due'
  BY <1>5, <1>6
<1>8. \A j \in Due' : j.span \in started' /\ (j.step # "finish" => ~IsLeaf(j.span))
  <2> HIDE DEF ready, gen, c
  <2> QED
    BY <1>1, <1>3, <1>4, <1>5, <1>6 DEF Underway
<1>9. ASSUME NEW u \in started'
      PROVE  \/ u \in finished
             \/ \E j \in Due' : j.span = u
             \/ u \in adopted /\ Child(u) \notin finished
  <2> HIDE DEF ready, gen, c
  <2>1. CASE u = c \/ u = s
    BY <1>3, <1>4, <1>7, <2>1
  <2>2. CASE u # c /\ u # s
    BY <1>1, <1>6, <2>2 DEF Underway
  <2> QED
    BY <2>1, <2>2
<1>10. ASSUME NEW u \in started'
       PROVE  IsLeaf(u) \/ Child(u) \in started' \/ Job(u, "child") \in Due'
  <2>1. CASE u = c
    BY <1>3, <1>7, <2>1
  <2>2. CASE u = s
    BY <1>1, <2>2
  <2>3. CASE u # c /\ u # s
    <3>1. u \in started
      BY <1>1, <2>3
    <3>2. Job(u, "child").span = u
      BY DEF Job
    <3> QED
      BY <1>1, <1>6, <2>3, <3>1, <3>2 DEF Underway
  <2> QED
    BY <2>1, <2>2, <2>3
<1>11. \A u : IsLeaf(u)' = IsLeaf(u) /\ Child(u)' = Child(u)
  BY DEF IsLeaf, Child
<1> HIDE DEF ready, gen, c
<1> QED
  BY <1>1, <1>6, <1>8, <1>9, <1>10, <1>11 DEF Underway

(* Where nothing is started, a reaction has only to find another one due,  *)
(* or its span waiting or finished.                                        *)
LEMMA StayUnderway ==
    ASSUME Inv, Underway, NEW step \in {"adopt", "settle", "finish"}, NEW ready,
           React(step, ready), ready \in Seq(Jobs), UNCHANGED started,
           finished \subseteq finished', finished' \subseteq started,
           adopted \subseteq adopted', adopted' \subseteq adopted \cup {This},
           step = "finish" => adopted' = adopted,
           \A j \in Members(ready) :
               j.span \in started /\ (j.step # "finish" => ~IsLeaf(j.span)),
           \/ This \in finished'
           \/ \E j \in Members(ready) : j.span = This
           \/ This \in adopted' /\ Child(This) \notin finished',
           \A u \in adopted : Child(u) \in finished' \ finished =>
                                  \E j \in Members(ready) : j.span = u
    PROVE  Underway'
<1>1. /\ This \in started /\ (step # "finish" => ~IsLeaf(This))
      /\ \A j \in Due : j \in Due' \/ (j.span = This /\ j.step = step)
      /\ Members(ready) \subseteq Due'
      /\ \A j \in Due' : j \in Due \/ j \in Members(ready)
      /\ Places' = Places /\ Traces' = Traces
  BY AtHead
<1>2. \A j \in Due' : j.span \in started /\ (j.step # "finish" => ~IsLeaf(j.span))
  BY <1>1 DEF Underway
<1>3. ASSUME NEW u \in started
      PROVE  \/ u \in finished'
             \/ \E j \in Due' : j.span = u
             \/ u \in adopted' /\ Child(u) \notin finished'
  <2>1. CASE u = This
    BY <1>1, <2>1
  <2>2. CASE u # This
    <3>1. CASE u \in finished
      BY <3>1
    <3>2. CASE \E j \in Due : j.span = u
      BY <1>1, <2>2, <3>2
    <3>3. CASE u \in adopted /\ Child(u) \notin finished
      BY <1>1, <3>3
    <3> QED
      BY <3>1, <3>2, <3>3 DEF Underway
  <2> QED
    BY <2>1, <2>2
<1>4. ASSUME NEW u \in started
      PROVE  IsLeaf(u) \/ Child(u) \in started \/ Job(u, "child") \in Due'
  <2>1. Job(u, "child").step = "child"
    BY DEF Job
  <2> QED
    BY <1>1, <2>1 DEF Underway
<1>5. \A u \in adopted' : ~IsLeaf(u) /\ u \in started
  BY <1>1 DEF Underway
<1>6. \A u : IsLeaf(u)' = IsLeaf(u) /\ Child(u)' = Child(u)
  BY DEF IsLeaf, Child
<1> QED
  BY <1>1, <1>2, <1>3, <1>4, <1>5, <1>6 DEF Underway

(* Every reaction leaves the traces so.                                    *)
LEMMA ReactionUnderway == ASSUME Inv, Underway, Reaction PROVE Underway'
<1> DEFINE s == This
<1>1. CASE StartChild
  BY <1>1, StartUnderway
<1>2. CASE Adopt
  <2> DEFINE ready == IF Child(s) \in fulfilled THEN <<Job(s, "settle")>> ELSE <<>>
  <2>1. /\ React("adopt", ready) /\ UNCHANGED <<started, finished>>
        /\ adopted' = IF Child(s) \in fulfilled THEN adopted ELSE adopted \cup {s}
    BY <1>2 DEF Adopt
  <2>2. s \in Spans /\ fulfilled = finished
    BY <2>1, HeadSound DEF Inv
  <2>3. /\ Job(s, "settle") \in Jobs
        /\ Job(s, "settle").span = s
    BY <2>2, JobIs
  <2>4. /\ ready \in Seq(Jobs)
        /\ Members(ready) = IF Child(s) \in finished THEN {Job(s, "settle")} ELSE {}
    <3>1. CASE Child(s) \in finished
      BY <2>2, <2>3, <3>1, FewMembers
    <3>2. CASE Child(s) \notin finished
      BY <2>2, <3>2, FewMembers
    <3> QED
      BY <3>1, <3>2
  <2> HIDE DEF ready
  <2>5. s \in started /\ ~IsLeaf(s)
    BY <2>1, <2>4, AtHead
  <2>6. finished \subseteq started
    BY DEF Underway
  <2> QED
    BY <2>1, <2>2, <2>3, <2>4, <2>5, <2>6, StayUnderway
<1>3. CASE Settle
  <2> DEFINE ready == <<Job(s, "finish")>>
  <2>1. React("settle", ready) /\ UNCHANGED <<started, finished, adopted>>
    BY <1>3 DEF Settle, spans
  <2>2. s \in Spans
    BY <2>1, HeadSound
  <2>3. /\ Job(s, "finish") \in Jobs
        /\ Job(s, "finish").span = s /\ Job(s, "finish").step = "finish"
    BY <2>2, JobIs
  <2>4. ready \in Seq(Jobs) /\ Members(ready) = {Job(s, "finish")}
    BY <2>3, FewMembers
  <2> HIDE DEF ready
  <2>5. s \in started
    BY <2>1, <2>4, AtHead
  <2>6. finished \subseteq started
    BY DEF Underway
  <2> QED
    BY <2>1, <2>3, <2>4, <2>5, <2>6, StayUnderway
<1>4. CASE FinishSpan
  <2> DEFINE p == Parent(s)
             ready == IF p \in adopted THEN <<Job(p, "settle")>> ELSE <<>>
  <2>1. /\ React("finish", ready) /\ UNCHANGED <<started, adopted>>
        /\ finished' = finished \cup {s}
    BY <1>4 DEF FinishSpan
  <2>2. s \in Spans /\ p \in Spans
    BY <2>1, HeadSound, ParentOf
  <2>3. /\ Job(p, "settle") \in Jobs
        /\ Job(p, "settle").span = p
    BY <2>2, JobIs
  <2>4. /\ ready \in Seq(Jobs)
        /\ Members(ready) = IF p \in adopted THEN {Job(p, "settle")} ELSE {}
    <3>1. CASE p \in adopted
      BY <2>3, <3>1, FewMembers
    <3>2. CASE p \notin adopted
      BY <3>2, FewMembers
    <3> QED
      BY <3>1, <3>2
  <2> HIDE DEF ready
  <2>5. s \in started
    BY <2>1, <2>4, AtHead
  <2>6. ASSUME NEW u \in adopted, Child(u) \in finished' \ finished PROVE u = p
    <3>1. Child(u) = s
      BY <2>1, <2>6
    <3>2. u \in Spans
      <4>1. u \in Places
        BY DEF Underway
      <4> QED
        BY <4>1 DEF Places, Traces, Spans
    <3> QED
      BY <3>1, <3>2, ParentOf
  <2>7. finished \subseteq started /\ \A u \in adopted : u \in started /\ ~IsLeaf(u)
    BY DEF Underway
  <2> HIDE DEF p
  <2> QED
    BY <2>1, <2>3, <2>4, <2>5, <2>6, <2>7, StayUnderway
<1> QED
  BY <1>1, <1>2, <1>3, <1>4 DEF Reaction

(* Before the start there are no spans.                                    *)
LEMMA WholeInit == Init => WholeInv
BY DEF Init, WholeInv

(* The traces are started at the root; reports are made of what is         *)
(* finished when nothing is due.                                           *)
LEMMA WholeStep == Inv /\ WholeInv /\ [Next]_vars => WholeInv'
<1> SUFFICES ASSUME Inv, WholeInv, [Next]_vars PROVE WholeInv'
  OBVIOUS
<1>1. CASE generateTraces
  <2>1. /\ phase = "start" /\ UNCHANGED <<repeat, finished, adopted, reported>>
        /\ started = {} /\ finished = {} /\ adopted = {}
    BY <1>1 DEF generateTraces, WholeInv
  <2>2. CASE repeat < 1
    BY <1>1, <2>1, <2>2 DEF generateTraces, WholeInv, Places, Traces
  <2>3. CASE ~(repeat < 1)
    <3>1. /\ phase' = "loop"
          /\ started' = {<<t, 1>> : t \in 1 .. repeat}
          /\ microtasks' = [t \in 1 .. repeat |-> generateSpan(<<t, 1>>)]
      BY <1>1, <2>3 DEF generateTraces, doWork, Traces
    <3>2. repeat \in Nat
      BY <2>3 DEF Inv
    <3>3. \A t \in 1 .. repeat : generateSpan(<<t, 1>>) \in Jobs
      BY GeneratedSound DEF Spans, Sound
    <3>4. Len(microtasks') = repeat
      BY <3>1, <3>2, <3>3
    <3>5. Due' = {generateSpan(<<t, 1>>) : t \in 1 .. repeat}
      BY <3>1, <3>4 DEF Due, Members
    <3>6. \A t \in 1 .. repeat : LET j == generateSpan(<<t, 1>>) IN
              /\ j.span = <<t, 1>> /\ (j.step # "finish" => ~IsLeaf(<<t, 1>>))
              /\ IsLeaf(<<t, 1>>) \/ j = Job(<<t, 1>>, "child")
      BY DEF generateSpan, Job
    <3>7. Traces' = 1 .. repeat /\ Places' = (1 .. repeat) \X (1 .. SPANS_PER_LOOP)
          /\ Places' = Places
      BY <2>1 DEF Traces, Places
    <3>8. started' \subseteq Places'
      BY <3>1, <3>7, JsClientAssumption
    <3>9. \A u : IsLeaf(u)' = IsLeaf(u) /\ Child(u)' = Child(u)
      BY DEF IsLeaf, Child
    <3>10. Underway'
      BY <2>1, <3>1, <3>5, <3>6, <3>7, <3>8, <3>9 DEF Underway
    <3> QED
      BY <2>1, <3>1, <3>7, <3>10 DEF WholeInv
  <2> QED
    BY <2>2, <2>3
<1>2. CASE Reaction
  <2>1. phase = "loop" /\ UNCHANGED <<repeat, phase, reported>>
    BY <1>2 DEF Reaction, StartChild, Adopt, Settle, FinishSpan, React
  <2>2. Underway'
    BY <1>2, <2>1, ReactionUnderway DEF WholeInv
  <2> QED
    BY <2>1, <2>2 DEF WholeInv, Places, Traces
<1>3. CASE NextTimer
  <2>1. /\ phase = "loop" /\ microtasks = <<>>
        /\ UNCHANGED <<repeat, phase, started, finished, adopted, microtasks>>
        /\ reported' \in {reported, finished}
    BY <1>3 DEF NextTimer, spans, Inv
  <2>2. finished = Places
    BY <2>1, NothingDue DEF WholeInv
  <2>3. Underway'
    BY <2>1 DEF WholeInv, Underway, Places, Traces, Due, Members, IsLeaf, Child
  <2> QED
    BY <2>1, <2>2, <2>3 DEF WholeInv, Places, Traces
<1>4. CASE Exit
  <2>1. /\ phase = "loop" /\ microtasks = <<>> /\ phase' = "exited"
        /\ UNCHANGED repeat
        /\ reported' \in {reported, finished}
    BY <1>4 DEF Exit
  <2>2. finished = Places
    BY <2>1, NothingDue DEF WholeInv
  <2> QED
    BY <2>1, <2>2 DEF WholeInv, Places, Traces
<1>5. CASE UNCHANGED vars
  <2>1. UNCHANGED <<repeat, phase, started, finished, adopted, microtasks, reported>>
    BY <1>5 DEF vars, spans
  <2> QED
    BY <2>1 DEF WholeInv, Underway, Places, Traces, Due, Members, IsLeaf, Child
<1> QED
  BY <1>1, <1>2, <1>3, <1>4, <1>5 DEF Next

(* A report holds every span of every trace or none, since no report gets  *)
(* its turn while reactions are due (index.js 31-45, 63-71).               *)
THEOREM ReportsAreWhole == Spec => []ReportsWhole
<1>1. WholeInv => ReportsWhole
  BY DEF WholeInv, ReportsWhole, Places
<1> QED
  BY <1>1, InvInit, InvStep, WholeInit, WholeStep, PTL DEF Spec
=============================================================================
