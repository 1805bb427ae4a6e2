--------------------------- MODULE SpanClientProofs ---------------------------
(***************************************************************************)
(* What SpanClient promises about sleep, about the number of spans and     *)
(* about how they nest, and what TracedClient promises about the spans     *)
(* that arrive, proved for every set of command lines, every               *)
(* SPANS_PER_LOOP, every set of satellites and every size of the buffer.   *)
(***************************************************************************)
EXTENDS TracedClient, SumTheorems, SequenceTheorems, TLAPS

InGroup == {"generate", "call", "unwind"}

(* The group fits: it is not larger than a loop sends, nor than what is    *)
(* left to send.                                                           *)
GroupFits == pc \in InGroup => /\ group <= SPANS_PER_LOOP
                               /\ spans_sent + group <= args.repeat

(* Each span of the group is still to be started, open or finished.        *)
SpansCounted ==
    /\ spans_sent <= args.repeat
    /\ finished + Len(open) + number_spans = IF pc \in InGroup THEN spans_sent + group
                                                               ELSE spans_sent
    /\ pc \in {"generate", "call"} => number_spans > 0
    /\ pc = "call" => open # <<>>
    /\ pc \notin {"generate", "call"} => number_spans = 0
    /\ pc \notin InGroup => open = <<>>
    /\ pc = "done" => spans_sent = args.repeat

OneSleepPaysAGroup == args.sleep * SPANS_PER_LOOP <= args.sleep_interval

(* The debt is at most one sleep, and two just before it is paid.          *)
DebtStep == OneSleepPaysAGroup =>
                sleep_debt <= IF pc = "pay" THEN args.sleep_interval + args.sleep_interval
                                            ELSE args.sleep_interval

Inv == TypeOK /\ GroupFits /\ SpansCounted /\ DebtConserved /\ DebtStep

(* What the command line gives is numbers.                                 *)
LEMMA ArgsFacts == ASSUME TypeOK
                   PROVE  args.repeat \in Nat /\ args.sleep \in Int
                          /\ args.sleep_interval \in Nat
  BY ClientAssumption DEF TypeOK, ArgType

(* Multiplication, which the SMT solver is only shown here.                *)
LEMMA Monotone == \A a \in Nat, b, c \in Nat : b <= c => a * b <= a * c
  OBVIOUS

(* A negative sleep asks for no time.                                      *)
LEMMA Negative == \A a \in Int, b \in Nat : a < 0 => a * b <= 0
  OBVIOUS

(* Sleep for spans is an integer.                                          *)
LEMMA Product == \A a \in Int, b \in Nat : a * b \in Int
  OBVIOUS

(* No spans, no sleep.                                                     *)
LEMMA TimesZero == \A a \in Int : a * 0 = 0
  OBVIOUS

(* The sleep for two groups is that for both.                              *)
LEMMA Distributes == \A a \in Int, b, c \in Nat : a * (b + c) = a * b + a * c
  OBVIOUS

(* Taking the last span off leaves the others.                             *)
LEMMA LastOff == ASSUME NEW f \in Seq(Nat), f # <<>>
                 PROVE  /\ SubSeq(f, 1, Len(f) - 1) \in Seq(Nat)
                        /\ Len(SubSeq(f, 1, Len(f) - 1)) = Len(f) - 1
                        /\ \A i \in 1 .. Len(f) - 1 : SubSeq(f, 1, Len(f) - 1)[i] = f[i]
<1>1. Len(f) \in Nat \ {0}
  BY EmptySeq
<1>2. \A i \in 1 .. Len(f) - 1 : f[i] \in Nat
  BY <1>1, ElementOfSeq
<1>3. Len(f) - 1 \in Int
  BY <1>1
<1> DEFINE n == Len(f) - 1
           g == SubSeq(f, 1, n)
<1>4. /\ g \in Seq(Nat) /\ Len(g) = IF 1 <= n THEN n - 1 + 1 ELSE 0
      /\ \A i \in 1 .. n - 1 + 1 : g[i] = f[1 + i - 1]
  BY <1>2, <1>3, SubSeqProperties
<1>5. n \in Nat
  BY <1>1
<1> HIDE DEF n, g
<1>6. (IF 1 <= n THEN n - 1 + 1 ELSE 0) = n /\ n - 1 + 1 = n
  BY <1>5
<1>7. \A i \in 1 .. n : 1 + i - 1 = i
  BY <1>5
<1>8. /\ g \in Seq(Nat) /\ Len(g) = n
      /\ \A i \in 1 .. n : g[i] = f[i]
  BY <1>4, <1>6, <1>7
<1> QED
  BY <1>8 DEF g, n

(* No span is open at the start.                                           *)
LEMMA EmptyFacts == <<>> \in Seq(Nat) /\ Len(<<>>) = 0
  BY EmptySeq

(* Opening a span makes one more.                                          *)
LEMMA AppendFacts == ASSUME NEW f \in Seq(Nat), NEW e \in Nat
                     PROVE  /\ Append(f, e) \in Seq(Nat)
                            /\ Append(f, e) # <<>>
                            /\ Len(Append(f, e)) = Len(f) + 1
                            /\ \A i \in 1 .. Len(f) : Append(f, e)[i] = f[i]
                            /\ Append(f, e)[Len(f) + 1] = e
  BY AppendProperties

(* A client starts with nothing done and nothing owed.                     *)
LEMMA InvInit == Init => Inv
<1> SUFFICES ASSUME Init PROVE Inv
  OBVIOUS
<1>0. open \in Seq(Nat) /\ parents \in Seq(Nat)
  BY EmptyFacts, Zenon DEF Init
<1>1. TypeOK
  <2>1. /\ spans_sent \in Nat /\ sleep_debt \in Int /\ slept \in Nat
        /\ group \in Nat /\ number_spans \in Nat
        /\ finished \in Nat
    BY DEF Init
  <2>2. /\ args \in Args
        /\ pc \in {"loop", "generate", "call", "unwind", "pay", "done"}
        /\ flushed \in BOOLEAN
    BY Zenon DEF Init
  <2> QED
    BY <1>0, <2>1, <2>2 DEF TypeOK
<1>2. args.sleep * 0 = 0
  BY <1>1, ArgsFacts, TimesZero
<1>3. GroupFits /\ SpansCounted
  BY <1>1, ArgsFacts, EmptyFacts DEF Init, GroupFits, SpansCounted, InGroup
<1>4. DebtConserved
  BY <1>2 DEF Init, DebtConserved
<1>5. DebtStep
  BY <1>1, ArgsFacts DEF Init, DebtStep
<1> QED
  BY <1>1, <1>3, <1>4, <1>5 DEF Inv

(* Every step of perform_work and generate_spans keeps the invariant.      *)
LEMMA InvStep == Inv /\ [Next]_vars => Inv'
<1> SUFFICES ASSUME Inv, [Next]_vars PROVE Inv'
  OBVIOUS
<1> USE ClientAssumption
<1>0. /\ TypeOK /\ GroupFits /\ SpansCounted /\ DebtConserved /\ DebtStep
      /\ args.repeat \in Nat /\ args.sleep \in Int /\ args.sleep_interval \in Nat
      /\ Len(open) \in Nat
  BY ArgsFacts, LenProperties DEF Inv, TypeOK
<1>1. CASE NextGroup
  <2>1. group' \in Nat \ {0} /\ group' <= SPANS_PER_LOOP /\ spans_sent + group' <= args.repeat
    BY <1>0, <1>1 DEF NextGroup, Min2, TypeOK
  <2>2. TypeOK'
    BY <1>0, <1>1, <2>1, EmptyFacts DEF NextGroup, TypeOK, debt
  <2>3. (GroupFits /\ SpansCounted)'
    BY <1>0, <1>1, <2>1, EmptyFacts
       DEF NextGroup, TypeOK, GroupFits, SpansCounted, InGroup, debt
  <2>4. (DebtConserved /\ DebtStep)'
    BY <1>0, <1>1 DEF NextGroup, DebtConserved, DebtStep, OneSleepPaysAGroup, debt
  <2> QED
    BY <2>2, <2>3, <2>4 DEF Inv
<1>2. CASE StartSpan
  <2>1. Started \in Nat /\ ParentOfNext \in Nat
    BY <1>0, LenProperties DEF TypeOK, Started, ParentOfNext
  <2>2. /\ open' \in Seq(Nat) /\ open' # <<>> /\ Len(open') = Len(open) + 1
        /\ parents' \in Seq(Nat)
    <3>1. Started + 1 \in Nat /\ open \in Seq(Nat) /\ parents \in Seq(Nat)
      BY <1>0, <2>1 DEF TypeOK
    <3>2. open' = Append(open, Started + 1) /\ parents' = Append(parents, ParentOfNext)
      BY <1>2 DEF StartSpan
    <3> QED
      BY <2>1, <3>1, <3>2, AppendFacts
  <2>3. number_spans > 0 /\ number_spans' = number_spans - 1
    BY <1>2 DEF StartSpan
  <2>4. pc = "generate" /\ pc' = IF number_spans' = 0 THEN "unwind"
                                 ELSE IF Role = "db" THEN "call" ELSE "generate"
    BY <1>2 DEF StartSpan
  <2>5. UNCHANGED <<args, spans_sent, sleep_debt, slept, group, finished, flushed>>
    BY <1>2 DEF StartSpan, debt
  <2>6. TypeOK'
    BY <1>0, <2>2, <2>3, <2>4, <2>5 DEF TypeOK
  <2>7. (GroupFits /\ SpansCounted)'
    <3>1. finished' + Len(open') + number_spans' = finished + Len(open) + number_spans
      BY <1>0, <2>2, <2>3, <2>5 DEF TypeOK
    <3>2. pc' \in InGroup /\ pc' # "done" /\ (pc' = "call" => open' # <<>>)
          /\ (pc' = "unwind" <=> number_spans' = 0)
      BY <2>2, <2>4 DEF InGroup
    <3>3. number_spans' \in Nat
      BY <2>6 DEF TypeOK
    <3> QED
      BY <1>0, <2>4, <2>5, <3>1, <3>2, <3>3 DEF GroupFits, SpansCounted, InGroup
  <2>8. (DebtConserved /\ DebtStep)'
    BY <1>0, <2>4, <2>5 DEF DebtConserved, DebtStep, OneSleepPaysAGroup
  <2> QED
    BY <2>6, <2>7, <2>8 DEF Inv
<1>3. CASE Recurse
  <2>1. pc = "call" /\ pc' = "generate" /\ number_spans > 0 /\ open # <<>>
    BY <1>0, <1>3 DEF Recurse, SpansCounted
  <2>2. UNCHANGED <<args, spans_sent, sleep_debt, slept, group, number_spans, parents, flushed>>
    BY <1>3 DEF Recurse, debt
  <2>3. /\ finished' + Len(open') = finished + Len(open)
        /\ open' \in Seq(Nat) /\ finished' \in Nat
    <3>1. CASE args.client = "python"
      <4>1. open' = SubSeq(open, 1, Len(open) - 1)
        BY <1>3, <3>1 DEF Recurse
      <4>2. finished' = finished + 1
        BY <1>3, <3>1 DEF Recurse
      <4>3. open' \in Seq(Nat) /\ Len(open') = Len(open) - 1
        BY <1>0, <2>1, <4>1, LastOff DEF TypeOK
      <4> QED
        BY <1>0, <4>2, <4>3 DEF TypeOK
    <3>2. CASE args.client # "python"
      <4>1. open' = open /\ finished' = finished
        BY <1>3, <3>2 DEF Recurse
      <4>2. Len(open') = Len(open)
        BY <4>1, Zenon
      <4> QED
        BY <1>0, <4>1, <4>2 DEF TypeOK
    <3> QED
      BY <3>1, <3>2
  <2>4. TypeOK'
    BY <1>0, <2>1, <2>2, <2>3 DEF TypeOK
  <2>5. (GroupFits /\ SpansCounted)'
    <3>1. finished' + Len(open') + number_spans' = finished + Len(open) + number_spans
      BY <2>2, <2>3
    <3> QED
      BY <1>0, <2>1, <2>2, <3>1 DEF GroupFits, SpansCounted, InGroup
  <2>6. (DebtConserved /\ DebtStep)'
    BY <1>0, <2>1, <2>2 DEF DebtConserved, DebtStep, OneSleepPaysAGroup
  <2> QED
    BY <2>4, <2>5, <2>6 DEF Inv
<1>4. CASE FinishSpan
  <2>1. pc = "unwind" /\ open # <<>> /\ finished' = finished + 1
    BY <1>4 DEF FinishSpan
  <2>2. UNCHANGED <<args, pc, spans_sent, sleep_debt, slept, group, number_spans, parents, flushed>>
    BY <1>4 DEF FinishSpan, debt
  <2>3. open' \in Seq(Nat) /\ Len(open') = Len(open) - 1
    BY <1>0, <1>4, <2>1, LastOff DEF FinishSpan, TypeOK
  <2>4. TypeOK'
    BY <1>0, <2>1, <2>2, <2>3 DEF TypeOK
  <2>5. (GroupFits /\ SpansCounted)'
    <3>1. finished' + Len(open') + number_spans' = finished + Len(open) + number_spans
      BY <1>0, <2>1, <2>2, <2>3 DEF TypeOK
    <3> QED
      BY <1>0, <2>1, <2>2, <3>1 DEF GroupFits, SpansCounted, InGroup
  <2>6. (DebtConserved /\ DebtStep)'
    BY <1>0, <2>1, <2>2 DEF DebtConserved, DebtStep, OneSleepPaysAGroup
  <2> QED
    BY <2>4, <2>5, <2>6 DEF Inv
<1>5. CASE Charge
  <2>1. /\ pc = "unwind" /\ open = <<>> /\ pc' = "pay"
        /\ spans_sent' = spans_sent + group
        /\ sleep_debt' = sleep_debt + args.sleep * group
        /\ UNCHANGED <<args, slept, group, number_spans, open, parents, finished, flushed>>
    BY <1>5 DEF Charge, trace
  <2>2. /\ group <= SPANS_PER_LOOP /\ group \in Nat
        /\ args.sleep * group \in Int
    BY <1>0, <2>1, Product DEF TypeOK, GroupFits, InGroup
  <2>3. args.sleep * (spans_sent + group) = args.sleep * spans_sent + args.sleep * group
    BY <1>0, Distributes DEF TypeOK
  <2>4. args.sleep * spans_sent \in Int /\ args.sleep * SPANS_PER_LOOP \in Int
    BY <1>0, Product DEF TypeOK
  <2>5. TypeOK'
    BY <1>0, <2>1, <2>2 DEF TypeOK
  <2>6. (GroupFits /\ SpansCounted)'
    BY <1>0, <2>1, EmptyFacts DEF TypeOK, GroupFits, SpansCounted, InGroup
  <2>7. DebtConserved'
    BY <1>0, <2>1, <2>2, <2>3, <2>4 DEF TypeOK, DebtConserved
  <2>8. DebtStep'
    <3>1. SUFFICES ASSUME OneSleepPaysAGroup
                   PROVE  sleep_debt' <= args.sleep_interval + args.sleep_interval
      BY <2>1 DEF DebtStep, OneSleepPaysAGroup
    <3>2. args.sleep * group <= args.sleep_interval
      <4>1. CASE args.sleep < 0
        BY <1>0, <2>2, <4>1, Negative
      <4>2. CASE ~(args.sleep < 0)
        <5>1. args.sleep * group <= args.sleep * SPANS_PER_LOOP
          BY <1>0, <2>2, <4>2, Monotone
        <5> QED
          BY <1>0, <2>2, <2>4, <3>1, <5>1 DEF OneSleepPaysAGroup
      <4> QED
        BY <4>1, <4>2
    <3>3. sleep_debt <= args.sleep_interval
      BY <1>0, <2>1, <3>1 DEF DebtStep
    <3> QED
      BY <1>0, <2>1, <2>2, <3>2, <3>3 DEF TypeOK
  <2> QED
    BY <2>5, <2>6, <2>7, <2>8 DEF Inv
<1>6. CASE Pay
  <2>1. /\ pc = "pay" /\ pc' = "loop"
        /\ UNCHANGED <<args, spans_sent, group, number_spans, open, parents, finished, flushed>>
    BY <1>6 DEF Pay, trace
  <2>2. \/ /\ sleep_debt > args.sleep_interval
           /\ sleep_debt' = sleep_debt - args.sleep_interval
           /\ slept' = slept + args.sleep_interval
        \/ sleep_debt <= args.sleep_interval /\ UNCHANGED <<sleep_debt, slept>>
    BY <1>0, <1>6 DEF Pay, TypeOK
  <2>3. TypeOK'
    BY <1>0, <2>1, <2>2 DEF TypeOK
  <2>4. (GroupFits /\ SpansCounted)'
    BY <1>0, <2>1 DEF GroupFits, SpansCounted, InGroup
  <2>5. slept' + sleep_debt' = slept + sleep_debt
    BY <1>0, <2>2 DEF TypeOK
  <2>6. DebtConserved'
    BY <1>0, <2>1, <2>5 DEF DebtConserved
  <2>7. DebtStep'
    BY <1>0, <2>1, <2>2 DEF TypeOK, DebtStep, OneSleepPaysAGroup
  <2> QED
    BY <2>3, <2>4, <2>6, <2>7 DEF Inv
<1>7. CASE Exit
  <2>1. /\ pc = "loop" /\ pc' = "done" /\ spans_sent >= args.repeat
        /\ flushed' = (~args.no_flush /\ (args.trace \/ args.client = "cpp"))
        /\ UNCHANGED <<args, spans_sent, sleep_debt, slept, group>>
        /\ UNCHANGED <<number_spans, open, parents, finished>>
    BY <1>7 DEF Exit, trace, debt
  <2>2. TypeOK'
    BY <1>0, <2>1 DEF TypeOK
  <2>3. (GroupFits /\ SpansCounted)'
    BY <1>0, <2>1 DEF TypeOK, GroupFits, SpansCounted, InGroup
  <2>4. (DebtConserved /\ DebtStep)'
    BY <1>0, <2>1 DEF DebtConserved, DebtStep, OneSleepPaysAGroup
  <2> QED
    BY <2>2, <2>3, <2>4 DEF Inv
<1>8. CASE UNCHANGED vars
  <2>1. UNCHANGED <<args, pc, spans_sent, sleep_debt, slept, group, number_spans, open,
                    parents, finished, flushed>>
    BY <1>8 DEF vars
  <2> QED
    BY <2>1, <1>0 DEF Inv, TypeOK, GroupFits, SpansCounted, DebtConserved, DebtStep,
                      OneSleepPaysAGroup, InGroup
<1> QED
  BY <1>1, <1>2, <1>3, <1>4, <1>5, <1>6, <1>7, <1>8 DEF Next, PerformWork, GenerateSpans

(* The invariant holds throughout a run of the client.                     *)
LEMMA InvCorrect == Spec => []Inv
  BY InvInit, InvStep, PTL DEF Spec

(* Every variable keeps its type; no count is ever negative.               *)
THEOREM TypeCorrect == Spec => []TypeOK
<1>1. Inv => TypeOK
  BY DEF Inv
<1> QED
  BY <1>1, InvCorrect, PTL

(* The sleep asked for is slept or owed, in every client.                  *)
THEOREM SleepAccounted == Spec => []DebtConserved
<1>1. Inv => DebtConserved
  BY DEF Inv
<1> QED
  BY <1>1, InvCorrect, PTL

(* If one sleep pays for a group, the debt never passes one sleep, however *)
(* many spans are sent.                                                    *)
THEOREM SleepKeepsUp == Spec => []DebtBounded
<1>1. Inv => DebtBounded
  BY DEF Inv, DebtStep, DebtBounded, OneSleepPaysAGroup
<1> QED
  BY <1>1, InvCorrect, PTL

(* The client generates the spans it was asked for, and finishes them.     *)
THEOREM AllGenerated == Spec => []GeneratesRepeat
<1>1. Inv => GeneratesRepeat
  <2> SUFFICES ASSUME Inv, pc = "done"
               PROVE  spans_sent = args.repeat /\ finished = args.repeat
    BY DEF GeneratesRepeat
  <2> QED
    BY ArgsFacts, EmptyFacts DEF Inv, TypeOK, SpansCounted, InGroup
<1> QED
  BY <1>1, InvCorrect, PTL
-----------------------------------------------------------------------------
(* Where the spans of a group hang: those that are open are of the group   *)
(* and well-nested, and the span started next has an open one above it,    *)
(* except for the first of the group.                                      *)
Nested ==
    /\ \A i \in 1 .. Len(open) : open[i] \in 1 .. Len(parents)
    /\ WellNested
    /\ pc = "generate" =>
          IF Role = "client"
          THEN Started = 0 \/ \E j \in 1 .. Len(open) : open[j] = ParentOfNext
          ELSE open # <<>> /\ open[Len(open)] = Started
    /\ pc = "call" => /\ Role = "client" /\ Started # 0
                      /\ Len(open) >= 2
                      /\ open[Len(open)] = Started
                      /\ open[Len(open) - 1] = Started - 1

(* The roles of a call follow each other.                                  *)
LEMMA RoleFacts ==
    ASSUME TypeOK
    PROVE  /\ Started \in Nat
           /\ Role = "client" <=> Started % 3 = 0
           /\ Role = "server" <=> Started % 3 = 1
           /\ Role = "db" <=> Started % 3 = 2
<1>1. Started \in Nat
  BY LenProperties DEF TypeOK, Started
<1> QED
  BY <1>1 DEF Role

(* The span above the next one is the last one started, or the one before. *)
LEMMA ParentFacts ==
    ASSUME TypeOK
    PROVE  /\ ParentOfNext \in {Started, Started - 1}
           /\ Role # "client" \/ Started = 0 => ParentOfNext = Started
  BY DEF ParentOfNext

(* With the innermost span finished, the others are as well-nested.        *)
LEMMA LastOffNests ==
    ASSUME TypeOK, Nested, open # <<>>,
           open' = SubSeq(open, 1, Len(open) - 1), UNCHANGED parents
    PROVE  /\ Len(open') = Len(open) - 1
           /\ \A i \in 1 .. Len(open') : open'[i] = open[i]
           /\ \A i \in 1 .. Len(open') : open'[i] \in 1 .. Len(parents')
           /\ WellNested'
<1>1. /\ Len(open) \in Nat \ {0}
      /\ Len(open') = Len(open) - 1
      /\ \A i \in 1 .. Len(open) - 1 : open'[i] = open[i]
  BY LastOff, EmptySeq DEF TypeOK
<1>2. \A i \in 1 .. Len(open') : i \in 1 .. Len(open) /\ open'[i] = open[i]
  BY <1>1
<1>3. \A i \in 1 .. Len(open') : open'[i] \in 1 .. Len(parents')
  BY <1>2 DEF Nested
<1>4. ASSUME NEW i \in 1 .. Len(open'), parents'[open'[i]] # 0
      PROVE  \E j \in 1 .. i - 1 : open'[j] = parents'[open'[i]]
  <2>1. PICK j \in 1 .. i - 1 : open[j] = parents[open[i]]
    BY <1>2, <1>4 DEF Nested, WellNested
  <2>2. j \in 1 .. Len(open')
    BY <1>1, <2>1
  <2> QED
    BY <1>2, <2>1, <2>2
<1> QED
  BY <1>1, <1>2, <1>3, <1>4 DEF WellNested

(* A client starts with no span open.                                      *)
LEMMA NestedInit == Init => Nested
<1> SUFFICES ASSUME Init PROVE Nested
  OBVIOUS
<1>1. Len(open) = 0 /\ pc = "loop"
  BY EmptyFacts DEF Init
<1>2. 1 .. Len(open) = {}
  BY <1>1
<1> QED
  BY <1>1, <1>2 DEF Nested, WellNested

(* A span is started below one that is open.                               *)
LEMMA StartNests == ASSUME Inv, Nested, StartSpan PROVE Nested'
<1>0. TypeOK /\ open \in Seq(Nat) /\ parents \in Seq(Nat)
  BY DEF Inv, TypeOK
<1> DEFINE n == Len(open)
           m == Started
           p == ParentOfNext
<1>1. /\ n \in Nat /\ m \in Nat /\ m = Len(parents)
      /\ p \in {m, m - 1}
      /\ Role # "client" \/ m = 0 => p = m
      /\ p \in Nat
  <2>1. n \in Nat
    BY <1>0, LenProperties
  <2>2. m \in Nat
    BY <1>0, RoleFacts
  <2>3. p \in {m, m - 1} /\ (Role # "client" \/ m = 0 => p = m)
    BY <1>0, ParentFacts
  <2> HIDE DEF p, m
  <2>4. p \in Nat
    BY <2>2, <2>3
  <2> QED
    BY <2>1, <2>2, <2>3, <2>4 DEF m, Started
<1>2. /\ open' = Append(open, m + 1) /\ parents' = Append(parents, p)
      /\ pc = "generate" /\ UNCHANGED args
      /\ pc' = IF number_spans' = 0 THEN "unwind"
               ELSE IF Role = "db" THEN "call" ELSE "generate"
  BY DEF StartSpan
<1> HIDE DEF p
<1>3. /\ Len(open') = n + 1 /\ open'[n + 1] = m + 1 /\ open' # <<>>
      /\ \A i \in 1 .. n : open'[i] = open[i]
  <2>1. m + 1 \in Nat
    BY <1>1
  <2> HIDE DEF m
  <2> QED
    BY <1>0, <1>2, <2>1, AppendFacts
<1>4. /\ Len(parents') = m + 1 /\ parents'[m + 1] = p
      /\ \A i \in 1 .. m : parents'[i] = parents[i]
  BY <1>0, <1>1, <1>2, AppendFacts
<1>5. Started' = m + 1
  BY <1>4 DEF Started
<1>6. \A i \in 1 .. n : open[i] \in 1 .. m
  BY <1>1 DEF Nested
<1>7. Role = "client" => m = 0 \/ \E j \in 1 .. n : open[j] = p
  BY <1>2 DEF Nested, p
<1>8. Role # "client" => n >= 1 /\ open[n] = m
  BY <1>0, <1>2, EmptySeq DEF Nested
<1> HIDE DEF n, m
<1>9. p # 0 => \E j \in 1 .. n : open[j] = p
  <2>1. CASE Role = "client"
    BY <1>1, <1>7, <2>1
  <2>2. CASE Role # "client"
    BY <1>1, <1>8, <2>2
  <2> QED
    BY <2>1, <2>2
<1>10. \A i \in 1 .. Len(open') : open'[i] \in 1 .. Len(parents')
  BY <1>1, <1>3, <1>4, <1>6
<1>11. WellNested'
  <2> SUFFICES ASSUME NEW i \in 1 .. Len(open'), parents'[open'[i]] # 0
               PROVE  \E j \in 1 .. i - 1 : open'[j] = parents'[open'[i]]
    BY DEF WellNested
  <2>1. CASE i = n + 1
    <3>1. parents'[open'[i]] = p
      BY <1>3, <1>4, <2>1
    <3>2. PICK j \in 1 .. n : open[j] = p
      BY <1>9, <3>1
    <3> QED
      BY <1>1, <1>3, <2>1, <3>1, <3>2
  <2>2. CASE i # n + 1
    <3>1. i \in 1 .. n /\ open'[i] = open[i] /\ open[i] \in 1 .. m
      BY <1>1, <1>3, <1>6, <2>2
    <3>2. parents'[open'[i]] = parents[open[i]]
      BY <1>4, <3>1
    <3>3. PICK j \in 1 .. i - 1 : open[j] = parents[open[i]]
      BY <3>1, <3>2 DEF Nested, WellNested, n
    <3>4. j \in 1 .. n
      BY <1>1, <3>1, <3>3
    <3> QED
      BY <1>3, <3>2, <3>3, <3>4
  <2> QED
    BY <2>1, <2>2
<1>12. TypeOK'
  BY InvStep, PTL DEF Inv, Next, GenerateSpans
<1> QED
  <2>1. CASE pc' = "unwind"
    BY <1>10, <1>11, <2>1 DEF Nested
  <2>2. CASE pc' = "generate"
    <3>1. Role # "db"
      BY <1>2, <2>2
    <3>2. m % 3 \in {0, 1}
      BY <1>0, <1>1, <3>1, RoleFacts DEF m
    <3>3. (m + 1) % 3 # 0
      BY <1>1, <3>2
    <3>4. Role' # "client"
      BY <1>5, <3>3 DEF Role
    <3> QED
      BY <1>1, <1>3, <1>5, <1>10, <1>11, <2>2, <3>4 DEF Nested
  <2>3. CASE pc' = "call"
    <3>1. Role = "db"
      BY <1>2, <2>3
    <3>2. m % 3 = 2
      BY <1>0, <3>1, RoleFacts DEF m
    <3>3. (m + 1) % 3 = 0
      BY <1>1, <3>2
    <3>4. Role' = "client"
      BY <1>5, <3>3 DEF Role
    <3>5. n >= 1 /\ open[n] = m
      BY <1>8, <3>1
    <3>6. /\ Len(open') >= 2 /\ Started' # 0
          /\ open'[Len(open')] = Started'
          /\ open'[Len(open') - 1] = Started' - 1
      BY <1>1, <1>3, <1>5, <3>5
    <3> QED
      BY <1>10, <1>11, <2>3, <3>4, <3>6 DEF Nested
  <2> QED
    BY <1>2, <2>1, <2>2, <2>3

(* The span below which a call goes on is open still: in Python the db     *)
(* span is finished by then, and is not the one.                           *)
LEMMA CallNests == ASSUME Inv, Nested, Recurse PROVE Nested'
<1>0. TypeOK /\ open \in Seq(Nat) /\ Started \in Nat
  BY RoleFacts DEF Inv, TypeOK
<1>1. /\ pc = "call" /\ pc' = "generate"
      /\ UNCHANGED <<args, parents>>
      /\ Role = "client" /\ Started # 0
      /\ Len(open) >= 2 /\ Len(open) \in Nat
      /\ open[Len(open)] = Started /\ open[Len(open) - 1] = Started - 1
  BY <1>0, LenProperties DEF Recurse, Nested
<1>2. Started' = Started /\ Role' = Role /\ ParentOfNext' = ParentOfNext
  BY <1>1 DEF Started, Role, ParentOfNext
<1>3. open # <<>>
  BY <1>1, EmptyFacts
<1>4. CASE args.client = "python"
  <2>1. open' = SubSeq(open, 1, Len(open) - 1)
    BY <1>4 DEF Recurse
  <2>2. /\ Len(open') = Len(open) - 1
        /\ \A i \in 1 .. Len(open') : open'[i] = open[i]
        /\ \A i \in 1 .. Len(open') : open'[i] \in 1 .. Len(parents')
        /\ WellNested'
    BY <1>0, <1>1, <1>3, <2>1, LastOffNests
  <2>3. ParentOfNext = Started - 1
    BY <1>1, <1>4 DEF ParentOfNext
  <2>4. Len(open) - 1 \in 1 .. Len(open') /\ open'[Len(open) - 1] = ParentOfNext
    BY <1>1, <2>2, <2>3
  <2> QED
    BY <1>1, <1>2, <2>2, <2>4 DEF Nested
<1>5. CASE args.client # "python"
  <2>1. open' = open
    BY <1>5 DEF Recurse
  <2>2. \E j \in 1 .. Len(open) : open[j] = ParentOfNext
    <3>1. ParentOfNext \in {Started, Started - 1}
      BY <1>0, ParentFacts
    <3>2. Len(open) \in 1 .. Len(open) /\ Len(open) - 1 \in 1 .. Len(open)
      BY <1>1
    <3> QED
      BY <1>1, <3>1, <3>2
  <2>3. WellNested'
    BY <1>1, <2>1 DEF Nested, WellNested
  <2> QED
    BY <1>1, <1>2, <2>1, <2>2, <2>3 DEF Nested
<1> QED
  BY <1>4, <1>5

(* Every step of the client keeps its spans nested.                        *)
LEMMA NestedStep == Inv /\ Nested /\ [Next]_vars => Nested'
<1> SUFFICES ASSUME Inv, Nested, [Next]_vars PROVE Nested'
  OBVIOUS
<1>1. CASE NextGroup
  <2>1. open' = <<>> /\ parents' = <<>> /\ pc' = "generate"
    BY <1>1 DEF NextGroup
  <2>2. Len(open') = 0 /\ Started' = 0
    BY <2>1, EmptyFacts DEF Started
  <2>3. 1 .. Len(open') = {}
    BY <2>2
  <2>4. Role' = "client"
    BY <2>2 DEF Role
  <2> QED
    BY <2>1, <2>2, <2>3, <2>4 DEF Nested, WellNested
<1>2. CASE StartSpan
  BY <1>2, StartNests
<1>3. CASE Recurse
  BY <1>3, CallNests
<1>4. CASE FinishSpan
  <2>1. pc' = "unwind"
    BY <1>4 DEF FinishSpan
  <2>2. /\ \A i \in 1 .. Len(open') : open'[i] \in 1 .. Len(parents')
        /\ WellNested'
    BY <1>4, LastOffNests DEF FinishSpan, Inv
  <2> QED
    BY <2>1, <2>2 DEF Nested
<1>5. CASE Charge \/ Pay \/ Exit \/ UNCHANGED vars
  BY <1>5 DEF Charge, Pay, Exit, vars, trace, Nested, WellNested, Started, Role, ParentOfNext
<1> QED
  BY <1>1, <1>2, <1>3, <1>4, <1>5 DEF Next, PerformWork, GenerateSpans

(* A span is open for as long as any of its children is, in each of the    *)
(* clients: generate_spans finishes the innermost span first, and goes on  *)
(* below one that it has not finished.                                     *)
THEOREM SpansNest == Spec => []WellNested
<1>1. Nested => WellNested
  BY DEF Nested
<1> QED
  BY <1>1, NestedInit, NestedStep, InvCorrect, PTL DEF Spec

-----------------------------------------------------------------------------
(* Spans at the satellites.                                                *)
Received == SumOver(received, SATELLITE_PORTS)

(* A span that is finished is in the buffer, dropped or at a satellite;    *)
(* the flush empties the buffer.                                           *)
Accounted == /\ tracer \in {"vanilla", "cpp"}
             /\ buffered \in Nat /\ dropped \in Nat
             /\ received \in [SATELLITE_PORTS -> Nat]
             /\ args.trace => Received + buffered + dropped = finished
             /\ pc = "done" /\ args.trace /\ ~args.no_flush => buffered = 0

(* The satellites have received a number of spans.                         *)
LEMMA ReceivedFacts == ASSUME received \in [SATELLITE_PORTS -> Nat]
                       PROVE  Received \in Nat
  BY SumType, TracerAssumption DEF Received

(* A client that traces reports to some of the satellites.                 *)
LEMMA TracerFacts == /\ build_tracer \subseteq SATELLITE_PORTS
                     /\ args.trace => build_tracer # {}
  BY TracerAssumption DEF build_tracer

(* A report moves what is buffered to one satellite.                       *)
LEMMA ReportMoves ==
    ASSUME Accounted, NEW p \in build_tracer, ReportTo(p),
           UNCHANGED <<args, finished>>
    PROVE  /\ Accounted'
           /\ buffered' = 0
<1>1. /\ p \in SATELLITE_PORTS
      /\ received' = [received EXCEPT ![p] = @ + buffered]
      /\ buffered' = 0 /\ dropped' = dropped /\ tracer' = tracer
  BY TracerFacts DEF ReportTo
<1>2. received \in [SATELLITE_PORTS -> Nat] /\ buffered \in Nat /\ dropped \in Nat
  BY DEF Accounted
<1>3. /\ received' \in [SATELLITE_PORTS -> Nat]
      /\ received'[p] = received[p] + buffered
      /\ \A q \in SATELLITE_PORTS \ {p} : received[q] = received'[q]
  BY <1>1, <1>2
<1>4. Received' = Received - received[p] + received'[p]
  <2>1. /\ \A q \in SATELLITE_PORTS : received[q] \in Nat /\ received'[q] \in Nat
        /\ \A q \in SATELLITE_PORTS \ {p} : received[q] = received'[q]
    BY <1>2, <1>3
  <2>2. p \in SATELLITE_PORTS /\ IsFiniteSet(SATELLITE_PORTS)
    BY <1>1, TracerAssumption
  <2>3. SumOver(received', SATELLITE_PORTS)
            = SumOver(received, SATELLITE_PORTS) - received[p] + received'[p]
    BY <2>1, <2>2, SumChange
  <2> QED
    BY <2>3 DEF Received
<1>5. Received \in Nat
  BY <1>2, ReceivedFacts
<1>6. Received' = Received + buffered
  BY <1>1, <1>2, <1>3, <1>4, <1>5
<1>7. args.trace => Received' + buffered' + dropped' = finished
  BY <1>1, <1>2, <1>5, <1>6 DEF Accounted
<1> QED
  BY <1>1, <1>2, <1>3, <1>7 DEF Accounted

(* The tracer takes note of a span that is finished.                       *)
LEMMA RecordCounts ==
    ASSUME Accounted, NEW n \in Nat, RecordSpan(n), UNCHANGED args,
           finished' = finished + n, finished \in Nat, pc' # "done"
    PROVE  Accounted'
<1>1. UNCHANGED <<tracer, received>>
  BY DEF RecordSpan
<1>2. Received' = Received /\ Received \in Nat
  <2>1. received' = received
    BY <1>1
  <2>2. Received' = Received
    BY <2>1 DEF Received
  <2> QED
    BY <2>2, ReceivedFacts DEF Accounted
<1>3. /\ buffered' \in Nat /\ dropped' \in Nat
      /\ args.trace => buffered' + dropped' = buffered + dropped + n
  BY TracerFacts DEF RecordSpan, Accounted
<1>4. args.trace => Received' + buffered' + dropped' = finished'
  <2> SUFFICES ASSUME args.trace
               PROVE  Received' + buffered' + dropped' = finished'
    OBVIOUS
  <2>1. Received + buffered + dropped = finished
    BY DEF Accounted
  <2>2. buffered \in Nat /\ dropped \in Nat
    BY DEF Accounted
  <2>3. \A r, b, d \in Nat : r = Received /\ b + d = buffered + dropped + n
                              => r + b + d = finished + n
    BY <1>2, <2>1, <2>2
  <2>4. Received' \in Nat /\ buffered' + dropped' = buffered + dropped + n
    BY <1>2, <1>3
  <2> QED
    BY <1>2, <1>3, <2>3, <2>4
<1> QED
  BY <1>1, <1>3, <1>4 DEF Accounted

(* The tracer only watches: the client does what it does without.          *)
LEMMA TracedIsClient == TracedSpec => Spec
<1>1. TracedInit => Init
  BY DEF TracedInit
<1>2. [TracedNext]_tracedVars => [Next]_vars
  BY DEF TracedNext, Work, Report, FlushAndExit, tracedVars, Next, PerformWork
<1> QED
  BY <1>1, <1>2, PTL DEF TracedSpec, Spec

(* Every step of the client and its tracer keeps the spans accounted for.  *)
LEMMA AccountedCorrect == TracedSpec => []Accounted
<1>1. TracedInit => Accounted
  <2> SUFFICES ASSUME TracedInit PROVE Accounted
    OBVIOUS
  <2>1. /\ received = [p \in SATELLITE_PORTS |-> 0]
        /\ buffered = 0 /\ dropped = 0 /\ finished = 0
        /\ tracer \in {"vanilla", "cpp"}
    BY DEF TracedInit, Init
  <2>2. received \in [SATELLITE_PORTS -> Nat]
    BY <2>1
  <2>3. Received = 0
    <3>1. \A p \in SATELLITE_PORTS : received[p] = 0
      BY <2>1
    <3>2. SumOver(received, SATELLITE_PORTS) = 0
      BY <3>1, SumZero, TracerAssumption
    <3> QED
      BY <3>2 DEF Received
  <2> QED
    BY <2>1, <2>2, <2>3 DEF Accounted
<1>2. Inv /\ Accounted /\ [TracedNext]_tracedVars => Accounted'
  <2> SUFFICES ASSUME Inv, Accounted, [TracedNext]_tracedVars
               PROVE  Accounted'
    OBVIOUS
  <2>0. TypeOK
    BY DEF Inv
  <2>1. CASE Work
    <3>1. \/ finished' = finished + 0
          \/ finished' = finished + 1
      BY <2>0, <2>1 DEF Work, NextGroup, Charge, Pay, GenerateSpans, StartSpan,
                        Recurse, FinishSpan, trace, TypeOK
    <3>2. finished' - finished \in Nat /\ finished' = finished + (finished' - finished)
      BY <2>0, <3>1 DEF TypeOK
    <3>3. UNCHANGED args /\ pc' # "done"
      <4>1. UNCHANGED args
        BY <2>1 DEF Work, NextGroup, Charge, Pay, GenerateSpans, StartSpan,
                    Recurse, FinishSpan
      <4>2. CASE StartSpan
        BY <4>2 DEF StartSpan
      <4>3. CASE NextGroup \/ Charge \/ Pay \/ Recurse \/ FinishSpan
        BY <4>3 DEF NextGroup, Charge, Pay, Recurse, FinishSpan
      <4> QED
        BY <2>1, <4>1, <4>2, <4>3 DEF Work, GenerateSpans
    <3>4. RecordSpan(finished' - finished)
      BY <2>1 DEF Work
    <3> DEFINE n == finished' - finished
    <3>5. n \in Nat /\ finished' = finished + n /\ RecordSpan(n) /\ finished \in Nat
      BY <2>0, <3>2, <3>4 DEF TypeOK
    <3> HIDE DEF n
    <3> QED
      BY <3>3, <3>5, RecordCounts
  <2>2. CASE Report
    <3>1. PICK p \in build_tracer : ReportTo(p)
      BY <2>2 DEF Report
    <3> QED
      BY <2>2, <3>1, ReportMoves DEF Report, vars
  <2>3. CASE FlushAndExit
    <3>1. UNCHANGED <<args, finished>>
      BY <2>3 DEF FlushAndExit, Exit, trace
    <3>2. ASSUME NEW p \in build_tracer, ReportTo(p) PROVE Accounted'
      BY <3>1, <3>2, ReportMoves
    <3>3. CASE /\ ~flushed' \/ build_tracer = {}
               /\ UNCHANGED <<tracer, library>>
      <4>1. args.trace => args.no_flush
        BY <2>3, <3>3, TracerFacts DEF FlushAndExit, Exit
      <4>2. UNCHANGED <<buffered, dropped, received, tracer>> /\ Received' = Received
        BY <3>3 DEF library, Received
      <4> QED
        BY <3>1, <4>1, <4>2 DEF Accounted
    <3> QED
      BY <2>3, <3>2, <3>3 DEF FlushAndExit
  <2>4. CASE UNCHANGED tracedVars
    BY <2>4 DEF tracedVars, vars, library, Accounted, Received
  <2> QED
    BY <2>1, <2>2, <2>3, <2>4 DEF TracedNext
<1> QED
  BY <1>1, <1>2, InvCorrect, TracedIsClient, PTL DEF TracedSpec

(* A client that traces and may flush leaves nothing behind: the           *)
(* satellites have received all spans it was asked for but those dropped.  *)
THEOREM FlushSendsAll == TracedSpec => []FlushDelivers
<1>1. Inv /\ Accounted => FlushDelivers
  <2> SUFFICES ASSUME Inv, Accounted, pc = "done", args.trace, ~args.no_flush
               PROVE  Received = args.repeat - dropped
    BY DEF FlushDelivers, Received, SumOver
  <2>1. finished = args.repeat /\ args.repeat \in Nat
    BY ArgsFacts, EmptyFacts DEF Inv, TypeOK, SpansCounted, InGroup
  <2>2. Received \in Nat /\ dropped \in Nat /\ Received + 0 + dropped = finished
    BY ReceivedFacts DEF Accounted
  <2> QED
    BY <2>1, <2>2
<1> QED
  BY <1>1, AccountedCorrect, InvCorrect, TracedIsClient, PTL

(* The tracer, whatever it drops and whenever it reports, changes nothing  *)
(* in what the client generates and sleeps (python_client.py 113-145).     *)
THEOREM TracedClientRight ==
    TracedSpec => [](DebtConserved /\ DebtBounded /\ WellNested /\ GeneratesRepeat)
BY TracedIsClient, SleepAccounted, SleepKeepsUp, SpansNest, AllGenerated, PTL
=============================================================================
