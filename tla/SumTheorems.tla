----------------------------- MODULE SumTheorems -----------------------------
(***************************************************************************)
(* What a sum over a finite set is made of, and, at the end, a fold over a *)
(* sequence.  The models add up numbers per satellite, handler and request *)
(* with MapThenSumSet; its definition folds a recursive function over the  *)
(* set.  The facts about it are proved by looking at a smallest subset     *)
(* that fails them, for which the well-foundedness of the subsets of a     *)
(* finite set is enough.                                                   *)
(***************************************************************************)
EXTENDS FiniteSetsExt, FiniteSetTheorems, TLAPS

(* The sum of f over S, as the models write it.                            *)
SumOver(f, S) == MapThenSumSet(LAMBDA x : f[x], S)

(* The element that the fold takes next.                                   *)
Choice(s) == CHOOSE x \in s : TRUE

(* g is the function that the fold over S unrolls.                         *)
Unrolls(g, f, S) ==
    g = [s \in SUBSET S |-> IF s = {} THEN 0 ELSE f[Choice(s)] + g[s \ {Choice(s)}]]

(* A set that is not empty has an element to take.                         *)
LEMMA ChoiceIn == \A s : s # {} => Choice(s) \in s
BY DEF Choice

(* Of any subsets of a finite set there is a smallest one.                 *)
LEMMA SmallestSubset ==
    ASSUME NEW S, IsFiniteSet(S), NEW T \in SUBSET SUBSET S, T # {}
    PROVE  \E x \in T : \A y \in T : y \subseteq x => y = x
<1>1. IsWellFoundedOn(StrictSubsetOrdering(S), SUBSET S)
  BY FS_StrictSubsetOrderingWellFounded, FS_FiniteSubsetsOfFinite
<1>2. PICK x \in T : \A y \in T : ~ (<<y, x>> \in StrictSubsetOrdering(S))
  BY <1>1, WFMin
<1> QED
  BY <1>2 DEF StrictSubsetOrdering

(* What is unrolled for a set does not depend on where the unrolling       *)
(* began.                                                                  *)
LEMMA UnrollUnique ==
    ASSUME NEW f, NEW S, NEW T, IsFiniteSet(S),
           NEW g, Unrolls(g, f, S), NEW h, Unrolls(h, f, T),
           NEW s \in SUBSET S, s \in SUBSET T
    PROVE  g[s] = h[s]
<1> DEFINE Bad == {t \in SUBSET S : t \in SUBSET T /\ g[t] # h[t]}
<1> SUFFICES ASSUME Bad # {} PROVE FALSE
  OBVIOUS
<1>1. PICK t \in Bad : \A u \in Bad : u \subseteq t => u = t
  <2>1. Bad \in SUBSET SUBSET S
    OBVIOUS
  <2> HIDE DEF Bad
  <2> QED
    BY <2>1, SmallestSubset
<1>2. t # {}
  BY <1>1 DEF Unrolls
<1>3. Choice(t) \in t
  BY <1>2, ChoiceIn
<1>4. g[t \ {Choice(t)}] = h[t \ {Choice(t)}]
  BY <1>1, <1>3
<1>5. g[t] = f[Choice(t)] + g[t \ {Choice(t)}]
  BY <1>1, <1>2 DEF Unrolls
<1>6. h[t] = f[Choice(t)] + h[t \ {Choice(t)}]
  BY <1>1, <1>2 DEF Unrolls
<1> QED
  BY <1>1, <1>4, <1>5, <1>6

(* There is a function to unroll, so that the fold's recursion is sound.   *)
LEMMA UnrollExists ==
    ASSUME NEW f, NEW S, IsFiniteSet(S)
    PROVE  \E g : Unrolls(g, f, S)
<1> DEFINE Bad == {t \in SUBSET S : ~ \E g : Unrolls(g, f, t)}
<1> SUFFICES ASSUME Bad # {} PROVE FALSE
  OBVIOUS
<1>1. PICK t \in Bad : \A u \in Bad : u \subseteq t => u = t
  <2>1. Bad \in SUBSET SUBSET S
    OBVIOUS
  <2> HIDE DEF Bad
  <2> QED
    BY <2>1, SmallestSubset
<1>2. \A u \in SUBSET t : u # t => \E g : Unrolls(g, f, u)
  BY <1>1
<1> DEFINE G(u) == CHOOSE g : Unrolls(g, f, u)
           below(u) == G(u)[u]
           g0 == [u \in SUBSET t |->
                    IF u = {} THEN 0
                    ELSE f[Choice(u)] + below(u \ {Choice(u)})]
<1>3. \A u \in SUBSET t : u # t => Unrolls(G(u), f, u)
  BY <1>2
<1>4. \A u \in SUBSET t : u # t => g0[u] = below(u)
  <2> SUFFICES ASSUME NEW u \in SUBSET t, u # t
               PROVE  g0[u] = below(u)
    OBVIOUS
  <2>1. Unrolls(G(u), f, u)
    BY <1>3
  <2>2. CASE u = {}
    BY <2>1, <2>2 DEF Unrolls
  <2>3. CASE u # {}
    <3> DEFINE w == u \ {Choice(u)}
    <3>1. Choice(u) \in u
      BY <2>3, ChoiceIn
    <3>2. w \in SUBSET t /\ w # t /\ w \in SUBSET u /\ w \in SUBSET w
      BY <3>1
    <3>3. Unrolls(G(w), f, w)
      BY <1>3, <3>2
    <3>4. IsFiniteSet(u)
      BY <1>1, FS_Subset
    <3>5. G(u)[w] = G(w)[w]
      <4> HIDE DEF G, w
      <4> QED
        BY <2>1, <3>2, <3>3, <3>4, UnrollUnique
    <3>6. G(u)[u] = f[Choice(u)] + G(u)[w]
      <4> HIDE DEF G
      <4> QED
        BY <2>1, <2>3 DEF Unrolls
    <3> QED
      BY <3>5, <3>6, <2>3
  <2> QED
    BY <2>2, <2>3
<1>5. Unrolls(g0, f, t)
  <2>1. \A u \in SUBSET t : u # {} => g0[u \ {Choice(u)}] = below(u \ {Choice(u)})
    <3> SUFFICES ASSUME NEW u \in SUBSET t, u # {}
                 PROVE  g0[u \ {Choice(u)}] = below(u \ {Choice(u)})
      OBVIOUS
    <3>1. Choice(u) \in u
      BY ChoiceIn
    <3>2. u \ {Choice(u)} \in SUBSET t /\ u \ {Choice(u)} # t
      BY <3>1
    <3> HIDE DEF below, g0
    <3> QED
      BY <3>2, <1>4
  <2> DEFINE g1 == [u \in SUBSET t |->
                    IF u = {} THEN 0
                    ELSE f[Choice(u)] + g0[u \ {Choice(u)}]]
  <2>2. g0 = g1
    <3> HIDE DEF below
    <3> QED
      BY <2>1
  <2> HIDE DEF g0
  <2> QED
    BY <2>2 DEF Unrolls
<1> QED
  BY <1>1, <1>5

(* The sum over S is what is unrolled for S.                               *)
LEMMA SumUnrolls ==
    ASSUME NEW f, NEW S, IsFiniteSet(S), NEW g, Unrolls(g, f, S)
    PROVE  SumOver(f, S) = g[S]
<1> DEFINE iter == CHOOSE h : h = [s \in SUBSET S |->
                      IF s = {} THEN 0 ELSE f[Choice(s)] + h[s \ {Choice(s)}]]
<1>1. Unrolls(iter, f, S)
  BY DEF Unrolls
<1>2. SumOver(f, S) = iter[S]
  BY DEF SumOver, MapThenSumSet, MapThenFoldSet, Choice
<1> HIDE DEF iter
<1> QED
  BY <1>1, <1>2, UnrollUnique

(* Nothing adds up to zero.                                                *)
LEMMA SumEmpty == \A f : SumOver(f, {}) = 0
<1> SUFFICES ASSUME NEW f PROVE SumOver(f, {}) = 0
  OBVIOUS
<1>1. IsFiniteSet({})
  BY FS_EmptySet
<1>2. PICK g : Unrolls(g, f, {})
  BY <1>1, UnrollExists
<1>3. g[{}] = 0
  BY <1>2 DEF Unrolls
<1> QED
  BY <1>1, <1>2, <1>3, SumUnrolls

(* The sum takes one element after the other.                              *)
LEMMA SumStep ==
    ASSUME NEW f, NEW S, IsFiniteSet(S), S # {}
    PROVE  SumOver(f, S) = f[Choice(S)] + SumOver(f, S \ {Choice(S)})
<1> DEFINE R == S \ {Choice(S)}
<1>1. IsFiniteSet(R) /\ R \in SUBSET S /\ R \in SUBSET R
  BY FS_RemoveElement
<1>2. PICK g : Unrolls(g, f, S)
  BY UnrollExists
<1>3. PICK h : Unrolls(h, f, R)
  BY <1>1, UnrollExists
<1>4. g[R] = h[R]
  BY <1>1, <1>2, <1>3, UnrollUnique
<1>5. g[S] = f[Choice(S)] + g[R]
  BY <1>2 DEF Unrolls
<1>6. SumOver(f, S) = g[S]
  BY <1>2, SumUnrolls
<1>7. SumOver(f, R) = h[R]
  BY <1>1, <1>3, SumUnrolls
<1> QED
  BY <1>4, <1>5, <1>6, <1>7

(* Natural numbers add up to a natural number.                             *)
LEMMA SumType ==
    ASSUME NEW f, NEW S, IsFiniteSet(S), \A x \in S : f[x] \in Nat
    PROVE  SumOver(f, S) \in Nat
<1> DEFINE Bad == {t \in SUBSET S : SumOver(f, t) \notin Nat}
<1> SUFFICES ASSUME Bad # {} PROVE FALSE
  OBVIOUS
<1>1. PICK t \in Bad : \A u \in Bad : u \subseteq t => u = t
  <2>1. Bad \in SUBSET SUBSET S
    OBVIOUS
  <2> HIDE DEF Bad
  <2> QED
    BY <2>1, SmallestSubset
<1>2. t # {}
  <2>1. SumOver(f, {}) \in Nat
    BY SumEmpty
  <2> QED
    BY <1>1, <2>1
<1>3. Choice(t) \in t
  BY <1>2, ChoiceIn
<1>4. SumOver(f, t \ {Choice(t)}) \in Nat
  BY <1>1, <1>3
<1>5. SumOver(f, t) = f[Choice(t)] + SumOver(f, t \ {Choice(t)})
  BY <1>1, <1>2, SumStep, FS_Subset
<1> QED
  BY <1>1, <1>3, <1>4, <1>5

(* Any element can be taken first: the order does not matter.              *)
THEOREM SumRemove ==
    ASSUME NEW f, NEW S, IsFiniteSet(S), \A y \in S : f[y] \in Nat, NEW x \in S
    PROVE  SumOver(f, S) = f[x] + SumOver(f, S \ {x})
<1> DEFINE Bad == {t \in SUBSET S :
                     \E y \in t : SumOver(f, t) # f[y] + SumOver(f, t \ {y})}
<1> SUFFICES ASSUME Bad # {} PROVE FALSE
  OBVIOUS
<1>1. PICK t \in Bad : \A u \in Bad : u \subseteq t => u = t
  <2>1. Bad \in SUBSET SUBSET S
    OBVIOUS
  <2> HIDE DEF Bad
  <2> QED
    BY <2>1, SmallestSubset
<1>2. PICK y \in t : SumOver(f, t) # f[y] + SumOver(f, t \ {y})
  BY <1>1
<1> DEFINE c == Choice(t)
           both == (t \ {c}) \ {y}
<1>3. c \in t
  BY <1>2, ChoiceIn
<1>4. SumOver(f, t) = f[c] + SumOver(f, t \ {c})
  BY <1>1, <1>2, SumStep, FS_Subset
<1>5. c # y
  BY <1>2, <1>4
<1>6. SumOver(f, t \ {c}) = f[y] + SumOver(f, both)
  <2>1. y \in t \ {c} /\ t \ {c} \in SUBSET S /\ t \ {c} # t
    BY <1>1, <1>2, <1>3, <1>5
  <2>2. t \ {c} \notin Bad
    BY <1>1, <2>1
  <2> HIDE DEF c
  <2> QED
    BY <2>1, <2>2
<1>7. SumOver(f, t \ {y}) = f[c] + SumOver(f, both)
  <2>1. both = (t \ {y}) \ {c}
    OBVIOUS
  <2>2. c \in t \ {y} /\ t \ {y} \in SUBSET S /\ t \ {y} # t
    BY <1>1, <1>2, <1>3, <1>5
  <2>3. t \ {y} \notin Bad
    BY <1>1, <2>2
  <2> HIDE DEF both, c
  <2> QED
    BY <2>1, <2>2, <2>3
<1>8. SumOver(f, both) \in Nat
  <2>1. both \in SUBSET S
    BY <1>1
  <2> HIDE DEF both
  <2> QED
    BY <2>1, SumType, FS_Subset
<1> HIDE DEF c, both
<1> QED
  BY <1>1, <1>2, <1>3, <1>4, <1>6, <1>7, <1>8

(* The sum depends on the numbers that are added up and on nothing else.   *)
THEOREM SumAgree ==
    ASSUME NEW f, NEW g, NEW S, IsFiniteSet(S), \A x \in S : f[x] = g[x]
    PROVE  SumOver(f, S) = SumOver(g, S)
<1> DEFINE Bad == {t \in SUBSET S : SumOver(f, t) # SumOver(g, t)}
<1> SUFFICES ASSUME Bad # {} PROVE FALSE
  OBVIOUS
<1>1. PICK t \in Bad : \A u \in Bad : u \subseteq t => u = t
  <2>1. Bad \in SUBSET SUBSET S
    OBVIOUS
  <2> HIDE DEF Bad
  <2> QED
    BY <2>1, SmallestSubset
<1>2. t # {}
  BY <1>1, SumEmpty
<1>3. Choice(t) \in t
  BY <1>2, ChoiceIn
<1>4. SumOver(f, t \ {Choice(t)}) = SumOver(g, t \ {Choice(t)})
  BY <1>1, <1>3
<1>5. IsFiniteSet(t)
  BY <1>1, FS_Subset
<1>6. SumOver(f, t) = f[Choice(t)] + SumOver(f, t \ {Choice(t)})
  BY <1>2, <1>5, SumStep
<1>7. SumOver(g, t) = g[Choice(t)] + SumOver(g, t \ {Choice(t)})
  BY <1>2, <1>5, SumStep
<1> QED
  BY <1>1, <1>3, <1>4, <1>6, <1>7

(* One more number makes the sum that much larger.                         *)
THEOREM SumAdd ==
    ASSUME NEW f, NEW S, IsFiniteSet(S), NEW x, x \notin S,
           \A y \in S \cup {x} : f[y] \in Nat
    PROVE  SumOver(f, S \cup {x}) = f[x] + SumOver(f, S)
<1>1. IsFiniteSet(S \cup {x}) /\ (S \cup {x}) \ {x} = S
  BY FS_AddElement
<1> QED
  BY <1>1, SumRemove

(* A number that changes changes the sum by as much.                       *)
THEOREM SumChange ==
    ASSUME NEW f, NEW g, NEW S, IsFiniteSet(S), NEW x \in S,
           \A y \in S : f[y] \in Nat /\ g[y] \in Nat,
           \A y \in S \ {x} : f[y] = g[y]
    PROVE  SumOver(g, S) = SumOver(f, S) - f[x] + g[x]
<1>1. IsFiniteSet(S \ {x})
  BY FS_RemoveElement
<1>2. SumOver(f, S \ {x}) = SumOver(g, S \ {x})
  BY <1>1, SumAgree
<1>3. SumOver(f, S) = f[x] + SumOver(f, S \ {x})
  BY SumRemove
<1>4. SumOver(g, S) = g[x] + SumOver(g, S \ {x})
  BY SumRemove
<1>5. SumOver(f, S \ {x}) \in Nat
  BY <1>1, SumType
<1> QED
  BY <1>2, <1>3, <1>4, <1>5

(* The sum over a part is no larger than that over the whole.              *)
THEOREM SumMonotone ==
    ASSUME NEW f, NEW S, IsFiniteSet(S), \A x \in S : f[x] \in Nat, NEW T \in SUBSET S
    PROVE  SumOver(f, T) <= SumOver(f, S)
<1> DEFINE Bad == {t \in SUBSET S : T \subseteq t /\ ~(SumOver(f, T) <= SumOver(f, t))}
<1> SUFFICES ASSUME Bad # {} PROVE FALSE
  OBVIOUS
<1>1. PICK t \in Bad : \A u \in Bad : u \subseteq t => u = t
  <2>1. Bad \in SUBSET SUBSET S
    OBVIOUS
  <2> HIDE DEF Bad
  <2> QED
    BY <2>1, SmallestSubset
<1>2. IsFiniteSet(t) /\ IsFiniteSet(T)
  BY <1>1, FS_Subset
<1>3. SumOver(f, T) \in Nat
  BY <1>2, SumType
<1>4. PICK x \in t : x \notin T
  BY <1>1, <1>3
<1>5. SumOver(f, t) = f[x] + SumOver(f, t \ {x})
  BY <1>1, <1>2, SumRemove
<1>6. SumOver(f, T) <= SumOver(f, t \ {x})
  BY <1>1, <1>4
<1>7. SumOver(f, t \ {x}) \in Nat
  BY <1>1, <1>2, SumType, FS_RemoveElement
<1> QED
  BY <1>1, <1>3, <1>5, <1>6, <1>7

(* Smaller numbers add up to no more.                                      *)
THEOREM SumBelow ==
    ASSUME NEW f, NEW g, NEW S, IsFiniteSet(S),
           \A x \in S : f[x] \in Nat /\ g[x] \in Nat /\ f[x] <= g[x]
    PROVE  SumOver(f, S) <= SumOver(g, S)
<1> DEFINE Bad == {t \in SUBSET S : ~(SumOver(f, t) <= SumOver(g, t))}
<1> SUFFICES ASSUME Bad # {} PROVE FALSE
  OBVIOUS
<1>1. PICK t \in Bad : \A u \in Bad : u \subseteq t => u = t
  <2>1. Bad \in SUBSET SUBSET S
    OBVIOUS
  <2> HIDE DEF Bad
  <2> QED
    BY <2>1, SmallestSubset
<1>2. t # {}
  <2>1. SumOver(f, {}) <= SumOver(g, {})
    BY SumEmpty
  <2> QED
    BY <1>1, <2>1
<1> DEFINE c == Choice(t)
<1>3. c \in t /\ IsFiniteSet(t) /\ IsFiniteSet(t \ {c})
  BY <1>1, <1>2, ChoiceIn, FS_Subset, FS_RemoveElement
<1>4. SumOver(f, t \ {c}) <= SumOver(g, t \ {c})
  BY <1>1, <1>3
<1>5. SumOver(f, t) = f[c] + SumOver(f, t \ {c})
  BY <1>2, <1>3, SumStep
<1>6. SumOver(g, t) = g[c] + SumOver(g, t \ {c})
  BY <1>2, <1>3, SumStep
<1>7. \A x \in t : f[x] \in Nat /\ g[x] \in Nat /\ f[x] <= g[x]
  BY <1>1
<1>8. SumOver(f, t \ {c}) \in Nat /\ SumOver(g, t \ {c}) \in Nat
  <2>1. \A x \in t \ {c} : f[x] \in Nat /\ g[x] \in Nat
    BY <1>7
  <2> HIDE DEF c
  <2> QED
    BY <1>3, <2>1, SumType
<1>9. f[c] \in Nat /\ g[c] \in Nat /\ f[c] <= g[c]
  BY <1>3, <1>7
<1> HIDE DEF c
<1>10. SumOver(f, t) <= SumOver(g, t)
  BY <1>4, <1>5, <1>6, <1>8, <1>9
<1> QED
  BY <1>1, <1>10

(* Zeros add up to zero.                                                   *)
THEOREM SumZero ==
    ASSUME NEW f, NEW S, IsFiniteSet(S), \A x \in S : f[x] = 0
    PROVE  SumOver(f, S) = 0
<1> DEFINE Bad == {t \in SUBSET S : SumOver(f, t) # 0}
<1> SUFFICES ASSUME Bad # {} PROVE FALSE
  OBVIOUS
<1>1. PICK t \in Bad : \A u \in Bad : u \subseteq t => u = t
  <2>1. Bad \in SUBSET SUBSET S
    OBVIOUS
  <2> HIDE DEF Bad
  <2> QED
    BY <2>1, SmallestSubset
<1>2. t # {}
  <2>1. SumOver(f, {}) = 0
    BY SumEmpty
  <2> QED
    BY <1>1, <2>1
<1>3. Choice(t) \in t
  BY <1>2, ChoiceIn
<1>4. SumOver(f, t \ {Choice(t)}) = 0
  BY <1>1, <1>3
<1>5. SumOver(f, t) = f[Choice(t)] + SumOver(f, t \ {Choice(t)})
  BY <1>1, <1>2, SumStep, FS_Subset
<1> QED
  BY <1>1, <1>3, <1>4, <1>5

(* A finite set of integers has a largest element, which Max finds.        *)
THEOREM MaxExists ==
    ASSUME NEW K, IsFiniteSet(K), K # {}, \A k \in K : k \in Int
    PROVE  Max(K) \in K /\ \A k \in K : k <= Max(K)
<1> DEFINE Above(k) == {j \in K : j > k}
           Aboves == {Above(k) : k \in K}
<1>1. PICK u \in Aboves : \A v \in Aboves : v \subseteq u => v = u
  <2>1. Aboves \in SUBSET SUBSET K
    OBVIOUS
  <2>2. Aboves # {}
    OBVIOUS
  <2> HIDE DEF Aboves
  <2> QED
    BY <2>1, <2>2, SmallestSubset
<1>2. PICK m \in K : u = Above(m)
  BY <1>1
<1>3. \A k \in K : m >= k
  <2> SUFFICES ASSUME NEW k \in K, ~(m >= k) PROVE FALSE
    OBVIOUS
  <2>1. k > m /\ ~(k > k)
    OBVIOUS
  <2>2. \A j \in K : j > k => j > m
    BY <2>1
  <2>3. Above(k) \subseteq Above(m) /\ k \in Above(m) /\ k \notin Above(k)
    BY <2>1, <2>2
  <2>4. Above(k) \in Aboves
    OBVIOUS
  <2> HIDE DEF Above, Aboves
  <2> QED
    BY <1>1, <1>2, <2>3, <2>4
<1> QED
  BY <1>3 DEF Max

-----------------------------------------------------------------------------
(* A set of numbers has its largest element for Max.                       *)
LEMMA MaxIs == ASSUME NEW s \in SUBSET Int, NEW m \in s, \A k \in s : k <= m
               PROVE  Max(s) = m
<1> DEFINE Largest(x) == x \in s /\ \A y \in s : x >= y
<1>1. Max(s) = CHOOSE x : Largest(x)
  BY DEF Max
<1>2. Largest(m)
  OBVIOUS
<1>3. Largest(Max(s))
  BY <1>1, <1>2
<1>4. Max(s) \in Int /\ Max(s) <= m /\ m <= Max(s) /\ m \in Int
  BY <1>3
<1> QED
  BY <1>4

(* Of any numbers up to n there is a least one.                            *)
LEMMA LeastOf ==
    ASSUME NEW n \in Nat, NEW Bad \in SUBSET (0 .. n), Bad # {}
    PROVE  \E m \in Bad : \A k \in Bad : m <= k
<1> DEFINE K == {n - k : k \in Bad}
<1>1. K \in SUBSET (0 .. n) /\ K # {}
  <2>1. \A k \in Bad : n - k \in 0 .. n
    OBVIOUS
  <2>2. \A x \in K : x \in 0 .. n
    BY <2>1
  <2>3. PICK k \in Bad : TRUE
    OBVIOUS
  <2>4. n - k \in K
    OBVIOUS
  <2> HIDE DEF K
  <2> QED
    BY <2>2, <2>4
<1>2. IsFiniteSet(K) /\ \A k \in K : k \in Int
  <2>1. 0 \in Int /\ n \in Int
    OBVIOUS
  <2>2. IsFiniteSet(0 .. n)
    BY <2>1, FS_Interval
  <2> HIDE DEF K
  <2>3. IsFiniteSet(K)
    BY <1>1, <2>2, FS_Subset
  <2> QED
    BY <1>1, <2>3
<1>3. Max(K) \in K /\ \A k \in K : k <= Max(K)
  <2> HIDE DEF K
  <2> QED
    BY <1>1, <1>2, MaxExists
<1> DEFINE top == Max(K)
<1>4. PICK m \in Bad : top = n - m
  BY <1>3
<1>5. \A k \in Bad : n - k <= top
  BY <1>3
<1> HIDE DEF K, top
<1>6. \A k \in Bad : m <= k
  BY <1>4, <1>5
<1> QED
  BY <1>6

(* A fold over a sequence is a function on the sets of positions that      *)
(* takes the last position away; there is one for every base and step.     *)
UnrollsFold(g, base, step, n) ==
    g = [s \in SUBSET (1 .. n) |->
            IF s = {} THEN base ELSE step[<<g[s \ {Max(s)}], Max(s)>>]]

LEMMA LastOf == ASSUME NEW n \in Nat, NEW s \in SUBSET (1 .. n), s # {}
                PROVE  Max(s) \in s /\ s \ {Max(s)} \in SUBSET (1 .. n)
<1>1. IsFiniteSet(1 .. n)
  BY FS_Interval
<1>2. IsFiniteSet(s)
  BY <1>1, FS_Subset
<1>3. \A k \in s : k \in Int
  OBVIOUS
<1> QED
  BY <1>2, <1>3, MaxExists

(* The positions up to one of them.                                        *)
LEMMA UpTo ==
    ASSUME NEW n \in Nat, NEW k \in 1 .. n
    PROVE  /\ 1 .. k \in SUBSET (1 .. n) /\ 1 .. k # {}
           /\ Max(1 .. k) = k
           /\ (1 .. k) \ {Max(1 .. k)} = 1 .. k - 1
<1>1. 1 .. k \in SUBSET Int /\ k \in 1 .. k /\ \A j \in 1 .. k : j <= k
  OBVIOUS
<1>2. Max(1 .. k) = k
  BY <1>1, MaxIs
<1>3. (1 .. k) \ {k} = 1 .. k - 1
  OBVIOUS
<1> QED
  BY <1>1, <1>2, <1>3

LEMMA FoldExists ==
    ASSUME NEW A, NEW base \in A, NEW n \in Nat, NEW step \in [A \X (1 .. n) -> A]
    PROVE  \E g \in [SUBSET (1 .. n) -> A] : UnrollsFold(g, base, step, n)
<1> DEFINE Folds(k) == \E g \in [SUBSET (1 .. k) -> A] : UnrollsFold(g, base, step, k)
           Bad == {k \in 0 .. n : ~Folds(k)}
<1> SUFFICES ASSUME Bad # {} PROVE FALSE
  <2>1. n \in 0 .. n
    OBVIOUS
  <2>2. Bad = {} => Folds(n)
    BY <2>1
  <2> QED
    BY <2>2
<1>1. PICK m \in Bad : \A k \in Bad : m <= k
  <2>1. Bad \in SUBSET (0 .. n)
    OBVIOUS
  <2> HIDE DEF Bad
  <2> QED
    BY <2>1, LeastOf
<1>2. m # 0
  <2> DEFINE g == [s \in SUBSET (1 .. 0) |-> base]
  <2>1. \A s \in SUBSET (1 .. 0) : s = {}
    OBVIOUS
  <2>2. UnrollsFold(g, base, step, 0)
    BY <2>1 DEF UnrollsFold
  <2>3. g \in [SUBSET (1 .. 0) -> A]
    OBVIOUS
  <2> HIDE DEF g
  <2>4. Folds(0)
    BY <2>2, <2>3
  <2> QED
    BY <1>1, <2>4
<1>3. m \in Nat /\ m <= n /\ m - 1 \in 0 .. n /\ m - 1 < m
  BY <1>1, <1>2
<1>4. PICK g \in [SUBSET (1 .. m - 1) -> A] : UnrollsFold(g, base, step, m - 1)
  <2>1. m - 1 \notin Bad
    <3> HIDE DEF Bad
    <3> QED
      BY <1>1, <1>3
  <2>2. Folds(m - 1)
    BY <1>3, <2>1
  <2> QED
    BY <2>2
<1> DEFINE D == SUBSET (1 .. m)
           h == [s \in D |-> IF m \in s THEN step[<<g[s \ {m}], m>>] ELSE g[s]]
           v(s) == IF s = {} THEN base ELSE step[<<h[s \ {Max(s)}], Max(s)>>]
<1>5. ASSUME NEW s \in D PROVE h[s] = v(s) /\ h[s] \in A
  <2>1. CASE m \in s
    <3>1. Max(s) = m
      <4>1. s \in SUBSET Int /\ \A k \in s : k <= m
        OBVIOUS
      <4> QED
        BY <2>1, <4>1, MaxIs
    <3>2. s \ {m} \in D /\ m \notin s \ {m} /\ s # {}
      BY <2>1
    <3>3. h[s \ {m}] = g[s \ {m}] /\ s \ {m} \in SUBSET (1 .. m - 1)
      BY <1>3, <3>2
    <3>4. h[s] = step[<<g[s \ {m}], m>>]
      BY <2>1
    <3>5. g[s \ {m}] \in A /\ m \in 1 .. n
      BY <1>2, <1>3, <1>4, <3>3
    <3> HIDE DEF h, D
    <3> QED
      BY <3>1, <3>2, <3>3, <3>4, <3>5
  <2>2. CASE m \notin s
    <3>1. h[s] = g[s] /\ s \in SUBSET (1 .. m - 1)
      BY <1>3, <2>2
    <3>2. h[s] \in A
      BY <1>4, <3>1
    <3>3. CASE s = {}
      <4> HIDE DEF h
      <4> QED
        BY <1>4, <3>1, <3>2, <3>3 DEF UnrollsFold
    <3>4. CASE s # {}
      <4>1. m - 1 \in Nat
        BY <1>2, <1>3
      <4>2. Max(s) \in s /\ s \ {Max(s)} \in SUBSET (1 .. m - 1)
        BY <3>1, <3>4, <4>1, LastOf
      <4>3. s \ {Max(s)} \in D /\ m \notin s \ {Max(s)}
        BY <2>2
      <4>4. h[s \ {Max(s)}] = g[s \ {Max(s)}]
        BY <4>3
      <4>5. g[s] = step[<<g[s \ {Max(s)}], Max(s)>>]
        BY <1>4, <3>1, <3>4 DEF UnrollsFold
      <4> HIDE DEF h
      <4> QED
        BY <3>1, <3>2, <3>4, <4>4, <4>5
    <3> QED
      BY <3>3, <3>4
  <2> QED
    BY <2>1, <2>2
<1>6. h \in [D -> A] /\ UnrollsFold(h, base, step, m)
  <2>1. h = [s \in D |-> h[s]]
    OBVIOUS
  <2> HIDE DEF h
  <2>2. h = [s \in D |-> v(s)]
    BY <1>5, <2>1
  <2>3. h \in [D -> A]
    BY <1>5, <2>1
  <2> QED
    BY <2>2, <2>3 DEF UnrollsFold
<1> HIDE DEF h
<1>7. Folds(m)
  BY <1>6
<1> QED
  BY <1>1, <1>7
=============================================================================
