----------------------------- MODULE NaturalFacts -----------------------------
(***************************************************************************)
(* Facts about natural numbers that take the place of induction.  Every    *)
(* nonempty set of natural numbers has a least element, and a greatest one *)
(* if it is bounded: for the proofs about chains of rows and about version *)
(* numbers.  A sum over a finite set, which the community modules compute  *)
(* by recursion, grows by what is added to the set: for the proof about    *)
(* the amount a cycle has collected.                                       *)
(***************************************************************************)
EXTENDS Integers, FiniteSetsExt, WellFoundedInduction, FiniteSetTheorems, TLAPS

(* A least element, from the well-foundedness of < on Nat.                 *)
LEMMA LeastExists ==
  ASSUME NEW S \in SUBSET Nat, S # {}
  PROVE  \E least \in S : \A k \in S : least <= k
<1>1. PICK least \in S : \A k \in S : ~ (<<k, least>> \in OpToRel(<, Nat))
  BY NatLessThanWellFounded, WFMin
<1>2. ASSUME NEW k \in S, k < least PROVE <<k, least>> \in OpToRel(<, Nat)
  BY <1>2 DEF OpToRel
<1>3. ASSUME NEW k \in S PROVE ~ (k < least)
  BY <1>1, <1>2, Zenon
<1> QED BY <1>3

(* A greatest element: the least distance to the bound.                    *)
LEMMA GreatestExists ==
  ASSUME NEW S \in SUBSET Nat, S # {}, NEW bound \in Nat,
         \A k \in S : k <= bound
  PROVE  \E greatest \in S : \A k \in S : k <= greatest
<1> DEFINE D == {d \in Nat : \E k \in S : d = bound - k}
<1>1. D # {}
  <2>1. PICK k \in S : TRUE
    OBVIOUS
  <2>2. bound - k \in D
    OBVIOUS
  <2> QED BY <2>2
<1>2. PICK least \in D : \A d \in D : least <= d
  BY <1>1, LeastExists
<1>3. PICK greatest \in S : least = bound - greatest
  OBVIOUS
<1>4. ASSUME NEW k \in S PROVE k <= greatest
  <2>1. bound - k \in D
    OBVIOUS
  <2> QED BY <2>1, <1>2, <1>3
<1> QED BY <1>4

-------------------------------------------------------------------------------
(* Sums.  A statement about all finite sets is proved by a counterexample  *)
(* of least size.                                                          *)

(* The sum of w over S, as the community modules compute it.               *)
SumOver(w, S) == MapThenSumSet(LAMBDA x : w[x], S)

Chosen(s) == CHOOSE x \in s : TRUE

(* What g gives for s if it takes out one chosen element after another.    *)
Taken(w, g, s) == IF s = {} THEN 0 ELSE w[Chosen(s)] + g[s \ {Chosen(s)}]

Summing(w, g, S) == g = [s \in SUBSET S |-> Taken(w, g, s)]

LEMMA SumIsChosen ==
  ASSUME NEW w, NEW S
  PROVE  SumOver(w, S) = (CHOOSE g : Summing(w, g, S))[S]
  BY DEF SumOver, MapThenSumSet, MapThenFoldSet, Summing, Taken, Chosen

LEMMA Smaller ==
  ASSUME NEW s, IsFiniteSet(s), s # {}
  PROVE  /\ Chosen(s) \in s
         /\ IsFiniteSet(s \ {Chosen(s)})
         /\ Cardinality(s) \in Nat /\ Cardinality(s) # 0
         /\ Cardinality(s \ {Chosen(s)}) = Cardinality(s) - 1
<1>1. Chosen(s) \in s
  BY DEF Chosen
<1>2. Cardinality(s) \in Nat /\ Cardinality(s) # 0
  BY FS_CardinalityType, FS_EmptySet
<1> QED BY <1>1, <1>2, FS_RemoveElement

LEMMA SummingExists ==
  ASSUME NEW w, NEW S, IsFiniteSet(S)
  PROVE  \E g : Summing(w, g, S)
<1> DEFINE Upto(n) == {s \in SUBSET S : Cardinality(s) <= n}
           Partial(g, n) == g = [s \in Upto(n) |-> Taken(w, g, s)]
           Bad == {n \in Nat : ~ \E g : Partial(g, n)}
<1>1. ASSUME NEW s \in SUBSET S
      PROVE  IsFiniteSet(s) /\ Cardinality(s) \in Nat
                /\ Cardinality(s) <= Cardinality(S)
  BY FS_Subset, FS_CardinalityType
<1>2. \E g : Partial(g, 0)
  <2> DEFINE g == [s \in Upto(0) |-> 0]
  <2>1. \A s \in Upto(0) : s = {}
    BY <1>1, FS_EmptySet
  <2>2. Partial(g, 0)
    BY <2>1 DEF Taken
  <2> HIDE DEF g
  <2> QED BY <2>2
<1>3. ASSUME NEW n \in Nat, NEW g, Partial(g, n) PROVE \E h : Partial(h, n + 1)
  <2> DEFINE h == [s \in Upto(n + 1) |-> Taken(w, g, s)]
  <2>1. ASSUME NEW s \in Upto(n + 1) PROVE Taken(w, h, s) = Taken(w, g, s)
    <3>1. CASE s = {}
      BY <3>1 DEF Taken
    <3>2. CASE s # {}
      <4> DEFINE u == s \ {Chosen(s)}
      <4>1. u \in SUBSET S /\ Cardinality(u) <= n
        BY <1>1, <3>2, Smaller
      <4>2. u \in Upto(n) /\ u \in Upto(n + 1)
        BY <1>1, <4>1
      <4>3. g[u] = Taken(w, g, u)
        BY <1>3, <4>2
      <4>4. h[u] = Taken(w, g, u)
        BY <4>2
      <4>5. h[u] = g[u]
        BY <4>3, <4>4
      <4> QED BY <4>5, <3>2 DEF Taken
    <3> QED BY <3>1, <3>2
  <2>2. Partial(h, n + 1)
    BY <2>1
  <2> HIDE DEF h
  <2> QED BY <2>2
<1>4. Bad = {}
  <2> SUFFICES ASSUME Bad # {} PROVE FALSE
    OBVIOUS
  <2> HIDE DEF Partial
  <2>1. PICK n \in Bad : \A k \in Bad : n <= k
    BY LeastExists
  <2>2. n \in Nat \ {0}
    BY <1>2
  <2>3. n - 1 \in Nat /\ n - 1 < n /\ (n - 1) + 1 = n
    BY <2>2
  <2>4. \E g : Partial(g, n - 1)
    BY <2>1, <2>3
  <2>5. \E h : Partial(h, (n - 1) + 1)
    BY <2>3, <2>4, <1>3
  <2> QED BY <2>3, <2>5
<1>5. Upto(Cardinality(S)) = SUBSET S
  BY <1>1
<1>6. PICK g : Partial(g, Cardinality(S))
  BY <1>4, FS_CardinalityType
<1>7. Summing(w, g, S)
  BY <1>5, <1>6 DEF Summing
<1> QED BY <1>7

LEMMA SummingUnique ==
  ASSUME NEW A, NEW w \in [A -> Nat], NEW T \in SUBSET A, IsFiniteSet(T),
         NEW S \in SUBSET T,
         NEW g, Summing(w, g, S), NEW h, Summing(w, h, T)
  PROVE  g[S] = h[S] /\ g[S] \in Nat
<1> DEFINE Good(s) == g[s] = h[s] /\ g[s] \in Nat
           Bad == {n \in Nat : \E s \in SUBSET S : Cardinality(s) = n /\ ~ Good(s)}
<1>1. ASSUME NEW s \in SUBSET S
      PROVE  IsFiniteSet(s) /\ Cardinality(s) \in Nat
                /\ g[s] = Taken(w, g, s) /\ h[s] = Taken(w, h, s)
  BY FS_Subset, FS_CardinalityType DEF Summing
<1>2. ASSUME NEW s \in SUBSET S, s # {}, Good(s \ {Chosen(s)}) PROVE Good(s)
  <2>1. Chosen(s) \in A
    BY <1>1, <1>2, Smaller
  <2>2. w[Chosen(s)] \in Nat
    BY <2>1
  <2> QED BY <1>1, <1>2, <2>2 DEF Taken
<1>3. Good({})
  <2>1. {} \in SUBSET S
    OBVIOUS
  <2>2. g[{}] = Taken(w, g, {}) /\ h[{}] = Taken(w, h, {})
    BY <1>1, <2>1
  <2> QED BY <2>2 DEF Taken
<1>4. Bad = {}
  <2> SUFFICES ASSUME Bad # {} PROVE FALSE
    OBVIOUS
  <2>1. PICK n \in Bad : \A k \in Bad : n <= k
    BY LeastExists
  <2>2. PICK s \in SUBSET S : Cardinality(s) = n /\ ~ Good(s)
    BY <2>1
  <2>3. s # {}
    BY <1>3, <2>2
  <2>4. s \ {Chosen(s)} \in SUBSET S
        /\ Cardinality(s \ {Chosen(s)}) \in Nat /\ Cardinality(s \ {Chosen(s)}) < n
    BY <1>1, <2>1, <2>2, <2>3, Smaller, FS_CardinalityType
  <2>5. Good(s \ {Chosen(s)})
    BY <2>1, <2>4
  <2> QED BY <1>2, <2>2, <2>3, <2>5
<1> QED BY <1>1, <1>4

(* Taking out the chosen element.                                          *)
LEMMA SumTaken ==
  ASSUME NEW A, NEW w \in [A -> Nat], NEW S \in SUBSET A, IsFiniteSet(S), S # {}
  PROVE  SumOver(w, S) = w[Chosen(S)] + SumOver(w, S \ {Chosen(S)})
<1> DEFINE R == S \ {Chosen(S)}
           g == CHOOSE f : Summing(w, f, S)
           h == CHOOSE f : Summing(w, f, R)
<1>1. IsFiniteSet(R) /\ R \in SUBSET S
  BY Smaller
<1>2. Summing(w, g, S) /\ Summing(w, h, R)
  BY <1>1, SummingExists
<1>3. h[R] = g[R]
  <2> HIDE DEF g, h, R
  <2> QED BY <1>1, <1>2, SummingUnique
<1>4. g[S] = w[Chosen(S)] + g[R]
  <2>1. g[S] = Taken(w, g, S)
    <3> HIDE DEF g
    <3> QED BY <1>2 DEF Summing
  <2> HIDE DEF g
  <2> QED BY <2>1 DEF Taken
<1> QED BY <1>3, <1>4, SumIsChosen

LEMMA SumType ==
  ASSUME NEW A, NEW w \in [A -> Nat], NEW S \in SUBSET A, IsFiniteSet(S)
  PROVE  SumOver(w, S) \in Nat
<1>1. PICK g : Summing(w, g, S)
  BY SummingExists
<1>2. Summing(w, CHOOSE f : Summing(w, f, S), S)
  BY <1>1
<1> QED BY <1>2, SummingUnique, SumIsChosen

LEMMA SumEmpty == ASSUME NEW w PROVE SumOver(w, {}) = 0
  BY DEF SumOver, MapThenSumSet, MapThenFoldSet

(* Adding an element, whichever is chosen first.                           *)
LEMMA SumAdded ==
  ASSUME NEW A, NEW w \in [A -> Nat], NEW S \in SUBSET A, IsFiniteSet(S),
         NEW x \in A, x \notin S
  PROVE  SumOver(w, S \cup {x}) = SumOver(w, S) + w[x]
<1> DEFINE Good(T, y) == SumOver(w, T \cup {y}) = SumOver(w, T) + w[y]
           Cases(n) == {T \in SUBSET A : IsFiniteSet(T) /\ Cardinality(T) = n}
           Bad == {n \in Nat : \E T \in Cases(n) : \E y \in A \ T : ~ Good(T, y)}
<1>1. ASSUME NEW T \in SUBSET A, IsFiniteSet(T), NEW y \in A \ T,
             \A z \in T : \A u \in A \ (T \ {z}) : Good(T \ {z}, u)
      PROVE  Good(T, y)
  <2> DEFINE U == T \cup {y}
             z == Chosen(U)
  <2>1. U \in SUBSET A /\ IsFiniteSet(U) /\ U # {}
    BY <1>1, FS_AddElement
  <2>2. z \in U /\ SumOver(w, U) = w[z] + SumOver(w, U \ {z})
    BY <2>1, Smaller, SumTaken
  <2>3. SumOver(w, T) \in Nat /\ w[y] \in Nat /\ w[z] \in Nat
    BY <1>1, <2>1, <2>2, SumType
  <2> HIDE DEF z
  <2>4. CASE z = y
    <3>1. U \ {z} = T
      BY <2>4
    <3>2. SumOver(w, U) = w[y] + SumOver(w, T)
      BY <3>1, <2>2, <2>4, Zenon
    <3> QED BY <3>2, <2>3
  <2>5. CASE z # y
    <3>1. z \in T
      BY <2>2, <2>5
    <3>2. U \ {z} = (T \ {z}) \cup {y} /\ T = (T \ {z}) \cup {z}
      BY <3>1, <2>5
    <3>3. SumOver(w, U \ {z}) = SumOver(w, T \ {z}) + w[y]
      BY <1>1, <3>1, <3>2
    <3>4. SumOver(w, T) = SumOver(w, T \ {z}) + w[z]
      BY <1>1, <3>1, <3>2
    <3>5. SumOver(w, T \ {z}) \in Nat
      BY <1>1, FS_Subset, SumType
    <3> QED BY <2>2, <2>3, <3>3, <3>4, <3>5
  <2> QED BY <2>4, <2>5
<1>2. Bad = {}
  <2> SUFFICES ASSUME Bad # {} PROVE FALSE
    OBVIOUS
  <2> HIDE DEF Good
  <2>1. PICK n \in Bad : \A k \in Bad : n <= k
    BY LeastExists
  <2>2. PICK T \in Cases(n) : \E y \in A \ T : ~ Good(T, y)
    BY <2>1
  <2>3. ASSUME NEW z \in T, NEW u \in A \ (T \ {z})
        PROVE  Good(T \ {z}, u)
    <3> DEFINE k == Cardinality(T) - 1
    <3>1. T \ {z} \in Cases(k) /\ k \in Nat /\ k < n
      <4>1. IsFiniteSet(T) /\ Cardinality(T) = n /\ n \in Nat
        BY <2>1, <2>2
      <4>2. IsFiniteSet(T \ {z}) /\ Cardinality(T \ {z}) = n - 1
        BY <4>1, FS_RemoveElement
      <4>3. n - 1 \in Nat
        BY <4>2, FS_CardinalityType
      <4> QED BY <4>1, <4>2, <4>3
    <3>2. k \notin Bad
      BY <2>1, <3>1
    <3> QED BY <2>3, <3>1, <3>2
  <2> QED BY <1>1, <2>2, <2>3
<1>3. S \in Cases(Cardinality(S)) /\ Cardinality(S) \in Nat
  BY FS_CardinalityType
<1> QED BY <1>2, <1>3

===============================================================================
