----------------------------- MODULE FoldLemmas -----------------------------
(***************************************************************************)
(* Induction for the proofs about this code, and what it shows of the      *)
(* community modules' Min, Max and sums.  The library's induction theorems *)
(* take the induction hypothesis as an operator, which the provers cannot  *)
(* instantiate: here it is the set of the numbers that satisfy it.         *)
(***************************************************************************)
EXTENDS Integers, FiniteSets, FiniteSetsExt, FiniteSetTheorems, SequenceTheorems,
        WellFoundedInduction, Pick, TLAPS

\* A nonempty set of naturals has a least element.
LEMMA NatMinimum ==
    ASSUME NEW T \in SUBSET Nat, T # {}
    PROVE  \E n \in T : \A m \in T : n <= m
<1>1. \E n \in T : \A m \in T : ~ (<<m, n>> \in OpToRel(<, Nat))
  BY NatLessThanWellFounded, WFMin
<1>2. ASSUME NEW n \in T, NEW m \in T
      PROVE  <<m, n>> \in OpToRel(<, Nat) <=> m < n
  BY DEF OpToRel
<1>3. PICK n \in T : \A m \in T : ~ (m < n)
  BY <1>1, <1>2, Zenon
<1> QED
  BY <1>3

\* A set that holds 0 and the successor of each of its naturals holds them all.
LEMMA NatSetInduction ==
    ASSUME NEW T, 0 \in T, \A n \in Nat : n \in T => n + 1 \in T
    PROVE  \A n \in Nat : n \in T
<1> SUFFICES ASSUME Nat \ T # {} PROVE FALSE
  OBVIOUS
<1>1. PICK n \in Nat \ T : \A m \in Nat \ T : n <= m
  BY NatMinimum
<1>2. n - 1 \in Nat /\ n - 1 \in T
  BY <1>1
<1>3. (n - 1) + 1 \in T
  BY <1>2
<1> QED
  BY <1>1, <1>3

\* Min of a nonempty set of naturals is its least element.
LEMMA MinIsLeast ==
    ASSUME NEW S \in SUBSET Nat, S # {}
    PROVE  Min(S) \in S /\ \A n \in S : Min(S) <= n
BY NatMinimum DEF Min

\* Max of a nonempty bounded set of naturals is its greatest element.
LEMMA MaxIsGreatest ==
    ASSUME NEW S \in SUBSET Nat, S # {}, NEW b \in Nat, \A n \in S : n <= b
    PROVE  Max(S) \in S /\ \A n \in S : n <= Max(S)
<1> DEFINE below == {b - n : n \in S}
<1>1. below \in SUBSET Nat /\ below # {}
  <2>1. \A n \in S : n \in Nat /\ b - n \in Nat
    OBVIOUS
  <2>2. below \in SUBSET Nat
    BY <2>1
  <2>3. PICK n : n \in S
    OBVIOUS
  <2>4. b - n \in below
    BY <2>3
  <2> QED
    BY <2>2, <2>4
<1>2. PICK d \in below : \A e \in below : d <= e
  BY <1>1, NatMinimum
<1>3. PICK m \in S : d = b - m
  OBVIOUS
<1>4. \E t \in S : \A n \in S : t >= n
  <2>1. ASSUME NEW n \in S PROVE m >= n
    <3>1. b - n \in below
      OBVIOUS
    <3>2. d <= b - n
      BY <1>2, <3>1
    <3> HIDE DEF below
    <3> QED
      BY <1>3, <3>2
  <2> QED
    BY <2>1
<1> DEFINE top == CHOOSE t \in S : \A n \in S : t >= n
<1>5. top \in S /\ \A n \in S : top >= n
  BY <1>4, Zenon
<1> HIDE DEF top
<1>6. top \in S /\ \A n \in S : n <= top
  BY <1>5
<1> QED
  BY <1>6 DEF Max, top

\* Disjoint sets have as many elements together as each has.
LEMMA DisjointUnion ==
    ASSUME NEW S, IsFiniteSet(S), NEW T, IsFiniteSet(T), S \cap T = {}
    PROVE  Cardinality(S \cup T) = Cardinality(S) + Cardinality(T)
<1>1. Cardinality(S \cap T) = 0
  BY FS_EmptySet
<1>2. Cardinality(S \cup T) = Cardinality(S) + Cardinality(T) - Cardinality(S \cap T)
  BY FS_Union
<1>3. Cardinality(S) \in Nat /\ Cardinality(T) \in Nat
  BY FS_CardinalityType
<1> QED
  BY <1>1, <1>2, <1>3

\* A sequence without repetition is as long as the set of its elements.
LEMMA DistinctLength ==
    ASSUME NEW X, NEW q \in Seq(X), \A i, j \in 1 .. Len(q) : q[i] = q[j] => i = j
    PROVE  IsFiniteSet(ToSet(q)) /\ Cardinality(ToSet(q)) = Len(q)
<1>1. Len(q) \in Nat /\ DOMAIN q = 1 .. Len(q)
  OBVIOUS
<1>2. q \in Bijection(1 .. Len(q), ToSet(q))
  BY <1>1 DEF Bijection, Injection, Surjection, ToSet, IsInjective
<1>3. IsFiniteSet(1 .. Len(q)) /\ Cardinality(1 .. Len(q)) = Len(q)
  BY <1>1, FS_Interval
<1> QED
  BY <1>2, <1>3, FS_Bijection DEF ExistsBijection

-----------------------------------------------------------------------------
(* Sums over finite sets.  MapThenSumSet is the value at S of a function   *)
(* defined by recursion over the subsets of S; SumsTo says what defines it.*)

SumsTo(f, g, S) ==
    /\ f \in [SUBSET S -> Nat]
    /\ \A s \in SUBSET S :
        f[s] = IF s = {} THEN 0 ELSE g[CHOOSE x \in s : TRUE] + f[s \ {CHOOSE x \in s : TRUE}]

\* A subset without one of its elements is a smaller one.
LEMMA SmallerSubset ==
    ASSUME NEW S, IsFiniteSet(S), NEW s \in SUBSET S
    PROVE  /\ IsFiniteSet(s) /\ Cardinality(s) \in Nat
           /\ Cardinality(s) <= Cardinality(S) /\ Cardinality(S) \in Nat
           /\ \A x \in s : Cardinality(s \ {x}) = Cardinality(s) - 1
           /\ s # {} => (CHOOSE x \in s : TRUE) \in s
<1>1. IsFiniteSet(s) /\ Cardinality(s) <= Cardinality(S)
  BY FS_Subset
<1>2. Cardinality(s) \in Nat /\ Cardinality(S) \in Nat
  BY <1>1, FS_CardinalityType
<1>3. \A x \in s : Cardinality(s \ {x}) = Cardinality(s) - 1
  BY <1>1, FS_RemoveElement
<1> QED
  BY <1>1, <1>2, <1>3

\* The recursion has a solution.
LEMMA SumExists ==
    ASSUME NEW S, IsFiniteSet(S), NEW g, \A x \in S : g[x] \in Nat
    PROVE  \E f : SumsTo(f, g, S)
<1> DEFINE Small(n) == {s \in SUBSET S : Cardinality(s) <= n}
           Step(f, s) == f[s] = IF s = {} THEN 0 ELSE g[CHOOSE x \in s : TRUE] + f[s \ {CHOOSE x \in s : TRUE}]
           Solved == {n \in Nat : \E f \in [Small(n) -> Nat] : \A s \in Small(n) : Step(f, s)}
<1>1. 0 \in Solved
  <2> DEFINE f0 == [s \in Small(0) |-> 0]
  <2>1. \A s \in Small(0) : s = {}
    BY SmallerSubset, FS_EmptySet
  <2>2. f0 \in [Small(0) -> Nat]
    OBVIOUS
  <2>3. \A s \in Small(0) : Step(f0, s)
    BY <2>1
  <2> HIDE DEF f0, Step
  <2> QED
    BY <2>2, <2>3
<1>2. ASSUME NEW n \in Nat, n \in Solved PROVE n + 1 \in Solved
  <2>1. PICK f \in [Small(n) -> Nat] : \A s \in Small(n) : Step(f, s)
    BY <1>2
  <2> DEFINE h == [s \in Small(n + 1) |-> IF s = {} THEN 0
                     ELSE g[CHOOSE x \in s : TRUE] + f[s \ {CHOOSE x \in s : TRUE}]]
  <2>2. ASSUME NEW s \in Small(n + 1), s # {}
        PROVE  (CHOOSE x \in s : TRUE) \in s /\ s \ {CHOOSE x \in s : TRUE} \in Small(n)
    <3> DEFINE x == CHOOSE y \in s : TRUE
    <3>1. x \in s
      BY <2>2
    <3> HIDE DEF x
    <3>2. Cardinality(s \ {x}) = Cardinality(s) - 1 /\ Cardinality(s) \in Nat
      BY <3>1, SmallerSubset
    <3>3. s \ {x} \in Small(n)
      BY <3>2
    <3> QED
      BY <3>1, <3>3 DEF x
  <2>3. h \in [Small(n + 1) -> Nat]
    BY <2>2
  <2>4. ASSUME NEW s \in Small(n) PROVE s \in Small(n + 1) /\ h[s] = f[s]
    <3>1. Cardinality(s) \in Nat
      BY SmallerSubset
    <3>2. s \in Small(n + 1)
      BY <3>1
    <3> QED
      BY <2>1, <3>2
  <2>5. ASSUME NEW s \in Small(n + 1) PROVE Step(h, s)
    <3>1. CASE s = {}
      BY <3>1
    <3>2. CASE s # {}
      <4>1. h[s] = g[CHOOSE x \in s : TRUE] + f[s \ {CHOOSE x \in s : TRUE}]
        BY <3>2
      <4>2. h[s \ {CHOOSE x \in s : TRUE}] = f[s \ {CHOOSE x \in s : TRUE}]
        BY <2>2, <2>4, <3>2
      <4> HIDE DEF h
      <4> QED
        BY <3>2, <4>1, <4>2
    <3> QED
      BY <3>1, <3>2
  <2> HIDE DEF h
  <2>6. \E f1 \in [Small(n + 1) -> Nat] : \A s \in Small(n + 1) : Step(f1, s)
    <3> HIDE DEF Step, Small
    <3> QED
      BY <2>3, <2>5
  <2> HIDE DEF Step, Small
  <2> QED
    BY <2>6
<1>3. Cardinality(S) \in Nat
  BY SmallerSubset
<1>4. Cardinality(S) \in Solved
  <2> HIDE DEF Solved
  <2> QED
    BY <1>1, <1>2, <1>3, NatSetInduction
<1>5. Small(Cardinality(S)) = SUBSET S
  BY SmallerSubset
<1>6. PICK f \in [SUBSET S -> Nat] : \A s \in SUBSET S : Step(f, s)
  BY <1>4, <1>5
<1>7. SumsTo(f, g, S)
  BY <1>6 DEF SumsTo
<1> QED
  BY <1>7

\* Two sums agree on the sets they both know and on whose elements they add
\* the same.
LEMMA SumUnique ==
    ASSUME NEW S, IsFiniteSet(S), NEW g, NEW f, SumsTo(f, g, S),
           NEW T, NEW h, NEW e, SumsTo(e, h, T),
           NEW U, U \subseteq S, U \subseteq T, \A x \in U : g[x] = h[x]
    PROVE  f[U] = e[U]
<1> DEFINE Agree == {n \in Nat : \A s \in SUBSET U : Cardinality(s) <= n => f[s] = e[s]}
<1>0. \A s \in SUBSET U : s \in SUBSET S /\ s \in SUBSET T
  OBVIOUS
<1>1. \A s \in SUBSET U : s = {} => f[s] = 0 /\ e[s] = 0
  BY <1>0 DEF SumsTo
<1>2. ASSUME NEW s \in SUBSET U, s # {}
      PROVE  /\ f[s] = g[CHOOSE x \in s : TRUE] + f[s \ {CHOOSE x \in s : TRUE}]
             /\ e[s] = h[CHOOSE x \in s : TRUE] + e[s \ {CHOOSE x \in s : TRUE}]
  BY <1>0, <1>2 DEF SumsTo
<1>3. 0 \in Agree
  <2>1. ASSUME NEW s \in SUBSET U, Cardinality(s) <= 0 PROVE s = {}
    BY <1>0, <2>1, SmallerSubset, FS_EmptySet
  <2> QED
    BY <1>1, <2>1
<1>4. ASSUME NEW n \in Nat, n \in Agree PROVE n + 1 \in Agree
  <2> SUFFICES ASSUME NEW s \in SUBSET U, Cardinality(s) <= n + 1, s # {} PROVE f[s] = e[s]
    BY <1>1
  <2> DEFINE x == CHOOSE y \in s : TRUE
  <2>1. x \in s
    OBVIOUS
  <2>2. f[s] = g[x] + f[s \ {x}] /\ e[s] = h[x] + e[s \ {x}]
    BY <1>2
  <2> HIDE DEF x
  <2>3. s \ {x} \in SUBSET U /\ Cardinality(s \ {x}) <= n
    BY <1>0, <2>1, SmallerSubset
  <2>4. f[s \ {x}] = e[s \ {x}]
    BY <1>4, <2>3
  <2> QED
    BY <2>1, <2>2, <2>4
<1>5. U \in SUBSET S /\ Cardinality(U) \in Nat
  BY SmallerSubset
<1>6. Cardinality(U) \in Agree
  <2> HIDE DEF Agree
  <2> QED
    BY <1>3, <1>4, <1>5, NatSetInduction
<1> QED
  BY <1>5, <1>6

\* Whichever element is taken first, the rest is the sum of the others.
LEMMA SumRemove ==
    ASSUME NEW S, IsFiniteSet(S), NEW g, \A x \in S : g[x] \in Nat, NEW f, SumsTo(f, g, S),
           NEW U \in SUBSET S, NEW a \in U
    PROVE  f[U] = g[a] + f[U \ {a}]
<1> DEFINE Free == {n \in Nat : \A s \in SUBSET S : Cardinality(s) <= n =>
                        \A b \in s : f[s] = g[b] + f[s \ {b}]}
<1>1. 0 \in Free
  <2>1. ASSUME NEW s \in SUBSET S, Cardinality(s) <= 0 PROVE s = {}
    BY <2>1, SmallerSubset, FS_EmptySet
  <2> QED
    BY <2>1
<1>2. ASSUME NEW n \in Nat, n \in Free PROVE n + 1 \in Free
  <2> SUFFICES ASSUME NEW s \in SUBSET S, Cardinality(s) <= n + 1, NEW b \in s
               PROVE  f[s] = g[b] + f[s \ {b}]
    OBVIOUS
  <2> DEFINE x == CHOOSE y \in s : TRUE
  <2>1. x \in s
    OBVIOUS
  <2>2. f[s] = g[x] + f[s \ {x}]
    BY DEF SumsTo
  <2> HIDE DEF x
  <2>3. CASE b = x
    BY <2>2, <2>3
  <2>4. CASE b # x
    <3>1. /\ s \ {x} \in SUBSET S /\ Cardinality(s \ {x}) <= n
          /\ s \ {b} \in SUBSET S /\ Cardinality(s \ {b}) <= n
      BY <2>1, SmallerSubset
    <3>2. f[s \ {x}] = g[b] + f[(s \ {x}) \ {b}]
      BY <1>2, <2>4, <3>1
    <3>3. f[s \ {b}] = g[x] + f[(s \ {b}) \ {x}]
      BY <1>2, <2>1, <2>4, <3>1
    <3>4. (s \ {x}) \ {b} = (s \ {b}) \ {x}
      OBVIOUS
    <3>5. g[x] \in Nat /\ g[b] \in Nat /\ f[(s \ {x}) \ {b}] \in Nat
      BY <2>1 DEF SumsTo
    <3> DEFINE t == (s \ {x}) \ {b}
    <3>6. f[s \ {b}] = g[x] + f[t] /\ f[s \ {x}] = g[b] + f[t] /\ f[t] \in Nat
      BY <3>2, <3>3, <3>4, <3>5
    <3> HIDE DEF t
    <3> QED
      BY <2>2, <3>5, <3>6
  <2> QED
    BY <2>3, <2>4
<1>3. Cardinality(U) \in Nat
  BY SmallerSubset
<1>4. Cardinality(U) \in Free
  <2> HIDE DEF Free
  <2> QED
    BY <1>1, <1>2, <1>3, NatSetInduction
<1> QED
  BY <1>3, <1>4

-----------------------------------------------------------------------------
(* MapThenSumSet, of a function.                                           *)

SumOf(g, S) == MapThenSumSet(LAMBDA x : g[x], S)

\* MapThenSumSet is the value at S of whatever solves the recursion there.
LEMMA SumOfIsSum ==
    ASSUME NEW S, IsFiniteSet(S), NEW g, \A x \in S : g[x] \in Nat
    PROVE  \E f : SumsTo(f, g, S) /\ SumOf(g, S) = f[S]
<1> DEFINE Body(f) == [s \in SUBSET S |-> IF s = {} THEN 0
                         ELSE g[CHOOSE x \in s : TRUE] + f[s \ {CHOOSE x \in s : TRUE}]]
           iter == CHOOSE f : f = Body(f)
<1>1. PICK f : SumsTo(f, g, S)
  BY SumExists
<1>2. f = Body(f)
  BY <1>1 DEF SumsTo
<1>3. iter = Body(iter)
  <2> HIDE DEF Body
  <2> QED
    BY <1>2
<1>4. SumOf(g, S) = iter[S]
  BY DEF SumOf, MapThenSumSet, MapThenFoldSet
<1> HIDE DEF iter
<1>5. iter \in [SUBSET S -> Nat]
  <2>1. DOMAIN iter = SUBSET S
    BY <1>3
  <2> DEFINE Typed == {n \in Nat : \A s \in SUBSET S : Cardinality(s) <= n => iter[s] \in Nat}
  <2>2. 0 \in Typed
    <3>1. ASSUME NEW s \in SUBSET S, Cardinality(s) <= 0 PROVE s = {}
      BY <3>1, SmallerSubset, FS_EmptySet
    <3> QED
      BY <1>3, <3>1
  <2>3. ASSUME NEW n \in Nat, n \in Typed PROVE n + 1 \in Typed
    <3> SUFFICES ASSUME NEW s \in SUBSET S, Cardinality(s) <= n + 1, s # {} PROVE iter[s] \in Nat
      BY <1>3
    <3> DEFINE x == CHOOSE y \in s : TRUE
    <3>1. x \in s
      OBVIOUS
    <3>2. iter[s] = g[x] + iter[s \ {x}]
      BY <1>3
    <3> HIDE DEF x
    <3>3. Cardinality(s \ {x}) <= n
      BY <3>1, SmallerSubset
    <3> QED
      BY <2>3, <3>1, <3>2, <3>3
  <2>4. ASSUME NEW s \in SUBSET S PROVE iter[s] \in Nat
    <3>1. Cardinality(s) \in Nat
      BY SmallerSubset
    <3>2. Cardinality(s) \in Typed
      <4> HIDE DEF Typed
      <4> QED
        BY <2>2, <2>3, <3>1, NatSetInduction
    <3> QED
      BY <3>1, <3>2
  <2>5. iter = [s \in SUBSET S |-> iter[s]]
    BY <1>3
  <2> QED
    BY <2>4, <2>5
<1>6. SumsTo(iter, g, S)
  BY <1>3, <1>5 DEF SumsTo
<1> QED
  BY <1>4, <1>6

\* A sum of naturals is a natural, and nothing adds up to 0.
LEMMA SumFacts ==
    ASSUME NEW S, IsFiniteSet(S), NEW g, \A x \in S : g[x] \in Nat
    PROVE  SumOf(g, S) \in Nat /\ (S = {} => SumOf(g, S) = 0)
<1> PICK f : SumsTo(f, g, S) /\ SumOf(g, S) = f[S]
  BY SumOfIsSum
<1> QED
  BY DEF SumsTo

\* Each element adds its own.
LEMMA SumWithout ==
    ASSUME NEW S, IsFiniteSet(S), NEW g, \A x \in S : g[x] \in Nat, NEW a \in S
    PROVE  SumOf(g, S) = g[a] + SumOf(g, S \ {a})
<1> DEFINE T == S \ {a}
<1>1. IsFiniteSet(T) /\ T \subseteq S /\ \A x \in T : g[x] \in Nat
  BY FS_Subset
<1> HIDE DEF T
<1>2. PICK f : SumsTo(f, g, S) /\ SumOf(g, S) = f[S]
  BY SumOfIsSum
<1>3. PICK e : SumsTo(e, g, T) /\ SumOf(g, T) = e[T]
  BY <1>1, SumOfIsSum
<1>4. f[T] = e[T]
  BY <1>1, <1>2, <1>3, SumUnique
<1>5. f[S] = g[a] + f[S \ {a}]
  BY <1>2, SumRemove
<1> QED
  BY <1>2, <1>3, <1>4, <1>5 DEF T

\* Only the values on the set count.
LEMMA SumSame ==
    ASSUME NEW S, IsFiniteSet(S), NEW g, \A x \in S : g[x] \in Nat,
           NEW h, \A x \in S : h[x] = g[x]
    PROVE  SumOf(h, S) = SumOf(g, S)
<1>1. PICK f : SumsTo(f, g, S) /\ SumOf(g, S) = f[S]
  BY SumOfIsSum
<1>2. \A x \in S : h[x] \in Nat
  OBVIOUS
<1>3. PICK e : SumsTo(e, h, S) /\ SumOf(h, S) = e[S]
  BY <1>2, SumOfIsSum
<1>4. f[S] = e[S]
  BY <1>1, <1>3, SumUnique
<1> QED
  BY <1>1, <1>3, <1>4

\* Sums over disjoint sets add up.
LEMMA SumAdd ==
    ASSUME NEW S, IsFiniteSet(S), NEW T, IsFiniteSet(T), S \cap T = {},
           NEW g, \A x \in S \cup T : g[x] \in Nat
    PROVE  SumOf(g, S \cup T) = SumOf(g, S) + SumOf(g, T)
<1> DEFINE Adds == {n \in Nat : \A U \in SUBSET T : Cardinality(U) <= n =>
                        SumOf(g, S \cup U) = SumOf(g, S) + SumOf(g, U)}
<1>1. ASSUME NEW U \in SUBSET T
      PROVE  /\ IsFiniteSet(U) /\ IsFiniteSet(S \cup U)
             /\ \A x \in S \cup U : g[x] \in Nat
             /\ SumOf(g, U) \in Nat /\ SumOf(g, S) \in Nat
  <2>1. IsFiniteSet(U)
    BY FS_Subset
  <2>2. IsFiniteSet(S \cup U)
    BY <2>1, FS_Union
  <2>3. SumOf(g, U) \in Nat /\ SumOf(g, S) \in Nat
    BY <2>1, SumFacts
  <2> QED
    BY <2>1, <2>2, <2>3
<1>2. 0 \in Adds
  <2> SUFFICES ASSUME NEW U \in SUBSET T, Cardinality(U) <= 0
               PROVE  SumOf(g, S \cup U) = SumOf(g, S) + SumOf(g, U)
    OBVIOUS
  <2>1. U = {}
    BY SmallerSubset, FS_EmptySet
  <2>2. S \cup U = S /\ SumOf(g, U) = 0
    BY <1>1, <2>1, SumFacts
  <2> QED
    BY <1>1, <2>2
<1>3. ASSUME NEW n \in Nat, n \in Adds PROVE n + 1 \in Adds
  <2> SUFFICES ASSUME NEW U \in SUBSET T, Cardinality(U) <= n + 1
               PROVE  SumOf(g, S \cup U) = SumOf(g, S) + SumOf(g, U)
    OBVIOUS
  <2>1. CASE U = {}
    <3>1. Cardinality(U) <= 0
      BY <2>1, FS_EmptySet
    <3> QED
      BY <1>2, <3>1
  <2>2. CASE U # {}
    <3>1. PICK a \in U : TRUE
      BY <2>2
    <3> DEFINE V == U \ {a}
    <3>2. V \in SUBSET T /\ Cardinality(V) <= n
      BY SmallerSubset
    <3>3. a \in S \cup U /\ (S \cup U) \ {a} = S \cup V
      BY <3>1
    <3> HIDE DEF V
    <3>4. SumOf(g, U) = g[a] + SumOf(g, U \ {a})
      BY <1>1, <3>1, SumWithout
    <3>5. SumOf(g, S \cup U) = g[a] + SumOf(g, (S \cup U) \ {a})
      BY <1>1, <3>3, SumWithout
    <3>6. SumOf(g, S \cup V) = SumOf(g, S) + SumOf(g, V)
      BY <1>3, <3>2
    <3>7. g[a] \in Nat /\ SumOf(g, V) \in Nat /\ SumOf(g, S) \in Nat
      BY <1>1, <3>2, <3>3
    <3>8. /\ SumOf(g, U) = g[a] + SumOf(g, V)
          /\ SumOf(g, S \cup U) = g[a] + SumOf(g, S \cup V)
      BY <3>3, <3>4, <3>5 DEF V
    <3> QED
      BY <3>6, <3>7, <3>8
  <2> QED
    BY <2>1, <2>2
<1>4. Cardinality(T) \in Nat
  BY FS_CardinalityType
<1>5. Cardinality(T) \in Adds
  <2> HIDE DEF Adds
  <2> QED
    BY <1>2, <1>3, <1>4, NatSetInduction
<1> QED
  BY <1>4, <1>5

-----------------------------------------------------------------------------
(* The sum of what the elements' keys are worth.                           *)

SumVia(worth, key, S) == MapThenSumSet(LAMBDA x : worth[key[x]], S)

\* It is a sum of a function.
LEMMA SumViaIsSum ==
    ASSUME NEW S, NEW worth, NEW key, NEW g, \A x \in S : g[x] = worth[key[x]]
    PROVE  SumVia(worth, key, S) = SumOf(g, S)
<1> DEFINE Via(f) == [s \in SUBSET S |-> IF s = {} THEN 0
                        ELSE worth[key[CHOOSE x \in s : TRUE]] + f[s \ {CHOOSE x \in s : TRUE}]]
           Body(f) == [s \in SUBSET S |-> IF s = {} THEN 0
                        ELSE g[CHOOSE x \in s : TRUE] + f[s \ {CHOOSE x \in s : TRUE}]]
           via  == CHOOSE f : f = Via(f)
           iter == CHOOSE f : f = Body(f)
<1>1. \A f : Via(f) = Body(f)
  <2> SUFFICES ASSUME NEW f PROVE Via(f) = Body(f)
    OBVIOUS
  <2>1. ASSUME NEW s \in SUBSET S, s # {}
        PROVE  g[CHOOSE x \in s : TRUE] = worth[key[CHOOSE x \in s : TRUE]]
    <3> DEFINE c == CHOOSE x \in s : TRUE
    <3>1. c \in S
      BY <2>1
    <3> HIDE DEF c
    <3>2. g[c] = worth[key[c]]
      BY <3>1
    <3> QED
      BY <3>2 DEF c
  <2> QED
    BY <2>1
<1>2. via = iter
  <2> HIDE DEF Via, Body
  <2>1. \A f : (f = Via(f)) <=> (f = Body(f))
    BY <1>1
  <2> QED
    BY <2>1
<1>3. SumVia(worth, key, S) = via[S]
  BY DEF SumVia, MapThenSumSet, MapThenFoldSet
<1>4. SumOf(g, S) = iter[S]
  BY DEF SumOf, MapThenSumSet, MapThenFoldSet
<1> HIDE DEF via, iter
<1> QED
  BY <1>2, <1>3, <1>4

\* It is a natural, and 0 for nothing.
LEMMA SumViaFacts ==
    ASSUME NEW S, IsFiniteSet(S), NEW worth, NEW key, \A x \in S : worth[key[x]] \in Nat
    PROVE  SumVia(worth, key, S) \in Nat /\ (S = {} => SumVia(worth, key, S) = 0)
<1> DEFINE g == [x \in S |-> worth[key[x]]]
<1>1. \A x \in S : g[x] = worth[key[x]] /\ g[x] \in Nat
  OBVIOUS
<1> HIDE DEF g
<1>2. SumVia(worth, key, S) = SumOf(g, S)
  BY <1>1, SumViaIsSum
<1> QED
  BY <1>1, <1>2, SumFacts

\* An element that goes takes its own worth with it.
LEMMA SumViaWithout ==
    ASSUME NEW S, IsFiniteSet(S), NEW worth, NEW key, \A x \in S : worth[key[x]] \in Nat, NEW a \in S
    PROVE  SumVia(worth, key, S) = worth[key[a]] + SumVia(worth, key, S \ {a})
<1> DEFINE g == [x \in S |-> worth[key[x]]]
<1>1. \A x \in S : g[x] = worth[key[x]] /\ g[x] \in Nat
  OBVIOUS
<1> HIDE DEF g
<1>2. SumVia(worth, key, S) = SumOf(g, S)
  BY <1>1, SumViaIsSum
<1>3. SumVia(worth, key, S \ {a}) = SumOf(g, S \ {a})
  BY <1>1, SumViaIsSum
<1> QED
  BY <1>1, <1>2, <1>3, SumWithout

\* Only what the keys are worth counts.
LEMMA SumViaSame ==
    ASSUME NEW S, NEW worth, NEW key, NEW other, \A x \in S : worth[other[x]] = worth[key[x]]
    PROVE  SumVia(worth, other, S) = SumVia(worth, key, S)
<1> DEFINE g == [x \in S |-> worth[key[x]]]
<1>1. \A x \in S : g[x] = worth[key[x]] /\ g[x] = worth[other[x]]
  OBVIOUS
<1> HIDE DEF g
<1>2. SumVia(worth, key, S) = SumOf(g, S)
  BY <1>1, SumViaIsSum
<1>3. SumVia(worth, other, S) = SumOf(g, S)
  BY <1>1, SumViaIsSum
<1> QED
  BY <1>2, <1>3

\* Disjoint sets add up.
LEMMA SumViaAdd ==
    ASSUME NEW S, IsFiniteSet(S), NEW T, IsFiniteSet(T), S \cap T = {},
           NEW worth, NEW key, \A x \in S \cup T : worth[key[x]] \in Nat
    PROVE  SumVia(worth, key, S \cup T) = SumVia(worth, key, S) + SumVia(worth, key, T)
<1> DEFINE g == [x \in S \cup T |-> worth[key[x]]]
<1>1. \A x \in S \cup T : g[x] = worth[key[x]] /\ g[x] \in Nat
  OBVIOUS
<1> HIDE DEF g
<1>2. SumVia(worth, key, S \cup T) = SumOf(g, S \cup T)
  BY <1>1, SumViaIsSum
<1>3. SumVia(worth, key, S) = SumOf(g, S)
  BY <1>1, SumViaIsSum
<1>4. SumVia(worth, key, T) = SumOf(g, T)
  BY <1>1, SumViaIsSum
<1> QED
  BY <1>1, <1>2, <1>3, <1>4, SumAdd

-----------------------------------------------------------------------------
(* FoldLeft, of a step that is a function of the position and what there   *)
(* is so far.                                                              *)

FoldsTo(f, step, base, n, A) ==
    /\ f \in [SUBSET (1 .. n) -> A]
    /\ \A s \in SUBSET (1 .. n) : f[s] = IF s = {} THEN base ELSE step[<<Max(s), f[s \ {Max(s)}]>>]

\* The last of the first n positions, and the others.
LEMMA LastOf ==
    ASSUME NEW n \in Nat, NEW s \in SUBSET (1 .. n), s # {}
    PROVE  Max(s) \in s /\ Max(s) \in 1 .. n /\ (\A i \in s : i <= Max(s))
           /\ (\A i \in s \ {Max(s)} : i < Max(s))
<1>1. s \in SUBSET Nat /\ \A i \in s : i <= n
  OBVIOUS
<1>2. Max(s) \in s /\ \A i \in s : i <= Max(s)
  BY <1>1, MaxIsGreatest
<1> DEFINE m == Max(s)
<1>3. m \in s /\ \A i \in s : i <= m
  BY <1>2
<1> HIDE DEF m
<1>4. m \in s /\ m \in 1 .. n /\ (\A i \in s : i <= m) /\ (\A i \in s \ {m} : i < m)
  BY <1>1, <1>3
<1> QED
  BY <1>4 DEF m

\* The recursion has a solution, in the set the step stays in.
LEMMA FoldExists ==
    ASSUME NEW n \in Nat, NEW A, NEW base \in A, NEW step \in [(1 .. n) \X A -> A]
    PROVE  \E f : FoldsTo(f, step, base, n, A)
<1> DEFINE Upto(k) == SUBSET (1 .. k)
           Step(f, s) == f[s] = IF s = {} THEN base ELSE step[<<Max(s), f[s \ {Max(s)}]>>]
           Solved == {k \in Nat : k <= n => \E f \in [Upto(k) -> A] : \A s \in Upto(k) : Step(f, s)}
<1>1. 0 \in Solved
  <2> DEFINE f0 == [s \in Upto(0) |-> base]
  <2>1. f0 \in [Upto(0) -> A] /\ \A s \in Upto(0) : s = {}
    OBVIOUS
  <2>2. \A s \in Upto(0) : Step(f0, s)
    BY <2>1
  <2> HIDE DEF f0, Step, Upto
  <2> QED
    BY <2>1, <2>2
<1>2. ASSUME NEW k \in Nat, k \in Solved PROVE k + 1 \in Solved
  <2> DEFINE Solves(j) == \E f \in [Upto(j) -> A] : \A s \in Upto(j) : Step(f, s)
  <2>0. k <= n => Solves(k)
    BY <1>2
  <2> SUFFICES ASSUME k + 1 <= n PROVE Solves(k + 1)
    <3> HIDE DEF Upto, Step
    <3> QED
      OBVIOUS
  <2>1. PICK f \in [Upto(k) -> A] : \A s \in Upto(k) : Step(f, s)
    <3>1. Solves(k)
      <4>1. k <= n
        OBVIOUS
      <4> HIDE DEF Solves
      <4> QED
        BY <2>0, <4>1
    <3> HIDE DEF Upto, Step
    <3> QED
      BY <3>1
  <2> DEFINE h == [s \in Upto(k + 1) |-> IF s = {} THEN base ELSE step[<<Max(s), f[s \ {Max(s)}]>>]]
  <2>2. ASSUME NEW s \in Upto(k + 1), s # {}
        PROVE  Max(s) \in 1 .. n /\ s \ {Max(s)} \in Upto(k) /\ s \ {Max(s)} \in Upto(k + 1)
    <3> DEFINE m == Max(s)
    <3>1. m \in 1 .. k + 1 /\ \A i \in s \ {m} : i < m
      BY <2>2, LastOf
    <3> HIDE DEF m
    <3>2. m \in 1 .. n /\ s \ {m} \in Upto(k) /\ s \ {m} \in Upto(k + 1)
      BY <3>1
    <3> QED
      BY <3>2 DEF m
  <2>3. ASSUME NEW s \in Upto(k + 1), s # {}
        PROVE  step[<<Max(s), f[s \ {Max(s)}]>>] \in A
    <3>1. f[s \ {Max(s)}] \in A /\ Max(s) \in 1 .. n
      BY <2>2, <2>3
    <3> QED
      BY <3>1
  <2>4. h \in [Upto(k + 1) -> A]
    BY <2>3
  <2>5. ASSUME NEW s \in Upto(k) PROVE s \in Upto(k + 1) /\ h[s] = f[s]
    BY <2>1, SMTT(30)
  <2>6. ASSUME NEW s \in Upto(k + 1) PROVE Step(h, s)
    <3>1. CASE s = {}
      BY <3>1
    <3>2. CASE s # {}
      <4>1. h[s \ {Max(s)}] = f[s \ {Max(s)}]
        BY <2>2, <2>5, <3>2
      <4>2. h[s] = step[<<Max(s), f[s \ {Max(s)}]>>]
        BY <3>2
      <4> HIDE DEF h, Upto
      <4> QED
        BY <3>2, <4>1, <4>2
    <3> QED
      BY <3>1, <3>2
  <2> HIDE DEF h, Step, Upto
  <2> QED
    BY <2>4, <2>6
<1>3. n \in Solved
  <2> HIDE DEF Solved
  <2> QED
    BY <1>1, <1>2, NatSetInduction
<1>4. PICK f \in [Upto(n) -> A] : \A s \in Upto(n) : Step(f, s)
  <2> HIDE DEF Upto, Step
  <2> QED
    BY <1>3
<1>5. FoldsTo(f, step, base, n, A)
  BY <1>4 DEF FoldsTo
<1> QED
  BY <1>5

\* Of the first k positions the last is k.
LEMMA FirstPositions ==
    ASSUME NEW k \in Nat \ {0}
    PROVE  Max(1 .. k) = k /\ (1 .. k) \ {k} = 1 .. (k - 1)
<1> DEFINE m == Max(1 .. k)
<1>1. k \in 1 .. k /\ 1 .. k # {} /\ 1 .. k \in SUBSET (1 .. k)
  OBVIOUS
<1>2. m \in 1 .. k /\ \A i \in 1 .. k : i <= m
  BY <1>1, LastOf
<1> HIDE DEF m
<1>3. m = k
  BY <1>1, <1>2
<1> QED
  BY <1>3 DEF m

\* What there is after each of the first n positions.
Iterates(g, step, base, n, A) ==
    /\ g \in [0 .. n -> A]
    /\ g[0] = base
    /\ \A k \in 1 .. n : g[k] = step[<<k, g[k - 1]>>]

\* A recursion that takes the step at the last of the first k positions.
TakesSteps(iter, step, base, n, A) ==
    /\ n \in Nat /\ base \in A /\ step \in [(1 .. n) \X A -> A]
    /\ iter[{}] = base
    /\ \A k \in 1 .. n : iter[1 .. (k - 1)] \in A
                            => iter[1 .. k] = step[<<k, iter[1 .. (k - 1)]>>]

IteratesTo(iter, step, base, n, A) ==
    \E g : Iterates(g, step, base, n, A) /\ g[n] = iter[1 .. n]

\* It goes through the positions one after the other.
LEMMA FoldIterates ==
    ASSUME NEW n, NEW A, NEW base, NEW step, NEW iter, TakesSteps(iter, step, base, n, A)
    PROVE  IteratesTo(iter, step, base, n, A)
<1> DEFINE Typed == {k \in Nat : k <= n => iter[1 .. k] \in A}
           g == [k \in 0 .. n |-> iter[1 .. k]]
<1>0. /\ n \in Nat /\ base \in A /\ step \in [(1 .. n) \X A -> A]
      /\ iter[{}] = base
      /\ \A k \in 1 .. n : iter[1 .. (k - 1)] \in A
                              => iter[1 .. k] = step[<<k, iter[1 .. (k - 1)]>>]
  BY DEF TakesSteps
<1>1. 1 .. 0 = {} /\ 0 \in Typed
  BY <1>0
<1>2. ASSUME NEW k \in Nat, k \in Typed PROVE k + 1 \in Typed
  <2> SUFFICES ASSUME k + 1 <= n PROVE iter[1 .. (k + 1)] \in A
    OBVIOUS
  <2>1. k + 1 \in 1 .. n /\ (k + 1) - 1 = k /\ iter[1 .. k] \in A
    BY <1>0, <1>2
  <2>2. iter[1 .. (k + 1)] = step[<<k + 1, iter[1 .. k]>>]
    BY <1>0, <2>1
  <2> QED
    BY <1>0, <2>1, <2>2
<1>3. \A k \in Nat : k \in Typed
  <2> HIDE DEF Typed
  <2> QED
    BY <1>1, <1>2, NatSetInduction
<1>4. g \in [0 .. n -> A] /\ g[0] = base /\ g[n] = iter[1 .. n]
  BY <1>0, <1>1, <1>3
<1>5. ASSUME NEW k \in 1 .. n PROVE g[k] = step[<<k, g[k - 1]>>]
  <2>1. k \in 0 .. n /\ k - 1 \in 0 .. n /\ k - 1 \in Nat /\ k - 1 <= n
    BY <1>0
  <2>2. g[k] = iter[1 .. k] /\ g[k - 1] = iter[1 .. (k - 1)] /\ iter[1 .. (k - 1)] \in A
    BY <1>3, <2>1
  <2> QED
    BY <1>0, <2>2
<1> HIDE DEF g
<1>6. Iterates(g, step, base, n, A)
  BY <1>4, <1>5 DEF Iterates
<1> QED
  BY <1>4, <1>6 DEF IteratesTo

\* The step that a fold over s takes at a nonempty set of first positions.
LEMMA AtPosition ==
    ASSUME NEW n \in Nat, NEW k \in 1 .. n
    PROVE  /\ 1 .. k \in SUBSET (1 .. n) /\ 1 .. k # {}
           /\ Max(1 .. k) = k /\ (1 .. k) \ {k} = 1 .. (k - 1)
BY FirstPositions

\* There is what a step makes of each position, one after the other.
LEMMA IterateExists ==
    ASSUME NEW n \in Nat, NEW A, NEW base \in A, NEW step \in [(1 .. n) \X A -> A]
    PROVE  \E g : Iterates(g, step, base, n, A)
<1>1. PICK f : FoldsTo(f, step, base, n, A)
  BY FoldExists
<1>2. f[{}] = base
  BY <1>1 DEF FoldsTo
<1>3. ASSUME NEW k \in 1 .. n PROVE f[1 .. k] = step[<<k, f[1 .. (k - 1)]>>]
  BY <1>1, AtPosition DEF FoldsTo
<1>4. TakesSteps(f, step, base, n, A)
  BY <1>2, <1>3 DEF TakesSteps
<1>5. IteratesTo(f, step, base, n, A)
  BY <1>4, FoldIterates
<1> QED
  BY <1>5 DEF IteratesTo

-----------------------------------------------------------------------------
(* Keep.                                                                   *)

\* What Keep has kept after each position of s.
KeptSoFar(s, S, X, g) ==
    /\ g \in [0 .. Len(s) -> Seq(X)]
    /\ g[0] = <<>>
    /\ \A k \in 1 .. Len(s) : g[k] = IF s[k] \in S THEN Append(g[k - 1], s[k]) ELSE g[k - 1]

\* Keep goes through s one position after the other.
LEMMA KeepSteps ==
    ASSUME NEW X, NEW s \in Seq(X), NEW S
    PROVE  \E g : KeptSoFar(s, S, X, g) /\ Keep(s, S) = g[Len(s)]
<1> DEFINE n == Len(s)
           A == Seq(X)
           step == [p \in (1 .. n) \X A |-> IF s[p[1]] \in S THEN Append(p[2], s[p[1]]) ELSE p[2]]
           Body(f) == [t \in SUBSET DOMAIN s |-> IF t = {} THEN <<>>
                        ELSE IF s[Max(t)] \in S THEN Append(f[t \ {Max(t)}], s[Max(t)])
                             ELSE f[t \ {Max(t)}]]
           iter == CHOOSE f : f = Body(f)
<1>1. n \in Nat /\ DOMAIN s = 1 .. n /\ <<>> \in A /\ \A i \in 1 .. n : s[i] \in X
  OBVIOUS
<1>2. step \in [(1 .. n) \X A -> A]
  BY <1>1
<1>3. PICK f : FoldsTo(f, step, <<>>, n, A)
  <2>1. n \in Nat /\ <<>> \in A
    BY <1>1
  <2> HIDE DEF n, A, step
  <2> QED
    BY <1>2, <2>1, FoldExists
<1>4. f = Body(f)
  <2> SUFFICES ASSUME NEW t \in SUBSET (1 .. n)
               PROVE  f[t] = Body(f)[t]
    BY <1>1, <1>3 DEF FoldsTo
  <2>1. f[t] = IF t = {} THEN <<>> ELSE step[<<Max(t), f[t \ {Max(t)}]>>]
    BY <1>3 DEF FoldsTo
  <2>2. CASE t = {}
    BY <1>1, <2>1, <2>2
  <2>3. CASE t # {}
    <3> DEFINE m == Max(t)
    <3>1. m \in 1 .. n
      BY <1>1, <2>3, LastOf
    <3> HIDE DEF m
    <3>2. f[t \ {m}] \in A
      BY <1>3 DEF FoldsTo
    <3>3. step[<<m, f[t \ {m}]>>] = IF s[m] \in S THEN Append(f[t \ {m}], s[m]) ELSE f[t \ {m}]
      BY <3>1, <3>2
    <3> HIDE DEF step
    <3> QED
      BY <1>1, <2>1, <2>3, <3>3 DEF m
  <2> QED
    BY <2>2, <2>3
<1>5. iter = Body(iter)
  <2> HIDE DEF Body
  <2> QED
    BY <1>4
<1>6. Keep(s, S) = iter[DOMAIN s]
  BY DEF Keep, FoldLeft, MapThenFoldSet
<1> HIDE DEF iter
<1>7. iter[{}] = <<>>
  BY <1>5
<1>8. ASSUME NEW k \in 1 .. n, iter[1 .. (k - 1)] \in A
      PROVE  iter[1 .. k] = step[<<k, iter[1 .. (k - 1)]>>]
  <2> DEFINE t == 1 .. k
  <2>1. t \in SUBSET DOMAIN s /\ t # {} /\ Max(t) = k /\ t \ {k} = 1 .. (k - 1)
    BY <1>1, AtPosition
  <2> HIDE DEF t
  <2>2. iter[t] = IF s[k] \in S THEN Append(iter[1 .. (k - 1)], s[k]) ELSE iter[1 .. (k - 1)]
    BY <1>5, <2>1
  <2>3. step[<<k, iter[1 .. (k - 1)]>>]
          = IF s[k] \in S THEN Append(iter[1 .. (k - 1)], s[k]) ELSE iter[1 .. (k - 1)]
    <3> HIDE DEF A, n
    <3> QED
      BY <1>8
  <2> HIDE DEF step
  <2> QED
    BY <2>2, <2>3 DEF t
<1>9. PICK g : Iterates(g, step, <<>>, n, A) /\ g[n] = iter[1 .. n]
  <2>1. n \in Nat /\ <<>> \in A
    BY <1>1
  <2> HIDE DEF n, A, step
  <2>2. TakesSteps(iter, step, <<>>, n, A)
    BY <1>2, <1>7, <1>8, <2>1 DEF TakesSteps
  <2>3. IteratesTo(iter, step, <<>>, n, A)
    BY <2>2, FoldIterates
  <2> QED
    BY <2>3 DEF IteratesTo
<1>10. ASSUME NEW k \in 1 .. n
       PROVE  g[k] = IF s[k] \in S THEN Append(g[k - 1], s[k]) ELSE g[k - 1]
  <2>1. k - 1 \in 0 .. n
    BY <1>1
  <2> HIDE DEF A
  <2>2. g[k - 1] \in A /\ g[k] = step[<<k, g[k - 1]>>]
    <3> HIDE DEF n, step
    <3> QED
      BY <1>9, <2>1 DEF Iterates
  <2>3. step[<<k, g[k - 1]>>] = IF s[k] \in S THEN Append(g[k - 1], s[k]) ELSE g[k - 1]
    <3> HIDE DEF n
    <3> QED
      BY <2>2
  <2> HIDE DEF step
  <2> QED
    BY <2>2, <2>3
<1>11. KeptSoFar(s, S, X, g)
  BY <1>9, <1>10 DEF KeptSoFar, Iterates
<1> QED
  BY <1>1, <1>6, <1>9, <1>11

\* What Append does to the elements.
LEMMA AppendSet ==
    ASSUME NEW X, NEW q \in Seq(X), NEW x \in X
    PROVE  Append(q, x) \in Seq(X) /\ ToSet(Append(q, x)) = ToSet(q) \cup {x}
<1>1. /\ Len(q) \in Nat /\ DOMAIN q = 1 .. Len(q)
      /\ DOMAIN Append(q, x) = 1 .. (Len(q) + 1) /\ Append(q, x)[Len(q) + 1] = x
      /\ \A i \in 1 .. Len(q) : Append(q, x)[i] = q[i]
  OBVIOUS
<1>2. ToSet(Append(q, x)) \subseteq ToSet(q) \cup {x}
  <2> SUFFICES ASSUME NEW i \in 1 .. (Len(q) + 1) PROVE Append(q, x)[i] \in ToSet(q) \cup {x}
    BY <1>1 DEF ToSet
  <2>1. CASE i = Len(q) + 1
    BY <1>1, <2>1
  <2>2. CASE i # Len(q) + 1
    BY <1>1, <2>2 DEF ToSet
  <2> QED
    BY <2>1, <2>2
<1>3. \A i \in 1 .. Len(q) : i \in DOMAIN Append(q, x) /\ q[i] = Append(q, x)[i]
  BY <1>1
<1>4. x = Append(q, x)[Len(q) + 1] /\ Len(q) + 1 \in DOMAIN Append(q, x)
  BY <1>1
<1>5. ToSet(q) \cup {x} \subseteq ToSet(Append(q, x))
  BY <1>1, <1>3, <1>4 DEF ToSet
<1> QED
  BY <1>2, <1>5

\* Keep keeps what is in S, and nothing else.
LEMMA KeepSet ==
    ASSUME NEW X, NEW s \in Seq(X), NEW S
    PROVE  Keep(s, S) \in Seq(X) /\ ToSet(Keep(s, S)) = ToSet(s) \cap S
<1>1. PICK g : KeptSoFar(s, S, X, g) /\ Keep(s, S) = g[Len(s)]
  BY KeepSteps
<1> DEFINE n == Len(s)
           Right == {k \in Nat : k <= n => ToSet(g[k]) = {s[i] : i \in 1 .. k} \cap S}
<1>2. n \in Nat /\ DOMAIN s = 1 .. n /\ \A i \in 1 .. n : s[i] \in X
  OBVIOUS
<1>3. 0 \in Right
  <2>1. ToSet(g[0]) = {}
    BY <1>1 DEF KeptSoFar, ToSet
  <2> QED
    BY <2>1
<1>4. ASSUME NEW k \in Nat, k \in Right PROVE k + 1 \in Right
  <2> SUFFICES ASSUME k + 1 <= n
               PROVE  ToSet(g[k + 1]) = {s[i] : i \in 1 .. (k + 1)} \cap S
    OBVIOUS
  <2> DEFINE x == s[k + 1]
             q == g[k]
  <2>1. q \in Seq(X) /\ x \in X /\ ToSet(q) = {s[i] : i \in 1 .. k} \cap S
    <3>1. k <= n /\ k \in 0 .. n /\ k + 1 \in 1 .. n
      BY <1>2
    <3>2. g[k] \in Seq(X) /\ s[k + 1] \in X
      BY <1>1, <1>2, <3>1 DEF KeptSoFar
    <3>3. ToSet(g[k]) = {s[i] : i \in 1 .. k} \cap S
      BY <1>4, <3>1
    <3> QED
      BY <3>2, <3>3
  <2>2. g[k + 1] = IF x \in S THEN Append(q, x) ELSE q
    <3>1. k + 1 \in 1 .. n /\ (k + 1) - 1 = k
      BY <1>2
    <3> QED
      BY <1>1, <3>1 DEF KeptSoFar
  <2>3. {s[i] : i \in 1 .. (k + 1)} = {s[i] : i \in 1 .. k} \cup {x}
    <3>1. 1 .. (k + 1) = (1 .. k) \cup {k + 1}
      OBVIOUS
    <3> QED
      BY <3>1
  <2> HIDE DEF x, q
  <2>4. CASE x \in S
    <3>1. ToSet(g[k + 1]) = ToSet(q) \cup {x}
      BY <2>1, <2>2, <2>4, AppendSet
    <3> QED
      BY <2>1, <2>3, <2>4, <3>1
  <2>5. CASE x \notin S
    BY <2>1, <2>2, <2>3, <2>5
  <2> QED
    BY <2>4, <2>5
<1>5. n \in Right
  <2> HIDE DEF Right
  <2> QED
    BY <1>2, <1>3, <1>4, NatSetInduction
<1>6. ToSet(g[n]) = ToSet(s) \cap S
  BY <1>2, <1>5 DEF ToSet
<1> QED
  BY <1>1, <1>2, <1>6 DEF KeptSoFar

\* It keeps as many as there are positions with such an element.
LEMMA KeepLength ==
    ASSUME NEW X, NEW s \in Seq(X), NEW S
    PROVE  /\ IsFiniteSet({i \in 1 .. Len(s) : s[i] \in S})
           /\ Len(Keep(s, S)) = Cardinality({i \in 1 .. Len(s) : s[i] \in S})
<1>1. PICK g : KeptSoFar(s, S, X, g) /\ Keep(s, S) = g[Len(s)]
  BY KeepSteps
<1> DEFINE n == Len(s)
           P(k) == {i \in 1 .. k : s[i] \in S}
           Right == {k \in Nat : k <= n => Len(g[k]) = Cardinality(P(k))}
<1>2. n \in Nat /\ \A k \in 0 .. n : g[k] \in Seq(X) /\ Len(g[k]) \in Nat
  BY <1>1 DEF KeptSoFar
<1>3. \A k \in Nat : IsFiniteSet(P(k)) /\ Cardinality(P(k)) \in Nat
  <2> SUFFICES ASSUME NEW k \in Nat PROVE IsFiniteSet(P(k)) /\ Cardinality(P(k)) \in Nat
    OBVIOUS
  <2>1. IsFiniteSet(1 .. k) /\ P(k) \subseteq 1 .. k
    BY FS_Interval
  <2> HIDE DEF P
  <2> QED
    BY <2>1, FS_Subset, FS_CardinalityType
<1>4. 0 \in Right
  <2>1. P(0) = {} /\ g[0] = <<>>
    BY <1>1 DEF KeptSoFar
  <2>2. Cardinality({}) = 0
    BY FS_EmptySet
  <2> HIDE DEF P
  <2> QED
    BY <2>1, <2>2
<1>5. ASSUME NEW k \in Nat, k \in Right PROVE k + 1 \in Right
  <2> SUFFICES ASSUME k + 1 <= n PROVE Len(g[k + 1]) = Cardinality(P(k + 1))
    OBVIOUS
  <2>1. k \in 0 .. n /\ k + 1 \in 1 .. n /\ (k + 1) - 1 = k /\ k <= n
    BY <1>2
  <2>2. Len(g[k]) = Cardinality(P(k))
    BY <1>5, <2>1
  <2>3. g[k + 1] = IF s[k + 1] \in S THEN Append(g[k], s[k + 1]) ELSE g[k]
    BY <1>1, <2>1 DEF KeptSoFar
  <2>4. CASE s[k + 1] \in S
    <3>1. P(k + 1) = P(k) \cup {k + 1} /\ k + 1 \notin P(k)
      BY <2>4
    <3>2. Cardinality(P(k + 1)) = Cardinality(P(k)) + 1
      <4> HIDE DEF P
      <4> QED
        BY <1>3, <3>1, FS_AddElement
    <3>3. Len(g[k + 1]) = Len(g[k]) + 1
      BY <1>2, <2>1, <2>3, <2>4
    <3> QED
      BY <2>2, <3>2, <3>3
  <2>5. CASE s[k + 1] \notin S
    <3>1. P(k + 1) = P(k)
      BY <2>5
    <3> QED
      BY <2>2, <2>3, <2>5, <3>1
  <2> QED
    BY <2>4, <2>5
<1>6. n \in Right
  <2> HIDE DEF Right
  <2> QED
    BY <1>2, <1>4, <1>5, NatSetInduction
<1> QED
  BY <1>1, <1>2, <1>3, <1>6

\* If as many are left as there were, nothing was dropped.
LEMMA KeepAll ==
    ASSUME NEW X, NEW s \in Seq(X), NEW S, Len(Keep(s, S)) = Len(s)
    PROVE  Keep(s, S) = s /\ \A i \in 1 .. Len(s) : s[i] \in S
<1>1. PICK g : KeptSoFar(s, S, X, g) /\ Keep(s, S) = g[Len(s)]
  BY KeepSteps
<1> DEFINE n == Len(s)
           P == {i \in 1 .. n : s[i] \in S}
           Right == {k \in Nat : k <= n => g[k] = SubSeq(s, 1, k)}
<1>2. n \in Nat /\ s = SubSeq(s, 1, n) /\ SubSeq(s, 1, 0) = <<>>
  BY SubSeqFull
<1>3. P = 1 .. n
  <2>1. Cardinality(P) = n /\ P \subseteq 1 .. n
    <3>1. Len(Keep(s, S)) = Cardinality({i \in 1 .. Len(s) : s[i] \in S})
      BY KeepLength
    <3> QED
      BY <3>1
  <2> HIDE DEF P, n
  <2>2. IsFiniteSet(1 .. n) /\ Cardinality(1 .. n) = n
    BY <1>2, FS_Interval
  <2> QED
    BY <2>1, <2>2, FS_Subset
<1>4. 0 \in Right
  BY <1>1, <1>2 DEF KeptSoFar
<1>5. ASSUME NEW k \in Nat, k \in Right PROVE k + 1 \in Right
  <2> SUFFICES ASSUME k + 1 <= n PROVE g[k + 1] = SubSeq(s, 1, k + 1)
    OBVIOUS
  <2>1. k + 1 \in 1 .. n /\ (k + 1) - 1 = k /\ k <= n /\ g[k] = SubSeq(s, 1, k)
    BY <1>2, <1>5
  <2>2. g[k + 1] = Append(g[k], s[k + 1])
    BY <1>1, <1>3, <2>1 DEF KeptSoFar
  <2> QED
    BY <1>2, <2>1, <2>2
<1>6. n \in Right
  <2> HIDE DEF Right
  <2> QED
    BY <1>2, <1>4, <1>5, NatSetInduction
<1> QED
  BY <1>1, <1>2, <1>3, <1>6

\* Positions or arrival numbers in order, none of them twice.
Increasing(s) == \A i, j \in DOMAIN s : i < j => s[i] < s[j]

\* A greater one at the end leaves them in order.
LEMMA AppendIncreasing ==
    ASSUME NEW q \in Seq(Nat), Increasing(q), NEW x \in Nat, \A y \in ToSet(q) : y < x
    PROVE  Increasing(Append(q, x))
<1>1. /\ Len(q) \in Nat /\ DOMAIN q = 1 .. Len(q)
      /\ DOMAIN Append(q, x) = 1 .. (Len(q) + 1) /\ Append(q, x)[Len(q) + 1] = x
      /\ \A i \in 1 .. Len(q) : Append(q, x)[i] = q[i]
  OBVIOUS
<1> SUFFICES ASSUME NEW i \in 1 .. (Len(q) + 1), NEW j \in 1 .. (Len(q) + 1), i < j
             PROVE  Append(q, x)[i] < Append(q, x)[j]
  BY <1>1 DEF Increasing
<1>2. i \in 1 .. Len(q) /\ Append(q, x)[i] = q[i]
  BY <1>1
<1>3. CASE j = Len(q) + 1
  BY <1>1, <1>2, <1>3 DEF ToSet
<1>4. CASE j # Len(q) + 1
  BY <1>1, <1>2, <1>4 DEF Increasing
<1> QED
  BY <1>3, <1>4

\* Keep keeps the order.
LEMMA KeepIncreasing ==
    ASSUME NEW s \in Seq(Nat), Increasing(s), NEW S
    PROVE  Increasing(Keep(s, S))
<1>1. PICK g : KeptSoFar(s, S, Nat, g) /\ Keep(s, S) = g[Len(s)]
  BY KeepSteps
<1> DEFINE n == Len(s)
           Right == {k \in Nat : k <= n => /\ Increasing(g[k])
                                           /\ \A y \in ToSet(g[k]) : \E i \in 1 .. k : y = s[i]}
<1>2. n \in Nat /\ DOMAIN s = 1 .. n /\ \A i \in 1 .. n : s[i] \in Nat
  OBVIOUS
<1>3. 0 \in Right
  <2>1. g[0] = <<>>
    BY <1>1 DEF KeptSoFar
  <2> QED
    BY <2>1 DEF ToSet, Increasing
<1>4. ASSUME NEW k \in Nat, k \in Right PROVE k + 1 \in Right
  <2> SUFFICES ASSUME k + 1 <= n
               PROVE  /\ Increasing(g[k + 1])
                      /\ \A y \in ToSet(g[k + 1]) : \E i \in 1 .. (k + 1) : y = s[i]
    OBVIOUS
  <2> DEFINE x == s[k + 1]
             q == g[k]
  <2>1. q \in Seq(Nat) /\ x \in Nat /\ Increasing(q)
        /\ \A y \in ToSet(q) : \E i \in 1 .. k : y = s[i]
    <3>1. k <= n /\ k \in 0 .. n /\ k + 1 \in 1 .. n
      BY <1>2
    <3>2. g[k] \in Seq(Nat) /\ s[k + 1] \in Nat
      BY <1>1, <1>2, <3>1 DEF KeptSoFar
    <3>3. Increasing(g[k]) /\ \A y \in ToSet(g[k]) : \E i \in 1 .. k : y = s[i]
      BY <1>4, <3>1
    <3> QED
      BY <3>2, <3>3
  <2>2. g[k + 1] = IF x \in S THEN Append(q, x) ELSE q
    <3>1. k + 1 \in 1 .. n /\ (k + 1) - 1 = k
      BY <1>2
    <3> QED
      BY <1>1, <3>1 DEF KeptSoFar
  <2>3. \A i \in 1 .. k : s[i] < x
    BY <1>2 DEF Increasing
  <2>4. \A y \in ToSet(q) : y < x
    BY <2>1, <2>3
  <2>5. \A y \in ToSet(q) \cup {x} : \E i \in 1 .. (k + 1) : y = s[i]
    BY <2>1
  <2> HIDE DEF x, q
  <2>6. CASE x \in S
    <3>1. g[k + 1] = Append(q, x)
      BY <2>2, <2>6
    <3>2. ToSet(Append(q, x)) = ToSet(q) \cup {x}
      BY <2>1, AppendSet
    <3>3. Increasing(Append(q, x))
      BY <2>1, <2>4, AppendIncreasing
    <3> QED
      BY <2>5, <3>1, <3>2, <3>3
  <2>7. CASE x \notin S
    BY <2>1, <2>2, <2>5, <2>7
  <2> QED
    BY <2>6, <2>7
<1>5. n \in Right
  <2> HIDE DEF Right
  <2> QED
    BY <1>2, <1>3, <1>4, NatSetInduction
<1> QED
  BY <1>1, <1>2, <1>5

-----------------------------------------------------------------------------
(* Chosen.                                                                 *)

\* Whether pick takes the item at k: c positions are chosen by then, and l is
\* the longest of the batch.
TakesNext(target, n, maxItems, maxTokens, c, l) ==
    /\ Len(c) + 1 < maxItems
    /\ Similar(target, n)
    /\ (Len(c) + 2) * Larger(l, n) <= maxTokens

\* What Chosen has chosen after each position, c, and the longest by then, l.
ChosenSoFar(target, lens, maxItems, maxTokens, c, l) ==
    /\ c \in [0 .. Len(lens) -> Seq(1 .. Len(lens))]
    /\ l \in [0 .. Len(lens) -> Nat]
    /\ c[0] = <<>> /\ l[0] = target
    /\ \A k \in 1 .. Len(lens) :
        IF TakesNext(target, lens[k], maxItems, maxTokens, c[k - 1], l[k - 1])
        THEN c[k] = Append(c[k - 1], k) /\ l[k] = Larger(l[k - 1], lens[k])
        ELSE c[k] = c[k - 1] /\ l[k] = l[k - 1]

\* Chosen goes through the buffer one position after the other.
LEMMA ChosenSteps ==
    ASSUME NEW lens \in Seq(Nat), NEW target \in Nat, NEW maxItems, NEW maxTokens
    PROVE  \E c, l : /\ ChosenSoFar(target, lens, maxItems, maxTokens, c, l)
                     /\ Chosen(target, lens, maxItems, maxTokens) = c[Len(lens)]
<1> DEFINE n == Len(lens)
           A == [chosen : Seq(1 .. n), longest : Nat]
           base == [chosen |-> <<>>, longest |-> target]
           pos == [i \in DOMAIN lens |-> i]
           Consider(acc, i) ==
               IF /\ Len(acc.chosen) + 1 < maxItems
                  /\ Similar(target, lens[i])
                  /\ (Len(acc.chosen) + 2) * Larger(acc.longest, lens[i]) <= maxTokens
               THEN [chosen |-> Append(acc.chosen, i), longest |-> Larger(acc.longest, lens[i])]
               ELSE acc
           step == [p \in (1 .. n) \X A |-> Consider(p[2], p[1])]
           Body(f) == [t \in SUBSET DOMAIN pos |-> IF t = {} THEN base
                        ELSE Consider(f[t \ {Max(t)}], pos[Max(t)])]
           iter == CHOOSE f : f = Body(f)
<1>1. /\ n \in Nat /\ DOMAIN lens = 1 .. n /\ DOMAIN pos = 1 .. n /\ base \in A
      /\ \A i \in 1 .. n : lens[i] \in Nat /\ pos[i] = i
  OBVIOUS
<1>2. ASSUME NEW acc \in A, NEW i \in 1 .. n PROVE Consider(acc, i) \in A
  <2>1. Append(acc.chosen, i) \in Seq(1 .. n) /\ Larger(acc.longest, lens[i]) \in Nat
    BY <1>1 DEF Larger
  <2> QED
    BY <2>1
<1>3. step \in [(1 .. n) \X A -> A]
  <2> HIDE DEF Consider, A
  <2> QED
    BY <1>2
<1>4. PICK f : FoldsTo(f, step, base, n, A)
  <2>1. n \in Nat /\ base \in A
    BY <1>1
  <2> HIDE DEF n, A, step, base
  <2> QED
    BY <1>3, <2>1, FoldExists
<1>5. f = Body(f)
  <2> SUFFICES ASSUME NEW t \in SUBSET (1 .. n) PROVE f[t] = Body(f)[t]
    <3> HIDE DEF n, A, step, base, Consider, pos
    <3> QED
      BY <1>1, <1>4 DEF FoldsTo
  <2>1. f[t] = IF t = {} THEN base ELSE step[<<Max(t), f[t \ {Max(t)}]>>]
    <3> HIDE DEF n, A, step, base
    <3> QED
      BY <1>4 DEF FoldsTo
  <2>2. Body(f)[t] = IF t = {} THEN base ELSE Consider(f[t \ {Max(t)}], pos[Max(t)])
    <3> HIDE DEF n, A, step, base, Consider, pos
    <3> QED
      BY <1>1
  <2>3. CASE t = {}
    BY <2>1, <2>2, <2>3
  <2>4. CASE t # {}
    <3> DEFINE m == Max(t)
    <3>1. m \in 1 .. n
      BY <1>1, <2>4, LastOf
    <3> HIDE DEF m
    <3>2. f[t \ {m}] \in A
      <4> HIDE DEF n, A, step, base
      <4> QED
        BY <1>4 DEF FoldsTo
    <3>3. step[<<m, f[t \ {m}]>>] = Consider(f[t \ {m}], m) /\ pos[m] = m
      <4> HIDE DEF Consider, A
      <4> QED
        BY <1>1, <3>1, <3>2
    <3> HIDE DEF step, Consider, pos, Body
    <3> QED
      BY <2>1, <2>2, <2>4, <3>3 DEF m
  <2> QED
    BY <2>3, <2>4
<1>6. iter = Body(iter)
  <2> HIDE DEF Body
  <2> QED
    BY <1>5
<1>7. Chosen(target, lens, maxItems, maxTokens) = iter[DOMAIN pos].chosen
  BY DEF Chosen, FoldLeftDomain, FoldLeft, MapThenFoldSet
<1> HIDE DEF iter
<1>8. iter[1 .. 0] = base
  <2>1. 1 .. 0 = {} /\ {} \in SUBSET DOMAIN pos
    OBVIOUS
  <2> HIDE DEF Consider, base, pos
  <2>2. iter[{}] = base
    BY <1>6, <2>1
  <2> QED
    BY <2>1, <2>2
<1>9. ASSUME NEW k \in 1 .. n PROVE iter[1 .. k] = Consider(iter[1 .. (k - 1)], k)
  <2> DEFINE t == 1 .. k
  <2>1. t \in SUBSET DOMAIN pos /\ t # {}
    <3> HIDE DEF n
    <3>1. n \in Nat /\ k \in 1 .. n /\ DOMAIN pos = 1 .. n
      BY <1>1
    <3>2. t \subseteq 1 .. n /\ k \in t
      BY <3>1
    <3> QED
      BY <3>1, <3>2
  <2>2. Max(t) = k /\ t \ {k} = 1 .. (k - 1) /\ pos[k] = k
    BY <1>1, FirstPositions
  <2> HIDE DEF t, Consider, base, pos
  <2>3. iter[t] = Consider(iter[t \ {Max(t)}], pos[Max(t)])
    BY <1>6, <2>1
  <2>4. iter[t] = Consider(iter[1 .. (k - 1)], k)
    BY <2>2, <2>3
  <2> QED
    BY <2>4 DEF t
<1>10. \A k \in 0 .. n : iter[1 .. k] \in A
  <2> DEFINE Typed == {k \in Nat : k <= n => iter[1 .. k] \in A}
  <2>1. 0 \in Typed
    BY <1>1, <1>8
  <2>2. ASSUME NEW k \in Nat, k \in Typed PROVE k + 1 \in Typed
    <3> HIDE DEF A, Consider
    <3> SUFFICES ASSUME k + 1 <= n PROVE iter[1 .. (k + 1)] \in A
      OBVIOUS
    <3>1. k + 1 \in 1 .. n /\ (k + 1) - 1 = k /\ iter[1 .. k] \in A
      BY <1>1, <2>2
    <3>2. iter[1 .. (k + 1)] = Consider(iter[1 .. k], k + 1)
      BY <1>9, <3>1
    <3> QED
      BY <1>2, <3>1, <3>2
  <2>3. \A k \in Nat : k \in Typed
    <3> HIDE DEF Typed
    <3> QED
      BY <2>1, <2>2, NatSetInduction
  <2> HIDE DEF A
  <2> QED
    BY <1>1, <2>3
<1> DEFINE c == [k \in 0 .. n |-> iter[1 .. k].chosen]
           l == [k \in 0 .. n |-> iter[1 .. k].longest]
<1>11. /\ c \in [0 .. n -> Seq(1 .. n)] /\ l \in [0 .. n -> Nat]
       /\ c[0] = <<>> /\ l[0] = target /\ c[n] = iter[1 .. n].chosen
  BY <1>1, <1>8, <1>10
<1>12. ASSUME NEW k \in 1 .. n
       PROVE  IF TakesNext(target, lens[k], maxItems, maxTokens, c[k - 1], l[k - 1])
              THEN c[k] = Append(c[k - 1], k) /\ l[k] = Larger(l[k - 1], lens[k])
              ELSE c[k] = c[k - 1] /\ l[k] = l[k - 1]
  <2>1. k \in 0 .. n /\ k - 1 \in 0 .. n
    BY <1>1
  <2>2. /\ c[k - 1] = iter[1 .. (k - 1)].chosen /\ l[k - 1] = iter[1 .. (k - 1)].longest
        /\ c[k] = iter[1 .. k].chosen /\ l[k] = iter[1 .. k].longest
    BY <2>1
  <2>3. iter[1 .. k] = Consider(iter[1 .. (k - 1)], k)
    BY <1>9
  <2> HIDE DEF c, l, n, A
  <2> QED
    BY <2>2, <2>3 DEF TakesNext
<1>13. ChosenSoFar(target, lens, maxItems, maxTokens, c, l)
  <2> HIDE DEF c, l, A, Consider, base, pos, Body, step
  <2> QED
    BY <1>11, <1>12 DEF ChosenSoFar
<1> HIDE DEF c, l
<1> QED
  BY <1>1, <1>7, <1>11, <1>13

\* After k positions: those chosen are in order and counted, the longest is
\* that of the oldest and of those chosen, and nothing chosen is given up.
ChosenRight(target, lens, c, l, k) ==
    /\ Increasing(c[k]) /\ ToSet(c[k]) \subseteq 1 .. k
    /\ IsFiniteSet(ToSet(c[k])) /\ Cardinality(ToSet(c[k])) = Len(c[k])
    /\ \A j \in 0 .. k : ToSet(c[j]) = ToSet(c[k]) \cap (1 .. j) /\ Len(c[j]) <= Len(c[k]) /\ l[j] <= l[k]
    /\ target <= l[k] /\ \A i \in ToSet(c[k]) : lens[i] <= l[k]
    /\ l[k] = target \/ \E i \in ToSet(c[k]) : l[k] = lens[i]

\* Each step of Chosen keeps that.
LEMMA ChosenInduction ==
    ASSUME NEW lens \in Seq(Nat), NEW target \in Nat, NEW maxItems, NEW maxTokens, NEW c, NEW l,
           ChosenSoFar(target, lens, maxItems, maxTokens, c, l)
    PROVE  \A k \in 0 .. Len(lens) : ChosenRight(target, lens, c, l, k)
<1> DEFINE n == Len(lens)
           Right == {k \in Nat : k <= n => ChosenRight(target, lens, c, l, k)}
<1>1. /\ n \in Nat /\ DOMAIN lens = 1 .. n /\ \A i \in 1 .. n : lens[i] \in Nat
      /\ \A k \in 0 .. n : c[k] \in Seq(1 .. n) /\ l[k] \in Nat
      /\ c[0] = <<>> /\ l[0] = target
  <2>1. n \in Nat /\ DOMAIN lens = 1 .. n /\ \A i \in 1 .. n : lens[i] \in Nat
    OBVIOUS
  <2>2. c \in [0 .. n -> Seq(1 .. n)] /\ l \in [0 .. n -> Nat] /\ c[0] = <<>> /\ l[0] = target
    BY DEF ChosenSoFar
  <2> HIDE DEF n
  <2> QED
    BY <2>1, <2>2
<1>2. 0 \in Right
  <2>1. ToSet(c[0]) = {} /\ Len(c[0]) = 0 /\ Increasing(c[0])
    BY <1>1 DEF ToSet, Increasing
  <2>2. IsFiniteSet({}) /\ Cardinality({}) = 0
    BY FS_EmptySet
  <2>3. \A j \in 0 .. 0 : j = 0
    OBVIOUS
  <2>4. 0 \in 0 .. n /\ l[0] \in Nat /\ l[0] = target
    BY <1>1
  <2>5. \A j \in 0 .. 0 :
           ToSet(c[j]) = ToSet(c[0]) \cap (1 .. j) /\ Len(c[j]) <= Len(c[0]) /\ l[j] <= l[0]
    BY <2>1, <2>3, <2>4
  <2>6. ChosenRight(target, lens, c, l, 0)
    BY <2>1, <2>2, <2>4, <2>5 DEF ChosenRight
  <2> QED
    BY <2>6
<1>3. ASSUME NEW k \in Nat, k \in Right PROVE k + 1 \in Right
  <2> SUFFICES ASSUME k + 1 <= n PROVE ChosenRight(target, lens, c, l, k + 1)
    OBVIOUS
  <2>1. /\ k \in 0 .. n /\ k + 1 \in 1 .. n /\ k + 1 \in 0 .. n /\ (k + 1) - 1 = k
        /\ ChosenRight(target, lens, c, l, k)
    <3>1. k <= n /\ k \in 0 .. n /\ k + 1 \in 1 .. n /\ k + 1 \in 0 .. n /\ (k + 1) - 1 = k
      BY <1>1
    <3> QED
      BY <1>3, <3>1
  <2> DEFINE x == k + 1
  <2>2. /\ c[k] \in Seq(1 .. n) /\ l[k] \in Nat /\ c[x] \in Seq(1 .. n) /\ l[x] \in Nat
        /\ lens[x] \in Nat /\ Len(c[k]) \in Nat
    BY <1>1, <2>1, SMTT(30)
  <2>3. \/ c[x] = Append(c[k], x) /\ l[x] = Larger(l[k], lens[x])
        \/ c[x] = c[k] /\ l[x] = l[k]
    BY <2>1 DEF ChosenSoFar
  <2>4. \A j \in 0 .. x : j = x \/ j \in 0 .. k
    OBVIOUS
  <2>5. x \in Nat /\ x \notin 1 .. k /\ 1 .. k \subseteq 1 .. x /\ \A j \in 0 .. k : x \notin 1 .. j
    OBVIOUS
  <2>6. CASE c[x] = Append(c[k], x) /\ l[x] = Larger(l[k], lens[x])
    <3> DEFINE K == ToSet(c[k])
    <3>1. ToSet(c[x]) = K \cup {x} /\ Len(c[x]) = Len(c[k]) + 1
      BY <2>1, <2>2, <2>6, AppendSet
    <3>2. K \subseteq 1 .. k /\ x \notin K
      BY <2>1, <2>5 DEF ChosenRight
    <3>3. Increasing(c[x])
      <4>1. c[k] \in Seq(Nat)
        BY <2>2
      <4>2. \A y \in K : y < x
        BY <3>2
      <4> QED
        BY <2>1, <2>5, <2>6, <4>1, <4>2, AppendIncreasing DEF ChosenRight
    <3>4. IsFiniteSet(ToSet(c[x])) /\ Cardinality(ToSet(c[x])) = Len(c[x])
      <4>1. IsFiniteSet(K) /\ Cardinality(K) = Len(c[k])
        BY <2>1 DEF ChosenRight
      <4> HIDE DEF K, x
      <4>2. IsFiniteSet(K \cup {x}) /\ Cardinality(K \cup {x}) = Cardinality(K) + 1
        BY <3>2, <4>1, FS_AddElement
      <4> QED
        BY <3>1, <4>1, <4>2
    <3>5. l[k] <= l[x] /\ lens[x] <= l[x] /\ (l[x] = l[k] \/ l[x] = lens[x])
      BY <2>2, <2>6 DEF Larger
    <3>6. ASSUME NEW j \in 0 .. x
          PROVE  ToSet(c[j]) = ToSet(c[x]) \cap (1 .. j) /\ Len(c[j]) <= Len(c[x]) /\ l[j] <= l[x]
      <4>1. CASE j = x
        <5>1. K \cup {x} \subseteq 1 .. x
          BY <2>5, <3>2
        <5> HIDE DEF K, x
        <5>2. Len(c[x]) <= Len(c[x]) /\ l[x] <= l[x]
          BY <2>2
        <5> QED
          BY <3>1, <4>1, <5>1, <5>2
      <4>2. CASE j \in 0 .. k
        <5>1. ToSet(c[j]) = K \cap (1 .. j) /\ Len(c[j]) <= Len(c[k]) /\ l[j] <= l[k]
          BY <2>1, <4>2 DEF ChosenRight
        <5>2. x \notin 1 .. j
          BY <2>5, <4>2
        <5>3. l[j] \in Nat /\ Len(c[j]) \in Nat
          <6>1. j \in 0 .. n
            BY <2>1, <4>2
          <6> QED
            BY <1>1, <6>1
        <5>4. Len(c[j]) <= Len(c[x]) /\ l[j] <= l[x]
          <6> HIDE DEF K, x
          <6>1. /\ Len(c[j]) \in Nat /\ Len(c[k]) \in Nat /\ Len(c[j]) <= Len(c[k])
                /\ Len(c[x]) = Len(c[k]) + 1
            BY <2>2, <3>1, <5>1, <5>3
          <6>2. l[j] \in Nat /\ l[k] \in Nat /\ l[x] \in Nat /\ l[j] <= l[k] /\ l[k] <= l[x]
            BY <2>2, <3>5, <5>1, <5>3
          <6>3. Len(c[j]) <= Len(c[x])
            BY <6>1
          <6>4. l[j] <= l[x]
            BY <6>2
          <6> QED
            BY <6>3, <6>4
        <5>5. (K \cup {x}) \cap (1 .. j) = K \cap (1 .. j)
          BY <5>2
        <5> HIDE DEF K, x
        <5> QED
          BY <3>1, <5>1, <5>4, <5>5
      <4> QED
        BY <2>4, <4>1, <4>2
    <3>7. target <= l[x] /\ \A i \in ToSet(c[x]) : lens[i] <= l[x]
      <4>1. target <= l[k] /\ \A i \in K : lens[i] <= l[k]
        BY <2>1 DEF ChosenRight
      <4>2. \A i \in K : lens[i] \in Nat
        <5>1. K \subseteq 1 .. n
          BY <2>1, <3>2
        <5> QED
          BY <1>1, <5>1
      <4> HIDE DEF K, x
      <4> QED
        BY <2>2, <3>1, <3>5, <4>1, <4>2, SMTT(30)
    <3>8. l[x] = target \/ \E i \in ToSet(c[x]) : l[x] = lens[i]
      BY <2>1, <3>1, <3>5 DEF ChosenRight
    <3>9. ToSet(c[x]) \subseteq 1 .. x
      BY <2>5, <3>1, <3>2
    <3> HIDE DEF x, K
    <3>10. ChosenRight(target, lens, c, l, x)
      BY <3>3, <3>4, <3>6, <3>7, <3>8, <3>9 DEF ChosenRight
    <3> QED
      BY <3>10 DEF x
  <2>7. CASE c[x] = c[k] /\ l[x] = l[k]
    <3>1. ASSUME NEW j \in 0 .. x
          PROVE  ToSet(c[j]) = ToSet(c[x]) \cap (1 .. j) /\ Len(c[j]) <= Len(c[x]) /\ l[j] <= l[x]
      <4>1. CASE j = x
        <5>1. ToSet(c[x]) \subseteq 1 .. x
          BY <2>1, <2>5, <2>7 DEF ChosenRight
        <5> QED
          BY <2>2, <4>1, <5>1
      <4>2. CASE j \in 0 .. k
        BY <2>1, <2>7, <4>2 DEF ChosenRight
      <4> QED
        BY <2>4, <4>1, <4>2
    <3>2. ToSet(c[x]) \subseteq 1 .. x
      BY <2>1, <2>5, <2>7 DEF ChosenRight
    <3> HIDE DEF x
    <3>3. ChosenRight(target, lens, c, l, x)
      BY <2>1, <2>7, <3>1, <3>2 DEF ChosenRight
    <3> QED
      BY <3>3 DEF x
  <2> QED
    BY <2>3, <2>6, <2>7
<1>4. \A k \in Nat : k \in Right
  <2> HIDE DEF Right
  <2> QED
    BY <1>2, <1>3, NatSetInduction
<1> QED
  BY <1>1, <1>4

\* A product grows with each of its factors.
LEMMA TimesMonotone ==
    ASSUME NEW a \in Nat, NEW b \in Nat, NEW x \in Nat, NEW y \in Nat, a <= b, x <= y
    PROVE  a * x <= b * y /\ a * x \in Nat /\ b * y \in Nat
<1>1. PICK d \in Nat : b = a + d
  <2>1. b - a \in Nat /\ b = a + (b - a)
    OBVIOUS
  <2> QED
    BY <2>1
<1>2. PICK e \in Nat : y = x + e
  <2>1. y - x \in Nat /\ y = x + (y - x)
    OBVIOUS
  <2> QED
    BY <2>1
<1>3. b * y = a * x + a * e + d * x + d * e
  BY <1>1, <1>2
<1>4. a * x \in Nat /\ a * e \in Nat /\ d * x \in Nat /\ d * e \in Nat
  OBVIOUS
<1> QED
  BY <1>3, <1>4

\* The chosen positions before k, and whether k joins the oldest item and them:
\* it is similar, and there is room for it in items and in padded tokens.
Before(q, k) == ToSet(q) \cap (1 .. (k - 1))

Joins(target, lens, maxItems, maxTokens, q, k) ==
    LET size == Cardinality(Before(q, k)) + 2 IN
    /\ size <= maxItems
    /\ Similar(target, lens[k])
    /\ size * target <= maxTokens
    /\ \A i \in Before(q, k) \cup {k} : size * lens[i] <= maxTokens

\* What Chosen gives: positions in order, exactly those that join.
LEMMA ChosenFacts ==
    ASSUME NEW lens \in Seq(Nat), NEW target \in Nat, NEW maxItems \in Nat, NEW maxTokens \in Nat,
           NEW q, q = Chosen(target, lens, maxItems, maxTokens)
    PROVE  /\ q \in Seq(1 .. Len(lens)) /\ Increasing(q)
           /\ IsFiniteSet(ToSet(q)) /\ Cardinality(ToSet(q)) = Len(q)
           /\ \A k \in 1 .. Len(lens) :
                k \in ToSet(q) <=> Joins(target, lens, maxItems, maxTokens, q, k)
<1> DEFINE n == Len(lens)
<1>1. PICK c, l : ChosenSoFar(target, lens, maxItems, maxTokens, c, l) /\ q = c[n]
  BY ChosenSteps
<1>2. \A k \in 0 .. n : ChosenRight(target, lens, c, l, k)
  BY <1>1, ChosenInduction
<1>3. n \in Nat /\ n \in 0 .. n /\ \A i \in 1 .. n : lens[i] \in Nat
  OBVIOUS
<1>4. q \in Seq(1 .. n)
  BY <1>1, <1>3 DEF ChosenSoFar
<1>5. ChosenRight(target, lens, c, l, n)
  BY <1>2, <1>3
<1>6. Increasing(q) /\ IsFiniteSet(ToSet(q)) /\ Cardinality(ToSet(q)) = Len(q)
  BY <1>1, <1>5 DEF ChosenRight
<1>7. ASSUME NEW k \in 1 .. n
      PROVE  k \in ToSet(q) <=> Joins(target, lens, maxItems, maxTokens, q, k)
  <2> DEFINE p == k - 1
             B == Before(q, k)
             size == Cardinality(B) + 2
             len == Larger(l[p], lens[k])
  <2>1. p \in 0 .. n /\ k \in 0 .. n /\ p \in Nat
    BY <1>3
  <2>2. ToSet(c[p]) = B /\ ToSet(c[k]) = ToSet(q) \cap (1 .. k)
    BY <1>1, <1>5, <2>1 DEF ChosenRight, Before
  <2>3. /\ c[p] \in Seq(1 .. n) /\ l[p] \in Nat /\ lens[k] \in Nat
        /\ Cardinality(B) = Len(c[p]) /\ Cardinality(B) \in Nat
    <3>1. c[p] \in Seq(1 .. n) /\ l[p] \in Nat /\ lens[k] \in Nat
      BY <1>1, <1>3, <2>1 DEF ChosenSoFar
    <3>2. Cardinality(B) = Len(c[p])
      BY <1>2, <2>1, <2>2 DEF ChosenRight
    <3> HIDE DEF B, p
    <3> QED
      BY <3>1, <3>2
  <2>4. /\ target <= l[p] /\ (\A i \in B : lens[i] <= l[p])
        /\ (l[p] = target \/ \E i \in B : l[p] = lens[i])
    BY <1>2, <2>1, <2>2 DEF ChosenRight
  <2>5. k \in ToSet(q) <=> k \in ToSet(c[k])
    BY <2>2
  <2>6. k \in ToSet(c[k]) <=> TakesNext(target, lens[k], maxItems, maxTokens, c[p], l[p])
    <3>1. IF TakesNext(target, lens[k], maxItems, maxTokens, c[p], l[p])
          THEN c[k] = Append(c[p], k) ELSE c[k] = c[p]
      BY <1>1 DEF ChosenSoFar
    <3>2. k \notin B
      BY DEF Before
    <3>3. ToSet(Append(c[p], k)) = B \cup {k}
      BY <2>2, <2>3, AppendSet
    <3> HIDE DEF B, p
    <3> QED
      BY <2>2, <3>1, <3>2, <3>3
  <2>7. B \subseteq 1 .. n
    BY <1>3, <2>1 DEF Before
  <2> DEFINE Room == size * target <= maxTokens /\ \A i \in B \cup {k} : size * lens[i] <= maxTokens
  <2>8. size * len <= maxTokens <=> Room
    <3>1. /\ len \in Nat /\ l[p] <= len /\ lens[k] <= len /\ size \in Nat
          /\ (len = l[p] \/ len = lens[k])
      BY <2>3, SMTT(30) DEF Larger
    <3> HIDE DEF size, len, B, p
    <3>2. target <= len /\ \A i \in B \cup {k} : lens[i] \in Nat /\ lens[i] <= len
      <4>1. target <= len
        BY <2>3, <2>4, <3>1
      <4>2. ASSUME NEW i \in B PROVE lens[i] \in Nat /\ lens[i] <= len
        <5>1. lens[i] \in Nat
          BY <1>3, <2>7
        <5>2. lens[i] <= l[p]
          BY <2>4
        <5> QED
          BY <2>3, <3>1, <5>1, <5>2
      <4> QED
        BY <2>3, <3>1, <4>1, <4>2
    <3>3. len = target \/ \E i \in B \cup {k} : len = lens[i]
      BY <2>4, <3>1
    <3>4. size * len \in Nat /\ size * target <= size * len /\ size * target \in Nat
      BY <3>1, <3>2, TimesMonotone
    <3>5. \A i \in B \cup {k} : size * lens[i] <= size * len /\ size * lens[i] \in Nat
      BY <3>1, <3>2, TimesMonotone, SMTT(30)
    <3>6. ASSUME size * len <= maxTokens PROVE Room
      BY <3>4, <3>5, <3>6
    <3>7. ASSUME Room PROVE size * len <= maxTokens
      BY <3>3, <3>7
    <3> QED
      BY <3>6, <3>7
  <2>9. Len(c[p]) + 1 < maxItems <=> size <= maxItems
    <3>1. Len(c[p]) \in Nat /\ size = Len(c[p]) + 2
      BY <2>3
    <3> HIDE DEF size, p
    <3> QED
      BY <3>1
  <2>10. TakesNext(target, lens[k], maxItems, maxTokens, c[p], l[p])
           <=> size <= maxItems /\ Similar(target, lens[k]) /\ size * len <= maxTokens
    <3>1. Len(c[p]) + 2 = size
      BY <2>3
    <3> HIDE DEF size, p
    <3> QED
      BY <2>9, <3>1 DEF TakesNext
  <2>11. Joins(target, lens, maxItems, maxTokens, q, k)
           <=> size <= maxItems /\ Similar(target, lens[k]) /\ Room
    BY DEF Joins
  <2> HIDE DEF size, len, B, p, Room
  <2> QED
    BY <2>5, <2>6, <2>8, <2>10, <2>11
<1> QED
  BY <1>4, <1>6, <1>7

\* Of two items of one length the one that has waited longer is not left
\* behind: if the later joins, so does it.
LEMMA ChosenInOrder ==
    ASSUME NEW lens \in Seq(Nat), NEW target \in Nat, NEW maxItems \in Nat, NEW maxTokens \in Nat,
           NEW q, q = Chosen(target, lens, maxItems, maxTokens),
           NEW a \in 1 .. Len(lens), NEW b \in 1 .. Len(lens),
           a < b, lens[a] = lens[b], b \in ToSet(q)
    PROVE  a \in ToSet(q)
<1> DEFINE Ba == Before(q, a)
           Bb == Before(q, b)
           sa == Cardinality(Ba) + 2
           sb == Cardinality(Bb) + 2
<1>1. /\ IsFiniteSet(ToSet(q)) /\ Joins(target, lens, maxItems, maxTokens, q, b)
      /\ a \in ToSet(q) <=> Joins(target, lens, maxItems, maxTokens, q, a)
  BY ChosenFacts
<1>2. Ba \subseteq Bb /\ Bb \subseteq ToSet(q) /\ Ba \subseteq 1 .. Len(lens)
  BY DEF Before
<1>3. /\ sb <= maxItems /\ Similar(target, lens[a]) /\ sb * target <= maxTokens
      /\ \A i \in Bb \cup {b} : sb * lens[i] <= maxTokens
  BY <1>1 DEF Joins
<1>4. ASSUME sa <= maxItems, sa * target <= maxTokens,
             \A i \in Ba \cup {a} : sa * lens[i] <= maxTokens
      PROVE  Joins(target, lens, maxItems, maxTokens, q, a)
  BY <1>3, <1>4 DEF Joins
<1>5. sa \in Nat /\ sb \in Nat /\ sa <= sb
  <2> HIDE DEF Ba, Bb
  <2>1. IsFiniteSet(Bb) /\ IsFiniteSet(Ba) /\ Cardinality(Ba) <= Cardinality(Bb)
    BY <1>1, <1>2, FS_Subset
  <2>2. Cardinality(Ba) \in Nat /\ Cardinality(Bb) \in Nat
    BY <2>1, FS_CardinalityType
  <2> QED
    BY <2>1, <2>2, SMTT(30)
<1> HIDE DEF sa, sb, Ba, Bb
<1>6. \A x \in Nat : sb * x <= maxTokens => sa * x <= maxTokens
  <2> SUFFICES ASSUME NEW x \in Nat, sb * x <= maxTokens PROVE sa * x <= maxTokens
    OBVIOUS
  <2>1. sa * x <= sb * x /\ sa * x \in Nat /\ sb * x \in Nat
    BY <1>5, TimesMonotone
  <2> QED
    BY <2>1
<1>7. \A i \in Ba \cup {a} : lens[i] \in Nat /\ sb * lens[i] <= maxTokens
  BY <1>2, <1>3
<1>8. sa <= maxItems
  BY <1>3, <1>5
<1>9. sa * target <= maxTokens /\ \A i \in Ba \cup {a} : sa * lens[i] <= maxTokens
  BY <1>3, <1>6, <1>7
<1>10. Joins(target, lens, maxItems, maxTokens, q, a)
  BY <1>4, <1>8, <1>9
<1> QED
  BY <1>1, <1>10

\* The elements of buf at the positions in q.
At(buf, q) == [j \in DOMAIN q |-> buf[q[j]]]

\* They are elements of buf, as many as q has and in the order of q.
LEMMA TakenAt ==
    ASSUME NEW X, NEW I, NEW q \in Seq(I), NEW buf, \A i \in I : buf[i] \in X
    PROVE  /\ At(buf, q) \in Seq(X) /\ Len(At(buf, q)) = Len(q)
           /\ \A j \in 1 .. Len(q) : At(buf, q)[j] = buf[q[j]] /\ q[j] \in I
           /\ \A x : x \in ToSet(At(buf, q)) <=> \E i \in ToSet(q) : x = buf[i]
<1>1. DOMAIN q = 1 .. Len(q) /\ Len(q) \in Nat /\ \A j \in 1 .. Len(q) : q[j] \in I
  OBVIOUS
<1> DEFINE m == Len(q)
           t == [j \in 1 .. m |-> buf[q[j]]]
<1>2. At(buf, q) = t
  BY <1>1 DEF At
<1> HIDE DEF m
<1>3. t \in [1 .. m -> X] /\ m \in Nat
  BY <1>1 DEF m
<1>4. t \in Seq(X) /\ Len(t) = m /\ DOMAIN t = 1 .. m
  BY <1>3
<1>5. \A j \in 1 .. m : t[j] = buf[q[j]] /\ q[j] \in I
  BY <1>1 DEF m
<1> HIDE DEF t
<1>6. \A x : x \in ToSet(t) <=> \E i \in ToSet(q) : x = buf[i]
  BY <1>1, <1>4, <1>5 DEF ToSet, m
<1> QED
  BY <1>2, <1>4, <1>5, <1>6 DEF m

\* The lengths of what is in buf, and its positions.
LengthsOf(buf, lenOf) == [i \in DOMAIN buf |-> lenOf[buf[i]]]
Positions(buf) == [i \in DOMAIN buf |-> i]

\* How picked comes from the lengths, the positions chosen and those left.
Picks(first, buf, lenOf, maxItems, maxTokens, lens, q, r, picked) ==
    /\ lens = LengthsOf(buf, lenOf)
    /\ q = Chosen(lenOf[first], lens, maxItems, maxTokens)
    /\ r = Keep(Positions(buf), DOMAIN buf \ ToSet(q))
    /\ picked = PickBatch(first, buf, lenOf, maxItems, maxTokens)

\* The batch is first and the items of buf at the positions q, the rest those at
\* the other positions r, both in the order of buf.
Shape(X, first, buf, lens, q, r, picked) ==
    /\ lens \in Seq(Nat) /\ Len(lens) = Len(buf)
    /\ q \in Seq(1 .. Len(buf)) /\ Increasing(q)
    /\ r \in Seq(1 .. Len(buf)) /\ Increasing(r) /\ ToSet(r) = (1 .. Len(buf)) \ ToSet(q)
    /\ picked.batch = <<first>> \o At(buf, q)
    /\ picked.rest = At(buf, r)
    /\ picked.batch \in Seq(X) /\ picked.rest \in Seq(X)

\* What pick gives: the batch is the oldest item and the chosen ones, the rest
\* all the others, each in the order of their positions in the buffer.
LEMMA PickShape ==
    ASSUME NEW X, NEW first \in X, NEW buf \in Seq(X), NEW lenOf, \A x \in X : lenOf[x] \in Nat,
           NEW maxItems \in Nat, NEW maxTokens \in Nat,
           NEW lens, NEW q, NEW r, NEW picked,
           Picks(first, buf, lenOf, maxItems, maxTokens, lens, q, r, picked)
    PROVE  Shape(X, first, buf, lens, q, r, picked)
<1> DEFINE n == Len(buf)
           pos == [i \in DOMAIN buf |-> i]
<1>0. /\ lens = LengthsOf(buf, lenOf)
      /\ q = Chosen(lenOf[first], lens, maxItems, maxTokens)
      /\ r = Keep(pos, DOMAIN buf \ ToSet(q))
      /\ picked = PickBatch(first, buf, lenOf, maxItems, maxTokens)
  BY DEF Picks, Positions
<1>1. n \in Nat /\ DOMAIN buf = 1 .. n /\ \A i \in 1 .. n : buf[i] \in X
  OBVIOUS
<1>2. lens = [i \in 1 .. n |-> lenOf[buf[i]]] /\ lens \in Seq(Nat) /\ Len(lens) = n
  BY <1>0, <1>1 DEF LengthsOf
<1>3. q \in Seq(1 .. n) /\ Increasing(q)
  BY <1>0, <1>2, ChosenFacts
<1>4. pos = [i \in 1 .. n |-> i] /\ pos \in Seq(1 .. n) /\ pos \in Seq(Nat) /\ ToSet(pos) = 1 .. n
  BY <1>1 DEF ToSet
<1>5. Increasing(pos)
  BY <1>4 DEF Increasing
<1>6. r \in Seq(1 .. n) /\ ToSet(r) = (1 .. n) \ ToSet(q)
  <2> HIDE DEF pos, n
  <2>1. r = Keep(pos, (1 .. n) \ ToSet(q))
    BY <1>0, <1>1
  <2>2. r \in Seq(1 .. n) /\ ToSet(r) = ToSet(pos) \cap ((1 .. n) \ ToSet(q))
    <3> DEFINE N == 1 .. n
               S == N \ ToSet(q)
    <3>1. pos \in Seq(N) /\ r = Keep(pos, S)
      BY <1>4, <2>1
    <3> HIDE DEF N, S
    <3>2. pos \in Seq(N)
      BY <3>1
    <3>3. Keep(pos, S) \in Seq(N) /\ ToSet(Keep(pos, S)) = ToSet(pos) \cap S
      BY <3>2, KeepSet
    <3> QED
      BY <3>1, <3>3 DEF N, S
  <2> QED
    BY <1>4, <2>2
<1>7. Increasing(r)
  <2> HIDE DEF pos
  <2> QED
    BY <1>0, <1>4, <1>5, KeepIncreasing, SMTT(30)
<1>8. picked.batch = <<first>> \o At(buf, q) /\ picked.rest = At(buf, r)
  BY <1>0 DEF PickBatch, At, LengthsOf
<1>9. At(buf, q) \in Seq(X) /\ At(buf, r) \in Seq(X)
  <2> DEFINE N == 1 .. n
  <2>1. q \in Seq(N) /\ r \in Seq(N) /\ \A i \in N : buf[i] \in X
    BY <1>1, <1>3, <1>6
  <2> HIDE DEF N
  <2> QED
    BY <2>1, TakenAt
<1>10. <<first>> \o At(buf, q) \in Seq(X)
  BY <1>9
<1> QED
  BY <1>2, <1>3, <1>6, <1>7, <1>8, <1>9, <1>10 DEF Shape
=============================================================================
