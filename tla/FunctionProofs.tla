--------------------------- MODULE FunctionProofs ---------------------------
(***************************************************************************)
(* What TLAPS proves of the pure functions, for every input: each is the   *)
(* definition that MCFunctions compares it with.                           *)
(***************************************************************************)
EXTENDS MCFunctions, FoldLemmas

-----------------------------------------------------------------------------
(* pick.                                                                   *)

\* An input of pick: items numbered in arrival order, each with its length.
PickInput(first, buf) ==
    /\ first \in {0} \X Nat
    /\ buf \in Seq(Nat \X Nat)
    /\ \A i \in 1 .. Len(buf) : buf[i][1] = i

\* What an item's place in the batch is worth: the items before it, and itself.
RoomFor(b, first, batch, maxItems, maxTokens) ==
    LET before == {c \in ToSet(batch) : c[1] < b[1]}
        size   == Cardinality(before) + 1
    IN /\ b[2] <= 2 * first[2] /\ first[2] <= 2 * b[2]
       /\ size <= maxItems
       /\ \A c \in before \cup {b} : size * c[2] <= maxTokens

\* The items chosen and left are all there are.
LEMMA ChosenAndLeft ==
    ASSUME NEW n \in Nat,
           NEW q \in Seq(1 .. n), Increasing(q),
           NEW r \in Seq(1 .. n), Increasing(r), ToSet(r) = (1 .. n) \ ToSet(q)
    PROVE  Len(q) + Len(r) = n
<1>1. ASSUME NEW s \in Seq(1 .. n), Increasing(s)
      PROVE  IsFiniteSet(ToSet(s)) /\ Cardinality(ToSet(s)) = Len(s) /\ Len(s) \in Nat
  <2>1. DOMAIN s = 1 .. Len(s) /\ Len(s) \in Nat /\ \A i \in 1 .. Len(s) : s[i] \in 1 .. n
    OBVIOUS
  <2>2. ASSUME NEW i \in 1 .. Len(s), NEW j \in 1 .. Len(s), s[i] = s[j] PROVE i = j
    <3>1. ~ (s[i] < s[j]) /\ ~ (s[j] < s[i])
      BY <2>1, <2>2
    <3>2. ~ (i < j) /\ ~ (j < i)
      BY <1>1, <2>1, <3>1 DEF Increasing
    <3> QED
      BY <2>1, <3>2
  <2> QED
    BY <2>1, <2>2, DistinctLength
<1>2. ToSet(q) \subseteq 1 .. n
  BY DEF ToSet
<1>3. ToSet(q) \cap ToSet(r) = {} /\ ToSet(q) \cup ToSet(r) = 1 .. n
  BY <1>2
<1>4. Cardinality(1 .. n) = Cardinality(ToSet(q)) + Cardinality(ToSet(r))
  BY <1>1, <1>3, DisjointUnion
<1>5. Cardinality(1 .. n) = n
  BY FS_Interval
<1> QED
  BY <1>1, <1>4, <1>5

\* One element in front of a sequence.
LEMMA InFront ==
    ASSUME NEW I, NEW x \in I, NEW t \in Seq(I), NEW s, s = <<x>> \o t
    PROVE  /\ s \in Seq(I) /\ Len(s) = Len(t) + 1 /\ Head(s) = x /\ s[1] = x
           /\ \A k \in 2 .. Len(s) : s[k] = t[k - 1] /\ k - 1 \in 1 .. Len(t)
           /\ \A k \in 1 .. Len(t) : t[k] \in ToSet(s)
           /\ x \in ToSet(s)
<1>1. Len(t) \in Nat /\ DOMAIN t = 1 .. Len(t)
  OBVIOUS
<1>2. s \in Seq(I) /\ Len(s) = Len(t) + 1 /\ s[1] = x
  OBVIOUS
<1>3. DOMAIN s = 1 .. Len(s) /\ Head(s) = x
  BY <1>1, <1>2
<1>4. ASSUME NEW k \in 2 .. Len(s) PROVE s[k] = t[k - 1] /\ k - 1 \in 1 .. Len(t)
  <2>1. k \in 1 .. Len(s) /\ k # 1 /\ k - 1 \in 1 .. Len(t)
    BY <1>1, <1>2
  <2>2. Len(<<x>>) = 1
    OBVIOUS
  <2> QED
    BY <1>1, <1>2, <2>1, <2>2
<1>5. ASSUME NEW k \in 1 .. Len(t) PROVE t[k] \in ToSet(s)
  <2>1. k + 1 \in 2 .. Len(s) /\ (k + 1) - 1 = k /\ k + 1 \in DOMAIN s
    BY <1>1, <1>2, <1>3
  <2>2. s[k + 1] = t[k]
    BY <1>4, <2>1
  <2> QED
    BY <2>1, <2>2 DEF ToSet
<1>6. x \in ToSet(s)
  <2>1. 1 \in DOMAIN s
    BY <1>1, <1>2, <1>3
  <2> QED
    BY <1>2, <2>1 DEF ToSet
<1> QED
  BY <1>2, <1>3, <1>4, <1>5, <1>6

\* Positions of a buffer of n items, in order.
InOrder(q, n) == q \in Seq(1 .. n) /\ Increasing(q)

\* The oldest item, then those at the chosen positions.
Leads(first, buf, q, batch) == batch = <<first>> \o At(buf, q)

\* The batch starts with the oldest item, the chosen ones follow; numbers rise.
LEMMA BatchOrder ==
    ASSUME NEW first, NEW buf, PickInput(first, buf),
           NEW q, InOrder(q, Len(buf)), NEW batch, Leads(first, buf, q, batch)
    PROVE  /\ Len(batch) = Len(q) + 1 /\ Head(batch) = first
           /\ \A x : x \in ToSet(batch) <=> x = first \/ \E i \in ToSet(q) : x = buf[i]
           /\ \A i, j \in DOMAIN batch : i < j => batch[i][1] < batch[j][1]
<1> DEFINE N == 1 .. Len(buf)
           Pairs == Nat \X Nat
<1>1. first \in Pairs /\ first[1] = 0 /\ \A i \in N : buf[i] \in Pairs /\ buf[i][1] = i
  BY DEF PickInput
<1>2. q \in Seq(N) /\ Increasing(q) /\ N \subseteq Nat \ {0}
  BY DEF InOrder
<1> HIDE DEF N, Pairs
<1> DEFINE t == At(buf, q)
<1>3. /\ t \in Seq(Pairs) /\ Len(t) = Len(q)
      /\ \A j \in 1 .. Len(q) : t[j] = buf[q[j]] /\ q[j] \in N
      /\ \A x : x \in ToSet(t) <=> \E i \in ToSet(q) : x = buf[i]
  <2>1. \A i \in N : buf[i] \in Pairs
    BY <1>1
  <2>0. q \in Seq(N)
    BY <1>2
  <2>2. At(buf, q) \in Seq(Pairs) /\ Len(At(buf, q)) = Len(q)
    BY <2>0, <2>1, TakenAt
  <2>3. \A j \in 1 .. Len(q) : At(buf, q)[j] = buf[q[j]] /\ q[j] \in N
    BY <2>0, <2>1, TakenAt
  <2>4. \A x : x \in ToSet(At(buf, q)) <=> \E i \in ToSet(q) : x = buf[i]
    <3>1. DOMAIN q = 1 .. Len(q) /\ DOMAIN At(buf, q) = 1 .. Len(q)
      BY <2>0, <2>2
    <3> QED
      BY <2>3, <3>1 DEF ToSet
  <2> QED
    BY <2>2, <2>3, <2>4
<1>4. batch = <<first>> \o t
  BY DEF Leads
<1> HIDE DEF t
<1>5. /\ batch \in Seq(Pairs) /\ Len(batch) = Len(t) + 1 /\ Head(batch) = first /\ batch[1] = first
      /\ \A k \in 2 .. Len(batch) : batch[k] = t[k - 1] /\ k - 1 \in 1 .. Len(t)
      /\ \A x : x \in ToSet(batch) <=> x = first \/ x \in ToSet(t)
  <2>1. first \in Pairs /\ t \in Seq(Pairs)
    BY <1>1, <1>3
  <2>2. batch \in Seq(Pairs) /\ Len(batch) = Len(t) + 1 /\ Head(batch) = first /\ batch[1] = first
    BY <1>4, <2>1, InFront
  <2>3. \A k \in 2 .. Len(batch) : batch[k] = t[k - 1] /\ k - 1 \in 1 .. Len(t)
    BY <1>4, <2>1, InFront
  <2>4. ASSUME NEW e PROVE e \in ToSet(batch) <=> e = first \/ e \in ToSet(t)
    <3>1. ASSUME e \in ToSet(batch) PROVE e = first \/ e \in ToSet(t)
      <4>1. DOMAIN batch = 1 .. Len(batch) /\ DOMAIN t = 1 .. Len(t) /\ Len(batch) \in Nat
        BY <2>1, <2>2
      <4>2. PICK k \in 1 .. Len(batch) : e = batch[k]
        BY <3>1, <4>1 DEF ToSet
      <4>3. CASE k = 1
        BY <2>2, <4>2, <4>3
      <4>4. CASE k # 1
        <5>1. k \in 2 .. Len(batch)
          BY <4>1, <4>4
        <5>2. e = t[k - 1] /\ k - 1 \in DOMAIN t
          BY <2>3, <4>1, <4>2, <5>1
        <5> QED
          BY <5>2 DEF ToSet
      <4> QED
        BY <4>3, <4>4
    <3>2. \A k \in 1 .. Len(t) : t[k] \in ToSet(batch)
      BY <1>4, <2>1, InFront
    <3>3. first \in ToSet(batch)
      BY <1>4, <2>1, InFront
    <3>4. DOMAIN t = 1 .. Len(t)
      BY <2>1
    <3>5. e \in ToSet(t) => \E k \in 1 .. Len(t) : e = t[k]
      BY <3>4 DEF ToSet
    <3> QED
      BY <3>1, <3>2, <3>3, <3>5
  <2> QED
    BY <2>2, <2>3, <2>4
<1>6. DOMAIN batch = 1 .. Len(batch) /\ Len(batch) \in Nat /\ DOMAIN q = 1 .. Len(q) /\ Len(q) \in Nat
  BY <1>2, <1>5
<1>7. ASSUME NEW k \in 2 .. Len(batch)
      PROVE  k - 1 \in 1 .. Len(q) /\ batch[k][1] = q[k - 1] /\ q[k - 1] \in Nat \ {0}
  <2> DEFINE p == k - 1
  <2>1. p \in 1 .. Len(q) /\ batch[k] = t[p]
    BY <1>3, <1>5
  <2> HIDE DEF p
  <2>2. batch[k] = buf[q[p]] /\ q[p] \in N
    BY <1>3, <2>1
  <2>3. batch[k][1] = q[p] /\ q[p] \in Nat \ {0}
    BY <1>1, <1>2, <2>2
  <2> QED
    BY <2>1, <2>3 DEF p
<1>8. ASSUME NEW i \in 1 .. Len(batch), NEW j \in 1 .. Len(batch), i < j PROVE batch[i][1] < batch[j][1]
  <2>1. j \in 2 .. Len(batch) /\ (i = 1 \/ i \in 2 .. Len(batch))
    BY <1>6, <1>8
  <2>2. CASE i = 1
    <3>1. batch[i][1] = 0
      BY <1>1, <1>5, <2>2
    <3>2. batch[j][1] \in Nat \ {0}
      BY <1>7, <2>1
    <3> QED
      BY <3>1, <3>2
  <2>3. CASE i \in 2 .. Len(batch)
    <3>1. i - 1 \in DOMAIN q /\ j - 1 \in DOMAIN q /\ i - 1 < j - 1
      BY <1>6, <1>7, <1>8, <2>1, <2>3
    <3>2. q[i - 1] < q[j - 1]
      BY <1>2, <3>1 DEF Increasing
    <3> QED
      BY <1>7, <2>1, <2>3, <3>2
  <2> QED
    BY <2>1, <2>2, <2>3
<1> QED
  BY <1>3, <1>5, <1>6, <1>8

\* As many images as arguments, if no two are the same.
LEMMA ImageSize ==
    ASSUME NEW S, IsFiniteSet(S), NEW f, \A i, j \in S : f[i] = f[j] => i = j
    PROVE  IsFiniteSet({f[i] : i \in S}) /\ Cardinality({f[i] : i \in S}) = Cardinality(S)
<1> DEFINE T == {f[i] : i \in S}
           g == [i \in S |-> f[i]]
<1>1. g \in Bijection(S, T)
  <2>1. g \in [S -> T] /\ \A i, j \in S : g[i] = g[j] => i = j
    OBVIOUS
  <2>2. \A t \in T : \E i \in S : g[i] = t
    OBVIOUS
  <2> HIDE DEF g, T
  <2> QED
    BY <2>1, <2>2 DEF Bijection, Injection, Surjection, IsInjective
<1> HIDE DEF g
<1>2. ExistsBijection(S, T)
  BY <1>1 DEF ExistsBijection
<1> HIDE DEF T
<1>3. IsFiniteSet(T) /\ Cardinality(T) = Cardinality(S)
  BY <1>2, FS_Bijection
<1> QED
  BY <1>3 DEF T

\* What is before the item at k in the batch: the oldest, and the items at the
\* chosen positions before k.
Ahead(first, buf, q, batch, k, before) ==
    /\ IsFiniteSet(Before(q, k)) /\ Cardinality(Before(q, k)) \in Nat
    /\ \A i \in Before(q, k) : i \in 1 .. Len(buf)
    /\ before = {first} \cup {buf[i] : i \in Before(q, k)}
    /\ Cardinality(before) = Cardinality(Before(q, k)) + 1

\* Is the item at k in the batch? If its position was chosen.
LEMMA InBatch ==
    ASSUME NEW first, NEW buf, PickInput(first, buf),
           NEW q, InOrder(q, Len(buf)), NEW batch, Leads(first, buf, q, batch),
           NEW k \in 1 .. Len(buf)
    PROVE  buf[k] \in ToSet(batch) <=> k \in ToSet(q)
<1> DEFINE n == Len(buf)
<1>1. n \in Nat /\ first[1] = 0 /\ \A i \in 1 .. n : buf[i][1] = i
  BY DEF PickInput
<1>2. \A i \in ToSet(q) : i \in 1 .. n
  <2>1. \A j \in DOMAIN q : q[j] \in 1 .. n
    BY DEF InOrder
  <2> QED
    BY <2>1 DEF ToSet
<1>3. \A x : x \in ToSet(batch) <=> x = first \/ \E i \in ToSet(q) : x = buf[i]
  BY BatchOrder
<1>4. buf[k][1] = k /\ k # 0
  BY <1>1
<1>5. buf[k] # first
  BY <1>1, <1>4
<1>6. \A i \in ToSet(q) : buf[k] = buf[i] => i = k
  BY <1>1, <1>2, <1>4
<1> QED
  BY <1>3, <1>5, <1>6

\* The items of the batch that came before the item at k.
LEMMA BeforeItem ==
    ASSUME NEW first, NEW buf, PickInput(first, buf),
           NEW q, InOrder(q, Len(buf)), NEW batch, Leads(first, buf, q, batch),
           NEW k \in 1 .. Len(buf), NEW before, before = {c \in ToSet(batch) : c[1] < buf[k][1]}
    PROVE  Ahead(first, buf, q, batch, k, before)
<1> DEFINE n == Len(buf)
           P == Before(q, k)
           Q == {buf[i] : i \in P}
<1>1. n \in Nat /\ first[1] = 0 /\ \A i \in 1 .. n : buf[i][1] = i
  BY DEF PickInput
<1>2. \A i \in ToSet(q) : i \in 1 .. n
  <2>1. \A j \in DOMAIN q : q[j] \in 1 .. n
    BY DEF InOrder
  <2> QED
    BY <2>1 DEF ToSet
<1>3. \A i : i \in P <=> i \in ToSet(q) /\ i < k
  BY <1>1, <1>2 DEF Before
<1>4. \A x : x \in ToSet(batch) <=> x = first \/ \E i \in ToSet(q) : x = buf[i]
  BY BatchOrder
<1> HIDE DEF n, P
<1>5. IsFiniteSet(P) /\ Cardinality(P) \in Nat
  <2>1. IsFiniteSet(1 .. n)
    BY <1>1, FS_Interval
  <2>2. P \in SUBSET (1 .. n)
    BY <1>2, <1>3
  <2> QED
    BY <2>1, <2>2, FS_Subset, FS_CardinalityType
<1>6. \A i \in P : i \in 1 .. n /\ buf[i][1] = i
  BY <1>1, <1>2, <1>3
<1>7. before = {first} \cup Q
  <2>1. k \in 1 .. n /\ buf[k][1] = k
    BY <1>1 DEF n
  <2>2. ASSUME NEW x PROVE x \in before <=> x = first \/ \E i \in P : x = buf[i]
    <3>1. x \in before <=> (x = first \/ \E i \in ToSet(q) : x = buf[i]) /\ x[1] < k
      BY <1>4, <2>1
    <3>2. x = first => x[1] < k
      BY <1>1, <2>1
    <3>3. \A i \in ToSet(q) : x = buf[i] => (x[1] < k <=> i \in P)
      BY <1>1, <1>2, <1>3
    <3>4. \A i \in P : i \in ToSet(q)
      BY <1>3
    <3> QED
      BY <3>1, <3>2, <3>3, <3>4
  <2> QED
    BY <2>2
<1>8. first \notin Q /\ IsFiniteSet(Q) /\ Cardinality(Q) = Cardinality(P)
  <2>1. \A i, j \in P : buf[i] = buf[j] => i = j
    BY <1>6
  <2>2. IsFiniteSet(Q) /\ Cardinality(Q) = Cardinality(P)
    BY <1>5, <2>1, ImageSize
  <2>3. first \notin Q
    BY <1>1, <1>6
  <2> QED
    BY <2>2, <2>3
<1>9. Cardinality(before) = Cardinality(P) + 1
  <2> HIDE DEF Q
  <2>1. before = Q \cup {first}
    BY <1>7
  <2> QED
    BY <1>8, <2>1, FS_AddElement
<1> QED
  BY <1>5, <1>6, <1>7, <1>9 DEF P, n, Ahead

\* There is room for an item exactly when it joins.
LEMMA RoomIsJoins ==
    ASSUME NEW first, NEW buf, PickInput(first, buf),
           NEW q, InOrder(q, Len(buf)), NEW batch, Leads(first, buf, q, batch),
           NEW lens, \A i \in 1 .. Len(buf) : lens[i] = buf[i][2],
           NEW maxItems, NEW maxTokens, NEW k \in 1 .. Len(buf)
    PROVE  RoomFor(buf[k], first, batch, maxItems, maxTokens)
             <=> Joins(first[2], lens, maxItems, maxTokens, q, k)
<1> DEFINE before == {c \in ToSet(batch) : c[1] < buf[k][1]}
           P == Before(q, k)
           size == Cardinality(P) + 2
           target == first[2]
           b == buf[k]
<1>1. /\ Cardinality(P) \in Nat
      /\ \A i \in P : i \in 1 .. Len(buf)
      /\ before = {first} \cup {buf[i] : i \in P}
      /\ Cardinality(before) = Cardinality(P) + 1
  <2>1. before = {c \in ToSet(batch) : c[1] < buf[k][1]}
    OBVIOUS
  <2> HIDE DEF before
  <2>2. Ahead(first, buf, q, batch, k, before)
    BY <2>1, BeforeItem
  <2> QED
    BY <2>2 DEF Ahead
<1>2. target \in Nat /\ b[2] \in Nat /\ lens[k] = b[2]
  BY DEF PickInput
<1>3. \A i \in P : lens[i] = buf[i][2]
  BY <1>1
<1>4. RoomFor(b, first, batch, maxItems, maxTokens) <=>
        /\ b[2] <= 2 * target /\ target <= 2 * b[2]
        /\ Cardinality(before) + 1 <= maxItems
        /\ \A c \in before \cup {b} : (Cardinality(before) + 1) * c[2] <= maxTokens
  BY DEF RoomFor
<1>5. Joins(target, lens, maxItems, maxTokens, q, k) <=>
        /\ size <= maxItems
        /\ Similar(target, lens[k])
        /\ size * target <= maxTokens
        /\ \A i \in P \cup {k} : size * lens[i] <= maxTokens
  BY DEF Joins
<1> HIDE DEF before, P, b, target
<1>6. Cardinality(before) + 1 = size
  BY <1>1
<1>7. Similar(target, lens[k]) <=> b[2] <= 2 * target /\ target <= 2 * b[2]
  BY <1>2 DEF Similar, Larger, Smaller
<1> HIDE DEF size
<1>8. (\A c \in before \cup {b} : size * c[2] <= maxTokens) <=>
        /\ size * target <= maxTokens
        /\ \A i \in P \cup {k} : size * lens[i] <= maxTokens
  <2>1. ASSUME \A c \in before \cup {b} : size * c[2] <= maxTokens
        PROVE  /\ size * target <= maxTokens
               /\ \A i \in P \cup {k} : size * lens[i] <= maxTokens
    <3>1. first \in before /\ \A i \in P : buf[i] \in before
      BY <1>1
    <3>2. size * first[2] <= maxTokens
      BY <2>1, <3>1
    <3>3. \A i \in P : size * lens[i] <= maxTokens
      BY <1>3, <2>1, <3>1
    <3>4. size * lens[k] <= maxTokens
      BY <1>2, <2>1
    <3> QED
      BY <3>2, <3>3, <3>4 DEF target
  <2>2. ASSUME size * target <= maxTokens, \A i \in P \cup {k} : size * lens[i] <= maxTokens,
               NEW c \in before \cup {b}
        PROVE  size * c[2] <= maxTokens
    <3>1. CASE c = first
      BY <2>2, <3>1 DEF target
    <3>2. CASE c = b
      <4>1. c[2] = lens[k]
        BY <1>2, <3>2
      <4> QED
        BY <2>2, <4>1
    <3>3. ASSUME NEW i \in P, c = buf[i] PROVE size * c[2] <= maxTokens
      <4>1. c[2] = lens[i]
        BY <1>3, <3>3
      <4> QED
        BY <2>2, <4>1
    <3> QED
      BY <1>1, <3>1, <3>2, <3>3
  <2> QED
    BY <2>1, <2>2
<1>9. RoomFor(b, first, batch, maxItems, maxTokens) <=> Joins(target, lens, maxItems, maxTokens, q, k)
  BY <1>4, <1>5, <1>6, <1>7, <1>8
<1> QED
  BY <1>9 DEF b, target

\* pick on any input: the parts of its reference.
AsReferred(first, buf, all, picked, maxItems, maxTokens) ==
    /\ Head(picked.batch) = first
    /\ ToSet(picked.batch) \cup ToSet(picked.rest) = all
    /\ Len(picked.batch) + Len(picked.rest) = Len(buf) + 1
    /\ \A i, j \in DOMAIN picked.batch : i < j => picked.batch[i][1] < picked.batch[j][1]
    /\ \A i, j \in DOMAIN picked.rest : i < j => picked.rest[i][1] < picked.rest[j][1]
    /\ \A b \in ToSet(buf) : b \in ToSet(picked.batch) <=>
          RoomFor(b, first, picked.batch, maxItems, maxTokens)

\* pick is as its reference says, whatever the buffer and the caps.
LEMMA PickReference ==
    ASSUME NEW first, NEW buf, PickInput(first, buf), NEW maxItems \in Nat, NEW maxTokens \in Nat,
           NEW all, all = {first} \cup ToSet(buf), NEW lenOf, lenOf = [x \in all |-> x[2]],
           NEW picked, picked = PickBatch(first, buf, lenOf, maxItems, maxTokens)
    PROVE  AsReferred(first, buf, all, picked, maxItems, maxTokens)
<1> DEFINE n == Len(buf)
           lens == LengthsOf(buf, lenOf)
           q == Chosen(lenOf[first], lens, maxItems, maxTokens)
           r == Keep(Positions(buf), DOMAIN buf \ ToSet(q))
<1>1. /\ n \in Nat /\ DOMAIN buf = 1 .. n /\ \A i \in 1 .. n : buf[i] \in Nat \X Nat /\ buf[i][1] = i
      /\ first \in Nat \X Nat /\ first[1] = 0
  BY DEF PickInput
<1>2. first \in all /\ \A x : x \in all <=> x = first \/ \E i \in 1 .. n : x = buf[i]
  BY <1>1 DEF ToSet
<1>3. \A x \in all : lenOf[x] = x[2] /\ lenOf[x] \in Nat
  BY <1>1, <1>2
<1>4. buf \in Seq(all)
  <2>1. \A i \in 1 .. n : buf[i] \in all
    BY <1>2
  <2>2. buf = [i \in 1 .. n |-> buf[i]]
    BY <1>1 DEF PickInput
  <2>3. n \in Nat
    BY <1>1
  <2> HIDE DEF n
  <2> DEFINE t == [i \in 1 .. n |-> buf[i]]
  <2>4. t \in [1 .. n -> all]
    BY <2>1
  <2> HIDE DEF t
  <2>5. t \in Seq(all)
    BY <2>3, <2>4
  <2> QED
    BY <2>2, <2>5 DEF t
<1>5. Picks(first, buf, lenOf, maxItems, maxTokens, lens, q, r, picked)
  BY DEF Picks
<1>6. \A i \in 1 .. n : lens[i] = buf[i][2]
  BY <1>1, <1>2, <1>3 DEF LengthsOf
<1>7. q = Chosen(first[2], lens, maxItems, maxTokens) /\ first[2] \in Nat
  BY <1>1, <1>2, <1>3
<1> HIDE DEF lens, q, r
<1>8. Shape(all, first, buf, lens, q, r, picked)
  <2>1. \A x \in all : lenOf[x] \in Nat
    BY <1>3
  <2> QED
    BY <1>2, <1>4, <1>5, <2>1, PickShape
<1>9. /\ lens \in Seq(Nat) /\ Len(lens) = n /\ InOrder(q, n)
      /\ InOrder(r, n) /\ ToSet(r) = (1 .. n) \ ToSet(q)
      /\ Leads(first, buf, q, picked.batch) /\ picked.rest = At(buf, r)
  BY <1>8 DEF Shape, InOrder, Leads
<1>10. \A k \in 1 .. n : k \in ToSet(q) <=> Joins(first[2], lens, maxItems, maxTokens, q, k)
  BY <1>7, <1>9, ChosenFacts, ZenonT(60)
<1> DEFINE batch == picked.batch
           rest == picked.rest
<1>11. Leads(first, buf, q, batch) /\ rest = At(buf, r)
  BY <1>9
<1> HIDE DEF batch, rest
<1>12. Len(batch) = Len(q) + 1 /\ Head(batch) = first
  BY <1>9, <1>11, BatchOrder DEF n
<1>13. \A i, j \in DOMAIN batch : i < j => batch[i][1] < batch[j][1]
  BY <1>9, <1>11, BatchOrder DEF n
<1>14. \A x : x \in ToSet(batch) <=> x = first \/ \E i \in ToSet(q) : x = buf[i]
  BY <1>9, <1>11, BatchOrder DEF n
<1>15. /\ Len(rest) = Len(r) /\ DOMAIN rest = 1 .. Len(r) /\ DOMAIN r = 1 .. Len(r)
       /\ \A j \in 1 .. Len(r) : rest[j] = buf[r[j]] /\ r[j] \in 1 .. n
  <2> DEFINE N == 1 .. n
  <2>1. r \in Seq(N) /\ \A i \in N : buf[i] \in all
    BY <1>2, <1>9 DEF InOrder
  <2> HIDE DEF N
  <2>2. At(buf, r) \in Seq(all) /\ Len(At(buf, r)) = Len(r)
    BY <2>1, TakenAt
  <2>3. \A j \in 1 .. Len(r) : At(buf, r)[j] = buf[r[j]] /\ r[j] \in N
    BY <2>1, TakenAt
  <2>4. DOMAIN At(buf, r) = 1 .. Len(r) /\ DOMAIN r = 1 .. Len(r)
    BY <2>1, <2>2
  <2> QED
    BY <1>11, <2>2, <2>3, <2>4 DEF N
<1>16. \A x : x \in ToSet(rest) <=> \E i \in ToSet(r) : x = buf[i]
  BY <1>15 DEF ToSet
<1>17. Len(batch) + Len(rest) = n + 1
  <2>1. Len(q) + Len(r) = n
    BY <1>1, <1>9, ChosenAndLeft DEF InOrder
  <2>2. Len(q) \in Nat /\ Len(r) \in Nat
    BY <1>9 DEF InOrder
  <2>3. Len(batch) = Len(q) + 1 /\ Len(rest) = Len(r)
    BY <1>12, <1>15
  <2> HIDE DEF n
  <2> QED
    BY <2>1, <2>2, <2>3, SMTT(30)
<1>18. ToSet(batch) \cup ToSet(rest) = all
  <2>1. \A i \in ToSet(q) : i \in 1 .. n
    BY <1>9 DEF InOrder, ToSet
  <2>2. \A i : i \in 1 .. n <=> i \in ToSet(q) \/ i \in ToSet(r)
    BY <1>9, <2>1
  <2>3. \A x : x \in all <=> x \in ToSet(batch) \/ x \in ToSet(rest)
    BY <1>2, <1>14, <1>16, <2>2
  <2> QED
    BY <2>3
<1>19. ASSUME NEW i \in DOMAIN rest, NEW j \in DOMAIN rest, i < j PROVE rest[i][1] < rest[j][1]
  <2>1. r[i] < r[j]
    BY <1>9, <1>15, <1>19 DEF InOrder, Increasing
  <2>2. rest[i][1] = r[i] /\ rest[j][1] = r[j]
    BY <1>1, <1>15
  <2> QED
    BY <2>1, <2>2
<1>20. ASSUME NEW b \in ToSet(buf)
       PROVE  b \in ToSet(batch) <=> RoomFor(b, first, batch, maxItems, maxTokens)
  <2>1. PICK k \in 1 .. n : b = buf[k]
    BY <1>1 DEF ToSet
  <2>2. buf[k] \in ToSet(batch) <=> k \in ToSet(q)
    BY <1>9, <1>11, InBatch DEF n
  <2>3. RoomFor(buf[k], first, batch, maxItems, maxTokens) <=> Joins(first[2], lens, maxItems, maxTokens, q, k)
    BY <1>6, <1>9, <1>11, RoomIsJoins DEF n
  <2> QED
    BY <1>10, <2>1, <2>2, <2>3
<1> QED
  BY <1>12, <1>13, <1>17, <1>18, <1>19, <1>20 DEF batch, rest, n, AsReferred

-----------------------------------------------------------------------------
(* Language routing.                                                       *)

\* The first maximum among the first k candidates, for each k.
MostSoFar(of, c, X, g) ==
    /\ g \in [0 .. Len(c) -> X]
    /\ g[0] = c[1]
    /\ \A k \in 1 .. Len(c) : g[k] = IF of[c[k]] > of[g[k - 1]] THEN c[k] ELSE g[k - 1]

\* FirstMost goes through the candidates one after the other.
LEMMA MostSteps ==
    ASSUME NEW X, NEW c \in Seq(X), c # <<>>, NEW of
    PROVE  \E g : MostSoFar(of, c, X, g) /\ FirstMost(of, c) = g[Len(c)]
<1> DEFINE n == Len(c)
           base == c[1]
           step == [p \in (1 .. n) \X X |-> IF of[c[p[1]]] > of[p[2]] THEN c[p[1]] ELSE p[2]]
           Body(f) == [t \in SUBSET DOMAIN c |-> IF t = {} THEN c[1]
                        ELSE IF of[c[Max(t)]] > of[f[t \ {Max(t)}]] THEN c[Max(t)]
                             ELSE f[t \ {Max(t)}]]
           iter == CHOOSE f : f = Body(f)
<1>1. n \in Nat /\ DOMAIN c = 1 .. n /\ base \in X /\ \A i \in 1 .. n : c[i] \in X
  OBVIOUS
<1>2. step \in [(1 .. n) \X X -> X]
  BY <1>1
<1>3. PICK f : FoldsTo(f, step, base, n, X)
  <2> HIDE DEF n, step, base
  <2> QED
    BY <1>1, <1>2, FoldExists
<1>4. f = Body(f)
  <2> SUFFICES ASSUME NEW t \in SUBSET (1 .. n)
               PROVE  f[t] = Body(f)[t]
    BY <1>1, <1>3 DEF FoldsTo
  <2>1. f[t] = IF t = {} THEN c[1] ELSE step[<<Max(t), f[t \ {Max(t)}]>>]
    BY <1>3 DEF FoldsTo
  <2>2. CASE t = {}
    BY <1>1, <2>1, <2>2
  <2>3. CASE t # {}
    <3> DEFINE m == Max(t)
    <3>1. m \in 1 .. n
      BY <1>1, <2>3, LastOf
    <3> HIDE DEF m
    <3>2. f[t \ {m}] \in X
      BY <1>3 DEF FoldsTo
    <3>3. step[<<m, f[t \ {m}]>>] = IF of[c[m]] > of[f[t \ {m}]] THEN c[m] ELSE f[t \ {m}]
      BY <3>1, <3>2
    <3> HIDE DEF step
    <3> QED
      BY <1>1, <2>1, <2>3, <3>3 DEF m
  <2> QED
    BY <2>2, <2>3
<1>5. iter = Body(iter)
  <2> HIDE DEF Body
  <2> QED
    BY <1>4
<1>6. FirstMost(of, c) = iter[DOMAIN c]
  BY DEF FirstMost, FoldLeft, MapThenFoldSet
<1> HIDE DEF iter
<1>7. iter[{}] = base
  BY <1>5
<1>8. ASSUME NEW k \in 1 .. n, iter[1 .. (k - 1)] \in X
      PROVE  iter[1 .. k] = step[<<k, iter[1 .. (k - 1)]>>]
  <2> DEFINE t == 1 .. k
  <2>1. t \in SUBSET DOMAIN c /\ t # {} /\ Max(t) = k /\ t \ {k} = 1 .. (k - 1)
    BY <1>1, AtPosition
  <2> HIDE DEF t
  <2>2. iter[t] = IF of[c[k]] > of[iter[1 .. (k - 1)]] THEN c[k] ELSE iter[1 .. (k - 1)]
    BY <1>5, <2>1
  <2>3. step[<<k, iter[1 .. (k - 1)]>>]
          = IF of[c[k]] > of[iter[1 .. (k - 1)]] THEN c[k] ELSE iter[1 .. (k - 1)]
    <3> HIDE DEF n
    <3> QED
      BY <1>8
  <2> HIDE DEF step
  <2> QED
    BY <2>2, <2>3 DEF t
<1>9. PICK g : Iterates(g, step, base, n, X) /\ g[n] = iter[1 .. n]
  <2> HIDE DEF n, step, base
  <2>1. TakesSteps(iter, step, base, n, X)
    BY <1>1, <1>2, <1>7, <1>8 DEF TakesSteps
  <2>2. IteratesTo(iter, step, base, n, X)
    BY <2>1, FoldIterates
  <2> QED
    BY <2>2 DEF IteratesTo
<1>10. ASSUME NEW k \in 1 .. n
       PROVE  g[k] = IF of[c[k]] > of[g[k - 1]] THEN c[k] ELSE g[k - 1]
  <2>1. k - 1 \in 0 .. n
    BY <1>1
  <2>2. g[k - 1] \in X /\ g[k] = step[<<k, g[k - 1]>>]
    <3> HIDE DEF n, step, base
    <3> QED
      BY <1>9, <2>1 DEF Iterates
  <2>3. step[<<k, g[k - 1]>>] = IF of[c[k]] > of[g[k - 1]] THEN c[k] ELSE g[k - 1]
    <3> HIDE DEF n
    <3> QED
      BY <2>2
  <2> HIDE DEF step
  <2> QED
    BY <2>2, <2>3
<1>11. MostSoFar(of, c, X, g)
  BY <1>9, <1>10 DEF MostSoFar, Iterates
<1> QED
  BY <1>1, <1>6, <1>9, <1>11

\* It finds the maximum, and the first candidate that has it.
FirstMaximum(of, c, p) ==
    /\ p \in 1 .. Len(c)
    /\ \A i \in 1 .. Len(c) : of[c[i]] <= of[c[p]]
    /\ \A i \in 1 .. (p - 1) : of[c[i]] < of[c[p]]

LEMMA FirstMostIsFirst ==
    ASSUME NEW X, NEW c \in Seq(X), c # <<>>, NEW of, \A x \in X : of[x] \in Nat
    PROVE  \E p : FirstMaximum(of, c, p) /\ FirstMost(of, c) = c[p]
<1>1. PICK g : MostSoFar(of, c, X, g) /\ FirstMost(of, c) = g[Len(c)]
  BY MostSteps
<1> DEFINE n == Len(c)
           Holds(k, p) == /\ g[k] = c[p] /\ (p <= k \/ p = 1)
                          /\ \A i \in 1 .. k : of[c[i]] <= of[c[p]]
                          /\ \A i \in 1 .. (p - 1) : of[c[i]] < of[c[p]]
           Right == {k \in Nat : k <= n => \E p \in 1 .. n : Holds(k, p)}
<1>2. n \in Nat /\ 1 \in 1 .. n /\ (\A i \in 1 .. n : c[i] \in X /\ of[c[i]] \in Nat) /\ g[0] = c[1]
  BY <1>1 DEF MostSoFar
<1>3. 0 \in Right
  <2>1. Holds(0, 1)
    BY <1>2
  <2> HIDE DEF Holds
  <2> QED
    BY <1>2, <2>1
<1>4. ASSUME NEW k \in Nat, k \in Right PROVE k + 1 \in Right
  <2> SUFFICES ASSUME k + 1 <= n PROVE \E p \in 1 .. n : Holds(k + 1, p)
    <3> HIDE DEF Holds
    <3> QED
      OBVIOUS
  <2>1. k + 1 \in 1 .. n /\ (k + 1) - 1 = k /\ k <= n
    BY <1>2
  <2>2. PICK p \in 1 .. n : Holds(k, p)
    <3> HIDE DEF Holds
    <3> QED
      BY <1>4, <2>1
  <2>3. g[k + 1] = IF of[c[k + 1]] > of[c[p]] THEN c[k + 1] ELSE c[p]
    BY <1>1, <2>1, <2>2 DEF MostSoFar
  <2>4. of[c[k + 1]] \in Nat /\ of[c[p]] \in Nat /\ \A i \in 1 .. n : of[c[i]] \in Nat
    BY <1>2, <2>1
  <2>5. \A i \in 1 .. (k + 1) : i \in 1 .. k \/ i = k + 1
    OBVIOUS
  <2>6. \A i \in 1 .. k : i \in 1 .. n
    BY <1>2, <2>1
  <2>7. CASE of[c[k + 1]] > of[c[p]]
    <3>1. g[k + 1] = c[k + 1]
      BY <2>3, <2>7
    <3>2. ASSUME NEW i \in 1 .. k PROVE of[c[i]] < of[c[k + 1]]
      <4>1. of[c[i]] <= of[c[p]]
        BY <2>2
      <4>2. of[c[i]] \in Nat
        BY <2>4, <2>6
      <4> DEFINE a == of[c[i]]
                 b == of[c[p]]
                 d == of[c[k + 1]]
      <4>3. a \in Nat /\ b \in Nat /\ d \in Nat /\ a <= b /\ d > b
        BY <2>4, <2>7, <4>1, <4>2
      <4> HIDE DEF a, b, d
      <4>4. a < d
        BY <4>3
      <4> QED
        BY <4>4 DEF a, d
    <3>3. \A i \in 1 .. (k + 1) : of[c[i]] <= of[c[k + 1]]
      BY <2>4, <2>5, <2>6, <3>2
    <3>4. Holds(k + 1, k + 1)
      <4>1. (k + 1) - 1 = k /\ k + 1 <= k + 1
        OBVIOUS
      <4> QED
        BY <3>1, <3>2, <3>3, <4>1
    <3> HIDE DEF Holds
    <3> QED
      BY <2>1, <3>4
  <2>8. CASE ~(of[c[k + 1]] > of[c[p]])
    <3>1. g[k + 1] = c[p] /\ of[c[k + 1]] <= of[c[p]]
      BY <2>3, <2>4, <2>8
    <3>2. \A i \in 1 .. (k + 1) : of[c[i]] <= of[c[p]]
      BY <2>2, <2>5, <3>1
    <3>3. Holds(k + 1, p)
      BY <2>2, <3>1, <3>2
    <3> HIDE DEF Holds
    <3> QED
      BY <3>3
  <2> QED
    BY <2>7, <2>8
<1>5. n \in Right
  <2> HIDE DEF Right
  <2> QED
    BY <1>2, <1>3, <1>4, NatSetInduction
<1>6. PICK p \in 1 .. n : Holds(n, p)
  <2> HIDE DEF Holds
  <2> QED
    BY <1>2, <1>5
<1>7. FirstMaximum(of, c, p)
  BY <1>6 DEF FirstMaximum
<1> QED
  BY <1>1, <1>6, <1>7

\* The distinct elements of the first k, for each k.
SeenSoFar(s, X, g) ==
    /\ g \in [0 .. Len(s) -> Seq(X)]
    /\ g[0] = <<>>
    /\ \A k \in 1 .. Len(s) : g[k] = IF Contains(g[k - 1], s[k]) THEN g[k - 1] ELSE Append(g[k - 1], s[k])

\* The fold of Counted.
Seen(s) == FoldLeft(LAMBDA seen, x : IF Contains(seen, x) THEN seen ELSE Append(seen, x), <<>>, s)

\* Seen goes through s one position after the other.
LEMMA SeenSteps ==
    ASSUME NEW X, NEW s \in Seq(X)
    PROVE  \E g : SeenSoFar(s, X, g) /\ Seen(s) = g[Len(s)]
<1> DEFINE n == Len(s)
           A == Seq(X)
           base == <<>>
           step == [p \in (1 .. n) \X A |-> IF Contains(p[2], s[p[1]]) THEN p[2] ELSE Append(p[2], s[p[1]])]
           Body(f) == [t \in SUBSET DOMAIN s |-> IF t = {} THEN <<>>
                        ELSE IF Contains(f[t \ {Max(t)}], s[Max(t)]) THEN f[t \ {Max(t)}] ELSE Append(f[t \ {Max(t)}], s[Max(t)])]
           iter == CHOOSE f : f = Body(f)
<1>1. n \in Nat /\ DOMAIN s = 1 .. n /\ base \in A /\ \A i \in 1 .. n : s[i] \in X
  OBVIOUS
<1>2. step \in [(1 .. n) \X A -> A]
  BY <1>1
<1>3. PICK f : FoldsTo(f, step, base, n, A)
  <2> HIDE DEF n, A, step, base
  <2> QED
    BY <1>1, <1>2, FoldExists
<1>4. f = Body(f)
  <2> SUFFICES ASSUME NEW t \in SUBSET (1 .. n)
               PROVE  f[t] = Body(f)[t]
    BY <1>1, <1>3 DEF FoldsTo
  <2>1. f[t] = IF t = {} THEN <<>> ELSE step[<<Max(t), f[t \ {Max(t)}]>>]
    BY <1>3 DEF FoldsTo
  <2>2. CASE t = {}
    BY <1>1, <2>1, <2>2
  <2>3. CASE t # {}
    <3> DEFINE m == Max(t)
    <3>1. m \in 1 .. n
      BY <1>1, <2>3, LastOf
    <3> HIDE DEF m
    <3>2. f[t \ {m}] \in A
      BY <1>3 DEF FoldsTo
    <3>3. step[<<m, f[t \ {m}]>>] = IF Contains(f[t \ {m}], s[m]) THEN f[t \ {m}] ELSE Append(f[t \ {m}], s[m])
      BY <3>1, <3>2
    <3> HIDE DEF step
    <3> QED
      BY <1>1, <2>1, <2>3, <3>3 DEF m
  <2> QED
    BY <2>2, <2>3
<1>5. iter = Body(iter)
  <2> HIDE DEF Body
  <2> QED
    BY <1>4
<1>6. Seen(s) = iter[DOMAIN s]
  BY DEF Seen, FoldLeft, MapThenFoldSet
<1> HIDE DEF iter
<1>7. iter[{}] = base
  BY <1>5
<1>8. ASSUME NEW k \in 1 .. n, iter[1 .. (k - 1)] \in A
      PROVE  iter[1 .. k] = step[<<k, iter[1 .. (k - 1)]>>]
  <2> DEFINE t == 1 .. k
  <2>1. t \in SUBSET DOMAIN s /\ t # {} /\ Max(t) = k /\ t \ {k} = 1 .. (k - 1)
    BY <1>1, AtPosition
  <2> HIDE DEF t
  <2>2. iter[t] = IF Contains(iter[1 .. (k - 1)], s[k]) THEN iter[1 .. (k - 1)] ELSE Append(iter[1 .. (k - 1)], s[k])
    BY <1>5, <2>1
  <2>3. step[<<k, iter[1 .. (k - 1)]>>]
          = IF Contains(iter[1 .. (k - 1)], s[k]) THEN iter[1 .. (k - 1)] ELSE Append(iter[1 .. (k - 1)], s[k])
    <3> HIDE DEF A, n
    <3> QED
      BY <1>8
  <2> HIDE DEF step
  <2> QED
    BY <2>2, <2>3 DEF t
<1>9. PICK g : Iterates(g, step, base, n, A) /\ g[n] = iter[1 .. n]
  <2> HIDE DEF n, A, step, base
  <2>1. TakesSteps(iter, step, base, n, A)
    BY <1>1, <1>2, <1>7, <1>8 DEF TakesSteps
  <2>2. IteratesTo(iter, step, base, n, A)
    BY <2>1, FoldIterates
  <2> QED
    BY <2>2 DEF IteratesTo
<1>10. ASSUME NEW k \in 1 .. n
       PROVE  g[k] = IF Contains(g[k - 1], s[k]) THEN g[k - 1] ELSE Append(g[k - 1], s[k])
  <2>1. k - 1 \in 0 .. n
    BY <1>1
  <2> HIDE DEF A
  <2>2. g[k - 1] \in A /\ g[k] = step[<<k, g[k - 1]>>]
    <3> HIDE DEF n, step, base
    <3> QED
      BY <1>9, <2>1 DEF Iterates
  <2>3. step[<<k, g[k - 1]>>] = IF Contains(g[k - 1], s[k]) THEN g[k - 1] ELSE Append(g[k - 1], s[k])
    <3> HIDE DEF n
    <3> QED
      BY <2>2
  <2> HIDE DEF step
  <2> QED
    BY <2>2, <2>3
<1>11. SeenSoFar(s, X, g)
  BY <1>9, <1>10 DEF SeenSoFar, Iterates
<1> QED
  BY <1>1, <1>6, <1>9, <1>11

\* It loses none and invents none.
LEMMA SeenSet ==
    ASSUME NEW X, NEW s \in Seq(X)
    PROVE  Seen(s) \in Seq(X) /\ ToSet(Seen(s)) = ToSet(s)
<1>1. PICK g : SeenSoFar(s, X, g) /\ Seen(s) = g[Len(s)]
  BY SeenSteps
<1> DEFINE n == Len(s)
           Right == {k \in Nat : k <= n => ToSet(g[k]) = {s[i] : i \in 1 .. k}}
<1>2. n \in Nat /\ DOMAIN s = 1 .. n /\ \A i \in 1 .. n : s[i] \in X
  OBVIOUS
<1>3. 0 \in Right
  <2>1. ToSet(g[0]) = {}
    BY <1>1 DEF SeenSoFar, ToSet
  <2> QED
    BY <2>1
<1>4. ASSUME NEW k \in Nat, k \in Right PROVE k + 1 \in Right
  <2> SUFFICES ASSUME k + 1 <= n PROVE ToSet(g[k + 1]) = {s[i] : i \in 1 .. (k + 1)}
    OBVIOUS
  <2> DEFINE x == s[k + 1]
             q == g[k]
  <2>1. q \in Seq(X) /\ x \in X /\ ToSet(q) = {s[i] : i \in 1 .. k}
    <3>1. k <= n /\ k \in 0 .. n /\ k + 1 \in 1 .. n
      BY <1>2
    <3>2. g[k] \in Seq(X) /\ s[k + 1] \in X
      BY <1>1, <1>2, <3>1 DEF SeenSoFar
    <3>3. ToSet(g[k]) = {s[i] : i \in 1 .. k}
      BY <1>4, <3>1
    <3> QED
      BY <3>2, <3>3
  <2>2. g[k + 1] = IF Contains(q, x) THEN q ELSE Append(q, x)
    <3>1. k + 1 \in 1 .. n /\ (k + 1) - 1 = k
      BY <1>2
    <3> QED
      BY <1>1, <3>1 DEF SeenSoFar
  <2>3. {s[i] : i \in 1 .. (k + 1)} = {s[i] : i \in 1 .. k} \cup {x}
    <3>1. 1 .. (k + 1) = (1 .. k) \cup {k + 1}
      OBVIOUS
    <3> QED
      BY <3>1
  <2> HIDE DEF x, q
  <2>4. Contains(q, x) <=> x \in ToSet(q)
    BY <2>1 DEF Contains, ToSet
  <2>5. CASE Contains(q, x)
    BY <2>1, <2>2, <2>3, <2>4, <2>5
  <2>6. CASE ~Contains(q, x)
    <3>1. ToSet(g[k + 1]) = ToSet(q) \cup {x}
      BY <2>1, <2>2, <2>6, AppendSet
    <3> QED
      BY <2>1, <2>3, <3>1
  <2> QED
    BY <2>5, <2>6
<1>5. n \in Right
  <2> HIDE DEF Right
  <2> QED
    BY <1>2, <1>3, <1>4, NatSetInduction
<1>6. ToSet(g[n]) = ToSet(s)
  <2>1. ToSet(g[n]) = {s[i] : i \in 1 .. n}
    BY <1>2, <1>5
  <2>2. ToSet(s) = {s[i] : i \in 1 .. n}
    BY <1>2 DEF ToSet
  <2> QED
    BY <2>1, <2>2
<1> QED
  BY <1>1, <1>2, <1>6 DEF SeenSoFar

\* The scripts that are neither Latin nor none.
Foreign(letters) == ToSet(letters) \ {"latin", "none"}

\* The candidates are the foreign scripts, and Latin after them.
LEMMA CountedScripts ==
    ASSUME NEW X, NEW letters \in Seq(X)
    PROVE  \E q \in Seq(X) : ToSet(q) = Foreign(letters) /\ Counted(letters) = q \o <<"latin">>
<1> DEFINE S == ToSet(letters) \ {"latin", "none"}
           f == Keep(letters, S)
<1>1. f \in Seq(X) /\ ToSet(f) = ToSet(letters) \cap S
  <2> HIDE DEF S
  <2> QED
    BY KeepSet
<1>2. Seen(f) \in Seq(X) /\ ToSet(Seen(f)) = ToSet(f)
  <2> HIDE DEF f
  <2> QED
    BY <1>1, SeenSet
<1>3. Counted(letters) = Seen(f) \o <<"latin">>
  BY DEF Counted, Seen, FoldLeft, MapThenFoldSet
<1> QED
  BY <1>1, <1>2, <1>3 DEF Foreign

\* How many letters are of a script.
Letters(letters, s) == Cardinality({i \in DOMAIN letters : letters[i] = s})

LEMMA CountIsNumber ==
    ASSUME NEW X, NEW letters \in Seq(X), NEW s
    PROVE  /\ CountOf(letters, s) = Letters(letters, s)
           /\ CountOf(letters, s) \in Nat
           /\ s \in ToSet(letters) => CountOf(letters, s) # 0
<1> DEFINE P == {i \in 1 .. Len(letters) : letters[i] \in {s}}
<1>1. IsFiniteSet(P) /\ CountOf(letters, s) = Cardinality(P)
  BY KeepLength DEF CountOf
<1>2. DOMAIN letters = 1 .. Len(letters) /\ P = {i \in DOMAIN letters : letters[i] = s}
  OBVIOUS
<1>3. s \in ToSet(letters) => P # {}
  BY <1>2 DEF ToSet
<1> HIDE DEF P
<1>4. Cardinality(P) \in Nat /\ (P # {} => Cardinality(P) # 0)
  BY <1>1, FS_CardinalityType, FS_EmptySet
<1> QED
  BY <1>1, <1>2, <1>3, <1>4 DEF Letters

\* The script that wins: none if there are no letters, and Latin if there are
\* more Latin letters than of any other script.
Detected(letters, script) ==
    /\ script = "unknown" <=> Foreign(letters) = {} /\ Letters(letters, "latin") = 0
    /\ script = "latin" <=>
         /\ Letters(letters, "latin") # 0
         /\ \A s \in Foreign(letters) : Letters(letters, s) < Letters(letters, "latin")

LEMMA DetectScriptFacts ==
    ASSUME NEW X, "unknown" \notin X, NEW text, text.letters \in Seq(X)
    PROVE  Detected(text.letters, DetectScript(text))
<1> DEFINE letters == text.letters
           N(s) == Letters(letters, s)
           F == Foreign(letters)
           Y == F \cup {"latin"}
           scripts == Counted(letters)
           of == [s \in ToSet(scripts) |-> CountOf(letters, s)]
           best == FirstMost(of, scripts)
<1>1. PICK q \in Seq(X) : ToSet(q) = F /\ scripts = q \o <<"latin">>
  BY CountedScripts
<1> DEFINE m == Len(q)
<1>2. /\ m \in Nat /\ DOMAIN q = 1 .. m /\ (\A i \in 1 .. m : q[i] \in F)
      /\ "latin" \notin F /\ "unknown" \notin Y
  <2>1. m \in Nat /\ DOMAIN q = 1 .. m
    OBVIOUS
  <2>2. \A i \in 1 .. m : q[i] \in F
    BY <1>1, <2>1 DEF ToSet
  <2>3. F \subseteq X /\ "latin" \notin F
    BY DEF Foreign, ToSet
  <2> QED
    BY <2>1, <2>2, <2>3
<1>3. q \in Seq(Y)
  BY <1>2
<1>4. /\ Len(scripts) = m + 1 /\ scripts[m + 1] = "latin" /\ (\A i \in 1 .. m : scripts[i] = q[i])
      /\ scripts \in Seq(Y) /\ scripts # <<>> /\ DOMAIN scripts = 1 .. (m + 1)
  <2> DEFINE l == <<"latin">>
  <2>1. l \in Seq(Y) /\ Len(l) = 1 /\ l[1] = "latin"
    OBVIOUS
  <2> HIDE DEF l, Y
  <2>2. /\ q \o l \in Seq(Y) /\ Len(q \o l) = m + 1
        /\ \A i \in 1 .. (m + 1) : (q \o l)[i] = IF i <= m THEN q[i] ELSE l[i - m]
    <3>1. /\ q \o l \in Seq(Y) /\ Len(q \o l) = Len(q) + Len(l)
          /\ \A i \in 1 .. Len(q) + Len(l) :
                (q \o l)[i] = IF i <= Len(q) THEN q[i] ELSE l[i - Len(q)]
      BY <1>3, <2>1, ConcatProperties
    <3> QED
      BY <2>1, <3>1
  <2>3. (q \o l)[m + 1] = "latin" /\ \A i \in 1 .. m : (q \o l)[i] = q[i]
    BY <1>2, <2>1, <2>2
  <2> QED
    BY <1>1, <1>2, <2>2, <2>3 DEF l
<1>5. ToSet(scripts) = Y
  <2>1. ToSet(scripts) \subseteq Y
    <3> HIDE DEF Y, scripts
    <3> QED
      BY <1>4 DEF ToSet
  <2>2. "latin" \in ToSet(scripts)
    BY <1>2, <1>4 DEF ToSet
  <2>3. ASSUME NEW s \in F PROVE s \in ToSet(scripts)
    <3>1. PICK i \in 1 .. m : s = q[i]
      BY <1>1, <1>2 DEF ToSet
    <3>2. i \in DOMAIN scripts /\ scripts[i] = s
      BY <1>2, <1>4, <3>1
    <3> HIDE DEF scripts
    <3> QED
      BY <3>2 DEF ToSet
  <2> QED
    BY <2>1, <2>2, <2>3
<1>6. \A s \in Y : of[s] = N(s) /\ N(s) \in Nat
  <2> SUFFICES ASSUME NEW s \in Y PROVE of[s] = N(s) /\ N(s) \in Nat
    OBVIOUS
  <2>1. CountOf(letters, s) = N(s) /\ CountOf(letters, s) \in Nat
    BY CountIsNumber
  <2> QED
    BY <1>5, <2>1
<1>7. \A s \in F : N(s) # 0 /\ N(s) \in Nat
  <2> SUFFICES ASSUME NEW s \in F PROVE N(s) # 0 /\ N(s) \in Nat
    OBVIOUS
  <2>1. s \in ToSet(letters)
    BY DEF Foreign
  <2> QED
    BY <2>1, CountIsNumber
<1> HIDE DEF of
<1>8. PICK p : FirstMaximum(of, scripts, p) /\ best = scripts[p]
  <2> HIDE DEF Y, scripts, N
  <2> QED
    BY <1>4, <1>6, FirstMostIsFirst, SMTT(30)
<1>9. DetectScript(text) = IF of[best] = 0 THEN "unknown" ELSE best
  BY DEF DetectScript, of
<1> HIDE DEF scripts, best, F, N, m
<1>10. /\ p \in 1 .. (m + 1) /\ (\A i \in 1 .. (m + 1) : of[scripts[i]] <= of[best])
       /\ \A i \in 1 .. (p - 1) : of[scripts[i]] < of[best]
  BY <1>4, <1>8 DEF FirstMaximum
<1>11. best \in Y /\ of[best] = N(best) /\ N(best) \in Nat /\ N("latin") \in Nat
  BY <1>4, <1>6, <1>8, <1>10
<1>12. \A s \in Y : N(s) <= N(best)
  <2> SUFFICES ASSUME NEW s \in Y PROVE N(s) <= N(best)
    OBVIOUS
  <2>1. PICK i \in 1 .. (m + 1) : s = scripts[i]
    BY <1>4, <1>5 DEF ToSet
  <2> QED
    BY <1>6, <1>10, <1>11, <2>1
<1>13. DetectScript(text) = "unknown" <=> F = {} /\ N("latin") = 0
  <2>1. ASSUME N(best) = 0 PROVE F = {} /\ N("latin") = 0
    BY <1>6, <1>7, <1>12, <2>1
  <2>2. ASSUME F = {}, N("latin") = 0 PROVE N(best) = 0
    BY <1>11, <2>2
  <2>3. best # "unknown"
    BY <1>2, <1>11
  <2> QED
    BY <1>9, <1>11, <2>1, <2>2, <2>3
<1>14. ASSUME best = "latin" PROVE \A s \in F : N(s) < N("latin")
  <2> SUFFICES ASSUME NEW s \in F PROVE N(s) < N("latin")
    OBVIOUS
  <2>1. p = m + 1
    <3>1. p \notin 1 .. m
      BY <1>2, <1>4, <1>8, <1>14
    <3> QED
      BY <1>2, <1>10, <3>1
  <2>2. PICK i \in 1 .. m : s = q[i]
    BY <1>1, <1>2 DEF ToSet
  <2>3. of[scripts[i]] < of[best] /\ scripts[i] = s
    BY <1>2, <1>4, <1>10, <2>1, <2>2
  <2> QED
    BY <1>6, <1>14, <2>3
<1>15. ASSUME \A s \in F : N(s) < N("latin") PROVE best = "latin"
  BY <1>6, <1>11, <1>12, <1>15
<1>16. DetectScript(text) = "latin" <=> N("latin") # 0 /\ \A s \in F : N(s) < N("latin")
  BY <1>9, <1>11, <1>14, <1>15
<1> QED
  BY <1>13, <1>16 DEF Detected, F, N

\* A text as the counts of its words and characters.
Counts(text) ==
    /\ text.words \in Nat /\ text.en \in Nat /\ text.chars \in Nat /\ text.diacritics \in Nat
    /\ text.stop \in [ToSet(Others) -> Nat]

\* What language l needs to be taken for the text's.
Beats(text, l) ==
    \/ text.stop[l] >= 2 /\ text.stop[l] >= text.en + 2
    \/ /\ text.stop[l] >= text.en
       /\ 25 * text.diacritics >= text.chars /\ text.diacritics > 0

\* 4% of diacritics, in whole numbers; it is also 2%.
LEMMA DiacriticRates ==
    ASSUME NEW text, Counts(text)
    PROVE  /\ Diacritics(text, 4) <=> 25 * text.diacritics >= text.chars /\ text.diacritics > 0
           /\ Diacritics(text, 4) => Diacritics(text, 2)
<1> DEFINE c == text.chars
           d == text.diacritics
<1>1. c \in Nat /\ d \in Nat
  BY DEF Counts
<1>2. /\ Diacritics(text, 4) <=> 100 * d >= 4 * Larger(c, 1)
      /\ Diacritics(text, 2) <=> 100 * d >= 2 * Larger(c, 1)
  BY DEF Diacritics
<1> HIDE DEF c, d
<1>3. 100 * d >= 4 * Larger(c, 1) <=> 25 * d >= c /\ d > 0
  <2>1. CASE c > 1
    BY <1>1, <2>1 DEF Larger
  <2>2. CASE ~(c > 1)
    BY <1>1, <2>2 DEF Larger
  <2> QED
    BY <2>1, <2>2
<1>4. 100 * d >= 4 * Larger(c, 1) => 100 * d >= 2 * Larger(c, 1)
  BY <1>1 DEF Larger
<1> QED
  BY <1>2, <1>3, <1>4 DEF c, d

\* A Latin text is not English exactly if it has four words and some other
\* language beats English.
LEMMA GuessFacts ==
    ASSUME NEW text, Counts(text)
    PROVE  GuessLatinLanguage(text) \in {"none", "en"}
              <=> (text.words >= 4 => \A l \in ToSet(Others) : ~Beats(text, l))
<1> DEFINE X == ToSet(Others)
           lang == FirstMost(text.stop, Others)
           best == text.stop[lang]
           enOrNone == IF text.en > 0 THEN "en" ELSE "none"
           far == best >= Larger(2, text.en + 2) \/ (Diacritics(text, 4) /\ best >= text.en)
<1>1. /\ text.words \in Nat /\ text.en \in Nat /\ \A l \in X : text.stop[l] \in Nat
  BY DEF Counts
<1>2. Others \in Seq(X) /\ Others # <<>> /\ "en" \notin X /\ "none" \notin X
  BY LanguageAssumption, SMTT(30) DEF ToSet
<1>3. PICK p : FirstMaximum(text.stop, Others, p) /\ lang = Others[p]
  <2> HIDE DEF X
  <2> QED
    BY <1>1, <1>2, FirstMostIsFirst
<1>4. lang \in X /\ \A l \in X : text.stop[l] <= best
  BY <1>2, <1>3 DEF FirstMaximum, ToSet
<1>5. best \in Nat
  <2> HIDE DEF X
  <2> QED
    BY <1>1, <1>4
<1>6. GuessLatinLanguage(text) = CASE text.words < 4 -> "none"
         [] text.words >= 4 /\ best = 0 /\ ~Diacritics(text, 2) -> enOrNone
         [] OTHER -> IF far THEN lang ELSE enOrNone
  BY DEF GuessLatinLanguage
<1>7. far <=> Beats(text, lang)
  <2>1. Diacritics(text, 4) <=> 25 * text.diacritics >= text.chars /\ text.diacritics > 0
    BY DiacriticRates
  <2>2. best >= Larger(2, text.en + 2) <=> best >= 2 /\ best >= text.en + 2
    <3> HIDE DEF best
    <3> QED
      BY <1>1, <1>5 DEF Larger
  <2> QED
    BY <2>1, <2>2 DEF Beats
<1>8. ASSUME NEW l \in X, Beats(text, l) PROVE Beats(text, lang)
  <2>1. text.stop[l] \in Nat /\ text.stop[l] <= best /\ text.en \in Nat
    BY <1>1, <1>4
  <2> HIDE DEF best
  <2>2. Beats(text, l) => \/ best >= 2 /\ best >= text.en + 2
                          \/ best >= text.en /\ 25 * text.diacritics >= text.chars /\ text.diacritics > 0
    BY <1>5, <2>1 DEF Beats
  <2> QED
    BY <1>8, <2>2 DEF Beats, best
<1>9. far => ~(best = 0 /\ ~Diacritics(text, 2))
  <2>1. Diacritics(text, 4) => Diacritics(text, 2)
    BY DiacriticRates
  <2>2. best >= Larger(2, text.en + 2) => best # 0
    <3> HIDE DEF best
    <3> QED
      BY <1>1, <1>5 DEF Larger
  <2> QED
    BY <2>1, <2>2
<1> HIDE DEF X, lang, best, far
<1>10. lang \notin {"none", "en"} /\ enOrNone \in {"none", "en"}
  BY <1>2, <1>4
<1> HIDE DEF enOrNone
<1>11. CASE text.words < 4
  <2>1. GuessLatinLanguage(text) = "none" /\ ~(text.words >= 4)
    BY <1>1, <1>6, <1>11
  <2> QED
    BY <2>1
<1>12. CASE ~(text.words < 4)
  <2>1. text.words >= 4
    BY <1>1, <1>12
  <2>2. CASE far
    <3>1. GuessLatinLanguage(text) = lang
      BY <1>6, <1>9, <1>12, <2>1, <2>2
    <3> QED
      BY <1>4, <1>7, <1>10, <2>1, <2>2, <3>1 DEF X
  <2>3. CASE ~far
    <3>1. GuessLatinLanguage(text) = enOrNone
      BY <1>6, <1>12, <2>3
    <3> QED
      BY <1>7, <1>8, <1>10, <2>3, <3>1 DEF X
  <2> QED
    BY <2>2, <2>3
<1> QED
  BY <1>11, <1>12

-----------------------------------------------------------------------------
(* Sequence construction: sequences joined and cut.                        *)

\* The total length of the first k, for each k.
TotalSoFar(ss, g) ==
    /\ g \in [0 .. Len(ss) -> Nat]
    /\ g[0] = 0
    /\ \A k \in 1 .. Len(ss) : g[k] = g[k - 1] + Len(ss[k])

\* TotalLen adds one length after the other.
LEMMA TotalSteps ==
    ASSUME NEW X, NEW ss \in Seq(Seq(X))
    PROVE  \E g : TotalSoFar(ss, g) /\ TotalLen(ss) = g[Len(ss)]
<1> DEFINE n == Len(ss)
           A == Nat
           base == 0
           step == [p \in (1 .. n) \X A |-> p[2] + Len(ss[p[1]])]
           Body(f) == [t \in SUBSET DOMAIN ss |-> IF t = {} THEN 0
                        ELSE f[t \ {Max(t)}] + Len(ss[Max(t)])]
           iter == CHOOSE f : f = Body(f)
<1>1. n \in Nat /\ DOMAIN ss = 1 .. n /\ base \in A /\ \A i \in 1 .. n : Len(ss[i]) \in Nat
  OBVIOUS
<1>2. step \in [(1 .. n) \X A -> A]
  BY <1>1
<1>3. PICK f : FoldsTo(f, step, base, n, A)
  <2> HIDE DEF n, A, step, base
  <2> QED
    BY <1>1, <1>2, FoldExists
<1>4. f = Body(f)
  <2> SUFFICES ASSUME NEW t \in SUBSET (1 .. n)
               PROVE  f[t] = Body(f)[t]
    BY <1>1, <1>3 DEF FoldsTo
  <2>1. f[t] = IF t = {} THEN 0 ELSE step[<<Max(t), f[t \ {Max(t)}]>>]
    BY <1>3 DEF FoldsTo
  <2>2. CASE t = {}
    BY <1>1, <2>1, <2>2
  <2>3. CASE t # {}
    <3> DEFINE m == Max(t)
    <3>1. m \in 1 .. n
      BY <1>1, <2>3, LastOf
    <3> HIDE DEF m
    <3>2. f[t \ {m}] \in A
      BY <1>3 DEF FoldsTo
    <3>3. step[<<m, f[t \ {m}]>>] = f[t \ {m}] + Len(ss[m])
      BY <3>1, <3>2
    <3> HIDE DEF step
    <3> QED
      BY <1>1, <2>1, <2>3, <3>3 DEF m
  <2> QED
    BY <2>2, <2>3
<1>5. iter = Body(iter)
  <2> HIDE DEF Body
  <2> QED
    BY <1>4
<1>6. TotalLen(ss) = iter[DOMAIN ss]
  BY DEF TotalLen, FoldLeft, MapThenFoldSet
<1> HIDE DEF iter
<1>7. iter[{}] = base
  BY <1>5
<1>8. ASSUME NEW k \in 1 .. n, iter[1 .. (k - 1)] \in A
      PROVE  iter[1 .. k] = step[<<k, iter[1 .. (k - 1)]>>]
  <2> DEFINE t == 1 .. k
  <2>1. t \in SUBSET DOMAIN ss /\ t # {} /\ Max(t) = k /\ t \ {k} = 1 .. (k - 1)
    BY <1>1, AtPosition
  <2> HIDE DEF t
  <2>2. iter[t] = iter[1 .. (k - 1)] + Len(ss[k])
    BY <1>5, <2>1
  <2>3. step[<<k, iter[1 .. (k - 1)]>>]
          = iter[1 .. (k - 1)] + Len(ss[k])
    <3> HIDE DEF A, n
    <3> QED
      BY <1>8
  <2> HIDE DEF step
  <2> QED
    BY <2>2, <2>3 DEF t
<1>9. PICK g : Iterates(g, step, base, n, A) /\ g[n] = iter[1 .. n]
  <2> HIDE DEF n, A, step, base
  <2>1. TakesSteps(iter, step, base, n, A)
    BY <1>1, <1>2, <1>7, <1>8 DEF TakesSteps
  <2>2. IteratesTo(iter, step, base, n, A)
    BY <2>1, FoldIterates
  <2> QED
    BY <2>2 DEF IteratesTo
<1>10. ASSUME NEW k \in 1 .. n
       PROVE  g[k] = g[k - 1] + Len(ss[k])
  <2>1. k - 1 \in 0 .. n
    BY <1>1
  <2> HIDE DEF A
  <2>2. g[k - 1] \in A /\ g[k] = step[<<k, g[k - 1]>>]
    <3> HIDE DEF n, step, base
    <3> QED
      BY <1>9, <2>1 DEF Iterates
  <2>3. step[<<k, g[k - 1]>>] = g[k - 1] + Len(ss[k])
    <3> HIDE DEF n
    <3> QED
      BY <2>2
  <2> HIDE DEF step
  <2> QED
    BY <2>2, <2>3
<1>11. TotalSoFar(ss, g)
  BY <1>9, <1>10 DEF TotalSoFar, Iterates
<1> QED
  BY <1>1, <1>6, <1>9, <1>11

\* Sums over sequences that agree on the first m agree there.
LEMMA TotalsAgree ==
    ASSUME NEW X, NEW ss \in Seq(Seq(X)), NEW tt \in Seq(Seq(X)), NEW g, NEW h,
           TotalSoFar(ss, g), TotalSoFar(tt, h),
           NEW m \in Nat, m <= Len(ss), m <= Len(tt), \A i \in 1 .. m : ss[i] = tt[i]
    PROVE  g[m] = h[m]
<1> DEFINE Same == {k \in Nat : k <= m => g[k] = h[k]}
<1>1. 0 \in Same
  BY DEF TotalSoFar
<1>2. ASSUME NEW k \in Nat, k \in Same PROVE k + 1 \in Same
  <2> SUFFICES ASSUME k + 1 <= m PROVE g[k + 1] = h[k + 1]
    OBVIOUS
  <2>1. /\ k + 1 \in 1 .. m /\ k + 1 \in 1 .. Len(ss) /\ k + 1 \in 1 .. Len(tt)
        /\ (k + 1) - 1 = k /\ g[k] = h[k]
    BY <1>2
  <2>2. g[k + 1] = g[k] + Len(ss[k + 1]) /\ h[k + 1] = h[k] + Len(tt[k + 1])
    BY <2>1 DEF TotalSoFar
  <2> QED
    BY <2>1, <2>2
<1>3. m \in Same
  <2> HIDE DEF Same
  <2> QED
    BY <1>1, <1>2, NatSetInduction
<1> QED
  BY <1>3

\* The sums, and that they are those of the prefixes.
LEMMA TotalsOfPrefixes ==
    ASSUME NEW X, NEW ss \in Seq(Seq(X))
    PROVE  \E g : /\ TotalSoFar(ss, g) /\ TotalLen(ss) = g[Len(ss)]
                  /\ \A k \in 0 .. Len(ss) : TotalLen(SubSeq(ss, 1, k)) = g[k]
<1>1. PICK g : TotalSoFar(ss, g) /\ TotalLen(ss) = g[Len(ss)]
  BY TotalSteps
<1>2. ASSUME NEW k \in 0 .. Len(ss) PROVE TotalLen(SubSeq(ss, 1, k)) = g[k]
  <2> DEFINE tt == SubSeq(ss, 1, k)
             Y == Seq(X)
  <2>1. /\ tt \in Seq(Y) /\ Len(tt) = k /\ k \in Nat /\ k <= Len(ss)
        /\ \A i \in 1 .. k : ss[i] = tt[i]
    <3>1. \A i \in 1 .. k : ss[i] \in Y
      OBVIOUS
    <3>2. k \in Nat /\ k <= Len(ss) /\ k - 1 + 1 = k
      OBVIOUS
    <3> HIDE DEF Y
    <3>3. /\ SubSeq(ss, 1, k) \in Seq(Y) /\ Len(SubSeq(ss, 1, k)) = IF 1 <= k THEN k - 1 + 1 ELSE 0
          /\ \A i \in 1 .. k - 1 + 1 : SubSeq(ss, 1, k)[i] = ss[1 + i - 1]
      BY <3>1, <3>2, SubSeqProperties
    <3> QED
      BY <3>2, <3>3
  <2> HIDE DEF tt
  <2>2. PICK h : TotalSoFar(tt, h) /\ TotalLen(tt) = h[k]
    BY <2>1, TotalSteps
  <2>3. g[k] = h[k]
    BY <1>1, <2>1, <2>2, TotalsAgree
  <2> QED
    BY <2>2, <2>3 DEF tt
<1> QED
  BY <1>1, <1>2

\* What the first k joined are, for each k.
JoinedSoFar(ss, X, f) ==
    /\ f \in [0 .. Len(ss) -> Seq(X)]
    /\ f[0] = <<>>
    /\ \A k \in 1 .. Len(ss) : f[k] = f[k - 1] \o ss[k]

\* FlattenSeq joins one sequence after the other.
LEMMA FlattenSteps ==
    ASSUME NEW X, NEW ss \in Seq(Seq(X))
    PROVE  \E f : JoinedSoFar(ss, X, f) /\ FlattenSeq(ss) = f[Len(ss)]
<1> DEFINE n == Len(ss)
           A == Seq(X)
           base == <<>>
           step == [p \in (1 .. n) \X A |-> p[2] \o ss[p[1]]]
           Body(f) == [i \in 1 .. n |-> IF i = 1 THEN ss[i] ELSE f[i - 1] \o ss[i]]
           iter == CHOOSE f : f = Body(f)
<1>1. n \in Nat /\ DOMAIN ss = 1 .. n /\ base \in A /\ \A i \in 1 .. n : ss[i] \in A
  OBVIOUS
<1>2. step \in [(1 .. n) \X A -> A]
  BY <1>1
<1>3. PICK f : Iterates(f, step, base, n, A)
  <2> HIDE DEF n, A, step, base
  <2> QED
    BY <1>1, <1>2, IterateExists
<1>4. ASSUME NEW k \in 1 .. n PROVE f[k] = f[k - 1] \o ss[k] /\ f[k] \in A /\ f[k - 1] \in A
  <2>1. k - 1 \in 0 .. n /\ k \in 0 .. n
    BY <1>1
  <2> HIDE DEF A
  <2>2. f[k - 1] \in A /\ f[k] \in A /\ f[k] = step[<<k, f[k - 1]>>]
    <3> HIDE DEF n, step, base
    <3> QED
      BY <1>3, <2>1 DEF Iterates
  <2>3. step[<<k, f[k - 1]>>] = f[k - 1] \o ss[k]
    <3> HIDE DEF n
    <3> QED
      BY <2>2
  <2> HIDE DEF step
  <2> QED
    BY <2>2, <2>3
<1>5. f \in [0 .. n -> A] /\ f[0] = <<>>
  BY <1>3 DEF Iterates
<1>6. JoinedSoFar(ss, X, f)
  BY <1>4, <1>5 DEF JoinedSoFar
<1>7. CASE n = 0
  <2>1. ss = <<>> /\ FlattenSeq(ss) = ss
    BY <1>1, <1>7 DEF FlattenSeq
  <2> QED
    BY <1>5, <1>6, <1>7, <2>1
<1>8. CASE n # 0
  <2> DEFINE e == [i \in 1 .. n |-> f[i]]
  <2>1. ASSUME NEW i \in 1 .. n PROVE e[i] = Body(e)[i]
    <3>1. CASE i = 1
      <4>0. 1 \in 1 .. n /\ 1 - 1 = 0
        BY <3>1
      <4>1. f[1] = <<>> \o ss[1] /\ ss[1] \in Seq(X)
        <5> HIDE DEF n
        <5> QED
          BY <1>1, <1>4, <1>5, <4>0
      <4> HIDE DEF n
      <4> QED
        BY <3>1, <4>1, ConcatEmptySeq
    <3>2. CASE i # 1
      <4>1. i - 1 \in 1 .. n
        BY <1>1, <3>2
      <4> HIDE DEF n
      <4> QED
        BY <1>4, <3>2, <4>1
    <3> QED
      BY <3>1, <3>2
  <2>2. e = Body(e)
    <3> HIDE DEF n
    <3> QED
      BY <2>1
  <2>3. iter = Body(iter)
    <3> HIDE DEF Body, e
    <3> QED
      BY <2>2
  <2>4. FlattenSeq(ss) = iter[n]
    BY <1>8 DEF FlattenSeq
  <2> HIDE DEF iter
  <2> DEFINE Same == {k \in Nat : k + 1 <= n => iter[k + 1] = f[k + 1]}
  <2>5. 0 \in Same
    <3>1. 1 \in 1 .. n /\ 0 + 1 = 1 /\ 1 - 1 = 0
      BY <1>1, <1>8
    <3>2. iter[1] = ss[1]
      BY <2>3, <3>1
    <3>3. f[1] = <<>> \o ss[1] /\ ss[1] \in Seq(X)
      <4> HIDE DEF n, Body
      <4> QED
        BY <1>1, <1>4, <1>5, <3>1
    <3>4. <<>> \o ss[1] = ss[1]
      BY <3>3, ConcatEmptySeq
    <3> HIDE DEF Body, n
    <3> QED
      BY <3>1, <3>2, <3>3, <3>4
  <2>6. ASSUME NEW k \in Nat, k \in Same PROVE k + 1 \in Same
    <3> SUFFICES ASSUME (k + 1) + 1 <= n PROVE iter[(k + 1) + 1] = f[(k + 1) + 1]
      OBVIOUS
    <3> DEFINE m == (k + 1) + 1
    <3>1. m \in 1 .. n /\ m # 1 /\ m - 1 = k + 1 /\ iter[m - 1] = f[m - 1]
      BY <1>1, <2>6
    <3> HIDE DEF m
    <3>2. iter[m] = iter[m - 1] \o ss[m]
      BY <2>3, <3>1
    <3>3. iter[m] = f[m]
      BY <1>4, <3>1, <3>2
    <3> QED
      BY <3>3 DEF m
  <2>7. n - 1 \in Nat /\ (n - 1) + 1 = n
    BY <1>1, <1>8
  <2>8. n - 1 \in Same
    <3> HIDE DEF Same, n
    <3> QED
      BY <2>5, <2>6, <2>7, NatSetInduction
  <2>9. iter[n] = f[n]
    BY <1>1, <2>7, <2>8
  <2> QED
    BY <1>6, <2>4, <2>9
<1> QED
  BY <1>7, <1>8

\* Where each element of each sequence is among those joined: after all of the
\* sequences before.
Joined(ss, X, g, joined) ==
    /\ joined \in Seq(X) /\ Len(joined) = g[Len(ss)]
    /\ \A j \in 1 .. Len(ss) : \A i \in 1 .. Len(ss[j]) :
          g[j - 1] + i \in 1 .. Len(joined) /\ joined[g[j - 1] + i] = ss[j][i]

LEMMA FlattenFacts ==
    ASSUME NEW X, NEW ss \in Seq(Seq(X)), NEW g, TotalSoFar(ss, g)
    PROVE  Joined(ss, X, g, FlattenSeq(ss))
<1> DEFINE n == Len(ss)
<1>1. n \in Nat /\ \A k \in 1 .. n : ss[k] \in Seq(X) /\ Len(ss[k]) \in Nat
  OBVIOUS
<1>2. PICK f : JoinedSoFar(ss, X, f) /\ FlattenSeq(ss) = f[n]
  BY FlattenSteps
<1>3. /\ \A k \in 0 .. n : f[k] \in Seq(X) /\ g[k] \in Nat
      /\ f[0] = <<>> /\ g[0] = 0
      /\ \A k \in 1 .. n : f[k] = f[k - 1] \o ss[k] /\ g[k] = g[k - 1] + Len(ss[k])
  BY <1>2 DEF JoinedSoFar, TotalSoFar
<1> DEFINE Holds(k) == /\ Len(f[k]) = g[k]
                       /\ \A j \in 1 .. k : \A i \in 1 .. Len(ss[j]) :
                            g[j - 1] + i \in 1 .. g[k] /\ f[k][g[j - 1] + i] = ss[j][i]
           Right == {k \in Nat : k <= n => Holds(k)}
<1>4. 0 \in Right
  BY <1>3
<1>5. ASSUME NEW k \in Nat, k \in Right PROVE k + 1 \in Right
  <2> SUFFICES ASSUME k + 1 <= n PROVE Holds(k + 1)
    OBVIOUS
  <2> DEFINE m == k + 1
  <2>1. m \in 1 .. n /\ m - 1 = k /\ k \in 0 .. n /\ m \in 0 .. n /\ k <= n
    BY <1>1
  <2>2. Holds(k)
    BY <1>5, <2>1
  <2>3. f[m] = f[k] \o ss[m] /\ g[m] = g[k] + Len(ss[m])
    BY <1>3, <2>1
  <2>4. /\ f[k] \in Seq(X) /\ ss[m] \in Seq(X) /\ Len(ss[m]) \in Nat /\ g[k] \in Nat
        /\ Len(f[k]) = g[k]
    BY <1>1, <1>3, <2>1, <2>2
  <2>5. /\ Len(f[m]) = g[k] + Len(ss[m])
        /\ \A i \in 1 .. g[k] + Len(ss[m]) :
              f[m][i] = IF i <= g[k] THEN f[k][i] ELSE ss[m][i - g[k]]
    <3> HIDE DEF m, n
    <3>1. /\ Len(f[k] \o ss[m]) = Len(f[k]) + Len(ss[m])
          /\ \A i \in 1 .. Len(f[k]) + Len(ss[m]) : (f[k] \o ss[m])[i] =
                   IF i <= Len(f[k]) THEN f[k][i] ELSE ss[m][i - Len(f[k])]
      BY <2>4, ConcatProperties
    <3> QED
      BY <2>3, <2>4, <3>1
  <2>6. ASSUME NEW j \in 1 .. m, NEW i \in 1 .. Len(ss[j])
        PROVE  g[j - 1] + i \in 1 .. g[m] /\ f[m][g[j - 1] + i] = ss[j][i]
    <3>1. CASE j = m
      <4>1. g[j - 1] + i = g[k] + i /\ i \in 1 .. Len(ss[m]) /\ i \in Nat /\ i >= 1
        BY <2>1, <2>4, <3>1
      <4> HIDE DEF m, n
      <4>2. g[k] + i \in 1 .. g[k] + Len(ss[m]) /\ ~ (g[k] + i <= g[k]) /\ (g[k] + i) - g[k] = i
        <5> DEFINE a == g[k]
                   l == Len(ss[m])
        <5>1. a \in Nat /\ l \in Nat /\ i \in 1 .. l
          BY <2>4, <4>1
        <5> HIDE DEF a, l
        <5>2. a + i \in 1 .. a + l /\ ~ (a + i <= a) /\ (a + i) - a = i
          BY <5>1
        <5> QED
          BY <5>2 DEF a, l
      <4>3. f[m][g[k] + i] = ss[m][i]
        BY <2>5, <4>2
      <4> QED
        BY <2>3, <3>1, <4>1, <4>2, <4>3
    <3>2. CASE j # m
      <4>1. j \in 1 .. k
        BY <2>1, <3>2
      <4> DEFINE p == g[j - 1] + i
      <4>2. p \in 1 .. g[k] /\ f[k][p] = ss[j][i]
        BY <2>2, <4>1
      <4> HIDE DEF m, n, p
      <4>3. p \in 1 .. g[k] + Len(ss[m]) /\ p <= g[k]
        <5> DEFINE a == g[k]
                   l == Len(ss[m])
        <5>1. a \in Nat /\ l \in Nat /\ p \in 1 .. a
          BY <2>4, <4>2
        <5> HIDE DEF a, l
        <5>2. p \in 1 .. a + l /\ p <= a
          BY <5>1
        <5> QED
          BY <5>2 DEF a, l
      <4>4. f[m][p] = f[k][p]
        BY <2>5, <4>3
      <4> QED
        BY <2>3, <4>2, <4>3, <4>4 DEF p
    <3> QED
      BY <3>1, <3>2
  <2>7. Len(f[m]) = g[m]
    BY <2>3, <2>5
  <2> HIDE DEF m, n
  <2>8. Holds(m)
    BY <2>6, <2>7
  <2> QED
    BY <2>8 DEF m
<1>6. n \in Right
  <2> HIDE DEF Right
  <2> QED
    BY <1>1, <1>4, <1>5, NatSetInduction
<1>7. Holds(n) /\ f[n] \in Seq(X)
  BY <1>1, <1>3, <1>6
<1> HIDE DEF n
<1>8. FlattenSeq(ss) = f[n] /\ n = Len(ss)
  BY <1>2 DEF n
<1>9. Joined(ss, X, g, f[n])
  BY <1>7, <1>8 DEF Joined
<1> QED
  BY <1>8, <1>9

\* So many sequences of at most b each are together at most that many times b.
LEMMA TotalAtMost ==
    ASSUME NEW X, NEW ss \in Seq(Seq(X)), NEW g, TotalSoFar(ss, g),
           NEW b \in Nat, \A k \in 1 .. Len(ss) : Len(ss[k]) <= b
    PROVE  g[Len(ss)] <= Len(ss) * b
<1> DEFINE n == Len(ss)
           Right == {k \in Nat : k <= n => g[k] <= k * b}
<1>1. n \in Nat /\ \A k \in 1 .. n : Len(ss[k]) \in Nat
  OBVIOUS
<1>2. 0 \in Right
  BY DEF TotalSoFar
<1>3. ASSUME NEW k \in Nat, k \in Right PROVE k + 1 \in Right
  <2> SUFFICES ASSUME k + 1 <= n PROVE g[k + 1] <= (k + 1) * b
    OBVIOUS
  <2>1. k + 1 \in 1 .. n /\ (k + 1) - 1 = k /\ k \in 0 .. n /\ g[k] <= k * b
    BY <1>1, <1>3
  <2>2. g[k + 1] = g[k] + Len(ss[k + 1]) /\ g[k] \in Nat
    BY <2>1 DEF TotalSoFar
  <2>3. Len(ss[k + 1]) <= b /\ Len(ss[k + 1]) \in Nat
    BY <1>1, <2>1
  <2>4. (k + 1) * b = k * b + b /\ k * b \in Nat
    OBVIOUS
  <2> DEFINE x == g[k]
             l == Len(ss[k + 1])
             kb == k * b
  <2>5. x \in Nat /\ l \in Nat /\ kb \in Nat /\ x <= kb /\ l <= b
    BY <2>1, <2>2, <2>3, <2>4
  <2> HIDE DEF x, l, kb
  <2>6. x + l <= kb + b
    BY <2>5
  <2> QED
    BY <2>2, <2>4, <2>6 DEF x, l, kb
<1>4. n \in Right
  <2> HIDE DEF Right
  <2> QED
    BY <1>1, <1>2, <1>3, NatSetInduction
<1> QED
  BY <1>1, <1>4

\* Clip gives the first n elements, or all.
LEMMA ClipFacts ==
    ASSUME NEW X, NEW s \in Seq(X), NEW n \in Nat
    PROVE  /\ Clip(s, n) \in Seq(X) /\ Len(Clip(s, n)) = Smaller(n, Len(s))
           /\ Len(Clip(s, n)) <= n /\ Len(Clip(s, n)) <= Len(s)
           /\ \A i \in 1 .. Len(Clip(s, n)) : Clip(s, n)[i] = s[i]
           /\ Len(s) <= n => Clip(s, n) = s
<1> DEFINE m == Smaller(n, Len(s))
           t == SubSeq(s, 1, m)
<1>1. m \in Nat /\ m <= n /\ m <= Len(s) /\ Len(s) \in Nat /\ (Len(s) <= n => m = Len(s))
  BY DEF Smaller
<1>2. Clip(s, n) = t
  BY DEF Clip
<1> HIDE DEF m
<1>3. 1 \in Int /\ m \in Int /\ m - 1 + 1 = m /\ (IF 1 <= m THEN m - 1 + 1 ELSE 0) = m
  BY <1>1
<1>4. \A i \in 1 .. m : s[i] \in X /\ 1 + i - 1 = i
  BY <1>1
<1>5. t \in Seq(X) /\ Len(t) = m /\ \A i \in 1 .. m : t[i] = s[i]
  <2>1. /\ SubSeq(s, 1, m) \in Seq(X) /\ Len(SubSeq(s, 1, m)) = IF 1 <= m THEN m - 1 + 1 ELSE 0
        /\ \A i \in 1 .. m - 1 + 1 : SubSeq(s, 1, m)[i] = s[1 + i - 1]
    BY <1>3, <1>4, SubSeqProperties
  <2> QED
    BY <1>3, <1>4, <2>1
<1>6. m = Len(s) => t = s
  BY SubSeqFull
<1> HIDE DEF t
<1>7. Len(t) = Smaller(n, Len(s))
  BY <1>5 DEF m
<1> QED
  BY <1>1, <1>2, <1>5, <1>6, <1>7

\* s is a, then b, then c.
InTurn(X, a, b, c, s) ==
    /\ s \in Seq(X) /\ Len(s) = Len(a) + Len(b) + Len(c)
    /\ \A i \in 1 .. Len(a) : i \in 1 .. Len(s) /\ s[i] = a[i]
    /\ \A i \in 1 .. Len(b) : Len(a) + i \in 1 .. Len(s) /\ s[Len(a) + i] = b[i]
    /\ \A i \in 1 .. Len(c) : s[Len(a) + Len(b) + i] = c[i]

LEMMA ThreeJoined ==
    ASSUME NEW X, NEW a \in Seq(X), NEW b \in Seq(X), NEW c \in Seq(X)
    PROVE  InTurn(X, a, b, c, a \o b \o c)
<1> DEFINE u == a \o b
           s == u \o c
           la == Len(a)
           lb == Len(b)
           lc == Len(c)
<1>1. la \in Nat /\ lb \in Nat /\ lc \in Nat
  OBVIOUS
<1>2. /\ u \in Seq(X) /\ Len(u) = la + lb
      /\ \A i \in 1 .. la + lb : u[i] = IF i <= la THEN a[i] ELSE b[i - la]
  BY ConcatProperties
<1> HIDE DEF u
<1>3. /\ s \in Seq(X) /\ Len(s) = Len(u) + lc
      /\ \A i \in 1 .. Len(u) + lc : s[i] = IF i <= Len(u) THEN u[i] ELSE c[i - Len(u)]
  <2>1. u \in Seq(X) /\ c \in Seq(X)
    BY <1>2
  <2>2. u \o c \in Seq(X) /\ Len(u \o c) = Len(u) + Len(c)
    BY <2>1
  <2>3. ASSUME NEW i \in 1 .. Len(u) + Len(c)
        PROVE  (u \o c)[i] = IF i <= Len(u) THEN u[i] ELSE c[i - Len(u)]
    BY <2>1
  <2> QED
    BY <2>2, <2>3
<1> HIDE DEF s, la, lb, lc
<1>4. Len(s) = la + lb + lc
  BY <1>2, <1>3
<1>5. ASSUME NEW i \in 1 .. la PROVE i \in 1 .. Len(s) /\ s[i] = a[i]
  <2>1. i \in 1 .. la + lb /\ i <= la /\ i \in 1 .. (la + lb) + lc /\ i <= la + lb /\ i \in 1 .. la + lb + lc
    BY <1>1
  <2>2. s[i] = u[i] /\ u[i] = a[i]
    BY <1>2, <1>3, <2>1
  <2> QED
    BY <1>4, <2>1, <2>2
<1>6. ASSUME NEW i \in 1 .. lb PROVE la + i \in 1 .. Len(s) /\ s[la + i] = b[i]
  <2> DEFINE p == la + i
  <2>1. /\ p \in 1 .. la + lb /\ ~ (p <= la) /\ p - la = i /\ p \in 1 .. (la + lb) + lc
        /\ p <= la + lb /\ p \in 1 .. la + lb + lc
    BY <1>1
  <2> HIDE DEF p
  <2>2. s[p] = u[p] /\ u[p] = b[i]
    BY <1>2, <1>3, <2>1
  <2> QED
    BY <1>4, <2>1, <2>2 DEF p
<1>7. ASSUME NEW i \in 1 .. lc PROVE s[la + lb + i] = c[i]
  <2> DEFINE p == la + lb + i
  <2>1. p \in 1 .. (la + lb) + lc /\ ~ (p <= la + lb) /\ p - (la + lb) = i
    BY <1>1
  <2> HIDE DEF p
  <2>2. s[p] = c[i]
    BY <1>2, <1>3, <2>1
  <2> QED
    BY <2>2 DEF p
<1>8. InTurn(X, a, b, c, s)
  BY <1>3, <1>4, <1>5, <1>6, <1>7 DEF InTurn, la, lb, lc
<1> QED
  BY <1>8 DEF s, u

\* A part begins with a mask, and with what an option says first.
Begins(part, opt) ==
    /\ Len(part) >= 1 /\ part[1] = Mask
    /\ \A i \in 1 .. Len(opt) : i < OptionLeast => i + 1 <= Len(part) /\ part[i + 1] = opt[i]

\* An option that is marked, and cut to no less than OptionLeast.
LEMMA MarkedBegins ==
    ASSUME NEW X, Mask \in X, NEW opt \in Seq(X), NEW n \in Nat, OptionLeast <= n,
           NEW marked, marked = <<Mask>> \o Clip(opt, OptionCap)
    PROVE  /\ marked \in Seq(X) /\ Begins(marked, opt)
           /\ Clip(marked, n) \in Seq(X) /\ Begins(Clip(marked, n), opt)
<1> DEFINE t == Clip(opt, OptionCap)
           u == Clip(marked, n)
<1>1. OptionCap \in Nat /\ OptionCap = 48 /\ OptionLeast = 4
  BY DEF OptionCap, OptionLeast
<1>2. /\ t \in Seq(X) /\ Len(t) = Smaller(48, Len(opt)) /\ Len(opt) \in Nat
      /\ \A i \in 1 .. Len(t) : t[i] = opt[i]
  BY <1>1, ClipFacts
<1> HIDE DEF t
<1>3. marked = <<Mask>> \o t
  BY DEF t
<1>4. /\ marked \in Seq(X) /\ Len(marked) = Len(t) + 1 /\ marked[1] = Mask
      /\ \A k \in 2 .. Len(marked) : marked[k] = t[k - 1]
  <2> DEFINE x == Mask
  <2>1. x \in X /\ marked = <<x>> \o t
    BY <1>3
  <2> HIDE DEF x
  <2>2. /\ marked \in Seq(X) /\ Len(marked) = Len(t) + 1 /\ Head(marked) = x /\ marked[1] = x
        /\ \A k \in 2 .. Len(marked) : marked[k] = t[k - 1] /\ k - 1 \in 1 .. Len(t)
        /\ \A k \in 1 .. Len(t) : t[k] \in ToSet(marked)
        /\ x \in ToSet(marked)
    BY <1>2, <2>1, InFront
  <2> QED
    BY <2>2 DEF x
<1>5. /\ u \in Seq(X) /\ Len(u) = Smaller(n, Len(marked))
      /\ \A i \in 1 .. Len(u) : u[i] = marked[i]
  BY <1>4, ClipFacts
<1> HIDE DEF u
<1>6. Len(t) \in Nat /\ Len(marked) >= 1 /\ Len(u) >= 1 /\ Len(u) <= Len(marked) /\ u[1] = Mask
  <2>1. Len(t) \in Nat /\ Len(u) \in Nat /\ Len(marked) \in Nat
    BY <1>2, <1>4, <1>5
  <2>2. Len(marked) >= 1 /\ Len(u) >= 1 /\ Len(u) <= Len(marked)
    BY <1>1, <1>4, <1>5, <2>1 DEF Smaller
  <2>3. 1 \in 1 .. Len(u)
    BY <2>1, <2>2
  <2> QED
    BY <1>4, <1>5, <2>1, <2>2, <2>3
<1>7. ASSUME NEW i \in 1 .. Len(opt), i < OptionLeast
      PROVE  /\ i + 1 <= Len(marked) /\ marked[i + 1] = opt[i]
             /\ i + 1 <= Len(u) /\ u[i + 1] = opt[i]
  <2>1. i \in Nat /\ i >= 1 /\ i < 4 /\ i <= Len(opt)
    BY <1>1, <1>2, <1>7
  <2>2. i <= Len(t)
    BY <1>2, <2>1 DEF Smaller
  <2>3. i + 1 <= Len(marked)
    BY <1>4, <1>6, <2>1, <2>2
  <2>4. i + 1 <= Len(u)
    <3>1. Len(marked) \in Nat
      BY <1>4
    <3> QED
      BY <1>1, <1>5, <2>1, <2>3, <3>1 DEF Smaller
  <2>5. /\ i \in 1 .. Len(t) /\ i + 1 \in 2 .. Len(marked) /\ (i + 1) - 1 = i
        /\ i + 1 \in 1 .. Len(u)
    <3>1. Len(marked) \in Nat /\ Len(u) \in Nat /\ Len(t) \in Nat
      BY <1>2, <1>4, <1>5
    <3> QED
      BY <2>1, <2>2, <2>3, <2>4, <3>1
  <2>6. marked[i + 1] = opt[i]
    BY <1>2, <1>4, <2>5
  <2>7. u[i + 1] = marked[i + 1]
    BY <1>5, <2>5
  <2> QED
    BY <2>3, <2>4, <2>6, <2>7
<1> QED
  BY <1>4, <1>5, <1>6, <1>7 DEF Begins, u

\* Division rounds down.
LEMMA DivideFacts ==
    ASSUME NEW m \in Nat, NEW k \in Nat \ {0}
    PROVE  /\ m \div k \in Nat /\ (m \div k) * k <= m
           /\ \A q \in Nat : q * k <= m => q <= m \div k
<1> DEFINE d == m \div k
           r == m % k
<1>1. m = k * d + r /\ r \in 0 .. (k - 1) /\ d \in Int
  OBVIOUS
<1>2. d \in Nat
  OBVIOUS
<1> HIDE DEF d, r
<1>3. d * k = k * d /\ d * k \in Nat /\ (d + 1) * k = k * d + k
  BY <1>2
<1>4. d * k <= m /\ m < (d + 1) * k
  <2> DEFINE p == k * d
  <2>1. p \in Int /\ r \in Int /\ m = p + r /\ 0 <= r /\ r < k
    BY <1>1, <1>2
  <2> HIDE DEF p
  <2>2. p <= m /\ m < p + k
    BY <2>1
  <2> QED
    BY <1>3, <2>2 DEF p
<1>5. ASSUME NEW q \in Nat, q * k <= m PROVE q <= d
  <2> SUFFICES ASSUME d + 1 <= q PROVE FALSE
    BY <1>2
  <2>1. (d + 1) * k <= q * k /\ (d + 1) * k \in Nat /\ q * k \in Nat
    <3>1. d + 1 \in Nat /\ k <= k /\ k \in Nat
      BY <1>2
    <3> QED
      BY <3>1, TimesMonotone
  <2> QED
    BY <1>4, <1>5, <2>1
<1>6. d \in Nat /\ d * k <= m /\ \A q \in Nat : q * k <= m => q <= d
  BY <1>2, <1>4, <1>5
<1> QED
  BY <1>6 DEF d

\* The parts that options become: each its own mask and text; and together they
\* leave the head its reserve whenever all of them fit at their least.
PartsOf(X, meta, opts, parts) ==
    /\ parts \in Seq(Seq(X)) /\ Len(parts) = Len(opts)
    /\ \A j \in 1 .. Len(opts) : Begins(parts[j], opts[j])
    /\ OptionLeast * Len(opts) <= meta.headMax - HeadReserve
          => TotalLen(parts) <= meta.headMax - HeadReserve

LEMMA PartsFacts ==
    ASSUME NEW X, Mask \in X, NEW opts \in Seq(Seq(X)), opts # <<>>,
           NEW meta, meta.headMax \in Nat,
           NEW parts, parts = Squeezed(meta, Marked(opts))
    PROVE  PartsOf(X, meta, opts, parts)
<1> DEFINE n == Len(opts)
           marked == Marked(opts)
           per == PerOption(meta, n)
           cut == [j \in 1 .. n |-> Clip(marked[j], per)]
           m == meta.headMax - 16
           Y == Seq(X)
<1>1. n \in Nat /\ n >= 1 /\ DOMAIN opts = 1 .. n /\ \A j \in 1 .. n : opts[j] \in Y
  OBVIOUS
<1>2. OptionLeast = 4 /\ HeadReserve = 16 /\ m \in Int /\ m = meta.headMax - HeadReserve
  BY DEF OptionLeast, HeadReserve
<1>3. per \in Nat /\ OptionLeast <= per /\ (OptionLeast * n <= m => n * per <= m)
  <2> DEFINE d == m \div n
  <2>1. Larger(n, 1) = n
    <3> HIDE DEF n
    <3> QED
      BY <1>1 DEF Larger
  <2>2. per = Larger(4, d)
    <3> HIDE DEF n
    <3> QED
      BY <1>2, <2>1 DEF PerOption
  <2> HIDE DEF n, m, per
  <2>3. d \in Int
    BY <1>1, <1>2
  <2>4. per \in Nat /\ 4 <= per
    <3> HIDE DEF d
    <3> QED
      BY <2>2, <2>3 DEF Larger
  <2>5. ASSUME 4 * n <= m PROVE n * per <= m
    <3>1. m \in Nat /\ n \in Nat \ {0}
      BY <1>1, <1>2, <2>5
    <3>2. d \in Nat /\ d * n <= m /\ 4 <= d
      BY <2>5, <3>1, DivideFacts
    <3> HIDE DEF d
    <3>3. per = d
      BY <2>2, <3>2 DEF Larger
    <3> QED
      BY <1>1, <3>2, <3>3
  <2> QED
    BY <1>2, <2>4, <2>5
<1>4. marked = [j \in 1 .. n |-> <<Mask>> \o Clip(opts[j], OptionCap)]
  BY <1>1 DEF Marked
<1> HIDE DEF n, per, marked, m
<1>5. ASSUME NEW j \in 1 .. n
      PROVE  /\ marked[j] \in Y /\ Begins(marked[j], opts[j])
             /\ Clip(marked[j], per) \in Y /\ Begins(Clip(marked[j], per), opts[j])
             /\ Len(Clip(marked[j], per)) <= per
  <2> DEFINE o == opts[j]
             w == marked[j]
  <2>1. o \in Seq(X) /\ w = <<Mask>> \o Clip(o, OptionCap)
    BY <1>1, <1>4
  <2> HIDE DEF o, w
  <2>2. /\ w \in Seq(X) /\ Begins(w, o)
        /\ Clip(w, per) \in Seq(X) /\ Begins(Clip(w, per), o)
    BY <1>3, <2>1, MarkedBegins
  <2>3. Len(Clip(w, per)) <= per
    BY <1>3, <2>2, ClipFacts
  <2> QED
    BY <2>2, <2>3 DEF o, w
<1> HIDE DEF Y
<1>6. marked \in Seq(Y) /\ Len(marked) = n /\ DOMAIN marked = 1 .. n
  <2>1. marked \in [1 .. n -> Y]
    BY <1>4, <1>5
  <2> QED
    BY <1>1, <2>1
<1>7. cut \in Seq(Y) /\ Len(cut) = n /\ \A j \in 1 .. n : cut[j] = Clip(marked[j], per)
  <2>1. cut \in [1 .. n -> Y]
    BY <1>5
  <2> QED
    BY <1>1, <2>1
<1> HIDE DEF cut
<1>8. parts = IF meta.headMax - TotalLen(marked) >= HeadReserve THEN marked ELSE cut
  BY <1>6 DEF Squeezed, marked, cut, per
<1>9. CASE meta.headMax - TotalLen(marked) >= HeadReserve
  <2>1. parts = marked
    BY <1>8, <1>9
  <2>2. TotalLen(marked) \in Nat
    <3>1. PICK g : TotalSoFar(marked, g) /\ TotalLen(marked) = g[Len(marked)]
      BY <1>6, TotalSteps DEF Y
    <3> QED
      BY <1>1, <1>6, <3>1 DEF TotalSoFar
  <2>3. TotalLen(parts) <= meta.headMax - HeadReserve
    <3> DEFINE t == TotalLen(marked)
               h == meta.headMax
    <3>1. t \in Nat /\ h \in Nat /\ h - t >= 16
      BY <1>2, <1>9, <2>2
    <3> HIDE DEF t, h
    <3>2. t <= h - 16
      BY <3>1
    <3> QED
      BY <1>2, <2>1, <3>2 DEF t, h
  <2> QED
    BY <1>5, <1>6, <2>1, <2>3 DEF PartsOf, n, Y
<1>10. CASE ~ (meta.headMax - TotalLen(marked) >= HeadReserve)
  <2>1. parts = cut
    BY <1>8, <1>10
  <2>2. PICK g : TotalSoFar(cut, g) /\ TotalLen(cut) = g[Len(cut)]
    BY <1>7, TotalSteps DEF Y
  <2>3. g[Len(cut)] <= Len(cut) * per
    <3>1. \A k \in 1 .. Len(cut) : Len(cut[k]) <= per
      BY <1>5, <1>7
    <3>2. cut \in Seq(Seq(X)) /\ per \in Nat
      BY <1>3, <1>7 DEF Y
    <3> QED
      BY <2>2, <3>1, <3>2, TotalAtMost
  <2>4. g[Len(cut)] \in Nat
    BY <1>1, <1>7, <2>2 DEF TotalSoFar
  <2>5. OptionLeast * n <= m => TotalLen(parts) <= m
    <3> DEFINE np == n * per
               gl == g[Len(cut)]
    <3>1. np \in Nat /\ gl \in Nat /\ gl <= np /\ (OptionLeast * n <= m => np <= m) /\ TotalLen(parts) = gl
      BY <1>1, <1>3, <1>7, <2>1, <2>2, <2>3, <2>4
    <3> HIDE DEF np, gl
    <3> QED
      BY <1>2, <3>1
  <2>6. \A j \in 1 .. n : Begins(parts[j], opts[j])
    BY <1>5, <1>7, <2>1
  <2> QED
    BY <1>2, <1>7, <2>1, <2>5, <2>6 DEF PartsOf, n, Y
<1> QED
  BY <1>9, <1>10

\* What assemble puts together, by name.
Opening(fitted) == <<Cls>> \o fitted \o <<Sep>>
Question(fitted, parts) == Opening(fitted) \o FlattenSeq(parts) \o <<Sep>>
RoomLeft(meta, question) == Larger(0, meta.maxLen - Len(question) - 1)
MarkersOf(fitted, parts) ==
    [j \in DOMAIN parts |-> Len(Opening(fitted)) + TotalLen(SubSeq(parts, 1, j - 1))]
Whole(meta, question, state) == question \o Clip(state, RoomLeft(meta, question)) \o <<Sep>>

Pieces(meta, head, opts, parts, fitted, question, marker) ==
    /\ parts = Squeezed(meta, Marked(opts))
    /\ fitted = FittedHead(meta, head, Marked(opts))
    /\ question = Question(fitted, parts)
    /\ marker = MarkersOf(fitted, parts)

LEMMA AssembleIs ==
    ASSUME NEW meta, NEW head, NEW opts, NEW state, NEW parts, NEW fitted, NEW question, NEW marker,
           Pieces(meta, head, opts, parts, fitted, question, marker),
           NEW a, a = Assemble(meta, head, opts, state)
    PROVE  /\ a.ids = Clip(Whole(meta, question, state), meta.maxLen)
           /\ a.markers = Keep(marker, {p \in ToSet(marker) : Inside(meta, p)})
BY DEF Pieces, Assemble, Question, Opening, MarkersOf, Whole, RoomLeft

\* The question: the head from the second position on, and each part where the
\* lengths of those before it put it.
Asks(X, fitted, parts, g, question) ==
    /\ question \in Seq(X) /\ Len(question) = Len(fitted) + g[Len(parts)] + 3
    /\ Len(Opening(fitted)) = Len(fitted) + 2
    /\ \A i \in 1 .. Len(fitted) : i + 1 \in 1 .. Len(question) /\ question[i + 1] = fitted[i]
    /\ \A j \in 1 .. Len(parts) : \A i \in 1 .. Len(parts[j]) :
          /\ (Len(fitted) + 2) + (g[j - 1] + i) \in 1 .. Len(question)
          /\ question[(Len(fitted) + 2) + (g[j - 1] + i)] = parts[j][i]

LEMMA QuestionFacts ==
    ASSUME NEW X, Cls \in X, Sep \in X, NEW fitted \in Seq(X), NEW parts \in Seq(Seq(X)),
           NEW g, TotalSoFar(parts, g), NEW question, question = Question(fitted, parts)
    PROVE  Asks(X, fitted, parts, g, question)
<1> DEFINE c == <<Cls>>
           s == <<Sep>>
           front == Opening(fitted)
           joined == FlattenSeq(parts)
           h == Len(fitted)
<1>1. c \in Seq(X) /\ s \in Seq(X) /\ Len(c) = 1 /\ Len(s) = 1
  OBVIOUS
<1>2. Joined(parts, X, g, joined)
  BY FlattenFacts
<1>3. front = c \o fitted \o s /\ question = front \o joined \o s
  BY DEF Opening, Question
<1> HIDE DEF c, s, front, joined
<1>4. InTurn(X, c, fitted, s, front)
  <2>1. InTurn(X, c, fitted, s, c \o fitted \o s)
    BY <1>1, ThreeJoined
  <2> QED
    BY <1>3, <2>1
<1>5. front \in Seq(X) /\ joined \in Seq(X) /\ Len(joined) = g[Len(parts)]
  BY <1>2, <1>4 DEF InTurn, Joined
<1>6. InTurn(X, front, joined, s, question)
  <2>1. InTurn(X, front, joined, s, front \o joined \o s)
    BY <1>1, <1>5, ThreeJoined
  <2> QED
    BY <1>3, <2>1
<1>7. h \in Nat /\ Len(joined) \in Nat /\ Len(question) \in Nat
  BY <1>5, <1>6 DEF InTurn
<1>8. Len(front) = h + 2 /\ \A i \in 1 .. h : i + 1 \in 1 .. Len(front) /\ front[i + 1] = fitted[i]
  <2>1. Len(front) = 1 + h + 1
    BY <1>1, <1>4 DEF InTurn
  <2>2. ASSUME NEW i \in 1 .. h PROVE i + 1 \in 1 .. Len(front) /\ front[i + 1] = fitted[i]
    <3>1. 1 + i \in 1 .. Len(front) /\ front[1 + i] = fitted[i] /\ 1 + i = i + 1
      BY <1>1, <1>4, <1>7 DEF InTurn
    <3> QED
      BY <3>1
  <2> HIDE DEF h
  <2> QED
    BY <1>7, <2>1, <2>2
<1>9. Len(question) = h + g[Len(parts)] + 3
  <2>1. Len(question) = Len(front) + Len(joined) + 1
    BY <1>1, <1>6 DEF InTurn
  <2> HIDE DEF h
  <2> QED
    BY <1>5, <1>7, <1>8, <2>1
<1>10. ASSUME NEW i \in 1 .. h PROVE i + 1 \in 1 .. Len(question) /\ question[i + 1] = fitted[i]
  <2> HIDE DEF h
  <2>1. i + 1 \in 1 .. Len(front) /\ front[i + 1] = fitted[i]
    BY <1>8
  <2>2. i + 1 \in 1 .. Len(question) /\ question[i + 1] = front[i + 1]
    BY <1>6, <2>1 DEF InTurn
  <2> QED
    BY <2>1, <2>2
<1>11. ASSUME NEW j \in 1 .. Len(parts), NEW i \in 1 .. Len(parts[j])
       PROVE  /\ (h + 2) + (g[j - 1] + i) \in 1 .. Len(question)
              /\ question[(h + 2) + (g[j - 1] + i)] = parts[j][i]
  <2> DEFINE p == g[j - 1] + i
  <2>1. p \in 1 .. Len(joined) /\ joined[p] = parts[j][i]
    BY <1>2 DEF Joined
  <2> HIDE DEF p, h
  <2>2. Len(front) + p \in 1 .. Len(question) /\ question[Len(front) + p] = joined[p]
    BY <1>6, <2>1 DEF InTurn
  <2> QED
    BY <1>8, <2>1, <2>2 DEF p
<1> QED
  BY <1>6, <1>8, <1>9, <1>10, <1>11 DEF Asks, InTurn, front

\* The whole, before it is cut to max_len: the question, what the state gets of
\* the room that is left, and a separator.
WholeOf(X, meta, question, state, whole) ==
    /\ whole \in Seq(X)
    /\ Len(whole) = Len(question) + Smaller(RoomLeft(meta, question), Len(state)) + 1
    /\ \A i \in 1 .. Len(question) : i \in 1 .. Len(whole) /\ whole[i] = question[i]
    /\ \A i \in 1 .. Smaller(RoomLeft(meta, question), Len(state)) :
          Len(question) + i \in 1 .. Len(whole) /\ whole[Len(question) + i] = state[i]
    /\ whole[Len(whole)] = Sep
    /\ RoomLeft(meta, question) \in Nat

LEMMA WholeFacts ==
    ASSUME NEW X, Sep \in X, NEW question \in Seq(X), NEW state \in Seq(X),
           NEW meta, meta.maxLen \in Nat, NEW whole, whole = Whole(meta, question, state)
    PROVE  WholeOf(X, meta, question, state, whole)
<1> DEFINE room == RoomLeft(meta, question)
           t == Clip(state, room)
           s == <<Sep>>
<1>1. room \in Nat
  <2>1. Len(question) \in Nat
    OBVIOUS
  <2> QED
    BY <2>1 DEF RoomLeft, Larger
<1> HIDE DEF room
<1>2. /\ t \in Seq(X) /\ Len(t) = Smaller(room, Len(state))
      /\ \A i \in 1 .. Len(t) : t[i] = state[i]
  BY <1>1, ClipFacts
<1>3. s \in Seq(X) /\ Len(s) = 1 /\ s[1] = Sep
  OBVIOUS
<1> HIDE DEF s
<1>4. whole = question \o t \o s
  BY DEF Whole, room, s
<1> HIDE DEF t
<1>5. InTurn(X, question, t, s, whole)
  <2>1. InTurn(X, question, t, s, question \o t \o s)
    BY <1>2, <1>3, ThreeJoined
  <2> QED
    BY <1>4, <2>1
<1>6. whole[Len(whole)] = Sep
  <2>1. 1 \in 1 .. Len(s)
    BY <1>3
  <2>2. whole[Len(question) + Len(t) + 1] = s[1]
    BY <1>5, <2>1 DEF InTurn
  <2> QED
    BY <1>3, <1>5, <2>2 DEF InTurn
<1>7. WholeOf(X, meta, question, state, whole)
  BY <1>1, <1>2, <1>3, <1>5, <1>6 DEF WholeOf, InTurn, room
<1> QED
  BY <1>7

\* What is left of the head: all it can have of what the parts leave.
Fits(X, meta, head, parts, fitted) ==
    /\ fitted \in Seq(X) /\ \A i \in 1 .. Len(fitted) : fitted[i] = head[i]
    /\ Len(fitted) = Smaller(Larger(8, meta.headMax - TotalLen(parts)), Len(head))

\* The head that is asked has what the parts leave of head_max_len, and at least
\* HeadLeast.
LEMMA FittedFacts ==
    ASSUME NEW X, NEW head \in Seq(X), NEW meta, meta.headMax \in Nat,
           NEW marked, NEW parts, parts = Squeezed(meta, marked), TotalLen(parts) \in Nat,
           NEW fitted, fitted = FittedHead(meta, head, marked)
    PROVE  Fits(X, meta, head, parts, fitted)
<1> DEFINE t == TotalLen(parts)
           h == meta.headMax
           b == Larger(8, h - t)
<1>1. t \in Nat /\ h \in Nat
  OBVIOUS
<1>2. b \in Nat
  <2> HIDE DEF t, h
  <2> QED
    BY <1>1 DEF Larger
<1>3. fitted = Clip(head, b)
  BY DEF FittedHead, HeadLeast
<1> HIDE DEF b
<1>4. fitted \in Seq(X) /\ Len(fitted) = Smaller(b, Len(head)) /\ \A i \in 1 .. Len(fitted) : fitted[i] = head[i]
  BY <1>2, <1>3, ClipFacts
<1> QED
  BY <1>4 DEF Fits, b, h, t

\* The sums are those of the prefixes.
PrefixTotals(ss, g) == \A k \in 0 .. Len(ss) : TotalLen(SubSeq(ss, 1, k)) = g[k]

\* Markers are where the parts begin, counted from 0.
LEMMA MarkerFacts ==
    ASSUME NEW X, NEW fitted \in Seq(X), NEW parts \in Seq(Seq(X)), NEW g, TotalSoFar(parts, g),
           PrefixTotals(parts, g), Len(Opening(fitted)) = Len(fitted) + 2,
           NEW marker, marker = MarkersOf(fitted, parts)
    PROVE  /\ marker \in Seq(Nat) /\ Len(marker) = Len(parts)
           /\ \A j \in 1 .. Len(parts) : marker[j] = (Len(fitted) + 2) + g[j - 1] /\ g[j - 1] \in Nat
<1> DEFINE n == Len(parts)
           h == Len(fitted)
           t == [j \in 1 .. n |-> Len(Opening(fitted)) + TotalLen(SubSeq(parts, 1, j - 1))]
<1>1. n \in Nat /\ DOMAIN parts = 1 .. n /\ h \in Nat
  OBVIOUS
<1>2. marker = t
  BY <1>1 DEF MarkersOf
<1>3. ASSUME NEW j \in 1 .. n
      PROVE  t[j] = (h + 2) + g[j - 1] /\ g[j - 1] \in Nat /\ t[j] \in Nat
  <2>1. j - 1 \in 0 .. n
    BY <1>1
  <2>2. TotalLen(SubSeq(parts, 1, j - 1)) = g[j - 1] /\ g[j - 1] \in Nat
    BY <2>1 DEF TotalSoFar, PrefixTotals
  <2> HIDE DEF h
  <2>3. t[j] = (h + 2) + g[j - 1]
    BY <2>2 DEF h
  <2>4. (h + 2) + g[j - 1] \in Nat
    <3> DEFINE q == g[j - 1]
    <3>1. q \in Nat
      BY <2>2
    <3> HIDE DEF q
    <3>2. (h + 2) + q \in Nat
      BY <1>1, <3>1
    <3> QED
      BY <3>2 DEF q
  <2> QED
    BY <2>2, <2>3, <2>4
<1>4. t \in [1 .. n -> Nat] /\ DOMAIN t = 1 .. n
  <2> HIDE DEF n, t
  <2>1. DOMAIN t = 1 .. n /\ t = [j \in 1 .. n |-> t[j]]
    BY DEF t
  <2> QED
    BY <1>3, <2>1
<1> HIDE DEF t
<1>5. t \in Seq(Nat) /\ Len(t) = n
  <2> HIDE DEF n
  <2> QED
    BY <1>1, <1>4
<1> QED
  BY <1>2, <1>3, <1>5

\* An input of assemble: a question with its options, and a state.
AssembleInput(X, meta, head, opts, state) ==
    /\ Cls \in X /\ Sep \in X /\ Mask \in X
    /\ head \in Seq(X) /\ state \in Seq(X) /\ opts \in Seq(Seq(X)) /\ opts # <<>>
    /\ meta.maxLen \in Nat /\ meta.headMax \in Nat

\* Each option is scored at a mask of its own that its text follows.
Scores(meta, opts, a) ==
    /\ Len(a.ids) <= meta.maxLen
    /\ Len(a.markers) = Len(opts) =>
        \A j \in 1 .. Len(opts) :
            LET at == a.markers[j] + 1 IN
            /\ at \in 1 .. Len(a.ids) /\ a.ids[at] = Mask
            /\ \A i \in 1 .. Len(opts[j]) :
                  i < OptionLeast /\ at + i \in 1 .. Len(a.ids) => a.ids[at + i] = opts[j][i]

LEMMA AssembleScores ==
    ASSUME NEW X, NEW meta, NEW head, NEW opts, NEW state, AssembleInput(X, meta, head, opts, state),
           NEW a, a = Assemble(meta, head, opts, state)
    PROVE  Scores(meta, opts, a) /\ a.ids \in Seq(X)
<1> DEFINE n == Len(opts)
           parts == Squeezed(meta, Marked(opts))
           fitted == FittedHead(meta, head, Marked(opts))
           question == Question(fitted, parts)
           marker == MarkersOf(fitted, parts)
           whole == Whole(meta, question, state)
           S == {p \in ToSet(marker) : Inside(meta, p)}
           ids == a.ids
           h == Len(fitted)
           max == meta.maxLen
<1>1. /\ Cls \in X /\ Sep \in X /\ Mask \in X
      /\ head \in Seq(X) /\ state \in Seq(X) /\ opts \in Seq(Seq(X)) /\ opts # <<>>
      /\ max \in Nat /\ meta.headMax \in Nat /\ n \in Nat
  BY DEF AssembleInput
<1>2. ids = Clip(whole, max) /\ a.markers = Keep(marker, S)
  <2>1. Pieces(meta, head, opts, parts, fitted, question, marker)
    BY DEF Pieces
  <2> HIDE DEF parts, fitted, question, marker
  <2> QED
    BY <2>1, AssembleIs
<1>3. PartsOf(X, meta, opts, parts)
  BY <1>1, PartsFacts
<1> DEFINE marked == Marked(opts)
<1>4. parts = Squeezed(meta, marked) /\ fitted = FittedHead(meta, head, marked)
  OBVIOUS
<1>5. question = Question(fitted, parts) /\ marker = MarkersOf(fitted, parts) /\ whole = Whole(meta, question, state)
  OBVIOUS
<1> HIDE DEF marked, whole, marker, question, fitted, parts, max
<1>6. /\ parts \in Seq(Seq(X)) /\ Len(parts) = n /\ \A j \in 1 .. n : Begins(parts[j], opts[j])
  BY <1>3 DEF PartsOf
<1>7. PICK g : TotalSoFar(parts, g) /\ TotalLen(parts) = g[Len(parts)] /\ PrefixTotals(parts, g)
  BY <1>6, TotalsOfPrefixes DEF PrefixTotals
<1>8. fitted \in Seq(X) /\ h \in Nat
  <2>1. TotalLen(parts) \in Nat
    <3> HIDE DEF n
    <3> QED
      BY <1>1, <1>6, <1>7 DEF TotalSoFar
  <2>2. Fits(X, meta, head, parts, fitted)
    BY <1>1, <1>4, <2>1, FittedFacts
  <2> QED
    BY <2>2 DEF Fits
<1>9. Asks(X, fitted, parts, g, question)
  BY <1>1, <1>5, <1>6, <1>7, <1>8, QuestionFacts
<1>10. question \in Seq(X) /\ Len(Opening(fitted)) = h + 2
  BY <1>9 DEF Asks
<1>11. WholeOf(X, meta, question, state, whole)
  BY <1>1, <1>5, <1>10, WholeFacts DEF max
<1>12. whole \in Seq(X) /\ Len(whole) \in Nat
  BY <1>11 DEF WholeOf
<1>13. /\ ids \in Seq(X) /\ Len(ids) = Smaller(max, Len(whole)) /\ Len(ids) <= max
       /\ \A i \in 1 .. Len(ids) : ids[i] = whole[i]
  <2> HIDE DEF ids
  <2> QED
    BY <1>1, <1>2, <1>12, ClipFacts
<1>14. /\ marker \in Seq(Nat) /\ Len(marker) = n
       /\ \A j \in 1 .. n : marker[j] = (h + 2) + g[j - 1] /\ g[j - 1] \in Nat
  <2>1. /\ marker \in Seq(Nat) /\ Len(marker) = Len(parts)
        /\ \A j \in 1 .. Len(parts) : marker[j] = (Len(fitted) + 2) + g[j - 1] /\ g[j - 1] \in Nat
    BY <1>5, <1>6, <1>7, <1>8, <1>10, MarkerFacts
  <2> QED
    BY <1>6, <2>1
<1> HIDE DEF ids, h
<1>15. ASSUME Len(a.markers) = n, NEW j \in 1 .. n
       PROVE  LET at == a.markers[j] + 1 IN
              /\ at \in 1 .. Len(ids) /\ ids[at] = Mask
              /\ \A i \in 1 .. Len(opts[j]) :
                    i < OptionLeast /\ at + i \in 1 .. Len(ids) => ids[at + i] = opts[j][i]
  <2> DEFINE at == a.markers[j] + 1
             part == parts[j]
             b == g[j - 1]
  <2>1. Keep(marker, S) = marker /\ \A i \in 1 .. Len(marker) : marker[i] \in S
    <3> HIDE DEF S
    <3>1. Len(Keep(marker, S)) = Len(marker)
      BY <1>2, <1>14, <1>15
    <3> QED
      BY <1>14, <3>1, KeepAll
  <2>2. a.markers[j] = (h + 2) + b /\ b \in Nat /\ a.markers[j] < max
    BY <1>2, <1>14, <2>1 DEF Inside, max
  <2>3. Begins(part, opts[j]) /\ part \in Seq(X)
    BY <1>6
  <2>4. Len(part) \in Nat /\ Len(opts[j]) \in Nat
    <3>1. Len(part) \in Nat
      BY <2>3
    <3>2. opts[j] \in Seq(X)
      BY <1>1
    <3> HIDE DEF n, part
    <3> QED
      BY <3>1, <3>2
  <2>5. ASSUME NEW i \in 1 .. Len(part)
        PROVE  (h + 2) + (b + i) \in 1 .. Len(whole) /\ whole[(h + 2) + (b + i)] = part[i]
    <3> DEFINE p == (h + 2) + (b + i)
    <3>1. p \in 1 .. Len(question) /\ question[p] = part[i]
      BY <1>6, <1>9 DEF Asks, h
    <3> HIDE DEF p
    <3>2. p \in 1 .. Len(whole) /\ whole[p] = question[p]
      BY <1>11, <3>1 DEF WholeOf
    <3> QED
      BY <3>1, <3>2 DEF p
  <2> HIDE DEF b, at, part
  <2>6. at = (h + 2) + (b + 1) /\ at \in Nat /\ at <= max
    BY <1>1, <1>8, <2>2 DEF at
  <2>7. 1 \in 1 .. Len(part) /\ part[1] = Mask
    BY <2>3, <2>4 DEF Begins
  <2>8. at \in 1 .. Len(whole) /\ whole[at] = Mask
    BY <2>5, <2>6, <2>7
  <2>9. at \in 1 .. Len(ids)
    <3> DEFINE lw == Len(whole)
               li == Len(ids)
    <3>1. /\ lw \in Nat /\ max \in Nat /\ at \in 1 .. lw /\ at <= max
          /\ li = IF max < lw THEN max ELSE lw
      BY <1>1, <1>12, <1>13, <2>6, <2>8 DEF Smaller
    <3> HIDE DEF lw, li
    <3>2. at \in 1 .. li
      BY <3>1
    <3> QED
      BY <3>2 DEF li
  <2>10. ids[at] = Mask
    BY <1>13, <2>8, <2>9
  <2>11. ASSUME NEW i \in 1 .. Len(opts[j]), i < OptionLeast, at + i \in 1 .. Len(ids)
         PROVE  ids[at + i] = opts[j][i]
    <3>1. i + 1 <= Len(part) /\ part[i + 1] = opts[j][i] /\ i \in Nat
      <4>1. i \in Nat
        BY <2>4
      <4> DEFINE o == opts[j]
      <4>2. Begins(part, o) /\ i \in 1 .. Len(o)
        BY <2>3
      <4> HIDE DEF o
      <4>3. i + 1 <= Len(part) /\ part[i + 1] = o[i]
        BY <2>11, <4>2 DEF Begins
      <4> QED
        BY <4>1, <4>3 DEF o
    <3>2. i + 1 \in 1 .. Len(part)
      BY <2>4, <3>1
    <3>3. whole[(h + 2) + (b + (i + 1))] = part[i + 1]
      BY <2>5, <3>2
    <3>4. (h + 2) + (b + (i + 1)) = at + i
      BY <1>8, <2>2, <2>6, <3>1
    <3>5. ids[at + i] = whole[at + i]
      BY <1>13, <2>11
    <3> QED
      BY <3>1, <3>3, <3>4, <3>5
  <2> QED
    BY <2>9, <2>10, <2>11 DEF at
<1>16. Scores(meta, opts, a)
  <2>1. Len(a.ids) <= meta.maxLen
    BY <1>13 DEF ids, max
  <2> QED
    BY <1>15, <2>1 DEF Scores, ids
<1> QED
  BY <1>13, <1>16 DEF ids

-----------------------------------------------------------------------------
(* Every input that the runs reach is one of these.                        *)

\* What is fed to pick: the oldest item, and what arrived after it, numbered.
PickRecords ==
    [of : {"pick"}, first : {0} \X Nat, buf : Seq(Nat \X Nat), maxItems : Nat, maxTokens : Nat]

\* A question with any number of options, and a text with any letters.
SequenceRecords ==
    [of : {"assemble"}, meta : Metas, head : {Text("head", 0, n) : n \in HeadLens},
     opts : Seq({Text("option", i, n) : i \in Nat, n \in OptionLens}),
     state : {Text("state", 0, n) : n \in StateLens}]
LanguageRecords ==
    [of : {"language"}, letters : Seq(Scripts), words : Words, en : Stops, stop : [ToSet(Others) -> Stops],
     chars : {50, 100}, diacritics : Diacs]

InputInv ==
    /\ "of" \in DOMAIN input
    /\ input.of = "pick" => input \in PickRecords /\ PickInput(input.first, input.buf)
    /\ input.of = "assemble" => input \in SequenceRecords
    /\ input.of = "prefix" => input \in PrefixInputs
    /\ input.of = "language" => input \in LanguageRecords

\* One more item, with the next number.
LEMMA OneMore ==
    ASSUME NEW first, NEW buf, PickInput(first, buf), NEW n \in Nat,
           NEW longer, longer = Append(buf, <<Len(buf) + 1, n>>)
    PROVE  PickInput(first, longer)
<1> DEFINE x == <<Len(buf) + 1, n>>
           m == Len(buf)
<1>1. /\ first \in {0} \X Nat /\ buf \in Seq(Nat \X Nat) /\ m \in Nat
      /\ \A i \in 1 .. m : buf[i][1] = i
  BY DEF PickInput
<1>2. x \in Nat \X Nat /\ x[1] = m + 1
  BY <1>1
<1> HIDE DEF x
<1>3. longer \in Seq(Nat \X Nat) /\ Len(longer) = m + 1
  BY <1>1, <1>2 DEF x
<1>4. \A i \in 1 .. m : longer[i] = buf[i]
  BY <1>1, <1>2 DEF x
<1>5. longer[m + 1] = x
  BY <1>1, <1>2 DEF x
<1> HIDE DEF m
<1>6. ASSUME NEW i \in 1 .. (m + 1) PROVE longer[i][1] = i
  <2>1. CASE i \in 1 .. m
    BY <1>1, <1>4, <2>1
  <2>2. CASE i = m + 1
    BY <1>2, <1>5, <2>2
  <2>3. i \in 1 .. m \/ i = m + 1
    <3>1. m \in Nat
      BY <1>1
    <3> QED
      BY <3>1
  <2> QED
    BY <2>1, <2>2, <2>3
<1> QED
  BY <1>1, <1>3, <1>6 DEF PickInput

\* What the inputs are, at every step that builds one.
LEMMA InputInvariant == Spec => []InputInv
<1>1. Init => InputInv
  <2> SUFFICES ASSUME Init PROVE InputInv
    OBVIOUS
  <2>1. CASE input \in PickInputs
    <3>1. /\ input \in [of : {"pick"}, first : {<<0, n>> : n \in Lengths}, buf : {<<>>},
                          maxItems : ItemCaps, maxTokens : TokenCaps]
      BY <2>1 DEF PickInputs
    <3>2. \E n \in Nat : input.first = <<0, n>>
      BY <3>1, PickAssumption
    <3>3. input.first \in {0} \X Nat /\ input.buf = <<>>
      BY <3>1, <3>2
    <3>4. input \in PickRecords
      <4> DEFINE f == input.first
                 u == input.buf
                 i == input.maxItems
                 t == input.maxTokens
      <4>1. input = [of |-> "pick", first |-> f, buf |-> u, maxItems |-> i, maxTokens |-> t]
        BY <3>1
      <4>2. f \in {0} \X Nat
        BY <3>3
      <4>3. i \in Nat /\ t \in Nat
        BY <3>1, PickAssumption
      <4>4. u \in Seq(Nat \X Nat)
        BY <3>3
      <4> HIDE DEF f, u, i, t
      <4> DEFINE F == {0} \X Nat
                 U == Seq(Nat \X Nat)
      <4>5. f \in F /\ u \in U
        BY <4>2, <4>4
      <4>6. PickRecords = [of : {"pick"}, first : F, buf : U, maxItems : Nat, maxTokens : Nat]
        BY DEF PickRecords
      <4> HIDE DEF F, U
      <4> QED
        BY <4>1, <4>3, <4>5, <4>6
    <3>5. PickInput(input.first, input.buf)
      BY <3>3 DEF PickInput
    <3> QED
      BY <3>1, <3>4, <3>5 DEF InputInv
  <2>2. CASE input \in SequenceInputs
    <3> DEFINE M == Metas
               H == {Text("head", 0, n) : n \in HeadLens}
               O == Seq({Text("option", i, n) : i \in Nat, n \in OptionLens})
               S == {Text("state", 0, n) : n \in StateLens}
    <3>1. <<>> \in O
      OBVIOUS
    <3>2. input \in [of : {"assemble"}, meta : M, head : H, opts : {<<>>}, state : S]
      BY <2>2 DEF SequenceInputs
    <3> HIDE DEF M, H, O, S
    <3>3. /\ input \in [of : {"assemble"}, meta : M, head : H, opts : O, state : S]
          /\ input.of = "assemble" /\ "of" \in DOMAIN input
      BY <3>1, <3>2
    <3> QED
      BY <3>3 DEF InputInv, SequenceRecords, M, H, O, S
  <2>3. CASE input \in PrefixInputs
    <3>1. input.of = "prefix" /\ "of" \in DOMAIN input
      BY <2>3 DEF PrefixInputs
    <3> QED
      BY <2>3, <3>1 DEF InputInv
  <2>4. CASE input \in LanguageInputs
    <3> DEFINE L == Seq(Scripts)
               T == [ToSet(Others) -> Stops]
               C == {50, 100}
    <3>1. <<>> \in L
      OBVIOUS
    <3>2. input \in [of : {"language"}, letters : {<<>>}, words : Words, en : Stops, stop : T,
                       chars : C, diacritics : Diacs]
      BY <2>4 DEF LanguageInputs
    <3> HIDE DEF L, T, C
    <3>3. /\ input \in [of : {"language"}, letters : L, words : Words, en : Stops, stop : T,
                           chars : C, diacritics : Diacs]
          /\ input.of = "language" /\ "of" \in DOMAIN input
      BY <3>1, <3>2
    <3> QED
      BY <3>3 DEF InputInv, LanguageRecords, L, T, C
  <2> QED
    BY <2>1, <2>2, <2>3, <2>4 DEF Init
<1>2. InputInv /\ [Next]_vars => InputInv'
  <2> SUFFICES ASSUME InputInv, [Next]_vars PROVE InputInv'
    OBVIOUS
  <2>1. ASSUME NEW n \in Lengths, Buffer(n) PROVE InputInv'
    <3>1. input.of = "pick" /\ input' = [input EXCEPT !.buf = Append(@, <<Len(@) + 1, n>>)]
      BY <2>1 DEF Buffer
    <3>2. input \in PickRecords /\ PickInput(input.first, input.buf) /\ n \in Nat
      BY <3>1, PickAssumption DEF InputInv
    <3>3. /\ input'.of = "pick" /\ input'.first = input.first
          /\ input'.maxItems = input.maxItems /\ input'.maxTokens = input.maxTokens
          /\ input'.buf = Append(input.buf, <<Len(input.buf) + 1, n>>)
      BY <3>1, <3>2 DEF PickRecords
    <3>4. PickInput(input'.first, input'.buf)
      BY <3>2, <3>3, OneMore
    <3>5. input'.buf \in Seq(Nat \X Nat)
      BY <3>4 DEF PickInput
    <3>6. input' \in PickRecords /\ "of" \in DOMAIN input'
      BY <3>1, <3>2, <3>5 DEF PickRecords
    <3> QED
      BY <3>3, <3>4, <3>6 DEF InputInv
  <2>2. ASSUME NEW n \in OptionLens, AddOption(n) PROVE InputInv'
    <3> DEFINE M == Metas
               H == {Text("head", 0, k) : k \in HeadLens}
               O == {Text("option", i, k) : i \in Nat, k \in OptionLens}
               S == {Text("state", 0, k) : k \in StateLens}
               R == [of : {"assemble"}, meta : M, head : H, opts : Seq(O), state : S]
               o == Text("option", Len(input.opts) + 1, n)
    <3>1. input.of = "assemble" /\ input' = [input EXCEPT !.opts = Append(@, o)]
      BY <2>2 DEF AddOption
    <3>2. input \in R
      BY <3>1 DEF InputInv, SequenceRecords
    <3>3. input.opts \in Seq(O)
      <4> HIDE DEF M, H, O, S
      <4> QED
        BY <3>2
    <3>4. o \in O
      <4>1. Len(input.opts) + 1 \in Nat
        BY <3>3
      <4> QED
        BY <4>1
    <3> HIDE DEF M, H, O, S, o
    <3>5. Append(input.opts, o) \in Seq(O)
      BY <3>3, <3>4
    <3>6. input' \in R /\ input'.of = "assemble" /\ "of" \in DOMAIN input'
      BY <3>1, <3>2, <3>5
    <3> QED
      BY <3>6 DEF InputInv, SequenceRecords, M, H, O, S
  <2>3. ASSUME NEW s \in Scripts, AddLetter(s) PROVE InputInv'
    <3> DEFINE T == [ToSet(Others) -> Stops]
               C == {50, 100}
               R == [of : {"language"}, letters : Seq(Scripts), words : Words, en : Stops, stop : T,
                     chars : C, diacritics : Diacs]
    <3>1. input.of = "language" /\ input' = [input EXCEPT !.letters = Append(@, s)]
      BY <2>3 DEF AddLetter
    <3>2. input \in R
      BY <3>1 DEF InputInv, LanguageRecords
    <3> HIDE DEF T, C
    <3>3. Append(input.letters, s) \in Seq(Scripts)
      BY <3>2
    <3>4. input' \in R /\ input'.of = "language" /\ "of" \in DOMAIN input'
      BY <3>1, <3>2, <3>3
    <3> QED
      BY <3>4 DEF InputInv, LanguageRecords, T, C
  <2>4. CASE UNCHANGED vars
    <3>1. input' = input
      BY <2>4 DEF vars
    <3> QED
      BY <3>1 DEF InputInv
  <2> QED
    BY <2>1, <2>2, <2>3, <2>4 DEF Next
<1> QED
  BY <1>1, <1>2, PTL DEF Spec

\* The question of an input of assemble is a sequence of its tokens.
LEMMA QuestionIsSequence ==
    ASSUME NEW X, NEW meta, NEW head, NEW opts, AssembleInput(X, meta, head, opts, <<>>),
           NEW parts, NEW fitted, NEW question, NEW marker,
           Pieces(meta, head, opts, parts, fitted, question, marker)
    PROVE  question \in Seq(X)
<1> DEFINE marked == Marked(opts)
<1>1. /\ Cls \in X /\ Sep \in X /\ Mask \in X
      /\ head \in Seq(X) /\ opts \in Seq(Seq(X)) /\ opts # <<>> /\ meta.headMax \in Nat
  BY DEF AssembleInput
<1>2. /\ parts = Squeezed(meta, marked) /\ fitted = FittedHead(meta, head, marked)
      /\ question = Question(fitted, parts) /\ parts = Squeezed(meta, Marked(opts))
  BY DEF Pieces
<1>3. PartsOf(X, meta, opts, parts)
  BY <1>1, <1>2, PartsFacts
<1> HIDE DEF marked
<1>4. parts \in Seq(Seq(X)) /\ Len(parts) \in Nat
  <2>1. parts \in Seq(Seq(X))
    BY <1>3 DEF PartsOf
  <2> QED
    BY <2>1
<1>5. PICK g : TotalSoFar(parts, g) /\ TotalLen(parts) = g[Len(parts)]
  BY <1>4, TotalSteps
<1>6. TotalLen(parts) \in Nat
  BY <1>4, <1>5 DEF TotalSoFar
<1>7. Fits(X, meta, head, parts, fitted)
  BY <1>1, <1>2, <1>6, FittedFacts
<1>8. fitted \in Seq(X)
  BY <1>7 DEF Fits
<1>9. Asks(X, fitted, parts, g, question)
  BY <1>1, <1>2, <1>4, <1>5, <1>8, QuestionFacts
<1> QED
  BY <1>9 DEF Asks

\* States that agree on as much as max_len can have make the same sequence.
SameStart(maxLen, s, t) == \A r \in 0 .. maxLen : Clip(s, r) = Clip(t, r)

LEMMA AssembleSame ==
    ASSUME NEW X, NEW meta, NEW head, NEW opts, AssembleInput(X, meta, head, opts, <<>>),
           NEW s, NEW t, SameStart(meta.maxLen, s, t)
    PROVE  Assemble(meta, head, opts, s) = Assemble(meta, head, opts, t)
<1> DEFINE parts == Squeezed(meta, Marked(opts))
           fitted == FittedHead(meta, head, Marked(opts))
           question == Question(fitted, parts)
           marker == MarkersOf(fitted, parts)
           max == meta.maxLen
           Built(u) == [ids     |-> Clip(Whole(meta, question, u), max),
                        markers |-> Keep(marker, {p \in ToSet(marker) : Inside(meta, p)})]
<1>1. Pieces(meta, head, opts, parts, fitted, question, marker)
  BY DEF Pieces
<1>2. Assemble(meta, head, opts, s) = Built(s) /\ Assemble(meta, head, opts, t) = Built(t)
  BY DEF Assemble, Question, Opening, MarkersOf, Whole, RoomLeft
<1> HIDE DEF parts, fitted, question, marker
<1>3. question \in Seq(X)
  BY <1>1, QuestionIsSequence
<1>4. RoomLeft(meta, question) \in 0 .. max
  <2>1. max \in Nat /\ Len(question) \in Nat
    BY <1>3 DEF AssembleInput
  <2> DEFINE q == Len(question)
  <2>2. RoomLeft(meta, question) = Larger(0, max - q - 1) /\ q \in Nat
    BY <2>1 DEF RoomLeft
  <2> HIDE DEF q, max
  <2> QED
    BY <2>1, <2>2 DEF Larger
<1>5. Whole(meta, question, s) = Whole(meta, question, t)
  <2>1. Clip(s, RoomLeft(meta, question)) = Clip(t, RoomLeft(meta, question))
    BY <1>4 DEF SameStart
  <2> QED
    BY <2>1 DEF Whole
<1> QED
  BY <1>2, <1>5

\* What a token is known by.
Kinds == {"cls", "sep", "mask", "head", "option", "state", "other"}
Token == Kinds \X Nat \X Nat

LEMMA TextFacts ==
    ASSUME NEW kind \in Kinds, NEW i \in Nat, NEW n \in Nat
    PROVE  /\ Text(kind, i, n) \in Seq({kind} \X Nat \X Nat) /\ Text(kind, i, n) \in Seq(Token)
           /\ Len(Text(kind, i, n)) = n
           /\ \A j \in 1 .. n : Text(kind, i, n)[j] = <<kind, i, j>>
<1> DEFINE t == [j \in 1 .. n |-> <<kind, i, j>>]
           K == {kind} \X Nat \X Nat
<1>1. t \in [1 .. n -> K] /\ DOMAIN t = 1 .. n /\ \A j \in 1 .. n : t[j] = <<kind, i, j>>
  <2>1. ASSUME NEW j \in 1 .. n PROVE <<kind, i, j>> \in K
    <3>1. kind \in {kind} /\ i \in Nat /\ j \in Nat
      OBVIOUS
    <3> QED
      BY <3>1, Zenon
  <2> HIDE DEF K
  <2> QED
    BY <2>1
<1>2. Text(kind, i, n) = t
  BY DEF Text
<1>3. K \subseteq Token
  BY DEF Token
<1> HIDE DEF t, K
<1>4. t \in Seq(K) /\ t \in Seq(Token) /\ Len(t) = n
  BY <1>1, <1>3
<1> QED
  BY <1>1, <1>2, <1>4 DEF K

\* A text cut is the text of fewer tokens.
LEMMA ClipText ==
    ASSUME NEW kind \in Kinds, NEW n \in Nat, NEW r \in Nat
    PROVE  Clip(Text(kind, 0, n), r) = Text(kind, 0, Smaller(r, n))
<1> DEFINE t == Text(kind, 0, n)
           m == Smaller(r, n)
           u == Text(kind, 0, m)
           c == Clip(t, r)
<1>1. m \in Nat /\ m <= n
  BY DEF Smaller
<1> HIDE DEF m
<1>2. t \in Seq(Token) /\ Len(t) = n /\ \A j \in 1 .. n : t[j] = <<kind, 0, j>>
  BY TextFacts
<1>3. u \in Seq(Token) /\ Len(u) = m /\ \A j \in 1 .. m : u[j] = <<kind, 0, j>>
  BY <1>1, TextFacts
<1> HIDE DEF t, u
<1>4. c \in Seq(Token) /\ Len(c) = Smaller(r, Len(t)) /\ \A i \in 1 .. Len(c) : c[i] = t[i]
  BY <1>2, ClipFacts
<1> HIDE DEF c
<1>5. Len(c) = m
  BY <1>2, <1>4 DEF m
<1>6. ASSUME NEW i \in 1 .. Len(c) PROVE c[i] = u[i]
  <2>1. i \in 1 .. m /\ i \in 1 .. n
    BY <1>1, <1>5
  <2> QED
    BY <1>2, <1>3, <1>4, <2>1
<1>7. c = u
  BY <1>3, <1>4, <1>5, <1>6, SeqEqual
<1> QED
  BY <1>7 DEF c, t, u, m

\* A text of n tokens of width bytes, its characters, and its blanks.
IsText(text) ==
    /\ text.n \in Nat /\ text.width \in Nat \ {0} /\ text.char \in Nat \ {0}
    /\ text.blanks \in SUBSET Nat

\* The greatest of a set as Cut and Kept choose it.
LEMMA GreatestChosen ==
    ASSUME NEW S \in SUBSET Nat, S # {}, NEW b \in Nat, \A n \in S : n <= b,
           NEW g, g = CHOOSE n \in S : \A m \in S : m <= n
    PROVE  g \in S
<1>1. Max(S) \in S /\ \A n \in S : n <= Max(S)
  BY MaxIsGreatest
<1>2. \E n \in S : \A m \in S : m <= n
  BY <1>1, Zenon
<1> QED
  BY <1>2, Zenon

\* The cut is within what was asked for.
LEMMA CutFacts ==
    ASSUME NEW text, IsText(text), NEW need \in Nat, NEW cut, cut = Cut(text, need)
    PROVE  cut \in Nat /\ cut <= need * 8
<1> DEFINE most == need * BytesPerToken
           whole == (most \div text.char) * text.char
           blanks == {b \in text.blanks : b < whole}
<1>1. most = need * 8 /\ most \in Nat
  BY DEF BytesPerToken
<1>2. whole \in Nat /\ whole <= most
  <2> DEFINE ch == text.char
  <2>1. ch \in Nat \ {0}
    BY DEF IsText
  <2> HIDE DEF most, ch
  <2>2. most \div ch \in Nat /\ (most \div ch) * ch <= most
    BY <1>1, <2>1, DivideFacts
  <2>3. (most \div ch) * ch \in Nat
    <3> DEFINE d == most \div ch
    <3>1. d \in Nat
      BY <2>2
    <3> HIDE DEF d
    <3>2. d * ch \in Nat
      BY <2>1, <3>1
    <3> QED
      BY <3>2 DEF d
  <2> QED
    BY <2>2, <2>3 DEF ch
<1>3. cut = IF blanks = {} THEN whole ELSE CHOOSE b \in blanks : \A c \in blanks : c <= b
  BY DEF Cut
<1> HIDE DEF most, whole
<1>4. blanks \in SUBSET Nat /\ \A b \in blanks : b <= whole
  <2>1. text.blanks \in SUBSET Nat
    BY DEF IsText
  <2> QED
    BY <1>2, <2>1
<1> HIDE DEF blanks
<1>5. cut \in Nat /\ cut <= whole
  <2>1. CASE blanks = {}
    BY <1>2, <1>3, <2>1
  <2>2. CASE blanks # {}
    <3>1. cut \in blanks
      BY <1>2, <1>3, <1>4, <2>2, GreatestChosen
    <3> QED
      BY <1>4, <3>1
  <2> QED
    BY <2>1, <2>2
<1> QED
  BY <1>1, <1>2, <1>5

\* Kept tokens end a margin before the cut.
LEMMA KeptFacts ==
    ASSUME NEW text, IsText(text), NEW cut \in Nat, NEW k, k = Kept(text, cut)
    PROVE  /\ k \in Nat /\ k <= cut \div text.width /\ cut \div text.width \in Nat
           /\ k # 0 => k * text.width + 64 <= cut
           /\ k * text.width <= cut /\ k * text.width \in Nat
<1> DEFINE w == text.width
           m == cut \div w
           clear == {j \in 0 .. m : j = 0 \/ j * w + Margin <= cut}
<1>1. w \in Nat \ {0} /\ Margin = 64
  BY DEF IsText, Margin
<1>2. m \in Nat
  <2> HIDE DEF w
  <2> QED
    BY <1>1, DivideFacts
<1>3. k = CHOOSE j \in clear : \A i \in clear : i <= j
  BY DEF Kept
<1> HIDE DEF w, m
<1>4. clear \in SUBSET Nat /\ 0 \in clear /\ \A j \in clear : j <= m
  BY <1>2
<1>5. k \in clear
  <2> HIDE DEF clear
  <2> QED
    BY <1>2, <1>3, <1>4, GreatestChosen
<1>6. k \in Nat /\ k <= m /\ (k # 0 => k * w + 64 <= cut)
  BY <1>1, <1>2, <1>5
<1>7. k * w \in Nat /\ k * w <= cut
  <2> DEFINE kw == k * w
  <2>1. kw \in Nat /\ (k = 0 => kw = 0) /\ (k # 0 => kw + 64 <= cut)
    BY <1>1, <1>6
  <2> HIDE DEF kw
  <2>2. kw <= cut
    BY <2>1
  <2> QED
    BY <2>1, <2>2 DEF kw
<1> QED
  BY <1>2, <1>6, <1>7 DEF w, m

\* When the tokenizer does not see further than the margin, what is tokenized of a
\* text is all of it, or a beginning with as many tokens as were asked for.
LEMMA PrefixFacts ==
    ASSUME NEW text, IsText(text), NEW need \in Nat, Reach <= Margin,
           NEW tok, tok = TokenizePrefix(text, need)
    PROVE  \E k \in Nat : /\ tok = Text("state", 0, k) /\ k <= text.n
                          /\ k = text.n \/ need <= k
<1> DEFINE n == text.n
           w == text.width
           cut == Cut(text, need)
           k == Kept(text, cut)
           m == cut \div w
           prefix == PrefixTokens(text, cut)
<1>1. n \in Nat /\ w \in Nat \ {0} /\ Margin = 64 /\ Reach \in Nat
  BY ReachAssumption DEF IsText, Margin
<1>2. cut \in Nat /\ cut <= need * 8 /\ need * 8 \in Nat
  BY CutFacts
<1>3. /\ tok = IF need * 8 >= n * w \/ k < need THEN Text("state", 0, n) ELSE Clip(prefix, k)
  BY DEF TokenizePrefix, Full, Bytes, BytesPerToken
<1>4. prefix = [j \in 1 .. m |-> IF j * w + Reach <= cut THEN <<"state", 0, j>> ELSE <<"other", 0, j>>]
  BY DEF PrefixTokens
<1> HIDE DEF prefix, cut
<1>5. /\ k \in Nat /\ k <= m /\ m \in Nat /\ k * w \in Nat /\ k * w <= cut
      /\ k # 0 => k * w + 64 <= cut
  BY <1>2, KeptFacts
<1> HIDE DEF n, w, k, m
<1>6. CASE need * 8 >= n * w \/ k < need
  <2>1. tok = Text("state", 0, n)
    BY <1>3, <1>6
  <2> QED
    BY <1>1, <2>1 DEF n
<1>7. CASE ~ (need * 8 >= n * w \/ k < need)
  <2>1. tok = Clip(prefix, k) /\ need <= k /\ ~ (need * 8 >= n * w)
    BY <1>3, <1>5, <1>7
  <2>2. k <= n
    <3> SUFFICES ASSUME n <= k PROVE k <= n
      BY <1>1, <1>5
    <3>1. n * w <= k * w /\ n * w \in Nat
      <4>1. w \in Nat /\ w <= w
        BY <1>1
      <4> QED
        BY <1>1, <1>5, <4>1, TimesMonotone
    <3> DEFINE nw == n * w
               kw == k * w
    <3>2. nw <= kw /\ nw \in Nat /\ kw \in Nat /\ kw <= cut /\ ~ (need * 8 >= nw)
      BY <1>5, <2>1, <3>1
    <3> HIDE DEF nw, kw
    <3> QED
      BY <1>2, <3>2
  <2>3. "state" \in Kinds /\ "other" \in Kinds /\ 0 \in Nat
    BY DEF Kinds
  <2>4. prefix \in Seq(Token) /\ Len(prefix) = m
    <3>1. ASSUME NEW j \in 1 .. m
          PROVE  <<"state", 0, j>> \in Token /\ <<"other", 0, j>> \in Token
      <4>1. j \in Nat
        BY <1>5
      <4> QED
        BY <2>3, <4>1 DEF Token
    <3>2. prefix \in [1 .. m -> Token]
      <4> HIDE DEF Token
      <4> QED
        BY <1>4, <3>1
    <3> HIDE DEF Token
    <3> QED
      BY <1>5, <3>2
  <2>5. ASSUME NEW j \in 1 .. k PROVE prefix[j] = <<"state", 0, j>>
    <3>1. j \in Nat /\ j <= k /\ j \in 1 .. m /\ k # 0
      BY <1>5
    <3>2. j * w <= k * w /\ j * w \in Nat
      <4>1. w \in Nat /\ w <= w
        BY <1>1
      <4> QED
        BY <1>5, <3>1, <4>1, TimesMonotone
    <3>3. j * w + Reach <= cut
      <4> DEFINE jw == j * w
                 kw == k * w
      <4>1. jw <= kw /\ jw \in Nat /\ kw \in Nat /\ kw + 64 <= cut
        BY <1>5, <3>1, <3>2
      <4> HIDE DEF jw, kw
      <4>2. jw + Reach <= cut
        BY <1>1, <1>2, <4>1
      <4> QED
        BY <4>2 DEF jw
    <3> QED
      BY <1>4, <3>1, <3>3
  <2> DEFINE c == Clip(prefix, k)
             u == Text("state", 0, k)
  <2>6. c \in Seq(Token) /\ Len(c) = Smaller(k, Len(prefix)) /\ \A i \in 1 .. Len(c) : c[i] = prefix[i]
    BY <1>5, <2>4, ClipFacts
  <2>7. u \in Seq(Token) /\ Len(u) = k /\ \A j \in 1 .. k : u[j] = <<"state", 0, j>>
    BY <1>5, <2>3, TextFacts
  <2> HIDE DEF c, u
  <2>8. Len(c) = k
    BY <1>5, <2>4, <2>6 DEF Smaller
  <2>9. \A i \in 1 .. Len(c) : c[i] = u[i]
    BY <2>5, <2>6, <2>7, <2>8
  <2>10. c = u
    BY <2>6, <2>7, <2>8, <2>9, SeqEqual
  <2>11. tok = Text("state", 0, k)
    BY <2>1, <2>10 DEF c, u
  <2> QED
    BY <1>5, <2>1, <2>2, <2>11 DEF n
<1> QED
  BY <1>6, <1>7

\* The question and the state of an input that prepare lets through, as tokens of
\* a set X that has all of theirs.
LEMMA AskedWith ==
    ASSUME NEW X, Cls \in X, Sep \in X, Mask \in X, InputInv, Asked(input),
           {"head"} \X Nat \X Nat \subseteq X, {"option"} \X Nat \X Nat \subseteq X
    PROVE  /\ input.head \in Seq(X) /\ input.opts \in Seq(Seq(X)) /\ input.opts # <<>>
           /\ input.meta.maxLen \in Nat /\ input.meta.headMax \in Nat
           /\ \E n \in Nat : input.state = Text("state", 0, n)
           /\ \E n \in Nat : input.head = Text("head", 0, n)
<1> DEFINE H == {Text("head", 0, n) : n \in HeadLens}
           O == {Text("option", i, n) : i \in Nat, n \in OptionLens}
           S == {Text("state", 0, n) : n \in StateLens}
           M == Metas
<1>1. /\ input.of = "assemble" /\ Len(input.opts) # 0
      /\ input \in [of : {"assemble"}, meta : M, head : H, opts : Seq(O), state : S]
  <2>1. input.of = "assemble"
    BY DEF Asked
  <2>2. Len(input.opts) # 0
    <3> DEFINE k == Len(input.opts)
    <3>1. \E q \in {"choice", "score", "noul"} : Accepted(q, k)
      BY DEF Asked
    <3> HIDE DEF k
    <3>2. k \in 2 .. 255 \/ k \in 2 .. 10 \/ k = 2
      BY <3>1 DEF Accepted
    <3>3. k # 0
      BY <3>2
    <3> QED
      BY <3>3 DEF k
  <2>3. input \in SequenceRecords
    BY <2>1 DEF InputInv
  <2> QED
    BY <2>1, <2>2, <2>3 DEF SequenceRecords
<1>2. H \subseteq Seq(X)
  <2> SUFFICES ASSUME NEW n \in HeadLens PROVE Text("head", 0, n) \in Seq(X)
    OBVIOUS
  <2> DEFINE K == {"head"} \X Nat \X Nat
             t == Text("head", 0, n)
             kind == "head"
  <2>1. t \in Seq(K) /\ K \subseteq X
    <3>1. kind \in Kinds /\ n \in Nat
      BY QuestionAssumption DEF Kinds
    <3>2. K = {kind} \X Nat \X Nat /\ t = Text(kind, 0, n)
      OBVIOUS
    <3> HIDE DEF kind, t
    <3>3. t \in Seq({kind} \X Nat \X Nat)
      BY <3>1, <3>2, TextFacts
    <3> QED
      BY <3>2, <3>3
  <2> HIDE DEF K, t
  <2>2. t \in Seq(X)
    BY <2>1, SeqMonotonic
  <2> QED
    BY <2>2 DEF t
<1>3. O \subseteq Seq(X)
  <2> SUFFICES ASSUME NEW i \in Nat, NEW n \in OptionLens PROVE Text("option", i, n) \in Seq(X)
    OBVIOUS
  <2> DEFINE K == {"option"} \X Nat \X Nat
             t == Text("option", i, n)
             kind == "option"
  <2>1. t \in Seq(K) /\ K \subseteq X
    <3>1. kind \in Kinds /\ n \in Nat
      BY QuestionAssumption DEF Kinds
    <3>2. K = {kind} \X Nat \X Nat /\ t = Text(kind, i, n)
      OBVIOUS
    <3> HIDE DEF kind, t
    <3>3. t \in Seq({kind} \X Nat \X Nat)
      BY <3>1, <3>2, TextFacts
    <3> QED
      BY <3>2, <3>3
  <2> HIDE DEF K, t
  <2>2. t \in Seq(X)
    BY <2>1, SeqMonotonic
  <2> QED
    BY <2>2 DEF t
<1>4. M \subseteq [maxLen : Nat, headMax : Nat]
  BY QuestionAssumption
<1> HIDE DEF H, O, S, M
<1>5. input.head \in H /\ input.opts \in Seq(O) /\ input.state \in S /\ input.meta \in M
  BY <1>1
<1>6. input.opts \in Seq(Seq(X)) /\ input.opts # <<>>
  <2> DEFINE Y == Seq(X)
             o == input.opts
  <2>1. o \in Seq(O) /\ O \subseteq Y /\ Len(o) # 0
    BY <1>1, <1>3, <1>5
  <2> HIDE DEF Y, o
  <2>2. o \in Seq(Y) /\ o # <<>>
    BY <2>1, SeqMonotonic
  <2> QED
    BY <2>2 DEF Y, o
<1>7. \E n \in Nat : input.state = Text("state", 0, n)
  BY <1>5, QuestionAssumption DEF S
<1>8. \E n \in Nat : input.head = Text("head", 0, n)
  BY <1>5, QuestionAssumption DEF H
<1> QED
  BY <1>2, <1>4, <1>5, <1>6, <1>7, <1>8

LEMMA AskedInput ==
    ASSUME InputInv, Asked(input)
    PROVE  AssembleInput(Token, input.meta, input.head, input.opts, input.state)
<1>1. Cls \in Token /\ Sep \in Token /\ Mask \in Token
  <2>1. "cls" \in Kinds /\ "sep" \in Kinds /\ "mask" \in Kinds
    BY DEF Kinds
  <2>2. 0 \in Nat
    OBVIOUS
  <2> QED
    BY <2>1, <2>2 DEF Token, Cls, Sep, Mask
<1>2. {"head"} \X Nat \X Nat \subseteq Token /\ {"option"} \X Nat \X Nat \subseteq Token
  <2>1. {"head"} \subseteq Kinds /\ {"option"} \subseteq Kinds
    BY DEF Kinds
  <2> QED
    BY <2>1 DEF Token
<1>3. /\ input.head \in Seq(Token) /\ input.opts \in Seq(Seq(Token)) /\ input.opts # <<>>
      /\ input.meta.maxLen \in Nat /\ input.meta.headMax \in Nat
      /\ \E n \in Nat : input.state = Text("state", 0, n)
  BY <1>1, <1>2, AskedWith
<1>4. input.state \in Seq(Token)
  <2>1. PICK n \in Nat : input.state = Text("state", 0, n)
    BY <1>3
  <2>2. "state" \in Kinds /\ 0 \in Nat
    BY DEF Kinds
  <2> QED
    BY <2>1, <2>2, TextFacts
<1> QED
  BY <1>1, <1>3, <1>4 DEF AssembleInput

\* What is left for each: the head its reserve or all it has, and the state all
\* that head_max_len leaves of max_len, or all it has.
Shares(meta, head, state, ids) ==
    LET Of(kind) == Cardinality({p \in DOMAIN ids : ids[p][1] = kind}) IN
    /\ Of("head") >= Len(head) \/ Of("head") >= HeadReserve
    /\ Of("state") = Len(state) \/ Of("state") >= meta.maxLen - meta.headMax - 4

\* Lengths, when the parts leave the head its reserve and max_len is larger than
\* head_max_len: t is of the parts, l of the head, h of what the head keeps, q of
\* the question, room what the state is given, n of the state, s of what it keeps.
Lengthy(maxLen, headMax, t, l, h, q, room, n, s) ==
    /\ maxLen \in Nat /\ headMax \in Nat /\ t \in Nat /\ l \in Nat /\ n \in Nat
    /\ t <= headMax - 16 /\ maxLen >= headMax + 4
    /\ h = Smaller(Larger(8, headMax - t), l)
    /\ q = h + t + 3
    /\ room = Larger(0, maxLen - q - 1)
    /\ s = Smaller(room, n)

LEMMA LengthFacts ==
    ASSUME NEW maxLen, NEW headMax, NEW t, NEW l, NEW h, NEW q, NEW room, NEW n, NEW s,
           Lengthy(maxLen, headMax, t, l, h, q, room, n, s)
    PROVE  /\ h \in Nat /\ q \in Nat /\ s \in Nat
           /\ h >= l \/ h >= 16
           /\ s = n \/ s >= maxLen - headMax - 4
           /\ q + s + 1 <= maxLen
<1>1. /\ maxLen \in Nat /\ headMax \in Nat /\ t \in Nat /\ l \in Nat /\ n \in Nat
      /\ t <= headMax - 16 /\ maxLen >= headMax + 4
      /\ h = (IF headMax - t < l THEN headMax - t ELSE l)
      /\ q = h + t + 3
  BY DEF Lengthy, Smaller, Larger
<1>2. h \in Nat /\ h <= headMax - t /\ (h >= l \/ h >= 16)
  BY <1>1
<1>3. q \in Nat /\ q <= headMax + 3 /\ maxLen - q - 1 >= maxLen - headMax - 4 /\ maxLen - q - 1 \in Nat
  BY <1>1, <1>2
<1>4. room = maxLen - q - 1
  BY <1>1, <1>3 DEF Lengthy, Larger
<1>5. s = (IF room < n THEN room ELSE n)
  BY DEF Lengthy, Smaller
<1>6. s \in Nat /\ s <= room /\ (s = n \/ s >= maxLen - headMax - 4)
  BY <1>1, <1>3, <1>4, <1>5
<1> QED
  BY <1>1, <1>2, <1>3, <1>4, <1>6

\* The n tokens after position a are of a kind; and no other is.
KindAt(ids, kind, a, n, len) ==
    DOMAIN ids = 1 .. len /\ a + n <= len /\ \A i \in 1 .. n : ids[a + i][1] = kind
KindOnlyAt(ids, kind, a, n, len) ==
    \A p \in 1 .. len : ids[p][1] = kind => p \in (a + 1) .. (a + n)

\* The tokens of a sequence that are of a kind, when all that are lie together.
LEMMA KindTogether ==
    ASSUME NEW ids, NEW kind, NEW a \in Nat, NEW n \in Nat, NEW len \in Nat,
           KindAt(ids, kind, a, n, len)
    PROVE  /\ Cardinality({p \in DOMAIN ids : ids[p][1] = kind}) \in Nat
           /\ Cardinality({p \in DOMAIN ids : ids[p][1] = kind}) >= n
           /\ KindOnlyAt(ids, kind, a, n, len)
                => Cardinality({p \in DOMAIN ids : ids[p][1] = kind}) = n
<1> DEFINE P == {p \in 1 .. len : ids[p][1] = kind}
           I == (a + 1) .. (a + n)
<1>0. DOMAIN ids = 1 .. len /\ a + n <= len /\ \A i \in 1 .. n : ids[a + i][1] = kind
  BY DEF KindAt
<1>1. IsFiniteSet(I) /\ Cardinality(I) = n
  <2>1. a + 1 \in Int /\ a + n \in Int
    OBVIOUS
  <2>2. Cardinality(I) = IF a + 1 > a + n THEN 0 ELSE (a + n) - (a + 1) + 1
    BY <2>1, FS_Interval
  <2> QED
    BY <2>1, <2>2, FS_Interval
<1>2. I \subseteq P
  <2> SUFFICES ASSUME NEW p \in I PROVE p \in 1 .. len /\ ids[p][1] = kind
    OBVIOUS
  <2>1. p \in 1 .. len /\ p - a \in 1 .. n /\ a + (p - a) = p
    BY <1>0
  <2> HIDE DEF I
  <2>2. ids[a + (p - a)][1] = kind
    BY <1>0, <2>1
  <2> QED
    BY <2>1, <2>2
<1>3. IsFiniteSet(1 .. len) /\ P \subseteq 1 .. len
  <2>1. 1 \in Int /\ len \in Int /\ P \subseteq 1 .. len
    OBVIOUS
  <2> HIDE DEF P
  <2> QED
    BY <2>1, FS_Interval
<1>4. IsFiniteSet(P) /\ Cardinality(I) <= Cardinality(P)
  <2> HIDE DEF P, I
  <2>1. IsFiniteSet(P)
    BY <1>3, FS_Subset
  <2> QED
    BY <1>2, <2>1, FS_Subset
<1>5. Cardinality(P) \in Nat /\ Cardinality(P) >= n
  <2> HIDE DEF P, I
  <2>1. Cardinality(P) \in Nat
    BY <1>4, FS_CardinalityType
  <2> QED
    BY <1>1, <1>4, <2>1
<1>6. ASSUME KindOnlyAt(ids, kind, a, n, len) PROVE Cardinality(P) = n
  <2>1. P \subseteq I
    BY <1>6 DEF KindOnlyAt
  <2>2. P = I
    BY <1>2, <2>1
  <2> HIDE DEF P, I
  <2> QED
    BY <1>1, <2>2
<1>7. P = {p \in DOMAIN ids : ids[p][1] = kind}
  BY <1>0
<1> QED
  BY <1>5, <1>6, <1>7

\* Tokens of any kind but a state's.
NoState == (Kinds \ {"state"}) \X Nat \X Nat

LEMMA AssembleShares ==
    ASSUME NEW meta, NEW head, NEW opts, NEW state, AssembleInput(NoState, meta, head, opts, <<>>),
           NEW nh \in Nat, head = Text("head", 0, nh), NEW ns \in Nat, state = Text("state", 0, ns),
           OptionLeast * Len(opts) <= meta.headMax - HeadReserve,
           meta.maxLen >= meta.headMax + 4
    PROVE  Shares(meta, head, state, Assemble(meta, head, opts, state).ids)
<1> DEFINE n == Len(opts)
           marked == Marked(opts)
           parts == Squeezed(meta, marked)
           fitted == FittedHead(meta, head, marked)
           question == Question(fitted, parts)
           whole == Whole(meta, question, state)
           room == RoomLeft(meta, question)
           t == TotalLen(parts)
           h == Len(fitted)
           q == Len(question)
           s == Smaller(room, ns)
           max == meta.maxLen
           X == NoState
           a == Assemble(meta, head, opts, state)
           marker == MarkersOf(fitted, parts)
           ids == a.ids
<1>1. /\ Cls \in X /\ Sep \in X /\ Mask \in X
      /\ head \in Seq(X) /\ opts \in Seq(Seq(X)) /\ opts # <<>>
      /\ max \in Nat /\ meta.headMax \in Nat /\ n \in Nat
  BY DEF AssembleInput
<1>3. /\ parts = Squeezed(meta, Marked(opts)) /\ marked = Marked(opts) /\ fitted = FittedHead(meta, head, marked)
      /\ question = Question(fitted, parts) /\ whole = Whole(meta, question, state)
      /\ room = RoomLeft(meta, question) /\ max = meta.maxLen
      /\ a = Assemble(meta, head, opts, state) /\ marker = MarkersOf(fitted, parts) /\ ids = a.ids
      /\ fitted = FittedHead(meta, head, Marked(opts))
  OBVIOUS
<1>4. X \subseteq Token
  BY DEF NoState, Token
<1> HIDE DEF ids, a, marker, X, max, room, whole, question, fitted, parts, marked
<1>2. ids = Clip(whole, max)
  <2>1. /\ a.ids = Clip(Whole(meta, question, state), meta.maxLen)
        /\ a.markers = Keep(marker, {p \in ToSet(marker) : Inside(meta, p)})
    <3>1. Pieces(meta, head, opts, parts, fitted, question, marker)
      BY <1>3 DEF Pieces
    <3> QED
      BY <1>3, <3>1, AssembleIs
  <2> QED
    BY <1>3, <2>1
<1>5. PartsOf(X, meta, opts, parts)
  BY <1>1, <1>3, PartsFacts
<1>6. parts \in Seq(Seq(X)) /\ Len(parts) = n /\ t <= meta.headMax - 16
  BY <1>5 DEF PartsOf, HeadReserve
<1>7. PICK g : TotalSoFar(parts, g) /\ t = g[Len(parts)]
  BY <1>6, TotalSteps
<1>8. t \in Nat
  <2> HIDE DEF n, t
  <2> QED
    BY <1>1, <1>6, <1>7 DEF TotalSoFar
<1>9. /\ fitted \in Seq(X) /\ \A i \in 1 .. h : fitted[i] = head[i]
      /\ h = Smaller(Larger(8, meta.headMax - t), Len(head))
  <2>1. parts = Squeezed(meta, marked) /\ TotalLen(parts) \in Nat
    BY <1>3, <1>8
  <2>2. Fits(X, meta, head, parts, fitted)
    BY <1>1, <1>3, <2>1, FittedFacts
  <2> QED
    BY <2>2 DEF Fits
<1>10. Asks(X, fitted, parts, g, question)
  BY <1>1, <1>3, <1>6, <1>7, <1>9, QuestionFacts
<1>11. question \in Seq(X) /\ q = h + t + 3
  BY <1>7, <1>10 DEF Asks
<1>12. /\ Len(head) = nh /\ \A i \in 1 .. nh : head[i] = <<"head", 0, i>>
       /\ state \in Seq(Token) /\ Len(state) = ns /\ \A i \in 1 .. ns : state[i] = <<"state", 0, i>>
  <2>1. "head" \in Kinds /\ "state" \in Kinds /\ 0 \in Nat
    BY DEF Kinds
  <2> QED
    BY <2>1, TextFacts
<1>13. question \in Seq(Token) /\ Sep \in Token
  BY <1>1, <1>4, <1>11, SeqMonotonic
<1>14. WholeOf(Token, meta, question, state, whole)
  BY <1>1, <1>3, <1>12, <1>13, WholeFacts DEF max
<1>15. Lengthy(max, meta.headMax, t, nh, h, q, room, ns, s)
  <2>1. room = Larger(0, max - q - 1)
    BY <1>3 DEF RoomLeft
  <2> HIDE DEF q, h, s, t
  <2> QED
    BY <1>1, <1>3, <1>6, <1>8, <1>9, <1>11, <1>12, <2>1 DEF Lengthy, s
<1> HIDE DEF q, h, s, t
<1>16. /\ h \in Nat /\ q \in Nat /\ s \in Nat
       /\ h >= nh \/ h >= 16
       /\ s = ns \/ s >= max - meta.headMax - 4
       /\ q + s + 1 <= max
  BY <1>15, LengthFacts
<1>17. /\ whole \in Seq(Token) /\ Len(whole) = q + s + 1
       /\ \A i \in 1 .. q : i \in 1 .. Len(whole) /\ whole[i] = question[i]
       /\ \A i \in 1 .. s : whole[q + i] = state[i]
       /\ whole[Len(whole)] = Sep
  BY <1>3, <1>12, <1>14 DEF WholeOf, s, q
<1>18. ids = whole
  BY <1>1, <1>2, <1>16, <1>17, ClipFacts
<1> DEFINE l == q + s + 1
<1>19. DOMAIN ids = 1 .. l /\ l \in Nat
  <2>1. DOMAIN whole = 1 .. Len(whole)
    BY <1>17
  <2> QED
    BY <1>16, <1>17, <1>18, <2>1
<1> HIDE DEF l
<1>20. ASSUME NEW i \in 1 .. h PROVE ids[1 + i][1] = "head" /\ 1 + i = i + 1
  <2>1. i + 1 \in 1 .. q /\ question[i + 1] = fitted[i] /\ 1 + i = i + 1
    <3>1. i + 1 \in 1 .. q /\ question[i + 1] = fitted[i]
      BY <1>10 DEF Asks, h, q
    <3>2. 1 + i = i + 1
      BY <1>16
    <3> QED
      BY <3>1, <3>2
  <2>2. fitted[i] = head[i]
    BY <1>9
  <2>3. i \in 1 .. nh
    <3>1. h <= nh
      <4>1. nh \in Nat /\ h = Smaller(Larger(8, meta.headMax - t), nh)
        BY <1>9, <1>12
      <4>2. Larger(8, meta.headMax - t) \in Int
        <5> DEFINE m == meta.headMax
        <5>1. m \in Nat /\ t \in Nat
          BY <1>1, <1>8
        <5> HIDE DEF m
        <5>2. Larger(8, m - t) \in Int
          BY <5>1 DEF Larger
        <5> QED
          BY <5>2 DEF m
      <4> QED
        BY <4>1, <4>2 DEF Smaller
    <3> QED
      BY <1>16, <3>1
  <2>4. head[i] = <<"head", 0, i>>
    BY <1>12, <2>3
  <2>5. ids[i + 1] = question[i + 1]
    BY <1>17, <1>18, <2>1
  <2> QED
    BY <2>1, <2>2, <2>4, <2>5
<1>21. ASSUME NEW i \in 1 .. s PROVE ids[q + i][1] = "state"
  <2>1. i \in 1 .. ns
    BY <1>15, <1>16 DEF Lengthy, Smaller
  <2> QED
    BY <1>12, <1>17, <1>18, <2>1
<1>22. ASSUME NEW p \in 1 .. l, ids[p][1] = "state" PROVE p \in (q + 1) .. (q + s)
  <2>1. ASSUME NEW x \in X PROVE x[1] # "state"
    BY DEF X, NoState
  <2>2. p \notin 1 .. q
    <3> SUFFICES ASSUME p \in 1 .. q PROVE FALSE
      OBVIOUS
    <3>1. question[p] \in X
      BY <1>11 DEF q
    <3> QED
      BY <1>17, <1>18, <1>22, <2>1, <3>1
  <2>3. p # l
    <3>1. p = l => ids[p] = Sep
      BY <1>17, <1>18 DEF l
    <3> QED
      BY <1>1, <1>22, <2>1, <3>1
  <2> QED
    BY <1>16, <2>2, <2>3 DEF l
<1> DEFINE H == Cardinality({p \in DOMAIN ids : ids[p][1] = "head"})
           S == Cardinality({p \in DOMAIN ids : ids[p][1] = "state"})
<1>23. H \in Nat /\ H >= h
  <2>1. 1 + h <= l
    BY <1>8, <1>11, <1>16 DEF l
  <2>2. KindAt(ids, "head", 1, h, l)
    BY <1>19, <1>20, <2>1 DEF KindAt
  <2> QED
    BY <1>16, <1>19, <2>2, KindTogether
<1>24. S = s
  <2>1. q + s <= l
    BY <1>16 DEF l
  <2>2. KindAt(ids, "state", q, s, l) /\ KindOnlyAt(ids, "state", q, s, l)
    BY <1>19, <1>21, <1>22, <2>1 DEF KindAt, KindOnlyAt
  <2> QED
    BY <1>16, <1>19, <2>2, KindTogether
<1> HIDE DEF H, S
<1>25. (H >= nh \/ H >= 16) /\ (S = ns \/ S >= max - meta.headMax - 4)
  BY <1>16, <1>23, <1>24
<1> QED
  BY <1>12, <1>25 DEF Shares, H, S, ids, a, max, HeadReserve

\* pick, on every buffer and under every cap, gives what its reference says:
\* nothing lost, duplicated or reordered, and an item is taken exactly when it
\* is similar to the oldest and the batch before it has room (scheduler.rs,
\* pick).
THEOREM PickCorrect == Spec => []PickIsReference
<1>1. InputInv => PickIsReference
  <2> SUFFICES ASSUME InputInv, input.of = "pick" PROVE PickIsReference
    BY DEF PickIsReference
  <2> DEFINE first == input.first
             buf == input.buf
             all == {first} \cup ToSet(buf)
             lenOf == [i \in all |-> i[2]]
             picked == PickBatch(first, buf, lenOf, input.maxItems, input.maxTokens)
  <2>1. PickInput(first, buf) /\ input.maxItems \in Nat /\ input.maxTokens \in Nat
    BY DEF InputInv, PickRecords
  <2>2. all = {first} \cup ToSet(buf) /\ lenOf = [x \in all |-> x[2]]
    OBVIOUS
  <2>3. picked = PickBatch(first, buf, lenOf, input.maxItems, input.maxTokens)
    OBVIOUS
  <2>4. PickIsReference <=>
          /\ Head(picked.batch) = first
          /\ ToSet(picked.batch) \cup ToSet(picked.rest) = all
          /\ Len(picked.batch) + Len(picked.rest) = Len(buf) + 1
          /\ \A s \in {picked.batch, picked.rest} : \A i, j \in DOMAIN s : i < j => s[i][1] < s[j][1]
          /\ \A b \in ToSet(buf) : b \in ToSet(picked.batch) <=>
                RoomFor(b, first, picked.batch, input.maxItems, input.maxTokens)
    BY DEF PickIsReference, RoomFor
  <2> HIDE DEF picked, lenOf, all, first, buf
  <2>5. AsReferred(first, buf, all, picked, input.maxItems, input.maxTokens)
    BY <2>1, <2>2, <2>3, PickReference
  <2> QED
    BY <2>4, <2>5 DEF AsReferred
<1> QED
  BY <1>1, InputInvariant, PTL

\* Language routing, for a text of any letters, words and diacritics: a state
\* goes to the English model unless it has letters and most are of another
\* script, or another language has the stop words or the diacritics for it
\* (lang.rs, is_english).
THEOREM LanguageCorrect == Spec => []LanguageIsReference
<1>1. InputInv => LanguageIsReference
  <2> SUFFICES ASSUME InputInv, input.of = "language" PROVE LanguageIsReference
    BY DEF LanguageIsReference
  <2> DEFINE letters == input.letters
             N(s) == Letters(letters, s)
             F == Foreign(letters)
             script == DetectScript(input)
             guess == GuessLatinLanguage(input)
  <2>1. input \in LanguageRecords
    BY DEF InputInv
  <2>2. letters \in Seq(Scripts)
    <3> DEFINE T == [ToSet(Others) -> Stops]
               L == Seq(Scripts)
    <3>1. input \in [of : {"language"}, letters : L, words : Words, en : Stops, stop : T,
                     chars : {50, 100}, diacritics : Diacs]
      BY <2>1 DEF LanguageRecords
    <3> HIDE DEF T, L
    <3>2. input.letters \in L
      BY <3>1
    <3> QED
      BY <3>2 DEF L
  <2>3. Counts(input)
    <3> DEFINE T == [ToSet(Others) -> Stops]
               L == Seq(Scripts)
    <3>1. input \in [of : {"language"}, letters : L, words : Words, en : Stops, stop : T,
                     chars : {50, 100}, diacritics : Diacs]
      BY <2>1 DEF LanguageRecords
    <3>2. T \subseteq [ToSet(Others) -> Nat]
      BY LetterAssumption
    <3> HIDE DEF T, L
    <3>3. /\ input.words \in Nat /\ input.en \in Nat /\ input.chars \in Nat
          /\ input.diacritics \in Nat /\ input.stop \in T
      BY <3>1, LetterAssumption
    <3> QED
      BY <3>2, <3>3 DEF Counts
  <2>4. Detected(letters, script)
    BY <2>2, LetterAssumption, DetectScriptFacts
  <2>5. guess \in {"none", "en"} <=> (input.words >= 4 => \A l \in ToSet(Others) : ~Beats(input, l))
    BY <2>3, GuessFacts
  <2>6. LanguageIsReference <=>
          (IsEnglish(input) <=>
              /\ \A s \in F : N(s) < N("latin")
              /\ N("latin") > 0 /\ input.words >= 4 => \A l \in ToSet(Others) : ~Beats(input, l))
    BY DEF LanguageIsReference, Letters, Foreign, Beats
  <2>7. IsEnglish(input) <=> script = "unknown" \/ (script = "latin" /\ guess \in {"none", "en"})
    BY DEF IsEnglish
  <2>8. N("latin") \in Nat /\ \A s \in F : N(s) \in Nat /\ N(s) # 0
    <3>1. N("latin") \in Nat
      BY <2>2, CountIsNumber
    <3>2. ASSUME NEW s \in F PROVE N(s) \in Nat /\ N(s) # 0
      <4>1. s \in ToSet(letters)
        BY DEF Foreign
      <4> HIDE DEF letters
      <4> QED
        BY <2>2, <4>1, CountIsNumber
    <3> QED
      BY <3>1, <3>2
  <2>9. /\ script = "unknown" <=> F = {} /\ N("latin") = 0
        /\ script = "latin" <=> N("latin") # 0 /\ \A s \in F : N(s) < N("latin")
    BY <2>4 DEF Detected
  <2> HIDE DEF letters, F, N, script, guess
  <2>10. CASE N("latin") = 0
    <3>1. (\A s \in F : N(s) < N("latin")) <=> F = {}
      BY <2>8, <2>10
    <3> QED
      BY <2>6, <2>7, <2>8, <2>9, <2>10, <3>1
  <2>11. CASE N("latin") # 0
    <3>1. N("latin") > 0
      BY <2>8, <2>11
    <3> QED
      BY <2>5, <2>6, <2>7, <2>9, <2>11, <3>1
  <2> QED
    BY <2>10, <2>11
<1> QED
  BY <1>1, InputInvariant, PTL

\* The sequence that a model runs on, for any question, state and model: it fits
\* max_len, and each option that is encoded is scored at a mask of its own that
\* its text follows (sequence.rs, assemble and encode).
THEOREM SequenceCorrect == Spec => []SequenceSound
<1>1. InputInv => SequenceSound
  <2> SUFFICES ASSUME InputInv, Asked(input) PROVE SequenceSound
    BY DEF SequenceSound
  <2> DEFINE meta == input.meta
             opts == input.opts
             a == Assemble(meta, input.head, opts, input.state)
  <2>1. AssembleInput(Token, meta, input.head, opts, input.state)
    BY AskedInput
  <2>2. Scores(meta, opts, a) /\ a.ids \in Seq(Token)
    <3> DEFINE h == input.head
               s == input.state
    <3>1. AssembleInput(Token, meta, h, opts, s) /\ a = Assemble(meta, h, opts, s)
      BY <2>1
    <3> HIDE DEF meta, opts, a, h, s
    <3> QED
      BY <3>1, AssembleScores
  <2>3. DOMAIN opts = 1 .. Len(opts) /\ \A j \in 1 .. Len(opts) : DOMAIN opts[j] = 1 .. Len(opts[j])
    <3>1. opts \in Seq(Seq(Token))
      BY <2>1 DEF AssembleInput
    <3> HIDE DEF opts
    <3> QED
      BY <3>1
  <2>4. DOMAIN a.ids = 1 .. Len(a.ids)
    <3> HIDE DEF a
    <3> QED
      BY <2>2
  <2>5. SequenceSound <=>
          /\ Len(a.ids) <= meta.maxLen
          /\ Len(a.markers) = Len(opts) =>
                \A j \in DOMAIN opts :
                    LET at == a.markers[j] + 1 IN
                    /\ at \in DOMAIN a.ids /\ a.ids[at] = Mask
                    /\ \A i \in DOMAIN opts[j] :
                          i < OptionLeast /\ at + i \in DOMAIN a.ids => a.ids[at + i] = opts[j][i]
    BY DEF SequenceSound, Encodes
  <2> HIDE DEF meta, opts, a
  <2> QED
    BY <2>2, <2>3, <2>4, <2>5 DEF Scores
<1> QED
  BY <1>1, InputInvariant, PTL

\* Nothing crowds out the rest, for any question and state that fit the model's
\* limits: the head keeps its reserve or all it has, and the state what
\* head_max_len leaves of max_len, or all it has (sequence.rs, assemble).
THEOREM RoomCorrect == Spec => []RoomForAll
<1>1. InputInv => RoomForAll
  <2> SUFFICES ASSUME InputInv, Asked(input),
                      OptionLeast * Len(input.opts) <= input.meta.headMax - HeadReserve,
                      input.meta.maxLen >= input.meta.headMax + 4
               PROVE  RoomForAll
    BY DEF RoomForAll
  <2> DEFINE meta == input.meta
             head == input.head
             opts == input.opts
             state == input.state
             ids == Assemble(meta, head, opts, state).ids
             X == NoState
  <2>1. Cls \in X /\ Sep \in X /\ Mask \in X
    <3>1. /\ "cls" \in Kinds \ {"state"} /\ "sep" \in Kinds \ {"state"} /\ "mask" \in Kinds \ {"state"}
          /\ 0 \in Nat
      BY DEF Kinds
    <3> QED
      BY <3>1 DEF NoState, Cls, Sep, Mask
  <2>2. {"head"} \X Nat \X Nat \subseteq X /\ {"option"} \X Nat \X Nat \subseteq X
    <3>1. {"head"} \subseteq Kinds \ {"state"} /\ {"option"} \subseteq Kinds \ {"state"}
      BY DEF Kinds
    <3> QED
      BY <3>1 DEF NoState
  <2> HIDE DEF X
  <2>3. /\ head \in Seq(X) /\ opts \in Seq(Seq(X)) /\ opts # <<>>
        /\ meta.maxLen \in Nat /\ meta.headMax \in Nat
        /\ \E n \in Nat : state = Text("state", 0, n)
        /\ \E n \in Nat : head = Text("head", 0, n)
    BY <2>1, <2>2, AskedWith
  <2>4. AssembleInput(NoState, meta, head, opts, <<>>)
    BY <2>1, <2>3 DEF AssembleInput, X
  <2>5. PICK ns \in Nat, nh \in Nat : state = Text("state", 0, ns) /\ head = Text("head", 0, nh)
    BY <2>3
  <2>6. /\ OptionLeast * Len(opts) <= meta.headMax - HeadReserve
        /\ meta.maxLen >= meta.headMax + 4
    OBVIOUS
  <2>7. RoomForAll <=> Shares(meta, head, state, ids)
    BY <2>6 DEF RoomForAll, Shares
  <2>8. Shares(meta, head, state, Assemble(meta, head, opts, state).ids)
    <3> HIDE DEF meta, head, opts, state, ids
    <3> QED
      BY <2>4, <2>5, <2>6, AssembleShares
  <2> HIDE DEF meta, head, opts, state
  <2> QED
    BY <2>7, <2>8
<1> QED
  BY <1>1, InputInvariant, PTL

\* Tokenizing a prefix of a long state changes nothing: for any text, however its
\* tokens and its blanks lie, the sequence is the one its whole text would give.
\* It rests on what the margin is for, that the tokenizer sees no further before
\* a cut (model/mod.rs, tokenize_prefix).
THEOREM PrefixCorrect ==
    ASSUME Reach <= Margin
    PROVE  Spec => []PrefixIsEnough
<1>1. InputInv => PrefixIsEnough
  <2> SUFFICES ASSUME InputInv, input.of = "prefix" PROVE PrefixIsEnough
    BY DEF PrefixIsEnough
  <2> DEFINE meta == input.meta
             head == input.head
             text == input.text
             n == text.n
             opts == <<Text("option", 1, 1), Text("option", 2, 2)>>
             max == meta.maxLen
             tok == TokenizePrefix(text, max)
             full == Full(text)
  <2>1. /\ head \in {Text("head", 0, l) : l \in HeadLens} /\ meta \in LongMetas
        /\ text \in [n : TextLens, width : Widths, char : Chars, blanks : Blanks]
    <3> DEFINE H == {Text("head", 0, l) : l \in HeadLens}
               T == [n : TextLens, width : Widths, char : Chars, blanks : Blanks]
    <3>1. input \in [of : {"prefix"}, meta : LongMetas, head : H, text : T]
      BY DEF InputInv, PrefixInputs
    <3> HIDE DEF H, T
    <3>2. input.head \in H /\ input.meta \in LongMetas /\ input.text \in T
      BY <3>1
    <3> QED
      BY <3>2 DEF H, T
  <2>2. max \in Nat /\ meta.headMax \in Nat
    <3> HIDE DEF meta
    <3> QED
      BY <2>1, QuestionAssumption DEF max
  <2>3. IsText(text) /\ n \in Nat
    <3> HIDE DEF text
    <3>1. text.n \in TextLens /\ text.width \in Widths /\ text.char \in Chars /\ text.blanks \in Blanks
      BY <2>1
    <3> QED
      BY <3>1, QuestionAssumption DEF IsText, n
  <2>4. AssembleInput(Token, meta, head, opts, <<>>)
    <3>1. "head" \in Kinds /\ "option" \in Kinds /\ "cls" \in Kinds /\ "sep" \in Kinds /\ "mask" \in Kinds
      BY DEF Kinds
    <3>2. 0 \in Nat /\ 1 \in Nat /\ 2 \in Nat
      OBVIOUS
    <3>3. Cls \in Token /\ Sep \in Token /\ Mask \in Token
      BY <3>1, <3>2 DEF Token, Cls, Sep, Mask
    <3>4. head \in Seq(Token)
      <4>1. PICK l \in HeadLens : head = Text("head", 0, l)
        BY <2>1
      <4> HIDE DEF head
      <4> QED
        BY <3>1, <3>2, <4>1, TextFacts, QuestionAssumption
    <3>5. opts \in Seq(Seq(Token)) /\ opts # <<>>
      <4> DEFINE a == Text("option", 1, 1)
                 b == Text("option", 2, 2)
                 Y == Seq(Token)
      <4>1. a \in Y /\ b \in Y
        BY <3>1, <3>2, TextFacts
      <4> HIDE DEF a, b, Y
      <4>2. <<a, b>> \in Seq(Y) /\ <<a, b>> # <<>>
        BY <4>1
      <4> QED
        BY <4>2 DEF a, b, Y
    <3> HIDE DEF opts, meta, head
    <3> QED
      BY <2>2, <3>3, <3>4, <3>5 DEF AssembleInput, max
  <2>5. PrefixIsEnough <=> Assemble(meta, head, opts, tok) = Assemble(meta, head, opts, full)
    BY DEF PrefixIsEnough
  <2> HIDE DEF opts, meta, head, text
  <2>6. PICK k \in Nat : tok = Text("state", 0, k) /\ k <= n /\ (k = n \/ max <= k)
    <3> HIDE DEF max
    <3> QED
      BY <2>2, <2>3, PrefixFacts
  <2>7. full = Text("state", 0, n) /\ "state" \in Kinds
    BY DEF Full, Kinds
  <2> HIDE DEF max, tok, full, n
  <2>8. ASSUME NEW r \in 0 .. max PROVE Clip(tok, r) = Clip(full, r)
    <3>1. r \in Nat /\ r <= max
      BY <2>2
    <3>2. Clip(tok, r) = Text("state", 0, Smaller(r, k)) /\ Clip(full, r) = Text("state", 0, Smaller(r, n))
      BY <2>3, <2>6, <2>7, <3>1, ClipText
    <3>3. Smaller(r, k) = Smaller(r, n)
      BY <2>2, <2>3, <2>6, <3>1 DEF Smaller
    <3> QED
      BY <3>2, <3>3
  <2>9. SameStart(meta.maxLen, tok, full)
    BY <2>8 DEF SameStart, max
  <2> QED
    BY <2>4, <2>5, <2>9, AssembleSame
<1> QED
  BY <1>1, InputInvariant, PTL
=============================================================================
