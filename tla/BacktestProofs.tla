--------------------------- MODULE BacktestProofs ---------------------------
(* Proofs about a backtest from its request to its last tick, for every graph, *)
(* store, policy and bundle: a series is loaded whole however its reads end,   *)
(* a run under the `fail` policy has every bar it asked for, every funding     *)
(* rate is in one window, and what is read was required.                       *)
EXTENDS Backtest, TopoSortProofs, WellFoundedInduction

-----------------------------------------------------------------------------
(* Sets of numbers and lists in order: where the rank of each member is how   *)
(* many are below it, every rank up to the number of members is taken once.   *)

\* What is below each member of S is so by a total order.
Ordered(S, below) ==
  /\ below \in [S -> SUBSET S]
  /\ \A x \in S : x \notin below[x]
  /\ \A x, y \in S : x # y => x \in below[y] \/ y \in below[x]
  /\ \A x, y \in S : x \in below[y] => below[x] \subseteq below[y]

Ranked(S, below) ==
  /\ Cardinality(S) \in Nat
  /\ \A x, y \in S : x \in below[y] => Cardinality(below[x]) < Cardinality(below[y])
  /\ \A x, y \in S : Cardinality(below[x]) = Cardinality(below[y]) => x = y
  /\ \A x \in S : Cardinality(below[x]) \in 0..(Cardinality(S) - 1)
  /\ \A i \in 1..Cardinality(S) : \E x \in S : Cardinality(below[x]) = i - 1

LEMMA RanksAreTaken ==
  ASSUME NEW S, IsFiniteSet(S), NEW below, Ordered(S, below)
  PROVE  Ranked(S, below)
<1> USE DEF Ordered
<1> DEFINE n == Cardinality(S)
           rank == [x \in S |-> Cardinality(below[x]) + 1]
<1>1. n \in Nat
  BY FS_CardinalityType
<1>2. ASSUME NEW x \in S
      PROVE  IsFiniteSet(below[x]) /\ Cardinality(below[x]) \in 0..(n - 1)
  <2>1. below[x] \in SUBSET S /\ below[x] # S
    OBVIOUS
  <2>2. IsFiniteSet(below[x]) /\ Cardinality(below[x]) <= n /\ Cardinality(below[x]) # n
    BY <2>1, FS_Subset
  <2>3. Cardinality(below[x]) \in Nat
    BY <2>2, FS_CardinalityType
  <2> QED BY <1>1, <2>2, <2>3
<1>3. ASSUME NEW x \in S, NEW y \in S, x \in below[y]
      PROVE  Cardinality(below[x]) < Cardinality(below[y])
  <2>1. below[x] \in SUBSET below[y] /\ below[x] # below[y]
    BY <1>3
  <2>2. IsFiniteSet(below[y]) /\ Cardinality(below[x]) \in Nat /\ Cardinality(below[y]) \in Nat
    BY <1>1, <1>2
  <2>3. Cardinality(below[x]) <= Cardinality(below[y]) /\ Cardinality(below[y]) # Cardinality(below[x])
    BY <2>1, <2>2, FS_Subset
  <2> QED BY <2>2, <2>3
<1>4. ASSUME NEW x \in S, NEW y \in S, Cardinality(below[x]) = Cardinality(below[y])
      PROVE  x = y
  <2>1. Cardinality(below[x]) \in Nat /\ Cardinality(below[y]) \in Nat
    BY <1>1, <1>2
  <2> QED BY <1>3, <1>4, <2>1
<1> HIDE DEF n
<1>5. ASSUME NEW x \in S PROVE rank[x] \in 1..n
  <2>1. Cardinality(below[x]) \in 0..(n - 1)
    BY <1>2
  <2> QED BY <1>1, <2>1
<1>6. \A x, y \in S : rank[x] = rank[y] => x = y
  <2> SUFFICES ASSUME NEW x \in S, NEW y \in S, rank[x] = rank[y] PROVE x = y
    OBVIOUS
  <2>1. Cardinality(below[x]) \in 0..(n - 1) /\ Cardinality(below[y]) \in 0..(n - 1)
    BY <1>2
  <2>2. Cardinality(below[x]) = Cardinality(below[y])
    BY <1>1, <2>1
  <2> QED BY <1>4, <2>2
<1>7. rank \in [S -> 1..n]
  BY <1>5
<1>8. rank \in Injection(S, 1..n)
  <2> HIDE DEF rank
  <2> QED BY <1>6, <1>7 DEF Injection, IsInjective
<1>9. IsFiniteSet(1..n) /\ Cardinality(1..n) = n
  BY <1>1, FS_Interval
<1>10. rank \in Surjection(S, 1..n)
  <2> HIDE DEF rank
  <2> QED BY <1>8, <1>9, FS_Injection DEF n
<1>11. ASSUME NEW i \in 1..n PROVE \E x \in S : Cardinality(below[x]) = i - 1
  <2>1. PICK x \in S : rank[x] = i
    <3> HIDE DEF rank
    <3> QED BY <1>10 DEF Surjection
  <2>2. Cardinality(below[x]) \in 0..(n - 1)
    BY <1>2
  <2>3. Cardinality(below[x]) = i - 1
    BY <1>1, <2>1, <2>2
  <2> QED BY <2>3
<1> QED BY <1>1, <1>2, <1>3, <1>4, <1>11 DEF n, Ranked

\* The numbers of a finite set, ascending: each once, in order.
LEMMA AscendingLists ==
  ASSUME NEW S \in SUBSET Int, IsFiniteSet(S)
  PROVE  /\ Ascending(S) \in Seq(S)
         /\ Len(Ascending(S)) = Cardinality(S)
         /\ \A x \in S : \E i \in DOMAIN Ascending(S) : Ascending(S)[i] = x
         /\ \A i, j \in DOMAIN Ascending(S) : i < j => Ascending(S)[i] < Ascending(S)[j]
<1> DEFINE below == [t \in S |-> {u \in S : u < t}]
           n == Cardinality(S)
           asc == Ascending(S)
<1>1. below \in [S -> SUBSET S] /\ \A t \in S : below[t] = {u \in S : u < t}
  OBVIOUS
<1> HIDE DEF below
<1>2. \A x \in S : x \in Int
  OBVIOUS
<1>3. Ordered(S, below)
  <2>1. \A x, y \in S : x \in below[y] <=> x < y
    BY <1>1
  <2>2. \A y \in S : below[y] \subseteq S
    BY <1>1
  <2>3. \A x \in S : x \notin below[x]
    BY <1>2, <2>1
  <2>4. \A x, y \in S : x # y => x \in below[y] \/ y \in below[x]
    BY <1>2, <2>1
  <2>5. \A x, y \in S : x \in below[y] => below[x] \subseteq below[y]
    <3> SUFFICES ASSUME NEW x \in S, NEW y \in S, x \in below[y], NEW z \in below[x] PROVE z \in below[y]
      OBVIOUS
    <3>1. z \in S /\ z < x /\ x < y
      BY <2>1, <2>2
    <3> QED BY <1>2, <2>1, <3>1
  <2> QED BY <1>1, <2>3, <2>4, <2>5 DEF Ordered
<1>3a. Ranked(S, below)
  BY <1>3, RanksAreTaken
<1>4. /\ Cardinality(S) \in Nat
      /\ \A x, y \in S : x \in below[y] => Cardinality(below[x]) < Cardinality(below[y])
      /\ \A x, y \in S : Cardinality(below[x]) = Cardinality(below[y]) => x = y
      /\ \A x \in S : Cardinality(below[x]) \in 0..(Cardinality(S) - 1)
      /\ \A i \in 1..Cardinality(S) : \E x \in S : Cardinality(below[x]) = i - 1
  BY <1>3a DEF Ranked
<1>5. ASSUME NEW i \in 1..n PROVE asc[i] \in S /\ Cardinality(below[asc[i]]) = i - 1
  <2>1. PICK x \in S : Cardinality({u \in S : u < x}) = i - 1
    BY <1>1, <1>4
  <2>2. asc[i] = CHOOSE t \in S : Cardinality({u \in S : u < t}) = i - 1
    BY DEF Ascending
  <2>3. asc[i] \in S /\ Cardinality({u \in S : u < asc[i]}) = i - 1
    BY <2>1, <2>2
  <2> QED BY <1>1, <2>3
<1>5a. asc = [i \in 1..n |-> asc[i]]
  BY DEF Ascending
<1>5b. n \in Nat
  BY <1>4
<1> HIDE DEF n, asc
<1>6. asc \in [1..n -> S]
  BY <1>5, <1>5a
<1>7. asc \in Seq(S) /\ Len(asc) = n /\ DOMAIN asc = 1..n
  BY <1>5b, <1>6
<1>8. ASSUME NEW x \in S PROVE \E i \in 1..n : asc[i] = x
  <2> DEFINE i == Cardinality(below[x]) + 1
  <2>1. i \in 1..n /\ i - 1 = Cardinality(below[x])
    <3>1. Cardinality(below[x]) \in 0..(n - 1)
      BY <1>4 DEF n
    <3> QED BY <1>5b, <3>1
  <2> HIDE DEF i
  <2>2. asc[i] \in S /\ Cardinality(below[asc[i]]) = Cardinality(below[x])
    BY <1>5, <2>1
  <2> QED BY <1>4, <2>1, <2>2
<1>9. ASSUME NEW i \in 1..n, NEW j \in 1..n, i < j PROVE asc[i] < asc[j]
  <2>1. /\ asc[i] \in S /\ Cardinality(below[asc[i]]) = i - 1
        /\ asc[j] \in S /\ Cardinality(below[asc[j]]) = j - 1
    BY <1>5
  <2>2. asc[i] # asc[j] /\ asc[j] \notin below[asc[i]]
    <3>1. i - 1 # j - 1 /\ ~(j - 1 < i - 1)
      BY <1>5b, <1>9
    <3> QED BY <1>4, <2>1, <3>1
  <2>3. asc[i] \in below[asc[j]]
    BY <1>3, <2>1, <2>2 DEF Ordered
  <2> QED BY <1>1, <2>1, <2>3
<1> QED BY <1>7, <1>8, <1>9 DEF asc, n

-----------------------------------------------------------------------------
(* How often a value occurs in a list.                                        *)

\* Induction over the naturals, over a set in place of a predicate.
LEMMA NatInSet ==
  ASSUME NEW S, 0 \in S, \A n \in Nat : n \in S => n + 1 \in S
  PROVE  Nat \subseteq S
<1> SUFFICES ASSUME Nat \ S # {} PROVE FALSE
  OBVIOUS
<1>1. IsWellFoundedOn(OpToRel(<, Nat), Nat)
  BY NatLessThanWellFounded
<1>2. PICK n \in Nat \ S : \A m \in Nat \ S : ~(<<m, n>> \in OpToRel(<, Nat))
  BY <1>1, WFMin
<1>3. \A m \in Nat \ S : ~(m < n)
  BY <1>2 DEF OpToRel
<1>4. n # 0 /\ n - 1 \in Nat /\ n - 1 \in S
  BY <1>3
<1> QED BY <1>4

\* The places of a list that have t, up to place n.
Places(t, s, n) == {i \in 1..n : s[i] = t}

LEMMA PlacesCounted ==
  ASSUME NEW t, NEW s, NEW n \in Nat
  PROVE  /\ IsFiniteSet(Places(t, s, n)) /\ Cardinality(Places(t, s, n)) \in Nat
         /\ Cardinality(Places(t, s, n)) = 0 <=> \A i \in 1..n : s[i] # t
<1>1. IsFiniteSet(1..n) /\ Places(t, s, n) \in SUBSET (1..n)
  BY FS_Interval DEF Places
<1>2. IsFiniteSet(Places(t, s, n))
  BY <1>1, FS_Subset
<1>3. Cardinality(Places(t, s, n)) = 0 <=> Places(t, s, n) = {}
  BY <1>2, FS_EmptySet
<1> QED BY <1>2, <1>3, FS_CardinalityType DEF Places

LEMMA OccursCounts ==
  ASSUME NEW S, NEW s \in Seq(S), NEW t
  PROVE  /\ Occurs(t, s) = Cardinality(Places(t, s, Len(s)))
         /\ Occurs(t, s) \in Nat
         /\ Occurs(t, s) = 0 <=> t \notin Range(s)
         /\ Range(s) \subseteq S
<1>1. Len(s) \in Nat /\ DOMAIN s = 1..Len(s)
  OBVIOUS
<1>2. Occurs(t, s) = Cardinality(Places(t, s, Len(s)))
  BY <1>1 DEF Occurs, Places
<1>3. t \notin Range(s) <=> \A i \in 1..Len(s) : s[i] # t
  BY <1>1 DEF Range
<1>4. Range(s) \subseteq S
  BY DEF Range
<1> QED BY <1>1, <1>2, <1>3, <1>4, PlacesCounted

LEMMA OccursInEmpty ==
  ASSUME NEW t PROVE Occurs(t, <<>>) = 0
<1>1. <<>> \in Seq({}) /\ Range(<<>>) = {}
  BY DEF Range
<1> QED BY <1>1, OccursCounts

\* The places of two lists, the one behind the other.
LEMMA OccursInBoth ==
  ASSUME NEW S, NEW r \in Seq(S), NEW s \in Seq(S), NEW t
  PROVE  Occurs(t, r \o s) = Occurs(t, r) + Occurs(t, s)
<1> DEFINE m == Len(r)
           k == Len(s)
           A == Places(t, r, m)
           B == Places(t, s, k)
           C == {i \in (m + 1)..(m + k) : s[i - m] = t}
<1>1. m \in Nat /\ k \in Nat /\ DOMAIN r = 1..m /\ DOMAIN s = 1..k
  OBVIOUS
<1>2. /\ r \o s \in Seq(S) /\ Len(r \o s) = m + k
      /\ \A i \in 1..(m + k) : (r \o s)[i] = IF i <= m THEN r[i] ELSE s[i - m]
  OBVIOUS
<1>3. Places(t, r \o s, m + k) = A \cup C
  <2> HIDE DEF m, k
  <2>1. \A i \in 1..(m + k) : i \in 1..m \/ i \in (m + 1)..(m + k)
    BY <1>1
  <2>2. \A i \in 1..m : i \in 1..(m + k) /\ (r \o s)[i] = r[i]
    BY <1>1, <1>2
  <2>3. \A i \in (m + 1)..(m + k) : i \in 1..(m + k) /\ (r \o s)[i] = s[i - m]
    BY <1>1, <1>2
  <2> QED BY <2>1, <2>2, <2>3 DEF Places
<1> HIDE DEF m, k
<1>4. A \cap C = {} /\ IsFiniteSet(A) /\ IsFiniteSet(B) /\ Cardinality(B) \in Nat
  <2>1. A \cap C = {}
    BY <1>1 DEF Places
  <2> QED BY <1>1, <2>1, PlacesCounted
<1>5. IsFiniteSet(C) /\ Cardinality(C) = Cardinality(B)
  <2> DEFINE f == [j \in B |-> j + m]
  <2>1. \A j \in B : j \in 1..k /\ s[j] = t
    BY DEF Places
  <2>2. ASSUME NEW j \in B PROVE j + m \in C
    <3>1. j \in 1..k /\ s[j] = t /\ (j + m) - m = j /\ j + m \in (m + 1)..(m + k)
      BY <1>1, <2>1
    <3> QED BY <3>1
  <2>3. f \in [B -> C]
    BY <2>2
  <2>4. \A i, j \in B : f[i] = f[j] => i = j
    BY <1>1, <2>1
  <2>5. ASSUME NEW i \in C PROVE \E j \in B : f[j] = i
    <3>1. i \in (m + 1)..(m + k) /\ i - m \in 1..k /\ (i - m) + m = i /\ s[i - m] = t
      BY <1>1
    <3>2. i - m \in B
      BY <3>1 DEF Places
    <3> QED BY <3>1, <3>2
  <2> HIDE DEF f, B, C
  <2>6. f \in Bijection(B, C)
    BY <2>3, <2>4, <2>5 DEF Bijection, Injection, Surjection, IsInjective
  <2>7. ExistsBijection(B, C)
    BY <2>6 DEF ExistsBijection
  <2> QED BY <1>4, <2>7, FS_Bijection
<1> HIDE DEF A, B, C
<1>6. Cardinality(A \cup C) = Cardinality(A) + Cardinality(C)
  <2>1. Cardinality(A) \in Nat /\ Cardinality(C) \in Nat /\ Cardinality(A \cap C) = 0
    BY <1>4, <1>5, FS_CardinalityType, FS_EmptySet
  <2>2. Cardinality(A \cup C) = Cardinality(A) + Cardinality(C) - Cardinality(A \cap C)
    BY <1>4, <1>5, FS_Union
  <2> QED BY <2>1, <2>2
<1>7. Occurs(t, r) = Cardinality(A) /\ Occurs(t, s) = Cardinality(B)
  BY OccursCounts DEF A, B, m, k
<1>8. Occurs(t, r \o s) = Cardinality(Places(t, r \o s, m + k))
  BY <1>2, OccursCounts
<1> QED BY <1>3, <1>5, <1>6, <1>7, <1>8

\* One element behind a list.
LEMMA OccursInAppended ==
  ASSUME NEW S, NEW s \in Seq(S), NEW x \in S, NEW t
  PROVE  Occurs(t, Append(s, x)) = Occurs(t, s) + (IF x = t THEN 1 ELSE 0)
<1>1. <<x>> \in Seq(S) /\ Append(s, x) = s \o <<x>>
  OBVIOUS
<1>2. Occurs(t, <<x>>) = IF x = t THEN 1 ELSE 0
  <2>1. Len(<<x>>) = 1 /\ <<x>>[1] = x /\ 1..1 = {1}
    OBVIOUS
  <2>2. Places(t, <<x>>, 1) = IF x = t THEN {1} ELSE {}
    BY <2>1 DEF Places
  <2>3. Cardinality({1}) = 1 /\ Cardinality({}) = 0
    BY FS_Singleton, FS_EmptySet
  <2>4. Occurs(t, <<x>>) = Cardinality(Places(t, <<x>>, 1))
    BY <1>1, <2>1, OccursCounts
  <2> QED BY <2>2, <2>3, <2>4
<1> QED BY <1>1, <1>2, OccursInBoth

-----------------------------------------------------------------------------
(* Those of a list that are in a set.                                         *)

Extend(list, keep, n, before) ==
  IF list[n] \in keep THEN Append(before, list[n]) ELSE before

\* g has those among the first n elements, for every n up to N.
Gathers(list, keep, N, g) ==
  g = [n \in 0..N |-> IF n = 0 THEN <<>> ELSE Extend(list, keep, n, g[n - 1])]

LEMMA GathersExists ==
  ASSUME NEW list, NEW keep
  PROVE  \A N \in Nat : \E g : Gathers(list, keep, N, g)
<1> DEFINE S == {N \in Nat : \E g : Gathers(list, keep, N, g)}
<1>1. 0 \in S
  <2> DEFINE g == [n \in 0..0 |-> <<>>]
  <2>1. Gathers(list, keep, 0, g)
    BY DEF Gathers
  <2> QED BY <2>1
<1>2. ASSUME NEW N \in Nat, N \in S
      PROVE  N + 1 \in S
  <2>1. PICK g : Gathers(list, keep, N, g)
    BY <1>2
  <2> DEFINE h == [n \in 0..(N + 1) |-> IF n = N + 1 THEN Extend(list, keep, n, g[N]) ELSE g[n]]
  <2>2. \A n \in 0..N : g[n] = IF n = 0 THEN <<>> ELSE Extend(list, keep, n, g[n - 1])
    BY <2>1 DEF Gathers
  <2>3. \A n \in 0..N : h[n] = g[n]
    OBVIOUS
  <2>4. ASSUME NEW n \in 0..(N + 1)
        PROVE  h[n] = IF n = 0 THEN <<>> ELSE Extend(list, keep, n, h[n - 1])
    <3>1. CASE n = N + 1
      <4>1. h[n] = Extend(list, keep, n, g[N]) /\ h[N] = g[N] /\ n # 0 /\ n - 1 = N
        BY <3>1, <2>3
      <4> QED BY <4>1
    <3>2. CASE n = 0
      BY <2>2, <3>2
    <3>3. CASE n \in 1..N
      <4>1. h[n] = g[n] /\ h[n - 1] = g[n - 1] /\ n \in 0..N /\ n # 0
        BY <3>3, <2>3
      <4> QED BY <2>2, <4>1
    <3> QED BY <3>1, <3>2, <3>3
  <2>5. Gathers(list, keep, N + 1, h)
    <3> HIDE DEF h
    <3>1. h = [n \in 0..(N + 1) |-> h[n]]
      BY DEF h
    <3>2. [n \in 0..(N + 1) |-> h[n]]
            = [n \in 0..(N + 1) |-> IF n = 0 THEN <<>> ELSE Extend(list, keep, n, h[n - 1])]
      BY <2>4
    <3> QED BY <3>1, <3>2 DEF Gathers
  <2> QED BY <2>5
<1> HIDE DEF S
<1>3. Nat \subseteq S
  BY <1>1, <1>2, NatInSet
<1> QED BY <1>3 DEF S

\* One more place to look at.
LEMMA NextPlace ==
  ASSUME NEW t, NEW s, NEW n \in Nat
  PROVE  Cardinality(Places(t, s, n + 1))
           = Cardinality(Places(t, s, n)) + (IF s[n + 1] = t THEN 1 ELSE 0)
<1>1. \A i \in Nat \ {0} : i \in 1..(n + 1) <=> i \in 1..n \/ i = n + 1
  OBVIOUS
<1>2. 1..(n + 1) \subseteq Nat \ {0} /\ 1..n \subseteq Nat \ {0} /\ n + 1 \in Nat \ {0} /\ n + 1 \notin 1..n
  OBVIOUS
<1>3. Places(t, s, n + 1) = IF s[n + 1] = t THEN Places(t, s, n) \cup {n + 1} ELSE Places(t, s, n)
  BY <1>1, <1>2 DEF Places
<1>4. IsFiniteSet(Places(t, s, n)) /\ n + 1 \notin Places(t, s, n) /\ Cardinality(Places(t, s, n)) \in Nat
  BY <1>2, PlacesCounted DEF Places
<1>5. Cardinality(Places(t, s, n) \cup {n + 1}) = Cardinality(Places(t, s, n)) + 1
  BY <1>4, FS_AddElement
<1> QED BY <1>3, <1>4, <1>5

\* Those of a list that are kept are in it as often as they were.
LEMMA ThoseAreKept ==
  ASSUME NEW S, NEW list \in Seq(S), NEW keep
  PROVE  /\ Those(list, keep) \in Seq(S \cap keep)
         /\ \A t : Occurs(t, Those(list, keep)) = IF t \in keep THEN Occurs(t, list) ELSE 0
<1> DEFINE N == Len(list)
           g == CHOOSE f : Gathers(list, keep, N, f)
<1>1. N \in Nat /\ DOMAIN list = 1..N /\ \A n \in 1..N : list[n] \in S
  OBVIOUS
<1>2. Those(list, keep) = g[N]
  BY DEF Those, Gathers, Extend
<1>3. Gathers(list, keep, N, g)
  BY <1>1, GathersExists
<1> HIDE DEF g
<1>4. g[0] = <<>> /\ \A n \in 0..N : n # 0 => g[n] = Extend(list, keep, n, g[n - 1])
  BY <1>1, <1>3 DEF Gathers
<1> HIDE DEF N
<1> DEFINE Good(n) == /\ g[n] \in Seq(S \cap keep)
                      /\ \A t : Occurs(t, g[n]) = IF t \in keep THEN Cardinality(Places(t, list, n)) ELSE 0
           M == {n \in Nat : n <= N => Good(n)}
<1>5. 0 \in M
  <2>1. \A t : Occurs(t, <<>>) = 0 /\ Cardinality(Places(t, list, 0)) = 0
    BY OccursInEmpty, PlacesCounted
  <2>2. <<>> \in Seq(S \cap keep)
    OBVIOUS
  <2> QED BY <1>4, <2>1, <2>2
<1>6. ASSUME NEW n \in Nat, n \in M PROVE n + 1 \in M
  <2> SUFFICES ASSUME n + 1 <= N PROVE Good(n + 1)
    OBVIOUS
  <2>1. n + 1 \in 1..N /\ n + 1 \in 0..N /\ (n + 1) - 1 = n /\ n + 1 # 0 /\ n <= N
    BY <1>1
  <2>2. Good(n)
    BY <1>6, <2>1
  <2>3. g[n + 1] = Extend(list, keep, n + 1, g[n]) /\ list[n + 1] \in S
    BY <1>1, <1>4, <2>1
  <2> HIDE DEF M
  <2>4. CASE list[n + 1] \in keep
    <3>1. g[n + 1] = Append(g[n], list[n + 1]) /\ g[n] \in Seq(S \cap keep) /\ list[n + 1] \in S \cap keep
      BY <2>2, <2>3, <2>4 DEF Extend
    <3>2. g[n + 1] \in Seq(S \cap keep)
      BY <3>1
    <3>3. ASSUME NEW t
          PROVE  Occurs(t, g[n + 1]) = IF t \in keep THEN Cardinality(Places(t, list, n + 1)) ELSE 0
      <4>1. Occurs(t, g[n + 1]) = Occurs(t, g[n]) + (IF list[n + 1] = t THEN 1 ELSE 0)
        BY <3>1, OccursInAppended
      <4>2. /\ Cardinality(Places(t, list, n + 1))
                 = Cardinality(Places(t, list, n)) + (IF list[n + 1] = t THEN 1 ELSE 0)
            /\ Cardinality(Places(t, list, n)) \in Nat
        BY NextPlace, PlacesCounted
      <4>3. Occurs(t, g[n]) = IF t \in keep THEN Cardinality(Places(t, list, n)) ELSE 0
        BY <2>2
      <4> QED BY <2>4, <4>1, <4>2, <4>3
    <3> QED BY <3>2, <3>3
  <2>5. CASE list[n + 1] \notin keep
    <3>1. g[n + 1] = g[n]
      BY <2>3, <2>5 DEF Extend
    <3>2. ASSUME NEW t, t \in keep
          PROVE  Cardinality(Places(t, list, n + 1)) = Cardinality(Places(t, list, n))
      <4>1. list[n + 1] # t /\ Cardinality(Places(t, list, n)) \in Nat
        BY <2>5, <3>2, PlacesCounted
      <4> QED BY <4>1, NextPlace
    <3> QED BY <2>2, <3>1, <3>2
  <2> QED BY <2>4, <2>5
<1> HIDE DEF M
<1>7. Nat \subseteq M
  BY <1>5, <1>6, NatInSet
<1>8. Good(N)
  BY <1>1, <1>7 DEF M
<1>9. \A t : Occurs(t, list) = Cardinality(Places(t, list, N))
  BY OccursCounts DEF N
<1> QED BY <1>2, <1>8, <1>9

-----------------------------------------------------------------------------
(* What the compiler has found out, and what it emits.                        *)

Emitted ==
  [actions |-> CompiledActions(graph),
   signals |-> [p \in DOMAIN order |->
                  LET s == signals[order[p]]
                  IN  [id |-> s.id, inputs |-> s.inputs, targets |-> Targets(graph, s.id)]],
   requirements |-> DataRequirements(graph),
   lookback |-> LookbackBars(graph)]

Past(stages) == compiling \in stages

CompileInv ==
  /\ job \in Jobs /\ graph = job.graph /\ store = job.store
  /\ compiling \in {"nodes", "edges", "signals", "sorting", "compiled", "refused"}
  /\ Past({"edges", "signals", "sorting", "compiled"}) => ~NodesRefused(graph)
  /\ Past({"signals", "sorting", "compiled"}) => ~EdgesRefused(graph)
  /\ Past({"sorting", "compiled"}) => signals = SignalList(graph)
  /\ Past({"nodes", "edges", "signals"}) => stage = "idle"
  /\ compiled # None => compiling = "compiled"
  /\ compiling = "compiled" => compiled = Emitted /\ stage = "sorted"
  /\ progress \notin {"compiling", "failed"} => compiling = "compiled"

\* What a job is run on does not change; but for compiling, neither does what
\* the compiler knows.
LEMMA StepsOutside ==
  ASSUME Next
  PROVE  /\ UNCHANGED <<job, graph, store>>
         /\ (CompileGraph \/ UNCHANGED compilerVars)
<1>1. CASE CompileGraph
  BY <1>1 DEF CompileGraph, Compile, CheckNodes, CheckEdges, RefuseArity, CollectSignals, SortSignals,
     RefuseCycle, Emit, loaderVars
<1>2. CASE LoadSeries
  BY <1>2 DEF LoadSeries, Load, ListFiles, ReadFile, ReadFails, FinishSeries, compilerVars
<1>3. CASE LoadData
  BY <1>3 DEF LoadData, StartLoad, compilerVars
<1>4. CASE \E filled \in SUBSET Actions : Cardinality(filled) <= 1 /\ Tick(filled)
  BY <1>4 DEF Tick, compilerVars, loaderVars
<1>5. CASE GraphRefused \/ NoData \/ LoadFailed \/ PolicyRefused \/ CoverageRefused
  BY <1>5 DEF GraphRefused, NoData, LoadFailed, PolicyRefused, CoverageRefused, Fail, compilerVars, loaderVars
<1>6. CASE UseInlineData \/ LoadEnds \/ Resolve \/ BeginTicks \/ Panic \/ End
  BY <1>6 DEF UseInlineData, LoadEnds, Resolve, BeginTicks, Panic, End, compilerVars, loaderVars
<1>7. CASE Terminated
  BY <1>7 DEF Terminated, vars, compilerVars, loaderVars
<1> QED BY <1>1, <1>2, <1>3, <1>4, <1>5, <1>6, <1>7 DEF Next

\* Whoever leaves the compiling stage does so with a compiled graph.
LEMMA ProgressNeedsGraph ==
  ASSUME Next, ~CompileGraph, progress \notin {"compiling", "failed"} => compiling = "compiled"
  PROVE  progress' \notin {"compiling", "failed"} => compiling = "compiled"
<1>1. CASE LoadSeries
  BY <1>1 DEF LoadSeries
<1>2. CASE LoadData \/ UseInlineData
  BY <1>2 DEF LoadData, UseInlineData
<1>3. CASE \E filled \in SUBSET Actions : Cardinality(filled) <= 1 /\ Tick(filled)
  BY <1>3 DEF Tick
<1>4. CASE GraphRefused \/ NoData \/ LoadFailed \/ PolicyRefused \/ CoverageRefused
  BY <1>4 DEF GraphRefused, NoData, LoadFailed, PolicyRefused, CoverageRefused, Fail
<1>5. CASE LoadEnds \/ Resolve \/ BeginTicks \/ Panic \/ End
  BY <1>5 DEF LoadEnds, Resolve, BeginTicks, Panic, End
<1>6. CASE Terminated
  BY <1>6 DEF Terminated, vars
<1> QED BY <1>1, <1>2, <1>3, <1>4, <1>5, <1>6 DEF Next

LEMMA CompileInvInit == Init => CompileInv
<1> SUFFICES ASSUME Init PROVE CompileInv
  OBVIOUS
<1>1. /\ job \in Jobs /\ graph = job.graph /\ store = job.store
      /\ compiling = "nodes" /\ compiled = None /\ stage = "idle" /\ progress = "compiling"
  BY DEF Init, CompilerInit, SortInit
<1> QED BY <1>1 DEF CompileInv, Past

LEMMA CompileInvNext == CompileInv /\ [Next]_vars => CompileInv'
<1> SUFFICES ASSUME CompileInv, [Next]_vars PROVE CompileInv'
  OBVIOUS
<1>1. CASE UNCHANGED vars \/ (UNCHANGED <<job, graph, store>> /\ UNCHANGED compilerVars /\ ~CompileGraph /\ Next)
  <2>1. /\ UNCHANGED <<job, graph, store, compiling, compiled>>
        /\ UNCHANGED <<signals, stage, cursor, indegree, queue, order>>
    BY <1>1 DEF vars, compilerVars, sortVars, loaderVars
  <2>2. Emitted' = Emitted
    BY <2>1 DEF Emitted
  <2>3. progress' \notin {"compiling", "failed"} => compiling = "compiled"
    <3>1. CASE UNCHANGED vars
      BY <3>1 DEF vars, CompileInv
    <3>2. CASE Next /\ ~CompileGraph
      BY <3>2, ProgressNeedsGraph DEF CompileInv
    <3> QED BY <1>1, <3>1, <3>2
  <2> QED BY <2>1, <2>2, <2>3 DEF CompileInv, Past
<1>2. CASE CompileGraph
  <2> USE DEF Past
  <2>1. UNCHANGED <<job, progress, store>> /\ progress = "compiling"
    BY <1>2 DEF CompileGraph, loaderVars
  <2>2. CASE CheckNodes
    BY <2>1, <2>2 DEF CheckNodes, CompileInv, sortVars
  <2>3. CASE CheckEdges
    BY <2>1, <2>3 DEF CheckEdges, CompileInv, sortVars
  <2>4. CASE RefuseArity
    BY <2>1, <2>4 DEF RefuseArity, CompileInv, sortVars
  <2>5. CASE CollectSignals
    BY <2>1, <2>5 DEF CollectSignals, Start, CompileInv
  <2>6. CASE SortSignals
    <3>1. signals' = signals /\ UNCHANGED <<graph, compiling, compiled>> /\ compiling = "sorting"
      BY <2>6 DEF SortSignals, Sort, Seed, Visit, Relax, Finish
    <3> QED BY <2>1, <3>1 DEF CompileInv
  <2>7. CASE RefuseCycle
    BY <2>1, <2>7 DEF RefuseCycle, CompileInv, sortVars
  <2>8. CASE Emit
    <3>1. compiled' = Emitted /\ UNCHANGED <<graph, sortVars>> /\ stage = "sorted" /\ compiling = "sorting"
          /\ compiling' = "compiled"
      BY <2>8 DEF Emit, Emitted
    <3>2. Emitted' = Emitted
      BY <3>1 DEF Emitted, sortVars
    <3> QED BY <2>1, <3>1, <3>2 DEF CompileInv, sortVars
  <2> QED BY <1>2, <2>2, <2>3, <2>4, <2>5, <2>6, <2>7, <2>8 DEF CompileGraph, Compile
<1> QED BY <1>1, <1>2, StepsOutside

LEMMA CompileInvHolds == Spec => []CompileInv
BY CompileInvInit, CompileInvNext, PTL DEF Spec

(* What the engine reads for an enabled node was asked for when the graph was *)
(* compiled, whatever the graph.                                              *)
THEOREM ReadsWereRequired == Spec => []ReadsAreRequired
<1>1. CompileInv => ReadsAreRequired
  <2> SUFFICES ASSUME CompileInv, compiled # None, NEW n \in Enabled(graph)
               PROVE  /\ EngineReads(n) \subseteq compiled.requirements
                      /\ \A s \in Observed(n) :
                           \E r \in compiled.requirements : r.kind = s.kind /\ r.symbol = s.symbol
    BY DEF ReadsAreRequired
  <2>1. compiled.requirements = DataRequirements(graph)
    BY DEF CompileInv, Emitted
  <2>2. Needs(graph, n) \subseteq compiled.requirements
    BY <2>1 DEF DataRequirements
  <2>3. EngineReads(n) \subseteq Needs(graph, n)
    <3>1. \A s : s.venue # None => ResolvedSeries(graph, s) = Series(s.kind, s.venue, s.symbol)
      BY DEF ResolvedSeries
    <3>2. CASE n.subtype \in {"swap", "perp_order", "yield_deposit", "yield_withdraw"}
      BY <3>2 DEF EngineReads, Needs, TradedAt
    <3>3. CASE n.subtype \notin {"swap", "perp_order", "yield_deposit", "yield_withdraw"}
      <4>1. EngineReads(n) = {Series(s.kind, s.venue, s.symbol) : s \in {s \in Observed(n) : s.venue # None}}
        BY <3>3 DEF EngineReads
      <4>2. Needs(graph, n) = {ResolvedSeries(graph, s) : s \in Observed(n)}
        BY <3>3 DEF Needs
      <4> QED BY <3>1, <4>1, <4>2
    <3> QED BY <3>2, <3>3
  <2>4. ASSUME NEW s \in Observed(n)
        PROVE  \E r \in compiled.requirements : r.kind = s.kind /\ r.symbol = s.symbol
    <3>1. n.subtype \in {"price_threshold", "threshold"}
      BY DEF Observed
    <3>2. ResolvedSeries(graph, s) \in Needs(graph, n)
      BY <3>1 DEF Needs
    <3>3. ResolvedSeries(graph, s).kind = s.kind /\ ResolvedSeries(graph, s).symbol = s.symbol
      BY DEF ResolvedSeries, Series
    <3> QED BY <2>2, <3>2, <3>3
  <2> QED BY <2>2, <2>3, <2>4
<1> QED BY <1>1, CompileInvHolds, PTL

-----------------------------------------------------------------------------
(* The signals and edges of a graph.                                          *)

\* Nothing is twice in the list.
Once(s) == \A i, j \in DOMAIN s : s[i] = s[j] => i = j

LEMMA OnceOccurs ==
  ASSUME NEW S, NEW s \in Seq(S)
  PROVE  Once(s) <=> \A t : Occurs(t, s) <= 1
<1> DEFINE P(t) == Places(t, s, Len(s))
<1>1. DOMAIN s = 1..Len(s) /\ Len(s) \in Nat
  OBVIOUS
<1>2. ASSUME NEW t PROVE Occurs(t, s) = Cardinality(P(t)) /\ IsFiniteSet(P(t)) /\ Cardinality(P(t)) \in Nat
  BY <1>1, OccursCounts, PlacesCounted
<1>3. ASSUME Once(s), NEW t PROVE Occurs(t, s) <= 1
  <2>1. CASE P(t) = {}
    BY <1>2, <2>1, FS_EmptySet
  <2>2. CASE P(t) # {}
    <3>1. PICK i : i \in P(t)
      BY <2>2
    <3>2. P(t) = {i}
      BY <1>1, <1>3, <3>1 DEF Places, Once
    <3> QED BY <1>2, <3>2, FS_Singleton
  <2> QED BY <2>1, <2>2
<1>4. ASSUME \A t : Occurs(t, s) <= 1, NEW i \in DOMAIN s, NEW j \in DOMAIN s, s[i] = s[j], i # j
      PROVE  FALSE
  <2> DEFINE t == s[i]
  <2>1. i \in P(t) /\ j \in P(t)
    BY <1>1, <1>4 DEF Places
  <2>2. {i, j} \in SUBSET P(t) /\ IsFiniteSet({j}) /\ i \notin {j} /\ Cardinality({j}) = 1
    BY <1>4, <2>1, FS_Singleton
  <2>3. Cardinality({j} \cup {i}) = Cardinality({j}) + 1
    BY <2>2, FS_AddElement
  <2>3a. {j} \cup {i} \in SUBSET P(t) /\ IsFiniteSet(P(t))
    BY <1>2, <2>1
  <2>4. Cardinality({j} \cup {i}) <= Cardinality(P(t))
    BY <2>3a, FS_Subset
  <2>5. Occurs(t, s) <= 1 /\ Occurs(t, s) = Cardinality(P(t)) /\ Cardinality(P(t)) \in Nat
    BY <1>2, <1>4
  <2> QED BY <2>2, <2>3, <2>4, <2>5
<1> QED BY <1>3, <1>4 DEF Once

LEMMA ThoseOnce ==
  ASSUME NEW S, NEW list \in Seq(S), Once(list), NEW keep
  PROVE  Once(Those(list, keep))
<1>1. Those(list, keep) \in Seq(S \cap keep)
  BY ThoseAreKept
<1>2. \A t : Occurs(t, list) <= 1
  BY OnceOccurs
<1>3. ASSUME NEW t PROVE Occurs(t, Those(list, keep)) <= 1
  <2>1. Occurs(t, Those(list, keep)) = IF t \in keep THEN Occurs(t, list) ELSE 0
    BY ThoseAreKept
  <2> QED BY <1>2, <2>1
<1> QED BY <1>1, <1>3, OnceOccurs

\* What is kept is what there was of it.
LEMMA ThoseRange ==
  ASSUME NEW S, NEW list \in Seq(S), NEW keep
  PROVE  Range(Those(list, keep)) = Range(list) \cap keep
<1>1. Those(list, keep) \in Seq(S \cap keep)
  BY ThoseAreKept
<1>2. ASSUME NEW t PROVE t \in Range(Those(list, keep)) <=> t \in Range(list) \cap keep
  <2>1. Occurs(t, Those(list, keep)) = IF t \in keep THEN Occurs(t, list) ELSE 0
    BY ThoseAreKept
  <2>2. Occurs(t, Those(list, keep)) = 0 <=> t \notin Range(Those(list, keep))
    BY <1>1, OccursCounts
  <2>3. Occurs(t, list) = 0 <=> t \notin Range(list)
    BY OccursCounts
  <2> QED BY <2>1, <2>2, <2>3
<1> QED BY <1>2

\* The nodes of a graph that is not refused have ids of their own.
Sound(g) == IsGraph(g) /\ ~NodesRefused(g)

LEMMA NodesOnce ==
  ASSUME NEW g, Sound(g)
  PROVE  /\ g.nodes \in Seq(Nodes(g)) /\ Once(g.nodes)
         /\ \A m, n \in Nodes(g) : m.id = n.id => m = n
         /\ \A n \in Nodes(g) : NodeOf(g, n.id) = n
<1>1. g.nodes \in Seq(Nodes(g))
  BY DEF Sound, IsGraph
<1>2. \A i, j \in DOMAIN g.nodes : i # j => g.nodes[i].id # g.nodes[j].id
  BY DEF Sound, NodesRefused
<1>3. \A m, n \in Nodes(g) : m.id = n.id => m = n
  BY <1>2 DEF Nodes, Range
<1>4. Once(g.nodes)
  BY <1>2 DEF Once
<1>5. ASSUME NEW n \in Nodes(g) PROVE NodeOf(g, n.id) = n
  BY <1>3 DEF NodeOf
<1> QED BY <1>1, <1>3, <1>4, <1>5

LEMMA EnabledOnce ==
  ASSUME NEW g, Sound(g), NEW kind
  PROVE  /\ EnabledOf(g, kind) \in Seq(Nodes(g))
         /\ Range(EnabledOf(g, kind)) = {n \in Enabled(g) : n.kind = kind}
         /\ Once(EnabledOf(g, kind))
<1>1. g.nodes \in Seq(Nodes(g)) /\ Once(g.nodes) /\ Range(g.nodes) = Nodes(g)
  BY NodesOnce DEF Nodes
<1> DEFINE K == {n \in Enabled(g) : n.kind = kind}
<1>2. EnabledOf(g, kind) = Those(g.nodes, K)
  BY DEF EnabledOf
<1>3. K \subseteq Nodes(g)
  BY DEF Enabled
<1> HIDE DEF K
<1>4. Those(g.nodes, K) \in Seq(Nodes(g) \cap K)
  BY <1>1, ThoseAreKept
<1>5. Those(g.nodes, K) \in Seq(Nodes(g))
  BY <1>3, <1>4
<1>6. Once(Those(g.nodes, K))
  BY <1>1, ThoseOnce
<1>7. Range(Those(g.nodes, K)) = K
  <2>1. Range(Those(g.nodes, K)) = Range(g.nodes) \cap K
    BY <1>1, ThoseRange
  <2> QED BY <1>1, <1>3, <2>1
<1> QED BY <1>2, <1>5, <1>6, <1>7 DEF K

\* The edges that are kept, and those of them that have an end in common.
LEMMA KeptEdges ==
  ASSUME NEW g, Sound(g), NEW id, NEW x
  PROVE  /\ Kept(g) \in Seq(Range(g.edges))
         /\ Occurs(<<x, id>>, Kept(g))
              = IF <<x, id>> \in Range(g.edges) /\ Keeps(g, <<x, id>>) THEN Occurs(<<x, id>>, g.edges) ELSE 0
         /\ Sources(g, id) \in Seq({e[1] : e \in Range(Kept(g))})
         /\ Occurs(x, Sources(g, id)) = Occurs(<<x, id>>, Kept(g))
<1> DEFINE E == Range(g.edges)
           K == {e \in E : Keeps(g, e)}
<1>1. g.edges \in Seq(E) /\ \A e \in E : e = <<e[1], e[2]>>
  BY DEF Sound, IsGraph
<1>2. Kept(g) = Those(g.edges, K)
  BY DEF Kept
<1> HIDE DEF E
<1>3. Kept(g) \in Seq(E \cap K) /\ E \cap K \subseteq E
  BY <1>1, <1>2, ThoseAreKept
<1>4. Kept(g) \in Seq(E)
  BY <1>3
<1>5. Occurs(<<x, id>>, Kept(g)) = IF <<x, id>> \in E /\ Keeps(g, <<x, id>>) THEN Occurs(<<x, id>>, g.edges) ELSE 0
  <2>1. Occurs(<<x, id>>, Those(g.edges, K)) = IF <<x, id>> \in K THEN Occurs(<<x, id>>, g.edges) ELSE 0
    BY <1>1, ThoseAreKept
  <2> QED BY <1>2, <2>1
<1> DEFINE R == Range(Kept(g))
           I == {e \in R : e[2] = id}
           into == Those(Kept(g), I)
<1>6. R \subseteq E
  BY <1>4 DEF Range
<1>7. into \in Seq(E \cap I) /\ Occurs(<<x, id>>, into) = IF <<x, id>> \in I THEN Occurs(<<x, id>>, Kept(g)) ELSE 0
  BY <1>4, ThoseAreKept
<1>8. Sources(g, id) = [k \in DOMAIN into |-> into[k][1]]
  BY DEF Sources
<1>9. <<x, id>> \notin I => Occurs(<<x, id>>, Kept(g)) = 0
  BY <1>4, OccursCounts
<1> HIDE DEF I, into
<1>10. \A k \in DOMAIN into : into[k] \in E /\ into[k] \in R /\ into[k][2] = id
  BY <1>7 DEF I
<1>11. Sources(g, id) \in Seq({e[1] : e \in R})
  <2>1. DOMAIN into = 1..Len(into) /\ Len(into) \in Nat
    BY <1>7
  <2> QED BY <1>8, <1>10, <2>1
<1>12. \A k \in DOMAIN into : into[k][1] = x <=> into[k] = <<x, id>>
  <2> SUFFICES ASSUME NEW k \in DOMAIN into PROVE into[k][1] = x <=> into[k] = <<x, id>>
    OBVIOUS
  <2>1. into[k] = <<into[k][1], into[k][2]>> /\ into[k][2] = id
    BY <1>1, <1>10
  <2>2. <<into[k][1], id>> = <<x, id>> <=> into[k][1] = x
    OBVIOUS
  <2> QED BY <2>1, <2>2
<1>13. DOMAIN Sources(g, id) = DOMAIN into /\ \A k \in DOMAIN into : Sources(g, id)[k] = into[k][1]
  BY <1>8
<1>14. Occurs(x, Sources(g, id)) = Occurs(<<x, id>>, into)
  <2>1. {k \in DOMAIN Sources(g, id) : Sources(g, id)[k] = x} = {k \in DOMAIN into : into[k] = <<x, id>>}
    BY <1>12, <1>13
  <2> QED BY <2>1 DEF Occurs
<1> QED BY <1>4, <1>5, <1>7, <1>9, <1>11, <1>14 DEF E, R

\* Who leads to a node whose graph was not refused, and how often.
LEMMA EdgesCounted ==
  ASSUME NEW g, Sound(g), NEW a \in Enabled(g), NEW b \in Enabled(g),
         b.kind = "action" \/ (a.kind = "signal" /\ b.subtype \in Combinators)
  PROVE  Occurs(a.id, Sources(g, b.id)) = Occurs(<<a.id, b.id>>, g.edges)
<1>1. NodeOf(g, a.id) = a /\ NodeOf(g, b.id) = b /\ a.enabled /\ b.enabled
      /\ a.kind \in {"action", "signal"} /\ b.kind \in {"action", "signal"}
  BY NodesOnce DEF Enabled, Sound, IsGraph
<1>2. <<a.id, b.id>>[1] = a.id /\ <<a.id, b.id>>[2] = b.id
  OBVIOUS
<1>3. Keeps(g, <<a.id, b.id>>)
  BY <1>1, <1>2 DEF Keeps
<1>4. Occurs(<<a.id, b.id>>, Kept(g))
        = IF <<a.id, b.id>> \in Range(g.edges) /\ Keeps(g, <<a.id, b.id>>) THEN Occurs(<<a.id, b.id>>, g.edges) ELSE 0
  BY KeptEdges
<1>5. Occurs(a.id, Sources(g, b.id)) = Occurs(<<a.id, b.id>>, Kept(g))
  BY KeptEdges
<1>6. g.edges \in Seq(Range(g.edges))
  BY DEF Sound, IsGraph
<1>7. Occurs(<<a.id, b.id>>, g.edges) = 0 <=> <<a.id, b.id>> \notin Range(g.edges)
  BY <1>6, OccursCounts
<1> QED BY <1>3, <1>4, <1>5, <1>7

\* Whatever leads to a node is itself an enabled node.
LEMMA SourcesEnabled ==
  ASSUME NEW g, Sound(g), ~EdgesRefused(g), NEW id, NEW x \in Range(Sources(g, id))
  PROVE  \E n \in Enabled(g) : n.id = x /\ NodeOf(g, x) = n
<1>1. Sources(g, id) \in Seq({e[1] : e \in Range(Kept(g))}) /\ Kept(g) \in Seq(Range(g.edges))
  BY KeptEdges
<1>2. PICK e \in Range(Kept(g)) : x = e[1]
  BY <1>1 DEF Range
<1>3. e \in Range(g.edges) /\ Keeps(g, e)
  <2>1. g.edges \in Seq(Range(g.edges))
    BY DEF Sound, IsGraph
  <2>2. Range(Kept(g)) = Range(g.edges) \cap {d \in Range(g.edges) : Keeps(g, d)}
    BY <2>1, ThoseRange DEF Kept
  <2> QED BY <2>2
<1>4. PICK n \in Nodes(g) : n.id = e[1]
  BY <1>3 DEF EdgesRefused
<1>5. NodeOf(g, x) = n
  BY <1>2, <1>4, NodesOnce
<1>6. n \in Enabled(g)
  BY <1>2, <1>3, <1>5 DEF Keeps, Enabled
<1> QED BY <1>2, <1>4, <1>5, <1>6

LEMMA InputsCounted ==
  ASSUME NEW g, Sound(g), NEW id
  PROVE  /\ Inputs(g, id) \in Seq(IdsOf(g, "signal")) /\ IdsOf(g, "signal") \subseteq Id
         /\ \A x \in IdsOf(g, "signal") : Occurs(x, Inputs(g, id)) = Occurs(x, Sources(g, id))
<1> DEFINE S == {e[1] : e \in Range(Kept(g))}
           K == IdsOf(g, "signal")
<1>1. Sources(g, id) \in Seq(S)
  BY KeptEdges
<1>2. Inputs(g, id) = Those(Sources(g, id), K)
  BY DEF Inputs
<1>3. K \subseteq Id
  BY DEF IdsOf, Enabled, Sound, IsGraph
<1> HIDE DEF S, K
<1>4. Inputs(g, id) \in Seq(S \cap K)
  BY <1>1, <1>2, ThoseAreKept
<1>5. ASSUME NEW x \in K PROVE Occurs(x, Inputs(g, id)) = Occurs(x, Sources(g, id))
  BY <1>1, <1>2, ThoseAreKept
<1> QED BY <1>3, <1>4, <1>5 DEF K

\* The list that the compiler sorts, with each signal of the graph once.
LEMMA SignalsListed ==
  ASSUME NEW g, Sound(g)
  PROVE  /\ SignalList(g) \in Seq(Signal)
         /\ \A i, j \in DOMAIN SignalList(g) : SignalList(g)[i].id = SignalList(g)[j].id => i = j
         /\ \A i \in DOMAIN SignalList(g) :
              \E n \in Enabled(g) :
                n.kind = "signal" /\ SignalList(g)[i] = [id |-> n.id, inputs |-> Inputs(g, n.id)]
         /\ \A n \in Enabled(g) :
              n.kind = "signal" =>
                \E i \in DOMAIN SignalList(g) : SignalList(g)[i] = [id |-> n.id, inputs |-> Inputs(g, n.id)]
<1> DEFINE E == EnabledOf(g, "signal")
           K == {n \in Enabled(g) : n.kind = "signal"}
           entry(n) == [id |-> n.id, inputs |-> Inputs(g, n.id)]
<1>1. E \in Seq(Nodes(g)) /\ Range(E) = K /\ Once(E)
  BY EnabledOnce
<1>2. SignalList(g) = [k \in DOMAIN E |-> entry(E[k])]
  BY DEF SignalList
<1> HIDE DEF E
<1>3. DOMAIN E = 1..Len(E) /\ Len(E) \in Nat /\ \A k \in DOMAIN E : E[k] \in K
  BY <1>1 DEF Range
<1>4. \A n \in K : \E k \in DOMAIN E : E[k] = n
  BY <1>1 DEF Range
<1>5. ASSUME NEW n \in K PROVE n \in Nodes(g) /\ n.id \in Id /\ entry(n) \in Signal
  <2>1. n \in Nodes(g) /\ n.id \in Id
    BY DEF Enabled, Sound, IsGraph
  <2>2. Inputs(g, n.id) \in Seq(Id)
    <3>1. Inputs(g, n.id) \in Seq(IdsOf(g, "signal")) /\ IdsOf(g, "signal") \subseteq Id
      BY InputsCounted
    <3> QED BY <3>1
  <2> QED BY <2>1, <2>2 DEF Signal
<1>6. SignalList(g) \in Seq(Signal)
  BY <1>2, <1>3, <1>5
<1>7. ASSUME NEW i \in DOMAIN E, NEW j \in DOMAIN E, entry(E[i]).id = entry(E[j]).id
      PROVE  i = j
  <2>1. E[i].id = E[j].id /\ E[i] \in Nodes(g) /\ E[j] \in Nodes(g)
    BY <1>3, <1>5, <1>7
  <2>2. E[i] = E[j]
    BY <2>1, NodesOnce
  <2> QED BY <1>1, <2>2 DEF Once
<1> HIDE DEF entry
<1>8. DOMAIN SignalList(g) = DOMAIN E /\ \A i \in DOMAIN E : SignalList(g)[i] = entry(E[i])
  BY <1>2
<1>9. \A i, j \in DOMAIN SignalList(g) : SignalList(g)[i].id = SignalList(g)[j].id => i = j
  BY <1>7, <1>8
<1>10. \A i \in DOMAIN SignalList(g) :
         \E n \in Enabled(g) : n.kind = "signal" /\ SignalList(g)[i] = entry(n)
  BY <1>3, <1>8
<1>11. \A n \in Enabled(g) :
         n.kind = "signal" => \E i \in DOMAIN SignalList(g) : SignalList(g)[i] = entry(n)
  BY <1>4, <1>8
<1> QED BY <1>6, <1>9, <1>10, <1>11 DEF entry

-----------------------------------------------------------------------------
(* The order of the signals of a graph.                                       *)

SortedInv == CompileInv /\ IInv

LEMMA JobGraph ==
  ASSUME CompileInv
  PROVE  IsGraph(graph) /\ (Past({"edges", "signals", "sorting", "compiled"}) => Sound(graph))
BY JobsAssumption DEF CompileInv, Sound

LEMMA SortedInvNext == SortedInv /\ [Next]_vars => SortedInv'
<1> SUFFICES ASSUME SortedInv, [Next]_vars PROVE IInv'
  BY CompileInvNext DEF SortedInv
<1>1. CASE UNCHANGED sortVars
  BY <1>1, StutterInv DEF SortedInv
<1>2. CASE CompileGraph /\ CollectSignals
  <2>1. Start(SignalList(graph)) /\ compiling = "signals"
    BY <1>2 DEF CollectSignals
  <2>2. Sound(graph)
    BY <2>1, JobGraph DEF SortedInv, Past
  <2>3. /\ SignalList(graph) \in Seq(Signal)
        /\ \A i, j \in DOMAIN SignalList(graph) : SignalList(graph)[i].id = SignalList(graph)[j].id => i = j
    BY <2>2, SignalsListed
  <2> QED BY <2>1, <2>3, StartInv DEF SortedInv
<1>3. CASE CompileGraph /\ SortSignals
  BY <1>3, SortInv DEF SortSignals, SortedInv
<1>4. CASE CompileGraph
  BY <1>1, <1>2, <1>3, <1>4 DEF CompileGraph, Compile, CheckNodes, CheckEdges, RefuseArity, RefuseCycle, Emit
<1> QED BY <1>1, <1>4, StepsOutside DEF vars, compilerVars

LEMMA SortedInvHolds == Spec => []SortedInv
<1>1. Init => SortedInv
  BY CompileInvInit, InitInv DEF Init, CompilerInit, SortedInv
<1> QED BY <1>1, SortedInvNext, PTL DEF Spec

(* The signals of every graph that is compiled are emitted in an order that   *)
(* the engine can evaluate in one pass: every input before who reads it.      *)
THEOREM CompiledInOrder == Spec => []InputsComeFirst
<1>1. SortedInv => InputsComeFirst
  BY SortOutcome DEF SortedInv
<1> QED BY <1>1, SortedInvHolds, PTL

(* A graph is refused for a cycle only if its signals have one.               *)
THEOREM CyclicGraphsRefused == Spec => []RefusedOnlyCyclic
<1>1. SortedInv => RefusedOnlyCyclic
  BY SortOutcome DEF SortedInv
<1> QED BY <1>1, SortedInvHolds, PTL

-----------------------------------------------------------------------------
(* What the compiled graph has of the edges.                                  *)

\* A trigger for each source, or the start of the run.
LEMMA TriggersFollowSources ==
  ASSUME NEW g, Sound(g), ~EdgesRefused(g), NEW b \in Enabled(g)
  PROVE  LET sources == Sources(g, b.id)
             trig    == Triggers(g, b.id)
         IN  /\ sources = <<>> => trig = <<[type |-> "initial", source |-> None]>>
             /\ sources # <<>> =>
                  /\ DOMAIN trig = DOMAIN sources
                  /\ \A k \in DOMAIN sources :
                       \E n \in Enabled(g) :
                         n.id = sources[k] /\ trig[k] = [type |-> n.kind, source |-> n.id]
<1> DEFINE sources == Sources(g, b.id)
<1>1. ASSUME NEW k \in DOMAIN sources
      PROVE  \E n \in Enabled(g) : n.id = sources[k] /\ NodeOf(g, sources[k]) = n
  <2>1. sources[k] \in Range(sources)
    BY DEF Range
  <2> HIDE DEF sources
  <2>2. \A x \in Range(sources) : \E n \in Enabled(g) : n.id = x /\ NodeOf(g, x) = n
    BY SourcesEnabled DEF sources
  <2> QED BY <2>1, <2>2
<1>2. Triggers(g, b.id)
        = IF sources = <<>> THEN <<[type |-> "initial", source |-> None]>>
          ELSE [k \in DOMAIN sources |-> [type |-> NodeOf(g, sources[k]).kind, source |-> sources[k]]]
  BY DEF Triggers
<1> HIDE DEF sources
<1> QED BY <1>1, <1>2 DEF sources

\* An action of the graph is one action of the compiled graph.
LEMMA ActionsListed ==
  ASSUME NEW g, Sound(g)
  PROVE  /\ DOMAIN CompiledActions(g) = 1..Len(EnabledOf(g, "action"))
         /\ \A i, j \in DOMAIN CompiledActions(g) : CompiledActions(g)[i].id = CompiledActions(g)[j].id => i = j
         /\ \A i \in DOMAIN CompiledActions(g) :
              CompiledActions(g)[i].triggers = Triggers(g, CompiledActions(g)[i].id)
         /\ \A n \in Enabled(g) :
              n.kind = "action" => \E i \in DOMAIN CompiledActions(g) : CompiledActions(g)[i].id = n.id
<1> DEFINE E == EnabledOf(g, "action")
           K == {n \in Enabled(g) : n.kind = "action"}
<1>1. E \in Seq(Nodes(g)) /\ Range(E) = K /\ Once(E)
  BY EnabledOnce
<1>2. CompiledActions(g) = [k \in DOMAIN E |-> [id |-> E[k].id, triggers |-> Triggers(g, E[k].id)]]
  BY DEF CompiledActions
<1> HIDE DEF E
<1>3. DOMAIN E = 1..Len(E) /\ \A k \in DOMAIN E : E[k] \in Nodes(g)
  BY <1>1 DEF Range
<1>4. /\ DOMAIN CompiledActions(g) = DOMAIN E
      /\ \A k \in DOMAIN E : /\ CompiledActions(g)[k].id = E[k].id
                             /\ CompiledActions(g)[k].triggers = Triggers(g, E[k].id)
  BY <1>2
<1>5. ASSUME NEW i \in DOMAIN E, NEW j \in DOMAIN E, E[i].id = E[j].id PROVE i = j
  <2>1. E[i] = E[j]
    BY <1>3, <1>5, NodesOnce
  <2> QED BY <1>1, <2>1 DEF Once
<1>6. \A n \in K : \E k \in DOMAIN E : E[k] = n
  BY <1>1 DEF Range
<1> QED BY <1>3, <1>4, <1>5, <1>6 DEF E

\* An action starts another as often as an edge says so.
LEMMA ChainsCounted ==
  ASSUME NEW g, Sound(g), ~EdgesRefused(g), NEW a \in Enabled(g), NEW b \in Enabled(g),
         a.kind = "action", b.kind = "action",
         NEW c, c.actions = CompiledActions(g)
  PROVE  ChainsInto(c, a.id, b.id) = Occurs(<<a.id, b.id>>, g.edges)
<1> DEFINE A == CompiledActions(g)
           sources == Sources(g, b.id)
           trig == Triggers(g, b.id)
           hit == [type |-> "action", source |-> a.id]
           P == {k \in DOMAIN sources : sources[k] = a.id}
           T == {k \in DOMAIN trig : trig[k] = hit}
           C == {at \in UNION {{i} \X DOMAIN A[i].triggers : i \in DOMAIN A} :
                   A[at[1]].id = b.id /\ A[at[1]].triggers[at[2]] = hit}
<1>1. ChainsInto(c, a.id, b.id) = Cardinality(C)
  BY DEF ChainsInto
<1>2. PICK i \in DOMAIN A : A[i].id = b.id
  BY ActionsListed
<1>3. A[i].triggers = trig /\ \A j \in DOMAIN A : A[j].id = b.id => j = i
  BY <1>2, ActionsListed
<1>4. T = P
  <2>1. CASE sources = <<>>
    <3>1. trig = <<[type |-> "initial", source |-> None]>>
      BY <2>1, TriggersFollowSources
    <3>2. P = {} /\ DOMAIN trig = {1} /\ trig[1].type = "initial"
      BY <2>1, <3>1
    <3>3. hit.type = "action"
      OBVIOUS
    <3> QED BY <3>2, <3>3
  <2>2. CASE sources # <<>>
    <3>1. DOMAIN trig = DOMAIN sources
      BY <2>2, TriggersFollowSources
    <3>2. ASSUME NEW k \in DOMAIN sources PROVE trig[k] = hit <=> sources[k] = a.id
      <4>1. PICK n \in Enabled(g) : n.id = sources[k] /\ trig[k] = [type |-> n.kind, source |-> n.id]
        BY <2>2, TriggersFollowSources
      <4>2. n.id = a.id => n = a
        <5>1. n \in Nodes(g) /\ a \in Nodes(g)
          BY DEF Enabled
        <5> QED BY <5>1, NodesOnce
      <4> HIDE DEF trig, sources
      <4>3. trig[k] = hit => n.id = a.id
        BY <4>1
      <4> QED BY <4>1, <4>2, <4>3
    <3> HIDE DEF trig, sources, hit
    <3> QED BY <3>1, <3>2
  <2> QED BY <2>1, <2>2
<1>5. Occurs(a.id, sources) = Cardinality(P)
  BY DEF Occurs
<1>6. Occurs(a.id, sources) = Occurs(<<a.id, b.id>>, g.edges)
  BY EdgesCounted
<1>7. IsFiniteSet(P)
  <2>1. sources \in Seq({e[1] : e \in Range(Kept(g))})
    BY KeptEdges
  <2> HIDE DEF sources
  <2>2. DOMAIN sources = 1..Len(sources) /\ Len(sources) \in Nat
    BY <2>1
  <2>3. IsFiniteSet(1..Len(sources))
    BY <2>2, FS_Interval
  <2>4. P \in SUBSET (1..Len(sources))
    BY <2>2
  <2> QED BY <2>3, <2>4, FS_Subset
<1> HIDE DEF A, trig, sources, hit, P
<1>8. Cardinality(C) = Cardinality(P)
  <2> DEFINE f == [k \in P |-> <<i, k>>]
  <2>1. ASSUME NEW k \in P PROVE <<i, k>> \in C
    <3>1. k \in DOMAIN trig /\ trig[k] = hit
      BY <1>4
    <3>2. <<i, k>> \in {i} \X DOMAIN A[i].triggers
      BY <1>3, <3>1
    <3>3. <<i, k>>[1] = i /\ <<i, k>>[2] = k
      OBVIOUS
    <3> QED BY <1>2, <1>3, <3>1, <3>2, <3>3
  <2>2. ASSUME NEW at \in C PROVE \E k \in P : at = <<i, k>>
    <3>1. PICK j \in DOMAIN A : at \in {j} \X DOMAIN A[j].triggers
      OBVIOUS
    <3>2. at[1] = j /\ at[2] \in DOMAIN A[j].triggers /\ at = <<at[1], at[2]>>
      BY <3>1
    <3>3. j = i
      BY <1>3, <3>2
    <3>4. at[2] \in T
      BY <1>3, <3>2, <3>3
    <3> QED BY <1>4, <3>2, <3>3, <3>4
  <2> HIDE DEF C
  <2>3. f \in Bijection(P, C)
    <3>1. f \in [P -> C] /\ \A k \in P : f[k] = <<i, k>>
      BY <2>1
    <3>2. \A k, m \in P : f[k] = f[m] => k = m
      BY <3>1
    <3>3. \A at \in C : \E k \in P : f[k] = at
      BY <2>2, <3>1
    <3> HIDE DEF f
    <3> QED BY <3>1, <3>2, <3>3 DEF Bijection, Injection, Surjection, IsInjective
  <2>4. ExistsBijection(P, C)
    BY <2>3 DEF ExistsBijection
  <2> QED BY <1>7, <2>4, FS_Bijection
<1> QED BY <1>1, <1>5, <1>6, <1>8

\* The entry of a signal in the compiled graph.
LEMMA SignalEmitted ==
  ASSUME CompileInv, InputsComeFirst, compiled # None,
         NEW n \in Enabled(graph), n.kind = "signal"
  PROVE  /\ CompiledSignal(n.id).inputs = Inputs(graph, n.id)
         /\ CompiledSignal(n.id).targets = Targets(graph, n.id)
<1> DEFINE L == SignalList(graph)
           S == compiled.signals
<1>1. /\ Sound(graph) /\ signals = L /\ stage = "sorted"
      /\ S = [p \in DOMAIN order |->
                [id |-> signals[order[p]].id, inputs |-> signals[order[p]].inputs,
                 targets |-> Targets(graph, signals[order[p]].id)]]
  BY JobGraph DEF CompileInv, Past, Emitted
<1>2. Visited = DOMAIN L
  BY <1>1 DEF InputsComeFirst
<1>3. PICK i \in DOMAIN L : L[i] = [id |-> n.id, inputs |-> Inputs(graph, n.id)]
  BY <1>1, SignalsListed
<1>4. PICK p \in DOMAIN order : order[p] = i
  BY <1>2, <1>3 DEF Visited
<1>5. S[p].id = n.id /\ S[p] \in Range(S)
  BY <1>1, <1>3, <1>4 DEF Range
<1>6. ASSUME NEW s \in Range(S), s.id = n.id
      PROVE  s.inputs = Inputs(graph, n.id) /\ s.targets = Targets(graph, n.id)
  <2>1. PICK q \in DOMAIN order : s = [id |-> signals[order[q]].id, inputs |-> signals[order[q]].inputs,
                                       targets |-> Targets(graph, signals[order[q]].id)]
    BY <1>1 DEF Range
  <2>2. order[q] \in DOMAIN L
    BY <1>2 DEF Visited
  <2>3. PICK m \in Enabled(graph) : L[order[q]] = [id |-> m.id, inputs |-> Inputs(graph, m.id)]
    BY <1>1, <2>2, SignalsListed
  <2>4. L[order[q]].id = m.id /\ L[order[q]].inputs = Inputs(graph, m.id)
    BY <2>3
  <2> QED BY <1>1, <1>6, <2>1, <2>4
<1>7. CompiledSignal(n.id) \in Range(S) /\ CompiledSignal(n.id).id = n.id
  BY <1>5 DEF CompiledSignal
<1> QED BY <1>6, <1>7

\* A signal has an action as a target as often as an edge says so.
LEMMA TargetsCounted ==
  ASSUME NEW g, Sound(g), NEW a \in Enabled(g), NEW b \in Enabled(g), b.kind = "action"
  PROVE  Occurs(b.id, Targets(g, a.id)) = Occurs(<<a.id, b.id>>, g.edges)
<1> DEFINE R == Range(Kept(g))
           O == {e \in R : e[1] = a.id /\ e[2] \in IdsOf(g, "action")}
           out == Those(Kept(g), O)
           pair == <<a.id, b.id>>
<1>1. Kept(g) \in Seq(Range(g.edges)) /\ \A e \in Range(g.edges) : e = <<e[1], e[2]>>
  BY KeptEdges DEF Sound, IsGraph
<1>2. out \in Seq(Range(g.edges) \cap O) /\ Occurs(pair, out) = IF pair \in O THEN Occurs(pair, Kept(g)) ELSE 0
  BY <1>1, ThoseAreKept
<1>3. Targets(g, a.id) = [k \in DOMAIN out |-> out[k][2]]
  BY DEF Targets
<1>4. pair \notin O => Occurs(pair, Kept(g)) = 0
  <2>1. pair[1] = a.id /\ pair[2] = b.id /\ b.id \in IdsOf(g, "action")
    BY DEF IdsOf
  <2>2. pair \notin O => pair \notin R
    BY <2>1
  <2>3. Occurs(pair, Kept(g)) = 0 <=> pair \notin R
    BY <1>1, OccursCounts
  <2> QED BY <2>2, <2>3
<1> HIDE DEF O, out
<1>5. \A k \in DOMAIN out : out[k] \in Range(g.edges) /\ out[k][1] = a.id
  BY <1>2 DEF O
<1>6. \A k \in DOMAIN out : out[k][2] = b.id <=> out[k] = pair
  <2> SUFFICES ASSUME NEW k \in DOMAIN out PROVE out[k][2] = b.id <=> out[k] = pair
    OBVIOUS
  <2>1. out[k] = <<a.id, out[k][2]>>
    BY <1>1, <1>5
  <2> QED BY <2>1
<1>7. Occurs(b.id, Targets(g, a.id)) = Occurs(pair, out)
  <2>1. {k \in DOMAIN Targets(g, a.id) : Targets(g, a.id)[k] = b.id} = {k \in DOMAIN out : out[k] = pair}
    BY <1>3, <1>6
  <2> QED BY <2>1 DEF Occurs
<1>8. Occurs(a.id, Sources(g, b.id)) = Occurs(pair, Kept(g))
  BY KeptEdges
<1>9. Occurs(a.id, Sources(g, b.id)) = Occurs(pair, g.edges)
  BY EdgesCounted
<1> QED BY <1>2, <1>4, <1>7, <1>8, <1>9

\* An action starts with the run only if no edge leads to it.
LEMMA StartsAlone ==
  ASSUME NEW g, Sound(g), ~EdgesRefused(g), NEW b \in Enabled(g), b.kind = "action",
         NEW c, c.actions = CompiledActions(g)
  PROVE  b.id \in InitialActions(c) <=> \A n \in Enabled(g) : Occurs(<<n.id, b.id>>, g.edges) = 0
<1> DEFINE A == CompiledActions(g)
           sources == Sources(g, b.id)
           trig == Triggers(g, b.id)
<1>1. PICK i \in DOMAIN A : A[i].id = b.id
  BY ActionsListed
<1>2. A[i].triggers = trig /\ \A j \in DOMAIN A : A[j].id = b.id => j = i
  BY <1>1, ActionsListed
<1>3. b.id \in InitialActions(c) <=> \E t \in Range(trig) : t.type = "initial"
  <2>1. InitialActions(c) = {d.id : d \in {d \in Range(A) : \E t \in Range(d.triggers) : t.type = "initial"}}
    BY DEF InitialActions
  <2> HIDE DEF A, trig
  <2>2. \A d \in Range(A) : d.id = b.id => d = A[i]
    BY <1>2 DEF Range
  <2>3. A[i] \in Range(A)
    BY DEF Range
  <2> QED BY <1>1, <1>2, <2>1, <2>2, <2>3
<1>4. sources \in Seq({e[1] : e \in Range(Kept(g))})
  BY KeptEdges
<1>5. ASSUME NEW n \in Enabled(g) PROVE Occurs(<<n.id, b.id>>, g.edges) = Occurs(n.id, sources)
  BY EdgesCounted
<1>6. CASE sources = <<>>
  <2>1. trig = <<[type |-> "initial", source |-> None]>>
    BY <1>6, TriggersFollowSources
  <2>2. trig[1] \in Range(trig) /\ trig[1].type = "initial"
    BY <2>1 DEF Range
  <2>3. \A n \in Enabled(g) : Occurs(n.id, sources) = 0
    BY <1>6, OccursInEmpty
  <2> QED BY <1>3, <1>5, <2>2, <2>3
<1>7. CASE sources # <<>>
  <2>1. /\ DOMAIN trig = DOMAIN sources
        /\ \A k \in DOMAIN sources :
             \E n \in Enabled(g) : n.id = sources[k] /\ trig[k] = [type |-> n.kind, source |-> n.id]
    BY <1>7, TriggersFollowSources
  <2>2. \A n \in Enabled(g) : n.kind \in {"action", "signal"}
    BY DEF Enabled, Sound, IsGraph
  <2> HIDE DEF trig, sources
  <2>3. \A t \in Range(trig) : t.type # "initial"
    BY <2>1, <2>2 DEF Range
  <2>4. 1 \in DOMAIN sources
    BY <1>4, <1>7
  <2>5. PICK n \in Enabled(g) : n.id = sources[1]
    BY <2>1, <2>4
  <2>6. n.id \in Range(sources)
    BY <2>4, <2>5 DEF Range
  <2>7. Occurs(n.id, sources) # 0
    BY <1>4, <2>6, OccursCounts
  <2> QED BY <1>3, <1>5, <2>3, <2>7
<1> QED BY <1>6, <1>7

(* Every edge of every graph that is compiled drives in the compiled graph    *)
(* exactly what it says, as often as it says it, in all three places that     *)
(* derive it; and only an action nothing leads to starts with the run.        *)
THEOREM EdgesDrive == Spec => []EveryEdgeDrives
<1>1. SortedInv => EveryEdgeDrives
  <2> SUFFICES ASSUME SortedInv, compiled # None PROVE EveryEdgeDrives
    BY DEF EveryEdgeDrives
  <2>1. /\ CompileInv /\ InputsComeFirst /\ compiling = "compiled" /\ compiled = Emitted
    BY SortOutcome DEF SortedInv, CompileInv
  <2>2. Sound(graph) /\ ~EdgesRefused(graph) /\ compiled.actions = CompiledActions(graph)
    BY <2>1, JobGraph DEF CompileInv, Past, Emitted
  <2> DEFINE actions == {n \in Enabled(graph) : n.kind = "action"}
             sigs == {n \in Enabled(graph) : n.kind = "signal"}
  <2>3. ASSUME NEW b \in actions, NEW a \in actions
        PROVE  ChainsInto(compiled, a.id, b.id) = EdgesBetween(a.id, b.id)
    BY <2>2, ChainsCounted DEF EdgesBetween
  <2>4. ASSUME NEW b \in actions, NEW s \in sigs
        PROVE  Occurs(b.id, CompiledSignal(s.id).targets) = EdgesBetween(s.id, b.id)
    <3>1. CompiledSignal(s.id).targets = Targets(graph, s.id)
      BY <2>1, SignalEmitted
    <3> QED BY <2>2, <3>1, TargetsCounted DEF EdgesBetween
  <2>5. ASSUME NEW s \in sigs, NEW t \in sigs, t.subtype \in Combinators
        PROVE  Occurs(s.id, CompiledSignal(t.id).inputs) = EdgesBetween(s.id, t.id)
    <3>1. CompiledSignal(t.id).inputs = Inputs(graph, t.id)
      BY <2>1, SignalEmitted
    <3>2. s.id \in IdsOf(graph, "signal")
      BY DEF IdsOf
    <3>3. Occurs(s.id, Inputs(graph, t.id)) = Occurs(s.id, Sources(graph, t.id))
      BY <2>2, <3>2, InputsCounted
    <3>4. Occurs(s.id, Sources(graph, t.id)) = Occurs(<<s.id, t.id>>, graph.edges)
      BY <2>2, <2>5, EdgesCounted
    <3> QED BY <3>1, <3>3, <3>4 DEF EdgesBetween
  <2>6. ASSUME NEW b \in actions
        PROVE  b.id \in InitialActions(compiled) <=> \A n \in Enabled(graph) : EdgesBetween(n.id, b.id) = 0
    BY <2>2, StartsAlone DEF EdgesBetween
  <2> QED BY <2>3, <2>4, <2>5, <2>6 DEF EveryEdgeDrives
<1> QED BY <1>1, SortedInvHolds, PTL

-----------------------------------------------------------------------------
(* A list that is sorted.                                                     *)

\* Sorting moves places about, and no number behind a greater one.
LEMMA SortedKeeps ==
  ASSUME NEW list \in Seq(Int)
  PROVE  /\ Sorted(list) \in Seq(Int) /\ Len(Sorted(list)) = Len(list)
         /\ \A t : Occurs(t, Sorted(list)) = Occurs(t, list)
         /\ \A i, j \in DOMAIN Sorted(list) : i < j => Sorted(list)[i] <= Sorted(list)[j]
<1> DEFINE n == Len(list)
           S == DOMAIN list
           below == [i \in S |-> Before(list, i)]
           at == [k \in S |-> CHOOSE i \in S : Cardinality(Before(list, i)) = k - 1]
<1>1. n \in Nat /\ S = 1..n /\ \A i \in S : list[i] \in Int /\ i \in Int
  OBVIOUS
<1>2. \A i, j \in S : j \in Before(list, i) <=> list[j] < list[i] \/ (list[j] = list[i] /\ j < i)
  BY DEF Before
<1>3. \A i \in S : Before(list, i) \in SUBSET S
  BY DEF Before
<1>4. below \in [S -> SUBSET S] /\ \A i \in S : below[i] = Before(list, i)
  BY <1>3
<1> HIDE DEF n, S, below
<1>5. Ordered(S, below)
  <2>1. \A x \in S : x \notin below[x]
    BY <1>1, <1>2, <1>4
  <2>2. \A x, y \in S : x # y => x \in below[y] \/ y \in below[x]
    BY <1>1, <1>2, <1>4
  <2>3. ASSUME NEW x \in S, NEW y \in S, NEW z \in S, x \in below[y], z \in below[x] PROVE z \in below[y]
    <3>1. /\ list[x] < list[y] \/ (list[x] = list[y] /\ x < y)
          /\ list[z] < list[x] \/ (list[z] = list[x] /\ z < x)
      BY <1>2, <1>4, <2>3
    <3>2. list[x] \in Int /\ list[y] \in Int /\ list[z] \in Int /\ x \in Int /\ y \in Int /\ z \in Int
      BY <1>1
    <3>3. list[z] < list[y] \/ (list[z] = list[y] /\ z < y)
      BY <3>1, <3>2
    <3> QED BY <1>2, <1>4, <3>3
  <2>4. \A x, y \in S : x \in below[y] => below[x] \subseteq below[y]
    BY <1>4, <2>3
  <2> QED BY <1>4, <2>1, <2>2, <2>4 DEF Ordered
<1>6. IsFiniteSet(S) /\ Cardinality(S) = n
  BY <1>1, FS_Interval
<1>7. Ranked(S, below)
  BY <1>5, <1>6, RanksAreTaken
<1>8. ASSUME NEW k \in S PROVE at[k] \in S /\ Cardinality(below[at[k]]) = k - 1
  <2>1. PICK x \in S : Cardinality(below[x]) = k - 1
    BY <1>1, <1>6, <1>7 DEF Ranked
  <2>2. Cardinality(Before(list, x)) = k - 1
    BY <1>4, <2>1
  <2>3. at[k] \in S /\ Cardinality(Before(list, at[k])) = k - 1
    BY <2>2
  <2> HIDE DEF at
  <2> QED BY <1>4, <2>3
<1>9. Sorted(list) = [k \in S |-> list[at[k]]]
  BY DEF Sorted, S
<1>10. at = [k \in S |-> at[k]]
  OBVIOUS
<1> HIDE DEF at
<1>11. at \in [S -> S]
  BY <1>8, <1>10
<1>12. /\ Sorted(list) \in Seq(Int) /\ Len(Sorted(list)) = n
       /\ DOMAIN Sorted(list) = S /\ \A k \in S : Sorted(list)[k] = list[at[k]]
  BY <1>1, <1>8, <1>9
<1>13. ASSUME NEW i \in S, NEW j \in S, i < j PROVE list[at[i]] <= list[at[j]]
  <2>1. Cardinality(below[at[j]]) = j - 1 /\ Cardinality(below[at[i]]) = i - 1 /\ at[i] \in S /\ at[j] \in S
    BY <1>8
  <2>2. ~(j - 1 < i - 1)
    BY <1>1, <1>13
  <2>3. at[j] \notin below[at[i]]
    BY <1>7, <2>1, <2>2 DEF Ranked
  <2>4. ~(list[at[j]] < list[at[i]])
    BY <1>2, <1>4, <2>1, <2>3
  <2> QED BY <1>1, <2>1, <2>4
<1>14. ASSUME NEW t PROVE Occurs(t, Sorted(list)) = Occurs(t, list)
  <2> DEFINE A == {k \in S : list[at[k]] = t}
             B == {i \in S : list[i] = t}
             f == [k \in A |-> at[k]]
  <2>1. Occurs(t, Sorted(list)) = Cardinality(A)
    BY <1>12 DEF Occurs
  <2>2. Occurs(t, list) = Cardinality(B)
    BY DEF Occurs, S
  <2>3. f \in [A -> B]
    BY <1>11
  <2>4. \A k, m \in A : f[k] = f[m] => k = m
    <3> SUFFICES ASSUME NEW k \in A, NEW m \in A, at[k] = at[m] PROVE k = m
      OBVIOUS
    <3>1. k \in S /\ m \in S
      OBVIOUS
    <3>2. k - 1 = m - 1
      BY <1>8, <3>1
    <3> QED BY <1>1, <3>1, <3>2
  <2>5. ASSUME NEW i \in B PROVE \E k \in A : f[k] = i
    <3>1. i \in S /\ list[i] = t
      OBVIOUS
    <3> DEFINE k == Cardinality(below[i]) + 1
    <3>2. Cardinality(below[i]) \in 0..(n - 1)
      BY <1>6, <1>7, <3>1 DEF Ranked
    <3>3. k \in S /\ k - 1 = Cardinality(below[i])
      BY <1>1, <3>2
    <3> HIDE DEF k
    <3>4. at[k] \in S /\ Cardinality(below[at[k]]) = Cardinality(below[i])
      BY <1>8, <3>3
    <3>5. at[k] = i
      BY <1>7, <3>1, <3>4 DEF Ranked
    <3>6. k \in A
      BY <3>1, <3>3, <3>5
    <3> QED BY <3>5, <3>6
  <2>6. IsFiniteSet(A)
    BY <1>6, FS_Subset
  <2> HIDE DEF A, B, f
  <2>7. f \in Bijection(A, B)
    BY <2>3, <2>4, <2>5 DEF Bijection, Injection, Surjection, IsInjective
  <2>8. ExistsBijection(A, B)
    BY <2>7 DEF ExistsBijection
  <2>9. Cardinality(A) = Cardinality(B)
    BY <2>6, <2>8, FS_Bijection
  <2> QED BY <2>1, <2>2, <2>9
<1> QED BY <1>12, <1>13, <1>14 DEF n

-----------------------------------------------------------------------------
(* How far back the signals of a graph look.                                  *)

\* g adds up the first n numbers, for every n up to N.
Adds(list, N, g) == g = [n \in 0..N |-> IF n = 0 THEN 0 ELSE g[n - 1] + list[n]]

LEMMA AddsExists ==
  ASSUME NEW list
  PROVE  \A N \in Nat : \E g : Adds(list, N, g)
<1> DEFINE S == {N \in Nat : \E g : Adds(list, N, g)}
<1>1. 0 \in S
  <2> DEFINE g == [n \in 0..0 |-> 0]
  <2>1. Adds(list, 0, g)
    BY DEF Adds
  <2> QED BY <2>1
<1>2. ASSUME NEW N \in Nat, N \in S
      PROVE  N + 1 \in S
  <2>1. PICK g : Adds(list, N, g)
    BY <1>2
  <2> DEFINE h == [n \in 0..(N + 1) |-> IF n = N + 1 THEN g[N] + list[n] ELSE g[n]]
  <2>2. \A n \in 0..N : g[n] = IF n = 0 THEN 0 ELSE g[n - 1] + list[n]
    BY <2>1 DEF Adds
  <2>3. \A n \in 0..N : h[n] = g[n]
    OBVIOUS
  <2>4. ASSUME NEW n \in 0..(N + 1)
        PROVE  h[n] = IF n = 0 THEN 0 ELSE h[n - 1] + list[n]
    <3>1. CASE n = N + 1
      <4>1. h[n] = g[N] + list[n] /\ h[N] = g[N] /\ n # 0 /\ n - 1 = N
        BY <3>1, <2>3
      <4> QED BY <4>1
    <3>2. CASE n = 0
      BY <2>2, <3>2
    <3>3. CASE n \in 1..N
      <4>1. h[n] = g[n] /\ h[n - 1] = g[n - 1] /\ n \in 0..N /\ n # 0
        BY <3>3, <2>3
      <4> QED BY <2>2, <4>1
    <3> QED BY <3>1, <3>2, <3>3
  <2>5. Adds(list, N + 1, h)
    <3> HIDE DEF h
    <3>1. h = [n \in 0..(N + 1) |-> h[n]]
      BY DEF h
    <3>2. [n \in 0..(N + 1) |-> h[n]] = [n \in 0..(N + 1) |-> IF n = 0 THEN 0 ELSE h[n - 1] + list[n]]
      BY <2>4
    <3> QED BY <3>1, <3>2 DEF Adds
  <2> QED BY <2>5
<1> HIDE DEF S
<1>3. Nat \subseteq S
  BY <1>1, <1>2, NatInSet
<1> QED BY <1>3 DEF S

\* The sums of the first numbers of a list.
LEMMA PrefixSums ==
  ASSUME NEW list \in Seq(Int)
  PROVE  \E h : /\ h[0] = 0
                /\ \A n \in 1..Len(list) : h[n] = h[n - 1] + list[n]
                /\ \A n \in 0..Len(list) : h[n] \in Int
                /\ Added(list) = h[Len(list)]
<1> DEFINE L == Len(list)
           h == CHOOSE f : Adds(list, L, f)
<1>1. L \in Nat /\ \A n \in 1..L : list[n] \in Int
  OBVIOUS
<1>2. Added(list) = h[L]
  BY DEF Added, Adds
<1>3. Adds(list, L, h)
  BY <1>1, AddsExists
<1> HIDE DEF h, L
<1>4. h[0] = 0 /\ \A n \in 1..L : h[n] = h[n - 1] + list[n]
  <2>1. \A n \in 0..L : h[n] = IF n = 0 THEN 0 ELSE h[n - 1] + list[n]
    BY <1>3 DEF Adds
  <2>2. 0 \in 0..L /\ \A n \in 1..L : n \in 0..L /\ n # 0
    BY <1>1
  <2> QED BY <2>1, <2>2
<1>5. \A n \in 0..L : h[n] \in Int
  <2> DEFINE M == {n \in Nat : n <= L => h[n] \in Int}
  <2>1. 0 \in M
    BY <1>4
  <2>2. ASSUME NEW n \in Nat, n \in M PROVE n + 1 \in M
    <3> SUFFICES ASSUME n + 1 <= L PROVE h[n + 1] \in Int
      OBVIOUS
    <3>1. n + 1 \in 1..L /\ (n + 1) - 1 = n /\ n <= L
      BY <1>1
    <3>2. h[n] \in Int /\ list[n + 1] \in Int
      BY <1>1, <2>2, <3>1
    <3>3. h[n + 1] = h[n] + list[n + 1]
      BY <1>4, <3>1
    <3> QED BY <3>2, <3>3
  <2> HIDE DEF M
  <2>3. Nat \subseteq M
    BY <2>1, <2>2, NatInSet
  <2> QED BY <1>1, <2>3 DEF M
<1> QED BY <1>2, <1>4, <1>5 DEF L

LEMMA AddedNat ==
  ASSUME NEW list \in Seq(Nat)
  PROVE  Added(list) \in Nat
<1> DEFINE N == Len(list)
           g == CHOOSE f : Adds(list, N, f)
<1>1. N \in Nat /\ \A n \in 1..N : list[n] \in Nat
  OBVIOUS
<1>2. Added(list) = g[N]
  BY DEF Added, Adds
<1>3. Adds(list, N, g)
  BY <1>1, AddsExists
<1> HIDE DEF g, N
<1>4. g[0] = 0 /\ \A n \in 0..N : n # 0 => g[n] = g[n - 1] + list[n]
  BY <1>1, <1>3 DEF Adds
<1> DEFINE M == {n \in Nat : n <= N => g[n] \in Nat}
<1>5. 0 \in M
  BY <1>4
<1>6. ASSUME NEW n \in Nat, n \in M PROVE n + 1 \in M
  <2> SUFFICES ASSUME n + 1 <= N PROVE g[n + 1] \in Nat
    OBVIOUS
  <2>1. n + 1 \in 1..N /\ n + 1 \in 0..N /\ (n + 1) - 1 = n /\ n + 1 # 0 /\ n <= N
    BY <1>1
  <2>2. g[n] \in Nat /\ list[n + 1] \in Nat
    BY <1>1, <1>6, <2>1
  <2>3. g[n + 1] = g[n] + list[n + 1]
    BY <1>4, <2>1
  <2> QED BY <2>2, <2>3
<1> HIDE DEF M
<1>7. Nat \subseteq M
  BY <1>5, <1>6, NatInSet
<1>8. g[N] \in Nat
  BY <1>1, <1>7 DEF M
<1> QED BY <1>2, <1>8

\* A finite set of numbers that is not empty has a greatest and a least one.
LEMMA Extremes ==
  ASSUME NEW S \in SUBSET Int, IsFiniteSet(S), S # {}
  PROVE  /\ Max(S) \in S /\ \A x \in S : x <= Max(S)
         /\ Min(S) \in S /\ \A x \in S : Min(S) <= x
<1> DEFINE a == Ascending(S)
           n == Cardinality(S)
<1>1. n \in Nat /\ n # 0
  BY FS_CardinalityType, FS_EmptySet
<1>2. /\ a \in Seq(S) /\ Len(a) = n
      /\ \A x \in S : \E i \in DOMAIN a : a[i] = x
      /\ \A i, j \in DOMAIN a : i < j => a[i] < a[j]
  BY AscendingLists
<1> HIDE DEF a, n
<1>3. DOMAIN a = 1..n /\ 1 \in 1..n /\ n \in 1..n /\ \A i \in 1..n : a[i] \in S /\ a[i] \in Int
  <2>1. DOMAIN a = 1..n /\ 1 \in 1..n /\ n \in 1..n
    BY <1>1, <1>2
  <2>2. \A i \in 1..n : a[i] \in S
    BY <1>2, <2>1
  <2> QED BY <2>1, <2>2
<1>4. ASSUME NEW x \in S PROVE a[1] <= x /\ x <= a[n]
  <2>1. PICK i \in 1..n : a[i] = x
    BY <1>2, <1>3
  <2>2. i = 1 \/ 1 < i
    BY <1>1
  <2>3. i = n \/ i < n
    BY <1>1
  <2>4. a[1] <= a[i]
    BY <1>2, <1>3, <2>2
  <2>5. a[i] <= a[n]
    BY <1>2, <1>3, <2>3
  <2> QED BY <2>1, <2>4, <2>5
<1>5. \E x \in S : \A y \in S : x >= y
  BY <1>3, <1>4
<1>6. \E x \in S : \A y \in S : x <= y
  BY <1>3, <1>4
<1>7. Max(S) \in S /\ \A y \in S : Max(S) >= y
  BY <1>5 DEF Max
<1>8. Min(S) \in S /\ \A y \in S : Min(S) <= y
  BY <1>6 DEF Min
<1> QED BY <1>7, <1>8

LEMMA ImageFinite ==
  ASSUME NEW S, IsFiniteSet(S), NEW T, NEW f \in [S -> T], \A y \in T : \E x \in S : f[x] = y
  PROVE  IsFiniteSet(T)
<1>1. f \in Surjection(S, T)
  BY DEF Surjection
<1> QED BY <1>1, FS_Surjection

LEMMA LookbackNat ==
  ASSUME NEW g, Sound(g)
  PROVE  /\ LookbackBars(g) \in Nat
         /\ \A n \in Enabled(g) : \A s \in Observed(n) : SourceLookback(s) <= LookbackBars(g)
<1> DEFINE sources == UNION {Observed(n) : n \in Enabled(g)}
           bars == {0} \cup {SourceLookback(s) : s \in sources}
<1>1. IsFiniteSet(Enabled(g))
  <2>1. g.nodes \in Seq(Nodes(g)) /\ DOMAIN g.nodes = 1..Len(g.nodes) /\ Len(g.nodes) \in Nat
    BY NodesOnce
  <2>2. IsFiniteSet(1..Len(g.nodes))
    BY <2>1, FS_Interval
  <2>3. /\ \A n \in Nodes(g) : \E i \in 1..Len(g.nodes) : g.nodes[i] = n
        /\ g.nodes \in [1..Len(g.nodes) -> Nodes(g)]
    BY <2>1 DEF Nodes, Range
  <2>4. IsFiniteSet(Nodes(g))
    BY <2>2, <2>3, ImageFinite
  <2> QED BY <2>4, FS_Subset DEF Enabled
<1>2. ASSUME NEW n \in Enabled(g) PROVE IsFiniteSet(Observed(n))
  <2>1. CASE n.subtype = "price_threshold"
    BY <2>1, FS_Singleton DEF Observed
  <2>2. CASE n.subtype = "threshold"
    <3>1. IsFiniteSet({n.config.source, n.config.reference})
      <4>1. IsFiniteSet({n.config.source})
        BY FS_Singleton
      <4>2. IsFiniteSet({n.config.source} \cup {n.config.reference})
        BY <4>1, FS_AddElement
      <4>3. {n.config.source} \cup {n.config.reference} = {n.config.source, n.config.reference}
        OBVIOUS
      <4> QED BY <4>2, <4>3
    <3> QED BY <2>2, <3>1, FS_Subset DEF Observed
  <2>3. CASE n.subtype \notin {"price_threshold", "threshold"}
    BY <2>3, FS_EmptySet DEF Observed
  <2> QED BY <2>1, <2>2, <2>3
<1>3. IsFiniteSet(sources)
  <2> DEFINE O == {Observed(n) : n \in Enabled(g)}
  <2> DEFINE f == [n \in Enabled(g) |-> Observed(n)]
  <2>0. f \in [Enabled(g) -> O] /\ \A y \in O : \E n \in Enabled(g) : f[n] = y
    OBVIOUS
  <2>1. IsFiniteSet(O)
    <3> HIDE DEF f, O
    <3> QED BY <1>1, <2>0, ImageFinite
  <2>2. \A x \in O : IsFiniteSet(x)
    BY <1>2
  <2> HIDE DEF O
  <2>3. IsFiniteSet(UNION O)
    BY <2>1, <2>2, FS_UNION
  <2> QED BY <2>3 DEF O
<1>4. ASSUME NEW s \in sources PROVE SourceLookback(s) \in Nat
  <2>1. s.windows \in Seq(Range(s.windows)) /\ \A k \in DOMAIN s.windows : s.windows[k].bars \in Nat
    BY DEF Sound, IsGraph
  <2>2. [k \in DOMAIN s.windows |-> s.windows[k].bars] \in Seq(Nat)
    <3>1. DOMAIN s.windows = 1..Len(s.windows) /\ Len(s.windows) \in Nat
      BY <2>1
    <3> QED BY <2>1, <3>1
  <2> QED BY <2>2, AddedNat DEF SourceLookback
<1>5. bars \in SUBSET Nat /\ bars # {}
  BY <1>4
<1>6. IsFiniteSet(bars)
  <2>1. IsFiniteSet({SourceLookback(s) : s \in sources})
    <3> DEFINE f == [s \in sources |-> SourceLookback(s)]
               L == {SourceLookback(s) : s \in sources}
    <3> HIDE DEF sources
    <3>1. f \in [sources -> L] /\ \A y \in L : \E s \in sources : f[s] = y
      OBVIOUS
    <3> HIDE DEF f, L
    <3>2. IsFiniteSet(L)
      BY <1>3, <3>1, ImageFinite
    <3> QED BY <3>2 DEF L
  <2> QED BY <2>1, FS_Singleton, FS_Union
<1>7. /\ LookbackBars(g) = Max(bars)
      /\ \A n \in Enabled(g) : \A s \in Observed(n) : SourceLookback(s) \in bars
  BY DEF LookbackBars
<1> HIDE DEF bars
<1>8. Max(bars) \in bars /\ \A x \in bars : x <= Max(bars)
  <2>1. bars \in SUBSET Int
    BY <1>5
  <2> QED BY <1>5, <1>6, <2>1, Extremes
<1> QED BY <1>5, <1>7, <1>8

-----------------------------------------------------------------------------
(* What is loaded.                                                            *)

Rows == Seq(Int)

BundleTyped(b) == b \in Seq(Range(b)) /\ \A k \in DOMAIN b : b[k].rows \in Rows

LoadWindow == [start |-> WarmupStart, end |-> job.end]

LoadInv ==
  /\ BundleTyped(bundle)
  /\ rows \in Rows
  /\ wanted \in Seq(Range(wanted))
  /\ loading \in {"off", "listing", "reading", "loaded", "failed"}
  /\ loading \in {"listing", "reading"} => wanted # <<>>
  /\ loading = "reading" => files \subseteq FilesOf(Head(wanted))
  /\ loading \in {"off", "listing"} => rows = <<>>
  /\ loading = "off" => window = None
  /\ loading # "off" =>
       /\ window = LoadWindow /\ compiling = "compiled"
       /\ job.store # None /\ progress # "compiling"
  /\ progress \in {"resolving", "covering", "ticking", "ended", "panicked"} => loading \in {"off", "loaded"}

\* The files of a job's store.
LEMMA StoreTyped ==
  ASSUME CompileInv, job.store # None, NEW s
  PROVE  /\ IsFiniteSet(FilesOf(s))
         /\ \A f \in FilesOf(s) :
              f.rows \in Rows /\ (f.date # None => \A i \in DOMAIN f.rows : Day(f.rows[i]) = f.date)
         /\ \A f, g \in FilesOf(s) : f.name = g.name => f = g
         /\ \A r : r # s => FilesOf(r) \cap FilesOf(s) = {}
BY JobsAssumption, FS_EmptySet DEF CompileInv, FilesOf, Rows

LEMMA WindowedTyped ==
  ASSUME NEW list \in Rows
  PROVE  Windowed(list) \in Rows
<1>1. Windowed(list) \in Seq(Int \cap (window.start..window.end))
  BY ThoseAreKept DEF Windowed, Rows
<1> QED BY <1>1 DEF Rows

LEMMA RangeOfAll ==
  ASSUME NEW S, NEW s \in Seq(S)
  PROVE  s \in Seq(Range(s)) /\ (s # <<>> => Head(s) \in Range(s) /\ Tail(s) \in Seq(Range(Tail(s))))
<1>1. ASSUME NEW r \in Seq(S) PROVE r \in Seq(Range(r))
  <2>1. r = [k \in 1..Len(r) |-> r[k]] /\ Len(r) \in Nat /\ DOMAIN r = 1..Len(r)
    OBVIOUS
  <2>2. \A k \in DOMAIN r : r[k] \in Range(r)
    BY DEF Range
  <2> QED BY <2>1, <2>2
<1>2. s # <<>> => Tail(s) \in Seq(S) /\ 1 \in DOMAIN s /\ Head(s) = s[1]
  OBVIOUS
<1> QED BY <1>1, <1>2 DEF Range

\* A series more.
LEMMA BundleGrows ==
  ASSUME NEW b, BundleTyped(b), NEW s, s.rows \in Rows
  PROVE  BundleTyped(Append(b, s)) /\ Append(b, s) \in Seq(Range(b) \cup {s})
<1> DEFINE c == Append(b, s)
           R == Range(b) \cup {s}
<1>1. b \in Seq(R)
  BY DEF BundleTyped
<1>2. c \in Seq(R)
  <2> HIDE DEF R
  <2>1. s \in R
    BY DEF R
  <2> QED BY <1>1, <2>1
<1>3. c \in Seq(Range(c))
  <2> HIDE DEF R, c
  <2> QED BY <1>2, RangeOfAll
<1>4. ASSUME NEW k \in DOMAIN c PROVE c[k].rows \in Rows
  <2>1. c[k] = s \/ (k \in DOMAIN b /\ c[k] = b[k])
    BY <1>1
  <2> QED BY <2>1 DEF BundleTyped
<1> QED BY <1>2, <1>3, <1>4 DEF BundleTyped

LEMMA ToLoadTyped ==
  ASSUME NEW required
  PROVE  ToLoad(required) \in Seq(Range(ToLoad(required)))
<1> DEFINE S == Range(SeriesOrder)
           c == InOrder(required, "candle")
           L == {Series("liquidity", s.venue, s.symbol) : s \in S}
           q == [k \in DOMAIN c |-> Series("liquidity", c[k].venue, c[k].symbol)]
           T == S \cup L
<1>1. SeriesOrder \in Seq(S)
  BY LoaderAssumption
<1>2. ASSUME NEW kind PROVE InOrder(required, kind) \in Seq(S)
  <2>1. Those(SeriesOrder, {s \in required : s.kind = kind}) \in Seq(S \cap {s \in required : s.kind = kind})
    BY <1>1, ThoseAreKept
  <2> QED BY <2>1 DEF InOrder
<1>3. q \in Seq(L)
  <2>1. c \in Seq(S)
    BY <1>2
  <2> HIDE DEF c, S
  <2>2. DOMAIN c = 1..Len(c) /\ Len(c) \in Nat /\ \A k \in DOMAIN c : c[k] \in S
    BY <2>1
  <2> QED BY <2>2
<1>4. \A kind : InOrder(required, kind) \in Seq(T)
  BY <1>2
<1>5. q \in Seq(T)
  BY <1>3
<1>6. ToLoad(required) = c \o InOrder(required, "funding") \o InOrder(required, "gas")
                           \o InOrder(required, "yield") \o q
  BY DEF ToLoad
<1> HIDE DEF T, q
<1>7. ToLoad(required) \in Seq(T)
  <2>1. /\ c \in Seq(T) /\ InOrder(required, "funding") \in Seq(T) /\ InOrder(required, "gas") \in Seq(T)
        /\ InOrder(required, "yield") \in Seq(T)
    BY <1>4
  <2> HIDE DEF c
  <2> QED BY <1>5, <1>6, <2>1
<1> QED BY <1>7, RangeOfAll

LEMMA LoadInvInit == Init => LoadInv
<1> SUFFICES ASSUME Init PROVE LoadInv
  OBVIOUS
<1>1. <<>> \in Seq(Range(<<>>)) /\ DOMAIN <<>> = {} /\ <<>> \in Seq(Int)
  BY DEF Range
<1> QED BY <1>1 DEF Init, LoaderInit, LoadInv, BundleTyped, Rows

\* Steps that do not load anything.
LEMMA OtherStepsLoad ==
  ASSUME Next, ~LoadData, ~LoadSeries, ~UseInlineData
  PROVE  /\ UNCHANGED loaderVars
         /\ progress = "compiling" \/ progress' # "compiling"
         /\ progress' \in {"resolving", "covering", "ticking", "ended", "panicked"} =>
              \/ progress \in {"resolving", "covering", "ticking", "ended", "panicked"}
              \/ loading = "loaded"
<1>1. CASE CompileGraph
  BY <1>1 DEF CompileGraph
<1>2. CASE \E filled \in SUBSET Actions : Cardinality(filled) <= 1 /\ Tick(filled)
  BY <1>2 DEF Tick
<1>3. CASE GraphRefused \/ NoData \/ LoadFailed \/ PolicyRefused \/ CoverageRefused
  BY <1>3 DEF GraphRefused, NoData, LoadFailed, PolicyRefused, CoverageRefused, Fail
<1>4. CASE LoadEnds \/ Resolve \/ BeginTicks \/ Panic \/ End
  BY <1>4 DEF LoadEnds, Resolve, BeginTicks, Panic, End
<1>5. CASE Terminated
  BY <1>5 DEF Terminated, vars
<1> QED BY <1>1, <1>2, <1>3, <1>4, <1>5 DEF Next

LEMMA LoadInvNext == CompileInv /\ LoadInv /\ [Next]_vars => LoadInv'
<1> SUFFICES ASSUME CompileInv, LoadInv, [Next]_vars PROVE LoadInv'
  OBVIOUS
<1>1. UNCHANGED <<job, store>> /\ (CompileGraph \/ UNCHANGED <<compiling, compiled>>)
  BY StepsOutside DEF vars, compilerVars, loaderVars
<1>2. CASE UNCHANGED vars \/ (Next /\ ~LoadData /\ ~LoadSeries /\ ~UseInlineData)
  <2>1. UNCHANGED <<store, window, loading, wanted, lost, files, rows, bundle>>
    BY <1>2, OtherStepsLoad DEF vars, loaderVars
  <2>2. /\ progress = "compiling" \/ progress' # "compiling"
        /\ progress' \in {"resolving", "covering", "ticking", "ended", "panicked"} =>
             \/ progress \in {"resolving", "covering", "ticking", "ended", "panicked"}
             \/ loading = "loaded"
    <3>1. CASE UNCHANGED vars
      BY <3>1 DEF vars
    <3> QED BY <1>2, <3>1, OtherStepsLoad
  <2>3. loading # "off" => UNCHANGED <<compiling, compiled>>
    <3>1. CompileGraph => progress = "compiling"
      BY DEF CompileGraph
    <3> QED BY <1>1, <3>1 DEF LoadInv
  <2>4. loading # "off" => LoadWindow' = LoadWindow
    BY <1>1, <2>3 DEF LoadWindow, WarmupStart
  <2>5. \A s : FilesOf(s)' = FilesOf(s)
    BY <2>1 DEF FilesOf
  <2>6. BundleTyped(bundle)'
    BY <2>1 DEF LoadInv
  <2> QED BY <1>1, <2>1, <2>2, <2>3, <2>4, <2>5, <2>6 DEF LoadInv
<1>3. CASE UseInlineData
  <2>1. /\ bundle' = job.data /\ progress' = "resolving" /\ progress = "compiling" /\ job.data # None
        /\ UNCHANGED <<job, compiling, compiled, store, window, loading, wanted, lost, files, rows>>
    BY <1>3 DEF UseInlineData, compilerVars
  <2>2. loading = "off"
    BY <2>1 DEF LoadInv
  <2>3. BundleTyped(job.data)
    BY <2>1, JobsAssumption DEF CompileInv, BundleTyped, Rows
  <2>4. BundleTyped(bundle)'
    BY <2>1, <2>3
  <2> QED BY <2>1, <2>2, <2>4 DEF LoadInv
<1>4. CASE LoadData
  <2>1. /\ StartLoad(compiled.requirements, WarmupStart, job.end) /\ progress' = "loading" /\ progress = "compiling"
        /\ UNCHANGED <<job, compiling, compiled>> /\ compiling = "compiled" /\ store # None
    BY <1>4 DEF LoadData, compilerVars
  <2>2. /\ window' = LoadWindow /\ wanted' = ToLoad(compiled.requirements) /\ loading = "off"
        /\ loading' = IF wanted' = <<>> THEN "loaded" ELSE "listing"
        /\ UNCHANGED <<store, lost, files, rows, bundle>>
    BY <2>1 DEF StartLoad, LoadWindow
  <2>3. LoadWindow' = LoadWindow /\ window' = LoadWindow'
    BY <1>1, <2>1, <2>2 DEF LoadWindow, WarmupStart
  <2>4. wanted' \in Seq(Range(wanted'))
    BY <2>2, ToLoadTyped
  <2>5. BundleTyped(bundle)' /\ rows' = <<>> /\ rows' \in Rows /\ job'.store # None
    BY <1>1, <2>1, <2>2 DEF LoadInv, CompileInv
  <2> QED BY <2>1, <2>2, <2>3, <2>4, <2>5 DEF LoadInv
<1>5. CASE LoadSeries
  <2>1. /\ Load /\ UNCHANGED <<job, progress, compiling, compiled>> /\ progress = "loading"
    BY <1>5 DEF LoadSeries, compilerVars
  <2>2. LoadWindow' = LoadWindow
    BY <2>1 DEF LoadWindow, WarmupStart
  <2>3. CASE ListFiles
    <3>1. PICK missed \in SUBSET FilesOf(Head(wanted)) :
            /\ lost' = lost \cup missed
            /\ files' = {f \in FilesOf(Head(wanted)) \ missed : MayHold(f)}
      BY <2>3 DEF ListFiles
    <3>2. /\ loading = "listing" /\ loading' = "reading"
          /\ UNCHANGED <<store, window, wanted, rows, bundle>>
      BY <2>3 DEF ListFiles
    <3>3. BundleTyped(bundle)' /\ files' \subseteq FilesOf(Head(wanted))'
      BY <3>1, <3>2 DEF LoadInv, FilesOf
    <3> QED BY <2>1, <2>2, <3>2, <3>3 DEF LoadInv
  <2>4. ASSUME NEW f \in files, ReadFile(f) PROVE LoadInv'
    <3>1. /\ loading = "reading" /\ rows' = rows \o Windowed(f.rows) /\ files' = files \ {f}
          /\ UNCHANGED <<store, window, loading, wanted, lost, bundle>>
      BY <2>4 DEF ReadFile
    <3>2. f \in FilesOf(Head(wanted)) /\ job.store # None /\ f.rows \in Rows
      BY <3>1, StoreTyped DEF LoadInv
    <3>3. rows' \in Rows
      BY <3>1, <3>2, WindowedTyped DEF LoadInv, Rows
    <3>4. BundleTyped(bundle)' /\ files' \subseteq FilesOf(Head(wanted))'
      BY <3>1 DEF LoadInv, FilesOf
    <3> QED BY <2>1, <2>2, <3>1, <3>3, <3>4 DEF LoadInv
  <2>5. ASSUME NEW f \in files, ReadFails(f) PROVE LoadInv'
    <3>1. /\ loading = "reading" /\ loading' = "failed"
          /\ UNCHANGED <<store, window, wanted, lost, files, rows, bundle>>
      BY <2>5 DEF ReadFails
    <3>2. BundleTyped(bundle)'
      BY <3>1 DEF LoadInv
    <3> QED BY <2>1, <2>2, <3>1, <3>2 DEF LoadInv
  <2>6. CASE FinishSeries
    <3>1. /\ loading = "reading" /\ rows' = <<>> /\ wanted' = Tail(wanted)
          /\ loading' = IF Tail(wanted) = <<>> THEN "loaded" ELSE "listing"
          /\ bundle' = IF Head(wanted).kind = "liquidity" /\ rows = <<>> THEN bundle
                       ELSE Append(bundle, [series |-> Head(wanted), rows |-> Sorted(rows)])
          /\ UNCHANGED <<store, window, lost, files>>
      BY <2>6 DEF FinishSeries
    <3>2. wanted' \in Seq(Range(wanted'))
      BY <3>1, RangeOfAll DEF LoadInv
    <3>3. Sorted(rows) \in Rows
      BY SortedKeeps DEF LoadInv, Rows
    <3> DEFINE s == [series |-> Head(wanted), rows |-> Sorted(rows)]
    <3>4. s.rows \in Rows
      BY <3>3
    <3> HIDE DEF s
    <3>5. BundleTyped(Append(bundle, s))
      BY <3>4, BundleGrows DEF LoadInv
    <3>6. BundleTyped(bundle)'
      BY <3>1, <3>5 DEF LoadInv, s
    <3>7. rows' \in Rows
      BY <3>1 DEF Rows
    <3> QED BY <2>1, <2>2, <3>1, <3>2, <3>6, <3>7 DEF LoadInv
  <2> QED BY <2>1, <2>3, <2>4, <2>5, <2>6 DEF Load
<1> QED BY <1>2, <1>3, <1>4, <1>5

-----------------------------------------------------------------------------
(* The policy, the ticks and the windows of funding.                          *)

Span == job.start..job.end

Climbs(s) == \A i, j \in DOMAIN s : i < j => s[i] < s[j]

\* The window of one tick and no other has t.
OfOneWindow(t) ==
  \E i \in DOMAIN accrued :
    /\ accrued[i].lo < t /\ t <= accrued[i].hi
    /\ \A j \in DOMAIN accrued : accrued[j].lo < t /\ t <= accrued[j].hi => j = i

WindowsInv ==
  /\ accrued \in Seq([lo : Int, hi : Int])
  /\ accrued # <<>> => now # None /\ policy.funding = "historical"
  /\ \A i \in DOMAIN accrued : accrued[i].hi <= now
  /\ accrued # <<>> => \A t \in Int : accrued[1].lo < t /\ t <= now => OfOneWindow(t)

Running == progress \in {"ticking", "ended", "panicked"}

RunInv ==
  /\ progress \in {"compiling", "loading", "resolving", "covering", "ticking", "ended", "failed", "panicked"}
  /\ policy # None => DOMAIN policy = DOMAIN StrictV1
  /\ progress = "covering" \/ Running => policy = JobPolicy /\ Runnable
  /\ ~Running => ticks = <<>> /\ now = None /\ accrued = <<>> /\ held = {}
  /\ ticks \in Seq(Span) /\ Climbs(ticks)
  /\ now = None \/ (now \in Span /\ \A i \in DOMAIN ticks : now < ticks[i])
  /\ held \subseteq {s \in DataRequirements(graph) : s.kind = "candle"}
  /\ Len(accrued) + Len(ticks) <= Cardinality(Span)
  /\ WindowsInv

LEMMA TimesTyped ==
  ASSUME NEW b, BundleTyped(b), NEW s
  PROVE  Times(b, s) \subseteq Int
<1>1. ASSUME NEW k \in DOMAIN b, NEW i \in DOMAIN b[k].rows PROVE b[k].rows[i] \in Int
  <2>1. b[k].rows \in Seq(Int)
    BY DEF BundleTyped, Rows
  <2> QED BY <2>1
<1> QED BY <1>1 DEF Times

LEMMA ClockTyped ==
  ASSUME NEW b, BundleTyped(b), NEW start \in Int, NEW end \in Int, start <= end, NEW initial
  PROVE  RunTimes(b, start, end, initial) \subseteq start..end
<1>1. ASSUME NEW kinds PROVE Within(TimesOf(b, kinds), start, end) \subseteq start..end
  <2>1. TimesOf(b, kinds) \subseteq Int
    BY TimesTyped DEF TimesOf
  <2> QED BY <2>1 DEF Within
<1>2. Clock(b, start, end) \subseteq start..end
  BY <1>1 DEF Clock
<1> QED BY <1>2 DEF RunTimes

LEMMA SpanFacts ==
  ASSUME CompileInv
  PROVE  /\ job.start \in Int /\ job.end \in Int /\ job.start <= job.end /\ job.step \in Nat
         /\ Span \subseteq Int /\ IsFiniteSet(Span) /\ Cardinality(Span) \in Nat
<1>1. job.start \in Int /\ job.end \in Int /\ job.start <= job.end /\ job.step \in Nat
  BY JobsAssumption DEF CompileInv
<1>2. IsFiniteSet(job.start..job.end)
  BY <1>1, FS_Interval
<1> QED BY <1>1, <1>2, FS_CardinalityType DEF Span

LEMMA PolicyTyped == JobPolicy # None => DOMAIN JobPolicy = DOMAIN StrictV1
<1>1. \A p \in DOMAIN Profiles : DOMAIN Profiles[p] = DOMAIN StrictV1
  <2>1. DOMAIN Profiles = {"strict_v1", "conservative_v1", "research_v1"}
    BY DEF Profiles
  <2>2. DOMAIN Profiles["strict_v1"] = DOMAIN StrictV1
    BY DEF Profiles
  <2>3. DOMAIN Profiles["conservative_v1"] = DOMAIN StrictV1
    BY DEF Profiles
  <2>4. DOMAIN Profiles["research_v1"] = DOMAIN StrictV1
    BY DEF Profiles
  <2> QED BY <2>1, <2>2, <2>3, <2>4
<1>2. ASSUME NEW c, ResolvePolicy(c) # None PROVE DOMAIN ResolvePolicy(c) = DOMAIN StrictV1
  <2>1. ResolvePolicy(c) = Merged(c) /\ c.profile \in DOMAIN Profiles
    BY <1>2 DEF ResolvePolicy
  <2>2. DOMAIN Merged(c) = DOMAIN Profiles[c.profile]
    BY DEF Merged, Overlaid
  <2> QED BY <1>1, <2>1, <2>2
<1>3. ASSUME NEW p, NEW o, ApplyExecutionOverrides(p, o) # None, DOMAIN p = DOMAIN StrictV1
      PROVE  DOMAIN ApplyExecutionOverrides(p, o) = DOMAIN StrictV1
  <2>1. ApplyExecutionOverrides(p, o) = Overlaid(p, o)
    BY <1>3 DEF ApplyExecutionOverrides
  <2> QED BY <1>3, <2>1 DEF Overlaid
<1> QED BY <1>2, <1>3 DEF JobPolicy

LEMMA RunInvInit == Init => RunInv
<1> SUFFICES ASSUME Init PROVE RunInv
  OBVIOUS
<1>1. /\ progress = "compiling" /\ policy = None /\ ticks = <<>> /\ now = None /\ held = {} /\ accrued = <<>>
      /\ DOMAIN ticks = {} /\ DOMAIN accrued = {} /\ Len(ticks) = 0 /\ Len(accrued) = 0
  BY DEF Init
<1>2. CompileInv
  BY CompileInvInit
<1>3. 0 + 0 <= Cardinality(Span)
  BY <1>2, SpanFacts
<1> QED BY <1>1, <1>3 DEF RunInv, WindowsInv, Running, Climbs

\* One more window, which begins where the last one ended.
LEMMA WindowsGrow ==
  ASSUME CompileInv, RunInv, Running, NEW filled, Tick(filled)
  PROVE  WindowsInv'
<1> DEFINE ts == Head(ticks)
           w == FundingWindow(ts, now, job.step)
           n == Len(accrued)
<1>1. /\ ticks # <<>> /\ now' = ts /\ UNCHANGED job
      /\ accrued' = IF policy.funding = "historical" THEN Append(accrued, w) ELSE accrued
  BY DEF Tick, Accrue
<1>2. /\ ts \in Int /\ ts # None /\ 1 \in DOMAIN ticks /\ ts = ticks[1]
      /\ now = None \/ (now \in Int /\ now < ts)
  BY <1>1, SpanFacts, NoneAssumption DEF RunInv
<1>3. job.step \in Nat /\ job.step > 0
  BY SpanFacts DEF RunInv, Runnable
<1>4. /\ w.lo \in Int /\ w.hi = ts /\ w \in [lo : Int, hi : Int] /\ w.lo < ts
      /\ now # None => w.lo = now
  BY <1>2, <1>3 DEF FundingWindow
<1> HIDE DEF w, ts
<1>5. /\ accrued \in Seq([lo : Int, hi : Int])
      /\ accrued # <<>> => now # None /\ now \in Int /\ now < ts
      /\ \A i \in DOMAIN accrued : accrued[i].hi <= now
      /\ accrued # <<>> => \A t \in Int : accrued[1].lo < t /\ t <= now => OfOneWindow(t)
  BY <1>2 DEF RunInv, WindowsInv
<1>6. n \in Nat /\ DOMAIN accrued = 1..n
  BY <1>5
<1>6a. \A i \in 1..n : accrued[i].lo \in Int /\ accrued[i].hi \in Int
  <2> SUFFICES ASSUME NEW i \in 1..n PROVE accrued[i].lo \in Int /\ accrued[i].hi \in Int
    OBVIOUS
  <2> DEFINE W == [lo : Int, hi : Int]
  <2>0. accrued \in Seq(W) /\ i \in DOMAIN accrued
    BY <1>5, <1>6
  <2>1. accrued[i] \in W
    <3> HIDE DEF W
    <3> QED BY <2>0
  <2> QED BY <2>1
<1> HIDE DEF n
<1>7. CASE policy.funding # "historical"
  <2>1. accrued' = <<>>
    BY <1>1, <1>7 DEF RunInv, WindowsInv
  <2>2. DOMAIN accrued' = {} /\ accrued' \in Seq([lo : Int, hi : Int])
    BY <2>1
  <2> QED BY <2>1, <2>2 DEF WindowsInv
<1>8. CASE policy.funding = "historical"
  <2>1. accrued' = Append(accrued, w) /\ policy' = policy /\ now' = ts
    BY <1>1, <1>8 DEF Tick, ts
  <2>2. /\ accrued' \in Seq([lo : Int, hi : Int]) /\ Len(accrued') = n + 1 /\ DOMAIN accrued' = 1..(n + 1)
        /\ accrued'[n + 1] = w
        /\ \A i \in 1..n : accrued'[i] = accrued[i] /\ i # n + 1
    BY <1>4, <1>5, <1>6, <2>1 DEF n
  <2>3. \A i \in 1..(n + 1) : i \in 1..n \/ i = n + 1
    BY <1>6
  <2>4. ASSUME NEW i \in 1..(n + 1) PROVE accrued'[i].hi <= ts
    <3>1. CASE i \in 1..n
      <4>1. accrued # <<>> /\ i \in DOMAIN accrued
        BY <1>6, <3>1
      <4>2. accrued[i].hi <= now /\ now \in Int /\ now < ts /\ accrued[i].hi \in Int
        BY <1>5, <1>6a, <3>1, <4>1
      <4> QED BY <1>2, <2>2, <3>1, <4>2
    <3>2. CASE i = n + 1
      BY <1>2, <1>4, <2>2, <3>2
    <3> QED BY <2>3, <3>1, <3>2
  <2>5. ASSUME NEW t \in Int, accrued'[1].lo < t, t <= ts
        PROVE  OfOneWindow(t)'
    <3>1. CASE accrued = <<>>
      <4>1. n = 0 /\ DOMAIN accrued' = {1} /\ accrued'[1] = w
        BY <2>2, <3>1 DEF n
      <4> QED BY <1>4, <2>5, <4>1 DEF OfOneWindow
    <3>2. CASE accrued # <<>> /\ t <= now
      <4>1. n # 0 /\ accrued'[1] = accrued[1]
        BY <1>5, <1>6, <2>2, <3>2 DEF n
      <4>2. OfOneWindow(t)
        BY <1>5, <2>5, <3>2, <4>1
      <4>3. PICK i \in 1..n :
              /\ accrued[i].lo < t /\ t <= accrued[i].hi
              /\ \A j \in 1..n : accrued[j].lo < t /\ t <= accrued[j].hi => j = i
        BY <1>6, <4>2 DEF OfOneWindow
      <4>4. ~(w.lo < t)
        BY <1>4, <1>5, <3>2
      <4>5. \A j \in 1..(n + 1) : accrued'[j].lo < t /\ t <= accrued'[j].hi => j = i
        BY <2>2, <2>3, <4>3, <4>4
      <4>6. i \in 1..(n + 1) /\ accrued'[i].lo < t /\ t <= accrued'[i].hi
        BY <1>6, <2>2, <4>3
      <4> QED BY <2>2, <4>5, <4>6 DEF OfOneWindow
    <3>3. CASE accrued # <<>> /\ ~(t <= now)
      <4>1. w.lo < t /\ t <= w.hi
        BY <1>4, <1>5, <2>5, <3>3
      <4>2. \A j \in 1..n : ~(t <= accrued[j].hi)
        BY <1>5, <1>6, <1>6a, <3>3
      <4>3. \A j \in 1..(n + 1) : accrued'[j].lo < t /\ t <= accrued'[j].hi => j = n + 1
        BY <2>2, <2>3, <4>2
      <4>4. n + 1 \in 1..(n + 1)
        BY <1>6
      <4> QED BY <2>2, <4>1, <4>3, <4>4 DEF OfOneWindow
    <3> QED BY <3>1, <3>2, <3>3
  <2> QED BY <1>2, <1>8, <2>1, <2>2, <2>4, <2>5 DEF WindowsInv
<1> QED BY <1>7, <1>8

\* What positions are valued by was required.
LEMMA TradedIsRequired ==
  ASSUME NEW n \in Enabled(graph), NEW s \in TradedAt(n)
  PROVE  s \in DataRequirements(graph) /\ s.kind = "candle"
<1>1. n.subtype \in {"swap", "perp_order"}
  BY DEF TradedAt
<1>2. s.kind = "candle"
  BY <1>1 DEF TradedAt, Series
<1>3. s \in Needs(graph, n)
  BY <1>1 DEF Needs
<1> QED BY <1>2, <1>3 DEF DataRequirements

LEMMA TickRunInv ==
  ASSUME CompileInv, RunInv, NEW filled \in SUBSET Actions, Tick(filled)
  PROVE  RunInv'
<1>1. /\ progress = "ticking" /\ progress' = progress /\ ticks # <<>>
      /\ now' = Head(ticks) /\ ticks' = Tail(ticks)
      /\ held' = held \cup UNION {TradedAt(n) : n \in filled}
      /\ UNCHANGED <<job, policy>> /\ UNCHANGED compilerVars
      /\ \A n \in filled : n \in Enabled(graph)
      /\ accrued' = accrued \/ \E w : accrued' = Append(accrued, w)
  BY DEF Tick, Fillable, Accrue
<1>2. graph' = graph /\ Span' = Span /\ JobPolicy' = JobPolicy /\ Runnable' = Runnable
  BY <1>1 DEF compilerVars, Span, JobPolicy, Runnable
<1>3. Running
  BY <1>1 DEF Running
<1>4. WindowsInv'
  BY <1>3, WindowsGrow
<1>5. held' \subseteq {s \in DataRequirements(graph) : s.kind = "candle"}
  BY <1>1, TradedIsRequired DEF RunInv
<1>6. /\ ticks \in Seq(Span) /\ Climbs(ticks) /\ Span \subseteq Int
      /\ DOMAIN ticks = 1..Len(ticks) /\ Len(ticks) \in Nat /\ Len(ticks) > 0
  BY <1>1, SpanFacts DEF RunInv
<1>7. /\ ticks' \in Seq(Span) /\ Len(ticks') = Len(ticks) - 1 /\ DOMAIN ticks' = 1..(Len(ticks) - 1)
      /\ \A i \in 1..(Len(ticks) - 1) : ticks'[i] = ticks[i + 1] /\ i + 1 \in DOMAIN ticks
      /\ now' = ticks[1] /\ 1 \in DOMAIN ticks /\ now' \in Span
  BY <1>1, <1>6
<1>8. Climbs(ticks)'
  <2> SUFFICES ASSUME NEW i \in 1..(Len(ticks) - 1), NEW j \in 1..(Len(ticks) - 1), i < j
               PROVE  ticks'[i] < ticks'[j]
    BY <1>7 DEF Climbs
  <2>1. i + 1 < j + 1 /\ i + 1 \in DOMAIN ticks /\ j + 1 \in DOMAIN ticks
    BY <1>6
  <2> QED BY <1>6, <1>7, <2>1 DEF Climbs
<1>9. \A i \in DOMAIN ticks' : now' < ticks'[i]
  <2> SUFFICES ASSUME NEW i \in 1..(Len(ticks) - 1) PROVE ticks[1] < ticks[i + 1]
    BY <1>7
  <2>1. 1 < i + 1 /\ i + 1 \in DOMAIN ticks
    BY <1>6
  <2> QED BY <1>6, <1>7, <2>1 DEF Climbs
<1>10. Len(accrued') + Len(ticks') <= Cardinality(Span)
  <2>1. accrued \in Seq([lo : Int, hi : Int]) /\ Len(accrued) + Len(ticks) <= Cardinality(Span)
    BY DEF RunInv, WindowsInv
  <2>2. Len(accrued) \in Nat /\ (Len(accrued') = Len(accrued) \/ Len(accrued') = Len(accrued) + 1)
    <3>1. \A w : Len(Append(accrued, w)) = Len(accrued) + 1
      BY <2>1
    <3> QED BY <1>1, <2>1, <3>1
  <2>3. Cardinality(Span) \in Nat
    BY SpanFacts
  <2> QED BY <1>6, <1>7, <2>1, <2>2, <2>3
<1>11. policy # None => DOMAIN policy = DOMAIN StrictV1
  BY DEF RunInv
<1>12. policy = JobPolicy /\ Runnable /\ Running'
  BY <1>1, <1>3 DEF RunInv, Running
<1> QED BY <1>1, <1>2, <1>4, <1>5, <1>7, <1>8, <1>9, <1>10, <1>11, <1>12 DEF RunInv, Running

LEMMA SeqsGrow == ASSUME NEW S, NEW T, S \subseteq T, NEW s \in Seq(S) PROVE s \in Seq(T)
OBVIOUS

\* The ticks a run is to have.
LEMMA BeginRunInv ==
  ASSUME CompileInv, LoadInv, RunInv, BeginTicks
  PROVE  RunInv'
<1> DEFINE S == RunTimes(bundle, job.start, job.end, InitialActions(compiled) # {})
<1>1. /\ ticks' = Ascending(S) /\ progress = "covering" /\ progress' = "ticking"
      /\ UNCHANGED <<job, policy, now, held, accrued>> /\ UNCHANGED compilerVars
  BY DEF BeginTicks
<1>2. /\ ~Running /\ now = None /\ accrued = <<>> /\ held = {} /\ policy = JobPolicy /\ Runnable
  BY <1>1 DEF RunInv, Running
<1>3. S \subseteq Span /\ Span \subseteq Int /\ IsFiniteSet(Span) /\ Cardinality(Span) \in Nat
  BY SpanFacts, ClockTyped DEF LoadInv, Span
<1> HIDE DEF S
<1>4. IsFiniteSet(S) /\ Cardinality(S) <= Cardinality(Span)
  BY <1>3, FS_Subset
<1>5. S \in SUBSET Int
  BY <1>3
<1>6. /\ Ascending(S) \in Seq(S)
      /\ Len(Ascending(S)) = Cardinality(S)
      /\ \A i, j \in DOMAIN Ascending(S) : i < j => Ascending(S)[i] < Ascending(S)[j]
  BY <1>4, <1>5, AscendingLists
<1>7. ticks' \in Seq(Span) /\ Climbs(ticks)' /\ Len(ticks') <= Cardinality(Span)
  <2> DEFINE a == Ascending(S)
  <2>1. ticks' = a /\ a \in Seq(S) /\ Len(a) = Cardinality(S)
    BY <1>1, <1>6
  <2>2. \A i, j \in DOMAIN a : i < j => a[i] < a[j]
    BY <1>6
  <2> HIDE DEF a
  <2>3. a \in Seq(Span)
    <3>1. S \subseteq Span
      BY <1>3
    <3> QED BY <2>1, <3>1, SeqsGrow
  <2>4. Climbs(ticks)'
    BY <2>1, <2>2 DEF Climbs
  <2>5. Len(a) <= Cardinality(Span)
    BY <1>4, <2>1
  <2> QED BY <2>1, <2>3, <2>4, <2>5
<1>8. accrued' = <<>> /\ Len(accrued') = 0 /\ DOMAIN accrued' = {} /\ accrued' \in Seq([lo : Int, hi : Int])
  BY <1>1, <1>2
<1>9. Len(accrued') + Len(ticks') <= Cardinality(Span)
  <2>1. Len(ticks') \in Nat
    BY <1>7
  <2> QED BY <1>3, <1>7, <1>8, <2>1
<1>10. WindowsInv'
  BY <1>8 DEF WindowsInv
<1>11. Span' = Span /\ JobPolicy' = JobPolicy /\ Runnable' = Runnable /\ Running'
  BY <1>1 DEF Span, JobPolicy, Runnable, Running
<1>12. policy # None => DOMAIN policy = DOMAIN StrictV1
  BY DEF RunInv
<1> QED BY <1>1, <1>2, <1>7, <1>9, <1>10, <1>11, <1>12 DEF RunInv

LEMMA RunInvNext == CompileInv /\ LoadInv /\ RunInv /\ [Next]_vars => RunInv'
<1> SUFFICES ASSUME CompileInv, LoadInv, RunInv, [Next]_vars PROVE RunInv'
  OBVIOUS
<1>1. UNCHANGED <<job, graph>>
  BY StepsOutside DEF vars, compilerVars
<1>2. Span' = Span /\ JobPolicy' = JobPolicy /\ Runnable' = Runnable
  BY <1>1 DEF Span, JobPolicy, Runnable
<1>3. ASSUME UNCHANGED <<policy, ticks, now, held, accrued>>,
             progress' \in {"compiling", "loading", "resolving", "covering", "ticking", "ended", "failed", "panicked"},
             progress' = "covering" \/ Running' => progress = "covering" \/ Running,
             Running => Running'
      PROVE  RunInv'
  <2>1. WindowsInv' <=> WindowsInv
    BY <1>3 DEF WindowsInv, OfOneWindow
  <2>2. Climbs(ticks)' <=> Climbs(ticks)
    BY <1>3 DEF Climbs
  <2> QED BY <1>1, <1>2, <1>3, <2>1, <2>2 DEF RunInv
<1>4. CASE UNCHANGED vars
  BY <1>3, <1>4 DEF vars, engineVars, RunInv, Running
<1>5. CASE CompileGraph \/ UseInlineData \/ LoadData \/ LoadSeries \/ LoadEnds
  <2>1. UNCHANGED <<policy, ticks, now, held, accrued>> /\ progress' \in {"compiling", "loading", "resolving"}
        /\ ~Running
    BY <1>5 DEF CompileGraph, UseInlineData, LoadData, LoadSeries, LoadEnds, engineVars, Running
  <2> QED BY <1>3, <2>1 DEF Running
<1>6. CASE GraphRefused \/ NoData \/ LoadFailed \/ PolicyRefused \/ CoverageRefused
  <2>1. UNCHANGED <<policy, ticks, now, held, accrued>> /\ progress' = "failed" /\ ~Running
    BY <1>6 DEF GraphRefused, NoData, LoadFailed, PolicyRefused, CoverageRefused, Fail, engineVars, Running
  <2> QED BY <1>3, <2>1 DEF Running
<1>7. CASE Panic \/ End
  <2>1. UNCHANGED <<policy, ticks, now, held, accrued>> /\ progress' \in {"panicked", "ended"} /\ Running
    BY <1>7 DEF Panic, End, engineVars, Running
  <2> QED BY <1>3, <2>1 DEF Running
<1>8. CASE Terminated
  BY <1>4, <1>8 DEF Terminated
<1>9. CASE Resolve
  <2>1. /\ policy' = JobPolicy /\ Runnable /\ progress' = "covering" /\ progress = "resolving"
        /\ UNCHANGED <<ticks, now, held, accrued>>
    BY <1>9 DEF Resolve
  <2>2. ~Running /\ ~Running'
    BY <2>1 DEF Running
  <2>3. accrued' = <<>> /\ DOMAIN accrued' = {} /\ accrued' \in Seq([lo : Int, hi : Int])
    BY <2>1, <2>2 DEF RunInv
  <2>4. WindowsInv'
    BY <2>3 DEF WindowsInv
  <2>5. policy' # None => DOMAIN policy' = DOMAIN StrictV1
    BY <2>1, PolicyTyped
  <2>6. Climbs(ticks)' <=> Climbs(ticks)
    BY <2>1 DEF Climbs
  <2> QED BY <1>1, <1>2, <2>1, <2>2, <2>4, <2>5, <2>6 DEF RunInv
<1> QED BY <1>4, <1>5, <1>6, <1>7, <1>8, <1>9, TickRunInv, BeginRunInv DEF Next

BacktestInv == SortedInv /\ LoadInv /\ RunInv

LEMMA BacktestInvHolds == Spec => []BacktestInv
<1>1. Init => BacktestInv
  BY CompileInvInit, InitInv, LoadInvInit, RunInvInit DEF Init, CompilerInit, SortedInv, BacktestInv
<1>2. BacktestInv /\ [Next]_vars => BacktestInv'
  BY SortedInvNext, LoadInvNext, RunInvNext DEF SortedInv, BacktestInv
<1> QED BY <1>1, <1>2, PTL DEF Spec

(* Nobody is charged twice or not at all: whatever the distances between the  *)
(* ticks and the rates of a bundle, every rate from an interval before the    *)
(* first tick on is in the window of one tick.                                *)
THEOREM FundingIsCharged == Spec => []FundingPointsOnce
<1>1. BacktestInv => FundingPointsOnce
  <2> SUFFICES ASSUME BacktestInv, accrued # <<>>, NEW s,
                      NEW t \in Within(Times(bundle, s), accrued[1].lo + 1, now)
               PROVE  Cardinality({i \in DOMAIN accrued : t \in FundingPoints(bundle, s, accrued[i])}) = 1
    BY DEF FundingPointsOnce
  <2>1. t \in Int /\ t \in Times(bundle, s)
    BY TimesTyped DEF Within, BacktestInv, LoadInv
  <2>2. accrued[1].lo \in Int
    <3> DEFINE W == [lo : Int, hi : Int]
    <3>1. accrued \in Seq(W)
      BY DEF BacktestInv, RunInv, WindowsInv
    <3>2. accrued[1] \in W
      <4> HIDE DEF W
      <4> QED BY <3>1
    <3> QED BY <3>2
  <2>3. accrued[1].lo < t /\ t <= now
    BY <2>1, <2>2 DEF Within
  <2>4. OfOneWindow(t)
    BY <2>1, <2>3 DEF BacktestInv, RunInv, WindowsInv
  <2>5. \A i \in DOMAIN accrued : t \in FundingPoints(bundle, s, accrued[i]) <=> accrued[i].lo < t /\ t <= accrued[i].hi
    BY <2>1 DEF FundingPoints
  <2>6. PICK i \in DOMAIN accrued : {j \in DOMAIN accrued : t \in FundingPoints(bundle, s, accrued[j])} = {i}
    BY <2>4, <2>5 DEF OfOneWindow
  <2> QED BY <2>6, FS_Singleton
<1> QED BY <1>1, BacktestInvHolds, PTL

(* Whatever is asked for, a backtest stays in its types: it ticks forward and *)
(* within the span, under a whole policy, and values by required series.      *)
THEOREM BacktestTyped == Spec => []TypeOK
<1>1. BacktestInv => TypeOK
  <2> SUFFICES ASSUME BacktestInv PROVE TypeOK
    OBVIOUS
  <2>1. TopoTypeOK
    BY SortOutcome DEF BacktestInv, SortedInv
  <2>2. window # None => window.start <= window.end
    <3> SUFFICES ASSUME window # None PROVE window.start <= window.end
      OBVIOUS
    <3>1. window = LoadWindow /\ compiling = "compiled"
      BY DEF BacktestInv, LoadInv
    <3>2. Sound(graph) /\ compiled.lookback = LookbackBars(graph)
      BY <3>1, JobGraph DEF BacktestInv, SortedInv, CompileInv, Past, Emitted
    <3>3. compiled.lookback \in Nat
      BY <3>2, LookbackNat
    <3>4. job.start \in Int /\ job.end \in Int /\ job.start <= job.end /\ job.step \in Nat
      BY SpanFacts DEF BacktestInv, SortedInv
    <3>5. compiled.lookback * job.step \in Nat
      BY <3>3, <3>4
    <3> QED BY <3>1, <3>4, <3>5 DEF LoadWindow, WarmupStart
  <2>3. \A i \in 1..(Len(ticks) - 1) : ticks[i] < ticks[i + 1]
    <3>1. ticks \in Seq(Span) /\ Climbs(ticks)
      BY DEF BacktestInv, RunInv
    <3>2. \A i \in 1..(Len(ticks) - 1) : i \in DOMAIN ticks /\ i + 1 \in DOMAIN ticks /\ i < i + 1
      BY <3>1
    <3> QED BY <3>1, <3>2 DEF Climbs
  <2>4. now # None /\ ticks # <<>> => now < Head(ticks)
    <3>1. ticks \in Seq(Span)
      BY DEF BacktestInv, RunInv
    <3>2. ticks # <<>> => 1 \in DOMAIN ticks /\ Head(ticks) = ticks[1]
      BY <3>1
    <3> QED BY <3>2 DEF BacktestInv, RunInv
  <2>5. Len(accrued) <= Cardinality(job.start..job.end)
    <3>1. ticks \in Seq(Span) /\ accrued \in Seq([lo : Int, hi : Int]) /\ Len(accrued) + Len(ticks) <= Cardinality(Span)
      BY DEF BacktestInv, RunInv, WindowsInv
    <3>2. Len(ticks) \in Nat /\ Len(accrued) \in Nat /\ Cardinality(Span) \in Nat
      BY <3>1, SpanFacts DEF BacktestInv, SortedInv
    <3> QED BY <3>1, <3>2 DEF Span
  <2> QED BY <2>1, <2>2, <2>3, <2>4, <2>5 DEF TypeOK, BacktestInv, SortedInv, CompileInv, LoadInv, RunInv
<1> QED BY <1>1, BacktestInvHolds, PTL

-----------------------------------------------------------------------------
(* Runs under the `fail` policy. The clock is not part of the state of a run: *)
(* what is left of it is in the ticks to come.                                *)

AllTicks == RunTimes(bundle, job.start, job.end, InitialActions(compiled) # {})

WholeInv ==
  progress \in {"ticking", "ended"} =>
    /\ policy.missing_required = "fail" => IsCovered
    /\ {t \in AllTicks : now = None \/ now < t} \subseteq Range(ticks)

LEMMA WholeInvNext == CompileInv /\ LoadInv /\ RunInv /\ WholeInv /\ [Next]_vars => WholeInv'
<1> SUFFICES ASSUME CompileInv, LoadInv, RunInv, WholeInv, [Next]_vars, progress' \in {"ticking", "ended"}
             PROVE  WholeInv'
  BY DEF WholeInv
<1>1. ASSUME progress \in {"ticking", "ended"},
             UNCHANGED <<job, policy, compiled, bundle, ticks, now>>
      PROVE  WholeInv'
  BY <1>1 DEF WholeInv, AllTicks, IsCovered, CandlesRequired
<1>2. CASE UNCHANGED vars
  BY <1>1, <1>2 DEF vars, engineVars, compilerVars, loaderVars
<1>3. CASE End \/ Terminated
  <2>1. progress \in {"ticking", "ended"} /\ UNCHANGED <<job, policy, compiled, bundle, ticks, now>>
    BY <1>3 DEF End, Terminated, vars, engineVars, compilerVars, loaderVars
  <2> QED BY <1>1, <2>1
<1>4. CASE BeginTicks
  <2>1. /\ ticks' = Ascending(AllTicks) /\ UNCHANGED <<job, policy, compiled, bundle, now>>
        /\ policy.missing_required = "fail" => IsCovered
    BY <1>4 DEF BeginTicks, AllTicks, compilerVars, loaderVars
  <2>2. AllTicks \subseteq Span /\ Span \subseteq Int /\ IsFiniteSet(Span)
    BY SpanFacts, ClockTyped DEF LoadInv, Span, AllTicks
  <2>3. AllTicks \in SUBSET Int /\ IsFiniteSet(AllTicks)
    BY <2>2, FS_Subset
  <2>4. AllTicks \subseteq Range(ticks')
    <3> DEFINE S == AllTicks
    <3>1. S \in SUBSET Int /\ IsFiniteSet(S)
      BY <2>3
    <3>2. \A x \in S : \E i \in DOMAIN Ascending(S) : Ascending(S)[i] = x
      <4> HIDE DEF S
      <4> QED BY <3>1, AscendingLists
    <3> QED BY <2>1, <3>2 DEF Range
  <2>5. AllTicks' = AllTicks /\ IsCovered' = IsCovered
    BY <2>1 DEF AllTicks, IsCovered, CandlesRequired
  <2> QED BY <2>1, <2>4, <2>5 DEF WholeInv
<1>5. CASE \E filled \in SUBSET Actions : Tick(filled)
  <2>1. /\ progress = "ticking" /\ ticks # <<>> /\ now' = Head(ticks) /\ ticks' = Tail(ticks)
        /\ UNCHANGED <<job, policy, compiled, bundle>>
    BY <1>5 DEF Tick, compilerVars, loaderVars
  <2>2. AllTicks' = AllTicks /\ IsCovered' = IsCovered
    BY <2>1 DEF AllTicks, IsCovered, CandlesRequired
  <2>3. ticks \in Seq(Span) /\ Span \subseteq Int /\ AllTicks \subseteq Span
    BY SpanFacts, ClockTyped DEF RunInv, LoadInv, Span, AllTicks
  <2>4. Head(ticks) \in Int /\ (now = None \/ (now \in Int /\ now < Head(ticks)))
    <3>1. 1 \in DOMAIN ticks /\ Head(ticks) = ticks[1] /\ ticks[1] \in Span
      BY <2>1, <2>3
    <3> QED BY <2>3, <3>1 DEF RunInv
  <2>5. ASSUME NEW t \in AllTicks, Head(ticks) < t PROVE t \in Range(Tail(ticks))
    <3>1. t \in Range(ticks)
      BY <2>1, <2>3, <2>4, <2>5 DEF WholeInv
    <3>2. PICK i \in DOMAIN ticks : ticks[i] = t
      BY <3>1 DEF Range
    <3>3. i \in 1..Len(ticks) /\ i # 1
      BY <2>1, <2>3, <2>4, <2>5, <3>2
    <3>4. i - 1 \in DOMAIN Tail(ticks) /\ Tail(ticks)[i - 1] = t
      BY <2>1, <2>3, <3>2, <3>3
    <3> QED BY <3>4 DEF Range
  <2>6. now' # None
    BY <2>1, <2>4, NoneAssumption
  <2> QED BY <2>1, <2>2, <2>5, <2>6 DEF WholeInv
<1> QED
  <2>1. ~(CompileGraph \/ GraphRefused \/ UseInlineData \/ NoData \/ LoadData \/ LoadSeries \/ LoadFailed
          \/ LoadEnds \/ PolicyRefused \/ Resolve \/ CoverageRefused \/ Panic)
    BY DEF CompileGraph, GraphRefused, UseInlineData, NoData, LoadData, LoadSeries, LoadFailed, LoadEnds,
           PolicyRefused, Resolve, CoverageRefused, Panic, Fail
  <2> QED BY <1>2, <1>3, <1>4, <1>5, <2>1 DEF Next

\* Two times on a grid are a whole step apart.
LEMMA StepsApart ==
  ASSUME NEW n \in Nat, n > 0, NEW a \in Int, NEW b \in Int, a < b, a % n = 0, b % n = 0
  PROVE  b - a >= n
<1> DEFINE p == a \div n
           q == b \div n
<1>1. p \in Int /\ q \in Int /\ a = n * p /\ b = n * q
  BY Z3
<1> HIDE DEF p, q
<1>2. p < q
  <2> SUFFICES ASSUME q <= p PROVE FALSE
    BY <1>1
  <2>1. PICK d \in Nat : p = q + d
    BY <1>1
  <2>2. n * p = n * q + n * d /\ n * d >= 0
    BY <1>1, <2>1, Z3
  <2> QED BY <1>1, <2>2
<1>3. PICK d \in Nat : q = p + 1 + d
  <2>1. q - p - 1 \in Nat /\ q = p + 1 + (q - p - 1)
    BY <1>1, <1>2
  <2> QED BY <2>1
<1>4. n * q = n * p + n + n * d /\ n * d >= 0
  BY <1>1, <1>3, Z3
<1> QED BY <1>1, <1>4

\* Times on a grid that leave no gap and reach within a step of both ends are
\* all of the grid.
LEMMA NoGapIsWhole ==
  ASSUME NEW start \in Int, NEW end \in Int, NEW step \in Nat, step > 0,
         NEW T \in SUBSET (start..end), Covered(T, start, end, step),
         \A t \in T : (t - start) % step = 0,
         NEW x \in start..end, (x - start) % step = 0
  PROVE  x \in T
<1> DEFINE lo == Min(T)
           hi == Max(T)
           before == {t \in T : t <= x}
           after == {t \in T : x <= t}
           u == Max(before)
           v == Min(after)
<1>1. T # {} /\ T \in SUBSET Int /\ IsFiniteSet(T) /\ before \in SUBSET Int /\ after \in SUBSET Int
      /\ IsFiniteSet(before) /\ IsFiniteSet(after) /\ x \in Int
  <2>1. IsFiniteSet(start..end)
    BY FS_Interval
  <2>2. IsFiniteSet(T) /\ before \subseteq T /\ after \subseteq T
    BY <2>1, FS_Subset
  <2>3. IsFiniteSet(before) /\ IsFiniteSet(after)
    <3> HIDE DEF before, after
    <3> QED BY <2>2, FS_Subset
  <2>4. T # {}
    BY DEF Covered
  <2>5. T \in SUBSET Int /\ x \in Int
    OBVIOUS
  <2>6. before \in SUBSET Int /\ after \in SUBSET Int
    BY <2>5
  <2> HIDE DEF before, after
  <2> QED BY <2>2, <2>3, <2>4, <2>5, <2>6
<1>2. /\ lo \in T /\ hi \in T /\ (lo - start) \div step + (end - hi) \div step = 0
      /\ ~InteriorGap(T, step)
  BY <1>1, Extremes DEF Covered
<1>3. before # {} => u \in before /\ \A t \in before : t <= u
  <2> HIDE DEF before
  <2> QED BY <1>1, Extremes
<1>4. after # {} => v \in after /\ \A t \in after : v <= t
  <2> HIDE DEF after
  <2> QED BY <1>1, Extremes
<1> HIDE DEF lo, hi, u, v
<1>5. lo \in start..end /\ hi \in start..end /\ lo \in Int /\ hi \in Int
  BY <1>2
<1>6. /\ lo - start \in Nat /\ end - hi \in Nat
      /\ (lo - start) \div step = 0 /\ (end - hi) \div step = 0
  <2>1. lo - start \in Nat /\ end - hi \in Nat
    BY <1>5
  <2>2. \A d \in Nat : d \div step \in Nat
    BY Z3
  <2> QED BY <1>2, <2>1, <2>2
<1>7. lo - start < step /\ end - hi < step
  <2>1. \A d \in Nat : d \div step = 0 => d < step
    BY Z3
  <2> QED BY <1>6, <2>1
<1>8. lo = start
  <2>1. \A d \in Nat : d < step /\ d % step = 0 => d = 0
    BY Z3
  <2>2. (lo - start) % step = 0
    BY <1>2
  <2> QED BY <1>5, <1>6, <1>7, <2>1, <2>2
<1>9. before # {}
  BY <1>2, <1>5, <1>8
<1>10. after # {}
  <2> SUFFICES ASSUME hi < x PROVE FALSE
    BY <1>1, <1>2, <1>5
  <2>1. hi - start < x - start /\ (hi - start) % step = 0
    BY <1>1, <1>2, <1>5
  <2>2. (x - start) - (hi - start) >= step
    BY <1>1, <1>5, <2>1, StepsApart
  <2> QED BY <1>1, <1>5, <1>7, <2>2
<1>11. u \in T /\ v \in T /\ u <= x /\ x <= v /\ u \in Int /\ v \in Int
  BY <1>1, <1>3, <1>4, <1>9, <1>10
<1>12. ~\E w \in T : u < w /\ w < v
  <2> SUFFICES ASSUME NEW w \in T, u < w, w < v PROVE FALSE
    OBVIOUS
  <2>1. w \in Int /\ (w <= x \/ x <= w)
    BY <1>1
  <2>2. w \in before \/ w \in after
    BY <2>1
  <2>3. w <= u \/ v <= w
    BY <1>3, <1>4, <1>9, <1>10, <2>2
  <2> QED BY <1>11, <2>1, <2>3
<1> SUFFICES ASSUME u < x, x < v PROVE FALSE
  BY <1>1, <1>11
<1>13. (u - start) % step = 0 /\ (v - start) % step = 0
  BY <1>11
<1>14. (x - start) - (u - start) >= step
  BY <1>1, <1>11, <1>13, StepsApart
<1>15. (v - start) - (x - start) >= step
  BY <1>1, <1>11, <1>13, StepsApart
<1>16. v - u >= 2 * step
  BY <1>1, <1>11, <1>14, <1>15
<1> QED BY <1>2, <1>11, <1>12, <1>16 DEF InteriorGap

(* A run under the `fail` policy is whole: on data on its grid it has each    *)
(* required bar from its start to its end and has a tick at each of them.     *)
THEOREM FailPolicyHolds == Spec => []FailPolicyRunsWhole
<1>1. Init => WholeInv
  BY DEF Init, WholeInv
<1>2. BacktestInv /\ WholeInv /\ [Next]_vars => WholeInv'
  BY WholeInvNext DEF BacktestInv, SortedInv
<1>3. BacktestInv /\ WholeInv => FailPolicyRunsWhole
  <2> SUFFICES ASSUME BacktestInv, WholeInv, progress \in {"ticking", "ended"},
                      policy.missing_required = "fail",
                      \A s \in CandlesRequired : Within(Times(bundle, s), job.start, job.end) \subseteq Grid(job.start)
               PROVE  /\ \A s \in CandlesRequired : Grid(job.start) \subseteq Times(bundle, s)
                      /\ CandlesRequired # {} =>
                           {t \in Grid(job.start) : now = None \/ now < t} \subseteq Range(ticks)
    BY DEF FailPolicyRunsWhole
  <2>1. IsCovered /\ Runnable /\ job.start \in Int /\ job.end \in Int /\ job.step \in Nat /\ job.step > 0
    BY SpanFacts DEF BacktestInv, SortedInv, RunInv, Running, WholeInv, Runnable
  <2>2. ASSUME NEW s \in CandlesRequired PROVE Grid(job.start) \subseteq Within(Times(bundle, s), job.start, job.end)
    <3> DEFINE T == Within(Times(bundle, s), job.start, job.end)
    <3>1. Covered(T, job.start, job.end, job.step)
      BY <2>1 DEF IsCovered, CheckRequiredCoverage
    <3>2. Times(bundle, s) \subseteq Int
      BY TimesTyped DEF BacktestInv, LoadInv
    <3>3. T \in SUBSET (job.start..job.end)
      BY <2>1, <3>2 DEF Within
    <3>4. \A t \in T : (t - job.start) % job.step = 0
      BY DEF Grid
    <3>5. ASSUME NEW x \in Grid(job.start) PROVE x \in T
      <4>1. x \in job.start..job.end /\ (x - job.start) % job.step = 0
        BY DEF Grid
      <4> HIDE DEF T
      <4> QED BY <2>1, <3>1, <3>3, <3>4, <4>1, NoGapIsWhole
    <3> QED BY <3>5
  <2>3. ASSUME NEW s \in CandlesRequired PROVE Grid(job.start) \subseteq AllTicks
    <3> SUFFICES ASSUME NEW t \in Grid(job.start) PROVE t \in AllTicks
      OBVIOUS
    <3>1. t \in Times(bundle, s) /\ job.start <= t /\ t <= job.end /\ s.kind = "candle"
      BY <2>2, <2>3 DEF Within, CandlesRequired
    <3>2. PICK k \in DOMAIN bundle : bundle[k].series = s
      BY <3>1 DEF Times
    <3>3. t \in TimesOf(bundle, {"candle"})
      BY <3>1, <3>2 DEF TimesOf
    <3>4. t \in Clock(bundle, job.start, job.end)
      BY <3>1, <3>3 DEF Clock, Within
    <3> QED BY <3>4 DEF AllTicks, RunTimes
  <2> QED BY <2>2, <2>3 DEF Within, WholeInv
<1> QED BY <1>1, <1>2, <1>3, BacktestInvHolds, PTL DEF Spec

-----------------------------------------------------------------------------
(* A series is loaded whole: what is read and what is still to read add up to *)
(* what its files have in the window.                                         *)

HasRows(some) == IsFiniteSet(some) /\ \A f \in some : f.rows \in Rows

\* Where a time is in some files.
PlacesIn(t, some) == UNION {{f} \X {i \in DOMAIN f.rows : f.rows[i] = t} : f \in some}

LEMMA OnePlaceIn ==
  ASSUME NEW f, f.rows \in Rows, NEW t
  PROVE  /\ IsFiniteSet({f} \X {i \in DOMAIN f.rows : f.rows[i] = t})
         /\ Cardinality({f} \X {i \in DOMAIN f.rows : f.rows[i] = t}) = Occurs(t, f.rows)
<1> DEFINE P == {i \in DOMAIN f.rows : f.rows[i] = t}
           n == Len(f.rows)
<1>1. n \in Nat /\ DOMAIN f.rows = 1..n
  BY DEF Rows
<1>2. IsFiniteSet(1..n)
  BY <1>1, FS_Interval
<1>3. P \subseteq 1..n
  BY <1>1
<1>4. IsFiniteSet({f}) /\ Cardinality({f}) = 1
  BY FS_Singleton
<1>5. Occurs(t, f.rows) = Cardinality(P)
  BY DEF Occurs
<1> HIDE DEF P
<1>6. IsFiniteSet(P)
  BY <1>2, <1>3, FS_Subset
<1>7. Cardinality(P) \in Nat
  BY <1>6, FS_CardinalityType
<1>8. IsFiniteSet({f} \X P) /\ Cardinality({f} \X P) = 1 * Cardinality(P)
  BY <1>4, <1>6, FS_Product
<1>9. IsFiniteSet({f} \X P) /\ Cardinality({f} \X P) = Occurs(t, f.rows)
  BY <1>5, <1>7, <1>8
<1> QED BY <1>9 DEF P

LEMMA PlacesInFinite ==
  ASSUME NEW some, HasRows(some), NEW t
  PROVE  IsFiniteSet(PlacesIn(t, some)) /\ OccursIn(t, some) = Cardinality(PlacesIn(t, some)) /\ OccursIn(t, some) \in Nat
<1> DEFINE one == [f \in some |-> {f} \X {i \in DOMAIN f.rows : f.rows[i] = t}]
           all == {{f} \X {i \in DOMAIN f.rows : f.rows[i] = t} : f \in some}
<1>1. IsFiniteSet(all)
  <2>1. one \in [some -> all] /\ \A y \in all : \E f \in some : one[f] = y
    OBVIOUS
  <2>2. IsFiniteSet(some)
    BY DEF HasRows
  <2> HIDE DEF one, all
  <2> QED BY <2>1, <2>2, ImageFinite
<1>2. \A T \in all : IsFiniteSet(T)
  <2> SUFFICES ASSUME NEW f \in some PROVE IsFiniteSet({f} \X {i \in DOMAIN f.rows : f.rows[i] = t})
    OBVIOUS
  <2>1. f.rows \in Rows
    BY DEF HasRows
  <2> QED BY <2>1, OnePlaceIn
<1>3. PlacesIn(t, some) = UNION all
  BY DEF PlacesIn
<1>4. IsFiniteSet(UNION all)
  <2> HIDE DEF all
  <2> QED BY <1>1, <1>2, FS_UNION
<1>5. OccursIn(t, some) = Cardinality(PlacesIn(t, some))
  BY DEF OccursIn, PlacesIn
<1> QED BY <1>3, <1>4, <1>5, FS_CardinalityType

LEMMA OccursInNone == \A t : OccursIn(t, {}) = 0
<1>1. \A t : PlacesIn(t, {}) = {}
  BY DEF PlacesIn
<1>2. \A t : OccursIn(t, {}) = Cardinality(PlacesIn(t, {}))
  BY DEF OccursIn, PlacesIn
<1> QED BY <1>1, <1>2, FS_EmptySet

\* A file less.
LEMMA OccursInOneLess ==
  ASSUME NEW some, HasRows(some), NEW f \in some, NEW t
  PROVE  /\ HasRows(some \ {f})
         /\ OccursIn(t, some) = Occurs(t, f.rows) + OccursIn(t, some \ {f})
<1> DEFINE A == {f} \X {i \in DOMAIN f.rows : f.rows[i] = t}
           B == PlacesIn(t, some \ {f})
<1>1. HasRows(some \ {f}) /\ f.rows \in Rows
  BY FS_RemoveElement DEF HasRows
<1>2. PlacesIn(t, some) = A \cup B
  BY DEF PlacesIn
<1>3. A \cap B = {}
  BY DEF PlacesIn
<1>4. IsFiniteSet(A) /\ Cardinality(A) = Occurs(t, f.rows)
  BY <1>1, OnePlaceIn
<1>5. IsFiniteSet(B) /\ OccursIn(t, some \ {f}) = Cardinality(B)
  BY <1>1, PlacesInFinite
<1>6. OccursIn(t, some) = Cardinality(PlacesIn(t, some))
  BY PlacesInFinite
<1> HIDE DEF A, B
<1>7. Cardinality(A \cup B) = Cardinality(A) + Cardinality(B) - Cardinality({})
  BY <1>3, <1>4, <1>5, FS_Union
<1>8. Cardinality(A) \in Nat /\ Cardinality(B) \in Nat /\ Cardinality({}) = 0
  BY <1>4, <1>5, FS_CardinalityType, FS_EmptySet
<1> QED BY <1>1, <1>2, <1>4, <1>5, <1>6, <1>7, <1>8

\* Files that do not have a time need not be read for it.
LEMMA OccursInThoseWithIt ==
  ASSUME NEW some, NEW less \in SUBSET some, NEW t,
         \A f \in some \ less : \A i \in DOMAIN f.rows : f.rows[i] # t
  PROVE  OccursIn(t, less) = OccursIn(t, some)
<1>1. PlacesIn(t, less) = PlacesIn(t, some)
  <2>1. ASSUME NEW p \in PlacesIn(t, some) PROVE p \in PlacesIn(t, less)
    <3>1. PICK f \in some : p \in {f} \X {i \in DOMAIN f.rows : f.rows[i] = t}
      BY DEF PlacesIn
    <3>2. f \in less
      BY <3>1
    <3> QED BY <3>1, <3>2 DEF PlacesIn
  <2> QED BY <2>1 DEF PlacesIn
<1> QED BY <1>1 DEF OccursIn, PlacesIn

OfKind(list, kind) == \A t \in Range(list) : t.kind = kind

\* What is to load is loaded once.
LEMMA ToLoadOnce == \A required : Once(ToLoad(required))
<1> SUFFICES ASSUME NEW required PROVE Once(ToLoad(required))
  OBVIOUS
<1> DEFINE S == Range(SeriesOrder)
           c == InOrder(required, "candle")
           fu == InOrder(required, "funding")
           ga == InOrder(required, "gas")
           yi == InOrder(required, "yield")
           L == {Series("liquidity", s.venue, s.symbol) : s \in S}
           q == [k \in DOMAIN c |-> Series("liquidity", c[k].venue, c[k].symbol)]
           T == S \cup L
<1>1. SeriesOrder \in Seq(S) /\ Once(SeriesOrder) /\ Range(SeriesOrder) = S
  BY LoaderAssumption DEF Once
<1>2. ASSUME NEW kind
      PROVE  InOrder(required, kind) \in Seq(S) /\ Once(InOrder(required, kind)) /\ OfKind(InOrder(required, kind), kind)
  <2> DEFINE keep == {s \in required : s.kind = kind}
  <2>1. Those(SeriesOrder, keep) \in Seq(S \cap keep) /\ Once(Those(SeriesOrder, keep))
        /\ Range(Those(SeriesOrder, keep)) = S \cap keep
    <3> HIDE DEF keep, S
    <3> QED BY <1>1, ThoseAreKept, ThoseOnce, ThoseRange
  <2> QED BY <2>1 DEF InOrder, OfKind
<1>3. /\ q \in Seq(L) /\ OfKind(q, "liquidity") /\ Once(q)
  <2>1. c \in Seq(S) /\ Once(c) /\ OfKind(c, "candle")
    BY <1>2
  <2>2. \A s \in S : s = Series(s.kind, s.venue, s.symbol)
    BY LoaderAssumption DEF Range
  <2> HIDE DEF c, S
  <2>3. DOMAIN c = 1..Len(c) /\ Len(c) \in Nat /\ (\A k \in DOMAIN c : c[k] \in S) /\ DOMAIN q = DOMAIN c
    BY <2>1
  <2>4. \A k \in DOMAIN c : c[k].kind = "candle"
    BY <2>1 DEF OfKind, Range
  <2>5. ASSUME NEW i \in DOMAIN c, NEW j \in DOMAIN c, q[i] = q[j] PROVE i = j
    <3>1. c[i].venue = c[j].venue /\ c[i].symbol = c[j].symbol
      BY <2>5 DEF Series
    <3>2. c[i] = c[j]
      BY <2>2, <2>3, <2>4, <3>1
    <3> QED BY <2>1, <3>2 DEF Once
  <2>6. q \in Seq(L)
    BY <2>3
  <2>7. OfKind(q, "liquidity")
    BY DEF OfKind, Range, Series
  <2> QED BY <2>3, <2>5, <2>6, <2>7 DEF Once
<1>4. /\ c \in Seq(T) /\ fu \in Seq(T) /\ ga \in Seq(T) /\ yi \in Seq(T) /\ q \in Seq(T)
      /\ Once(c) /\ Once(fu) /\ Once(ga) /\ Once(yi) /\ Once(q)
      /\ OfKind(c, "candle") /\ OfKind(fu, "funding") /\ OfKind(ga, "gas") /\ OfKind(yi, "yield") /\ OfKind(q, "liquidity")
  BY <1>2, <1>3
<1>5. ToLoad(required) = c \o fu \o ga \o yi \o q
  BY DEF ToLoad
<1> HIDE DEF c, fu, ga, yi, q, T
<1>6. /\ c \o fu \in Seq(T) /\ c \o fu \o ga \in Seq(T) /\ c \o fu \o ga \o yi \in Seq(T)
      /\ c \o fu \o ga \o yi \o q \in Seq(T)
  BY <1>4
<1>7. ASSUME NEW t PROVE Occurs(t, c \o fu \o ga \o yi \o q) <= 1
  <2>1. /\ Occurs(t, c \o fu) = Occurs(t, c) + Occurs(t, fu)
        /\ Occurs(t, c \o fu \o ga) = Occurs(t, c \o fu) + Occurs(t, ga)
        /\ Occurs(t, c \o fu \o ga \o yi) = Occurs(t, c \o fu \o ga) + Occurs(t, yi)
        /\ Occurs(t, c \o fu \o ga \o yi \o q) = Occurs(t, c \o fu \o ga \o yi) + Occurs(t, q)
    BY <1>4, <1>6, OccursInBoth
  <2>2. ASSUME NEW list, list \in Seq(T), Once(list), NEW kind, OfKind(list, kind)
        PROVE  Occurs(t, list) \in {0, 1} /\ (t.kind # kind => Occurs(t, list) = 0)
    <3>1. Occurs(t, list) \in Nat /\ (Occurs(t, list) = 0 <=> t \notin Range(list))
      BY <2>2, OccursCounts
    <3>2. Occurs(t, list) <= 1
      BY <2>2, OnceOccurs
    <3>3. t.kind # kind => t \notin Range(list)
      BY <2>2 DEF OfKind
    <3> QED BY <3>1, <3>2, <3>3
  <2>3. /\ Occurs(t, c) \in {0, 1} /\ (t.kind # "candle" => Occurs(t, c) = 0)
        /\ Occurs(t, fu) \in {0, 1} /\ (t.kind # "funding" => Occurs(t, fu) = 0)
        /\ Occurs(t, ga) \in {0, 1} /\ (t.kind # "gas" => Occurs(t, ga) = 0)
        /\ Occurs(t, yi) \in {0, 1} /\ (t.kind # "yield" => Occurs(t, yi) = 0)
        /\ Occurs(t, q) \in {0, 1} /\ (t.kind # "liquidity" => Occurs(t, q) = 0)
    BY <1>4, <2>2
  <2> QED BY <2>1, <2>3
<1> QED BY <1>5, <1>6, <1>7, OnceOccurs

LEMMA DaysFollow == ASSUME NEW a \in Int, NEW b \in Int, a <= b PROVE Day(a) <= Day(b)
<1> DEFINE n == DayLength
           p == a \div n
           q == b \div n
           r == a % n
           u == b % n
<1>1. n \in Nat /\ n > 0
  BY LoaderAssumption
<1>2. p \in Int /\ q \in Int /\ a = n * p + r /\ b = n * q + u /\ r \in Int /\ u \in Int /\ 0 <= r /\ u < n
  <2> HIDE DEF n
  <2> QED BY <1>1, Z3
<1>3. Day(a) = p /\ Day(b) = q
  BY DEF Day
<1> HIDE DEF n, p, q, r, u
<1> SUFFICES ASSUME q < p PROVE FALSE
  BY <1>2, <1>3
<1>4. PICK d \in Nat : p = q + 1 + d
  <2>1. p - q - 1 \in Nat /\ p = q + 1 + (p - q - 1)
    BY <1>2
  <2> QED BY <2>1
<1>5. n * p = n * q + n + n * d /\ n * d >= 0 /\ n * q \in Int /\ n * d \in Int
  BY <1>1, <1>2, <1>4, Z3
<1> QED BY <1>1, <1>2, <1>5

LEMMA WindowTyped ==
  ASSUME CompileInv, LoadInv, loading # "off"
  PROVE  window.start \in Int /\ window.end \in Int
<1>1. window = LoadWindow /\ compiling = "compiled"
  BY DEF LoadInv
<1>2. Sound(graph) /\ compiled.lookback = LookbackBars(graph)
  BY <1>1, JobGraph DEF CompileInv, Past, Emitted
<1>3. compiled.lookback \in Nat
  BY <1>2, LookbackNat
<1>4. job.start \in Int /\ job.end \in Int /\ job.step \in Nat
  BY SpanFacts
<1>5. compiled.lookback * job.step \in Nat
  BY <1>3, <1>4
<1> QED BY <1>1, <1>4, <1>5 DEF LoadWindow, WarmupStart

\* How often some files have a time in the window.
Held(t, some) == IF InWindow(t) THEN OccursIn(t, some) ELSE 0

SeriesWhole(b) ==
  /\ \A i, j \in DOMAIN b.rows : i < j => b.rows[i] <= b.rows[j]
  /\ \A t \in Int : Occurs(t, b.rows) = Held(t, FilesOf(b.series) \ lost)

SeriesInv ==
  /\ progress = "compiling" => bundle = <<>> /\ lost = {}
  /\ loading \in {"listing", "reading"} =>
       /\ Once(wanted)
       /\ \A k \in DOMAIN bundle, i \in DOMAIN wanted : bundle[k].series # wanted[i]
       /\ \A i \in DOMAIN wanted : i # 1 \/ loading = "listing" => FilesOf(wanted[i]) \cap lost = {}
  /\ loading = "reading" =>
       \A t \in Int : Occurs(t, rows) + Held(t, files) = Held(t, FilesOf(Head(wanted)) \ lost)
  /\ loading # "off" => \A k \in DOMAIN bundle : SeriesWhole(bundle[k])

\* What the listing leaves out by its name has no row of the window.
LEMMA ListSeriesInv ==
  ASSUME CompileInv, LoadInv, SeriesInv, ListFiles, progress' # "compiling"
  PROVE  SeriesInv'
<1> DEFINE h == Head(wanted)
<1>1. PICK missed \in SUBSET FilesOf(h) :
        /\ lost' = lost \cup missed
        /\ files' = {f \in FilesOf(h) \ missed : MayHold(f)}
  BY DEF ListFiles
<1>2. /\ loading = "listing" /\ loading' = "reading" /\ UNCHANGED <<store, window, wanted, rows, bundle>>
      /\ wanted # <<>> /\ wanted \in Seq(Range(wanted)) /\ rows = <<>> /\ job.store # None
  BY DEF ListFiles, LoadInv
<1>3. \A s : FilesOf(s)' = FilesOf(s)
  BY <1>2 DEF FilesOf
<1>4. 1 \in DOMAIN wanted /\ h = wanted[1]
  BY <1>2
<1>5. FilesOf(h) \cap lost = {}
  BY <1>2, <1>4 DEF SeriesInv
<1>6. \A s : s # h => FilesOf(s) \cap missed = {}
  BY <1>1, <1>2, StoreTyped
<1>7. ASSUME NEW i \in DOMAIN wanted, i # 1 PROVE FilesOf(wanted[i]) \cap lost' = {}
  <2>1. wanted[i] # h
    BY <1>2, <1>4, <1>7 DEF SeriesInv, Once
  <2>2. FilesOf(wanted[i]) \cap lost = {}
    BY <1>2, <1>7 DEF SeriesInv
  <2> QED BY <1>1, <1>6, <2>1, <2>2
<1>8. ASSUME NEW k \in DOMAIN bundle PROVE SeriesWhole(bundle[k])'
  <2>1. bundle[k].series # h /\ SeriesWhole(bundle[k])
    BY <1>2, <1>4, <1>8 DEF SeriesInv
  <2>2. FilesOf(bundle[k].series) \ lost' = FilesOf(bundle[k].series) \ lost
    BY <1>1, <1>6, <2>1
  <2> QED BY <1>2, <1>3, <2>1, <2>2 DEF SeriesWhole, Held, InWindow
<1>9. ASSUME NEW t \in Int PROVE Occurs(t, rows') + Held(t, files') = Held(t, FilesOf(h) \ lost')
  <2>1. Occurs(t, rows') = 0
    BY <1>2, OccursInEmpty
  <2>2. FilesOf(h) \ lost' = FilesOf(h) \ missed
    BY <1>1, <1>5
  <2>3. CASE InWindow(t)
    <3>1. ASSUME NEW f \in (FilesOf(h) \ missed) \ files', NEW i \in DOMAIN f.rows, f.rows[i] = t PROVE FALSE
      <4>1. ~MayHold(f) /\ f \in FilesOf(h)
        BY <1>1, <3>1
      <4>2. f.date # None /\ ~(Day(window.start) <= f.date /\ f.date <= Day(window.end))
        BY <4>1 DEF MayHold
      <4>3. Day(t) = f.date
        BY <1>2, <3>1, <4>1, <4>2, StoreTyped
      <4>4. window.start \in Int /\ window.end \in Int
        BY <1>2, WindowTyped
      <4>5. Day(window.start) <= Day(t) /\ Day(t) <= Day(window.end)
        BY <2>3, <4>4, DaysFollow DEF InWindow
      <4> QED BY <4>2, <4>3, <4>5
    <3> DEFINE some == FilesOf(h) \ missed
               less == files'
    <3>2. less \in SUBSET some /\ \A f \in some \ less : \A i \in DOMAIN f.rows : f.rows[i] # t
      BY <1>1, <3>1
    <3> HIDE DEF some, less
    <3>3. OccursIn(t, less) = OccursIn(t, some)
      BY <3>2, OccursInThoseWithIt
    <3>4. OccursIn(t, less) \in Nat
      <4>1. HasRows(some)
        <5>1. IsFiniteSet(FilesOf(h)) /\ \A f \in FilesOf(h) : f.rows \in Rows
          BY <1>2, StoreTyped
        <5>2. some \subseteq FilesOf(h)
          BY DEF some
        <5>3. IsFiniteSet(some)
          BY <5>1, <5>2, FS_Subset
        <5> QED BY <5>1, <5>2, <5>3 DEF HasRows
      <4> QED BY <3>3, <4>1, PlacesInFinite
    <3> QED BY <2>1, <2>2, <2>3, <3>3, <3>4 DEF Held, some, less
  <2>4. CASE ~InWindow(t)
    BY <2>1, <2>4 DEF Held
  <2> QED BY <2>3, <2>4
<1>10. \A t \in Int : Held(t, files') = Held(t, files)' /\ Held(t, FilesOf(h) \ lost') = Held(t, FilesOf(h) \ lost)'
  BY <1>2, <1>3 DEF Held, InWindow
<1> QED BY <1>2, <1>3, <1>7, <1>8, <1>9, <1>10 DEF SeriesInv

LEMMA ReadSeriesInv ==
  ASSUME CompileInv, LoadInv, SeriesInv, NEW f \in files, ReadFile(f), progress' # "compiling"
  PROVE  SeriesInv'
<1>1. /\ loading = "reading" /\ rows' = rows \o Windowed(f.rows) /\ files' = files \ {f}
      /\ UNCHANGED <<store, window, loading, wanted, lost, bundle>>
  BY DEF ReadFile
<1>2. /\ files \subseteq FilesOf(Head(wanted)) /\ rows \in Rows /\ job.store # None
  BY <1>1 DEF LoadInv
<1>3. HasRows(files) /\ f.rows \in Rows
  <2>1. IsFiniteSet(FilesOf(Head(wanted))) /\ \A g \in FilesOf(Head(wanted)) : g.rows \in Rows
    BY <1>2, StoreTyped
  <2>2. IsFiniteSet(files)
    BY <1>2, <2>1, FS_Subset
  <2> QED BY <1>2, <2>1, <2>2 DEF HasRows
<1>4. window.start \in Int /\ window.end \in Int
  BY <1>1, WindowTyped
<1>5. ASSUME NEW t \in Int PROVE Occurs(t, rows') + Held(t, files') = Occurs(t, rows) + Held(t, files)
  <2>1. Windowed(f.rows) \in Rows /\ rows \in Seq(Int) /\ f.rows \in Seq(Int)
    BY <1>2, <1>3, WindowedTyped DEF Rows
  <2>2. Occurs(t, rows') = Occurs(t, rows) + Occurs(t, Windowed(f.rows))
    BY <1>1, <2>1, OccursInBoth DEF Rows
  <2>3. Occurs(t, Windowed(f.rows)) = IF t \in window.start..window.end THEN Occurs(t, f.rows) ELSE 0
    <3> DEFINE all == f.rows
               keep == window.start..window.end
    <3>1. all \in Seq(Int)
      BY <2>1
    <3>2. \A u : Occurs(u, Those(all, keep)) = IF u \in keep THEN Occurs(u, all) ELSE 0
      <4> HIDE DEF all, keep
      <4> QED BY <3>1, ThoseAreKept
    <3> QED BY <3>2 DEF Windowed
  <2>4. t \in window.start..window.end <=> InWindow(t)
    BY <1>4 DEF InWindow
  <2>5. OccursIn(t, files) = Occurs(t, f.rows) + OccursIn(t, files \ {f}) /\ HasRows(files \ {f})
    BY <1>3, OccursInOneLess
  <2>6. Occurs(t, rows) \in Nat /\ Occurs(t, f.rows) \in Nat
    BY <2>1, OccursCounts
  <2>7. OccursIn(t, files \ {f}) \in Nat
    BY <2>5, PlacesInFinite
  <2> QED BY <1>1, <2>2, <2>3, <2>4, <2>5, <2>6, <2>7 DEF Held
<1>6. \A t \in Int : Occurs(t, rows') + Held(t, files') = Held(t, FilesOf(Head(wanted)) \ lost)
  BY <1>1, <1>5 DEF SeriesInv
<1>7. \A s : FilesOf(s)' = FilesOf(s)
  BY <1>1 DEF FilesOf
<1>8. \A t \in Int : Held(t, files)' = Held(t, files') /\ Held(t, FilesOf(Head(wanted)) \ lost)' = Held(t, FilesOf(Head(wanted)) \ lost)
  BY <1>1, <1>7 DEF Held, InWindow
<1>9. ASSUME NEW k \in DOMAIN bundle PROVE SeriesWhole(bundle[k])'
  <2>1. SeriesWhole(bundle[k])
    BY <1>1 DEF SeriesInv
  <2> QED BY <1>1, <1>7, <2>1 DEF SeriesWhole, Held, InWindow
<1> QED BY <1>1, <1>6, <1>7, <1>8, <1>9 DEF SeriesInv

LEMMA FinishSeriesInv ==
  ASSUME CompileInv, LoadInv, SeriesInv, FinishSeries, progress' # "compiling"
  PROVE  SeriesInv'
<1> DEFINE h == Head(wanted)
           s == [series |-> h, rows |-> Sorted(rows)]
<1>1. /\ loading = "reading" /\ files = {} /\ rows' = <<>> /\ wanted' = Tail(wanted)
      /\ loading' = IF Tail(wanted) = <<>> THEN "loaded" ELSE "listing"
      /\ bundle' = IF h.kind = "liquidity" /\ rows = <<>> THEN bundle ELSE Append(bundle, s)
      /\ UNCHANGED <<store, window, lost, files>>
  BY DEF FinishSeries
<1>2. /\ wanted # <<>> /\ wanted \in Seq(Range(wanted)) /\ rows \in Rows /\ BundleTyped(bundle)
      /\ Once(wanted)
  BY <1>1 DEF LoadInv, SeriesInv
<1>3. /\ 1 \in DOMAIN wanted /\ h = wanted[1] /\ DOMAIN wanted = 1..Len(wanted) /\ Len(wanted) \in Nat
      /\ DOMAIN Tail(wanted) = 1..(Len(wanted) - 1)
      /\ \A i \in DOMAIN Tail(wanted) : i + 1 \in DOMAIN wanted /\ i + 1 # 1 /\ Tail(wanted)[i] = wanted[i + 1]
  BY <1>2
<1>4. \A r : FilesOf(r)' = FilesOf(r)
  BY <1>1 DEF FilesOf
<1>5. SeriesWhole(s)
  <2>1. /\ \A t : Occurs(t, Sorted(rows)) = Occurs(t, rows)
        /\ \A i, j \in DOMAIN Sorted(rows) : i < j => Sorted(rows)[i] <= Sorted(rows)[j]
    BY <1>2, SortedKeeps DEF Rows
  <2>2. ASSUME NEW t \in Int PROVE Occurs(t, rows) = Held(t, FilesOf(h) \ lost)
    <3>1. Occurs(t, rows) + Held(t, {}) = Held(t, FilesOf(h) \ lost)
      BY <1>1 DEF SeriesInv
    <3>2. Held(t, {}) = 0
      BY OccursInNone DEF Held
    <3>3. Occurs(t, rows) \in Nat
      BY <1>2, OccursCounts DEF Rows
    <3> QED BY <3>1, <3>2, <3>3
  <2> QED BY <2>1, <2>2 DEF SeriesWhole
<1>6. bundle' \in Seq(Range(bundle) \cup {s})
  <2>1. s.rows \in Rows
    BY <1>2, SortedKeeps DEF Rows
  <2> HIDE DEF s
  <2>2. Append(bundle, s) \in Seq(Range(bundle) \cup {s})
    BY <1>2, <2>1, BundleGrows
  <2>3. bundle \in Seq(Range(bundle))
    BY <1>2 DEF BundleTyped
  <2>4. bundle \in Seq(Range(bundle) \cup {s})
    BY <2>3, SeqsGrow
  <2> QED BY <1>1, <2>2, <2>4
<1>7. ASSUME NEW k \in DOMAIN bundle' PROVE SeriesWhole(bundle'[k]) /\ \A i \in DOMAIN wanted' : bundle'[k].series # wanted'[i]
  <2>1. ASSUME NEW b \in Range(bundle) PROVE SeriesWhole(b) /\ \A i \in DOMAIN wanted : b.series # wanted[i]
    <3>1. PICK j \in DOMAIN bundle : b = bundle[j]
      BY DEF Range
    <3> QED BY <1>1, <3>1 DEF SeriesInv
  <2>2. bundle'[k] \in Range(bundle) \cup {s}
    <3> HIDE DEF s
    <3> QED BY <1>6
  <2>3. CASE bundle'[k] \in Range(bundle)
    BY <1>1, <1>3, <2>1, <2>3
  <2>4. CASE bundle'[k] = s
    <3>1. \A i \in DOMAIN wanted : i # 1 => wanted[i] # h
      BY <1>2, <1>3 DEF Once
    <3>2. s.series = h
      OBVIOUS
    <3> HIDE DEF s, h
    <3> QED BY <1>1, <1>3, <1>5, <2>4, <3>1, <3>2
  <2> QED BY <2>2, <2>3, <2>4
<1>8. Once(wanted')
  <2> SUFFICES ASSUME NEW i \in DOMAIN Tail(wanted), NEW j \in DOMAIN Tail(wanted), Tail(wanted)[i] = Tail(wanted)[j]
               PROVE  i = j
    BY <1>1 DEF Once
  <2>1. i + 1 = j + 1 /\ i \in Nat /\ j \in Nat
    BY <1>2, <1>3 DEF Once
  <2> QED BY <2>1
<1>9. ASSUME NEW i \in DOMAIN wanted' PROVE FilesOf(wanted'[i]) \cap lost = {}
  BY <1>1, <1>3, <1>9 DEF SeriesInv
<1>10. \A b : SeriesWhole(b)' <=> SeriesWhole(b)
  BY <1>1, <1>4 DEF SeriesWhole, Held, InWindow
<1>11. loading' # "reading" /\ loading' # "off"
  BY <1>1
<1>12. (\A k \in DOMAIN bundle : SeriesWhole(bundle[k]))'
  BY <1>7, <1>10
<1>13. (\A i \in DOMAIN wanted : FilesOf(wanted[i]) \cap lost = {})'
  BY <1>1, <1>4, <1>9
<1> QED BY <1>7, <1>8, <1>11, <1>12, <1>13 DEF SeriesInv

LEMMA SeriesInvInit == Init => SeriesInv
BY DEF Init, LoaderInit, SeriesInv

LEMMA SeriesInvNext == CompileInv /\ LoadInv /\ SeriesInv /\ [Next]_vars => SeriesInv'
<1> SUFFICES ASSUME CompileInv, LoadInv, SeriesInv, [Next]_vars PROVE SeriesInv'
  OBVIOUS
<1>1. UNCHANGED store
  BY StepsOutside DEF vars, loaderVars
<1>2. \A s : FilesOf(s)' = FilesOf(s)
  BY <1>1 DEF FilesOf
<1>3. CASE UNCHANGED vars \/ (Next /\ ~LoadData /\ ~LoadSeries /\ ~UseInlineData)
  <2>1. UNCHANGED <<store, window, loading, wanted, lost, files, rows, bundle>>
    BY <1>3, OtherStepsLoad DEF vars, loaderVars
  <2>2. progress = "compiling" \/ progress' # "compiling"
    <3>1. CASE UNCHANGED vars
      BY <3>1 DEF vars
    <3> QED BY <1>3, <3>1, OtherStepsLoad
  <2>3. \A b : SeriesWhole(b)' <=> SeriesWhole(b)
    BY <1>2, <2>1 DEF SeriesWhole, Held, InWindow
  <2>4. \A t \in Int : (loading = "reading") => (Occurs(t, rows) + Held(t, files) = Held(t, FilesOf(Head(wanted)) \ lost))'
    <3> SUFFICES ASSUME NEW t \in Int, loading = "reading"
                 PROVE  (Occurs(t, rows) + Held(t, files) = Held(t, FilesOf(Head(wanted)) \ lost))'
      OBVIOUS
    <3>1. Occurs(t, rows) + Held(t, files) = Held(t, FilesOf(Head(wanted)) \ lost)
      BY DEF SeriesInv
    <3>2. Held(t, files)' = Held(t, files)
      BY <2>1 DEF Held, InWindow
    <3>3. Held(t, FilesOf(Head(wanted)) \ lost)' = Held(t, FilesOf(Head(wanted)) \ lost)
      BY <1>2, <2>1 DEF Held, InWindow
    <3> QED BY <2>1, <3>1, <3>2, <3>3
  <2> QED BY <1>2, <2>1, <2>2, <2>3, <2>4 DEF SeriesInv
<1>4. CASE UseInlineData
  <2>1. progress = "compiling" /\ loading' = loading /\ progress' = "resolving"
    BY <1>4 DEF UseInlineData
  <2>2. loading = "off"
    BY <2>1 DEF LoadInv
  <2> QED BY <2>1, <2>2 DEF SeriesInv
<1>5. CASE LoadData
  <2>1. StartLoad(compiled.requirements, WarmupStart, job.end) /\ progress' = "loading" /\ progress = "compiling"
    BY <1>5 DEF LoadData
  <2>2. /\ wanted' = ToLoad(compiled.requirements) /\ UNCHANGED <<store, lost, files, rows, bundle>>
        /\ loading' \in {"loaded", "listing"}
    BY <2>1 DEF StartLoad
  <2>3. bundle' = <<>> /\ lost' = {} /\ DOMAIN bundle' = {}
    BY <2>1, <2>2 DEF SeriesInv
  <2>4. Once(wanted')
    BY <2>2, ToLoadOnce
  <2> QED BY <2>1, <2>2, <2>3, <2>4 DEF SeriesInv
<1>6. CASE LoadSeries
  <2>1. Load /\ progress = "loading" /\ progress' = "loading"
    BY <1>6 DEF LoadSeries
  <2>2. ASSUME NEW f \in files, ReadFails(f) PROVE SeriesInv'
    <3>1. loading = "reading" /\ loading' = "failed" /\ UNCHANGED <<store, window, wanted, lost, files, rows, bundle>>
      BY <2>2 DEF ReadFails
    <3>2. \A b : SeriesWhole(b)' <=> SeriesWhole(b)
      BY <1>2, <3>1 DEF SeriesWhole, Held, InWindow
    <3> QED BY <2>1, <3>1, <3>2 DEF SeriesInv
  <2> QED BY <2>1, <2>2, ListSeriesInv, ReadSeriesInv, FinishSeriesInv DEF Load
<1> QED BY <1>3, <1>4, <1>5, <1>6

(* However the up to sixteen reads in flight end, whatever a listing misses   *)
(* and whatever the names of the files leave out, each series of the bundle   *)
(* has the rows that its listed files have in the window, each as often as    *)
(* they have it, in the order of time.                                        *)
THEOREM SeriesAreWhole == Spec => []LoadIsWhole
<1>1. BacktestInv /\ SeriesInv => LoadIsWhole
  <2> SUFFICES ASSUME BacktestInv, SeriesInv, window # None, NEW k \in DOMAIN bundle
               PROVE  LET b    == bundle[k]
                          read == FilesOf(b.series) \ lost
                      IN  /\ \A i \in 1..(Len(b.rows) - 1) : b.rows[i] <= b.rows[i + 1]
                          /\ \A t \in Range(b.rows) \cup {t \in UNION {Range(f.rows) : f \in read} : InWindow(t)} :
                               /\ InWindow(t)
                               /\ Occurs(t, b.rows) = OccursIn(t, read)
    BY DEF LoadIsWhole
  <2> DEFINE r == bundle[k].rows
             read == FilesOf(bundle[k].series) \ lost
  <2>1. loading # "off" /\ job.store # None /\ CompileInv /\ r \in Seq(Int)
    BY DEF BacktestInv, SortedInv, LoadInv, BundleTyped, Rows
  <2>2. SeriesWhole(bundle[k])
    BY <2>1 DEF SeriesInv
  <2>3. /\ \A i, j \in DOMAIN r : i < j => r[i] <= r[j]
        /\ \A t \in Int : Occurs(t, r) = Held(t, read)
    BY <2>2 DEF SeriesWhole
  <2>4. \A f \in read : f.rows \in Seq(Int)
    BY <2>1, StoreTyped DEF Rows
  <2>5. \A f \in read : Range(f.rows) \subseteq Int
    BY <2>4 DEF Range
  <2> HIDE DEF r, read
  <2>6. Range(r) \subseteq Int /\ \A t : Occurs(t, r) = 0 <=> t \notin Range(r)
    BY <2>1, OccursCounts
  <2>7. \A i \in 1..(Len(r) - 1) : r[i] <= r[i + 1]
    <3>1. \A i \in 1..(Len(r) - 1) : i \in DOMAIN r /\ i + 1 \in DOMAIN r /\ i < i + 1
      BY <2>1
    <3> QED BY <2>3, <3>1
  <2>8. ASSUME NEW t \in Range(r) \cup {t \in UNION {Range(f.rows) : f \in read} : InWindow(t)}
        PROVE  InWindow(t) /\ Occurs(t, r) = OccursIn(t, read)
    <3>1. t \in Int
      BY <2>5, <2>6
    <3>2. InWindow(t)
      BY <2>3, <2>6, <3>1 DEF Held
    <3> QED BY <2>3, <3>1, <3>2 DEF Held
  <2> QED BY <2>7, <2>8 DEF r, read
<1> QED BY <1>1, SeriesInvInit, SeriesInvNext, BacktestInvHolds, PTL DEF Spec, BacktestInv, SortedInv

-----------------------------------------------------------------------------
(* What is read is known.                                                     *)

\* What a source says at each time under its n innermost windows, if `inner` is
\* what it says under one less.
Under(b, source, step, n, inner) ==
  LET over == source.windows[Len(source.windows) + 1 - n]
  IN  [t \in Int |-> Sampled(over, [k \in 0..(Depth(over) - 1) |-> inner[t - k * step]])]

Observes(b, source, step, N, g) ==
  g = [n \in 0..N |-> IF n = 0 THEN [t \in Int |-> Reading(b, source, t)]
                      ELSE Under(b, source, step, n, g[n - 1])]

LEMMA ObservesExists ==
  ASSUME NEW b, NEW source, NEW step
  PROVE  \A N \in Nat : \E g : Observes(b, source, step, N, g)
<1> DEFINE S == {N \in Nat : \E g : Observes(b, source, step, N, g)}
           read == [t \in Int |-> Reading(b, source, t)]
<1> HIDE DEF read
<1>1. 0 \in S
  <2> DEFINE g == [n \in 0..0 |-> read]
  <2>1. Observes(b, source, step, 0, g)
    BY DEF Observes, read
  <2> QED BY <2>1
<1>2. ASSUME NEW N \in Nat, N \in S
      PROVE  N + 1 \in S
  <2>1. PICK g : Observes(b, source, step, N, g)
    BY <1>2
  <2> DEFINE h == [n \in 0..(N + 1) |-> IF n = N + 1 THEN Under(b, source, step, n, g[N]) ELSE g[n]]
  <2>2. \A n \in 0..N : g[n] = IF n = 0 THEN read ELSE Under(b, source, step, n, g[n - 1])
    BY <2>1 DEF Observes, read
  <2>3. \A n \in 0..N : h[n] = g[n]
    OBVIOUS
  <2>4. ASSUME NEW n \in 0..(N + 1)
        PROVE  h[n] = IF n = 0 THEN read ELSE Under(b, source, step, n, h[n - 1])
    <3>1. CASE n = N + 1
      <4>1. h[n] = Under(b, source, step, n, g[N]) /\ h[N] = g[N] /\ n # 0 /\ n - 1 = N
        BY <3>1, <2>3
      <4> QED BY <4>1
    <3>2. CASE n = 0
      BY <2>2, <3>2
    <3>3. CASE n \in 1..N
      <4>1. h[n] = g[n] /\ h[n - 1] = g[n - 1] /\ n \in 0..N /\ n # 0
        BY <3>3, <2>3
      <4> QED BY <2>2, <4>1
    <3> QED BY <3>1, <3>2, <3>3
  <2>5. Observes(b, source, step, N + 1, h)
    <3> HIDE DEF h
    <3>1. h = [n \in 0..(N + 1) |-> h[n]]
      BY DEF h
    <3>2. [n \in 0..(N + 1) |-> h[n]]
            = [n \in 0..(N + 1) |-> IF n = 0 THEN read ELSE Under(b, source, step, n, h[n - 1])]
      BY <2>4
    <3> QED BY <3>1, <3>2 DEF Observes, read
  <2> QED BY <2>5
<1> HIDE DEF S
<1>3. Nat \subseteq S
  BY <1>1, <1>2, NatInSet
<1> QED BY <1>3 DEF S

\* What a source says under each number of its windows.
LEMMA ObserveSolves ==
  ASSUME NEW b, NEW source, NEW step, source.windows \in Seq(Range(source.windows))
  PROVE  LET g == Observe(b, source, step)
             L == Len(source.windows)
         IN  /\ g[0] = [t \in Int |-> Reading(b, source, t)]
             /\ \A n \in 1..L : g[n] = Under(b, source, step, n, g[n - 1])
<1> DEFINE L == Len(source.windows)
           g == CHOOSE f : Observes(b, source, step, L, f)
<1>1. Observe(b, source, step) = g
  BY DEF Observe, Observes, Under
<1>2. L \in Nat
  OBVIOUS
<1>3. Observes(b, source, step, L, g)
  BY <1>2, ObservesExists
<1> HIDE DEF g, L
<1>4. \A n \in 0..L : g[n] = IF n = 0 THEN [t \in Int |-> Reading(b, source, t)]
                             ELSE Under(b, source, step, n, g[n - 1])
  BY <1>3 DEF Observes
<1>5. g[0] = [t \in Int |-> Reading(b, source, t)]
  BY <1>2, <1>4
<1>6. \A n \in 1..L : g[n] = Under(b, source, step, n, g[n - 1])
  <2>1. \A n \in 1..L : n \in 0..L /\ n # 0
    BY <1>2
  <2> HIDE DEF L
  <2> QED BY <1>4, <2>1
<1> QED BY <1>1, <1>5, <1>6 DEF L

\* An observation at t that rests on nothing later.
Known(v, t) ==
  \/ v \in {Nothing, Failure}
  \/ v.says = "value" /\ \A row \in v.rows : row.ts \in Int /\ row.ts <= t

LEMMA TimesFinite ==
  ASSUME NEW b, BundleTyped(b), NEW s
  PROVE  IsFiniteSet(Times(b, s))
<1> DEFINE K == {j \in DOMAIN b : b[j].series = s}
           at == [k \in K |-> Range(b[k].rows)]
           T == {Range(b[k].rows) : k \in K}
<1>1. IsFiniteSet(K)
  <2>1. DOMAIN b = 1..Len(b) /\ Len(b) \in Nat
    BY DEF BundleTyped
  <2>2. IsFiniteSet(1..Len(b))
    BY <2>1, FS_Interval
  <2> QED BY <2>1, <2>2, FS_Subset
<1>2. ASSUME NEW k \in K PROVE IsFiniteSet(Range(b[k].rows))
  <2> DEFINE r == b[k].rows
  <2>1. r \in Seq(Int)
    BY DEF BundleTyped, Rows
  <2> HIDE DEF r
  <2>2. DOMAIN r = 1..Len(r) /\ Len(r) \in Nat /\ r \in [1..Len(r) -> Range(r)]
    BY <2>1 DEF Range
  <2>3. IsFiniteSet(1..Len(r)) /\ \A y \in Range(r) : \E i \in 1..Len(r) : r[i] = y
    <3>1. IsFiniteSet(1..Len(r))
      BY <2>2, FS_Interval
    <3>2. \A y \in Range(r) : \E i \in 1..Len(r) : r[i] = y
      BY <2>2 DEF Range
    <3> QED BY <3>1, <3>2
  <2>4. IsFiniteSet(Range(r))
    BY <2>2, <2>3, ImageFinite
  <2> QED BY <2>4 DEF r
<1>3. at \in [K -> T] /\ \A y \in T : \E k \in K : at[k] = y
  OBVIOUS
<1>4. \A y \in T : IsFiniteSet(y)
  BY <1>2
<1>5. IsFiniteSet(T)
  <2> HIDE DEF at, T, K
  <2> QED BY <1>1, <1>3, ImageFinite
<1>6. IsFiniteSet(UNION T)
  <2> HIDE DEF T
  <2> QED BY <1>4, <1>5, FS_UNION
<1> QED BY <1>6 DEF Times, Range

LEMMA LatestIsKnown ==
  ASSUME NEW S, S \subseteq Int, IsFiniteSet(S), NEW t \in Int,
         NEW known, known = {u \in S : u <= t}, known # {}
  PROVE  Max(known) \in known /\ Max(known) \in Int /\ Max(known) <= t
<1>1. known \in SUBSET Int /\ IsFiniteSet(known)
  BY FS_Subset
<1>2. Max(known) \in known
  BY <1>1, Extremes
<1> QED BY <1>2

LEMMA RowsAreKnown ==
  ASSUME NEW b, BundleTyped(b), NEW s, NEW t \in Int
  PROVE  /\ \A row \in LastKnown(b, s, t) : row.ts \in Int /\ row.ts <= t
         /\ \A row \in Exact(b, s, t) : row.ts = t
<1>1. Times(b, s) \subseteq Int /\ IsFiniteSet(Times(b, s))
  BY TimesTyped, TimesFinite
<1> DEFINE known == {u \in Times(b, s) : u <= t}
<1>2. CASE known = {}
  BY <1>2 DEF LastKnown, Exact
<1>3. CASE known # {}
  <2>1. Max(known) \in Int /\ Max(known) <= t
    BY <1>1, <1>3, LatestIsKnown
  <2> QED BY <1>3, <2>1 DEF LastKnown, Exact
<1> QED BY <1>2, <1>3

LEMMA PricesAreKnown ==
  ASSUME NEW b, BundleTyped(b), NEW symbol, NEW t \in Int
  PROVE  \A row \in PriceAny(b, symbol, t) : row.ts \in Int /\ row.ts <= t
<1> DEFINE K == {k \in DOMAIN b : b[k].series.kind = "candle" /\ b[k].series.symbol = symbol}
           at == [k \in K |-> Times(b, b[k].series)]
           T == {Times(b, b[k].series) : k \in K}
           known == {u \in UNION T : u <= t}
<1>1. IsFiniteSet(K)
  <2>1. DOMAIN b = 1..Len(b) /\ Len(b) \in Nat
    BY DEF BundleTyped
  <2>2. IsFiniteSet(1..Len(b))
    BY <2>1, FS_Interval
  <2> QED BY <2>1, <2>2, FS_Subset
<1>2. at \in [K -> T] /\ \A y \in T : \E k \in K : at[k] = y
  OBVIOUS
<1>3. \A y \in T : IsFiniteSet(y) /\ y \subseteq Int
  BY TimesTyped, TimesFinite
<1>4. IsFiniteSet(UNION T) /\ UNION T \subseteq Int
  <2>1. IsFiniteSet(T)
    <3> HIDE DEF at, T, K
    <3> QED BY <1>1, <1>2, ImageFinite
  <2> HIDE DEF T
  <2> QED BY <1>3, <2>1, FS_UNION
<1>5. CASE known = {}
  BY <1>5 DEF PriceAny
<1>6. CASE known # {}
  <2>1. Max(known) \in Int /\ Max(known) <= t
    <3> HIDE DEF T
    <3> QED BY <1>4, <1>6, LatestIsKnown
  <2> QED BY <1>6, <2>1 DEF PriceAny
<1> QED BY <1>5, <1>6

LEMMA ReadingIsKnown ==
  ASSUME NEW b, BundleTyped(b), NEW source, NEW t \in Int
  PROVE  Known(Reading(b, source, t), t)
<1> DEFINE series == Series(source.kind, source.venue, source.symbol)
           read == CASE source.kind = "candle" /\ source.venue = None -> PriceAny(b, source.symbol, t)
                     [] source.kind \in {"candle", "funding"} /\ source.venue # None -> Exact(b, series, t)
                     [] OTHER -> LastKnown(b, series, t)
<1>1. \A row \in read : row.ts \in Int /\ row.ts <= t
  <2>1. \A row \in PriceAny(b, source.symbol, t) : row.ts \in Int /\ row.ts <= t
    BY PricesAreKnown
  <2>2. \A row \in Exact(b, series, t) : row.ts \in Int /\ row.ts <= t
    BY RowsAreKnown
  <2>3. \A row \in LastKnown(b, series, t) : row.ts \in Int /\ row.ts <= t
    BY RowsAreKnown
  <2> HIDE DEF series
  <2> QED BY <2>1, <2>2, <2>3
<1>2. Reading(b, source, t) = IF read = {} THEN Nothing ELSE Value(read)
  BY DEF Reading
<1> HIDE DEF read
<1> QED BY <1>1, <1>2 DEF Known, Value

\* A window of known samples is known, at the time of the newest.
LEMMA SampledIsKnown ==
  ASSUME NEW over, NEW t \in Int, NEW samples,
         \A k \in DOMAIN samples : Known(samples[k], t)
  PROVE  Known(Sampled(over, samples), t)
<1> DEFINE taken == {k \in DOMAIN samples : \A j \in 0..k : samples[j] # Nothing}
<1>0. taken \subseteq DOMAIN samples
  OBVIOUS
<1>1. Sampled(over, samples)
        = IF Failure \in {samples[k] : k \in taken} THEN Failure
          ELSE IF Cardinality(taken) < over.bars THEN Nothing
          ELSE IF taken = {} THEN OfNone(over.transform)
          ELSE Value(UNION {samples[k].rows : k \in taken})
  BY DEF Sampled
<1>2. Known(OfNone(over.transform), t)
  BY DEF OfNone, Known, Value, Failure
<1>3. ASSUME Failure \notin {samples[k] : k \in taken}
      PROVE  Known(Value(UNION {samples[k].rows : k \in taken}), t)
  <2>1. \A k \in taken : \A row \in samples[k].rows : row.ts \in Int /\ row.ts <= t
    BY <1>0 DEF Known, Nothing, Failure
  <2> HIDE DEF taken
  <2> QED BY <2>1 DEF Known, Value
<1>4. Known(Failure, t) /\ Known(Nothing, t)
  BY DEF Known
<1> HIDE DEF taken
<1> QED BY <1>1, <1>2, <1>3, <1>4

\* The times of the bars from t back over n more.
BackOver(t, n, step) == {t - k * step : k \in 0..n}

\* An observation rests on all of these times, if it says anything.
Rests(v, times) == v.says = "value" => {row.ts : row \in v.rows} = times

\* The bars of the n innermost windows, of as many counts as `over`, reach back
\* over n times less one; a window of one more reaches back from each of them.
LEMMA ReachesAdd ==
  ASSUME NEW t \in Int, NEW step \in Nat, NEW n \in Nat, NEW bars \in Nat, bars > 0
  PROVE  UNION {BackOver(t - k * step, n, step) : k \in 0..(bars - 1)}
           = BackOver(t, n + (bars - 1), step)
<1>1. ASSUME NEW a \in Nat, NEW b \in Nat PROVE (t - a * step) - b * step = t - (a + b) * step
  <2>1. (a + b) * step = a * step + b * step
    OBVIOUS
  <2>2. a * step \in Int /\ b * step \in Int
    OBVIOUS
  <2> QED BY <2>1, <2>2
<1>2. ASSUME NEW u \in UNION {BackOver(t - k * step, n, step) : k \in 0..(bars - 1)}
      PROVE  u \in BackOver(t, n + (bars - 1), step)
  <2>1. PICK k \in 0..(bars - 1) : u \in BackOver(t - k * step, n, step)
    OBVIOUS
  <2>2. PICK j \in 0..n : u = (t - k * step) - j * step
    BY <2>1 DEF BackOver
  <2>3. k + j \in 0..(n + (bars - 1)) /\ k \in Nat /\ j \in Nat
    OBVIOUS
  <2>4. u = t - (k + j) * step
    BY <1>1, <2>2, <2>3
  <2> QED BY <2>3, <2>4 DEF BackOver
<1>3. ASSUME NEW u \in BackOver(t, n + (bars - 1), step)
      PROVE  u \in UNION {BackOver(t - k * step, n, step) : k \in 0..(bars - 1)}
  <2>1. PICK m \in 0..(n + (bars - 1)) : u = t - m * step
    BY DEF BackOver
  <2>2. PICK k \in 0..(bars - 1), j \in 0..n : m = k + j
    <3>1. CASE m <= n
      <4>1. 0 \in 0..(bars - 1) /\ m \in 0..n /\ m = 0 + m
        BY <3>1
      <4> QED BY <4>1
    <3>2. CASE m > n
      <4>1. m - n \in 0..(bars - 1) /\ n \in 0..n /\ m = (m - n) + n
        BY <3>2
      <4> QED BY <4>1
    <3> QED BY <3>1, <3>2
  <2>3. u = (t - k * step) - j * step
    BY <1>1, <2>1, <2>2
  <2>4. u \in BackOver(t - k * step, n, step)
    BY <2>3 DEF BackOver
  <2> QED BY <2>4
<1> QED BY <1>2, <1>3

\* A window that says anything has a value at each of its bars.
LEMMA SampledRests ==
  ASSUME NEW over, over.bars \in Nat, over.bars > 0,
         NEW t \in Int, NEW step \in Nat, NEW n \in Nat, NEW samples,
         DOMAIN samples = 0..(Depth(over) - 1),
         \A k \in DOMAIN samples : /\ Known(samples[k], t)
                                   /\ Rests(samples[k], BackOver(t - k * step, n, step))
  PROVE  Rests(Sampled(over, samples), BackOver(t, n + (over.bars - 1), step))
<1> DEFINE taken == {k \in DOMAIN samples : \A j \in 0..k : samples[j] # Nothing}
           all == 0..(over.bars - 1)
<1>1. DOMAIN samples = all
  BY DEF Depth
<1>2. SUFFICES ASSUME Sampled(over, samples).says = "value"
               PROVE  {row.ts : row \in Sampled(over, samples).rows} = BackOver(t, n + (over.bars - 1), step)
  BY DEF Rests
<1>3. taken \subseteq all /\ \A k \in taken : samples[k] # Nothing
  <2>1. \A k \in all : k \in 0..k
    OBVIOUS
  <2> HIDE DEF all
  <2> QED BY <1>1, <2>1
<1>4. Sampled(over, samples)
        = IF Failure \in {samples[k] : k \in taken} THEN Failure
          ELSE IF Cardinality(taken) < over.bars THEN Nothing
          ELSE IF taken = {} THEN OfNone(over.transform)
          ELSE Value(UNION {samples[k].rows : k \in taken})
  BY DEF Sampled
<1> HIDE DEF taken
<1>5. IsFiniteSet(all) /\ Cardinality(all) = over.bars
  <2>1. 0 \in Int /\ over.bars - 1 \in Int /\ (over.bars - 1) - 0 + 1 = over.bars
    OBVIOUS
  <2>2. IsFiniteSet(0..(over.bars - 1))
        /\ Cardinality(0..(over.bars - 1)) = IF 0 > over.bars - 1 THEN 0 ELSE (over.bars - 1) - 0 + 1
    BY <2>1, FS_Interval
  <2> QED BY <2>2
<1>6. Failure.says # "value" /\ Nothing.says # "value"
  BY DEF Failure, Nothing
<1>7. Failure \notin {samples[k] : k \in taken} /\ ~(Cardinality(taken) < over.bars)
  BY <1>2, <1>4, <1>6
<1>8. taken = all
  <2>1. IsFiniteSet(taken) /\ Cardinality(taken) <= Cardinality(all)
    BY <1>3, <1>5, FS_Subset
  <2>2. Cardinality(taken) \in Nat
    BY <2>1, FS_CardinalityType
  <2>3. Cardinality(taken) = Cardinality(all)
    BY <1>5, <1>7, <2>1, <2>2
  <2> QED BY <1>3, <1>5, <2>3, FS_Subset
<1>9. Sampled(over, samples) = Value(UNION {samples[k].rows : k \in all})
  <2>1. 0 \in all
    OBVIOUS
  <2> QED BY <1>4, <1>7, <1>8, <2>1
<1>10. ASSUME NEW k \in all
       PROVE  {row.ts : row \in samples[k].rows} = BackOver(t - k * step, n, step)
  <2>1. samples[k] # Nothing /\ samples[k] # Failure
    BY <1>3, <1>7, <1>8
  <2>2. samples[k].says = "value"
    BY <1>1, <2>1 DEF Known
  <2> QED BY <1>1, <2>2 DEF Rests
<1> HIDE DEF all
<1>11. {row.ts : row \in UNION {samples[k].rows : k \in all}} = UNION {BackOver(t - k * step, n, step) : k \in all}
  <2>1. \A x : x \in {row.ts : row \in UNION {samples[k].rows : k \in all}}
                 <=> \E k \in all : x \in {row.ts : row \in samples[k].rows}
    OBVIOUS
  <2>2. \A x : x \in UNION {BackOver(t - k * step, n, step) : k \in all}
                 <=> \E k \in all : x \in BackOver(t - k * step, n, step)
    OBVIOUS
  <2> QED BY <1>10, <2>1, <2>2
<1>12. UNION {BackOver(t - k * step, n, step) : k \in all} = BackOver(t, n + (over.bars - 1), step)
  BY ReachesAdd DEF all
<1> QED BY <1>9, <1>11, <1>12 DEF Value

\* What is under all windows of a source: known, and of every bar it reaches back to.
LEMMA ObservedIsKnown ==
  ASSUME NEW b, BundleTyped(b), NEW source, NEW step \in Nat, NEW t \in Int,
         source.windows \in Seq(Range(source.windows)),
         \A k \in DOMAIN source.windows : source.windows[k].bars \in Nat
  PROVE  /\ Known(SourceValue(b, source, t, step), t)
         /\ source.kind \in {"candle", "funding"} /\ source.venue # None /\ WellFormed(source)
              => Rests(SourceValue(b, source, t, step), BackOver(t, Reach(source), step))
<1> DEFINE L == Len(source.windows)
           g == Observe(b, source, step)
<1>5. g[0] = [u \in Int |-> Reading(b, source, u)] /\ \A n \in 1..L : g[n] = Under(b, source, step, n, g[n - 1])
  BY ObserveSolves
<1> DEFINE list == [k \in DOMAIN source.windows |-> source.windows[k].bars - 1]
           D(n) == 0..(Depth(source.windows[L + 1 - n]) - 1)
           pinned == source.kind \in {"candle", "funding"} /\ source.venue # None
           full == pinned /\ WellFormed(source)
<1>1. L \in Nat /\ DOMAIN source.windows = 1..L /\ list \in Seq(Int) /\ Len(list) = L
  OBVIOUS
<1>2. PICK h : /\ h[0] = 0
               /\ \A n \in 1..L : h[n] = h[n - 1] + list[n]
               /\ \A n \in 0..L : h[n] \in Int
               /\ Added(list) = h[L]
  <2> HIDE DEF list, L
  <2> QED BY <1>1, PrefixSums
<1> DEFINE S == {n \in Nat : n <= L =>
                   \A u \in Int : /\ Known(g[n][u], u)
                                  /\ full => /\ h[L] - h[L - n] \in Nat
                                             /\ Rests(g[n][u], BackOver(u, h[L] - h[L - n], step))}
<1>3. SourceValue(b, source, t, step) = g[L][t] /\ Reach(source) = h[L]
  BY <1>2 DEF SourceValue, Reach
<1>4. \A n \in 1..L : source.windows[n].bars \in Nat /\ list[n] = source.windows[n].bars - 1
  BY <1>1
<1>6. \A n \in 1..L : \A inner : \A u \in Int :
        Under(b, source, step, n, inner)[u]
          = Sampled(source.windows[L + 1 - n], [k \in D(n) |-> inner[u - k * step]])
  BY DEF Under
<1> HIDE DEF g, list, L
<1>7. 0 \in S
  <2> SUFFICES ASSUME NEW u \in Int
               PROVE  /\ Known(g[0][u], u)
                      /\ full => /\ h[L] - h[L - 0] \in Nat
                                 /\ Rests(g[0][u], BackOver(u, h[L] - h[L - 0], step))
    OBVIOUS
  <2>1. g[0][u] = Reading(b, source, u)
    BY <1>5
  <2>2. Known(g[0][u], u)
    BY <2>1, ReadingIsKnown
  <2>3. L - 0 = L /\ h[L] - h[L] = 0
    BY <1>1, <1>2
  <2>4. ASSUME pinned PROVE Rests(g[0][u], BackOver(u, 0, step))
    <3> DEFINE E == Exact(b, Series(source.kind, source.venue, source.symbol), u)
    <3>1. g[0][u] = IF E = {} THEN Nothing ELSE Value(E)
      BY <2>1, <2>4 DEF Reading
    <3>2. E # {} => {row.ts : row \in E} = {u}
      BY DEF Exact
    <3>3. BackOver(u, 0, step) = {u}
      <4>1. 0..0 = {0} /\ u - 0 * step = u
        OBVIOUS
      <4> QED BY <4>1 DEF BackOver
    <3> HIDE DEF E
    <3>4. CASE E = {}
      <4>1. g[0][u] = Nothing /\ Nothing.says # "value"
        BY <3>1, <3>4 DEF Nothing
      <4> QED BY <4>1 DEF Rests
    <3>5. CASE E # {}
      <4>1. g[0][u] = Value(E) /\ Value(E).rows = E
        BY <3>1, <3>5 DEF Value
      <4>2. {row.ts : row \in g[0][u].rows} = {row.ts : row \in E}
        BY <4>1
      <4> QED BY <3>2, <3>3, <3>5, <4>2 DEF Rests
    <3> QED BY <3>4, <3>5
  <2> QED BY <2>2, <2>3, <2>4
<1>8. ASSUME NEW n \in Nat, n \in S PROVE n + 1 \in S
  <2> DEFINE m == L + 1 - (n + 1)
             over == source.windows[m]
             R == h[L] - h[L - n]
             R2 == h[L] - h[L - (n + 1)]
  <2> SUFFICES ASSUME n + 1 <= L, NEW u \in Int
               PROVE  /\ Known(g[n + 1][u], u)
                      /\ full => R2 \in Nat /\ Rests(g[n + 1][u], BackOver(u, R2, step))
    OBVIOUS
  <2> DEFINE samples == [k \in D(n + 1) |-> g[n][u - k * step]]
  <2>1. n + 1 \in 1..L /\ (n + 1) - 1 = n /\ n <= L /\ m \in 1..L /\ m = L - n /\ m - 1 = L - (n + 1)
    BY <1>1
  <2>2. g[n + 1][u] = Sampled(over, samples)
    <3>1. g[n + 1] = Under(b, source, step, n + 1, g[n])
      BY <1>5, <2>1
    <3>2. Under(b, source, step, n + 1, g[n])[u]
            = Sampled(source.windows[L + 1 - (n + 1)], [k \in D(n + 1) |-> g[n][u - k * step]])
      <4> HIDE DEF D
      <4> QED BY <1>6, <2>1
    <3> QED BY <3>1, <3>2
  <2>3. DOMAIN samples = 0..(Depth(over) - 1) /\ D(n + 1) = 0..(Depth(over) - 1)
    OBVIOUS
  <2>4. Depth(over) \in Nat
    BY <1>4, <2>1 DEF Depth
  <2>5. ASSUME NEW k \in D(n + 1)
        PROVE  /\ k \in Nat /\ u - k * step \in Int /\ u - k * step <= u
               /\ samples[k] = g[n][u - k * step]
    <3>1. k \in Nat
      BY <2>3, <2>4
    <3>2. k * step \in Nat
      BY <3>1
    <3> QED BY <3>1, <3>2
  <2> HIDE DEF samples, D, over, m
  <2>6. ASSUME NEW k \in D(n + 1) PROVE Known(samples[k], u)
    <3>1. Known(g[n][u - k * step], u - k * step)
      BY <1>8, <2>1, <2>5
    <3>2. u - k * step \in Int /\ u - k * step <= u
      BY <2>5
    <3>3. \A x \in Int : x <= u - k * step => x <= u
      BY <3>2
    <3>4. Known(g[n][u - k * step], u)
      BY <3>1, <3>3 DEF Known
    <3> QED BY <2>5, <3>4
  <2>7. Known(g[n + 1][u], u)
    BY <2>2, <2>3, <2>6, SampledIsKnown
  <2>8. ASSUME full PROVE R2 \in Nat /\ Rests(g[n + 1][u], BackOver(u, R2, step))
    <3>1. over.bars \in Nat /\ over.bars > 0 /\ list[m] = over.bars - 1
      BY <1>1, <1>4, <2>1, <2>8 DEF over, WellFormed
    <3>2. R \in Nat
      BY <1>8, <2>1, <2>8
    <3>3. R2 = R + (over.bars - 1)
      <4>1. h[m] = h[m - 1] + list[m]
        BY <1>2, <2>1
      <4>2. h[L] \in Int /\ h[m] \in Int /\ h[m - 1] \in Int
        <5>1. L \in 0..L /\ m \in 0..L /\ m - 1 \in 0..L
          BY <1>1, <2>1
        <5> QED BY <1>2, <5>1
      <4>3. R = h[L] - h[m] /\ R2 = h[L] - h[m - 1]
        BY <2>1
      <4> HIDE DEF R, R2
      <4> QED BY <3>1, <4>1, <4>2, <4>3
    <3>4. ASSUME NEW k \in D(n + 1) PROVE Rests(samples[k], BackOver(u - k * step, R, step))
      <4>1. u - k * step \in Int /\ samples[k] = g[n][u - k * step]
        BY <2>5
      <4>2. Rests(g[n][u - k * step], BackOver(u - k * step, R, step))
        BY <1>8, <2>1, <2>8, <4>1
      <4> QED BY <4>1, <4>2
    <3> HIDE DEF R, R2
    <3>5. Rests(Sampled(over, samples), BackOver(u, R + (over.bars - 1), step))
      BY <2>3, <2>6, <3>1, <3>2, <3>4, SampledRests
    <3>6. R + (over.bars - 1) \in Nat
      BY <3>1, <3>2
    <3> QED BY <2>2, <3>3, <3>5, <3>6
  <2> QED BY <2>7, <2>8
<1>9. L \in S
  <2> HIDE DEF S
  <2> QED BY <1>1, <1>7, <1>8, NatInSet
<1>10. L - L = 0 /\ h[L] - h[0] = h[L]
  <2>1. h[L] \in Int
    BY <1>1, <1>2
  <2> QED BY <1>1, <1>2, <2>1
<1> QED BY <1>1, <1>3, <1>9, <1>10

LEMMA StalenessTyped ==
  ASSUME CompileInv, RunInv, Running
  PROVE  MaxAge = None \/ MaxAge \in Int
<1> DEFINE k == "max_mark_staleness"
<1>1. policy = JobPolicy /\ policy # None /\ job \in Jobs
  BY DEF RunInv, Runnable, CompileInv
<1>2. \A set \in {job.contract.set, job.overrides} :
        k \in DOMAIN set => set.max_mark_staleness = None \/ set.max_mark_staleness \in Seq(Int)
  BY <1>1, JobsAssumption
<1>3. \A p \in DOMAIN Profiles : Profiles[p].max_mark_staleness = None /\ k \in DOMAIN Profiles[p]
  <2>1. DOMAIN Profiles = {"strict_v1", "conservative_v1", "research_v1"}
    BY DEF Profiles
  <2>2. StrictV1.max_mark_staleness = None /\ k \in DOMAIN StrictV1
    BY DEF StrictV1
  <2>3. Profiles["strict_v1"].max_mark_staleness = None /\ k \in DOMAIN Profiles["strict_v1"]
    BY <2>2 DEF Profiles
  <2>4. Profiles["conservative_v1"].max_mark_staleness = None /\ k \in DOMAIN Profiles["conservative_v1"]
    BY DEF Profiles, StrictV1
  <2>5. Profiles["research_v1"].max_mark_staleness = None /\ k \in DOMAIN Profiles["research_v1"]
    BY DEF Profiles, StrictV1
  <2> QED BY <2>1, <2>3, <2>4, <2>5
<1> DEFINE c == job.contract
           m == ResolvePolicy(c)
<1>4. m # None /\ m = Merged(c) /\ c.profile \in DOMAIN Profiles
  BY <1>1 DEF JobPolicy, ResolvePolicy
<1>5. k \in DOMAIN m /\ (m.max_mark_staleness = None \/ m.max_mark_staleness \in Seq(Int))
  BY <1>2, <1>3, <1>4 DEF Merged, Overlaid
<1>6. policy = Overlaid(m, job.overrides) /\ Validate(policy)
  BY <1>1, <1>4 DEF JobPolicy, ApplyExecutionOverrides
<1>7. policy.max_mark_staleness = None \/ policy.max_mark_staleness \in Seq(Int)
  BY <1>2, <1>5, <1>6 DEF Overlaid
<1>8. policy.max_mark_staleness # None => policy.max_mark_staleness # <<>>
  BY <1>6 DEF Validate, DurationsValid, IsDuration
<1> QED BY <1>7, <1>8 DEF MaxAge, Seconds

(* What a tick reads was known at the tick: no value of a later row reaches a *)
(* signal or a mark, a window speaks only of all the bars it reaches back to, *)
(* however windows are nested, and no mark is older than the bound.           *)
THEOREM ReadsWereKnown == Spec => []ReadsAreKnown
<1>1. BacktestInv => ReadsAreKnown
  <2> SUFFICES ASSUME BacktestInv, now # None PROVE ReadsAreKnown
    BY DEF ReadsAreKnown
  <2>1. CompileInv /\ LoadInv /\ RunInv /\ Running /\ BundleTyped(bundle) /\ job.step \in Nat /\ now \in Int
    <3>1. CompileInv /\ LoadInv /\ RunInv /\ Running /\ BundleTyped(bundle) /\ now \in Span
      BY DEF BacktestInv, SortedInv, LoadInv, RunInv
    <3> QED BY <3>1, SpanFacts
  <2>2. ASSUME NEW s \in SourcesRead
        PROVE  LET v     == SourceValue(bundle, s, now, job.step)
                   times == {row.ts : row \in v.rows}
               IN  /\ \A t \in times : t <= now
                   /\ v.says = "value" /\ s.kind \in {"candle", "funding"} /\ s.venue # None /\ WellFormed(s)
                        => times = {now - k * job.step : k \in 0..Reach(s)}
    <3> DEFINE v == SourceValue(bundle, s, now, job.step)
    <3>1. s.windows \in Seq(Range(s.windows)) /\ \A k \in DOMAIN s.windows : s.windows[k].bars \in Nat
      <4>1. compiling = "compiled"
        BY <2>1 DEF CompileInv, Running
      <4>2. Sound(graph)
        BY <2>1, <4>1, JobGraph DEF Past
      <4> QED BY <4>2 DEF Sound, IsGraph, SourcesRead
    <3>2. Known(v, now)
      BY <2>1, <3>1, ObservedIsKnown
    <3>3. s.kind \in {"candle", "funding"} /\ s.venue # None /\ WellFormed(s)
            => Rests(v, BackOver(now, Reach(s), job.step))
      BY <2>1, <3>1, ObservedIsKnown
    <3> HIDE DEF v
    <3>4. \A t \in {row.ts : row \in v.rows} : t <= now
      BY <3>2 DEF Known, Nothing, Failure
    <3> QED BY <3>3, <3>4 DEF Rests, BackOver, v
  <2>3. ASSUME NEW s \in held, NEW row \in CloseAt(bundle, s, now, MaxAge)
        PROVE  row.ts <= now /\ (MaxAge # None => now - row.ts <= MaxAge \/ row.ts = now)
    <3>1. row \in LastKnown(bundle, s, now) /\ (MaxAge # None => row.ts = now \/ row.ts >= now - MaxAge)
      BY DEF CloseAt
    <3>2. row.ts \in Int /\ row.ts <= now
      BY <2>1, <3>1, RowsAreKnown
    <3>3. MaxAge = None \/ MaxAge \in Int
      BY <2>1, StalenessTyped
    <3> QED BY <2>1, <3>1, <3>2, <3>3
  <2> QED BY <2>2, <2>3 DEF ReadsAreKnown
<1> QED BY <1>1, BacktestInvHolds, PTL

-----------------------------------------------------------------------------
(* What is loaded before the start is enough for what the windows reach back  *)
(* to.                                                                        *)

\* Windows reach back over less than the compiler counts for them.
LEMMA ReachIsCounted ==
  ASSUME NEW source, source.windows \in Seq(Range(source.windows)),
         \A k \in DOMAIN source.windows : source.windows[k].bars \in Nat
  PROVE  Reach(source) \in Int /\ SourceLookback(source) \in Int /\ Reach(source) <= SourceLookback(source)
<1> DEFINE w == source.windows
           L == Len(w)
           less == [k \in DOMAIN w |-> w[k].bars - 1]
           list == [k \in DOMAIN w |-> w[k].bars]
<1>1. /\ L \in Nat /\ DOMAIN w = 1..L /\ less \in Seq(Int) /\ list \in Seq(Int)
      /\ Len(less) = L /\ Len(list) = L
  <2>1. L \in Nat /\ DOMAIN w = 1..L
    OBVIOUS
  <2>2. less \in Seq(Int) /\ Len(less) = L
    BY <2>1
  <2>3. list \in Seq(Int) /\ Len(list) = L
    BY <2>1
  <2> QED BY <2>1, <2>2, <2>3
<1>2. \A n \in 1..L : list[n] \in Int /\ less[n] \in Int /\ less[n] <= list[n]
  BY <1>1
<1>3. Reach(source) = Added(less) /\ SourceLookback(source) = Added(list)
  BY DEF Reach, SourceLookback
<1> HIDE DEF less, list, L
<1>4. PICK g : /\ g[0] = 0
               /\ \A n \in 1..L : g[n] = g[n - 1] + less[n]
               /\ \A n \in 0..L : g[n] \in Int
               /\ Added(less) = g[L]
  BY <1>1, PrefixSums
<1>5. PICK h : /\ h[0] = 0
               /\ \A n \in 1..L : h[n] = h[n - 1] + list[n]
               /\ \A n \in 0..L : h[n] \in Int
               /\ Added(list) = h[L]
  BY <1>1, PrefixSums
<1> DEFINE M == {n \in Nat : n <= L => g[n] <= h[n]}
<1>6. 0 \in M
  BY <1>4, <1>5
<1>7. ASSUME NEW n \in Nat, n \in M PROVE n + 1 \in M
  <2> SUFFICES ASSUME n + 1 <= L PROVE g[n + 1] <= h[n + 1]
    OBVIOUS
  <2>1. n + 1 \in 1..L /\ (n + 1) - 1 = n /\ n <= L /\ n \in 0..L
    BY <1>1
  <2>2. g[n + 1] = g[n] + less[n + 1] /\ h[n + 1] = h[n] + list[n + 1]
    BY <1>4, <1>5, <2>1
  <2>3. g[n] \in Int /\ h[n] \in Int /\ g[n] <= h[n]
    BY <1>4, <1>5, <1>7, <2>1
  <2> QED BY <1>2, <2>1, <2>2, <2>3
<1> HIDE DEF M
<1>8. L \in M
  BY <1>1, <1>6, <1>7, NatInSet
<1>9. L \in 0..L
  BY <1>1
<1> QED BY <1>1, <1>3, <1>4, <1>5, <1>8, <1>9 DEF M

\* A window all whose samples say something does so too.
LEMMA SampledSays ==
  ASSUME NEW over, over.bars \in Nat, over.bars > 0, NEW samples,
         DOMAIN samples = 0..(Depth(over) - 1),
         \A k \in DOMAIN samples : samples[k].says = "value"
  PROVE  Sampled(over, samples).says = "value"
<1> DEFINE taken == {k \in DOMAIN samples : \A j \in 0..k : samples[j] # Nothing}
           all == 0..(over.bars - 1)
<1>1. DOMAIN samples = all
  BY DEF Depth
<1>2. \A k \in all : samples[k] # Nothing /\ samples[k] # Failure
  <2>1. Nothing.says # "value" /\ Failure.says # "value"
    BY DEF Nothing, Failure
  <2> HIDE DEF all
  <2> QED BY <1>1, <2>1
<1>3. taken = all
  <2>1. \A k \in all : \A j \in 0..k : j \in all
    OBVIOUS
  <2> HIDE DEF all
  <2> QED BY <1>1, <1>2, <2>1
<1>4. Sampled(over, samples)
        = IF Failure \in {samples[k] : k \in taken} THEN Failure
          ELSE IF Cardinality(taken) < over.bars THEN Nothing
          ELSE IF taken = {} THEN OfNone(over.transform)
          ELSE Value(UNION {samples[k].rows : k \in taken})
  BY DEF Sampled
<1> HIDE DEF taken
<1>5. Cardinality(all) = over.bars
  <2>1. 0 \in Int /\ over.bars - 1 \in Int /\ (over.bars - 1) - 0 + 1 = over.bars
    OBVIOUS
  <2>2. Cardinality(0..(over.bars - 1)) = IF 0 > over.bars - 1 THEN 0 ELSE (over.bars - 1) - 0 + 1
    BY <2>1, FS_Interval
  <2> QED BY <2>2
<1>6. 0 \in all
  OBVIOUS
<1> HIDE DEF all
<1>7. Sampled(over, samples) = Value(UNION {samples[k].rows : k \in all})
  <2>1. Failure \notin {samples[k] : k \in all}
    BY <1>2
  <2> QED BY <1>3, <1>4, <1>5, <1>6, <2>1
<1> QED BY <1>7 DEF Value

\* A source says something where each of the bars it reaches back to does.
LEMMA ObservedSays ==
  ASSUME NEW b, NEW source, NEW step \in Nat, NEW t \in Int,
         source.windows \in Seq(Range(source.windows)),
         \A k \in DOMAIN source.windows : source.windows[k].bars \in Nat,
         WellFormed(source),
         \A k \in 0..Reach(source) : Reading(b, source, t - k * step).says = "value"
  PROVE  SourceValue(b, source, t, step).says = "value"
<1> DEFINE L == Len(source.windows)
           g == Observe(b, source, step)
<1>5. g[0] = [u \in Int |-> Reading(b, source, u)] /\ \A n \in 1..L : g[n] = Under(b, source, step, n, g[n - 1])
  BY ObserveSolves
<1> DEFINE list == [k \in DOMAIN source.windows |-> source.windows[k].bars - 1]
           D(n) == 0..(Depth(source.windows[L + 1 - n]) - 1)
<1>1. L \in Nat /\ DOMAIN source.windows = 1..L /\ list \in Seq(Int) /\ Len(list) = L
  OBVIOUS
<1>2. PICK h : /\ h[0] = 0
               /\ \A n \in 1..L : h[n] = h[n - 1] + list[n]
               /\ \A n \in 0..L : h[n] \in Int
               /\ Added(list) = h[L]
  <2> HIDE DEF list, L
  <2> QED BY <1>1, PrefixSums
<1> DEFINE S == {n \in Nat : n <= L => \A k \in 0..h[L - n] : g[n][t - k * step].says = "value"}
<1>3. SourceValue(b, source, t, step) = g[L][t] /\ Reach(source) = h[L]
  BY <1>2 DEF SourceValue, Reach
<1>4. \A n \in 1..L : /\ source.windows[n].bars \in Nat /\ source.windows[n].bars > 0
                      /\ list[n] = source.windows[n].bars - 1
  BY <1>1 DEF WellFormed
<1>6. \A n \in 1..L : \A inner : \A u \in Int :
        Under(b, source, step, n, inner)[u]
          = Sampled(source.windows[L + 1 - n], [k \in D(n) |-> inner[u - k * step]])
  BY DEF Under
<1>7. ASSUME NEW k \in Nat PROVE t - k * step \in Int
  <2>1. k * step \in Int
    OBVIOUS
  <2> QED BY <2>1
<1> HIDE DEF g, list, L
<1>8. 0 \in S
  <2> SUFFICES ASSUME NEW k \in 0..h[L - 0] PROVE g[0][t - k * step].says = "value"
    OBVIOUS
  <2>1. L - 0 = L /\ k \in 0..Reach(source) /\ k \in Nat
    BY <1>1, <1>3
  <2>2. g[0][t - k * step] = Reading(b, source, t - k * step)
    BY <1>5, <1>7, <2>1
  <2> QED BY <2>1, <2>2
<1>9. ASSUME NEW n \in Nat, n \in S PROVE n + 1 \in S
  <2> DEFINE m == L + 1 - (n + 1)
             over == source.windows[m]
  <2> SUFFICES ASSUME n + 1 <= L, NEW k \in 0..h[L - (n + 1)]
               PROVE  g[n + 1][t - k * step].says = "value"
    OBVIOUS
  <2> DEFINE u == t - k * step
             samples == [j \in D(n + 1) |-> g[n][u - j * step]]
  <2>1. n + 1 \in 1..L /\ (n + 1) - 1 = n /\ n <= L /\ m \in 1..L /\ m = L - n /\ m - 1 = L - (n + 1) /\ k \in Nat
    BY <1>1
  <2>2. g[n + 1][u] = Sampled(over, samples)
    <3>1. g[n + 1] = Under(b, source, step, n + 1, g[n])
      BY <1>5, <2>1
    <3>2. u \in Int
      BY <1>7, <2>1
    <3>3. Under(b, source, step, n + 1, g[n])[u]
            = Sampled(source.windows[L + 1 - (n + 1)], [j \in D(n + 1) |-> g[n][u - j * step]])
      <4> HIDE DEF D, u
      <4> QED BY <1>6, <2>1, <3>2
    <3> QED BY <3>1, <3>3
  <2>3. over.bars \in Nat /\ over.bars > 0 /\ list[m] = over.bars - 1
    BY <1>4, <2>1
  <2>4. DOMAIN samples = 0..(Depth(over) - 1) /\ Depth(over) = over.bars
    BY <2>3 DEF Depth
  <2>5. ASSUME NEW j \in DOMAIN samples PROVE samples[j].says = "value"
    <3>1. j \in Nat /\ j <= over.bars - 1
      <4> HIDE DEF samples, over
      <4> QED BY <2>3, <2>4
    <3>2. h[m] = h[m - 1] + list[m] /\ h[m] \in Int /\ h[m - 1] \in Int
      <4>1. m \in 0..L /\ m - 1 \in 0..L
        <5>1. L \in Nat /\ m \in 1..L
          BY <1>1, <2>1
        <5> HIDE DEF m
        <5> QED BY <5>1
      <4> QED BY <1>2, <2>1, <4>1
    <3>3. k + j \in 0..h[L - n]
      <4>1. k <= h[m - 1]
        BY <2>1
      <4>2. h[m] = h[L - n]
        BY <2>1
      <4> HIDE DEF m, over
      <4> QED BY <2>1, <2>3, <3>1, <3>2, <4>1, <4>2
    <3>4. u - j * step = t - (k + j) * step
      <4>1. (k + j) * step = k * step + j * step
        BY <2>1, <3>1
      <4>2. k * step \in Int /\ j * step \in Int
        BY <2>1, <3>1
      <4> QED BY <4>1, <4>2
    <3>5. samples[j] = g[n][u - j * step]
      OBVIOUS
    <3>6. g[n][t - (k + j) * step].says = "value"
      BY <1>9, <2>1, <3>3
    <3> QED BY <3>4, <3>5, <3>6
  <2> HIDE DEF samples, over
  <2>6. Sampled(over, samples).says = "value"
    BY <2>3, <2>4, <2>5, SampledSays
  <2> QED BY <2>2, <2>6
<1> HIDE DEF S
<1>10. L \in S
  BY <1>1, <1>8, <1>9, NatInSet
<1>11. g[L][t - 0 * step].says = "value"
  <2>1. L - L = 0 /\ L <= L /\ 0 \in 0..h[0]
    BY <1>1, <1>2
  <2> QED BY <1>10, <2>1 DEF S
<1>12. t - 0 * step = t
  OBVIOUS
<1> QED BY <1>3, <1>11, <1>12

SourceKinds == {"candle", "funding", "yield", "gas"}

LEMMA InBothLists ==
  ASSUME NEW S, NEW r \in Seq(S), NEW s \in Seq(S), NEW x, x \in Range(r) \/ x \in Range(s)
  PROVE  x \in Range(r \o s)
<1>1. Occurs(x, r \o s) = Occurs(x, r) + Occurs(x, s)
  BY OccursInBoth
<1>2. /\ Occurs(x, r) \in Nat /\ (Occurs(x, r) = 0 <=> x \notin Range(r))
      /\ Occurs(x, s) \in Nat /\ (Occurs(x, s) = 0 <=> x \notin Range(s))
  BY OccursCounts
<1>3. Occurs(x, r \o s) # 0
  BY <1>1, <1>2
<1>4. r \o s \in Seq(S)
  OBVIOUS
<1> QED BY <1>3, <1>4, OccursCounts

LEMMA ToLoadHasAll ==
  ASSUME NEW required, NEW s \in required, s \in Range(SeriesOrder), s.kind \in SourceKinds
  PROVE  s \in Range(ToLoad(required))
<1> DEFINE S == Range(SeriesOrder)
           c == InOrder(required, "candle")
           fu == InOrder(required, "funding")
           ga == InOrder(required, "gas")
           yi == InOrder(required, "yield")
           L == {Series("liquidity", x.venue, x.symbol) : x \in S}
           q == [k \in DOMAIN c |-> Series("liquidity", c[k].venue, c[k].symbol)]
           T == S \cup L
<1>1. ASSUME NEW kind
      PROVE  InOrder(required, kind) \in Seq(S) /\ (s.kind = kind => s \in Range(InOrder(required, kind)))
  <2> DEFINE keep == {x \in required : x.kind = kind}
  <2>1. SeriesOrder \in Seq(S) /\ Range(SeriesOrder) = S /\ s \in S
    BY LoaderAssumption
  <2>2. Those(SeriesOrder, keep) \in Seq(S \cap keep) /\ Range(Those(SeriesOrder, keep)) = S \cap keep
    <3> HIDE DEF keep, S
    <3> QED BY <2>1, ThoseAreKept, ThoseRange
  <2> HIDE DEF S
  <2> QED BY <2>1, <2>2 DEF InOrder
<1>2. q \in Seq(L)
  <2>1. c \in Seq(S)
    BY <1>1
  <2> HIDE DEF c, S
  <2>2. DOMAIN c = 1..Len(c) /\ Len(c) \in Nat /\ \A k \in DOMAIN c : c[k] \in S
    BY <2>1
  <2> QED BY <2>2
<1>3. /\ c \in Seq(T) /\ fu \in Seq(T) /\ ga \in Seq(T) /\ yi \in Seq(T) /\ q \in Seq(T)
      /\ s \in Range(c) \/ s \in Range(fu) \/ s \in Range(ga) \/ s \in Range(yi)
  BY <1>1, <1>2 DEF SourceKinds
<1>4. ToLoad(required) = c \o fu \o ga \o yi \o q
  BY DEF ToLoad
<1> HIDE DEF c, fu, ga, yi, q, T
<1>5. c \o fu \in Seq(T) /\ c \o fu \o ga \in Seq(T) /\ c \o fu \o ga \o yi \in Seq(T)
  BY <1>3
<1>6. s \in Range(c \o fu) \/ s \in Range(ga) \/ s \in Range(yi)
  BY <1>3, InBothLists
<1>7. s \in Range(c \o fu \o ga) \/ s \in Range(yi)
  BY <1>3, <1>5, <1>6, InBothLists
<1>8. s \in Range(c \o fu \o ga \o yi)
  BY <1>3, <1>5, <1>7, InBothLists
<1> QED BY <1>3, <1>4, <1>5, <1>8, InBothLists

\* A series that is required waits to be loaded or is there.
There(b, s) == \E k \in DOMAIN b : b[k].series = s

ComesInv ==
  loading \in {"listing", "reading", "loaded"} =>
    /\ \A s \in compiled.requirements : s.kind \in SourceKinds => s \in Range(wanted) \/ There(bundle, s)
    /\ loading = "loaded" => wanted = <<>>

\* The series loaded so far and those to load, when one is done.
LEMMA SeriesMoves ==
  ASSUME LoadInv, FinishSeries
  PROVE  /\ wanted # <<>> /\ Head(wanted) \in Range(wanted) /\ Range(wanted') \subseteq Range(wanted)
         /\ \A s \in Range(wanted) : s = Head(wanted) \/ s \in Range(wanted')
         /\ \A s : There(bundle, s) => There(bundle', s)
         /\ \A s : There(bundle', s) => There(bundle, s) \/ s = Head(wanted)
         /\ There(bundle', Head(wanted)) \/ (Head(wanted).kind = "liquidity" /\ rows = <<>>)
<1> DEFINE h == Head(wanted)
           one == [series |-> h, rows |-> Sorted(rows)]
<1>1. /\ loading = "reading" /\ wanted # <<>> /\ wanted \in Seq(Range(wanted)) /\ wanted' = Tail(wanted)
      /\ bundle' = IF h.kind = "liquidity" /\ rows = <<>> THEN bundle ELSE Append(bundle, one)
  BY DEF FinishSeries, LoadInv
<1>2. bundle \in Seq(Range(bundle))
  BY DEF LoadInv, BundleTyped
<1>3. /\ DOMAIN wanted = 1..Len(wanted) /\ Len(wanted) \in Nat /\ 1 \in DOMAIN wanted /\ h = wanted[1]
      /\ DOMAIN Tail(wanted) = 1..(Len(wanted) - 1)
      /\ \A j \in 1..(Len(wanted) - 1) : Tail(wanted)[j] = wanted[j + 1]
  BY <1>1
<1>4. one.series = h
  OBVIOUS
<1> HIDE DEF h, one
<1>5. h \in Range(wanted) /\ Range(wanted') \subseteq Range(wanted)
  <2>1. \A j \in DOMAIN Tail(wanted) : j + 1 \in DOMAIN wanted /\ Tail(wanted)[j] = wanted[j + 1]
    BY <1>3
  <2> QED BY <1>1, <1>3, <2>1 DEF Range
<1>6. \A s \in Range(wanted) : s = h \/ s \in Range(wanted')
  <2>1. ASSUME NEW i \in DOMAIN wanted, i # 1
        PROVE  \E j \in DOMAIN Tail(wanted) : Tail(wanted)[j] = wanted[i]
    <3>1. i - 1 \in 1..(Len(wanted) - 1) /\ (i - 1) + 1 = i
      BY <1>3, <2>1
    <3>2. i - 1 \in DOMAIN Tail(wanted) /\ Tail(wanted)[i - 1] = wanted[i]
      BY <1>3, <3>1
    <3> QED BY <3>2
  <2> SUFFICES ASSUME NEW s \in Range(wanted), s # h PROVE s \in Range(wanted')
    OBVIOUS
  <2>2. PICK i \in DOMAIN wanted : s = wanted[i]
    BY DEF Range
  <2>3. i # 1
    BY <1>3, <2>2
  <2>4. PICK j \in DOMAIN Tail(wanted) : Tail(wanted)[j] = s
    BY <2>1, <2>2, <2>3
  <2> QED BY <1>1, <2>4 DEF Range
<1>7. /\ \A k \in DOMAIN bundle : k \in DOMAIN Append(bundle, one) /\ Append(bundle, one)[k] = bundle[k]
      /\ \A k \in DOMAIN Append(bundle, one) : Append(bundle, one)[k] = one \/ (k \in DOMAIN bundle /\ Append(bundle, one)[k] = bundle[k])
      /\ \E k \in DOMAIN Append(bundle, one) : Append(bundle, one)[k] = one
  <2>1. DOMAIN bundle = 1..Len(bundle) /\ Len(bundle) \in Nat
    BY <1>2
  <2>2. /\ DOMAIN Append(bundle, one) = 1..(Len(bundle) + 1)
        /\ Append(bundle, one)[Len(bundle) + 1] = one
        /\ \A k \in 1..Len(bundle) : Append(bundle, one)[k] = bundle[k]
    BY <1>2
  <2> QED BY <2>1, <2>2
<1>8. CASE bundle' = bundle /\ h.kind = "liquidity" /\ rows = <<>>
  BY <1>1, <1>5, <1>6, <1>8 DEF h
<1>9. CASE bundle' = Append(bundle, one)
  <2>1. /\ \A s : There(bundle, s) => There(bundle', s)
        /\ \A s : There(bundle', s) => There(bundle, s) \/ s = h
        /\ There(bundle', h)
    BY <1>4, <1>7, <1>9 DEF There
  <2> QED BY <1>1, <1>5, <1>6, <2>1 DEF h
<1> QED BY <1>1, <1>8, <1>9

LEMMA ComesInvNext == CompileInv /\ LoadInv /\ ComesInv /\ [Next]_vars => ComesInv'
<1> SUFFICES ASSUME CompileInv, LoadInv, ComesInv, [Next]_vars, loading' \in {"listing", "reading", "loaded"}
             PROVE  ComesInv'
  BY DEF ComesInv
<1>1. ASSUME UNCHANGED <<loading, wanted, bundle, compiled>> PROVE ComesInv'
  BY <1>1 DEF ComesInv, There
<1>2. loading # "off" => UNCHANGED compilerVars
  <2>1. CASE UNCHANGED vars
    BY <2>1 DEF vars
  <2>2. CASE Next
    <3>1. loading # "off" => ~CompileGraph
      BY DEF LoadInv, CompileGraph
    <3> QED BY <2>2, <3>1, StepsOutside
  <2> QED BY <2>1, <2>2
<1>3. CASE UNCHANGED vars \/ (Next /\ ~LoadData /\ ~LoadSeries /\ ~UseInlineData)
  <2>1. UNCHANGED <<store, window, loading, wanted, lost, files, rows, bundle>>
    BY <1>3, OtherStepsLoad DEF vars, loaderVars
  <2>2. loading # "off"
    BY <2>1
  <2> QED BY <1>1, <1>2, <2>1, <2>2 DEF compilerVars
<1>4. CASE UseInlineData
  <2>1. progress = "compiling" /\ loading' = loading
    BY <1>4 DEF UseInlineData
  <2> QED BY <2>1 DEF LoadInv
<1>5. CASE LoadData
  <2>1. StartLoad(compiled.requirements, WarmupStart, job.end) /\ UNCHANGED compilerVars /\ compiling = "compiled"
    BY <1>5 DEF LoadData
  <2>2. wanted' = ToLoad(compiled.requirements) /\ (loading' = "loaded" => wanted' = <<>>) /\ compiled' = compiled
    BY <2>1 DEF StartLoad, compilerVars
  <2>3. compiled.requirements \subseteq Range(SeriesOrder)
    <3>1. compiled.requirements = DataRequirements(graph) /\ ~NodesRefused(graph) /\ job \in Jobs /\ graph = job.graph
      BY <2>1 DEF CompileInv, Emitted, Past
    <3> QED BY <3>1, JobsAssumption
  <2>4. \A s \in compiled.requirements : s.kind \in SourceKinds => s \in Range(wanted')
    BY <2>2, <2>3, ToLoadHasAll
  <2> QED BY <2>2, <2>4 DEF ComesInv
<1>6. CASE LoadSeries
  <2>1. Load /\ compiled' = compiled
    BY <1>6 DEF LoadSeries, compilerVars
  <2>2. CASE ListFiles
    <3>1. loading = "listing" /\ loading' = "reading" /\ UNCHANGED <<wanted, bundle>>
      BY <2>2 DEF ListFiles
    <3> QED BY <2>1, <3>1 DEF ComesInv, There
  <2>3. ASSUME NEW f \in files, ReadFile(f) PROVE ComesInv'
    <3>1. UNCHANGED <<loading, wanted, bundle>>
      BY <2>3 DEF ReadFile
    <3> QED BY <1>1, <2>1, <3>1
  <2>4. ASSUME NEW f \in files, ReadFails(f) PROVE ComesInv'
    BY <2>4 DEF ReadFails
  <2>5. CASE FinishSeries
    <3>1. loading = "reading" /\ (loading' = "loaded" => wanted' = <<>>)
      BY <2>5 DEF FinishSeries
    <3>2. Head(wanted).kind \in SourceKinds => There(bundle', Head(wanted))
      BY <2>5, SeriesMoves DEF SourceKinds
    <3>3. /\ \A s : There(bundle, s) => There(bundle', s)
          /\ \A s \in Range(wanted) : s = Head(wanted) \/ s \in Range(wanted')
      BY <2>5, SeriesMoves
    <3> QED BY <2>1, <3>1, <3>2, <3>3 DEF ComesInv
  <2> QED BY <2>1, <2>2, <2>3, <2>4, <2>5 DEF Load
<1> QED BY <1>3, <1>4, <1>5, <1>6

LEMMA ComesInvHolds == Spec => []ComesInv
<1>1. Init => ComesInv
  BY DEF Init, LoaderInit, ComesInv
<1>2. BacktestInv => CompileInv /\ LoadInv
  BY DEF BacktestInv, SortedInv
<1> QED BY <1>1, <1>2, ComesInvNext, BacktestInvHolds, PTL DEF Spec

\* A time of a file that is listed and in the window is a time of its series.
LEMMA StoredIsThere ==
  ASSUME CompileInv, LoadInv, SeriesInv, loading = "loaded", NEW s, There(bundle, s),
         NEW t \in Int, InWindow(t), NEW f \in FilesOf(s) \ lost, t \in Range(f.rows)
  PROVE  t \in Times(bundle, s)
<1>1. PICK k \in DOMAIN bundle : bundle[k].series = s
  BY DEF There
<1> DEFINE r == bundle[k].rows
           some == FilesOf(s) \ lost
<1>2. SeriesWhole(bundle[k]) /\ r \in Rows /\ job.store # None
  BY DEF SeriesInv, LoadInv, BundleTyped
<1>3. Occurs(t, r) = OccursIn(t, some)
  BY <1>1, <1>2 DEF SeriesWhole, Held
<1>4. HasRows(some) /\ f.rows \in Rows
  <2>1. IsFiniteSet(FilesOf(s)) /\ \A x \in FilesOf(s) : x.rows \in Rows
    BY <1>2, StoreTyped
  <2>2. IsFiniteSet(some)
    BY <2>1, FS_Subset
  <2> QED BY <2>1, <2>2 DEF HasRows
<1> HIDE DEF r, some
<1>5. OccursIn(t, some) # 0
  <2>1. f \in some
    BY DEF some
  <2>2. HasRows(some \ {f}) /\ OccursIn(t, some) = Occurs(t, f.rows) + OccursIn(t, some \ {f})
    BY <1>4, <2>1, OccursInOneLess
  <2>3. OccursIn(t, some \ {f}) \in Nat
    BY <2>2, PlacesInFinite
  <2>4. Occurs(t, f.rows) \in Nat /\ Occurs(t, f.rows) # 0
    BY <1>4, OccursCounts DEF Rows
  <2> QED BY <2>2, <2>3, <2>4
<1>6. t \in Range(r)
  BY <1>2, <1>3, <1>5, OccursCounts DEF Rows
<1> QED BY <1>1, <1>6 DEF Times, Range, r

\* Where the series of a source has a row, reading the source says something.
LEMMA RowIsRead ==
  ASSUME NEW b, NEW g, NEW s, NEW t \in Int, t \in Times(b, ResolvedSeries(g, s))
  PROVE  Reading(b, s, t).says = "value"
<1> DEFINE r == ResolvedSeries(g, s)
           series == Series(s.kind, s.venue, s.symbol)
<1>1. CASE s.kind = "candle" /\ s.venue = None
  <2>1. r.kind = "candle" /\ r.symbol = s.symbol
    BY <1>1 DEF ResolvedSeries, Series
  <2>2. PICK k \in DOMAIN b : b[k].series = r
    BY DEF Times
  <2> DEFINE of == {j \in DOMAIN b : b[j].series.kind = "candle" /\ b[j].series.symbol = s.symbol}
             known == {u \in UNION {Times(b, b[j].series) : j \in of} : u <= t}
  <2>3. k \in of
    BY <2>1, <2>2
  <2>4. t \in known
    BY <2>2, <2>3
  <2>5. known # {}
    BY <2>4
  <2>6. PriceAny(b, s.symbol, t) # {}
    BY <2>5 DEF PriceAny
  <2> QED BY <1>1, <2>6 DEF Reading, Value
<1>2. CASE ~(s.kind = "candle" /\ s.venue = None)
  <2>1. t \in Times(b, series)
    BY <1>2 DEF ResolvedSeries
  <2>2. Exact(b, series, t) # {}
    BY <2>1 DEF Exact
  <2>3. LastKnown(b, series, t) # {}
    <3>1. t \in {u \in Times(b, series) : u <= t}
      BY <2>1
    <3>2. {u \in Times(b, series) : u <= t} # {}
      BY <3>1
    <3> QED BY <3>2 DEF LastKnown
  <2> HIDE DEF series
  <2>4. Reading(b, s, t) = IF s.kind \in {"candle", "funding"} /\ s.venue # None
                           THEN Value(Exact(b, series, t)) ELSE Value(LastKnown(b, series, t))
    BY <1>2, <2>2, <2>3 DEF Reading, series
  <2> QED BY <2>4 DEF Value
<1> QED BY <1>1, <1>2

LEMMA StepsBack ==
  ASSUME NEW n \in Nat, n > 0, NEW d \in Int, d % n = 0, NEW k \in Nat
  PROVE  (d - k * n) % n = 0
<1> DEFINE q == d \div n
<1>1. q \in Int /\ d = n * q
  <2>1. d \div n \in Int /\ d = n * (d \div n) + (d % n)
    OBVIOUS
  <2> QED BY <2>1
<1> HIDE DEF q
<1>2. d - k * n = n * (q - k)
  <2>1. n * (q - k) = n * q - n * k /\ n * k = k * n
    BY <1>1
  <2> QED BY <1>1, <2>1
<1>3. ASSUME NEW x \in Int PROVE (n * x) % n = 0
  OBVIOUS
<1> QED BY <1>1, <1>2, <1>3

(* If the store has the data, a source has a value from the first tick on,    *)
(* however its windows are nested: what is loaded before the start is what    *)
(* the compiler counts, and that is no less than what the windows reach back  *)
(* to.                                                                        *)
THEOREM WarmupIsEnough == Spec => []WarmupSuffices
<1>1. BacktestInv /\ SeriesInv /\ ComesInv => WarmupSuffices
  <2> SUFFICES ASSUME BacktestInv, SeriesInv, ComesInv, now # None, window # None,
                      (now - job.start) % job.step = 0,
                      \A s \in compiled.requirements : Dense(s),
                      NEW s \in SourcesRead, WellFormed(s)
               PROVE  SourceValue(bundle, s, now, job.step).says = "value"
    BY DEF WarmupSuffices
  <2> DEFINE r == ResolvedSeries(graph, s)
             step == job.step
  <2>1. /\ CompileInv /\ LoadInv /\ RunInv /\ Running /\ BundleTyped(bundle) /\ now \in Span
        /\ job.start \in Int /\ job.end \in Int /\ job.start <= now /\ now <= job.end /\ now \in Int
        /\ step \in Nat /\ step > 0
    <3>1. CompileInv /\ LoadInv /\ RunInv /\ Running /\ BundleTyped(bundle) /\ now \in Span /\ step > 0
      BY DEF BacktestInv, SortedInv, LoadInv, RunInv, Runnable
    <3> QED BY <3>1, SpanFacts DEF Span
  <2>2. compiling = "compiled" /\ Sound(graph) /\ compiled = Emitted
    <3>1. compiling = "compiled"
      BY <2>1 DEF CompileInv, Running
    <3> QED BY <2>1, <3>1, JobGraph DEF Past, CompileInv
  <2>3. PICK n \in Enabled(graph) : s \in Observed(n)
    BY DEF SourcesRead
  <2>4. /\ s.kind \in SourceKinds
        /\ s.windows \in Seq(Range(s.windows)) /\ \A k \in DOMAIN s.windows : s.windows[k].bars \in Nat
    BY <2>2, <2>3 DEF Sound, IsGraph, SourceKinds
  <2>5. loading = "loaded" /\ window.start = WarmupStart /\ window.end = job.end
    BY <2>1 DEF LoadInv, LoadWindow, Running
  <2>6. r \in compiled.requirements /\ r.kind = s.kind
    <3>1. r \in Needs(graph, n)
      BY <2>3 DEF Needs, Observed
    <3>2. r.kind = s.kind
      BY DEF ResolvedSeries, Series
    <3> QED BY <2>2, <3>1, <3>2 DEF DataRequirements, Emitted
  <2>7. There(bundle, r)
    <3>1. r \in Range(wanted) \/ There(bundle, r)
      BY <2>4, <2>5, <2>6 DEF ComesInv
    <3>2. Range(wanted) = {}
      BY <2>5 DEF ComesInv, Range
    <3> QED BY <3>1, <3>2
  <2>8. /\ Reach(s) \in Int /\ Reach(s) <= compiled.lookback /\ compiled.lookback \in Nat
    <3>1. Reach(s) \in Int /\ SourceLookback(s) \in Int /\ Reach(s) <= SourceLookback(s)
      BY <2>4, ReachIsCounted
    <3>2. LookbackBars(graph) \in Nat /\ SourceLookback(s) <= LookbackBars(graph)
      BY <2>2, <2>3, LookbackNat
    <3>3. compiled.lookback = LookbackBars(graph)
      BY <2>2 DEF Emitted
    <3> QED BY <3>1, <3>2, <3>3
  <2> HIDE DEF r
  <2>9. ASSUME NEW k \in 0..Reach(s) PROVE Reading(bundle, s, now - k * step).says = "value"
    <3> DEFINE t == now - k * step
    <3>1. k \in Nat /\ k <= compiled.lookback
      BY <2>8
    <3>2. t \in Int /\ t <= job.end
      <4>1. k * step \in Nat
        BY <2>1, <3>1
      <4> QED BY <2>1, <4>1
    <3>3. WarmupStart <= t /\ WarmupStart \in Int
      <4> DEFINE b == compiled.lookback
      <4>1. b \in Nat /\ k <= b
        BY <2>8, <3>1
      <4> HIDE DEF b
      <4>2. k * step <= b * step /\ k * step \in Int /\ b * step \in Int
        BY <2>1, <3>1, <4>1
      <4>3. WarmupStart = job.start - b * step
        BY DEF WarmupStart, b
      <4> QED BY <2>1, <4>2, <4>3
    <3>4. (t - job.start) % step = 0
      <4> DEFINE d == now - job.start
      <4>1. d \in Int /\ d % step = 0
        BY <2>1
      <4>2. t - job.start = d - k * step
        <5>1. k * step \in Int
          BY <2>1, <3>1
        <5> QED BY <2>1, <5>1
      <4> HIDE DEF d
      <4>3. (d - k * step) % step = 0
        BY <2>1, <3>1, <4>1, StepsBack
      <4> QED BY <4>2, <4>3
    <3> HIDE DEF t
    <3>5. t \in Grid(window.start)
      BY <2>1, <2>5, <3>2, <3>3, <3>4 DEF Grid
    <3>6. PICK f \in FilesOf(r) \ lost : t \in Range(f.rows)
      BY <2>6, <3>5 DEF Dense
    <3>7. InWindow(t)
      BY <2>5, <3>2, <3>3 DEF InWindow
    <3>8. t \in Times(bundle, r)
      BY <2>1, <2>5, <2>7, <3>2, <3>6, <3>7, StoredIsThere
    <3>9. Reading(bundle, s, t).says = "value"
      BY <3>2, <3>8, RowIsRead DEF r
    <3> QED BY <3>9 DEF t
  <2> QED BY <2>1, <2>4, <2>9, ObservedSays
<1> QED BY <1>1, SeriesInvInit, SeriesInvNext, ComesInvHolds, BacktestInvHolds, PTL DEF Spec, BacktestInv, SortedInv
-----------------------------------------------------------------------------
(* A backtest implements the abstract replay.                                 *)

LEMMA CountedIsInAFile ==
  ASSUME NEW some, HasRows(some), NEW t
  PROVE  OccursIn(t, some) # 0 <=> \E f \in some : t \in Range(f.rows)
<1>1. ASSUME NEW f \in some, t \in Range(f.rows) PROVE OccursIn(t, some) # 0
  <2>1. HasRows(some \ {f}) /\ OccursIn(t, some) = Occurs(t, f.rows) + OccursIn(t, some \ {f})
    BY OccursInOneLess
  <2>2. OccursIn(t, some \ {f}) \in Nat
    BY <2>1, PlacesInFinite
  <2>3. Occurs(t, f.rows) \in Nat /\ Occurs(t, f.rows) # 0
    BY <1>1, OccursCounts DEF HasRows, Rows
  <2> QED BY <2>1, <2>2, <2>3
<1>2. ASSUME \A f \in some : t \notin Range(f.rows) PROVE OccursIn(t, some) = 0
  <2>1. \A f \in some : \A i \in DOMAIN f.rows : f.rows[i] # t
    BY <1>2 DEF Range
  <2>2. OccursIn(t, {}) = OccursIn(t, some)
    BY <2>1, OccursInThoseWithIt
  <2> QED BY <2>2, OccursInNone
<1> QED BY <1>1, <1>2

\* Of a series that is not there, no file that was found has a row in the window.
Bare(s) == \A f \in FilesOf(s) \ lost : \A t \in Range(f.rows) : ~InWindow(t)

AskedSeries == Range(ToLoad(compiled.requirements))

GatherInv ==
  /\ progress = "loading" => loading # "off"
  /\ loading # "off" => job.data = None
  /\ loading \in {"listing", "reading", "loaded"} =>
       /\ Range(wanted) \subseteq AskedSeries
       /\ \A s : There(bundle, s) => s \in AskedSeries
       /\ \A s \in AskedSeries : s \in Range(wanted) \/ There(bundle, s) \/ Bare(s)

LEMMA NothingOfIt ==
  ASSUME CompileInv, LoadInv, SeriesInv, loading = "reading", files = {}, rows = <<>>
  PROVE  Bare(Head(wanted))
<1> DEFINE some == FilesOf(Head(wanted)) \ lost
<1>1. HasRows(some)
  <2>1. job.store # None
    BY DEF LoadInv
  <2>2. IsFiniteSet(FilesOf(Head(wanted))) /\ \A x \in FilesOf(Head(wanted)) : x.rows \in Rows
    BY <2>1, StoreTyped
  <2>3. IsFiniteSet(some)
    BY <2>2, FS_Subset
  <2> QED BY <2>2, <2>3 DEF HasRows
<1> SUFFICES ASSUME NEW f \in some, NEW t \in Range(f.rows), InWindow(t) PROVE FALSE
  BY DEF Bare
<1>2. t \in Int
  <2>1. f.rows \in Seq(Int)
    BY <1>1 DEF HasRows, Rows
  <2> QED BY <2>1, OccursCounts
<1>3. Occurs(t, rows) + Held(t, {}) = Held(t, some)
  BY <1>2 DEF SeriesInv
<1>4. Held(t, {}) = 0
  BY OccursInNone DEF Held
<1>5. Occurs(t, <<>>) = 0
  <2>1. t \notin Range(<<>>) /\ <<>> \in Seq(Int)
    BY DEF Range
  <2> QED BY <2>1, OccursCounts
<1>6. OccursIn(t, some) = 0
  BY <1>3, <1>4, <1>5 DEF Held
<1> HIDE DEF some
<1> QED BY <1>1, <1>6, CountedIsInAFile

LEMMA GatherInvNext == CompileInv /\ LoadInv /\ SeriesInv /\ GatherInv /\ [Next]_vars => GatherInv'
<1> SUFFICES ASSUME CompileInv, LoadInv, SeriesInv, GatherInv, [Next]_vars PROVE GatherInv'
  OBVIOUS
<1>1. UNCHANGED <<job, store>> /\ (loading # "off" => compiled' = compiled)
  <2>1. CASE UNCHANGED vars
    BY <2>1 DEF vars, compilerVars, loaderVars
  <2>2. CASE Next
    <3>1. loading # "off" => ~CompileGraph
      BY DEF LoadInv, CompileGraph
    <3> QED BY <2>2, <3>1, StepsOutside DEF compilerVars
  <2> QED BY <2>1, <2>2
<1>2. \A s : FilesOf(s)' = FilesOf(s)
  BY <1>1 DEF FilesOf
<1>3. ASSUME UNCHANGED window, lost \subseteq lost', NEW s, Bare(s) PROVE Bare(s)'
  BY <1>2, <1>3 DEF Bare, InWindow
<1>4. CASE UNCHANGED vars \/ (Next /\ ~LoadData /\ ~LoadSeries /\ ~UseInlineData)
  <2>1. UNCHANGED <<window, loading, wanted, lost, bundle>>
    BY <1>4, OtherStepsLoad DEF vars, loaderVars
  <2>2. progress' = "loading" => progress = "loading"
    <3>1. CASE UNCHANGED vars
      BY <3>1 DEF vars
    <3>2. CASE \E filled \in SUBSET Actions : Cardinality(filled) <= 1 /\ Tick(filled)
      BY <3>2 DEF Tick
    <3>3. CASE CompileGraph \/ Terminated
      BY <3>3 DEF CompileGraph, Terminated, vars
    <3>4. CASE GraphRefused \/ NoData \/ LoadFailed \/ PolicyRefused \/ CoverageRefused
      BY <3>4 DEF GraphRefused, NoData, LoadFailed, PolicyRefused, CoverageRefused, Fail
    <3>5. CASE LoadEnds \/ Resolve \/ BeginTicks \/ Panic \/ End
      BY <3>5 DEF LoadEnds, Resolve, BeginTicks, Panic, End
    <3> QED BY <1>4, <3>1, <3>2, <3>3, <3>4, <3>5 DEF Next
  <2> QED BY <1>1, <1>3, <2>1, <2>2 DEF GatherInv, AskedSeries, There
<1>5. CASE UseInlineData
  <2>1. progress = "compiling" /\ loading' = loading /\ progress' = "resolving"
    BY <1>5 DEF UseInlineData
  <2>2. loading = "off"
    BY <2>1 DEF LoadInv
  <2> QED BY <2>1, <2>2 DEF GatherInv
<1>6. CASE LoadData
  <2>1. /\ StartLoad(compiled.requirements, WarmupStart, job.end) /\ progress = "compiling" /\ job.data = None
        /\ UNCHANGED compilerVars
    BY <1>6 DEF LoadData
  <2>2. /\ wanted' = ToLoad(compiled.requirements) /\ bundle' = bundle /\ loading' \in {"loaded", "listing"}
        /\ compiled' = compiled
    BY <2>1 DEF StartLoad, compilerVars
  <2>3. bundle' = <<>>
    BY <2>1, <2>2 DEF SeriesInv
  <2>4. \A s : ~There(bundle', s)
    BY <2>3 DEF There
  <2>5. Range(wanted') = AskedSeries'
    BY <2>2 DEF AskedSeries
  <2> QED BY <1>1, <2>1, <2>2, <2>4, <2>5 DEF GatherInv
<1>7. CASE LoadSeries
  <2>1. Load /\ progress' = progress /\ progress = "loading"
    BY <1>7 DEF LoadSeries
  <2>2. loading # "off" /\ compiled' = compiled /\ job.data = None
    BY <1>1, <2>1 DEF GatherInv
  <2>3. AskedSeries' = AskedSeries
    BY <2>2 DEF AskedSeries
  <2>4. CASE ListFiles
    <3>1. loading = "listing" /\ loading' = "reading" /\ UNCHANGED <<window, wanted, bundle>> /\ lost \subseteq lost'
      BY <2>4 DEF ListFiles
    <3> QED BY <1>1, <1>3, <2>1, <2>2, <2>3, <3>1 DEF GatherInv, There
  <2>5. ASSUME NEW f \in files, ReadFile(f) PROVE GatherInv'
    <3>1. UNCHANGED <<window, loading, wanted, bundle, lost>>
      BY <2>5 DEF ReadFile
    <3> QED BY <1>1, <1>3, <2>1, <2>2, <2>3, <3>1 DEF GatherInv, There
  <2>6. ASSUME NEW f \in files, ReadFails(f) PROVE GatherInv'
    <3>1. loading' = "failed"
      BY <2>6 DEF ReadFails
    <3> QED BY <1>1, <2>1, <2>2, <3>1 DEF GatherInv
  <2>7. CASE FinishSeries
    <3>1. /\ loading = "reading" /\ files = {} /\ loading' \in {"loaded", "listing"}
          /\ UNCHANGED <<window, lost>>
      BY <2>7 DEF FinishSeries
    <3>2. There(bundle', Head(wanted)) \/ Bare(Head(wanted))
      BY <2>7, <3>1, SeriesMoves, NothingOfIt
    <3>3. /\ Range(wanted) \subseteq AskedSeries
          /\ \A s : There(bundle, s) => s \in AskedSeries
          /\ \A s \in AskedSeries : s \in Range(wanted) \/ There(bundle, s) \/ Bare(s)
      BY <3>1 DEF GatherInv
    <3>4. \A s : There(bundle, s)' <=> There(bundle', s)
      BY DEF There
    <3>5. \A s \in AskedSeries : s \in Range(wanted') \/ There(bundle', s) \/ Bare(s)
      BY <2>7, <3>2, <3>3, SeriesMoves
    <3>6. \A s : Bare(s) => Bare(s)'
      BY <1>3, <3>1
    <3>7. Range(wanted') \subseteq AskedSeries /\ \A s : There(bundle', s) => s \in AskedSeries
      BY <2>7, <3>3, SeriesMoves
    <3> QED BY <1>1, <2>1, <2>2, <2>3, <3>1, <3>4, <3>5, <3>6, <3>7 DEF GatherInv
  <2> QED BY <2>1, <2>4, <2>5, <2>6, <2>7 DEF Load
<1> QED BY <1>4, <1>5, <1>6, <1>7

\* The entries of the store, and those found.
LEMMA EntriesOfStore ==
  ASSUME CompileInv, LoadInv, GatherInv, loading # "off"
  PROVE  /\ \A x \in Files : x.file \in FilesOf(x.series)
         /\ \A s : \A f \in FilesOf(s) : [series |-> s, file |-> f] \in Files
         /\ Files \ Missed = {x \in Files : x.file \notin lost}
<1>1. job.data = None /\ store = job.store /\ job.store # None
  BY DEF GatherInv, CompileInv, LoadInv
<1>2. Files = UNION {{[series |-> s, file |-> f] : f \in store[s]} : s \in DOMAIN store}
  BY <1>1 DEF Files
<1>3. ASSUME NEW x \in Files PROVE x.file \in FilesOf(x.series)
  <2>1. PICK s \in DOMAIN store : x \in {[series |-> s, file |-> f] : f \in store[s]}
    BY <1>2
  <2>2. PICK f \in store[s] : x = [series |-> s, file |-> f]
    BY <2>1
  <2> QED BY <2>2 DEF FilesOf
<1>4. ASSUME NEW s, NEW f \in FilesOf(s) PROVE [series |-> s, file |-> f] \in Files
  <2>1. s \in DOMAIN store /\ f \in store[s]
    BY DEF FilesOf
  <2> QED BY <1>2, <2>1
<1> QED BY <1>3, <1>4 DEF Missed

RowsLoaded ==
  UNION {{[series |-> bundle[k].series, ts |-> bundle[k].rows[i]] : i \in DOMAIN bundle[k].rows} :
           k \in DOMAIN bundle}

RowsFound ==
  {r \in RP!Rows(Files \ Missed) : r.series \in AskedSeries /\ window.start <= r.ts /\ r.ts <= job.end}

LEMMA LoadedIsFound ==
  ASSUME CompileInv, LoadInv, SeriesInv, ComesInv, GatherInv, loading = "loaded"
  PROVE  RowsLoaded = RowsFound
<1>1. window.end = job.end /\ job.store # None /\ BundleTyped(bundle)
  BY DEF LoadInv, LoadWindow
<1>2. ASSUME NEW s PROVE HasRows(FilesOf(s) \ lost)
  <2>1. IsFiniteSet(FilesOf(s)) /\ \A x \in FilesOf(s) : x.rows \in Rows
    BY <1>1, StoreTyped
  <2>2. IsFiniteSet(FilesOf(s) \ lost)
    BY <2>1, FS_Subset
  <2> QED BY <2>1, <2>2 DEF HasRows
<1>3. ASSUME NEW k \in DOMAIN bundle, NEW i \in DOMAIN bundle[k].rows
      PROVE  [series |-> bundle[k].series, ts |-> bundle[k].rows[i]] \in RowsFound
  <2> DEFINE s == bundle[k].series
             t == bundle[k].rows[i]
             some == FilesOf(s) \ lost
             r == [series |-> s, ts |-> t]
  <2>1. SeriesWhole(bundle[k]) /\ bundle[k].rows \in Seq(Int) /\ s \in AskedSeries
    BY <1>1 DEF SeriesInv, GatherInv, There, BundleTyped, Rows
  <2>2. t \in Int /\ t \in Range(bundle[k].rows)
    BY <2>1 DEF Range
  <2>3. Occurs(t, bundle[k].rows) # 0
    BY <2>1, <2>2, OccursCounts
  <2>4. InWindow(t) /\ OccursIn(t, some) # 0
    BY <2>1, <2>2, <2>3 DEF SeriesWhole, Held
  <2>5. PICK f \in some : t \in Range(f.rows)
    <3> HIDE DEF some, t
    <3> QED BY <1>2, <2>4, CountedIsInAFile DEF some
  <2>6. PICK j \in DOMAIN f.rows : f.rows[j] = t
    BY <2>5 DEF Range
  <2> DEFINE x == [series |-> s, file |-> f]
  <2>7. x \in Files \ Missed
    BY EntriesOfStore
  <2>8. r = [series |-> x.series, ts |-> x.file.rows[j]] /\ j \in DOMAIN x.file.rows
    BY <2>6
  <2>9. r \in RP!Rows(Files \ Missed)
    <3> HIDE DEF x, r
    <3> QED BY <2>7, <2>8 DEF RP!Rows
  <2> QED BY <1>1, <2>1, <2>4, <2>9 DEF RowsFound, InWindow
<1>4. ASSUME NEW r \in RowsFound PROVE r \in RowsLoaded
  <2>1. PICK x \in Files \ Missed : \E j \in DOMAIN x.file.rows : r = [series |-> x.series, ts |-> x.file.rows[j]]
    BY DEF RowsFound, RP!Rows
  <2>2. PICK j \in DOMAIN x.file.rows : r = [series |-> x.series, ts |-> x.file.rows[j]]
    BY <2>1
  <2> DEFINE s == x.series
             t == x.file.rows[j]
  <2>3. x.file \in FilesOf(s) \ lost /\ x.file.rows \in Seq(Int)
    BY <1>2, EntriesOfStore DEF HasRows, Rows
  <2>4. t \in Range(x.file.rows) /\ t \in Int
    BY <2>3 DEF Range
  <2>5. InWindow(t) /\ s \in AskedSeries
    BY <1>1, <2>2 DEF RowsFound, InWindow
  <2>6. ~Bare(s)
    BY <2>3, <2>4, <2>5 DEF Bare
  <2>7. wanted = <<>> /\ There(bundle, s)
    <3>1. wanted = <<>>
      BY DEF ComesInv
    <3>2. s \notin Range(wanted)
      BY <3>1 DEF Range
    <3> QED BY <2>5, <2>6, <3>1, <3>2 DEF GatherInv
  <2>8. t \in Times(bundle, s)
    BY <2>3, <2>4, <2>5, <2>7, StoredIsThere
  <2>9. PICK k \in DOMAIN bundle : bundle[k].series = s /\ \E i \in DOMAIN bundle[k].rows : bundle[k].rows[i] = t
    BY <2>8 DEF Times
  <2> QED BY <2>2, <2>9 DEF RowsLoaded
<1> QED BY <1>3, <1>4 DEF RowsLoaded

ReplayInv == CompileInv /\ LoadInv /\ RunInv /\ SeriesInv /\ ComesInv /\ GatherInv

LEMMA ReplayInvHolds == Spec => []ReplayInv
<1>1. Init => GatherInv
  BY DEF Init, LoaderInit, GatherInv
<1>2. BacktestInv => CompileInv /\ LoadInv /\ RunInv
  BY DEF BacktestInv, SortedInv
<1> QED BY <1>1, <1>2, GatherInvNext, SeriesInvInit, SeriesInvNext, ComesInvHolds, BacktestInvHolds, PTL
        DEF Spec, ReplayInv

LEMMA StartsReplay == Init => RP!Init
<1> SUFFICES ASSUME Init PROVE RP!Init
  OBVIOUS
<1>1. /\ job \in Jobs /\ progress = "compiling" /\ loading = "off" /\ ticks = <<>> /\ now = None
      /\ lost = {} /\ bundle = <<>>
  BY DEF Init, LoaderInit
<1>2. job.start <= job.end
  BY <1>1, JobsAssumption
<1>3. Asked = None /\ Missed = {} /\ History = {} /\ RunStatus = "asking" /\ Range(ticks) = {}
  BY <1>1 DEF Asked, Missed, History, RunStatus, Range
<1> QED BY <1>1, <1>2, <1>3 DEF RP!Init

\* A step that fails or panics stops the replay.
LEMMA StopsReplay ==
  ASSUME progress \in {"compiling", "loading", "resolving", "covering", "ticking"},
         progress = "loading" => loading = "failed",
         progress' \in {"failed", "panicked"},
         UNCHANGED <<job, engineVars, compilerVars, loaderVars>>
  PROVE  RP!Stop
<1>1. UNCHANGED <<job, store, compiled, loading, window, lost, bundle, ticks, now>>
  BY DEF engineVars, compilerVars, loaderVars
<1>2. Files' = Files /\ Asked' = Asked /\ Missed' = Missed
  BY <1>1 DEF Files, Asked, Missed
<1>3. History' = History
  BY <1>1 DEF History
<1>4. RunStatus \in {"asking", "gathering", "gathered", "replaying"} /\ RunStatus' = "stopped"
  BY DEF RunStatus
<1> QED BY <1>1, <1>2, <1>3, <1>4 DEF RP!Stop

\* A step of which the replay sees nothing.
LEMMA UnseenSteps ==
  ASSUME UNCHANGED <<job, store, loading, window, lost, bundle, ticks, now>>, RunStatus' = RunStatus,
         loading # "off" => compiled' = compiled,
         progress' = "loading" <=> progress = "loading"
  PROVE  UNCHANGED RP!vars
<1>1. Files' = Files /\ Missed' = Missed
  BY DEF Files, Missed
<1>2. Asked' = Asked
  BY DEF Asked
<1>3. History' = History
  BY DEF History
<1> QED BY <1>1, <1>2, <1>3 DEF RP!vars

LEMMA BringsData ==
  ASSUME ReplayInv, UseInlineData
  PROVE  RP!Bring
<1>1. /\ progress = "compiling" /\ progress' = "resolving" /\ job.data # None /\ bundle' = job.data
      /\ UNCHANGED <<job, store, compiled, loading, window, lost, ticks, now>>
  BY DEF UseInlineData, engineVars, compilerVars
<1>2. loading = "off"
  BY <1>1 DEF ReplayInv, LoadInv
<1>3. Files' = Files /\ Missed' = Missed /\ Asked' = Asked
  BY <1>1 DEF Files, Missed, Asked
<1>4. Files = {[series |-> job.data[k].series, file |-> job.data[k]] : k \in DOMAIN job.data}
  BY <1>1 DEF Files
<1>5. History' = RP!Rows(Files)
  <2> DEFINE d == job.data
  <2>1. History' = UNION {{[series |-> d[k].series, ts |-> d[k].rows[i]] : i \in DOMAIN d[k].rows} : k \in DOMAIN d}
    BY <1>1, <1>2 DEF History
  <2>2. ASSUME NEW x, x \in RP!Rows(Files)
        PROVE  \E k \in DOMAIN d : x \in {[series |-> d[k].series, ts |-> d[k].rows[i]] : i \in DOMAIN d[k].rows}
    <3>1. PICK f \in Files : x \in {[series |-> f.series, ts |-> f.file.rows[i]] : i \in DOMAIN f.file.rows}
      BY <2>2 DEF RP!Rows
    <3>2. PICK k \in DOMAIN d : f = [series |-> d[k].series, file |-> d[k]]
      BY <1>4
    <3> QED BY <3>1, <3>2
  <2>3. ASSUME NEW k \in DOMAIN d, NEW i \in DOMAIN d[k].rows
        PROVE  [series |-> d[k].series, ts |-> d[k].rows[i]] \in RP!Rows(Files)
    <3> DEFINE f == [series |-> d[k].series, file |-> d[k]]
    <3>1. f \in Files /\ f.series = d[k].series /\ f.file = d[k]
      BY <1>4
    <3> HIDE DEF f, d
    <3> QED BY <3>1 DEF RP!Rows
  <2> HIDE DEF d
  <2> QED BY <2>1, <2>2, <2>3
<1>6. RunStatus = "asking" /\ RunStatus' = "gathered"
  BY <1>1 DEF RunStatus
<1> QED BY <1>1, <1>3, <1>5, <1>6 DEF RP!Bring

LEMMA AsksForData ==
  ASSUME ReplayInv, ReplayInv', LoadData
  PROVE  RP!Ask
<1>1. /\ progress = "compiling" /\ progress' = "loading" /\ loading' # "off"
      /\ window' = [start |-> WarmupStart, end |-> job.end]
      /\ UNCHANGED <<job, store, compiled, lost, bundle, ticks, now>>
  BY DEF LoadData, StartLoad, engineVars, compilerVars
<1>2. loading = "off" /\ bundle = <<>>
  BY <1>1 DEF ReplayInv, LoadInv, SeriesInv
<1>3. Files' = Files /\ Missed' = Missed
  BY <1>1 DEF Files, Missed
<1>4. History = {} /\ History' = {}
  BY <1>1, <1>2 DEF History
<1>5. RunStatus = "asking" /\ RunStatus' = "gathering"
  BY <1>1 DEF RunStatus
<1>6. Asked'.from = WarmupStart
  BY <1>1 DEF Asked
<1>7. WarmupStart <= job.start
  <2>1. compiling = "compiled"
    BY DEF LoadData
  <2>2. Sound(graph) /\ compiled.lookback = LookbackBars(graph)
    BY <2>1, JobGraph DEF ReplayInv, CompileInv, Past, Emitted
  <2>3. compiled.lookback \in Nat
    BY <2>2, LookbackNat
  <2>4. job.start \in Int /\ job.step \in Nat
    BY SpanFacts DEF ReplayInv
  <2>5. compiled.lookback * job.step \in Nat
    BY <2>3, <2>4
  <2> QED BY <2>4, <2>5 DEF WarmupStart
<1> QED BY <1>1, <1>3, <1>4, <1>5, <1>6, <1>7 DEF RP!Ask

LEMMA LoadsUnseen ==
  ASSUME ReplayInv, LoadSeries
  PROVE  RP!PassOver \/ UNCHANGED RP!vars
<1>1. /\ Load /\ progress = "loading" /\ progress' = "loading" /\ loading # "off"
      /\ UNCHANGED <<job, compiled, ticks, now>>
  BY DEF LoadSeries, engineVars, compilerVars, ReplayInv, GatherInv
<1>2. loading' # "off" /\ UNCHANGED <<store, window>> /\ lost \subseteq lost' /\ (~ListFiles => lost' = lost)
  BY <1>1 DEF Load, ListFiles, ReadFile, ReadFails, FinishSeries
<1>3. Files' = Files /\ Asked' = Asked /\ History = {} /\ History' = {} /\ RunStatus' = RunStatus
  BY <1>1, <1>2 DEF Files, Asked, History, RunStatus
<1>4. Missed \subseteq Missed' /\ Missed' \subseteq Files /\ (~ListFiles => Missed' = Missed)
  BY <1>2, <1>3 DEF Missed
<1>5. RunStatus = "gathering"
  BY <1>1 DEF RunStatus
<1>6. CASE ListFiles
  BY <1>1, <1>3, <1>4, <1>5 DEF RP!PassOver
<1>7. CASE ~ListFiles
  BY <1>1, <1>3, <1>4, <1>7 DEF RP!vars
<1> QED BY <1>6, <1>7

LEMMA GathersData ==
  ASSUME ReplayInv, LoadEnds
  PROVE  RP!Gather
<1>1. /\ progress = "loading" /\ progress' = "resolving" /\ loading = "loaded"
      /\ UNCHANGED <<job, store, compiled, loading, window, lost, bundle, ticks, now>>
  BY DEF LoadEnds, engineVars, compilerVars, loaderVars
<1>2. Files' = Files /\ Missed' = Missed /\ Asked' = Asked
  BY <1>1 DEF Files, Missed, Asked
<1>3. Asked.series = AskedSeries /\ Asked.from = window.start
  BY <1>1 DEF Asked, AskedSeries
<1>4. History' = RowsLoaded
  BY <1>1 DEF History, RowsLoaded
<1>5. RowsLoaded = RowsFound
  BY <1>1, LoadedIsFound DEF ReplayInv
<1>6. RunStatus = "gathering" /\ RunStatus' = "gathered"
  BY <1>1 DEF RunStatus
<1>7. RowsFound = {r \in RP!Rows(Files \ Missed) :
                     r.series \in Asked.series /\ Asked.from <= r.ts /\ r.ts <= job.end}
  BY <1>3 DEF RowsFound
<1> QED BY <1>1, <1>2, <1>4, <1>5, <1>6, <1>7 DEF RP!Gather

\* The times of the rows loaded are those the clock is made of.
LEMMA LoadedTimes ==
  ASSUME BundleTyped(bundle)
  PROVE  /\ RowsLoaded \in SUBSET [series : {bundle[k].series : k \in DOMAIN bundle}, ts : Int]
         /\ \A kinds : \A t :
              t \in TimesOf(bundle, kinds) <=> \E r \in RowsLoaded : r.series.kind \in kinds /\ r.ts = t
<1>1. ASSUME NEW k \in DOMAIN bundle, NEW i \in DOMAIN bundle[k].rows PROVE bundle[k].rows[i] \in Int
  BY DEF BundleTyped, Rows
<1>2. ASSUME NEW r \in RowsLoaded
      PROVE  \E k \in DOMAIN bundle : \E i \in DOMAIN bundle[k].rows :
               r = [series |-> bundle[k].series, ts |-> bundle[k].rows[i]]
  BY DEF RowsLoaded
<1>3. ASSUME NEW kinds, NEW t, t \in TimesOf(bundle, kinds)
      PROVE  \E r \in RowsLoaded : r.series.kind \in kinds /\ r.ts = t
  <2>1. PICK k \in DOMAIN bundle : bundle[k].series.kind \in kinds /\ t \in Times(bundle, bundle[k].series)
    BY <1>3 DEF TimesOf
  <2>2. PICK j \in DOMAIN bundle : bundle[j].series = bundle[k].series /\ \E i \in DOMAIN bundle[j].rows : bundle[j].rows[i] = t
    BY <2>1 DEF Times
  <2>3. PICK i \in DOMAIN bundle[j].rows : bundle[j].rows[i] = t
    BY <2>2
  <2> DEFINE r == [series |-> bundle[j].series, ts |-> bundle[j].rows[i]]
  <2>4. r \in RowsLoaded /\ r.series = bundle[j].series /\ r.ts = t
    BY <2>3 DEF RowsLoaded
  <2> HIDE DEF r
  <2> QED BY <2>1, <2>2, <2>4
<1>4. ASSUME NEW kinds, NEW r \in RowsLoaded, r.series.kind \in kinds PROVE r.ts \in TimesOf(bundle, kinds)
  <2>1. PICK k \in DOMAIN bundle : \E i \in DOMAIN bundle[k].rows :
               r = [series |-> bundle[k].series, ts |-> bundle[k].rows[i]]
    BY <1>2
  <2>2. r.series = bundle[k].series /\ r.ts \in Times(bundle, bundle[k].series)
    BY <2>1 DEF Times
  <2> QED BY <1>4, <2>2 DEF TimesOf
<1>5. ASSUME NEW r \in RowsLoaded
      PROVE  r \in [series : {bundle[k].series : k \in DOMAIN bundle}, ts : Int]
  BY <1>1, <1>2
<1> QED BY <1>3, <1>4, <1>5

LEMMA BeginsReplay ==
  ASSUME ReplayInv, BeginTicks
  PROVE  RP!Begin
<1>1. /\ progress = "covering" /\ progress' = "ticking" /\ ticks' = Ascending(AllTicks)
      /\ UNCHANGED <<job, store, compiled, loading, window, lost, bundle, now>>
  BY DEF BeginTicks, AllTicks, compilerVars, loaderVars
<1>2. Files' = Files /\ Missed' = Missed /\ Asked' = Asked
  BY <1>1 DEF Files, Missed, Asked
<1>3. History = RowsLoaded /\ History' = History
  BY <1>1 DEF History, RowsLoaded, ReplayInv, LoadInv
<1>4. RunStatus = "gathered" /\ RunStatus' = "replaying"
  BY <1>1 DEF RunStatus
<1>5. AllTicks \subseteq Span /\ Span \subseteq Int /\ IsFiniteSet(Span) /\ BundleTyped(bundle)
  BY SpanFacts, ClockTyped DEF ReplayInv, LoadInv, Span, AllTicks
<1>6. Range(ticks') = AllTicks
  <2> DEFINE S == AllTicks
  <2>1. S \in SUBSET Int /\ IsFiniteSet(S)
    BY <1>5, FS_Subset
  <2>2. Ascending(S) \in Seq(S) /\ \A x \in S : \E i \in DOMAIN Ascending(S) : Ascending(S)[i] = x
    <3> HIDE DEF S
    <3> QED BY <2>1, AscendingLists
  <2> HIDE DEF S
  <2>3. Range(Ascending(S)) = S
    BY <2>2 DEF Range
  <2> QED BY <1>1, <2>3 DEF S
<1> DEFINE start == job.start
           end == job.end
           candles == Within(TimesOf(bundle, {"candle"}), start, end)
           others == Within(TimesOf(bundle, {"funding", "yield", "liquidity"}), start, end)
           InSpan == {r \in RowsLoaded : start <= r.ts /\ r.ts <= end}
<1>7. candles = {r.ts : r \in {x \in InSpan : x.series.kind = "candle"}}
  <2>1. \A t : t \in TimesOf(bundle, {"candle"}) <=> \E r \in RowsLoaded : r.series.kind = "candle" /\ r.ts = t
    <3>1. \A t : t \in TimesOf(bundle, {"candle"}) <=> \E r \in RowsLoaded : r.series.kind \in {"candle"} /\ r.ts = t
      BY <1>5, LoadedTimes
    <3> QED BY <3>1
  <2> QED BY <2>1 DEF Within
<1>8. others \subseteq {r.ts : r \in InSpan}
  <2>1. \A t : t \in TimesOf(bundle, {"funding", "yield", "liquidity"}) => \E r \in RowsLoaded : r.ts = t
    BY <1>5, LoadedTimes
  <2> QED BY <2>1 DEF Within
<1> HIDE DEF candles, others
<1>9. Clock(bundle, start, end) = IF candles # {} THEN candles ELSE others
  BY DEF Clock, candles, others
<1>10. /\ candles \subseteq AllTicks /\ AllTicks # {}
       /\ AllTicks \subseteq {r.ts : r \in InSpan} \cup {start}
  <2>1. Clock(bundle, start, end) \subseteq AllTicks /\ AllTicks \subseteq Clock(bundle, start, end) \cup {start}
        /\ AllTicks # {}
    BY DEF AllTicks, RunTimes
  <2>2. candles \subseteq {r.ts : r \in InSpan}
    BY <1>7
  <2> QED BY <1>8, <1>9, <2>1, <2>2
<1>11. /\ RP!InSpan(History) = InSpan
       /\ RP!TimesOf(InSpan) = {r.ts : r \in InSpan}
       /\ RP!TimesOf({r \in InSpan : r.series.kind = "candle"}) = candles
  BY <1>3, <1>7 DEF RP!InSpan, RP!TimesOf
<1> QED BY <1>1, <1>2, <1>3, <1>4, <1>6, <1>10, <1>11 DEF RP!Begin

LEMMA TicksReplay ==
  ASSUME ReplayInv, NEW filled, Tick(filled)
  PROVE  RP!Tick
<1>1. /\ progress = "ticking" /\ progress' = "ticking" /\ ticks # <<>> /\ now' = Head(ticks) /\ ticks' = Tail(ticks)
      /\ UNCHANGED <<job, store, compiled, loading, window, lost, bundle>>
  BY DEF Tick, compilerVars, loaderVars
<1>2. Files' = Files /\ Missed' = Missed /\ Asked' = Asked
  BY <1>1 DEF Files, Missed, Asked
<1>3. History' = History
  BY <1>1 DEF History
<1>4. RunStatus = "replaying" /\ RunStatus' = "replaying"
  BY <1>1 DEF RunStatus
<1>5. ticks \in Seq(Int) /\ Climbs(ticks)
  <2>1. ticks \in Seq(Span) /\ Span \subseteq Int /\ Climbs(ticks)
    BY SpanFacts DEF ReplayInv, RunInv
  <2> QED BY <2>1, SeqsGrow
<1>6. /\ Len(ticks) \in Nat /\ DOMAIN ticks = 1..Len(ticks) /\ 1 \in DOMAIN ticks /\ Head(ticks) = ticks[1]
      /\ DOMAIN Tail(ticks) = 1..(Len(ticks) - 1)
      /\ \A j \in 1..(Len(ticks) - 1) : Tail(ticks)[j] = ticks[j + 1]
      /\ \A i \in DOMAIN ticks : ticks[i] \in Int
  BY <1>1, <1>5
<1>7. \A i \in DOMAIN ticks : i # 1 => ticks[1] < ticks[i]
  BY <1>6, <1>5 DEF Climbs
<1>8. now' \in Range(ticks) /\ \A t \in Range(ticks) : now' <= t
  BY <1>1, <1>6, <1>7 DEF Range
<1>9. Range(Tail(ticks)) = Range(ticks) \ {Head(ticks)}
  <2>1. ASSUME NEW j \in DOMAIN Tail(ticks)
        PROVE  Tail(ticks)[j] \in Range(ticks) /\ Tail(ticks)[j] # Head(ticks)
    <3>1. j + 1 \in DOMAIN ticks /\ j + 1 # 1 /\ Tail(ticks)[j] = ticks[j + 1]
      BY <1>6
    <3> QED BY <1>6, <1>7, <3>1 DEF Range
  <2>2. ASSUME NEW i \in DOMAIN ticks, ticks[i] # Head(ticks) PROVE ticks[i] \in Range(Tail(ticks))
    <3>1. i # 1 /\ i - 1 \in DOMAIN Tail(ticks) /\ (i - 1) + 1 = i
      BY <1>6, <2>2
    <3>2. Tail(ticks)[i - 1] = ticks[i]
      BY <1>6, <3>1
    <3> QED BY <3>1, <3>2 DEF Range
  <2> QED BY <2>1, <2>2 DEF Range
<1> QED BY <1>1, <1>2, <1>3, <1>4, <1>8, <1>9 DEF RP!Tick

LEMMA EndsReplay ==
  ASSUME End
  PROVE  RP!End
<1>1. /\ progress = "ticking" /\ progress' = "ended" /\ ticks = <<>>
      /\ UNCHANGED <<job, store, compiled, loading, window, lost, bundle, ticks, now>>
  BY DEF End, engineVars, compilerVars, loaderVars
<1>2. /\ Files' = Files /\ Missed' = Missed /\ Asked' = Asked /\ History' = History
      /\ RunStatus = "replaying" /\ RunStatus' = "ended" /\ Range(ticks) = {}
  BY <1>1 DEF Files, Missed, Asked, History, RunStatus, Range
<1> QED BY <1>1, <1>2 DEF RP!End

(* A backtest implements the abstract replay, for every request, store and    *)
(* bundle, and any order in which the reads of files end.                     *)
THEOREM BacktestImplementsReplay == Spec => ImplementsReplay
<1> DEFINE Replays == RP!Next \/ UNCHANGED RP!vars
<1>1. ReplayInv /\ ReplayInv' /\ [Next]_vars => Replays
  <2> SUFFICES ASSUME ReplayInv, ReplayInv', [Next]_vars PROVE RP!Next \/ UNCHANGED RP!vars
    OBVIOUS
  <2>1. CASE UNCHANGED vars
    BY <2>1, UnseenSteps DEF vars, engineVars, compilerVars, loaderVars, RunStatus
  <2>2. CASE Terminated
    BY <2>2, UnseenSteps DEF Terminated, vars, engineVars, compilerVars, loaderVars, RunStatus
  <2>3. CASE CompileGraph
    <3>1. /\ progress = "compiling" /\ progress' = "compiling" /\ loading = "off"
          /\ UNCHANGED <<job, store, loading, window, lost, bundle, ticks, now>>
      BY <2>3 DEF CompileGraph, engineVars, loaderVars, ReplayInv, LoadInv
    <3> QED BY <3>1, UnseenSteps DEF RunStatus
  <2>4. CASE GraphRefused \/ NoData \/ LoadFailed \/ PolicyRefused \/ CoverageRefused
    BY <2>4, StopsReplay DEF GraphRefused, NoData, LoadFailed, PolicyRefused, CoverageRefused, Fail, RP!Next
  <2>5. CASE Panic
    BY <2>5, StopsReplay DEF Panic, RP!Next
  <2>6. CASE Resolve
    <3>1. /\ progress = "resolving" /\ progress' = "covering"
          /\ UNCHANGED <<job, store, compiled, loading, window, lost, bundle, ticks, now>>
      BY <2>6 DEF Resolve, compilerVars, loaderVars
    <3> QED BY <3>1, UnseenSteps DEF RunStatus
  <2>7. CASE UseInlineData
    BY <2>7, BringsData DEF RP!Next
  <2>8. CASE LoadData
    BY <2>8, AsksForData DEF RP!Next
  <2>9. CASE LoadSeries
    BY <2>9, LoadsUnseen DEF RP!Next
  <2>10. CASE LoadEnds
    BY <2>10, GathersData DEF RP!Next
  <2>11. CASE BeginTicks
    BY <2>11, BeginsReplay DEF RP!Next
  <2>12. CASE \E filled \in SUBSET Actions : Cardinality(filled) <= 1 /\ Tick(filled)
    BY <2>12, TicksReplay DEF RP!Next
  <2>13. CASE End
    BY <2>13, EndsReplay DEF RP!Next
  <2> QED BY <2>1, <2>2, <2>3, <2>4, <2>5, <2>6, <2>7, <2>8, <2>9, <2>10, <2>11, <2>12, <2>13 DEF Next
<1>2. Replays => [RP!Next]_(RP!vars)
  OBVIOUS
<1> QED BY <1>1, <1>2, StartsReplay, ReplayInvHolds, PTL DEF Spec, ImplementsReplay, RP!Spec
=============================================================================
