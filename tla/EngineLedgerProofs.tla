------------------------- MODULE EngineLedgerProofs -------------------------
(***************************************************************************)
(* Proofs about what the engine does to the ledger, for every strategy,    *)
(* policy and market and any number of ticks: states are well typed, the   *)
(* earmarks are those of the orders that wait, a refusal leaves no trace,  *)
(* funding reconciles, no limit order fills at a price the bar did not     *)
(* have, no position survives its liquidation price, none is empty where   *)
(* orders buy something, and every run ends.                               *)
(***************************************************************************)
EXTENDS EngineProofs, LedgerOpsProofs, WellFoundedInduction

----------------------------------------------------------------------------
(* Induction, the keys in order, and sums.                                  *)

\* Induction over the naturals, over a set in place of a predicate.
LEMMA SetInduction ==
  ASSUME NEW S, 0 \in S, \A n \in Nat : n \in S => n + 1 \in S
  PROVE  Nat \subseteq S
<1> SUFFICES ASSUME Nat \ S # {} PROVE FALSE
  OBVIOUS
<1>1. IsWellFoundedOn(OpToRel(<, Nat), Nat)
  BY NatLessThanWellFounded
<1>2. PICK n \in Nat \ S : \A m \in Nat \ S : ~(<<m, n>> \in OpToRel(<, Nat))
  BY <1>1, WFMin
<1>3. \A m \in Nat \ S : ~(m < n)
  BY <1>2 DEF OpToRel
<1>4. n # 0 /\ n - 1 \in Nat /\ n - 1 \in S
  BY <1>3
<1> QED BY <1>4

\* No key occurs twice in a list.
Once(s) == \A i, j \in DOMAIN s : s[i] = s[j] => i = j

\* A list of the keys that s lists, less the first.
LEMMA TailOnce ==
  ASSUME NEW K, NEW s \in Seq(K), s # <<>>
  PROVE  /\ Head(s) \in K /\ Tail(s) \in Seq(K)
         /\ Members(s) = Members(Tail(s)) \cup {Head(s)}
         /\ Once(s) => Once(Tail(s)) /\ Head(s) \notin Members(Tail(s))
<1>1. Head(s) \in K /\ Tail(s) \in Seq(K) /\ Members(s) = Members(Tail(s)) \cup {Head(s)}
  BY TailList, NodeLists DEF IsList
<1>2. /\ Len(s) \in Nat \ {0} /\ DOMAIN s = 1 .. Len(s) /\ DOMAIN Tail(s) = 1 .. Len(s) - 1
      /\ Head(s) = s[1] /\ \A i \in DOMAIN Tail(s) : Tail(s)[i] = s[i + 1]
  OBVIOUS
<1>3. ASSUME Once(s) PROVE Once(Tail(s)) /\ Head(s) \notin Members(Tail(s))
  BY <1>2, <1>3 DEF Once, Members
<1> QED BY <1>1, <1>3

\* One step of InOrder, and its values after each of the first N keys.
Extend(order, keys, n, before) ==
  IF order[n] \in keys THEN Append(before, order[n]) ELSE before

Prefixes(order, keys, N, g) ==
  g = [n \in 0 .. N |-> IF n = 0 THEN <<>> ELSE Extend(order, keys, n, g[n - 1])]

LEMMA PrefixesExist ==
  ASSUME NEW order, NEW keys
  PROVE  \A N \in Nat : \E g : Prefixes(order, keys, N, g)
<1> DEFINE S == {N \in Nat : \E g : Prefixes(order, keys, N, g)}
<1>1. 0 \in S
  <2> DEFINE g == [n \in 0 .. 0 |-> <<>>]
  <2>1. Prefixes(order, keys, 0, g)
    BY DEF Prefixes
  <2> QED BY <2>1
<1>2. ASSUME NEW N \in Nat, N \in S
      PROVE  N + 1 \in S
  <2>1. PICK g : Prefixes(order, keys, N, g)
    BY <1>2
  <2> DEFINE h == [n \in 0 .. N + 1 |-> IF n = N + 1 THEN Extend(order, keys, n, g[N]) ELSE g[n]]
  <2>2. \A n \in 0 .. N : g[n] = IF n = 0 THEN <<>> ELSE Extend(order, keys, n, g[n - 1])
    BY <2>1 DEF Prefixes
  <2>3. \A n \in 0 .. N : h[n] = g[n]
    OBVIOUS
  <2>4. ASSUME NEW n \in 0 .. N + 1
        PROVE  h[n] = IF n = 0 THEN <<>> ELSE Extend(order, keys, n, h[n - 1])
    <3>1. CASE n = N + 1
      <4>1. h[n] = Extend(order, keys, n, g[N]) /\ h[N] = g[N] /\ n # 0 /\ n - 1 = N
        BY <3>1, <2>3
      <4> QED BY <4>1
    <3>2. CASE n = 0
      BY <2>2, <3>2
    <3>3. CASE n \in 1 .. N
      <4>1. h[n] = g[n] /\ h[n - 1] = g[n - 1] /\ n \in 0 .. N /\ n # 0
        BY <3>3, <2>3
      <4> QED BY <2>2, <4>1
    <3> QED BY <3>1, <3>2, <3>3
  <2>5. Prefixes(order, keys, N + 1, h)
    <3> HIDE DEF h
    <3>1. h = [n \in 0 .. N + 1 |-> h[n]]
      BY DEF h
    <3>2. [n \in 0 .. N + 1 |-> h[n]]
            = [n \in 0 .. N + 1 |-> IF n = 0 THEN <<>> ELSE Extend(order, keys, n, h[n - 1])]
      BY <2>4
    <3> QED BY <3>1, <3>2 DEF Prefixes
  <2> QED BY <2>5
<1> HIDE DEF S
<1>3. Nat \subseteq S
  BY <1>1, <1>2, SetInduction
<1> QED BY <1>3 DEF S

\* Appending a key that is not there yet.
LEMMA AppendOnce ==
  ASSUME NEW K, NEW s \in Seq(K), NEW x \in K, Once(s), x \notin Members(s)
  PROVE  /\ Append(s, x) \in Seq(K) /\ Once(Append(s, x))
         /\ Members(Append(s, x)) = Members(s) \cup {x}
<1> DEFINE t == Append(s, x)
<1>1. /\ t \in Seq(K) /\ Len(s) \in Nat /\ DOMAIN s = 1 .. Len(s) /\ DOMAIN t = 1 .. Len(s) + 1
      /\ t[Len(s) + 1] = x /\ \A i \in DOMAIN s : t[i] = s[i]
  OBVIOUS
<1> HIDE DEF t
<1>2. Members(t) = Members(s) \cup {x}
  BY <1>1 DEF Members
<1>3. Once(t)
  BY <1>1 DEF Once, Members
<1> QED BY <1>1, <1>2, <1>3 DEF t

\* InOrder lists the keys it is given, each once, of an order that lists every key
\* once.
LEMMA InOrderLists ==
  ASSUME NEW K, NEW order \in Seq(K), Once(order), \A k \in K : \E i \in DOMAIN order : order[i] = k,
         NEW keys \in SUBSET K
  PROVE  /\ InOrder(order, keys) \in Seq(keys)
         /\ Once(InOrder(order, keys))
         /\ Members(InOrder(order, keys)) = keys
<1> DEFINE N == Len(order)
           g == CHOOSE f : Prefixes(order, keys, N, f)
<1>1. N \in Nat /\ DOMAIN order = 1 .. N
  OBVIOUS
<1>2. InOrder(order, keys) = g[N]
  BY DEF InOrder, Prefixes, Extend
<1>3. Prefixes(order, keys, N, g)
  BY <1>1, PrefixesExist
<1> HIDE DEF g
<1>4. g[0] = <<>> /\ \A n \in 0 .. N : n # 0 => g[n] = Extend(order, keys, n, g[n - 1])
  <2>1. \A n \in 0 .. N : g[n] = IF n = 0 THEN <<>> ELSE Extend(order, keys, n, g[n - 1])
    BY <1>3 DEF Prefixes
  <2>2. N \in Nat
    BY <1>1
  <2> QED BY <2>1, <2>2
<1> HIDE DEF N
<1> DEFINE First(n) == {order[i] : i \in 1 .. n} \cap keys
           Lists_(n) == g[n] \in Seq(keys) /\ Once(g[n]) /\ Members(g[n]) = First(n)
           S == {n \in Nat : n <= N => Lists_(n)}
<1>5. 0 \in S
  <2>1. <<>> \in Seq(keys) /\ Once(<<>>) /\ Members(<<>>) = {}
    BY EmptyList DEF Once
  <2>2. First(0) = {}
    OBVIOUS
  <2> HIDE DEF First
  <2> QED BY <1>4, <2>1, <2>2
<1>6. ASSUME NEW n \in Nat, n \in S PROVE n + 1 \in S
  <2> SUFFICES ASSUME n + 1 <= N PROVE Lists_(n + 1)
    OBVIOUS
  <2>1. n + 1 \in 1 .. N /\ n \in 0 .. N /\ (n + 1) - 1 = n /\ n + 1 # 0 /\ n + 1 \in 0 .. N
    BY <1>1
  <2>2. Lists_(n)
    BY <1>1, <1>6, <2>1
  <2> HIDE DEF Lists_, S
  <2>3. g[n + 1] = Extend(order, keys, n + 1, g[n])
    BY <1>4, <2>1
  <2>4. {order[i] : i \in 1 .. n + 1} = {order[i] : i \in 1 .. n} \cup {order[n + 1]}
    BY <2>1
  <2>5. order[n + 1] \notin {order[i] : i \in 1 .. n}
    BY <1>1, <2>1 DEF Once
  <2>6. CASE order[n + 1] \in keys
    <3>1. g[n + 1] = Append(g[n], order[n + 1])
      BY <2>3, <2>6 DEF Extend
    <3>2. First(n + 1) = First(n) \cup {order[n + 1]} /\ order[n + 1] \notin First(n)
      BY <2>4, <2>5, <2>6
    <3> HIDE DEF First
    <3>3. g[n] \in Seq(keys) /\ Once(g[n]) /\ order[n + 1] \notin Members(g[n])
      BY <2>2, <3>2 DEF Lists_
    <3>4. /\ g[n + 1] \in Seq(keys) /\ Once(g[n + 1])
          /\ Members(g[n + 1]) = Members(g[n]) \cup {order[n + 1]}
      BY <2>6, <3>1, <3>3, AppendOnce
    <3> QED BY <2>2, <3>2, <3>4 DEF Lists_
  <2>7. CASE order[n + 1] \notin keys
    <3>1. g[n + 1] = g[n]
      BY <2>3, <2>7 DEF Extend
    <3>2. First(n + 1) = First(n)
      BY <2>4, <2>7
    <3> HIDE DEF First
    <3> QED BY <2>2, <3>1, <3>2 DEF Lists_
  <2> QED BY <2>6, <2>7
<1> HIDE DEF S
<1>7. Nat \subseteq S
  BY <1>5, <1>6, SetInduction
<1>8. Lists_(N)
  BY <1>1, <1>7 DEF S
<1>9. First(N) = keys
  BY <1>1
<1> QED BY <1>2, <1>8, <1>9

\* A set whose members a list lists is finite.
LEMMA ListedIsFinite ==
  ASSUME NEW K, NEW order \in Seq(K), \A k \in K : \E i \in DOMAIN order : order[i] = k
  PROVE  IsFiniteSet(K)
<1>1. Len(order) \in Nat /\ DOMAIN order = 1 .. Len(order) /\ order \in [1 .. Len(order) -> K]
  OBVIOUS
<1>2. order \in Surjection(1 .. Len(order), K)
  BY <1>1 DEF Surjection
<1>3. IsFiniteSet(1 .. Len(order))
  BY <1>1, FS_Interval
<1> QED BY <1>2, <1>3, FS_Surjection

\* A product of finite sets is finite.
LEMMA AccountsFinite == IsFiniteSet(Accounts)
BY KeysAssumption, FS_Product DEF Accounts

LEMMA KeysFinite == IsFiniteSet(PerpKeys) /\ IsFiniteSet(YieldKeys)
BY KeysAssumption, ListedIsFinite

\* The sum of f over a set, as the fold of Total takes it: one member at a time.
Pick(s) == CHOOSE x \in s : TRUE

Sums(f, sets, h) ==
  h = [s \in sets |-> IF s = {} THEN 0 ELSE f[Pick(s)] + h[s \ {Pick(s)}]]

LEMMA TotalSums ==
  ASSUME NEW f
  PROVE  Total(f) = (CHOOSE h : Sums(f, SUBSET DOMAIN f, h))[DOMAIN f]
BY DEF Total, FSE!MapThenSumSet, FSE!MapThenFoldSet, Sums, Pick

\* The subsets of S of up to n members.
Small(S, n) == {s \in SUBSET S : Cardinality(s) <= n}

LEMMA PickLeavesFewer ==
  ASSUME NEW S, IsFiniteSet(S), NEW n \in Nat, NEW s \in Small(S, n + 1), s # {}
  PROVE  s \ {Pick(s)} \in Small(S, n) /\ Pick(s) \in S
<1>1. Pick(s) \in s
  BY DEF Pick
<1>2. s \in SUBSET S /\ Cardinality(s) <= n + 1 /\ IsFiniteSet(s)
  BY FS_Subset DEF Small
<1>3. Cardinality(s) \in Nat /\ Cardinality(s \ {Pick(s)}) = Cardinality(s) - 1
  BY <1>1, <1>2, FS_CardinalityType, FS_RemoveElement
<1> QED BY <1>1, <1>2, <1>3 DEF Small

LEMMA SumsExist ==
  ASSUME NEW S, IsFiniteSet(S), NEW f
  PROVE  \A n \in Nat : \E h : Sums(f, Small(S, n), h)
<1> DEFINE N == {n \in Nat : \E h : Sums(f, Small(S, n), h)}
<1>1. 0 \in N
  <2> DEFINE h == [s \in Small(S, 0) |-> 0]
  <2>1. \A s \in Small(S, 0) : s = {}
    <3> SUFFICES ASSUME NEW s \in Small(S, 0) PROVE s = {}
      OBVIOUS
    <3>1. s \in SUBSET S /\ Cardinality(s) <= 0 /\ IsFiniteSet(s)
      BY FS_Subset DEF Small
    <3>2. Cardinality(s) = 0
      BY <3>1, FS_CardinalityType
    <3> QED BY <3>1, <3>2, FS_EmptySet
  <2>2. Sums(f, Small(S, 0), h)
    BY <2>1 DEF Sums
  <2> QED BY <2>2
<1>2. ASSUME NEW n \in Nat, n \in N PROVE n + 1 \in N
  <2>1. PICK h : Sums(f, Small(S, n), h)
    BY <1>2
  <2> DEFINE g == [s \in Small(S, n + 1) |-> IF s = {} THEN 0 ELSE f[Pick(s)] + h[s \ {Pick(s)}]]
  <2>2. Small(S, n) \subseteq Small(S, n + 1)
    <3> SUFFICES ASSUME NEW s \in Small(S, n) PROVE s \in Small(S, n + 1)
      OBVIOUS
    <3>1. s \in SUBSET S /\ Cardinality(s) \in Nat /\ Cardinality(s) <= n
      BY FS_Subset, FS_CardinalityType DEF Small
    <3> QED BY <3>1 DEF Small
  <2>3. ASSUME NEW s \in Small(S, n) PROVE g[s] = h[s]
    BY <2>1, <2>2, <2>3 DEF Sums
  <2>4. ASSUME NEW s \in Small(S, n + 1), s # {} PROVE h[s \ {Pick(s)}] = g[s \ {Pick(s)}]
    BY <2>3, <2>4, PickLeavesFewer
  <2>5. Sums(f, Small(S, n + 1), g)
    BY <2>4 DEF Sums
  <2> QED BY <2>5
<1> HIDE DEF N
<1>3. Nat \subseteq N
  BY <1>1, <1>2, SetInduction
<1> QED BY <1>3 DEF N

\* A sum over a finite set is in every set of numbers that has its values and is
\* closed under addition.
LEMMA TotalType ==
  ASSUME NEW T, 0 \in T, \A a, b \in T : a + b \in T,
         NEW f, IsFiniteSet(DOMAIN f), \A x \in DOMAIN f : f[x] \in T
  PROVE  Total(f) \in T
<1> DEFINE S == DOMAIN f
           h == CHOOSE g : Sums(f, SUBSET S, g)
<1>1. Total(f) = h[S]
  BY TotalSums
<1>2. Cardinality(S) \in Nat /\ Small(S, Cardinality(S)) = SUBSET S
  BY FS_CardinalityType, FS_Subset DEF Small
<1>3. Sums(f, SUBSET S, h)
  <2>1. \E g : Sums(f, Small(S, Cardinality(S)), g)
    BY <1>2, SumsExist
  <2>2. \E g : Sums(f, SUBSET S, g)
    BY <1>2, <2>1
  <2> QED BY <2>2
<1> HIDE DEF h
<1> DEFINE N == {n \in Nat : \A s \in Small(S, n) : h[s] \in T}
<1>4. \A s \in SUBSET S : h[s] = IF s = {} THEN 0 ELSE f[Pick(s)] + h[s \ {Pick(s)}]
  BY <1>3 DEF Sums
<1>5. 0 \in N
  <2> SUFFICES ASSUME NEW s \in Small(S, 0) PROVE h[s] \in T
    OBVIOUS
  <2>1. s \in SUBSET S /\ Cardinality(s) <= 0 /\ IsFiniteSet(s)
    BY FS_Subset DEF Small
  <2>2. s = {}
    BY <2>1, FS_CardinalityType, FS_EmptySet
  <2> QED BY <1>4, <2>1, <2>2
<1>6. ASSUME NEW n \in Nat, n \in N PROVE n + 1 \in N
  <2>1. ASSUME NEW s \in Small(S, n + 1) PROVE h[s] \in T
    <3>1. s \in SUBSET S
      BY DEF Small
    <3>2. CASE s = {}
      BY <1>4, <3>1, <3>2
    <3>3. CASE s # {}
      <4>1. s \ {Pick(s)} \in Small(S, n) /\ Pick(s) \in S
        BY <3>3, PickLeavesFewer
      <4>2. h[s \ {Pick(s)}] \in T /\ f[Pick(s)] \in T
        BY <1>6, <4>1
      <4> QED BY <1>4, <3>1, <3>3, <4>2
    <3> QED BY <3>2, <3>3
  <2> QED BY <2>1
<1> HIDE DEF N
<1>7. Nat \subseteq N
  BY <1>5, <1>6, SetInduction
<1>8. S \in Small(S, Cardinality(S))
  BY <1>2
<1> QED BY <1>1, <1>2, <1>7, <1>8 DEF N

----------------------------------------------------------------------------
(* What the operations of the ledger keep in the engine.                    *)

\* A position that was opened at a price of one unit or more, and has been reduced
\* since: no part of its cost is gone without as much of its size.
Sound == {p \in Position : p.size <= p.cost}

\* A ledger of sound positions, whose earmarks are covered.
Good(l) == IsLedger(l, Sound) /\ Covered(l)

\* m is a good ledger with the earmarks of l.
Becomes(l, m) == Good(m) /\ m.reservations = l.reservations

LEMMA GoodCredit ==
  ASSUME NEW l, Good(l), NEW v \in Venues, NEW a \in Assets, NEW n \in Nat
  PROVE  Becomes(l, Credit(l, v, a, n))
<1>1. IsLedger(Credit(l, v, a, n), Sound)
  BY CreditType DEF Good
<1>2. Moves(l, Credit(l, v, a, n), v, a, n)
  BY CreditMoves DEF Good
<1>3. Covered(Credit(l, v, a, n))
  BY <1>1, <1>2, CoveredAfterMove DEF Good
<1> QED BY <1>1, <1>2, <1>3 DEF Good, Becomes, Moves

LEMMA GoodDebit ==
  ASSUME NEW l, Good(l), NEW v \in Venues, NEW a \in Assets, NEW n \in Int, CanDebit(l, v, a, n)
  PROVE  Becomes(l, Debit(l, v, a, n))
<1>1. IsLedger(Debit(l, v, a, n), Sound)
  BY DebitType DEF Good
<1>2. Moves(l, Debit(l, v, a, n), v, a, -n)
  BY DebitMoves DEF Good
<1>3. AllowNegative \/ -(-n) <= Available(l, v, a)
  BY DEF CanDebit
<1>4. Covered(Debit(l, v, a, n))
  BY <1>1, <1>2, <1>3, CoveredAfterMove DEF Good
<1> QED BY <1>1, <1>2, <1>4 DEF Good, Becomes, Moves

\* Steps that move no money.
LEMMA GoodStill ==
  ASSUME NEW l, Good(l), NEW m, IsLedger(m, Sound), m.balances = l.balances,
         m.reservations = l.reservations
  PROVE  Becomes(l, m)
<1>1. ASSUME NEW v \in Venues, NEW a \in Assets PROVE Covered(m)
  <2>1. Moves(l, m, v, a, 0)
    BY SameMoves DEF Good
  <2> QED BY <2>1, CoveredAfterMove DEF Good
<1>2. Covered(m)
  BY <1>1 DEF Covered
<1> QED BY <1>2 DEF Good, Becomes

LEMMA GoodRecord ==
  ASSUME NEW l, Good(l), NEW n \in Int
  PROVE  Becomes(l, RecordFee(l, n)) /\ Becomes(l, RecordGas(l, n)) /\ Becomes(l, RecordFunding(l, n))
<1>1. IsLedger(RecordFee(l, n), Sound) /\ IsLedger(RecordGas(l, n), Sound) /\ IsLedger(RecordFunding(l, n), Sound)
  BY DEF Good, IsLedger, RecordFee, RecordGas, RecordFunding
<1>2. \A m \in {RecordFee(l, n), RecordGas(l, n), RecordFunding(l, n)} :
        m.balances = l.balances /\ m.reservations = l.reservations
  BY DEF Good, IsLedger, RecordFee, RecordGas, RecordFunding
<1> QED BY <1>1, <1>2, GoodStill

LEMMA SoundTyped ==
  ASSUME NEW p \in Sound
  PROVE  /\ p = [side |-> p.side, size |-> p.size, cost |-> p.cost, margin |-> p.margin]
         /\ p.side \in {"long", "short"} /\ p.size \in Nat /\ p.cost \in Nat /\ p.margin \in Nat
         /\ p.size <= p.cost
BY DEF Sound, Position

LEMMA GoodPosition ==
  ASSUME NEW l, Good(l), NEW k \in DOMAIN l.perps
  PROVE  l.perps[k] \in Sound /\ k \in PerpKeys /\ k[1] \in Venues /\ USDC \in Assets
BY LedgerAssumption DEF Good, IsLedger, PerpKeys

LEMMA GoodSetPerp ==
  ASSUME NEW l, Good(l), NEW k \in PerpKeys, NEW p \in Sound
  PROVE  Becomes(l, SetPerp(l, k, p))
<1>1. IsLedger(SetPerp(l, k, p), Sound)
  BY SetPerpType, SoundTyped DEF Good
<1>2. SetPerp(l, k, p).balances = l.balances /\ SetPerp(l, k, p).reservations = l.reservations
  BY DEF SetPerp, Good, IsLedger
<1> QED BY <1>1, <1>2, GoodStill

LEMMA GoodDropPerp ==
  ASSUME NEW l, Good(l), NEW k
  PROVE  Becomes(l, [l EXCEPT !.perps = Drop(@, k)])
<1> DEFINE m == [l EXCEPT !.perps = Drop(@, k)]
<1>1. IsLedger(m, Sound)
  BY DropPerpType DEF Good
<1>2. m.balances = l.balances /\ m.reservations = l.reservations
  BY DEF Good, IsLedger
<1> QED BY <1>1, <1>2, GoodStill

LEMMA GoodClosePerp ==
  ASSUME NEW l, Good(l), NEW k \in PerpKeys, NEW n \in Nat
  PROVE  Becomes(l, ClosePerp(l, k, n))
<1>1. k[1] \in Venues /\ USDC \in Assets
  BY LedgerAssumption DEF PerpKeys
<1>2. Becomes(l, [l EXCEPT !.perps = Drop(@, k)])
  BY GoodDropPerp
<1> QED BY <1>1, <1>2, GoodCredit DEF ClosePerp, Becomes

LEMMA GoodDeposit ==
  ASSUME NEW l, Good(l), NEW k \in YieldKeys, NEW n \in Int, CanDepositYield(l, k, n)
  PROVE  Becomes(l, DepositYield(l, k, n))
<1>1. k.chain \in Venues /\ k.asset \in Assets
  BY DEF YieldKeys
<1>2. IsLedger(DepositYield(l, k, n), Sound)
  BY DepositYieldType DEF Good
<1>3. Becomes(l, Debit(l, k.chain, k.asset, n))
  BY <1>1, GoodDebit DEF CanDepositYield
<1> DEFINE d == Debit(l, k.chain, k.asset, n)
<1>4. DepositYield(l, k, n).balances = d.balances /\ DepositYield(l, k, n).reservations = d.reservations
  <2>1. IsLedger(d, Sound)
    BY <1>3 DEF Becomes, Good
  <2> HIDE DEF d
  <2> QED BY <2>1 DEF IsLedger, DepositYield, d
<1> HIDE DEF d
<1> QED BY <1>2, <1>3, <1>4, GoodStill DEF Becomes, d

LEMMA GoodWithdraw ==
  ASSUME NEW l, Good(l), NEW k, NEW n \in Int, CanWithdrawYield(l, k, n)
  PROVE  Becomes(l, WithdrawYield(l, k, n))
<1>1. n \in Nat /\ k \in DOMAIN l.yields /\ k \in YieldKeys /\ k.chain \in Venues /\ k.asset \in Assets
  BY DEF CanWithdrawYield, YieldKeys, Good, IsLedger
<1>2. IsLedger(WithdrawYield(l, k, n), Sound)
  BY <1>1, WithdrawYieldType DEF Good
<1>3. Moves(l, WithdrawYield(l, k, n), k.chain, k.asset, n)
  BY <1>1, WithdrawYieldMoves DEF Good
<1>4. Covered(WithdrawYield(l, k, n))
  BY <1>1, <1>2, <1>3, CoveredAfterMove DEF Good
<1> QED BY <1>2, <1>3, <1>4 DEF Good, Becomes, Moves

LEMMA GoodAccrue ==
  ASSUME NEW l, Good(l), NEW k \in DOMAIN l.yields, NEW n \in Int, NEW usd \in Int
  PROVE  /\ Becomes(l, AccrueYield(l, k, n, usd))
         /\ DOMAIN AccrueYield(l, k, n, usd).yields = DOMAIN l.yields
<1> DEFINE m == AccrueYield(l, k, n, usd)
<1>1. IsLedger(m, Sound)
  BY AccrueYieldType DEF Good
<1>2. m.balances = l.balances /\ m.reservations = l.reservations /\ DOMAIN m.yields = DOMAIN l.yields
  BY DEF AccrueYield, Good, IsLedger
<1> QED BY <1>1, <1>2, GoodStill

\* Earmarks that come and go.
LEMMA GoodRelease ==
  ASSUME NEW l, Good(l), NEW o
  PROVE  /\ Good(Release(l, o)) /\ Release(l, o).reservations = Drop(l.reservations, o)
         /\ Release(l, o).balances = l.balances /\ Release(l, o).perps = l.perps
BY ReleaseType, CoveredAfterRelease DEF Good, Release, IsLedger

LEMMA GoodReserve ==
  ASSUME NEW l, Good(l), NEW o \in OrderIds, NEW v \in Venues, NEW a \in Assets, NEW n \in Int,
         CanReserve(l, v, a, n)
  PROVE  Good(Reserve(l, o, v, a, n))
<1>1. n \in Nat
  BY DEF CanReserve
<1> QED BY <1>1, ReserveType, CoveredAfterReserve DEF Good

\* What an account holds and what of it is spendable are numbers.
LEMMA GoodAccount ==
  ASSUME NEW l, Good(l), NEW v \in Venues, NEW a \in Assets
  PROVE  /\ Balance(l, v, a) \in Int /\ Available(l, v, a) \in Int
         /\ Greater(Available(l, v, a), 0) \in Nat /\ Greater(Balance(l, v, a), 0) \in Nat
BY AvailableType DEF Good, Greater

LEMMA GoodYield ==
  ASSUME NEW l, Good(l), NEW k
  PROVE  YieldValue(l, k) \in Int
BY DEF Good, IsLedger, YieldValue

----------------------------------------------------------------------------
(* Quotients, fees and prices.                                              *)

LEMMA ProductGrows ==
  ASSUME NEW a \in Int, NEW b \in Int, NEW c \in Nat, a <= b
  PROVE  c * a <= c * b /\ a * c <= b * c
<1>1. c * (b - a) >= 0
  OBVIOUS
<1>2. c * (b - a) = c * b - c * a
  OBVIOUS
<1> QED BY <1>1, <1>2

LEMMA Quotient ==
  ASSUME NEW a \in Int, NEW b \in Nat, b > 0
  PROVE  a \div b \in Int /\ b * (a \div b) <= a /\ a < b * (a \div b) + b
OBVIOUS

\* A quotient has the sign of what is divided, and is no larger.
LEMMA QuotientSign ==
  ASSUME NEW a \in Int, NEW b \in Nat, b > 0
  PROVE  /\ a >= 0 => a \div b \in Nat /\ a \div b <= a
         /\ a < 0 => a \div b \in Int /\ a \div b < 0
<1> DEFINE q == a \div b
<1>1. q \in Int /\ b * q <= a /\ a < b * q + b
  BY Quotient
<1> HIDE DEF q
<1>2. ASSUME a >= 0 PROVE q \in Nat /\ q <= a
  <2>1. ~(q <= -1)
    <3> SUFFICES ASSUME q <= -1 PROVE FALSE
      OBVIOUS
    <3>1. b * q <= b * (-1)
      BY <1>1, ProductGrows
    <3> QED BY <1>1, <1>2, <3>1
  <2>2. q \in Nat
    BY <1>1, <2>1
  <2>3. 1 * q <= b * q
    BY <2>2, ProductGrows
  <2> QED BY <1>1, <2>2, <2>3
<1>3. ASSUME a < 0 PROVE q < 0
  <2> SUFFICES ASSUME q >= 0 PROVE FALSE
    BY <1>1
  <2>1. b * q >= b * 0
    BY <1>1, ProductGrows
  <2> QED BY <1>1, <1>3, <2>1
<1> QED BY <1>1, <1>2, <1>3 DEF q

\* A quotient is at least what it is not less than b times of, and at most what b
\* times is not more than.
LEMMA QuotientBounds ==
  ASSUME NEW a \in Int, NEW b \in Nat, b > 0, NEW n \in Int
  PROVE  /\ b * n <= a => n <= a \div b
         /\ a <= b * n => a \div b <= n
<1> DEFINE q == a \div b
<1>1. q \in Int /\ b * q <= a /\ a < b * q + b
  BY Quotient
<1> HIDE DEF q
<1>2. ASSUME b * n <= a PROVE n <= q
  <2> SUFFICES ASSUME q + 1 <= n PROVE FALSE
    BY <1>1
  <2>1. b * (q + 1) <= b * n
    BY <1>1, ProductGrows
  <2>2. b * (q + 1) = b * q + b
    BY <1>1
  <2> QED BY <1>1, <1>2, <2>1, <2>2
<1>3. ASSUME a <= b * n PROVE q <= n
  <2> SUFFICES ASSUME n + 1 <= q PROVE FALSE
    BY <1>1
  <2>1. b * (n + 1) <= b * q
    BY <1>1, ProductGrows
  <2>2. b * (n + 1) = b * n + b
    OBVIOUS
  <2> QED BY <1>1, <1>3, <2>1, <2>2
<1> QED BY <1>2, <1>3 DEF q

LEMMA FeeType ==
  ASSUME NEW n \in Int
  PROVE  /\ Fee(n) \in Int
         /\ n >= 0 => Fee(n) \in Nat
         /\ n <= 0 => Fee(n) <= 0
<1>1. n * FeeBps \in Int /\ Bps = 10000
  BY FillsAssumption DEF Bps
<1>2. n >= 0 => n * FeeBps >= 0
  BY FillsAssumption
<1>3. n <= 0 => n * FeeBps <= 0
  <2> SUFFICES ASSUME n <= 0 PROVE n * FeeBps <= 0
    OBVIOUS
  <2>1. n * FeeBps <= 0 * FeeBps
    BY FillsAssumption, ProductGrows
  <2> QED BY <2>1, FillsAssumption
<1> DEFINE f == n * FeeBps
<1>4. /\ f >= 0 => f \div 10000 \in Nat /\ f \div 10000 <= f
      /\ f < 0 => f \div 10000 \in Int /\ f \div 10000 < 0
  BY <1>1, QuotientSign
<1> HIDE DEF f
<1>5. Fee(n) = f \div 10000
  BY <1>1 DEF Fee, f
<1>6. f \in Int /\ (n >= 0 => f >= 0) /\ (n <= 0 => f <= 0)
  BY <1>1, <1>2, <1>3 DEF f
<1> QED BY <1>4, <1>5, <1>6

\* What a market has.
LEMMA MarketTyped ==
  ASSUME NEW m \in Markets
  PROVE  /\ \A k \in PerpKeys : m.bar[k] \in Candle \cup {NoBar}
         /\ m.gas \in Nat /\ m.funding \in Int /\ m.apr \in Int
         /\ \A v : Gas(m, v) \in Nat
BY DEF Markets, Gas

LEMMA CandleTyped ==
  ASSUME NEW c \in Candle
  PROVE  /\ c.open \in Nat /\ c.high \in Nat /\ c.low \in Nat /\ c.close \in Nat
         /\ 1 <= c.low /\ c.low <= c.open /\ c.open <= c.high /\ c.low <= c.close /\ c.close <= c.high
BY DEF Candle

LEMMA PriceType ==
  ASSUME NEW c \in Candle, NEW dir, NEW rule \in {"close", "open", "mid", "worse_side"}
  PROVE  MarketPrice(c, dir, rule) \in Nat
<1>1. ReferencePrice(c, dir, rule) \in Nat
  <2>1. (c.high + c.low) \div 2 \in Nat
    BY CandleTyped, QuotientSign
  <2> QED BY <2>1, CandleTyped DEF ReferencePrice
<1> DEFINE p == ReferencePrice(c, dir, rule)
<1> HIDE DEF p
<1>2. p \in Nat /\ SlippageBps \in Nat /\ SlippageBps <= 10000
  BY <1>1, FillsAssumption DEF p, Bps
<1>3. p * SlippageBps \in Nat /\ p * SlippageBps <= p * 10000
  BY <1>2, ProductGrows
<1> DEFINE s == p * SlippageBps
<1> HIDE DEF s
<1>4. s \div 10000 \in Nat /\ s \div 10000 <= p
  <2>1. s \in Nat /\ s <= 10000 * p
    BY <1>2, <1>3 DEF s
  <2> QED BY <1>2, <2>1, QuotientSign, QuotientBounds
<1>5. ApplyBps(p, dir) \in Nat
  BY <1>2, <1>4 DEF ApplyBps, Bps, s
<1> QED BY <1>5 DEF MarketPrice, p

----------------------------------------------------------------------------
(* Executions: one that goes through leaves a good ledger with the earmarks *)
(* of the ledger it began with.                                             *)

Executions ==
  {"executed", "unsupported", "no_position", "no_bar", "nothing", "funds", "negative", "proceeds", "opposite",
   "panic"}

GoodOutcome(r, l) == r.why \in Executions /\ (r.why = "executed" => Becomes(l, r.ledger))

LEMMA BecomesTrans ==
  ASSUME NEW l, NEW m, NEW n, Becomes(l, m), Becomes(m, n)
  PROVE  Becomes(l, n)
BY DEF Becomes

\* The fields of an action, by its type.
LEMMA ActionTyped ==
  ASSUME NEW c \in Action
  PROVE  /\ c.type \in {"swap", "perp_order", "yield_deposit", "yield_withdraw"}
         /\ c.amount.basis \in {"absolute", "all", "pct_balance", "pct_position", "pct_portfolio"}
         /\ c.amount.value \in Int
         /\ c.type = "swap" => /\ c.venue \in Venues /\ c.from \in Assets /\ c.to \in Assets
                               /\ c.limit \in Int /\ c.expire \in Nat \cup {NoExpiry}
         /\ c.type = "perp_order" => /\ c.venue \in Venues /\ c.symbol \in Symbols
                                     /\ PerpKey(c) \in PerpKeys
                                     /\ c.side \in {"long", "short"} /\ c.leverage \in Nat
                                     /\ c.reduceOnly \in BOOLEAN
                                     /\ c.limit \in Int /\ c.expire \in Nat \cup {NoExpiry}
         /\ c.type \in {"yield_deposit", "yield_withdraw"} => c.position \in YieldKeys
BY DEF Action, Amounts, PerpKey, PerpKeys

\* What the fees and the gas of a fill are recorded on.
LEMMA GoodCosts ==
  ASSUME NEW l, NEW m, Becomes(l, m), NEW fee \in Int, NEW gas \in Int
  PROVE  Becomes(l, RecordGas(RecordFee(m, fee), gas))
<1>1. Becomes(m, RecordFee(m, fee))
  BY GoodRecord DEF Becomes
<1>2. Becomes(RecordFee(m, fee), RecordGas(RecordFee(m, fee), gas))
  BY <1>1, GoodRecord DEF Becomes
<1> QED BY <1>1, <1>2, BecomesTrans

\* A debit and a credit.
LEMMA GoodTrade ==
  ASSUME NEW l, Good(l), NEW v \in Venues, NEW a \in Assets, NEW b \in Assets,
         NEW n \in Int, CanDebit(l, v, a, n), NEW k \in Nat
  PROVE  Becomes(l, Credit(Debit(l, v, a, n), v, b, k))
<1>1. Becomes(l, Debit(l, v, a, n))
  BY GoodDebit
<1>2. Becomes(Debit(l, v, a, n), Credit(Debit(l, v, a, n), v, b, k))
  BY <1>1, GoodCredit DEF Becomes
<1> QED BY <1>1, <1>2, BecomesTrans

LEMMA SwapOutcome ==
  ASSUME NEW l, Good(l), NEW m \in Markets, NEW c \in Action, c.type = "swap",
         NEW amount \in Int, NEW price \in Nat
  PROVE  GoodOutcome(SwapAt(l, m, c, amount, price), l)
<1>1. c.venue \in Venues /\ c.from \in Assets /\ c.to \in Assets
  BY ActionTyped
<1>2. Gas(m, c.venue) \in Nat
  BY MarketTyped
<1>3. CASE price = 0 \/ amount <= 0
  BY <1>3 DEF SwapAt, Refused, GoodOutcome, Executions
<1>4. CASE price > 0 /\ amount > 0
  <2>1. GoodOutcome(Buy(l, m, c, amount, price), l)
    <3> DEFINE fee == Fee(amount)
               gas == Gas(m, c.venue)
               total == amount + fee + gas
               traded == Credit(Debit(l, c.venue, c.from, total), c.venue, c.to, amount \div price)
    <3>1. fee \in Nat /\ gas \in Nat /\ total \in Int /\ amount \div price \in Nat
      BY <1>2, <1>4, FeeType, QuotientSign
    <3>2. Buy(l, m, c, amount, price) =
            IF CanDebit(l, c.venue, c.from, total)
            THEN Executed(RecordGas(RecordFee(traded, fee), gas)) ELSE Refused(l, "funds")
      BY DEF Buy
    <3> HIDE DEF fee, gas, total
    <3>3. ASSUME CanDebit(l, c.venue, c.from, total)
          PROVE  Becomes(l, RecordGas(RecordFee(traded, fee), gas))
      <4>1. Becomes(l, traded)
        BY <1>1, <3>1, <3>3, GoodTrade
      <4> HIDE DEF traded
      <4> QED BY <3>1, <4>1, GoodCosts
    <3> QED BY <3>2, <3>3 DEF GoodOutcome, Executions, Executed, Refused
  <2>2. GoodOutcome(Sell(l, m, c, amount, price), l)
    <3> DEFINE fee == Fee(amount * price)
               gas == Gas(m, c.venue)
               net == amount * price - fee - gas
               traded == Credit(Debit(l, c.venue, c.from, amount), c.venue, c.to, net)
    <3>1. amount * price \in Int /\ fee \in Int /\ gas \in Nat /\ net \in Int
      <4>1. amount * price \in Int
        OBVIOUS
      <4> QED BY <1>2, <4>1, FeeType
    <3>2. Sell(l, m, c, amount, price) =
            IF net <= 0 THEN Refused(l, "proceeds")
            ELSE IF CanDebit(l, c.venue, c.from, amount)
                 THEN Executed(RecordGas(RecordFee(traded, fee), gas)) ELSE Refused(l, "funds")
      BY DEF Sell
    <3> HIDE DEF fee, gas, net
    <3>3. ASSUME ~(net <= 0), CanDebit(l, c.venue, c.from, amount)
          PROVE  Becomes(l, RecordGas(RecordFee(traded, fee), gas))
      <4>1. net \in Nat
        BY <3>1, <3>3
      <4>2. Becomes(l, traded)
        BY <1>1, <3>3, <4>1, GoodTrade
      <4> HIDE DEF traded
      <4> QED BY <3>1, <4>2, GoodCosts
    <3> QED BY <3>2, <3>3 DEF GoodOutcome, Executions, Executed, Refused
  <2>3. SwapAt(l, m, c, amount, price) =
          IF SwapDirection(c) = "buy" THEN Buy(l, m, c, amount, price) ELSE Sell(l, m, c, amount, price)
    BY <1>4 DEF SwapAt
  <2> QED BY <2>1, <2>2, <2>3
<1> QED BY <1>3, <1>4

LEMMA SwapAtOutcome ==
  ASSUME NEW l, Good(l), NEW m \in Markets, NEW c \in Action, c.type = "swap", NEW price \in Nat
  PROVE  GoodOutcome(ExecuteSwapAt(l, m, c, price), l)
<1>1. c.venue \in Venues /\ c.from \in Assets /\ c.amount.value \in Int
  BY ActionTyped
<1>2. SwapAmount(l, c) \in Int
  BY <1>1, GoodAccount DEF SwapAmount
<1>3. GoodOutcome(Refused(l, "unsupported"), l)
  BY DEF GoodOutcome, Executions, Refused
<1>4. GoodOutcome(SwapAt(l, m, c, SwapAmount(l, c), price), l)
  BY <1>2, SwapOutcome
<1> QED BY <1>3, <1>4 DEF ExecuteSwapAt

\* The asset a valid swap trades for the stable one has bars.
LEMMA SwapBar ==
  ASSUME NEW c \in Action, c.type = "swap", SwapValid(c)
  PROVE  <<c.venue, BaseAsset(c)>> \in PerpKeys
<1>1. c.venue \in Venues /\ c.from \in Assets /\ c.to \in Assets
  BY ActionTyped
<1>2. BaseAsset(c) \in Assets \ {USDC}
  BY <1>1 DEF SwapValid, BaseAsset
<1> QED BY <1>1, <1>2, KeysAssumption DEF PerpKeys

Rules == {"close", "open", "mid", "worse_side"}

LEMMA ExecuteSwapOutcome ==
  ASSUME NEW l, Good(l), NEW m \in Markets, NEW c \in Action, c.type = "swap", NEW rule \in Rules
  PROVE  GoodOutcome(ExecuteSwap(l, m, c, rule), l)
<1> DEFINE bar == BarOf(m, c.venue, BaseAsset(c))
           price == MarketPrice(bar, SwapDirection(c), rule)
<1>1. GoodOutcome(Refused(l, "unsupported"), l) /\ GoodOutcome(Refused(l, "no_bar"), l)
  BY DEF GoodOutcome, Executions, Refused
<1>2. ASSUME SwapValid(c), bar # NoBar
      PROVE  GoodOutcome(ExecuteSwapAt(l, m, c, price), l)
  <2>1. bar \in Candle
    BY <1>2, SwapBar, MarketTyped DEF BarOf
  <2> HIDE DEF bar
  <2>2. price \in Nat
    BY <2>1, PriceType DEF Rules
  <2> QED BY <2>2, SwapAtOutcome
<1>3. ExecuteSwap(l, m, c, rule) =
        IF ~SwapValid(c) THEN Refused(l, "unsupported")
        ELSE IF bar = NoBar THEN Refused(l, "no_bar") ELSE ExecuteSwapAt(l, m, c, price)
  BY DEF ExecuteSwap
<1> HIDE DEF bar, price
<1> QED BY <1>1, <1>2, <1>3

LEMMA SoundMade ==
  ASSUME NEW side \in {"long", "short"}, NEW size \in Nat, NEW cost \in Nat, NEW margin \in Nat, size <= cost
  PROVE  [side |-> side, size |-> size, cost |-> cost, margin |-> margin] \in Sound
BY DEF Sound, Position

\* A position is opened for no more units than it costs: an order of a negative
\* amount has no cash to be debited, and is refused.
LEMMA OpenPerpOutcome ==
  ASSUME NEW l, Good(l), NEW c \in Action, c.type = "perp_order", NEW price \in Nat, price # 0
  PROVE  GoodOutcome(OpenPerpAt(l, c, price), l)
<1> DEFINE k == PerpKey(c)
           n == c.amount.value
           fee == Fee(n)
           margin == Margin(c)
           held == k \in DOMAIN l.perps
           size == n \div price
           added == [side |-> c.side,
                     size |-> size + (IF held THEN l.perps[k].size ELSE 0),
                     cost |-> n + (IF held THEN l.perps[k].cost ELSE 0),
                     margin |-> margin + (IF held THEN l.perps[k].margin ELSE 0)]
           debited == Debit(l, c.venue, USDC, margin + fee)
           paid == RecordFee(debited, fee)
<1>1. /\ k \in PerpKeys /\ n \in Int /\ c.venue \in Venues /\ USDC \in Assets
      /\ c.side \in {"long", "short"} /\ c.leverage \in Nat
  BY ActionTyped, LedgerAssumption
<1>2. OpenPerpAt(l, c, price) =
        IF held /\ l.perps[k].side # c.side THEN Refused(l, "opposite")
        ELSE IF held /\ added.size = 0 THEN Refused(l, "panic")
        ELSE IF CanDebit(l, c.venue, USDC, margin + fee) THEN Executed(SetPerp(paid, k, added))
        ELSE Refused(l, Refusal(margin + fee, "funds"))
  BY DEF OpenPerpAt
<1>3. /\ margin \in Int /\ fee \in Int
      /\ n >= 0 => margin \in Nat /\ fee \in Nat
      /\ n < 0 => margin < 0 /\ fee <= 0
  <2> DEFINE lev == IF c.leverage = 0 THEN 1 ELSE c.leverage
  <2>1. lev \in Nat /\ lev > 0
    BY <1>1
  <2>2. margin = n \div lev
    BY DEF Margin
  <2> HIDE DEF lev, margin, n
  <2>3. margin \in Int /\ (n >= 0 => margin \in Nat) /\ (n < 0 => margin < 0)
    BY <1>1, <2>1, <2>2, QuotientSign
  <2>4. fee \in Int /\ (n >= 0 => fee \in Nat) /\ (n < 0 => fee <= 0)
    BY <1>1, FeeType
  <2> QED BY <2>3, <2>4
<1>4. ASSUME CanDebit(l, c.venue, USDC, margin + fee)
      PROVE  Becomes(l, SetPerp(paid, k, added))
  <2>1. n >= 0 /\ margin \in Nat /\ fee \in Nat
    <3> HIDE DEF n, margin, fee
    <3> QED BY <1>1, <1>3, <1>4 DEF CanDebit
  <2>2. size \in Nat /\ size <= n
    BY <1>1, <2>1, QuotientSign
  <2> HIDE DEF size, margin, fee, n
  <2>3. added \in Sound
    <3>1. CASE held
      <4>1. l.perps[k] \in Sound
        BY <3>1, GoodPosition
      <4>2. l.perps[k].size \in Nat /\ l.perps[k].cost \in Nat /\ l.perps[k].margin \in Nat /\ l.perps[k].size <= l.perps[k].cost
        BY <4>1, SoundTyped
      <4> QED BY <1>1, <2>1, <2>2, <3>1, <4>2, SoundMade
    <3>2. CASE ~held
      BY <1>1, <2>1, <2>2, <3>2, SoundMade
    <3> QED BY <3>1, <3>2
  <2> HIDE DEF added
  <2>4. Becomes(l, debited)
    BY <1>1, <1>3, <1>4, GoodDebit
  <2> HIDE DEF debited
  <2>5. Becomes(debited, paid)
    BY <1>3, <2>4, GoodRecord DEF Becomes
  <2> HIDE DEF paid
  <2>6. Becomes(paid, SetPerp(paid, k, added))
    BY <1>1, <2>3, <2>5, GoodSetPerp DEF Becomes
  <2> QED BY <2>4, <2>5, <2>6, BecomesTrans
<1> HIDE DEF held, added, paid, margin, fee
<1> QED BY <1>2, <1>4 DEF GoodOutcome, Executions, Executed, Refused, Refusal

\* What is left of a sound position is sound: a close takes at least as much of
\* the cost as of the size.
LEMMA ReducedSound ==
  ASSUME NEW p \in Sound, p.size # 0, NEW closed \in Int, closed <= p.size
  PROVE  [side |-> p.side, size |-> p.size - closed,
          cost |-> p.cost - (p.cost * closed) \div p.size,
          margin |-> p.margin - (p.margin * closed) \div p.size] \in Sound
<1> DEFINE s == p.size
           C == p.cost
           M == p.margin
<1>1. /\ s \in Nat /\ s > 0 /\ C \in Nat /\ M \in Nat /\ s <= C /\ closed <= s
      /\ p.side \in {"long", "short"}
  BY SoundTyped
<1> DEFINE costShare == (C * closed) \div s
           marginShare == (M * closed) \div s
           rest == [side |-> p.side, size |-> s - closed, cost |-> C - costShare, margin |-> M - marginShare]
<1> HIDE DEF s, C, M
<1>2. C * closed \in Int /\ M * closed \in Int
  BY <1>1
<1>3. costShare \in Int /\ marginShare \in Int
  BY <1>1, <1>2, Quotient
<1>4. marginShare <= M
  <2>1. M * closed <= M * s /\ M * s = s * M
    BY <1>1, ProductGrows
  <2> QED BY <1>1, <1>2, <2>1, QuotientBounds
<1>5. costShare <= C - s + closed
  <2>1. (C - s) * closed <= (C - s) * s
    <3>1. C - s \in Nat
      BY <1>1
    <3> QED BY <1>1, <3>1, ProductGrows
  <2>2. (C - s) * closed = C * closed - s * closed /\ (C - s) * s = s * (C - s)
    BY <1>1
  <2>3. s * (C - s + closed) = s * (C - s) + s * closed
    BY <1>1
  <2>4. s * closed \in Int /\ s * (C - s) \in Int
    BY <1>1
  <2>5. C * closed <= s * (C - s + closed)
    BY <1>2, <2>1, <2>2, <2>3, <2>4
  <2> QED BY <1>1, <1>2, <2>5, QuotientBounds
<1> HIDE DEF costShare, marginShare
<1>6. s - closed \in Nat /\ C - costShare \in Nat /\ M - marginShare \in Nat /\ s - closed <= C - costShare
  BY <1>1, <1>3, <1>4, <1>5
<1>7. rest \in Sound
  BY <1>1, <1>6, SoundMade
<1> QED BY <1>7 DEF s, C, M, costShare, marginShare

LEMMA ClosePerpOutcome ==
  ASSUME NEW l, Good(l), NEW c \in Action, c.type = "perp_order", NEW price \in Nat
  PROVE  GoodOutcome(ClosePerpAt(l, c, price), l)
<1> DEFINE k == PerpKey(c)
           p == l.perps[k]
           closed == Lesser((c.amount.value * p.size) \div p.cost, p.size)
           costShare == (p.cost * closed) \div p.size
           marginShare == (p.margin * closed) \div p.size
           pnl == UnrealizedPnl([side |-> p.side, size |-> closed, cost |-> costShare], price)
           gross == marginShare + pnl
           fee == Fee(closed * price)
           collected == Lesser(fee, Greater(gross, 0))
           settlement == Greater(gross - fee, 0)
           rest == [side |-> p.side, size |-> p.size - closed,
                    cost |-> p.cost - costShare, margin |-> p.margin - marginShare]
<1>1. ClosePerpAt(l, c, price) =
        IF k \notin DOMAIN l.perps THEN Refused(l, "no_position")
        ELSE IF p.size = 0 THEN Refused(l, "panic")
        ELSE Executed(RecordFee(Reduced(l, k, rest, settlement), collected))
  BY DEF ClosePerpAt
<1>2. ASSUME k \in DOMAIN l.perps, p.size # 0
      PROVE  Becomes(l, RecordFee(Reduced(l, k, rest, settlement), collected))
  <2>1. k \in PerpKeys /\ k[1] \in Venues /\ USDC \in Assets /\ p \in Sound
    BY <1>2, GoodPosition
  <2>2. p.size \in Nat /\ p.size > 0 /\ p.cost \in Nat /\ p.cost > 0 /\ p.margin \in Nat
    BY <1>2, <2>1, SoundTyped
  <2>3. closed \in Int /\ closed <= p.size
    <3>1. c.amount.value * p.size \in Int
      BY <2>2, ActionTyped
    <3>2. (c.amount.value * p.size) \div p.cost \in Int
      BY <2>2, <3>1, Quotient
    <3> QED BY <2>2, <3>2 DEF Lesser
  <2>4. rest \in Sound
    <3> HIDE DEF p, closed
    <3> QED BY <1>2, <2>1, <2>3, ReducedSound
  <2> HIDE DEF closed, rest
  <2>5. costShare \in Int /\ marginShare \in Int
    <3>1. p.cost * closed \in Int /\ p.margin * closed \in Int
      BY <2>2, <2>3
    <3> QED BY <2>2, <3>1, Quotient
  <2> HIDE DEF costShare, marginShare
  <2>6. closed * price \in Int /\ pnl \in Int
    BY <2>3, <2>5 DEF UnrealizedPnl
  <2>7. gross \in Int /\ fee \in Int
    BY <2>5, <2>6, FeeType
  <2> HIDE DEF gross, fee
  <2>8. settlement \in Nat /\ collected \in Int
    BY <2>7 DEF Greater, Lesser
  <2> HIDE DEF settlement, collected
  <2>9. Becomes(l, Reduced(l, k, rest, settlement))
    <3>1. Becomes(l, ClosePerp(l, k, settlement))
      BY <2>1, <2>8, GoodClosePerp
    <3>2. Becomes(l, SetPerp(l, k, rest))
      BY <2>1, <2>4, GoodSetPerp
    <3>3. Becomes(SetPerp(l, k, rest), Credit(SetPerp(l, k, rest), k[1], USDC, settlement))
      BY <2>1, <2>8, <3>2, GoodCredit DEF Becomes
    <3>4. Becomes(l, Credit(SetPerp(l, k, rest), k[1], USDC, settlement))
      BY <3>2, <3>3, BecomesTrans
    <3> QED BY <3>1, <3>4 DEF Reduced
  <2> DEFINE r == Reduced(l, k, rest, settlement)
  <2> HIDE DEF r, k
  <2>10. Becomes(r, RecordFee(r, collected))
    BY <2>8, <2>9, GoodRecord DEF Becomes, r
  <2> QED BY <2>9, <2>10, BecomesTrans DEF r
<1> HIDE DEF k, p, rest, settlement, collected
<1> QED BY <1>1, <1>2 DEF GoodOutcome, Executions, Executed, Refused

LEMMA PerpAtOutcome ==
  ASSUME NEW l, Good(l), NEW c \in Action, c.type = "perp_order", NEW price \in Nat
  PROVE  GoodOutcome(ExecutePerpAt(l, c, price), l)
<1>1. GoodOutcome(Refused(l, "nothing"), l)
  BY DEF GoodOutcome, Executions, Refused
<1>2. GoodOutcome(ClosePerpAt(l, c, price), l)
  BY ClosePerpOutcome
<1>3. price # 0 => GoodOutcome(OpenPerpAt(l, c, price), l)
  BY OpenPerpOutcome
<1> QED BY <1>1, <1>2, <1>3 DEF ExecutePerpAt

LEMMA ExecutePerpOutcome ==
  ASSUME NEW l, Good(l), NEW m \in Markets, NEW c \in Action, c.type = "perp_order", NEW rule \in Rules
  PROVE  GoodOutcome(ExecutePerp(l, m, c, rule), l)
<1> DEFINE bar == BarOf(m, c.venue, c.symbol)
           dir == IF c.reduceOnly THEN ClosingDirection(l.perps[PerpKey(c)]) ELSE OpeningDirection(c)
           price == MarketPrice(bar, dir, rule)
<1>1. GoodOutcome(Refused(l, "no_position"), l) /\ GoodOutcome(Refused(l, "no_bar"), l)
  BY DEF GoodOutcome, Executions, Refused
<1>2. ASSUME bar # NoBar PROVE GoodOutcome(ExecutePerpAt(l, c, price), l)
  <2>1. bar \in Candle
    BY <1>2, ActionTyped, MarketTyped DEF BarOf, PerpKey
  <2> HIDE DEF bar, dir
  <2>2. price \in Nat
    BY <2>1, PriceType DEF Rules
  <2> QED BY <2>2, PerpAtOutcome
<1>3. ExecutePerp(l, m, c, rule) =
        IF bar = NoBar THEN Refused(l, "no_bar")
        ELSE IF c.reduceOnly /\ PerpKey(c) \notin DOMAIN l.perps THEN Refused(l, "no_position")
        ELSE ExecutePerpAt(l, c, price)
  BY DEF ExecutePerp
<1> HIDE DEF bar, price
<1> QED BY <1>1, <1>2, <1>3

LEMMA YieldPriceType ==
  ASSUME NEW m \in Markets, NEW k \in YieldKeys
  PROVE  YieldPrice(m, k) \in Nat
<1>1. CASE k.asset = USDC
  BY <1>1 DEF YieldPrice
<1>2. CASE k.asset # USDC
  <2>1. <<k.chain, k.asset>> \in PerpKeys
    BY <1>2, KeysAssumption DEF YieldKeys, PerpKeys
  <2>2. BarOf(m, k.chain, k.asset) \in Candle \cup {NoBar}
    BY <2>1, MarketTyped DEF BarOf
  <2> QED BY <1>2, <2>2, CandleTyped DEF YieldPrice
<1> QED BY <1>1, <1>2

\* Gas comes out of what is spendable once the deposit or withdrawal is made.
LEMMA PayGasOutcome ==
  ASSUME NEW l, NEW half, Becomes(l, half), NEW m \in Markets, NEW k \in YieldKeys,
         NEW price \in Nat, price # 0
  PROVE  GoodOutcome(PayGas(l, half, m, k, price), l)
<1> DEFINE gas == Gas(m, k.chain)
           paid == Debit(half, k.chain, k.asset, gas \div price)
<1>1. gas \in Nat /\ gas \div price \in Int /\ k.chain \in Venues /\ k.asset \in Assets
  BY MarketTyped, Quotient DEF YieldKeys
<1>2. PayGas(l, half, m, k, price) =
        IF CanDebit(half, k.chain, k.asset, gas \div price)
        THEN Executed(RecordGas(paid, gas)) ELSE Refused(half, "funds")
  BY DEF PayGas
<1>3. ASSUME CanDebit(half, k.chain, k.asset, gas \div price) PROVE Becomes(l, RecordGas(paid, gas))
  <2>1. Becomes(half, paid)
    BY <1>1, <1>3, GoodDebit DEF Becomes
  <2> HIDE DEF paid, gas
  <2>2. gas \in Int
    BY <1>1
  <2>3. Becomes(paid, RecordGas(paid, gas))
    BY <2>2, <2>1, GoodRecord DEF Becomes
  <2> QED BY <2>1, <2>3, BecomesTrans
<1> HIDE DEF gas, paid
<1> QED BY <1>2, <1>3 DEF GoodOutcome, Executions, Executed, Refused

LEMMA DepositOutcome ==
  ASSUME NEW l, Good(l), NEW m \in Markets, NEW c \in Action, c.type = "yield_deposit"
  PROVE  GoodOutcome(ExecuteYieldDeposit(l, m, c), l)
<1> DEFINE k == c.position
           price == YieldPrice(m, k)
           spare == Greater(Available(l, k.chain, k.asset), 0) - Gas(m, k.chain) \div price
           amount == IF c.amount.basis = "all" THEN Greater(spare, 0) ELSE c.amount.value
           deposited == DepositYield(l, k, amount)
<1>1. /\ k \in YieldKeys /\ k.chain \in Venues /\ k.asset \in Assets
      /\ c.amount.value \in Int /\ price \in Nat /\ Gas(m, k.chain) \in Nat
  BY ActionTyped, YieldPriceType, MarketTyped DEF YieldKeys
<1>2. ExecuteYieldDeposit(l, m, c) =
        IF price = 0 \/ amount = 0 THEN Refused(l, "nothing")
        ELSE IF ~CanDepositYield(l, k, amount) THEN Refused(l, Refusal(amount, "funds"))
        ELSE PayGas(l, deposited, m, k, price)
  BY DEF ExecuteYieldDeposit
<1>3. ASSUME price # 0, CanDepositYield(l, k, amount)
      PROVE  GoodOutcome(PayGas(l, deposited, m, k, price), l)
  <2> HIDE DEF k, price
  <2>1. spare \in Int
    BY <1>1, <1>3, GoodAccount, Quotient
  <2>2. amount \in Int
    <3> HIDE DEF spare
    <3> QED BY <1>1, <2>1 DEF Greater
  <2> HIDE DEF amount
  <2>3. Becomes(l, deposited)
    BY <1>1, <1>3, <2>2, GoodDeposit
  <2> QED BY <1>1, <1>3, <2>3, PayGasOutcome
<1> HIDE DEF k, price, amount, deposited
<1> QED BY <1>2, <1>3 DEF GoodOutcome, Executions, Refused, Refusal

LEMMA WithdrawOutcome ==
  ASSUME NEW l, Good(l), NEW m \in Markets, NEW c \in Action, c.type = "yield_withdraw"
  PROVE  GoodOutcome(ExecuteYieldWithdraw(l, m, c), l)
<1> DEFINE k == c.position
           price == YieldPrice(m, k)
           amount == IF c.amount.basis = "all" THEN YieldValue(l, k) ELSE c.amount.value
           drawn == WithdrawYield(l, k, amount)
<1>1. k \in YieldKeys /\ amount \in Int /\ price \in Nat
  BY ActionTyped, YieldPriceType, GoodYield
<1>2. ExecuteYieldWithdraw(l, m, c) =
        IF price = 0 \/ amount = 0 THEN Refused(l, "nothing")
        ELSE IF ~CanWithdrawYield(l, k, amount) THEN Refused(l, Refusal(amount, "no_position"))
        ELSE PayGas(l, drawn, m, k, price)
  BY DEF ExecuteYieldWithdraw
<1> HIDE DEF k, price, amount
<1>3. ASSUME price # 0, CanWithdrawYield(l, k, amount)
      PROVE  GoodOutcome(PayGas(l, drawn, m, k, price), l)
  <2>1. Becomes(l, drawn)
    BY <1>1, <1>3, GoodWithdraw
  <2> QED BY <1>1, <1>3, <2>1, PayGasOutcome
<1> HIDE DEF drawn
<1> QED BY <1>2, <1>3 DEF GoodOutcome, Executions, Refused, Refusal

----------------------------------------------------------------------------
(* Valuation and sizing, in a state whose market and ledger are typed.      *)

\* What the engine knows of the market, and the equity of the tick.
Known ==
  /\ simulation \in Simulations
  /\ market \in simulation.markets
  /\ marks \in [PerpKeys -> Nat]
  /\ equity \in Int

LEMMA KnownMarket == Known => market \in Markets
BY EngineAssumption DEF Known

LEMMA WorthType ==
  ASSUME Known, NEW a \in Assets, NEW v \in Venues, NEW n \in Int
  PROVE  Worth(a, v, n) \in Int /\ (n >= 0 => Worth(a, v, n) \in Nat)
<1>1. CASE a = USDC
  BY <1>1 DEF Worth
<1>2. CASE a # USDC
  <2>1. <<v, a>> \in PerpKeys
    BY <1>2, KeysAssumption DEF PerpKeys
  <2>2. marks[<<v, a>>] \in Nat
    BY <2>1 DEF Known
  <2>3. Worth(a, v, n) = n * marks[<<v, a>>]
    BY <1>2 DEF Worth
  <2> QED BY <2>2, <2>3
<1> QED BY <1>1, <1>2

LEMMA EquityType ==
  ASSUME Known, NEW l, Good(l)
  PROVE  Equity(l) \in Int
<1> DEFINE cash == [k \in Accounts |-> Worth(k[2], k[1], l.balances[k])]
           perps == [k \in DOMAIN l.perps |->
                       l.perps[k].margin
                         + (IF marks[k] = 0 THEN 0 ELSE UnrealizedPnl(l.perps[k], marks[k]))]
           yields == [k \in DOMAIN l.yields |-> Worth(k.asset, k.chain, YieldValue(l, k))]
<1>1. \A k \in Accounts : cash[k] \in Int
  <2> SUFFICES ASSUME NEW k \in Accounts PROVE cash[k] \in Int
    OBVIOUS
  <2>1. k[1] \in Venues /\ k[2] \in Assets /\ l.balances[k] \in Int
    BY DEF Accounts, Good, IsLedger
  <2> QED BY <2>1, WorthType
<1>2. \A k \in DOMAIN l.perps : perps[k] \in Int
  <2> SUFFICES ASSUME NEW k \in DOMAIN l.perps PROVE perps[k] \in Int
    OBVIOUS
  <2>1. l.perps[k] \in Sound /\ k \in PerpKeys
    BY GoodPosition
  <2>2. marks[k] \in Nat
    BY <2>1 DEF Known
  <2>3. l.perps[k].margin \in Nat /\ l.perps[k].size \in Nat /\ l.perps[k].cost \in Nat
    BY <2>1, SoundTyped
  <2> QED BY <2>2, <2>3 DEF UnrealizedPnl
<1>3. \A k \in DOMAIN l.yields : yields[k] \in Int
  <2> SUFFICES ASSUME NEW k \in DOMAIN l.yields PROVE yields[k] \in Int
    OBVIOUS
  <2>1. k.chain \in Venues /\ k.asset \in Assets
    BY DEF Good, IsLedger, YieldKeys
  <2>2. YieldValue(l, k) \in Int
    BY GoodYield
  <2> QED BY <2>1, <2>2, WorthType
<1>4. IsFiniteSet(Accounts) /\ IsFiniteSet(DOMAIN l.perps) /\ IsFiniteSet(DOMAIN l.yields)
  <2>1. DOMAIN l.perps \subseteq PerpKeys /\ DOMAIN l.yields \subseteq YieldKeys
    BY DEF Good, IsLedger
  <2> QED BY <2>1, AccountsFinite, KeysFinite, FS_Subset
<1>5. Equity(l) = Total(cash) + Total(perps) + Total(yields)
  BY DEF Equity
<1>6. DOMAIN cash = Accounts /\ DOMAIN perps = DOMAIN l.perps /\ DOMAIN yields = DOMAIN l.yields
  OBVIOUS
<1> HIDE DEF cash, perps, yields
<1>7. \A a, b \in Int : a + b \in Int
  OBVIOUS
<1>8. Total(cash) \in Int
  BY <1>1, <1>4, <1>6, <1>7, TotalType
<1>9. Total(perps) \in Int
  BY <1>2, <1>4, <1>6, <1>7, TotalType
<1>10. Total(yields) \in Int
  BY <1>3, <1>4, <1>6, <1>7, TotalType
<1> QED BY <1>5, <1>8, <1>9, <1>10

\* An action with another amount.
Resized(c, s) == \E a \in Amounts : s = [c EXCEPT !.amount = a]

LEMMA ResizedAction ==
  ASSUME NEW c \in Action, NEW s, Resized(c, s)
  PROVE  /\ s \in Action /\ s.type = c.type /\ (IsLimit(s) <=> IsLimit(c))
         /\ c.type \in {"swap", "perp_order"} =>
              s.venue = c.venue /\ s.limit = c.limit /\ s.expire = c.expire
         /\ c.type = "swap" => s.from = c.from /\ s.to = c.to /\ (SwapValid(s) <=> SwapValid(c))
         /\ c.type = "perp_order" => s.reduceOnly = c.reduceOnly /\ s.symbol = c.symbol /\ s.side = c.side
<1>1. PICK a \in Amounts : s = [c EXCEPT !.amount = a]
  BY DEF Resized
<1> QED BY <1>1 DEF Action, IsLimit, SwapValid

LEMMA FundsType ==
  ASSUME Known, NEW l, Good(l), NEW c \in Action
  PROVE  Funds(l, c) \in Int /\ Held(l, c) \in Int /\ UnitPrice(c) \in Nat
<1>0. USDC \in Assets
  BY LedgerAssumption
<1>1. CASE c.type = "swap"
  <2>1. c.venue \in Venues /\ c.from \in Assets
    BY <1>1, ActionTyped
  <2>2. Worth(c.from, c.venue, 1) \in Nat /\ Greater(Available(l, c.venue, c.from), 0) \in Int
    BY <2>1, WorthType, GoodAccount
  <2> QED BY <1>1, <2>2 DEF Funds, Held, UnitPrice
<1>2. CASE c.type = "perp_order"
  <2>1. c.venue \in Venues
    BY <1>2, ActionTyped
  <2>2. Greater(Available(l, c.venue, USDC), 0) \in Int
    BY <1>0, <2>1, GoodAccount
  <2>3. PerpKey(c) \in DOMAIN l.perps => l.perps[PerpKey(c)].cost \in Int
    BY GoodPosition, SoundTyped
  <2> QED BY <1>2, <2>2, <2>3 DEF Funds, Held, UnitPrice
<1>3. CASE c.type \in {"yield_deposit", "yield_withdraw"}
  <2>1. c.position.chain \in Venues /\ c.position.asset \in Assets
    BY <1>3, ActionTyped DEF YieldKeys
  <2>2. /\ Worth(c.position.asset, c.position.chain, 1) \in Nat
        /\ Greater(Available(l, c.position.chain, c.position.asset), 0) \in Int
    BY <2>1, WorthType, GoodAccount
  <2> QED BY <1>3, <2>2, GoodYield DEF Funds, Held, UnitPrice
<1> QED BY <1>1, <1>2, <1>3, ActionTyped

LEMMA SizedResized ==
  ASSUME Known, NEW l, Good(l), NEW c \in Action, CanSize(c)
  PROVE  Resized(c, Sized(l, c))
<1>1. c = [c EXCEPT !.amount = c.amount] /\ c.amount \in Amounts
  BY DEF Action
<1>2. ASSUME NEW m \in Int PROVE [basis |-> "absolute", value |-> m] \in Amounts
  BY DEF Amounts
<1>3. /\ Funds(l, c) \in Int /\ Held(l, c) \in Int /\ UnitPrice(c) \in Nat /\ equity \in Int
      /\ c.amount.value \in Int
  BY FundsType, ActionTyped DEF Known
<1>4. Resized(c, c)
  BY <1>1 DEF Resized
<1>5. ASSUME NEW m \in Int PROVE Resized(c, [c EXCEPT !.amount = [basis |-> "absolute", value |-> m]])
  BY <1>2 DEF Resized
<1> DEFINE n == c.amount.value
<1>6. CASE c.amount.basis = "absolute"
  BY <1>4, <1>6 DEF Sized
<1>7. CASE c.amount.basis = "all"
  BY <1>3, <1>4, <1>5, <1>7 DEF Sized
<1>8. CASE c.amount.basis = "pct_balance"
  <2>1. (n * Funds(l, c)) \div 100 \in Int
    BY <1>3, Quotient
  <2>2. Sized(l, c) = [c EXCEPT !.amount = [basis |-> "absolute", value |-> (n * Funds(l, c)) \div 100]]
    BY <1>8 DEF Sized
  <2> QED BY <1>5, <2>1, <2>2
<1>9. CASE c.amount.basis = "pct_position"
  <2>1. (n * Held(l, c)) \div 100 \in Int
    BY <1>3, Quotient
  <2>2. Sized(l, c) = [c EXCEPT !.amount = [basis |-> "absolute", value |-> (n * Held(l, c)) \div 100]]
    BY <1>9 DEF Sized
  <2> QED BY <1>5, <2>1, <2>2
<1>10. CASE c.amount.basis = "pct_portfolio"
  <2> DEFINE m == ((n * equity) \div 100) \div UnitPrice(c)
  <2>1. UnitPrice(c) > 0
    BY <1>3, <1>10 DEF CanSize
  <2>2. (n * equity) \div 100 \in Int
    BY <1>3, Quotient
  <2>3. m \in Int
    BY <1>3, <2>1, <2>2, Quotient
  <2>4. Sized(l, c) = [c EXCEPT !.amount = [basis |-> "absolute", value |-> m]]
    BY <1>10 DEF Sized
  <2> HIDE DEF m
  <2> QED BY <1>5, <2>3, <2>4
<1> QED BY <1>6, <1>7, <1>8, <1>9, <1>10, ActionTyped

----------------------------------------------------------------------------
(* What an action comes to.                                                 *)

LEMMA ExecuteNowOutcome ==
  ASSUME Known, NEW l, Good(l), NEW c \in Action, ~IsLimit(c), ~IsDeferred(c)
  PROVE  GoodOutcome(ExecuteNow(l, c), l)
<1>1. market \in Markets /\ simulation.selection \in Selections
  BY KnownMarket, EngineAssumption DEF Known
<1>2. CASE c.type \in {"swap", "perp_order"}
  <2>1. simulation.selection \in Rules
    BY <1>1, <1>2 DEF IsDeferred, Selections, Rules
  <2>2. c.type = "swap" => GoodOutcome(ExecuteSwap(l, market, c, simulation.selection), l)
    BY <1>1, <2>1, ExecuteSwapOutcome
  <2>3. c.type = "perp_order" => GoodOutcome(ExecutePerp(l, market, c, simulation.selection), l)
    BY <1>1, <2>1, ExecutePerpOutcome
  <2> QED BY <1>2, <2>2, <2>3 DEF ExecuteNow
<1>3. CASE c.type \in {"yield_deposit", "yield_withdraw"}
  <2>1. c.type = "yield_deposit" => GoodOutcome(ExecuteYieldDeposit(l, market, c), l)
    BY <1>1, DepositOutcome
  <2>2. c.type = "yield_withdraw" => GoodOutcome(ExecuteYieldWithdraw(l, market, c), l)
    BY <1>1, WithdrawOutcome
  <2> QED BY <1>3, <2>1, <2>2 DEF ExecuteNow
<1> QED BY <1>2, <1>3, ActionTyped

\* What a fill will debit is not negative.
LEMMA EarmarkType ==
  ASSUME Known, NEW c \in Action, c.type \in {"swap", "perp_order"}
  PROVE  Earmark(market, c).amount \in Nat /\ Earmark(market, c).asset \in Assets /\ c.venue \in Venues
<1>1. c.amount.value \in Int /\ c.venue \in Venues /\ USDC \in Assets
  BY ActionTyped, LedgerAssumption
<1>2. c.amount.value > 0 => c.amount.value \in Nat /\ Fee(c.amount.value) \in Nat
  BY <1>1, FeeType
<1>3. CASE c.type = "swap"
  <2>1. Gas(market, c.venue) \in Nat
    BY KnownMarket, MarketTyped
  <2>2. SwapSpend(market, c) \in Nat
    BY <1>1, <1>2, <2>1 DEF SwapSpend
  <2>3. c.from \in Assets
    BY <1>3, ActionTyped
  <2> QED BY <1>1, <1>3, <2>2, <2>3 DEF Earmark
<1>4. CASE c.type = "perp_order"
  <2>1. c.amount.value > 0 => Margin(c) \in Nat
    <3> DEFINE lev == IF c.leverage = 0 THEN 1 ELSE c.leverage
    <3>1. lev \in Nat /\ lev > 0
      BY <1>4, ActionTyped
    <3>2. Margin(c) = c.amount.value \div lev
      BY DEF Margin
    <3> HIDE DEF lev
    <3> QED BY <1>1, <3>1, <3>2, QuotientSign
  <2>2. PerpSpend(c) \in Nat
    BY <1>1, <1>2, <2>1 DEF PerpSpend
  <2> QED BY <1>1, <1>4, <2>2 DEF Earmark
<1> QED BY <1>3, <1>4

\* The ledger that an order with action s and an id leaves.
Earmarked(l, s) ==
  LET mark == Earmark(market, s)
  IN  IF mark.amount = 0 THEN l ELSE Reserve(l, orderSeq, s.venue, mark.asset, mark.amount)

\* A swap that is to wait is sized to an absolute amount.
LEMMA SizedAbsolute ==
  ASSUME NEW l, NEW c \in Action, c.type = "swap", IsLimit(c) \/ IsDeferred(c)
  PROVE  Sized(l, c).amount.basis # "all"
<1>1. ASSUME NEW m PROVE [c EXCEPT !.amount = [basis |-> "absolute", value |-> m]].amount.basis = "absolute"
  BY DEF Action
<1>2. \/ Sized(l, c) = c /\ c.amount.basis = "absolute"
      \/ \E m : Sized(l, c) = [c EXCEPT !.amount = [basis |-> "absolute", value |-> m]]
  <2>1. CASE c.amount.basis = "absolute"
    BY <2>1 DEF Sized
  <2>2. CASE c.amount.basis = "all"
    BY <2>2 DEF Sized
  <2>3. CASE c.amount.basis = "pct_balance"
    BY <2>3 DEF Sized
  <2>4. CASE c.amount.basis = "pct_position"
    BY <2>4 DEF Sized
  <2>5. CASE c.amount.basis = "pct_portfolio"
    BY <2>5 DEF Sized
  <2> QED BY <2>1, <2>2, <2>3, <2>4, <2>5, ActionTyped
<1> QED BY <1>1, <1>2

\* An action executes on a good ledger, or is queued as an order whose earmark can
\* be reserved, or leaves the ledger alone.
LEMMA AttemptOutcome ==
  ASSUME Known, NEW l, Good(l), NEW c \in Action
  PROVE  LET r == Attempt(l, c)
             s == Sized(l, c)
             mark == Earmark(market, s)
         IN  /\ r.why \in Reasons \cup {"panic"}
             /\ r.why = "executed" => Becomes(l, r.ledger)
             /\ r.why = "placed" =>
                  /\ Resized(c, s) /\ c.type \in {"swap", "perp_order"}
                  /\ r.ledger = Earmarked(l, s)
                  /\ mark.amount = 0 \/ CanReserve(l, s.venue, mark.asset, mark.amount)
                  /\ s.type = "swap" => s.amount.basis # "all"
                  /\ IsLimit(s) => /\ s.type = "swap" => SwapValid(s)
                                   /\ LimitSide(l, s) \in {"buy", "sell"}
<1> DEFINE s == Sized(l, c)
           mark == Earmark(market, s)
           r == Attempt(l, c)
<1>0. c.type = "swap" /\ (IsLimit(c) \/ IsDeferred(c)) => s.amount.basis # "all"
  BY SizedAbsolute
<1>1. CASE ~CanSize(c)
  BY <1>1 DEF Attempt, Refused, Reasons
<1>2. CASE CanSize(c)
  <2>1. Resized(c, s) /\ s \in Action /\ s.type = c.type /\ (IsLimit(s) <=> IsLimit(c))
    BY <1>2, SizedResized, ResizedAction
  <2>2. IsDeferred(s) <=> IsDeferred(c)
    BY <2>1 DEF IsDeferred
  <2>3. CASE IsLimit(c)
    <3>1. c.type \in {"swap", "perp_order"}
      BY <2>3 DEF IsLimit
    <3>2. r = [why |-> PlacementOutcome(l, market, s), ledger |-> Earmarked(l, s)]
      BY <1>2, <2>3 DEF Attempt, Earmarked
    <3> HIDE DEF r, s
    <3>3. mark.amount \in Nat
      BY <2>1, <3>1, EarmarkType
    <3>4. /\ PlacementOutcome(l, market, s) \in {"unsupported", "no_limit", "no_position", "funds", "placed"}
          /\ PlacementOutcome(l, market, s) = "placed" =>
               /\ s.type = "swap" => SwapValid(s)
               /\ AllowNegative \/ mark.amount = 0 \/ mark.amount <= Available(l, s.venue, mark.asset)
      <4> HIDE DEF mark
      <4>1. PlacementOutcome(l, market, s) =
              IF s.type = "swap" /\ ~SwapValid(s) THEN "unsupported"
              ELSE IF s.limit = 0 THEN "no_limit"
              ELSE IF s.type = "perp_order" /\ s.reduceOnly /\ PerpKey(s) \notin DOMAIN l.perps
              THEN "no_position"
              ELSE IF ~AllowNegative /\ mark.amount > 0
                      /\ mark.amount > Available(l, s.venue, mark.asset)
              THEN "funds"
              ELSE "placed"
        BY DEF PlacementOutcome, mark
      <4>2. s.venue \in Venues /\ mark.asset \in Assets
        BY <2>1, <3>1, EarmarkType DEF mark
      <4>3. Available(l, s.venue, mark.asset) \in Int
        BY <4>2, GoodAccount
      <4> QED BY <3>3, <4>1, <4>3
    <3>5. LimitSide(l, s) \in {"buy", "sell"}
      BY DEF LimitSide, SwapDirection, ClosingDirection, OpeningDirection
    <3> QED BY <1>0, <2>1, <2>3, <3>1, <3>2, <3>3, <3>4, <3>5 DEF CanReserve, Reasons, r, s
  <2>4. CASE ~IsLimit(c) /\ IsDeferred(c)
    <3>1. c.type \in {"swap", "perp_order"}
      BY <2>4 DEF IsDeferred
    <3>2. r = [why |-> IF mark.amount = 0 \/ CanReserve(l, s.venue, mark.asset, mark.amount)
                       THEN "placed" ELSE "funds",
               ledger |-> Earmarked(l, s)]
      BY <1>2, <2>4 DEF Attempt, Earmarked
    <3> HIDE DEF r, s, mark
    <3> QED BY <1>0, <2>1, <2>4, <3>1, <3>2 DEF Reasons, r, s, mark
  <2>5. CASE ~IsLimit(c) /\ ~IsDeferred(c)
    <3>1. r = ExecuteNow(l, s)
      BY <1>2, <2>5 DEF Attempt
    <3> HIDE DEF r, s
    <3>2. GoodOutcome(ExecuteNow(l, s), l)
      BY <2>1, <2>2, <2>5, ExecuteNowOutcome
    <3> QED BY <3>1, <3>2 DEF GoodOutcome, Executions, Reasons, r
  <2> QED BY <2>3, <2>4, <2>5
<1> QED BY <1>1, <1>2

LEMMA GoodEarmarked ==
  ASSUME Known, NEW l, Good(l), NEW s \in Action, s.type \in {"swap", "perp_order"}, orderSeq \in OrderIds,
         LET mark == Earmark(market, s)
         IN  mark.amount = 0 \/ CanReserve(l, s.venue, mark.asset, mark.amount)
  PROVE  Good(Earmarked(l, s))
<1> DEFINE mark == Earmark(market, s)
<1>1. mark.amount \in Nat /\ mark.asset \in Assets /\ s.venue \in Venues
  BY EarmarkType
<1> HIDE DEF mark
<1>2. mark.amount = 0 \/ Good(Reserve(l, orderSeq, s.venue, mark.asset, mark.amount))
  BY <1>1, GoodReserve DEF mark
<1> QED BY <1>2 DEF Earmarked, mark

----------------------------------------------------------------------------
(* Funding, yield and liquidation.                                          *)

\* A position with less margin.
LEMMA GoodMargined ==
  ASSUME NEW l, Good(l), NEW k \in DOMAIN l.perps, NEW n \in Int, n <= l.perps[k].margin
  PROVE  LET m == [l EXCEPT !.perps[k].margin = @ - n]
         IN  /\ Becomes(l, m) /\ m.balances = l.balances /\ m.funding = l.funding
             /\ DOMAIN m.perps = DOMAIN l.perps /\ m.perps[k].margin = l.perps[k].margin - n
<1> DEFINE p == l.perps[k]
           q == [p EXCEPT !.margin = p.margin - n]
           f == [l.perps EXCEPT ![k] = q]
           m == [l EXCEPT !.perps = f]
<1>1. p \in Sound /\ p.margin \in Nat
  BY GoodPosition, SoundTyped
<1>2. q \in Sound /\ q.margin = p.margin - n
  <2>1. p.margin - n \in Nat
    BY <1>1
  <2> QED BY <1>1, <2>1 DEF Sound, Position
<1>3. l.perps \in [DOMAIN l.perps -> Sound] /\ DOMAIN l.perps \subseteq PerpKeys
  BY DEF Good, IsLedger
<1> HIDE DEF q
<1>4. f \in [DOMAIN l.perps -> Sound] /\ f[k] = q /\ DOMAIN f = DOMAIN l.perps
  BY <1>2, <1>3
<1> HIDE DEF f
<1>5. IsLedger(m, Sound) /\ m.perps = f
  BY <1>3, <1>4 DEF Good, IsLedger
<1>6. m.balances = l.balances /\ m.reservations = l.reservations /\ m.funding = l.funding
  BY DEF Good, IsLedger
<1>7. [l EXCEPT !.perps[k].margin = @ - n] = m
  BY DEF f, q
<1> HIDE DEF m
<1>8. Becomes(l, m)
  BY <1>5, <1>6, GoodStill
<1> QED BY <1>2, <1>4, <1>5, <1>6, <1>7, <1>8

\* What is spendable depends on balances and reservations only.
LEMMA SameDebit ==
  ASSUME NEW l, NEW m, m.balances = l.balances, m.reservations = l.reservations, NEW v, NEW a, NEW n
  PROVE  CanDebit(m, v, a, n) <=> CanDebit(l, v, a, n)
<1>1. EarmarkedUnits(m, v, a) = EarmarkedUnits(l, v, a)
  BY UnitsUnchanged
<1> QED BY <1>1 DEF CanDebit, Available, Reserved, Balance

LEMMA RecordedFunding ==
  ASSUME NEW l, Good(l), NEW n \in Int
  PROVE  LET m == RecordFunding(l, n)
         IN  m.funding = l.funding + n /\ m.balances = l.balances /\ m.perps = l.perps
BY DEF RecordFunding, Good, IsLedger

\* Cash and margin pay what the counter says was paid.
LEMMA CollectOutcome ==
  ASSUME NEW l, Good(l), NEW k \in DOMAIN l.perps, NEW owed \in Int, CanCollectFunding(l, k, owed)
  PROVE  LET m == CollectFunding(l, k, owed)
         IN  /\ Becomes(l, m) /\ DOMAIN m.perps = DOMAIN l.perps
             /\ (Balance(l, k[1], USDC) + l.perps[k].margin) - (Balance(m, k[1], USDC) + m.perps[k].margin)
                  = m.funding - l.funding
<1> DEFINE v == k[1]
           m == CollectFunding(l, k, owed)
<1>1. v \in Venues /\ USDC \in Assets /\ l.perps[k] \in Sound /\ l.perps[k].margin \in Nat
  BY GoodPosition, SoundTyped
<1>2. Balance(l, v, USDC) \in Int /\ l.funding \in Int
  BY <1>1, GoodAccount DEF Good, IsLedger
<1>3. CASE owed <= 0
  <2> DEFINE d == Credit(l, v, USDC, -owed)
  <2>1. m = RecordFunding(d, owed)
    BY <1>3 DEF CollectFunding
  <2>2. Becomes(l, d)
    BY <1>1, <1>3, GoodCredit
  <2>3. Balance(d, v, USDC) = Balance(l, v, USDC) - owed /\ d.perps = l.perps /\ d.funding = l.funding
    <3>1. Moves(l, d, v, USDC, -owed)
      BY <1>1, CreditMoves DEF Good
    <3>2. d.perps = l.perps /\ d.funding = l.funding
      BY DEF Credit, Good, IsLedger
    <3> QED BY <1>1, <1>2, <3>1, <3>2 DEF Moves
  <2> HIDE DEF d, m, v
  <2>4. Becomes(d, m) /\ m.funding = d.funding + owed /\ m.balances = d.balances /\ m.perps = d.perps
    BY <2>1, <2>2, GoodRecord, RecordedFunding DEF Becomes
  <2>5. Balance(m, v, USDC) = Balance(d, v, USDC)
    BY <2>4 DEF Balance
  <2>6. Becomes(l, m)
    BY <2>2, <2>4, BecomesTrans
  <2> QED BY <1>1, <1>2, <2>3, <2>4, <2>5, <2>6 DEF m, v
<1>4. CASE owed > 0
  <2> DEFINE cash == FundingFromCash(l, v, owed)
             part == FundingFromMargin(l, k, owed)
             d == [l EXCEPT !.perps[k].margin = @ - part]
             e == Debit(d, v, USDC, cash)
  <2>1. m = RecordFunding(e, cash + part)
    BY <1>4 DEF CollectFunding
  <2>2. cash \in Int /\ CanDebit(l, v, USDC, cash)
    BY <1>1, <1>4, GoodAccount DEF FundingFromCash, Lesser, CanCollectFunding
  <2>3. part = Lesser(owed - cash, l.perps[k].margin)
    BY DEF FundingFromMargin
  <2> HIDE DEF cash, part
  <2>4. part \in Int /\ part <= l.perps[k].margin
    BY <1>1, <2>2, <2>3 DEF Lesser
  <2>5. /\ Becomes(l, d) /\ d.balances = l.balances /\ d.funding = l.funding
        /\ DOMAIN d.perps = DOMAIN l.perps /\ d.perps[k].margin = l.perps[k].margin - part
    BY <2>4, GoodMargined
  <2> HIDE DEF d, v, m
  <2>6. CanDebit(d, v, USDC, cash)
    BY <2>2, <2>5, SameDebit DEF Becomes
  <2>7. Becomes(d, e) /\ Moves(d, e, v, USDC, -cash)
    BY <1>1, <2>2, <2>5, <2>6, GoodDebit, DebitMoves DEF Becomes, Good
  <2>8. e.perps = d.perps /\ e.funding = d.funding
    BY <2>5 DEF Debit, Becomes, Good, IsLedger
  <2>9. Balance(e, v, USDC) = Balance(l, v, USDC) - cash
    <3>1. Balance(d, v, USDC) = Balance(l, v, USDC)
      BY <2>5 DEF Balance
    <3> QED BY <1>1, <1>2, <2>2, <2>7, <3>1 DEF Moves
  <2> HIDE DEF e
  <2>10. Becomes(e, m) /\ m.funding = e.funding + (cash + part) /\ m.balances = e.balances /\ m.perps = e.perps
    <3>1. cash + part \in Int
      BY <2>2, <2>4
    <3> QED BY <2>1, <2>7, <3>1, GoodRecord, RecordedFunding DEF Becomes
  <2>11. Balance(m, v, USDC) = Balance(e, v, USDC)
    BY <2>10 DEF Balance
  <2>12. Becomes(l, m)
    BY <2>5, <2>7, <2>10, BecomesTrans
  <2>13. DOMAIN m.perps = DOMAIN l.perps /\ m.perps[k].margin = l.perps[k].margin - part
    BY <2>5, <2>8, <2>10
  <2>14. m.funding = l.funding + (cash + part)
    BY <2>5, <2>8, <2>10
  <2> QED BY <1>1, <1>2, <2>2, <2>4, <2>9, <2>11, <2>12, <2>13, <2>14 DEF m, v
<1> QED BY <1>3, <1>4

\* Whatever is liquidated, cash only comes in.
LEMMA SettlementType ==
  ASSUME NEW p \in Sound, NEW bar, bar.open \in Int
  PROVE  LiquidationSettlement(p, bar) \in Nat
<1>1. p.size \in Nat /\ p.cost \in Nat /\ p.margin \in Nat /\ Bps = 10000
  BY SoundTyped DEF Bps
<1>2. MaintenanceBps \in Nat /\ 10000 - MaintenanceBps \in Nat /\ 10000 - MaintenanceBps > 0
      /\ 10000 + MaintenanceBps \in Nat /\ 10000 + MaintenanceBps > 0
  BY EngineAssumption DEF Bps
<1>3. LiquidationNotional(p) \in Int
  <2>1. (p.cost - p.margin) * 10000 \in Int /\ (p.cost + p.margin) * 10000 \in Int
    BY <1>1
  <2>2. /\ ((p.cost - p.margin) * 10000) \div (10000 - MaintenanceBps) \in Int
        /\ ((p.cost + p.margin) * 10000) \div (10000 + MaintenanceBps) \in Int
    BY <1>2, <2>1, Quotient
  <2> QED BY <1>1, <2>2 DEF LiquidationNotional
<1> DEFINE n == LiquidationNotional(p)
           t == bar.open * p.size
<1>4. n \in Int /\ t \in Int
  BY <1>1, <1>3
<1>5. LiquidationSettlement(p, bar) =
        Greater(p.margin + (IF p.side = "long" THEN Lesser(t, n) - p.cost ELSE p.cost - Greater(t, n)), 0)
  BY DEF LiquidationSettlement
<1> HIDE DEF n, t
<1> QED BY <1>1, <1>4, <1>5 DEF Greater, Lesser

----------------------------------------------------------------------------
(* The inductive invariant of the ledger.                                   *)

\* The positions a phase has yet to handle are in the ledger, each once.
Handling ==
  /\ pc \in {"funding", "liquidations"} => todo \in Seq(DOMAIN ledger.perps) /\ Once(todo)
  /\ pc = "yields" => todo \in Seq(DOMAIN ledger.yields)

\* An order that waits is one of the strategy's actions, with the amount it was
\* sized to, and trades on a tick after the first has begun.
OrderOf(o) ==
  /\ DOMAIN o = {"id", "node", "placed", "config", "side", "mark"}
  /\ o.node \in Nodes /\ o.placed >= 1
  /\ Resized(simulation.actions[o.node], o.config)
  /\ o.config.type \in {"swap", "perp_order"}
  /\ o.side \in {"buy", "sell", "market"} /\ o.mark \in Nat
  /\ IsLimit(o.config) => /\ o.config.type = "swap" => SwapValid(o.config)
                          /\ o.side \in {"buy", "sell"}

\* Events are of the kinds and for the reasons the engine has.
Recorded ==
  \A i \in DOMAIN events :
    events[i].what \in Whats /\ events[i].why \in Reasons /\ events[i].at \in 1 .. tick

GInv ==
  /\ Known /\ Good(ledger) /\ Handling
  /\ \A o \in Queued : OrderOf(o)
  /\ Recorded
  /\ pc \in Phases
  /\ visited \subseteq Nodes

\* The action of a queued order.
LEMMA OrderAction ==
  ASSUME Known, NEW o, OrderOf(o)
  PROVE  o.config \in Action
<1>1. simulation.actions[o.node] \in Action
  BY StrategyAssumption DEF Known, OrderOf, Nodes
<1> QED BY <1>1, ResizedAction DEF OrderOf

\* The parts that steps leave alone.
LEMMA OrdersStay ==
  ASSUME \A o \in Queued : OrderOf(o), Queued' \subseteq Queued, simulation' = simulation
  PROVE  (\A o \in Queued : OrderOf(o))'
BY DEF OrderOf, Nodes

LEMMA RecordsStay ==
  ASSUME Recorded, events' = events, tick \in Int, tick' \in Int, tick <= tick'
  PROVE  Recorded'
BY DEF Recorded

LEMMA RecordsGrow ==
  ASSUME Recorded, \E S : events \in Seq(S), tick' = tick, tick \in Nat, tick > 0,
         NEW e, Log(e), e.what \in Whats, e.why \in Reasons, e.at = tick
  PROVE  Recorded'
<1> SUFFICES ASSUME NEW i \in DOMAIN events'
             PROVE  events'[i].what \in Whats /\ events'[i].why \in Reasons /\ events'[i].at \in 1 .. tick'
  BY DEF Recorded
<1>1. events'[i] = e \/ (i \in DOMAIN events /\ events'[i] = events[i])
  BY LogEvents
<1> QED BY <1>1 DEF Recorded

LEMMA GoodSame ==
  ASSUME NEW l, Good(l)
  PROVE  Becomes(l, l)
BY DEF Becomes

\* A phase over positions begins with all of them.
LEMMA PhaseBegins ==
  ASSUME NEW l, Good(l)
  PROVE  /\ OpenPerps(l) \in Seq(DOMAIN l.perps) /\ Once(OpenPerps(l)) /\ Members(OpenPerps(l)) = DOMAIN l.perps
         /\ OpenYields(l) \in Seq(DOMAIN l.yields)
<1>1. DOMAIN l.perps \in SUBSET PerpKeys /\ DOMAIN l.yields \in SUBSET YieldKeys
  BY DEF Good, IsLedger
<1>2. Once(PerpOrder) /\ Once(YieldOrder)
  BY KeysAssumption DEF Once
<1>3. /\ OpenPerps(l) \in Seq(DOMAIN l.perps) /\ Once(OpenPerps(l)) /\ Members(OpenPerps(l)) = DOMAIN l.perps
  BY <1>1, <1>2, KeysAssumption, InOrderLists DEF OpenPerps
<1>4. OpenYields(l) \in Seq(DOMAIN l.yields)
  BY <1>1, <1>2, KeysAssumption, InOrderLists DEF OpenYields
<1> QED BY <1>3, <1>4

\* What a position owes is a number.
LEMMA OwedTyped ==
  ASSUME GInv, pc = "funding", todo # <<>>
  PROVE  Head(todo) \in DOMAIN ledger.perps /\ FundingOwed(Head(todo)) \in Int
<1> DEFINE k == Head(todo)
<1>1. todo \in Seq(DOMAIN ledger.perps) /\ Once(todo)
  BY DEF GInv, Handling
<1>2. k \in DOMAIN ledger.perps
  BY <1>1, TailOnce
<1>3. ledger.perps[k].size \in Nat /\ k \in PerpKeys
  BY <1>2, GoodPosition, SoundTyped DEF GInv
<1>4. marks[k] \in Nat /\ market.funding \in Int
  BY <1>3, KnownMarket, MarketTyped DEF GInv, Known
<1>5. market.funding * ledger.perps[k].size * marks[k] \in Int /\ Bps \in Nat /\ Bps > 0
  BY <1>3, <1>4 DEF Bps
<1>6. (market.funding * ledger.perps[k].size * marks[k]) \div Bps \in Int
  BY <1>5, Quotient
<1> QED BY <1>2, <1>6 DEF FundingOwed

\* Funding of one position.
LEMMA FundingStep ==
  ASSUME GInv, ApplyFunding
  PROVE  /\ Becomes(ledger, ledger') /\ DOMAIN ledger'.perps = DOMAIN ledger.perps
         /\ Handling' /\ pc' = "funding" /\ pc = "funding"
         /\ LET k == Head(todo)
            IN  (Balance(ledger, k[1], USDC) + ledger.perps[k].margin)
                  - (Balance(ledger', k[1], USDC) + ledger'.perps[k].margin) = ledger'.funding - ledger.funding
<1> DEFINE k == Head(todo)
<1>1. pc = "funding" /\ pc' = pc /\ todo # <<>> /\ todo' = Tail(todo)
  BY DEF ApplyFunding
<1>2. todo \in Seq(DOMAIN ledger.perps) /\ Once(todo)
  BY <1>1 DEF GInv, Handling
<1>3. k \in DOMAIN ledger.perps /\ todo' \in Seq(DOMAIN ledger.perps) /\ Once(todo')
  BY <1>1, <1>2, TailOnce
<1>4. FundingOwed(k) \in Int
  BY <1>1, OwedTyped
<1>5. CanCollectFunding(ledger, k, FundingOwed(k)) /\ ledger' = CollectFunding(ledger, k, FundingOwed(k))
  BY DEF ApplyFunding
<1> HIDE DEF k
<1>6. /\ Becomes(ledger, ledger') /\ DOMAIN ledger'.perps = DOMAIN ledger.perps
      /\ (Balance(ledger, k[1], USDC) + ledger.perps[k].margin)
           - (Balance(ledger', k[1], USDC) + ledger'.perps[k].margin) = ledger'.funding - ledger.funding
  BY <1>3, <1>4, <1>5, CollectOutcome DEF GInv
<1>7. Handling'
  BY <1>1, <1>3, <1>6 DEF Handling
<1> QED BY <1>1, <1>6, <1>7 DEF k

LEMMA YieldStep ==
  ASSUME GInv, ApplyYield
  PROVE  Becomes(ledger, ledger') /\ Handling'
<1> DEFINE k == Head(todo)
           interest == (YieldValue(ledger, k) * market.apr) \div Bps
<1>1. /\ pc = "yields" /\ pc' = pc /\ todo # <<>> /\ todo' = Tail(todo)
      /\ ledger' = AccrueYield(ledger, k, interest, Worth(k.asset, k.chain, interest))
  BY DEF ApplyYield
<1>2. k \in DOMAIN ledger.yields /\ todo' \in Seq(DOMAIN ledger.yields)
  BY <1>1, NodeLists DEF GInv, Handling
<1>3. interest \in Int
  <2>1. YieldValue(ledger, k) \in Int /\ market.apr \in Int
    BY GoodYield, KnownMarket, MarketTyped DEF GInv
  <2>2. YieldValue(ledger, k) * market.apr \in Int /\ Bps \in Nat /\ Bps > 0
    BY <2>1 DEF Bps
  <2> QED BY <2>2, Quotient
<1>4. k.asset \in Assets /\ k.chain \in Venues
  BY <1>2 DEF GInv, Good, IsLedger, YieldKeys
<1> HIDE DEF k, interest
<1> DEFINE usd == Worth(k.asset, k.chain, interest)
<1>5. usd \in Int /\ ledger' = AccrueYield(ledger, k, interest, usd) /\ Good(ledger)
  BY <1>1, <1>3, <1>4, WorthType DEF GInv
<1> HIDE DEF usd
<1>6. Becomes(ledger, ledger') /\ DOMAIN ledger'.yields = DOMAIN ledger.yields
  BY <1>2, <1>3, <1>5, GoodAccrue
<1> QED BY <1>1, <1>2, <1>6 DEF Handling

\* A candle, or the mark in place of one.
LEMMA QuoteType ==
  ASSUME Known, NEW k \in PerpKeys
  PROVE  LET q == Quote(k)
         IN  /\ q.open \in Nat /\ q.high \in Nat /\ q.low \in Nat
             /\ q.open = 0 => q.high = 0 /\ q.low = 0
<1>1. market.bar[k] \in Candle \cup {NoBar} /\ marks[k] \in Nat
  BY KnownMarket, MarketTyped DEF Known
<1>2. CASE market.bar[k] # NoBar
  <2>1. market.bar[k] \in Candle /\ Quote(k) = market.bar[k]
    BY <1>1, <1>2 DEF Quote
  <2> QED BY <2>1, CandleTyped
<1>3. CASE market.bar[k] = NoBar
  BY <1>1, <1>3 DEF Quote
<1> QED BY <1>2, <1>3

\* A liquidation check closes the position or finds that it is not breached.
LEMMA LiquidationStep ==
  ASSUME GInv, CheckLiquidation
  PROVE  LET k == Head(todo)
         IN  /\ Becomes(ledger, ledger') /\ Handling' /\ pc = "liquidations" /\ pc' = pc
             /\ k \in DOMAIN ledger.perps /\ Members(todo) = Members(todo') \cup {k}
             /\ \/ ledger'.perps = Drop(ledger.perps, k)
                \/ /\ ledger' = ledger
                   /\ Quote(k).open = 0 \/ ~Breached(ledger.perps[k], Quote(k))
<1> DEFINE k == Head(todo)
           p == ledger.perps[k]
           n == LiquidationSettlement(p, Quote(k))
<1>1. /\ pc = "liquidations" /\ pc' = pc /\ todo # <<>> /\ todo' = Tail(todo)
      /\ ledger' = IF Quote(k).open # 0 /\ Breached(p, Quote(k)) THEN ClosePerp(ledger, k, n) ELSE ledger
  BY DEF CheckLiquidation
<1>2. /\ todo \in Seq(DOMAIN ledger.perps) /\ Once(todo)
  BY <1>1 DEF GInv, Handling
<1>3. /\ k \in DOMAIN ledger.perps /\ todo' \in Seq(DOMAIN ledger.perps)
      /\ Members(todo) = Members(todo') \cup {k} /\ Once(todo') /\ k \notin Members(todo')
  BY <1>1, <1>2, TailOnce
<1>4. p \in Sound /\ k \in PerpKeys
  BY <1>3, GoodPosition DEF GInv
<1>5. n \in Nat
  BY <1>4, QuoteType, SettlementType DEF GInv
<1> HIDE DEF k, p, n
<1>6. Becomes(ledger, ledger')
  BY <1>1, <1>4, <1>5, GoodClosePerp, GoodSame DEF GInv
<1>7. CASE ledger' = ledger
  <2>1. Handling'
    BY <1>1, <1>3, <1>7 DEF Handling
  <2> QED BY <1>1, <1>3, <1>6, <1>7, <2>1 DEF k, p, n, ClosePerp, Credit, GInv
<1>8. CASE ledger' = ClosePerp(ledger, k, n)
  <2>1. ledger'.perps = Drop(ledger.perps, k)
    BY <1>8 DEF ClosePerp, Credit, GInv, Good, IsLedger
  <2>2. DOMAIN ledger'.perps = DOMAIN ledger.perps \ {k}
    BY <2>1 DEF Drop
  <2>3. todo' \in Seq(DOMAIN ledger.perps \ {k})
    <3>1. /\ Len(todo') \in Nat /\ DOMAIN todo' = 1 .. Len(todo') /\ todo' \in [1 .. Len(todo') -> DOMAIN ledger.perps]
      BY <1>3
    <3>2. \A i \in 1 .. Len(todo') : todo'[i] \in DOMAIN ledger.perps \ {k}
      BY <1>3, <3>1 DEF Members
    <3>3. todo' \in [1 .. Len(todo') -> DOMAIN ledger.perps \ {k}]
      BY <3>1, <3>2
    <3> QED BY <3>1, <3>3
  <2>4. Handling'
    BY <1>1, <1>3, <2>2, <2>3 DEF Handling
  <2> QED BY <1>1, <1>3, <1>6, <2>1, <2>4 DEF k
<1> QED BY <1>1, <1>7, <1>8

\* The steps that leave every order where it is, and the beginning of a tick.
LEMMA QuietGood ==
  ASSUME IInv, TInv, GInv, Quiet \/ NextTick
  PROVE  GInv' /\ Becomes(ledger, ledger')
<1> USE DEF GInv
<1>1. /\ Queued' = Queued /\ events' = events /\ simulation' = simulation
      /\ tick \in Int /\ tick' \in Int /\ tick <= tick'
  <2>1. tick \in Int
    BY EngineAssumption DEF IInv, Numbered
  <2>2. CASE Quiet
    <3>1. Queued' = Queued /\ tick' = tick
      BY <2>2, QuietInv
    <3>2. events' = events /\ simulation' = simulation
      BY <2>2 DEF Quiet, PhaseDone, ApplyFunding, ApplyYield, CheckLiquidation, FireSignal, PassSignal,
         StartChain, SkipAction, BeginSnapshot, Snapshot, LastTick, DrainDone, Panic, vars, input
    <3> QED BY <2>1, <3>1, <3>2
  <2>3. CASE NextTick
    BY <2>1, <2>3, NextTickInv DEF NextTick
  <2> QED BY <2>2, <2>3
<1>2. (\A o \in Queued : OrderOf(o))'
  BY <1>1, OrdersStay
<1>3. Recorded'
  BY <1>1, RecordsStay
<1>4. Becomes(ledger, ledger) /\ (\A l : Becomes(ledger, l) => Good(l))
  BY GoodSame DEF Becomes
<1>5. Known' /\ Becomes(ledger, ledger') /\ Handling' /\ pc' \in Phases /\ visited' \subseteq Nodes'
  <2> USE <1>1 DEF Known, Nodes, Phases
  <2>1. CASE PhaseDone
    <3>1. Known' /\ ledger' = ledger /\ visited' = visited
      BY <2>1 DEF PhaseDone, input, chain
    <3>2. \/ pc' = "yields" /\ todo' = OpenYields(ledger)
          \/ pc' = "liquidations" /\ todo' = OpenPerps(ledger)
          \/ pc' = "valuation"
      BY <2>1 DEF PhaseDone
    <3>3. Handling'
      BY <3>1, <3>2, PhaseBegins DEF Handling
    <3> QED BY <1>4, <3>1, <3>2, <3>3
  <2>2. CASE ApplyFunding
    BY <2>2, FundingStep DEF ApplyFunding, input, chain
  <2>3. CASE ApplyYield
    BY <2>3, YieldStep DEF ApplyYield, input, chain
  <2>4. CASE CheckLiquidation
    BY <2>4, LiquidationStep DEF CheckLiquidation, input, chain
  <2>5. CASE FireSignal \/ PassSignal \/ StartChain \/ SkipAction
    <3>1. Known' /\ ledger' = ledger /\ visited' \subseteq Nodes'
      BY <2>5 DEF FireSignal, PassSignal, StartChain, SkipAction, input, chain
    <3>2. pc' = pc /\ pc \in {"market_orders", "limit_orders", "signals"}
      BY <2>5 DEF FireSignal, PassSignal, StartChain, SkipAction, IInv, Staged, Idle
    <3> QED BY <1>4, <3>1, <3>2 DEF Handling
  <2>6. CASE BeginSnapshot \/ Snapshot \/ LastTick \/ DrainDone
    <3>1. Known' /\ ledger' = ledger /\ visited' = visited
      BY <2>6 DEF BeginSnapshot, Snapshot, LastTick, DrainDone, input, chain
    <3>2. pc' \in {"snapshot", "next_tick", "drain_resting", "drain_pending", "done"}
      BY <2>6 DEF BeginSnapshot, Snapshot, LastTick, DrainDone
    <3> QED BY <1>4, <3>1, <3>2 DEF Handling
  <2>7. CASE Panic
    BY <1>4, <2>7 DEF Panic, Handling, input
  <2>8. CASE UNCHANGED vars
    BY <1>4, <2>8 DEF vars, Handling, input, chain
  <2>9. CASE NextTick
    <3>1. PICK m \in simulation.markets :
            /\ market' = m
            /\ marks' = [k \in PerpKeys |-> IF m.bar[k] = NoBar THEN marks[k] ELSE m.bar[k].close]
      BY <2>9 DEF NextTick
    <3>2. m \in Markets
      BY EngineAssumption
    <3>3. \A k \in PerpKeys : m.bar[k] # NoBar => m.bar[k].close \in Nat
      BY <3>2, MarketTyped, CandleTyped
    <3>4. marks' \in [PerpKeys -> Nat]
      BY <3>1, <3>3
    <3>5. equity' = equity /\ ledger' = ledger /\ visited' = visited /\ pc' = "funding" /\ todo' = OpenPerps(ledger)
      BY <2>9 DEF NextTick, chain
    <3> QED BY <1>4, <3>1, <3>4, <3>5, PhaseBegins DEF Handling
  <2> QED BY <2>1, <2>2, <2>3, <2>4, <2>5, <2>6, <2>7, <2>8, <2>9 DEF Quiet
<1>6. Good(ledger)'
  BY <1>4, <1>5
<1> QED BY <1>2, <1>3, <1>5, <1>6

\* The ticks on which there are orders or actions.
LEMMA TickBegun ==
  ASSUME IInv, GInv, stack # <<>> \/ Queued # {}
  PROVE  tick \in Nat /\ tick > 0
<1>1. tick \in Nat
  BY EngineAssumption DEF IInv, Numbered
<1>2. CASE stack # <<>>
  BY <1>1, <1>2 DEF IInv, Staged, Idle
<1>3. CASE Queued # {}
  <2>1. PICK o \in Queued : TRUE
    BY <1>3
  <2>2. o.placed >= 1 /\ o.placed \in Nat /\ o.placed <= tick
    BY <2>1 DEF GInv, OrderOf, IInv, Waiting
  <2> QED BY <1>1, <2>2
<1> QED BY <1>1, <1>2, <1>3

\* The action that is run next.
LEMMA CurrentAction ==
  ASSUME TInv, GInv, stack # <<>>
  PROVE  SE!Last(stack) \in Nodes /\ Current \in Action
<1>1. SE!Last(stack) \in Nodes
  BY NodeLists DEF TInv, Walked
<1> QED BY <1>1, StrategyAssumption DEF Current, GInv, Known, Nodes

LEMMA ActionGood ==
  ASSUME IInv, TInv, GInv, ExecuteAction \/ RefuseAction
  PROVE  GInv' /\ Becomes(ledger, ledger')
<1> DEFINE n == SE!Last(stack)
<1>1. /\ UNCHANGED <<input, equity, pc, todo>> /\ stack # <<>> /\ visited' = visited \cup {n}
      /\ Outcome.why # "panic"
      /\ \E e : Log(e) /\ e.what \in Whats /\ e.why = Outcome.why /\ e.at = tick
  BY DEF ExecuteAction, RefuseAction, IsNew, Follow, Event, Whats
<1>2. n \in Nodes /\ Current \in Action
  BY <1>1, CurrentAction
<1>3. Outcome.why \in Reasons \cup {"panic"} /\ (Outcome.why = "executed" => Becomes(ledger, Outcome.ledger))
  BY <1>2, AttemptOutcome DEF Outcome, GInv
<1>4. Becomes(ledger, ledger')
  BY <1>3, GoodSame DEF ExecuteAction, RefuseAction, GInv
<1>5. Recorded'
  <2>1. tick \in Nat /\ tick > 0 /\ tick' = tick
    BY <1>1, TickBegun DEF input
  <2> QED BY <1>1, <1>3, <2>1, RecordsGrow DEF IInv, Lists, GInv
<1>6. Queued' = Queued
  BY ActionInv
<1>7. (\A o \in Queued : OrderOf(o))'
  BY <1>1, <1>6, OrdersStay DEF GInv, input
<1>8. Known' /\ pc' = pc /\ visited' \subseteq Nodes'
  BY <1>1, <1>2 DEF GInv, Known, input, Nodes
<1>9. Handling'
  <2>1. pc \in {"market_orders", "limit_orders", "signals"}
    BY <1>1 DEF IInv, Staged, Idle
  <2> QED BY <1>8, <2>1 DEF Handling
<1> QED BY <1>4, <1>5, <1>7, <1>8, <1>9 DEF GInv, Becomes

\* The order that is placed, and its earmark. The ids are numbers.
LEMMA PlaceGood ==
  ASSUME IInv, TInv, GInv, PlaceOrder, Nat \subseteq OrderIds
  PROVE  /\ GInv' /\ ledger' = Earmarked(ledger, NewOrder.config)
         /\ Queued' = Queued \cup {NewOrder} /\ NewOrder.id = orderSeq
         /\ NewOrder.mark = Earmark(market, NewOrder.config).amount
         /\ NewOrder.config \in Action /\ NewOrder.config.type \in {"swap", "perp_order"}
         /\ NewOrder.config.type = "swap" => NewOrder.config.amount.basis # "all"
<1> DEFINE n == SE!Last(stack)
           s == Sized(ledger, Current)
           o == NewOrder
<1>1. /\ UNCHANGED <<input, equity, pc, todo>> /\ stack # <<>> /\ visited' = visited \cup {n}
      /\ Outcome.why = "placed" /\ ledger' = Outcome.ledger
      /\ \E e : Log(e) /\ e.what = "placed" /\ e.why = "placed" /\ e.at = tick
  BY DEF PlaceOrder, IsNew, Follow, Event
<1>2. n \in Nodes /\ Current \in Action /\ Current = simulation.actions[n]
  BY <1>1, CurrentAction DEF Current
<1>3. /\ Resized(Current, s) /\ Current.type \in {"swap", "perp_order"}
      /\ ledger' = Earmarked(ledger, s)
      /\ LET mark == Earmark(market, s)
         IN  mark.amount = 0 \/ CanReserve(ledger, s.venue, mark.asset, mark.amount)
      /\ s.type = "swap" => s.amount.basis # "all"
      /\ IsLimit(s) => /\ s.type = "swap" => SwapValid(s)
                       /\ LimitSide(ledger, s) \in {"buy", "sell"}
  BY <1>1, <1>2, AttemptOutcome DEF Outcome, GInv
<1>4. s \in Action /\ s.type \in {"swap", "perp_order"}
  BY <1>2, <1>3, ResizedAction
<1>5. orderSeq \in Nat /\ tick \in Nat /\ tick > 0
  BY <1>1, TickBegun DEF IInv, Numbered
<1>6. /\ o.id = orderSeq /\ o.node = n /\ o.placed = tick /\ o.config = s
      /\ DOMAIN o = {"id", "node", "placed", "config", "side", "mark"}
      /\ o.side = (IF IsLimit(s) THEN LimitSide(ledger, s) ELSE "market")
      /\ o.mark = Earmark(market, s).amount
  BY DEF NewOrder
<1> HIDE DEF o, s, n
<1>7. OrderOf(o)
  <2>1. o.mark \in Nat
    BY <1>4, <1>6, EarmarkType DEF GInv
  <2> QED BY <1>2, <1>3, <1>4, <1>5, <1>6, <2>1 DEF OrderOf
<1>8. Queued' = Queued \cup {o}
  <2>1. Queued' = Members(resting') \cup Members(pending') \cup Members(ready') \cup Members(keep')
    BY QueuedMembers DEF Queued, Members
  <2>2. /\ \/ resting' = Append(resting, o) /\ pending' = pending
           \/ pending' = Append(pending, o) /\ resting' = resting
        /\ ready' = ready /\ keep' = keep
    BY DEF PlaceOrder, o
  <2>3. Members(Append(resting, o)) = Members(resting) \cup {o} /\ Members(Append(pending, o)) = Members(pending) \cup {o}
    BY AppendList DEF IInv, Lists
  <2> QED BY <2>1, <2>2, <2>3, QueuedMembers
<1>9. (\A x \in Queued : OrderOf(x))'
  <2>1. \A x \in Queued' : OrderOf(x)
    BY <1>7, <1>8 DEF GInv
  <2> QED BY <1>1, <2>1 DEF OrderOf, Nodes, input
<1>10. Good(ledger)'
  <2>1. orderSeq \in OrderIds
    BY <1>5
  <2>2. Good(Earmarked(ledger, s))
    BY <1>3, <1>4, <2>1, GoodEarmarked DEF GInv
  <2> QED BY <1>3, <2>2
<1>11. Recorded'
  <2>1. "placed" \in Whats /\ "placed" \in Reasons /\ tick' = tick
    BY <1>1 DEF Whats, Reasons, input
  <2> QED BY <1>1, <1>5, <2>1, RecordsGrow DEF IInv, Lists, GInv
<1>12. Known' /\ pc' = pc /\ visited' \subseteq Nodes'
  BY <1>1, <1>2 DEF GInv, Known, input, Nodes
<1>13. Handling'
  <2>1. pc \in {"market_orders", "limit_orders", "signals"}
    BY <1>1 DEF IInv, Staged, Idle
  <2> QED BY <1>12, <2>1 DEF Handling
<1> QED BY <1>3, <1>4, <1>6, <1>8, <1>9, <1>10, <1>11, <1>12, <1>13 DEF GInv, o

LEMMA BeginGood ==
  ASSUME IInv, TInv, GInv, BeginMarketOrders \/ BeginLimitOrders \/ BeginSignals
  PROVE  GInv' /\ Becomes(ledger, ledger')
<1>1. /\ Queued' = Queued /\ UNCHANGED <<input, ledger, visited, events>>
      /\ pc' \in {"market_orders", "limit_orders", "signals"}
      /\ equity' \in {equity, Equity(ledger)}
  <2>1. Queued' = Queued
    BY BeginMarketOrdersInv, BeginLimitOrdersInv, BeginSignalsInv
  <2> QED BY <2>1 DEF BeginMarketOrders, BeginLimitOrders, BeginSignals, chain
<1>2. tick \in Int /\ tick' = tick
  BY <1>1, EngineAssumption DEF IInv, Numbered, input
<1>3. (\A o \in Queued : OrderOf(o))' /\ Recorded'
  BY <1>1, <1>2, OrdersStay, RecordsStay DEF GInv, input
<1>4. Known'
  BY <1>1, EquityType DEF GInv, Known, input
<1>5. Handling' /\ pc' \in Phases
  BY <1>1 DEF Handling, Phases
<1> QED BY <1>1, <1>3, <1>4, <1>5, GoodSame DEF GInv, Nodes, input

----------------------------------------------------------------------------
(* Orders that leave.                                                       *)

\* The bar a limit order is touched by, and the price it fills at.
LEMMA LimitPrice ==
  ASSUME Known, NEW o, OrderOf(o), IsLimit(o.config), Touched(o)
  PROVE  LET bar == BarOf(market, o.config.venue, Symbol(o.config))
         IN  /\ FillPrice(o) \in Nat /\ bar.low <= FillPrice(o) /\ FillPrice(o) <= bar.high
             /\ IF o.side = "buy" THEN FillPrice(o) <= o.config.limit ELSE FillPrice(o) >= o.config.limit
<1> DEFINE c == o.config
           bar == BarOf(market, c.venue, Symbol(c))
<1>1. c \in Action /\ c.type \in {"swap", "perp_order"}
  BY OrderAction DEF OrderOf
<1>2. c.limit \in Int
  BY <1>1, ActionTyped
<1>3. <<c.venue, Symbol(c)>> \in PerpKeys
  <2>1. CASE c.type = "swap"
    BY <1>1, <2>1, SwapBar DEF OrderOf, Symbol
  <2>2. CASE c.type = "perp_order"
    BY <1>1, <2>2, ActionTyped DEF Symbol, PerpKey
  <2> QED BY <1>1, <2>1, <2>2
<1>4. bar # NoBar /\ LimitTouched(bar, o.side, c.limit)
  BY DEF Touched
<1>5. bar \in Candle
  BY <1>3, <1>4, KnownMarket, MarketTyped DEF BarOf
<1>6. FillPrice(o) = LimitFillPrice(bar, o.side, c.limit)
  BY DEF FillPrice
<1> HIDE DEF bar
<1>7. /\ bar.open \in Nat /\ bar.high \in Nat /\ bar.low \in Nat
      /\ 1 <= bar.low /\ bar.low <= bar.open /\ bar.open <= bar.high
  BY <1>5, CandleTyped
<1>8. CASE o.side = "buy"
  <2>1. bar.low <= c.limit /\ FillPrice(o) = (IF bar.open <= c.limit THEN bar.open ELSE c.limit)
    BY <1>4, <1>6, <1>8 DEF LimitTouched, LimitFillPrice, Lesser
  <2> HIDE DEF c
  <2> QED BY <1>2, <1>7, <1>8, <2>1 DEF bar, c
<1>9. CASE o.side # "buy"
  <2>1. bar.high >= c.limit /\ FillPrice(o) = (IF bar.open >= c.limit THEN bar.open ELSE c.limit)
    BY <1>4, <1>6, <1>9 DEF LimitTouched, LimitFillPrice, Greater
  <2> HIDE DEF c
  <2> QED BY <1>2, <1>7, <1>9, <2>1 DEF bar, c
<1> QED BY <1>8, <1>9

\* An order that is filled is tried on the ledger without its earmark.
LEMMA FillOutcome ==
  ASSUME IInv, TInv, GInv, ready # <<>>
  PROVE  LET o == Head(ready)
         IN  /\ o \in Queued /\ OrderOf(o)
             /\ pc = "market_orders" => GoodOutcome(MarketOutcome(o), Release(ledger, o.id))
             /\ pc = "limit_orders" =>
                  /\ IsLimit(o.config)
                  /\ Touched(o) => GoodOutcome(LimitOutcome(o), Release(ledger, o.id))
<1> DEFINE o == Head(ready)
           l == Release(ledger, o.id)
<1>1. o \in Members(ready) /\ o \in Queued
  BY TailList, QueuedMembers DEF IInv, Lists
<1>2. OrderOf(o) /\ o.config \in Action /\ market \in Markets /\ Known
  BY <1>1, OrderAction, KnownMarket DEF GInv
<1>3. Good(l)
  BY GoodRelease DEF GInv
<1> HIDE DEF o, l
<1>4. GoodOutcome(MarketOutcome(o), l)
  <2>1. "open" \in Rules /\ o.config.type \in {"swap", "perp_order"}
    BY <1>2 DEF Rules, OrderOf
  <2>2. o.config.type = "swap" => GoodOutcome(ExecuteSwap(l, market, o.config, "open"), l)
    BY <1>2, <1>3, <2>1, ExecuteSwapOutcome
  <2>3. o.config.type = "perp_order" => GoodOutcome(ExecutePerp(l, market, o.config, "open"), l)
    BY <1>2, <1>3, <2>1, ExecutePerpOutcome
  <2> QED BY <2>1, <2>2, <2>3 DEF MarketOutcome, l
<1>5. pc = "limit_orders" => IsLimit(o.config)
  <2>1. pc = "limit_orders" => IsLimit(simulation.actions[o.node])
    BY <1>1 DEF TInv, Sorted, LimitOf
  <2>2. simulation.actions[o.node] \in Action
    BY <1>2, StrategyAssumption DEF Known, OrderOf, Nodes
  <2> QED BY <1>2, <2>1, <2>2, ResizedAction DEF OrderOf
<1>6. ASSUME pc = "limit_orders", Touched(o) PROVE GoodOutcome(LimitOutcome(o), l)
  <2>1. FillPrice(o) \in Nat
    BY <1>2, <1>5, <1>6, LimitPrice
  <2>2. o.config.type = "swap" => GoodOutcome(ExecuteSwapAt(l, market, o.config, FillPrice(o)), l)
    BY <1>2, <1>3, <2>1, SwapAtOutcome
  <2>3. o.config.type = "perp_order" => GoodOutcome(ExecutePerpAt(l, o.config, FillPrice(o)), l)
    BY <1>2, <1>3, <2>1, PerpAtOutcome
  <2> QED BY <1>2, <2>2, <2>3 DEF LimitOutcome, OrderOf, l
<1> QED BY <1>1, <1>2, <1>4, <1>5, <1>6 DEF o, l

\* The ledger an order leaves behind has no earmark of it, and the others.
Discharges(o) == Good(ledger)' /\ ledger'.reservations = Drop(ledger.reservations, o.id)

\* The event of a step is typed.
Reports == \E e : Log(e) /\ e.what \in Whats /\ e.why \in Reasons /\ e.at = tick

LEMMA LeaveDischarges ==
  ASSUME Good(ledger), NEW o, NEW r, NEW price, GoodOutcome(r, Release(ledger, o.id)), Leave(o, r, price)
  PROVE  Discharges(o) /\ Reports
<1>1. r.why \in Executions /\ r.why # "panic" /\ (r.why = "executed" => Becomes(Release(ledger, o.id), r.ledger))
  BY DEF GoodOutcome, Leave
<1>2. ledger' = IF r.why = "executed" THEN r.ledger ELSE Release(ledger, o.id)
  BY DEF Leave
<1>3. Discharges(o)
  BY <1>1, <1>2, GoodRelease DEF Discharges, Becomes
<1>4. Reports
  <2>1. r.why \in Reasons
    BY <1>1 DEF Executions, Reasons
  <2> QED BY <2>1 DEF Reports, Leave, Event, Whats
<1> QED BY <1>3, <1>4

LEMMA LapseDischarges ==
  ASSUME Good(ledger), NEW o, Lapse(o)
  PROVE  Discharges(o) /\ Reports
<1>1. ledger' = Release(ledger, o.id)
  BY DEF Lapse
<1>2. Discharges(o)
  BY <1>1, GoodRelease DEF Discharges
<1>3. Reports
  BY DEF Reports, Lapse, Event, Whats, Reasons
<1> QED BY <1>2, <1>3

\* An order that leaves takes its earmark with it, and nothing else of the queue.
Exits(o) ==
  o \in Queued /\ Queued' = Queued \ {o} /\ (\A x \in Queued' : x.id # o.id) /\ Discharges(o)

LEMMA ExitGood ==
  ASSUME IInv, GInv, NEW o, Leaves(o), Discharges(o), Reports,
         UNCHANGED <<input, equity, pc, visited>>, pc \notin {"funding", "yields", "liquidations"}
  PROVE  GInv' /\ Exits(o)
<1>1. Exits(o)
  BY LeaveInv DEF Exits
<1>2. tick \in Nat /\ tick > 0 /\ tick' = tick
  BY <1>1, TickBegun DEF Exits, input
<1>3. Recorded'
  BY <1>2, RecordsGrow DEF Reports, GInv, IInv, Lists
<1>4. (\A x \in Queued : OrderOf(x))'
  BY <1>1, OrdersStay DEF Exits, GInv, input
<1>5. Known' /\ visited' \subseteq Nodes' /\ pc' \in Phases
  BY DEF GInv, Known, input, Nodes
<1>6. Handling'
  BY DEF Handling
<1> QED BY <1>1, <1>3, <1>4, <1>5, <1>6 DEF GInv, Exits, Discharges

\* A scan keeps the order it looks at, with its earmark, or lets go of both.
LEMMA ScanGood ==
  ASSUME IInv, TInv, GInv, FillMarketOrder \/ FillLimitOrder \/ ExpireLimitOrder \/ KeepLimitOrder
  PROVE  /\ GInv'
         /\ \/ Queued' = Queued /\ ledger' = ledger
            \/ Exits(Head(ready))
<1> DEFINE o == Head(ready)
<1>1. /\ pc \in {"market_orders", "limit_orders"} /\ UNCHANGED <<input, equity, pc, visited>>
      /\ ready # <<>>
  BY ScanCases DEF FillMarketOrder, FillLimitOrder, ExpireLimitOrder, KeepLimitOrder, chain
<1>2. CASE Keeps
  <2>1. Queued' = Queued /\ events' = events
    BY <1>2, KeepInv DEF Keeps
  <2>2. ledger' = ledger
    <3>1. CASE FillMarketOrder
      <4>1. o.placed >= tick \/ Len(events') > Len(events)
        BY <1>2, <3>1, SeqGrows DEF FillMarketOrder, Leave, Log, IInv, Lists
      <4> QED BY <2>1, <3>1, <4>1 DEF FillMarketOrder
    <3>2. CASE FillLimitOrder \/ ExpireLimitOrder
      BY <2>1, <3>2, SeqGrows DEF FillLimitOrder, ExpireLimitOrder, Leave, Lapse, Log, IInv, Lists
    <3> QED BY <3>1, <3>2 DEF KeepLimitOrder
  <2>3. tick \in Int /\ tick' = tick
    BY <1>1, EngineAssumption DEF IInv, Numbered, input
  <2>4. (\A x \in Queued : OrderOf(x))' /\ Recorded'
    BY <1>1, <2>1, <2>3, OrdersStay, RecordsStay DEF GInv, input
  <2>5. Known' /\ Handling' /\ Good(ledger)' /\ visited' \subseteq Nodes' /\ pc' \in Phases
    BY <1>1, <2>2 DEF GInv, Known, Handling, input, Nodes
  <2> QED BY <2>1, <2>2, <2>4, <2>5 DEF GInv
<1>3. CASE Leaves(o)
  <2>1. Discharges(o) /\ Reports
    <3>1. CASE FillMarketOrder
      <4>1. GoodOutcome(MarketOutcome(o), Release(ledger, o.id))
        BY <1>1, <3>1, FillOutcome DEF FillMarketOrder
      <4>2. Leave(o, MarketOutcome(o), 0)
        <5>1. events' # events
          BY <1>3, SeqGrows DEF Leaves, Log, IInv, Lists
        <5> QED BY <3>1, <5>1 DEF FillMarketOrder
      <4> QED BY <4>1, <4>2, LeaveDischarges DEF GInv
    <3>2. CASE FillLimitOrder
      <4>1. pc = "limit_orders" /\ Touched(o) /\ Leave(o, LimitOutcome(o), FillPrice(o))
        BY <3>2 DEF FillLimitOrder
      <4>2. GoodOutcome(LimitOutcome(o), Release(ledger, o.id))
        BY <1>1, <4>1, FillOutcome
      <4> QED BY <4>1, <4>2, LeaveDischarges DEF GInv
    <3>3. CASE ExpireLimitOrder
      BY <3>3, LapseDischarges DEF ExpireLimitOrder, GInv
    <3>4. CASE KeepLimitOrder
      BY <1>3, <3>4, SeqGrows DEF KeepLimitOrder, Leaves, Log, IInv, Lists
    <3> QED BY <3>1, <3>2, <3>3, <3>4
  <2> HIDE DEF o
  <2> QED BY <1>1, <1>3, <2>1, ExitGood DEF o
<1> QED BY <1>2, <1>3, ScanCases

LEMMA DrainGood ==
  ASSUME IInv, GInv, DrainResting \/ DrainPending
  PROVE  GInv' /\ \E o : Exits(o)
<1>1. PICK o : Lapse(o) /\ Leaves(o)
  <2>1. ASSUME NEW o, Lapse(o)
        PROVE  \E e : Log(e) /\ e.what \in {"filled", "rejected", "expired"} /\ e.order = o.id
    BY <2>1 DEF Lapse, Event
  <2>2. DrainResting => Lapse(Head(resting)) /\ Leaves(Head(resting))
    BY <2>1 DEF DrainResting, Leaves, input
  <2>3. DrainPending => Lapse(Head(pending)) /\ Leaves(Head(pending))
    BY <2>1 DEF DrainPending, Leaves, input
  <2> QED BY <2>2, <2>3
<1>2. UNCHANGED <<input, equity, pc, visited>> /\ pc \in {"drain_resting", "drain_pending"}
  BY DEF DrainResting, DrainPending, chain
<1> QED BY <1>1, <1>2, LapseDischarges, ExitGood DEF GInv

----------------------------------------------------------------------------
(* The ledger over a whole run.                                             *)

LEMMA InitGood == Init => GInv
<1> SUFFICES ASSUME Init PROVE GInv
  OBVIOUS
<1>1. simulation \in Simulations /\ simulation.balances \in [Accounts -> Nat]
  BY EngineAssumption DEF Init
<1>2. Known
  <2>1. market \in simulation.markets
    BY <1>1, EngineAssumption DEF Init
  <2> QED BY <1>1, <2>1 DEF Init, Known
<1>3. Good(ledger)
  <2>1. simulation.balances \in [Accounts -> Int]
    BY <1>1
  <2> QED BY <1>1, <2>1, EmptyLedgerType, CoveredInitially DEF Init, Good
<1>4. Queued = {}
  BY QueuedMembers, EmptyList DEF Init
<1>5. Handling /\ Recorded /\ pc \in Phases /\ visited \subseteq Nodes
  BY DEF Init, Handling, Recorded, Phases
<1> QED BY <1>2, <1>3, <1>4, <1>5 DEF GInv

\* What a step does to the orders that wait and to their earmarks.
LEMMA StepGood ==
  ASSUME IInv, TInv, GInv, [Next]_vars, Nat \subseteq OrderIds
  PROVE  /\ GInv'
         /\ \/ Queued' = Queued /\ ledger'.reservations = ledger.reservations
            \/ \E o : Exits(o)
            \/ PlaceOrder
<1>1. CASE Quiet \/ NextTick \/ Terminated
  <2>1. Quiet \/ NextTick
    BY <1>1 DEF Terminated, Quiet
  <2>2. Queued' = Queued
    BY <2>1, QuietInv, NextTickInv
  <2> QED BY <2>1, <2>2, QuietGood DEF Becomes
<1>2. CASE ExecuteAction \/ RefuseAction
  <2>1. Queued' = Queued
    BY <1>2, ActionInv
  <2> QED BY <1>2, <2>1, ActionGood DEF Becomes
<1>3. CASE PlaceOrder
  BY <1>3, PlaceGood
<1>4. CASE BeginMarketOrders \/ BeginLimitOrders \/ BeginSignals
  <2>1. Queued' = Queued
    BY <1>4, BeginMarketOrdersInv, BeginLimitOrdersInv, BeginSignalsInv
  <2> QED BY <1>4, <2>1, BeginGood DEF Becomes
<1>5. CASE FillMarketOrder \/ FillLimitOrder \/ ExpireLimitOrder \/ KeepLimitOrder
  BY <1>5, ScanGood
<1>6. CASE DrainResting \/ DrainPending
  BY <1>6, DrainGood
<1> QED BY <1>1, <1>2, <1>3, <1>4, <1>5, <1>6 DEF Next, Tick, RunChain, Quiet

\* The invariants of the queue, of the trace and of the ledger hold together.
AllInv == IInv /\ TInv /\ GInv

LEMMA AllInvariant ==
  ASSUME Nat \subseteq OrderIds
  PROVE  Spec => []AllInv
<1>1. Init => AllInv
  BY InitInv, InitInTime, InitGood DEF AllInv
<1>2. AllInv /\ [Next]_vars => AllInv'
  BY NextInv, NextInTime, StepGood DEF AllInv
<1> QED BY <1>1, <1>2, PTL DEF Spec

LEMMA TypesFollow ==
  ASSUME AllInv, Nat \subseteq OrderIds
  PROVE  TypeOK
<1>1. \A o \in Queued : IsOrder(o)
  <2> SUFFICES ASSUME NEW o \in Queued PROVE IsOrder(o)
    OBVIOUS
  <2>1. OrderOf(o) /\ o.id \in Nat /\ o.id < orderSeq /\ o.placed \in Nat /\ o.placed <= tick /\ tick \in Nat
    BY EngineAssumption DEF AllInv, GInv, IInv, Waiting, Numbered
  <2> QED BY <2>1 DEF OrderOf, IsOrder, Nodes
<1>2. IsLedger(ledger, Position)
  <2>1. IsLedger(ledger, Sound) /\ Sound \subseteq Position
    BY DEF AllInv, GInv, Good, Sound
  <2> QED BY <2>1 DEF IsLedger
<1> QED BY <1>1, <1>2 DEF AllInv, GInv, Known, Recorded, IInv, Numbered, Nodes, TypeOK

(* The types of the engine: whatever trades, liquidates, accrues or settles,    *)
(* the ledger keeps its shape, positions keep a size and a margin that are not   *)
(* negative, and every waiting order is an order that was placed and numbered.   *)
THEOREM EngineTyped ==
  ASSUME Nat \subseteq OrderIds
  PROVE  Spec => []TypeOK
<1>1. AllInv => TypeOK
  BY TypesFollow
<1> QED BY <1>1, AllInvariant, PTL

(* Earmarked cash is not spent: under the strict policy every account holds at  *)
(* least what the waiting orders have earmarked on it, through fills, funding,   *)
(* liquidations, gas and whatever else debits it.                                *)
THEOREM EarmarksStayCovered ==
  ASSUME Nat \subseteq OrderIds
  PROVE  Spec => []EarmarksCovered
<1>1. AllInv => EarmarksCovered
  BY DEF AllInv, GInv, Good, Covered, EarmarksCovered
<1> QED BY <1>1, AllInvariant, PTL

----------------------------------------------------------------------------
(* Earmarks and the orders they are for.                                    *)

LEMMA InitMatches == Init => EarmarksMatchOrders
<1> SUFFICES ASSUME Init PROVE EarmarksMatchOrders
  OBVIOUS
<1>1. Queued = {}
  BY QueuedMembers, EmptyList DEF Init
<1>2. DOMAIN ledger.reservations = {}
  BY DEF Init, EmptyLedger
<1> QED BY <1>1, <1>2 DEF EarmarksMatchOrders

\* An order that leaves, with its earmark.
LEMMA ExitMatches ==
  ASSUME EarmarksMatchOrders, NEW o, Exits(o)
  PROVE  EarmarksMatchOrders'
<1> DEFINE r == ledger.reservations
           s == ledger'.reservations
<1>1. o \in Queued /\ Queued' = Queued \ {o} /\ (\A x \in Queued' : x.id # o.id) /\ s = Drop(r, o.id)
  BY DEF Exits, Discharges
<1>2. DOMAIN s = DOMAIN r \ {o.id} /\ \A i \in DOMAIN s : s[i] = r[i]
  BY <1>1 DEF Drop
<1>3. /\ DOMAIN r = {x.id : x \in {y \in Queued : y.mark > 0}}
      /\ \A x \in Queued : x.mark > 0 => r[x.id].amount = x.mark /\ r[x.id].venue = x.config.venue
  BY DEF EarmarksMatchOrders
<1> HIDE DEF r, s
<1>4. DOMAIN s = {x.id : x \in {y \in Queued' : y.mark > 0}}
  BY <1>1, <1>2, <1>3
<1>5. \A x \in Queued' : x.mark > 0 => s[x.id].amount = x.mark /\ s[x.id].venue = x.config.venue
  BY <1>1, <1>2, <1>3
<1> QED BY <1>4, <1>5 DEF EarmarksMatchOrders, s

\* An order that is placed, with its earmark unless its fill needs none.
LEMMA PlaceMatches ==
  ASSUME AllInv, EarmarksMatchOrders, PlaceOrder, Nat \subseteq OrderIds
  PROVE  EarmarksMatchOrders'
<1> DEFINE o == NewOrder
           mark == Earmark(market, o.config)
           r == ledger.reservations
           s == ledger'.reservations
<1>1. /\ ledger' = Earmarked(ledger, o.config) /\ Queued' = Queued \cup {o} /\ o.id = orderSeq
      /\ o.mark = mark.amount /\ mark.amount \in Nat /\ Good(ledger)
  BY PlaceGood, EarmarkType DEF AllInv, GInv
<1>2. /\ DOMAIN r = {x.id : x \in {y \in Queued : y.mark > 0}}
      /\ \A x \in Queued : x.mark > 0 => r[x.id].amount = x.mark /\ r[x.id].venue = x.config.venue
  BY DEF EarmarksMatchOrders
<1>3. orderSeq \in Nat /\ \A x \in Queued : x.id \in Nat /\ x.id < orderSeq
  BY DEF AllInv, IInv, Waiting, Numbered
<1>4. /\ o.mark = 0 => s = r
      /\ o.mark # 0 => s = Put(r, orderSeq, [venue |-> o.config.venue, asset |-> mark.asset, amount |-> o.mark])
  BY <1>1 DEF Earmarked, Reserve, Good, IsLedger
<1>5. /\ o.mark # 0 => /\ DOMAIN s = DOMAIN r \cup {orderSeq}
                       /\ s[orderSeq].amount = o.mark /\ s[orderSeq].venue = o.config.venue
      /\ \A i \in DOMAIN r : i # orderSeq => s[i] = r[i]
  BY <1>4 DEF Put
<1> HIDE DEF r, s, o, mark
<1>6. DOMAIN s = {x.id : x \in {y \in Queued' : y.mark > 0}}
  <2>1. CASE o.mark = 0
    BY <1>1, <1>2, <1>4, <2>1
  <2>2. CASE o.mark # 0
    <3> DEFINE old == {y \in Queued : y.mark > 0}
    <3>1. o.mark > 0
      BY <1>1, <2>2
    <3>2. {y \in Queued' : y.mark > 0} = old \cup {o}
      BY <1>1, <3>1
    <3>3. DOMAIN s = {x.id : x \in old} \cup {o.id}
      BY <1>1, <1>2, <1>5, <2>2
    <3> HIDE DEF old
    <3>4. {x.id : x \in old \cup {o}} = {x.id : x \in old} \cup {o.id}
      OBVIOUS
    <3> QED BY <3>2, <3>3, <3>4
  <2> QED BY <2>1, <2>2
<1>7. \A x \in Queued' : x.mark > 0 => s[x.id].amount = x.mark /\ s[x.id].venue = x.config.venue
  BY <1>1, <1>2, <1>3, <1>5
<1> QED BY <1>6, <1>7 DEF EarmarksMatchOrders, s

LEMMA NextMatches ==
  ASSUME AllInv, EarmarksMatchOrders, [Next]_vars, Nat \subseteq OrderIds
  PROVE  EarmarksMatchOrders'
<1>1. CASE Queued' = Queued /\ ledger'.reservations = ledger.reservations
  BY <1>1 DEF EarmarksMatchOrders
<1> QED BY <1>1, StepGood, ExitMatches, PlaceMatches DEF AllInv

(* An order and its earmark come and go together: nothing waits uncovered, and   *)
(* no earmark is left behind by an order that was filled, refused or expired,    *)
(* during a scan, in a chain or when the run is drained.                         *)
THEOREM EarmarksFollowOrders ==
  ASSUME Nat \subseteq OrderIds
  PROVE  Spec => []EarmarksMatchOrders
<1>1. AllInv /\ EarmarksMatchOrders /\ [Next]_vars => EarmarksMatchOrders'
  BY NextMatches
<1> QED BY <1>1, InitMatches, AllInvariant, PTL DEF Spec

----------------------------------------------------------------------------
(* What a step may do.                                                      *)

\* The step formulas of the action properties.
Reconciled ==
  pc = "funding" /\ todo # <<>> /\ pc' = "funding" =>
    CashAndMargin(ledger, Head(todo)) - CashAndMargin(ledger', Head(todo))
      = ledger'.funding - ledger.funding

Untraced ==
  Len(events') > Len(events) /\ SE!Last(events').what \in {"refused", "rejected"} =>
    [ledger' EXCEPT !.reservations = <<>>] = [ledger EXCEPT !.reservations = <<>>]

\* A step of the funding phase collects one position's funding.
LEMMA NextReconciles ==
  ASSUME AllInv, [Next]_vars
  PROVE  Reconciled
<1> SUFFICES ASSUME pc = "funding", todo # <<>>, pc' = "funding"
             PROVE  CashAndMargin(ledger, Head(todo)) - CashAndMargin(ledger', Head(todo))
                      = ledger'.funding - ledger.funding
  BY DEF Reconciled
<1>1. stack = <<>> /\ roots = <<>>
  BY DEF AllInv, IInv, Staged, Idle
<1>2. ApplyFunding \/ UNCHANGED vars
  BY <1>1 DEF Next, Tick, RunChain, NextTick, LastTick, PhaseDone, ApplyYield, CheckLiquidation,
     BeginMarketOrders, FillMarketOrder, BeginLimitOrders, ExpireLimitOrder, KeepLimitOrder, FillLimitOrder,
     BeginSignals, FireSignal, PassSignal, BeginSnapshot, Snapshot, DrainResting, DrainPending, DrainDone,
     StartChain, SkipAction, ExecuteAction, PlaceOrder, RefuseAction, IsNew, Panic, Terminated
<1>3. CASE ApplyFunding
  BY <1>3, FundingStep DEF AllInv, CashAndMargin
<1>4. CASE UNCHANGED vars
  <2> DEFINE k == Head(todo)
  <2>1. k \in DOMAIN ledger.perps
    BY NodeLists DEF AllInv, GInv, Handling
  <2>2. k[1] \in Venues /\ USDC \in Assets /\ ledger.perps[k].margin \in Nat
    BY <2>1, GoodPosition, SoundTyped DEF AllInv, GInv
  <2>3. Balance(ledger, k[1], USDC) \in Int /\ ledger.funding \in Int
    BY <2>2, GoodAccount DEF AllInv, GInv, Good, IsLedger
  <2>4. ledger' = ledger
    BY <1>4 DEF vars
  <2>5. CashAndMargin(ledger, k) \in Int
    BY <2>2, <2>3 DEF CashAndMargin
  <2> QED BY <2>3, <2>4, <2>5
<1> QED BY <1>2, <1>3, <1>4

(* Every dollar of funding that leaves or reaches the cash and the margin of a   *)
(* position is in the funding counter, and no dollar more: what the margin could *)
(* not pay is not recorded.                                                      *)
THEOREM FundingIsAccounted ==
  ASSUME Nat \subseteq OrderIds
  PROVE  Spec => FundingReconciles
<1>1. AllInv /\ [Next]_vars => Reconciled
  BY NextReconciles
<1>2. [][Reconciled]_vars => FundingReconciles
  BY PTL DEF Reconciled, FundingReconciles
<1> QED BY <1>1, <1>2, AllInvariant, PTL DEF Spec

(* Where balances may go negative, a funding charge is always collectible: the   *)
(* debit that the code expects to succeed does.                                  *)
THEOREM DebtsPayFunding ==
  ASSUME Nat \subseteq OrderIds, AllowNegative
  PROVE  Spec => []FundingNeverPanics
<1>1. AllInv => FundingNeverPanics
  <2> SUFFICES ASSUME AllInv, pc = "funding", todo # <<>>
               PROVE  CanCollectFunding(ledger, Head(todo), FundingOwed(Head(todo)))
    BY DEF FundingNeverPanics
  <2>1. FundingOwed(Head(todo)) \in Int
    BY OwedTyped DEF AllInv
  <2> QED BY <2>1 DEF CanCollectFunding, FundingFromCash, CanDebit
<1> QED BY <1>1, AllInvariant, PTL

\* What a step that logs shows last.
LEMMA LastEvent ==
  ASSUME \E S : events \in Seq(S), NEW e, Log(e)
  PROVE  SE!Last(events') = e /\ Len(events') = Len(events) + 1 /\ Len(events) \in Nat
<1>1. PICK S : events \in Seq(S)
  OBVIOUS
<1>2. events \in Seq(S \cup {e}) /\ e \in S \cup {e}
  BY <1>1, SeqGrows
<1>3. events' = Append(events, e)
  BY DEF Log
<1> QED BY <1>2, <1>3 DEF SE!Last

\* Without its reservations, a ledger is the same before and after a release.
LEMMA ReleaseLeavesRest ==
  ASSUME NEW l, Good(l), NEW o
  PROVE  [Release(l, o) EXCEPT !.reservations = <<>>] = [l EXCEPT !.reservations = <<>>]
BY DEF Release, Good, IsLedger

LEMMA NextUntraced ==
  ASSUME AllInv, [Next]_vars
  PROVE  Untraced
<1>1. \E S : events \in Seq(S)
  BY DEF AllInv, IInv, Lists
<1>2. ASSUME events' = events PROVE Untraced
  BY <1>1, <1>2 DEF Untraced
<1>3. ASSUME NEW e, Log(e), e.what \notin {"refused", "rejected"} PROVE Untraced
  BY <1>1, <1>3, LastEvent DEF Untraced
<1>4. CASE Quiet \/ NextTick \/ Terminated \/ BeginMarketOrders \/ BeginLimitOrders \/ BeginSignals \/ KeepLimitOrder
  BY <1>2, <1>4 DEF Quiet, PhaseDone, ApplyFunding, ApplyYield, CheckLiquidation, FireSignal, PassSignal,
     StartChain, SkipAction, BeginSnapshot, Snapshot, LastTick, DrainDone, Panic, NextTick, Terminated,
     BeginMarketOrders, BeginLimitOrders, BeginSignals, KeepLimitOrder, vars
<1>5. CASE ExecuteAction \/ PlaceOrder
  <2>1. \E e : Log(e) /\ e.what \in {"executed", "placed"}
    BY <1>5 DEF ExecuteAction, PlaceOrder, Event
  <2> QED BY <1>3, <2>1
<1>6. CASE RefuseAction
  BY <1>6 DEF RefuseAction, Untraced
<1>7. ASSUME NEW o, NEW r, NEW price, Leave(o, r, price)
      PROVE  Untraced
  <2>1. CASE r.why = "executed"
    <3>1. \E e : Log(e) /\ e.what = "filled"
      BY <1>7, <2>1 DEF Leave, Event
    <3> QED BY <1>3, <3>1
  <2>2. CASE r.why # "executed"
    <3>1. ledger' = Release(ledger, o.id)
      BY <1>7, <2>2 DEF Leave
    <3>2. [ledger' EXCEPT !.reservations = <<>>] = [ledger EXCEPT !.reservations = <<>>]
      BY <3>1, ReleaseLeavesRest DEF AllInv, GInv
    <3> QED BY <3>2 DEF Untraced
  <2> QED BY <2>1, <2>2
<1>8. CASE FillMarketOrder
  <2>1. events' = events \/ Leave(Head(ready), MarketOutcome(Head(ready)), 0)
    BY <1>8 DEF FillMarketOrder
  <2> QED BY <1>2, <1>7, <2>1
<1>9. CASE FillLimitOrder
  <2>1. Leave(Head(ready), LimitOutcome(Head(ready)), FillPrice(Head(ready)))
    BY <1>9 DEF FillLimitOrder
  <2> QED BY <1>7, <2>1
<1>10. CASE ExpireLimitOrder \/ DrainResting \/ DrainPending
  <2>1. \E e : Log(e) /\ e.what = "expired"
    BY <1>10 DEF ExpireLimitOrder, DrainResting, DrainPending, Lapse, Event
  <2> QED BY <1>3, <2>1
<1> QED BY <1>4, <1>5, <1>6, <1>8, <1>9, <1>10 DEF Next, Tick, RunChain, Quiet

(* A refusal, of an action or of a fill, changes nothing in the ledger but the   *)
(* order's own earmark, whatever the attempt had already done to its copy.       *)
THEOREM RefusalsAreClean ==
  ASSUME Nat \subseteq OrderIds
  PROVE  Spec => RefusalsLeaveNoTrace
<1>1. AllInv /\ [Next]_vars => Untraced
  BY NextUntraced
<1>2. [][Untraced]_vars => RefusalsLeaveNoTrace
  BY PTL DEF Untraced, RefusalsLeaveNoTrace
<1> QED BY <1>1, <1>2, AllInvariant, PTL DEF Spec

----------------------------------------------------------------------------
(* Prices and positions.                                                    *)

FilledWithinBar ==
  pc = "limit_orders" /\ Len(events') > Len(events) /\ SE!Last(events').what = "filled" =>
    LET o == Head(ready)
        bar == BarOf(market, o.config.venue, Symbol(o.config))
        price == SE!Last(events').price
    IN  /\ bar.low <= price /\ price <= bar.high
        /\ IF o.side = "buy" THEN price <= o.config.limit ELSE price >= o.config.limit

\* Only a limit order that was touched fills in the scan of the book.
LEMMA NextWithinBar ==
  ASSUME AllInv, [Next]_vars
  PROVE  FilledWithinBar
<1>1. \E S : events \in Seq(S)
  BY DEF AllInv, IInv, Lists
<1>2. ASSUME events' = events PROVE FilledWithinBar
  BY <1>1, <1>2 DEF FilledWithinBar
<1>3. ASSUME NEW e, Log(e), e.what # "filled" PROVE FilledWithinBar
  BY <1>1, <1>3, LastEvent DEF FilledWithinBar
<1>4. CASE Quiet \/ NextTick \/ Terminated \/ BeginMarketOrders \/ BeginLimitOrders \/ BeginSignals \/ KeepLimitOrder
  BY <1>2, <1>4 DEF Quiet, PhaseDone, ApplyFunding, ApplyYield, CheckLiquidation, FireSignal, PassSignal,
     StartChain, SkipAction, BeginSnapshot, Snapshot, LastTick, DrainDone, Panic, NextTick, Terminated,
     BeginMarketOrders, BeginLimitOrders, BeginSignals, KeepLimitOrder, vars
<1>5. CASE ExecuteAction \/ PlaceOrder \/ RefuseAction \/ ExpireLimitOrder \/ DrainResting \/ DrainPending
  <2>1. \E e : Log(e) /\ e.what \in {"executed", "placed", "refused", "expired"}
    BY <1>5 DEF ExecuteAction, PlaceOrder, RefuseAction, ExpireLimitOrder, DrainResting, DrainPending, Lapse, Event
  <2> QED BY <1>3, <2>1
<1>6. CASE FillMarketOrder
  BY <1>6 DEF FillMarketOrder, FilledWithinBar
<1>7. CASE FillLimitOrder
  <2> DEFINE o == Head(ready)
  <2>1. pc = "limit_orders" /\ ready # <<>> /\ Touched(o) /\ Leave(o, LimitOutcome(o), FillPrice(o))
    BY <1>7 DEF FillLimitOrder
  <2>2. Known /\ OrderOf(o) /\ IsLimit(o.config)
    BY <2>1, FillOutcome DEF AllInv, GInv
  <2>3. \/ \E e : Log(e) /\ e.what = "rejected"
        \/ \E e : Log(e) /\ e.price = FillPrice(o)
    BY <2>1 DEF Leave, Event
  <2>4. ASSUME NEW e, Log(e), e.price = FillPrice(o) PROVE FilledWithinBar
    <3>1. SE!Last(events').price = FillPrice(o)
      BY <1>1, <2>4, LastEvent
    <3> QED BY <2>1, <2>2, <3>1, LimitPrice DEF FilledWithinBar
  <2> QED BY <1>3, <2>3, <2>4
<1> QED BY <1>4, <1>5, <1>6, <1>7 DEF Next, Tick, RunChain, Quiet

(* A limit order fills at a price the bar traded at, and no worse than its limit. *)
THEOREM LimitFillsAreTraded ==
  ASSUME Nat \subseteq OrderIds
  PROVE  Spec => LimitFillsAtTradedPrice
<1>1. AllInv /\ [Next]_vars => FilledWithinBar
  BY NextWithinBar
<1>2. [][FilledWithinBar]_vars => LimitFillsAtTradedPrice
  BY PTL DEF FilledWithinBar, LimitFillsAtTradedPrice
<1> QED BY <1>1, <1>2, AllInvariant, PTL DEF Spec

\* A position that does not have its margin eaten up at the worst price of its bar.
Safe(k) ==
  LET p == ledger.perps[k]
      worst == IF p.side = "long" THEN Quote(k).low ELSE Quote(k).high
  IN  worst > 0 => (p.margin + UnrealizedPnl(p, worst)) * Bps > MaintenanceBps * worst * p.size

\* Liquidation leaves behind it positions that are safe.
ZInv ==
  /\ pc = "liquidations" => \A k \in DOMAIN ledger.perps \ Members(todo) : Safe(k)
  /\ NoZombiePositions

LEMMA Products ==
  ASSUME NEW x \in Nat, NEW y \in Nat, NEW m \in Nat
  PROVE  /\ x * y \in Nat /\ m * x * y = m * (x * y)
         /\ x * y * (10000 - m) = (x * y) * 10000 - m * (x * y)
         /\ x * y * (10000 + m) = (x * y) * 10000 + m * (x * y)
<1>1. x * y \in Nat
  BY SMT
<1>2. m * x * y = m * (x * y)
  BY SMT
<1> DEFINE n == x * y
<1> HIDE DEF n
<1>3. n \in Nat => n * (10000 - m) = n * 10000 - m * n /\ n * (10000 + m) = n * 10000 + m * n
  BY SMT
<1> QED BY <1>1, <1>2, <1>3 DEF n

\* What the check does not find breached is safe.
LEMMA SafeUnlessBreached ==
  ASSUME GInv, NEW k \in DOMAIN ledger.perps,
         Quote(k).open = 0 \/ ~Breached(ledger.perps[k], Quote(k))
  PROVE  Safe(k)
<1> DEFINE p == ledger.perps[k]
           q == Quote(k)
           worst == IF p.side = "long" THEN q.low ELSE q.high
           n == worst * p.size
           mn == MaintenanceBps * n
<1>1. p \in Sound /\ k \in PerpKeys
  BY GoodPosition DEF GInv
<1>2. /\ q.open \in Nat /\ q.high \in Nat /\ q.low \in Nat /\ (q.open = 0 => q.high = 0 /\ q.low = 0)
      /\ p.size \in Nat /\ p.cost \in Nat /\ p.margin \in Nat /\ p.side \in {"long", "short"}
      /\ MaintenanceBps \in Nat /\ Bps = 10000
  <2>1. q.open \in Nat /\ q.high \in Nat /\ q.low \in Nat /\ (q.open = 0 => q.high = 0 /\ q.low = 0)
    BY <1>1, QuoteType DEF GInv
  <2>2. p.size \in Nat /\ p.cost \in Nat /\ p.margin \in Nat /\ p.side \in {"long", "short"}
    BY <1>1, SoundTyped
  <2>3. MaintenanceBps \in Nat /\ Bps = 10000
    BY EngineAssumption DEF Bps
  <2> QED BY <2>1, <2>2, <2>3
<1>3. SUFFICES ASSUME worst > 0
               PROVE  (p.margin + UnrealizedPnl(p, worst)) * Bps > MaintenanceBps * worst * p.size
  BY DEF Safe
<1>4. ~Breached(p, q)
  BY <1>2, <1>3
<1>5. worst \in Nat
  BY <1>2
<1> HIDE DEF p, q
<1>6. /\ n \in Nat /\ MaintenanceBps * worst * p.size = mn /\ mn \in Nat
      /\ worst * p.size * (10000 - MaintenanceBps) = n * 10000 - mn
      /\ worst * p.size * (10000 + MaintenanceBps) = n * 10000 + mn
  <2> HIDE DEF worst
  <2> QED BY <1>2, <1>5, Products
<1>7. CASE p.side = "long"
  <2>1. ~(n * 10000 - mn <= (p.cost - p.margin) * 10000) /\ UnrealizedPnl(p, worst) = n - p.cost
    BY <1>2, <1>4, <1>6, <1>7 DEF Breached, UnrealizedPnl
  <2> HIDE DEF n, mn, worst
  <2> QED BY <1>2, <1>6, <2>1
<1>8. CASE p.side = "short"
  <2>1. ~(n * 10000 + mn >= (p.cost + p.margin) * 10000) /\ UnrealizedPnl(p, worst) = p.cost - n
    BY <1>2, <1>4, <1>6, <1>8 DEF Breached, UnrealizedPnl
  <2> HIDE DEF n, mn, worst
  <2> QED BY <1>2, <1>6, <2>1
<1> QED BY <1>2, <1>7, <1>8

LEMMA NextSafe ==
  ASSUME AllInv, ZInv, [Next]_vars
  PROVE  ZInv'
<1>1. pc \in {"liquidations", "valuation", "yields", "funding"} => stack = <<>> /\ roots = <<>>
  BY DEF AllInv, IInv, Staged, Idle
<1>2. CASE PhaseDone
  <2>1. UNCHANGED <<ledger, market, marks>> /\ todo = <<>>
    BY <1>2 DEF PhaseDone, input
  <2>2. \A k : Safe(k)' <=> Safe(k)
    BY <2>1 DEF Safe, Quote
  <2>3. CASE pc' = "liquidations"
    <3>1. todo' = OpenPerps(ledger)
      BY <1>2, <2>3 DEF PhaseDone
    <3>2. Members(todo)' = DOMAIN ledger'.perps
      BY <2>1, <3>1, PhaseBegins DEF AllInv, GInv, Members
    <3> QED BY <2>3, <3>2 DEF ZInv, NoZombiePositions
  <2>4. CASE pc' = "valuation"
    <3>1. pc = "liquidations"
      BY <1>2, <2>4 DEF PhaseDone
    <3>2. Members(todo) = {}
      BY <2>1, EmptyList
    <3>3. \A k \in DOMAIN ledger.perps : Safe(k)
      BY <3>1, <3>2 DEF ZInv
    <3>4. (\A k \in DOMAIN ledger.perps : Safe(k))'
      BY <2>1, <2>2, <3>3
    <3> QED BY <2>4, <3>4 DEF ZInv, NoZombiePositions, Safe
  <2> QED BY <1>2, <2>3, <2>4 DEF PhaseDone, ZInv, NoZombiePositions
<1>3. CASE CheckLiquidation
  <2> DEFINE k == Head(todo)
  <2>1. /\ pc = "liquidations" /\ pc' = pc /\ k \in DOMAIN ledger.perps /\ Members(todo) = Members(todo') \cup {k}
        /\ \/ ledger'.perps = Drop(ledger.perps, k)
           \/ /\ ledger' = ledger
              /\ Quote(k).open = 0 \/ ~Breached(ledger.perps[k], Quote(k))
    BY <1>3, LiquidationStep DEF AllInv
  <2>2. UNCHANGED <<market, marks>>
    BY <1>3 DEF CheckLiquidation, input
  <2> HIDE DEF k
  <2>3. \A x \in DOMAIN ledger.perps \ Members(todo) : Safe(x)
    BY <2>1 DEF ZInv
  <2>4. ASSUME NEW x \in DOMAIN ledger'.perps, x \notin Members(todo') PROVE Safe(x)'
    <3>1. CASE ledger'.perps = Drop(ledger.perps, k)
      <4>1. x \in DOMAIN ledger.perps \ Members(todo) /\ ledger'.perps[x] = ledger.perps[x]
        BY <2>1, <2>4, <3>1 DEF Drop
      <4>2. Safe(x)
        BY <2>3, <4>1
      <4> QED BY <2>2, <4>1, <4>2 DEF Safe, Quote
    <3>2. CASE ledger' = ledger /\ (Quote(k).open = 0 \/ ~Breached(ledger.perps[k], Quote(k)))
      <4>1. Safe(x)
        BY <2>1, <2>3, <2>4, <3>2, SafeUnlessBreached DEF AllInv
      <4> QED BY <2>2, <3>2, <4>1 DEF Safe, Quote
    <3> QED BY <2>1, <3>1, <3>2
  <2> QED BY <2>1, <2>4 DEF ZInv, NoZombiePositions, Members
<1>4. CASE UNCHANGED vars \/ Terminated
  <2>1. UNCHANGED vars
    BY <1>4 DEF Terminated
  <2> QED BY <2>1 DEF vars, input, ZInv, NoZombiePositions, Safe, Quote, Members
<1>5. CASE ~(PhaseDone \/ CheckLiquidation \/ UNCHANGED vars \/ Terminated)
  <2>1. pc' \notin {"liquidations", "valuation"}
    BY <1>1, <1>5 DEF Next, Tick, RunChain, NextTick, LastTick, ApplyYield, ApplyFunding,
       BeginMarketOrders, FillMarketOrder, BeginLimitOrders, ExpireLimitOrder, KeepLimitOrder, FillLimitOrder,
       BeginSignals, FireSignal, PassSignal, BeginSnapshot, Snapshot, DrainResting, DrainPending, DrainDone,
       StartChain, SkipAction, ExecuteAction, PlaceOrder, RefuseAction, IsNew, Panic
  <2> QED BY <2>1 DEF ZInv, NoZombiePositions
<1> QED BY <1>2, <1>3, <1>4, <1>5

(* When a tick's equity is taken and its orders are filled, every position left   *)
(* is above its maintenance margin at the worst price of the bar, the funding of  *)
(* the tick included.                                                             *)
THEOREM NothingLeftToLiquidate ==
  ASSUME Nat \subseteq OrderIds
  PROVE  Spec => []NoZombiePositions
<1>1. Init => ZInv
  BY DEF Init, ZInv, NoZombiePositions
<1>2. AllInv /\ ZInv /\ [Next]_vars => ZInv'
  BY NextSafe
<1>3. ZInv => NoZombiePositions
  BY DEF ZInv
<1> QED BY <1>1, <1>2, <1>3, AllInvariant, PTL DEF Spec

----------------------------------------------------------------------------
(* What an earmark is good for.                                             *)

\* The asset an order spends.
Spent(c) == IF c.type = "swap" THEN c.from ELSE USDC

\* An order's earmark is on the asset it spends, and is what its fill would debit
\* at the gas of its placement.
Backed(o) ==
  /\ o.mark > 0 => ledger.reservations[o.id].asset = Spent(o.config)
  /\ o.config.type = "swap" => o.config.amount.basis # "all"
  /\ \E j \in EventsOf({"placed"}) :
       /\ events[j].order = o.id /\ events[j].gas \in Nat
       /\ o.mark = Earmark([gas |-> events[j].gas], o.config).amount

\* A swap is not refused for want of funds where its spend at no less gas is there.
LEMMA SwapAffordable ==
  ASSUME NEW l, NEW m, m.gas \in Nat, NEW g \in Nat, m.gas <= g,
         NEW c \in Action, c.type = "swap", c.amount.basis # "all",
         Available(l, c.venue, c.from) \in Nat,
         SwapSpend([gas |-> g], c) <= Available(l, c.venue, c.from), NEW price
  PROVE  ExecuteSwapAt(l, m, c, price).why # "funds"
<1> DEFINE n == c.amount.value
           a == Available(l, c.venue, c.from)
           fee == Fee(n)
           gas == Gas(m, c.venue)
<1>1. n \in Int /\ a \in Nat /\ fee \in Int /\ (n > 0 => fee \in Nat)
  BY ActionTyped, FeeType
<1>2. gas \in Nat /\ gas <= Gas([gas |-> g], c.venue) /\ Gas([gas |-> g], c.venue) \in Nat
  BY DEF Gas
<1>3. CASE ~SwapValid(c) \/ n <= 0 \/ price = 0
  BY <1>3 DEF ExecuteSwapAt, SwapAt, SwapAmount, Refused
<1>4. CASE SwapValid(c) /\ n > 0 /\ price # 0
  <2>1. ExecuteSwapAt(l, m, c, price) =
          IF SwapDirection(c) = "buy" THEN Buy(l, m, c, n, price) ELSE Sell(l, m, c, n, price)
    BY <1>1, <1>4 DEF ExecuteSwapAt, SwapAt, SwapAmount
  <2>2. CASE SwapDirection(c) = "buy"
    <3>1. n + fee + Gas([gas |-> g], c.venue) <= a
      BY <1>1, <1>4, <2>2 DEF SwapSpend
    <3> HIDE DEF fee, gas, n, a
    <3>2. n + fee + gas >= 0 /\ n + fee + gas <= a
      BY <1>1, <1>2, <1>4, <3>1
    <3>3. CanDebit(l, c.venue, c.from, n + fee + gas)
      BY <3>2 DEF CanDebit, a
    <3> QED BY <2>1, <2>2, <3>3 DEF Buy, Executed, fee, gas
  <2>3. CASE SwapDirection(c) # "buy"
    <3>1. n <= a
      BY <1>1, <1>4, <2>3 DEF SwapSpend
    <3>2. CanDebit(l, c.venue, c.from, n)
      BY <1>1, <1>4, <3>1 DEF CanDebit
    <3> QED BY <2>1, <2>3, <3>2 DEF Sell, Executed, Refused
  <2> QED BY <2>2, <2>3
<1> QED BY <1>1, <1>3, <1>4

\* Nor is a perp order, whose spend has no gas in it.
LEMMA PerpAffordable ==
  ASSUME NEW l, NEW c \in Action, c.type = "perp_order", Available(l, c.venue, USDC) \in Nat,
         PerpSpend(c) <= Available(l, c.venue, USDC), NEW price
  PROVE  ExecutePerpAt(l, c, price).why # "funds"
<1> DEFINE n == c.amount.value
           a == Available(l, c.venue, USDC)
           fee == Fee(n)
           margin == Margin(c)
           lev == IF c.leverage = 0 THEN 1 ELSE c.leverage
<1>1. n \in Int /\ a \in Nat /\ lev \in Nat /\ lev > 0 /\ margin = n \div lev
  BY ActionTyped DEF Margin
<1>2. /\ fee \in Int /\ margin \in Int
      /\ n >= 0 => fee \in Nat /\ margin \in Nat
      /\ n = 0 => fee = 0 /\ margin = 0
      /\ n < 0 => fee <= 0 /\ margin < 0
  <2>1. fee \in Int /\ (n >= 0 => fee \in Nat) /\ (n <= 0 => fee <= 0)
    BY <1>1, FeeType
  <2> HIDE DEF n, lev, margin, fee
  <2>2. margin \in Int /\ (n >= 0 => margin \in Nat /\ margin <= n) /\ (n < 0 => margin < 0)
    BY <1>1, QuotientSign
  <2> QED BY <1>1, <2>1, <2>2
<1>3. CASE price = 0 \/ c.reduceOnly
  BY <1>3 DEF ExecutePerpAt, ClosePerpAt, Executed, Refused
<1>4. CASE price # 0 /\ ~c.reduceOnly
  <2>1. n > 0 => margin + fee <= a
    BY <1>1, <1>4 DEF PerpSpend
  <2>2. /\ OpenPerpAt(l, c, price).why \in
             {"opposite", "panic", "executed", Refusal(margin + fee, "funds")}
        /\ CanDebit(l, c.venue, USDC, margin + fee) => OpenPerpAt(l, c, price).why # "funds"
    BY DEF OpenPerpAt, Executed, Refused, Refusal
  <2> HIDE DEF n, margin, fee, a
  <2>3. CASE n >= 0
    <3>1. margin + fee >= 0 /\ margin + fee <= a
      BY <1>1, <1>2, <2>1, <2>3
    <3>2. CanDebit(l, c.venue, USDC, margin + fee)
      BY <3>1 DEF CanDebit, a
    <3> QED BY <1>4, <2>2, <3>2 DEF ExecutePerpAt
  <2>4. CASE n < 0
    <3>1. margin + fee < 0
      BY <1>1, <1>2, <2>4
    <3> QED BY <1>4, <2>2, <3>1 DEF ExecutePerpAt, Refusal
  <2> QED BY <1>1, <2>3, <2>4
<1> QED BY <1>3, <1>4

\* A released earmark is there to be spent.
LEMMA EarmarkSpendable ==
  ASSUME NEW l, Good(l), ~AllowNegative, NEW o, NEW v \in Venues, NEW a \in Assets
  PROVE  Available(Release(l, o), v, a) \in Nat /\ HeldBy(l, o, v, a) \in Nat
         /\ HeldBy(l, o, v, a) <= Available(Release(l, o), v, a)
<1> DEFINE m == Release(l, o)
<1>1. m.balances = l.balances
  BY GoodRelease
<1>2. /\ Reserved(m, v, a) = Reserved(l, v, a) - HeldBy(l, o, v, a)
      /\ HeldBy(l, o, v, a) \in Nat
  BY ReservedAfterRelease, HeldByCount DEF Good, Covered
<1>3. Balance(l, v, a) \in Int /\ Reserved(l, v, a) \in Nat /\ Available(l, v, a) \in Nat
  BY AvailableType DEF Good
<1>4. Balance(m, v, a) = Balance(l, v, a)
  BY <1>1 DEF Balance
<1> HIDE DEF m
<1>5. Available(m, v, a) = Balance(l, v, a) - (Reserved(l, v, a) - HeldBy(l, o, v, a))
  BY <1>2, <1>4 DEF Available
<1>6. Balance(l, v, a) - Reserved(l, v, a) \in Nat
  BY <1>3 DEF Available
<1> QED BY <1>2, <1>3, <1>5, <1>6 DEF m

\* A fill at no more than the gas of the placement is not refused for want of
\* funds.
LEMMA FillAffordable ==
  ASSUME AllInv, EarmarksMatchOrders, ~AllowNegative, NEW o \in Queued, Backed(o),
         NEW j \in EventsOf({"placed"}), events[j].gas \in Nat,
         o.mark = Earmark([gas |-> events[j].gas], o.config).amount, market.gas <= events[j].gas
  PROVE  MarketOutcome(o).why # "funds" /\ LimitOutcome(o).why # "funds"
<1> DEFINE c == o.config
           l == Release(ledger, o.id)
           a == Spent(c)
           g == events[j].gas
<1>1. /\ c \in Action /\ c.type \in {"swap", "perp_order"} /\ c.venue \in Venues /\ o.mark \in Nat
      /\ market.gas \in Nat /\ a \in Assets
  <2>1. OrderOf(o) /\ Known /\ market \in Markets
    BY KnownMarket DEF AllInv, GInv
  <2>2. c \in Action /\ c.type \in {"swap", "perp_order"} /\ o.mark \in Nat /\ market.gas \in Nat
    BY <2>1, OrderAction, MarketTyped DEF OrderOf
  <2> QED BY <2>2, ActionTyped, LedgerAssumption DEF Spent
<1>2. Available(l, c.venue, a) \in Nat /\ o.mark <= Available(l, c.venue, a)
  <2>1. /\ Available(l, c.venue, a) \in Nat /\ HeldBy(ledger, o.id, c.venue, a) \in Nat
        /\ HeldBy(ledger, o.id, c.venue, a) <= Available(l, c.venue, a)
    BY <1>1, EarmarkSpendable DEF AllInv, GInv
  <2>2. o.mark > 0 => HeldBy(ledger, o.id, c.venue, a) = o.mark
    BY DEF EarmarksMatchOrders, Backed, HeldBy, Holders
  <2> HIDE DEF l, a, c
  <2> QED BY <1>1, <2>1, <2>2
<1>3. CASE c.type = "swap"
  <2>1. a = c.from /\ o.mark = SwapSpend([gas |-> g], c) /\ c.amount.basis # "all"
    BY <1>3 DEF Spent, Earmark, Backed
  <2> HIDE DEF l, a, c, g
  <2>2. \A price : ExecuteSwapAt(l, market, c, price).why # "funds"
    BY <1>1, <1>2, <1>3, <2>1, SwapAffordable DEF g
  <2>3. ExecuteSwap(l, market, c, "open").why # "funds"
    BY <2>2 DEF ExecuteSwap, Refused
  <2> QED BY <1>3, <2>2, <2>3 DEF MarketOutcome, LimitOutcome, l, c
<1>4. CASE c.type = "perp_order"
  <2>1. a = USDC /\ o.mark = PerpSpend(c)
    BY <1>4 DEF Spent, Earmark
  <2> HIDE DEF l, a, c
  <2>2. \A price : ExecutePerpAt(l, c, price).why # "funds"
    BY <1>1, <1>2, <1>4, <2>1, PerpAffordable
  <2>3. ExecutePerp(l, market, c, "open").why # "funds"
    BY <2>2 DEF ExecutePerp, Refused
  <2> QED BY <1>4, <2>2, <2>3 DEF MarketOutcome, LimitOutcome, l, c
<1> QED BY <1>1, <1>3, <1>4

\* The trace with one event more.
LEMMA TraceGrows ==
  ASSUME \E S : events \in Seq(S), NEW e, Log(e)
  PROVE  /\ DOMAIN events' = DOMAIN events \cup {Len(events) + 1}
         /\ events'[Len(events) + 1] = e /\ Len(events) + 1 \notin DOMAIN events
         /\ \A i \in DOMAIN events : events'[i] = events[i]
<1>1. PICK S : events \in Seq(S)
  OBVIOUS
<1>2. events \in Seq(S \cup {e}) /\ e \in S \cup {e} /\ events' = Append(events, e)
  BY <1>1, SeqGrows DEF Log
<1>3. /\ Len(events) \in Nat /\ DOMAIN events = 1 .. Len(events)
      /\ DOMAIN events' = 1 .. (Len(events) + 1)
  BY <1>2
<1> QED BY <1>2, <1>3

\* What has been recorded stays.
Later == DOMAIN events \subseteq DOMAIN events' /\ \A i \in DOMAIN events : events'[i] = events[i]

LEMMA NextLater ==
  ASSUME IInv, [Next]_vars
  PROVE  Later
<1>1. events' = events \/ \E e : Log(e)
  BY DEF Next, Tick, RunChain, NextTick, LastTick, PhaseDone, ApplyFunding, ApplyYield, CheckLiquidation,
     BeginMarketOrders, FillMarketOrder, BeginLimitOrders, ExpireLimitOrder, KeepLimitOrder, FillLimitOrder,
     BeginSignals, FireSignal, PassSignal, BeginSnapshot, Snapshot, DrainResting, DrainPending, DrainDone,
     StartChain, SkipAction, ExecuteAction, PlaceOrder, RefuseAction, Leave, Lapse, Panic, Terminated, vars
<1> QED BY <1>1, TraceGrows DEF Later, IInv, Lists

\* An order that goes on waiting stays backed.
LEMMA BackedStays ==
  ASSUME Later, NEW o, Backed(o), o.mark > 0 => ledger'.reservations[o.id] = ledger.reservations[o.id]
  PROVE  Backed(o)'
<1>1. PICK j \in EventsOf({"placed"}) :
        /\ events[j].order = o.id /\ events[j].gas \in Nat
        /\ o.mark = Earmark([gas |-> events[j].gas], o.config).amount
  BY DEF Backed
<1>2. j \in EventsOf({"placed"})' /\ events'[j] = events[j]
  BY <1>1 DEF EventsOf, Later
<1> QED BY <1>1, <1>2 DEF Backed

LEMMA NextBacked ==
  ASSUME AllInv, EarmarksMatchOrders, \A o \in Queued : Backed(o), [Next]_vars, Nat \subseteq OrderIds
  PROVE  (\A o \in Queued : Backed(o))'
<1>1. Later
  BY NextLater DEF AllInv
<1>2. /\ \A x \in Queued : x.mark > 0 => x.id \in DOMAIN ledger.reservations
      /\ \A x \in Queued : x.id \in Nat /\ x.id < orderSeq
      /\ orderSeq \in Nat
  BY DEF EarmarksMatchOrders, AllInv, IInv, Waiting, Numbered
<1>3. CASE Queued' = Queued /\ ledger'.reservations = ledger.reservations
  BY <1>1, <1>3, BackedStays
<1>4. ASSUME NEW o, Exits(o) PROVE (\A x \in Queued : Backed(x))'
  <2>1. \A x \in Queued' : x \in Queued /\ x.id # o.id
    BY <1>4 DEF Exits
  <2>2. \A i \in DOMAIN ledger.reservations : i # o.id => ledger'.reservations[i] = ledger.reservations[i]
    BY <1>4 DEF Exits, Discharges, Drop
  <2> QED BY <1>1, <1>2, <2>1, <2>2, BackedStays
<1>5. CASE PlaceOrder
  <2>0. PICK o : o = NewOrder
    OBVIOUS
  <2> DEFINE mark == Earmark(market, o.config)
  <2>1. /\ ledger' = Earmarked(ledger, o.config) /\ Queued' = Queued \cup {o} /\ o.id = orderSeq
        /\ o.mark = mark.amount /\ Good(ledger) /\ market.gas \in Nat
        /\ o.config.type \in {"swap", "perp_order"}
        /\ o.config.type = "swap" => o.config.amount.basis # "all"
    BY <1>5, <2>0, PlaceGood, KnownMarket, MarketTyped DEF AllInv, GInv
  <2>2. /\ o.mark = 0 => ledger' = ledger
        /\ o.mark # 0 => ledger'.reservations = Put(ledger.reservations, orderSeq,
                           [venue |-> o.config.venue, asset |-> mark.asset, amount |-> o.mark])
    BY <2>1 DEF Earmarked, Reserve, Good, IsLedger
  <2>3. mark.asset = Spent(o.config) /\ mark.amount = Earmark([gas |-> market.gas], o.config).amount
    BY DEF Earmark, SwapSpend, Gas, Spent
  <2>4. \A i \in DOMAIN ledger.reservations : i # orderSeq => ledger'.reservations[i] = ledger.reservations[i]
    BY <2>2 DEF Put
  <2>5. Log(Event("placed", o.node, o.id, "placed", 0))
    BY <1>5, <2>0 DEF PlaceOrder, NewOrder
  <2> HIDE DEF mark
  <2>6. Backed(o)'
    <3>1. PICK j : j \in DOMAIN events' /\ events'[j] = Event("placed", o.node, o.id, "placed", 0)
      BY <2>5, TraceGrows DEF AllInv, IInv, Lists
    <3>2. j \in EventsOf({"placed"})' /\ events'[j].order = o.id /\ events'[j].gas = market.gas
      BY <3>1 DEF EventsOf, Event
    <3>3. o.mark > 0 => ledger'.reservations[o.id].asset = Spent(o.config)
      BY <2>1, <2>2, <2>3 DEF Put
    <3>4. o.mark = Earmark([gas |-> events'[j].gas], o.config).amount
      BY <2>1, <2>3, <3>2
    <3> QED BY <2>1, <3>2, <3>3, <3>4 DEF Backed
  <2>7. \A x \in Queued : Backed(x)'
    BY <1>1, <1>2, <2>4, BackedStays
  <2> QED BY <2>1, <2>6, <2>7
<1> QED BY <1>3, <1>4, <1>5, StepGood DEF AllInv

LEMMA NextFunds ==
  ASSUME AllInv, EarmarksMatchOrders, \A o \in Queued : Backed(o), FundsRefusedOnlyByGas, [Next]_vars
  PROVE  FundsRefusedOnlyByGas'
<1> SUFFICES ASSUME ~AllowNegative, NEW i \in EventsOf({"rejected"})', events'[i].why = "funds"
             PROVE  \E j \in EventsOf({"placed"})' :
                      events'[j].order = events'[i].order /\ events'[j].gas < events'[i].gas
  BY DEF FundsRefusedOnlyByGas
<1>1. Later /\ \E S : events \in Seq(S)
  BY NextLater DEF AllInv, IInv, Lists
<1>2. CASE i \in DOMAIN events
  <2>1. i \in EventsOf({"rejected"}) /\ events'[i] = events[i]
    BY <1>1, <1>2 DEF EventsOf, Later
  <2>2. PICK j \in EventsOf({"placed"}) : events[j].order = events[i].order /\ events[j].gas < events[i].gas
    BY <2>1 DEF FundsRefusedOnlyByGas
  <2>3. j \in EventsOf({"placed"})' /\ events'[j] = events[j]
    BY <1>1, <2>2 DEF EventsOf, Later
  <2> QED BY <2>1, <2>2, <2>3
<1>3. CASE i \notin DOMAIN events
  <2>1. ASSUME NEW e, Log(e) PROVE events'[i] = e /\ i = Len(events) + 1
    BY <1>1, <1>3, <2>1, TraceGrows DEF EventsOf
  <2>2. /\ i \in DOMAIN events' /\ events'[i].what = "rejected"
        /\ events' # events
    BY <1>3 DEF EventsOf
  <2>3. PICK o : /\ o = Head(ready) /\ ready # <<>>
                 /\ \/ Leave(o, MarketOutcome(o), 0)
                    \/ Leave(o, LimitOutcome(o), FillPrice(o))
    <3>1. ASSUME NEW e, Log(e), e.what # "rejected" PROVE FALSE
      BY <2>1, <2>2, <3>1
    <3>2. CASE FillMarketOrder
      BY <2>2, <3>2 DEF FillMarketOrder
    <3>3. CASE FillLimitOrder
      BY <3>3 DEF FillLimitOrder
    <3>4. CASE ExpireLimitOrder \/ DrainResting \/ DrainPending \/ ExecuteAction \/ PlaceOrder \/ RefuseAction
      <4>1. \E e : Log(e) /\ e.what \in {"expired", "executed", "placed", "refused"}
        BY <3>4 DEF ExpireLimitOrder, DrainResting, DrainPending, Lapse, ExecuteAction, PlaceOrder, RefuseAction, Event
      <4> QED BY <3>1, <4>1
    <3>5. CASE Quiet \/ NextTick \/ Terminated \/ BeginMarketOrders \/ BeginLimitOrders \/ BeginSignals \/ KeepLimitOrder
      BY <2>2, <3>5 DEF Quiet, PhaseDone, ApplyFunding, ApplyYield, CheckLiquidation, FireSignal, PassSignal,
         StartChain, SkipAction, BeginSnapshot, Snapshot, LastTick, DrainDone, Panic, NextTick, Terminated,
         BeginMarketOrders, BeginLimitOrders, BeginSignals, KeepLimitOrder, vars
    <3> QED BY <3>2, <3>3, <3>4, <3>5 DEF Next, Tick, RunChain, Quiet
  <2>4. o \in Queued /\ Backed(o)
    BY <2>3, TailList, QueuedMembers DEF AllInv, IInv, Lists
  <2>5. /\ events'[i].order = o.id /\ events'[i].gas = market.gas
        /\ MarketOutcome(o).why = "funds" \/ LimitOutcome(o).why = "funds"
    <3>1. ASSUME NEW r, NEW price, Leave(o, r, price)
          PROVE  events'[i].order = o.id /\ events'[i].gas = market.gas /\ r.why = "funds"
      <4>1. PICK e : Log(e) /\ e.order = o.id /\ e.gas = market.gas /\ e.why = r.why
        BY <3>1 DEF Leave, Event
      <4>2. events'[i] = e
        BY <2>1, <4>1
      <4> QED BY <4>1, <4>2
    <3> QED BY <2>3, <3>1
  <2>6. PICK j \in EventsOf({"placed"}) :
          /\ events[j].order = o.id /\ events[j].gas \in Nat
          /\ o.mark = Earmark([gas |-> events[j].gas], o.config).amount
    BY <2>4 DEF Backed
  <2>7. market.gas \in Nat
    BY KnownMarket, MarketTyped DEF AllInv, GInv
  <2>8. ~(market.gas <= events[j].gas)
    BY <2>4, <2>5, <2>6, FillAffordable
  <2>9. j \in EventsOf({"placed"})' /\ events'[j] = events[j]
    BY <1>1, <2>6 DEF EventsOf, Later
  <2> QED BY <2>5, <2>6, <2>7, <2>8, <2>9
<1> QED BY <1>2, <1>3

(* An order is refused for want of funds at its fill only where gas has risen     *)
(* since it was placed: what it earmarked then covers its amount, its fee and its  *)
(* margin, and nothing else has spent it.                                          *)
THEOREM EarmarksPayForFills ==
  ASSUME Nat \subseteq OrderIds
  PROVE  Spec => []FundsRefusedOnlyByGas
<1> DEFINE Backing == EarmarksMatchOrders /\ (\A o \in Queued : Backed(o)) /\ FundsRefusedOnlyByGas
<1>1. Init => Backing
  <2> SUFFICES ASSUME Init PROVE Backing
    OBVIOUS
  <2>1. Queued = {} /\ EventsOf({"rejected"}) = {}
    BY QueuedMembers, EmptyList DEF Init, EventsOf
  <2> QED BY <2>1, InitMatches DEF FundsRefusedOnlyByGas
<1>2. AllInv /\ Backing /\ [Next]_vars => Backing'
  BY NextMatches, NextBacked, NextFunds
<1>3. Backing => FundsRefusedOnlyByGas
  OBVIOUS
<1> QED BY <1>1, <1>2, <1>3, AllInvariant, PTL DEF Spec

----------------------------------------------------------------------------
(* Positions have a size.                                                   *)

Sizes(l) == \A k \in DOMAIN l.perps : l.perps[k].size > 0

\* An execution on a ledger without empty positions leaves none, and divides by none.
LeavesSizes(r) == r.why # "panic" /\ (r.why = "executed" => Sizes(r.ledger))

Opens(c) == c.type = "perp_order" /\ ~c.reduceOnly

\* An order to open a position buys a unit at any price of any bar.
InUnits(c) ==
  Opens(c) =>
    \A m \in simulation.markets :
      BarOf(m, c.venue, c.symbol) # NoBar =>
        c.amount.value >= ApplyBps(BarOf(m, c.venue, c.symbol).high, "buy")

\* The dearest market fill is the one at the high, and no limit fill is dearer.
LEMMA DearestPrice ==
  ASSUME NEW c \in Candle, NEW dir, NEW rule \in Rules
  PROVE  /\ MarketPrice(c, dir, rule) <= ApplyBps(c.high, "buy")
         /\ ApplyBps(c.high, "buy") \in Nat /\ c.high <= ApplyBps(c.high, "buy")
<1> DEFINE p == ReferencePrice(c, dir, rule)
           h == c.high
<1>1. /\ c.open \in Nat /\ c.high \in Nat /\ c.low \in Nat /\ c.close \in Nat
      /\ c.low <= c.high /\ c.open <= c.high /\ c.close <= c.high
  BY CandleTyped
<1>2. p \in Nat /\ p <= h /\ h \in Nat
  <2>1. (c.high + c.low) \div 2 \in Nat
    BY <1>1, QuotientSign
  <2>2. (c.high + c.low) \div 2 <= c.high
    BY <1>1, QuotientBounds
  <2> QED BY <1>1, <2>1, <2>2 DEF ReferencePrice, Rules
<1> HIDE DEF p, h
<1>3. SlippageBps \in Nat
  BY FillsAssumption DEF Bps
<1>4. p * SlippageBps \in Nat /\ h * SlippageBps \in Nat /\ p * SlippageBps <= h * SlippageBps
  BY <1>2, <1>3, ProductGrows
<1> DEFINE s == p * SlippageBps
           t == h * SlippageBps
<1> HIDE DEF s, t
<1>5. s \in Nat /\ t \in Nat /\ s <= t
  BY <1>4 DEF s, t
<1>6. s \div 10000 \in Nat /\ t \div 10000 \in Nat
  BY <1>5, QuotientSign
<1>7. s \div 10000 <= t \div 10000
  <2>1. 10000 * (s \div 10000) <= s
    BY <1>5, Quotient
  <2> DEFINE q == s \div 10000
  <2> HIDE DEF q
  <2>2. q \in Int /\ 10000 * q <= t
    BY <1>5, <1>6, <2>1 DEF q
  <2> QED BY <1>5, <2>2, QuotientBounds DEF q
<1>8. ApplyBps(h, "buy") = h + t \div 10000 /\ ApplyBps(p, dir) <= p + s \div 10000
  BY <1>2, <1>6 DEF ApplyBps, Bps, s, t
<1>9. ApplyBps(p, dir) \in Int
  BY <1>2, <1>6 DEF ApplyBps, Bps, s
<1>10. ApplyBps(p, dir) <= ApplyBps(h, "buy") /\ ApplyBps(h, "buy") \in Nat /\ h <= ApplyBps(h, "buy")
  BY <1>2, <1>6, <1>7, <1>8, <1>9
<1> QED BY <1>10 DEF MarketPrice, p, h

LEMMA OpenLeavesSizes ==
  ASSUME NEW l, Good(l), Sizes(l), NEW c \in Action, c.type = "perp_order",
         NEW price \in Nat, price # 0, price <= c.amount.value
  PROVE  LeavesSizes(OpenPerpAt(l, c, price))
<1> DEFINE k == PerpKey(c)
           held == k \in DOMAIN l.perps
           size == c.amount.value \div price
           added == [side |-> c.side,
                     size |-> size + (IF held THEN l.perps[k].size ELSE 0),
                     cost |-> c.amount.value + (IF held THEN l.perps[k].cost ELSE 0),
                     margin |-> Margin(c) + (IF held THEN l.perps[k].margin ELSE 0)]
           fee == Fee(c.amount.value)
           paid == RecordFee(Debit(l, c.venue, USDC, Margin(c) + fee), fee)
<1>1. OpenPerpAt(l, c, price) =
        IF held /\ l.perps[k].side # c.side THEN Refused(l, "opposite")
        ELSE IF held /\ added.size = 0 THEN Refused(l, "panic")
        ELSE IF CanDebit(l, c.venue, USDC, Margin(c) + fee) THEN Executed(SetPerp(paid, k, added))
        ELSE Refused(l, Refusal(Margin(c) + fee, "funds"))
  BY DEF OpenPerpAt
<1>2. size \in Int /\ size >= 1
  <2> DEFINE n == c.amount.value
  <2>1. n \in Int
    BY ActionTyped
  <2> HIDE DEF n
  <2>2. n >= price
    BY DEF n
  <2>3. n \div price \in Int /\ 1 <= n \div price
    BY <2>1, <2>2, Quotient, QuotientBounds
  <2> QED BY <2>3 DEF n
<1>3. held => l.perps[k].size \in Nat /\ l.perps[k].size > 0
  BY GoodPosition, SoundTyped DEF Sizes
<1> HIDE DEF size
<1>4. added.size > 0
  BY <1>2, <1>3
<1>5. paid.perps = l.perps
  BY DEF RecordFee, Debit
<1> HIDE DEF added, paid, k
<1>6. Sizes(SetPerp(paid, k, added))
  <2>1. SetPerp(paid, k, added).perps = Put(l.perps, k, added)
    <3>1. Good(l) => l \in [balances : [Accounts -> Int], perps : [DOMAIN l.perps -> Sound],
            yields : [DOMAIN l.yields -> [principal : Int, accrued : Int]],
            reservations : [DOMAIN l.reservations -> Reservation],
            fees : Int, gas : Int, funding : Int, interest : Int]
      BY DEF Good, IsLedger
    <3> QED BY <1>5, <3>1 DEF SetPerp, paid, RecordFee, Debit
  <2> QED BY <1>4, <2>1 DEF Sizes, Put
<1> QED BY <1>1, <1>4, <1>6 DEF LeavesSizes, Refused, Executed, Refusal

LEMMA CloseLeavesSizes ==
  ASSUME NEW l, Good(l), Sizes(l), NEW c \in Action, c.type = "perp_order", NEW price \in Nat
  PROVE  LeavesSizes(ClosePerpAt(l, c, price))
<1> DEFINE k == PerpKey(c)
           p == l.perps[k]
           closed == Lesser((c.amount.value * p.size) \div p.cost, p.size)
           costShare == (p.cost * closed) \div p.size
           marginShare == (p.margin * closed) \div p.size
           pnl == UnrealizedPnl([side |-> p.side, size |-> closed, cost |-> costShare], price)
           gross == marginShare + pnl
           fee == Fee(closed * price)
           collected == Lesser(fee, Greater(gross, 0))
           settlement == Greater(gross - fee, 0)
           rest == [side |-> p.side, size |-> p.size - closed,
                    cost |-> p.cost - costShare, margin |-> p.margin - marginShare]
<1>1. ClosePerpAt(l, c, price) =
        IF k \notin DOMAIN l.perps THEN Refused(l, "no_position")
        ELSE IF p.size = 0 THEN Refused(l, "panic")
        ELSE Executed(RecordFee(Reduced(l, k, rest, settlement), collected))
  BY DEF ClosePerpAt
<1>2. ASSUME k \in DOMAIN l.perps
      PROVE  Sizes(RecordFee(Reduced(l, k, rest, settlement), collected)) /\ p.size # 0
  <2>1. p.size \in Nat /\ p.size > 0 /\ p.cost \in Nat /\ p.cost > 0
    BY <1>2, GoodPosition, SoundTyped DEF Sizes
  <2>2. closed \in Int /\ closed <= p.size
    <3>1. c.amount.value * p.size \in Int
      BY <2>1, ActionTyped
    <3>2. (c.amount.value * p.size) \div p.cost \in Int
      BY <2>1, <3>1, Quotient
    <3> QED BY <2>1, <3>2 DEF Lesser
  <2>3. rest.size \in Nat
    <3> HIDE DEF p, closed
    <3> QED BY <2>1, <2>2
  <2> HIDE DEF rest, settlement, collected, k
  <2>4. /\ rest.size = 0 => Reduced(l, k, rest, settlement).perps = Drop(l.perps, k)
        /\ rest.size # 0 => Reduced(l, k, rest, settlement).perps = Put(l.perps, k, rest)
    <3>1. l \in [balances : [Accounts -> Int], perps : [DOMAIN l.perps -> Sound],
            yields : [DOMAIN l.yields -> [principal : Int, accrued : Int]],
            reservations : [DOMAIN l.reservations -> Reservation],
            fees : Int, gas : Int, funding : Int, interest : Int]
      BY DEF Good, IsLedger
    <3> QED BY <3>1 DEF Reduced, ClosePerp, SetPerp, Credit
  <2>5. RecordFee(Reduced(l, k, rest, settlement), collected).perps = Reduced(l, k, rest, settlement).perps
    BY DEF RecordFee
  <2> QED BY <2>1, <2>3, <2>4, <2>5 DEF Sizes, Drop, Put
<1> HIDE DEF k, p, rest, settlement, collected
<1> QED BY <1>1, <1>2 DEF LeavesSizes, Executed, Refused

LEMMA PerpLeavesSizes ==
  ASSUME NEW l, Good(l), Sizes(l), NEW c \in Action, c.type = "perp_order",
         NEW price \in Nat, Opens(c) => price <= c.amount.value
  PROVE  LeavesSizes(ExecutePerpAt(l, c, price))
<1>1. LeavesSizes(Refused(l, "nothing"))
  BY DEF LeavesSizes, Refused
<1>2. LeavesSizes(ClosePerpAt(l, c, price))
  BY CloseLeavesSizes
<1>3. price # 0 /\ ~c.reduceOnly => LeavesSizes(OpenPerpAt(l, c, price))
  BY OpenLeavesSizes DEF Opens
<1> QED BY <1>1, <1>2, <1>3 DEF ExecutePerpAt

LEMMA MarketPerpLeavesSizes ==
  ASSUME Known, NEW l, Good(l), Sizes(l), NEW c \in Action, c.type = "perp_order", InUnits(c),
         NEW rule \in Rules
  PROVE  LeavesSizes(ExecutePerp(l, market, c, rule))
<1> DEFINE bar == BarOf(market, c.venue, c.symbol)
           dir == IF c.reduceOnly THEN ClosingDirection(l.perps[PerpKey(c)]) ELSE OpeningDirection(c)
           price == MarketPrice(bar, dir, rule)
<1>1. LeavesSizes(Refused(l, "no_position")) /\ LeavesSizes(Refused(l, "no_bar"))
  BY DEF LeavesSizes, Refused
<1>2. ASSUME bar # NoBar PROVE LeavesSizes(ExecutePerpAt(l, c, price))
  <2>1. bar \in Candle
    BY <1>2, ActionTyped, KnownMarket, MarketTyped DEF BarOf, PerpKey
  <2>2. Opens(c) => c.amount.value >= ApplyBps(bar.high, "buy")
    BY <1>2 DEF InUnits, Known
  <2>3. c.amount.value \in Int
    BY ActionTyped
  <2> HIDE DEF bar, dir
  <2>4. price \in Nat /\ price <= ApplyBps(bar.high, "buy") /\ ApplyBps(bar.high, "buy") \in Nat
    BY <2>1, PriceType, DearestPrice DEF Rules
  <2> HIDE DEF price
  <2>5. Opens(c) => price <= c.amount.value
    BY <2>2, <2>3, <2>4
  <2> QED BY <2>4, <2>5, PerpLeavesSizes
<1>3. ExecutePerp(l, market, c, rule) =
        IF bar = NoBar THEN Refused(l, "no_bar")
        ELSE IF c.reduceOnly /\ PerpKey(c) \notin DOMAIN l.perps THEN Refused(l, "no_position")
        ELSE ExecutePerpAt(l, c, price)
  BY DEF ExecutePerp
<1> HIDE DEF bar, price
<1> QED BY <1>1, <1>2, <1>3

\* Swaps and yields leave perps alone.
SamePerps(r, l) == r.why # "panic" /\ (r.why = "executed" => r.ledger.perps = l.perps)

LEMMA OthersLeavePerps ==
  ASSUME NEW l, NEW m, NEW c
  PROVE  /\ \A price : SamePerps(ExecuteSwapAt(l, m, c, price), l)
         /\ \A rule : SamePerps(ExecuteSwap(l, m, c, rule), l)
         /\ SamePerps(ExecuteYieldDeposit(l, m, c), l)
         /\ SamePerps(ExecuteYieldWithdraw(l, m, c), l)
<1>1. ASSUME NEW x, NEW why \in {"unsupported", "no_bar", "nothing", "funds", "proceeds", "negative", "no_position"}
      PROVE  SamePerps(Refused(x, why), l)
  BY <1>1 DEF SamePerps, Refused
<1>2. ASSUME NEW x, NEW v, NEW a, NEW n
      PROVE  /\ Credit(x, v, a, n).perps = x.perps /\ Debit(x, v, a, n).perps = x.perps
             /\ RecordFee(x, n).perps = x.perps /\ RecordGas(x, n).perps = x.perps
  BY DEF Credit, Debit, RecordFee, RecordGas
<1>0. ASSUME NEW x, x.perps = l.perps PROVE SamePerps(Executed(x), l)
  BY <1>0 DEF SamePerps, Executed
<1>3. ASSUME NEW amount, NEW price
      PROVE  SamePerps(Buy(l, m, c, amount, price), l) /\ SamePerps(Sell(l, m, c, amount, price), l)
  <2>1. ASSUME NEW spent, NEW asset, NEW got, NEW fee, NEW gas, NEW to
        PROVE  SamePerps(Executed(RecordGas(RecordFee(Credit(Debit(l, c.venue, asset, spent), c.venue, to, got), fee), gas)), l)
    <3> DEFINE x == Debit(l, c.venue, asset, spent)
               y == Credit(x, c.venue, to, got)
               z == RecordFee(y, fee)
    <3>1. x.perps = l.perps
      BY <1>2
    <3> HIDE DEF x
    <3>2. y.perps = l.perps
      BY <1>2, <3>1
    <3> HIDE DEF y
    <3>3. z.perps = l.perps
      BY <1>2, <3>2
    <3> HIDE DEF z
    <3>4. RecordGas(z, gas).perps = l.perps
      BY <1>2, <3>3
    <3> QED BY <1>0, <3>4 DEF z, y, x
  <2>2. SamePerps(Refused(l, "funds"), l) /\ SamePerps(Refused(l, "proceeds"), l)
    BY <1>1
  <2>3. SamePerps(Buy(l, m, c, amount, price), l)
    BY <2>1, <2>2 DEF Buy
  <2>4. SamePerps(Sell(l, m, c, amount, price), l)
    BY <2>1, <2>2 DEF Sell
  <2> QED BY <2>3, <2>4
<1>4. ASSUME NEW price PROVE SamePerps(ExecuteSwapAt(l, m, c, price), l)
  BY <1>1, <1>3 DEF ExecuteSwapAt, SwapAt
<1>5. ASSUME NEW rule PROVE SamePerps(ExecuteSwap(l, m, c, rule), l)
  BY <1>1, <1>4 DEF ExecuteSwap
<1>6. ASSUME NEW half, half.perps = l.perps, NEW k, NEW price
      PROVE  SamePerps(PayGas(l, half, m, k, price), l)
  <2> DEFINE gas == Gas(m, k.chain)
             x == Debit(half, k.chain, k.asset, gas \div price)
  <2>1. PayGas(l, half, m, k, price) =
          IF CanDebit(half, k.chain, k.asset, gas \div price) THEN Executed(RecordGas(x, gas))
          ELSE Refused(half, "funds")
    BY DEF PayGas
  <2>2. x.perps = l.perps
    BY <1>2, <1>6
  <2> HIDE DEF x
  <2>3. RecordGas(x, gas).perps = l.perps
    BY <1>2, <2>2
  <2> HIDE DEF gas
  <2>4. SamePerps(Executed(RecordGas(x, gas)), l) /\ SamePerps(Refused(half, "funds"), l)
    BY <1>0, <1>1, <2>3
  <2> QED BY <2>1, <2>4
<1>7. ASSUME NEW k, NEW n
      PROVE  DepositYield(l, k, n).perps = l.perps /\ WithdrawYield(l, k, n).perps = l.perps
  BY DEF DepositYield, WithdrawYield, Debit, Credit
<1>8. ASSUME NEW n, NEW otherwise \in {"funds", "no_position"}
      PROVE  SamePerps(Refused(l, Refusal(n, otherwise)), l)
  BY <1>1, <1>8 DEF Refusal
<1>9. SamePerps(ExecuteYieldDeposit(l, m, c), l)
  BY <1>1, <1>6, <1>7, <1>8 DEF ExecuteYieldDeposit
<1>10. SamePerps(ExecuteYieldWithdraw(l, m, c), l)
  BY <1>1, <1>6, <1>7, <1>8 DEF ExecuteYieldWithdraw
<1> QED BY <1>4, <1>5, <1>9, <1>10

\* A strategy that opens in units has its opening orders sized as they are written.
LEMMA SizedInUnits ==
  ASSUME Known, OpensInUnits(simulation), NEW l, Good(l), NEW n \in Nodes, CanSize(simulation.actions[n])
  PROVE  InUnits(Sized(l, simulation.actions[n]))
<1> DEFINE c == simulation.actions[n]
           s == Sized(l, c)
<1>1. c \in Action
  BY StrategyAssumption DEF Known, Nodes
<1>2. Resized(c, s)
  BY <1>1, SizedResized
<1>3. Opens(c) => c.amount.basis = "absolute" /\ InUnits(c)
  <2> SUFFICES ASSUME Opens(c) PROVE c.amount.basis = "absolute" /\ InUnits(c)
    OBVIOUS
  <2>1. \A m \in simulation.markets :
          /\ c.amount.basis = "absolute"
          /\ BarOf(m, c.venue, c.symbol) # NoBar =>
               c.amount.value >= ApplyBps(BarOf(m, c.venue, c.symbol).high, "buy")
    BY DEF OpensInUnits, Opens, Nodes
  <2>2. market \in simulation.markets
    BY DEF Known
  <2> HIDE DEF c
  <2> QED BY <2>1, <2>2 DEF InUnits
<1>4. c.amount.basis = "absolute" => s = c
  BY DEF Sized
<1> HIDE DEF c, s
<1>5. Opens(s) => Opens(c)
  BY <1>1, <1>2, ResizedAction DEF Opens
<1>6. CASE Opens(s)
  BY <1>3, <1>4, <1>5, <1>6 DEF c, s
<1>7. CASE ~Opens(s)
  BY <1>7 DEF InUnits, c, s
<1> QED BY <1>6, <1>7

LEMMA AttemptLeavesSizes ==
  ASSUME Known, OpensInUnits(simulation), NEW l, Good(l), Sizes(l), NEW n \in Nodes
  PROVE  LET c == simulation.actions[n]
         IN  /\ LeavesSizes(Attempt(l, c))
             /\ Attempt(l, c).why = "placed" => InUnits(Sized(l, c))
<1> DEFINE c == simulation.actions[n]
           s == Sized(l, c)
           mark == Earmark(market, s)
           r == Attempt(l, c)
<1>1. c \in Action
  BY StrategyAssumption DEF Known, Nodes
<1>2. CASE ~CanSize(c)
  BY <1>2 DEF Attempt, Refused, LeavesSizes
<1>3. CASE CanSize(c)
  <2>1. Resized(c, s) /\ InUnits(s)
    BY <1>1, <1>3, SizedResized, SizedInUnits
  <2>2. s \in Action /\ s.type = c.type /\ (IsLimit(s) <=> IsLimit(c))
    BY <1>1, <2>1, ResizedAction
  <2>3. CASE IsLimit(c)
    <3>1. r.why = PlacementOutcome(l, market, s)
      BY <1>3, <2>3 DEF Attempt
    <3>2. PlacementOutcome(l, market, s) \in {"unsupported", "no_limit", "no_position", "funds", "placed"}
      BY DEF PlacementOutcome
    <3> HIDE DEF r, s, c
    <3>3. r.why \notin {"panic", "executed"}
      BY <3>1, <3>2
    <3> QED BY <2>1, <3>3 DEF LeavesSizes, r, s, c
  <2>4. CASE ~IsLimit(c) /\ IsDeferred(c)
    <3>1. r.why = IF mark.amount = 0 \/ CanReserve(l, s.venue, mark.asset, mark.amount)
                  THEN "placed" ELSE "funds"
      BY <1>3, <2>4 DEF Attempt
    <3> HIDE DEF r, s, c, mark
    <3>2. r.why \notin {"panic", "executed"}
      BY <3>1
    <3> QED BY <2>1, <3>2 DEF LeavesSizes, r, s, c
  <2>5. CASE ~IsLimit(c) /\ ~IsDeferred(c)
    <3>1. r = ExecuteNow(l, s)
      BY <1>3, <2>5 DEF Attempt
    <3> HIDE DEF r, s
    <3>2. CASE s.type = "perp_order"
      <4>1. simulation.selection \in Rules
        <5>1. simulation.selection \in Selections
          BY EngineAssumption DEF Known
        <5> QED BY <2>2, <2>5, <3>2, <5>1 DEF IsDeferred, Selections, Rules
      <4>2. LeavesSizes(ExecutePerp(l, market, s, simulation.selection))
        BY <2>1, <2>2, <3>2, <4>1, MarketPerpLeavesSizes DEF s
      <4>3. ExecuteNow(l, s) = ExecutePerp(l, market, s, simulation.selection)
        BY <3>2 DEF ExecuteNow
      <4> QED BY <2>1, <3>1, <4>2, <4>3 DEF r, s
    <3>3. CASE s.type # "perp_order"
      <4>1. SamePerps(ExecuteNow(l, s), l)
        <5>1. s.type \in {"swap", "yield_deposit", "yield_withdraw"}
          BY <2>2, <3>3, ActionTyped
        <5>2. s.type = "swap" => ExecuteNow(l, s) = ExecuteSwap(l, market, s, simulation.selection)
          BY DEF ExecuteNow
        <5>3. s.type = "yield_deposit" => ExecuteNow(l, s) = ExecuteYieldDeposit(l, market, s)
          BY DEF ExecuteNow
        <5>4. s.type = "yield_withdraw" => ExecuteNow(l, s) = ExecuteYieldWithdraw(l, market, s)
          BY DEF ExecuteNow
        <5> QED BY <5>1, <5>2, <5>3, <5>4, OthersLeavePerps
      <4>2. LeavesSizes(ExecuteNow(l, s))
        BY <4>1 DEF SamePerps, LeavesSizes, Sizes
      <4> QED BY <2>1, <3>1, <4>2 DEF r, s
    <3> QED BY <3>2, <3>3
  <2> QED BY <2>3, <2>4, <2>5
<1> QED BY <1>2, <1>3

\* The invariant: a waiting order, too, buys a unit at whatever it fills at.
PInv ==
  OpensInUnits(simulation) =>
    /\ OpenPositionsHaveSize
    /\ \A o \in Queued : InUnits(o.config)

\* What an order taken out of the queue or the book comes to.
LEMMA FillLeavesSizes ==
  ASSUME AllInv, PInv, OpensInUnits(simulation), ready # <<>>
  PROVE  LET o == Head(ready)
         IN  /\ Sizes(Release(ledger, o.id))
             /\ pc = "market_orders" => LeavesSizes(MarketOutcome(o))
             /\ pc = "limit_orders" /\ Touched(o) => LeavesSizes(LimitOutcome(o))
<1> DEFINE o == Head(ready)
           l == Release(ledger, o.id)
           c == o.config
           price == FillPrice(o)
<1>1. /\ o \in Queued /\ OrderOf(o) /\ Known /\ Good(ledger)
      /\ pc = "limit_orders" => IsLimit(c)
  BY FillOutcome DEF AllInv, GInv
<1>2. c \in Action /\ c.type \in {"swap", "perp_order"} /\ InUnits(c)
  BY <1>1, OrderAction DEF OrderOf, PInv
<1>3. Good(l) /\ l.perps = ledger.perps
  BY <1>1, GoodRelease DEF Release
<1>4. Sizes(l)
  BY <1>3 DEF PInv, OpenPositionsHaveSize, Sizes
<1> HIDE DEF l
<1>5. CASE c.type = "swap"
  <2>1. SamePerps(MarketOutcome(o), l) /\ SamePerps(LimitOutcome(o), l)
    BY <1>5, OthersLeavePerps DEF MarketOutcome, LimitOutcome, l
  <2>2. LeavesSizes(MarketOutcome(o)) /\ LeavesSizes(LimitOutcome(o))
    BY <1>4, <2>1 DEF SamePerps, LeavesSizes, Sizes
  <2> QED BY <1>4, <2>2 DEF l
<1>6. CASE c.type = "perp_order"
  <2>1. "open" \in Rules
    BY DEF Rules
  <2>2. LeavesSizes(ExecutePerp(l, market, c, "open"))
    BY <1>1, <1>2, <1>3, <1>4, <1>6, <2>1, MarketPerpLeavesSizes
  <2>3. ASSUME pc = "limit_orders", Touched(o) PROVE LeavesSizes(ExecutePerpAt(l, c, price))
    <3> DEFINE bar == BarOf(market, c.venue, Symbol(c))
    <3>1. price \in Nat /\ price <= bar.high
      BY <1>1, <2>3, LimitPrice
    <3>2. bar # NoBar /\ bar = BarOf(market, c.venue, c.symbol)
      BY <1>6, <2>3 DEF Touched, Symbol
    <3>3. bar \in Candle
      BY <1>1, <1>2, <1>6, <3>2, ActionTyped, KnownMarket, MarketTyped DEF BarOf, PerpKey
    <3>4. Opens(c) => c.amount.value >= ApplyBps(bar.high, "buy")
      BY <1>1, <1>2, <3>2 DEF InUnits, Known
    <3> HIDE DEF bar, price
    <3>5. bar.high \in Nat /\ ApplyBps(bar.high, "buy") \in Nat /\ bar.high <= ApplyBps(bar.high, "buy")
      BY <2>1, <3>3, CandleTyped, DearestPrice
    <3>6. c.amount.value \in Int
      BY <1>2, ActionTyped
    <3>7. Opens(c) => price <= c.amount.value
      BY <3>1, <3>4, <3>5, <3>6
    <3> QED BY <1>2, <1>3, <1>4, <1>6, <3>1, <3>7, PerpLeavesSizes
  <2>4. /\ MarketOutcome(o) = ExecutePerp(l, market, c, "open")
        /\ LimitOutcome(o) = ExecutePerpAt(l, c, price)
    BY <1>6 DEF MarketOutcome, LimitOutcome, l
  <2> QED BY <1>4, <2>2, <2>3, <2>4 DEF l
<1> QED BY <1>2, <1>5, <1>6

\* Positions made by what a fill or an action came to, or left as they were.
LEMMA NextSizes ==
  ASSUME AllInv, PInv, [Next]_vars, Nat \subseteq OrderIds
  PROVE  PInv'
<1> SUFFICES ASSUME OpensInUnits(simulation)
             PROVE  Sizes(ledger') /\ \A o \in Queued' : InUnits(o.config)
  <2>1. simulation' = simulation
    BY DEF Next, Tick, RunChain, NextTick, LastTick, PhaseDone, ApplyFunding, ApplyYield, CheckLiquidation,
       BeginMarketOrders, FillMarketOrder, BeginLimitOrders, ExpireLimitOrder, KeepLimitOrder, FillLimitOrder,
       BeginSignals, FireSignal, PassSignal, BeginSnapshot, Snapshot, DrainResting, DrainPending, DrainDone,
       StartChain, SkipAction, ExecuteAction, PlaceOrder, RefuseAction, Panic, Terminated, vars, input
  <2> QED BY <2>1 DEF PInv, OpenPositionsHaveSize, Sizes, InUnits
<1>1. Sizes(ledger) /\ (\A o \in Queued : InUnits(o.config)) /\ Good(ledger) /\ Known
  BY DEF PInv, OpenPositionsHaveSize, Sizes, AllInv, GInv
<1>2. ASSUME ledger'.perps = ledger.perps PROVE Sizes(ledger')
  BY <1>1, <1>2 DEF Sizes
<1>3. \A o : Release(ledger, o).perps = ledger.perps
  BY DEF Release
<1>4. CASE ApplyFunding
  <2> DEFINE k == Head(todo)
             owed == FundingOwed(k)
             margined == [ledger EXCEPT !.perps[k].margin = @ - FundingFromMargin(ledger, k, owed)]
  <2>1. k \in DOMAIN ledger.perps
    BY <1>4, TailOnce DEF ApplyFunding, AllInv, GInv, Handling
  <2>2. ledger' = CollectFunding(ledger, k, owed) /\ Queued' = Queued
    BY <1>4, QuietInv DEF ApplyFunding, Quiet, AllInv
  <2> HIDE DEF k, owed
  <2>3. /\ DOMAIN margined.perps = DOMAIN ledger.perps
        /\ \A x \in DOMAIN ledger.perps : margined.perps[x].size = ledger.perps[x].size
    <3>1. ledger.perps[k] \in Sound
      BY <1>1, <2>1, GoodPosition
    <3> QED BY <1>1, <2>1, <3>1 DEF Good, IsLedger, Sound, Position
  <2>4. ledger'.perps = ledger.perps \/ ledger'.perps = margined.perps
    <3> HIDE DEF margined
    <3> QED BY <2>2 DEF CollectFunding, RecordFunding, Credit, Debit, margined
  <2> HIDE DEF margined
  <2>5. Sizes(ledger')
    BY <1>1, <2>3, <2>4 DEF Sizes
  <2> QED BY <1>1, <2>2, <2>5
<1>5. CASE CheckLiquidation
  <2>1. ledger'.perps = ledger.perps \/ \E k : ledger'.perps = Drop(ledger.perps, k)
    BY <1>5, LiquidationStep DEF AllInv
  <2>2. Queued' = Queued
    BY <1>5, QuietInv DEF Quiet, AllInv
  <2> QED BY <1>1, <2>1, <2>2 DEF Sizes, Drop
<1>6. CASE \/ PhaseDone \/ ApplyYield \/ FireSignal \/ PassSignal \/ StartChain \/ SkipAction
           \/ BeginSnapshot \/ Snapshot \/ LastTick \/ DrainDone \/ Panic \/ Terminated \/ UNCHANGED vars
           \/ NextTick \/ BeginMarketOrders \/ BeginLimitOrders \/ BeginSignals
  <2>1. Queued' = Queued
    <3>1. Quiet \/ NextTick \/ BeginMarketOrders \/ BeginLimitOrders \/ BeginSignals
      BY <1>6 DEF Quiet, Terminated
    <3> QED BY <3>1, QuietInv, NextTickInv, BeginMarketOrdersInv, BeginLimitOrdersInv, BeginSignalsInv DEF AllInv
  <2>2. ledger'.perps = ledger.perps
    <3>1. ApplyYield => ledger'.perps = ledger.perps
      BY DEF ApplyYield, AccrueYield
    <3>2. ~ApplyYield => ledger' = ledger
      BY <1>6 DEF PhaseDone, FireSignal, PassSignal, StartChain, SkipAction, BeginSnapshot, Snapshot, LastTick,
         DrainDone, Panic, Terminated, vars, NextTick, BeginMarketOrders, BeginLimitOrders, BeginSignals
    <3> QED BY <3>1, <3>2
  <2> QED BY <1>1, <1>2, <2>1, <2>2
<1>7. CASE ExecuteAction \/ PlaceOrder \/ RefuseAction
  <2> DEFINE n == SE!Last(stack)
  <2>1. n \in Nodes /\ Current = simulation.actions[n]
    BY <1>7, CurrentAction DEF ExecuteAction, PlaceOrder, RefuseAction, IsNew, Current, AllInv
  <2>2. LeavesSizes(Outcome) /\ (Outcome.why = "placed" => InUnits(Sized(ledger, Current)))
    BY <1>1, <2>1, AttemptLeavesSizes DEF Outcome
  <2>3. CASE ExecuteAction
    BY <1>1, <2>2, <2>3, ActionInv DEF ExecuteAction, LeavesSizes, AllInv
  <2>4. CASE RefuseAction
    BY <1>1, <1>2, <2>4, ActionInv DEF RefuseAction, AllInv
  <2>5. CASE PlaceOrder
    <3>1. /\ ledger' = Earmarked(ledger, NewOrder.config) /\ Queued' = Queued \cup {NewOrder}
          /\ Outcome.why = "placed"
      BY <2>5, PlaceGood DEF AllInv, PlaceOrder
    <3>2. NewOrder.config = Sized(ledger, Current)
      BY DEF NewOrder
    <3>3. ledger'.perps = ledger.perps
      BY <3>1 DEF Earmarked, Reserve
    <3> QED BY <1>1, <1>2, <2>2, <3>1, <3>2, <3>3
  <2> QED BY <1>7, <2>3, <2>4, <2>5
<1>8. CASE FillMarketOrder \/ FillLimitOrder \/ ExpireLimitOrder \/ KeepLimitOrder
  <2> DEFINE o == Head(ready)
  <2>1. Queued' \subseteq Queued
    BY <1>8, ScanGood DEF AllInv, Exits
  <2>2. ready # <<>>
    BY <1>8 DEF FillMarketOrder, FillLimitOrder, ExpireLimitOrder, KeepLimitOrder
  <2>3. ASSUME NEW r, NEW price, LeavesSizes(r), Leave(o, r, price) PROVE Sizes(ledger')
    BY <1>2, <1>3, <2>3 DEF Leave, LeavesSizes
  <2>4. Sizes(ledger')
    <3>1. CASE FillMarketOrder
      <4>1. LeavesSizes(MarketOutcome(o))
        BY <2>2, <3>1, FillLeavesSizes DEF FillMarketOrder
      <4>2. Leave(o, MarketOutcome(o), 0) \/ ledger' = ledger
        BY <3>1 DEF FillMarketOrder
      <4> QED BY <1>1, <2>3, <4>1, <4>2
    <3>2. CASE FillLimitOrder
      <4>1. pc = "limit_orders" /\ Touched(o) /\ Leave(o, LimitOutcome(o), FillPrice(o))
        BY <3>2 DEF FillLimitOrder
      <4>2. LeavesSizes(LimitOutcome(o))
        BY <2>2, <4>1, FillLeavesSizes
      <4> QED BY <2>3, <4>1, <4>2
    <3>3. CASE ExpireLimitOrder \/ KeepLimitOrder
      BY <1>2, <1>3, <3>3 DEF ExpireLimitOrder, KeepLimitOrder, Lapse
    <3> QED BY <1>8, <3>1, <3>2, <3>3
  <2> QED BY <1>1, <2>1, <2>4
<1>9. CASE DrainResting \/ DrainPending
  <2>1. Queued' \subseteq Queued
    BY <1>9, DrainGood DEF AllInv, Exits
  <2>2. ledger'.perps = ledger.perps
    BY <1>3, <1>9 DEF DrainResting, DrainPending, Lapse
  <2> QED BY <1>1, <1>2, <2>1, <2>2
<1> QED BY <1>4, <1>5, <1>6, <1>7, <1>8, <1>9 DEF Next, Tick, RunChain

LEMMA SizesInvariant ==
  ASSUME Nat \subseteq OrderIds
  PROVE  Spec => [](AllInv /\ PInv)
<1>1. Init => PInv
  <2> SUFFICES ASSUME Init PROVE PInv
    OBVIOUS
  <2>1. Queued = {}
    BY QueuedMembers, EmptyList DEF Init
  <2>2. ledger.perps = <<>>
    BY DEF Init, EmptyLedger
  <2> QED BY <2>1, <2>2 DEF PInv, OpenPositionsHaveSize
<1>2. AllInv /\ PInv /\ [Next]_vars => PInv'
  BY NextSizes
<1> QED BY <1>1, <1>2, AllInvariant, PTL DEF Spec

(* Where every opening order buys at least a unit at the dearest price it can    *)
(* fill at, no position is ever without a size: whatever is added to it, partly   *)
(* closed, charged or liquidated, it has one or is gone. The code divides by it.  *)
THEOREM PositionsHaveSize ==
  ASSUME Nat \subseteq OrderIds
  PROVE  Spec => [](OpensInUnits(simulation) => OpenPositionsHaveSize)
<1>1. PInv => (OpensInUnits(simulation) => OpenPositionsHaveSize)
  BY DEF PInv
<1> QED BY <1>1, SizesInvariant, PTL

\* What brings a run down.
LEMMA NothingFaults ==
  ASSUME AllInv, PInv, OpensInUnits(simulation), AllowNegative
  PROVE  ~Faults
<1>1. Sizes(ledger) /\ Known /\ Good(ledger)
  BY DEF PInv, OpenPositionsHaveSize, Sizes, AllInv, GInv
<1>2. ~ValuationPanics(ledger)
  BY <1>1, GoodPosition, SoundTyped DEF ValuationPanics, Sizes
<1>3. pc = "funding" /\ todo # <<>> => CanCollectFunding(ledger, Head(todo), FundingOwed(Head(todo)))
  <2> SUFFICES ASSUME pc = "funding", todo # <<>>
               PROVE  CanCollectFunding(ledger, Head(todo), FundingOwed(Head(todo)))
    OBVIOUS
  <2>1. FundingOwed(Head(todo)) \in Int
    BY OwedTyped DEF AllInv
  <2> QED BY <2>1 DEF CanCollectFunding, FundingFromCash, CanDebit
<1>4. pc = "liquidations" /\ todo # <<>> => ledger.perps[Head(todo)].size # 0
  <2> SUFFICES ASSUME pc = "liquidations", todo # <<>> PROVE ledger.perps[Head(todo)].size # 0
    OBVIOUS
  <2>1. Head(todo) \in DOMAIN ledger.perps
    BY TailOnce DEF AllInv, GInv, Handling
  <2> QED BY <1>1, <2>1 DEF Sizes
<1>5. ready # <<>> =>
        /\ pc = "market_orders" => MarketOutcome(Head(ready)).why # "panic"
        /\ pc = "limit_orders" /\ Touched(Head(ready)) => LimitOutcome(Head(ready)).why # "panic"
  BY FillLeavesSizes DEF LeavesSizes
<1>6. IsNew => Outcome.why # "panic"
  <2> SUFFICES ASSUME IsNew PROVE Outcome.why # "panic"
    OBVIOUS
  <2>1. SE!Last(stack) \in Nodes /\ Current = simulation.actions[SE!Last(stack)]
    BY CurrentAction DEF IsNew, Current, AllInv
  <2> QED BY <1>1, <2>1, AttemptLeavesSizes DEF Outcome, LeavesSizes
<1> QED BY <1>2, <1>3, <1>4, <1>5, <1>6 DEF Faults

(* Where balances may go negative and opening orders buy something, no run of     *)
(* any strategy panics: neither the debit that accrue_funding expects to succeed  *)
(* nor a division by a position's size, in any phase, can fail.                   *)
THEOREM RunsNeverPanic ==
  ASSUME Nat \subseteq OrderIds, AllowNegative
  PROVE  Spec => [](OpensInUnits(simulation) => NeverPanics)
<1> DEFINE Calm == OpensInUnits(simulation) => NeverPanics
<1>1. Init => Calm
  BY DEF Init, NeverPanics
<1>2. AllInv /\ PInv /\ Calm /\ [Next]_vars => Calm'
  <2> SUFFICES ASSUME AllInv, PInv, Calm, [Next]_vars, OpensInUnits(simulation)'
               PROVE  pc' # "panicked"
    BY DEF NeverPanics
  <2>1. simulation' = simulation
    BY DEF Next, Tick, RunChain, NextTick, LastTick, PhaseDone, ApplyFunding, ApplyYield, CheckLiquidation,
       BeginMarketOrders, FillMarketOrder, BeginLimitOrders, ExpireLimitOrder, KeepLimitOrder, FillLimitOrder,
       BeginSignals, FireSignal, PassSignal, BeginSnapshot, Snapshot, DrainResting, DrainPending, DrainDone,
       StartChain, SkipAction, ExecuteAction, PlaceOrder, RefuseAction, Panic, Terminated, vars, input
  <2>2. OpensInUnits(simulation)
    BY <2>1
  <2>3. ~Panic /\ pc # "panicked"
    BY <2>2, NothingFaults DEF Panic, NeverPanics
  <2> QED BY <2>3 DEF Next, Tick, RunChain, NextTick, LastTick, PhaseDone, ApplyFunding, ApplyYield, CheckLiquidation,
       BeginMarketOrders, FillMarketOrder, BeginLimitOrders, ExpireLimitOrder, KeepLimitOrder, FillLimitOrder,
       BeginSignals, FireSignal, PassSignal, BeginSnapshot, Snapshot, DrainResting, DrainPending, DrainDone,
       StartChain, SkipAction, ExecuteAction, PlaceOrder, RefuseAction, Terminated, vars
<1>3. Calm => (OpensInUnits(simulation) => NeverPanics)
  OBVIOUS
<1> QED BY <1>1, <1>2, <1>3, SizesInvariant, PTL DEF Spec

----------------------------------------------------------------------------
(* A run ends.                                                              *)

\* What the phase has yet to handle, and the actions that are new to the chain.
Waits ==
  Len(todo) + Len(ready) + (CASE pc = "drain_resting" -> Len(resting)
                              [] pc = "drain_pending" -> Len(pending)
                              [] OTHER -> 0)

Untried == Cardinality(Nodes \ visited)

\* The work of a phase is a list, and a phase without positions or signals has none.
Listed == IsList(todo)

LEMMA ListLengths ==
  ASSUME NEW s, IsList(s)
  PROVE  /\ Len(s) \in Nat
         /\ s # <<>> => IsList(Tail(s)) /\ Len(Tail(s)) = Len(s) - 1
<1>1. PICK S : s \in Seq(S)
  BY DEF IsList
<1>2. Len(s) \in Nat
  BY <1>1
<1>3. s # <<>> => Tail(s) \in Seq(S) /\ Len(Tail(s)) = Len(s) - 1
  BY <1>1
<1> QED BY <1>2, <1>3 DEF IsList

LEMMA RankParts ==
  /\ DOMAIN Rank = 1 .. 6
  /\ Rank[1] = Ticks - tick /\ Rank[2] = PhasesLeft[pc] /\ Rank[3] = Waits
  /\ Rank[4] = Len(roots) /\ Rank[5] = Untried /\ Rank[6] = Len(stack)
BY DEF Rank, Waits, Untried, Nodes

LEMMA UntriedType ==
  ASSUME Known
  PROVE  /\ Untried \in Nat
         /\ \A n \in Nodes \ visited : Cardinality(Nodes \ (visited \cup {n})) = Untried - 1
<1>1. IsFiniteSet(Nodes)
  BY StrategyAssumption DEF Known, Nodes
<1> DEFINE left == Nodes \ visited
<1>2. IsFiniteSet(left)
  BY <1>1, FS_Difference
<1>3. Cardinality(left) \in Nat
  BY <1>2, FS_CardinalityType
<1>4. ASSUME NEW n \in left PROVE Cardinality(Nodes \ (visited \cup {n})) = Cardinality(left) - 1
  <2>1. Cardinality(left \ {n}) = Cardinality(left) - 1
    BY <1>2, <1>4, FS_RemoveElement
  <2>2. left \ {n} = Nodes \ (visited \cup {n})
    OBVIOUS
  <2> QED BY <2>1, <2>2
<1> QED BY <1>3, <1>4 DEF Untried

LEMMA RankNatural ==
  ASSUME AllInv, Listed
  PROVE  \A i \in 1 .. 6 : Rank[i] \in Nat
<1>1. Ticks - tick \in Nat
  BY EngineAssumption DEF AllInv, IInv, Numbered
<1>2. PhasesLeft[pc] \in Nat
  BY DEF AllInv, GInv, Phases, PhasesLeft
<1>3. Waits \in Nat
  <2>1. Len(todo) \in Nat /\ Len(ready) \in Nat /\ Len(resting) \in Nat /\ Len(pending) \in Nat
    BY ListLengths DEF Listed, AllInv, IInv, Lists
  <2> DEFINE drained == CASE pc = "drain_resting" -> Len(resting)
                         [] pc = "drain_pending" -> Len(pending)
                         [] OTHER -> 0
  <2>2. drained \in Nat
    BY <2>1
  <2>3. Waits = Len(todo) + Len(ready) + drained
    BY DEF Waits
  <2> HIDE DEF drained
  <2> QED BY <2>1, <2>2, <2>3
<1>4. Len(roots) \in Nat /\ Len(stack) \in Nat
  BY DEF AllInv, TInv, Walked
<1>5. Untried \in Nat
  BY UntriedType DEF AllInv, GInv
<1> QED BY <1>1, <1>2, <1>3, <1>4, <1>5, RankParts

\* The first part of the rank that changes is lower.
Lowers ==
  \/ tick' > tick
  \/ tick' = tick /\ PhasesLeft[pc]' < PhasesLeft[pc]
  \/ tick' = tick /\ pc' = pc /\ Waits' < Waits
  \/ tick' = tick /\ pc' = pc /\ Waits' = Waits /\ Len(roots') < Len(roots)
  \/ tick' = tick /\ pc' = pc /\ Waits' = Waits /\ roots' = roots /\ Untried' < Untried
  \/ tick' = tick /\ pc' = pc /\ Waits' = Waits /\ roots' = roots /\ Untried' = Untried /\ Len(stack') < Len(stack)

LEMMA RankLowers ==
  ASSUME Lowers, \A i \in 1 .. 6 : Rank[i] \in Nat, \A i \in 1 .. 6 : Rank'[i] \in Nat,
         tick \in Int, tick' \in Int
  PROVE  Below(Rank', Rank)
<1>1. /\ DOMAIN Rank' = 1 .. 6
      /\ Rank'[1] = Ticks - tick' /\ Rank'[2] = PhasesLeft[pc]' /\ Rank'[3] = Waits'
      /\ Rank'[4] = Len(roots') /\ Rank'[5] = Untried' /\ Rank'[6] = Len(stack')
  BY DEF Rank, Waits, Untried, Nodes
<1>2. PhasesLeft' = PhasesLeft
  BY DEF PhasesLeft
<1>3. \A i \in DOMAIN Rank' : Rank'[i] >= 0
  BY <1>1
<1>4. SUFFICES \E i \in 1 .. 6 : Rank'[i] < Rank[i] /\ \A j \in 1 .. i - 1 : Rank'[j] = Rank[j]
  BY <1>1, <1>3 DEF Below
<1>5. CASE tick' > tick
  <2>1. Rank'[1] < Rank[1]
    <3>1. Ticks \in Nat
      BY EngineAssumption
    <3>2. \A m, n \in Int : n > m => Ticks - n < Ticks - m
      BY <3>1
    <3>3. Ticks - tick' < Ticks - tick
      BY <1>5, <3>2
    <3> QED BY <1>1, <3>3, RankParts
  <2> QED BY <2>1
<1>6. CASE tick' = tick /\ PhasesLeft[pc]' < PhasesLeft[pc]
  <2>1. Rank'[2] < Rank[2] /\ Rank'[1] = Rank[1]
    BY <1>1, <1>6, RankParts
  <2> QED BY <2>1
<1>7. CASE tick' = tick /\ pc' = pc /\ Waits' < Waits
  <2>1. Rank'[3] < Rank[3] /\ Rank'[1] = Rank[1] /\ Rank'[2] = Rank[2]
    BY <1>1, <1>2, <1>7, RankParts
  <2> QED BY <2>1
<1>8. CASE tick' = tick /\ pc' = pc /\ Waits' = Waits /\ Len(roots') < Len(roots)
  <2>1. Rank'[4] < Rank[4] /\ Rank'[1] = Rank[1] /\ Rank'[2] = Rank[2] /\ Rank'[3] = Rank[3]
    BY <1>1, <1>2, <1>8, RankParts
  <2> QED BY <2>1
<1>9. CASE tick' = tick /\ pc' = pc /\ Waits' = Waits /\ roots' = roots /\ Untried' < Untried
  <2>1. /\ Rank'[5] < Rank[5] /\ Rank'[1] = Rank[1] /\ Rank'[2] = Rank[2] /\ Rank'[3] = Rank[3]
        /\ Rank'[4] = Rank[4]
    BY <1>1, <1>2, <1>9, RankParts
  <2> QED BY <2>1
<1>10. CASE tick' = tick /\ pc' = pc /\ Waits' = Waits /\ roots' = roots /\ Untried' = Untried /\ Len(stack') < Len(stack)
  <2>1. /\ Rank'[6] < Rank[6] /\ Rank'[1] = Rank[1] /\ Rank'[2] = Rank[2] /\ Rank'[3] = Rank[3]
        /\ Rank'[4] = Rank[4] /\ Rank'[5] = Rank[5]
    BY <1>1, <1>2, <1>10, RankParts
  <2> QED BY <2>1
<1> QED BY <1>5, <1>6, <1>7, <1>8, <1>9, <1>10 DEF Lowers

LEMMA NextListed ==
  ASSUME AllInv, Listed, [Next]_vars
  PROVE  Listed'
<1>1. CASE NextTick \/ PhaseDone
  <2>1. IsList(OpenPerps(ledger)) /\ IsList(OpenYields(ledger))
    BY PhaseBegins DEF IsList, AllInv, GInv
  <2> QED BY <1>1, <2>1 DEF NextTick, PhaseDone, Listed
<1>2. CASE BeginSignals
  <2>1. IsList(simulation.signals)
    BY StrategyAssumption DEF IsList, AllInv, GInv, Known
  <2> QED BY <1>2, <2>1 DEF BeginSignals, Listed
<1>3. CASE ApplyFunding \/ ApplyYield \/ CheckLiquidation \/ FireSignal \/ PassSignal
  BY <1>3, ListLengths DEF ApplyFunding, ApplyYield, CheckLiquidation, FireSignal, PassSignal, Listed
<1>4. CASE todo' = todo
  BY <1>4 DEF Listed
<1> QED BY <1>1, <1>2, <1>3, <1>4 DEF Next, Tick, RunChain, LastTick, BeginMarketOrders, FillMarketOrder,
     BeginLimitOrders, ExpireLimitOrder, KeepLimitOrder, FillLimitOrder, BeginSnapshot, Snapshot, DrainResting,
     DrainPending, DrainDone, StartChain, SkipAction, ExecuteAction, PlaceOrder, RefuseAction, Panic, Terminated, vars

\* A scan has looked at one more order; a drain has let one more go.
LEMMA ScanLowers ==
  ASSUME AllInv, Listed,
         FillMarketOrder \/ ExpireLimitOrder \/ KeepLimitOrder \/ FillLimitOrder \/ DrainResting \/ DrainPending
  PROVE  Lowers
<1>1. tick' = tick /\ pc' = pc /\ todo' = todo
  BY DEF FillMarketOrder, ExpireLimitOrder, KeepLimitOrder, FillLimitOrder, DrainResting, DrainPending, input
<1>2. /\ Len(todo) \in Nat /\ Len(ready) \in Nat /\ Len(resting) \in Nat /\ Len(pending) \in Nat
      /\ ready # <<>> => Len(Tail(ready)) = Len(ready) - 1
      /\ resting # <<>> => Len(Tail(resting)) = Len(resting) - 1
      /\ pending # <<>> => Len(Tail(pending)) = Len(pending) - 1
  BY ListLengths DEF Listed, AllInv, IInv, Lists
<1>3. Waits' < Waits
  <2>1. CASE FillMarketOrder \/ ExpireLimitOrder \/ KeepLimitOrder \/ FillLimitOrder
    <3>1. pc \in {"market_orders", "limit_orders"} /\ ready # <<>> /\ ready' = Tail(ready)
      BY <2>1 DEF FillMarketOrder, ExpireLimitOrder, KeepLimitOrder, FillLimitOrder
    <3>2. Waits = Len(todo) + Len(ready) + 0 /\ Waits' = Len(todo) + Len(Tail(ready)) + 0
      BY <1>1, <3>1 DEF Waits
    <3> QED BY <1>2, <3>1, <3>2
  <2>2. CASE DrainResting
    <3>1. Waits = Len(todo) + Len(ready) + Len(resting) /\ Waits' = Len(todo) + Len(ready) + Len(Tail(resting))
      BY <1>1, <2>2 DEF Waits, DrainResting
    <3> QED BY <1>2, <2>2, <3>1 DEF DrainResting
  <2>3. CASE DrainPending
    <3>1. Waits = Len(todo) + Len(ready) + Len(pending) /\ Waits' = Len(todo) + Len(ready) + Len(Tail(pending))
      BY <1>1, <2>3 DEF Waits, DrainPending
    <3> QED BY <1>2, <2>3, <3>1 DEF DrainPending
  <2> QED BY <2>1, <2>2, <2>3
<1> QED BY <1>1, <1>3 DEF Lowers

\* One more position or signal has been handled.
LEMMA HandlingLowers ==
  ASSUME AllInv, Listed, ApplyFunding \/ ApplyYield \/ CheckLiquidation \/ FireSignal \/ PassSignal
  PROVE  Lowers
<1>1. /\ tick' = tick /\ pc' = pc /\ ready' = ready /\ todo # <<>> /\ todo' = Tail(todo)
      /\ pc \notin {"drain_resting", "drain_pending"}
  BY DEF ApplyFunding, ApplyYield, CheckLiquidation, FireSignal, PassSignal, input, book
<1>2. Len(todo) \in Nat /\ Len(ready) \in Nat /\ Len(Tail(todo)) = Len(todo) - 1
  BY <1>1, ListLengths DEF Listed, AllInv, IInv, Lists
<1>3. Waits = Len(todo) + Len(ready) + 0 /\ Waits' = Len(Tail(todo)) + Len(ready) + 0
  BY <1>1 DEF Waits
<1> QED BY <1>1, <1>2, <1>3 DEF Lowers

\* A chain has been started, has run one of its new actions, or has one action less
\* to look at.
LEMMA ChainLowers ==
  ASSUME AllInv, Listed, RunChain
  PROVE  Lowers
<1>1. tick' = tick /\ pc' = pc /\ Nodes' = Nodes /\ todo' = todo /\ ready' = ready
  BY DEF RunChain, StartChain, SkipAction, ExecuteAction, PlaceOrder, RefuseAction, input, book, Nodes
<1>2. pc \notin {"drain_resting", "drain_pending"}
  BY DEF RunChain, StartChain, SkipAction, ExecuteAction, PlaceOrder, RefuseAction, IsNew, AllInv, IInv, Staged, Idle
<1>3. Waits' = Waits
  BY <1>1, <1>2 DEF Waits
<1>4. roots \in Seq(Nodes) /\ stack \in Seq(Nodes)
  BY DEF AllInv, TInv, Walked
<1>5. CASE StartChain
  <2>1. Len(roots') < Len(roots)
    BY <1>4, <1>5 DEF StartChain
  <2> QED BY <1>1, <1>3, <2>1 DEF Lowers
<1>6. CASE SkipAction
  <2>1. roots' = roots /\ visited' = visited /\ stack # <<>> /\ stack' = SE!Front(stack)
    BY <1>6 DEF SkipAction
  <2>2. Untried' = Untried
    BY <1>1, <2>1 DEF Untried
  <2>3. Len(stack') < Len(stack)
    <3>1. stack' = SubSeq(stack, 1, Len(stack) - 1) /\ Len(stack) \in Nat \ {0}
      BY <1>4, <2>1 DEF SE!Front
    <3> QED BY <1>4, <3>1
  <2> QED BY <1>1, <1>3, <2>1, <2>2, <2>3 DEF Lowers
<1>7. CASE ExecuteAction \/ PlaceOrder \/ RefuseAction
  <2> DEFINE n == SE!Last(stack)
  <2>1. roots' = roots /\ visited' = visited \cup {n} /\ stack # <<>> /\ n \notin visited
    BY <1>7 DEF ExecuteAction, PlaceOrder, RefuseAction, Follow, IsNew
  <2>2. n \in Nodes \ visited
    BY <2>1, CurrentAction DEF AllInv
  <2> HIDE DEF n
  <2>3. Untried \in Nat /\ Untried' = Untried - 1
    <3>1. Untried' = Cardinality(Nodes \ (visited \cup {n}))
      BY <1>1, <2>1 DEF Untried
    <3> QED BY <2>2, <3>1, UntriedType DEF AllInv, GInv
  <2> QED BY <1>1, <1>3, <2>1, <2>3 DEF Lowers
<1> QED BY <1>5, <1>6, <1>7 DEF RunChain

LEMMA PhaseLowers ==
  ASSUME AllInv, LastTick \/ PhaseDone \/ BeginMarketOrders \/ BeginLimitOrders \/ BeginSignals
                   \/ BeginSnapshot \/ Snapshot \/ DrainDone \/ Panic
  PROVE  Lowers
<1>1. tick' = tick /\ PhasesLeft' = PhasesLeft
  BY DEF LastTick, PhaseDone, BeginMarketOrders, BeginLimitOrders, BeginSignals, BeginSnapshot, Snapshot,
     DrainDone, Panic, input, PhasesLeft
<1>2. PhasesLeft[pc'] < PhasesLeft[pc]
  <2>1. CASE Panic
    <3>1. pc # "panicked"
      BY <2>1 DEF Panic, Faults, IsNew, AllInv, IInv, Staged, Idle
    <3>2. PhasesLeft["panicked"] = 0 /\ \A p \in Phases \ {"panicked"} : PhasesLeft[p] > 0
      BY DEF PhasesLeft, Phases
    <3> QED BY <2>1, <3>1, <3>2 DEF Panic, AllInv, GInv
  <2>2. CASE ~Panic
    BY <2>2 DEF LastTick, PhaseDone, BeginMarketOrders, BeginLimitOrders, BeginSignals, BeginSnapshot, Snapshot,
       DrainDone, PhasesLeft
  <2> QED BY <2>1, <2>2
<1> QED BY <1>1, <1>2 DEF Lowers

LEMMA NextDescends ==
  ASSUME AllInv, Listed, AllInv', Listed', Next, ~Terminated
  PROVE  Below(Rank', Rank)
<1>1. Lowers
  <2>1. NextTick => Lowers
    BY EngineAssumption DEF NextTick, AllInv, IInv, Numbered, Lowers
  <2> QED BY <2>1, ScanLowers, HandlingLowers, ChainLowers, PhaseLowers DEF Next, Tick
<1>2. (\A i \in 1 .. 6 : Rank[i] \in Nat) /\ \A i \in 1 .. 6 : Rank'[i] \in Nat
  <2>1. (AllInv /\ Listed => \A i \in 1 .. 6 : Rank[i] \in Nat)'
    BY RankNatural, PTL
  <2> QED BY <2>1, RankNatural
<1>3. tick \in Int /\ tick' \in Int
  BY EngineAssumption DEF AllInv, IInv, Numbered
<1> QED BY <1>1, <1>2, <1>3, RankLowers

(* A run is finite, whatever the graph and whatever its scans, fills and chains   *)
(* put back into the queue and the book while these are under scan: every step of *)
(* it lowers a rank that natural numbers bound from below.                        *)
THEOREM RunsDescend ==
  ASSUME Nat \subseteq OrderIds
  PROVE  Spec => StepsDescend
<1> DEFINE Down == Below(Rank', Rank)
<1>1. Init => Listed
  BY EmptyList DEF Init, Listed
<1>2. AllInv /\ Listed /\ [Next]_vars => Listed'
  BY NextListed
<1>3. AllInv /\ Listed /\ AllInv' /\ Listed' /\ [Next]_vars => Down \/ UNCHANGED vars
  BY NextDescends DEF Terminated
<1>4. [][Down \/ UNCHANGED vars]_vars => StepsDescend
  BY PTL DEF StepsDescend
<1> QED BY <1>1, <1>2, <1>3, <1>4, AllInvariant, PTL DEF Spec

\* A descent of ranks, and one whose first i parts have come to rest.
Descent(f) == \A n \in Nat : f[n] \in [1 .. 6 -> Nat] /\ Below(f[n + 1], f[n])

Still(f, i, N) == \A n \in Nat : n >= N => \A j \in 1 .. i : f[n][j] = f[N][j]

\* Numbers that never rise come to rest.
LEMMA NumbersRest ==
  ASSUME NEW g, NEW N \in Nat, \A n \in Nat : n >= N => g[n] \in Nat /\ g[n + 1] <= g[n]
  PROVE  \E M \in Nat : M >= N /\ \A n \in Nat : n >= M => g[n] = g[M]
<1> DEFINE T == {g[n] : n \in {m \in Nat : m >= N}}
<1>1. T \subseteq Nat /\ T # {}
  <2>1. g[N] \in T
    OBVIOUS
  <2> QED BY <2>1
<1>2. PICK x \in T : \A y \in T : ~(<<y, x>> \in OpToRel(<, Nat))
  BY <1>1, NatLessThanWellFounded, WFMin
<1>3. \A y \in T : ~(y < x)
  BY <1>1, <1>2 DEF OpToRel
<1>4. PICK M \in Nat : M >= N /\ x = g[M]
  BY <1>2
<1> DEFINE S == {k \in Nat : g[M + k] = x}
<1>5. 0 \in S
  BY <1>4
<1>6. ASSUME NEW k \in Nat, k \in S PROVE k + 1 \in S
  <2>1. M + k \in Nat /\ M + k >= N /\ M + (k + 1) = (M + k) + 1 /\ M + (k + 1) \in Nat /\ M + (k + 1) >= N
    BY <1>4
  <2>2. g[M + (k + 1)] <= x /\ g[M + (k + 1)] \in Nat /\ x \in Nat
    BY <1>6, <2>1
  <2>3. g[M + (k + 1)] \in T
    BY <2>1
  <2>4. ~(g[M + (k + 1)] < x)
    BY <1>3, <2>3
  <2> HIDE DEF T
  <2>5. g[M + (k + 1)] = x
    BY <2>2, <2>4
  <2> QED BY <2>1, <2>5
<1>7. Nat \subseteq S
  <2> HIDE DEF S
  <2> QED BY <1>5, <1>6, SetInduction
<1>8. ASSUME NEW n \in Nat, n >= M PROVE g[n] = g[M]
  <2>1. n - M \in Nat /\ M + (n - M) = n
    BY <1>8
  <2>2. n - M \in S
    BY <1>7, <2>1
  <2> QED BY <1>4, <2>1, <2>2
<1> QED BY <1>4, <1>8

\* Once the parts before it are at rest, a part never rises.
LEMMA PartRests ==
  ASSUME NEW f, Descent(f), NEW i \in 0 .. 5, NEW N \in Nat, Still(f, i, N)
  PROVE  \E M \in Nat : Still(f, i + 1, M)
<1> DEFINE g == [n \in Nat |-> f[n][i + 1]]
<1>1. ASSUME NEW n \in Nat, n >= N PROVE g[n] \in Nat /\ g[n + 1] <= g[n]
  <2>1. i + 1 \in 1 .. 6 /\ n + 1 \in Nat /\ n + 1 >= N
    BY <1>1
  <2>2. f[n] \in [1 .. 6 -> Nat] /\ f[n + 1] \in [1 .. 6 -> Nat] /\ Below(f[n + 1], f[n])
    BY <2>1 DEF Descent
  <2>3. PICK k \in 1 .. 6 : f[n + 1][k] < f[n][k] /\ \A j \in 1 .. k - 1 : f[n + 1][j] = f[n][j]
    BY <2>2 DEF Below
  <2>4. \A j \in 1 .. i : f[n + 1][j] = f[n][j]
    BY <1>1, <2>1 DEF Still
  <2>5. f[n][k] \in Nat /\ f[n + 1][k] \in Nat /\ f[n][i + 1] \in Nat /\ f[n + 1][i + 1] \in Nat
    BY <2>1, <2>2
  <2>6. ~(k <= i)
    BY <2>3, <2>4, <2>5
  <2>7. f[n + 1][i + 1] <= f[n][i + 1]
    BY <2>3, <2>5, <2>6
  <2> QED BY <2>1, <2>5, <2>7
<1>2. PICK M \in Nat : M >= N /\ \A n \in Nat : n >= M => g[n] = g[M]
  <2> HIDE DEF g
  <2> QED BY <1>1, NumbersRest
<1>3. ASSUME NEW n \in Nat, n >= M, NEW j \in 1 .. i + 1 PROVE f[n][j] = f[M][j]
  <2>1. CASE j = i + 1
    <3>1. g[n] = g[M]
      BY <1>2, <1>3
    <3> QED BY <2>1, <3>1
  <2>2. CASE j \in 1 .. i
    <3>1. n >= N /\ M >= N
      BY <1>2, <1>3
    <3>2. f[n][j] = f[N][j] /\ f[M][j] = f[N][j]
      BY <2>2, <3>1 DEF Still
    <3> QED BY <3>2
  <2> QED BY <2>1, <2>2
<1> QED BY <1>3 DEF Still

(* Ranks do not descend for ever: as every step of a run lowers its rank, a run   *)
(* has no infinite sequence of steps.                                             *)
THEOREM DescentsEnd == \A f : ~Descent(f)
<1> SUFFICES ASSUME NEW f, Descent(f) PROVE FALSE
  OBVIOUS
<1>0. Still(f, 0, 0)
  BY DEF Still
<1>1. \E N \in Nat : Still(f, 1, N)
  BY <1>0, PartRests
<1>2. \E N \in Nat : Still(f, 2, N)
  BY <1>1, PartRests
<1>3. \E N \in Nat : Still(f, 3, N)
  BY <1>2, PartRests
<1>4. \E N \in Nat : Still(f, 4, N)
  BY <1>3, PartRests
<1>5. \E N \in Nat : Still(f, 5, N)
  BY <1>4, PartRests
<1>6. PICK N \in Nat : Still(f, 6, N)
  BY <1>5, PartRests
<1>7. \A j \in 1 .. 6 : f[N + 1][j] = f[N][j]
  BY <1>6 DEF Still
<1>8. f[N + 1] \in [1 .. 6 -> Nat] /\ f[N] \in [1 .. 6 -> Nat] /\ Below(f[N + 1], f[N])
  BY DEF Descent
<1>9. PICK k \in 1 .. 6 : f[N + 1][k] < f[N][k]
  BY <1>8 DEF Below
<1> QED BY <1>7, <1>8, <1>9
=============================================================================
