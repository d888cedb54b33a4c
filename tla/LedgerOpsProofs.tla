--------------------------- MODULE LedgerOpsProofs ---------------------------
(***************************************************************************)
(* What the operations of the ledger do to a ledger, whoever calls them:   *)
(* they keep its shape, with perp positions drawn from any set P; they     *)
(* change the earmarked units and the money of one account; and they keep  *)
(* what is reserved covered.  Reserved is the number of earmarked units,   *)
(* so that what an operation does to the sum of reservations is a fact     *)
(* about the cardinality of a set of units.                                *)
(***************************************************************************)
EXTENDS LedgerOps, FiniteSetTheorems, TLAPS

----------------------------------------------------------------------------
(* Every operation keeps the shape of the ledger.                           *)

LEMMA EmptyLedgerType ==
  ASSUME NEW P, NEW initial \in [Accounts -> Int]
  PROVE  IsLedger(EmptyLedger(initial), P)
BY DEF IsLedger, EmptyLedger

LEMMA ReserveType ==
  ASSUME NEW P, NEW l, IsLedger(l, P), NEW o \in OrderIds, NEW v \in Venues, NEW a \in Assets, NEW n \in Nat
  PROVE  IsLedger(Reserve(l, o, v, a, n), P)
<1> DEFINE r == [venue |-> v, asset |-> a, amount |-> n]
           f == l.reservations
<1>1. r \in Reservation /\ f \in [DOMAIN f -> Reservation]
  BY DEF Reservation, IsLedger
<1>2. /\ Put(f, o, r) \in [DOMAIN Put(f, o, r) -> Reservation]
      /\ DOMAIN Put(f, o, r) = DOMAIN f \cup {o}
  BY <1>1 DEF Put
<1> HIDE DEF r
<1>3. Reserve(l, o, v, a, n) = [l EXCEPT !.reservations = Put(f, o, r)]
  BY DEF Reserve, r
<1>4. DOMAIN f \cup {o} \subseteq OrderIds
  BY DEF IsLedger
<1> QED BY <1>2, <1>3, <1>4 DEF IsLedger

LEMMA ReleaseType ==
  ASSUME NEW P, NEW l, IsLedger(l, P), NEW o
  PROVE  IsLedger(Release(l, o), P)
<1> DEFINE f == l.reservations
<1>1. f \in [DOMAIN f -> Reservation]
  BY DEF IsLedger
<1>2. /\ Drop(f, o) \in [DOMAIN Drop(f, o) -> Reservation]
      /\ DOMAIN Drop(f, o) = DOMAIN f \ {o}
  BY <1>1 DEF Drop
<1>3. Release(l, o) = [l EXCEPT !.reservations = Drop(f, o)]
  BY DEF Release
<1> QED BY <1>2, <1>3 DEF IsLedger

LEMMA CreditType ==
  ASSUME NEW P, NEW l, IsLedger(l, P), NEW v \in Venues, NEW a \in Assets, NEW n \in Int
  PROVE  IsLedger(Credit(l, v, a, n), P)
<1> DEFINE b == [l.balances EXCEPT ![<<v, a>>] = @ + n]
<1>1. l.balances \in [Accounts -> Int]
  BY DEF IsLedger
<1>2. b \in [Accounts -> Int]
  BY <1>1 DEF Accounts
<1>3. Credit(l, v, a, n) = [l EXCEPT !.balances = b]
  BY DEF Credit
<1> QED BY <1>2, <1>3 DEF IsLedger

LEMMA DebitType ==
  ASSUME NEW P, NEW l, IsLedger(l, P), NEW v \in Venues, NEW a \in Assets, NEW n \in Int
  PROVE  IsLedger(Debit(l, v, a, n), P)
<1> DEFINE b == [l.balances EXCEPT ![<<v, a>>] = @ - n]
<1>1. l.balances \in [Accounts -> Int]
  BY DEF IsLedger
<1>2. b \in [Accounts -> Int]
  BY <1>1 DEF Accounts
<1>3. Debit(l, v, a, n) = [l EXCEPT !.balances = b]
  BY DEF Debit
<1> QED BY <1>2, <1>3 DEF IsLedger

LEMMA SetPerpType ==
  ASSUME NEW P, NEW l, IsLedger(l, P), NEW k \in PerpKeys, NEW p \in P, p.margin \in Int
  PROVE  IsLedger(SetPerp(l, k, p), P)
<1> DEFINE f == l.perps
<1>1. f \in [DOMAIN f -> P] /\ DOMAIN f \cup {k} \subseteq PerpKeys
  BY DEF IsLedger
<1>2. /\ Put(f, k, p) \in [DOMAIN Put(f, k, p) -> P]
      /\ DOMAIN Put(f, k, p) = DOMAIN f \cup {k}
  BY <1>1 DEF Put
<1>3. SetPerp(l, k, p) = [l EXCEPT !.perps = Put(f, k, p)]
  BY DEF SetPerp
<1> QED BY <1>1, <1>2, <1>3 DEF IsLedger

LEMMA DropPerpType ==
  ASSUME NEW P, NEW l, IsLedger(l, P), NEW k
  PROVE  IsLedger([l EXCEPT !.perps = Drop(@, k)], P)
<1> DEFINE f == l.perps
<1>1. f \in [DOMAIN f -> P]
  BY DEF IsLedger
<1>2. /\ Drop(f, k) \in [DOMAIN Drop(f, k) -> P]
      /\ DOMAIN Drop(f, k) = DOMAIN f \ {k}
  BY <1>1 DEF Drop
<1> QED BY <1>2 DEF IsLedger

LEMMA OpenPerpType ==
  ASSUME NEW P, NEW l, IsLedger(l, P), NEW k \in PerpKeys, NEW p \in P, p.margin \in Int
  PROVE  IsLedger(OpenPerp(l, k, p), P)
<1>1. p.margin \in Int /\ k[1] \in Venues /\ USDC \in Assets
  BY LedgerAssumption DEF PerpKeys
<1>2. IsLedger(Debit(l, k[1], USDC, p.margin), P)
  BY <1>1, DebitType
<1> QED BY <1>2, SetPerpType DEF OpenPerp

LEMMA ClosePerpType ==
  ASSUME NEW P, NEW l, IsLedger(l, P), NEW k \in PerpKeys, NEW n \in Int
  PROVE  IsLedger(ClosePerp(l, k, n), P)
<1>1. k[1] \in Venues /\ USDC \in Assets
  BY LedgerAssumption DEF PerpKeys
<1> QED BY <1>1, DropPerpType, CreditType DEF ClosePerp

LEMMA PutYieldType ==
  ASSUME NEW P, NEW l, IsLedger(l, P), NEW k \in YieldKeys, NEW y \in [principal : Int, accrued : Int]
  PROVE  IsLedger([l EXCEPT !.yields = Put(@, k, y)], P)
<1> DEFINE f == l.yields
<1>1. /\ f \in [DOMAIN f -> [principal : Int, accrued : Int]]
      /\ DOMAIN f \cup {k} \subseteq YieldKeys
  BY DEF IsLedger
<1>2. /\ Put(f, k, y) \in [DOMAIN Put(f, k, y) -> [principal : Int, accrued : Int]]
      /\ DOMAIN Put(f, k, y) = DOMAIN f \cup {k}
  BY <1>1 DEF Put
<1> QED BY <1>1, <1>2 DEF IsLedger

LEMMA DropYieldType ==
  ASSUME NEW P, NEW l, IsLedger(l, P), NEW k
  PROVE  IsLedger([l EXCEPT !.yields = Drop(@, k)], P)
<1> DEFINE f == l.yields
<1>1. f \in [DOMAIN f -> [principal : Int, accrued : Int]]
  BY DEF IsLedger
<1>2. /\ Drop(f, k) \in [DOMAIN Drop(f, k) -> [principal : Int, accrued : Int]]
      /\ DOMAIN Drop(f, k) = DOMAIN f \ {k}
  BY <1>1 DEF Drop
<1> QED BY <1>2 DEF IsLedger

LEMMA DepositYieldType ==
  ASSUME NEW P, NEW l, IsLedger(l, P), NEW k \in YieldKeys, NEW n \in Int
  PROVE  IsLedger(DepositYield(l, k, n), P)
<1> DEFINE d == Debit(l, k.chain, k.asset, n)
           y == IF k \in DOMAIN l.yields
                THEN [l.yields[k] EXCEPT !.principal = @ + n]
                ELSE [principal |-> n, accrued |-> 0]
<1>1. k.chain \in Venues /\ k.asset \in Assets
  BY DEF YieldKeys
<1>2. IsLedger(d, P)
  BY <1>1, DebitType
<1>3. y \in [principal : Int, accrued : Int]
  BY DEF IsLedger
<1>4. DepositYield(l, k, n) = [d EXCEPT !.yields = Put(@, k, y)]
  BY DEF DepositYield
<1> HIDE DEF d, y
<1> QED BY <1>2, <1>3, <1>4, PutYieldType

LEMMA AccrueYieldType ==
  ASSUME NEW P, NEW l, IsLedger(l, P), NEW k \in DOMAIN l.yields, NEW n \in Int, NEW usd \in Int
  PROVE  IsLedger(AccrueYield(l, k, n, usd), P)
<1> DEFINE y == [l.yields[k] EXCEPT !.accrued = l.yields[k].accrued + n]
           f == [l.yields EXCEPT ![k] = y]
<1>1. l.yields \in [DOMAIN l.yields -> [principal : Int, accrued : Int]]
  BY DEF IsLedger
<1>2. y \in [principal : Int, accrued : Int]
  BY <1>1
<1>3. f \in [DOMAIN l.yields -> [principal : Int, accrued : Int]]
  BY <1>1, <1>2
<1>4. AccrueYield(l, k, n, usd) = [l EXCEPT !.yields = f, !.interest = l.interest + usd]
  BY DEF AccrueYield
<1>5. l.interest + usd \in Int
  BY DEF IsLedger
<1> HIDE DEF f
<1> QED BY <1>3, <1>4, <1>5 DEF IsLedger

LEMMA WithdrawYieldType ==
  ASSUME NEW P, NEW l, IsLedger(l, P), NEW k \in DOMAIN l.yields, NEW n \in Int
  PROVE  IsLedger(WithdrawYield(l, k, n), P)
<1> DEFINE part == Lesser(n, l.yields[k].accrued)
           y == [principal |-> l.yields[k].principal - (n - part),
                 accrued |-> l.yields[k].accrued - part]
           rest == IF y.principal + y.accrued = 0 THEN Drop(l.yields, k)
                   ELSE Put(l.yields, k, y)
<1>1. k \in YieldKeys /\ k.chain \in Venues /\ k.asset \in Assets
  BY DEF YieldKeys, IsLedger
<1>2. l.yields[k] \in [principal : Int, accrued : Int]
  BY DEF IsLedger
<1>3. y \in [principal : Int, accrued : Int]
  BY <1>2 DEF Lesser
<1>4. WithdrawYield(l, k, n) = Credit([l EXCEPT !.yields = rest], k.chain, k.asset, n)
  BY DEF WithdrawYield
<1> HIDE DEF y
<1>5. IsLedger([l EXCEPT !.yields = rest], P)
  BY <1>1, <1>3, PutYieldType, DropYieldType
<1> QED BY <1>1, <1>4, <1>5, CreditType

----------------------------------------------------------------------------
(* The units earmarked on an account, and how an operation changes them.    *)

\* The units order o earmarks on (v, a).
UnitsOf(l, o, v, a) ==
  IF o \in Holders(l, v, a) THEN {o} \X (1 .. l.reservations[o].amount) ELSE {}

\* A unit names its order and a positive index no greater than the amount.
LEMMA UnitShape ==
  ASSUME NEW l, NEW v, NEW a, NEW u
  PROVE  u \in EarmarkedUnits(l, v, a) <=>
           \E o \in Holders(l, v, a) : u \in {o} \X (1 .. l.reservations[o].amount)
BY DEF EarmarkedUnits

LEMMA UnitsOfSubset ==
  ASSUME NEW l, NEW o, NEW v, NEW a
  PROVE  UnitsOf(l, o, v, a) \subseteq EarmarkedUnits(l, v, a)
BY DEF UnitsOf, EarmarkedUnits

LEMMA UnitOwner ==
  ASSUME NEW l, NEW o, NEW v, NEW a, NEW u \in EarmarkedUnits(l, v, a)
  PROVE  u \in UnitsOf(l, o, v, a) <=> u[1] = o
BY UnitShape DEF UnitsOf

\* Operations that leave the reservations alone leave the units alone.
LEMMA UnitsUnchanged ==
  ASSUME NEW l, NEW m, m.reservations = l.reservations, NEW v, NEW a
  PROVE  EarmarkedUnits(m, v, a) = EarmarkedUnits(l, v, a)
BY DEF EarmarkedUnits, Holders

\* Releasing an order removes its units and no others.
LEMMA UnitsAfterRelease ==
  ASSUME NEW P, NEW l, IsLedger(l, P), NEW o, NEW v, NEW a
  PROVE  EarmarkedUnits(Release(l, o), v, a) =
           EarmarkedUnits(l, v, a) \ UnitsOf(l, o, v, a)
<1> DEFINE m == Release(l, o)
<1>1. m.reservations = Drop(l.reservations, o)
  BY DEF Release, IsLedger
<1>2. /\ DOMAIN m.reservations = DOMAIN l.reservations \ {o}
      /\ \A x \in DOMAIN m.reservations : m.reservations[x] = l.reservations[x]
  BY <1>1 DEF Drop
<1>3. /\ Holders(m, v, a) = Holders(l, v, a) \ {o}
      /\ \A x \in Holders(m, v, a) : m.reservations[x] = l.reservations[x]
  BY <1>2 DEF Holders
<1> HIDE DEF m
<1>4. ASSUME NEW u \in EarmarkedUnits(m, v, a)
      PROVE  u \in EarmarkedUnits(l, v, a) /\ u \notin UnitsOf(l, o, v, a)
  <2>1. PICK x \in Holders(m, v, a) : u \in {x} \X (1 .. m.reservations[x].amount)
    BY UnitShape
  <2>2. u \in EarmarkedUnits(l, v, a) /\ u[1] = x /\ x # o
    BY <1>3, <2>1, UnitShape
  <2> QED BY <2>2, UnitOwner
<1>5. ASSUME NEW u \in EarmarkedUnits(l, v, a), u \notin UnitsOf(l, o, v, a)
      PROVE  u \in EarmarkedUnits(m, v, a)
  <2>1. PICK x \in Holders(l, v, a) : u \in {x} \X (1 .. l.reservations[x].amount)
    BY UnitShape
  <2>2. x # o
    BY <1>5, <2>1, UnitOwner
  <2> QED BY <1>3, <2>1, <2>2, UnitShape
<1> QED BY <1>4, <1>5 DEF m

\* Reserving replaces the units of the order, which may have been earmarked on
\* another account, by n units on the account named.
NewUnits(o, here, n) == IF here THEN {o} \X (1 .. n) ELSE {}

LEMMA UnitsAfterReserve ==
  ASSUME NEW P, NEW l, IsLedger(l, P), NEW o, NEW w, NEW b, NEW n \in Nat, NEW v, NEW a
  PROVE  EarmarkedUnits(Reserve(l, o, w, b, n), v, a) =
           (EarmarkedUnits(l, v, a) \ UnitsOf(l, o, v, a))
             \cup NewUnits(o, w = v /\ b = a, n)
<1> DEFINE m == Reserve(l, o, w, b, n)
           r == [venue |-> w, asset |-> b, amount |-> n]
<1>1. m.reservations = Put(l.reservations, o, r)
  BY DEF Reserve, IsLedger
<1>2. /\ DOMAIN m.reservations = DOMAIN l.reservations \cup {o}
      /\ m.reservations[o] = r
      /\ \A x \in DOMAIN l.reservations \ {o} : m.reservations[x] = l.reservations[x]
  BY <1>1 DEF Put
<1> HIDE DEF m
<1>3. /\ \A x : x # o => (x \in Holders(m, v, a) <=> x \in Holders(l, v, a))
      /\ \A x \in Holders(l, v, a) : x # o => m.reservations[x] = l.reservations[x]
      /\ o \in Holders(m, v, a) <=> w = v /\ b = a
      /\ m.reservations[o].amount = n
  BY <1>2 DEF Holders
<1>4. ASSUME NEW u \in EarmarkedUnits(m, v, a)
      PROVE  \/ u \in EarmarkedUnits(l, v, a) /\ u \notin UnitsOf(l, o, v, a)
             \/ u \in NewUnits(o, w = v /\ b = a, n)
  <2>1. PICK x \in Holders(m, v, a) : u \in {x} \X (1 .. m.reservations[x].amount)
    BY UnitShape
  <2>2. CASE x = o
    BY <1>3, <2>1, <2>2 DEF NewUnits
  <2>3. CASE x # o
    <3>1. x \in Holders(l, v, a) /\ u \in {x} \X (1 .. l.reservations[x].amount)
      BY <1>3, <2>1, <2>3
    <3>2. u \in EarmarkedUnits(l, v, a) /\ u[1] # o
      BY <2>3, <3>1, UnitShape
    <3> QED BY <3>2, UnitOwner
  <2> QED BY <2>2, <2>3
<1>5. ASSUME NEW u \in EarmarkedUnits(l, v, a), u \notin UnitsOf(l, o, v, a)
      PROVE  u \in EarmarkedUnits(m, v, a)
  <2>1. PICK x \in Holders(l, v, a) : u \in {x} \X (1 .. l.reservations[x].amount)
    BY UnitShape
  <2>2. x # o
    BY <1>5, <2>1, UnitOwner
  <2>3. x \in Holders(m, v, a) /\ u \in {x} \X (1 .. m.reservations[x].amount)
    BY <1>3, <2>1, <2>2
  <2> QED BY <2>3, UnitShape
<1>6. ASSUME NEW u \in NewUnits(o, w = v /\ b = a, n)
      PROVE  u \in EarmarkedUnits(m, v, a)
  <2>1. w = v /\ b = a /\ u \in {o} \X (1 .. n)
    BY <1>6 DEF NewUnits
  <2>2. o \in Holders(m, v, a) /\ u \in {o} \X (1 .. m.reservations[o].amount)
    BY <1>3, <2>1
  <2> QED BY <2>2, UnitShape
<1> QED BY <1>4, <1>5, <1>6 DEF m

\* There are n units in a reservation of n.
LEMMA UnitCount ==
  ASSUME NEW o, NEW n \in Nat
  PROVE  IsFiniteSet({o} \X (1 .. n)) /\ Cardinality({o} \X (1 .. n)) = n
<1>1. IsFiniteSet(1 .. n) /\ Cardinality(1 .. n) = n
  BY FS_Interval
<1>2. IsFiniteSet({o}) /\ Cardinality({o}) = 1
  BY FS_Singleton
<1>3. Cardinality({o} \X (1 .. n)) = 1 * n /\ IsFiniteSet({o} \X (1 .. n))
  BY <1>1, <1>2, FS_Product
<1> QED BY <1>3

\* What order o holds on (v, a).
HeldBy(l, o, v, a) ==
  IF o \in Holders(l, v, a) THEN l.reservations[o].amount ELSE 0

LEMMA HeldByCount ==
  ASSUME NEW P, NEW l, IsLedger(l, P), NEW o, NEW v, NEW a
  PROVE  /\ HeldBy(l, o, v, a) \in Nat
         /\ IsFiniteSet(UnitsOf(l, o, v, a))
         /\ Cardinality(UnitsOf(l, o, v, a)) = HeldBy(l, o, v, a)
<1>1. CASE o \in Holders(l, v, a)
  <2>1. l.reservations[o].amount \in Nat
    BY <1>1 DEF Holders, IsLedger, Reservation
  <2> QED BY <1>1, <2>1, UnitCount DEF HeldBy, UnitsOf
<1>2. CASE o \notin Holders(l, v, a)
  BY <1>2, FS_EmptySet DEF HeldBy, UnitsOf
<1> QED BY <1>1, <1>2

\* Releasing an order lowers what is reserved by what the order held.
LEMMA ReservedAfterRelease ==
  ASSUME NEW P, NEW l, IsLedger(l, P), NEW o, NEW v, NEW a, IsFiniteSet(EarmarkedUnits(l, v, a))
  PROVE  /\ IsFiniteSet(EarmarkedUnits(Release(l, o), v, a))
         /\ Reserved(Release(l, o), v, a) = Reserved(l, v, a) - HeldBy(l, o, v, a)
<1> DEFINE U == EarmarkedUnits(l, v, a)
           D == UnitsOf(l, o, v, a)
<1>1. U \cap D = D
  BY UnitsOfSubset
<1>2. IsFiniteSet(U \ D) /\ Cardinality(U \ D) = Cardinality(U) - Cardinality(U \cap D)
  BY FS_Difference
<1>3. EarmarkedUnits(Release(l, o), v, a) = U \ D
  BY UnitsAfterRelease
<1>4. Cardinality(D) = HeldBy(l, o, v, a)
  BY HeldByCount
<1> HIDE DEF U, D
<1> QED BY <1>1, <1>2, <1>3, <1>4 DEF Reserved, U

\* Reserving exchanges what the order held for n on the account named.
LEMMA ReservedAfterReserve ==
  ASSUME NEW P, NEW l, IsLedger(l, P), NEW o, NEW w, NEW b, NEW n \in Nat, NEW v, NEW a,
         IsFiniteSet(EarmarkedUnits(l, v, a))
  PROVE  /\ IsFiniteSet(EarmarkedUnits(Reserve(l, o, w, b, n), v, a))
         /\ Reserved(Reserve(l, o, w, b, n), v, a) =
              Reserved(l, v, a) - HeldBy(l, o, v, a) + (IF w = v /\ b = a THEN n ELSE 0)
<1> DEFINE U == EarmarkedUnits(l, v, a)
           D == UnitsOf(l, o, v, a)
           N == NewUnits(o, w = v /\ b = a, n)
<1>1. EarmarkedUnits(Reserve(l, o, w, b, n), v, a) = (U \ D) \cup N
  BY UnitsAfterReserve
<1>2. /\ IsFiniteSet(U \ D)
      /\ Cardinality(U \ D) = Cardinality(U) - HeldBy(l, o, v, a)
  <2>1. U \cap D = D
    BY UnitsOfSubset
  <2>2. IsFiniteSet(U \ D) /\ Cardinality(U \ D) = Cardinality(U) - Cardinality(U \cap D)
    BY FS_Difference
  <2>3. Cardinality(D) = HeldBy(l, o, v, a)
    BY HeldByCount
  <2> HIDE DEF U, D
  <2> QED BY <2>1, <2>2, <2>3
<1>3. IsFiniteSet(N) /\ Cardinality(N) = (IF w = v /\ b = a THEN n ELSE 0)
  BY UnitCount, FS_EmptySet DEF NewUnits
<1>4. (U \ D) \cap N = {}
  <2>1. \A u \in U \ D : u[1] # o
    BY UnitOwner
  <2>2. \A u \in N : u[1] = o
    BY DEF NewUnits
  <2> HIDE DEF U, D, N
  <2> QED BY <2>1, <2>2
<1>5. /\ IsFiniteSet((U \ D) \cup N)
      /\ Cardinality((U \ D) \cup N) =
           Cardinality(U \ D) + Cardinality(N) - Cardinality((U \ D) \cap N)
  <2> HIDE DEF U, D, N
  <2> QED BY <1>2, <1>3, FS_Union
<1>6. Cardinality(U) \in Nat /\ HeldBy(l, o, v, a) \in Nat
  BY FS_CardinalityType, HeldByCount
<1>7. Cardinality({}) = 0
  BY FS_EmptySet
<1> HIDE DEF U, D, N
<1>8. Cardinality((U \ D) \cup N) =
        Cardinality(U) - HeldBy(l, o, v, a) + (IF w = v /\ b = a THEN n ELSE 0)
  <2>1. Cardinality((U \ D) \cap N) = 0
    BY <1>4, <1>7, Zenon
  <2> QED BY <1>2, <1>3, <1>5, <1>6, <2>1
<1> QED BY <1>1, <1>5, <1>8 DEF Reserved, U

LEMMA ReservedType ==
  ASSUME NEW l, NEW v, NEW a, IsFiniteSet(EarmarkedUnits(l, v, a))
  PROVE  Reserved(l, v, a) \in Nat
BY FS_CardinalityType DEF Reserved

----------------------------------------------------------------------------
(* Earmarked cash is never spent.                                           *)

\* What is reserved is at most what is held, account by account.
Covered(l) ==
  \A v \in Venues, a \in Assets :
    /\ IsFiniteSet(EarmarkedUnits(l, v, a))
    /\ ~AllowNegative => Reserved(l, v, a) <= Balance(l, v, a)

\* m is l with n more, or -n less, on (v, a) and the same reservations.
Moves(l, m, v, a, n) ==
  /\ m.reservations = l.reservations
  /\ \A w \in Venues, b \in Assets :
       Balance(m, w, b) = Balance(l, w, b) + (IF w = v /\ b = a THEN n ELSE 0)

LEMMA CreditMoves ==
  ASSUME NEW P, NEW l, IsLedger(l, P), NEW v \in Venues, NEW a \in Assets, NEW n \in Int
  PROVE  Moves(l, Credit(l, v, a, n), v, a, n)
<1>1. l.balances \in [Accounts -> Int]
  BY DEF IsLedger
<1>2. /\ Credit(l, v, a, n).balances = [l.balances EXCEPT ![<<v, a>>] = @ + n]
      /\ Credit(l, v, a, n).reservations = l.reservations
  BY DEF Credit, IsLedger
<1> QED BY <1>1, <1>2 DEF Balance, Accounts, Moves

LEMMA DebitMoves ==
  ASSUME NEW P, NEW l, IsLedger(l, P), NEW v \in Venues, NEW a \in Assets, NEW n \in Int
  PROVE  Moves(l, Debit(l, v, a, n), v, a, -n)
<1>1. l.balances \in [Accounts -> Int]
  BY DEF IsLedger
<1>2. /\ Debit(l, v, a, n).balances = [l.balances EXCEPT ![<<v, a>>] = @ - n]
      /\ Debit(l, v, a, n).reservations = l.reservations
  BY DEF Debit, IsLedger
<1> QED BY <1>1, <1>2 DEF Balance, Accounts, Moves

\* Changing positions and interest moves no money.
LEMMA SameMoves ==
  ASSUME NEW P, NEW l, NEW m, IsLedger(l, P), m.balances = l.balances, m.reservations = l.reservations,
         NEW v, NEW a
  PROVE  Moves(l, m, v, a, 0)
BY DEF Balance, Moves, IsLedger, Accounts

LEMMA SetPerpMoves ==
  ASSUME NEW P, NEW l, IsLedger(l, P), NEW k, NEW p, NEW v, NEW a
  PROVE  Moves(l, SetPerp(l, k, p), v, a, 0)
<1>1. /\ SetPerp(l, k, p).balances = l.balances
      /\ SetPerp(l, k, p).reservations = l.reservations
  BY DEF SetPerp, IsLedger
<1> QED BY <1>1, SameMoves

LEMMA AccrueYieldMoves ==
  ASSUME NEW P, NEW l, IsLedger(l, P), NEW k, NEW n, NEW usd, NEW v, NEW a
  PROVE  Moves(l, AccrueYield(l, k, n, usd), v, a, 0)
<1>1. /\ AccrueYield(l, k, n, usd).balances = l.balances
      /\ AccrueYield(l, k, n, usd).reservations = l.reservations
  BY DEF AccrueYield, IsLedger
<1> QED BY <1>1, SameMoves

LEMMA OpenPerpMoves ==
  ASSUME NEW P, NEW l, IsLedger(l, P), NEW k \in PerpKeys, NEW p \in P, p.margin \in Int
  PROVE  Moves(l, OpenPerp(l, k, p), k[1], USDC, -p.margin)
<1> DEFINE d == Debit(l, k[1], USDC, p.margin)
<1>1. p.margin \in Int /\ k[1] \in Venues /\ USDC \in Assets
  BY LedgerAssumption DEF PerpKeys
<1>2. IsLedger(d, P) /\ Moves(l, d, k[1], USDC, -p.margin)
  BY <1>1, DebitType, DebitMoves
<1>3. OpenPerp(l, k, p).balances = d.balances /\ OpenPerp(l, k, p).reservations = d.reservations
  <2> HIDE DEF d
  <2>1. [d EXCEPT !.perps = Put(@, k, p)].balances = d.balances
    BY <1>2 DEF IsLedger
  <2>2. [d EXCEPT !.perps = Put(@, k, p)].reservations = d.reservations
    BY <1>2 DEF IsLedger
  <2> QED BY <2>1, <2>2 DEF OpenPerp, SetPerp, d
<1> HIDE DEF d
<1> QED BY <1>2, <1>3 DEF Moves, Balance

LEMMA ClosePerpMoves ==
  ASSUME NEW P, NEW l, IsLedger(l, P), NEW k \in PerpKeys, NEW n \in Int
  PROVE  Moves(l, ClosePerp(l, k, n), k[1], USDC, n)
<1> DEFINE d == [l EXCEPT !.perps = Drop(@, k)]
<1>1. k[1] \in Venues /\ USDC \in Assets
  BY LedgerAssumption DEF PerpKeys
<1>2. d.balances = l.balances /\ d.reservations = l.reservations
  BY DEF IsLedger
<1>3. IsLedger(d, P)
  BY DropPerpType
<1> HIDE DEF d
<1>4. Moves(d, Credit(d, k[1], USDC, n), k[1], USDC, n)
  BY <1>1, <1>3, CreditMoves
<1>5. ClosePerp(l, k, n) = Credit(d, k[1], USDC, n)
  BY DEF ClosePerp, d
<1> QED BY <1>2, <1>4, <1>5 DEF Moves, Balance

LEMMA DepositYieldMoves ==
  ASSUME NEW P, NEW l, IsLedger(l, P), NEW k \in YieldKeys, NEW n \in Int
  PROVE  Moves(l, DepositYield(l, k, n), k.chain, k.asset, -n)
<1> DEFINE d == Debit(l, k.chain, k.asset, n)
<1>1. k.chain \in Venues /\ k.asset \in Assets
  BY DEF YieldKeys
<1>2. IsLedger(d, P) /\ Moves(l, d, k.chain, k.asset, -n)
  BY <1>1, DebitType, DebitMoves
<1>3. PICK y : DepositYield(l, k, n) = [d EXCEPT !.yields = y]
  BY DEF DepositYield
<1>4. [d EXCEPT !.yields = y].balances = d.balances
  BY <1>2 DEF IsLedger
<1>5. [d EXCEPT !.yields = y].reservations = d.reservations
  BY <1>2 DEF IsLedger
<1> HIDE DEF d
<1> QED BY <1>2, <1>3, <1>4, <1>5 DEF Moves, Balance

LEMMA WithdrawYieldMoves ==
  ASSUME NEW P, NEW l, IsLedger(l, P), NEW k \in DOMAIN l.yields, NEW n \in Int
  PROVE  Moves(l, WithdrawYield(l, k, n), k.chain, k.asset, n)
<1>1. k.chain \in Venues /\ k.asset \in Assets
  BY DEF YieldKeys, IsLedger
<1> DEFINE part == Lesser(n, l.yields[k].accrued)
           y == [principal |-> l.yields[k].principal - (n - part),
                 accrued |-> l.yields[k].accrued - part]
           rest == IF y.principal + y.accrued = 0 THEN Drop(l.yields, k)
                   ELSE Put(l.yields, k, y)
           d == [l EXCEPT !.yields = rest]
<1>2. WithdrawYield(l, k, n) = Credit(d, k.chain, k.asset, n)
  BY DEF WithdrawYield
<1>3. y \in [principal : Int, accrued : Int] /\ k \in YieldKeys
  BY DEF Lesser, IsLedger
<1> HIDE DEF y
<1>4. IsLedger(d, P)
  BY <1>3, PutYieldType, DropYieldType
<1> HIDE DEF rest
<1>5. d.balances = l.balances /\ d.reservations = l.reservations
  BY DEF IsLedger
<1> HIDE DEF d
<1>6. Moves(d, Credit(d, k.chain, k.asset, n), k.chain, k.asset, n)
  BY <1>1, <1>4, CreditMoves
<1> QED BY <1>2, <1>5, <1>6 DEF Moves, Balance

----------------------------------------------------------------------------
(* Each operation keeps the ledger covered.                                 *)

\* Money that comes in, and money that goes out of what is available.
LEMMA CoveredAfterMove ==
  ASSUME NEW P, NEW l, IsLedger(l, P), Covered(l), NEW m, IsLedger(m, P),
         NEW v \in Venues, NEW a \in Assets, NEW n \in Int, Moves(l, m, v, a, n),
         n >= 0 \/ AllowNegative \/ -n <= Available(l, v, a)
  PROVE  Covered(m)
<1> SUFFICES ASSUME NEW w \in Venues, NEW b \in Assets
             PROVE  /\ IsFiniteSet(EarmarkedUnits(m, w, b))
                    /\ ~AllowNegative => Reserved(m, w, b) <= Balance(m, w, b)
  BY DEF Covered
<1>1. EarmarkedUnits(m, w, b) = EarmarkedUnits(l, w, b)
  BY UnitsUnchanged DEF Moves
<1>2. IsFiniteSet(EarmarkedUnits(l, w, b)) /\ Reserved(m, w, b) = Reserved(l, w, b)
  BY <1>1 DEF Covered, Reserved
<1>3. Reserved(l, w, b) \in Nat /\ Balance(l, w, b) \in Int /\ Balance(l, v, a) \in Int
  BY <1>2, ReservedType DEF Balance, IsLedger, Accounts
<1>4. Balance(m, w, b) = Balance(l, w, b) + (IF w = v /\ b = a THEN n ELSE 0)
  BY DEF Moves
<1>5. ~AllowNegative => Reserved(l, w, b) <= Balance(l, w, b)
  BY DEF Covered
<1>6. CASE w = v /\ b = a
  <2>1. Reserved(l, v, a) = Reserved(l, w, b) /\ Balance(l, v, a) = Balance(l, w, b)
    BY <1>6
  <2> QED BY <1>1, <1>2, <1>3, <1>4, <1>5, <1>6, <2>1 DEF Available
<1>7. CASE ~(w = v /\ b = a)
  BY <1>1, <1>2, <1>3, <1>4, <1>5, <1>7
<1> QED BY <1>6, <1>7

LEMMA CoveredAfterReserve ==
  ASSUME NEW P, NEW l, IsLedger(l, P), Covered(l), NEW o \in OrderIds,
         NEW v \in Venues, NEW a \in Assets, NEW n \in Int, CanReserve(l, v, a, n)
  PROVE  Covered(Reserve(l, o, v, a, n))
<1> DEFINE m == Reserve(l, o, v, a, n)
<1> SUFFICES ASSUME NEW w \in Venues, NEW b \in Assets
             PROVE  /\ IsFiniteSet(EarmarkedUnits(m, w, b))
                    /\ ~AllowNegative => Reserved(m, w, b) <= Balance(m, w, b)
  BY DEF Covered
<1>1. n \in Nat
  BY DEF CanReserve
<1>2. m.balances = l.balances
  BY DEF Reserve, IsLedger
<1>3. Balance(m, w, b) = Balance(l, w, b) /\ Balance(l, w, b) \in Int
  BY <1>2 DEF Balance, IsLedger, Accounts
<1>4. IsFiniteSet(EarmarkedUnits(l, w, b))
  BY DEF Covered
<1>5. /\ IsFiniteSet(EarmarkedUnits(m, w, b))
      /\ Reserved(m, w, b) =
           Reserved(l, w, b) - HeldBy(l, o, w, b) + (IF v = w /\ a = b THEN n ELSE 0)
  BY <1>1, <1>4, ReservedAfterReserve
<1>6. Reserved(l, w, b) \in Nat /\ HeldBy(l, o, w, b) \in Nat
  BY <1>4, ReservedType, HeldByCount
<1>7. ~AllowNegative => Reserved(l, w, b) <= Balance(l, w, b)
  BY DEF Covered
<1>8. ~AllowNegative => n <= Available(l, v, a)
  BY DEF CanReserve
<1> HIDE DEF m
<1>9. CASE v = w /\ a = b
  <2>1. ~AllowNegative => n <= Balance(l, w, b) - Reserved(l, w, b)
    BY <1>8, <1>9 DEF Available
  <2> QED BY <1>1, <1>3, <1>5, <1>6, <1>9, <2>1
<1>10. CASE ~(v = w /\ a = b)
  BY <1>3, <1>5, <1>6, <1>7, <1>10
<1> QED BY <1>9, <1>10

LEMMA CoveredAfterRelease ==
  ASSUME NEW P, NEW l, IsLedger(l, P), Covered(l), NEW o
  PROVE  Covered(Release(l, o))
<1> DEFINE m == Release(l, o)
<1> SUFFICES ASSUME NEW w \in Venues, NEW b \in Assets
             PROVE  /\ IsFiniteSet(EarmarkedUnits(m, w, b))
                    /\ ~AllowNegative => Reserved(m, w, b) <= Balance(m, w, b)
  BY DEF Covered
<1>1. m.balances = l.balances
  BY DEF Release, IsLedger
<1>2. Balance(m, w, b) = Balance(l, w, b) /\ Balance(l, w, b) \in Int
  BY <1>1 DEF Balance, IsLedger, Accounts
<1>3. IsFiniteSet(EarmarkedUnits(l, w, b))
  BY DEF Covered
<1>4. /\ IsFiniteSet(EarmarkedUnits(m, w, b))
      /\ Reserved(m, w, b) = Reserved(l, w, b) - HeldBy(l, o, w, b)
  BY <1>3, ReservedAfterRelease
<1>5. Reserved(l, w, b) \in Nat /\ HeldBy(l, o, w, b) \in Nat
  BY <1>3, ReservedType, HeldByCount
<1>6. ~AllowNegative => Reserved(l, w, b) <= Balance(l, w, b)
  BY DEF Covered
<1> HIDE DEF m
<1> QED BY <1>2, <1>4, <1>5, <1>6

LEMMA CoveredInitially ==
  ASSUME NEW initial \in [Accounts -> Nat]
  PROVE  Covered(EmptyLedger(initial))
<1> DEFINE m == EmptyLedger(initial)
<1> SUFFICES ASSUME NEW w \in Venues, NEW b \in Assets
             PROVE  /\ IsFiniteSet(EarmarkedUnits(m, w, b))
                    /\ ~AllowNegative => Reserved(m, w, b) <= Balance(m, w, b)
  BY DEF Covered
<1>1. EarmarkedUnits(m, w, b) = {}
  <2>1. DOMAIN m.reservations = {}
    BY DEF EmptyLedger
  <2>2. Holders(m, w, b) = {}
    BY <2>1 DEF Holders
  <2> QED BY <2>2, UnitShape
<1>2. Balance(m, w, b) \in Nat
  BY DEF EmptyLedger, Balance, Accounts
<1> QED BY <1>1, <1>2, FS_EmptySet DEF Reserved

LEMMA AvailableType ==
  ASSUME NEW P, NEW l, IsLedger(l, P), Covered(l), NEW v \in Venues, NEW a \in Assets
  PROVE  /\ Balance(l, v, a) \in Int
         /\ Reserved(l, v, a) \in Nat
         /\ Available(l, v, a) \in Int
         /\ ~AllowNegative => Available(l, v, a) \in Nat
<1>1. Balance(l, v, a) \in Int
  BY DEF Balance, IsLedger, Accounts
<1>2. Reserved(l, v, a) \in Nat
  BY ReservedType DEF Covered
<1>3. ~AllowNegative => Reserved(l, v, a) <= Balance(l, v, a)
  BY DEF Covered
<1> QED BY <1>1, <1>2, <1>3 DEF Available
=============================================================================
