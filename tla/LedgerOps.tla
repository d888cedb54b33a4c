----------------------------- MODULE LedgerOps -----------------------------
(***************************************************************************)
(* The portfolio ledger's data and its operations, as operators on a       *)
(* ledger record (src/crates/portfolio-ledger/src/lib.rs, struct Ledger).  *)
(* An operation that can fail in the code is a guard CanX, the condition   *)
(* under which the code returns Ok, and an update X, the ledger it leaves. *)
(* When CanX is false the code returns Err and the ledger is unchanged.    *)
(*                                                                         *)
(* A definition Foo_Suffix is Foo with a plausible fault: replacing Foo by *)
(* it shows that a property can fail.                                      *)
(*                                                                         *)
(* Amounts are integers in the smallest unit: the code's Decimal is exact  *)
(* on the additions and comparisons made here.                             *)
(***************************************************************************)
EXTENDS Integers, FiniteSets

CONSTANTS
  Venues,         \* venues and chains, the first key of a balance
  Assets,         \* asset symbols, the second key of a balance
  Symbols,        \* perp symbols; a perp is keyed (venue, symbol)
  Pools,          \* (protocol, pool) pairs of yield positions
  OrderIds,       \* ids of resting and deferred orders
  USDC,           \* the collateral asset of every perp
  AllowNegative   \* the insufficient_balance = allow_negative policy

ASSUME LedgerAssumption ==
  /\ USDC \in Assets
  /\ AllowNegative \in BOOLEAN

Accounts == Venues \X Assets
PerpKeys == Venues \X Symbols
YieldKeys == [chain : Venues, asset : Assets, pool : Pools]

Reservation == [venue : Venues, asset : Assets, amount : Nat]

\* BTreeMap::insert and BTreeMap::remove on a partial function.
Put(f, k, v) == [x \in DOMAIN f \cup {k} |-> IF x = k THEN v ELSE f[x]]
Drop(f, k) == [x \in DOMAIN f \ {k} |-> f[x]]

Lesser(m, n) == IF m <= n THEN m ELSE n
Greater(m, n) == IF m >= n THEN m ELSE n

\* l has the fields of `struct Ledger`, with perp positions drawn from a given
\* set; the maps are functions on part of their keys.
IsLedger(l, positions) ==
  /\ l \in [balances : [Accounts -> Int],
            perps : [DOMAIN l.perps -> positions],
            yields : [DOMAIN l.yields -> [principal : Int, accrued : Int]],
            reservations : [DOMAIN l.reservations -> Reservation],
            fees : Int, gas : Int, funding : Int, interest : Int]
  /\ DOMAIN l.perps \subseteq PerpKeys
  /\ DOMAIN l.yields \subseteq YieldKeys
  /\ DOMAIN l.reservations \subseteq OrderIds

----------------------------------------------------------------------------
(* Balances and reservations.                                              *)

EmptyLedger(initial) ==
  [balances |-> initial, perps |-> <<>>, yields |-> <<>>, reservations |-> <<>>,
   fees |-> 0, gas |-> 0, funding |-> 0, interest |-> 0]

Balance(l, v, a) == l.balances[<<v, a>>]

\* The orders whose reservation is on (v, a).
Holders(l, v, a) ==
  {o \in DOMAIN l.reservations :
     l.reservations[o].venue = v /\ l.reservations[o].asset = a}

\* `reserved` sums the amounts of the reservations on (v, a). The sum is taken
\* here by counting: a reservation of n is n earmarked units of its order.
EarmarkedUnits(l, v, a) ==
  UNION {{o} \X (1 .. l.reservations[o].amount) : o \in Holders(l, v, a)}

Reserved(l, v, a) == Cardinality(EarmarkedUnits(l, v, a))

Available(l, v, a) == Balance(l, v, a) - Reserved(l, v, a)

CanReserve_Unsigned(l, v, a, n) == AllowNegative \/ n <= Available(l, v, a)

CanReserve(l, v, a, n) ==
  /\ n >= 0
  /\ AllowNegative \/ n <= Available(l, v, a)

Reserve(l, o, v, a, n) ==
  [l EXCEPT !.reservations = Put(@, o, [venue |-> v, asset |-> a, amount |-> n])]

Release(l, o) == [l EXCEPT !.reservations = Drop(@, o)]

CanCredit(n) == n >= 0

Credit(l, v, a, n) == [l EXCEPT !.balances[<<v, a>>] = @ + n]

CanDebit_RawBalance(l, v, a, n) ==
  /\ n >= 0
  /\ AllowNegative \/ n <= Balance(l, v, a)

CanDebit(l, v, a, n) ==
  /\ n >= 0
  /\ AllowNegative \/ n <= Available(l, v, a)

Debit(l, v, a, n) == [l EXCEPT !.balances[<<v, a>>] = @ - n]

----------------------------------------------------------------------------
(* Perp positions. A position keeps its side, its size, its margin, and its *)
(* cost = size * entry_price, which stays an integer where the entry price  *)
(* of merged positions would not.                                           *)

CanOpenPerp(l, k, p) == CanDebit(l, k[1], USDC, p.margin)

SetPerp(l, k, p) == [l EXCEPT !.perps = Put(@, k, p)]

OpenPerp(l, k, p) == SetPerp(Debit(l, k[1], USDC, p.margin), k, p)

CanClosePerp(l, k, settlement) ==
  /\ settlement >= 0
  /\ k \in DOMAIN l.perps

ClosePerp(l, k, settlement) ==
  Credit([l EXCEPT !.perps = Drop(@, k)], k[1], USDC, settlement)

----------------------------------------------------------------------------
(* Yield positions.                                                         *)

YieldValue(l, k) ==
  IF k \in DOMAIN l.yields THEN l.yields[k].principal + l.yields[k].accrued ELSE 0

CanDepositYield_RawBalance(l, k, n) ==
  n >= 0 /\ n <= Balance(l, k.chain, k.asset)

CanDepositYield(l, k, n) == CanDebit(l, k.chain, k.asset, n)

DepositYield(l, k, n) ==
  LET debited == Debit(l, k.chain, k.asset, n)
      position == IF k \in DOMAIN l.yields
                  THEN [l.yields[k] EXCEPT !.principal = @ + n]
                  ELSE [principal |-> n, accrued |-> 0]
  IN  [debited EXCEPT !.yields = Put(@, k, position)]

CanAccrueYield(l, k) == k \in DOMAIN l.yields

AccrueYield(l, k, n, usd) ==
  [l EXCEPT !.yields[k].accrued = @ + n, !.interest = @ + usd]

CanWithdrawYield(l, k, n) ==
  /\ n >= 0
  /\ k \in DOMAIN l.yields
  /\ n <= YieldValue(l, k)

WithdrawYield_PrincipalOnly(l, k, n) ==
  LET drawn == [l.yields[k] EXCEPT !.principal = @ - n]
      rest == IF drawn.principal + drawn.accrued = 0
              THEN Drop(l.yields, k)
              ELSE Put(l.yields, k, drawn)
  IN  Credit([l EXCEPT !.yields = rest], k.chain, k.asset, n)

WithdrawYield_DropsPosition(l, k, n) ==
  Credit([l EXCEPT !.yields = Drop(@, k)], k.chain, k.asset, n)

\* Accrued interest is drawn down first, then principal; an emptied position
\* is removed.
WithdrawYield(l, k, n) ==
  LET fromAccrued == Lesser(n, l.yields[k].accrued)
      drawn == [principal |-> l.yields[k].principal - (n - fromAccrued),
                accrued |-> l.yields[k].accrued - fromAccrued]
      rest == IF drawn.principal + drawn.accrued = 0
              THEN Drop(l.yields, k)
              ELSE Put(l.yields, k, drawn)
  IN  Credit([l EXCEPT !.yields = rest], k.chain, k.asset, n)

----------------------------------------------------------------------------
(* Cost accumulators; balance movement is separate.                         *)

RecordFee(l, usd) == [l EXCEPT !.fees = @ + usd]
RecordGas(l, usd) == [l EXCEPT !.gas = @ + usd]
RecordFunding(l, usd) == [l EXCEPT !.funding = @ + usd]
=============================================================================
