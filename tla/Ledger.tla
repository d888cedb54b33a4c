------------------------------- MODULE Ledger -------------------------------
(***************************************************************************)
(* The portfolio ledger as a state machine: its callers may apply any      *)
(* operation of LedgerOps, in any order and with any arguments, negative   *)
(* amounts included.  An operation the code refuses leaves the ledger as   *)
(* it was and is therefore no step here.                                   *)
(***************************************************************************)
EXTENDS LedgerOps

CONSTANTS
  InitialAmounts,   \* starting balances, non-negative (initial_ledger in engine.rs)
  Amounts,          \* the amounts callers pass, of either sign
  Interests,        \* the interest amounts accrued
  Positions,        \* the perp positions callers record
  BalanceBound      \* model bound on balances, yield positions and interest

ASSUME LedgerMachineAssumption ==
  /\ InitialAmounts \subseteq Nat
  /\ Amounts \subseteq Int
  /\ Interests \subseteq Nat
  /\ Positions \subseteq [margin : Nat]
  /\ BalanceBound \in Nat

VARIABLE ledger

Init == \E initial \in [Accounts -> InitialAmounts] : ledger = EmptyLedger(initial)

\* The bound is on the model, not in the code.
WithinBound(l) ==
  /\ \A acct \in Accounts : l.balances[acct] \in -BalanceBound .. BalanceBound
  /\ \A k \in DOMAIN l.yields : YieldValue(l, k) <= BalanceBound
  /\ l.interest <= BalanceBound

Become(l) == WithinBound(l) /\ ledger' = l

DoReserve(o, v, a, n) == CanReserve(ledger, v, a, n) /\ Become(Reserve(ledger, o, v, a, n))

\* Releasing an order that holds nothing changes nothing.
DoRelease(o) == o \in DOMAIN ledger.reservations /\ Become(Release(ledger, o))

DoCredit(v, a, n) == CanCredit(n) /\ Become(Credit(ledger, v, a, n))

DoDebit(v, a, n) == CanDebit(ledger, v, a, n) /\ Become(Debit(ledger, v, a, n))

DoOpenPerp(k, p) == CanOpenPerp(ledger, k, p) /\ Become(OpenPerp(ledger, k, p))

DoSetPerp(k, p) == Become(SetPerp(ledger, k, p))

DoClosePerp(k, n) == CanClosePerp(ledger, k, n) /\ Become(ClosePerp(ledger, k, n))

DoDepositYield(k, n) == CanDepositYield(ledger, k, n) /\ Become(DepositYield(ledger, k, n))

DoAccrueYield(k, n) == CanAccrueYield(ledger, k) /\ Become(AccrueYield(ledger, k, n, n))

DoWithdrawYield(k, n) == CanWithdrawYield(ledger, k, n) /\ Become(WithdrawYield(ledger, k, n))

Next ==
  \/ \E o \in OrderIds, v \in Venues, a \in Assets, n \in Amounts : DoReserve(o, v, a, n)
  \/ \E o \in OrderIds : DoRelease(o)
  \/ \E v \in Venues, a \in Assets, n \in Amounts : DoCredit(v, a, n) \/ DoDebit(v, a, n)
  \/ \E k \in PerpKeys, p \in Positions : DoOpenPerp(k, p) \/ DoSetPerp(k, p)
  \/ \E k \in PerpKeys, n \in Amounts : DoClosePerp(k, n)
  \/ \E k \in YieldKeys, n \in Amounts : DoDepositYield(k, n) \/ DoWithdrawYield(k, n)
  \/ \E k \in YieldKeys, n \in Interests : DoAccrueYield(k, n)

Spec == Init /\ [][Next]_ledger

----------------------------------------------------------------------------
(* Types.                                                                   *)

\* Type invariant: the ledger is a record of the shape `struct Ledger` has, and
\* no reservation is for a negative amount, under either overdraw policy.
TypeOK == IsLedger(ledger, Positions)

----------------------------------------------------------------------------
(* Safety.                                                                  *)

\* The promise of reservations (lib.rs, `reserve` and `debit`): under the strict
\* policy what resting orders have earmarked on an account never exceeds what
\* the account holds, so earmarked cash cannot be spent twice and, with nothing
\* earmarked, a balance is never overdrawn.
NoOvercommit ==
  ~AllowNegative =>
    \A v \in Venues, a \in Assets : Reserved(ledger, v, a) <= Balance(ledger, v, a)

\* The draw-down of withdraw_yield never takes more principal than was deposited
\* nor more interest than was earned, whatever deposits, accruals and partial
\* withdrawals came before.
YieldsSolvent ==
  \A k \in DOMAIN ledger.yields :
    ledger.yields[k].principal >= 0 /\ ledger.yields[k].accrued >= 0

\* What the account and the position of a yield key hold together.
CashAndYield(l, k) == Balance(l, k.chain, k.asset) + YieldValue(l, k)

\* Moving money between cash and a yield position, or withdrawing part of one,
\* neither creates nor destroys any of the asset, reaches no other account, yield
\* position or perp, and splits what is left so that neither part is owed
\* (deposit_yield and withdraw_yield, whose emptied positions are removed from
\* the map).
YieldMovesConserve ==
  [][\A k \in YieldKeys, n \in Amounts :
       DoDepositYield(k, n) \/ DoWithdrawYield(k, n) =>
         /\ CashAndYield(ledger', k) = CashAndYield(ledger, k)
         /\ \A acct \in Accounts \ {<<k.chain, k.asset>>} : ledger'.balances[acct] = ledger.balances[acct]
         /\ \A j \in YieldKeys \ {k} : YieldValue(ledger', j) = YieldValue(ledger, j)
         /\ ledger'.perps = ledger.perps
         /\ YieldsSolvent']_ledger

----------------------------------------------------------------------------
(* The ledger implements the abstract escrow: available is what is free and  *)
(* the reservations are what is held.                                        *)

FreeMoney(l) == [acct \in Accounts |-> Available(l, acct[1], acct[2])]

E == INSTANCE Escrow WITH
       free <- FreeMoney(ledger),
       held <- ledger.reservations,
       Amounts <- (Amounts \cup {p.margin : p \in Positions}) \cap Nat

\* Under the strict policy every operation of the ledger is a hold, a give-back,
\* a deposit, a spend of free money, or leaves free and held money alone.
ImplementsEscrow == E!Spec
=============================================================================
