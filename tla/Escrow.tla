------------------------------- MODULE Escrow -------------------------------
(***************************************************************************)
(* What the ledger's reservations promise, without saying how: every       *)
(* account splits into money that is free and money that is held for an    *)
(* order.  A hold moves money from free to held, giving it back moves it   *)
(* the other way, and nothing but giving it back takes money out of a      *)
(* hold.  Only free money can be spent, so free money is never negative.   *)
(***************************************************************************)
EXTENDS Integers

CONSTANTS Accounts, OrderIds, Amounts

VARIABLES
  free,   \* spendable money per account
  held    \* order id -> [venue, asset, amount], for the orders that hold money

vars == <<free, held>>

AccountOf(o) == <<held[o].venue, held[o].asset>>

\* Free money once the hold of o, if it has one, is given back.
FreeWithout(o) ==
  IF o \in DOMAIN held
  THEN [free EXCEPT ![AccountOf(o)] = @ + held[o].amount]
  ELSE free

Init ==
  /\ free \in [Accounts -> Nat]
  /\ held = <<>>

\* A second hold of the same order replaces the first, but must be covered by
\* the money that is free while the first is still in place.
Hold(o, acct, n) ==
  /\ n <= free[acct]
  /\ free' = [FreeWithout(o) EXCEPT ![acct] = @ - n]
  /\ held' = [x \in DOMAIN held \cup {o} |->
                IF x = o THEN [venue |-> acct[1], asset |-> acct[2], amount |-> n]
                ELSE held[x]]

GiveBack(o) ==
  /\ o \in DOMAIN held
  /\ free' = FreeWithout(o)
  /\ held' = [x \in DOMAIN held \ {o} |-> held[x]]

Deposit(acct, n) ==
  /\ free' = [free EXCEPT ![acct] = @ + n]
  /\ UNCHANGED held

Spend(acct, n) ==
  /\ n <= free[acct]
  /\ free' = [free EXCEPT ![acct] = @ - n]
  /\ UNCHANGED held

Next ==
  \/ \E o \in OrderIds, acct \in Accounts, n \in Amounts : Hold(o, acct, n)
  \/ \E o \in OrderIds : GiveBack(o)
  \/ \E acct \in Accounts, n \in Amounts : Deposit(acct, n) \/ Spend(acct, n)

Spec == Init /\ [][Next]_vars
=============================================================================
