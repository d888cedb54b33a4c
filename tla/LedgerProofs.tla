---------------------------- MODULE LedgerProofs ----------------------------
(***************************************************************************)
(* Proofs about the ledger machine, from what its operations do to a       *)
(* ledger (LedgerOpsProofs).                                               *)
(***************************************************************************)
EXTENDS Ledger, LedgerOpsProofs

IsL(l) == IsLedger(l, Positions)

USE DEF IsL

----------------------------------------------------------------------------
(* Every operation keeps the shape of the ledger.                           *)

\* The step relation keeps the shape of the ledger.
LEMMA NextType ==
  ASSUME TypeOK, Next
  PROVE  TypeOK'
<1> USE LedgerMachineAssumption
<1> SUFFICES IsL(ledger')
  BY DEF TypeOK
<1>0. IsL(ledger)
  BY DEF TypeOK
<1>1. ASSUME NEW o \in OrderIds, NEW v \in Venues, NEW a \in Assets, NEW n \in Amounts,
             DoReserve(o, v, a, n)
      PROVE  IsL(ledger')
  BY <1>0, <1>1, ReserveType DEF DoReserve, CanReserve, Become
<1>2. ASSUME NEW o \in OrderIds, DoRelease(o) PROVE IsL(ledger')
  BY <1>0, <1>2, ReleaseType DEF DoRelease, Become
<1>3. ASSUME NEW v \in Venues, NEW a \in Assets, NEW n \in Amounts,
             DoCredit(v, a, n) \/ DoDebit(v, a, n)
      PROVE  IsL(ledger')
  BY <1>0, <1>3, CreditType, DebitType DEF DoCredit, DoDebit, Become
<1>4. ASSUME NEW k \in PerpKeys, NEW p \in Positions, DoOpenPerp(k, p) \/ DoSetPerp(k, p)
      PROVE  IsL(ledger')
  BY <1>0, <1>4, OpenPerpType, SetPerpType DEF DoOpenPerp, DoSetPerp, Become
<1>5. ASSUME NEW k \in PerpKeys, NEW n \in Amounts, DoClosePerp(k, n) PROVE IsL(ledger')
  BY <1>0, <1>5, ClosePerpType DEF DoClosePerp, Become
<1>6. ASSUME NEW k \in YieldKeys, NEW n \in Amounts,
             DoDepositYield(k, n) \/ DoWithdrawYield(k, n)
      PROVE  IsL(ledger')
  BY <1>0, <1>6, DepositYieldType, WithdrawYieldType
     DEF DoDepositYield, DoWithdrawYield, CanWithdrawYield, Become
<1>7. ASSUME NEW k \in YieldKeys, NEW n \in Interests, DoAccrueYield(k, n)
      PROVE  IsL(ledger')
  BY <1>0, <1>7, AccrueYieldType DEF DoAccrueYield, CanAccrueYield, Become
<1> QED BY <1>1, <1>2, <1>3, <1>4, <1>5, <1>6, <1>7 DEF Next

\* Whatever operations its callers apply, with whatever amounts, the ledger
\* keeps its shape and no reservation is negative (portfolio-ledger/src/lib.rs).
THEOREM LedgerTypeCorrect == Spec => []TypeOK
<1>1. Init => TypeOK
  <2> SUFFICES ASSUME NEW initial \in [Accounts -> InitialAmounts]
               PROVE  IsL(EmptyLedger(initial))
    BY DEF Init, TypeOK
  <2>1. initial \in [Accounts -> Int]
    <3>1. \A n \in InitialAmounts : n \in Int
      BY LedgerMachineAssumption
    <3> QED BY <3>1
  <2> QED BY <2>1, EmptyLedgerType
<1>2. TypeOK /\ [Next]_ledger => TypeOK'
  BY NextType DEF TypeOK
<1> QED BY <1>1, <1>2, PTL DEF Spec

----------------------------------------------------------------------------
(* Earmarked cash is never spent.                                           *)

\* The inductive invariant. NoOvercommit alone is not inductive: Reserved is a
\* number only while the earmarked units are finitely many.
IInv == TypeOK /\ Covered(ledger)

LEMMA InitCovered == Init => IInv
<1> SUFFICES ASSUME NEW initial \in [Accounts -> InitialAmounts], ledger = EmptyLedger(initial)
             PROVE  TypeOK /\ Covered(ledger)
  BY DEF Init, IInv
<1>1. \A n \in InitialAmounts : n \in Nat /\ n \in Int
  BY LedgerMachineAssumption
<1>2. initial \in [Accounts -> Nat] /\ initial \in [Accounts -> Int]
  BY <1>1
<1> QED BY <1>2, EmptyLedgerType, CoveredInitially DEF TypeOK

\* One step per operation: it either moves money it may move, or changes the
\* reservations.
LEMMA NextCovered ==
  ASSUME IInv, Next
  PROVE  IInv'
<1> USE LedgerMachineAssumption, LedgerAssumption
<1>0. IsL(ledger) /\ Covered(ledger) /\ IsL(ledger')
  BY NextType DEF IInv, TypeOK
<1> SUFFICES Covered(ledger')
  BY NextType DEF IInv, Covered, Reserved, EarmarkedUnits, Holders, Balance
<1> DEFINE Moved(v, a, n) ==
             /\ v \in Venues /\ a \in Assets /\ n \in Int
             /\ Moves(ledger, ledger', v, a, n)
             /\ n >= 0 \/ AllowNegative \/ -n <= Available(ledger, v, a)
<1>m. ASSUME NEW v, NEW a, NEW n, Moved(v, a, n) PROVE Covered(ledger')
  BY <1>0, <1>m, CoveredAfterMove
<1>1. ASSUME NEW o \in OrderIds, NEW v \in Venues, NEW a \in Assets, NEW n \in Amounts,
             DoReserve(o, v, a, n)
      PROVE  Covered(ledger')
  BY <1>0, <1>1, CoveredAfterReserve DEF DoReserve, Become
<1>2. ASSUME NEW o \in OrderIds, DoRelease(o) PROVE Covered(ledger')
  BY <1>0, <1>2, CoveredAfterRelease DEF DoRelease, Become
<1>3. ASSUME NEW v \in Venues, NEW a \in Assets, NEW n \in Amounts, DoCredit(v, a, n)
      PROVE  Covered(ledger')
  <2>1. Moved(v, a, n)
    BY <1>0, <1>3, CreditMoves DEF DoCredit, CanCredit, Become
  <2> QED BY <2>1, <1>m
<1>4. ASSUME NEW v \in Venues, NEW a \in Assets, NEW n \in Amounts, DoDebit(v, a, n)
      PROVE  Covered(ledger')
  <2>1. Moved(v, a, -n)
    BY <1>0, <1>4, DebitMoves DEF DoDebit, CanDebit, Become
  <2> QED BY <2>1, <1>m
<1>5. ASSUME NEW k \in PerpKeys, NEW p \in Positions, DoOpenPerp(k, p)
      PROVE  Covered(ledger')
  <2>1. k[1] \in Venues /\ p.margin \in Nat
    BY DEF PerpKeys
  <2>2. Moved(k[1], USDC, -p.margin)
    BY <1>0, <1>5, <2>1, OpenPerpMoves DEF DoOpenPerp, CanOpenPerp, CanDebit, Become
  <2> QED BY <2>2, <1>m
<1>6. ASSUME NEW k \in PerpKeys, NEW p \in Positions, DoSetPerp(k, p)
      PROVE  Covered(ledger')
  <2>1. k[1] \in Venues
    BY DEF PerpKeys
  <2>2. Moved(k[1], USDC, 0)
    BY <1>0, <1>6, <2>1, SetPerpMoves DEF DoSetPerp, Become
  <2> QED BY <2>2, <1>m
<1>7. ASSUME NEW k \in PerpKeys, NEW n \in Amounts, DoClosePerp(k, n)
      PROVE  Covered(ledger')
  <2>1. k[1] \in Venues
    BY DEF PerpKeys
  <2>2. Moved(k[1], USDC, n)
    BY <1>0, <1>7, <2>1, ClosePerpMoves DEF DoClosePerp, CanClosePerp, Become
  <2> QED BY <2>2, <1>m
<1>8. ASSUME NEW k \in YieldKeys, NEW n \in Amounts, DoDepositYield(k, n)
      PROVE  Covered(ledger')
  <2>1. k.chain \in Venues /\ k.asset \in Assets
    BY DEF YieldKeys
  <2>2. Moved(k.chain, k.asset, -n)
    BY <1>0, <1>8, <2>1, DepositYieldMoves
       DEF DoDepositYield, CanDepositYield, CanDebit, Become
  <2> QED BY <2>2, <1>m
<1>9. ASSUME NEW k \in YieldKeys, NEW n \in Amounts, DoWithdrawYield(k, n)
      PROVE  Covered(ledger')
  <2>1. k.chain \in Venues /\ k.asset \in Assets
    BY DEF YieldKeys
  <2>2. Moved(k.chain, k.asset, n)
    BY <1>0, <1>9, <2>1, WithdrawYieldMoves
       DEF DoWithdrawYield, CanWithdrawYield, Become
  <2> QED BY <2>2, <1>m
<1>10. ASSUME NEW k \in YieldKeys, NEW n \in Interests, DoAccrueYield(k, n)
       PROVE  Covered(ledger')
  <2>1. k.chain \in Venues /\ k.asset \in Assets
    BY DEF YieldKeys
  <2>2. Moved(k.chain, k.asset, 0)
    BY <1>0, <1>10, <2>1, AccrueYieldMoves DEF DoAccrueYield, Become
  <2> QED BY <2>2, <1>m
<1> HIDE DEF Moved
<1> QED BY <1>1, <1>2, <1>3, <1>4, <1>5, <1>6, <1>7, <1>8, <1>9, <1>10 DEF Next

\* Under the strict policy no sequence of operations spends cash that orders
\* have earmarked, for any venues, assets, orders and amounts: what is reserved
\* on an account never exceeds its balance.
THEOREM EarmarkedNeverSpent == Spec => []NoOvercommit
<1>1. IInv /\ [Next]_ledger => IInv'
  BY NextCovered DEF IInv, TypeOK, Covered, Reserved, EarmarkedUnits, Holders, Balance
<1>2. IInv => NoOvercommit
  BY DEF IInv, Covered, NoOvercommit
<1> QED BY InitCovered, <1>1, <1>2, PTL DEF Spec

----------------------------------------------------------------------------
(* The ledger implements the escrow.                                        *)

\* A function that differs from f by n at one point.
LEMMA OnePoint ==
  ASSUME NEW S, NEW f, NEW g, NEW x \in S, NEW n \in Int,
         f = [y \in S |-> f[y]], g = [y \in S |-> g[y]],
         \A y \in S : f[y] \in Int /\ g[y] = f[y] + (IF y = x THEN n ELSE 0)
  PROVE  g = [f EXCEPT ![x] = @ + n]
<1>1. [f EXCEPT ![x] = @ + n] = [y \in S |-> IF y = x THEN f[x] + n ELSE f[y]]
  OBVIOUS
<1>2. \A y \in S : g[y] = IF y = x THEN f[x] + n ELSE f[y]
  OBVIOUS
<1> QED BY <1>1, <1>2

\* Moving n changes the free money of one account by n.
LEMMA FreeAfterMove ==
  ASSUME NEW l, IsL(l), Covered(l), NEW m, IsL(m),
         NEW v \in Venues, NEW a \in Assets, NEW n \in Int, Moves(l, m, v, a, n)
  PROVE  FreeMoney(m) = [FreeMoney(l) EXCEPT ![<<v, a>>] = @ + n]
<1>1. ASSUME NEW w \in Venues, NEW b \in Assets
      PROVE  Available(m, w, b) = Available(l, w, b) + (IF w = v /\ b = a THEN n ELSE 0)
  <2>1. Reserved(m, w, b) = Reserved(l, w, b)
    BY UnitsUnchanged DEF Moves, Reserved
  <2>2. Balance(m, w, b) = Balance(l, w, b) + (IF w = v /\ b = a THEN n ELSE 0)
    BY DEF Moves
  <2> QED BY <2>1, <2>2, AvailableType DEF Available
<1>2. \A acct \in Accounts : /\ acct = <<acct[1], acct[2]>>
                             /\ acct[1] \in Venues /\ acct[2] \in Assets
  BY DEF Accounts
<1>3. <<v, a>> \in Accounts
  BY DEF Accounts
<1>4. \A acct \in Accounts :
        FreeMoney(m)[acct] = FreeMoney(l)[acct] + (IF acct = <<v, a>> THEN n ELSE 0)
  BY <1>1, <1>2 DEF FreeMoney
<1>5. \A acct \in Accounts : FreeMoney(l)[acct] \in Int
  BY <1>2, AvailableType DEF FreeMoney
<1>6. /\ FreeMoney(l) = [acct \in Accounts |-> FreeMoney(l)[acct]]
      /\ FreeMoney(m) = [acct \in Accounts |-> FreeMoney(m)[acct]]
  BY DEF FreeMoney
<1> DEFINE f == FreeMoney(l)
           g == FreeMoney(m)
           x == <<v, a>>
<1>7. \A y \in Accounts : f[y] \in Int /\ g[y] = f[y] + (IF y = x THEN n ELSE 0)
  BY <1>4, <1>5
<1> HIDE DEF f, g, x
<1>8. g = [f EXCEPT ![x] = @ + n]
  BY <1>6, <1>7, OnePoint DEF f, g
<1> QED BY <1>8 DEF f, g, x

\* What a change of the reservations does to the free money of an account.
LEMMA FreeAfterRelease ==
  ASSUME NEW l, IsL(l), Covered(l), NEW o \in DOMAIN l.reservations
  PROVE  LET r == l.reservations[o]
         IN  FreeMoney(Release(l, o)) =
               [FreeMoney(l) EXCEPT ![<<r.venue, r.asset>>] = @ + r.amount]
<1> DEFINE r == l.reservations[o]
           m == Release(l, o)
<1>1. r \in Reservation
  BY DEF IsLedger
<1>2. ASSUME NEW w \in Venues, NEW b \in Assets
      PROVE  Available(m, w, b) =
               Available(l, w, b) + (IF w = r.venue /\ b = r.asset THEN r.amount ELSE 0)
  <2>1. m.balances = l.balances
    BY DEF Release, IsLedger
  <2>2. Reserved(m, w, b) = Reserved(l, w, b) - HeldBy(l, o, w, b)
    BY ReservedAfterRelease DEF Covered
  <2>3. HeldBy(l, o, w, b) = IF w = r.venue /\ b = r.asset THEN r.amount ELSE 0
    BY DEF HeldBy, Holders
  <2>4. HeldBy(l, o, w, b) \in Nat
    BY HeldByCount
  <2> HIDE DEF r, m
  <2> QED BY <2>1, <2>2, <2>3, <2>4, AvailableType DEF Available, Balance
<1>3. \A acct \in Accounts : /\ acct = <<acct[1], acct[2]>>
                             /\ acct[1] \in Venues /\ acct[2] \in Assets
  BY DEF Accounts
<1>4. <<r.venue, r.asset>> \in Accounts /\ r.amount \in Nat
  BY <1>1 DEF Accounts, Reservation
<1>5. \A acct \in Accounts :
        FreeMoney(m)[acct] =
          FreeMoney(l)[acct] + (IF acct = <<r.venue, r.asset>> THEN r.amount ELSE 0)
  BY <1>2, <1>3 DEF FreeMoney
<1>6. \A acct \in Accounts : FreeMoney(l)[acct] \in Int
  BY <1>3, AvailableType DEF FreeMoney
<1> HIDE DEF r, m
<1>7. FreeMoney(m) = [FreeMoney(l) EXCEPT ![<<r.venue, r.asset>>] = @ + r.amount]
  <2> DEFINE f == FreeMoney(l)
             g == FreeMoney(m)
             x == <<r.venue, r.asset>>
             n == r.amount
  <2>1. f = [acct \in Accounts |-> f[acct]] /\ g = [acct \in Accounts |-> g[acct]]
    BY DEF FreeMoney
  <2>2. \A y \in Accounts : f[y] \in Int /\ g[y] = f[y] + (IF y = x THEN n ELSE 0)
    BY <1>5, <1>6
  <2>3. n \in Int
    BY <1>4
  <2> HIDE DEF f, g, x, n
  <2>4. g = [f EXCEPT ![x] = @ + n]
    BY <2>1, <2>2, <2>3, OnePoint
  <2> QED BY <2>4 DEF f, g, x, n
<1> QED BY <1>7 DEF r, m

\* A reservation is a hold: what it takes, and what a reservation it replaces
\* gives back, account for the change of the free money.
LEMMA FreeAfterReserve ==
  ASSUME NEW l, IsL(l), Covered(l), NEW o \in OrderIds,
         NEW v \in Venues, NEW a \in Assets, NEW n \in Nat
  PROVE  FreeMoney(Reserve(l, o, v, a, n)) =
           [(IF o \in DOMAIN l.reservations THEN FreeMoney(Release(l, o)) ELSE FreeMoney(l))
              EXCEPT ![<<v, a>>] = @ - n]
<1> DEFINE m == Reserve(l, o, v, a, n)
           f == IF o \in DOMAIN l.reservations THEN FreeMoney(Release(l, o)) ELSE FreeMoney(l)
<1>1. ASSUME NEW w \in Venues, NEW b \in Assets
      PROVE  /\ Available(m, w, b) =
                  Available(l, w, b) + HeldBy(l, o, w, b) - (IF v = w /\ a = b THEN n ELSE 0)
             /\ f[<<w, b>>] = Available(l, w, b) + HeldBy(l, o, w, b)
             /\ f[<<w, b>>] \in Int
  <2>1. m.balances = l.balances /\ Release(l, o).balances = l.balances
    BY DEF Reserve, Release, IsLedger
  <2>2. Reserved(m, w, b) =
          Reserved(l, w, b) - HeldBy(l, o, w, b) + (IF v = w /\ a = b THEN n ELSE 0)
    BY ReservedAfterReserve DEF Covered
  <2>3. Reserved(Release(l, o), w, b) = Reserved(l, w, b) - HeldBy(l, o, w, b)
    BY ReservedAfterRelease DEF Covered
  <2>4. HeldBy(l, o, w, b) \in Nat
    BY HeldByCount
  <2>5. o \notin DOMAIN l.reservations => HeldBy(l, o, w, b) = 0
    BY DEF HeldBy, Holders
  <2>6. f[<<w, b>>] = IF o \in DOMAIN l.reservations THEN Available(Release(l, o), w, b)
                      ELSE Available(l, w, b)
    BY DEF FreeMoney, Accounts
  <2>7. Available(Release(l, o), w, b) = Available(l, w, b) + HeldBy(l, o, w, b)
    BY <2>1, <2>3, <2>4, AvailableType DEF Available, Balance
  <2>8. Available(m, w, b) =
          Available(l, w, b) + HeldBy(l, o, w, b) - (IF v = w /\ a = b THEN n ELSE 0)
    <3> HIDE DEF m
    <3> QED BY <2>1, <2>2, <2>4, AvailableType DEF Available, Balance
  <2> HIDE DEF f, m
  <2> QED BY <2>4, <2>5, <2>6, <2>7, <2>8, AvailableType
<1>2. \A acct \in Accounts : /\ acct = <<acct[1], acct[2]>>
                             /\ acct[1] \in Venues /\ acct[2] \in Assets
  BY DEF Accounts
<1>3. DOMAIN f = Accounts
  BY DEF FreeMoney
<1> HIDE DEF f, m
<1>4. \A acct \in Accounts :
        FreeMoney(m)[acct] = f[acct] - (IF acct = <<v, a>> THEN n ELSE 0) /\ f[acct] \in Int
  <2> SUFFICES ASSUME NEW acct \in Accounts
               PROVE  /\ FreeMoney(m)[acct] = f[acct] - (IF acct = <<v, a>> THEN n ELSE 0)
                      /\ f[acct] \in Int
    OBVIOUS
  <2>1. FreeMoney(m)[acct] = Available(m, acct[1], acct[2])
    BY DEF FreeMoney
  <2>2. f[<<acct[1], acct[2]>>] = f[acct]
    BY <1>2
  <2>3. acct = <<v, a>> <=> v = acct[1] /\ a = acct[2]
    BY <1>2
  <2>4. HeldBy(l, o, acct[1], acct[2]) \in Nat /\ Available(l, acct[1], acct[2]) \in Int
    BY <1>2, HeldByCount, AvailableType
  <2> QED BY <1>1, <1>2, <2>1, <2>2, <2>3, <2>4
<1>5. FreeMoney(m) = [f EXCEPT ![<<v, a>>] = @ - n]
  <2>1. [f EXCEPT ![<<v, a>>] = @ - n] = [x \in Accounts |-> IF x = <<v, a>> THEN f[<<v, a>>] - n ELSE f[x]]
    BY <1>3
  <2>2. \A acct \in Accounts : FreeMoney(m)[acct] = IF acct = <<v, a>> THEN f[<<v, a>>] - n ELSE f[acct]
    BY <1>4
  <2>3. FreeMoney(m) = [x \in Accounts |-> FreeMoney(m)[x]]
    BY DEF FreeMoney
  <2> QED BY <2>1, <2>2, <2>3
<1> QED BY <1>5 DEF f, m

\* Money that moves is deposited or spent.
LEMMA MoveIsEscrowStep ==
  ASSUME ~AllowNegative, IsL(ledger), Covered(ledger), IsL(ledger'),
         NEW v \in Venues, NEW a \in Assets, NEW n \in Int,
         Moves(ledger, ledger', v, a, n),
         n >= 0 => n \in Amounts \cup {p.margin : p \in Positions},
         n < 0 => -n \in Amounts \cup {p.margin : p \in Positions}
                    /\ -n <= Available(ledger, v, a)
  PROVE  E!Next
<1> DEFINE acct == <<v, a>>
           nats == (Amounts \cup {p.margin : p \in Positions}) \cap Nat
<1>1. acct \in Accounts
  BY DEF Accounts
<1>2. FreeMoney(ledger') = [FreeMoney(ledger) EXCEPT ![acct] = @ + n]
  BY FreeAfterMove
<1>3. FreeMoney(ledger)[acct] = Available(ledger, v, a) /\ FreeMoney(ledger)[acct] \in Int
  BY <1>1, AvailableType DEF FreeMoney
<1>4. UNCHANGED ledger.reservations
  BY DEF Moves
<1>5. CASE n >= 0
  <2>1. n \in nats
    BY <1>5
  <2>2. E!Deposit(acct, n)
    BY <1>2, <1>4 DEF E!Deposit
  <2> QED BY <1>1, <2>1, <2>2 DEF E!Next
<1>6. CASE n < 0
  <2>1. -n \in nats /\ -n <= FreeMoney(ledger)[acct]
    BY <1>3, <1>6
  <2>2. FreeMoney(ledger)[acct] + n = FreeMoney(ledger)[acct] - (-n)
    BY <1>3
  <2>3. FreeMoney(ledger') = [FreeMoney(ledger) EXCEPT ![acct] = @ - (-n)]
    BY <1>2, <2>2
  <2>4. E!Spend(acct, -n)
    BY <1>4, <2>1, <2>3 DEF E!Spend
  <2> QED BY <1>1, <2>1, <2>4 DEF E!Next
<1> QED BY <1>5, <1>6

\* Changing positions or interest alone leaves the escrow alone.
LEMMA StillIsEscrowStutter ==
  ASSUME IsL(ledger), Covered(ledger), IsL(ledger'),
         NEW v \in Venues, NEW a \in Assets, Moves(ledger, ledger', v, a, 0)
  PROVE  UNCHANGED E!vars
<1>1. FreeMoney(ledger') = [FreeMoney(ledger) EXCEPT ![<<v, a>>] = @ + 0]
  BY FreeAfterMove
<1>2. FreeMoney(ledger)[<<v, a>>] \in Int
  BY AvailableType DEF FreeMoney, Accounts
<1>3. FreeMoney(ledger') = FreeMoney(ledger)
  BY <1>1, <1>2 DEF FreeMoney
<1> QED BY <1>3 DEF E!vars, Moves

LEMMA ReserveIsHold ==
  ASSUME ~AllowNegative, IsL(ledger), Covered(ledger), NEW o \in OrderIds,
         NEW v \in Venues, NEW a \in Assets, NEW n \in Amounts, DoReserve(o, v, a, n)
  PROVE  E!Next
<1> DEFINE acct == <<v, a>>
           nats == (Amounts \cup {p.margin : p \in Positions}) \cap Nat
<1>1. acct \in Accounts /\ n \in nats /\ n \in Nat
  BY LedgerMachineAssumption DEF Accounts, DoReserve, CanReserve
<1>2. ledger' = Reserve(ledger, o, v, a, n) /\ n <= Available(ledger, v, a)
  BY DEF DoReserve, CanReserve, Become
<1>3. n <= FreeMoney(ledger)[acct]
  BY <1>1, <1>2 DEF FreeMoney
<1>4. ledger'.reservations =
        [x \in DOMAIN ledger.reservations \cup {o} |->
           IF x = o THEN [venue |-> acct[1], asset |-> acct[2], amount |-> n]
           ELSE ledger.reservations[x]]
  BY <1>2 DEF Reserve, Put, IsLedger
<1>5. E!FreeWithout(o) = IF o \in DOMAIN ledger.reservations
                         THEN FreeMoney(Release(ledger, o)) ELSE FreeMoney(ledger)
  BY FreeAfterRelease DEF E!FreeWithout, E!AccountOf
<1>6. FreeMoney(ledger') = [E!FreeWithout(o) EXCEPT ![acct] = @ - n]
  BY <1>1, <1>2, <1>5, FreeAfterReserve
<1>7. E!Hold(o, acct, n)
  BY <1>3, <1>4, <1>6 DEF E!Hold
<1> QED BY <1>1, <1>7 DEF E!Next

LEMMA ReleaseIsGiveBack ==
  ASSUME IsL(ledger), Covered(ledger), NEW o \in OrderIds, DoRelease(o)
  PROVE  E!Next
<1>1. o \in DOMAIN ledger.reservations /\ ledger' = Release(ledger, o)
  BY DEF DoRelease, Become
<1>2. FreeMoney(ledger') = E!FreeWithout(o)
  BY <1>1, FreeAfterRelease DEF E!FreeWithout, E!AccountOf
<1>3. ledger'.reservations =
        [x \in DOMAIN ledger.reservations \ {o} |-> ledger.reservations[x]]
  BY <1>1 DEF Release, Drop, IsLedger
<1>4. E!GiveBack(o)
  BY <1>1, <1>2, <1>3 DEF E!GiveBack
<1> QED BY <1>4 DEF E!Next

LEMMA InitIsEscrowInit ==
  ASSUME ~AllowNegative, Init
  PROVE  E!Init
<1>1. IsL(ledger) /\ Covered(ledger) /\ ledger.reservations = <<>>
  BY InitCovered DEF IInv, TypeOK, Init, EmptyLedger
<1>2. \A acct \in Accounts : acct[1] \in Venues /\ acct[2] \in Assets
  BY DEF Accounts
<1>3. FreeMoney(ledger) \in [Accounts -> Nat]
  BY <1>1, <1>2, AvailableType DEF FreeMoney
<1> QED BY <1>1, <1>3 DEF E!Init

\* Under the strict policy every step of the ledger is a step of the escrow or
\* changes neither free nor held money.
LEMMA NextIsEscrowStep ==
  ASSUME ~AllowNegative, IInv, Next
  PROVE  E!Next \/ UNCHANGED E!vars
<1> USE LedgerMachineAssumption, LedgerAssumption
<1>0. IsL(ledger) /\ Covered(ledger) /\ IsL(ledger')
  BY NextType DEF IInv, TypeOK
<1> DEFINE margins == {p.margin : p \in Positions}
           Paid(v, a, n) ==
             /\ v \in Venues /\ a \in Assets /\ n \in Int
             /\ Moves(ledger, ledger', v, a, n)
             /\ n >= 0 => n \in Amounts \cup margins
             /\ n < 0 => -n \in Amounts \cup margins /\ -n <= Available(ledger, v, a)
<1>m. ASSUME NEW v, NEW a, NEW n, Paid(v, a, n) PROVE E!Next
  BY <1>0, <1>m, MoveIsEscrowStep
<1>1. ASSUME NEW o \in OrderIds, NEW v \in Venues, NEW a \in Assets, NEW n \in Amounts,
             DoReserve(o, v, a, n)
      PROVE  E!Next
  BY <1>0, <1>1, ReserveIsHold
<1>2. ASSUME NEW o \in OrderIds, DoRelease(o) PROVE E!Next
  BY <1>0, <1>2, ReleaseIsGiveBack
<1>3. ASSUME NEW v \in Venues, NEW a \in Assets, NEW n \in Amounts, DoCredit(v, a, n)
      PROVE  E!Next
  <2>0. ledger' = Credit(ledger, v, a, n) /\ n \in Nat
    BY <1>3 DEF DoCredit, CanCredit, Become
  <2>1. Paid(v, a, n)
    BY <1>0, <2>0, CreditMoves
  <2> QED BY <2>1, <1>m
<1>4. ASSUME NEW v \in Venues, NEW a \in Assets, NEW n \in Amounts, DoDebit(v, a, n)
      PROVE  E!Next
  <2>1. n \in Int /\ n >= 0 /\ n <= Available(ledger, v, a)
    BY <1>4 DEF DoDebit, CanDebit
  <2>2. Moves(ledger, ledger', v, a, -n)
    BY <1>0, <1>4, DebitMoves DEF DoDebit, Become
  <2>3. -(-n) = n /\ (-n >= 0 => -n = n)
    BY <2>1
  <2>4. Paid(v, a, -n)
    BY <2>1, <2>2, <2>3
  <2> QED BY <2>4, <1>m
<1>5. ASSUME NEW k \in PerpKeys, NEW p \in Positions, DoOpenPerp(k, p)
      PROVE  E!Next
  <2>1. k[1] \in Venues /\ p.margin \in Nat /\ p.margin \in margins
    BY DEF PerpKeys
  <2>2. p.margin <= Available(ledger, k[1], USDC)
    BY <1>5 DEF DoOpenPerp, CanOpenPerp, CanDebit
  <2>3. Moves(ledger, ledger', k[1], USDC, -p.margin)
    BY <1>0, <1>5, OpenPerpMoves DEF DoOpenPerp, Become
  <2>4. -(-p.margin) = p.margin /\ (-p.margin >= 0 => -p.margin = p.margin)
    BY <2>1
  <2>5. Paid(k[1], USDC, -p.margin)
    BY <2>1, <2>2, <2>3, <2>4
  <2> QED BY <2>5, <1>m
<1>6. ASSUME NEW k \in PerpKeys, NEW p \in Positions, DoSetPerp(k, p)
      PROVE  UNCHANGED E!vars
  <2>1. k[1] \in Venues
    BY DEF PerpKeys
  <2>2. Moves(ledger, ledger', k[1], USDC, 0)
    BY <1>0, <1>6, SetPerpMoves DEF DoSetPerp, Become
  <2> QED BY <1>0, <2>1, <2>2, StillIsEscrowStutter
<1>7. ASSUME NEW k \in PerpKeys, NEW n \in Amounts, DoClosePerp(k, n)
      PROVE  E!Next
  <2>1. k[1] \in Venues
    BY DEF PerpKeys
  <2>2. Paid(k[1], USDC, n)
    BY <1>0, <1>7, <2>1, ClosePerpMoves DEF DoClosePerp, CanClosePerp, Become
  <2> QED BY <2>2, <1>m
<1>8. ASSUME NEW k \in YieldKeys, NEW n \in Amounts, DoDepositYield(k, n)
      PROVE  E!Next
  <2>1. k.chain \in Venues /\ k.asset \in Assets
    BY DEF YieldKeys
  <2>2. n \in Int /\ n >= 0 /\ n <= Available(ledger, k.chain, k.asset)
    BY <1>8 DEF DoDepositYield, CanDepositYield, CanDebit
  <2>3. Moves(ledger, ledger', k.chain, k.asset, -n)
    BY <1>0, <1>8, DepositYieldMoves DEF DoDepositYield, Become
  <2>4. -(-n) = n /\ (-n >= 0 => -n = n)
    BY <2>2
  <2>5. Paid(k.chain, k.asset, -n)
    BY <2>1, <2>2, <2>3, <2>4
  <2> QED BY <2>5, <1>m
<1>9. ASSUME NEW k \in YieldKeys, NEW n \in Amounts, DoWithdrawYield(k, n)
      PROVE  E!Next
  <2>1. k.chain \in Venues /\ k.asset \in Assets
    BY DEF YieldKeys
  <2>0. ledger' = WithdrawYield(ledger, k, n) /\ n \in Nat /\ k \in DOMAIN ledger.yields
    BY <1>9 DEF DoWithdrawYield, CanWithdrawYield, Become
  <2>2. Paid(k.chain, k.asset, n)
    BY <1>0, <2>0, <2>1, WithdrawYieldMoves
  <2> QED BY <2>2, <1>m
<1>10. ASSUME NEW k \in YieldKeys, NEW n \in Interests, DoAccrueYield(k, n)
       PROVE  UNCHANGED E!vars
  <2>1. k.chain \in Venues /\ k.asset \in Assets
    BY DEF YieldKeys
  <2>2. Moves(ledger, ledger', k.chain, k.asset, 0)
    BY <1>0, <1>10, AccrueYieldMoves DEF DoAccrueYield, Become
  <2> QED BY <1>0, <2>1, <2>2, StillIsEscrowStutter
<1> HIDE DEF Paid
<1> QED BY <1>1, <1>2, <1>3, <1>4, <1>5, <1>6, <1>7, <1>8, <1>9, <1>10 DEF Next

\* Under the strict policy the ledger implements the escrow: what an order has
\* earmarked leaves its hold only when the order is released or re-reserved, and
\* no other operation can spend it.
THEOREM LedgerImplementsEscrow ==
  ASSUME ~AllowNegative
  PROVE  Spec => ImplementsEscrow
<1>1. IInv /\ [Next]_ledger => IInv'
  BY NextCovered DEF IInv, TypeOK, Covered, Reserved, EarmarkedUnits, Holders, Balance
<1>2. Init => E!Init
  BY InitIsEscrowInit
<1>3. IInv /\ [Next]_ledger => [E!Next]_E!vars
  <2>1. UNCHANGED ledger => UNCHANGED E!vars
    BY DEF E!vars, FreeMoney, Available, Balance, Reserved, EarmarkedUnits, Holders
  <2> QED BY <2>1, NextIsEscrowStep
<1> QED BY InitCovered, <1>1, <1>2, <1>3, PTL DEF Spec, ImplementsEscrow, E!Spec

----------------------------------------------------------------------------
(* Yield positions stay solvent.                                            *)

Solvent(f) == \A k \in DOMAIN f : f[k].principal >= 0 /\ f[k].accrued >= 0

LEMMA PutSolvent ==
  ASSUME NEW f, Solvent(f), NEW k, NEW y, y.principal >= 0, y.accrued >= 0
  PROVE  Solvent(Put(f, k, y))
BY DEF Solvent, Put

LEMMA DropSolvent ==
  ASSUME NEW f, Solvent(f), NEW k
  PROVE  Solvent(Drop(f, k))
BY DEF Solvent, Drop

LEMMA DepositSolvent ==
  ASSUME NEW l, IsL(l), Solvent(l.yields), NEW k \in YieldKeys, NEW n \in Nat
  PROVE  Solvent(DepositYield(l, k, n).yields)
<1> DEFINE d == Debit(l, k.chain, k.asset, n)
           y == IF k \in DOMAIN l.yields
                THEN [l.yields[k] EXCEPT !.principal = @ + n]
                ELSE [principal |-> n, accrued |-> 0]
<1>1. k \in DOMAIN l.yields => l.yields[k] \in [principal : Int, accrued : Int]
  BY DEF IsLedger
<1>2. y.principal >= 0 /\ y.accrued >= 0
  BY <1>1 DEF Solvent
<1>3. d.yields = l.yields
  BY DEF Debit, IsLedger
<1>4. IsL(d)
  BY DebitType DEF YieldKeys
<1>5. DepositYield(l, k, n) = [d EXCEPT !.yields = Put(@, k, y)]
  BY DEF DepositYield
<1> HIDE DEF d, y
<1>6. DepositYield(l, k, n).yields = Put(l.yields, k, y)
  BY <1>3, <1>4, <1>5 DEF IsLedger
<1> QED BY <1>2, <1>6, PutSolvent

LEMMA AccrueSolvent ==
  ASSUME NEW l, IsL(l), Solvent(l.yields), NEW k \in DOMAIN l.yields, NEW n \in Nat, NEW usd
  PROVE  Solvent(AccrueYield(l, k, n, usd).yields)
<1>1. l.yields \in [DOMAIN l.yields -> [principal : Int, accrued : Int]]
  BY DEF IsLedger
<1> DEFINE y == [l.yields[k] EXCEPT !.accrued = l.yields[k].accrued + n]
           f == [l.yields EXCEPT ![k] = y]
<1>2. AccrueYield(l, k, n, usd).yields = f
  BY DEF AccrueYield, IsLedger
<1>3. y.principal >= 0 /\ y.accrued >= 0
  BY <1>1 DEF Solvent
<1>4. \A x \in DOMAIN f : f[x] = IF x = k THEN y ELSE l.yields[x]
  BY <1>1
<1>5. DOMAIN f = DOMAIN l.yields
  BY <1>1
<1> HIDE DEF y, f
<1> QED BY <1>2, <1>3, <1>4, <1>5 DEF Solvent

LEMMA WithdrawSolvent ==
  ASSUME NEW l, IsL(l), Solvent(l.yields), NEW k, NEW n \in Int, CanWithdrawYield(l, k, n)
  PROVE  Solvent(WithdrawYield(l, k, n).yields)
<1> DEFINE part == Lesser(n, l.yields[k].accrued)
           y == [principal |-> l.yields[k].principal - (n - part),
                 accrued |-> l.yields[k].accrued - part]
           rest == IF y.principal + y.accrued = 0 THEN Drop(l.yields, k)
                   ELSE Put(l.yields, k, y)
           d == [l EXCEPT !.yields = rest]
<1>1. /\ l.yields[k] \in [principal : Int, accrued : Int]
      /\ k \in DOMAIN l.yields
      /\ 0 <= n /\ n <= l.yields[k].principal + l.yields[k].accrued
  BY DEF CanWithdrawYield, YieldValue, IsLedger
<1>2. y.principal >= 0 /\ y.accrued >= 0
  BY <1>1 DEF Solvent, Lesser
<1>3. WithdrawYield(l, k, n) = Credit(d, k.chain, k.asset, n)
  BY DEF WithdrawYield
<1> HIDE DEF y
<1>4. Solvent(rest)
  BY <1>2, PutSolvent, DropSolvent
<1> HIDE DEF rest
<1>5. d.yields = rest
  BY DEF IsLedger
<1>6. Credit(d, k.chain, k.asset, n).yields = d.yields
  <2>1. d \in [balances : {l.balances}, perps : {l.perps}, yields : {rest},
               reservations : {l.reservations},
               fees : Int, gas : Int, funding : Int, interest : Int]
    BY DEF IsLedger
  <2> HIDE DEF d
  <2> QED BY <2>1 DEF Credit
<1> QED BY <1>3, <1>4, <1>5, <1>6

LEMMA NextSolvent ==
  ASSUME TypeOK, YieldsSolvent, Next
  PROVE  YieldsSolvent'
<1> USE LedgerMachineAssumption, LedgerAssumption
<1>0. IsL(ledger) /\ Solvent(ledger.yields)
  BY DEF TypeOK, YieldsSolvent, Solvent
<1> SUFFICES Solvent(ledger'.yields)
  BY DEF YieldsSolvent, Solvent
<1>1. ASSUME NEW o \in OrderIds, NEW v \in Venues, NEW a \in Assets, NEW n \in Amounts,
             DoReserve(o, v, a, n)
      PROVE  Solvent(ledger'.yields)
  <2>1. ledger'.yields = ledger.yields
    BY <1>0, <1>1 DEF DoReserve, Reserve, Become, IsLedger
  <2> QED BY <1>0, <2>1
<1>2. ASSUME NEW o \in OrderIds, DoRelease(o) PROVE Solvent(ledger'.yields)
  <2>1. ledger'.yields = ledger.yields
    BY <1>0, <1>2 DEF DoRelease, Release, Become, IsLedger
  <2> QED BY <1>0, <2>1
<1>3. ASSUME NEW v \in Venues, NEW a \in Assets, NEW n \in Amounts,
             DoCredit(v, a, n) \/ DoDebit(v, a, n)
      PROVE  Solvent(ledger'.yields)
  <2>1. ledger'.yields = ledger.yields
    BY <1>0, <1>3 DEF DoCredit, DoDebit, Credit, Debit, Become, IsLedger
  <2> QED BY <1>0, <2>1
<1>4. ASSUME NEW k \in PerpKeys, NEW p \in Positions, DoOpenPerp(k, p) \/ DoSetPerp(k, p)
      PROVE  Solvent(ledger'.yields)
  <2>1. ledger'.yields = ledger.yields
    BY <1>0, <1>4
       DEF DoOpenPerp, DoSetPerp, OpenPerp, SetPerp, Debit, Become, IsLedger
  <2> QED BY <1>0, <2>1
<1>5. ASSUME NEW k \in PerpKeys, NEW n \in Amounts, DoClosePerp(k, n)
      PROVE  Solvent(ledger'.yields)
  <2>1. ledger'.yields = ledger.yields
    BY <1>0, <1>5 DEF DoClosePerp, ClosePerp, Credit, Become, IsLedger
  <2> QED BY <1>0, <2>1
<1>6. ASSUME NEW k \in YieldKeys, NEW n \in Amounts, DoDepositYield(k, n)
      PROVE  Solvent(ledger'.yields)
  BY <1>0, <1>6, DepositSolvent DEF DoDepositYield, CanDepositYield, CanDebit, Become
<1>7. ASSUME NEW k \in YieldKeys, NEW n \in Amounts, DoWithdrawYield(k, n)
      PROVE  Solvent(ledger'.yields)
  BY <1>0, <1>7, WithdrawSolvent DEF DoWithdrawYield, Become
<1>8. ASSUME NEW k \in YieldKeys, NEW n \in Interests, DoAccrueYield(k, n)
      PROVE  Solvent(ledger'.yields)
  BY <1>0, <1>8, AccrueSolvent DEF DoAccrueYield, CanAccrueYield, Become
<1> QED BY <1>1, <1>2, <1>3, <1>4, <1>5, <1>6, <1>7, <1>8 DEF Next

\* Whatever deposits, accruals and partial withdrawals came before, a yield
\* position never owes principal that was not deposited nor interest that was
\* not earned, under either overdraw policy (withdraw_yield).
THEOREM YieldsStaySolvent == Spec => []YieldsSolvent
<1>1. Init => YieldsSolvent
  BY DEF Init, EmptyLedger, YieldsSolvent
<1>2. TypeOK /\ YieldsSolvent /\ [Next]_ledger => YieldsSolvent'
  BY NextSolvent DEF YieldsSolvent
<1> QED BY LedgerTypeCorrect, <1>1, <1>2, PTL DEF Spec

----------------------------------------------------------------------------
(* Money that moves between cash and a yield position is kept.              *)

\* A deposit and a withdrawal change the value of one position, by what they move.
LEMMA DepositKeeps ==
  ASSUME NEW l, IsL(l), NEW k \in YieldKeys, NEW n \in Int
  PROVE  LET m == DepositYield(l, k, n)
         IN  /\ YieldValue(m, k) = YieldValue(l, k) + n
             /\ \A j \in YieldKeys \ {k} : YieldValue(m, j) = YieldValue(l, j)
             /\ m.perps = l.perps
<1> DEFINE d == Debit(l, k.chain, k.asset, n)
           y == IF k \in DOMAIN l.yields
                THEN [l.yields[k] EXCEPT !.principal = @ + n]
                ELSE [principal |-> n, accrued |-> 0]
           m == DepositYield(l, k, n)
<1>1. k \in DOMAIN l.yields => l.yields[k] \in [principal : Int, accrued : Int]
  BY DEF IsLedger
<1>2. y.principal + y.accrued = YieldValue(l, k) + n
  BY <1>1 DEF YieldValue
<1>3. d.yields = l.yields /\ d.perps = l.perps
  BY DEF Debit, IsLedger
<1>4. IsL(d)
  BY DebitType DEF YieldKeys
<1>5. m = [d EXCEPT !.yields = Put(@, k, y)]
  BY DEF DepositYield
<1> HIDE DEF d, y, m
<1>6. m.yields = Put(l.yields, k, y) /\ m.perps = l.perps
  BY <1>3, <1>4, <1>5 DEF IsLedger
<1>7. YieldValue(m, k) = y.principal + y.accrued
  BY <1>6 DEF YieldValue, Put
<1>8. ASSUME NEW j \in YieldKeys \ {k} PROVE YieldValue(m, j) = YieldValue(l, j)
  BY <1>6 DEF YieldValue, Put
<1> QED BY <1>2, <1>6, <1>7, <1>8 DEF m

LEMMA WithdrawKeeps ==
  ASSUME NEW l, IsL(l), NEW k \in DOMAIN l.yields, NEW n \in Int
  PROVE  LET m == WithdrawYield(l, k, n)
         IN  /\ YieldValue(m, k) = YieldValue(l, k) - n
             /\ \A j \in YieldKeys \ {k} : YieldValue(m, j) = YieldValue(l, j)
             /\ m.perps = l.perps
<1> DEFINE part == Lesser(n, l.yields[k].accrued)
           y == [principal |-> l.yields[k].principal - (n - part),
                 accrued |-> l.yields[k].accrued - part]
           rest == IF y.principal + y.accrued = 0 THEN Drop(l.yields, k)
                   ELSE Put(l.yields, k, y)
           d == [l EXCEPT !.yields = rest]
           m == WithdrawYield(l, k, n)
<1>1. l.yields[k] \in [principal : Int, accrued : Int] /\ part \in Int
  BY DEF IsLedger, Lesser
<1>2. y.principal + y.accrued = YieldValue(l, k) - n
  BY <1>1 DEF YieldValue
<1>3. m = Credit(d, k.chain, k.asset, n)
  BY DEF WithdrawYield
<1> HIDE DEF y, part, m
<1>4. (k \in DOMAIN rest => rest[k] = y) /\ (k \notin DOMAIN rest => y.principal + y.accrued = 0)
  BY DEF Put, Drop
<1>5. ASSUME NEW j, j # k
      PROVE  (j \in DOMAIN rest <=> j \in DOMAIN l.yields) /\ (j \in DOMAIN rest => rest[j] = l.yields[j])
  BY <1>5 DEF Put, Drop
<1> HIDE DEF rest
<1>6. d.yields = rest /\ d.perps = l.perps
  BY DEF IsLedger
<1>7. m.yields = d.yields /\ m.perps = d.perps
  <2>1. d \in [balances : {l.balances}, perps : {l.perps}, yields : {rest},
               reservations : {l.reservations},
               fees : Int, gas : Int, funding : Int, interest : Int]
    BY DEF IsLedger
  <2> HIDE DEF d
  <2> QED BY <1>3, <2>1 DEF Credit
<1> HIDE DEF d
<1>8. YieldValue(m, k) = y.principal + y.accrued
  BY <1>4, <1>6, <1>7 DEF YieldValue
<1>9. ASSUME NEW j \in YieldKeys \ {k} PROVE YieldValue(m, j) = YieldValue(l, j)
  BY <1>5, <1>6, <1>7 DEF YieldValue
<1> QED BY <1>2, <1>6, <1>7, <1>8, <1>9 DEF m

\* Of one account and one position, what money moves out of the one is in the other.
LEMMA MovesKeep ==
  ASSUME NEW l, IsL(l), NEW m, NEW k \in YieldKeys, NEW n \in Int,
         Moves(l, m, k.chain, k.asset, -n), YieldValue(m, k) = YieldValue(l, k) + n
  PROVE  /\ CashAndYield(m, k) = CashAndYield(l, k)
         /\ \A acct \in Accounts \ {<<k.chain, k.asset>>} : m.balances[acct] = l.balances[acct]
<1>1. l.balances \in [Accounts -> Int] /\ k.chain \in Venues /\ k.asset \in Assets
  BY DEF IsLedger, YieldKeys
<1>2. YieldValue(l, k) \in Int
  BY DEF YieldValue, IsLedger
<1>3. \A w \in Venues, b \in Assets :
        Balance(m, w, b) = Balance(l, w, b) + (IF w = k.chain /\ b = k.asset THEN -n ELSE 0)
  BY DEF Moves
<1>4. \A w \in Venues, b \in Assets : Balance(l, w, b) \in Int
  BY <1>1 DEF Balance, Accounts
<1>5. Balance(m, k.chain, k.asset) = Balance(l, k.chain, k.asset) - n
  BY <1>1, <1>3, <1>4
<1>6. CashAndYield(m, k) = CashAndYield(l, k)
  BY <1>1, <1>2, <1>4, <1>5 DEF CashAndYield
<1>7. ASSUME NEW acct \in Accounts \ {<<k.chain, k.asset>>} PROVE m.balances[acct] = l.balances[acct]
  <2>1. PICK w \in Venues, b \in Assets : acct = <<w, b>>
    BY DEF Accounts
  <2>2. ~(w = k.chain /\ b = k.asset)
    BY <2>1
  <2>3. Balance(m, w, b) = Balance(l, w, b)
    BY <1>3, <1>4, <2>2
  <2> QED BY <2>1, <2>3 DEF Balance
<1> QED BY <1>6, <1>7

\* A deposit into a yield position and a withdrawal from one neither create nor
\* destroy money, whatever was deposited, earned and withdrawn before, touch no
\* other account or position, and leave neither part of a position negative.
THEOREM YieldMovesKeepMoney == Spec => YieldMovesConserve
<1> DEFINE Kept(k) == /\ CashAndYield(ledger', k) = CashAndYield(ledger, k)
                      /\ \A acct \in Accounts \ {<<k.chain, k.asset>>} : ledger'.balances[acct] = ledger.balances[acct]
                      /\ \A j \in YieldKeys \ {k} : YieldValue(ledger', j) = YieldValue(ledger, j)
                      /\ ledger'.perps = ledger.perps
                      /\ YieldsSolvent'
           Step == \A k \in YieldKeys, n \in Amounts : DoDepositYield(k, n) \/ DoWithdrawYield(k, n) => Kept(k)
<1>1. TypeOK /\ YieldsSolvent' => Step
  <2> SUFFICES ASSUME TypeOK, YieldsSolvent', NEW k \in YieldKeys, NEW n \in Amounts,
                      DoDepositYield(k, n) \/ DoWithdrawYield(k, n)
               PROVE  Kept(k)
    OBVIOUS
  <2>0. IsL(ledger) /\ n \in Int
    BY LedgerMachineAssumption DEF TypeOK
  <2>1. CASE DoDepositYield(k, n)
    <3>1. ledger' = DepositYield(ledger, k, n)
      BY <2>1 DEF DoDepositYield, Become
    <3>2. Moves(ledger, ledger', k.chain, k.asset, -n)
      BY <2>0, <3>1, DepositYieldMoves
    <3>3. /\ YieldValue(ledger', k) = YieldValue(ledger, k) + n
          /\ \A j \in YieldKeys \ {k} : YieldValue(ledger', j) = YieldValue(ledger, j)
          /\ ledger'.perps = ledger.perps
      BY <2>0, <3>1, DepositKeeps
    <3> QED BY <2>0, <3>2, <3>3, MovesKeep
  <2>2. CASE DoWithdrawYield(k, n)
    <3>1. ledger' = WithdrawYield(ledger, k, n) /\ k \in DOMAIN ledger.yields
      BY <2>2 DEF DoWithdrawYield, CanWithdrawYield, Become
    <3>2. Moves(ledger, ledger', k.chain, k.asset, n)
      BY <2>0, <3>1, WithdrawYieldMoves
    <3>3. /\ YieldValue(ledger', k) = YieldValue(ledger, k) - n
          /\ \A j \in YieldKeys \ {k} : YieldValue(ledger', j) = YieldValue(ledger, j)
          /\ ledger'.perps = ledger.perps
      BY <2>0, <3>1, WithdrawKeeps
    <3>4. n = -(-n) /\ -n \in Int
      BY <2>0
    <3>5. YieldValue(ledger, k) \in Int
      BY <2>0 DEF YieldValue, IsLedger
    <3>6. Moves(ledger, ledger', k.chain, k.asset, -(-n)) /\ YieldValue(ledger', k) = YieldValue(ledger, k) + (-n)
      BY <2>0, <3>2, <3>3, <3>4, <3>5
    <3> QED BY <2>0, <3>3, <3>4, <3>6, MovesKeep
  <2> QED BY <2>1, <2>2
<1>2. Step => [\A k \in YieldKeys, n \in Amounts :
                 DoDepositYield(k, n) \/ DoWithdrawYield(k, n) =>
                   /\ CashAndYield(ledger', k) = CashAndYield(ledger, k)
                   /\ \A acct \in Accounts \ {<<k.chain, k.asset>>} : ledger'.balances[acct] = ledger.balances[acct]
                   /\ \A j \in YieldKeys \ {k} : YieldValue(ledger', j) = YieldValue(ledger, j)
                   /\ ledger'.perps = ledger.perps
                   /\ YieldsSolvent']_ledger
  OBVIOUS
<1> HIDE DEF Step
<1> QED BY LedgerTypeCorrect, YieldsStaySolvent, <1>1, <1>2, PTL DEF YieldMovesConserve, Spec
=============================================================================
