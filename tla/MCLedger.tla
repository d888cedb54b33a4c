------------------------------ MODULE MCLedger ------------------------------
(* The ledger on one venue with a cash and a volatile asset, one perp, one  *)
(* yield pool and two orders.                                               *)
EXTENDS Ledger, TLC

CONSTANTS v1, ETH, BTC, aave, o1, o2

MCVenues == {v1}
MCAssets == {USDC, ETH}
MCSymbols == {BTC}
MCPools == {aave}
MCOrderIds == {o1, o2}

\* Signed amounts: the sign guards matter under both policies.
MCAmounts == {-1, 1, 2}
MCInterests == {1}
MCPositions == [margin : {0, 1}]

OrderSymmetry == Permutations(MCOrderIds)
=============================================================================
