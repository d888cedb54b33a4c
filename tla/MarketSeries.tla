---------------------------- MODULE MarketSeries ----------------------------
(* The series of market data that compiler, loader and engine speak of.       *)

EXTENDS Integers

CONSTANT None   \* nothing: no venue, no bound, not yet

ASSUME NoneAssumption == None \notin Int

\* Candles, funding rates, gas, yields or pool reserves ("liquidity") of a symbol
\* at a venue. Gas has a chain and no symbol; a yield's pool is its venue.
Series(kind, venue, symbol) == [kind |-> kind, venue |-> venue, symbol |-> symbol]
=============================================================================
