------------------------------ MODULE MCEngine ------------------------------
(* Strategies and markets of the engine's runs, on one venue with a cash     *)
(* asset, a volatile asset that also has a perp, and one yield pool.         *)
(* Amounts are chosen so that first fills divide exactly; fees and interest  *)
(* on accrued amounts, and liquidation levels, may round down to the unit.   *)
EXTENDS Engine

CONSTANTS V, BTC, aave

MCVenues == {V}
MCAssets == {USDC, BTC}
MCSymbols == {BTC}
MCPools == {aave}
MCOrderIds == 0 .. 15
MCPerpOrder == <<<<V, BTC>>>>
Pool == [chain |-> V, asset |-> USDC, pool |-> aave]
MCYieldOrder == <<[Pool EXCEPT !.asset = BTC], Pool>>

Amount(basis, n) == [basis |-> basis, value |-> n]

Swap(from, to, amount, orderType, limit, expire) ==
  [type |-> "swap", venue |-> V, from |-> from, to |-> to, amount |-> amount,
   orderType |-> orderType, limit |-> limit, expire |-> expire]

Perp(side, amount, reduceOnly, orderType, limit, expire) ==
  [type |-> "perp_order", venue |-> V, symbol |-> BTC, side |-> side, amount |-> amount,
   leverage |-> 2, reduceOnly |-> reduceOnly, orderType |-> orderType, limit |-> limit,
   expire |-> expire]

Yield(type, amount) == [type |-> type, position |-> Pool, amount |-> amount]

\* Every action the strategies use. No limit and no expiry for market orders.
Actions ==
  [buy       |-> Swap(USDC, BTC, Amount("absolute", 480), "market", 0, NoExpiry),
   buyDip    |-> Swap(USDC, BTC, Amount("absolute", 480), "limit", 8, 1),
   buyDipGtc |-> Swap(USDC, BTC, Amount("absolute", 480), "limit", 8, NoExpiry),
   sellTop   |-> Swap(BTC, USDC, Amount("all", 0), "limit", 16, NoExpiry),
   sellPart  |-> Swap(BTC, USDC, Amount("pct_balance", 50), "limit", 16, 1),
   sell      |-> Swap(BTC, USDC, Amount("all", 0), "market", 0, NoExpiry),
   sellCrumb |-> Swap(BTC, USDC, Amount("absolute", 4), "limit", 8, NoExpiry),
   long      |-> Perp("long", Amount("absolute", 480), FALSE, "market", 0, NoExpiry),
   longDip   |-> Perp("long", Amount("absolute", 480), FALSE, "limit", 8, NoExpiry),
   short     |-> Perp("short", Amount("absolute", 480), FALSE, "market", 0, NoExpiry),
   longHalf  |-> Perp("long", Amount("pct_balance", 50), FALSE, "market", 0, NoExpiry),
   takeProfit |-> Perp("long", Amount("absolute", 480), TRUE, "limit", 16, NoExpiry),
   takeNear |-> Perp("long", Amount("absolute", 480), TRUE, "limit", 10, NoExpiry),
   closeHalf |-> Perp("long", Amount("pct_position", 50), TRUE, "market", 0, NoExpiry),
   close     |-> Perp("long", Amount("pct_position", 100), TRUE, "market", 0, NoExpiry),
   deposit   |-> Yield("yield_deposit", Amount("absolute", 120)),
   stakeAll  |-> Yield("yield_deposit", Amount("pct_portfolio", 50)),
   depositAll |-> Yield("yield_deposit", Amount("pct_balance", 100)),
   withdraw  |-> Yield("yield_withdraw", Amount("all", 0))]

\* A strategy has the actions it names; `edges` are the chains that are not empty.
Strategy(edges, initial, signals) ==
  LET chained(n) == IF n \in DOMAIN edges THEN edges[n] ELSE <<>>
      named == Members(initial) \cup UNION {Members(s) : s \in Members(signals)}
                 \cup UNION {{n} \cup Members(edges[n]) : n \in DOMAIN edges}
  IN  [actions |-> [n \in named |-> Actions[n]], chains |-> [n \in named |-> chained(n)],
       initial |-> initial, signals |-> signals]

Simulate(strategy, selection, balances, markets) ==
  [actions |-> strategy.actions, chains |-> strategy.chains, initial |-> strategy.initial,
   signals |-> strategy.signals, selection |-> selection, balances |-> balances,
   markets |-> markets]

Bar(open, high, low, close) == [open |-> open, high |-> high, low |-> low, close |-> close]

Market(bar, gas, funding, apr) ==
  [bar |-> [k \in PerpKeys |-> bar], gas |-> gas, funding |-> funding, apr |-> apr]

\* A quiet bar, one that touches the low limit, two that gap below it, one of them
\* without coming back.
High == Bar(16, 16, 16, 16)
Wick == Bar(16, 16, 8, 16)
Gap == Bar(4, 16, 4, 8)
Plunge == Bar(4, 4, 4, 4)
Low == Bar(8, 8, 8, 8)
Rise == Bar(8, 10, 8, 8)

Cash(n) == [acct \in Accounts |-> IF acct[2] = USDC THEN n ELSE 0]

----------------------------------------------------------------------------
(* Limit orders, with chains off their fills and expiring orders.            *)

LimitStrategies ==
  {Strategy([buyDip |-> <<"sellPart", "deposit">>], <<"buyDip">>, <<<<"buyDipGtc">>, <<"deposit">>>>),
   Strategy([buyDipGtc |-> <<"sellTop">>, sellTop |-> <<"buyDipGtc">>,
             deposit |-> <<"withdraw">>, withdraw |-> <<"deposit">>],
            <<"buyDipGtc", "deposit">>, <<<<"longDip">>>>)}

LimitMarkets ==
  {Market(High, 0, 0, 0), Market(Wick, 0, 0, 0), Market(Plunge, 40, 0, 0), Market(NoBar, 0, 0, 0)}

LimitSimulations ==
  {Simulate(s, "close", Cash(n), LimitMarkets) : s \in LimitStrategies, n \in {600, 1400}}

----------------------------------------------------------------------------
(* Perps and yields: funding of either sign, wicks through the liquidation   *)
(* price, partial and full closes.                                           *)

PerpStrategies ==
  {Strategy([long |-> <<"takeProfit", "deposit">>], <<"long">>, <<<<"closeHalf">>, <<"buyDipGtc">>>>),
   Strategy(<<>>, <<"short", "stakeAll">>, <<<<"close", "long">>, <<"withdraw">>>>)}

PerpMarkets ==
  {Market(High, 0, 2500, 2500), Market(Wick, 40, -2500, 0),
   Market(Gap, 0, 5000, 0), Market(NoBar, 0, 2500, 2500)}

PerpsAt(selection) ==
  {Simulate(s, selection, Cash(n), PerpMarkets) : s \in PerpStrategies, n \in {480, 1200}}

PerpSimulations == PerpsAt("worse_side")
PerpsDeferred == PerpsAt("next_open")

----------------------------------------------------------------------------
(* Market orders deferred to the next open.                                  *)

DeferredStrategies ==
  {Strategy([buy |-> <<"sellTop", "long">>], <<"buy">>, <<<<"buy">>, <<"deposit", "sell">>>>),
   Strategy([long |-> <<"takeProfit", "longHalf">>], <<"long", "short">>, <<<<"close">>, <<"stakeAll">>>>)}

DeferredMarkets ==
  {Market(High, 0, 0, 0), Market(Gap, 40, 2500, 0), Market(NoBar, 40, 0, 0)}

DeferredSimulations ==
  {Simulate(s, "next_open", Cash(n), DeferredMarkets) : s \in DeferredStrategies, n \in {600, 1600}}

MCSimulations == LimitSimulations \cup PerpSimulations \cup DeferredSimulations

\* What the engine's sizes of positions are proved for.
ASSUME MCUnits == \A s \in LimitSimulations \cup PerpSimulations \cup PerpsDeferred : OpensInUnits(s)

----------------------------------------------------------------------------
(* Two more strategies: a take-profit resting while its position is reversed, and a perp *)
(* sized by a balance of which nothing is left.                              *)

FlipSimulations ==
  {Simulate(Strategy([long |-> <<"takeNear">>], <<"long">>, <<<<"close", "short">>>>),
            "close", Cash(n), {Market(Low, 0, 0, 0), Market(Rise, 0, 0, 0)}) : n \in {480, 1200}}

EmptySimulations ==
  {Simulate(Strategy(<<>>, <<"depositAll", "longHalf">>, <<>>), "close", Cash(480), PerpMarkets)}
=============================================================================
