------------------------------- MODULE Engine -------------------------------
(***************************************************************************)
(* The simulation engine (src/crates/simulation-engine/src/engine.rs): one *)
(* run of a strategy over a sequence of ticks.  A tick accrues funding and *)
(* yield, liquidates, fills the market orders deferred from earlier bars,   *)
(* scans the resting limit orders, runs the initial actions once, fires     *)
(* signals, and takes a snapshot.  A fill or a fired signal starts chains   *)
(* of actions, and actions place orders, while the scan that caused them    *)
(* is still under way; one step of this module is one order, one action or  *)
(* one position handled.                                                    *)
(*                                                                         *)
(* The program is deterministic in its input.  The input is what is chosen  *)
(* here: strategy, policy and starting balances at the start, the market     *)
(* (bars, gas, funding rate, apr) at every tick, and whether a signal fires *)
(* (the conditions and gates of signals are not part of this module).       *)
(***************************************************************************)
EXTENDS Fills, Sequences

FSE == INSTANCE FiniteSetsExt
SE == INSTANCE SequencesExt

CONSTANTS
  Simulations,       \* what may be run: the compiled graph (actions, chains, initial,
                     \* signals), the policy's price selection (close, open, mid,
                     \* worse_side or next_open), the starting balances, and what
                     \* a tick can bring (markets: [bar, gas, funding, apr])
  Ticks,             \* number of ticks of the run, a bound of the model
  PerpOrder,         \* the perp keys in the order of the ledger's BTreeMap
  YieldOrder,        \* the yield keys in the order of the ledger's BTreeMap
  MaintenanceBps     \* maintenance margin ratio in basis points

\* A bar of positive prices, as the loader reads it.
Candle == {c \in [open : Nat, high : Nat, low : Nat \ {0}, close : Nat] :
             {c.open, c.close} \subseteq c.low .. c.high}

\* What a tick can bring; funding and apr have either sign.
Markets == [bar : [PerpKeys -> Candle \cup {NoBar}], gas : Nat, funding : Int, apr : Int]

Selections == {"close", "open", "mid", "worse_side", "next_open"}

ASSUME EngineAssumption ==
  /\ Ticks \in Nat
  /\ MaintenanceBps \in 0 .. Bps - 1
  /\ \A s \in Simulations : /\ s.balances \in [Accounts -> Nat]
                           /\ s.markets # {} /\ s.markets \subseteq Markets
                           /\ s.selection \in Selections

\* The ledger's maps are finite and sorted: an order lists every key once.
ASSUME KeysAssumption ==
  /\ IsFiniteSet(Venues) /\ IsFiniteSet(Assets)
  /\ Assets \ {USDC} \subseteq Symbols
  /\ PerpOrder \in Seq(PerpKeys) /\ YieldOrder \in Seq(YieldKeys)
  /\ \A k \in PerpKeys : \E i \in DOMAIN PerpOrder : PerpOrder[i] = k
  /\ \A k \in YieldKeys : \E i \in DOMAIN YieldOrder : YieldOrder[i] = k
  /\ \A i, j \in DOMAIN PerpOrder : PerpOrder[i] = PerpOrder[j] => i = j
  /\ \A i, j \in DOMAIN YieldOrder : YieldOrder[i] = YieldOrder[j] => i = j

VARIABLES
  simulation, \* the strategy, policy and data being run
  tick,       \* the number of ticks begun
  market,     \* what the current tick brought
  marks,      \* last close per venue and symbol, 0 before the first
  equity,     \* the equity at the start of the tick, for pct_portfolio sizing
  ledger,
  pc,         \* where the tick loop is
  todo,       \* positions, or signals, the current phase has yet to handle
  roots,      \* actions whose chains are yet to be started, in order
  stack,      \* the current chain's actions to run, the next one last
  visited,    \* actions the current chain has run
  resting,    \* the book of limit orders
  pending,    \* market orders deferred to the next bar
  ready,      \* orders taken out of the book or queue, still to be looked at
  keep,       \* those looked at that go on waiting
  orderSeq,   \* the next order id
  events      \* what happened to orders and actions, in order

book == <<resting, pending, ready, keep>>
chain == <<roots, stack, visited>>
input == <<simulation, tick, market, marks>>
vars == <<input, equity, ledger, pc, todo, chain, book, orderSeq, events>>

NoOrder == -1
NoExpiry == -1

Position == [side : {"long", "short"}, size : Nat, cost : Nat, margin : Nat]

\* `price` is the fill price of a limit order, 0 in every other event.
Event(what, node, order, why, price) ==
  [what |-> what, node |-> node, order |-> order, why |-> why,
   at |-> tick, gas |-> market.gas, price |-> price]

\* What an event can say of an order or an action.
Whats == {"placed", "executed", "refused", "filled", "rejected", "expired"}
Reasons == {"executed", "placed", "expired", "unsized", "unsupported", "no_limit", "no_position",
            "no_bar", "nothing", "funds", "negative", "proceeds", "opposite"}

Log(e) == events' = Append(events, e)

Idle == roots = <<>> /\ stack = <<>>

\* Those of `keys`, in a given order.
InOrder(order, keys) ==
  LET upTo[n \in 0 .. Len(order)] ==
        IF n = 0 THEN <<>>
        ELSE IF order[n] \in keys THEN Append(upTo[n - 1], order[n]) ELSE upTo[n - 1]
  IN  upTo[Len(order)]

OpenPerps(l) == InOrder(PerpOrder, DOMAIN l.perps)
OpenYields(l) == InOrder(YieldOrder, DOMAIN l.yields)

----------------------------------------------------------------------------
(* Valuation. A position of size zero has no liquidation price: the code     *)
(* divides by its size, in the liquidation check and in every valuation.     *)

Worth(asset, venue, amount) == amount * (IF asset = USDC THEN 1 ELSE marks[<<venue, asset>>])

\* The sum of the values of a function.
Total(f) == FSE!MapThenSumSet(LAMBDA k : f[k], DOMAIN f)

Equity(l) ==
  LET cash == [k \in Accounts |-> Worth(k[2], k[1], l.balances[k])]
      perps == [k \in DOMAIN l.perps |->
                  l.perps[k].margin
                    + (IF marks[k] = 0 THEN 0 ELSE UnrealizedPnl(l.perps[k], marks[k]))]
      yields == [k \in DOMAIN l.yields |-> Worth(k.asset, k.chain, YieldValue(l, k))]
  IN  Total(cash) + Total(perps) + Total(yields)

ValuationPanics(l) == \E k \in DOMAIN l.perps : l.perps[k].size = 0

----------------------------------------------------------------------------
(* Sizing and execution of one action.                                      *)

\* The spendable balance, the position and the price per unit an action's
\* relative amount refers to.
Funds(l, c) ==
  CASE c.type = "swap" -> Greater(Available(l, c.venue, c.from), 0)
    [] c.type = "perp_order" -> Greater(Available(l, c.venue, USDC), 0)
    [] OTHER -> Greater(Available(l, c.position.chain, c.position.asset), 0)

Held(l, c) ==
  CASE c.type = "perp_order" ->
         IF PerpKey(c) \in DOMAIN l.perps THEN l.perps[PerpKey(c)].cost ELSE 0
    [] c.type = "swap" -> Funds(l, c)
    [] OTHER -> YieldValue(l, c.position)

UnitPrice(c) ==
  CASE c.type = "perp_order" -> 1
    [] c.type = "swap" -> Worth(c.from, c.venue, 1)
    [] OTHER -> Worth(c.position.asset, c.position.chain, 1)

CanSize(c) ==
  /\ ~(c.type = "swap" /\ c.amount.basis = "pct_position")
  /\ ~(c.amount.basis = "pct_portfolio" /\ UnitPrice(c) = 0)

IsLimit(c) == c.type \in {"swap", "perp_order"} /\ c.orderType = "limit"

Amounts == [basis : {"absolute", "all", "pct_balance", "pct_position", "pct_portfolio"}, value : Int]

\* The actions of a strategy. A market order has no limit and no expiry.
Action ==
  [type : {"swap"}, venue : Venues, from : Assets, to : Assets, amount : Amounts,
   orderType : {"market", "limit"}, limit : Int, expire : Nat \cup {NoExpiry}]
  \cup
  [type : {"perp_order"}, venue : Venues, symbol : Symbols, side : {"long", "short"},
   amount : Amounts, leverage : Nat, reduceOnly : BOOLEAN,
   orderType : {"market", "limit"}, limit : Int, expire : Nat \cup {NoExpiry}]
  \cup
  [type : {"yield_deposit", "yield_withdraw"}, position : YieldKeys, amount : Amounts]

\* A compiled graph chains and targets actions it has.
ASSUME StrategyAssumption ==
  \A s \in Simulations :
    LET nodes == DOMAIN s.actions
    IN  /\ IsFiniteSet(nodes) /\ s.actions \in [nodes -> Action]
        /\ s.chains \in [nodes -> Seq(nodes)]
        /\ s.initial \in Seq(nodes) /\ s.signals \in Seq(Seq(nodes))

IsDeferred(c) == c.type \in {"swap", "perp_order"} /\ ~IsLimit(c) /\ simulation.selection = "next_open"

\* The action with its amount absolute, and "all" frozen to what is spendable
\* now if the order is to wait; an "all" that executes now stays as it is.
Sized(l, c) ==
  LET n == c.amount.value
      absolute(m) == [c EXCEPT !.amount = [basis |-> "absolute", value |-> m]]
  IN  CASE c.amount.basis = "absolute" -> c
        [] c.amount.basis = "all" ->
             IF c.type = "swap" /\ (IsLimit(c) \/ IsDeferred(c)) THEN absolute(Funds(l, c)) ELSE c
        [] c.amount.basis = "pct_balance" -> absolute((n * Funds(l, c)) \div 100)
        [] c.amount.basis = "pct_position" -> absolute((n * Held(l, c)) \div 100)
        [] c.amount.basis = "pct_portfolio" ->
             absolute(((n * equity) \div 100) \div UnitPrice(c))

ExecuteNow(l, c) ==
  CASE c.type = "swap" -> ExecuteSwap(l, market, c, simulation.selection)
    [] c.type = "perp_order" -> ExecutePerp(l, market, c, simulation.selection)
    [] c.type = "yield_deposit" -> ExecuteYieldDeposit(l, market, c)
    [] c.type = "yield_withdraw" -> ExecuteYieldWithdraw(l, market, c)

----------------------------------------------------------------------------
(* The run. A phase handles the members of `todo` or `ready` one by one; it  *)
(* goes on only when the chains started by what it handled have run.         *)

Phases ==
  {"next_tick", "funding", "yields", "liquidations", "valuation", "market_orders",
   "limit_orders", "signals", "snapshot", "drain_resting", "drain_pending", "done", "panicked"}

Init ==
  /\ simulation \in Simulations
  /\ ledger = EmptyLedger(simulation.balances)
  /\ tick = 0
  /\ market = CHOOSE m \in simulation.markets : TRUE
  /\ marks = [k \in PerpKeys |-> 0]
  /\ equity = 0
  /\ pc = "next_tick"
  /\ todo = <<>>
  /\ roots = <<>> /\ stack = <<>> /\ visited = {}
  /\ resting = <<>> /\ pending = <<>> /\ ready = <<>> /\ keep = <<>>
  /\ orderSeq = 0
  /\ events = <<>>

NextTick ==
  /\ pc = "next_tick" /\ tick < Ticks
  /\ tick' = tick + 1
  /\ \E m \in simulation.markets :
       /\ market' = m
       /\ marks' = [k \in PerpKeys |-> IF m.bar[k] = NoBar THEN marks[k] ELSE m.bar[k].close]
  /\ pc' = "funding" /\ todo' = OpenPerps(ledger)
  /\ UNCHANGED <<simulation, equity, ledger, chain, book, orderSeq, events>>

LastTick ==
  /\ pc = "next_tick" /\ tick = Ticks
  /\ pc' = "drain_resting"
  /\ UNCHANGED <<input, equity, ledger, todo, chain, book, orderSeq, events>>

\* A phase over positions has handled them all.
PhaseDone ==
  /\ todo = <<>>
  /\ \/ pc = "funding" /\ pc' = "yields" /\ todo' = OpenYields(ledger)
     \/ pc = "yields" /\ pc' = "liquidations" /\ todo' = OpenPerps(ledger)
     \/ pc = "liquidations" /\ pc' = "valuation" /\ UNCHANGED todo
  /\ UNCHANGED <<input, equity, ledger, chain, book, orderSeq, events>>

----------------------------------------------------------------------------
(* Funding, yield and liquidation.                                          *)

\* What the position pays for the tick, negative when it receives.
FundingOwed(k) ==
  LET p == ledger.perps[k]
      payment == (market.funding * p.size * marks[k]) \div Bps
  IN  IF p.side = "long" THEN payment ELSE -payment

\* What the account's cash pays: everything where a balance may go negative,
\* else what the balance has. The debit that follows may still refuse it.
FundingFromCash(l, v, owed) ==
  IF AllowNegative THEN owed ELSE Lesser(owed, Greater(Balance(l, v, USDC), 0))

CanCollectFunding(l, k, owed) ==
  owed <= 0 \/ CanDebit(l, k[1], USDC, FundingFromCash(l, k[1], owed))

FundingFromMargin(l, k, owed) ==
  Lesser(owed - FundingFromCash(l, k[1], owed), l.perps[k].margin)

CollectFunding_RecordsForgiven(l, k, owed) ==
  LET margined == [l EXCEPT !.perps[k].margin = @ - FundingFromMargin(l, k, owed)]
  IN  IF owed <= 0 THEN RecordFunding(Credit(l, k[1], USDC, -owed), owed)
      ELSE RecordFunding(Debit(margined, k[1], USDC, FundingFromCash(l, k[1], owed)), owed)

\* What cash cannot pay comes out of the margin, and what the margin cannot pay
\* is forgiven and not recorded.
CollectFunding(l, k, owed) ==
  LET cash == FundingFromCash(l, k[1], owed)
      fromMargin == FundingFromMargin(l, k, owed)
      margined == [l EXCEPT !.perps[k].margin = @ - fromMargin]
  IN  IF owed <= 0 THEN RecordFunding(Credit(l, k[1], USDC, -owed), owed)
      ELSE RecordFunding(Debit(margined, k[1], USDC, cash), cash + fromMargin)

ApplyFunding ==
  /\ pc = "funding" /\ todo # <<>>
  /\ LET k == Head(todo)
     IN  /\ CanCollectFunding(ledger, k, FundingOwed(k))
         /\ ledger' = CollectFunding(ledger, k, FundingOwed(k))
  /\ todo' = Tail(todo)
  /\ UNCHANGED <<input, equity, pc, chain, book, orderSeq, events>>

\* Interest compounds; without a mark it is not counted in dollars.
ApplyYield ==
  /\ pc = "yields" /\ todo # <<>>
  /\ LET k == Head(todo)
         interest == (YieldValue(ledger, k) * market.apr) \div Bps
     IN  ledger' = AccrueYield(ledger, k, interest, Worth(k.asset, k.chain, interest))
  /\ todo' = Tail(todo)
  /\ UNCHANGED <<input, equity, pc, chain, book, orderSeq, events>>

\* The bar a position is checked against; without one, its mark throughout.
Quote(k) ==
  LET bar == market.bar[k]
  IN  IF bar # NoBar THEN bar
      ELSE [open |-> marks[k], high |-> marks[k], low |-> marks[k], close |-> marks[k]]

\* Breached(p, bar): the worst price of the bar, not its close, leaves margin and
\* profit at or below the maintenance margin.
Breached_AtClose(p, bar) ==
  IF p.side = "long" THEN bar.close * p.size * (Bps - MaintenanceBps) <= (p.cost - p.margin) * Bps
  ELSE bar.close * p.size * (Bps + MaintenanceBps) >= (p.cost + p.margin) * Bps

Breached(p, bar) ==
  IF p.side = "long" THEN bar.low * p.size * (Bps - MaintenanceBps) <= (p.cost - p.margin) * Bps
  ELSE bar.high * p.size * (Bps + MaintenanceBps) >= (p.cost + p.margin) * Bps

\* The value of a position at its liquidation price.
LiquidationNotional(p) ==
  IF p.side = "long" THEN ((p.cost - p.margin) * Bps) \div (Bps - MaintenanceBps)
  ELSE ((p.cost + p.margin) * Bps) \div (Bps + MaintenanceBps)

\* What is left of the margin at the liquidation price, or at the open of a bar
\* that gapped through it.
LiquidationSettlement(p, bar) ==
  LET pnl == IF p.side = "long"
             THEN Lesser(bar.open * p.size, LiquidationNotional(p)) - p.cost
             ELSE p.cost - Greater(bar.open * p.size, LiquidationNotional(p))
  IN  Greater(p.margin + pnl, 0)

CheckLiquidation ==
  /\ pc = "liquidations" /\ todo # <<>>
  /\ LET k == Head(todo)
         p == ledger.perps[k]
     IN  /\ p.size # 0
         /\ ledger' = IF Quote(k).open # 0 /\ Breached(p, Quote(k))
                      THEN ClosePerp(ledger, k, LiquidationSettlement(p, Quote(k)))
                      ELSE ledger
  /\ todo' = Tail(todo)
  /\ UNCHANGED <<input, equity, pc, chain, book, orderSeq, events>>

\* The equity of the tick, and the orders deferred on earlier bars, in order.
BeginMarketOrders ==
  /\ pc = "valuation" /\ ~ValuationPanics(ledger)
  /\ equity' = Equity(ledger)
  /\ pc' = "market_orders" /\ ready' = pending /\ pending' = <<>>
  /\ UNCHANGED <<input, ledger, todo, chain, resting, keep, orderSeq, events>>

----------------------------------------------------------------------------
(* Orders leave the queue and the book.                                     *)

\* An order leaves ready for good: executed, its chains start; refused, only its
\* earmark is gone.
Leave(o, outcome, price) ==
  LET executed == outcome.why = "executed"
  IN  /\ outcome.why # "panic"
      /\ ledger' = IF executed THEN outcome.ledger ELSE Release(ledger, o.id)
      /\ roots' = IF executed THEN simulation.chains[o.node] ELSE <<>>
      /\ Log(Event(IF executed THEN "filled" ELSE "rejected", o.node, o.id, outcome.why,
                   IF executed THEN price ELSE 0))

Lapse_KeepsEarmark(o) ==
  /\ UNCHANGED ledger
  /\ Log(Event("expired", o.node, o.id, "expired", 0))

\* An order expires, and its earmark with it.
Lapse(o) ==
  /\ ledger' = Release(ledger, o.id)
  /\ Log(Event("expired", o.node, o.id, "expired", 0))

MarketOutcome(o) ==
  LET released == Release(ledger, o.id)
  IN  IF o.config.type = "swap" THEN ExecuteSwap(released, market, o.config, "open")
      ELSE ExecutePerp(released, market, o.config, "open")

FillMarketOrder ==
  /\ pc = "market_orders" /\ Idle /\ ready # <<>>
  /\ LET o == Head(ready)
     IN  IF o.placed >= tick
         THEN keep' = Append(keep, o) /\ UNCHANGED <<ledger, roots, events>>
         ELSE Leave(o, MarketOutcome(o), 0) /\ UNCHANGED keep
  /\ ready' = Tail(ready)
  /\ UNCHANGED <<input, equity, pc, todo, stack, visited, resting, pending, orderSeq>>

BeginLimitOrders ==
  /\ pc = "market_orders" /\ Idle /\ ready = <<>>
  /\ pending' = pending \o keep /\ keep' = <<>>
  /\ pc' = "limit_orders" /\ ready' = resting /\ resting' = <<>>
  /\ UNCHANGED <<input, equity, ledger, todo, chain, orderSeq, events>>

Symbol(c) == IF c.type = "swap" THEN BaseAsset(c) ELSE c.symbol

TimeInForceOver_Late(o) ==
  o.config.expire # NoExpiry /\ tick > o.placed + o.config.expire + 1

TimeInForceOver(o) == o.config.expire # NoExpiry /\ tick > o.placed + o.config.expire

Touched(o) ==
  LET bar == BarOf(market, o.config.venue, Symbol(o.config))
  IN  bar # NoBar /\ LimitTouched(bar, o.side, o.config.limit)

FillPrice(o) ==
  LimitFillPrice(BarOf(market, o.config.venue, Symbol(o.config)), o.side, o.config.limit)

LimitOutcome(o) ==
  LET released == Release(ledger, o.id)
  IN  IF o.config.type = "swap" THEN ExecuteSwapAt(released, market, o.config, FillPrice(o))
      ELSE ExecutePerpAt(released, o.config, FillPrice(o))

ExpireLimitOrder ==
  /\ pc = "limit_orders" /\ Idle /\ ready # <<>>
  /\ LET o == Head(ready)
     IN  /\ o.placed < tick /\ TimeInForceOver(o)
         /\ Lapse(o)
  /\ ready' = Tail(ready)
  /\ UNCHANGED <<input, equity, pc, todo, chain, resting, pending, keep, orderSeq>>

KeepLimitOrder ==
  /\ pc = "limit_orders" /\ Idle /\ ready # <<>>
  /\ LET o == Head(ready)
     IN  /\ o.placed >= tick \/ ~(TimeInForceOver(o) \/ Touched(o))
         /\ keep' = Append(keep, o)
  /\ ready' = Tail(ready)
  /\ UNCHANGED <<input, equity, ledger, pc, todo, chain, resting, pending, orderSeq, events>>

FillLimitOrder ==
  /\ pc = "limit_orders" /\ Idle /\ ready # <<>>
  /\ LET o == Head(ready)
     IN  /\ o.placed < tick /\ ~TimeInForceOver(o) /\ Touched(o)
         /\ Leave(o, LimitOutcome(o), FillPrice(o))
  /\ ready' = Tail(ready)
  /\ UNCHANGED <<input, equity, pc, todo, stack, visited, resting, pending, keep, orderSeq>>

BeginSignals_DropsPlaced ==
  /\ pc = "limit_orders" /\ Idle /\ ready = <<>>
  /\ resting' = keep /\ keep' = <<>>
  /\ pc' = "signals" /\ todo' = simulation.signals
  /\ roots' = IF tick = 1 THEN simulation.initial ELSE <<>>
  /\ UNCHANGED <<input, equity, ledger, stack, visited, pending, ready, orderSeq, events>>

\* Orders placed by chains during the scan come before those that were kept. The
\* initial actions run on the first tick only.
BeginSignals ==
  /\ pc = "limit_orders" /\ Idle /\ ready = <<>>
  /\ resting' = resting \o keep /\ keep' = <<>>
  /\ pc' = "signals" /\ todo' = simulation.signals
  /\ roots' = IF tick = 1 THEN simulation.initial ELSE <<>>
  /\ UNCHANGED <<input, equity, ledger, stack, visited, pending, ready, orderSeq, events>>

----------------------------------------------------------------------------
(* Signals and the chains of actions.                                       *)

\* A signal is its targets; whether its condition and gates let it fire is open.
FireSignal ==
  /\ pc = "signals" /\ Idle /\ todo # <<>>
  /\ roots' = Head(todo)
  /\ todo' = Tail(todo)
  /\ UNCHANGED <<input, equity, ledger, pc, stack, visited, book, orderSeq, events>>

PassSignal ==
  /\ pc = "signals" /\ Idle /\ todo # <<>>
  /\ todo' = Tail(todo)
  /\ UNCHANGED <<input, equity, ledger, pc, chain, book, orderSeq, events>>

\* Every chain begins with no action visited.
StartChain ==
  /\ stack = <<>> /\ roots # <<>>
  /\ stack' = <<Head(roots)>> /\ visited' = {}
  /\ roots' = Tail(roots)
  /\ UNCHANGED <<input, equity, ledger, pc, todo, book, orderSeq, events>>

\* What an action comes to, on a copy of the ledger.
Attempt(l, c) ==
  LET sized == Sized(l, c)
      mark == Earmark(market, sized)
      earmarked == IF mark.amount = 0 THEN l
                   ELSE Reserve(l, orderSeq, sized.venue, mark.asset, mark.amount)
  IN  IF ~CanSize(c) THEN Refused(l, "unsized")
      ELSE IF IsLimit(c)
      THEN [why |-> PlacementOutcome(l, market, sized), ledger |-> earmarked]
      ELSE IF IsDeferred(c)
      THEN [why |-> IF mark.amount = 0 \/ CanReserve(l, sized.venue, mark.asset, mark.amount)
                    THEN "placed" ELSE "funds",
            ledger |-> earmarked]
      ELSE ExecuteNow(l, sized)

Current == simulation.actions[SE!Last(stack)]

Outcome == Attempt(ledger, Current)

\* The next action of the chain, the last on the stack, is run unless it has run
\* in this chain before.
IsNew == stack # <<>> /\ SE!Last(stack) \notin visited

Follow_Always(next) ==
  /\ visited' = visited \cup {SE!Last(stack)}
  /\ stack' = SE!Front(stack) \o simulation.chains[SE!Last(stack)]

Follow_Forgets(next) == stack' = SE!Front(stack) \o next /\ UNCHANGED visited

\* The current action has run, and `next` are to follow it.
Follow(next) ==
  /\ visited' = visited \cup {SE!Last(stack)}
  /\ stack' = SE!Front(stack) \o next

SkipAction ==
  /\ stack # <<>> /\ ~IsNew
  /\ stack' = SE!Front(stack)
  /\ UNCHANGED <<input, equity, ledger, pc, todo, roots, visited, book, orderSeq, events>>

ExecuteAction ==
  /\ IsNew /\ Outcome.why = "executed"
  /\ ledger' = Outcome.ledger
  /\ Follow(simulation.chains[SE!Last(stack)])
  /\ Log(Event("executed", SE!Last(stack), NoOrder, "executed", 0))
  /\ UNCHANGED <<input, equity, pc, todo, roots, book, orderSeq>>

NewOrder_OfLastTick ==
  LET sized == Sized(ledger, Current)
  IN  [id |-> orderSeq, node |-> SE!Last(stack), placed |-> tick - 1, config |-> sized,
       side |-> IF IsLimit(sized) THEN LimitSide(ledger, sized) ELSE "market",
       mark |-> Earmark(market, sized).amount]

\* The order of a queued action, numbered even if its earmark is then refused.
NewOrder ==
  LET sized == Sized(ledger, Current)
  IN  [id |-> orderSeq, node |-> SE!Last(stack), placed |-> tick, config |-> sized,
       side |-> IF IsLimit(sized) THEN LimitSide(ledger, sized) ELSE "market",
       mark |-> Earmark(market, sized).amount]

PlaceOrder ==
  /\ IsNew /\ Outcome.why = "placed"
  /\ ledger' = Outcome.ledger
  /\ IF IsLimit(Current)
     THEN resting' = Append(resting, NewOrder) /\ UNCHANGED pending
     ELSE pending' = Append(pending, NewOrder) /\ UNCHANGED resting
  /\ orderSeq' = orderSeq + 1
  /\ Follow(<<>>)
  /\ Log(Event("placed", SE!Last(stack), orderSeq, "placed", 0))
  /\ UNCHANGED <<input, equity, pc, todo, roots, ready, keep>>

RefuseAction_Commits ==
  /\ IsNew /\ Outcome.why \notin {"executed", "placed", "panic"}
  /\ ledger' = Outcome.ledger
  /\ orderSeq' = IF IsDeferred(Current) /\ CanSize(Current) THEN orderSeq + 1 ELSE orderSeq
  /\ Follow(<<>>)
  /\ Log(Event("refused", SE!Last(stack), NoOrder, Outcome.why, 0))
  /\ UNCHANGED <<input, equity, pc, todo, roots, book>>

RefuseAction ==
  /\ IsNew /\ Outcome.why \notin {"executed", "placed", "panic"}
  /\ orderSeq' = IF IsDeferred(Current) /\ CanSize(Current) THEN orderSeq + 1 ELSE orderSeq
  /\ Follow(<<>>)
  /\ Log(Event("refused", SE!Last(stack), NoOrder, Outcome.why, 0))
  /\ UNCHANGED <<input, equity, ledger, pc, todo, roots, book>>

----------------------------------------------------------------------------
(* The end of a tick, of the run, and of the process.                       *)

BeginSnapshot ==
  /\ pc = "signals" /\ Idle /\ todo = <<>>
  /\ pc' = "snapshot"
  /\ UNCHANGED <<input, equity, ledger, todo, chain, book, orderSeq, events>>

Snapshot ==
  /\ pc = "snapshot" /\ ~ValuationPanics(ledger)
  /\ pc' = "next_tick"
  /\ UNCHANGED <<input, equity, ledger, todo, chain, book, orderSeq, events>>

DrainResting ==
  /\ pc = "drain_resting" /\ resting # <<>>
  /\ Lapse(Head(resting))
  /\ resting' = Tail(resting)
  /\ UNCHANGED <<input, equity, pc, todo, chain, pending, ready, keep, orderSeq>>

DrainPending ==
  /\ pc = "drain_pending" /\ pending # <<>>
  /\ Lapse(Head(pending))
  /\ pending' = Tail(pending)
  /\ UNCHANGED <<input, equity, pc, todo, chain, resting, ready, keep, orderSeq>>

DrainDone ==
  /\ \/ pc = "drain_resting" /\ resting = <<>> /\ pc' = "drain_pending"
     \/ pc = "drain_pending" /\ pending = <<>> /\ pc' = "done"
  /\ UNCHANGED <<input, equity, ledger, todo, chain, book, orderSeq, events>>

\* The next step cannot be taken: a debit that is expected to succeed is refused,
\* or a division by the size of an empty position.
Faults ==
  \/ /\ pc = "funding" /\ todo # <<>>
     /\ ~CanCollectFunding(ledger, Head(todo), FundingOwed(Head(todo)))
  \/ pc = "liquidations" /\ todo # <<>> /\ ledger.perps[Head(todo)].size = 0
  \/ pc \in {"valuation", "snapshot"} /\ ValuationPanics(ledger)
  \/ /\ pc = "market_orders" /\ Idle /\ ready # <<>>
     /\ Head(ready).placed < tick /\ MarketOutcome(Head(ready)).why = "panic"
  \/ /\ pc = "limit_orders" /\ Idle /\ ready # <<>>
     /\ Head(ready).placed < tick /\ ~TimeInForceOver(Head(ready)) /\ Touched(Head(ready))
     /\ LimitOutcome(Head(ready)).why = "panic"
  \/ IsNew /\ Outcome.why = "panic"

Panic ==
  /\ Faults
  /\ pc' = "panicked"
  /\ roots' = <<>> /\ stack' = <<>>
  /\ UNCHANGED <<input, equity, ledger, todo, visited, book, orderSeq, events>>

Terminated == pc \in {"done", "panicked"} /\ UNCHANGED vars

Tick ==
  \/ NextTick \/ LastTick \/ PhaseDone
  \/ ApplyFunding \/ ApplyYield \/ CheckLiquidation
  \/ BeginMarketOrders \/ FillMarketOrder
  \/ BeginLimitOrders \/ ExpireLimitOrder \/ KeepLimitOrder \/ FillLimitOrder
  \/ BeginSignals \/ FireSignal \/ PassSignal
  \/ BeginSnapshot \/ Snapshot \/ DrainResting \/ DrainPending \/ DrainDone

RunChain == StartChain \/ SkipAction \/ ExecuteAction \/ PlaceOrder \/ RefuseAction

Next == Tick \/ RunChain \/ Panic \/ Terminated

\* The process is given time for as long as it has a step to take.
Spec == Init /\ [][Next]_vars /\ WF_vars(Next)

----------------------------------------------------------------------------
(* Types.                                                                   *)

Queued == {resting[i] : i \in DOMAIN resting} \cup {pending[i] : i \in DOMAIN pending}
            \cup {ready[i] : i \in DOMAIN ready} \cup {keep[i] : i \in DOMAIN keep}

EventsOf(what) == {i \in DOMAIN events : events[i].what \in what}

IsOrder(o) ==
  /\ {"id", "node", "placed", "config", "side", "mark"} = DOMAIN o
  /\ o.id \in OrderIds /\ o.id < orderSeq
  /\ o.node \in DOMAIN simulation.actions
  /\ o.placed \in 1 .. tick
  /\ o.side \in {"buy", "sell", "market"}
  /\ o.mark >= 0

\* Type invariant: the ledger has the shape of `struct Ledger` with positions of
\* non-negative size and margin, every queued order was numbered before the next
\* one, and every event names an outcome the engine has.
TypeOK ==
  /\ simulation \in Simulations
  /\ tick \in 0 .. Ticks
  /\ market \in simulation.markets
  /\ marks \in [PerpKeys -> Nat]
  /\ equity \in Int
  /\ IsLedger(ledger, Position)
  /\ pc \in Phases
  /\ visited \subseteq DOMAIN simulation.actions
  /\ \A o \in Queued : IsOrder(o)
  /\ orderSeq \in Nat
  /\ \A i \in DOMAIN events :
       events[i].what \in Whats /\ events[i].why \in Reasons /\ events[i].at \in 1 .. tick

----------------------------------------------------------------------------
(* Safety.                                                                  *)

\* The earmarks in the ledger are exactly those of the orders that wait (the
\* reservation rules in the doc comment of fill_resting_orders): no order waits
\* uncovered, and no earmark outlives its order, whichever way it leaves.
EarmarksMatchOrders ==
  /\ DOMAIN ledger.reservations = {o.id : o \in {x \in Queued : x.mark > 0}}
  /\ \A o \in Queued :
       o.mark > 0 => /\ ledger.reservations[o.id].amount = o.mark
                     /\ ledger.reservations[o.id].venue = o.config.venue

\* Under the strict policy the cash and assets that waiting orders have earmarked
\* stay there for them: fills, deposits, gas and funding draw on what is left.
EarmarksCovered ==
  ~AllowNegative =>
    \A v \in Venues, a \in Assets : Reserved(ledger, v, a) <= Balance(ledger, v, a)

\* Under the strict policy an order can be refused for want of funds at its fill
\* only where gas has risen since it was placed: its earmark covers everything
\* else its fill debits (table in execution-models/src/limit.rs:26).
FundsRefusedOnlyByGas ==
  ~AllowNegative =>
    \A i \in EventsOf({"rejected"}) : events[i].why = "funds" =>
      \E j \in EventsOf({"placed"}) :
        events[j].order = events[i].order /\ events[j].gas < events[i].gas

\* No look-ahead, and no zombie orders: an order fills on a later bar than the one
\* it was placed on, and a limit order never past its time in force.
FillsWithinTimeInForce ==
  \A i \in EventsOf({"filled"}), j \in EventsOf({"placed"}) :
    events[i].order = events[j].order =>
      LET c == simulation.actions[events[j].node]
      IN  /\ events[i].at > events[j].at
          /\ IsLimit(c) /\ c.expire # NoExpiry => events[i].at <= events[j].at + c.expire

\* The price of a limit fill is one the bar traded at, and no worse for the
\* trader than the limit, gaps included.
LimitFillsAtTradedPrice ==
  [][pc = "limit_orders" /\ Len(events') > Len(events) /\ SE!Last(events').what = "filled" =>
       LET o == Head(ready)
           bar == BarOf(market, o.config.venue, Symbol(o.config))
           price == SE!Last(events').price
       IN  /\ bar.low <= price /\ price <= bar.high
           /\ IF o.side = "buy" THEN price <= o.config.limit ELSE price >= o.config.limit]_vars

\* Once a tick's accruals and liquidations are done, no position is left whose
\* margin and profit, at the worst price of the bar, are down to the maintenance
\* margin; in particular none that the funding of this tick brought there.
NoZombiePositions ==
  pc = "valuation" =>
    \A k \in DOMAIN ledger.perps :
      LET p == ledger.perps[k]
          worst == IF p.side = "long" THEN Quote(k).low ELSE Quote(k).high
      IN  worst > 0 =>
            (p.margin + UnrealizedPnl(p, worst)) * Bps > MaintenanceBps * worst * p.size

\* A position in the ledger has a size: liquidation_price and every valuation
\* divide by it.
OpenPositionsHaveSize == \A k \in DOMAIN ledger.perps : ledger.perps[k].size > 0

\* Every perp order of a strategy that opens buys a unit at the dearest price its bars
\* can have it filled at, and is not sized by what is left of a balance.
OpensInUnits(s) ==
  \A n \in DOMAIN s.actions, m \in s.markets :
    LET c == s.actions[n]
        bar == BarOf(m, c.venue, c.symbol)
    IN  c.type = "perp_order" /\ ~c.reduceOnly =>
          /\ c.amount.basis = "absolute"
          /\ bar # NoBar => c.amount.value >= ApplyBps(bar.high, "buy")

\* A run is not brought down: no debit that is expected to succeed is refused, and
\* nothing is divided by the size of an empty position. It takes a policy under which
\* balances may go negative (FundingNeverPanics), and orders that buy something.
NeverPanics == pc # "panicked"

\* What funding can take from the account and the position.
CashAndMargin(l, k) == Balance(l, k[1], USDC) + l.perps[k].margin

\* The funding counter reconciles with the cash and margin that moved, a charge
\* that was forgiven included (accrue_funding, #165).
FundingReconciles ==
  [][pc = "funding" /\ todo # <<>> /\ pc' = "funding" =>
       CashAndMargin(ledger, Head(todo)) - CashAndMargin(ledger', Head(todo))
         = ledger'.funding - ledger.funding]_vars

\* A refused action, and a refused fill, leave no trace in the ledger but the
\* order's own earmark: a deposit whose gas cannot be paid is not half done.
RefusalsLeaveNoTrace ==
  [][Len(events') > Len(events) /\ SE!Last(events').what \in {"refused", "rejected"} =>
       [ledger' EXCEPT !.reservations = <<>>] = [ledger EXCEPT !.reservations = <<>>]]_vars

\* The members of a list.
Members(s) == {s[i] : i \in DOMAIN s}

\* What actions came to.
Tried == EventsOf({"executed", "refused", "placed"})

\* How many chains the tick may start: by initial actions, signals and fills.
Started ==
  (IF tick = 1 THEN Len(simulation.initial) ELSE 0)
    + Cardinality(UNION {{s} \X DOMAIN simulation.signals[s] : s \in DOMAIN simulation.signals})
    + Cardinality(UNION {{i} \X DOMAIN simulation.chains[events[i].node] :
                           i \in {j \in EventsOf({"filled"}) : events[j].at = tick}})

\* Downstream actions run only after the action before them went through, on the
\* same tick: behind a refusal or a waiting order nothing runs. A cycle in the graph
\* cannot make an action run more often in a tick than chains were started in it,
\* by the initial actions, the signals and the fills.
ChainsFollowExecution ==
  /\ \A i \in Tried :
       LET n == events[i].node
       IN  \/ n \in Members(simulation.initial) \cup UNION {Members(s) : s \in Members(simulation.signals)}
           \/ \E j \in EventsOf({"executed", "filled"}) :
                /\ j < i /\ events[j].at = events[i].at
                /\ n \in Members(simulation.chains[events[j].node])
  /\ \A n \in DOMAIN simulation.actions :
       Cardinality({i \in Tried : events[i].at = tick /\ events[i].node = n}) <= Started

\* The book and the queue implement the abstract order book: an order is open as
\* long as it is queued, wherever it is queued, and settled by its last event.
OB == INSTANCE OrderBook WITH
        now <- tick,
        open <- [id \in {o.id : o \in Queued} |-> (CHOOSE o \in Queued : o.id = id).placed],
        settled <- {events[i].order : i \in EventsOf({"filled", "rejected", "expired"})},
        status <- CASE pc \in {"drain_resting", "drain_pending"} -> "closing"
                    [] pc = "done" -> "closed"
                    [] OTHER -> "running"

\* Every order that waits settles exactly once, after the tick of its placement
\* unless the run is over, and none is left when the run is done.
ImplementsOrderBook == OB!Spec

\* The phases still to come, a tick being begun when its funding is.
PhasesLeft ==
  [funding |-> 12, yields |-> 11, liquidations |-> 10, valuation |-> 9, market_orders |-> 8,
   limit_orders |-> 7, signals |-> 6, snapshot |-> 5, next_tick |-> 4, drain_resting |-> 3,
   drain_pending |-> 2, done |-> 1, panicked |-> 0]

\* What a run has left of ticks, of phases, of things for the phase to handle, of
\* chains to start, of actions new to the chain and of actions the chain is to look at.
Rank ==
  <<Ticks - tick, PhasesLeft[pc],
    Len(todo) + Len(ready) + (CASE pc = "drain_resting" -> Len(resting)
                                [] pc = "drain_pending" -> Len(pending)
                                [] OTHER -> 0),
    Len(roots), Cardinality(DOMAIN simulation.actions \ visited), Len(stack)>>

\* Of two ranks, r is the lower: it is where they first differ.
Below(r, s) ==
  /\ \A i \in DOMAIN r : r[i] >= 0
  /\ \E i \in DOMAIN r : r[i] < s[i] /\ \A j \in 1 .. i - 1 : r[j] = s[j]

\* Every step brings a run nearer to its end, cycles in the graph and orders that
\* fills and chains add to the book under scan included: every scan of the queue and
\* the book empties what it took, and every chain runs out of actions.
StepsDescend == [][Below(Rank', Rank)]_vars

----------------------------------------------------------------------------
(* What comments and docs say of the engine and the code does not keep.     *)

\* "clamped to available balance" (engine.rs, the debit of accrue_funding): a
\* funding charge is always collectible.
FundingNeverPanics ==
  pc = "funding" /\ todo # <<>> => CanCollectFunding(ledger, Head(todo), FundingOwed(Head(todo)))

\* "its direction is the closing direction of that position" (limit.rs,
\* place_perp_limit): a reduce-only limit that fills closes a position in the
\* direction of the limit.
ReduceOnlyFillsInItsDirection ==
  [][pc = "limit_orders" /\ Len(events') > Len(events) /\ SE!Last(events').what = "filled" =>
       LET o == Head(ready)
       IN  o.config.type = "perp_order" /\ o.config.reduceOnly =>
             o.side = ClosingDirection(ledger.perps[PerpKey(o.config)])]_vars
=============================================================================
