------------------------------- MODULE Fills -------------------------------
(***************************************************************************)
(* The execution models (src/crates/execution-models): what a fill of an   *)
(* order does to the ledger, at which price, and what an order that waits   *)
(* reserves.  Every operator is pure; the engine decides when to apply it. *)
(*                                                                         *)
(* Prices and amounts are integers.  Quotients are taken with \div, which   *)
(* rounds down to the unit where the code's decimals keep a fraction.      *)
(* Pool reserves and volume impact, which change only the price of a       *)
(* market swap, are left out.                                              *)
(***************************************************************************)
EXTENDS LedgerOps

CONSTANTS
  Gasless,           \* venues that charge no gas (hyperliquid)
  FeeBps,            \* trading fee, in basis points of the notional
  SlippageBps,       \* adverse price change of a market fill, in basis points
  NoBar              \* a venue and symbol without a candle on the current bar

Bps == 10000

\* Validation lets no negative fee or slippage through. It does let a slippage of
\* more than the whole price through, whose sales would be at a negative price:
\* that is left out.
ASSUME FillsAssumption ==
  /\ FeeBps \in Nat
  /\ SlippageBps \in 0 .. Bps

\* An execution: the ledger it leaves, or why it was rejected, or "panic" where
\* the code divides by zero.
Executed(l) == [why |-> "executed", ledger |-> l]
Refused(l, why) == [why |-> why, ledger |-> l]

\* Why the ledger refuses to take n, where it has `otherwise` to say of amounts
\* that are not negative.
Refusal(n, otherwise) == IF n < 0 THEN "negative" ELSE otherwise

----------------------------------------------------------------------------
(* Prices and costs.                                                        *)

\* A market is what is known at a tick: the bars, gas, funding rates and aprs.
BarOf(market, venue, symbol) == market.bar[<<venue, symbol>>]

Fee(notional) == (notional * FeeBps) \div Bps

Gas(market, venue) == IF venue \in Gasless THEN 0 ELSE market.gas

\* The price a rule takes from a bar. The engine never asks for next_open here:
\* it defers such an order and fills it with the rule "open".
ReferencePrice(bar, dir, rule) ==
  CASE rule = "close" -> bar.close
    [] rule = "open" -> bar.open
    [] rule = "mid" -> (bar.high + bar.low) \div 2
    [] rule = "worse_side" -> IF dir = "buy" THEN bar.high ELSE bar.low

ApplyBps(price, dir) ==
  IF dir = "buy" THEN price + (price * SlippageBps) \div Bps
  ELSE price - (price * SlippageBps) \div Bps

MarketPrice(bar, dir, rule) == ApplyBps(ReferencePrice(bar, dir, rule), dir)

----------------------------------------------------------------------------
(* Swaps. Exactly one side is the stable asset.                             *)

SwapValid(c) == (c.from = USDC) # (c.to = USDC)
SwapDirection(c) == IF c.from = USDC THEN "buy" ELSE "sell"
BaseAsset(c) == IF c.from = USDC THEN c.to ELSE c.from

SwapAmount(l, c) ==
  IF c.amount.basis = "all" THEN Greater(Available(l, c.venue, c.from), 0)
  ELSE c.amount.value

Buy(l, market, c, amount, price) ==
  LET fee == Fee(amount)
      gas == Gas(market, c.venue)
      total == amount + fee + gas
      traded == Credit(Debit(l, c.venue, c.from, total), c.venue, c.to, amount \div price)
  IN  IF CanDebit(l, c.venue, c.from, total)
      THEN Executed(RecordGas(RecordFee(traded, fee), gas))
      ELSE Refused(l, "funds")

Sell(l, market, c, amount, price) ==
  LET proceeds == amount * price
      fee == Fee(proceeds)
      gas == Gas(market, c.venue)
      net == proceeds - fee - gas
      traded == Credit(Debit(l, c.venue, c.from, amount), c.venue, c.to, net)
  IN  IF net <= 0 THEN Refused(l, "proceeds")
      ELSE IF CanDebit(l, c.venue, c.from, amount)
           THEN Executed(RecordGas(RecordFee(traded, fee), gas))
           ELSE Refused(l, "funds")

SwapAt(l, market, c, amount, price) ==
  IF price = 0 \/ amount <= 0 THEN Refused(l, "nothing")
  ELSE IF SwapDirection(c) = "buy" THEN Buy(l, market, c, amount, price)
  ELSE Sell(l, market, c, amount, price)

ExecuteSwapAt(l, market, c, price) ==
  IF SwapValid(c) THEN SwapAt(l, market, c, SwapAmount(l, c), price)
  ELSE Refused(l, "unsupported")

ExecuteSwap(l, market, c, rule) ==
  LET bar == BarOf(market, c.venue, BaseAsset(c))
  IN  IF ~SwapValid(c) THEN Refused(l, "unsupported")
      ELSE IF bar = NoBar THEN Refused(l, "no_bar")
      ELSE ExecuteSwapAt(l, market, c, MarketPrice(bar, SwapDirection(c), rule))

----------------------------------------------------------------------------
(* Perps. A position is [side, size, cost, margin], cost = size * entry.    *)

PerpKey(c) == <<c.venue, c.symbol>>

\* An absent or zero leverage means 1.
Margin(c) == c.amount.value \div (IF c.leverage = 0 THEN 1 ELSE c.leverage)

UnrealizedPnl(p, price) ==
  IF p.side = "long" THEN price * p.size - p.cost ELSE p.cost - price * p.size

OpenPerpAt(l, c, price) ==
  LET k == PerpKey(c)
      notional == c.amount.value
      fee == Fee(notional)
      held == k \in DOMAIN l.perps
      size == notional \div price
      added == [side |-> c.side,
                size |-> size + (IF held THEN l.perps[k].size ELSE 0),
                cost |-> notional + (IF held THEN l.perps[k].cost ELSE 0),
                margin |-> Margin(c) + (IF held THEN l.perps[k].margin ELSE 0)]
      paid == RecordFee(Debit(l, c.venue, USDC, Margin(c) + fee), fee)
  IN  IF held /\ l.perps[k].side # c.side THEN Refused(l, "opposite")
      ELSE IF held /\ added.size = 0 THEN Refused(l, "panic")
      ELSE IF CanDebit(l, c.venue, USDC, Margin(c) + fee) THEN Executed(SetPerp(paid, k, added))
      ELSE Refused(l, Refusal(Margin(c) + fee, "funds"))

Reduced_KeepsEmptied(l, k, rest, settlement) ==
  Credit(SetPerp(l, k, rest), k[1], USDC, settlement)

\* The ledger once a position is reduced to `rest`; an emptied one is removed.
Reduced(l, k, rest, settlement) ==
  IF rest.size = 0 THEN ClosePerp(l, k, settlement)
  ELSE Credit(SetPerp(l, k, rest), k[1], USDC, settlement)

\* What a close of part of a position returns: at most its share of the margin
\* is lost, and the fee is collected only out of what is returned.
ClosePerpAt(l, c, price) ==
  LET k == PerpKey(c)
      p == l.perps[k]
      closed == Lesser((c.amount.value * p.size) \div p.cost, p.size)
      costShare == (p.cost * closed) \div p.size
      marginShare == (p.margin * closed) \div p.size
      pnl == UnrealizedPnl([side |-> p.side, size |-> closed, cost |-> costShare], price)
      gross == marginShare + pnl
      fee == Fee(closed * price)
      collected == Lesser(fee, Greater(gross, 0))
      settlement == Greater(gross - fee, 0)
      rest == [side |-> p.side, size |-> p.size - closed,
               cost |-> p.cost - costShare, margin |-> p.margin - marginShare]
  IN  IF k \notin DOMAIN l.perps THEN Refused(l, "no_position")
      ELSE IF p.size = 0 THEN Refused(l, "panic")
      ELSE Executed(RecordFee(Reduced(l, k, rest, settlement), collected))

ExecutePerpAt(l, c, price) ==
  IF price = 0 THEN Refused(l, "nothing")
  ELSE IF c.reduceOnly THEN ClosePerpAt(l, c, price) ELSE OpenPerpAt(l, c, price)

\* A reduce-only order trades against the position it finds.
ClosingDirection(p) == IF p.side = "long" THEN "sell" ELSE "buy"
OpeningDirection(c) == IF c.side = "long" THEN "buy" ELSE "sell"

ExecutePerp(l, market, c, rule) ==
  LET bar == BarOf(market, c.venue, c.symbol)
      dir == IF c.reduceOnly THEN ClosingDirection(l.perps[PerpKey(c)]) ELSE OpeningDirection(c)
  IN  IF bar = NoBar THEN Refused(l, "no_bar")
      ELSE IF c.reduceOnly /\ PerpKey(c) \notin DOMAIN l.perps THEN Refused(l, "no_position")
      ELSE ExecutePerpAt(l, c, MarketPrice(bar, dir, rule))

----------------------------------------------------------------------------
(* Yields. Gas is paid in the deposited asset.                              *)

\* The close of an asset on its venue, 1 for the stable asset, 0 without a bar.
YieldPrice(market, k) ==
  LET bar == BarOf(market, k.chain, k.asset)
  IN  IF k.asset = USDC THEN 1 ELSE IF bar = NoBar THEN 0 ELSE bar.close

\* Gas is debited after the deposit or withdrawal has been made on the same copy
\* of the ledger: when it is refused the copy is half done, and the caller must
\* discard it.
PayGas(l, half, market, k, price) ==
  LET gas == Gas(market, k.chain)
  IN  IF CanDebit(half, k.chain, k.asset, gas \div price)
      THEN Executed(RecordGas(Debit(half, k.chain, k.asset, gas \div price), gas))
      ELSE Refused(half, "funds")

ExecuteYieldDeposit(l, market, c) ==
  LET k == c.position
      price == YieldPrice(market, k)
      spare == Greater(Available(l, k.chain, k.asset), 0) - Gas(market, k.chain) \div price
      amount == IF c.amount.basis = "all" THEN Greater(spare, 0) ELSE c.amount.value
  IN  IF price = 0 \/ amount = 0 THEN Refused(l, "nothing")
      ELSE IF ~CanDepositYield(l, k, amount) THEN Refused(l, Refusal(amount, "funds"))
      ELSE PayGas(l, DepositYield(l, k, amount), market, k, price)

ExecuteYieldWithdraw(l, market, c) ==
  LET k == c.position
      price == YieldPrice(market, k)
      amount == IF c.amount.basis = "all" THEN YieldValue(l, k) ELSE c.amount.value
  IN  IF price = 0 \/ amount = 0 THEN Refused(l, "nothing")
      ELSE IF ~CanWithdrawYield(l, k, amount) THEN Refused(l, Refusal(amount, "no_position"))
      ELSE PayGas(l, WithdrawYield(l, k, amount), market, k, price)

----------------------------------------------------------------------------
(* Orders that wait: limit orders, and market orders deferred a bar.        *)

SwapSpend_WithoutGas(market, c) ==
  IF ~SwapValid(c) \/ c.amount.value <= 0 THEN 0
  ELSE IF SwapDirection(c) = "buy"
  THEN c.amount.value + Fee(c.amount.value)
  ELSE c.amount.value

\* What the fill of an order will debit, 0 when it only credits: a buy spends
\* its amount, fee and gas, a sale its amount, a perp open its margin and fee.
SwapSpend(market, c) ==
  IF ~SwapValid(c) \/ c.amount.value <= 0 THEN 0
  ELSE IF SwapDirection(c) = "buy"
  THEN c.amount.value + Fee(c.amount.value) + Gas(market, c.venue)
  ELSE c.amount.value

PerpSpend(c) ==
  IF c.reduceOnly \/ c.amount.value <= 0 THEN 0 ELSE Margin(c) + Fee(c.amount.value)

\* The earmark [asset, amount] of an order.
Earmark(market, c) ==
  IF c.type = "swap" THEN [asset |-> c.from, amount |-> SwapSpend(market, c)]
  ELSE [asset |-> USDC, amount |-> PerpSpend(c)]

\* A limit order fills when the bar reaches its limit, at the limit or, when the
\* bar opened through it, at the open.
LimitTouched(bar, side, limit) == IF side = "buy" THEN bar.low <= limit ELSE bar.high >= limit

LimitFillPrice_AtLimit(bar, side, limit) == limit

LimitFillPrice(bar, side, limit) ==
  IF side = "buy" THEN Lesser(bar.open, limit) ELSE Greater(bar.open, limit)

\* The side of a limit order is fixed when it is placed.
LimitSide(l, c) ==
  IF c.type = "swap" THEN SwapDirection(c)
  ELSE IF c.reduceOnly THEN ClosingDirection(l.perps[PerpKey(c)])
  ELSE OpeningDirection(c)

\* Why a limit order is not placed, "placed" when it is.
PlacementOutcome(l, market, c) ==
  LET mark == Earmark(market, c)
  IN  IF c.type = "swap" /\ ~SwapValid(c) THEN "unsupported"
      ELSE IF c.limit = 0 THEN "no_limit"
      ELSE IF c.type = "perp_order" /\ c.reduceOnly /\ PerpKey(c) \notin DOMAIN l.perps
      THEN "no_position"
      ELSE IF ~AllowNegative /\ mark.amount > 0
              /\ mark.amount > Available(l, c.venue, mark.asset)
      THEN "funds"
      ELSE "placed"
=============================================================================
