----------------------------- MODULE MarketData -----------------------------
(* What the engine reads of the bundle (market.rs, and `source_value` in      *)
(* engine.rs). The bundle is a sequence of loaded series, [series, rows], in  *)
(* the order they were loaded; rows are times, and a value that was read is   *)
(* known by the rows it comes from, each [series, ts].                        *)
EXTENDS MarketSeries, Integers, Sequences, FiniteSetsExt

-----------------------------------------------------------------------------

\* The times at which the bundle has a row of the series.
Times(bundle, series) ==
  UNION {{bundle[k].rows[i] : i \in DOMAIN bundle[k].rows} :
           k \in {j \in DOMAIN bundle : bundle[j].series = series}}

Within(times, lo, hi) == {t \in times : lo <= t /\ t <= hi}

Exact(bundle, series, ts) ==
  IF ts \in Times(bundle, series) THEN {[series |-> series, ts |-> ts]} ELSE {}

LastKnown(bundle, series, ts) ==
  LET known == {t \in Times(bundle, series) : t <= ts}
  IN  IF known = {} THEN {} ELSE {[series |-> series, ts |-> Max(known)]}

\* `price_any`: the last known price of a symbol, whatever venue it is from; of
\* two at one time, the one that was loaded later.
PriceAny(bundle, symbol, ts) ==
  LET of     == {k \in DOMAIN bundle : /\ bundle[k].series.kind = "candle"
                                       /\ bundle[k].series.symbol = symbol}
      known  == {t \in UNION {Times(bundle, bundle[k].series) : k \in of} : t <= ts}
      having == {k \in of : Max(known) \in Times(bundle, bundle[k].series)}
  IN  IF known = {} THEN {} ELSE {[series |-> bundle[Max(having)].series, ts |-> Max(known)]}

\* The mark of a position: its bar at `ts`, else the last close that is not
\* older than the bound.
CloseAt(bundle, series, ts, age) ==
  LET close == LastKnown(bundle, series, ts)
  IN  IF age = None THEN close ELSE {row \in close : row.ts = ts \/ row.ts >= ts - age}

\* The lookup of a range that ends before it starts panics.
CloseAtPanics(bundle, series, ts, age) ==
  /\ age # None
  /\ age < 0
  /\ Times(bundle, series) # {}
  /\ ts \notin Times(bundle, series)

-----------------------------------------------------------------------------
(* A source of a signal has the series it reads and the windows over it, each *)
(* [transform, bars], outermost first. A price may have no venue.             *)

\* What an observation says, and the rows it rests on.
Nothing   == [says |-> "nothing", rows |-> {}]
Failure   == [says |-> "panic", rows |-> {}]
Value(rows) == [says |-> "value", rows |-> rows]

\* The mutant of `ReadsAreKnown`: a bar that is missing is carried forward.
Reading_CarryForward(bundle, source, ts) ==
  LET rows == IF source.kind = "candle" /\ source.venue = None THEN PriceAny(bundle, source.symbol, ts)
              ELSE LastKnown(bundle, Series(source.kind, source.venue, source.symbol), ts)
  IN  IF rows = {} THEN Nothing ELSE Value(rows)

Reading(bundle, source, ts) ==
  LET series == Series(source.kind, source.venue, source.symbol)
      rows   == CASE source.kind = "candle" /\ source.venue = None -> PriceAny(bundle, source.symbol, ts)
                  [] source.kind \in {"candle", "funding"} /\ source.venue # None -> Exact(bundle, series, ts)
                  [] OTHER -> LastKnown(bundle, series, ts)
  IN  IF rows = {} THEN Nothing ELSE Value(rows)

\* A transform of no sample: a window of zero bars, of which one was looked for.
OfNone(transform) ==
  IF transform \in {"rolling_high", "rolling_low"} THEN Value({}) ELSE Failure

\* The samples of a window are taken newest first, up to the first gap, and
\* speak only if they fill it.
Sampled(over, samples) ==
  LET taken == {k \in DOMAIN samples : \A j \in 0..k : samples[j] # Nothing}
  IN  IF Failure \in {samples[k] : k \in taken} THEN Failure
      ELSE IF Cardinality(taken) < over.bars THEN Nothing
      ELSE IF taken = {} THEN OfNone(over.transform)
      ELSE Value(UNION {samples[k].rows : k \in taken})

\* How many samples a window looks for.
Depth(over) == IF over.bars > 1 THEN over.bars ELSE 1

\* What a source says at a time under its n innermost windows.
Observe(bundle, source, step) ==
  LET at[n \in 0..Len(source.windows)] ==
        IF n = 0 THEN [t \in Int |-> Reading(bundle, source, t)]
        ELSE LET over == source.windows[Len(source.windows) + 1 - n]
             IN  [t \in Int |-> Sampled(over, [k \in 0..(Depth(over) - 1) |-> at[n - 1][t - k * step]])]
  IN  at

SourceValue(bundle, source, ts, step) ==
  Observe(bundle, source, step)[Len(source.windows)][ts]

-----------------------------------------------------------------------------
(* The clock and the coverage of the requested window.                        *)

TimesOf(bundle, kinds) ==
  UNION {Times(bundle, bundle[k].series) :
           k \in {j \in DOMAIN bundle : bundle[j].series.kind \in kinds}}

\* The mutant of `ImplementsReplay`: only a time that every series has is a tick.
Clock_Common(bundle, start, end) ==
  LET candles == Within({t \in TimesOf(bundle, {"candle"}) :
                           \A k \in DOMAIN bundle : bundle[k].series.kind = "candle" =>
                             t \in Times(bundle, bundle[k].series)}, start, end)
  IN  IF candles # {} THEN candles
      ELSE Within(TimesOf(bundle, {"funding", "yield", "liquidity"}), start, end)

\* Candles are the clock; without any, whatever else drives a strategy. Gas
\* does not.
Clock(bundle, start, end) ==
  LET candles == Within(TimesOf(bundle, {"candle"}), start, end)
  IN  IF candles # {} THEN candles
      ELSE Within(TimesOf(bundle, {"funding", "yield", "liquidity"}), start, end)

\* A run with actions that start it ticks at its start, and every run ticks.
RunTimes(bundle, start, end, initial) ==
  LET clock == Clock(bundle, start, end)
  IN  IF clock = {} \/ initial THEN clock \cup {start} ELSE clock

\* A bar is missing between two neighbours at least two whole steps apart.
InteriorGap(times, step) ==
  \E t, u \in times : u - t >= 2 * step /\ ~\E v \in times : t < v /\ v < u

\* The mutant of `FailPolicyRunsWhole`: what is missing at the end is not
\* looked for.
Covered_Leading(times, start, end, step) ==
  /\ times # {}
  /\ (Min(times) - start) \div step = 0
  /\ ~InteriorGap(times, step)

\* Whether a required series covers the window, up to an offset below a step at
\* either end.
Covered(times, start, end, step) ==
  /\ times # {}
  /\ (Min(times) - start) \div step + (end - Max(times)) \div step = 0
  /\ ~InteriorGap(times, step)

CheckRequiredCoverage(bundle, required, start, end, step) ==
  \A s \in required : Covered(Within(Times(bundle, s), start, end), start, end, step)

\* The mutant of `FundingPointsOnce`: the window is one interval long, however
\* long ago the last tick was.
FundingWindow_Interval(ts, last, step) == [lo |-> ts - step, hi |-> ts]

\* The funding rates a position is charged for at a tick are those since the
\* last one: after `lo`, up to and with `hi`. The first tick has the interval.
FundingWindow(ts, last, step) ==
  [lo |-> IF last = None THEN ts - step ELSE last, hi |-> ts]

FundingPoints(bundle, series, window) ==
  {t \in Times(bundle, series) : window.lo < t /\ t <= window.hi}
=============================================================================
