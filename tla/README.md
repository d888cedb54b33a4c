# Catalyst backtest in TLA+

Catalyst backtests trading strategies. A strategy is a graph of signals and actions; the Rust
engine replays market data tick by tick against a simulated portfolio; an HTTP service runs
backtests as jobs and Python clients submit them and poll. This directory models the parts in
which steps interleave, state is carried from tick to tick, or money moves. It checks the models
with TLC and proves with TLAPS, for every instance, all of the safety properties that the passing runs
check; two liveness properties stay with TLC. Paths below are relative to the repository; `src/` is the repository's root in `PROJECT.json`.

## 1. The system

| Component | State it keeps | Operations | What makes it correct |
| --- | --- | --- | --- |
| `crates/portfolio-ledger` | balances per venue and asset, perp and yield positions, reservations per order, cost counters | reserve, release, credit, debit, open/set/close perp, deposit/accrue/withdraw yield, record fee/gas/funding | earmarked cash is never spent; a yield position never owes more than it holds; moves conserve money |
| `crates/execution-models` | none; functions on a ledger and a bar | swap, perp, yield, limit placement, limit fill price | a fill trades at a price of the bar; an order's earmark covers its fill |
| `crates/simulation-engine`, tick loop | the ledger, the book of limit orders, the queue of deferred market orders, the ids, the trace | accruals, liquidation, fills, chains of actions, end of run | no look-ahead, no lost or zombie order, no leaked earmark, refused actions leave no trace, runs end |
| `crates/simulation-engine`, signals | last known condition, fire counts and last fire per signal | evaluate conditions, gate, fire | missing data neither fires nor suppresses; cooldowns and budgets hold |
| `crates/simulation-service` | index of jobs, bounded channel, worker tasks | submit, poll, fetch, run a job | no job lost or run twice; status and result agree |
| `packages/client` | one call in progress | submit, wait, fetch | a call ends |
| `crates/graph-compiler`, `crates/contracts` | in-degrees and queue of the sort | check nodes and edges, derive triggers, targets and inputs, sort the signals, list the data needed | inputs are evaluated first; only cycles are refused; every edge drives; the data read is the data listed |
| `crates/simulation-policies` | none | merge profiles, contracts and overrides, validate | an accepted policy is one the engine can run |
| `crates/market-data-loader` | files being read, rows so far | list, prune, read concurrently, order | a series is loaded whole and in order, however the reads end |
| `crates/simulation-engine`, market index | none | exact, last known and any-venue lookups, marks with a bound on age, funding windows, nested windows, clock, coverage | nothing is read that was not known; every funding rate is in one window; no silently shorter run |
| `packages/market-data*` | Parquet files | download, merge, write | not modelled |
| `crates/result-reporter` | none | folds a trace into a summary | not modelled |
| `apps/web` | cache of runs in the browser | poll, edit | not modelled |

**How they interact.** A handler records a job in the index and puts its id on the channel. A
worker takes the id, copies the job, and runs compiler, loader and engine; the engine runs on a
thread of its own, the rest on the worker task. The engine is single-threaded, but its work
interleaves all the same: a fill or a signal starts a chain of actions, and these place orders in
the book that is being scanned and spend cash that other orders have earmarked. Every movement of
money goes through the ledger.

**What is hard.** (1) Reservations: an order earmarks at placement what its fill will cost, at
another price and another tick's gas, and every way out of the book must free it. (2) Collections
that change while they are walked. (3) Actions that fail halfway. (4) Accruals that reach cash and
margin that orders and other positions count on. (5) Missing data, which is neither true nor
false. (6) In the service, threads that interleave between two lock regions, a full channel,
panics, restarts, and lost answers. `PROJECT.json` lists each as a hazard at its line.

## 2. The modules

```
LedgerOps ── Ledger ── LedgerProofs      Escrow      (abstract: what reservations promise)
    └─ Fills ── Engine ── EngineProofs   OrderBook   (abstract: what a waiting order is promised)
                             └─ EngineLedgerProofs
Signals ── SignalsProofs
JobService ── JobServiceProofs           RunRegistry (abstract: what a run goes through)
TopoSort ── TopoSortProofs
    └─ Compiler ─┐             │
       Loader   ─┼─ Backtest ── BacktestProofs
       MarketData┤                       Replay (abstract: what a backtest replays)
       Policies ─┘                       MarketSeries, Lists (shared vocabulary)
```

`LedgerOpsProofs` holds the lemmas about the operations of the ledger, for `LedgerProofs` and
`EngineLedgerProofs`.

`Ledger` refines `Escrow`, `Engine` refines `OrderBook`, `JobService` refines `RunRegistry`, `Backtest`
refines `Replay`; each mapping is an `INSTANCE ... WITH` and a property of a run. `MC*` modules hold the small instances.
A definition `Foo_Suffix` next to `Foo` is `Foo` with a plausible fault. It is used nowhere in a
specification; putting it in the place of `Foo` shows that a property notices.

**LedgerOps** gives each method of `Ledger` as `CanX`, the condition under which it returns `Ok`,
and `X`, the ledger it leaves. A method that returns `Err` changes nothing. Amounts are integers;
the code's decimals are exact on what is done here. `reserved`, a sum over the reservations, is
the number of earmarked units, which is what the proofs count. A perp keeps its cost, size times
entry price, in place of the entry price, so that averaging two fills stays exact.

**Ledger** is the ledger under arbitrary callers, with arguments of either sign.

**Fills** is `execution-models`: the checks of a swap, perp or yield action in the order of the
code, the reason it is refused with, and the ledger it leaves. It is evaluated on a copy of the
ledger, as `run_action_chain` does, so a refusal halfway through is visible as a reason with no
change committed.

**Engine** is `run` in `engine.rs`. `pc` is the place in the tick loop; a step handles one
position, one order, one action or one signal, so the chains a fill starts run between two orders
of the scan as they do in the code. `todo` is the loop over positions or signals, `ready` and
`keep` are the taken book and the list rebuilt from it, `roots`, `stack` and `visited` are the
chain. `events` is the trace. The input, that is strategy, policy, data, and whether a signal
fires, is chosen. `Panic` is where the code's `expect` or a decimal division fails: the run is
aborted and the state stays as it was. A deferred market order logs `filled` where the code logs
`action_executed`, so that both kinds of waiting order can be spoken of together.

**Signals** is `evaluate_signals`: the conditions of a tick are decided in the compiler's order,
then each driving signal passes the gates. A leaf's outcome (holds, fails, unknown) is arbitrary.
`seen` and `fires` record what was observed and what fired, and are read by the properties only.

**JobService** is `state.rs`, `worker.rs`, the polling handlers and the client's `wait` and `run`.
Each access to the index under its lock is a step. `Restart` loses index, channel and workers.
An id contains the time at which it was made, so ids go on across restarts. The abstract registry
has for each run a status and whether it has a result, so a status and a result that are stored
apart would not implement it.

**TopoSort** is `topo_order_signals` loop by loop: the in-degrees, the queue, and the inner loop over
the signals that read the one just visited. The code keys its maps by id and finds the dependents
of a signal in a list; the model keys by position and passes over all positions, which visits the
same dependents in the same order.

**Compiler** is `compile`. A graph is a record of nodes and edges as in `graph.rs`; texts and JSON
values of a config are kept as what the checks tell apart (an amount is `"percent"`,
`"zero_percent"`, ...). The checks are steps in the order of the code, the sort is TopoSort's, and
`Emit` is the compiled graph with its data requirements. `ChainsInto` and `InitialActions` are the
lookups that `ExecGraph::from_compiled` builds of it.

**Policies** has no state: the three profiles, `resolve_policy`, `apply_execution_overrides` and
`validate` as operators. A decimal knob stays a text; `ParsesDecimal` is the reader of the
validation (a float), `IsDecimal` the reader of the engine.

**Loader** is `load_bundle` and `read_window`. A series is loaded after the other; of its files up to
`MAX_CONCURRENT_FILE_READS` are in flight, any of which may end next or fail. Files have a name, a
date if their name is one, and rows; a row is its time. The store, that is an object store and its
listing, is the environment: `lost` are the items its listing fails for. Files are a set, as any may
end next; the rows are sorted by a stable sort once the last has ended.

**MarketData** is the index of the bundle and `source_value`. A value is known by the rows it comes
from, so that what a signal or a mark rests on can be compared with the time of the tick. Windows
nested in one another are read by a recursive function of how many of them remain (`Observe`).

**Backtest** composes the four: `run_job` of the service up to the engine, then the start of `run`
(policy, coverage, clock) and its ticks. On a tick at most one action is filled: a fill matters here
for the knobs that pricing reads, the panic they may lead to, and the series that positions are
marked by from then on, and each of these is reached with single fills. What orders and positions do
is Engine, where the conditions of signals and the market of a tick are inputs.

**Replay** says what all of that comes to for the data: the history is the data sent along, or all that
the files found have of the series asked for, in a window that ends with the run; it is fixed before the
first tick; the candles of the span are ticks, in order and once, and a run that ends has left none
out. Of the loader it has only which files are not found. That reads end in any order, that series come
one after the other and days are pruned, cannot be told from it, and so not from a run: this is the
determinism that `docs/system-design.md` asks for, up to which of two rows of one time wins (section 5).

## 3. The runs

| Run | Question | Instance and why it is enough |
| --- | --- | --- |
| `Ledger_strict` | Can any sequence of ledger operations overcommit an account or lose money in a yield? Does the ledger implement the escrow? | one venue, two assets, one perp, one pool, two orders (one to reserve twice, one to compete), amounts -1, 1, 2, balances within 2: every sign and every comparison with equality and both sides of it |
| `Engine_strict` | The life of orders, positions and chains under the strict policy | three ticks: placed, waits one bar, fills or lapses on the third; two limit, two perp, two deferred strategies with cyclic and branching chains; bars that are quiet, wick through, gap through, or are missing; gas that rises; funding of either sign; cash that does and does not suffice |
| `Engine_negative` | What of this holds where balances may go negative: does anything bring a run down | the perp strategies with deferred orders, same data |
| `Signals` | How often, how soon and on what evidence signals fire | two leaves, all four kinds of node, eight policies with every trigger and repeat rule, three ticks one or two time units apart, each leaf with or without data |
| `JobService` | Is a job ever lost, run twice, or misreported; do sent jobs and waiting calls end | two clients, two workers, a channel of one, three submissions, one restart, panics outside the engine: full channel, refusal racing workers, and a call across a restart all occur |
| `Backtest` | From the graph to the last tick: is the compiled graph the graph, is what is loaded, checked and read the data there is | 7 600 requests. Graphs: two combinators, two actions and a leaf under every sequence of up to four more edges out of nine (self-loops, cycles, repeated and forbidden edges), with disabled nodes, and every refused config. Stores: full, with a gap, ending early, starting late, of a single bar, with a file without a date and rows out of order; days of two bars and runs of three, so a window spans days and warmup reaches before the first; two reads in flight for the code's sixteen, one lost item, failing reads. Policies: each profile, with knobs and overrides that are refused for every reason, and windows of two and three bars nested in one another. Two venues with candles, so that the clock is made of series that do not have the same bars |

The amounts of the engine's instance (powers of two times 15,
rates in quarters) make prices, sizes, margins and fees of first fills divide exactly; later
quotients (liquidation levels, fees and interest on accrued amounts) round down to the unit where
the code's decimals keep the fraction, and no property depends on that fraction. The order ids
0 to 15 are more than a run can place. No perp order of the instance opens less than a unit
(`OpensInUnits`, which `MCUnits` asserts of it): a size is a quotient, rounded down in the model, and
the code's division by a position's size fails only for a size of zero, which `Engine_empty_position`
shows where an order asks for nothing. Deadlock is checked in every run but those of `JobService`,
which may stop once the submissions of the bound are used up.

That a run ends is checked as an action property, which a proof can reach: every step lowers a rank of
six numbers (`StepsDescend`: ticks, phases, what a phase has at hand, chains, actions not yet in the
chain, actions the chain is to look at). With no deadlock before the end, and fairness, a run comes to
it.

The ledger of a run is checked by what fills, funding and liquidation make of it. That no reservation
in it is uncovered (`EarmarksCovered`) is the invariant that `Ledger_strict` checks of the ledger alone;
for a run it is proved. `OpenPositionsHaveSize` and `FundingNeverPanics` are checked where they fail,
and in `Engine_negative` through `NeverPanics`, the panics that they rule out.

`FailPolicyRunsWhole` speaks of data on the grid of the run, as whole steps are all the coverage
check counts; `LoadIsWhole` of the files whose listing did not fail; `WarmupSuffices` of stores that
have every bar on the grid.

**Fairness.** `Engine` has weak fairness of `Next`: the process is given time while it has a step.
`JobService` has weak fairness of each handler once it was called, of each worker, and of each
client's polling: the runtime schedules a ready task, `wait` is a loop. A client polls until it
may stop, and either an answer or its deadline stops it, so `CallsEnd` holds also where the job
never ends. Nothing obliges anyone to submit, to lose an answer, or to restart.

**Runs that are violated.** Each shows a place where the code does other than a comment or a doc of
the repository says; the lines are under `findings`.

| Run | What it shows |
| --- | --- |
| `Engine_funding_panic` | Funding takes min(owed, balance) but `debit` compares with what is available: with cash earmarked by a waiting order the `expect` fails and the backtest aborts. |
| `Engine_empty_position` | A perp sized by an empty balance opens with size zero, by which the liquidation price divides. |
| `Engine_flipped` | A reduce-only limit that outlives a long closes the short that followed, at the long's price. |
| `JobService_panic` | A panic on the worker task leaves its job running for ever. |
| `Backtest_knob_panics` | A fee of `1e-2` or a slippage of `NaN` is valid to the validation, which reads floats, and panics at the first fill, which reads decimals. |
| `Backtest_price_venue` | A price without a venue is decided on the price of a venue that another signal brought in, not the one the compiler resolved. |

Two more places where the code is looser than a sentence about it, without a run: a reduce-only order
whose position has been closed is rejected at its fill with no change of gas, where `engine.rs:1028`
allows for gas only; and under `crossing` a signal fires on the first tick it is known to hold, with
no earlier tick on which it failed (`engine.rs:651`, `unwrap_or(false)`), which
`simulation-engine/README.md:28` calls a false-to-true transition. `FirstHoldFires` states the latter
as the behaviour it is.

## 4. The proofs

`LedgerOpsProofs` says of each method of the ledger, once: that it keeps the shape of the record, what
it does to the earmarked units of an account, and what it moves (`Moves`).

`LedgerProofs` proves, for every set of venues, assets, orders, positions and amounts:

- `LedgerTypeCorrect`: `Spec => []TypeOK`. One lemma per operation (`ReserveType`, ...) says that
  it keeps the shape of the record; `NextType` puts them together.
- `EarmarkedNeverSpent`: `Spec => []NoOvercommit`. `NoOvercommit` is not inductive: that a
  reservation is not negative and that the earmarked units of an account are finitely many is
  needed to say what `reserve` and `release` do to their number. The invariant is
  `IInv == TypeOK /\ Covered`, where `Covered` adds finiteness. The lemmas `UnitsAfterReserve` and
  `UnitsAfterRelease` give the set of units after an operation, `ReservedAfterReserve` and
  `ReservedAfterRelease` its size. A reservation that replaces one of the same order is the
  delicate case: it is granted against what is free while the old one still stands.
- `LedgerImplementsEscrow`: under the strict policy `Spec => E!Spec`. Each operation is mapped to
  an escrow step, with the same lemmas for the free money.
- `YieldsStaySolvent`: `Spec => []YieldsSolvent`, from `TypeOK`, under either balance policy. The run checks
  it as part of `YieldMovesConserve`.
- `YieldMovesKeepMoney`: `Spec => YieldMovesConserve`. The property is stated by
  its parts, which say more than a total would: a deposit or a withdrawal leaves the sum of the account
  and the position it is between, and every other account and position, and neither principal nor
  interest below zero.

`EngineProofs` proves, for every strategy, policy, market and number of ticks:

- `EngineImplementsOrderBook`: `Spec => ImplementsOrderBook`, where the ids are the numbers the engine
  counts through (`Nat \subseteq OrderIds`). An order is in one of four lists: the book, the queue,
  those a scan has yet to look at, and those it keeps. `IInv` says that no id is in two places of
  them (`Apart`), that an order that waits has a number already given out, a tick already begun, and
  has not settled (`Waiting`), and where the run is when a chain goes on or a list is in use
  (`Staged`). That the lists are scanned while fills place orders is what makes it necessary: without
  `Apart` the order at the head could settle and stay in another list. Sequences of orders are dealt
  with by three lemmas (`AppendList`, `TailList`, `JoinedList`); then every scan either keeps an order
  (`Keeps`) or lets it go (`Leaves`).
- `NoLookAhead`: `Spec => []FillsWithinTimeInForce`. It speaks of two events of the trace, which the
  order in between must connect. `TInv` adds that the placement of an order that waits is in the
  trace as the order has it (`Traced`), and that limit and market orders do not mix, wherever a scan
  has put them (`Sorted`); for the latter, that all that runs is an action of the strategy (`Walked`).
- `ChainsAreDriven`: `Spec => []ChainsFollowExecution`, for graphs with and without cycles.
  `CInv == Driven /\ ToFire /\ InBudget`. `Driven` says that whatever is to run has a reason to: it is
  initial, a target of a signal, or chained to what went through on this tick. `InBudget` bounds how
  often an action runs in a tick: what has run, what the current chain may yet run, and the chains
  still ahead of the tick are together no more than the chains it has started. A signal fires at most
  once in a tick because they are taken in order (`ToFire`).

None depends on what a fill does to the ledger or whether it goes through, so they hold for every
execution model.

`EngineLedgerProofs` is about what the same runs do to money, for every strategy, policy, market and
number of ticks, and any finite set of venues and assets:

- `EngineTyped`: `Spec => []TypeOK`, with `AllInv == IInv /\ TInv /\ GInv`. `GInv` says that the ledger is
  well shaped and, where balances may not go negative, not overcommitted (`Good`), and that what each
  phase has at hand is there. An order may be sized by the equity, a sum over positions: that the fold is
  a number is an induction over the keys in order (`SetInduction`). Every execution either refuses or
  leaves a ledger that the one before `Becomes`: good, with the same reservations.
- `EarmarksStayCovered` (`EarmarksCovered`): under the strict policy no reservation is ever more than the balance it is on,
  though funding, fills, liquidations and chains move the same cash.
- `EarmarksFollowOrders` (`EarmarksMatchOrders`): the ledger's reservations are those of the limit orders
  that wait, wherever a scan has put them; inductive once `AllInv` holds.
- `RefusalsAreClean` (`RefusalsLeaveNoTrace`), `FundingIsAccounted` (`FundingReconciles`),
  `LimitFillsAreTraded` (`LimitFillsAtTradedPrice`).
- `DebtsPayFunding` (`FundingNeverPanics`), where balances may go negative; where they may not, the
  property fails (`Engine_funding_panic`).
- `NothingLeftToLiquidate` (`NoZombiePositions`): `ZInv` adds that in the liquidation phase the positions
  already passed are safe (`Safe`): one that the check does not find breached has more left than
  maintenance asks for (`SafeUnlessBreached`).
- `EarmarksPayForFills` (`FundsRefusedOnlyByGas`): the earmark of an order is what its fill would cost at
  its limit and at the gas of its placement, which the trace has (`Backed`). A fill is at a price no
  worse and, unless gas rose, costs no more, and releasing the earmark makes that much available.
- `PositionsHaveSize`: `Spec => [](OpensInUnits(simulation) => OpenPositionsHaveSize)`. `PInv` adds that
  an order that waits buys at least a unit at the dearest price a bar can have (`InUnits`,
  `DearestPrice`); then every fill leaves the positions a size, and a reduction none of which nothing
  is left (`LeavesSizes`). Without the hypothesis it is false (`Engine_empty_position`).
- `RunsNeverPanic` (`NeverPanics`): where balances may go negative and under the same hypothesis no run
  panics. The two places that may are the debit of funding (`DebtsPayFunding`) and the division by a size.
- `RunsDescend`: `Spec => StepsDescend`. One lemma per kind of step says which part of the rank falls
  while those before it stay (`ScanLowers`, `HandlingLowers`, `ChainLowers`, `PhaseLowers`); a chain that
  a fill starts in the middle of a scan is paid for by the order that left the scan. `RankNatural` is
  that the parts are natural numbers, for which the lists must be lists (`Listed`) and the actions of a
  strategy finitely many. `DescentsEnd` says that no sequence of ranks descends for ever: part by part
  it comes to rest (`NumbersRest`, `PartRests`). A run therefore has finitely many steps before it
  stops; that it does take them is fairness, which stays with TLC.

`SignalsProofs` proves, for every order of signals, every set of policies, and every sequence of
ticks with and without data:

- `CooldownsAreKept`: `Spec => []CooldownKept`. The gate compares with the last fire only; the
  invariant `CInv` adds that the last fire remembered is the latest of all fires of its signal.
- `BudgetsAreKept`: `Spec => []FireBudget`. `BInv` adds that the fire count of a signal is the
  number of its fires, and that a signal not marked as fired has none.
- `RefiresFollowFailures`: `Spec => []RefireNeedsFailure`. `RInv` adds that a signal that has fired
  and is now remembered as failing was seen to fail since each of its fires, on a tick already
  handled for it (`FailuresSeen`). The lemmas `WaitsAfterTick` and `WaitsAfterHandling` say how the
  place in the topological order moves; that no signal occurs twice in it is where they need it.

None of these three constrains the conditions, so they hold whatever the leaves and combinators
decide. The others are about what is decided, which `Decide` computes by recursion over the
topological order:

- `SignalsTyped`: `Spec => []TypeOK`. That a recursive function has a value at all needs induction:
  `SetInduction` (an induction over a set instead of an operator) gives the prefixes of the order
  one by one (`DecidePrefixes`), and from them the equation of each signal (`DecideSolves`). That the
  inputs of a signal come before it (`SortedIsUsable`) is what it rests on.
- `GapsAreHarmless`: `Spec => []GapsDecideNothing`. `OrderInduction` carries a claim from the
  inputs of a signal to the signal, along the order.
- `FirstHoldsFire`: `Spec => []FirstHoldFires`. `FInv` adds that each memory has its reason: what is
  remembered of a signal was seen, a mark or a time is that of a fire (`MemoriesHaveReasons`).

`TopoSortProofs` proves, for every list of signals with distinct ids:

- `SortedIsUsable`: `SortSpec => []InputsComeFirst`, and `RefusedIsCyclic`:
  `SortSpec => []RefusedOnlyCyclic`. Neither is inductive: why a signal whose in-degree has reached
  zero may be visited is a fact about a counter. `IInv` says what the counter counts: the inputs of a
  signal that name a signal not yet settled, that is visited and passed by the inner loop
  (`Counted`); that a signal is queued or visited exactly when its counter is zero and the loop that
  puts it there has passed it (`ReadyOnes`), and then once (`Distinct`); and that what a visited
  signal reads was visited before it (`Preceded`). The step that matters is `Relax`: `RelaxSettles`
  gives the pending inputs of the relaxed signal as those before less the links to the visited one,
  and their number with repetitions. A list is cyclic when the queue is empty with signals left over:
  their counters are positive, so each reads a signal that is not settled, hence left over.

The theorems are about `SortSpec`, the sort with any list to start from; `BacktestProofs` has them for
the lists that `Compiler` starts it with. That the order has its inputs first is what
`SignalsAssumption` assumes of `Order`.

`BacktestProofs` proves, for every set of requests, that is graphs, stores and bundles, policies and
spans (`JobsAssumption` has the types the request is parsed to), and any order in which reads end:

- `CompiledInOrder` and `CyclicGraphsRefused`: the two theorems of the sort, for graphs.
  `SortedInv == CompileInv /\ IInv`; `CompileInv` ties each stage of the compiler to the graph, and with
  it the list that is sorted to the enabled signals, whose ids are distinct once `NodesRefused` is past.
- `EdgesDrive` (`EveryEdgeDrives`) and `ReadsWereRequired` (`ReadsAreRequired`), from `CompileInv`: what
  was emitted is a function of the graph (`Emitted`), and the sort is a permutation of its signals.
- `BacktestTyped`: `Spec => []TypeOK`, from `BacktestInv`, which adds what the loader has (`LoadInv`) and
  what the run has (`RunInv`: its ticks climb within the span, and with the windows handled they are no
  more than the span has times).
- `FundingIsCharged` (`FundingPointsOnce`): `WindowsInv` says that the windows so far partition the time
  from the first to now, whatever the distances between ticks.
- `FailPolicyHolds` (`FailPolicyRunsWhole`): `WholeInv` keeps that coverage was checked and that the ticks
  to come are all those of the clock after now. `NoGapIsWhole` is the arithmetic: data on the grid with
  no gap of the size the check counts has every step.
- `SeriesAreWhole` (`LoadIsWhole`): while a series is read, the rows so far and those of the files still to
  be read come to those of the listed files, time by time and as often (`SeriesInv`); which read ends
  next does not matter to that sum. It speaks of multisets, so it rests on lemmas that count a time in
  a union of files and in a sorted list.
- `ReadsWereKnown` (`ReadsAreKnown`): by induction on the number of windows around a source, a value
  observed at `t` rests on no row after `t` (`Known`), and over a pinned series on exactly the bars it
  reaches back to (`Rests`, `ReachesAdd`). That recursion in time has a value is again an induction over
  sets (`ObservesExists`, `ObserveSolves`).
- `WarmupIsEnough` (`WarmupSuffices`): the bars that nested windows reach back to are at most the lookback
  the compiler counted (`ReachIsCounted`), every series required waits to be loaded or is there
  (`ComesInv`), and so each of these bars is a row of the bundle (`StoredIsThere`), from which the source
  has a value.
- `BacktestImplementsReplay`: `Spec => ImplementsReplay`. The steps that read are steps of `Replay` that see
  nothing; the one that ends the loading is `Gather`. `GatherInv` adds to the other invariants that each
  series asked for is to be loaded, is there, or has no row in any file that was found (`Bare`), and
  that nothing else is there; then the rows loaded are the rows found (`LoadedIsFound`). A `BeginTicks`
  is a `Begin` because the clock lists each time of the candles once (`BeginsReplay`).

`JobServiceProofs` proves, for every number of clients, workers, submissions and restarts, every
capacity of the channel, and with or without panics:

- `ServiceTypeCorrect`: `Spec => []TypeOK`; `ReceivedAreKnown`: `Spec => []ReceivedJobsAreKnown`;
  `NoJobLostOrRunTwice`: `Spec => []UnfinishedJobsAreSomewhere`. That a worker finds its job is not
  inductive: it depends on no handler removing the record of an id that is on the channel. `IInv`
  follows an id from place to place, that is the handler that submits it, the channel and a worker:
  no id is in two places or twice in one (`Apart`), the place determines the status (`Held`), and a
  job that has not finished is in a place (`Placed`). `Given` says that ids in the index are below
  the counter, without which a new record could replace an old one. One lemma per action, one step
  in it per part.
- `ServiceImplementsRegistry`: `Spec => ImplementsRunRegistry`. Five actions and the restart map to
  steps of the registry, the others to none. `Held` gives the status that each of them starts from,
  and `Resulted`, that a result is there if and only if the run has succeeded, what it stores.
- `ClientsAnswersAreTrue`: `Spec => []AnswersAreTrue`. `AInv` adds that the ids clients hold were given
  out (`Issued`), so that no later run gets one of them. What a client knows is about a moment that is
  past: no step of a client makes untrue what another knows (`OthersAnswers`), and the service takes back
  a status that was seen only by a restart.

The assumptions are those named in the modules, which the runs evaluate:

- `LedgerAssumption`, `LedgerMachineAssumption`, `EngineAssumption`, `StrategyAssumption`: USDC is an
  asset; starting balances, interest and margins are not negative; the maintenance rate is below 100 %;
  a strategy chains and targets actions it has.
- `KeysAssumption`: venues and assets are finitely many, and the orders in which positions are walked
  (the code's maps are sorted) have each key once.
- `FillsAssumption`: fees are not negative, and slippage is between nothing and the whole price.
  Validation enforces all but the last bound, so `EngineLedgerProofs` says nothing of a slippage of more
  than 100 %; no profile comes near it.
- `SignalsAssumption`, `SignalListsAssumption`: a policy that needs a cooldown or a count has one, inputs
  come first, no two signals have an id in common.
- `JobServiceAssumption`: the channel has room for at least one id.
- `LoaderAssumption`, `JobsAssumption`, `NoneAssumption`: days have a length and at least one read may be
  in flight; a request is well typed and does not end before it starts; the rows of a file with a date
  are of that date; the files of a series are finitely many, distinct by name, and its own.

`EngineImplementsOrderBook` and most of `EngineLedgerProofs` also assume `Nat \subseteq OrderIds`: the
code's counter does not run out. The runs bound it, so this one is stated in the theorems.
`PositionsHaveSize` and `RunsNeverPanic` are about the strategies that `OpensInUnits` describes.

Only model-checked:

- Liveness (`SentJobsFinish`, `CallsEnd`), which needs fairness and ENABLED.

## 5. What is left out

Not modelled:

- Price impact (`amm_exact_in`, `volume_participation`), venue fee tables, rounding of decimals.
- Simple interest, the profit and drawdown figures of snapshots, the wording of events and warnings.
- The numbers that averages, extremes and changes over a window come to: `MarketData` has the rows
  they rest on, and their outcome on no rows.
- Requests whose end is before their start, which the range lookups of the index panic on; windows
  of zero bars, which the compiler lets through.
- A slippage of more than the whole price, by which a sale is at a negative price; the saturation of the
  compiler's 32-bit sum of lookbacks.
- In `Engine`, the bound on the age of marks (its marks are one missing bar old at most);
  `MarketData` has it.
- A negative cooldown in `Signals`, which policy validation accepts (`Policies` does) and which
  blocks nothing; overflow of a duration.
- Substitution of variables into configs beyond what it refuses.
- The loader's catalog, coverage report and provenance, and the decoding of Parquet columns; which of
  two rows of one time wins, which is the one whose file was read last.
- Handlers of the service that only read; the content of results; growth of the index, which has no
  bound and no documented one.
- `result-reporter`: arithmetic over a finished trace.
- `packages/market-data*`, `apps/web`, `schemas`, `strategies`, `scripts`, `infra`: downloads and
  file writing, user interface, data and deployment.

## 6. The order of work

The modules were built in this order: `LedgerOps`, `Ledger`, `Escrow`, `LedgerProofs`; `Fills`,
`Engine`, `OrderBook`, `EngineProofs`; `JobService`, `RunRegistry`, `JobServiceProofs`; `Signals`,
`SignalsProofs`; `TopoSort`, `TopoSortProofs`; `MarketSeries`, `Compiler`, `Policies`, `Loader`,
`MarketData`, `Backtest`, `Replay`; then `LedgerOpsProofs`, taken out of `LedgerProofs`, `EngineLedgerProofs`,
`BacktestProofs`.

What would come next:

1. The abstract specification that `Engine` still lacks: the portfolio of a run as a whole (cash, margin
   and yields against fees, gas and funding).
2. `OpensInUnits` with sizes as exact quotients, where every order that is for something has a size.
3. The staleness bound and the conditions of `MarketData` in place of the inputs of `Engine` and
   `Signals`.
4. Rows with values in `Loader`, to say which of two rows of one time is used.
