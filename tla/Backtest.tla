------------------------------ MODULE Backtest ------------------------------
(* One backtest from its request to its last tick: `run_job` of the service   *)
(* and the frame of the engine's `run`. The graph is compiled (Compiler), the *)
(* data its signals and actions need is loaded (Loader), the policy is        *)
(* resolved (Policies), the data is checked, and the ticks go by, each of     *)
(* which reads the bundle (MarketData). What orders and positions do on a     *)
(* tick is module Engine; here a tick may fill an order, for what that reads. *)
EXTENDS Compiler, Loader, MarketData
INSTANCE Policies

CONSTANT Jobs  \* the requests

\* `data` is a bundle sent along with the request, or None; `store` the files of
\* the configured store, or None. A step of 0 stands for an interval the code does not know.
\* Times are numbers. A file is of one series and one place in the listing, and one
\* named by a date has the rows of that date. The data a graph may need is in the
\* order of series. A duration is what Policies makes of its text.
ASSUME JobsAssumption ==
  \A j \in Jobs :
    /\ IsGraph(j.graph)
    /\ j.start \in Int /\ j.end \in Int /\ j.start <= j.end /\ j.step \in Nat
    /\ j.data # None =>
         /\ j.data \in Seq(Range(j.data))
         /\ \A k \in DOMAIN j.data : j.data[k].rows \in Seq(Int)
    /\ j.store # None =>
         \A s \in DOMAIN j.store :
           /\ IsFiniteSet(j.store[s])
           /\ \A f \in j.store[s] :
                /\ f.rows \in Seq(Int)
                /\ f.date # None => \A i \in DOMAIN f.rows : Day(f.rows[i]) = f.date
           /\ \A f, g \in j.store[s] : f.name = g.name => f = g
           /\ \A r \in DOMAIN j.store : r # s => j.store[r] \cap j.store[s] = {}
    /\ ~NodesRefused(j.graph) => DataRequirements(j.graph) \subseteq Range(SeriesOrder)
    /\ \A set \in {j.contract.set, j.overrides} :
         "max_mark_staleness" \in DOMAIN set =>
           set.max_mark_staleness = None \/ set.max_mark_staleness \in Seq(Int)

VARIABLES
  job,
  progress,  \* "compiling", "loading", "resolving", "covering", "ticking",
             \* "ended", "failed" or "panicked"
  policy,    \* the resolved policy, None before
  ticks,     \* the ticks to come
  now,       \* the last tick, None before the first
  held,      \* the series that positions are valued by
  accrued    \* the windows whose funding was accrued, one for each tick

engineVars == <<policy, ticks, now, held, accrued>>
vars == <<job, progress, engineVars, compilerVars, loaderVars>>

-----------------------------------------------------------------------------

Init ==
  /\ job \in Jobs
  /\ graph = job.graph
  /\ store = job.store
  /\ CompilerInit
  /\ LoaderInit
  /\ progress = "compiling"
  /\ policy = None
  /\ ticks = <<>>
  /\ now = None
  /\ held = {}
  /\ accrued = <<>>

Fail ==
  /\ progress' = "failed"
  /\ UNCHANGED <<job, engineVars, compilerVars, loaderVars>>

CompileGraph ==
  /\ progress = "compiling"
  /\ Compile
  /\ UNCHANGED <<job, progress, engineVars, loaderVars>>

GraphRefused == progress = "compiling" /\ compiling = "refused" /\ Fail

UseInlineData ==
  /\ progress = "compiling" /\ compiling = "compiled"
  /\ job.data # None
  /\ bundle' = job.data
  /\ progress' = "resolving"
  /\ UNCHANGED <<job, engineVars, compilerVars, store, window, loading, wanted, lost, files, rows>>

\* Enough history before the start for the signals that look back.
WarmupStart == job.start - compiled.lookback * job.step

\* Neither data nor a store to load it from.
NoData ==
  /\ progress = "compiling" /\ compiling = "compiled"
  /\ job.data = None /\ store = None
  /\ Fail

LoadData ==
  /\ progress = "compiling" /\ compiling = "compiled"
  /\ job.data = None /\ store # None
  /\ StartLoad(compiled.requirements, WarmupStart, job.end)
  /\ progress' = "loading"
  /\ UNCHANGED <<job, engineVars, compilerVars>>

LoadSeries ==
  /\ progress = "loading"
  /\ Load
  /\ UNCHANGED <<job, progress, engineVars, compilerVars>>

LoadFailed == progress = "loading" /\ loading = "failed" /\ Fail

LoadEnds ==
  /\ progress = "loading" /\ loading = "loaded"
  /\ progress' = "resolving"
  /\ UNCHANGED <<job, engineVars, compilerVars, loaderVars>>

\* What the job's contract and overrides make together.
JobPolicy ==
  LET p == ResolvePolicy(job.contract)
  IN  IF p = None THEN None ELSE ApplyExecutionOverrides(p, job.overrides)

\* Here the maintenance margin is read as a Decimal; failing that is an error.
Runnable == JobPolicy # None /\ job.step > 0 /\ IsDecimal(JobPolicy.maintenance_margin_ratio)

PolicyRefused == progress = "resolving" /\ ~Runnable /\ Fail

Resolve ==
  /\ progress = "resolving"
  /\ Runnable
  /\ policy' = JobPolicy
  /\ progress' = "covering"
  /\ UNCHANGED <<job, ticks, now, held, accrued, compilerVars, loaderVars>>

CandlesRequired == {s \in compiled.requirements : s.kind = "candle"}

IsCovered == CheckRequiredCoverage(bundle, CandlesRequired, job.start, job.end, job.step)

CoverageRefused ==
  progress = "covering" /\ policy.missing_required = "fail" /\ ~IsCovered /\ Fail

\* The mutant of `TypeOK`: the start is put behind the other ticks.
BeginTicks_StartLast ==
  /\ progress = "covering"
  /\ policy.missing_required = "fail" => IsCovered
  /\ LET clock == Clock(bundle, job.start, job.end)
     IN  ticks' = Ascending(clock) \o
                    Ascending(RunTimes(bundle, job.start, job.end, InitialActions(compiled) # {}) \ clock)
  /\ progress' = "ticking"
  /\ UNCHANGED <<job, policy, now, held, accrued, compilerVars, loaderVars>>

BeginTicks ==
  /\ progress = "covering"
  /\ policy.missing_required = "fail" => IsCovered
  /\ ticks' = Ascending(RunTimes(bundle, job.start, job.end, InitialActions(compiled) # {}))
  /\ progress' = "ticking"
  /\ UNCHANGED <<job, policy, now, held, accrued, compilerVars, loaderVars>>

-----------------------------------------------------------------------------
(* A tick.                                                                    *)

SourcesRead == UNION {Observed(n) : n \in Enabled(graph)}

MaxAge == IF policy.max_mark_staleness = None THEN None ELSE Seconds(policy.max_mark_staleness)

\* A swap or perp fills on a bar of what it trades, under `next_open` on a tick
\* after the one it was decided on; a yield needs no bar.
Fillable(n, ts) ==
  /\ n \in Enabled(graph) /\ n.kind = "action"
  /\ \A s \in TradedAt(n) : Exact(bundle, s, ts) # {}
  /\ TradedAt(n) # {} /\ policy.price_selection = "next_open" => now # None

\* The decimal knobs that pricing a market order parses. Slippage is parsed
\* before its model is looked at.
KnobsRead(n, ts) ==
  LET trades == n.subtype \in {"swap", "perp_order"}
      gas    == IF n.subtype = "perp_order" THEN {} ELSE GasOf(n.config.chain)
  IN  {k \in {"slippage_bps", "volume_impact_coef_bps", "fee_bps", "gas_fixed_amount"} :
         CASE k = "slippage_bps" -> trades
           [] k = "volume_impact_coef_bps" -> trades /\ policy.slippage_model = "volume_based"
           [] k = "fee_bps" -> trades /\ policy.fee_model = "fixed_bps"
           [] k = "gas_fixed_amount" ->
                \E s \in gas :
                  \/ policy.gas_model = "fixed_usd"
                  \/ /\ policy.gas_model = "historical_fee_history"
                     /\ LastKnown(bundle, s, ts) = {}}

\* Marks are read for what is held before anything else happens.
ReadsPanic(ts) ==
  \/ \E s \in held : CloseAtPanics(bundle, s, ts, MaxAge)
  \/ \E s \in SourcesRead : SourceValue(bundle, s, ts, job.step) = Failure

FillPanics(n, ts) == \E k \in KnobsRead(n, ts) : ~IsDecimal(policy[k])

Accrue(ts) ==
  accrued' = IF policy.funding = "historical"
             THEN Append(accrued, FundingWindow(ts, now, job.step))
             ELSE accrued

\* A tick that runs to its end, on which the actions `filled` trade.
Tick(filled) ==
  /\ progress = "ticking" /\ ticks # <<>>
  /\ LET ts == Head(ticks)
     IN  /\ ~ReadsPanic(ts)
         /\ \A n \in filled : Fillable(n, ts) /\ ~FillPanics(n, ts)
         /\ Accrue(ts)
         /\ now' = ts
  /\ held' = held \cup UNION {TradedAt(n) : n \in filled}
  /\ ticks' = Tail(ticks)
  /\ UNCHANGED <<job, progress, policy, compilerVars, loaderVars>>

\* A tick on which a lookup or a parse panics, which ends the run.
Panic ==
  /\ progress = "ticking" /\ ticks # <<>>
  /\ \/ ReadsPanic(Head(ticks))
     \/ \E n \in Nodes(graph) : Fillable(n, Head(ticks)) /\ FillPanics(n, Head(ticks))
  /\ progress' = "panicked"
  /\ UNCHANGED <<job, engineVars, compilerVars, loaderVars>>

End ==
  /\ progress = "ticking" /\ ticks = <<>>
  /\ progress' = "ended"
  /\ UNCHANGED <<job, engineVars, compilerVars, loaderVars>>

\* The job is over: without this step a run that is stuck would look the same.
Terminated == progress \in {"ended", "failed", "panicked"} /\ UNCHANGED vars

Actions == {n \in Nodes(graph) : n.kind = "action"}

Next ==
  \/ CompileGraph \/ GraphRefused
  \/ UseInlineData \/ NoData \/ LoadData \/ LoadSeries \/ LoadFailed \/ LoadEnds
  \/ PolicyRefused \/ Resolve \/ CoverageRefused \/ BeginTicks
  \/ \E filled \in SUBSET Actions : Cardinality(filled) <= 1 /\ Tick(filled)
  \/ Panic
  \/ End
  \/ Terminated

Spec == Init /\ [][Next]_vars

-----------------------------------------------------------------------------

TypeOK ==
  /\ progress \in {"compiling", "loading", "resolving", "covering", "ticking",
                   "ended", "failed", "panicked"}
  /\ compiling \in {"nodes", "edges", "signals", "sorting", "compiled", "refused"}
  /\ TopoTypeOK
  /\ loading \in {"off", "listing", "reading", "loaded", "failed"}
  /\ window # None => window.start <= window.end
  /\ policy # None => DOMAIN policy = DOMAIN StrictV1
  /\ \A i \in 1..(Len(ticks) - 1) : ticks[i] < ticks[i + 1]
  /\ now # None /\ ticks # <<>> => now < Head(ticks)
  /\ held \subseteq {s \in DataRequirements(graph) : s.kind = "candle"}
  /\ Len(accrued) <= Cardinality(job.start..job.end)

(* Every funding rate from an interval before the first tick to the last is   *)
(* in the window of one tick and of no other, although ticks may be apart by  *)
(* more or by less than the interval: nobody is charged twice or not at all.  *)
FundingPointsOnce ==
  accrued # <<>> =>
    \A s \in {bundle[k].series : k \in DOMAIN bundle} :
      s.kind = "funding" =>
        \A t \in Within(Times(bundle, s), accrued[1].lo + 1, now) :
          Cardinality({i \in DOMAIN accrued : t \in FundingPoints(bundle, s, accrued[i])}) = 1

\* The times of the bars that a run asks for.
Grid(from) == {t \in from..job.end : (t - job.start) % job.step = 0}

(* A run under the `fail` policy that gets to tick has every bar of every     *)
(* required candle series in the window it was asked for, and ticks at each   *)
(* of them, if the data is on the grid of the run: no such run is silently    *)
(* shorter or sparser than asked, whatever was merged into its policy.        *)
FailPolicyRunsWhole ==
  /\ progress \in {"ticking", "ended"}
  /\ policy.missing_required = "fail"
  /\ \A s \in CandlesRequired : Within(Times(bundle, s), job.start, job.end) \subseteq Grid(job.start)
  => /\ \A s \in CandlesRequired : Grid(job.start) \subseteq Times(bundle, s)
     /\ CandlesRequired # {} =>
          {t \in Grid(job.start) : now = None \/ now < t} \subseteq Range(ticks)

\* The bars a source looks back over, the current one not counted.
Reach(source) == Added([k \in DOMAIN source.windows |-> source.windows[k].bars - 1])

WellFormed(source) == \A k \in DOMAIN source.windows : source.windows[k].bars > 0

(* What a tick reads was known at the tick. A source at a venue with windows  *)
(* over it rests on all the bars it reaches back to, so one missing bar       *)
(* silences it; a mark is not older than the policy's bound.                  *)
ReadsAreKnown ==
  now # None =>
    /\ \A s \in SourcesRead :
         LET v     == SourceValue(bundle, s, now, job.step)
             times == {row.ts : row \in v.rows}
         IN  /\ \A t \in times : t <= now
             /\ v.says = "value" /\ s.kind \in {"candle", "funding"} /\ s.venue # None /\ WellFormed(s)
                  => times = {now - k * job.step : k \in 0..Reach(s)}
    /\ \A s \in held : \A row \in CloseAt(bundle, s, now, MaxAge) :
         row.ts <= now /\ (MaxAge # None => now - row.ts <= MaxAge \/ row.ts = now)

\* The store has every bar of the series that a run on a grid can ask for.
Dense(s) ==
  \A t \in Grid(window.start) : \E f \in FilesOf(s) \ lost : t \in Range(f.rows)

(* If the store has the data, every source has a value from the first tick on *)
(* and not only once the run has gathered history: what the compiler counts   *)
(* as lookback, what is loaded before the start, and what nested windows      *)
(* reach back to agree.                                                       *)
WarmupSuffices ==
  /\ now # None /\ window # None
  /\ (now - job.start) % job.step = 0
  /\ \A s \in compiled.requirements : Dense(s)
  => \A s \in SourcesRead : WellFormed(s) => SourceValue(bundle, s, now, job.step).says = "value"

(* A run whose policy validation has accepted does not panic.                 *)
AcceptedPoliciesNeverPanic == policy # None => progress # "panicked"

(* A price without a venue is the price at the venue the compiler has         *)
(* resolved for it.                                                           *)
UnpinnedPriceIsResolved ==
  now # None =>
    \A s \in SourcesRead :
      s.kind = "candle" /\ s.venue = None /\ s.windows = <<>> =>
        \A row \in SourceValue(bundle, s, now, job.step).rows : row.series = ResolvedSeries(graph, s)

-----------------------------------------------------------------------------
(* The abstract run.                                                          *)

\* The files of the request, or the series sent along in place of files.
Files ==
  IF job.data # None THEN {[series |-> job.data[k].series, file |-> job.data[k]] : k \in DOMAIN job.data}
  ELSE IF store # None THEN UNION {{[series |-> s, file |-> f] : f \in store[s]} : s \in DOMAIN store}
  ELSE {}

\* What was asked of the store, what of it was not found, and what there is to replay.
Asked ==
  IF loading = "off" THEN None
  ELSE [series |-> Range(ToLoad(compiled.requirements)), from |-> window.start]

Missed == {f \in Files : f.file \in lost}

History ==
  IF progress = "loading" \/ loading = "failed" THEN {}
  ELSE UNION {{[series |-> bundle[k].series, ts |-> bundle[k].rows[i]] : i \in DOMAIN bundle[k].rows} :
                k \in DOMAIN bundle}

RunStatus ==
  CASE progress = "compiling" -> "asking"
    [] progress = "loading" -> "gathering"
    [] progress \in {"resolving", "covering"} -> "gathered"
    [] progress = "ticking" -> "replaying"
    [] progress = "ended" -> "ended"
    [] progress \in {"failed", "panicked"} -> "stopped"

RP == INSTANCE Replay WITH
        request <- [files |-> Files, start |-> job.start, end |-> job.end],
        asked <- Asked,
        missed <- Missed,
        history <- History,
        clock <- Range(ticks),
        status <- RunStatus

(* What is replayed is a function of what was asked for and of the files      *)
(* found; the order in which reads end is not seen: the history is whole and  *)
(* fixed before the first tick, every candle time of the span is one tick, in *)
(* order, and a run that ends has left none out.                              *)
ImplementsReplay == RP!Spec
=============================================================================
