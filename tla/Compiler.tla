------------------------------ MODULE Compiler ------------------------------
(* The graph compiler (crates/graph-compiler) and the execution view the      *)
(* engine builds of its output (exec_graph.rs). A graph is checked node by    *)
(* node and edge by edge, its disabled parts are dropped, its signals are put *)
(* in order (TopoSort), and what comes out is the actions with what triggers  *)
(* them, the signals, and the market data the run needs.                      *)
EXTENDS TopoSort, MarketSeries, Lists, SequencesExt

CONSTANTS
  Stable,       \* assets that are cash: no price feed values them
  Hyperliquid   \* the venue without gas, and the default venue of a price

VARIABLES
  graph,     \* [nodes, edges, variables]
  compiling, \* "nodes", "edges", "signals", "sorting", "compiled" or "refused"
  compiled   \* the compiled graph, None before

compilerVars == <<graph, compiling, compiled, sortVars>>

Combinators == {"all", "any", "not"}
Thresholds  == {"price_threshold", "threshold"}

-----------------------------------------------------------------------------
(* Checks of single nodes. What a config holds of text is kept only as far as *)
(* a check tells it apart: `amount` is "absolute", "all", "percent",          *)
(* "zero_percent" or "not_a_number", `tif` is "absent" or what was given, and *)
(* `typed` says whether the config has the fields its subtype asks for.       *)

Nodes(g)    == Range(g.nodes)
Enabled(g)  == {n \in Nodes(g) : n.enabled}
NodeOf(g, id) == CHOOSE n \in Nodes(g) : n.id = id

ValidateTimeInForce(config) ==
  <<config.tif, config.expires>> \in
    {<<"absent", FALSE>>, <<"absent", TRUE>>, <<"gtc", FALSE>>, <<"good_til_bars", TRUE>>}

ValidateAmount(config) == config.amount \notin {"zero_percent", "not_a_number"}

ValidateNode(n) ==
  \/ /\ n.kind = "action" /\ n.config.typed
     /\ \/ n.subtype = "swap" /\ ValidateTimeInForce(n.config)
        \/ n.subtype = "perp_order" /\ ValidateTimeInForce(n.config) /\ n.config.amount # "all"
        \/ n.subtype \in {"yield_deposit", "yield_withdraw"}
     /\ ValidateAmount(n.config)
  \/ n.kind = "signal" /\ n.subtype \in Thresholds /\ n.config.typed
  \/ n.kind = "signal" /\ n.subtype \in Combinators

\* Every variable an enabled node uses is defined, as a scalar.
Resolves(g, n) ==
  \A v \in n.config.uses : v \in DOMAIN g.variables /\ g.variables[v] = "scalar"

NodesRefused(g) ==
  \/ g.nodes = <<>>
  \/ \E i, j \in DOMAIN g.nodes : i # j /\ g.nodes[i].id = g.nodes[j].id
  \/ \E n \in Enabled(g) : ~Resolves(g, n) \/ ~ValidateNode(n)

-----------------------------------------------------------------------------
(* Edges, and what is read off them.                                          *)

EdgesRefused(g) ==
  \E e \in Range(g.edges) : ~({e[1], e[2]} \subseteq {n.id : n \in Nodes(g)})

\* Between enabled nodes, and into a signal only from a signal to a combinator.
Keeps(g, e) ==
  LET from == NodeOf(g, e[1])  to == NodeOf(g, e[2])
  IN  /\ from.enabled /\ to.enabled
      /\ to.kind = "signal" => from.kind = "signal" /\ to.subtype \in Combinators

Kept(g) == Those(g.edges, {e \in Range(g.edges) : Keeps(g, e)})

EnabledOf(g, kind) == Those(g.nodes, {n \in Enabled(g) : n.kind = kind})

IdsOf(g, kind) == {n.id : n \in {m \in Enabled(g) : m.kind = kind}}

\* Where the edges into a node come from, in their order.
Sources(g, id) ==
  LET into == Those(Kept(g), {e \in Range(Kept(g)) : e[2] = id})
  IN  [k \in DOMAIN into |-> into[k][1]]

\* Those of them that are signals.
Inputs(g, id) == Those(Sources(g, id), IdsOf(g, "signal"))

Targets(g, id) ==
  LET out == Those(Kept(g), {e \in Range(Kept(g)) : e[1] = id /\ e[2] \in IdsOf(g, "action")})
  IN  [k \in DOMAIN out |-> out[k][2]]

\* The mutant of `EveryEdgeDrives`: a node fed by a signal forgets the actions
\* that feed it.
Triggers_SignalsOnly(g, id) ==
  LET sources == Inputs(g, id)
  IN  IF sources = <<>>
      THEN <<[type |-> "initial", source |-> None]>>
      ELSE [k \in DOMAIN sources |-> [type |-> NodeOf(g, sources[k]).kind, source |-> sources[k]]]

Triggers(g, id) ==
  LET sources == Sources(g, id)
  IN  IF sources = <<>>
      THEN <<[type |-> "initial", source |-> None]>>
      ELSE [k \in DOMAIN sources |-> [type |-> NodeOf(g, sources[k]).kind, source |-> sources[k]]]

CompiledActions(g) ==
  [k \in DOMAIN EnabledOf(g, "action") |->
     LET n == EnabledOf(g, "action")[k] IN [id |-> n.id, triggers |-> Triggers(g, n.id)]]

SignalList(g) ==
  [k \in DOMAIN EnabledOf(g, "signal") |->
     LET n == EnabledOf(g, "signal")[k] IN [id |-> n.id, inputs |-> Inputs(g, n.id)]]

ArityRefused(g) ==
  \E n \in Enabled(g) :
    \/ n.kind = "signal" /\ n.subtype = "not" /\ Len(Inputs(g, n.id)) # 1
    \/ n.kind = "signal" /\ n.subtype \in {"all", "any"} /\ Inputs(g, n.id) = <<>>

-----------------------------------------------------------------------------
(* The data a run needs, as a set of series.                                  *)

\* Gas is one series for a chain.
GasOf(chain) == IF chain = Hyperliquid THEN {} ELSE {Series("gas", chain, None)}

TradedAt(n) ==
  CASE n.subtype = "swap" ->
         {Series("candle", n.config.chain, a) : a \in {n.config.from, n.config.to} \ Stable}
    [] n.subtype = "perp_order" -> {Series("candle", n.config.chain, n.config.symbol)}
    [] OTHER -> {}

\* The venue a price without one is read at: where the graph trades the symbol,
\* when that is a single venue.
SymbolVenue(g, symbol) ==
  LET venues == {s.venue : s \in {s \in UNION {TradedAt(n) : n \in Enabled(g)} : s.symbol = symbol}}
  IN  IF Cardinality(venues) = 1 THEN CHOOSE v \in venues : TRUE ELSE Hyperliquid

\* What a signal observes: a series (a price may leave its venue open), and the
\* windows of the transforms over it, outermost first.
ResolvedSeries(g, source) ==
  IF source.kind = "candle" /\ source.venue = None
  THEN Series("candle", SymbolVenue(g, source.symbol), source.symbol)
  ELSE Series(source.kind, source.venue, source.symbol)

\* `price_threshold` is sugar for a threshold on a price without a venue.
Observed(n) ==
  CASE n.subtype = "price_threshold" ->
         {[kind |-> "candle", venue |-> None, symbol |-> n.config.symbol, windows |-> <<>>]}
    [] n.subtype = "threshold" -> {n.config.source, n.config.reference} \ {None}
    [] OTHER -> {}

\* The mutant of `ReadsAreRequired`: the reference side of a threshold is left out.
Needs_SourceOnly(g, n) ==
  CASE n.subtype = "swap" -> TradedAt(n) \cup GasOf(n.config.chain)
    [] n.subtype = "perp_order" ->
         TradedAt(n) \cup {Series("funding", n.config.chain, n.config.symbol)}
    [] n.subtype \in {"yield_deposit", "yield_withdraw"} ->
         {Series("yield", n.config.chain, n.config.asset)} \cup GasOf(n.config.chain)
    [] n.subtype = "threshold" -> {ResolvedSeries(g, n.config.source)}
    [] OTHER -> {ResolvedSeries(g, s) : s \in Observed(n)}

Needs(g, n) ==
  CASE n.subtype = "swap" -> TradedAt(n) \cup GasOf(n.config.chain)
    [] n.subtype = "perp_order" ->
         TradedAt(n) \cup {Series("funding", n.config.chain, n.config.symbol)}
    [] n.subtype \in {"yield_deposit", "yield_withdraw"} ->
         {Series("yield", n.config.chain, n.config.asset)} \cup GasOf(n.config.chain)
    [] OTHER -> {ResolvedSeries(g, s) : s \in Observed(n)}

DataRequirements(g) == UNION {Needs(g, n) : n \in Enabled(g)}

\* The mutant of `WarmupSuffices`: of nested windows only the outermost counts.
SourceLookback_Outer(source) == IF source.windows = <<>> THEN 0 ELSE source.windows[1].bars

SourceLookback(source) == Added([k \in DOMAIN source.windows |-> source.windows[k].bars])

LookbackBars(g) ==
  LET sources == UNION {Observed(n) : n \in Enabled(g)}
      bars    == {0} \cup {SourceLookback(s) : s \in sources}
  IN  Max(bars)

-----------------------------------------------------------------------------
(* The steps of `compile`.                                                    *)

\* What the type of a graph says of it: two lists, of nodes and of pairs, sources
\* of four kinds, and windows that are lists of counts.
IsGraph(g) ==
  /\ g.nodes \in Seq(Nodes(g)) /\ g.edges \in Seq(Range(g.edges))
  /\ \A n \in Nodes(g) : n.id \in Id /\ n.kind \in {"action", "signal"} /\ n.enabled \in BOOLEAN
  /\ \A e \in Range(g.edges) : e = <<e[1], e[2]>>
  /\ ~NodesRefused(g) =>
       \A n \in Enabled(g) : \A s \in Observed(n) :
         /\ s.kind \in {"candle", "funding", "yield", "gas"}
         /\ s.windows \in Seq(Range(s.windows))
         /\ \A k \in DOMAIN s.windows : s.windows[k].bars \in Nat

CompilerInit ==
  /\ compiling = "nodes"
  /\ compiled = None
  /\ SortInit

CheckNodes ==
  /\ compiling = "nodes"
  /\ compiling' = IF NodesRefused(graph) THEN "refused" ELSE "edges"
  /\ UNCHANGED <<graph, compiled, sortVars>>

CheckEdges ==
  /\ compiling = "edges"
  /\ compiling' = IF EdgesRefused(graph) THEN "refused" ELSE "signals"
  /\ UNCHANGED <<graph, compiled, sortVars>>

RefuseArity ==
  /\ compiling = "signals"
  /\ ArityRefused(graph)
  /\ compiling' = "refused"
  /\ UNCHANGED <<graph, compiled, sortVars>>

CollectSignals ==
  /\ compiling = "signals"
  /\ ~ArityRefused(graph)
  /\ compiling' = "sorting"
  /\ Start(SignalList(graph))
  /\ UNCHANGED <<graph, compiled>>

SortSignals ==
  /\ compiling = "sorting"
  /\ Sort
  /\ UNCHANGED <<graph, compiling, compiled>>

RefuseCycle ==
  /\ compiling = "sorting"
  /\ stage = "cyclic"
  /\ compiling' = "refused"
  /\ UNCHANGED <<graph, compiled, sortVars>>

Emit ==
  /\ compiling = "sorting"
  /\ stage = "sorted"
  /\ compiling' = "compiled"
  /\ compiled' =
       [actions |-> CompiledActions(graph),
        signals |-> [p \in DOMAIN order |->
                       LET s == signals[order[p]]
                       IN  [id |-> s.id, inputs |-> s.inputs, targets |-> Targets(graph, s.id)]],
        requirements |-> DataRequirements(graph),
        lookback |-> LookbackBars(graph)]
  /\ UNCHANGED <<graph, sortVars>>

Compile ==
  CheckNodes \/ CheckEdges \/ RefuseArity \/ CollectSignals \/ SortSignals \/ RefuseCycle \/ Emit

-----------------------------------------------------------------------------
(* `ExecGraph::from_compiled`: the lookups of the tick loop.                  *)

InitialActions(c) ==
  {a.id : a \in {a \in Range(c.actions) : \E t \in Range(a.triggers) : t.type = "initial"}}

\* How often the end of action `from` starts action `to`.
ChainsInto(c, from, to) ==
  Cardinality({at \in UNION {{i} \X DOMAIN c.actions[i].triggers : i \in DOMAIN c.actions} :
                 /\ c.actions[at[1]].id = to
                 /\ c.actions[at[1]].triggers[at[2]] = [type |-> "action", source |-> from]})

-----------------------------------------------------------------------------

CompiledSignal(id) == CHOOSE s \in Range(compiled.signals) : s.id = id

\* How often the edges of the graph say `from` leads to `to`.
EdgesBetween(from, to) == Occurs(<<from, to>>, graph.edges)

(* Every edge of the graph that is kept drives in the compiled graph exactly  *)
(* what it says, as often as it says it, although three places derive it: an  *)
(* action's triggers, a signal's targets and a combinator's inputs. An action *)
(* starts with the run only if nothing enabled leads to it.                   *)
EveryEdgeDrives ==
  compiled # None =>
    LET actions == {n \in Enabled(graph) : n.kind = "action"}
        sigs    == {n \in Enabled(graph) : n.kind = "signal"}
    IN  /\ \A b \in actions : \A a \in actions :
             ChainsInto(compiled, a.id, b.id) = EdgesBetween(a.id, b.id)
        /\ \A b \in actions : \A s \in sigs :
             Occurs(b.id, CompiledSignal(s.id).targets) = EdgesBetween(s.id, b.id)
        /\ \A s \in sigs : \A t \in sigs :
             t.subtype \in Combinators =>
               Occurs(s.id, CompiledSignal(t.id).inputs) = EdgesBetween(s.id, t.id)
        /\ \A b \in actions :
             b.id \in InitialActions(compiled)
               <=> \A n \in Enabled(graph) : EdgesBetween(n.id, b.id) = 0

\* What the engine looks up for a node, whatever the compiler said it would.
EngineReads(n) ==
  CASE n.subtype = "swap" ->
         IF Cardinality({n.config.from, n.config.to} \ Stable) = 1
         THEN {Series("candle", n.config.chain, a) : a \in {n.config.from, n.config.to} \ Stable}
                \cup GasOf(n.config.chain)
         ELSE {}
    [] n.subtype = "perp_order" ->
         {Series(kind, n.config.chain, n.config.symbol) : kind \in {"candle", "funding"}}
    [] n.subtype \in {"yield_deposit", "yield_withdraw"} ->
         {Series("yield", n.config.chain, n.config.asset)} \cup GasOf(n.config.chain)
    [] OTHER ->
         {Series(s.kind, s.venue, s.symbol) : s \in {s \in Observed(n) : s.venue # None}}

(* What the engine reads for an enabled node was asked for at compile time:   *)
(* the two walk the graph separately. A price without a venue finds some      *)
(* series of its symbol. (A yield in an asset that is not cash is also priced *)
(* by the candle of that asset, which nothing here asks for: its deposits are *)
(* refused unless another node of the graph brings the candle.)               *)
ReadsAreRequired ==
  compiled # None =>
    \A n \in Enabled(graph) :
      /\ EngineReads(n) \subseteq compiled.requirements
      /\ \A s \in Observed(n) :
           \E r \in compiled.requirements : r.kind = s.kind /\ r.symbol = s.symbol
=============================================================================
