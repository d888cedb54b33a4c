----------------------------- MODULE MCBacktest -----------------------------
(* Small requests: graphs that differ in their edges, and a few graphs that   *)
(* differ in what they read, with stores, policies and bundles around them.   *)
EXTENDS Backtest

arb == "arbitrum"
hl  == "hyperliquid"

MCId == {"p", "q", "x", "y", "a", "b", "c"}
MCSeriesOrder ==
  <<Series("candle", arb, "ETH"), Series("candle", hl, "ETH"), Series("funding", hl, "ETH"),
    Series("gas", arb, None), Series("yield", arb, "USDC")>>

-----------------------------------------------------------------------------
(* Nodes.                                                                     *)

Plain == [typed |-> TRUE, uses |-> {}, amount |-> "absolute", tif |-> "absent", expires |-> FALSE]

Node(id, kind, subtype, config) ==
  [id |-> id, kind |-> kind, subtype |-> subtype, enabled |-> TRUE, config |-> config @@ Plain]

Swap(id, chain) ==
  Node(id, "action", "swap", [from |-> "USDC", to |-> "ETH", chain |-> chain])
Perp(id) == Node(id, "action", "perp_order", [symbol |-> "ETH", chain |-> hl])
Deposit(id) == Node(id, "action", "yield_deposit", [asset |-> "USDC", chain |-> arb])
Price(id) == Node(id, "signal", "price_threshold", [symbol |-> "ETH"])
Combine(id, subtype) == Node(id, "signal", subtype, <<>>)

Source(kind, venue, windows) ==
  [kind |-> kind, venue |-> venue, symbol |-> "ETH", windows |-> windows]
Over(transform, bars) == [transform |-> transform, bars |-> bars]
Compare(id, source, reference) ==
  Node(id, "signal", "threshold", [source |-> source, reference |-> reference])

Off(n) == [n EXCEPT !.enabled = FALSE]
With(n, config) == [n EXCEPT !.config = config @@ n.config]

Graph(nodes, edges) == [nodes |-> nodes, edges |-> edges, variables |-> [v |-> "scalar", w |-> "object"]]

-----------------------------------------------------------------------------
(* Graphs that differ in their edges. The first two feed the combinators.     *)

Fed == <<<<"p", "x">>, <<"p", "y">>>>
MoreEdges == {<<"p", "x">>, <<"x", "y">>, <<"y", "x">>, <<"x", "x">>,
              <<"p", "a">>, <<"y", "a">>, <<"a", "b">>, <<"b", "a">>, <<"a", "x">>}

Shapes ==
  {Graph(<<Swap("a", arb), Combine("y", "any"), Combine("x", "all"), Price("p"), Perp("b")>>, Fed \o more) :
     more \in SeqOf(MoreEdges, 4)}
  \cup
  {Graph(<<Swap("a", arb), Off(Combine("x", "all")), Combine("y", "any"), Price("p"), Off(Perp("b"))>>, Fed \o more) :
     more \in SeqOf(MoreEdges, 2)}
  \cup
  {Graph(<<Combine("x", "not"), Price("p"), Price("q")>>, edges) :
     edges \in SeqOf({<<"p", "x">>, <<"q", "x">>, <<"z", "x">>}, 2)}

\* Nodes that are refused, or nearly.
Misfits ==
  {Graph(<<n, Price("p")>>, <<>>) : n \in
     {With(Swap("a", arb), c) : c \in
        {[amount |-> "percent"], [amount |-> "zero_percent"], [amount |-> "not_a_number"],
         [amount |-> "all"], [tif |-> "gtc"], [tif |-> "gtc", expires |-> TRUE],
         [tif |-> "good_til_bars"], [tif |-> "good_til_bars", expires |-> TRUE], [tif |-> "day"],
         [uses |-> {"v"}], [uses |-> {"w"}], [uses |-> {"u"}], [typed |-> FALSE]}}
     \cup {With(Perp("a"), [amount |-> "all"]), Off(With(Perp("a"), [typed |-> FALSE])), Price("p"),
           Node("a", "action", "all", <<>>)}}
  \cup {Graph(<<>>, <<>>)}

-----------------------------------------------------------------------------
(* Data: bars are two apart, a day has two of them, and runs last three.      *)

Step == 2
From == 12
To == 16
Bars == {t \in 0..17 : t % Step = 0}

\* The files of a series, one a day.
Daily(series, times) ==
  {[name |-> 10 * series + d, date |-> d, rows |-> SetToSortSeq({t \in times : t \div 4 = d}, <)] :
     d \in {t \div 4 : t \in times}}

ArbETH == Series("candle", arb, "ETH")
HlETH  == Series("candle", hl, "ETH")
HlFund == Series("funding", hl, "ETH")
ArbGas == Series("gas", arb, None)
Lend   == Series("yield", arb, "USDC")

Hours == 0..17
StoreOf(arbBars, hlBars, rates) ==
  ArbETH :> Daily(1, arbBars) @@ HlETH :> Daily(2, hlBars) @@ HlFund :> Daily(3, rates)
  @@ ArbGas :> {[name |-> 40, date |-> None, rows |-> <<9>> \o [k \in 1..9 |-> 18 - 2 * k]]}
  @@ Lend :> Daily(5, Bars)

FullStore == StoreOf(Bars, Bars, Hours)
Stores ==
  {FullStore,
   \* a gap, and rates off the grid
   StoreOf(Bars, Bars \ {14}, {t \in Hours : t % 5 = 0}),
   \* ends early; short of history, with a bar that is in two files
   [StoreOf(Bars \ {16}, Bars \ {8}, Hours) EXCEPT
      ![HlETH] = @ \cup {[name |-> 29, date |-> None, rows |-> <<10>>]}],
   \* starts late; one bar
   StoreOf(Bars \ {12}, {14}, Hours)}

Readers ==
  {Graph(<<Swap("a", arb), Compare("p", Source("candle", arb, <<Over("sma", 3), Over("rolling_high", 3)>>),
                                        Source("funding", hl, <<Over("ema", 2)>>))>>, <<<<"p", "a">>>>),
   Graph(<<Perp("b"), Compare("p", Source("candle", None, <<Over("roc", 3)>>), None)>>, <<>>),
   Graph(<<Swap("a", arb), Compare("p", Source("candle", hl, <<>>), None)>>, <<<<"p", "a">>>>),
   Graph(<<Deposit("c"), Compare("p", [Source("gas", arb, <<>>) EXCEPT !.symbol = None], None)>>, <<<<"p", "c">>>>)}

-----------------------------------------------------------------------------

Strict == [profile |-> "strict_v1", set |-> <<>>]
Research == [profile |-> "research_v1", set |-> <<>>]
Nameless == [profile |-> "default", set |-> <<>>]

Job(g, contract, overrides, data, st) ==
  [graph |-> g, contract |-> contract, overrides |-> overrides, start |-> From, end |-> To,
   step |-> Step, data |-> data, store |-> st]

\* Graphs only: the policy is refused as soon as it is looked at.
GraphJobs == {Job(g, Nameless, <<>>, <<>>, <<>>) : g \in Shapes \cup Misfits}

ReaderJobs == {Job(g, c, <<>>, None, st) : g \in Readers, st \in Stores,
                 c \in {Strict, [profile |-> "research_v1", set |-> [max_mark_staleness |-> <<2>>]]}}

\* Policies: what is refused, and what wins.
PolicyJobs ==
  LET g    == Graph(<<Perp("b"), Price("p")>>, <<<<"p", "b">>>>)
      data == <<[series |-> HlETH, rows |-> <<12, 16>>], [series |-> HlFund, rows |-> <<10, 11, 13, 15, 15, 16>>]>>
      knobs(set) == [profile |-> "conservative_v1", set |-> set]
  IN  {Job(g, c, o, data, <<>>) :
         c \in {Strict, Research, knobs([missing_required |-> "warn"]),
                knobs([missing_required |-> "warn", fee_model |-> "none", fee_bps |-> "-1"]),
                knobs([missing_required |-> "skip_tick"]), knobs([missing_required |-> "ignore"]),
                knobs([fee_bps |-> "-1"]), knobs([cooldown |-> <<>>]), knobs([cooldown |-> <<-3600>>]),
                knobs([repeat |-> "max_count"]), knobs([maintenance_margin_ratio |-> "NaN"]),
                knobs([maintenance_margin_ratio |-> "1"]),
                knobs([funding |-> "none", missing_required |-> "warn"])},
         o \in {<<>>, [signal_trigger |-> "crossing_with_cooldown"], [gas_model |-> "fixed_native"],
                [slippage_bps |-> "1e-2"], [slippage_bps |-> "0.25", cooldown |-> <<60>>]}}

MCJobs == GraphJobs \cup ReaderJobs \cup PolicyJobs
            \cup {[Job(g, Research, <<>>, None, FullStore) EXCEPT !.step = 0] : g \in Readers}
            \cup {Job(g, Research, <<>>, None, None) : g \in Readers}

-----------------------------------------------------------------------------
(* The two runs that are violated.                                            *)

Quiet == <<[series |-> HlETH, rows |-> <<12, 14, 16>>], [series |-> HlFund, rows |-> <<12>>]>>

\* Policies whose texts are read by one reader and not by the other.
KnobJobs ==
  {Job(Graph(<<Perp("b"), Price("p")>>, <<<<"p", "b">>>>),
       [profile |-> "strict_v1", set |-> set], <<>>, Quiet, <<>>) :
     set \in {<<>>, [fee_bps |-> "1e-2"], [slippage_bps |-> "NaN"], [cooldown |-> <<60>>]}}

\* A price without a venue, traded at one venue and compared at another.
VenueJobs ==
  {Job(Graph(<<Swap("a", arb), Price("p"), Compare("q", Source("candle", hl, <<>>), None)>>,
             <<<<"p", "a">>>>),
       Strict, <<>>, None, FullStore)}

MCSignalLists == {SignalList(j.graph) : j \in {k \in MCJobs : ~NodesRefused(k.graph) /\ ~EdgesRefused(k.graph)}}
=============================================================================
