------------------------------ MODULE MCSignals ------------------------------
(* Two leaves under one combinator of each kind, a nested one among them, and *)
(* every trigger and every repeat rule.                                       *)
EXTENDS Signals

MCOrder == <<"dip", "calm", "both", "notBoth", "either">>
MCOp == [dip |-> "threshold", calm |-> "threshold", both |-> "all", notBoth |-> "not",
         either |-> "any"]
MCInputs == [dip |-> <<>>, calm |-> <<>>, both |-> <<"dip", "calm">>, notBoth |-> <<"both">>,
             either |-> <<"dip", "notBoth">>]
MCDriving == {"dip", "notBoth"}

Policy(trigger, repeat, cooldown, maxCount) ==
  [trigger |-> trigger, repeat |-> repeat, cooldown |-> cooldown, maxCount |-> maxCount]

\* The last two combine what no profile does.
MCPolicies ==
  {Policy("level", "on_each_signal_fire", None, None),
   Policy("level", "with_cooldown", 2, None),
   Policy("level", "max_count", None, 2),
   Policy("crossing", "on_each_signal_fire", None, None),
   Policy("crossing_with_cooldown", "on_each_signal_fire", 3, None),
   Policy("once_per_backtest", "on_each_signal_fire", None, None),
   Policy("crossing", "never", 3, None),
   Policy("crossing_with_cooldown", "max_count", 2, 1)}
=============================================================================
