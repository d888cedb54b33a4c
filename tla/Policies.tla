------------------------------ MODULE Policies ------------------------------
(* The policy of a run (crates/simulation-policies). A contract names one of  *)
(* three profiles and sets some knobs on top of it, a run may override four   *)
(* more, and what results is validated. A contract is [profile, set] and      *)
(* overrides are a function, from the knobs given to their values.            *)
EXTENDS Integers

CONSTANT None   \* a knob that is not given

-----------------------------------------------------------------------------
(* What texts say. A decimal knob stays a text: validation reads it as a      *)
(* binary floating-point number, the engine later as a Decimal, and the two   *)
(* do not read the same texts. A duration is the sequence of the seconds it   *)
(* says, which is empty when the text is not a duration.                      *)

Floats   == {"0.0125", "0.25", "1", "5", "8", "10", "25", "50", "-1", "1e-2", "NaN", "inf"}
Decimals == Floats \ {"1e-2", "NaN", "inf"}
Negative == {"-1"}

IsDecimal(text)  == text \in Decimals
IsRatio(text)    == text \notin {"1", "5", "8", "10", "25", "50", "inf"}
IsDuration(text) == text # <<>>
Seconds(text)    == text[1]

\* `parse_decimal`: NaN is not below zero.
ParsesDecimal(text) == text \in Floats \ Negative

-----------------------------------------------------------------------------

StrictV1 == [
  profile |-> "strict_v1",
  insufficient_balance |-> "reject", partial_fills |-> "none",
  price_selection |-> "next_open",
  slippage_model |-> "fixed_bps", slippage_bps |-> "10", volume_impact_coef_bps |-> "50",
  fee_model |-> "fixed_bps", fee_bps |-> "5",
  gas_model |-> "historical_fee_history",
  gas_fallback_model |-> "fixed_usd", gas_fixed_amount |-> "0.25",
  signal_trigger |-> "crossing", repeat |-> "on_each_signal_fire",
  cooldown |-> None, repeat_max_count |-> None,
  same_tick |-> "topological_order",
  missing_required |-> "fail", missing_optional |-> "warn", max_mark_staleness |-> None,
  liquidation_check |-> "every_tick", maintenance_margin_ratio |-> "0.0125",
  funding |-> "historical", reduce_only_validation |-> "strict",
  yield_accrual |-> "compound_apy"]

Profiles == [
  strict_v1 |-> StrictV1,
  conservative_v1 |-> [StrictV1 EXCEPT !.profile = "conservative_v1",
    !.price_selection = "worse_side_ohlc", !.slippage_bps = "25", !.fee_bps = "8"],
  research_v1 |-> [StrictV1 EXCEPT !.profile = "research_v1",
    !.price_selection = "close", !.slippage_bps = "5", !.missing_required = "warn"]]

\* The values a knob that is an enumeration can be given; `parse_enum` refuses
\* any other.
Variants == [
  insufficient_balance |-> {"reject", "partial_fill", "clamp_to_available", "allow_negative"},
  partial_fills |-> {"none", "allow_if_configured", "always_allow"},
  price_selection |-> {"close", "open", "mid", "next_open", "worse_side_ohlc"},
  slippage_model |-> {"fixed_bps", "volume_based", "amm_price_impact", "none"},
  fee_model |-> {"fixed_bps", "venue_fee_table", "none"},
  gas_model |-> {"none", "fixed_usd", "fixed_native", "historical_fee_history"},
  gas_fallback_model |-> {"none", "fixed_usd", "fixed_native", "historical_fee_history"},
  signal_trigger |-> {"level", "crossing", "crossing_with_cooldown", "once_per_backtest"},
  repeat |-> {"never", "on_each_signal_fire", "with_cooldown", "max_count"},
  same_tick |-> {"graph_order", "topological_order", "signals_first_then_actions",
                 "conservative_adverse_order"},
  missing_required |-> {"fail", "warn", "skip_tick", "forward_fill"},
  missing_optional |-> {"warn", "fail", "forward_fill", "fallback_provider"},
  liquidation_check |-> {"every_tick", "never"},
  funding |-> {"historical", "none"},
  reduce_only_validation |-> {"strict", "lenient"},
  yield_accrual |-> {"simple_apr", "compound_apy", "protocol_index", "none"}]

\* What no engine code implements, and is refused rather than ignored.
Unimplemented == [
  insufficient_balance |-> {"partial_fill", "clamp_to_available"},
  partial_fills |-> Variants.partial_fills \ {"none"},
  fee_model |-> {"venue_fee_table"},
  gas_model |-> {"fixed_native"},
  gas_fallback_model |-> Variants.gas_fallback_model \ {"fixed_usd"},
  same_tick |-> Variants.same_tick \ {"topological_order"},
  missing_required |-> {"skip_tick", "forward_fill"},
  missing_optional |-> Variants.missing_optional \ {"warn"},
  reduce_only_validation |-> {"lenient"},
  yield_accrual |-> {"protocol_index"}]

-----------------------------------------------------------------------------

Parses(knobs) == \A k \in DOMAIN knobs \cap DOMAIN Variants : knobs[k] \in Variants[k]

FixedGas == {"fixed_usd", "fixed_native"}

\* Decimals are validated where a model that is selected is thought to use them.
DecimalsValid(p) ==
  /\ p.slippage_model # "none" => ParsesDecimal(p.slippage_bps)
  /\ p.slippage_model = "volume_based" => ParsesDecimal(p.volume_impact_coef_bps)
  /\ p.fee_model = "fixed_bps" => ParsesDecimal(p.fee_bps)
  /\ {p.gas_model, p.gas_fallback_model} \cap FixedGas # {} => ParsesDecimal(p.gas_fixed_amount)
  /\ ParsesDecimal(p.maintenance_margin_ratio) /\ IsRatio(p.maintenance_margin_ratio)

\* A duration must parse, of either sign.
DurationsValid(p) ==
  \A d \in {p.cooldown, p.max_mark_staleness} \ {None} : IsDuration(d)

Validate(p) ==
  /\ DecimalsValid(p)
  /\ \A k \in DOMAIN Unimplemented : p[k] \notin Unimplemented[k]
  /\ DurationsValid(p)
  /\ p.signal_trigger = "crossing_with_cooldown" \/ p.repeat = "with_cooldown" => p.cooldown # None
  /\ p.repeat = "max_count" => p.repeat_max_count # None

\* What is set wins.
Overlaid(p, set) == [k \in DOMAIN p |-> IF k \in DOMAIN set THEN set[k] ELSE p[k]]

\* The knobs a contract sets win over its profile's.
Merged(contract) == Overlaid(Profiles[contract.profile], contract.set)

\* What a contract resolves to, None where it is refused.
ResolvePolicy(contract) ==
  IF /\ contract.profile \in DOMAIN Profiles
     /\ Parses(contract.set)
     /\ Validate(Merged(contract))
  THEN Merged(contract)
  ELSE None

\* What a run overrides wins over both, under the same rules.
ApplyExecutionOverrides(p, overrides) ==
  IF Parses(overrides) /\ Validate(Overlaid(p, overrides)) THEN Overlaid(p, overrides) ELSE None
=============================================================================
