------------------------------- MODULE Signals -------------------------------
(***************************************************************************)
(* The signals of a strategy (`evaluate_signals` in                        *)
(* src/crates/simulation-engine/src/engine.rs).  A tick first decides every *)
(* signal's condition, then passes the signals that drive actions through   *)
(* the gates of the policy, one by one.                                     *)
(*                                                                         *)
(* A leaf compares two numbers read from market data; only the outcome      *)
(* matters here: it holds, it fails, or it is unknown because a number is   *)
(* missing.  What a fired signal does is the module Engine's.               *)
(***************************************************************************)
EXTENDS Integers, Sequences, FiniteSets

CONSTANTS
  Order,      \* signal ids in the compiler's topological order
  Op,         \* threshold, all, any or not, per signal
  Inputs,     \* the input signals of a combinator, in order
  Driving,    \* the signals that have targets
  Policies,   \* [trigger, repeat, cooldown, maxCount] to choose from
  Gaps,       \* times that can pass from one tick to the next
  Ticks       \* model bound: number of ticks of the run

None == -1
Signal == {Order[i] : i \in DOMAIN Order}
Leaf == {s \in Signal : Op[s] = "threshold"}

Triggers == {"level", "crossing", "crossing_with_cooldown", "once_per_backtest"}
Repeats == {"never", "on_each_signal_fire", "with_cooldown", "max_count"}

\* Whether a fire has to wait for the cooldown.
NeedsCooldown(p) == p.trigger = "crossing_with_cooldown" \/ p.repeat = "with_cooldown"

\* What the compiler (arity, topological order) and the policy's validation let
\* through; a negative cooldown, which validation lets through too, blocks nothing
\* and is left out.
ASSUME SignalsAssumption ==
  /\ Order \in Seq(Signal)
  /\ Driving \subseteq Signal
  /\ Op \in [Signal -> {"threshold", "all", "any", "not"}]
  /\ \A i, j \in DOMAIN Order : Order[i] = Order[j] => i = j
  /\ \A i \in DOMAIN Order : Op[Order[i]] # "threshold" =>
       /\ Inputs[Order[i]] \in Seq(Signal) \ {<<>>}
       /\ \A x \in DOMAIN Inputs[Order[i]] : \E j \in 1 .. i - 1 : Order[j] = Inputs[Order[i]][x]
       /\ Op[Order[i]] = "not" => Len(Inputs[Order[i]]) = 1
  /\ Policies \subseteq [trigger : Triggers, repeat : Repeats,
                         cooldown : Nat \cup {None}, maxCount : Nat \cup {None}]
  /\ \A p \in Policies : /\ NeedsCooldown(p) => p.cooldown # None
                         /\ p.repeat = "max_count" => p.maxCount # None
  /\ Gaps \subseteq Nat \ {0}
  /\ Ticks \in Nat

VARIABLES
  policy,
  time,          \* the time of the current tick
  conditions,    \* the signals' conditions on the current tick
  at,            \* where in Order the current tick is; past its end when it is done
  signalState,   \* the last known condition of a driving signal
  everFired,
  fireCount,
  lastFired,     \* signal -> time of its last fire
  seen,          \* what was observed: [time, conditions] of every tick so far
  fires          \* what happened: [signal, tick, time] of every fire, in order

gates == <<signalState, everFired, fireCount, lastFired>>
vars == <<policy, time, conditions, at, gates, seen, fires>>

Verdicts == {"holds", "fails", "unknown"}

----------------------------------------------------------------------------
(* Conditions. A missing input makes a combinator unknown only when the      *)
(* inputs that are there do not decide it (Kleene's logic).                  *)

Negated(v) == IF v = "holds" THEN "fails" ELSE IF v = "fails" THEN "holds" ELSE "unknown"

Combined_GapFails(op, inputs) ==
  CASE op = "all" -> IF inputs = {"holds"} THEN "holds" ELSE "fails"
    [] op = "any" -> IF "holds" \in inputs THEN "holds" ELSE "fails"
    [] op = "not" -> IF "holds" \in inputs THEN "fails" ELSE "holds"

\* `inputs` is the set of the conditions of a combinator's inputs.
Combined(op, inputs) ==
  CASE op = "all" -> IF "fails" \in inputs THEN "fails"
                     ELSE IF "unknown" \in inputs THEN "unknown" ELSE "holds"
    [] op = "any" -> IF "holds" \in inputs THEN "holds"
                     ELSE IF "unknown" \in inputs THEN "unknown" ELSE "fails"
    [] op = "not" -> Negated(CHOOSE v \in inputs : TRUE)

\* The conditions of all signals, in order, given those of the leaves. An input is
\* read from the signals already decided.
Decide(leaves) ==
  LET upTo[n \in 0 .. Len(Order)] ==
        IF n = 0 THEN <<>>
        ELSE LET s == Order[n]
                 before == upTo[n - 1]
                 verdict == IF Op[s] = "threshold" THEN leaves[s]
                            ELSE Combined(Op[s], {before[Inputs[s][i]] : i \in DOMAIN Inputs[s]})
             IN  [x \in DOMAIN before \cup {s} |-> IF x = s THEN verdict ELSE before[x]]
  IN  upTo[Len(Order)]

----------------------------------------------------------------------------
(* Gates.                                                                   *)

Get(f, k, default) == IF k \in DOMAIN f THEN f[k] ELSE default
Put(f, k, v) == [x \in DOMAIN f \cup {k} |-> IF x = k THEN v ELSE f[x]]

Previous(s) == Get(signalState, s, "fails")

Edge(s) ==
  /\ conditions[s] = "holds"
  /\ policy.trigger \in {"crossing", "crossing_with_cooldown"} => Previous(s) = "fails"

Count(s) == Get(fireCount, s, 0)

RepeatAllowed_OneMore(s) ==
  /\ policy.repeat = "never" => Count(s) = 0
  /\ policy.repeat = "max_count" => Count(s) <= policy.maxCount

RepeatAllowed(s) ==
  /\ policy.repeat = "never" => Count(s) = 0
  /\ policy.repeat = "max_count" => Count(s) < policy.maxCount

CooldownOver_UnlessFired(s) ==
  ~NeedsCooldown(policy) \/ (s \in DOMAIN lastFired /\ time - lastFired[s] >= policy.cooldown)

CooldownOver(s) ==
  NeedsCooldown(policy) /\ s \in DOMAIN lastFired => time - lastFired[s] >= policy.cooldown

Fires(s) ==
  /\ Edge(s)
  /\ policy.trigger = "once_per_backtest" => s \notin everFired
  /\ RepeatAllowed(s)
  /\ CooldownOver(s)

Init ==
  /\ policy \in Policies
  /\ time = 0
  /\ conditions = [s \in Signal |-> "unknown"]
  /\ at = Len(Order) + 1
  /\ signalState = <<>> /\ everFired = {} /\ fireCount = <<>> /\ lastFired = <<>>
  /\ seen = <<>> /\ fires = <<>>

\* The signal to be handled next.
Current == Order[at]

Handling == at <= Len(Order)

\* A tick comes with any outcome of the leaves.
NextTick ==
  /\ ~Handling /\ Len(seen) < Ticks
  /\ \E gap \in Gaps : time' = time + gap
  /\ \E leaves \in [Leaf -> Verdicts] : conditions' = Decide(leaves)
  /\ at' = 1
  /\ seen' = Append(seen, [time |-> time', conditions |-> conditions'])
  /\ UNCHANGED <<policy, gates, fires>>

\* A signal without targets only feeds others.
SkipUndriven ==
  /\ Handling /\ Current \notin Driving
  /\ at' = at + 1
  /\ UNCHANGED <<policy, time, conditions, gates, seen, fires>>

SkipUnknown_AsFailed ==
  /\ Handling /\ Current \in Driving /\ conditions[Current] = "unknown"
  /\ signalState' = Put(signalState, Current, "fails")
  /\ at' = at + 1
  /\ UNCHANGED <<policy, time, conditions, everFired, fireCount, lastFired, seen, fires>>

SkipUnknown_Remembers ==
  /\ Handling /\ Current \in Driving /\ conditions[Current] = "unknown"
  /\ signalState' = Put(signalState, Current, "unknown")
  /\ at' = at + 1
  /\ UNCHANGED <<policy, time, conditions, everFired, fireCount, lastFired, seen, fires>>

\* A signal that is not known this tick leaves no trace.
SkipUnknown ==
  /\ Handling /\ Current \in Driving /\ conditions[Current] = "unknown"
  /\ at' = at + 1
  /\ UNCHANGED <<policy, time, conditions, gates, seen, fires>>

\* The condition is remembered whether the signal fires or not.
HoldBack ==
  /\ Handling /\ Current \in Driving /\ conditions[Current] # "unknown" /\ ~Fires(Current)
  /\ signalState' = Put(signalState, Current, conditions[Current])
  /\ at' = at + 1
  /\ UNCHANGED <<policy, time, conditions, everFired, fireCount, lastFired, seen, fires>>

Fire_KeepsFirst ==
  /\ Handling /\ Current \in Driving /\ conditions[Current] # "unknown" /\ Fires(Current)
  /\ LET s == Current
     IN  /\ signalState' = Put(signalState, s, conditions[s])
         /\ everFired' = everFired \cup {s}
         /\ fireCount' = Put(fireCount, s, Count(s) + 1)
         /\ lastFired' = Put(lastFired, s, Get(lastFired, s, time))
         /\ fires' = Append(fires, [signal |-> s, tick |-> Len(seen), time |-> time])
  /\ at' = at + 1
  /\ UNCHANGED <<policy, time, conditions, seen>>

Fire ==
  /\ Handling /\ Current \in Driving /\ conditions[Current] # "unknown" /\ Fires(Current)
  /\ LET s == Current
     IN  /\ signalState' = Put(signalState, s, conditions[s])
         /\ everFired' = everFired \cup {s}
         /\ fireCount' = Put(fireCount, s, Count(s) + 1)
         /\ lastFired' = Put(lastFired, s, time)
         /\ fires' = Append(fires, [signal |-> s, tick |-> Len(seen), time |-> time])
  /\ at' = at + 1
  /\ UNCHANGED <<policy, time, conditions, seen>>

\* The run ends after its last tick.
Terminated == ~Handling /\ Len(seen) = Ticks /\ UNCHANGED vars

Next == NextTick \/ SkipUndriven \/ SkipUnknown \/ HoldBack \/ Fire \/ Terminated

Spec == Init /\ [][Next]_vars

----------------------------------------------------------------------------
(* Properties.                                                              *)

\* Type invariant: the gates remember only driving signals, fire counts are
\* positive, and a remembered condition is a known one.
TypeOK ==
  /\ policy \in Policies
  /\ time \in Nat
  /\ conditions \in [Signal -> Verdicts]
  /\ at \in 1 .. Len(Order) + 1
  /\ everFired \subseteq Driving
  /\ DOMAIN signalState \subseteq Driving
  /\ signalState \in [DOMAIN signalState -> {"holds", "fails"}]
  /\ DOMAIN fireCount = everFired /\ fireCount \in [everFired -> Nat \ {0}]
  /\ DOMAIN lastFired = everFired /\ lastFired \in [everFired -> Nat]
  /\ seen \in Seq([time : Nat, conditions : [Signal -> Verdicts]])
  /\ fires \in Seq([signal : Driving, tick : Nat, time : Nat])

FiresOf(s) == {i \in DOMAIN fires : fires[i].signal = s}

\* No policy lets a signal fire more often than it says: once where it says once
\* or never again, and up to the maximum count where there is one.
FireBudget ==
  \A s \in Driving :
    /\ policy.trigger = "once_per_backtest" \/ policy.repeat = "never" =>
         Cardinality(FiresOf(s)) <= 1
    /\ policy.repeat = "max_count" => Cardinality(FiresOf(s)) <= policy.maxCount

\* Where the policy has a cooldown, any two fires of a signal, not only those next
\* to each other, are at least the cooldown apart, over gapped ticks too.
CooldownKept ==
  NeedsCooldown(policy) =>
    \A i, j \in DOMAIN fires :
      i < j /\ fires[i].signal = fires[j].signal => fires[j].time - fires[i].time >= policy.cooldown

\* Under a crossing trigger a signal that has fired was seen to fail before it
\* fires again; ticks on which it is unknown do not count as failing.
RefireNeedsFailure ==
  policy.trigger \in {"crossing", "crossing_with_cooldown"} =>
    \A i, j \in DOMAIN fires :
      i < j /\ fires[i].signal = fires[j].signal =>
        \E t \in fires[i].tick + 1 .. fires[j].tick - 1 :
          seen[t].conditions[fires[i].signal] = "fails"

\* The current tick has yet to handle s.
Waits(s) == \E i \in at .. Len(Order) : Order[i] = s

\* The conditions of a driving signal on the ticks it was known, up to the last
\* tick that was handled for it.
KnownTicks(s) ==
  {t \in DOMAIN seen : seen[t].conditions[s] # "unknown" /\ (Waits(s) => t # Len(seen))}

\* No gate ever blocks the first fire: under every policy that allows one fire a
\* signal fires first on the first tick it is seen to hold.
FirstHoldFires ==
  ~(policy.repeat = "max_count" /\ policy.maxCount = 0) =>
    \A s \in Driving :
      LET held == {t \in KnownTicks(s) : seen[t].conditions[s] = "holds"}
      IN  held # {} =>
            \E i \in FiresOf(s) : \A t \in held : fires[i].tick \in held /\ fires[i].tick <= t

\* The outcomes the leaves could have had, where they are not known.
Completions ==
  {leaves \in [Leaf -> {"holds", "fails"}] :
     \A s \in Leaf : conditions[s] # "unknown" => leaves[s] = conditions[s]}

\* "a fire never hinges on the value of missing data" (engine.rs:610): what a
\* signal is decided to be, it is for every value the missing data could have had;
\* "a missing input only forces the result to None when the output actually
\* depends on it" (engine.rs:607): a combinator is unknown only where its missing
\* inputs could make it hold and could make it fail.
GapsDecideNothing ==
  /\ \A s \in Signal, leaves \in Completions :
       conditions[s] # "unknown" => Decide(leaves)[s] = conditions[s]
  /\ \A s \in Signal \ Leaf :
       conditions[s] = "unknown" =>
         LET inputs == [i \in DOMAIN Inputs[s] |-> conditions[Inputs[s][i]]]
             full == {f \in [DOMAIN inputs -> {"holds", "fails"}] :
                        \A i \in DOMAIN inputs : inputs[i] # "unknown" => f[i] = inputs[i]}
             truth(f) == CASE Op[s] = "all" -> \A i \in DOMAIN f : f[i] = "holds"
                           [] Op[s] = "any" -> \E i \in DOMAIN f : f[i] = "holds"
                           [] Op[s] = "not" -> f[1] = "fails"
         IN  {truth(f) : f \in full} = BOOLEAN
=============================================================================
