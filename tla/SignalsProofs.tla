--------------------------- MODULE SignalsProofs ---------------------------
(***************************************************************************)
(* Proofs about the gates: what the state kept from tick to tick knows of   *)
(* the fires so far, and what follows for the next one.  Up to the budget,  *)
(* the cooldown and the crossings the conditions are not constrained: the   *)
(* gates keep those promises whatever is decided.  Then the conditions:     *)
(* what Decide computes, by induction over the order of the signals, what   *)
(* gaps in the data can do to it, and that a first hold always fires.       *)
(***************************************************************************)
EXTENDS Signals, FiniteSetTheorems, WellFoundedInduction, TLAPS

FireRecord == [signal : Driving, tick : Nat, time : Nat]

\* The part of the type invariant that the gates depend on.
Typed ==
  /\ policy \in Policies
  /\ time \in Nat
  /\ at \in 1 .. Len(Order) + 1
  /\ fires \in Seq(FireRecord)
  /\ seen \in Seq({seen[t] : t \in DOMAIN seen})

LEMMA OrderLength == Len(Order) \in Nat
BY SignalsAssumption

\* The fire that step Fire adds to the others.
LEMMA FireAppends ==
  ASSUME Typed, Fire
  PROVE  /\ fires' = Append(fires, [signal |-> Current, tick |-> Len(seen), time |-> time])
         /\ fires' \in Seq(FireRecord)
         /\ Len(fires') = Len(fires) + 1
         /\ DOMAIN fires = 1 .. Len(fires) /\ DOMAIN fires' = 1 .. Len(fires) + 1
         /\ Len(fires) \in Nat /\ Len(seen) \in Nat
         /\ \A i \in 1 .. Len(fires) : fires'[i] = fires[i]
         /\ fires'[Len(fires) + 1] = [signal |-> Current, tick |-> Len(seen), time |-> time]
<1>1. Len(seen) \in Nat /\ Current \in Driving /\ time \in Nat /\ fires \in Seq(FireRecord)
  BY DEF Typed, Fire
<1> DEFINE new == [signal |-> Current, tick |-> Len(seen), time |-> time]
<1>2. new \in FireRecord
  BY <1>1 DEF FireRecord
<1>3. fires' = Append(fires, new)
  BY DEF Fire
<1> HIDE DEF new
<1>4. /\ fires' \in Seq(FireRecord) /\ Len(fires') = Len(fires) + 1
      /\ DOMAIN fires = 1 .. Len(fires) /\ DOMAIN fires' = 1 .. Len(fires) + 1
      /\ Len(fires) \in Nat
      /\ \A i \in 1 .. Len(fires) : fires'[i] = fires[i]
      /\ fires'[Len(fires) + 1] = new
  BY <1>1, <1>2, <1>3
<1> QED BY <1>1, <1>3, <1>4 DEF new

\* What step NextTick adds to what was seen.
LEMMA TickAppends ==
  ASSUME Typed, NextTick
  PROVE  /\ Len(seen) \in Nat /\ Len(seen') = Len(seen) + 1
         /\ DOMAIN seen = 1 .. Len(seen) /\ DOMAIN seen' = 1 .. Len(seen) + 1
         /\ \A t \in 1 .. Len(seen) : seen'[t] = seen[t]
         /\ seen'[Len(seen) + 1].conditions = conditions'
         /\ seen' \in Seq({seen'[t] : t \in DOMAIN seen'})
<1> DEFINE e == [time |-> time', conditions |-> conditions']
           S == {seen[t] : t \in DOMAIN seen}
<1>1. seen' = Append(seen, e) /\ seen \in Seq(S)
  BY DEF NextTick, Typed
<1>2. e.conditions = conditions'
  OBVIOUS
<1> HIDE DEF e, S
<1>3. /\ Len(seen) \in Nat /\ Len(seen') = Len(seen) + 1
      /\ DOMAIN seen = 1 .. Len(seen) /\ DOMAIN seen' = 1 .. Len(seen) + 1
      /\ \A t \in 1 .. Len(seen) : seen'[t] = seen[t]
      /\ seen'[Len(seen) + 1] = e
  <2>1. seen \in Seq(S \cup {e})
    BY <1>1
  <2> QED BY <1>1, <2>1
<1>4. seen' \in Seq(S \cup {e})
  <2>1. seen \in Seq(S \cup {e})
    BY <1>1
  <2> QED BY <1>1, <2>1
<1>5. seen' \in Seq({seen'[t] : t \in DOMAIN seen'})
  BY <1>3, <1>4
<1> QED BY <1>2, <1>3, <1>5

LEMMA NextTyped ==
  ASSUME Typed, [Next]_vars
  PROVE  Typed'
<1> USE OrderLength
<1>1. CASE NextTick
  <2>1. time' \in Nat
    BY <1>1, SignalsAssumption DEF NextTick, Typed
  <2>2. at' = 1 /\ UNCHANGED <<policy, fires>>
    BY <1>1 DEF NextTick
  <2>3. seen' \in Seq({seen'[t] : t \in DOMAIN seen'})
    BY <1>1, TickAppends
  <2> QED BY <2>1, <2>2, <2>3 DEF Typed
<1>2. CASE SkipUndriven
  BY <1>2 DEF SkipUndriven, Handling, Typed
<1>3. CASE SkipUnknown
  BY <1>3 DEF SkipUnknown, Handling, Typed
<1>4. CASE HoldBack
  BY <1>4 DEF HoldBack, Handling, Typed
<1>5. CASE Fire
  <2>1. fires' \in Seq(FireRecord)
    BY <1>5, FireAppends
  <2> QED BY <1>5, <2>1 DEF Fire, Handling, Typed
<1>6. CASE Terminated
  BY <1>6 DEF Terminated, vars, Typed
<1>7. CASE UNCHANGED vars
  BY <1>7 DEF vars, Typed
<1> QED BY <1>1, <1>2, <1>3, <1>4, <1>5, <1>6, <1>7 DEF Next

LEMMA InitTyped == ASSUME Init PROVE Typed
BY OrderLength DEF Init, Typed

----------------------------------------------------------------------------
(* The cooldown. The last fire of a signal is the latest of its fires.      *)

LastFireIsLatest ==
  /\ \A s \in DOMAIN lastFired : lastFired[s] \in Nat
  /\ \A i \in DOMAIN fires : /\ fires[i].signal \in DOMAIN lastFired
                             /\ fires[i].time <= lastFired[fires[i].signal]

\* No fire is later than the current tick.
NoLater == \A i \in DOMAIN fires : fires[i].time <= time

CInv == Typed /\ NoLater /\ LastFireIsLatest /\ CooldownKept

\* A gate that is silent leaves the fires and what is kept of them alone.
LEMMA SilentSteps ==
  ASSUME Typed, [Next]_vars
  PROVE  \/ Fire
         \/ /\ UNCHANGED <<fires, everFired, fireCount, lastFired, policy>>
            /\ \/ NextTick
               \/ UNCHANGED <<time, seen>>
BY DEF Next, NextTick, SkipUndriven, SkipUnknown, HoldBack, Terminated, vars, gates

LEMMA FireKeepsLatest ==
  ASSUME CInv, Fire
  PROVE  LastFireIsLatest'
<1>1. Typed /\ time \in Nat
  BY DEF CInv, Typed
<1>2. lastFired' = Put(lastFired, Current, time)
  BY DEF Fire
<1>3. /\ DOMAIN lastFired' = DOMAIN lastFired \cup {Current}
      /\ lastFired'[Current] = time
      /\ \A s \in DOMAIN lastFired : s # Current => lastFired'[s] = lastFired[s]
  BY <1>2 DEF Put
<1>4. \A s \in DOMAIN lastFired' : lastFired'[s] \in Nat
  BY <1>1, <1>3 DEF CInv, LastFireIsLatest
<1>5. ASSUME NEW i \in DOMAIN fires'
      PROVE  /\ fires'[i].signal \in DOMAIN lastFired'
             /\ fires'[i].time <= lastFired'[fires'[i].signal]
  <2>1. CASE i = Len(fires) + 1
    BY <1>1, <1>3, <2>1, FireAppends
  <2>2. CASE i \in 1 .. Len(fires) /\ fires[i].signal # Current
    BY <1>1, <1>3, <2>2, FireAppends DEF CInv, LastFireIsLatest
  <2>3. CASE i \in 1 .. Len(fires) /\ fires[i].signal = Current
    BY <1>1, <1>3, <2>3, FireAppends DEF CInv, LastFireIsLatest, NoLater
  <2> QED BY <1>1, <2>1, <2>2, <2>3, FireAppends
<1> QED BY <1>4, <1>5 DEF LastFireIsLatest

\* A fire that the gate lets through is a cooldown after every earlier one.
LEMMA FireWaits ==
  ASSUME CInv, Fire
  PROVE  CooldownKept'
<1>1. Typed /\ time \in Nat /\ policy \in Policies
  BY DEF CInv, Typed
<1>2. SUFFICES ASSUME NeedsCooldown(policy), NEW i \in DOMAIN fires', NEW j \in DOMAIN fires',
                      i < j, fires'[i].signal = fires'[j].signal
               PROVE  fires'[j].time - fires'[i].time >= policy.cooldown
  <2>1. policy' = policy
    BY DEF Fire
  <2> QED BY <2>1 DEF CooldownKept, NeedsCooldown
<1>3. policy.cooldown \in Int
  BY <1>1, SignalsAssumption DEF None
<1>4. i \in 1 .. Len(fires)
  BY <1>1, <1>2, FireAppends
<1>5. CASE j \in 1 .. Len(fires)
  BY <1>1, <1>2, <1>4, <1>5, FireAppends DEF CInv, CooldownKept
<1>6. CASE j = Len(fires) + 1
  <2>1. fires'[j].signal = Current /\ fires'[j].time = time /\ fires'[i] = fires[i]
    BY <1>1, <1>4, <1>6, FireAppends
  <2>2. /\ Current \in DOMAIN lastFired /\ lastFired[Current] \in Nat
        /\ fires[i].time \in Nat /\ fires[i].time <= lastFired[Current]
    <3>1. fires[i] \in FireRecord
      BY <1>1, <1>4 DEF Typed
    <3>2. i \in DOMAIN fires
      BY <1>1, <1>4, FireAppends
    <3> QED BY <1>2, <2>1, <3>1, <3>2 DEF CInv, LastFireIsLatest, FireRecord
  <2>3. time - lastFired[Current] >= policy.cooldown
    BY <1>2, <2>2 DEF Fire, Fires, CooldownOver
  <2> QED BY <1>1, <1>3, <2>1, <2>2, <2>3
<1> QED BY <1>1, <1>5, <1>6, FireAppends

LEMMA NextCooldown ==
  ASSUME CInv, [Next]_vars
  PROVE  CInv'
<1>1. Typed'
  BY NextTyped DEF CInv
<1>2. CASE Fire
  <2>1. NoLater'
    <3>1. Typed /\ time \in Nat /\ time' = time
      BY <1>2 DEF CInv, Typed, Fire
    <3>2. ASSUME NEW i \in DOMAIN fires' PROVE fires'[i].time <= time
      BY <1>2, <3>1, FireAppends DEF CInv, NoLater
    <3> QED BY <3>1, <3>2 DEF NoLater
  <2> QED BY <1>1, <1>2, <2>1, FireKeepsLatest, FireWaits DEF CInv
<1>3. CASE UNCHANGED <<fires, everFired, fireCount, lastFired, policy>>
           /\ (NextTick \/ UNCHANGED <<time, seen>>)
  <2>1. LastFireIsLatest' /\ CooldownKept'
    BY <1>3 DEF CInv, LastFireIsLatest, CooldownKept, NeedsCooldown
  <2>2. time \in Nat /\ time' \in Nat /\ time <= time'
    BY <1>1, <1>3, SignalsAssumption DEF CInv, Typed, NextTick
  <2>3. \A i \in DOMAIN fires : fires[i].time \in Nat
    <3>1. fires \in Seq(FireRecord)
      BY DEF CInv, Typed
    <3>2. \A i \in DOMAIN fires : fires[i] \in FireRecord
      BY <3>1
    <3> QED BY <3>2 DEF FireRecord
  <2>4. NoLater'
    BY <1>3, <2>2, <2>3 DEF CInv, NoLater
  <2> QED BY <1>1, <2>1, <2>4 DEF CInv
<1> QED BY <1>2, <1>3, SilentSteps DEF CInv

\* For every order of signals, policy and sequence of ticks, two fires of a signal
\* under a cooldown are at least the cooldown apart (the cooldown gate of
\* evaluate_signals).
THEOREM CooldownsAreKept == Spec => []CooldownKept
<1>1. Init => CInv
  <2> SUFFICES ASSUME Init PROVE CInv
    OBVIOUS
  <2>1. DOMAIN fires = {} /\ DOMAIN lastFired = {}
    BY DEF Init
  <2> QED BY <2>1, InitTyped DEF CInv, NoLater, LastFireIsLatest, CooldownKept
<1>2. CInv /\ [Next]_vars => CInv'
  BY NextCooldown
<1>3. CInv => CooldownKept
  BY DEF CInv
<1> QED BY <1>1, <1>2, <1>3, PTL DEF Spec

----------------------------------------------------------------------------
(* The budget. The fire count of a signal is the number of its fires.       *)

FiresCounted ==
  \A s \in Driving :
    /\ IsFiniteSet(FiresOf(s))
    /\ Count(s) = Cardinality(FiresOf(s))
    /\ s \notin everFired => FiresOf(s) = {}

BInv == Typed /\ FiresCounted /\ FireBudget

LEMMA FiresAfterFire ==
  ASSUME Typed, Fire, NEW s
  PROVE  FiresOf(s)' = IF s = Current THEN FiresOf(s) \cup {Len(fires) + 1} ELSE FiresOf(s)
<1>1. ASSUME NEW i
      PROVE  i \in FiresOf(s)' <=> i \in FiresOf(s) \/ (s = Current /\ i = Len(fires) + 1)
  BY FireAppends DEF FiresOf
<1> QED BY <1>1

LEMMA CountAfterFire ==
  ASSUME Fire, NEW s
  PROVE  Count(s)' = IF s = Current THEN Count(s) + 1 ELSE Count(s)
<1>1. fireCount' = Put(fireCount, Current, Count(Current) + 1)
  BY DEF Fire
<1> QED BY <1>1 DEF Count, Get, Put

LEMMA FireCounts ==
  ASSUME BInv, Fire
  PROVE  FiresCounted' /\ FireBudget'
<1>1. Typed /\ policy \in Policies /\ policy' = policy
  BY DEF BInv, Typed, Fire
<1>2. everFired' = everFired \cup {Current} /\ Len(fires) + 1 \in Nat
  BY <1>1, FireAppends DEF Fire
<1>3. policy.maxCount \in Int
  BY <1>1, SignalsAssumption DEF None
<1>4. ASSUME NEW s \in Driving
      PROVE  /\ IsFiniteSet(FiresOf(s)')
             /\ Count(s)' = Cardinality(FiresOf(s)')
             /\ s \notin everFired' => FiresOf(s)' = {}
             /\ policy.trigger = "once_per_backtest" \/ policy.repeat = "never" =>
                  Cardinality(FiresOf(s)') <= 1
             /\ policy.repeat = "max_count" => Cardinality(FiresOf(s)') <= policy.maxCount
  <2>1. /\ IsFiniteSet(FiresOf(s)) /\ Count(s) = Cardinality(FiresOf(s))
        /\ s \notin everFired => FiresOf(s) = {}
    BY DEF BInv, FiresCounted
  <2>2. CASE s # Current
    <3>1. FiresOf(s)' = FiresOf(s) /\ Count(s)' = Count(s)
      BY <1>1, <2>2, FiresAfterFire, CountAfterFire
    <3> QED BY <1>2, <2>1, <2>2, <3>1 DEF BInv, FireBudget
  <2>3. CASE s = Current
    <3>1. FiresOf(s)' = FiresOf(s) \cup {Len(fires) + 1} /\ Count(s)' = Count(s) + 1
      BY <1>1, <2>3, FiresAfterFire, CountAfterFire
    <3>2. Len(fires) + 1 \notin FiresOf(s)
      BY <1>1, FireAppends DEF FiresOf
    <3>3. /\ IsFiniteSet(FiresOf(s)') /\ Cardinality(FiresOf(s)) \in Nat
          /\ Cardinality(FiresOf(s)') = Cardinality(FiresOf(s)) + 1
      BY <2>1, <3>1, <3>2, FS_AddElement, FS_CardinalityType
    <3>4. policy.trigger = "once_per_backtest" => Cardinality(FiresOf(s)) = 0
      BY <2>1, <2>3, FS_EmptySet DEF Fire, Fires
    <3>5. policy.repeat = "never" => Count(s) = 0
      BY <2>3 DEF Fire, Fires, RepeatAllowed
    <3>6. policy.repeat = "max_count" => Count(s) < policy.maxCount
      BY <2>3 DEF Fire, Fires, RepeatAllowed
    <3> QED BY <1>2, <1>3, <2>1, <2>3, <3>1, <3>3, <3>4, <3>5, <3>6
  <2> QED BY <2>2, <2>3
<1> QED BY <1>1, <1>4 DEF FiresCounted, FireBudget

LEMMA NextBudget ==
  ASSUME BInv, [Next]_vars
  PROVE  BInv'
<1>1. Typed'
  BY NextTyped DEF BInv
<1>2. CASE Fire
  BY <1>1, <1>2, FireCounts DEF BInv
<1>3. CASE UNCHANGED <<fires, everFired, fireCount, lastFired, policy>>
  BY <1>1, <1>3 DEF BInv, FiresCounted, FireBudget, FiresOf, Count
<1> QED BY <1>2, <1>3, SilentSteps DEF BInv

LEMMA InitBudget == ASSUME Init PROVE BInv
<1>1. DOMAIN fires = {} /\ DOMAIN fireCount = {} /\ policy \in Policies
  BY DEF Init
<1>2. \A s \in Driving : FiresOf(s) = {} /\ Count(s) = 0
  BY <1>1 DEF FiresOf, Count, Get
<1>3. policy.repeat = "max_count" => policy.maxCount \in Nat
  BY <1>1, SignalsAssumption DEF None
<1> QED BY <1>2, <1>3, InitTyped, FS_EmptySet DEF BInv, FiresCounted, FireBudget

\* For every order of signals, policy and sequence of ticks, no signal fires more
\* often than the trigger and the repeat rule say (the once-per-backtest and repeat
\* gates of evaluate_signals).
THEOREM BudgetsAreKept == Spec => []FireBudget
<1>1. Init => BInv
  BY InitBudget
<1>2. BInv /\ [Next]_vars => BInv'
  BY NextBudget
<1>3. BInv => FireBudget
  BY DEF BInv
<1> QED BY <1>1, <1>2, <1>3, PTL DEF Spec

----------------------------------------------------------------------------
(* Crossings. A signal that has fired and whose last known condition fails   *)
(* was seen to fail after each of its fires, on a tick already handled for   *)
(* it.                                                                      *)

LatestSeen == Handling => Len(seen) >= 1 /\ seen[Len(seen)].conditions = conditions

\* The last tick that was handled for s.
HandledUpTo(s) == IF Waits(s) THEN Len(seen) - 1 ELSE Len(seen)

FailedAfter(s, t) == \E u \in t + 1 .. HandledUpTo(s) : seen[u].conditions[s] = "fails"

FailuresSeen ==
  \A i \in DOMAIN fires :
    LET s == fires[i].signal
    IN  /\ fires[i].tick <= HandledUpTo(s)
        /\ s \in DOMAIN signalState
        /\ signalState[s] = "fails" => FailedAfter(s, fires[i].tick)

RInv == Typed /\ LatestSeen /\ FailuresSeen /\ RefireNeedsFailure

LEMMA FireTypes ==
  ASSUME Typed
  PROVE  \A i \in DOMAIN fires : fires[i] \in FireRecord
<1>1. fires \in Seq(FireRecord)
  BY DEF Typed
<1> QED BY <1>1

LEMMA WaitsAfterHandling ==
  ASSUME Typed, Handling, at' = at + 1
  PROVE  /\ \A s : IF s = Current THEN Waits(s) /\ ~Waits(s)' ELSE Waits(s)' <=> Waits(s)
         /\ Current \in Signal
<1>1. Len(Order) \in Nat /\ at \in 1 .. Len(Order)
  BY OrderLength DEF Typed, Handling
<1>2. \A i, j \in 1 .. Len(Order) : Order[i] = Order[j] => i = j
  BY SignalsAssumption
<1>3. ASSUME NEW s, s = Current PROVE Waits(s)
  BY <1>1, <1>3 DEF Waits, Current
<1>4. ASSUME NEW s, s = Current PROVE ~Waits(s)'
  BY <1>1, <1>2, <1>4 DEF Waits, Current
<1>5. ASSUME NEW s, s # Current PROVE Waits(s)' <=> Waits(s)
  BY <1>1, <1>5 DEF Waits, Current
<1>6. Current \in Signal
  BY <1>1, SignalsAssumption DEF Current, Signal
<1> QED BY <1>3, <1>4, <1>5, <1>6

LEMMA WaitsAfterTick ==
  ASSUME Typed, NextTick
  PROVE  \A s \in Signal : ~Waits(s) /\ Waits(s)'
<1>1. Len(Order) \in Nat /\ at = Len(Order) + 1 /\ at' = 1
  BY OrderLength DEF Typed, Handling, NextTick
<1>2. \A s \in Signal : \E j \in 1 .. Len(Order) : Order[j] = s
  BY SignalsAssumption DEF Signal
<1> QED BY <1>1, <1>2 DEF Waits

LEMMA LatestAfter ==
  ASSUME RInv, [Next]_vars
  PROVE  LatestSeen'
<1>1. Typed /\ LatestSeen
  BY DEF RInv
<1>2. CASE NextTick
  BY <1>1, <1>2, TickAppends DEF LatestSeen
<1>3. CASE UNCHANGED <<seen, conditions>> /\ (Handling' => Handling)
  BY <1>1, <1>3 DEF LatestSeen
<1>4. \/ NextTick
      \/ UNCHANGED <<seen, conditions>> /\ (Handling' => Handling)
  BY <1>1, OrderLength
     DEF Typed, Next, SkipUndriven, SkipUnknown, HoldBack, Fire, Terminated, vars, gates, Handling
<1> QED BY <1>2, <1>3, <1>4

\* What was known of failures before a step is known after it, unless the step
\* handles the very signal.
LEMMA FailuresKept ==
  ASSUME RInv, Typed', NEW i \in DOMAIN fires, NEW s, s = fires[i].signal,
         \/ NextTick
         \/ UNCHANGED seen /\ at' = at + 1 /\ Handling
         \/ UNCHANGED <<seen, at>>,
         (s \in DOMAIN signalState)', signalState'[s] = "fails" => signalState[s] = "fails"
  PROVE  /\ fires[i].tick <= HandledUpTo(s)'
         /\ signalState'[s] = "fails" =>
              \E u \in fires[i].tick + 1 .. HandledUpTo(s)' : seen'[u].conditions[s] = "fails"
<1>1. Typed /\ fires[i] \in FireRecord
  BY FireTypes DEF RInv
<1>2. fires[i].tick \in Nat /\ s \in Driving /\ s \in Signal
  BY <1>1, SignalsAssumption DEF FireRecord
<1>3. /\ fires[i].tick <= HandledUpTo(s)
      /\ signalState[s] = "fails" =>
           \E u \in fires[i].tick + 1 .. HandledUpTo(s) : seen[u].conditions[s] = "fails"
  BY DEF RInv, FailuresSeen, FailedAfter
<1>4. Len(seen) \in Nat
  BY <1>1 DEF Typed
<1>5. HandledUpTo(s) \in Int /\ HandledUpTo(s)' \in Int /\ HandledUpTo(s) <= Len(seen)
      /\ HandledUpTo(s) <= HandledUpTo(s)'
  <2>1. CASE NextTick
    BY <1>1, <1>2, <1>4, <2>1, TickAppends, WaitsAfterTick DEF HandledUpTo
  <2>2. CASE UNCHANGED seen /\ at' = at + 1 /\ Handling
    BY <1>1, <1>4, <2>2, WaitsAfterHandling DEF HandledUpTo
  <2>3. CASE UNCHANGED <<seen, at>>
    BY <1>4, <2>3 DEF HandledUpTo, Waits
  <2> QED BY <2>1, <2>2, <2>3
<1>6. \A u \in 1 .. Len(seen) : seen'[u] = seen[u]
  BY <1>1, TickAppends
<1> QED BY <1>2, <1>3, <1>4, <1>5, <1>6

LEMMA OldFires ==
  ASSUME RInv, Typed', [Next]_vars, NEW i \in DOMAIN fires, NEW s, s = fires[i].signal
  PROVE  /\ fires[i].tick <= HandledUpTo(s)'
         /\ s \in DOMAIN signalState'
         /\ signalState'[s] = "fails" =>
              \E u \in fires[i].tick + 1 .. HandledUpTo(s)' : seen'[u].conditions[s] = "fails"
<1>1. /\ Typed /\ Len(seen) \in Nat /\ s \in DOMAIN signalState
      /\ fires[i].tick \in Nat /\ s \in Driving
  <2>1. fires[i] \in FireRecord
    BY FireTypes DEF RInv
  <2> QED BY <2>1 DEF RInv, Typed, FailuresSeen, FireRecord
<1>2. CASE NextTick
  BY <1>1, <1>2, FailuresKept DEF NextTick, gates
<1>3. CASE SkipUndriven \/ SkipUnknown
  BY <1>1, <1>3, FailuresKept DEF SkipUndriven, SkipUnknown, gates
<1>4. CASE HoldBack /\ s # Current
  <2>1. s \in DOMAIN signalState' /\ signalState'[s] = signalState[s]
    BY <1>1, <1>4 DEF HoldBack, Put
  <2> QED BY <1>4, <2>1, FailuresKept DEF HoldBack
<1>5. CASE HoldBack /\ s = Current
  <2>1. /\ s \in DOMAIN signalState' /\ signalState'[s] = conditions[s]
        /\ UNCHANGED seen /\ at' = at + 1 /\ Handling
    BY <1>5 DEF HoldBack, Put
  <2>2. Waits(s) /\ ~Waits(s)'
    BY <1>1, <1>5, <2>1, WaitsAfterHandling
  <2>3. HandledUpTo(s)' = Len(seen) /\ fires[i].tick <= Len(seen) - 1
    BY <2>1, <2>2 DEF RInv, FailuresSeen, HandledUpTo
  <2>4. seen'[Len(seen)].conditions[s] = conditions[s]
    BY <2>1 DEF RInv, LatestSeen
  <2> QED BY <1>1, <2>1, <2>3, <2>4
<1>6. CASE Fire /\ s # Current
  <2>1. s \in DOMAIN signalState' /\ signalState'[s] = signalState[s]
    BY <1>1, <1>6 DEF Fire, Put
  <2> QED BY <1>6, <2>1, FailuresKept DEF Fire
<1>7. CASE Fire /\ s = Current
  <2>1. s \in DOMAIN signalState' /\ signalState'[s] = "holds"
    BY <1>7 DEF Fire, Fires, Edge, Put
  <2> QED BY <1>7, <2>1, FailuresKept DEF Fire
<1>8. CASE UNCHANGED vars
  BY <1>1, <1>8, FailuresKept DEF vars, gates
<1> QED BY <1>2, <1>3, <1>4, <1>5, <1>6, <1>7, <1>8 DEF Next, Terminated

LEMMA NextFailuresSeen ==
  ASSUME RInv, [Next]_vars
  PROVE  FailuresSeen'
<1>1. Typed /\ Typed'
  BY NextTyped DEF RInv
<1>2. SUFFICES ASSUME NEW i \in DOMAIN fires', NEW s, s = fires'[i].signal
               PROVE  /\ fires'[i].tick <= HandledUpTo(s)'
                      /\ s \in DOMAIN signalState'
                      /\ signalState'[s] = "fails" =>
                           \E u \in fires'[i].tick + 1 .. HandledUpTo(s)' :
                             seen'[u].conditions[s] = "fails"
  BY DEF FailuresSeen, FailedAfter
<1>3. CASE i \in DOMAIN fires /\ fires'[i] = fires[i]
  BY <1>1, <1>2, <1>3, OldFires
<1>4. CASE Fire /\ i = Len(fires) + 1
  <2>1. s = Current /\ fires'[i].tick = Len(seen) /\ Len(seen) \in Nat
    BY <1>1, <1>2, <1>4, FireAppends
  <2>2. ~Waits(s)' /\ UNCHANGED seen
    BY <1>1, <1>4, <2>1, WaitsAfterHandling DEF Fire
  <2>3. s \in DOMAIN signalState' /\ signalState'[s] = "holds"
    BY <1>4, <2>1 DEF Fire, Fires, Edge, Put
  <2> QED BY <2>1, <2>2, <2>3 DEF HandledUpTo
<1>5. \/ i \in DOMAIN fires /\ fires'[i] = fires[i]
      \/ Fire /\ i = Len(fires) + 1
  BY <1>1, <1>2, SilentSteps, FireAppends
<1> QED BY <1>3, <1>4, <1>5

\* A fire under a crossing trigger follows a failure that was seen since.
LEMMA RefireFollowsFailure ==
  ASSUME RInv, [Next]_vars
  PROVE  RefireNeedsFailure'
<1>1. Typed /\ Typed' /\ Len(seen) \in Nat /\ policy' = policy
  BY NextTyped, SilentSteps DEF RInv, Typed, Fire
<1>2. SUFFICES ASSUME policy.trigger \in {"crossing", "crossing_with_cooldown"},
                      NEW i \in DOMAIN fires', NEW j \in DOMAIN fires',
                      i < j, fires'[i].signal = fires'[j].signal
               PROVE  \E t \in fires'[i].tick + 1 .. fires'[j].tick - 1 :
                        seen'[t].conditions[fires'[i].signal] = "fails"
  BY <1>1 DEF RefireNeedsFailure
<1>3. CASE j \in DOMAIN fires /\ fires'[i] = fires[i] /\ fires'[j] = fires[j]
           /\ i \in DOMAIN fires
  <2>1. PICK t \in fires[i].tick + 1 .. fires[j].tick - 1 :
          seen[t].conditions[fires[i].signal] = "fails"
    BY <1>2, <1>3 DEF RInv, RefireNeedsFailure
  <2>2. fires[i].tick \in Nat /\ fires[j].tick \in Nat /\ fires[j].tick <= Len(seen)
    <3>1. fires[i] \in FireRecord /\ fires[j] \in FireRecord
      BY <1>1, <1>3, FireTypes
    <3>2. fires[j].tick <= HandledUpTo(fires[j].signal)
      BY <1>3 DEF RInv, FailuresSeen
    <3> QED BY <1>1, <3>1, <3>2 DEF FireRecord, HandledUpTo
  <2>3. seen'[t] = seen[t]
    <3>1. t \in 1 .. Len(seen)
      BY <1>1, <2>2
    <3> QED BY <1>1, <3>1, TickAppends, SilentSteps DEF Fire
  <2> QED BY <1>3, <2>1, <2>3
<1>4. CASE Fire /\ j = Len(fires) + 1 /\ i \in DOMAIN fires /\ fires'[i] = fires[i]
  <2>1. fires'[j].signal = Current /\ fires'[j].tick = Len(seen) /\ UNCHANGED seen
    BY <1>1, <1>4, FireAppends DEF Fire
  <2>2. Waits(Current) /\ Current \in DOMAIN signalState
    BY <1>1, <1>2, <1>4, <2>1, WaitsAfterHandling DEF Fire, RInv, FailuresSeen
  <2>3. signalState[Current] = "fails"
    BY <1>2, <1>4, <2>2 DEF Fire, Fires, Edge, Previous, Get
  <2>4. FailedAfter(Current, fires[i].tick)
    BY <1>2, <1>4, <2>1, <2>3 DEF RInv, FailuresSeen
  <2> QED BY <1>2, <1>4, <2>1, <2>2, <2>4 DEF FailedAfter, HandledUpTo
<1>5. \/ j \in DOMAIN fires /\ fires'[i] = fires[i] /\ fires'[j] = fires[j] /\ i \in DOMAIN fires
      \/ Fire /\ j = Len(fires) + 1 /\ i \in DOMAIN fires /\ fires'[i] = fires[i]
  BY <1>1, <1>2, SilentSteps, FireAppends
<1> QED BY <1>3, <1>4, <1>5

LEMMA InitFailures == ASSUME Init PROVE RInv
<1>1. DOMAIN fires = {} /\ ~Handling
  BY OrderLength DEF Init, Handling
<1> QED BY <1>1, InitTyped DEF RInv, LatestSeen, FailuresSeen, RefireNeedsFailure

LEMMA NextFailures == ASSUME RInv, [Next]_vars PROVE RInv'
BY NextTyped, LatestAfter, NextFailuresSeen, RefireFollowsFailure DEF RInv

\* For every order of signals, policy and sequence of ticks, with and without
\* data, a signal fires again under a crossing trigger only after it was seen to
\* fail (the trigger edge of evaluate_signals and its memory across gaps).
THEOREM RefiresFollowFailures == Spec => []RefireNeedsFailure
<1>1. Init => RInv
  BY InitFailures
<1>2. RInv /\ [Next]_vars => RInv'
  BY NextFailures
<1>3. RInv => RefireNeedsFailure
  BY DEF RInv
<1> QED BY <1>1, <1>2, <1>3, PTL DEF Spec

----------------------------------------------------------------------------
(* Conditions. Decide goes through the signals in order; what it finds is a  *)
(* solution of the equations that the combinators state, whatever the leaves. *)

\* A set of numbers that holds 0 and the successor of each of its members holds
\* every number.
LEMMA SetInduction ==
  ASSUME NEW S, 0 \in S, \A n \in Nat : n \in S => n + 1 \in S
  PROVE  Nat \subseteq S
<1> SUFFICES ASSUME Nat \ S # {} PROVE FALSE
  OBVIOUS
<1>1. IsWellFoundedOn(OpToRel(<, Nat), Nat)
  BY NatLessThanWellFounded
<1>2. PICK n \in Nat \ S : \A m \in Nat \ S : ~(<<m, n>> \in OpToRel(<, Nat))
  BY <1>1, WFMin
<1>3. \A m \in Nat \ S : ~(m < n)
  BY <1>2 DEF OpToRel
<1>4. n # 0 /\ n - 1 \in Nat /\ n - 1 \in S
  BY <1>3
<1> QED BY <1>4

\* One step of Decide: the verdict on the n-th signal joins those before it.
Extend(leaves, n, before) ==
  LET s == Order[n]
      verdict == IF Op[s] = "threshold" THEN leaves[s]
                 ELSE Combined(Op[s], {before[Inputs[s][i]] : i \in DOMAIN Inputs[s]})
  IN  [x \in DOMAIN before \cup {s} |-> IF x = s THEN verdict ELSE before[x]]

\* g holds what Decide knows after each of the first N signals.
Prefixes(leaves, N, g) ==
  g = [n \in 0 .. N |-> IF n = 0 THEN <<>> ELSE Extend(leaves, n, g[n - 1])]

LEMMA PrefixesExist ==
  ASSUME NEW leaves
  PROVE  \A N \in Nat : \E g : Prefixes(leaves, N, g)
<1> DEFINE S == {N \in Nat : \E g : Prefixes(leaves, N, g)}
<1>1. 0 \in S
  <2> DEFINE g == [n \in 0 .. 0 |-> <<>>]
  <2>1. Prefixes(leaves, 0, g)
    BY DEF Prefixes
  <2> QED BY <2>1
<1>2. ASSUME NEW N \in Nat, N \in S
      PROVE  N + 1 \in S
  <2>1. PICK g : Prefixes(leaves, N, g)
    BY <1>2
  <2> DEFINE h == [n \in 0 .. N + 1 |-> IF n = N + 1 THEN Extend(leaves, n, g[N]) ELSE g[n]]
  <2>2. \A n \in 0 .. N : g[n] = IF n = 0 THEN <<>> ELSE Extend(leaves, n, g[n - 1])
    BY <2>1 DEF Prefixes
  <2>3. \A n \in 0 .. N : h[n] = g[n]
    OBVIOUS
  <2>4. ASSUME NEW n \in 0 .. N + 1
        PROVE  h[n] = IF n = 0 THEN <<>> ELSE Extend(leaves, n, h[n - 1])
    <3>1. CASE n = N + 1
      <4>1. h[n] = Extend(leaves, n, g[N]) /\ h[N] = g[N] /\ n # 0 /\ n - 1 = N
        BY <3>1, <2>3
      <4> QED BY <4>1
    <3>2. CASE n = 0
      BY <2>2, <3>2
    <3>3. CASE n \in 1 .. N
      <4>1. h[n] = g[n] /\ h[n - 1] = g[n - 1] /\ n \in 0 .. N /\ n # 0
        BY <3>3, <2>3
      <4> QED BY <2>2, <4>1
    <3> QED BY <3>1, <3>2, <3>3
  <2>5. Prefixes(leaves, N + 1, h)
    <3> HIDE DEF h
    <3>1. h = [n \in 0 .. N + 1 |-> h[n]]
      BY DEF h
    <3>2. [n \in 0 .. N + 1 |-> h[n]]
            = [n \in 0 .. N + 1 |-> IF n = 0 THEN <<>> ELSE Extend(leaves, n, h[n - 1])]
      BY <2>4
    <3> QED BY <3>1, <3>2 DEF Prefixes
  <2> QED BY <2>5
<1> HIDE DEF S
<1>3. Nat \subseteq S
  BY <1>1, <1>2, SetInduction
<1> QED BY <1>3 DEF S

\* What Decide knows after its first n signals.
UpTo(leaves) == CHOOSE g : Prefixes(leaves, Len(Order), g)

LEMMA DecidePrefixes ==
  ASSUME NEW leaves
  PROVE  /\ Decide(leaves) = UpTo(leaves)[Len(Order)]
         /\ UpTo(leaves)[0] = <<>>
         /\ \A n \in 1 .. Len(Order) :
              UpTo(leaves)[n] = Extend(leaves, n, UpTo(leaves)[n - 1])
<1>1. Decide(leaves) = UpTo(leaves)[Len(Order)]
  BY DEF Decide, UpTo, Prefixes, Extend
<1>2. Prefixes(leaves, Len(Order), UpTo(leaves))
  BY PrefixesExist, OrderLength DEF UpTo
<1>3. \A n \in 0 .. Len(Order) :
        UpTo(leaves)[n] = IF n = 0 THEN <<>> ELSE Extend(leaves, n, UpTo(leaves)[n - 1])
  BY <1>2 DEF Prefixes
<1> QED BY <1>1, <1>3, OrderLength

\* The first n signals.
First(n) == {Order[i] : i \in 1 .. n}

LEMMA OrderFacts ==
  /\ Signal = First(Len(Order))
  /\ \A i, j \in 1 .. Len(Order) : Order[i] = Order[j] => i = j
  /\ \A i \in 1 .. Len(Order) : Op[Order[i]] # "threshold" =>
       /\ Inputs[Order[i]] \in Seq(Signal) /\ Inputs[Order[i]] # <<>>
       /\ \A x \in DOMAIN Inputs[Order[i]] : Inputs[Order[i]][x] \in First(i - 1)
       /\ Op[Order[i]] = "not" => Len(Inputs[Order[i]]) = 1
<1>1. DOMAIN Order = 1 .. Len(Order)
  BY SignalsAssumption
<1>2. Signal = First(Len(Order))
  BY <1>1 DEF Signal, First
<1>3. ASSUME NEW i \in 1 .. Len(Order), Op[Order[i]] # "threshold"
      PROVE  /\ Inputs[Order[i]] \in Seq(Signal) /\ Inputs[Order[i]] # <<>>
             /\ \A x \in DOMAIN Inputs[Order[i]] : Inputs[Order[i]][x] \in First(i - 1)
             /\ Op[Order[i]] = "not" => Len(Inputs[Order[i]]) = 1
  <2>1. /\ Inputs[Order[i]] \in Seq(Signal) \ {<<>>}
        /\ \A x \in DOMAIN Inputs[Order[i]] :
             \E j \in 1 .. i - 1 : Order[j] = Inputs[Order[i]][x]
        /\ Op[Order[i]] = "not" => Len(Inputs[Order[i]]) = 1
    BY <1>1, <1>3, SignalsAssumption
  <2> QED BY <2>1 DEF First
<1>4. \A i, j \in 1 .. Len(Order) : Order[i] = Order[j] => i = j
  BY <1>1, SignalsAssumption
<1> QED BY <1>2, <1>3, <1>4

\* The verdict on a signal, given the conditions of all.
Verdict(leaves, decided, s) ==
  IF Op[s] = "threshold" THEN leaves[s]
  ELSE Combined(Op[s], {decided[Inputs[s][i]] : i \in DOMAIN Inputs[s]})

\* What is decided after n signals stays as it is, and is the verdict on each.
Solved(leaves, n) ==
  LET upTo == UpTo(leaves)
  IN  /\ upTo[n] = [s \in First(n) |-> upTo[n][s]]
      /\ \A m \in 1 .. n : /\ upTo[n][Order[m]] = Verdict(leaves, upTo[n], Order[m])

LEMMA PrefixesSolve ==
  ASSUME NEW leaves
  PROVE  \A n \in 0 .. Len(Order) : Solved(leaves, n)
<1> USE OrderLength
<1> DEFINE S == {n \in Nat : n <= Len(Order) => Solved(leaves, n)}
           upTo == UpTo(leaves)
<1>1. 0 \in S
  <2>1. upTo[0] = <<>> /\ First(0) = {}
    BY DecidePrefixes DEF First
  <2> HIDE DEF upTo
  <2>2. <<>> = [s \in {} |-> upTo[0][s]]
    OBVIOUS
  <2> QED BY <2>1, <2>2 DEF Solved, upTo
<1>2. ASSUME NEW n \in Nat, n \in S
      PROVE  n + 1 \in S
  <2>1. SUFFICES ASSUME n + 1 <= Len(Order) PROVE Solved(leaves, n + 1)
    OBVIOUS
  <2>2. n + 1 \in 1 .. Len(Order) /\ n <= Len(Order) /\ (n + 1) - 1 = n /\ Solved(leaves, n)
    BY <1>2, <2>1
  <2>3. upTo[n + 1] = Extend(leaves, n + 1, upTo[n])
    BY <2>2, DecidePrefixes
  <2>4. /\ upTo[n] = [s \in First(n) |-> upTo[n][s]]
        /\ \A m \in 1 .. n : upTo[n][Order[m]] = Verdict(leaves, upTo[n], Order[m])
    BY <2>2 DEF Solved
  <2> HIDE DEF upTo, S
  <2>5. DOMAIN upTo[n] = First(n)
    BY <2>4
  <2>6. First(n + 1) = First(n) \cup {Order[n + 1]} /\ Order[n + 1] \notin First(n)
    BY <2>2, OrderFacts DEF First
  <2>7. upTo[n + 1] = [x \in First(n + 1) |->
           IF x = Order[n + 1] THEN Verdict(leaves, upTo[n], Order[n + 1]) ELSE upTo[n][x]]
    BY <2>3, <2>5, <2>6 DEF Extend, Verdict
  <2>8. /\ upTo[n + 1] = [s \in First(n + 1) |-> upTo[n + 1][s]]
        /\ upTo[n + 1][Order[n + 1]] = Verdict(leaves, upTo[n], Order[n + 1])
        /\ \A x \in First(n) : upTo[n + 1][x] = upTo[n][x]
    BY <2>6, <2>7
  <2>9. ASSUME NEW m \in 1 .. n + 1
        PROVE  Verdict(leaves, upTo[n + 1], Order[m]) = Verdict(leaves, upTo[n], Order[m])
    <3>1. m \in 1 .. Len(Order) /\ First(m - 1) \subseteq First(n)
      BY <2>2, <2>9 DEF First
    <3>2. CASE Op[Order[m]] = "threshold"
      BY <3>2 DEF Verdict
    <3>3. CASE Op[Order[m]] # "threshold"
      <4>1. \A i \in DOMAIN Inputs[Order[m]] :
              upTo[n + 1][Inputs[Order[m]][i]] = upTo[n][Inputs[Order[m]][i]]
        BY <2>8, <3>1, <3>3, OrderFacts
      <4>2. {upTo[n + 1][Inputs[Order[m]][i]] : i \in DOMAIN Inputs[Order[m]]}
              = {upTo[n][Inputs[Order[m]][i]] : i \in DOMAIN Inputs[Order[m]]}
        BY <4>1
      <4> QED BY <4>2 DEF Verdict
    <3> QED BY <3>2, <3>3
  <2>10. \A m \in 1 .. n : Order[m] \in First(n)
    BY DEF First
  <2>11. \A m \in 1 .. n + 1 :
           upTo[n + 1][Order[m]] = Verdict(leaves, upTo[n + 1], Order[m])
    <3>1. ASSUME NEW m \in 1 .. n
          PROVE  upTo[n + 1][Order[m]] = Verdict(leaves, upTo[n + 1], Order[m])
      <4>1. upTo[n + 1][Order[m]] = upTo[n][Order[m]]
        BY <2>8, <2>10
      <4>2. upTo[n][Order[m]] = Verdict(leaves, upTo[n], Order[m])
        BY <2>4
      <4>3. m \in 1 .. n + 1
        OBVIOUS
      <4> QED BY <2>9, <4>1, <4>2, <4>3
    <3>2. upTo[n + 1][Order[n + 1]] = Verdict(leaves, upTo[n + 1], Order[n + 1])
      BY <2>8, <2>9
    <3>3. \A m \in 1 .. n + 1 : m \in 1 .. n \/ m = n + 1
      OBVIOUS
    <3> QED BY <3>1, <3>2, <3>3
  <2> QED BY <2>8, <2>11 DEF Solved, upTo
<1> HIDE DEF S
<1>3. Nat \subseteq S
  BY <1>1, <1>2, SetInduction
<1> QED BY <1>3 DEF S

\* Decide finds a condition for every signal, and the condition is the outcome of
\* a leaf and what a combinator makes of the conditions of its inputs.
LEMMA DecideSolves ==
  ASSUME NEW leaves
  PROVE  /\ Decide(leaves) = [s \in Signal |-> Decide(leaves)[s]]
         /\ \A s \in Signal : Decide(leaves)[s] = Verdict(leaves, Decide(leaves), s)
<1>1. Solved(leaves, Len(Order)) /\ Decide(leaves) = UpTo(leaves)[Len(Order)]
  BY PrefixesSolve, DecidePrefixes, OrderLength
<1> QED BY <1>1, OrderFacts DEF Solved, First

\* What holds of each signal when it holds of the ones before it holds of all.
LEMMA OrderInduction ==
  ASSUME NEW T,
         \A i \in 1 .. Len(Order) : First(i - 1) \subseteq T => Order[i] \in T
  PROVE  Signal \subseteq T
<1> USE OrderLength
<1> DEFINE S == {n \in Nat : n <= Len(Order) => First(n) \subseteq T}
<1>1. 0 \in S
  BY DEF First
<1>2. ASSUME NEW n \in Nat, n \in S
      PROVE  n + 1 \in S
  <2>1. First(n + 1) = First(n) \cup {Order[n + 1]} /\ (n + 1) - 1 = n
    BY DEF First
  <2> QED BY <1>2, <2>1
<1> HIDE DEF S
<1>3. Nat \subseteq S
  BY <1>1, <1>2, SetInduction
<1>4. Len(Order) <= Len(Order) => First(Len(Order)) \subseteq T
  BY <1>3 DEF S
<1> QED BY <1>4, OrderFacts

\* A combinator of known and unknown conditions has a known or unknown condition.
LEMMA CombinedType ==
  ASSUME NEW op \in {"all", "any", "not"}, NEW inputs \in SUBSET Verdicts, inputs # {}
  PROVE  Combined(op, inputs) \in Verdicts
<1>1. (CHOOSE v \in inputs : TRUE) \in Verdicts
  OBVIOUS
<1> QED BY <1>1 DEF Combined, Negated, Verdicts

\* The conditions of the inputs of a combinator.
InputConditions(c, s) == {c[Inputs[s][i]] : i \in DOMAIN Inputs[s]}

LEMMA DecideType ==
  ASSUME NEW leaves \in [Leaf -> Verdicts]
  PROVE  Decide(leaves) \in [Signal -> Verdicts]
<1> DEFINE d == Decide(leaves)
           T == {s \in Signal : d[s] \in Verdicts}
<1>1. d = [s \in Signal |-> d[s]] /\ \A s \in Signal : d[s] = Verdict(leaves, d, s)
  BY DecideSolves
<1> HIDE DEF d
<1>2. ASSUME NEW i \in 1 .. Len(Order), First(i - 1) \subseteq T
      PROVE  Order[i] \in T
  <2> DEFINE s == Order[i]
  <2>1. s \in Signal
    BY OrderFacts DEF First
  <2>2. CASE Op[s] = "threshold"
    BY <1>1, <2>1, <2>2 DEF Verdict, Leaf
  <2>3. CASE Op[s] # "threshold"
    <3>1. /\ Inputs[s] \in Seq(Signal) /\ Inputs[s] # <<>>
          /\ \A x \in DOMAIN Inputs[s] : Inputs[s][x] \in T
      BY <1>2, <2>3, OrderFacts
    <3>2. InputConditions(d, s) \subseteq Verdicts /\ InputConditions(d, s) # {}
      BY <3>1 DEF InputConditions
    <3>3. Op[s] \in {"all", "any", "not"}
      BY <2>1, <2>3, SignalsAssumption
    <3>4. d[s] = Combined(Op[s], InputConditions(d, s))
      BY <1>1, <2>1, <2>3 DEF Verdict, InputConditions
    <3>5. d[s] \in Verdicts
      BY <3>2, <3>3, <3>4, CombinedType
    <3> QED BY <2>1, <3>5
  <2> QED BY <2>2, <2>3
<1> HIDE DEF T
<1>3. Signal \subseteq T
  BY <1>2, OrderInduction
<1> QED BY <1>1, <1>3 DEF T, d

Observation == [time : Nat, conditions : [Signal -> Verdicts]]

\* A full sequence of observations gives the part of the invariant the gates need.
LEMMA TypeOKTyped == ASSUME TypeOK PROVE Typed
<1>1. seen \in Seq({seen[t] : t \in DOMAIN seen})
  BY DEF TypeOK
<1> QED BY <1>1 DEF TypeOK, Typed, FireRecord

LEMMA PutType ==
  ASSUME NEW K, NEW V, NEW f, DOMAIN f \subseteq K, f \in [DOMAIN f -> V], NEW k \in K, NEW v \in V
  PROVE  /\ DOMAIN Put(f, k, v) = DOMAIN f \cup {k}
         /\ Put(f, k, v) \in [DOMAIN f \cup {k} -> V]
BY DEF Put

LEMMA NextTypeOK ==
  ASSUME TypeOK, [Next]_vars
  PROVE  TypeOK'
<1>1. Typed /\ Typed'
  BY TypeOKTyped, NextTyped
<1>2. CASE NextTick
  <2>1. conditions' \in [Signal -> Verdicts]
    BY <1>2, DecideType DEF NextTick
  <2>2. seen' \in Seq(Observation)
    <3>1. time' \in Nat
      BY <1>1 DEF Typed
    <3>2. [time |-> time', conditions |-> conditions'] \in Observation
      BY <2>1, <3>1 DEF Observation
    <3>3. seen \in Seq(Observation)
      BY DEF TypeOK, Observation
    <3> QED BY <1>2, <3>2, <3>3 DEF NextTick
  <2>3. UNCHANGED <<policy, gates, fires>>
    BY <1>2 DEF NextTick
  <2> QED BY <1>1, <2>1, <2>2, <2>3 DEF TypeOK, Typed, FireRecord, Observation, gates
<1>3. CASE SkipUndriven \/ SkipUnknown \/ Terminated \/ UNCHANGED vars
  BY <1>1, <1>3 DEF SkipUndriven, SkipUnknown, Terminated, vars, gates, TypeOK, Typed, FireRecord
<1>4. CASE HoldBack \/ Fire
  <2>1. Current \in Driving /\ conditions[Current] \in {"holds", "fails"}
    <3>1. Current \in Driving /\ conditions[Current] # "unknown"
      BY <1>4 DEF HoldBack, Fire
    <3>2. Current \in Signal
      BY <3>1, SignalsAssumption
    <3> QED BY <3>1, <3>2 DEF TypeOK, Verdicts
  <2>2. signalState' = Put(signalState, Current, conditions[Current])
    BY <1>4 DEF HoldBack, Fire
  <2>3. /\ DOMAIN signalState' \subseteq Driving
        /\ signalState' \in [DOMAIN signalState' -> {"holds", "fails"}]
    BY <2>1, <2>2 DEF TypeOK, Put
  <2>4. UNCHANGED <<conditions, seen>>
    BY <1>4 DEF HoldBack, Fire
  <2>5. CASE HoldBack
    BY <1>1, <2>3, <2>4, <2>5 DEF HoldBack, TypeOK, Typed, FireRecord
  <2>6. CASE Fire
    <3>1. /\ everFired' = everFired \cup {Current} /\ everFired \subseteq Driving
          /\ fireCount' = Put(fireCount, Current, Count(Current) + 1)
          /\ lastFired' = Put(lastFired, Current, time)
      BY <2>6 DEF Fire, TypeOK
    <3>2. Count(Current) + 1 \in Nat \ {0} /\ time \in Nat
      BY DEF TypeOK, Count, Get
    <3>3. /\ DOMAIN fireCount' = everFired' /\ fireCount' \in [everFired' -> Nat \ {0}]
      BY <3>1, <3>2 DEF TypeOK, Put
    <3>4. /\ DOMAIN lastFired' = everFired' /\ lastFired' \in [everFired' -> Nat]
      BY <3>1, <3>2 DEF TypeOK, Put
    <3>5. everFired' \subseteq Driving
      BY <2>1, <3>1
    <3> QED BY <1>1, <2>3, <2>4, <3>3, <3>4, <3>5 DEF TypeOK, Typed, FireRecord
  <2> QED BY <1>4, <2>5, <2>6
<1> QED BY <1>2, <1>3, <1>4 DEF Next

LEMMA InitTypeOK == ASSUME Init PROVE TypeOK
<1>1. Typed /\ policy \in Policies /\ time = 0
  BY InitTyped DEF Typed, Init
<1>2. conditions \in [Signal -> Verdicts]
  BY DEF Init, Verdicts
<1>3. /\ DOMAIN signalState = {} /\ signalState = <<>> /\ everFired = {}
      /\ fireCount = <<>> /\ lastFired = <<>> /\ seen = <<>> /\ fires = <<>>
  BY DEF Init
<1>4. \A V : <<>> \in [{} -> V] /\ <<>> \in Seq(V)
  OBVIOUS
<1> QED BY <1>1, <1>2, <1>3, <1>4 DEF TypeOK, Typed

\* For every order of signals, policy and sequence of ticks: every signal has a
\* condition on every tick, a gate remembers only conditions that were known, of
\* signals that drive actions, and its counts and times are numbers (the maps
\* of SignalState in evaluate_signals).
THEOREM SignalsTyped == Spec => []TypeOK
<1>1. Init => TypeOK
  BY InitTypeOK
<1>2. TypeOK /\ [Next]_vars => TypeOK'
  BY NextTypeOK
<1> QED BY <1>1, <1>2, PTL DEF Spec

----------------------------------------------------------------------------
(* Gaps. On every tick the conditions solve the equations of the combinators; *)
(* a combinator is monotone in what is known of its inputs, and unknown only  *)
(* where both outcomes are open.                                             *)

\* Every combinator's condition is what it makes of those of its inputs.
Consistent ==
  \A s \in Signal \ Leaf : conditions[s] = Combined(Op[s], InputConditions(conditions, s))

GInv == TypeOK /\ Consistent

LEMMA CombinatorFacts ==
  ASSUME NEW s \in Signal \ Leaf
  PROVE  /\ Op[s] \in {"all", "any", "not"}
         /\ Inputs[s] \in Seq(Signal) /\ Inputs[s] # <<>>
         /\ DOMAIN Inputs[s] = 1 .. Len(Inputs[s]) /\ 1 \in DOMAIN Inputs[s]
         /\ Op[s] = "not" => DOMAIN Inputs[s] = {1}
<1>1. Op[s] # "threshold" /\ s \in First(Len(Order))
  BY OrderFacts DEF Leaf
<1>2. PICK i \in 1 .. Len(Order) : s = Order[i]
  BY <1>1 DEF First
<1>3. /\ Inputs[s] \in Seq(Signal) /\ Inputs[s] # <<>>
      /\ Op[s] = "not" => Len(Inputs[s]) = 1
  BY <1>1, <1>2, OrderFacts
<1>4. DOMAIN Inputs[s] = 1 .. Len(Inputs[s]) /\ Len(Inputs[s]) \in Nat /\ Len(Inputs[s]) # 0
  BY <1>3
<1>5. 1 \in DOMAIN Inputs[s] /\ (Op[s] = "not" => DOMAIN Inputs[s] = {1})
  <2>1. \A n \in Nat : (n # 0 => 1 \in 1 .. n) /\ (n = 1 => 1 .. n = {1})
    OBVIOUS
  <2>2. DOMAIN Inputs[s] = 1 .. Len(Inputs[s])
    BY <1>4
  <2> QED BY <1>3, <1>4, <2>1, <2>2
<1>6. Op[s] \in {"all", "any", "not"}
  BY <1>1, SignalsAssumption
<1> QED BY <1>3, <1>4, <1>5, <1>6

LEMMA NextConsistent ==
  ASSUME GInv, [Next]_vars
  PROVE  Consistent'
<1>1. CASE NextTick
  <2>1. PICK leaves \in [Leaf -> Verdicts] : conditions' = Decide(leaves)
    BY <1>1 DEF NextTick
  <2>2. \A s \in Signal : conditions'[s] = Verdict(leaves, conditions', s)
    BY <2>1, DecideSolves
  <2> QED BY <2>2 DEF Consistent, Verdict, Leaf, InputConditions
<1>2. CASE UNCHANGED conditions
  BY <1>2 DEF GInv, Consistent, InputConditions
<1> QED BY <1>1, <1>2 DEF Next, SkipUndriven, SkipUnknown, HoldBack, Fire, Terminated, vars

LEMMA InitConsistent == ASSUME Init PROVE Consistent
<1>1. SUFFICES ASSUME NEW s \in Signal \ Leaf
               PROVE  conditions[s] = Combined(Op[s], InputConditions(conditions, s))
  BY DEF Consistent
<1>2. conditions = [x \in Signal |-> "unknown"]
  BY DEF Init
<1>3. InputConditions(conditions, s) = {"unknown"}
  <2>1. \A i \in DOMAIN Inputs[s] : conditions[Inputs[s][i]] = "unknown"
    BY <1>2, CombinatorFacts
  <2> QED BY <2>1, CombinatorFacts DEF InputConditions
<1>4. (CHOOSE v \in {"unknown"} : TRUE) = "unknown"
  OBVIOUS
<1> QED BY <1>2, <1>3, <1>4, CombinatorFacts DEF Combined, Negated

\* What a combinator knows in spite of the gaps it knows without them.
LEMMA CombinedMonotone ==
  ASSUME NEW op \in {"all", "any", "not"}, NEW I, I # {}, op = "not" => \E i : I = {i},
         NEW c \in [I -> Verdicts], NEW d \in [I -> Verdicts],
         \A i \in I : c[i] # "unknown" => d[i] = c[i],
         Combined(op, {c[i] : i \in I}) # "unknown"
  PROVE  Combined(op, {d[i] : i \in I}) = Combined(op, {c[i] : i \in I})
<1>1. CASE op = "all"
  BY <1>1 DEF Combined, Verdicts
<1>2. CASE op = "any"
  BY <1>2 DEF Combined, Verdicts
<1>3. CASE op = "not"
  <2>1. PICK i : I = {i}
    BY <1>3
  <2>2. {c[x] : x \in I} = {c[i]} /\ {d[x] : x \in I} = {d[i]}
    BY <2>1
  <2>3. \A v : (CHOOSE x \in {v} : TRUE) = v
    OBVIOUS
  <2>4. Combined(op, {c[i]}) = Negated(c[i]) /\ Combined(op, {d[i]}) = Negated(d[i])
    BY <1>3, <2>3 DEF Combined
  <2>5. c[i] # "unknown"
    BY <2>2, <2>4 DEF Negated
  <2> QED BY <2>1, <2>2, <2>4, <2>5
<1> QED BY <1>1, <1>2, <1>3

LEMMA GapsStayOpen ==
  ASSUME GInv, NEW leaves \in Completions, NEW s \in Signal, conditions[s] # "unknown"
  PROVE  Decide(leaves)[s] = conditions[s]
<1> DEFINE d == Decide(leaves)
           T == {x \in Signal : conditions[x] # "unknown" => d[x] = conditions[x]}
<1>1. leaves \in [Leaf -> Verdicts]
  BY DEF Completions, Verdicts
<1>2. /\ d \in [Signal -> Verdicts]
      /\ \A x \in Signal : d[x] = Verdict(leaves, d, x)
  BY <1>1, DecideSolves, DecideType
<1>3. conditions \in [Signal -> Verdicts]
  BY DEF GInv, TypeOK
<1> HIDE DEF d
<1>4. ASSUME NEW n \in 1 .. Len(Order), First(n - 1) \subseteq T
      PROVE  Order[n] \in T
  <2> DEFINE x == Order[n]
  <2>1. x \in Signal
    BY OrderFacts DEF First
  <2> SUFFICES ASSUME conditions[x] # "unknown" PROVE d[x] = conditions[x]
    BY <2>1
  <2>2. CASE x \in Leaf
    BY <1>2, <2>1, <2>2 DEF Completions, Verdict, Leaf
  <2>3. CASE x \notin Leaf
    <3> DEFINE I == DOMAIN Inputs[x]
               before == [i \in I |-> conditions[Inputs[x][i]]]
               after == [i \in I |-> d[Inputs[x][i]]]
    <3>1. x \in Signal \ Leaf /\ Op[x] # "threshold"
      BY <2>1, <2>3 DEF Leaf
    <3>2. \A i \in I : Inputs[x][i] \in T
      BY <1>4, <3>1, OrderFacts
    <3>3. I # {} /\ (Op[x] = "not" => I = {1}) /\ Op[x] \in {"all", "any", "not"}
      BY <3>1, CombinatorFacts
    <3>4. /\ before \in [I -> Verdicts] /\ after \in [I -> Verdicts]
          /\ \A i \in I : before[i] # "unknown" => after[i] = before[i]
      BY <1>2, <1>3, <3>2
    <3>5. /\ conditions[x] = Combined(Op[x], {before[i] : i \in I})
          /\ d[x] = Combined(Op[x], {after[i] : i \in I})
      <4>1. conditions[x] = Combined(Op[x], InputConditions(conditions, x))
        BY <3>1 DEF GInv, Consistent
      <4>2. d[x] = Combined(Op[x], InputConditions(d, x))
        BY <1>2, <3>1 DEF Verdict, InputConditions
      <4> QED BY <4>1, <4>2 DEF InputConditions
    <3>6. Op[x] = "not" => \E i : I = {i}
      BY <3>3
    <3> HIDE DEF before, after, I, x, T
    <3>7. Combined(Op[x], {before[i] : i \in I}) # "unknown"
      BY <3>5
    <3>8. Combined(Op[x], {after[i] : i \in I}) = Combined(Op[x], {before[i] : i \in I})
      BY <3>3, <3>4, <3>6, <3>7, CombinedMonotone, SMTT(30)
    <3> QED BY <3>5, <3>8
  <2> QED BY <2>2, <2>3
<1> HIDE DEF T
<1>5. Signal \subseteq T
  BY <1>4, OrderInduction
<1> QED BY <1>5 DEF T, d

\* The outcomes of a combinator whose condition is unknown, over the values that
\* its missing inputs could have had.
LEMMA UnknownIsOpen ==
  ASSUME GInv, NEW s \in Signal \ Leaf, conditions[s] = "unknown"
  PROVE  LET inputs == [i \in DOMAIN Inputs[s] |-> conditions[Inputs[s][i]]]
             full == {f \in [DOMAIN inputs -> {"holds", "fails"}] :
                        \A i \in DOMAIN inputs : inputs[i] # "unknown" => f[i] = inputs[i]}
             truth(f) == CASE Op[s] = "all" -> \A i \in DOMAIN f : f[i] = "holds"
                           [] Op[s] = "any" -> \E i \in DOMAIN f : f[i] = "holds"
                           [] Op[s] = "not" -> f[1] = "fails"
         IN  {truth(f) : f \in full} = BOOLEAN
<1> DEFINE I == DOMAIN Inputs[s]
           inputs == [i \in I |-> conditions[Inputs[s][i]]]
           full == {f \in [I -> {"holds", "fails"}] :
                      \A i \in I : inputs[i] # "unknown" => f[i] = inputs[i]}
           truth(f) == CASE Op[s] = "all" -> \A i \in DOMAIN f : f[i] = "holds"
                         [] Op[s] = "any" -> \E i \in DOMAIN f : f[i] = "holds"
                         [] Op[s] = "not" -> f[1] = "fails"
           filled(v) == [i \in I |-> IF inputs[i] = "unknown" THEN v ELSE inputs[i]]
<1>1. I # {} /\ 1 \in I /\ (Op[s] = "not" => I = {1}) /\ Op[s] \in {"all", "any", "not"}
  BY CombinatorFacts
<1>2. inputs \in [I -> Verdicts]
  <2>1. conditions \in [Signal -> Verdicts]
    BY DEF GInv, TypeOK
  <2> QED BY <2>1, CombinatorFacts
<1>3. Combined(Op[s], {inputs[i] : i \in I}) = "unknown"
  BY DEF GInv, Consistent, InputConditions
<1>4. full = {f \in [DOMAIN inputs -> {"holds", "fails"}] :
                \A i \in DOMAIN inputs : inputs[i] # "unknown" => f[i] = inputs[i]}
  OBVIOUS
<1>5. \A v \in {"holds", "fails"} : filled(v) \in full
  BY <1>2 DEF Verdicts
<1>6. \E i \in I : inputs[i] = "unknown"
  <2> HIDE DEF inputs, I
  <2>1. CASE Op[s] = "all"
    BY <1>3, <2>1 DEF Combined
  <2>2. CASE Op[s] = "any"
    BY <1>3, <2>2 DEF Combined
  <2>3. CASE Op[s] = "not"
    <3>1. {inputs[i] : i \in I} = {inputs[1]}
      BY <1>1, <2>3
    <3>2. (CHOOSE v \in {inputs[1]} : TRUE) = inputs[1]
      OBVIOUS
    <3>3. Negated(inputs[1]) = "unknown"
      BY <1>3, <2>3, <3>1, <3>2 DEF Combined
    <3> QED BY <1>1, <1>2, <3>3 DEF Negated, Verdicts
  <2> QED BY <1>1, <2>1, <2>2, <2>3
<1>7. /\ Op[s] = "all" => \A i \in I : inputs[i] # "fails"
      /\ Op[s] = "any" => \A i \in I : inputs[i] # "holds"
  BY <1>3 DEF Combined
<1> DEFINE yes == IF Op[s] = "not" THEN filled("fails") ELSE filled("holds")
           no == IF Op[s] = "not" THEN filled("holds") ELSE filled("fails")
<1>8. yes \in full /\ no \in full /\ DOMAIN yes = I /\ DOMAIN no = I
  BY <1>5
<1> HIDE DEF full, inputs, I
<1>9. truth(yes)
  <2>1. CASE Op[s] = "all"
    BY <1>2, <1>7, <1>8, <2>1 DEF Verdicts
  <2>2. CASE Op[s] = "any"
    BY <1>6, <1>8, <2>2
  <2>3. CASE Op[s] = "not"
    BY <1>1, <1>6, <1>8, <2>3
  <2> QED BY <1>1, <2>1, <2>2, <2>3
<1>10. ~truth(no)
  <2>1. CASE Op[s] = "all"
    BY <1>6, <1>8, <2>1
  <2>2. CASE Op[s] = "any"
    BY <1>2, <1>7, <1>8, <2>2 DEF Verdicts
  <2>3. CASE Op[s] = "not"
    BY <1>1, <1>6, <1>8, <2>3
  <2> QED BY <1>1, <2>1, <2>2, <2>3
<1>11. \A f : truth(f) = TRUE \/ truth(f) = FALSE
  BY <1>1
<1> HIDE DEF truth, yes, no
<1>12. truth(yes) = TRUE /\ truth(no) = FALSE
  BY <1>9, <1>10, <1>11
<1>13. {truth(f) : f \in full} = BOOLEAN
  BY <1>8, <1>11, <1>12
<1> QED BY <1>13 DEF truth, full, inputs, I

\* For every strategy and sequence of ticks, a condition that is known is the same
\* for every value the missing data could have had, and a combinator is unknown only
\* where both outcomes are open ("a fire never hinges on the value of missing
\* data", engine.rs:610).
THEOREM GapsAreHarmless == Spec => []GapsDecideNothing
<1>1. Init => GInv
  BY InitTypeOK, InitConsistent DEF GInv
<1>2. GInv /\ [Next]_vars => GInv'
  BY NextTypeOK, NextConsistent DEF GInv
<1>3. GInv => GapsDecideNothing
  BY GapsStayOpen, UnknownIsOpen DEF GapsDecideNothing
<1> QED BY <1>1, <1>2, <1>3, PTL DEF Spec

----------------------------------------------------------------------------
(* The first fire. While a signal has not fired, nothing it was seen to do   *)
(* was a hold, so no gate has a reason to keep it.                           *)

HeldTicks(s) == {t \in KnownTicks(s) : seen[t].conditions[s] = "holds"}

\* What a gate remembers of a signal it has a reason for in what was seen.
MemoriesHaveReasons ==
  \A s \in Driving :
    /\ s \in DOMAIN signalState /\ signalState[s] = "holds" => HeldTicks(s) # {}
    /\ FiresOf(s) # {} => HeldTicks(s) # {}
    /\ s \in everFired => FiresOf(s) # {}

FInv == TypeOK /\ BInv /\ RInv /\ MemoriesHaveReasons /\ FirstHoldFires

LEMMA HeldUpTo ==
  ASSUME TypeOK, NEW s
  PROVE  HeldTicks(s) = {t \in 1 .. HandledUpTo(s) : seen[t].conditions[s] = "holds"}
<1>1. Len(seen) \in Nat /\ DOMAIN seen = 1 .. Len(seen)
  BY DEF TypeOK
<1> QED BY <1>1 DEF HeldTicks, KnownTicks, HandledUpTo

\* The holds that were seen of a signal grow when a gate handles a hold of it, and
\* in no other step.
LEMMA HeldAfter ==
  ASSUME FInv, TypeOK', [Next]_vars, NEW s \in Driving
  PROVE  /\ s = Current /\ (HoldBack \/ Fire) /\ conditions[s] = "holds" =>
              HeldTicks(s)' = HeldTicks(s) \cup {Len(seen)}
         /\ ~(s = Current /\ (HoldBack \/ Fire) /\ conditions[s] = "holds") =>
              HeldTicks(s)' = HeldTicks(s)
         /\ \A t \in HeldTicks(s) : t <= Len(seen)
<1>1. /\ Typed /\ Typed' /\ Len(seen) \in Nat /\ s \in Signal
  BY NextTyped, SignalsAssumption DEF FInv, BInv, Typed
<1>2. /\ HeldTicks(s) = {t \in 1 .. HandledUpTo(s) : seen[t].conditions[s] = "holds"}
      /\ HeldTicks(s)' = {t \in 1 .. HandledUpTo(s)' : seen'[t].conditions[s] = "holds"}
  <2>1. HeldTicks(s) = {t \in 1 .. HandledUpTo(s) : seen[t].conditions[s] = "holds"}
    BY HeldUpTo DEF FInv
  <2>2. Len(seen') \in Nat /\ DOMAIN seen' = 1 .. Len(seen')
    BY DEF TypeOK
  <2>3. HeldTicks(s)' = {t \in 1 .. HandledUpTo(s)' : seen'[t].conditions[s] = "holds"}
    BY <2>2 DEF HeldTicks, KnownTicks, HandledUpTo
  <2> QED BY <2>1, <2>3
<1>3. HandledUpTo(s) \in Int /\ HandledUpTo(s) <= Len(seen)
  BY <1>1 DEF HandledUpTo
<1>4. CASE NextTick
  <2>1. HandledUpTo(s)' = HandledUpTo(s)
    BY <1>1, <1>4, WaitsAfterTick, TickAppends DEF HandledUpTo
  <2>2. \A t \in 1 .. Len(seen) : seen'[t] = seen[t]
    BY <1>1, <1>4, TickAppends
  <2>3. ~(HoldBack \/ Fire)
    BY <1>4 DEF NextTick, HoldBack, Fire
  <2> QED BY <1>1, <1>2, <1>3, <2>1, <2>2, <2>3
<1>5. CASE UNCHANGED <<seen, at>>
  <2>1. HandledUpTo(s)' = HandledUpTo(s)
    BY <1>5 DEF HandledUpTo, Waits
  <2>2. ~(HoldBack \/ Fire)
    BY <1>1, <1>5 DEF HoldBack, Fire, Typed
  <2> QED BY <1>2, <1>3, <1>5, <2>1, <2>2
<1>6. CASE SkipUndriven \/ SkipUnknown \/ HoldBack \/ Fire
  <2>1. Handling /\ at' = at + 1 /\ UNCHANGED seen
    BY <1>6 DEF SkipUndriven, SkipUnknown, HoldBack, Fire
  <2>2. IF s = Current THEN Waits(s) /\ ~Waits(s)' ELSE Waits(s)' <=> Waits(s)
    BY <1>1, <2>1, WaitsAfterHandling
  <2>3. CASE s # Current
    <3>1. HandledUpTo(s)' = HandledUpTo(s)
      BY <2>1, <2>2, <2>3 DEF HandledUpTo
    <3> QED BY <1>2, <1>3, <2>1, <2>3, <3>1
  <2>4. CASE s = Current
    <3>1. HandledUpTo(s) = Len(seen) - 1 /\ HandledUpTo(s)' = Len(seen)
      BY <2>1, <2>2, <2>4 DEF HandledUpTo
    <3>2. Len(seen) >= 1 /\ seen[Len(seen)].conditions = conditions
      BY <2>1 DEF FInv, RInv, LatestSeen
    <3>3. ~(HoldBack \/ Fire) => conditions[s] = "unknown"
      BY <1>6, <2>4 DEF SkipUndriven, SkipUnknown
    <3>4. \A t : t \in 1 .. Len(seen) <=> t \in 1 .. Len(seen) - 1 \/ t = Len(seen)
      BY <1>1, <3>2
    <3>5. HeldTicks(s)' = {t \in 1 .. Len(seen) : seen[t].conditions[s] = "holds"}
      BY <1>2, <2>1, <3>1
    <3>6. HeldTicks(s) = {t \in 1 .. Len(seen) - 1 : seen[t].conditions[s] = "holds"}
      BY <1>2, <3>1
    <3>7. conditions[s] = "holds" => HeldTicks(s)' = HeldTicks(s) \cup {Len(seen)}
      BY <1>1, <3>2, <3>4, <3>5, <3>6
    <3>8. conditions[s] # "holds" => HeldTicks(s)' = HeldTicks(s)
      BY <1>1, <3>2, <3>4, <3>5, <3>6
    <3> QED BY <1>1, <2>4, <3>3, <3>6, <3>7, <3>8
  <2> QED BY <2>3, <2>4
<1> QED BY <1>4, <1>5, <1>6 DEF Next, Terminated, vars

\* A signal that was never seen to hold passes every gate.
LEMMA NothingHeldNothingBlocks ==
  ASSUME FInv, NEW s \in Driving, HeldTicks(s) = {}, conditions[s] = "holds",
         ~(policy.repeat = "max_count" /\ policy.maxCount = 0)
  PROVE  Fires(s)
<1>1. FiresOf(s) = {} /\ s \notin everFired
  BY DEF FInv, MemoriesHaveReasons
<1>2. Count(s) = 0
  BY <1>1, FS_EmptySet DEF FInv, BInv, FiresCounted
<1>3. Previous(s) = "fails"
  <2>1. s \in DOMAIN signalState => signalState[s] \in {"holds", "fails"}
    BY DEF FInv, TypeOK
  <2> QED BY <2>1 DEF FInv, MemoriesHaveReasons, Previous, Get
<1>4. s \notin DOMAIN lastFired
  BY <1>1 DEF FInv, TypeOK
<1>5. policy.repeat = "max_count" => policy.maxCount \in Nat \ {0}
  <2>1. policy \in Policies
    BY DEF FInv, TypeOK
  <2> QED BY <2>1, SignalsAssumption DEF None
<1> QED BY <1>1, <1>2, <1>3, <1>4, <1>5 DEF Fires, Edge, RepeatAllowed, CooldownOver

LEMMA FiresUnlessFire ==
  ASSUME Typed, [Next]_vars, ~Fire, NEW s
  PROVE  FiresOf(s)' = FiresOf(s) /\ UNCHANGED <<fires, everFired>>
BY SilentSteps DEF FiresOf

LEMMA NextMemories ==
  ASSUME FInv, TypeOK', [Next]_vars
  PROVE  MemoriesHaveReasons'
<1>1. Typed /\ Len(seen) \in Nat
  BY DEF FInv, BInv, Typed
<1>2. SUFFICES ASSUME NEW s \in Driving
               PROVE  /\ s \in DOMAIN signalState' /\ signalState'[s] = "holds" =>
                           HeldTicks(s)' # {}
                      /\ FiresOf(s)' # {} => HeldTicks(s)' # {}
                      /\ s \in everFired' => FiresOf(s)' # {}
  BY DEF MemoriesHaveReasons
<1>3. /\ s \in DOMAIN signalState /\ signalState[s] = "holds" => HeldTicks(s) # {}
      /\ FiresOf(s) # {} => HeldTicks(s) # {}
      /\ s \in everFired => FiresOf(s) # {}
  BY DEF FInv, MemoriesHaveReasons
<1>4. HeldTicks(s) # {} => HeldTicks(s)' # {}
  BY HeldAfter
<1>5. CASE Fire
  <2>1. FiresOf(s)' = IF s = Current THEN FiresOf(s) \cup {Len(fires) + 1} ELSE FiresOf(s)
    BY <1>1, <1>5, FiresAfterFire
  <2>2. /\ conditions[Current] = "holds" /\ everFired' = everFired \cup {Current}
        /\ signalState' = Put(signalState, Current, conditions[Current])
    BY <1>5 DEF Fire, Fires, Edge
  <2>3. s = Current => HeldTicks(s)' # {}
    BY <1>5, <2>2, HeldAfter
  <2> QED BY <1>3, <1>4, <2>1, <2>2, <2>3 DEF Put
<1>6. CASE HoldBack
  <2>1. ~Fire
    BY <1>6 DEF HoldBack, Fire
  <2>2. FiresOf(s)' = FiresOf(s) /\ everFired' = everFired
    BY <1>1, <2>1, FiresUnlessFire
  <2>3. signalState' = Put(signalState, Current, conditions[Current])
    BY <1>6 DEF HoldBack
  <2>4. s = Current /\ conditions[s] = "holds" => HeldTicks(s)' # {}
    BY <1>6, HeldAfter
  <2> QED BY <1>3, <1>4, <2>2, <2>3, <2>4 DEF Put
<1>7. CASE UNCHANGED signalState /\ ~Fire
  BY <1>1, <1>3, <1>4, <1>7, FiresUnlessFire
<1>8. Fire \/ HoldBack \/ (UNCHANGED signalState /\ ~Fire)
  BY DEF Next, NextTick, SkipUndriven, SkipUnknown, Terminated, vars, gates
<1> QED BY <1>5, <1>6, <1>7, <1>8

LEMMA NextFirstHold ==
  ASSUME FInv, TypeOK', [Next]_vars
  PROVE  FirstHoldFires'
<1>1. Typed /\ Len(seen) \in Nat /\ policy' = policy
  BY SilentSteps DEF FInv, BInv, Typed, Fire
<1>2. SUFFICES ASSUME ~(policy.repeat = "max_count" /\ policy.maxCount = 0),
                      NEW s \in Driving, HeldTicks(s)' # {}
               PROVE  \E i \in FiresOf(s)' : \A t \in HeldTicks(s)' :
                        fires'[i].tick \in HeldTicks(s)' /\ fires'[i].tick <= t
  BY <1>1 DEF FirstHoldFires, HeldTicks
<1>3. CASE HeldTicks(s) # {}
  <2>1. PICK i \in FiresOf(s) : \A t \in HeldTicks(s) :
               fires[i].tick \in HeldTicks(s) /\ fires[i].tick <= t
    BY <1>2, <1>3 DEF FInv, FirstHoldFires, HeldTicks
  <2>2. fires[i].tick \in HeldTicks(s) /\ fires[i].tick <= Len(seen)
    BY <1>3, <2>1, HeldAfter
  <2>3. i \in FiresOf(s)' /\ fires'[i] = fires[i]
    <3>1. CASE Fire
      BY <1>1, <2>1, <3>1, FireAppends, FiresAfterFire DEF FiresOf
    <3>2. CASE ~Fire
      BY <1>1, <2>1, <3>2, FiresUnlessFire
    <3> QED BY <3>1, <3>2
  <2>4. HeldTicks(s)' = HeldTicks(s) \/ HeldTicks(s)' = HeldTicks(s) \cup {Len(seen)}
    BY HeldAfter
  <2> QED BY <2>1, <2>2, <2>3, <2>4
<1>4. CASE HeldTicks(s) = {}
  <2>1. /\ s = Current /\ (HoldBack \/ Fire) /\ conditions[s] = "holds"
        /\ HeldTicks(s)' = {Len(seen)}
    BY <1>2, <1>4, HeldAfter
  <2>2. Fires(s)
    BY <1>2, <1>4, <2>1, NothingHeldNothingBlocks
  <2>3. Fire
    BY <2>1, <2>2 DEF HoldBack
  <2>4. /\ Len(fires) + 1 \in FiresOf(s)'
        /\ fires'[Len(fires) + 1].tick = Len(seen)
    BY <1>1, <2>1, <2>3, FireAppends, FiresAfterFire
  <2> QED BY <1>1, <2>1, <2>4
<1> QED BY <1>3, <1>4

LEMMA InitFires == ASSUME Init PROVE FInv
<1>1. DOMAIN fires = {} /\ DOMAIN seen = {} /\ everFired = {} /\ DOMAIN signalState = {}
  BY DEF Init
<1>2. MemoriesHaveReasons /\ FirstHoldFires
  BY <1>1 DEF MemoriesHaveReasons, FirstHoldFires, FiresOf, KnownTicks
<1> QED BY <1>2, InitTypeOK, InitBudget, InitFailures DEF FInv

\* For every strategy, policy that allows a fire and sequence of ticks, a signal
\* first fires on the first tick it is seen to hold: the memories the gates keep
\* (SignalState in evaluate_signals) never hold back a first fire.
THEOREM FirstHoldsFire == Spec => []FirstHoldFires
<1>1. Init => FInv
  BY InitFires
<1>2. FInv /\ [Next]_vars => FInv'
  <2> SUFFICES ASSUME FInv, [Next]_vars PROVE FInv'
    OBVIOUS
  <2>1. TypeOK'
    BY NextTypeOK DEF FInv
  <2>2. BInv' /\ RInv'
    BY NextBudget, NextFailures DEF FInv
  <2> QED BY <2>1, <2>2, NextMemories, NextFirstHold DEF FInv
<1>3. FInv => FirstHoldFires
  BY DEF FInv
<1> QED BY <1>1, <1>2, <1>3, PTL DEF Spec
=============================================================================
