---------------------------- MODULE EngineProofs ----------------------------
(* Proofs about the orders of the engine, for every strategy, policy and      *)
(* market and any number of ticks: the book and the queue implement the order *)
(* book, and no order fills too early or too late. Orders move between four   *)
(* lists; the invariant says that no order is in two places. What a fill does *)
(* to the ledger, and whether it goes through, plays no part in this.         *)
EXTENDS Engine, FiniteSetTheorems, TLAPS

-----------------------------------------------------------------------------
(* Lists of orders.                                                           *)

\* A sequence, of whatever orders.
IsList(s) == \E S : s \in Seq(S)

\* No two places of a list hold orders with the same id.
Single(s) == \A i, j \in DOMAIN s : s[i].id = s[j].id => i = j

\* Two lists have no order id in common.
Disjoint(s, t) == \A x \in Members(s), y \in Members(t) : x.id # y.id

\* A sequence over a set is one over every larger set.
LEMMA SeqGrows ==
  ASSUME NEW S, NEW T, S \subseteq T, NEW s \in Seq(S)
  PROVE  s \in Seq(T)
OBVIOUS

\* Appending an order to a list adds it to the members.
LEMMA AppendList ==
  ASSUME NEW s, IsList(s), NEW o
  PROVE  /\ IsList(Append(s, o))
         /\ Members(Append(s, o)) = Members(s) \cup {o}
         /\ Single(s) /\ (\A x \in Members(s) : x.id # o.id) => Single(Append(s, o))
<1>1. PICK S : s \in Seq(S)
  BY DEF IsList
<1> DEFINE T == S \cup {o}
           t == Append(s, o)
<1>2. s \in Seq(T) /\ o \in T
  BY <1>1, SeqGrows
<1>3. t \in Seq(T) /\ Len(t) = Len(s) + 1 /\ DOMAIN t = 1 .. Len(s) + 1 /\ DOMAIN s = 1 .. Len(s)
      /\ Len(s) \in Nat
  BY <1>2
<1>4. t[Len(s) + 1] = o /\ \A i \in DOMAIN s : t[i] = s[i]
  BY <1>2
<1> HIDE DEF t, T
<1>5. IsList(t)
  BY <1>3 DEF IsList
<1>6. Members(t) = Members(s) \cup {o}
  BY <1>3, <1>4 DEF Members
<1>7. ASSUME Single(s), \A x \in Members(s) : x.id # o.id
      PROVE  Single(t)
  BY <1>3, <1>4, <1>7 DEF Single, Members
<1> QED BY <1>5, <1>6, <1>7 DEF t

\* The first order of a list is one of its members, and the rest are the others.
LEMMA TailList ==
  ASSUME NEW s, IsList(s), s # <<>>
  PROVE  /\ IsList(Tail(s))
         /\ Head(s) \in Members(s)
         /\ Members(s) = Members(Tail(s)) \cup {Head(s)}
         /\ Single(s) => /\ Single(Tail(s))
                         /\ \A x \in Members(Tail(s)) : x.id # Head(s).id
<1>1. PICK S : s \in Seq(S)
  BY DEF IsList
<1> DEFINE t == Tail(s)
<1>2. /\ t \in Seq(S) /\ Len(s) \in Nat \ {0} /\ Len(t) = Len(s) - 1
      /\ DOMAIN s = 1 .. Len(s) /\ DOMAIN t = 1 .. Len(s) - 1
  BY <1>1
<1>3. Head(s) = s[1] /\ \A i \in DOMAIN t : t[i] = s[i + 1]
  BY <1>1
<1> HIDE DEF t
<1>4. IsList(t)
  BY <1>2 DEF IsList
<1>5. Head(s) \in Members(s)
  BY <1>2, <1>3 DEF Members
<1>6. Members(s) = Members(t) \cup {Head(s)}
  <2>1. ASSUME NEW x \in Members(s), x # Head(s) PROVE x \in Members(t)
    <3>1. PICK i \in DOMAIN s : x = s[i]
      BY DEF Members
    <3>2. i - 1 \in DOMAIN t /\ t[i - 1] = x
      BY <1>2, <1>3, <2>1, <3>1
    <3> QED BY <3>2 DEF Members
  <2>2. ASSUME NEW x \in Members(t) PROVE x \in Members(s)
    BY <1>2, <1>3 DEF Members
  <2> QED BY <1>5, <2>1, <2>2
<1>7. ASSUME Single(s) PROVE Single(t) /\ \A x \in Members(t) : x.id # Head(s).id
  <2>1. \A i \in DOMAIN t : i + 1 \in DOMAIN s /\ i + 1 # 1 /\ t[i] = s[i + 1]
    BY <1>2, <1>3
  <2>2. ASSUME NEW i \in DOMAIN t, NEW j \in DOMAIN t, t[i].id = t[j].id PROVE i = j
    <3>1. i + 1 = j + 1
      BY <1>7, <2>1, <2>2 DEF Single
    <3> QED BY <1>2, <3>1
  <2>3. ASSUME NEW i \in DOMAIN t PROVE t[i].id # Head(s).id
    BY <1>2, <1>3, <1>7, <2>1 DEF Single
  <2> QED BY <2>2, <2>3 DEF Single, Members
<1> QED BY <1>4, <1>5, <1>6, <1>7 DEF t

\* Two lists put together have the members of both.
LEMMA JoinedList ==
  ASSUME NEW s, NEW t, IsList(s), IsList(t)
  PROVE  /\ IsList(s \o t)
         /\ Members(s \o t) = Members(s) \cup Members(t)
         /\ Single(s) /\ Single(t) /\ Disjoint(s, t) => Single(s \o t)
<1>1. PICK S : s \in Seq(S)
  BY DEF IsList
<1>2. PICK T : t \in Seq(T)
  BY DEF IsList
<1> DEFINE U == S \cup T
           u == s \o t
<1>3. s \in Seq(U) /\ t \in Seq(U)
  BY <1>1, <1>2, SeqGrows
<1>4. /\ u \in Seq(U) /\ Len(s) \in Nat /\ Len(t) \in Nat /\ DOMAIN u = 1 .. Len(s) + Len(t)
      /\ DOMAIN s = 1 .. Len(s) /\ DOMAIN t = 1 .. Len(t)
  BY <1>3
<1>5. \A i \in DOMAIN u : u[i] = IF i <= Len(s) THEN s[i] ELSE t[i - Len(s)]
  BY <1>3
<1> HIDE DEF u, U
<1>6. IsList(u)
  BY <1>4 DEF IsList
<1>7. Members(u) = Members(s) \cup Members(t)
  <2>1. ASSUME NEW x \in Members(s) PROVE x \in Members(u)
    BY <1>4, <1>5 DEF Members
  <2>2. ASSUME NEW x \in Members(t) PROVE x \in Members(u)
    <3>1. PICK i \in DOMAIN t : x = t[i]
      BY DEF Members
    <3>2. i + Len(s) \in DOMAIN u /\ u[i + Len(s)] = x
      BY <1>4, <1>5, <3>1
    <3> QED BY <3>2 DEF Members
  <2>3. ASSUME NEW x \in Members(u) PROVE x \in Members(s) \cup Members(t)
    BY <1>4, <1>5 DEF Members
  <2> QED BY <2>1, <2>2, <2>3
<1>8. ASSUME Single(s), Single(t), Disjoint(s, t) PROVE Single(u)
  <2> SUFFICES ASSUME NEW i \in DOMAIN u, NEW j \in DOMAIN u, u[i].id = u[j].id PROVE i = j
    BY DEF Single
  <2>1. CASE i <= Len(s) /\ j <= Len(s)
    BY <1>4, <1>5, <1>8, <2>1 DEF Single
  <2>2. CASE i > Len(s) /\ j > Len(s)
    <3>1. i - Len(s) \in DOMAIN t /\ j - Len(s) \in DOMAIN t
      BY <1>4, <2>2
    <3>2. t[i - Len(s)].id = t[j - Len(s)].id
      BY <1>4, <1>5, <2>2
    <3>3. i - Len(s) = j - Len(s)
      BY <1>8, <3>1, <3>2 DEF Single
    <3> QED BY <1>4, <3>3
  <2>3. CASE i <= Len(s) /\ j > Len(s)
    <3>1. u[i] \in Members(s) /\ u[j] \in Members(t)
      BY <1>4, <1>5, <2>3 DEF Members
    <3> QED BY <1>8, <3>1 DEF Disjoint
  <2>4. CASE i > Len(s) /\ j <= Len(s)
    <3>1. u[j] \in Members(s) /\ u[i] \in Members(t)
      BY <1>4, <1>5, <2>4 DEF Members
    <3> QED BY <1>8, <3>1 DEF Disjoint
  <2> QED BY <1>4, <2>1, <2>2, <2>3, <2>4
<1> QED BY <1>6, <1>7, <1>8 DEF u

\* The empty list has no members.
LEMMA EmptyList == IsList(<<>>) /\ Members(<<>>) = {} /\ Single(<<>>)
<1>1. <<>> \in Seq({}) /\ DOMAIN <<>> = {}
  OBVIOUS
<1> QED BY <1>1 DEF IsList, Members, Single

-----------------------------------------------------------------------------
(* No order is in two places.                                                 *)

\* The orders that are no longer open.
Settled == {events[i].order : i \in EventsOf({"filled", "rejected", "expired"})}

\* The book, the queue and the trace are sequences.
Lists ==
  /\ IsList(resting) /\ IsList(pending) /\ IsList(ready) /\ IsList(keep)
  /\ \E S : events \in Seq(S)

\* No id is in two places of the book and the queue.
Apart ==
  /\ Single(resting) /\ Single(pending) /\ Single(ready) /\ Single(keep)
  /\ Disjoint(resting, pending) /\ Disjoint(resting, ready) /\ Disjoint(resting, keep)
  /\ Disjoint(pending, ready) /\ Disjoint(pending, keep) /\ Disjoint(ready, keep)

\* An order that waits has an id that was given out, was placed on a tick that
\* has begun, and has not settled.
Waiting ==
  \A o \in Queued :
    /\ o.id \in Nat /\ o.id < orderSeq
    /\ o.placed \in Nat /\ o.placed <= tick
    /\ o.id \notin Settled

\* Chains run only where orders may be placed, the two lists of a scan are empty
\* between scans, and a drained book stays empty.
Staged ==
  /\ pc \in {"market_orders", "limit_orders", "signals"} => tick > 0
  /\ pc \notin {"market_orders", "limit_orders", "signals"} => Idle
  /\ pc \notin {"market_orders", "limit_orders", "panicked"} => ready = <<>> /\ keep = <<>>
  /\ pc \in {"drain_pending", "done"} => resting = <<>>
  /\ pc = "done" => pending = <<>>

\* Ticks and ids only go up, and what has settled had an id.
Numbered ==
  /\ tick \in 0 .. Ticks
  /\ orderSeq \in Nat
  /\ \A id \in Settled : id \in Nat /\ id < orderSeq
  /\ pc \in {"funding", "yields", "liquidations", "valuation"} => tick > 0

\* The inductive invariant.
IInv == Lists /\ Apart /\ Waiting /\ Staged /\ Numbered

\* The orders that wait are the members of the four lists.
LEMMA QueuedMembers ==
  Queued = Members(resting) \cup Members(pending) \cup Members(ready) \cup Members(keep)
BY DEF Queued, Members

\* An event that settles an order adds it to those that have settled.
LEMMA LogSettles ==
  ASSUME \E S : events \in Seq(S), NEW e, Log(e)
  PROVE  /\ (\E S : events \in Seq(S))'
         /\ Settled' = Settled \cup (IF e.what \in {"filled", "rejected", "expired"} THEN {e.order} ELSE {})
<1>1. PICK S : events \in Seq(S)
  OBVIOUS
<1> DEFINE T == S \cup {e}
           done == {"filled", "rejected", "expired"}
<1>2. events \in Seq(T) /\ events' = Append(events, e)
  BY <1>1, SeqGrows DEF Log
<1>3. /\ events' \in Seq(T) /\ Len(events) \in Nat
      /\ DOMAIN events = 1 .. Len(events) /\ DOMAIN events' = 1 .. Len(events) + 1
  BY <1>2
<1>4. events'[Len(events) + 1] = e /\ \A i \in DOMAIN events : events'[i] = events[i]
  BY <1>2
<1> HIDE DEF T
<1>5. Settled = {events[i].order : i \in {j \in 1 .. Len(events) : events[j].what \in done}}
  BY <1>3 DEF Settled, EventsOf
<1>6. Settled' = {events'[i].order : i \in {j \in 1 .. Len(events) + 1 : events'[j].what \in done}}
  BY <1>3 DEF Settled, EventsOf
<1>7. ASSUME NEW x \in Settled PROVE x \in Settled'
  BY <1>3, <1>4, <1>5, <1>6
<1>8. e.what \in done => e.order \in Settled'
  BY <1>3, <1>4, <1>6
<1>9. ASSUME NEW x \in Settled' PROVE x \in Settled \/ (e.what \in done /\ x = e.order)
  <2>1. PICK i \in 1 .. Len(events) + 1 : events'[i].what \in done /\ x = events'[i].order
    BY <1>6
  <2>2. CASE i = Len(events) + 1
    BY <1>4, <2>1, <2>2
  <2>3. CASE i # Len(events) + 1
    <3>1. i \in 1 .. Len(events) /\ events'[i] = events[i]
      BY <1>3, <1>4, <2>3
    <3> QED BY <1>5, <2>1, <3>1
  <2> QED BY <2>2, <2>3
<1> QED BY <1>3, <1>7, <1>8, <1>9

\* The run starts with nothing in any list.
LEMMA InitInv == Init => IInv
<1> SUFFICES ASSUME Init PROVE IInv
  OBVIOUS
<1>0. Queued = {} /\ Settled = {} /\ events \in Seq({})
  BY QueuedMembers, EmptyList DEF Init, Settled, EventsOf
<1>1. Lists /\ Apart
  BY <1>0, EmptyList DEF Init, Lists, Apart, Disjoint
<1>2. Waiting /\ Staged /\ Numbered
  BY <1>0, EngineAssumption DEF Init, Waiting, Staged, Numbered, Idle
<1> QED BY <1>1, <1>2 DEF IInv

-----------------------------------------------------------------------------
(* Every action keeps the invariant. What it does to the orders that wait and *)
(* to those that have settled is stated with it, for the refinement.          *)

\* Steps that touch neither the lists nor what has settled.
LEMMA Frame ==
  ASSUME IInv, UNCHANGED book, Settled' = Settled, (\E S : events \in Seq(S))',
         tick' \in 0 .. Ticks, tick <= tick', orderSeq' \in Nat, orderSeq <= orderSeq'
  PROVE  Lists' /\ Apart' /\ Waiting' /\ Queued' = Queued /\ (\A id \in Settled' : id \in Nat /\ id < orderSeq')
<1> USE DEF IInv, book
<1>1. Lists' /\ Queued' = Queued
  BY DEF Lists, Queued
<1>2. Apart'
  BY DEF Apart, Single, Disjoint, Members
<1>3. ASSUME NEW o \in Queued PROVE /\ o.id \in Nat /\ o.id < orderSeq'
                                    /\ o.placed \in Nat /\ o.placed <= tick'
                                    /\ o.id \notin Settled'
  <2>1. /\ o.id \in Nat /\ o.id < orderSeq
        /\ o.placed \in Nat /\ o.placed <= tick
        /\ o.id \notin Settled
    BY DEF Waiting
  <2>2. tick \in Nat /\ tick' \in Nat /\ orderSeq \in Nat
    BY EngineAssumption DEF Numbered
  <2> QED BY <2>1, <2>2
<1>4. Waiting'
  BY <1>1, <1>3 DEF Waiting
<1>5. \A id \in Settled' : id \in Nat /\ id < orderSeq'
  BY DEF Numbered
<1> QED BY <1>1, <1>2, <1>4, <1>5

\* The steps that leave every order where it is.
Quiet ==
  \/ PhaseDone \/ ApplyFunding \/ ApplyYield \/ CheckLiquidation
  \/ FireSignal \/ PassSignal \/ StartChain \/ SkipAction
  \/ BeginSnapshot \/ Snapshot \/ LastTick \/ DrainDone \/ Panic \/ UNCHANGED vars

\* Steps that change neither the book and the queue, nor the clock, nor the trace.
LEMMA QuietInv ==
  ASSUME IInv, Quiet
  PROVE  IInv' /\ Queued' = Queued /\ Settled' = Settled /\ tick' = tick
<1>1. /\ UNCHANGED book /\ tick' = tick /\ orderSeq' = orderSeq /\ events' = events
  BY DEF Quiet, PhaseDone, ApplyFunding, ApplyYield, CheckLiquidation, FireSignal, PassSignal,
         StartChain, SkipAction, BeginSnapshot, Snapshot, LastTick, DrainDone, Panic, vars, book, input
<1>2. Settled' = Settled
  BY <1>1 DEF Settled, EventsOf
<1>3. tick \in 0 .. Ticks /\ tick \in Nat /\ orderSeq \in Nat /\ (\E S : events \in Seq(S))'
  BY <1>1, EngineAssumption DEF IInv, Numbered, Lists
<1>4. Lists' /\ Apart' /\ Waiting' /\ Queued' = Queued /\ (\A id \in Settled' : id \in Nat /\ id < orderSeq')
  BY <1>1, <1>2, <1>3, Frame
<1>5. Staged' /\ Numbered'
  <2> USE <1>1, <1>2, <1>3 DEF IInv, Staged, Numbered, Idle, book
  <2>1. CASE PhaseDone
    BY <2>1 DEF PhaseDone, chain
  <2>2. CASE ApplyFunding \/ ApplyYield \/ CheckLiquidation
    BY <2>2 DEF ApplyFunding, ApplyYield, CheckLiquidation, chain
  <2>3. CASE FireSignal \/ PassSignal
    BY <2>3 DEF FireSignal, PassSignal, chain
  <2>4. CASE StartChain \/ SkipAction
    <3>1. pc' = pc /\ pc \in {"market_orders", "limit_orders", "signals"}
      BY <2>4 DEF StartChain, SkipAction
    <3> QED BY <3>1
  <2>5. CASE BeginSnapshot \/ Snapshot
    BY <2>5 DEF BeginSnapshot, Snapshot, chain
  <2>6. CASE LastTick \/ DrainDone
    BY <2>6 DEF LastTick, DrainDone, chain
  <2>7. CASE Panic
    BY <2>7 DEF Panic, Faults
  <2>8. CASE UNCHANGED vars
    BY <2>8 DEF vars, chain
  <2> QED BY <2>1, <2>2, <2>3, <2>4, <2>5, <2>6, <2>7, <2>8 DEF Quiet
<1> QED BY <1>1, <1>2, <1>4, <1>5 DEF IInv

\* A new tick.
LEMMA NextTickInv ==
  ASSUME IInv, NextTick
  PROVE  IInv' /\ Queued' = Queued /\ Settled' = Settled
<1>1. /\ UNCHANGED book /\ tick' = tick + 1 /\ orderSeq' = orderSeq /\ events' = events /\ UNCHANGED chain
      /\ pc = "next_tick" /\ pc' = "funding" /\ tick < Ticks
  BY DEF NextTick
<1>2. Settled' = Settled
  BY <1>1 DEF Settled, EventsOf
<1>3. tick' \in 0 .. Ticks /\ tick <= tick' /\ tick' > 0 /\ orderSeq \in Nat /\ (\E S : events \in Seq(S))'
  BY <1>1, EngineAssumption DEF IInv, Numbered, Lists
<1>4. Lists' /\ Apart' /\ Waiting' /\ Queued' = Queued /\ (\A id \in Settled' : id \in Nat /\ id < orderSeq')
  BY <1>1, <1>2, <1>3, Frame
<1>5. Staged' /\ Numbered'
  BY <1>1, <1>2, <1>3, <1>4 DEF IInv, Staged, Numbered, Idle, book, chain
<1> QED BY <1>2, <1>4, <1>5 DEF IInv

\* An action that executes or is refused settles nothing; a refused one may use
\* up an id.
LEMMA ActionInv ==
  ASSUME IInv, ExecuteAction \/ RefuseAction
  PROVE  IInv' /\ Queued' = Queued /\ Settled' = Settled
<1>1. /\ UNCHANGED book /\ tick' = tick /\ pc' = pc /\ stack # <<>>
      /\ orderSeq' \in {orderSeq, orderSeq + 1}
  BY DEF ExecuteAction, RefuseAction, book, input, IsNew
<1>2. \E e : Log(e) /\ e.what \in {"executed", "refused"}
  <2>1. CASE ExecuteAction
    BY <2>1 DEF ExecuteAction, Event
  <2>2. CASE RefuseAction
    BY <2>2 DEF RefuseAction, Event
  <2> QED BY <2>1, <2>2
<1>3. Settled' = Settled /\ (\E S : events \in Seq(S))'
  BY <1>2, LogSettles DEF IInv, Lists
<1>4. tick \in 0 .. Ticks /\ tick \in Nat /\ orderSeq \in Nat /\ orderSeq' \in Nat /\ orderSeq <= orderSeq'
  BY <1>1, EngineAssumption DEF IInv, Numbered
<1>5. Lists' /\ Apart' /\ Waiting' /\ Queued' = Queued /\ (\A id \in Settled' : id \in Nat /\ id < orderSeq')
  BY <1>1, <1>3, <1>4, Frame
<1>6. Staged' /\ Numbered'
  BY <1>1, <1>3, <1>4, <1>5 DEF IInv, Staged, Numbered, Idle, book
<1> QED BY <1>3, <1>5, <1>6 DEF IInv

\* Steps that move orders between the lists and settle none.
LEMMA MovedWaits ==
  ASSUME IInv, Queued' = Queued, events' = events, tick' = tick, orderSeq' = orderSeq
  PROVE  /\ Waiting' /\ Settled' = Settled /\ (\E S : events \in Seq(S))'
         /\ tick' \in 0 .. Ticks /\ orderSeq' \in Nat /\ (\A id \in Settled' : id \in Nat /\ id < orderSeq')
<1>1. Settled' = Settled
  BY DEF Settled, EventsOf
<1> QED BY <1>1 DEF IInv, Waiting, Numbered, Lists

\* The queue is taken for the scan of a tick.
LEMMA BeginMarketOrdersInv ==
  ASSUME IInv, BeginMarketOrders
  PROVE  IInv' /\ Queued' = Queued /\ Settled' = Settled /\ tick' = tick
<1>0. /\ ready = <<>> /\ keep = <<>> /\ ready' = pending /\ pending' = <<>>
      /\ resting' = resting /\ keep' = keep /\ UNCHANGED <<events, tick, orderSeq, chain>>
      /\ pc = "valuation" /\ pc' = "market_orders"
  BY DEF BeginMarketOrders, IInv, Staged, input
<1>1. Queued' = Queued
  <2>1. /\ Members(ready') = Members(pending) /\ Members(pending') = {} /\ Members(ready) = {}
        /\ Members(resting') = Members(resting) /\ Members(keep') = Members(keep)
    BY <1>0, EmptyList
  <2>2. Queued' = Members(resting') \cup Members(pending') \cup Members(ready') \cup Members(keep')
    BY QueuedMembers DEF Queued, Members
  <2> QED BY <2>1, <2>2, QueuedMembers
<1>2. (IsList(resting) /\ IsList(pending) /\ IsList(ready) /\ IsList(keep))'
  BY <1>0, EmptyList DEF IInv, Lists
<1>3. Apart'
  BY <1>0, EmptyList DEF IInv, Apart, Disjoint, Single, Members
<1>4. Staged' /\ Numbered' /\ Lists' /\ Waiting' /\ Settled' = Settled
  BY <1>0, <1>1, <1>2, MovedWaits DEF IInv, Staged, Numbered, Lists, Idle, chain
<1> QED BY <1>0, <1>1, <1>3, <1>4 DEF IInv

\* The orders that keep waiting go back behind those placed by the scan, and the
\* book is taken.
LEMMA BeginLimitOrdersInv ==
  ASSUME IInv, BeginLimitOrders
  PROVE  IInv' /\ Queued' = Queued /\ Settled' = Settled /\ tick' = tick
<1>0. /\ ready = <<>> /\ ready' = resting /\ resting' = <<>>
      /\ pending' = pending \o keep /\ keep' = <<>> /\ UNCHANGED <<events, tick, orderSeq, chain>>
      /\ pc = "market_orders" /\ pc' = "limit_orders"
  BY DEF BeginLimitOrders, input
<1>1. /\ IsList(pending') /\ Members(pending') = Members(pending) \cup Members(keep) /\ Single(pending')
  BY <1>0, JoinedList DEF IInv, Lists, Apart
<1>2. Queued' = Queued
  <2>1. Members(ready') = Members(resting) /\ Members(resting') = {} /\ Members(keep') = {} /\ Members(ready) = {}
    BY <1>0, EmptyList
  <2>2. Queued' = Members(resting') \cup Members(pending') \cup Members(ready') \cup Members(keep')
    BY QueuedMembers DEF Queued, Members
  <2> QED BY <1>1, <2>1, <2>2, QueuedMembers
<1>3. (IsList(resting) /\ IsList(pending) /\ IsList(ready) /\ IsList(keep))'
  BY <1>0, <1>1, EmptyList DEF IInv, Lists
<1>4. Apart'
  <2>1. Single(ready') /\ Single(resting') /\ Single(keep') /\ Single(pending')
    BY <1>0, <1>1, EmptyList DEF IInv, Apart
  <2>2. Disjoint(pending', ready')
    BY <1>0, <1>1 DEF IInv, Apart, Disjoint
  <2> QED BY <1>0, <2>1, <2>2, EmptyList DEF Apart, Disjoint
<1>5. Staged' /\ Numbered' /\ Lists' /\ Waiting' /\ Settled' = Settled
  BY <1>0, <1>2, <1>3, MovedWaits DEF IInv, Staged, Numbered, Lists, Idle, chain
<1> QED BY <1>0, <1>2, <1>4, <1>5 DEF IInv

\* The orders that keep waiting go back behind those placed by the fills.
LEMMA BeginSignalsInv ==
  ASSUME IInv, BeginSignals
  PROVE  IInv' /\ Queued' = Queued /\ Settled' = Settled /\ tick' = tick
<1>0. /\ ready = <<>> /\ ready' = <<>> /\ pending' = pending
      /\ resting' = resting \o keep /\ keep' = <<>> /\ UNCHANGED <<events, tick, orderSeq>>
      /\ pc = "limit_orders" /\ pc' = "signals"
  BY DEF BeginSignals, input
<1>1. /\ IsList(resting') /\ Members(resting') = Members(resting) \cup Members(keep) /\ Single(resting')
  BY <1>0, JoinedList DEF IInv, Lists, Apart
<1>2. Queued' = Queued
  <2>1. Members(ready') = {} /\ Members(keep') = {} /\ Members(ready) = {} /\ Members(pending') = Members(pending)
    BY <1>0, EmptyList
  <2>2. Queued' = Members(resting') \cup Members(pending') \cup Members(ready') \cup Members(keep')
    BY QueuedMembers DEF Queued, Members
  <2> QED BY <1>1, <2>1, <2>2, QueuedMembers
<1>3. (IsList(resting) /\ IsList(pending) /\ IsList(ready) /\ IsList(keep))'
  BY <1>0, <1>1, EmptyList DEF IInv, Lists
<1>4. Apart'
  <2>1. Single(ready') /\ Single(resting') /\ Single(keep') /\ Single(pending')
    BY <1>0, <1>1, EmptyList DEF IInv, Apart
  <2>2. Disjoint(resting', pending')
    BY <1>0, <1>1 DEF IInv, Apart, Disjoint
  <2> QED BY <1>0, <2>1, <2>2, EmptyList DEF Apart, Disjoint
<1>5. Staged' /\ Numbered' /\ Lists' /\ Waiting' /\ Settled' = Settled
  BY <1>0, <1>2, <1>3, MovedWaits DEF IInv, Staged, Numbered, Lists
<1> QED BY <1>0, <1>2, <1>4, <1>5 DEF IInv

\* An order that is looked at goes on waiting.
Keeps ==
  /\ pc \in {"market_orders", "limit_orders"} /\ pc' = pc /\ ready # <<>>
  /\ keep' = Append(keep, Head(ready)) /\ ready' = Tail(ready)
  /\ UNCHANGED <<resting, pending, events, tick, orderSeq>>

\* Nothing changes for the orders when one is put with those that wait on.
LEMMA KeepInv ==
  ASSUME IInv, Keeps
  PROVE  IInv' /\ Queued' = Queued /\ Settled' = Settled /\ tick' = tick
<1> DEFINE o == Head(ready)
<1>0. IsList(ready) /\ IsList(keep) /\ IsList(resting) /\ IsList(pending)
  BY DEF IInv, Lists
<1>1. /\ IsList(ready') /\ o \in Members(ready) /\ Members(ready) = Members(ready') \cup {o}
      /\ Single(ready') /\ \A x \in Members(ready') : x.id # o.id
  BY <1>0, TailList DEF Keeps, IInv, Apart
<1>2. \A x \in Members(keep) : x.id # o.id
  BY <1>1 DEF IInv, Apart, Disjoint
<1>3. IsList(keep') /\ Members(keep') = Members(keep) \cup {o} /\ Single(keep')
  BY <1>0, <1>2, AppendList DEF Keeps, IInv, Apart
<1>4. Queued' = Queued
  <2>1. Queued' = Members(resting') \cup Members(pending') \cup Members(ready') \cup Members(keep')
    BY QueuedMembers DEF Queued, Members
  <2>2. resting' = resting /\ pending' = pending
    BY DEF Keeps
  <2> QED BY <1>1, <1>3, <2>1, <2>2, QueuedMembers
<1>5. Apart'
  <2>1. resting' = resting /\ pending' = pending
    BY DEF Keeps
  <2> QED BY <1>1, <1>2, <1>3, <2>1 DEF IInv, Apart, Disjoint
<1>6. Staged' /\ Numbered' /\ Lists' /\ Waiting' /\ Settled' = Settled
  BY <1>0, <1>1, <1>3, <1>4, MovedWaits DEF Keeps, IInv, Staged, Numbered, Lists
<1> QED BY <1>4, <1>5, <1>6 DEF IInv, Keeps

\* The first order of a list leaves the book or the queue and is logged.
Leaves(o) ==
  /\ \/ ready # <<>> /\ o = Head(ready) /\ ready' = Tail(ready) /\ UNCHANGED <<resting, pending, keep>>
     \/ resting # <<>> /\ o = Head(resting) /\ resting' = Tail(resting) /\ UNCHANGED <<ready, pending, keep>>
     \/ pending # <<>> /\ o = Head(pending) /\ pending' = Tail(pending) /\ UNCHANGED <<resting, ready, keep>>
  /\ \E e : Log(e) /\ e.what \in {"filled", "rejected", "expired"} /\ e.order = o.id
  /\ UNCHANGED <<pc, tick, orderSeq>>

\* An order that leaves is nowhere else, and settles with it.
LEMMA LeaveInv ==
  ASSUME IInv, NEW o, Leaves(o)
  PROVE  /\ Lists' /\ Apart' /\ Waiting' /\ Numbered'
         /\ o \in Queued /\ Queued' = Queued \ {o} /\ \A x \in Queued' : x.id # o.id
         /\ Settled' = Settled \cup {o.id}
<1>0. IsList(ready) /\ IsList(keep) /\ IsList(resting) /\ IsList(pending) /\ Apart
  BY DEF IInv, Lists
<1>1. /\ Settled' = Settled \cup {o.id}
      /\ (\E S : events \in Seq(S))'
  BY LogSettles DEF Leaves, IInv, Lists
<1>2. Queued' = Members(resting') \cup Members(pending') \cup Members(ready') \cup Members(keep')
  BY QueuedMembers DEF Queued, Members
<1>3. /\ (IsList(resting) /\ IsList(pending) /\ IsList(ready) /\ IsList(keep))' /\ Apart'
      /\ o \in Queued /\ Queued' = Queued \ {o} /\ \A x \in Queued' : x.id # o.id
  <2>1. CASE ready # <<>> /\ o = Head(ready) /\ ready' = Tail(ready) /\ UNCHANGED <<resting, pending, keep>>
    <3>1. /\ IsList(ready') /\ o \in Members(ready) /\ Members(ready) = Members(ready') \cup {o}
          /\ Single(ready') /\ \A x \in Members(ready') : x.id # o.id
      BY <1>0, <2>1, TailList DEF Apart
    <3>2. \A x \in Members(resting) \cup Members(pending) \cup Members(keep) : x.id # o.id
      BY <1>0, <3>1 DEF Apart, Disjoint
    <3>3. resting' = resting /\ pending' = pending /\ keep' = keep
      BY <2>1
    <3>4. o \in Queued /\ Queued' = Queued \ {o} /\ \A x \in Queued' : x.id # o.id
      BY <1>2, <3>1, <3>2, <3>3, QueuedMembers
    <3>5. Apart'
      BY <1>0, <3>1, <3>3 DEF Apart, Disjoint
    <3> QED BY <1>0, <3>1, <3>3, <3>4, <3>5
  <2>2. CASE resting # <<>> /\ o = Head(resting) /\ resting' = Tail(resting) /\ UNCHANGED <<ready, pending, keep>>
    <3>1. /\ IsList(resting') /\ o \in Members(resting) /\ Members(resting) = Members(resting') \cup {o}
          /\ Single(resting') /\ \A x \in Members(resting') : x.id # o.id
      BY <1>0, <2>2, TailList DEF Apart
    <3>2. \A x \in Members(ready) \cup Members(pending) \cup Members(keep) : x.id # o.id
      BY <1>0, <3>1 DEF Apart, Disjoint
    <3>3. ready' = ready /\ pending' = pending /\ keep' = keep
      BY <2>2
    <3>4. o \in Queued /\ Queued' = Queued \ {o} /\ \A x \in Queued' : x.id # o.id
      BY <1>2, <3>1, <3>2, <3>3, QueuedMembers
    <3>5. Apart'
      BY <1>0, <3>1, <3>3 DEF Apart, Disjoint
    <3> QED BY <1>0, <3>1, <3>3, <3>4, <3>5
  <2>3. CASE pending # <<>> /\ o = Head(pending) /\ pending' = Tail(pending) /\ UNCHANGED <<resting, ready, keep>>
    <3>1. /\ IsList(pending') /\ o \in Members(pending) /\ Members(pending) = Members(pending') \cup {o}
          /\ Single(pending') /\ \A x \in Members(pending') : x.id # o.id
      BY <1>0, <2>3, TailList DEF Apart
    <3>2. \A x \in Members(resting) \cup Members(ready) \cup Members(keep) : x.id # o.id
      BY <1>0, <3>1 DEF Apart, Disjoint
    <3>3. resting' = resting /\ ready' = ready /\ keep' = keep
      BY <2>3
    <3>4. o \in Queued /\ Queued' = Queued \ {o} /\ \A x \in Queued' : x.id # o.id
      BY <1>2, <3>1, <3>2, <3>3, QueuedMembers
    <3>5. Apart'
      BY <1>0, <3>1, <3>3 DEF Apart, Disjoint
    <3> QED BY <1>0, <3>1, <3>3, <3>4, <3>5
  <2> QED BY <2>1, <2>2, <2>3 DEF Leaves
<1>4. Waiting'
  <2> SUFFICES ASSUME NEW x \in Queued'
               PROVE  /\ x.id \in Nat /\ x.id < orderSeq' /\ x.placed \in Nat /\ x.placed <= tick'
                      /\ x.id \notin Settled'
    BY DEF Waiting
  <2> QED BY <1>1, <1>3 DEF Leaves, IInv, Waiting
<1>5. Numbered'
  <2>1. o.id \in Nat /\ o.id < orderSeq
    BY <1>3 DEF IInv, Waiting
  <2> QED BY <1>1, <2>1 DEF Leaves, IInv, Numbered
<1> QED BY <1>1, <1>3, <1>4, <1>5 DEF Lists

\* What a scan does with the first order it looks at: it goes on waiting, or it
\* leaves on a later tick than the one it was placed on.
LEMMA ScanCases ==
  ASSUME IInv, FillMarketOrder \/ FillLimitOrder \/ ExpireLimitOrder \/ KeepLimitOrder
  PROVE  /\ pc \in {"market_orders", "limit_orders"} /\ pc' = pc
         /\ Keeps \/ (Leaves(Head(ready)) /\ Head(ready).placed < tick)
<1> DEFINE o == Head(ready)
<1>0. tick \in Nat /\ o.placed \in Nat
  <2>1. ready # <<>>
    BY DEF FillMarketOrder, FillLimitOrder, ExpireLimitOrder, KeepLimitOrder
  <2>2. o \in Queued
    BY <2>1, TailList, QueuedMembers DEF IInv, Lists
  <2> QED BY <2>2, EngineAssumption DEF IInv, Numbered, Waiting
<1>1. CASE FillMarketOrder
  <2>1. CASE o.placed >= tick
    BY <1>1, <2>1 DEF FillMarketOrder, Keeps, input
  <2>2. CASE ~(o.placed >= tick)
    <3>1. Leave(o, MarketOutcome(o), 0) /\ UNCHANGED keep
      BY <1>1, <2>2 DEF FillMarketOrder
    <3>2. \E e : Log(e) /\ e.what \in {"filled", "rejected"} /\ e.order = o.id
      BY <3>1 DEF Leave, Event
    <3> QED BY <1>0, <1>1, <2>2, <3>1, <3>2 DEF FillMarketOrder, Leaves, input
  <2> QED BY <2>1, <2>2
<1>2. CASE FillLimitOrder
  <2>1. \E e : Log(e) /\ e.what \in {"filled", "rejected"} /\ e.order = o.id
    BY <1>2 DEF FillLimitOrder, Leave, Event
  <2> QED BY <1>2, <2>1 DEF FillLimitOrder, Leaves, input
<1>3. CASE ExpireLimitOrder
  <2>1. \E e : Log(e) /\ e.what = "expired" /\ e.order = o.id
    BY <1>3 DEF ExpireLimitOrder, Lapse, Event
  <2> QED BY <1>3, <2>1 DEF ExpireLimitOrder, Leaves, input
<1>4. CASE KeepLimitOrder
  BY <1>4 DEF KeepLimitOrder, Keeps, input
<1> QED BY <1>1, <1>2, <1>3, <1>4

\* A scan keeps the invariant, whether an order stays or leaves.
LEMMA ScanInv ==
  ASSUME IInv, FillMarketOrder \/ FillLimitOrder \/ ExpireLimitOrder \/ KeepLimitOrder
  PROVE  IInv'
<1>1. CASE Keeps
  BY <1>1, KeepInv
<1>2. CASE Leaves(Head(ready))
  <2>1. Lists' /\ Apart' /\ Waiting' /\ Numbered'
    BY <1>2, LeaveInv
  <2>2. Staged'
    BY <1>2, ScanCases DEF Leaves, IInv, Staged
  <2> QED BY <2>1, <2>2 DEF IInv
<1> QED BY <1>1, <1>2, ScanCases

\* At the end of the run the book and then the queue are emptied.
LEMMA DrainInv ==
  ASSUME IInv, DrainResting \/ DrainPending
  PROVE  IInv' /\ \E o : Leaves(o) /\ pc \in {"drain_resting", "drain_pending"} /\ pc' = pc
<1>1. CASE DrainResting
  <2>1. \E e : Log(e) /\ e.what = "expired" /\ e.order = Head(resting).id
    BY <1>1 DEF DrainResting, Lapse, Event
  <2>2. Leaves(Head(resting)) /\ pc = "drain_resting" /\ pc' = pc
    BY <1>1, <2>1 DEF DrainResting, Leaves, input
  <2>3. Lists' /\ Apart' /\ Waiting' /\ Numbered'
    BY <2>2, LeaveInv
  <2>4. Staged'
    BY <1>1, <2>2 DEF DrainResting, IInv, Staged, Idle, chain, input
  <2> QED BY <2>2, <2>3, <2>4 DEF IInv
<1>2. CASE DrainPending
  <2>1. \E e : Log(e) /\ e.what = "expired" /\ e.order = Head(pending).id
    BY <1>2 DEF DrainPending, Lapse, Event
  <2>2. Leaves(Head(pending)) /\ pc = "drain_pending" /\ pc' = pc
    BY <1>2, <2>1 DEF DrainPending, Leaves, input
  <2>3. Lists' /\ Apart' /\ Waiting' /\ Numbered'
    BY <2>2, LeaveInv
  <2>4. Staged'
    BY <1>2, <2>2 DEF DrainPending, IInv, Staged, Idle, chain, input
  <2> QED BY <2>2, <2>3, <2>4 DEF IInv
<1> QED BY <1>1, <1>2

\* An action that places an order gives it the next id.
LEMMA PlaceInv ==
  ASSUME IInv, PlaceOrder
  PROVE  /\ IInv' /\ Settled' = Settled /\ tick' = tick /\ pc' = pc
         /\ \E o : /\ Queued' = Queued \cup {o} /\ o.id = orderSeq /\ o.placed = tick
                   /\ (\A x \in Queued : x.id # o.id) /\ o.id \notin Settled
<1> DEFINE o == NewOrder
<1>0. IsList(ready) /\ IsList(keep) /\ IsList(resting) /\ IsList(pending) /\ Apart
  BY DEF IInv, Lists
<1>1. o.id = orderSeq /\ o.placed = tick
  BY DEF NewOrder
<1> HIDE DEF o
<1>2. /\ \/ resting' = Append(resting, o) /\ pending' = pending
         \/ pending' = Append(pending, o) /\ resting' = resting
      /\ ready' = ready /\ keep' = keep /\ orderSeq' = orderSeq + 1 /\ tick' = tick /\ pc' = pc
      /\ stack # <<>>
  BY DEF PlaceOrder, o, input, IsNew
<1>3. \E e : Log(e) /\ e.what = "placed"
  BY DEF PlaceOrder, Event
<1>4. Settled' = Settled /\ (\E S : events \in Seq(S))'
  BY <1>3, LogSettles DEF IInv, Lists
<1>5. orderSeq \in Nat /\ tick \in Nat
  BY EngineAssumption DEF IInv, Numbered
<1>6. (\A x \in Queued : x.id # o.id) /\ o.id \notin Settled
  <2>1. \A x \in Queued : x.id \in Nat /\ x.id < orderSeq
    BY DEF IInv, Waiting
  <2>2. \A id \in Settled : id \in Nat /\ id < orderSeq
    BY DEF IInv, Numbered
  <2> QED BY <1>1, <1>5, <2>1, <2>2
<1>7. Queued' = Members(resting') \cup Members(pending') \cup Members(ready') \cup Members(keep')
  BY QueuedMembers DEF Queued, Members
<1>8. /\ Queued' = Queued \cup {o} /\ Apart'
      /\ (IsList(resting) /\ IsList(pending) /\ IsList(ready) /\ IsList(keep))'
  <2>0. \A x \in Members(resting) \cup Members(pending) \cup Members(ready) \cup Members(keep) : x.id # o.id
    BY <1>6, QueuedMembers
  <2>1. CASE resting' = Append(resting, o) /\ pending' = pending
    <3>1. IsList(resting') /\ Members(resting') = Members(resting) \cup {o} /\ Single(resting')
      BY <1>0, <2>0, <2>1, AppendList DEF Apart
    <3>2. Queued' = Queued \cup {o}
      BY <1>2, <1>7, <2>1, <3>1, QueuedMembers
    <3>3. Apart'
      BY <1>0, <1>2, <2>0, <2>1, <3>1 DEF Apart, Disjoint
    <3> QED BY <1>0, <1>2, <2>1, <3>1, <3>2, <3>3
  <2>2. CASE pending' = Append(pending, o) /\ resting' = resting
    <3>1. IsList(pending') /\ Members(pending') = Members(pending) \cup {o} /\ Single(pending')
      BY <1>0, <2>0, <2>2, AppendList DEF Apart
    <3>2. Queued' = Queued \cup {o}
      BY <1>2, <1>7, <2>2, <3>1, QueuedMembers
    <3>3. Apart'
      BY <1>0, <1>2, <2>0, <2>2, <3>1 DEF Apart, Disjoint
    <3> QED BY <1>0, <1>2, <2>2, <3>1, <3>2, <3>3
  <2> QED BY <1>2, <2>1, <2>2
<1>9. Waiting'
  <2> SUFFICES ASSUME NEW x \in Queued'
               PROVE  /\ x.id \in Nat /\ x.id < orderSeq' /\ x.placed \in Nat /\ x.placed <= tick'
                      /\ x.id \notin Settled'
    BY DEF Waiting
  <2>1. CASE x = o
    BY <1>1, <1>2, <1>4, <1>5, <1>6, <2>1
  <2>2. CASE x \in Queued
    BY <1>2, <1>4, <1>5, <2>2 DEF IInv, Waiting
  <2> QED BY <1>8, <2>1, <2>2
<1>10. Staged' /\ Numbered' /\ Lists'
  BY <1>2, <1>4, <1>5, <1>8 DEF IInv, Staged, Numbered, Lists, Idle
<1> QED BY <1>1, <1>2, <1>4, <1>6, <1>8, <1>9, <1>10 DEF IInv

\* The invariant is inductive.
LEMMA NextInv == IInv /\ [Next]_vars => IInv'
<1> SUFFICES ASSUME IInv, [Next]_vars PROVE IInv'
  OBVIOUS
<1>1. CASE Quiet \/ Terminated
  BY <1>1, QuietInv DEF Terminated, Quiet
<1>2. CASE NextTick \/ ExecuteAction \/ RefuseAction \/ PlaceOrder
  BY <1>2, NextTickInv, ActionInv, PlaceInv
<1>3. CASE BeginMarketOrders \/ BeginLimitOrders \/ BeginSignals
  BY <1>3, BeginMarketOrdersInv, BeginLimitOrdersInv, BeginSignalsInv
<1>4. CASE FillMarketOrder \/ FillLimitOrder \/ ExpireLimitOrder \/ KeepLimitOrder
  BY <1>4, ScanInv
<1>5. CASE DrainResting \/ DrainPending
  BY <1>5, DrainInv
<1> QED BY <1>1, <1>2, <1>3, <1>4, <1>5 DEF Next, Tick, RunChain, Quiet

-----------------------------------------------------------------------------
(* What the order book sees of the engine.                                    *)

\* The tick of placement by id, of some orders and of those that wait.
PlacedIn(orders) == [id \in {o.id : o \in orders} |-> (CHOOSE o \in orders : o.id = id).placed]

PlacedAt == PlacedIn(Queued)

\* Where the run is, as the book sees it.
Status ==
  CASE pc \in {"drain_resting", "drain_pending"} -> "closing"
    [] pc = "done" -> "closed"
    [] OTHER -> "running"

\* Orders that wait are told apart by their ids.
LEMMA OneOrderPerId ==
  ASSUME IInv, NEW x \in Queued, NEW y \in Queued, x.id = y.id
  PROVE  x = y
<1>1. ASSUME NEW s, Single(s), x \in Members(s), y \in Members(s) PROVE x = y
  BY <1>1 DEF Single, Members
<1> QED BY <1>1, QueuedMembers DEF IInv, Apart, Disjoint

\* The book at an order that waits is the tick it was placed on.
LEMMA PlacedInOf ==
  ASSUME NEW Q, \A x, y \in Q : x.id = y.id => x = y
  PROVE  /\ PlacedIn(Q) = [id \in DOMAIN PlacedIn(Q) |-> PlacedIn(Q)[id]]
         /\ DOMAIN PlacedIn(Q) = {o.id : o \in Q}
         /\ \A o \in Q : PlacedIn(Q)[o.id] = o.placed
<1>1. ASSUME NEW o \in Q PROVE PlacedIn(Q)[o.id] = o.placed
  <2> DEFINE c == CHOOSE x \in Q : x.id = o.id
  <2>1. c \in Q /\ c.id = o.id
    OBVIOUS
  <2>2. c = o
    BY <2>1
  <2> QED BY <2>2 DEF PlacedIn
<1> QED BY <1>1 DEF PlacedIn

\* The run starts with an empty book.
LEMMA InitRefines == Init => OB!Init
<1> SUFFICES ASSUME Init PROVE OB!Init
  OBVIOUS
<1>1. Queued = {} /\ EventsOf({"filled", "rejected", "expired"}) = {}
  BY QueuedMembers, EmptyList DEF Init, EventsOf
<1>2. PlacedAt = <<>> /\ Settled = {}
  BY <1>1 DEF PlacedAt, PlacedIn, Settled
<1> QED BY <1>2 DEF OB!Init, Init, PlacedAt, PlacedIn, Settled

\* A step after which the same orders wait, on the same tick, is none of the book's.
LEMMA StillRefines ==
  ASSUME Queued' = Queued, Settled' = Settled, tick' = tick, Status' = Status
  PROVE  UNCHANGED OB!vars
<1>1. PlacedAt' = PlacedAt
  BY DEF PlacedAt, PlacedIn
<1> QED BY <1>1 DEF OB!vars, PlacedAt, PlacedIn, Settled, Status

\* A new tick advances the clock of the book.
LEMMA NextTickRefines ==
  ASSUME IInv, NextTick
  PROVE  OB!Advance
<1>1. Queued' = Queued /\ Settled' = Settled
  BY NextTickInv
<1>2. PlacedAt' = PlacedAt
  BY <1>1 DEF PlacedAt, PlacedIn
<1>3. tick < Ticks /\ tick' = tick + 1 /\ Status = "running" /\ Status' = "running"
  BY DEF NextTick, Status
<1> QED BY <1>1, <1>2, <1>3 DEF OB!Advance, PlacedAt, PlacedIn, Settled, Status

\* After the last tick the book begins to close.
LEMMA LastTickRefines ==
  ASSUME IInv, LastTick
  PROVE  OB!Close
<1>1. Queued' = Queued /\ Settled' = Settled /\ tick' = tick
  BY QuietInv DEF Quiet
<1>2. PlacedAt' = PlacedAt
  BY <1>1 DEF PlacedAt, PlacedIn
<1>3. tick = Ticks /\ Status = "running" /\ Status' = "closing"
  BY DEF LastTick, Status
<1> QED BY <1>1, <1>2, <1>3 DEF OB!Close, PlacedAt, PlacedIn, Settled, Status

\* The end of the drain of the book is none of its steps; that of the queue closes it.
LEMMA DrainDoneRefines ==
  ASSUME IInv, DrainDone
  PROVE  OB!Close \/ UNCHANGED OB!vars
<1>1. Queued' = Queued /\ Settled' = Settled /\ tick' = tick
  BY QuietInv DEF Quiet
<1>2. PlacedAt' = PlacedAt
  BY <1>1 DEF PlacedAt, PlacedIn
<1>3. CASE pc = "drain_resting"
  <2>1. Status' = Status
    BY <1>3 DEF DrainDone, Status
  <2> QED BY <1>1, <2>1, StillRefines
<1>4. CASE pc = "drain_pending"
  <2>1. pending = <<>> /\ resting = <<>> /\ ready = <<>> /\ keep = <<>>
    BY <1>4 DEF DrainDone, IInv, Staged
  <2>2. Queued = {}
    BY <2>1, QueuedMembers, EmptyList
  <2>3. PlacedAt = <<>>
    BY <2>2 DEF PlacedAt, PlacedIn
  <2>4. Status = "closing" /\ Status' = "closed"
    BY <1>4 DEF DrainDone, Status
  <2> QED BY <1>1, <1>2, <2>3, <2>4 DEF OB!Close, PlacedAt, PlacedIn, Settled, Status
<1> QED BY <1>3, <1>4 DEF DrainDone

\* An order that leaves settles, and no other order of the book is touched.
LEMMA LeaveRefines ==
  ASSUME IInv, NEW o, Leaves(o), Nat \subseteq OrderIds,
         \/ Status = "running" /\ o.placed < tick
         \/ Status = "closing",
         Status' = Status
  PROVE  \E id \in OrderIds : OB!Settle(id)
<1>1. /\ o \in Queued /\ Queued' = Queued \ {o} /\ \A x \in Queued' : x.id # o.id
      /\ Settled' = Settled \cup {o.id} /\ tick' = tick
  BY LeaveInv DEF Leaves
<1>2. /\ DOMAIN PlacedAt = {x.id : x \in Queued} /\ \A x \in Queued : PlacedAt[x.id] = x.placed
  BY OneOrderPerId, PlacedInOf DEF PlacedAt
<1>3. /\ DOMAIN PlacedAt' = {x.id : x \in Queued'} /\ \A x \in Queued' : PlacedAt'[x.id] = x.placed
      /\ PlacedAt' = [id \in DOMAIN PlacedAt' |-> PlacedAt'[id]]
  <2>1. \A x, y \in Queued' : x.id = y.id => x = y
    BY <1>1, OneOrderPerId
  <2>2. PlacedAt' = PlacedIn(Queued')
    BY DEF PlacedAt, PlacedIn
  <2> QED BY <2>1, <2>2, PlacedInOf
<1> DEFINE left == [id \in DOMAIN PlacedAt \ {o.id} |-> PlacedAt[id]]
<1>4. DOMAIN PlacedAt' = DOMAIN PlacedAt \ {o.id}
  BY <1>1, <1>2, <1>3
<1>5. \A id \in DOMAIN PlacedAt' : PlacedAt'[id] = PlacedAt[id]
  BY <1>1, <1>2, <1>3
<1>6. PlacedAt' = left
  BY <1>3, <1>4, <1>5
<1>7. o.id \in OrderIds /\ o.id \in DOMAIN PlacedAt /\ PlacedAt[o.id] = o.placed
  BY <1>1, <1>2 DEF IInv, Waiting
<1>8. OB!Settle(o.id)
  BY <1>1, <1>6, <1>7 DEF OB!Settle, PlacedAt, PlacedIn, Settled, Status
<1> QED BY <1>7, <1>8

\* An order that is placed is new to the book.
LEMMA PlaceRefines ==
  ASSUME IInv, PlaceOrder, Nat \subseteq OrderIds
  PROVE  \E id \in OrderIds : OB!Place(id)
<1>0. IInv' /\ Settled' = Settled /\ tick' = tick /\ pc' = pc
  BY PlaceInv
<1>1. PICK o : /\ Queued' = Queued \cup {o} /\ o.id = orderSeq /\ o.placed = tick
               /\ (\A x \in Queued : x.id # o.id) /\ o.id \notin Settled
  BY PlaceInv
<1>2. /\ DOMAIN PlacedAt = {x.id : x \in Queued} /\ \A x \in Queued : PlacedAt[x.id] = x.placed
  BY OneOrderPerId, PlacedInOf DEF PlacedAt
<1>3. /\ DOMAIN PlacedAt' = {x.id : x \in Queued'} /\ \A x \in Queued' : PlacedAt'[x.id] = x.placed
      /\ PlacedAt' = [id \in DOMAIN PlacedAt' |-> PlacedAt'[id]]
  <2>1. \A x, y \in Queued' : x.id = y.id => x = y
    BY <1>1, OneOrderPerId
  <2>2. PlacedAt' = PlacedIn(Queued')
    BY DEF PlacedAt, PlacedIn
  <2> QED BY <2>1, <2>2, PlacedInOf
<1> DEFINE grown == [id \in DOMAIN PlacedAt \cup {o.id} |-> IF id = o.id THEN tick ELSE PlacedAt[id]]
<1>4. DOMAIN PlacedAt' = DOMAIN PlacedAt \cup {o.id}
  BY <1>1, <1>2, <1>3
<1>5. \A id \in DOMAIN PlacedAt' : PlacedAt'[id] = IF id = o.id THEN tick ELSE PlacedAt[id]
  BY <1>1, <1>2, <1>3
<1>6. PlacedAt' = grown
  BY <1>3, <1>4, <1>5
<1>7. o.id \in OrderIds /\ o.id \notin DOMAIN PlacedAt
  BY <1>1, <1>2 DEF IInv, Numbered
<1>8. tick > 0 /\ Status = "running" /\ Status' = Status
  BY <1>0 DEF PlaceOrder, IsNew, IInv, Staged, Idle, Status
<1>9. OB!Place(o.id)
  BY <1>0, <1>1, <1>6, <1>7, <1>8 DEF OB!Place, PlacedAt, PlacedIn, Settled, Status
<1> QED BY <1>7, <1>9

\* Every step of the engine is a step of the order book or none.
LEMMA NextRefines ==
  ASSUME Nat \subseteq OrderIds
  PROVE  IInv /\ [Next]_vars => [OB!Next]_(OB!vars)
<1> SUFFICES ASSUME IInv, [Next]_vars PROVE [OB!Next]_(OB!vars)
  OBVIOUS
<1>1. CASE NextTick
  BY <1>1, NextTickRefines DEF OB!Next
<1>2. CASE LastTick
  BY <1>2, LastTickRefines DEF OB!Next
<1>3. CASE DrainDone
  BY <1>3, DrainDoneRefines DEF OB!Next
<1>4. CASE PlaceOrder
  BY <1>4, PlaceRefines DEF OB!Next
<1>5. CASE FillMarketOrder \/ FillLimitOrder \/ ExpireLimitOrder \/ KeepLimitOrder
  <2>1. Status = "running" /\ Status' = Status
    BY <1>5, ScanCases DEF Status
  <2>2. CASE Keeps
    BY <2>1, <2>2, KeepInv, StillRefines
  <2>3. CASE Leaves(Head(ready)) /\ Head(ready).placed < tick
    BY <2>1, <2>3, LeaveRefines DEF OB!Next
  <2> QED BY <1>5, <2>2, <2>3, ScanCases
<1>6. CASE DrainResting \/ DrainPending
  <2>1. PICK o : Leaves(o) /\ pc \in {"drain_resting", "drain_pending"} /\ pc' = pc
    BY <1>6, DrainInv
  <2>2. Status = "closing" /\ Status' = Status
    BY <2>1 DEF Status
  <2> QED BY <2>1, <2>2, LeaveRefines DEF OB!Next
<1>7. CASE ExecuteAction \/ RefuseAction
  <2>1. Status' = Status /\ tick' = tick
    BY <1>7 DEF ExecuteAction, RefuseAction, input, Status
  <2> QED BY <1>7, <2>1, ActionInv, StillRefines
<1>8. CASE BeginMarketOrders \/ BeginLimitOrders \/ BeginSignals
  <2>1. Status' = Status
    BY <1>8 DEF BeginMarketOrders, BeginLimitOrders, BeginSignals, Status
  <2> QED BY <1>8, <2>1, BeginMarketOrdersInv, BeginLimitOrdersInv, BeginSignalsInv, StillRefines
<1>9. CASE \/ PhaseDone \/ ApplyFunding \/ ApplyYield \/ CheckLiquidation
           \/ FireSignal \/ PassSignal \/ StartChain \/ SkipAction
           \/ BeginSnapshot \/ Snapshot \/ Panic \/ UNCHANGED vars
  <2>1. Status' = Status
    <3>1. CASE \/ PhaseDone \/ ApplyFunding \/ ApplyYield \/ CheckLiquidation
               \/ FireSignal \/ PassSignal \/ StartChain \/ SkipAction \/ BeginSnapshot \/ Snapshot
      BY <3>1 DEF PhaseDone, ApplyFunding, ApplyYield, CheckLiquidation, FireSignal, PassSignal,
                  StartChain, SkipAction, BeginSnapshot, Snapshot, Status
    <3>2. CASE Panic
      <4>1. pc \notin {"drain_resting", "drain_pending", "done"}
        BY <3>2 DEF Panic, Faults, IInv, Staged, Idle, IsNew
      <4> QED BY <3>2, <4>1 DEF Panic, Status
    <3>3. CASE UNCHANGED vars
      BY <3>3 DEF vars, Status
    <3> QED BY <1>9, <3>1, <3>2, <3>3
  <2> QED BY <1>9, <2>1, QuietInv, StillRefines DEF Quiet
<1> QED BY <1>1, <1>2, <1>3, <1>4, <1>5, <1>6, <1>7, <1>8, <1>9 DEF Next, Tick, RunChain, Terminated

(* Whatever the strategy, the data and the orders a scan finds, places or     *)
(* drops: every order that waits settles at most once, on a later tick than   *)
(* it was placed on while the run goes on, and none is left when it is done.  *)
(* The ids are the numbers the engine counts through.                         *)
THEOREM EngineImplementsOrderBook ==
  ASSUME Nat \subseteq OrderIds
  PROVE  Spec => ImplementsOrderBook
<1>1. Spec => []IInv
  BY InitInv, NextInv, PTL DEF Spec
<1>2. OB!Init /\ [][OB!Next]_(OB!vars) => ImplementsOrderBook
  BY DEF ImplementsOrderBook, OB!Spec
<1> QED BY <1>1, <1>2, InitRefines, NextRefines, PTL DEF Spec

-----------------------------------------------------------------------------
(* Orders fill later than they were placed, and within their time in force.   *)

\* The actions of the strategy.
Nodes == DOMAIN simulation.actions

\* What runs is an action of the strategy.
Walked ==
  /\ simulation \in Simulations
  /\ stack \in Seq(Nodes) /\ roots \in Seq(Nodes)
  /\ pc = "signals" => todo \in Seq(Seq(Nodes))

\* An order of the book keeps the time in force of its action.
LimitOf(o) ==
  /\ o.node \in Nodes /\ IsLimit(simulation.actions[o.node])
  /\ o.config.expire = simulation.actions[o.node].expire

\* An order of the queue has none.
MarketOf(o) == o.node \in Nodes /\ ~IsLimit(simulation.actions[o.node])

\* The two kinds do not mix, wherever a scan has put them.
Sorted ==
  /\ \A o \in Members(resting) : LimitOf(o)
  /\ \A o \in Members(pending) : MarketOf(o)
  /\ pc = "limit_orders" => \A o \in Members(ready) \cup Members(keep) : LimitOf(o)
  /\ pc = "market_orders" => \A o \in Members(ready) \cup Members(keep) : MarketOf(o)

\* The trace has the placement of an order that waits as the order has it.
Traced ==
  \A j \in EventsOf({"placed"}) :
    /\ events[j].order \in Nat /\ events[j].order < orderSeq
    /\ \A o \in Queued : o.id = events[j].order => events[j].at = o.placed /\ events[j].node = o.node

\* The invariant that FillsWithinTimeInForce rests on, with IInv.
TInv == Walked /\ Sorted /\ Traced /\ FillsWithinTimeInForce

\* After a step that logs an event, an event is the one logged or an earlier one.
LEMMA LogEvents ==
  ASSUME \E S : events \in Seq(S), NEW e, Log(e), NEW i \in DOMAIN events'
  PROVE  events'[i] = e \/ (i \in DOMAIN events /\ events'[i] = events[i])
<1>1. PICK S : events \in Seq(S)
  OBVIOUS
<1> DEFINE T == S \cup {e}
<1>2. events \in Seq(T) /\ e \in T /\ events' = Append(events, e)
  BY <1>1, SeqGrows DEF Log
<1> QED BY <1>2

\* The first action of a list and the rest of it.
LEMMA NodeLists ==
  ASSUME NEW S, NEW s \in Seq(S), s # <<>>
  PROVE  /\ Head(s) \in S /\ Tail(s) \in Seq(S)
         /\ SE!Last(s) \in S /\ SE!Front(s) \in Seq(S)
<1>1. Len(s) \in Nat \ {0}
  OBVIOUS
<1>2. Head(s) \in S /\ Tail(s) \in Seq(S) /\ SE!Last(s) \in S
  BY <1>1 DEF SE!Last
<1>3. SubSeq(s, 1, Len(s) - 1) \in Seq(S)
  BY <1>1
<1> QED BY <1>2, <1>3 DEF SE!Front

\* A list of one action.
LEMMA OneList ==
  ASSUME NEW S, NEW x \in S
  PROVE  <<x>> \in Seq(S)
OBVIOUS

\* The strategy's chains, initial actions and targets are lists of its actions.
LEMMA StrategyTyped ==
  ASSUME simulation \in Simulations
  PROVE  /\ \A n \in Nodes : simulation.chains[n] \in Seq(Nodes)
         /\ simulation.initial \in Seq(Nodes) /\ simulation.signals \in Seq(Seq(Nodes))
         /\ \A n \in Nodes : LET c == simulation.actions[n]
                             IN  /\ c.amount.basis \in {"absolute", "all", "pct_balance", "pct_position", "pct_portfolio"}
                                 /\ IsLimit(c) => "expire" \in DOMAIN c /\ c.expire \in Nat \cup {NoExpiry}
<1>1. /\ simulation.actions \in [Nodes -> Action]
      /\ simulation.chains \in [Nodes -> Seq(Nodes)]
      /\ simulation.initial \in Seq(Nodes) /\ simulation.signals \in Seq(Seq(Nodes))
  BY StrategyAssumption DEF Nodes
<1>2. ASSUME NEW c \in Action
      PROVE  /\ c.amount.basis \in {"absolute", "all", "pct_balance", "pct_position", "pct_portfolio"}
             /\ IsLimit(c) => "expire" \in DOMAIN c /\ c.expire \in Nat \cup {NoExpiry}
  BY DEF Action, Amounts, IsLimit
<1> QED BY <1>1, <1>2

\* A fill at a tick is later than a placement, and within the time in force.
InTime(at, j) ==
  LET c == simulation.actions[events[j].node]
  IN  /\ at > events[j].at
      /\ IsLimit(c) /\ c.expire # NoExpiry => at <= events[j].at + c.expire

\* Steps that log no placement, and a fill only in time.
LEMMA TraceKept ==
  ASSUME IInv, TInv, simulation' = simulation, Queued' \subseteq Queued, orderSeq' \in Nat, orderSeq <= orderSeq',
         events' = events \/ \E e : /\ Log(e) /\ e.what # "placed"
                                    /\ e.what = "filled" =>
                                         \A j \in EventsOf({"placed"}) :
                                           events[j].order = e.order => InTime(e.at, j)
  PROVE  Traced' /\ FillsWithinTimeInForce'
<1>0. orderSeq \in Nat
  BY DEF IInv, Numbered
<1>1. CASE events' = events
  BY <1>0, <1>1 DEF TInv, Traced, FillsWithinTimeInForce, EventsOf
<1>2. CASE \E e : /\ Log(e) /\ e.what # "placed"
                  /\ e.what = "filled" =>
                       \A j \in EventsOf({"placed"}) : events[j].order = e.order => InTime(e.at, j)
  <2>1. PICK e : /\ Log(e) /\ e.what # "placed"
                 /\ e.what = "filled" =>
                      \A j \in EventsOf({"placed"}) : events[j].order = e.order => InTime(e.at, j)
    BY <1>2
  <2>2. \A i \in DOMAIN events' : events'[i] = e \/ (i \in DOMAIN events /\ events'[i] = events[i])
    BY <2>1, LogEvents DEF IInv, Lists
  <2>3. \A j \in EventsOf({"placed"})' : j \in EventsOf({"placed"}) /\ events'[j] = events[j]
    BY <2>1, <2>2 DEF EventsOf
  <2>4. \A i \in EventsOf({"filled"})' :
          \/ events'[i] = e /\ e.what = "filled"
          \/ i \in EventsOf({"filled"}) /\ events'[i] = events[i]
    BY <2>2 DEF EventsOf
  <2>5. Traced'
    BY <1>0, <2>3 DEF TInv, Traced
  <2>6. ASSUME NEW i \in EventsOf({"filled"})', NEW j \in EventsOf({"placed"})',
               events'[i].order = events'[j].order
        PROVE  InTime(events'[i].at, j)
    <3>1. CASE events'[i] = e /\ e.what = "filled"
      BY <2>1, <2>3, <2>6, <3>1
    <3>2. CASE i \in EventsOf({"filled"}) /\ events'[i] = events[i]
      BY <2>3, <2>6, <3>2 DEF TInv, FillsWithinTimeInForce, InTime
    <3> QED BY <2>4, <3>1, <3>2
  <2>7. FillsWithinTimeInForce'
    BY <2>3, <2>6 DEF FillsWithinTimeInForce, InTime
  <2> QED BY <2>5, <2>7
<1> QED BY <1>1, <1>2

\* Steps that do not touch the orders.
LEMMA QuietInTime ==
  ASSUME IInv, TInv, Quiet \/ NextTick
  PROVE  TInv'
<1> USE DEF TInv
<1>1. /\ UNCHANGED book /\ orderSeq' = orderSeq /\ events' = events /\ simulation' = simulation
      /\ pc' = pc \/ pc' \notin {"market_orders", "limit_orders", "signals"}
  BY DEF Quiet, PhaseDone, ApplyFunding, ApplyYield, CheckLiquidation, FireSignal, PassSignal, NextTick,
         StartChain, SkipAction, BeginSnapshot, Snapshot, LastTick, DrainDone, Panic, vars, book, input
<1>2. Queued' = Queued /\ orderSeq \in Nat
  BY <1>1 DEF Queued, book, IInv, Numbered
<1>3. Traced' /\ FillsWithinTimeInForce'
  BY <1>1, <1>2, TraceKept
<1>4. Sorted'
  BY <1>1 DEF Sorted, LimitOf, MarketOf, Members, Nodes, book
<1>5. Walked'
  <2> USE <1>1 DEF Walked, Nodes
  <2>1. CASE PhaseDone \/ ApplyFunding \/ ApplyYield \/ CheckLiquidation \/ NextTick
    BY <2>1 DEF PhaseDone, ApplyFunding, ApplyYield, CheckLiquidation, NextTick, chain
  <2>2. CASE FireSignal \/ PassSignal
    <3>1. todo \in Seq(Seq(Nodes)) /\ todo # <<>>
      BY <2>2 DEF FireSignal, PassSignal
    <3>2. Head(todo) \in Seq(Nodes) /\ Tail(todo) \in Seq(Seq(Nodes))
      BY <3>1, NodeLists
    <3> QED BY <2>2, <3>2 DEF FireSignal, PassSignal, chain
  <2>3. CASE StartChain
    <3>1. Head(roots) \in Nodes /\ Tail(roots) \in Seq(Nodes)
      BY <2>3, NodeLists DEF StartChain
    <3>2. <<Head(roots)>> \in Seq(Nodes)
      BY <3>1, OneList
    <3> QED BY <2>3, <3>1, <3>2 DEF StartChain
  <2>4. CASE SkipAction
    BY <2>4, NodeLists DEF SkipAction
  <2>5. CASE BeginSnapshot \/ Snapshot \/ LastTick \/ DrainDone
    BY <2>5 DEF BeginSnapshot, Snapshot, LastTick, DrainDone, chain
  <2>6. CASE Panic
    <3>1. <<>> \in Seq(Nodes)
      OBVIOUS
    <3> QED BY <2>6, <3>1 DEF Panic
  <2>7. CASE UNCHANGED vars
    BY <2>7 DEF vars, chain
  <2> QED BY <2>1, <2>2, <2>3, <2>4, <2>5, <2>6, <2>7 DEF Quiet
<1> QED BY <1>3, <1>4, <1>5

\* An action that is executed or refused places nothing and fills nothing.
LEMMA ActionInTime ==
  ASSUME IInv, TInv, ExecuteAction \/ RefuseAction
  PROVE  TInv'
<1> USE DEF TInv
<1>1. /\ UNCHANGED book /\ orderSeq' \in {orderSeq, orderSeq + 1} /\ pc' = pc /\ simulation' = simulation
      /\ stack # <<>> /\ roots' = roots /\ todo' = todo
  BY DEF ExecuteAction, RefuseAction, book, input, IsNew
<1>2. \E e : Log(e) /\ e.what \in {"executed", "refused"}
  <2>1. CASE ExecuteAction
    BY <2>1 DEF ExecuteAction, Event
  <2>2. CASE RefuseAction
    BY <2>2 DEF RefuseAction, Event
  <2> QED BY <2>1, <2>2
<1>3. Queued' = Queued /\ orderSeq \in Nat /\ orderSeq' \in Nat /\ orderSeq <= orderSeq'
  BY <1>1 DEF Queued, book, IInv, Numbered
<1>4. Traced' /\ FillsWithinTimeInForce'
  BY <1>1, <1>2, <1>3, TraceKept
<1>5. Sorted'
  BY <1>1 DEF Sorted, LimitOf, MarketOf, Members, Nodes, book
<1>6. SE!Last(stack) \in Nodes /\ SE!Front(stack) \in Seq(Nodes)
  BY <1>1, NodeLists DEF Walked
<1>7. simulation.chains[SE!Last(stack)] \in Seq(Nodes) /\ <<>> \in Seq(Nodes)
  BY <1>6, StrategyTyped DEF Walked
<1>8. stack' \in Seq(Nodes)
  <2>1. CASE ExecuteAction
    BY <1>6, <1>7, <2>1 DEF ExecuteAction, Follow
  <2>2. CASE RefuseAction
    BY <1>6, <1>7, <2>2 DEF RefuseAction, Follow
  <2> QED BY <2>1, <2>2
<1>9. Walked'
  BY <1>1, <1>8 DEF Walked, Nodes
<1> QED BY <1>4, <1>5, <1>9

\* The book and the queue are taken or put back.
LEMMA BeginInTime ==
  ASSUME IInv, TInv, BeginMarketOrders \/ BeginLimitOrders \/ BeginSignals
  PROVE  TInv'
<1> USE DEF TInv
<1>1. /\ orderSeq' = orderSeq /\ events' = events /\ simulation' = simulation /\ stack' = stack
      /\ Queued' = Queued /\ orderSeq \in Nat
  BY BeginMarketOrdersInv, BeginLimitOrdersInv, BeginSignalsInv
     DEF BeginMarketOrders, BeginLimitOrders, BeginSignals, input, chain, IInv, Numbered
<1>2. Traced' /\ FillsWithinTimeInForce'
  BY <1>1, TraceKept
<1>3. IsList(resting) /\ IsList(pending) /\ IsList(keep)
  BY DEF IInv, Lists
<1>4. Sorted'
  <2> USE <1>1 DEF Sorted, LimitOf, MarketOf, Nodes
  <2>1. CASE BeginMarketOrders
    <3>1. /\ ready' = pending /\ pending' = <<>> /\ resting' = resting /\ keep' = keep /\ keep = <<>>
          /\ pc' = "market_orders"
      BY <2>1 DEF BeginMarketOrders, IInv, Staged
    <3>2. /\ Members(ready') = Members(pending) /\ Members(pending') = {} /\ Members(keep') = {}
          /\ Members(resting') = Members(resting)
      BY <3>1, EmptyList
    <3> QED BY <3>1, <3>2
  <2>2. CASE BeginLimitOrders
    <3>1. /\ pending' = pending \o keep /\ keep' = <<>> /\ ready' = resting /\ resting' = <<>>
          /\ pc = "market_orders" /\ pc' = "limit_orders"
      BY <2>2 DEF BeginLimitOrders
    <3>2. /\ Members(pending') = Members(pending) \cup Members(keep) /\ Members(keep') = {}
          /\ Members(ready') = Members(resting) /\ Members(resting') = {}
      BY <1>3, <3>1, EmptyList, JoinedList
    <3> QED BY <3>1, <3>2
  <2>3. CASE BeginSignals
    <3>1. /\ resting' = resting \o keep /\ pending' = pending
          /\ pc = "limit_orders" /\ pc' = "signals"
      BY <2>3 DEF BeginSignals
    <3>2. Members(resting') = Members(resting) \cup Members(keep) /\ Members(pending') = Members(pending)
      BY <1>3, <3>1, JoinedList
    <3> QED BY <3>1, <3>2
  <2> QED BY <2>1, <2>2, <2>3
<1>5. Walked'
  <2>1. CASE BeginMarketOrders \/ BeginLimitOrders
    BY <1>1, <2>1 DEF BeginMarketOrders, BeginLimitOrders, chain, Walked, Nodes
  <2>2. CASE BeginSignals
    <3>1. simulation.initial \in Seq(Nodes) /\ simulation.signals \in Seq(Seq(Nodes)) /\ <<>> \in Seq(Nodes)
      BY StrategyTyped DEF Walked
    <3>2. roots' \in Seq(Nodes) /\ todo' \in Seq(Seq(Nodes))
      BY <2>2, <3>1 DEF BeginSignals
    <3> QED BY <1>1, <3>2 DEF Walked, Nodes
  <2> QED BY <2>1, <2>2
<1> QED BY <1>2, <1>4, <1>5

\* An order of the scan that goes on waiting stays one of its kind.
LEMMA KeepSorted ==
  ASSUME IInv, TInv, Keeps, simulation' = simulation
  PROVE  Sorted' /\ Traced' /\ FillsWithinTimeInForce'
<1>1. Members(ready) = Members(ready') \cup {Head(ready)}
  BY TailList DEF Keeps, IInv, Lists
<1>2. Members(keep') = Members(keep) \cup {Head(ready)}
  BY AppendList DEF Keeps, IInv, Lists
<1>3. Members(resting') = Members(resting) /\ Members(pending') = Members(pending) /\ pc' = pc
  BY DEF Keeps
<1>4. Sorted'
  BY <1>1, <1>2, <1>3 DEF TInv, Sorted, LimitOf, MarketOf, Nodes
<1>5. Queued' = Queued /\ orderSeq' = orderSeq /\ orderSeq \in Nat /\ events' = events
  BY KeepInv DEF Keeps, IInv, Numbered
<1> QED BY <1>4, <1>5, TraceKept

\* An order that leaves the scan, if it fills, fills in time.
LEMMA LeaveSorted ==
  ASSUME IInv, TInv, NEW o, Leaves(o), simulation' = simulation,
         \E e : /\ Log(e) /\ e.what \in {"filled", "rejected", "expired"} /\ e.order = o.id
                /\ e.what = "filled" =>
                     /\ e.at = tick /\ o.placed < tick
                     /\ \/ MarketOf(o)
                        \/ LimitOf(o) /\ (o.config.expire = NoExpiry \/ ~(tick > o.placed + o.config.expire))
  PROVE  Sorted' /\ Traced' /\ FillsWithinTimeInForce'
<1>0. IsList(ready) /\ IsList(resting) /\ IsList(pending)
  BY DEF IInv, Lists
<1>1. /\ Members(resting') \subseteq Members(resting) /\ Members(pending') \subseteq Members(pending)
      /\ Members(ready') \subseteq Members(ready) /\ keep' = keep /\ pc' = pc
  <2>1. /\ ready # <<>> => Members(Tail(ready)) \subseteq Members(ready)
        /\ resting # <<>> => Members(Tail(resting)) \subseteq Members(resting)
        /\ pending # <<>> => Members(Tail(pending)) \subseteq Members(pending)
    BY <1>0, TailList
  <2>2. /\ ready' = ready \/ (ready # <<>> /\ ready' = Tail(ready))
        /\ resting' = resting \/ (resting # <<>> /\ resting' = Tail(resting))
        /\ pending' = pending \/ (pending # <<>> /\ pending' = Tail(pending))
        /\ keep' = keep /\ pc' = pc
    BY DEF Leaves
  <2>3. Members(ready') \subseteq Members(ready)
    BY <2>1, <2>2
  <2>4. Members(resting') \subseteq Members(resting)
    BY <2>1, <2>2
  <2>5. Members(pending') \subseteq Members(pending)
    BY <2>1, <2>2
  <2> QED BY <2>2, <2>3, <2>4, <2>5
<1>2. Sorted'
  BY <1>1 DEF TInv, Sorted, LimitOf, MarketOf, Nodes
<1>3. o \in Queued /\ Queued' \subseteq Queued /\ orderSeq' = orderSeq /\ orderSeq \in Nat
  BY LeaveInv DEF Leaves, IInv, Numbered
<1>4. PICK e : /\ Log(e) /\ e.what \in {"filled", "rejected", "expired"} /\ e.order = o.id
               /\ e.what = "filled" =>
                    /\ e.at = tick /\ o.placed < tick
                    /\ \/ MarketOf(o)
                       \/ LimitOf(o) /\ (o.config.expire = NoExpiry \/ ~(tick > o.placed + o.config.expire))
  OBVIOUS
<1>5. ASSUME NEW j \in EventsOf({"placed"}), events[j].order = e.order, e.what = "filled" PROVE InTime(e.at, j)
  <2>1. events[j].at = o.placed /\ events[j].node = o.node
    BY <1>3, <1>4, <1>5 DEF TInv, Traced
  <2>2. tick \in Nat /\ o.placed \in Nat
    BY <1>3, EngineAssumption DEF IInv, Numbered, Waiting
  <2>3. CASE MarketOf(o)
    BY <1>4, <1>5, <2>1, <2>3 DEF InTime, MarketOf
  <2>4. CASE LimitOf(o) /\ (o.config.expire = NoExpiry \/ ~(tick > o.placed + o.config.expire))
    <3>1. o.config.expire \in Nat \cup {NoExpiry}
      BY <2>4, StrategyTyped DEF LimitOf, TInv, Walked
    <3> QED BY <1>4, <1>5, <2>1, <2>2, <2>4, <3>1 DEF InTime, LimitOf
  <2> QED BY <1>4, <1>5, <2>3, <2>4
<1>6. Traced' /\ FillsWithinTimeInForce'
  BY <1>3, <1>4, <1>5, TraceKept
<1> QED BY <1>2, <1>6

\* The scans of the queue and of the book.
LEMMA ScanInTime ==
  ASSUME IInv, TInv, FillMarketOrder \/ FillLimitOrder \/ ExpireLimitOrder \/ KeepLimitOrder
  PROVE  TInv'
<1> DEFINE o == Head(ready)
<1>0. /\ simulation' = simulation /\ stack' = stack /\ pc' = pc /\ pc # "signals" /\ ready # <<>>
      /\ Keeps \/ (Leaves(o) /\ o.placed < tick)
  BY ScanCases DEF FillMarketOrder, FillLimitOrder, ExpireLimitOrder, KeepLimitOrder, input, chain
<1>1. o \in Members(ready)
  BY <1>0, TailList DEF IInv, Lists
<1>2. simulation.chains[o.node] \in Seq(Nodes) /\ <<>> \in Seq(Nodes)
  BY <1>1, ScanCases, StrategyTyped DEF TInv, Walked, Sorted, LimitOf, MarketOf
<1>3. roots' \in Seq(Nodes)
  <2>1. CASE FillMarketOrder
    BY <1>2, <2>1 DEF FillMarketOrder, Leave, TInv, Walked
  <2>2. CASE FillLimitOrder
    BY <1>2, <2>2 DEF FillLimitOrder, Leave
  <2>3. CASE ExpireLimitOrder \/ KeepLimitOrder
    BY <2>3 DEF ExpireLimitOrder, KeepLimitOrder, chain, TInv, Walked
  <2> QED BY <2>1, <2>2, <2>3
<1>4. Walked'
  BY <1>0, <1>3 DEF TInv, Walked, Nodes
<1>5. CASE Keeps
  BY <1>0, <1>4, <1>5, KeepSorted DEF TInv
<1>6. CASE Leaves(o) /\ o.placed < tick /\ ~Keeps
  <2>1. \E e : /\ Log(e) /\ e.what \in {"filled", "rejected", "expired"} /\ e.order = o.id
               /\ e.what = "filled" =>
                    /\ e.at = tick /\ o.placed < tick
                    /\ \/ MarketOf(o)
                       \/ LimitOf(o) /\ (o.config.expire = NoExpiry \/ ~(tick > o.placed + o.config.expire))
    <3>1. CASE FillMarketOrder
      <4>1. MarketOf(o)
        BY <1>1, <3>1 DEF FillMarketOrder, TInv, Sorted
      <4>2. Leave(o, MarketOutcome(o), 0)
        BY <1>6, <3>1 DEF FillMarketOrder, Keeps, input
      <4> DEFINE out == MarketOutcome(o)
                 e == Event(IF out.why = "executed" THEN "filled" ELSE "rejected", o.node, o.id, out.why, 0)
      <4>3. Log(e)
        BY <4>2 DEF Leave
      <4>4. e.what \in {"filled", "rejected"} /\ e.order = o.id /\ e.at = tick
        BY DEF Event
      <4> QED BY <1>6, <4>1, <4>3, <4>4
    <3>2. CASE FillLimitOrder
      <4>1. LimitOf(o)
        BY <1>1, <3>2 DEF FillLimitOrder, TInv, Sorted
      <4>2. Leave(o, LimitOutcome(o), FillPrice(o)) /\ ~TimeInForceOver(o)
        BY <3>2 DEF FillLimitOrder
      <4> DEFINE out == LimitOutcome(o)
                 e == Event(IF out.why = "executed" THEN "filled" ELSE "rejected", o.node, o.id, out.why,
                            IF out.why = "executed" THEN FillPrice(o) ELSE 0)
      <4>3. Log(e)
        BY <4>2 DEF Leave
      <4>4. e.what \in {"filled", "rejected"} /\ e.order = o.id /\ e.at = tick
        BY DEF Event
      <4>5. o.config.expire = NoExpiry \/ ~(tick > o.placed + o.config.expire)
        BY <4>2 DEF TimeInForceOver
      <4> HIDE DEF e
      <4> QED BY <1>6, <4>1, <4>3, <4>4, <4>5
    <3>3. CASE ExpireLimitOrder
      BY <3>3 DEF ExpireLimitOrder, Lapse, Event
    <3>4. CASE KeepLimitOrder
      BY <1>6, <3>4 DEF KeepLimitOrder, Keeps, input
    <3> QED BY <3>1, <3>2, <3>3, <3>4
  <2>2. Sorted' /\ Traced' /\ FillsWithinTimeInForce'
    BY <1>0, <1>6, <2>1, LeaveSorted
  <2> QED BY <1>4, <2>2 DEF TInv
<1> QED BY <1>0, <1>5, <1>6

\* The drain of the book and of the queue fills nothing.
LEMMA DrainInTime ==
  ASSUME IInv, TInv, DrainResting \/ DrainPending
  PROVE  TInv'
<1>1. CASE DrainResting
  <2>1. \E e : Log(e) /\ e.what = "expired" /\ e.order = Head(resting).id
    BY <1>1 DEF DrainResting, Lapse, Event
  <2>2. Leaves(Head(resting)) /\ simulation' = simulation
    BY <1>1, <2>1 DEF DrainResting, Leaves, input
  <2>3. Sorted' /\ Traced' /\ FillsWithinTimeInForce'
    BY <2>1, <2>2, LeaveSorted
  <2>4. Walked'
    BY <1>1, <2>2 DEF DrainResting, chain, TInv, Walked, Nodes
  <2> QED BY <2>3, <2>4 DEF TInv
<1>2. CASE DrainPending
  <2>1. \E e : Log(e) /\ e.what = "expired" /\ e.order = Head(pending).id
    BY <1>2 DEF DrainPending, Lapse, Event
  <2>2. Leaves(Head(pending)) /\ simulation' = simulation
    BY <1>2, <2>1 DEF DrainPending, Leaves, input
  <2>3. Sorted' /\ Traced' /\ FillsWithinTimeInForce'
    BY <2>1, <2>2, LeaveSorted
  <2>4. Walked'
    BY <1>2, <2>2 DEF DrainPending, chain, TInv, Walked, Nodes
  <2> QED BY <2>3, <2>4 DEF TInv
<1> QED BY <1>1, <1>2

\* Sizing changes the amount of an action and nothing else of it.
LEMMA SizedKeepsExpiry ==
  ASSUME NEW c, "expire" \in DOMAIN c,
         c.amount.basis \in {"absolute", "all", "pct_balance", "pct_position", "pct_portfolio"}
  PROVE  Sized(ledger, c).expire = c.expire
BY DEF Sized

\* A new order is of the kind its list holds, and the trace has its placement.
LEMMA PlaceInTime ==
  ASSUME IInv, TInv, PlaceOrder
  PROVE  TInv'
<1> USE DEF TInv
<1> DEFINE o == NewOrder
           n == SE!Last(stack)
<1>0. IsList(resting) /\ IsList(pending) /\ orderSeq \in Nat /\ tick \in Nat
  BY EngineAssumption DEF IInv, Lists, Numbered
<1>1. /\ simulation' = simulation /\ pc' = pc /\ tick' = tick /\ orderSeq' = orderSeq + 1 /\ roots' = roots
      /\ todo' = todo /\ ready' = ready /\ keep' = keep /\ stack # <<>> /\ stack' = SE!Front(stack) \o <<>>
  BY DEF PlaceOrder, input, IsNew, Follow
<1>2. n \in Nodes /\ SE!Front(stack) \in Seq(Nodes) /\ stack' \in Seq(Nodes)
  BY <1>1, NodeLists DEF Walked
<1>3. Walked'
  BY <1>1, <1>2 DEF Walked, Nodes
<1>4. o.id = orderSeq /\ o.placed = tick /\ o.node = n /\ o.config = Sized(ledger, simulation.actions[n])
  BY DEF NewOrder, Current
<1>5. \/ /\ IsLimit(simulation.actions[n]) /\ resting' = Append(resting, o) /\ pending' = pending
      \/ /\ ~IsLimit(simulation.actions[n]) /\ pending' = Append(pending, o) /\ resting' = resting
  BY DEF PlaceOrder, Current
<1>6. \E e : Log(e) /\ e.what = "placed" /\ e.order = orderSeq /\ e.at = tick /\ e.node = n
  BY DEF PlaceOrder, Event
<1> HIDE DEF o, n
<1>7. Sorted'
  <2>1. CASE IsLimit(simulation.actions[n]) /\ resting' = Append(resting, o) /\ pending' = pending
    <3>1. Members(resting') = Members(resting) \cup {o}
      BY <1>0, <2>1, AppendList
    <3>2. LimitOf(o)
      BY <1>2, <1>4, <2>1, StrategyTyped, SizedKeepsExpiry DEF LimitOf, Walked
    <3> QED BY <1>1, <2>1, <3>1, <3>2 DEF Sorted, LimitOf, MarketOf, Nodes, Members
  <2>2. CASE ~IsLimit(simulation.actions[n]) /\ pending' = Append(pending, o) /\ resting' = resting
    <3>1. Members(pending') = Members(pending) \cup {o}
      BY <1>0, <2>2, AppendList
    <3>2. MarketOf(o)
      BY <1>2, <1>4, <2>2 DEF MarketOf
    <3> QED BY <1>1, <2>2, <3>1, <3>2 DEF Sorted, LimitOf, MarketOf, Nodes, Members
  <2> QED BY <1>5, <2>1, <2>2
<1>8. Queued' = Queued \cup {o}
  <2>1. Queued' = Members(resting') \cup Members(pending') \cup Members(ready') \cup Members(keep')
    BY QueuedMembers DEF Queued, Members
  <2>2. CASE resting' = Append(resting, o) /\ pending' = pending
    BY <1>0, <1>1, <2>1, <2>2, AppendList, QueuedMembers
  <2>3. CASE pending' = Append(pending, o) /\ resting' = resting
    BY <1>0, <1>1, <2>1, <2>3, AppendList, QueuedMembers
  <2> QED BY <1>5, <2>2, <2>3
<1>9. PICK e : Log(e) /\ e.what = "placed" /\ e.order = orderSeq /\ e.at = tick /\ e.node = n
  BY <1>6
<1>10. \A i \in DOMAIN events' : events'[i] = e \/ (i \in DOMAIN events /\ events'[i] = events[i])
  BY <1>9, LogEvents DEF IInv, Lists
<1>11. ASSUME NEW j \in EventsOf({"placed"})'
       PROVE  events'[j] = e \/ (j \in EventsOf({"placed"}) /\ events'[j] = events[j])
  BY <1>10 DEF EventsOf
<1>12. ASSUME NEW x \in Queued PROVE x.id \in Nat /\ x.id < orderSeq
  BY DEF IInv, Waiting
<1>13. Traced'
  <2> SUFFICES ASSUME NEW j \in EventsOf({"placed"})'
               PROVE  /\ events'[j].order \in Nat /\ events'[j].order < orderSeq'
                      /\ \A x \in Queued' : x.id = events'[j].order =>
                           events'[j].at = x.placed /\ events'[j].node = x.node
    BY DEF Traced
  <2>1. CASE events'[j] = e
    <3>1. ASSUME NEW x \in Queued', x.id = orderSeq PROVE x = o
      BY <1>0, <1>8, <1>12, <3>1
    <3> QED BY <1>0, <1>1, <1>4, <1>9, <2>1, <3>1
  <2>2. CASE j \in EventsOf({"placed"}) /\ events'[j] = events[j]
    <3>1. events[j].order \in Nat /\ events[j].order < orderSeq
      BY <2>2 DEF Traced
    <3>2. ASSUME NEW x \in Queued', x.id = events[j].order PROVE x \in Queued
      BY <1>0, <1>4, <1>8, <3>1, <3>2
    <3> QED BY <1>0, <1>1, <2>2, <3>1, <3>2 DEF Traced
  <2> QED BY <1>11, <2>1, <2>2
<1>14. FillsWithinTimeInForce'
  <2> SUFFICES ASSUME NEW i \in EventsOf({"filled"})', NEW j \in EventsOf({"placed"})',
                      events'[i].order = events'[j].order
               PROVE  LET c == simulation'.actions[events'[j].node]
                      IN  /\ events'[i].at > events'[j].at
                          /\ IsLimit(c) /\ c.expire # NoExpiry => events'[i].at <= events'[j].at + c.expire
    BY DEF FillsWithinTimeInForce
  <2>1. i \in EventsOf({"filled"}) /\ events'[i] = events[i]
    BY <1>9, <1>10 DEF EventsOf
  <2>2. events[i].order \in Settled
    BY <2>1 DEF Settled, EventsOf
  <2>3. events[i].order \in Nat /\ events[i].order < orderSeq
    BY <2>2 DEF IInv, Numbered
  <2>4. j \in EventsOf({"placed"}) /\ events'[j] = events[j]
    BY <1>0, <1>9, <1>11, <2>1, <2>3
  <2> QED BY <1>1, <2>1, <2>4 DEF FillsWithinTimeInForce
<1> QED BY <1>3, <1>7, <1>13, <1>14

\* The run starts with nothing traced.
LEMMA InitInTime == Init => TInv
<1> SUFFICES ASSUME Init PROVE TInv
  OBVIOUS
<1>1. <<>> \in Seq(Nodes) /\ \A what : EventsOf(what) = {}
  BY DEF Init, EventsOf
<1> QED BY <1>1, EmptyList DEF Init, TInv, Walked, Sorted, Traced, FillsWithinTimeInForce

\* The trace stays in time.
LEMMA NextInTime == IInv /\ TInv /\ [Next]_vars => TInv'
<1> SUFFICES ASSUME IInv, TInv, [Next]_vars PROVE TInv'
  OBVIOUS
<1>1. CASE Quiet \/ Terminated \/ NextTick
  BY <1>1, QuietInTime DEF Terminated, Quiet
<1>2. CASE ExecuteAction \/ RefuseAction \/ PlaceOrder
  BY <1>2, ActionInTime, PlaceInTime
<1>3. CASE BeginMarketOrders \/ BeginLimitOrders \/ BeginSignals
  BY <1>3, BeginInTime
<1>4. CASE FillMarketOrder \/ FillLimitOrder \/ ExpireLimitOrder \/ KeepLimitOrder
  BY <1>4, ScanInTime
<1>5. CASE DrainResting \/ DrainPending
  BY <1>5, DrainInTime
<1> QED BY <1>1, <1>2, <1>3, <1>4, <1>5 DEF Next, Tick, RunChain, Quiet

(* No order fills on the tick it was placed on or before, whatever chain       *)
(* placed it in whatever phase, and no limit order fills past its time in      *)
(* force.                                                                      *)
THEOREM NoLookAhead == Spec => []FillsWithinTimeInForce
<1>1. Spec => []IInv
  BY InitInv, NextInv, PTL DEF Spec
<1>2. TInv => FillsWithinTimeInForce
  BY DEF TInv
<1> QED BY <1>1, <1>2, InitInTime, NextInTime, PTL DEF Spec

-----------------------------------------------------------------------------
(* Chains: what runs was put there by an execution, a fill, a signal or the   *)
(* start, and every chain that is started was paid for by one of these.       *)

\* The places of some of the lists of f.
Spots(f, some) == UNION {{s} \X DOMAIN f[s] : s \in some}

LEMMA OneSpot ==
  ASSUME NEW x, NEW T, NEW list \in Seq(T)
  PROVE  IsFiniteSet({x} \X DOMAIN list) /\ Cardinality({x} \X DOMAIN list) = Len(list)
<1> DEFINE n == Len(list)
<1>1. DOMAIN list = 1..n /\ n \in Nat
  OBVIOUS
<1> HIDE DEF n
<1>2. IsFiniteSet(1..n) /\ Cardinality(1..n) = n
  BY <1>1, FS_Interval
<1>3. IsFiniteSet({x}) /\ Cardinality({x}) = 1
  BY FS_Singleton
<1>4. IsFiniteSet({x} \X (1..n)) /\ Cardinality({x} \X (1..n)) = 1 * n
  BY <1>2, <1>3, FS_Product
<1>5. 1 * n = n
  BY <1>1
<1>6. IsFiniteSet({x} \X (1..n)) /\ Cardinality({x} \X (1..n)) = n
  BY <1>4, <1>5
<1> QED BY <1>1, <1>6 DEF n

LEMMA SpotsFinite ==
  ASSUME NEW T, NEW some, IsFiniteSet(some), NEW f, \A s \in some : f[s] \in Seq(T)
  PROVE  IsFiniteSet(Spots(f, some)) /\ Cardinality(Spots(f, some)) \in Nat
<1> DEFINE one == [s \in some |-> {s} \X DOMAIN f[s]]
           all == {{s} \X DOMAIN f[s] : s \in some}
<1>1. one \in Surjection(some, all)
  BY DEF Surjection
<1>2. IsFiniteSet(all)
  <2> HIDE DEF one, all
  <2> QED BY <1>1, FS_Surjection
<1>3. \A u \in all : IsFiniteSet(u)
  <2> SUFFICES ASSUME NEW s \in some PROVE IsFiniteSet({s} \X DOMAIN f[s])
    OBVIOUS
  <2> QED BY OneSpot
<1>4. IsFiniteSet(UNION all)
  <2> HIDE DEF all
  <2> QED BY <1>2, <1>3, FS_UNION
<1> QED BY <1>4, FS_CardinalityType DEF Spots

\* The places of a list more.
LEMMA SpotsOfOneMore ==
  ASSUME NEW T, NEW some, IsFiniteSet(some), NEW f, \A s \in some : f[s] \in Seq(T),
         NEW x, x \notin some, f[x] \in Seq(T)
  PROVE  Cardinality(Spots(f, some \cup {x})) = Cardinality(Spots(f, some)) + Len(f[x])
<1> DEFINE A == Spots(f, some)
           list == f[x]
           B == {x} \X DOMAIN list
<1>1. Spots(f, some \cup {x}) = A \cup B
  BY DEF Spots
<1>2. A \cap B = {}
  BY DEF Spots
<1>3. IsFiniteSet(A) /\ Cardinality(A) \in Nat
  BY SpotsFinite
<1>4. IsFiniteSet(B) /\ Cardinality(B) = Len(list) /\ Len(list) \in Nat
  <2>1. list \in Seq(T)
    OBVIOUS
  <2> HIDE DEF list
  <2>2. Len(list) \in Nat
    BY <2>1
  <2> QED BY <2>1, <2>2, OneSpot
<1> HIDE DEF A, B, list
<1>5. Cardinality(A \cup B) = Cardinality(A) + Cardinality(B) - Cardinality({})
  BY <1>2, <1>3, <1>4, FS_Union
<1>6. Cardinality({}) = 0
  BY FS_EmptySet
<1>7. Cardinality(A \cup B) = Cardinality(A) + Len(list)
  BY <1>3, <1>4, <1>5, <1>6
<1> QED BY <1>1, <1>7 DEF A, list

Starters == Members(simulation.initial) \cup UNION {Members(s) : s \in Members(simulation.signals)}

\* An action that is to run on this tick has a reason to.
Sourced(x) ==
  \/ x \in Starters
  \/ \E j \in EventsOf({"executed", "filled"}) :
       events[j].at = tick /\ x \in Members(simulation.chains[events[j].node])

Driven ==
  /\ \A i \in DOMAIN events : events[i].at \in Nat /\ events[i].at <= tick
  /\ \A i \in EventsOf({"filled"}) : events[i].node \in Nodes
  /\ \A x \in Members(roots) \cup Members(stack) : Sourced(x)
  /\ \A i \in Tried :
       \/ events[i].node \in Starters
       \/ \E j \in EventsOf({"executed", "filled"}) :
            /\ j < i /\ events[j].at = events[i].at
            /\ events[i].node \in Members(simulation.chains[events[j].node])

\* The signals of a tick are taken in order.
ToFire ==
  pc = "signals" =>
    /\ Len(todo) <= Len(simulation.signals)
    /\ \A i \in DOMAIN todo : todo[i] = simulation.signals[Len(simulation.signals) - Len(todo) + i]

BeforeSignals == pc \in {"funding", "yields", "liquidations", "valuation", "market_orders", "limit_orders"}

\* The signals that may yet fire on this tick.
Unfired ==
  {i \in DOMAIN simulation.signals :
     BeforeSignals \/ (pc = "signals" /\ Len(simulation.signals) - Len(todo) < i)}

\* What may yet run an action on this tick.
Ahead ==
  Len(roots) + (IF tick = 1 /\ BeforeSignals THEN Len(simulation.initial) ELSE 0)
    + Cardinality(Spots(simulation.signals, Unfired))

MayRun(n) == IF stack # <<>> /\ n \notin visited THEN 1 ELSE 0

TriedNow(n) == {i \in Tried : events[i].at = tick /\ events[i].node = n}

InBudget == \A n \in Nodes : Cardinality(TriedNow(n)) + MayRun(n) + Ahead <= Started

CInv == Driven /\ ToFire /\ InBudget

\* The actions a fill has started, and the fills of the tick.
FillLists == [i \in DOMAIN events |-> simulation.chains[events[i].node]]

TickFills == {j \in EventsOf({"filled"}) : events[j].at = tick}

ByInitial == IF tick = 1 THEN Len(simulation.initial) ELSE 0

BySignals == Cardinality(Spots(simulation.signals, DOMAIN simulation.signals))

ByFills == Cardinality(Spots(FillLists, TickFills))

\* What pays for the chains of a tick, part by part.
LEMMA StartedInParts == Started = ByInitial + BySignals + ByFills
<1>1. TickFills \subseteq DOMAIN events
  BY DEF TickFills, EventsOf
<1>2. Spots(FillLists, TickFills) =
        UNION {{i} \X DOMAIN simulation.chains[events[i].node] :
                 i \in {j \in EventsOf({"filled"}) : events[j].at = tick}}
  BY <1>1 DEF Spots, FillLists, TickFills
<1> QED BY <1>2 DEF Started, ByInitial, BySignals, ByFills, Spots

\* The trace is finite.
LEMMA TraceFinite ==
  ASSUME IInv
  PROVE  /\ IsFiniteSet(DOMAIN events)
         /\ \A part \in SUBSET DOMAIN events : IsFiniteSet(part) /\ Cardinality(part) \in Nat
<1>1. PICK S : events \in Seq(S)
  BY DEF IInv, Lists
<1>2. DOMAIN events = 1..Len(events) /\ Len(events) \in Nat
  BY <1>1
<1>3. IsFiniteSet(DOMAIN events)
  BY <1>2, FS_Interval
<1> QED BY <1>3, FS_Subset, FS_CardinalityType

\* What is counted is a number.
Tallied ==
  /\ Ahead \in Nat /\ Started \in Nat
  /\ ByInitial \in Nat /\ BySignals \in Nat /\ ByFills \in Nat
  /\ \A n : Cardinality(TriedNow(n)) \in Nat /\ IsFiniteSet(TriedNow(n)) /\ MayRun(n) \in {0, 1}

\* The signals that may yet fire are some of finitely many.
LEMMA SignalsFinite ==
  ASSUME TInv
  PROVE  /\ Len(simulation.initial) \in Nat
         /\ Len(simulation.signals) \in Nat /\ DOMAIN simulation.signals = 1..Len(simulation.signals)
         /\ \A i \in DOMAIN simulation.signals : simulation.signals[i] \in Seq(Nodes)
         /\ IsFiniteSet(DOMAIN simulation.signals)
         /\ Cardinality(Spots(simulation.signals, DOMAIN simulation.signals)) \in Nat
         /\ IsFiniteSet(Unfired) /\ Unfired \subseteq DOMAIN simulation.signals
         /\ Cardinality(Spots(simulation.signals, Unfired)) \in Nat
<1> DEFINE sigs == simulation.signals
<1>1. simulation.initial \in Seq(Nodes) /\ sigs \in Seq(Seq(Nodes))
  BY StrategyTyped DEF TInv, Walked
<1>2. DOMAIN sigs = 1..Len(sigs) /\ Len(sigs) \in Nat /\ \A i \in DOMAIN sigs : sigs[i] \in Seq(Nodes)
  BY <1>1
<1>3. IsFiniteSet(DOMAIN sigs)
  BY <1>2, FS_Interval
<1>4. Unfired \subseteq DOMAIN sigs
  BY DEF Unfired
<1>5. IsFiniteSet(Unfired)
  BY <1>3, <1>4, FS_Subset
<1>6. /\ Cardinality(Spots(sigs, DOMAIN sigs)) \in Nat
      /\ Cardinality(Spots(sigs, Unfired)) \in Nat
  <2> HIDE DEF sigs
  <2> QED BY <1>2, <1>3, <1>4, <1>5, SpotsFinite
<1>7. Len(simulation.initial) \in Nat
  BY <1>1
<1> QED BY <1>2, <1>3, <1>4, <1>5, <1>6, <1>7

LEMMA Tallies == IInv /\ TInv /\ Driven => Tallied
<1> SUFFICES ASSUME IInv, TInv, Driven PROVE Tallied
  OBVIOUS
<1>1. /\ Len(simulation.initial) \in Nat
      /\ Cardinality(Spots(simulation.signals, DOMAIN simulation.signals)) \in Nat
      /\ Cardinality(Spots(simulation.signals, Unfired)) \in Nat
  BY SignalsFinite
<1>2. Len(roots) \in Nat /\ ByInitial \in Nat
  BY <1>1 DEF ByInitial, TInv, Walked
<1>3. Ahead \in Nat
  BY <1>1, <1>2 DEF Ahead
<1>4. TickFills \subseteq DOMAIN events /\ TickFills \subseteq EventsOf({"filled"})
  BY DEF TickFills, EventsOf
<1>5. IsFiniteSet(TickFills)
  BY <1>4, TraceFinite
<1>6. \A i \in TickFills : FillLists[i] \in Seq(Nodes)
  BY <1>4, StrategyTyped DEF FillLists, Driven, TInv, Walked
<1>7. Cardinality(Spots(FillLists, TickFills)) \in Nat
  BY <1>5, <1>6, SpotsFinite
<1>8. Started \in Nat
  BY <1>1, <1>2, <1>7, StartedInParts DEF BySignals, ByFills
<1>9. ASSUME NEW n PROVE Cardinality(TriedNow(n)) \in Nat /\ IsFiniteSet(TriedNow(n)) /\ MayRun(n) \in {0, 1}
  <2>1. TriedNow(n) \subseteq DOMAIN events
    BY DEF TriedNow, Tried, EventsOf
  <2> QED BY <2>1, TraceFinite DEF MayRun
<1> QED BY <1>1, <1>2, <1>3, <1>7, <1>8, <1>9 DEF Tallied, BySignals, ByFills

\* Steps that log nothing, on the same tick: what is put on the way to run has a
\* reason to, and takes the place of what was ahead.
LEMMA SilentDriven ==
  ASSUME IInv, TInv, CInv, IInv', TInv',
         simulation' = simulation, tick' = tick, events' = events,
         \A x \in (Members(roots) \cup Members(stack))' : x \in Members(roots) \cup Members(stack) \/ x \in Starters,
         ToFire',
         \A n \in Nodes : MayRun(n)' + Ahead' <= MayRun(n) + Ahead
  PROVE  CInv'
<1>1. EventsOf({"filled"})' = EventsOf({"filled"}) /\ EventsOf({"executed", "filled"})' = EventsOf({"executed", "filled"})
      /\ Tried' = Tried /\ Starters' = Starters /\ Nodes' = Nodes
  BY DEF EventsOf, Tried, Starters, Nodes
<1>2. \A x : Sourced(x)' = Sourced(x)
  BY <1>1 DEF Sourced
<1>3. Driven'
  BY <1>1, <1>2 DEF CInv, Driven, Sourced
<1>4. Started' = Started /\ \A n : TriedNow(n)' = TriedNow(n)
  BY <1>1 DEF Started, TriedNow
<1>5. Tallied
  BY Tallies DEF CInv
<1>6. Tallied'
  <2>1. (IInv /\ TInv /\ Driven => Tallied)'
    BY Tallies, PTL
  <2> QED BY <2>1, <1>3
<1>7. ASSUME NEW n \in Nodes PROVE Cardinality(TriedNow(n)') + MayRun(n)' + Ahead' <= Started'
  <2>1. Cardinality(TriedNow(n)) + MayRun(n) + Ahead <= Started
    BY DEF CInv, InBudget
  <2>2. MayRun(n)' + Ahead' <= MayRun(n) + Ahead
    OBVIOUS
  <2>3. /\ Ahead \in Nat /\ Ahead' \in Nat /\ Started \in Nat /\ Cardinality(TriedNow(n)) \in Nat
        /\ MayRun(n) \in Nat /\ MayRun(n)' \in Nat
    BY <1>5, <1>6 DEF Tallied
  <2> QED BY <1>4, <2>1, <2>2, <2>3
<1>8. InBudget'
  BY <1>1, <1>7 DEF InBudget
<1> QED BY <1>3, <1>8 DEF CInv

\* The parts of a list of actions.
LEMMA ListParts ==
  ASSUME NEW S, NEW s \in Seq(S), s # <<>>
  PROVE  /\ Members(Tail(s)) \cup {Head(s)} \subseteq Members(s) /\ Len(Tail(s)) = Len(s) - 1
         /\ Members(SE!Front(s)) \cup {SE!Last(s)} \subseteq Members(s)
<1> DEFINE n == Len(s)
<1>1. n \in Nat \ {0} /\ DOMAIN s = 1..n
  OBVIOUS
<1>2. /\ Len(Tail(s)) = n - 1 /\ DOMAIN Tail(s) = 1..(n - 1)
      /\ \A i \in 1..(n - 1) : Tail(s)[i] = s[i + 1]
  BY <1>1
<1>3. Members(Tail(s)) \subseteq Members(s)
  <2> SUFFICES ASSUME NEW i \in 1..(n - 1) PROVE Tail(s)[i] \in Members(s)
    BY <1>2 DEF Members
  <2> QED BY <1>1, <1>2 DEF Members
<1>4. Head(s) = s[1] /\ SE!Last(s) = s[n]
  BY DEF SE!Last
<1>5. /\ DOMAIN SE!Front(s) = 1..(n - 1)
      /\ \A i \in 1..(n - 1) : SE!Front(s)[i] = s[i]
  BY <1>1 DEF SE!Front
<1>6. Members(SE!Front(s)) \subseteq Members(s)
  <2> SUFFICES ASSUME NEW i \in 1..(n - 1) PROVE SE!Front(s)[i] \in Members(s)
    BY <1>5 DEF Members
  <2> QED BY <1>1, <1>5 DEF Members
<1>7. s[1] \in Members(s) /\ s[n] \in Members(s)
  BY <1>1 DEF Members
<1> QED BY <1>2, <1>3, <1>4, <1>6, <1>7

\* Steps that touch neither the chains nor the signals still to fire.
LEMMA IdleDriven ==
  ASSUME IInv, TInv, CInv, IInv', TInv',
         simulation' = simulation, tick' = tick, events' = events,
         roots' = roots, stack' = stack, visited' = visited,
         ToFire', Unfired' = Unfired, BeforeSignals' = BeforeSignals
  PROVE  CInv'
<1>1. Ahead' = Ahead
  BY DEF Ahead
<1>2. \A n : MayRun(n)' = MayRun(n)
  BY DEF MayRun
<1>3. \A n \in Nodes : MayRun(n)' + Ahead' <= MayRun(n) + Ahead
  <2>1. Ahead \in Nat /\ \A n : MayRun(n) \in Nat
    BY Tallies DEF CInv, Tallied
  <2> QED BY <1>1, <1>2, <2>1
<1>4. \A x \in (Members(roots) \cup Members(stack))' : x \in Members(roots) \cup Members(stack) \/ x \in Starters
  BY DEF Members
<1> QED BY <1>3, <1>4, SilentDriven

\* The phases and the scans, but for what they start.
LEMMA PhaseDriven ==
  ASSUME IInv, TInv, CInv, IInv', TInv',
         \/ PhaseDone \/ ApplyFunding \/ ApplyYield \/ CheckLiquidation
         \/ BeginMarketOrders \/ BeginLimitOrders \/ KeepLimitOrder
         \/ BeginSnapshot \/ Snapshot \/ LastTick \/ DrainDone \/ UNCHANGED vars
  PROVE  CInv'
<1>1. CASE \/ PhaseDone \/ ApplyFunding \/ ApplyYield \/ CheckLiquidation
           \/ BeginMarketOrders \/ BeginLimitOrders \/ KeepLimitOrder
  <2>1. /\ simulation' = simulation /\ tick' = tick /\ events' = events
        /\ roots' = roots /\ stack' = stack /\ visited' = visited
    BY <1>1 DEF PhaseDone, ApplyFunding, ApplyYield, CheckLiquidation, BeginMarketOrders, BeginLimitOrders,
                KeepLimitOrder, input, chain
  <2>2. BeforeSignals /\ BeforeSignals' /\ pc' # "signals"
    BY <1>1 DEF PhaseDone, ApplyFunding, ApplyYield, CheckLiquidation, BeginMarketOrders, BeginLimitOrders,
                KeepLimitOrder, BeforeSignals
  <2>3. ToFire' /\ Unfired' = Unfired /\ BeforeSignals' = BeforeSignals
    BY <2>1, <2>2 DEF ToFire, Unfired
  <2> QED BY <2>1, <2>3, IdleDriven
<1>2. CASE BeginSnapshot \/ Snapshot \/ LastTick \/ DrainDone
  <2>1. /\ simulation' = simulation /\ tick' = tick /\ events' = events
        /\ roots' = roots /\ stack' = stack /\ visited' = visited
    BY <1>2 DEF BeginSnapshot, Snapshot, LastTick, DrainDone, input, chain
  <2>2. ~BeforeSignals /\ ~BeforeSignals' /\ pc' # "signals" /\ (pc = "signals" => todo = <<>>)
    BY <1>2 DEF BeginSnapshot, Snapshot, LastTick, DrainDone, BeforeSignals
  <2>3. simulation.signals \in Seq(Seq(Nodes))
    BY StrategyTyped DEF TInv, Walked
  <2>4. \A i \in DOMAIN simulation.signals : ~(Len(simulation.signals) - 0 < i)
    BY <2>3
  <2>5. Unfired = {} /\ Unfired' = {}
    BY <2>2, <2>4 DEF Unfired
  <2>6. ToFire'
    BY <2>2 DEF ToFire
  <2>7. BeforeSignals' = BeforeSignals
    BY <2>2 DEF BeforeSignals
  <2> QED BY <2>1, <2>5, <2>6, <2>7, IdleDriven
<1>3. CASE UNCHANGED vars
  <2>1. /\ simulation' = simulation /\ tick' = tick /\ events' = events /\ pc' = pc /\ todo' = todo
        /\ roots' = roots /\ stack' = stack /\ visited' = visited
    BY <1>3 DEF vars, input, chain
  <2>2. ToFire' /\ Unfired' = Unfired /\ BeforeSignals' = BeforeSignals
    BY <2>1 DEF ToFire, Unfired, BeforeSignals, CInv
  <2> QED BY <2>1, <2>2, IdleDriven
<1> QED BY <1>1, <1>2, <1>3

\* A panic stops every chain.
LEMMA PanicDriven ==
  ASSUME IInv, TInv, CInv, IInv', TInv', Panic
  PROVE  CInv'
<1>1. /\ simulation' = simulation /\ tick' = tick /\ events' = events
      /\ roots' = <<>> /\ stack' = <<>> /\ pc' = "panicked"
  BY DEF Panic, input
<1>2. ToFire' /\ ~BeforeSignals' /\ Unfired' = {}
  BY <1>1 DEF ToFire, BeforeSignals, Unfired
<1>3. Spots(simulation.signals, {}) = {}
  BY DEF Spots
<1>4. Ahead' = Len(<<>>) + 0 + Cardinality(Spots(simulation.signals, {}))
  BY <1>1, <1>2 DEF Ahead, Spots
<1>5. Ahead' = 0 /\ \A n : MayRun(n)' = 0
  BY <1>1, <1>3, <1>4, FS_EmptySet DEF MayRun
<1>6. \A n : MayRun(n) + Ahead \in Nat
  BY Tallies DEF CInv, Tallied
<1>7. \A n \in Nodes : MayRun(n)' + Ahead' <= MayRun(n) + Ahead
  BY <1>5, <1>6
<1>8. Members(roots') = {} /\ Members(stack') = {}
  BY <1>1 DEF Members
<1> QED BY <1>1, <1>2, <1>7, <1>8, SilentDriven DEF Members

\* A chain that starts was ahead, and an action that has run in its chain is passed over.
LEMMA ChainDriven ==
  ASSUME IInv, TInv, CInv, IInv', TInv', StartChain \/ SkipAction
  PROVE  CInv'
<1>1. /\ simulation' = simulation /\ tick' = tick /\ events' = events /\ pc' = pc /\ todo' = todo
      /\ roots \in Seq(Nodes) /\ stack \in Seq(Nodes)
  BY DEF StartChain, SkipAction, input, TInv, Walked
<1>2. ToFire' /\ Unfired' = Unfired /\ BeforeSignals' = BeforeSignals
  BY <1>1 DEF ToFire, Unfired, BeforeSignals, CInv
<1>3. Tallied
  BY Tallies DEF CInv
<1>4. CASE StartChain
  <2>1. roots' = Tail(roots) /\ stack' = <<Head(roots)>> /\ stack = <<>> /\ roots # <<>>
    BY <1>4 DEF StartChain
  <2>2. Len(roots') = Len(roots) - 1 /\ Members(roots') \subseteq Members(roots) /\ Head(roots) \in Members(roots)
    BY <1>1, <2>1, ListParts
  <2>3. Members(stack') = {Head(roots)}
    BY <2>1 DEF Members
  <2>4. Len(roots) \in Nat
    BY <1>1
  <2>5. /\ Ahead' = Len(roots') + (IF tick = 1 /\ BeforeSignals THEN Len(simulation.initial) ELSE 0)
                      + Cardinality(Spots(simulation.signals, Unfired))
    BY <1>1, <1>2 DEF Ahead
  <2>6. Len(simulation.initial) \in Nat /\ Cardinality(Spots(simulation.signals, Unfired)) \in Nat
    BY SignalsFinite
  <2>7. Ahead' = Ahead - 1
    BY <2>2, <2>4, <2>5, <2>6 DEF Ahead
  <2>8. \A n : MayRun(n)' \in {0, 1} /\ MayRun(n) = 0
    BY <2>1 DEF MayRun
  <2>9. \A n \in Nodes : MayRun(n)' + Ahead' <= MayRun(n) + Ahead
    BY <1>3, <2>7, <2>8 DEF Tallied
  <2>10. \A x \in (Members(roots) \cup Members(stack))' : x \in Members(roots) \cup Members(stack) \/ x \in Starters
    BY <2>2, <2>3 DEF Members
  <2> QED BY <1>1, <1>2, <2>9, <2>10, SilentDriven
<1>5. CASE SkipAction
  <2>1. roots' = roots /\ visited' = visited /\ stack' = SE!Front(stack) /\ stack # <<>>
    BY <1>5 DEF SkipAction
  <2>2. Members(stack') \subseteq Members(stack)
    BY <1>1, <2>1, ListParts
  <2>3. Ahead' = Ahead
    BY <1>1, <1>2, <2>1 DEF Ahead
  <2>4. \A n : MayRun(n)' \in {0, 1} /\ MayRun(n) \in {0, 1} /\ MayRun(n)' <= MayRun(n)
    BY <2>1 DEF MayRun
  <2>5. \A n \in Nodes : MayRun(n)' + Ahead' <= MayRun(n) + Ahead
    BY <1>3, <2>3, <2>4 DEF Tallied
  <2>6. \A x \in (Members(roots) \cup Members(stack))' : x \in Members(roots) \cup Members(stack) \/ x \in Starters
    BY <2>1, <2>2 DEF Members
  <2> QED BY <1>1, <1>2, <2>5, <2>6, SilentDriven
<1> QED BY <1>4, <1>5

\* When the signals are reached, the initial actions run and every signal is ahead.
LEMMA BeginSignalsDriven ==
  ASSUME IInv, TInv, CInv, IInv', TInv', BeginSignals
  PROVE  CInv'
<1>1. /\ simulation' = simulation /\ tick' = tick /\ events' = events /\ stack' = stack /\ stack = <<>> /\ roots = <<>>
      /\ pc = "limit_orders" /\ pc' = "signals" /\ todo' = simulation.signals
      /\ roots' = IF tick = 1 THEN simulation.initial ELSE <<>>
  BY DEF BeginSignals, input, Idle
<1>2. BeforeSignals /\ ~BeforeSignals'
  BY <1>1 DEF BeforeSignals
<1>3. /\ Len(simulation.signals) \in Nat /\ DOMAIN simulation.signals = 1..Len(simulation.signals)
      /\ Len(simulation.initial) \in Nat /\ Cardinality(Spots(simulation.signals, Unfired)) \in Nat
  BY SignalsFinite
<1>4. Len(simulation.signals) - Len(simulation.signals) = 0
  BY <1>3
<1>5. \A i \in DOMAIN simulation.signals : 0 < i
  BY <1>3
<1>6. Unfired = DOMAIN simulation.signals /\ Unfired' = DOMAIN simulation.signals
  BY <1>1, <1>2, <1>4, <1>5 DEF Unfired
<1>7. \A i \in DOMAIN simulation.signals : Len(simulation.signals) - Len(simulation.signals) + i = i
  BY <1>3
<1>8. ToFire'
  BY <1>1, <1>3, <1>7 DEF ToFire
<1>9. Ahead = 0 + ByInitial + Cardinality(Spots(simulation.signals, Unfired))
  BY <1>1, <1>2 DEF Ahead, ByInitial
<1>10. Ahead' = Len(roots') + 0 + Cardinality(Spots(simulation.signals, Unfired))
  BY <1>1, <1>2, <1>6 DEF Ahead
<1>11. Len(roots') = ByInitial /\ ByInitial \in Nat
  BY <1>1, <1>3 DEF ByInitial
<1>12. Ahead' = Ahead /\ Ahead \in Nat
  BY <1>3, <1>9, <1>10, <1>11
<1>13. \A n : MayRun(n)' = 0 /\ MayRun(n) = 0
  BY <1>1 DEF MayRun
<1>14. \A n \in Nodes : MayRun(n)' + Ahead' <= MayRun(n) + Ahead
  BY <1>12, <1>13
<1>15. \A x \in (Members(roots) \cup Members(stack))' : x \in Members(roots) \cup Members(stack) \/ x \in Starters
  BY <1>1 DEF Members, Starters
<1> QED BY <1>1, <1>8, <1>14, <1>15, SilentDriven

\* A signal that is looked at is no longer ahead, whether it fires or not; the chains
\* of one that fires are as many as its targets.
LEMMA SignalDriven ==
  ASSUME IInv, TInv, CInv, IInv', TInv', FireSignal \/ PassSignal
  PROVE  CInv'
<1> DEFINE sigs == simulation.signals
           k == Len(sigs) - Len(todo) + 1
           n == Len(todo)
<1>1. /\ simulation' = simulation /\ tick' = tick /\ events' = events /\ stack' = stack /\ stack = <<>> /\ roots = <<>>
      /\ pc = "signals" /\ pc' = "signals" /\ todo # <<>> /\ todo' = Tail(todo)
      /\ roots' = Head(todo) \/ roots' = <<>>
  BY DEF FireSignal, PassSignal, input, chain, Idle
<1>2. /\ Len(sigs) \in Nat /\ DOMAIN sigs = 1..Len(sigs)
      /\ (\A i \in DOMAIN sigs : sigs[i] \in Seq(Nodes))
      /\ IsFiniteSet(Unfired) /\ Cardinality(Spots(sigs, Unfired)) \in Nat
  BY SignalsFinite
<1>3. todo \in Seq(Seq(Nodes))
  BY <1>1 DEF TInv, Walked
<1>4. n \in Nat \ {0} /\ Len(todo') = n - 1 /\ DOMAIN todo = 1..n /\ DOMAIN todo' = 1..(n - 1) /\ Head(todo) = todo[1]
      /\ \A i \in 1..(n - 1) : todo'[i] = todo[i + 1]
  BY <1>1, <1>3
<1>5. n <= Len(sigs) /\ \A i \in 1..n : todo[i] = sigs[Len(sigs) - n + i]
  BY <1>1, <1>4 DEF CInv, ToFire
<1>6. k \in DOMAIN sigs /\ Head(todo) = sigs[k]
  BY <1>2, <1>4, <1>5
<1>7. ToFire'
  <2>1. Len(todo') <= Len(sigs)
    BY <1>2, <1>4, <1>5
  <2>2. ASSUME NEW i \in DOMAIN todo' PROVE todo'[i] = sigs[Len(sigs) - Len(todo') + i]
    <3>1. i \in 1..(n - 1) /\ i + 1 \in 1..n
      BY <1>4
    <3>2. todo'[i] = sigs[Len(sigs) - n + (i + 1)]
      BY <1>4, <1>5, <3>1
    <3>3. Len(sigs) - n + (i + 1) = Len(sigs) - Len(todo') + i
      <4> DEFINE m == Len(sigs)
      <4>1. m \in Nat /\ n \in Nat \ {0} /\ i \in Nat /\ Len(todo') = n - 1
        BY <1>2, <1>4, <3>1
      <4> HIDE DEF m, n
      <4>2. m - n + (i + 1) = m - (n - 1) + i
        BY <4>1
      <4> QED BY <4>1, <4>2 DEF m
    <3> QED BY <3>2, <3>3
  <2> QED BY <1>1, <2>1, <2>2 DEF ToFire
<1>8. Unfired = Unfired' \cup {k} /\ k \notin Unfired'
  <2>1. ~BeforeSignals /\ ~BeforeSignals'
    BY <1>1 DEF BeforeSignals
  <2>2. Unfired = {i \in DOMAIN sigs : Len(sigs) - n < i}
    BY <1>1, <2>1 DEF Unfired
  <2>3. Unfired' = {i \in DOMAIN sigs : Len(sigs) - Len(todo') < i}
    BY <1>1, <2>1 DEF Unfired
  <2>4. Unfired' = {i \in DOMAIN sigs : k < i}
    BY <1>2, <1>4, <2>3
  <2>5. \A i \in DOMAIN sigs : Len(sigs) - n < i <=> k < i \/ i = k
    BY <1>2, <1>4
  <2> HIDE DEF k, n, sigs
  <2>6. ~(k < k)
    BY <1>2, <1>6
  <2> QED BY <1>6, <2>2, <2>4, <2>5, <2>6
<1>9. IsFiniteSet(Unfired') /\ Unfired' \subseteq DOMAIN sigs
  <2>1. IsFiniteSet(Unfired')
    BY <1>2, <1>8, FS_Subset
  <2> QED BY <1>1, <2>1 DEF Unfired
<1>10. /\ Cardinality(Spots(sigs, Unfired' \cup {k})) = Cardinality(Spots(sigs, Unfired')) + Len(sigs[k])
       /\ Cardinality(Spots(sigs, Unfired')) \in Nat
  <2> HIDE DEF sigs, k
  <2>1. (\A i \in Unfired' : sigs[i] \in Seq(Nodes)) /\ sigs[k] \in Seq(Nodes)
    BY <1>2, <1>6, <1>9
  <2> QED BY <1>8, <1>9, <2>1, SpotsOfOneMore, SpotsFinite
<1>11. Len(Head(todo)) \in Nat
  BY <1>2, <1>6
<1>12. Ahead = Cardinality(Spots(sigs, Unfired)) /\ Ahead' = Len(roots') + Cardinality(Spots(sigs, Unfired'))
  <2>1. ~BeforeSignals /\ ~BeforeSignals'
    BY <1>1 DEF BeforeSignals
  <2>2. Ahead = Len(roots) + 0 + Cardinality(Spots(sigs, Unfired))
    BY <2>1 DEF Ahead
  <2>3. Ahead' = Len(roots') + 0 + Cardinality(Spots(sigs, Unfired'))
    BY <1>1, <2>1 DEF Ahead
  <2>4. Len(roots) = 0 /\ Len(roots') \in Nat
    BY <1>1, <1>11
  <2> HIDE DEF sigs
  <2> QED BY <1>2, <1>10, <2>2, <2>3, <2>4
<1>13. Len(roots') <= Len(sigs[k])
  <2>1. Len(roots') = Len(sigs[k]) \/ Len(roots') = 0
    BY <1>1, <1>6
  <2> HIDE DEF sigs, k
  <2> QED BY <1>6, <1>11, <2>1
<1>14. Ahead' <= Ahead /\ Ahead \in Nat /\ Ahead' \in Nat
  <2>1. Len(roots') \in Nat
    BY <1>1, <1>11
  <2>2. Len(sigs[k]) \in Nat
    BY <1>6, <1>11
  <2> DEFINE a == Cardinality(Spots(sigs, Unfired))
             b == Cardinality(Spots(sigs, Unfired'))
             c == Len(sigs[k])
             d == Len(roots')
  <2>3. a = b + c /\ b \in Nat /\ c \in Nat /\ d \in Nat /\ d <= c /\ Ahead = a /\ Ahead' = d + b
    BY <1>8, <1>10, <1>12, <1>13, <2>1, <2>2
  <2> HIDE DEF a, b, c, d
  <2> QED BY <2>3
<1>15. \A x : MayRun(x)' = 0 /\ MayRun(x) = 0
  BY <1>1 DEF MayRun
<1>16. \A x \in Nodes : MayRun(x)' + Ahead' <= MayRun(x) + Ahead
  BY <1>14, <1>15
<1>17. \A x \in (Members(roots) \cup Members(stack))' : x \in Members(roots) \cup Members(stack) \/ x \in Starters
  <2>1. sigs[k] \in Members(sigs)
    BY <1>6 DEF Members
  <2>2. Members(Head(todo)) \subseteq Starters
    BY <1>6, <2>1 DEF Starters
  <2>3. (Members(roots) \cup Members(stack))' \subseteq Members(Head(todo))
    BY <1>1 DEF Members
  <2> QED BY <2>2, <2>3
<1> HIDE DEF sigs, k, n
<1> QED BY <1>1, <1>7, <1>16, <1>17, SilentDriven

\* Where an event that is logged goes.
LEMMA LogPlace ==
  ASSUME \E S : events \in Seq(S), NEW e, Log(e)
  PROVE  LET m == Len(events) + 1
         IN  /\ m \in Nat /\ m \notin DOMAIN events
             /\ DOMAIN events' = DOMAIN events \cup {m}
             /\ events'[m] = e
             /\ \A i \in DOMAIN events : i < m /\ events'[i] = events[i]
<1>1. PICK S : events \in Seq(S)
  OBVIOUS
<1> DEFINE T == S \cup {e}
<1>2. events \in Seq(T) /\ e \in T /\ events' = Append(events, e)
  BY <1>1, SeqGrows DEF Log
<1> HIDE DEF T
<1>3. /\ Len(events) \in Nat /\ DOMAIN events = 1..Len(events)
      /\ DOMAIN events' = 1..(Len(events) + 1)
      /\ events'[Len(events) + 1] = e
      /\ \A i \in 1..Len(events) : events'[i] = events[i]
  BY <1>2
<1> QED BY <1>3

\* Of a step that logs an event: whatever it puts on the way to run follows an
\* execution or a fill, and it runs only what was on the way.
LoggedFrom(e) ==
  /\ Log(e) /\ e.at = tick
  /\ simulation' = simulation /\ tick' = tick /\ pc' = pc /\ todo' = todo
  /\ e.what = "filled" => e.node \in Nodes
  /\ e.what \in {"executed", "refused", "placed"} => e.node \in Members(stack)
  /\ \A x \in (Members(roots) \cup Members(stack))' :
       \/ x \in Members(roots) \cup Members(stack)
       \/ e.what \in {"executed", "filled"} /\ x \in Members(simulation.chains[e.node])

LEMMA LoggedDriven ==
  ASSUME IInv, TInv, CInv, NEW e, LoggedFrom(e)
  PROVE  Driven' /\ ToFire'
<1> DEFINE m == Len(events) + 1
<1>1. /\ m \in Nat /\ m \notin DOMAIN events
      /\ DOMAIN events' = DOMAIN events \cup {m}
      /\ events'[m] = e
      /\ \A i \in DOMAIN events : i < m /\ events'[i] = events[i]
  BY LogPlace DEF LoggedFrom, IInv, Lists
<1> HIDE DEF m
<1>2. ToFire'
  BY DEF LoggedFrom, CInv, ToFire
<1>3. tick \in Nat
  BY EngineAssumption DEF IInv, Numbered
<1>4. \A i \in DOMAIN events' : events'[i].at \in Nat /\ events'[i].at <= tick'
  BY <1>1, <1>3 DEF LoggedFrom, CInv, Driven
<1>5. ASSUME NEW i \in EventsOf({"filled"})' PROVE events'[i].node \in Nodes'
  <2>1. i = m \/ i \in EventsOf({"filled"})
    BY <1>1 DEF EventsOf
  <2>2. i \in DOMAIN events' /\ events'[i].what = "filled"
    BY DEF EventsOf
  <2>3. CASE i = m
    BY <1>1, <2>2, <2>3 DEF LoggedFrom, Nodes
  <2>4. CASE i \in EventsOf({"filled"})
    BY <1>1, <2>4 DEF LoggedFrom, CInv, Driven, EventsOf, Nodes
  <2> QED BY <2>1, <2>3, <2>4
<1>6. Starters' = Starters
  BY DEF LoggedFrom, Starters
<1>7. ASSUME NEW x, Sourced(x) PROVE Sourced(x)'
  <2>1. CASE x \in Starters
    BY <1>6, <2>1 DEF Sourced
  <2>2. CASE \E j \in EventsOf({"executed", "filled"}) :
               events[j].at = tick /\ x \in Members(simulation.chains[events[j].node])
    <3>1. PICK j \in EventsOf({"executed", "filled"}) :
                 events[j].at = tick /\ x \in Members(simulation.chains[events[j].node])
      BY <2>2
    <3>2. j \in EventsOf({"executed", "filled"})' /\ events'[j] = events[j]
      BY <1>1, <3>1 DEF EventsOf
    <3>3. Members(simulation.chains[events[j].node])' = Members(simulation.chains[events[j].node])
      BY <3>2 DEF LoggedFrom, Members
    <3> QED BY <3>1, <3>2, <3>3 DEF LoggedFrom, Sourced
  <2> QED BY <1>7, <2>1, <2>2 DEF Sourced
<1>8. ASSUME NEW x \in (Members(roots) \cup Members(stack))' PROVE Sourced(x)'
  <2>1. CASE x \in Members(roots) \cup Members(stack)
    BY <1>7, <2>1 DEF CInv, Driven
  <2>2. CASE e.what \in {"executed", "filled"} /\ x \in Members(simulation.chains[e.node])
    <3>1. m \in EventsOf({"executed", "filled"})' /\ events'[m].at = tick'
      BY <1>1, <2>2 DEF EventsOf, LoggedFrom
    <3>2. x \in Members(simulation'.chains[events'[m].node])
      BY <1>1, <2>2 DEF LoggedFrom
    <3> QED BY <3>1, <3>2 DEF Sourced, Members
  <2> QED BY <2>1, <2>2 DEF LoggedFrom
<1>9. ASSUME NEW i \in Tried'
      PROVE  \/ events'[i].node \in Starters
             \/ \E j \in EventsOf({"executed", "filled"}) :
                  /\ j < i /\ events[j].at = events'[i].at
                  /\ events'[i].node \in Members(simulation.chains[events[j].node])
  <2>1. i \in DOMAIN events' /\ events'[i].what \in {"executed", "refused", "placed"}
    BY DEF Tried, EventsOf
  <2>2. CASE i = m
    <3>1. e.node \in Members(stack) /\ e.at = tick
      BY <1>1, <2>1, <2>2 DEF LoggedFrom
    <3>2. Sourced(e.node)
      BY <3>1 DEF CInv, Driven
    <3>3. \A j \in EventsOf({"executed", "filled"}) : j < m
      BY <1>1 DEF EventsOf
    <3> QED BY <1>1, <2>2, <3>1, <3>2, <3>3 DEF Sourced
  <2>3. CASE i \in DOMAIN events
    <3>1. i \in Tried /\ events'[i] = events[i]
      BY <1>1, <2>1, <2>3 DEF Tried, EventsOf
    <3> QED BY <3>1 DEF CInv, Driven
  <2> QED BY <1>1, <2>1, <2>2, <2>3
<1>10. \A j \in EventsOf({"executed", "filled"}) :
         /\ j \in EventsOf({"executed", "filled"})' /\ events'[j] = events[j]
         /\ Members(simulation.chains[events[j].node])' = Members(simulation.chains[events[j].node])
  BY <1>1 DEF EventsOf, Members, LoggedFrom
<1>11. \A i \in Tried' :
         \/ events'[i].node \in Starters'
         \/ \E j \in EventsOf({"executed", "filled"})' :
              /\ j < i /\ events'[j].at = events'[i].at
              /\ events'[i].node \in Members(simulation.chains[events[j].node])'
  BY <1>6, <1>9, <1>10
<1> QED BY <1>2, <1>4, <1>5, <1>8, <1>11 DEF Driven, Members

\* What a step that logs an event leaves of what is counted.
LEMMA LoggedTallies ==
  ASSUME IInv, TInv, CInv, IInv', TInv', NEW e, LoggedFrom(e)
  PROVE  /\ Driven' /\ ToFire' /\ Tallied /\ Tallied'
         /\ Unfired' = Unfired /\ BeforeSignals' = BeforeSignals /\ Nodes' = Nodes
         /\ e.what # "filled" => Started' = Started
         /\ e.what \notin {"executed", "refused", "placed"} => \A n : TriedNow(n)' = TriedNow(n)
<1> DEFINE m == Len(events) + 1
<1>1. /\ m \in Nat /\ m \notin DOMAIN events
      /\ DOMAIN events' = DOMAIN events \cup {m}
      /\ events'[m] = e
      /\ \A i \in DOMAIN events : i < m /\ events'[i] = events[i]
  BY LogPlace DEF LoggedFrom, IInv, Lists
<1> HIDE DEF m
<1>2. Driven' /\ ToFire'
  BY LoggedDriven
<1>3. Tallied /\ Tallied'
  <2>1. (IInv /\ TInv /\ Driven => Tallied)'
    BY Tallies, PTL
  <2> QED BY <1>2, <2>1, Tallies DEF CInv
<1>4. Unfired' = Unfired /\ BeforeSignals' = BeforeSignals /\ Nodes' = Nodes
  BY DEF LoggedFrom, Unfired, BeforeSignals, Nodes
<1>5. ASSUME e.what # "filled" PROVE Started' = Started
  <2>1. EventsOf({"filled"})' = EventsOf({"filled"})
    BY <1>1, <1>5 DEF EventsOf
  <2>2. TickFills' = TickFills
    BY <1>1, <2>1 DEF TickFills, LoggedFrom, EventsOf
  <2>3. \A i \in TickFills : FillLists'[i] = FillLists[i]
    BY <1>1 DEF TickFills, EventsOf, FillLists, LoggedFrom
  <2>4. Spots(FillLists', TickFills') = Spots(FillLists, TickFills)
    BY <2>2, <2>3 DEF Spots
  <2>5. (Started = ByInitial + BySignals + ByFills)'
    BY StartedInParts, PTL
  <2>6. ByInitial' = ByInitial /\ BySignals' = BySignals
    BY DEF ByInitial, BySignals, Spots, LoggedFrom
  <2>7. ByFills' = ByFills
    BY <2>4 DEF ByFills, Spots
  <2> QED BY <2>5, <2>6, <2>7, StartedInParts
<1>6. ASSUME e.what \notin {"executed", "refused", "placed"}, NEW n PROVE TriedNow(n)' = TriedNow(n)
  <2>1. Tried' = Tried
    BY <1>1, <1>6 DEF Tried, EventsOf
  <2> QED BY <1>1, <2>1 DEF TriedNow, Tried, EventsOf, LoggedFrom
<1> QED BY <1>2, <1>3, <1>4, <1>5, <1>6

\* An action that comes to something: it cannot run again in its chain.
LEMMA TriedDriven ==
  ASSUME IInv, TInv, CInv, IInv', TInv', NEW e, LoggedFrom(e),
         e.what \in {"executed", "refused", "placed"},
         stack # <<>>, e.node \notin visited, visited' = visited \cup {e.node}, roots' = roots
  PROVE  CInv'
<1> DEFINE m == Len(events) + 1
<1>1. /\ m \notin DOMAIN events
      /\ DOMAIN events' = DOMAIN events \cup {m}
      /\ events'[m] = e
      /\ \A i \in DOMAIN events : events'[i] = events[i]
  BY LogPlace DEF LoggedFrom, IInv, Lists
<1> HIDE DEF m
<1>2. /\ Driven' /\ ToFire' /\ Tallied /\ Tallied' /\ Unfired' = Unfired /\ BeforeSignals' = BeforeSignals
      /\ Nodes' = Nodes /\ Started' = Started
  BY LoggedTallies
<1>3. Ahead' = Ahead
  BY <1>2 DEF Ahead, LoggedFrom
<1>4. TriedNow(e.node)' = TriedNow(e.node) \cup {m} /\ m \notin TriedNow(e.node)
  <2>1. \A i : i \in TriedNow(e.node)' <=>
          i \in DOMAIN events' /\ events'[i].what \in {"executed", "refused", "placed"}
            /\ events'[i].at = tick /\ events'[i].node = e.node
    BY DEF TriedNow, Tried, EventsOf, LoggedFrom
  <2>2. \A i : i \in TriedNow(e.node) <=>
          i \in DOMAIN events /\ events[i].what \in {"executed", "refused", "placed"}
            /\ events[i].at = tick /\ events[i].node = e.node
    BY DEF TriedNow, Tried, EventsOf
  <2>3. e.at = tick
    BY DEF LoggedFrom
  <2> QED BY <1>1, <2>1, <2>2, <2>3
<1>5. ASSUME NEW n, n # e.node PROVE TriedNow(n)' = TriedNow(n)
  <2>1. \A i : i \in TriedNow(n)' <=>
          i \in DOMAIN events' /\ events'[i].what \in {"executed", "refused", "placed"}
            /\ events'[i].at = tick /\ events'[i].node = n
    BY DEF TriedNow, Tried, EventsOf, LoggedFrom
  <2>2. \A i : i \in TriedNow(n) <=>
          i \in DOMAIN events /\ events[i].what \in {"executed", "refused", "placed"}
            /\ events[i].at = tick /\ events[i].node = n
    BY DEF TriedNow, Tried, EventsOf
  <2>3. \A i : i \in TriedNow(n)' <=> i \in TriedNow(n)
    BY <1>1, <1>5, <2>1, <2>2
  <2> QED BY <2>3, Zenon
<1>6. ASSUME NEW n \in Nodes PROVE Cardinality(TriedNow(n)') + MayRun(n)' + Ahead' <= Started'
  <2>1. Cardinality(TriedNow(n)) + MayRun(n) + Ahead <= Started
    BY DEF CInv, InBudget
  <2>2. /\ Cardinality(TriedNow(n)) \in Nat /\ IsFiniteSet(TriedNow(n)) /\ Ahead \in Nat /\ Started \in Nat
        /\ MayRun(n) \in {0, 1} /\ MayRun(n)' \in {0, 1}
    BY <1>2 DEF Tallied
  <2>3. CASE n = e.node
    <3>1. Cardinality(TriedNow(n) \cup {m}) = Cardinality(TriedNow(n)) + 1
      BY <1>4, <2>2, <2>3, FS_AddElement
    <3>2. MayRun(n) = 1 /\ MayRun(n)' = 0
      BY <2>3 DEF MayRun
    <3>3. Cardinality(TriedNow(n)') = Cardinality(TriedNow(n)) + 1
      BY <1>4, <2>3, <3>1
    <3> QED BY <1>2, <1>3, <2>1, <2>2, <3>2, <3>3
  <2>4. CASE n # e.node
    <3>1. MayRun(n)' <= MayRun(n)
      BY <2>4 DEF MayRun
    <3> QED BY <1>2, <1>3, <1>5, <2>1, <2>2, <2>4, <3>1
  <2> QED BY <2>3, <2>4
<1> QED BY <1>2, <1>6 DEF CInv, InBudget

\* An order that is refused at its fill, or expires, starts nothing.
LEMMA DroppedDriven ==
  ASSUME IInv, TInv, CInv, IInv', TInv', NEW e, LoggedFrom(e),
         e.what \in {"rejected", "expired"}, roots' = roots, stack' = stack, visited' = visited
  PROVE  CInv'
<1>1. /\ Driven' /\ ToFire' /\ Unfired' = Unfired /\ BeforeSignals' = BeforeSignals
      /\ Nodes' = Nodes /\ Started' = Started /\ \A n : TriedNow(n)' = TriedNow(n)
  BY LoggedTallies
<1>2. Ahead' = Ahead /\ \A n : MayRun(n)' = MayRun(n)
  BY <1>1 DEF Ahead, MayRun, LoggedFrom
<1>3. InBudget'
  BY <1>1, <1>2 DEF CInv, InBudget
<1> QED BY <1>1, <1>3 DEF CInv

\* The chains that a fill starts are as many as follow its action.
LEMMA FilledDriven ==
  ASSUME IInv, TInv, CInv, IInv', TInv', NEW e, LoggedFrom(e),
         e.what = "filled", Idle, roots' = simulation.chains[e.node], stack' = stack
  PROVE  CInv'
<1> DEFINE m == Len(events) + 1
           next == simulation.chains[e.node]
<1>1. /\ m \notin DOMAIN events
      /\ DOMAIN events' = DOMAIN events \cup {m}
      /\ events'[m] = e
      /\ \A i \in DOMAIN events : events'[i] = events[i]
  BY LogPlace DEF LoggedFrom, IInv, Lists
<1> HIDE DEF m
<1>2. /\ Driven' /\ ToFire' /\ Tallied /\ Tallied' /\ Unfired' = Unfired /\ BeforeSignals' = BeforeSignals
      /\ Nodes' = Nodes /\ \A n : TriedNow(n)' = TriedNow(n)
  BY LoggedTallies
<1>3. next \in Seq(Nodes) /\ Len(next) \in Nat
  BY StrategyTyped DEF LoggedFrom, TInv, Walked
<1>4. TickFills' = TickFills \cup {m} /\ m \notin TickFills
  <2>1. e.at = tick
    BY DEF LoggedFrom
  <2>2. \A i : i \in TickFills' <=> i \in DOMAIN events' /\ events'[i].what = "filled" /\ events'[i].at = tick
    BY DEF TickFills, EventsOf, LoggedFrom
  <2>3. \A i : i \in TickFills <=> i \in DOMAIN events /\ events[i].what = "filled" /\ events[i].at = tick
    BY DEF TickFills, EventsOf
  <2> QED BY <1>1, <2>1, <2>2, <2>3
<1>5. FillLists'[m] = next /\ \A i \in TickFills : FillLists'[i] = FillLists[i]
  <2>1. FillLists'[m] = next
    BY <1>1 DEF FillLists, LoggedFrom
  <2>2. \A i \in TickFills : FillLists'[i] = FillLists[i]
    BY <1>1 DEF TickFills, EventsOf, FillLists, LoggedFrom
  <2> QED BY <2>1, <2>2
<1>6. \A i \in TickFills : FillLists[i] \in Seq(Nodes)
  <2>1. TickFills \subseteq DOMAIN events /\ TickFills \subseteq EventsOf({"filled"})
    BY DEF TickFills, EventsOf
  <2> QED BY <2>1, StrategyTyped DEF FillLists, CInv, Driven, TInv, Walked
<1>7. IsFiniteSet(TickFills)
  <2>1. TickFills \subseteq DOMAIN events
    BY DEF TickFills, EventsOf
  <2> QED BY <2>1, TraceFinite
<1>8. Spots(FillLists', TickFills) = Spots(FillLists, TickFills)
  BY <1>5 DEF Spots
<1>9. Cardinality(Spots(FillLists', TickFills')) = Cardinality(Spots(FillLists, TickFills)) + Len(next)
  <2> DEFINE f == FillLists'
             some == TickFills
  <2>1. (\A i \in some : f[i] \in Seq(Nodes)) /\ f[m] \in Seq(Nodes) /\ f[m] = next
    BY <1>3, <1>5, <1>6
  <2>2. IsFiniteSet(some) /\ m \notin some
    BY <1>4, <1>7
  <2>3. TickFills' = some \cup {m} /\ Spots(f, some) = Spots(FillLists, TickFills)
    BY <1>4, <1>8
  <2> HIDE DEF f, some, next
  <2>4. Cardinality(Spots(f, some \cup {m})) = Cardinality(Spots(f, some)) + Len(f[m])
    BY <2>1, <2>2, SpotsOfOneMore
  <2> QED BY <2>1, <2>3, <2>4 DEF f
<1>10. Started' = Started + Len(next)
  <2> DEFINE k == Len(next)
  <2>1. Started = ByInitial + BySignals + ByFills
    BY StartedInParts
  <2>2. (Started = ByInitial + BySignals + ByFills)'
    BY StartedInParts, PTL
  <2>3. ByInitial' = ByInitial /\ BySignals' = BySignals
    BY DEF ByInitial, BySignals, Spots, LoggedFrom
  <2>4. ByFills' = ByFills + k
    BY <1>9 DEF ByFills, Spots
  <2>5. ByInitial \in Nat /\ BySignals \in Nat /\ ByFills \in Nat /\ k \in Nat
    BY <1>2, <1>3 DEF Tallied
  <2> HIDE DEF k
  <2>6. Started' = Started + k
    BY <2>1, <2>2, <2>3, <2>4, <2>5
  <2> QED BY <2>6 DEF k
<1>11. Ahead' = Ahead + Len(next)
  <2> DEFINE a == IF tick = 1 /\ BeforeSignals THEN Len(simulation.initial) ELSE 0
             b == Cardinality(Spots(simulation.signals, Unfired))
             k == Len(next)
  <2>1. Ahead = Len(roots) + a + b /\ Ahead' = k + a + b
    BY <1>2 DEF Ahead, LoggedFrom
  <2>2. Len(roots) = 0
    BY DEF Idle
  <2>3. a \in Nat /\ b \in Nat /\ k \in Nat
    BY <1>3, SignalsFinite
  <2> HIDE DEF a, b, k
  <2>4. Ahead' = Ahead + k
    BY <2>1, <2>2, <2>3
  <2> QED BY <2>4 DEF k
<1>12. ASSUME NEW n \in Nodes PROVE Cardinality(TriedNow(n)') + MayRun(n)' + Ahead' <= Started'
  <2>1. Cardinality(TriedNow(n)) + MayRun(n) + Ahead <= Started
    BY DEF CInv, InBudget
  <2>2. MayRun(n) = 0 /\ MayRun(n)' = 0
    BY DEF MayRun, Idle
  <2>3. Cardinality(TriedNow(n)) \in Nat /\ Ahead \in Nat /\ Started \in Nat
    BY <1>2 DEF Tallied
  <2> HIDE DEF next
  <2> QED BY <1>2, <1>3, <1>10, <1>11, <2>1, <2>2, <2>3
<1> QED BY <1>2, <1>12 DEF CInv, InBudget

LEMMA JoinedParts ==
  ASSUME NEW S, NEW s \in Seq(S), NEW t \in Seq(S)
  PROVE  Members(s \o t) \subseteq Members(s) \cup Members(t)
<1>1. /\ Len(s) \in Nat /\ Len(t) \in Nat /\ DOMAIN s = 1..Len(s) /\ DOMAIN t = 1..Len(t)
      /\ DOMAIN (s \o t) = 1..(Len(s) + Len(t))
      /\ \A i \in 1..(Len(s) + Len(t)) : (s \o t)[i] = IF i <= Len(s) THEN s[i] ELSE t[i - Len(s)]
  OBVIOUS
<1> SUFFICES ASSUME NEW i \in 1..(Len(s) + Len(t)) PROVE (s \o t)[i] \in Members(s) \cup Members(t)
  BY <1>1 DEF Members
<1>2. CASE i <= Len(s)
  BY <1>1, <1>2 DEF Members
<1>3. CASE ~(i <= Len(s))
  <2>1. i - Len(s) \in 1..Len(t)
    BY <1>1, <1>3
  <2> QED BY <1>1, <1>3, <2>1 DEF Members
<1> QED BY <1>2, <1>3

\* An action that runs is on the stack, and what follows it is pushed only when it
\* is executed.
LEMMA ActionDriven ==
  ASSUME IInv, TInv, CInv, IInv', TInv', ExecuteAction \/ PlaceOrder \/ RefuseAction
  PROVE  CInv'
<1> DEFINE n == SE!Last(stack)
<1>1. /\ stack # <<>> /\ n \notin visited /\ visited' = visited \cup {n} /\ roots' = roots
      /\ simulation' = simulation /\ tick' = tick /\ pc' = pc /\ todo' = todo
  BY DEF ExecuteAction, PlaceOrder, RefuseAction, IsNew, Follow, input
<1>2. stack \in Seq(Nodes) /\ n \in Nodes /\ SE!Front(stack) \in Seq(Nodes)
  BY <1>1, NodeLists DEF TInv, Walked
<1>3. n \in Members(stack) /\ Members(SE!Front(stack)) \subseteq Members(stack)
  BY <1>1, <1>2, ListParts
<1>4. \E e : LoggedFrom(e) /\ e.what \in {"executed", "refused", "placed"} /\ e.node = n
  <2>1. CASE ExecuteAction
    <3> DEFINE e == Event("executed", n, NoOrder, "executed", 0)
    <3>1. Log(e) /\ stack' = SE!Front(stack) \o simulation.chains[n]
      BY <2>1 DEF ExecuteAction, Follow
    <3>2. e.what = "executed" /\ e.node = n /\ e.at = tick
      BY DEF Event
    <3>3. simulation.chains[n] \in Seq(Nodes)
      BY <1>2, StrategyTyped DEF TInv, Walked
    <3>4. Members(stack') \subseteq Members(SE!Front(stack)) \cup Members(simulation.chains[n])
      BY <1>2, <3>1, <3>3, JoinedParts
    <3> HIDE DEF e, n
    <3>5. ASSUME NEW x \in (Members(roots) \cup Members(stack))'
          PROVE  \/ x \in Members(roots) \cup Members(stack)
                 \/ x \in Members(simulation.chains[e.node])
      <4>1. Members(roots)' = Members(roots) /\ Members(stack)' = Members(stack')
        BY <1>1 DEF Members
      <4> QED BY <1>3, <3>2, <3>4, <3>5, <4>1
    <3>6. n \in Members(stack)
      BY <1>3
    <3>7. LoggedFrom(e)
      BY <1>1, <3>1, <3>2, <3>5, <3>6 DEF LoggedFrom
    <3> QED BY <3>2, <3>7
  <2>2. CASE PlaceOrder \/ RefuseAction
    <3>1. stack' = SE!Front(stack) \o <<>> /\ <<>> \in Seq(Nodes)
      BY <2>2 DEF PlaceOrder, RefuseAction, Follow
    <3>2. Members(stack') \subseteq Members(stack)
      BY <1>2, <1>3, <3>1, JoinedParts DEF Members
    <3>3. \E e : Log(e) /\ e.what \in {"refused", "placed"} /\ e.node = n /\ e.at = tick
      BY <2>2 DEF PlaceOrder, RefuseAction, Event
    <3> HIDE DEF n
    <3>4. PICK e : Log(e) /\ e.what \in {"refused", "placed"} /\ e.node = n /\ e.at = tick
      BY <3>3
    <3>5. LoggedFrom(e)
      BY <1>1, <1>3, <3>2, <3>4 DEF LoggedFrom, Members
    <3> QED BY <3>4, <3>5
  <2> QED BY <2>1, <2>2
<1> HIDE DEF n
<1> QED BY <1>1, <1>4, TriedDriven

\* An order that leaves a scan starts its chains if it fills.
LEMMA LeaveDriven ==
  ASSUME IInv, TInv, CInv, IInv', TInv', NEW o, NEW outcome, NEW price, Leave(o, outcome, price), Idle,
         o.node \in Nodes,
         UNCHANGED <<input, pc, todo, stack, visited>>
  PROVE  CInv'
<1>1. /\ simulation' = simulation /\ tick' = tick /\ pc' = pc /\ todo' = todo /\ stack' = stack /\ visited' = visited
      /\ stack = <<>> /\ roots = <<>>
  BY DEF input, Idle
<1>2. CASE outcome.why = "executed"
  <2> DEFINE e == Event("filled", o.node, o.id, outcome.why, price)
  <2>1. Log(e) /\ roots' = simulation.chains[o.node]
    BY <1>2 DEF Leave
  <2>2. e.what = "filled" /\ e.node = o.node /\ e.at = tick
    BY DEF Event
  <2> HIDE DEF e
  <2>3. LoggedFrom(e)
    BY <1>1, <2>1, <2>2 DEF LoggedFrom, Members
  <2> QED BY <1>1, <2>1, <2>2, <2>3, FilledDriven
<1>3. CASE outcome.why # "executed"
  <2> DEFINE e == Event("rejected", o.node, o.id, outcome.why, 0)
  <2>1. Log(e) /\ roots' = <<>>
    BY <1>3 DEF Leave
  <2>2. e.what = "rejected" /\ e.at = tick
    BY DEF Event
  <2> HIDE DEF e
  <2>3. LoggedFrom(e)
    BY <1>1, <2>1, <2>2 DEF LoggedFrom, Members
  <2> QED BY <1>1, <2>1, <2>2, <2>3, DroppedDriven
<1> QED BY <1>2, <1>3

\* An order that expires starts nothing.
LEMMA LapseDriven ==
  ASSUME IInv, TInv, CInv, IInv', TInv', NEW o, Lapse(o), UNCHANGED <<input, pc, todo, chain>>
  PROVE  CInv'
<1> DEFINE e == Event("expired", o.node, o.id, "expired", 0)
<1>1. /\ simulation' = simulation /\ tick' = tick /\ pc' = pc /\ todo' = todo /\ stack' = stack /\ visited' = visited
      /\ roots' = roots /\ Log(e)
  BY DEF input, chain, Lapse
<1>2. e.what = "expired" /\ e.at = tick
  BY DEF Event
<1> HIDE DEF e
<1>3. LoggedFrom(e)
  BY <1>1, <1>2 DEF LoggedFrom, Members
<1> QED BY <1>1, <1>2, <1>3, DroppedDriven

\* The scans of the queue and of the book, and their drain.
LEMMA OrdersDriven ==
  ASSUME IInv, TInv, CInv, IInv', TInv',
         FillMarketOrder \/ FillLimitOrder \/ ExpireLimitOrder \/ DrainResting \/ DrainPending
  PROVE  CInv'
<1> DEFINE o == Head(ready)
<1>1. CASE FillMarketOrder \/ FillLimitOrder
  <2>1. o \in Members(ready) /\ Idle /\ UNCHANGED <<input, pc, todo, stack, visited>>
    BY <1>1, TailList DEF FillMarketOrder, FillLimitOrder, IInv, Lists
  <2>2. o.node \in Nodes
    BY <1>1, <2>1 DEF FillMarketOrder, FillLimitOrder, TInv, Sorted, LimitOf, MarketOf
  <2>3. CASE FillLimitOrder
    <3>1. Leave(o, LimitOutcome(o), FillPrice(o))
      BY <2>3 DEF FillLimitOrder
    <3> HIDE DEF o
    <3> QED BY <2>1, <2>2, <3>1, LeaveDriven
  <2>4. CASE FillMarketOrder /\ o.placed < tick
    <3>1. tick \in Nat /\ o.placed \in Nat
      BY <2>1, EngineAssumption, QueuedMembers DEF IInv, Numbered, Waiting
    <3>2. Leave(o, MarketOutcome(o), 0)
      BY <2>4, <3>1 DEF FillMarketOrder
    <3> HIDE DEF o
    <3> QED BY <2>1, <2>2, <3>2, LeaveDriven
  <2>5. CASE FillMarketOrder /\ ~(o.placed < tick)
    <3>1. tick \in Nat /\ o.placed \in Nat
      BY <2>1, EngineAssumption, QueuedMembers DEF IInv, Numbered, Waiting
    <3>2. /\ simulation' = simulation /\ tick' = tick /\ pc' = pc /\ pc = "market_orders"
          /\ roots' = roots /\ stack' = stack /\ visited' = visited /\ events' = events
      BY <2>5, <3>1 DEF FillMarketOrder, input
    <3>3. ToFire' /\ Unfired' = Unfired /\ BeforeSignals' = BeforeSignals
      BY <3>2 DEF ToFire, Unfired, BeforeSignals
    <3> QED BY <3>2, <3>3, IdleDriven
  <2> QED BY <1>1, <2>3, <2>4, <2>5
<1>2. CASE ExpireLimitOrder
  <2>1. Lapse(o) /\ UNCHANGED <<input, pc, todo, chain>>
    BY <1>2 DEF ExpireLimitOrder
  <2> HIDE DEF o
  <2> QED BY <2>1, LapseDriven
<1>3. CASE DrainResting
  <2>1. Lapse(Head(resting)) /\ UNCHANGED <<input, pc, todo, chain>>
    BY <1>3 DEF DrainResting
  <2> QED BY <2>1, LapseDriven
<1>4. CASE DrainPending
  <2>1. Lapse(Head(pending)) /\ UNCHANGED <<input, pc, todo, chain>>
    BY <1>4 DEF DrainPending
  <2> QED BY <2>1, LapseDriven
<1> QED BY <1>1, <1>2, <1>3, <1>4

\* A new tick has run nothing, and what it may start is all ahead.
LEMMA NextTickDriven ==
  ASSUME IInv, TInv, CInv, IInv', TInv', NextTick
  PROVE  CInv'
<1>1. /\ simulation' = simulation /\ tick' = tick + 1 /\ events' = events /\ pc' = "funding"
      /\ roots' = roots /\ stack' = stack /\ roots = <<>> /\ stack = <<>>
  BY DEF NextTick, chain, IInv, Staged, Idle
<1>2. tick \in Nat
  BY EngineAssumption DEF IInv, Numbered
<1>3. EventsOf({"filled"})' = EventsOf({"filled"}) /\ EventsOf({"executed", "filled"})' = EventsOf({"executed", "filled"})
      /\ Tried' = Tried /\ Starters' = Starters /\ Nodes' = Nodes
  BY <1>1 DEF EventsOf, Tried, Starters, Nodes
<1>4. Members(roots') = {} /\ Members(stack') = {}
  BY <1>1 DEF Members
<1>5. \A i \in DOMAIN events : events[i].at \in Nat /\ events[i].at <= tick
  BY DEF CInv, Driven
<1>6. Driven'
  <2>1. \A i \in DOMAIN events' : events'[i].at \in Nat /\ events'[i].at <= tick'
    BY <1>1, <1>2, <1>5
  <2>2. \A x \in (Members(roots) \cup Members(stack))' : Sourced(x)'
    BY <1>4 DEF Members
  <2> QED BY <1>1, <1>3, <2>1, <2>2 DEF CInv, Driven
<1>7. Tallied'
  <2>1. (IInv /\ TInv /\ Driven => Tallied)'
    BY Tallies, PTL
  <2> QED BY <1>6, <2>1
<1>8. ToFire' /\ BeforeSignals'
  BY <1>1 DEF ToFire, BeforeSignals
<1>9. ASSUME NEW n PROVE TriedNow(n)' = {}
  <2>1. \A i \in DOMAIN events : events'[i].at # tick'
    BY <1>1, <1>2, <1>5
  <2>2. \A i \in Tried' : i \in DOMAIN events
    BY <1>3 DEF Tried, EventsOf
  <2> QED BY <2>1, <2>2 DEF TriedNow
<1>10. Ahead' = ByInitial' + BySignals'
  <2>1. Unfired' = DOMAIN simulation'.signals
    BY <1>8 DEF Unfired
  <2>2. Cardinality(Spots(simulation.signals, Unfired))' = BySignals'
    BY <2>1 DEF BySignals, Spots
  <2>3. (IF tick = 1 /\ BeforeSignals THEN Len(simulation.initial) ELSE 0)' = ByInitial'
    BY <1>8 DEF ByInitial
  <2>4. Len(roots') = 0
    BY <1>1
  <2>5. Ahead' = Len(roots') + ByInitial' + BySignals'
    BY <2>2, <2>3 DEF Ahead
  <2> QED BY <1>7, <2>4, <2>5 DEF Tallied
<1>11. Ahead' <= Started'
  <2>1. (Started = ByInitial + BySignals + ByFills)'
    BY StartedInParts, PTL
  <2>2. Started' = ByInitial' + BySignals' + ByFills'
    BY <2>1
  <2>3. ByInitial' \in Nat /\ BySignals' \in Nat /\ ByFills' \in Nat
    BY <1>7 DEF Tallied
  <2> DEFINE a == ByInitial'
             b == BySignals'
             c == ByFills'
             ahead == Ahead'
             started == Started'
  <2>4. ahead = a + b /\ started = a + b + c /\ a \in Nat /\ b \in Nat /\ c \in Nat
    BY <1>10, <2>2, <2>3
  <2> HIDE DEF a, b, c, ahead, started
  <2>5. ahead <= started
    BY <2>4
  <2> QED BY <2>5 DEF ahead, started
<1>12. ASSUME NEW n \in Nodes PROVE Cardinality(TriedNow(n)') + MayRun(n)' + Ahead' <= Started'
  <2>1. Cardinality(TriedNow(n)') = 0
    BY <1>9, FS_EmptySet
  <2>2. MayRun(n)' = 0
    BY <1>1 DEF MayRun
  <2>3. Ahead' \in Nat /\ Started' \in Nat
    BY <1>7 DEF Tallied
  <2> DEFINE done == Cardinality(TriedNow(n)')
             may == MayRun(n)'
             ahead == Ahead'
             started == Started'
  <2>4. done = 0 /\ may = 0 /\ ahead \in Nat /\ started \in Nat /\ ahead <= started
    BY <1>11, <2>1, <2>2, <2>3
  <2> HIDE DEF done, may, ahead, started
  <2>5. done + may + ahead <= started
    BY <2>4
  <2> QED BY <2>5 DEF done, may, ahead, started
<1> QED BY <1>3, <1>6, <1>8, <1>12 DEF CInv, InBudget

\* A run starts with nothing on the way.
LEMMA InitDriven == Init => CInv
<1> SUFFICES ASSUME Init PROVE CInv
  OBVIOUS
<1>1. events = <<>> /\ roots = <<>> /\ stack = <<>> /\ pc = "next_tick" /\ tick = 0
  BY DEF Init
<1>2. Members(roots) = {} /\ Members(stack) = {} /\ DOMAIN events = {} /\ \A what : EventsOf(what) = {}
  BY <1>1 DEF Members, EventsOf
<1>3. Driven /\ ToFire
  BY <1>1, <1>2 DEF Driven, ToFire, Tried
<1>4. Tallied
  BY <1>3, InitInv, InitInTime, Tallies
<1>5. Unfired = {} /\ Spots(simulation.signals, {}) = {}
  BY <1>1 DEF Unfired, BeforeSignals, Spots
<1>6. Ahead = 0
  <2>1. Cardinality(Spots(simulation.signals, Unfired)) = 0
    BY <1>5, FS_EmptySet
  <2>2. Ahead = Len(roots) + 0 + Cardinality(Spots(simulation.signals, Unfired))
    BY <1>1 DEF Ahead
  <2> QED BY <1>1, <2>1, <2>2
<1>7. ASSUME NEW n PROVE Cardinality(TriedNow(n)) = 0 /\ MayRun(n) = 0
  <2>1. TriedNow(n) = {}
    BY <1>2 DEF TriedNow, Tried
  <2> QED BY <1>1, <2>1, FS_EmptySet DEF MayRun
<1> QED BY <1>3, <1>4, <1>6, <1>7 DEF CInv, InBudget, Tallied

\* Chains stay driven and within their budget.
LEMMA NextDriven == IInv /\ TInv /\ CInv /\ [Next]_vars => CInv'
<1> SUFFICES ASSUME IInv, TInv, CInv, [Next]_vars PROVE CInv'
  OBVIOUS
<1>0. IInv' /\ TInv'
  BY NextInv, NextInTime
<1>1. CASE \/ PhaseDone \/ ApplyFunding \/ ApplyYield \/ CheckLiquidation
           \/ BeginMarketOrders \/ BeginLimitOrders \/ KeepLimitOrder
           \/ BeginSnapshot \/ Snapshot \/ LastTick \/ DrainDone \/ UNCHANGED vars
  BY <1>0, <1>1, PhaseDriven
<1>2. CASE NextTick
  BY <1>0, <1>2, NextTickDriven
<1>3. CASE BeginSignals
  BY <1>0, <1>3, BeginSignalsDriven
<1>4. CASE FireSignal \/ PassSignal
  BY <1>0, <1>4, SignalDriven
<1>5. CASE StartChain \/ SkipAction
  BY <1>0, <1>5, ChainDriven
<1>6. CASE ExecuteAction \/ PlaceOrder \/ RefuseAction
  BY <1>0, <1>6, ActionDriven
<1>7. CASE FillMarketOrder \/ FillLimitOrder \/ ExpireLimitOrder \/ DrainResting \/ DrainPending
  BY <1>0, <1>7, OrdersDriven
<1>8. CASE Panic
  BY <1>0, <1>8, PanicDriven
<1> QED BY <1>1, <1>2, <1>3, <1>4, <1>5, <1>6, <1>7, <1>8 DEF Next, Tick, RunChain, Terminated

(* Whatever the graph, with cycles or without: an action runs because it was   *)
(* initial, the target of a signal, or behind an action that executed or an    *)
(* order that filled on the same tick; and on no tick does an action run more  *)
(* often than the tick started chains.                                         *)
THEOREM ChainsAreDriven == Spec => []ChainsFollowExecution
<1>1. Spec => []IInv
  BY InitInv, NextInv, PTL DEF Spec
<1>2. Spec => []TInv
  BY <1>1, InitInTime, NextInTime, PTL DEF Spec
<1>3. IInv /\ TInv /\ CInv => ChainsFollowExecution
  <2> SUFFICES ASSUME IInv, TInv, CInv PROVE ChainsFollowExecution
    OBVIOUS
  <2>1. ASSUME NEW n \in Nodes PROVE Cardinality(TriedNow(n)) <= Started
    <3>1. Cardinality(TriedNow(n)) + MayRun(n) + Ahead <= Started
      BY DEF CInv, InBudget
    <3>2. Cardinality(TriedNow(n)) \in Nat /\ MayRun(n) \in Nat /\ Ahead \in Nat /\ Started \in Nat
      BY Tallies DEF CInv, Tallied
    <3> QED BY <3>1, <3>2
  <2>2. \A i \in Tried :
          \/ events[i].node \in Starters
          \/ \E j \in EventsOf({"executed", "filled"}) :
               /\ j < i /\ events[j].at = events[i].at
               /\ events[i].node \in Members(simulation.chains[events[j].node])
    BY DEF CInv, Driven
  <2> QED BY <2>1, <2>2 DEF ChainsFollowExecution, Starters, TriedNow, Nodes
<1> QED BY <1>1, <1>2, <1>3, InitDriven, NextDriven, PTL DEF Spec
=============================================================================
