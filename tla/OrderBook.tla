------------------------------ MODULE OrderBook ------------------------------
(***************************************************************************)
(* What the engine promises of an order that does not execute at once, be  *)
(* it a resting limit order or a market order deferred to the next bar:    *)
(* it is open from its placement until it is settled, filled, rejected or  *)
(* expired; while the run goes on it settles on a later tick than the one   *)
(* it was placed on; it settles once; and the run closes with none open.   *)
(***************************************************************************)
EXTENDS Integers

CONSTANTS OrderIds, Ticks

VARIABLES
  now,       \* the current tick
  open,      \* order id -> tick of placement
  settled,   \* the orders that are no longer open
  status     \* running, closing (no more ticks) or closed

vars == <<now, open, settled, status>>

Init ==
  /\ now = 0
  /\ open = <<>>
  /\ settled = {}
  /\ status = "running"

Advance ==
  /\ status = "running" /\ now < Ticks
  /\ now' = now + 1
  /\ UNCHANGED <<open, settled, status>>

Place(o) ==
  /\ status = "running" /\ now > 0
  /\ o \notin DOMAIN open /\ o \notin settled
  /\ open' = [x \in DOMAIN open \cup {o} |-> IF x = o THEN now ELSE open[x]]
  /\ UNCHANGED <<now, settled, status>>

Settle(o) ==
  /\ o \in DOMAIN open
  /\ \/ status = "running" /\ open[o] < now
     \/ status = "closing"
  /\ open' = [x \in DOMAIN open \ {o} |-> open[x]]
  /\ settled' = settled \cup {o}
  /\ UNCHANGED <<now, status>>

Close ==
  /\ \/ status = "running" /\ now = Ticks /\ status' = "closing"
     \/ status = "closing" /\ open = <<>> /\ status' = "closed"
  /\ UNCHANGED <<now, open, settled>>

Next ==
  \/ Advance \/ Close
  \/ \E o \in OrderIds : Place(o) \/ Settle(o)

Spec == Init /\ [][Next]_vars
=============================================================================
