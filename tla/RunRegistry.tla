----------------------------- MODULE RunRegistry -----------------------------
(***************************************************************************)
(* What the backtest service promises of a run (README of the service, the *)
(* submit, poll, fetch contract): a run is queued, then running, then       *)
(* succeeded or failed, in that order and once; a submission that is        *)
(* refused is withdrawn before it ever runs; the result is there as soon as  *)
(* the run is seen to have succeeded; an id is never used again.            *)
(* The registry is in memory, so a restart of the process forgets every run.*)
(***************************************************************************)
CONSTANT Ids

VARIABLES
  status,   \* id -> queued, running, succeeded or failed
  used,     \* the ids ever given to a run
  results   \* the ids whose result can be fetched

vars == <<status, used, results>>

Init ==
  /\ status = <<>>
  /\ used = {}
  /\ results = {}

Submit(id) ==
  /\ id \notin used
  /\ used' = used \cup {id}
  /\ status' = [x \in DOMAIN status \cup {id} |-> IF x = id THEN "queued" ELSE status[x]]
  /\ UNCHANGED results

Withdraw(id) ==
  /\ id \in DOMAIN status /\ status[id] = "queued"
  /\ status' = [x \in DOMAIN status \ {id} |-> status[x]]
  /\ UNCHANGED <<used, results>>

Start(id) ==
  /\ id \in DOMAIN status /\ status[id] = "queued"
  /\ status' = [status EXCEPT ![id] = "running"]
  /\ UNCHANGED <<used, results>>

Finish(id) ==
  /\ id \in DOMAIN status /\ status[id] = "running"
  /\ \/ /\ status' = [status EXCEPT ![id] = "succeeded"]
        /\ results' = results \cup {id}
     \/ /\ status' = [status EXCEPT ![id] = "failed"]
        /\ UNCHANGED results
  /\ UNCHANGED used

Restart ==
  /\ status' = <<>>
  /\ results' = {}
  /\ UNCHANGED used

Next ==
  \/ Restart
  \/ \E id \in Ids : Submit(id) \/ Withdraw(id) \/ Start(id) \/ Finish(id)

Spec == Init /\ [][Next]_vars
=============================================================================
