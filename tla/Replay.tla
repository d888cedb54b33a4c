------------------------------- MODULE Replay -------------------------------
(***************************************************************************)
(* What a backtest promises of the data it replays ("deterministic replay   *)
(* over historical market data", docs/system-design.md). The history is the *)
(* data sent along, or all that the files found have, of the series asked   *)
(* for, from some time before the start to the end: nothing but what is     *)
(* asked for and which files are found is left open. It is fixed before the *)
(* first tick, and has for each series the times of its rows. The candles   *)
(* of the span set the clock, every tick is a time of the history or the    *)
(* start, each time comes once and in order, and a run that ends has left   *)
(* none out.                                                                *)
(***************************************************************************)
EXTENDS Integers

CONSTANT None

VARIABLES
  request,  \* its files, each [series, file], and its start and end
  asked,    \* the series to gather and from when, None if the data was sent along
  missed,   \* the files that are not found
  history,  \* the rows there are, each [series, ts]
  clock,    \* the times to replay yet
  now,      \* the time replayed last, None before
  status    \* asking, gathering, gathered, replaying, ended or stopped

vars == <<request, asked, missed, history, clock, now, status>>

Rows(files) ==
  UNION {{[series |-> f.series, ts |-> f.file.rows[i]] : i \in DOMAIN f.file.rows} : f \in files}

InSpan(rows) == {r \in rows : request.start <= r.ts /\ r.ts <= request.end}

TimesOf(rows) == {r.ts : r \in rows}

Init ==
  /\ request.start <= request.end
  /\ asked = None
  /\ missed = {}
  /\ history = {}
  /\ clock = {}
  /\ now = None
  /\ status = "asking"

\* The data came with the request.
Bring ==
  /\ status = "asking"
  /\ history' = Rows(request.files)
  /\ status' = "gathered"
  /\ UNCHANGED <<request, asked, missed, clock, now>>

Ask ==
  /\ status = "asking" /\ status' = "gathering"
  /\ asked'.from <= request.start
  /\ UNCHANGED <<request, missed, history, clock, now>>

PassOver ==
  /\ status = "gathering"
  /\ missed \subseteq missed' /\ missed' \subseteq request.files
  /\ UNCHANGED <<request, asked, history, clock, now, status>>

Gather ==
  /\ status = "gathering"
  /\ history' = {r \in Rows(request.files \ missed) :
                   r.series \in asked.series /\ asked.from <= r.ts /\ r.ts <= request.end}
  /\ status' = "gathered"
  /\ UNCHANGED <<request, asked, missed, clock, now>>

Begin ==
  /\ status = "gathered"
  /\ TimesOf({r \in InSpan(history) : r.series.kind = "candle"}) \subseteq clock'
  /\ clock' \subseteq TimesOf(InSpan(history)) \cup {request.start}
  /\ clock' # {}
  /\ status' = "replaying"
  /\ UNCHANGED <<request, asked, missed, history, now>>

Tick ==
  /\ status = "replaying"
  /\ now' \in clock /\ \A t \in clock : now' <= t
  /\ clock' = clock \ {now'}
  /\ UNCHANGED <<request, asked, missed, history, status>>

End ==
  /\ status = "replaying" /\ clock = {}
  /\ status' = "ended"
  /\ UNCHANGED <<request, asked, missed, history, clock, now>>

\* A request that is refused, data that cannot be read, a panic.
Stop ==
  /\ status \in {"asking", "gathering", "gathered", "replaying"}
  /\ status' = "stopped"
  /\ UNCHANGED <<request, asked, missed, history, clock, now>>

Next == Bring \/ Ask \/ PassOver \/ Gather \/ Begin \/ Tick \/ End \/ Stop

Spec == Init /\ [][Next]_vars
=============================================================================
