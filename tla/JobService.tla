----------------------------- MODULE JobService -----------------------------
(***************************************************************************)
(* The backtest service (src/crates/simulation-service): request handlers  *)
(* record a job and put its id on a bounded channel, a fixed pool of worker *)
(* tasks drains the channel, clients poll for the outcome and fetch the     *)
(* result (src/packages/client).  The job index and the channel are in the  *)
(* process's memory and shared by all threads; every access to the index    *)
(* takes its lock, and what lies between two accesses interleaves with the  *)
(* other handlers and workers.                                              *)
(***************************************************************************)
EXTENDS Integers, Sequences, FiniteSets

CONSTANTS
  Clients, Workers,
  QueueCapacity,    \* capacity of the channel, at least 1
  MaxRuns,          \* model bound: submissions in all
  MaxRestarts,      \* model bound: restarts of the process
  InlinePanics      \* whether a worker's own code, outside the engine, can panic

ASSUME JobServiceAssumption ==
  /\ QueueCapacity \in Nat \ {0}
  /\ MaxRuns \in Nat /\ MaxRestarts \in Nat
  /\ InlinePanics \in BOOLEAN

VARIABLES
  jobs,       \* the index: id -> [status, hasResult]
  queue,      \* ids on the channel
  counter,    \* the next run id
  workers,    \* [at, id] per worker task
  clients,    \* [at, id] per client
  restarts

vars == <<jobs, queue, counter, workers, clients, restarts>>

NoId == -1
Ids == 0 .. MaxRuns - 1

Terminal == {"succeeded", "failed"}

\* Where a worker can be, and where a client can be; the last row is how a call of
\* `run` can end.
WorkerAt == {"idle", "received", "taken", "loading", "engine", "summarizing", "storing", "failing", "dead"}
ClientEnds == {"done", "failed", "refused", "timed_out", "not_found", "not_ready", "unreachable"}
ClientAt == {"idle", "sending", "refusing", "polling", "fetching"} \cup ClientEnds

Put(f, k, v) == [x \in DOMAIN f \cup {k} |-> IF x = k THEN v ELSE f[x]]
Drop(f, k) == [x \in DOMAIN f \ {k} |-> f[x]]

Init ==
  /\ jobs = <<>>
  /\ queue = <<>>
  /\ counter = 0
  /\ workers = [w \in Workers |-> [at |-> "idle", id |-> NoId]]
  /\ clients = [c \in Clients |-> [at |-> "idle", id |-> NoId]]
  /\ restarts = 0

ClientGoes(c, at, id) == clients' = [clients EXCEPT ![c] = [at |-> at, id |-> id]]
WorkerGoes(w, at) == workers' = [workers EXCEPT ![w].at = at]

----------------------------------------------------------------------------
(* Submission. The job is recorded before its id is sent, so that no worker *)
(* can receive an id it does not find.                                      *)

Queued == [status |-> "queued", hasResult |-> FALSE]

Record(c) ==
  /\ clients[c].at = "idle" /\ counter < MaxRuns
  /\ jobs' = Put(jobs, counter, Queued)
  /\ counter' = counter + 1
  /\ ClientGoes(c, "sending", counter)
  /\ UNCHANGED <<queue, workers, restarts>>

Send_Unbounded(c) ==
  /\ clients[c].at = "sending"
  /\ queue' = Append(queue, clients[c].id)
  /\ ClientGoes(c, "polling", clients[c].id)
  /\ UNCHANGED <<jobs, counter, workers, restarts>>

Send(c) ==
  /\ clients[c].at = "sending" /\ Len(queue) < QueueCapacity
  /\ queue' = Append(queue, clients[c].id)
  /\ ClientGoes(c, "polling", clients[c].id)
  /\ UNCHANGED <<jobs, counter, workers, restarts>>

SendFails(c) ==
  /\ clients[c].at = "sending" /\ Len(queue) = QueueCapacity
  /\ ClientGoes(c, "refusing", clients[c].id)
  /\ UNCHANGED <<jobs, queue, counter, workers, restarts>>

Refuse_LeavesRecord(c) ==
  /\ clients[c].at = "refusing"
  /\ ClientGoes(c, "refused", clients[c].id)
  /\ UNCHANGED <<jobs, queue, counter, workers, restarts>>

Refuse(c) ==
  /\ clients[c].at = "refusing"
  /\ jobs' = Drop(jobs, clients[c].id)
  /\ ClientGoes(c, "refused", clients[c].id)
  /\ UNCHANGED <<queue, counter, workers, restarts>>

----------------------------------------------------------------------------
(* Polling and fetching.                                                    *)

Known(c) == clients[c].id \in DOMAIN jobs
StatusSeen(c) == jobs[clients[c].id].status

\* A poll that finds the run unfinished is followed by another, unless the
\* deadline has passed.
PollEnds_StopsOnSuccess(c) ==
  /\ clients[c].at = "polling"
  /\ IF Known(c)
     THEN /\ StatusSeen(c) = "succeeded"
          /\ ClientGoes(c, "fetching", clients[c].id)
     ELSE ClientGoes(c, "not_found", clients[c].id)
  /\ UNCHANGED <<jobs, queue, counter, workers, restarts>>

PollEnds(c) ==
  /\ clients[c].at = "polling"
  /\ IF Known(c)
     THEN /\ StatusSeen(c) \in Terminal
          /\ ClientGoes(c, IF StatusSeen(c) = "failed" THEN "failed" ELSE "fetching", clients[c].id)
     ELSE ClientGoes(c, "not_found", clients[c].id)
  /\ UNCHANGED <<jobs, queue, counter, workers, restarts>>

TimeOut(c) ==
  /\ clients[c].at = "polling"
  /\ Known(c) /\ StatusSeen(c) \notin Terminal
  /\ ClientGoes(c, "timed_out", clients[c].id)
  /\ UNCHANGED <<jobs, queue, counter, workers, restarts>>

Fetch(c) ==
  /\ clients[c].at = "fetching"
  /\ ClientGoes(c, IF ~Known(c) THEN "not_found"
                   ELSE IF StatusSeen(c) = "failed" THEN "failed"
                   ELSE IF StatusSeen(c) = "succeeded" /\ jobs[clients[c].id].hasResult THEN "done"
                   ELSE "not_ready",
                clients[c].id)
  /\ UNCHANGED <<jobs, queue, counter, workers, restarts>>

\* An answer that does not arrive in the time the HTTP client allows for a request
\* ends the call; the service does not notice.
LoseAnswer(c) ==
  /\ clients[c].at \in {"polling", "fetching"}
  /\ ClientGoes(c, "unreachable", clients[c].id)
  /\ UNCHANGED <<jobs, queue, counter, workers, restarts>>

\* The client's user may submit another run.
Resubmit(c) ==
  /\ clients[c].at \in ClientEnds
  /\ ClientGoes(c, "idle", NoId)
  /\ UNCHANGED <<jobs, queue, counter, workers, restarts>>

----------------------------------------------------------------------------
(* The workers.                                                             *)

Receive_Peeks(w) ==
  /\ workers[w].at = "idle" /\ queue # <<>>
  /\ workers' = [workers EXCEPT ![w] = [at |-> "received", id |-> Head(queue)]]
  /\ UNCHANGED <<jobs, queue, counter, clients, restarts>>

Receive(w) ==
  /\ workers[w].at = "idle" /\ queue # <<>>
  /\ workers' = [workers EXCEPT ![w] = [at |-> "received", id |-> Head(queue)]]
  /\ queue' = Tail(queue)
  /\ UNCHANGED <<jobs, counter, clients, restarts>>

\* The worker copies the job out of the index; without one it goes back to the
\* channel.
Take(w) ==
  /\ workers[w].at = "received"
  /\ WorkerGoes(w, IF workers[w].id \in DOMAIN jobs THEN "taken" ELSE "idle")
  /\ UNCHANGED <<jobs, queue, counter, clients, restarts>>

\* An update of a job that is not in the index does nothing.
Update(w, job) ==
  jobs' = IF workers[w].id \in DOMAIN jobs THEN [jobs EXCEPT ![workers[w].id] = job] ELSE jobs

MarkRunning(w) ==
  /\ workers[w].at = "taken"
  /\ Update(w, [status |-> "running", hasResult |-> FALSE])
  /\ WorkerGoes(w, "loading")
  /\ UNCHANGED <<queue, counter, clients, restarts>>

\* Compiling the graph, loading the data, and summarizing run on the worker task,
\* the engine on a thread of its own, whose panic the worker sees as an error.
Load(w) ==
  /\ workers[w].at = "loading"
  /\ \E next \in {"engine", "failing"} : WorkerGoes(w, next)
  /\ UNCHANGED <<jobs, queue, counter, clients, restarts>>

RunEngine(w) ==
  /\ workers[w].at = "engine"
  /\ \E next \in {"summarizing", "failing"} : WorkerGoes(w, next)
  /\ UNCHANGED <<jobs, queue, counter, clients, restarts>>

Summarize(w) ==
  /\ workers[w].at = "summarizing"
  /\ WorkerGoes(w, "storing")
  /\ UNCHANGED <<jobs, queue, counter, clients, restarts>>

Die(w) ==
  /\ InlinePanics
  /\ workers[w].at \in {"loading", "summarizing"}
  /\ WorkerGoes(w, "dead")
  /\ UNCHANGED <<jobs, queue, counter, clients, restarts>>

\* A client could see the status without the result (ImplementsRunRegistry).
Store_ResultLater(w) ==
  /\ workers[w].at = "storing"
  /\ LET stored == workers[w].id \in DOMAIN jobs /\ jobs[workers[w].id].status = "succeeded"
     IN  /\ Update(w, [status |-> "succeeded", hasResult |-> stored])
         /\ WorkerGoes(w, IF stored THEN "idle" ELSE "storing")
  /\ UNCHANGED <<queue, counter, clients, restarts>>

\* Status and result are stored under one lock.
Store(w) ==
  /\ workers[w].at = "storing"
  /\ Update(w, [status |-> "succeeded", hasResult |-> TRUE])
  /\ WorkerGoes(w, "idle")
  /\ UNCHANGED <<queue, counter, clients, restarts>>

Fail_Silently(w) ==
  /\ workers[w].at = "failing"
  /\ WorkerGoes(w, "idle")
  /\ UNCHANGED <<jobs, queue, counter, clients, restarts>>

Fail(w) ==
  /\ workers[w].at = "failing"
  /\ Update(w, [status |-> "failed", hasResult |-> FALSE])
  /\ WorkerGoes(w, "idle")
  /\ UNCHANGED <<queue, counter, clients, restarts>>

\* An id made of the counter alone.
Restart_CountsAnew ==
  /\ restarts < MaxRestarts
  /\ restarts' = restarts + 1
  /\ jobs' = <<>>
  /\ queue' = <<>>
  /\ counter' = 0
  /\ workers' = [w \in Workers |-> [at |-> "idle", id |-> NoId]]
  /\ clients' = [c \in Clients |->
                   IF clients[c].at \in {"sending", "refusing"}
                   THEN [clients[c] EXCEPT !.at = "unreachable"] ELSE clients[c]]

\* The process is stopped and started again: index, channel and worker tasks are
\* new, calls in progress break off, ids go on (they contain the time).
Restart ==
  /\ restarts < MaxRestarts
  /\ restarts' = restarts + 1
  /\ jobs' = <<>>
  /\ queue' = <<>>
  /\ workers' = [w \in Workers |-> [at |-> "idle", id |-> NoId]]
  /\ clients' = [c \in Clients |->
                   IF clients[c].at \in {"sending", "refusing"}
                   THEN [clients[c] EXCEPT !.at = "unreachable"] ELSE clients[c]]
  /\ UNCHANGED counter

Handle(c) == Record(c) \/ Send(c) \/ SendFails(c) \/ Refuse(c)
Follow(c) == PollEnds(c) \/ TimeOut(c) \/ Fetch(c)
Work(w) ==
  \/ Receive(w) \/ Take(w) \/ MarkRunning(w) \/ Load(w) \/ RunEngine(w) \/ Summarize(w)
  \/ Die(w) \/ Store(w) \/ Fail(w)

Next ==
  \/ \E c \in Clients : Handle(c) \/ Follow(c) \/ LoseAnswer(c) \/ Resubmit(c)
  \/ \E w \in Workers : Work(w)
  \/ Restart

\* A handler that was called and a worker that has something to do go on: the
\* runtime schedules every task that is ready. A client polls until it may stop.
\* Nobody need submit anything, and the process need not be restarted.
Fairness ==
  /\ \A c \in Clients : WF_vars(Send(c) \/ SendFails(c) \/ Refuse(c)) /\ WF_vars(Follow(c))
  /\ \A w \in Workers : WF_vars(Work(w))

Spec == Init /\ [][Next]_vars /\ Fairness

----------------------------------------------------------------------------
(* Properties.                                                              *)

InQueue(id) == \E i \in DOMAIN queue : queue[i] = id

Holders(id) == {w \in Workers : workers[w].at \notin {"idle", "dead"} /\ workers[w].id = id}

Submitting(id) == \E c \in Clients : clients[c].at \in {"sending", "refusing"} /\ clients[c].id = id

\* Type invariant: a job's status is one the API knows, and workers and clients
\* are where the code can be.
TypeOK ==
  /\ DOMAIN jobs \subseteq Ids
  /\ \A id \in DOMAIN jobs :
       jobs[id] \in [status : {"queued", "running"} \cup Terminal, hasResult : BOOLEAN]
  /\ queue \in Seq(Ids) /\ Len(queue) <= QueueCapacity
  /\ counter \in 0 .. MaxRuns
  /\ workers \in [Workers -> [at : WorkerAt, id : Ids \cup {NoId}]]
  /\ clients \in [Clients -> [at : ClientAt, id : Ids \cup {NoId}]]
  /\ restarts \in 0 .. MaxRestarts

\* No job is lost between the index and the pool: a recorded job that has not
\* finished is being submitted, or its id is on the channel, or a worker has it,
\* in exactly one of these places and once, unless its worker died.
UnfinishedJobsAreSomewhere ==
  \A id \in DOMAIN jobs :
    jobs[id].status \notin Terminal =>
      LET onChannel == Cardinality({i \in DOMAIN queue : queue[i] = id})
          submitting == IF Submitting(id) THEN 1 ELSE 0
          died == \E w \in Workers : workers[w].at = "dead" /\ workers[w].id = id
      IN  onChannel + submitting + Cardinality(Holders(id)) = (IF died THEN 0 ELSE 1)

\* A worker always finds the job of an id it received (state.rs, `submit` records
\* before it sends), and a refused submission is not recorded once its caller has
\* been told and never reaches a worker ("the job is not recorded in that case",
\* state.rs), also when submissions that fit and that do not interleave.
ReceivedJobsAreKnown ==
  /\ \A w \in Workers :
       workers[w].at \notin {"idle", "dead"} => workers[w].id \in DOMAIN jobs
  /\ \A c \in Clients : clients[c].at \in {"refusing", "refused"} =>
       /\ ~InQueue(clients[c].id) /\ Holders(clients[c].id) = {}
       /\ clients[c].at = "refused" => clients[c].id \notin DOMAIN jobs

\* What a client is told is true of its own run, and stays so: "failed" and a result are
\* about a job that has so ended, the result is there when the status has said so
\* (never "no_result"), the run is unknown only once the process was restarted, and
\* nobody else's run is answered for it, before or after a restart. Status and result
\* are read in two requests, between which handlers, workers and restarts go on.
AnswersAreTrue ==
  \A c \in Clients :
    LET id == clients[c].id
        at == clients[c].at
    IN  /\ at # "not_ready"
        /\ at = "not_found" => restarts > 0
        /\ at \in {"polling", "fetching", "done", "failed"} => id \in DOMAIN jobs \/ restarts > 0
        /\ id \in DOMAIN jobs =>
             /\ at \in {"fetching", "done"} => jobs[id].status = "succeeded" /\ jobs[id].hasResult
             /\ at = "failed" => jobs[id].status = "failed"
        /\ \A d \in Clients : id # NoId /\ clients[d].id = id => d = c

RR == INSTANCE RunRegistry WITH
        status <- [id \in DOMAIN jobs |-> jobs[id].status],
        used <- 0 .. counter - 1,
        results <- {id \in DOMAIN jobs : jobs[id].hasResult}

\* A run goes through queued, running and one final status, whatever handlers and
\* workers interleave; whoever sees that it succeeded can fetch its result; and an id
\* is never given twice, over a restart too.
ImplementsRunRegistry == RR!Spec

\* Whether the worker that had a job died with it, or every worker has died.
WorkersDied(id) ==
  \/ \E w \in Workers : workers[w].at = "dead" /\ workers[w].id = id
  \/ \A w \in Workers : workers[w].at = "dead"

\* A job that was sent to the pool finishes, whatever the other jobs do, as long as
\* a worker is left; only a restart forgets it.
SentJobsFinish ==
  \A id \in Ids :
    InQueue(id) ~> (id \in DOMAIN jobs => jobs[id].status \in Terminal) \/ WorkersDied(id)

\* The call of every client ends, with the result, an error or at its deadline, also
\* when its worker dies or the process is restarted under it.
CallsEnd == \A c \in Clients : clients[c].at = "sending" ~> clients[c].at \in ClientEnds

\* "Run status: queued -> running -> succeeded/failed" (README of the service): a
\* running job ends, even when what runs on the worker task itself panics.
RunningJobsFinish ==
  \A id \in Ids :
    (id \in DOMAIN jobs /\ jobs[id].status = "running")
      ~> (id \in DOMAIN jobs => jobs[id].status \in Terminal)
=============================================================================
