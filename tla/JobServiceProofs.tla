-------------------------- MODULE JobServiceProofs --------------------------
(* Proofs about the job service, for every number of clients, workers and     *)
(* submissions and every capacity of the channel. The inductive invariant     *)
(* follows an id from place to place: a handler that submits it, the channel, *)
(* a worker. No id is in two places, the place says the status, and a job     *)
(* that has not finished is in one.                                           *)
EXTENDS JobService, FiniteSetTheorems, TLAPS

\* The handler of a call still answers for the id it recorded.
Submits(c) == clients[c].at \in {"sending", "refusing"}

\* A dead worker still stands for the job it died with.
Busy(w) == workers[w].at # "idle"

\* No id is in two places, nor twice in one.
Apart ==
  /\ \A i, j \in DOMAIN queue : queue[i] = queue[j] => i = j
  /\ \A w, v \in Workers : Busy(w) /\ Busy(v) /\ workers[w].id = workers[v].id => w = v
  /\ \A c, d \in Clients : Submits(c) /\ Submits(d) /\ clients[c].id = clients[d].id => c = d
  /\ \A i \in DOMAIN queue, w \in Workers : Busy(w) => workers[w].id # queue[i]
  /\ \A i \in DOMAIN queue, c \in Clients : Submits(c) => clients[c].id # queue[i]
  /\ \A w \in Workers, c \in Clients : Submits(c) /\ Busy(w) => clients[c].id # workers[w].id

\* A job is recorded, with this status.
Is(id, status) == id \in DOMAIN jobs /\ jobs[id].status = status

\* The place of an id determines the status of its job.
Held ==
  /\ \A c \in Clients : Submits(c) => Is(clients[c].id, "queued")
  /\ \A i \in DOMAIN queue : Is(queue[i], "queued")
  /\ \A w \in Workers :
       Busy(w) => Is(workers[w].id, IF workers[w].at \in {"received", "taken"} THEN "queued" ELSE "running")

\* A job that has not finished is in a place.
Placed ==
  \A id \in DOMAIN jobs :
    jobs[id].status \notin Terminal =>
      \/ InQueue(id)
      \/ \E c \in Clients : Submits(c) /\ clients[c].id = id
      \/ \E w \in Workers : Busy(w) /\ workers[w].id = id

\* A result is there if and only if the run has succeeded.
Resulted == \A id \in DOMAIN jobs : jobs[id].hasResult <=> jobs[id].status = "succeeded"

\* Ids given out are below the counter; one that was refused is never seen again.
Given ==
  /\ \A id \in DOMAIN jobs : id < counter
  /\ \A c \in Clients : clients[c].at = "refused" =>
       clients[c].id < counter /\ clients[c].id \notin DOMAIN jobs

IInv == TypeOK /\ Apart /\ Held /\ Placed /\ Resulted /\ Given

-----------------------------------------------------------------------------

\* A worker that goes on to another place keeps the types.
LEMMA WorkerGoesType ==
  ASSUME TypeOK, NEW w \in Workers, NEW at \in WorkerAt, workers' = [workers EXCEPT ![w].at = at],
         UNCHANGED <<jobs, queue, counter, clients, restarts>>
  PROVE  TypeOK'
<1>1. workers'  \in [Workers -> [at : WorkerAt, id : Ids \cup {NoId}]]
  BY DEF TypeOK
<1>2. DOMAIN jobs' = DOMAIN jobs /\ \A id \in DOMAIN jobs : jobs'[id] = jobs[id]
  OBVIOUS
<1> QED BY <1>1, <1>2 DEF TypeOK

\* The service starts with no job, no id given out and every worker idle.
LEMMA InitInv == Init => IInv
<1> SUFFICES ASSUME Init PROVE IInv
  OBVIOUS
<1> USE JobServiceAssumption DEF Init
<1>0. DOMAIN jobs = {} /\ DOMAIN queue = {} /\ queue \in Seq(Ids) /\ Len(queue) = 0
  OBVIOUS
<1>1. TypeOK
  BY <1>0 DEF TypeOK, WorkerAt, ClientAt, ClientEnds
<1>2. Apart
  BY <1>0 DEF Apart, Busy, Submits
<1>3. Held
  BY <1>0 DEF Held, Busy, Submits
<1>4. Placed /\ Resulted /\ Given
  BY <1>0 DEF Placed, Resulted, Given
<1> QED BY <1>1, <1>2, <1>3, <1>4 DEF IInv

\* A job is recorded under a fresh id.
LEMMA RecordInv ==
  ASSUME IInv, NEW c \in Clients, Record(c)
  PROVE  IInv'
<1> USE JobServiceAssumption DEF IInv, Record, ClientGoes, Queued, Put
<1>1. TypeOK'
  BY DEF TypeOK, Ids, NoId, Terminal, WorkerAt, ClientAt, ClientEnds
<1>2. Apart'
  BY DEF Apart, Busy, Submits, TypeOK, Held, Given, Is
<1>3. Held'
  BY DEF Held, Is, Busy, Submits, TypeOK, Apart, Given
<1>4. Placed'
  BY DEF Placed, InQueue, Busy, Submits, TypeOK, Apart, Held, Is, Terminal
<1>5. Resulted'
  BY DEF Resulted, TypeOK, Held, Is, Busy
<1>6. Given'
  <2>1. counter \in Nat /\ counter' = counter + 1 /\ \A id \in Ids : id \in Nat
    BY DEF TypeOK, Ids
  <2>2. \A id \in DOMAIN jobs' : id < counter'
    <3>1. \A id \in DOMAIN jobs' : id \in DOMAIN jobs \/ id = counter
      OBVIOUS
    <3>2. \A id \in DOMAIN jobs : id \in Nat /\ id < counter
      BY <2>1 DEF TypeOK, Given
    <3> QED BY <2>1, <3>1, <3>2
  <2>3. ASSUME NEW d \in Clients, clients'[d].at = "refused"
        PROVE  clients'[d].id < counter' /\ clients'[d].id \notin DOMAIN jobs'
    <3>1. clients'[d] = clients[d]
      BY <2>3 DEF TypeOK
    <3>2. clients[d].id \in Int /\ clients[d].id < counter /\ clients[d].id \notin DOMAIN jobs
      BY <2>3, <3>1 DEF TypeOK, Given, Ids, NoId
    <3> QED BY <2>1, <3>1, <3>2
  <2> QED BY <2>2, <2>3 DEF Given
<1> QED BY <1>1, <1>2, <1>3, <1>4, <1>5, <1>6

\* An id goes from the handler to the channel.
LEMMA SendInv ==
  ASSUME IInv, NEW c \in Clients, Send(c)
  PROVE  IInv'
<1> USE JobServiceAssumption DEF IInv, Send, ClientGoes
<1>0. /\ queue' \in Seq(Ids) /\ Len(queue') = Len(queue) + 1
      /\ queue'[Len(queue) + 1] = clients[c].id /\ Len(queue) + 1 \in DOMAIN queue'
      /\ \A i \in DOMAIN queue : i \in DOMAIN queue' /\ queue'[i] = queue[i]
  <2>1. queue \in Seq(Ids) /\ clients[c].id \in Ids
    BY DEF TypeOK, Held, Is, Submits
  <2> QED BY <2>1
<1>1. TypeOK'
  BY <1>0 DEF TypeOK, ClientAt, ClientEnds
<1>2. Apart'
  BY DEF Apart, Busy, Submits, TypeOK, Held, Given, Is
<1>3. Held'
  BY DEF Held, Is, Busy, Submits, TypeOK, Apart, Given
<1>4. Placed'
  <2>1. \A d \in Clients : Submits(d) => d = c \/ (Submits(d)' /\ clients'[d].id = clients[d].id)
    BY DEF TypeOK, Submits
  <2>2. \A id : InQueue(id) \/ id = clients[c].id => InQueue(id)'
    BY <1>0 DEF InQueue
  <2> QED BY <2>1, <2>2 DEF Placed, Busy
<1>5. Resulted'
  BY DEF Resulted, TypeOK, Held, Is, Busy
<1>6. Given'
  BY DEF Given, TypeOK, Ids, Held, Is, Submits, ClientEnds
<1> QED BY <1>1, <1>2, <1>3, <1>4, <1>5, <1>6

\* The handler keeps an id that does not fit.
LEMMA SendFailsInv ==
  ASSUME IInv, NEW c \in Clients, SendFails(c)
  PROVE  IInv'
<1> USE JobServiceAssumption DEF IInv, SendFails, ClientGoes
<1>1. TypeOK'
  BY DEF TypeOK, Ids, NoId, Terminal, WorkerAt, ClientAt, ClientEnds
<1>2. Apart'
  BY DEF Apart, Busy, Submits, TypeOK, Held, Given, Is
<1>3. Held'
  BY DEF Held, Is, Busy, Submits, TypeOK, Apart, Given
<1>4. Placed'
  BY DEF Placed, InQueue, Busy, Submits, TypeOK, Apart, Held, Is, Terminal
<1>5. Resulted'
  BY DEF Resulted, TypeOK, Held, Is, Busy
<1>6. Given'
  BY DEF Given, TypeOK, Ids, Held, Is, Submits, ClientEnds
<1> QED BY <1>1, <1>2, <1>3, <1>4, <1>5, <1>6

\* The record of a refused id is removed.
LEMMA RefuseInv ==
  ASSUME IInv, NEW c \in Clients, Refuse(c)
  PROVE  IInv'
<1> USE JobServiceAssumption DEF IInv, Refuse, ClientGoes, Drop
<1>1. TypeOK'
  BY DEF TypeOK, Ids, NoId, Terminal, WorkerAt, ClientAt, ClientEnds
<1>2. Apart'
  BY DEF Apart, Busy, Submits, TypeOK, Held, Given, Is
<1>3. Held'
  BY DEF Held, Is, Busy, Submits, TypeOK, Apart, Given
<1>4. Placed'
  BY DEF Placed, InQueue, Busy, Submits, TypeOK, Apart, Held, Is, Terminal
<1>5. Resulted'
  BY DEF Resulted, TypeOK, Held, Is, Busy
<1>6. Given'
  BY DEF Given, TypeOK, Ids, Held, Is, Submits, ClientEnds
<1> QED BY <1>1, <1>2, <1>3, <1>4, <1>5, <1>6

\* Polling only reads the index.
LEMMA PollEndsInv ==
  ASSUME IInv, NEW c \in Clients, PollEnds(c)
  PROVE  IInv'
<1>7. PICK at \in ClientAt \ {"idle", "sending", "refusing", "refused"} :
        clients' = [clients EXCEPT ![c] = [at |-> at, id |-> clients[c].id]]
  BY DEF PollEnds, ClientGoes, ClientAt, ClientEnds
<1>8. clients[c].at = "polling" /\ DOMAIN clients = Clients
  BY DEF PollEnds, IInv, TypeOK
<1>0. /\ \A d \in Clients : Submits(d)' <=> Submits(d)
      /\ \A d \in Clients : Submits(d) => clients'[d] = clients[d]
  BY <1>7, <1>8 DEF Submits
<1> USE JobServiceAssumption DEF IInv, PollEnds, ClientGoes, Known, StatusSeen
<1>1. TypeOK'
  <2>1. clients' \in [Clients -> [at : ClientAt, id : Ids \cup {NoId}]]
    BY <1>7 DEF TypeOK
  <2> QED BY <2>1 DEF TypeOK
<1>2. Apart'
  BY <1>0 DEF Apart, Busy
<1>3. Held'
  BY DEF Held, Is, Busy, Submits, TypeOK, Apart, Given
<1>4. Placed'
  BY <1>0 DEF Placed, InQueue, Busy
<1>5. Resulted'
  BY DEF Resulted, TypeOK, Held, Is, Busy
<1>6. Given'
  BY <1>7, <1>8 DEF Given
<1> QED BY <1>1, <1>2, <1>3, <1>4, <1>5, <1>6

\* A client that gives up leaves the job where it is.
LEMMA TimeOutInv ==
  ASSUME IInv, NEW c \in Clients, TimeOut(c)
  PROVE  IInv'
<1> USE JobServiceAssumption DEF IInv, TimeOut, ClientGoes
<1>1. TypeOK'
  BY DEF TypeOK, Ids, NoId, Terminal, WorkerAt, ClientAt, ClientEnds
<1>2. Apart'
  BY DEF Apart, Busy, Submits, TypeOK, Held, Given, Is
<1>3. Held'
  BY DEF Held, Is, Busy, Submits, TypeOK, Apart, Given
<1>4. Placed'
  BY DEF Placed, InQueue, Busy, Submits, TypeOK, Apart, Held, Is, Terminal
<1>5. Resulted'
  BY DEF Resulted, TypeOK, Held, Is, Busy
<1>6. Given'
  BY DEF Given, TypeOK, Ids, Held, Is, Submits, ClientEnds
<1> QED BY <1>1, <1>2, <1>3, <1>4, <1>5, <1>6

\* Fetching a result only reads the index.
LEMMA FetchInv ==
  ASSUME IInv, NEW c \in Clients, Fetch(c)
  PROVE  IInv'
<1> USE JobServiceAssumption DEF IInv, Fetch, ClientGoes
<1>1. TypeOK'
  BY DEF TypeOK, Ids, NoId, Terminal, WorkerAt, ClientAt, ClientEnds
<1>2. Apart'
  BY DEF Apart, Busy, Submits, TypeOK, Held, Given, Is
<1>3. Held'
  BY DEF Held, Is, Busy, Submits, TypeOK, Apart, Given
<1>4. Placed'
  BY DEF Placed, InQueue, Busy, Submits, TypeOK, Apart, Held, Is, Terminal
<1>5. Resulted'
  BY DEF Resulted, TypeOK, Held, Is, Busy
<1>6. Given'
  BY DEF Given, TypeOK, Ids, Held, Is, Submits, ClientEnds
<1> QED BY <1>1, <1>2, <1>3, <1>4, <1>5, <1>6

\* An answer lost on the way back does not touch the job it is about.
LEMMA LoseAnswerInv ==
  ASSUME IInv, NEW c \in Clients, LoseAnswer(c)
  PROVE  IInv'
<1> USE JobServiceAssumption DEF IInv, LoseAnswer, ClientGoes
<1>1. TypeOK'
  BY DEF TypeOK, Ids, NoId, Terminal, WorkerAt, ClientAt, ClientEnds
<1>2. Apart'
  BY DEF Apart, Busy, Submits, TypeOK, Held, Given, Is
<1>3. Held'
  BY DEF Held, Is, Busy, Submits, TypeOK, Apart, Given
<1>4. Placed'
  BY DEF Placed, InQueue, Busy, Submits, TypeOK, Apart, Held, Is, Terminal
<1>5. Resulted'
  BY DEF Resulted, TypeOK, Held, Is, Busy
<1>6. Given'
  BY DEF Given, TypeOK, Ids, Held, Is, Submits, ClientEnds
<1> QED BY <1>1, <1>2, <1>3, <1>4, <1>5, <1>6

\* A call made again gives up its claim on the earlier id.
LEMMA ResubmitInv ==
  ASSUME IInv, NEW c \in Clients, Resubmit(c)
  PROVE  IInv'
<1> USE JobServiceAssumption DEF IInv, Resubmit, ClientGoes, ClientEnds
<1>1. TypeOK'
  BY DEF TypeOK, Ids, NoId, Terminal, WorkerAt, ClientAt, ClientEnds
<1>2. Apart'
  BY DEF Apart, Busy, Submits, TypeOK, Held, Given, Is
<1>3. Held'
  BY DEF Held, Is, Busy, Submits, TypeOK, Apart, Given
<1>4. Placed'
  BY DEF Placed, InQueue, Busy, Submits, TypeOK, Apart, Held, Is, Terminal
<1>5. Resulted'
  BY DEF Resulted, TypeOK, Held, Is, Busy
<1>6. Given'
  BY DEF Given, TypeOK, Ids, Held, Is, Submits, ClientEnds
<1> QED BY <1>1, <1>2, <1>3, <1>4, <1>5, <1>6

\* An id goes from the channel to a worker.
LEMMA ReceiveInv ==
  ASSUME IInv, NEW w \in Workers, Receive(w)
  PROVE  IInv'
<1> USE JobServiceAssumption DEF IInv, Receive
<1>1. TypeOK'
  BY DEF TypeOK, Ids, NoId, Terminal, WorkerAt, ClientAt, ClientEnds
<1>2. Apart'
  BY DEF Apart, Busy, Submits, TypeOK, Held, Given, Is
<1>3. Held'
  BY DEF Held, Is, Busy, Submits, TypeOK, Apart, Given
<1>4. Placed'
  <2>1. /\ \A v \in Workers : Busy(v) => Busy(v)' /\ workers'[v].id = workers[v].id
        /\ Busy(w)' /\ workers'[w].id = Head(queue)
    BY DEF TypeOK, Busy
  <2>2. jobs' = jobs /\ clients' = clients
    OBVIOUS
  <2>3. \A id : InQueue(id) => InQueue(id)' \/ id = Head(queue)
    <3> SUFFICES ASSUME NEW i \in DOMAIN queue, i # 1 PROVE \E j \in DOMAIN queue' : queue'[j] = queue[i]
      BY DEF InQueue, TypeOK
    <3>1. i - 1 \in DOMAIN queue' /\ queue'[i - 1] = queue[i]
      BY DEF TypeOK
    <3> QED BY <3>1
  <2> QED BY <2>1, <2>2, <2>3 DEF Placed, Submits
<1>5. Resulted'
  BY DEF Resulted, TypeOK, Held, Is, Busy
<1>6. Given'
  BY DEF Given, TypeOK, Ids, Held, Is, Submits, ClientEnds
<1> QED BY <1>1, <1>2, <1>3, <1>4, <1>5, <1>6

\* The worker finds the job.
LEMMA TakeInv ==
  ASSUME IInv, NEW w \in Workers, Take(w)
  PROVE  IInv'
<1> USE JobServiceAssumption DEF IInv, Take, WorkerGoes
<1>1. TypeOK'
  BY WorkerGoesType DEF WorkerAt
<1>2. Apart'
  BY DEF Apart, Busy, Submits, TypeOK, Held, Given, Is
<1>3. Held'
  BY DEF Held, Is, Busy, Submits, TypeOK, Apart, Given
<1>4. Placed'
  BY DEF Placed, InQueue, Busy, Submits, TypeOK, Apart, Held, Is, Terminal
<1>5. Resulted'
  BY DEF Resulted, TypeOK, Held, Is, Busy
<1>6. Given'
  BY DEF Given, TypeOK, Ids, Held, Is, Submits, ClientEnds
<1> QED BY <1>1, <1>2, <1>3, <1>4, <1>5, <1>6

\* The status follows the worker that runs the job.
LEMMA MarkRunningInv ==
  ASSUME IInv, NEW w \in Workers, MarkRunning(w)
  PROVE  IInv'
<1> USE JobServiceAssumption DEF IInv, MarkRunning, WorkerGoes, Update
<1>1. TypeOK'
  BY DEF TypeOK, Ids, NoId, Terminal, WorkerAt, ClientAt, ClientEnds
<1>2. Apart'
  BY DEF Apart, Busy, Submits, TypeOK, Held, Given, Is
<1>3. Held'
  BY DEF Held, Is, Busy, Submits, TypeOK, Apart, Given
<1>4. Placed'
  BY DEF Placed, InQueue, Busy, Submits, TypeOK, Apart, Held, Is, Terminal
<1>5. Resulted'
  BY DEF Resulted, TypeOK, Held, Is, Busy
<1>6. Given'
  BY DEF Given, TypeOK, Ids, Held, Is, Submits, ClientEnds
<1> QED BY <1>1, <1>2, <1>3, <1>4, <1>5, <1>6

\* Loading moves the worker on, with the same job.
LEMMA LoadInv ==
  ASSUME IInv, NEW w \in Workers, Load(w)
  PROVE  IInv'
<1>0. PICK next \in {"engine", "failing"} : workers' = [workers EXCEPT ![w].at = next]
  BY DEF Load, WorkerGoes
<1> USE JobServiceAssumption DEF IInv, Load, WorkerGoes
<1>1. TypeOK'
  BY <1>0, WorkerGoesType DEF WorkerAt
<1>2. Apart'
  BY DEF Apart, Busy, Submits, TypeOK, Held, Given, Is
<1>3. Held'
  BY DEF Held, Is, Busy, Submits, TypeOK, Apart, Given
<1>4. Placed'
  <2>1. /\ \A v \in Workers : Busy(v)' <=> Busy(v)
        /\ \A v \in Workers : workers'[v].id = workers[v].id
    BY DEF TypeOK, Busy
  <2>2. jobs' = jobs /\ queue' = queue /\ clients' = clients
    OBVIOUS
  <2> QED BY <2>1, <2>2 DEF Placed, InQueue, Submits
<1>5. Resulted'
  BY DEF Resulted, TypeOK, Held, Is, Busy
<1>6. Given'
  BY DEF Given, TypeOK, Ids, Held, Is, Submits, ClientEnds
<1> QED BY <1>1, <1>2, <1>3, <1>4, <1>5, <1>6

\* Running the engine moves the worker on, with the same job.
LEMMA RunEngineInv ==
  ASSUME IInv, NEW w \in Workers, RunEngine(w)
  PROVE  IInv'
<1>0. PICK next \in {"summarizing", "failing"} : workers' = [workers EXCEPT ![w].at = next]
  BY DEF RunEngine, WorkerGoes
<1> USE JobServiceAssumption DEF IInv, RunEngine, WorkerGoes
<1>1. TypeOK'
  BY <1>0, WorkerGoesType DEF WorkerAt
<1>2. Apart'
  BY DEF Apart, Busy, Submits, TypeOK, Held, Given, Is
<1>3. Held'
  BY DEF Held, Is, Busy, Submits, TypeOK, Apart, Given
<1>4. Placed'
  <2>1. /\ \A v \in Workers : Busy(v)' <=> Busy(v)
        /\ \A v \in Workers : workers'[v].id = workers[v].id
    BY DEF TypeOK, Busy
  <2>2. jobs' = jobs /\ queue' = queue /\ clients' = clients
    OBVIOUS
  <2> QED BY <2>1, <2>2 DEF Placed, InQueue, Submits
<1>5. Resulted'
  BY DEF Resulted, TypeOK, Held, Is, Busy
<1>6. Given'
  BY DEF Given, TypeOK, Ids, Held, Is, Submits, ClientEnds
<1> QED BY <1>1, <1>2, <1>3, <1>4, <1>5, <1>6

\* Summarizing moves the worker on, with the same job.
LEMMA SummarizeInv ==
  ASSUME IInv, NEW w \in Workers, Summarize(w)
  PROVE  IInv'
<1> USE JobServiceAssumption DEF IInv, Summarize, WorkerGoes
<1>1. TypeOK'
  BY DEF TypeOK, Ids, NoId, Terminal, WorkerAt, ClientAt, ClientEnds
<1>2. Apart'
  BY DEF Apart, Busy, Submits, TypeOK, Held, Given, Is
<1>3. Held'
  BY DEF Held, Is, Busy, Submits, TypeOK, Apart, Given
<1>4. Placed'
  BY DEF Placed, InQueue, Busy, Submits, TypeOK, Apart, Held, Is, Terminal
<1>5. Resulted'
  BY DEF Resulted, TypeOK, Held, Is, Busy
<1>6. Given'
  BY DEF Given, TypeOK, Ids, Held, Is, Submits, ClientEnds
<1> QED BY <1>1, <1>2, <1>3, <1>4, <1>5, <1>6

\* A worker that dies still stands for its job, which nobody else takes over.
LEMMA DieInv ==
  ASSUME IInv, NEW w \in Workers, Die(w)
  PROVE  IInv'
<1> USE JobServiceAssumption DEF IInv, Die, WorkerGoes
<1>1. TypeOK'
  BY DEF TypeOK, Ids, NoId, Terminal, WorkerAt, ClientAt, ClientEnds
<1>2. Apart'
  BY DEF Apart, Busy, Submits, TypeOK, Held, Given, Is
<1>3. Held'
  BY DEF Held, Is, Busy, Submits, TypeOK, Apart, Given
<1>4. Placed'
  BY DEF Placed, InQueue, Busy, Submits, TypeOK, Apart, Held, Is, Terminal
<1>5. Resulted'
  BY DEF Resulted, TypeOK, Held, Is, Busy
<1>6. Given'
  BY DEF Given, TypeOK, Ids, Held, Is, Submits, ClientEnds
<1> QED BY <1>1, <1>2, <1>3, <1>4, <1>5, <1>6

\* A job whose result is stored is in no place any more.
LEMMA StoreInv ==
  ASSUME IInv, NEW w \in Workers, Store(w)
  PROVE  IInv'
<1> USE JobServiceAssumption DEF IInv, Store, WorkerGoes, Update
<1>1. TypeOK'
  BY DEF TypeOK, Ids, NoId, Terminal, WorkerAt, ClientAt, ClientEnds
<1>2. Apart'
  BY DEF Apart, Busy, Submits, TypeOK, Held, Given, Is
<1>3. Held'
  BY DEF Held, Is, Busy, Submits, TypeOK, Apart, Given
<1>4. Placed'
  BY DEF Placed, InQueue, Busy, Submits, TypeOK, Apart, Held, Is, Terminal
<1>5. Resulted'
  BY DEF Resulted, TypeOK, Held, Is, Busy
<1>6. Given'
  BY DEF Given, TypeOK, Ids, Held, Is, Submits, ClientEnds
<1> QED BY <1>1, <1>2, <1>3, <1>4, <1>5, <1>6

\* A job that has failed is in no place any more, and has no result.
LEMMA FailInv ==
  ASSUME IInv, NEW w \in Workers, Fail(w)
  PROVE  IInv'
<1> USE JobServiceAssumption DEF IInv, Fail, WorkerGoes, Update
<1>1. TypeOK'
  BY DEF TypeOK, Ids, NoId, Terminal, WorkerAt, ClientAt, ClientEnds
<1>2. Apart'
  BY DEF Apart, Busy, Submits, TypeOK, Held, Given, Is
<1>3. Held'
  BY DEF Held, Is, Busy, Submits, TypeOK, Apart, Given
<1>4. Placed'
  BY DEF Placed, InQueue, Busy, Submits, TypeOK, Apart, Held, Is, Terminal
<1>5. Resulted'
  BY DEF Resulted, TypeOK, Held, Is, Busy
<1>6. Given'
  BY DEF Given, TypeOK, Ids, Held, Is, Submits, ClientEnds
<1> QED BY <1>1, <1>2, <1>3, <1>4, <1>5, <1>6

\* After a restart nothing is anywhere.
LEMMA RestartInv ==
  ASSUME IInv, Restart
  PROVE  IInv'
<1> USE JobServiceAssumption DEF IInv, Restart
<1>1. TypeOK'
  BY DEF TypeOK, Ids, NoId, Terminal, WorkerAt, ClientAt, ClientEnds
<1>2. Apart'
  BY DEF Apart, Busy, Submits, TypeOK, Held, Given, Is
<1>3. Held'
  BY DEF Held, Is, Busy, Submits, TypeOK, Apart, Given
<1>4. Placed'
  BY DEF Placed, InQueue, Busy, Submits, TypeOK, Apart, Held, Is, Terminal
<1>5. Resulted'
  BY DEF Resulted, TypeOK, Held, Is, Busy
<1>6. Given'
  BY DEF Given, TypeOK, Ids, Held, Is, Submits, ClientEnds
<1> QED BY <1>1, <1>2, <1>3, <1>4, <1>5, <1>6

-----------------------------------------------------------------------------

\* The invariant is inductive.
LEMMA NextInv == IInv /\ [Next]_vars => IInv'
<1> SUFFICES ASSUME IInv, [Next]_vars PROVE IInv'
  OBVIOUS
<1>1. CASE \E c \in Clients : Handle(c) \/ Follow(c) \/ LoseAnswer(c) \/ Resubmit(c)
  BY <1>1, RecordInv, SendInv, SendFailsInv, RefuseInv, PollEndsInv, TimeOutInv, FetchInv,
     LoseAnswerInv, ResubmitInv DEF Handle, Follow
<1>2. CASE \E w \in Workers : Work(w)
  BY <1>2, ReceiveInv, TakeInv, MarkRunningInv, LoadInv, RunEngineInv, SummarizeInv, DieInv,
     StoreInv, FailInv DEF Work
<1>3. CASE Restart
  BY <1>3, RestartInv
<1>4. CASE UNCHANGED vars
  BY <1>4 DEF IInv, vars, TypeOK, Apart, Held, Is, Placed, InQueue, Submits, Busy, Resulted, Given
<1> QED BY <1>1, <1>2, <1>3, <1>4 DEF Next

(* The invariant holds of every behaviour.                                    *)
THEOREM Invariance == Spec => []IInv
  BY InitInv, NextInv, PTL DEF Spec

(* The index, the channel, the workers and the clients keep their shape, and  *)
(* the channel its bound.                                                     *)
THEOREM ServiceTypeCorrect == Spec => []TypeOK
<1>1. IInv => TypeOK
  BY DEF IInv
<1> QED BY <1>1, Invariance, PTL

(* A worker always finds the job it received, and one that was refused is     *)
(* neither on the channel nor with a worker, nor recorded once the caller has *)
(* been told.                                                                 *)
THEOREM ReceivedAreKnown == Spec => []ReceivedJobsAreKnown
<1>1. IInv => ReceivedJobsAreKnown
  <2> SUFFICES ASSUME IInv PROVE ReceivedJobsAreKnown
    OBVIOUS
  <2>1. \A w \in Workers : workers[w].at \notin {"idle", "dead"} => workers[w].id \in DOMAIN jobs
    BY DEF IInv, Held, Is, Busy
  <2>2. ASSUME NEW c \in Clients, clients[c].at \in {"refusing", "refused"}
        PROVE  ~InQueue(clients[c].id) /\ Holders(clients[c].id) = {}
    BY <2>2 DEF IInv, Apart, Held, Is, Given, Busy, Submits, InQueue, Holders
  <2>3. ASSUME NEW c \in Clients, clients[c].at = "refused" PROVE clients[c].id \notin DOMAIN jobs
    BY <2>3 DEF IInv, Given
  <2> QED BY <2>1, <2>2, <2>3 DEF ReceivedJobsAreKnown
<1> QED BY <1>1, Invariance, PTL

(* A job that has not finished is in exactly one place, and once: it is never *)
(* lost and never run by two workers.                                         *)
THEOREM NoJobLostOrRunTwice == Spec => []UnfinishedJobsAreSomewhere
<1>1. IInv => UnfinishedJobsAreSomewhere
  <2> SUFFICES ASSUME IInv, NEW id \in DOMAIN jobs, jobs[id].status \notin Terminal
               PROVE  LET onChannel == Cardinality({i \in DOMAIN queue : queue[i] = id})
                          submitting == IF Submitting(id) THEN 1 ELSE 0
                          died == \E w \in Workers : workers[w].at = "dead" /\ workers[w].id = id
                      IN  onChannel + submitting + Cardinality(Holders(id)) = (IF died THEN 0 ELSE 1)
    BY DEF UnfinishedJobsAreSomewhere
  <2> DEFINE spots == {i \in DOMAIN queue : queue[i] = id}
             died == \E w \in Workers : workers[w].at = "dead" /\ workers[w].id = id
  <2>1. Cardinality({}) = 0
    BY FS_EmptySet
  <2>2. CASE InQueue(id)
    <3>1. PICK i \in DOMAIN queue : queue[i] = id
      BY <2>2 DEF InQueue
    <3>2. spots = {i}
      BY <3>1 DEF IInv, Apart
    <3>3. ~Submitting(id) /\ Holders(id) = {} /\ ~died
      BY <3>1 DEF IInv, Apart, Busy, Submits, Submitting, Holders
    <3>4. Cardinality(spots) = 1 /\ Cardinality(Holders(id)) = 0
      BY <3>2, <3>3, FS_EmptySet, FS_Singleton
    <3> QED BY <3>3, <3>4
  <2>3. CASE \E c \in Clients : Submits(c) /\ clients[c].id = id
    <3>1. Submitting(id)
      BY <2>3 DEF Submits, Submitting
    <3>2. spots = {} /\ Holders(id) = {} /\ ~died
      BY <2>3 DEF IInv, Apart, Busy, Holders
    <3> QED BY <2>1, <3>1, <3>2
  <2>4. CASE \E w \in Workers : Busy(w) /\ workers[w].id = id
    <3>1. PICK w \in Workers : Busy(w) /\ workers[w].id = id
      BY <2>4
    <3>2. spots = {} /\ ~Submitting(id)
      BY <3>1 DEF IInv, Apart, Submits, Submitting
    <3>3. \A v \in Workers : Busy(v) /\ workers[v].id = id => v = w
      BY <3>1 DEF IInv, Apart
    <3>4. CASE workers[w].at = "dead"
      <4>1. died /\ Holders(id) = {}
        BY <3>1, <3>3, <3>4 DEF Busy, Holders
      <4> QED BY <2>1, <3>2, <4>1
    <3>5. CASE workers[w].at # "dead"
      <4>1. ~died /\ Holders(id) = {w}
        BY <3>1, <3>3, <3>5 DEF Busy, Holders
      <4>2. Cardinality(spots) = 0 /\ Cardinality(Holders(id)) = 1
        BY <3>2, <4>1, FS_EmptySet, FS_Singleton
      <4> QED BY <3>2, <4>1, <4>2
    <3> QED BY <3>4, <3>5
  <2> QED BY <2>2, <2>3, <2>4 DEF IInv, Placed
<1> QED BY <1>1, Invariance, PTL

-----------------------------------------------------------------------------

\* The ids clients hold were given out, and a client that calls holds one.
Issued ==
  \A c \in Clients :
    /\ clients[c].id # NoId => clients[c].id < counter
    /\ clients[c].at # "idle" => clients[c].id # NoId

AInv == AnswersAreTrue /\ Issued

\* No step of one client makes an answer of another untrue: only its own entry
\* changes, and of the index at most a job that is not finished.
LEMMA OthersAnswers ==
  ASSUME IInv, AInv, NEW c \in Clients, NEW at \in ClientAt, UNCHANGED <<counter, restarts>>,
         clients' = [clients EXCEPT ![c] = [at |-> at, id |-> clients[c].id]],
         \A id \in DOMAIN jobs : id = clients[c].id \/ (id \in DOMAIN jobs' /\ jobs'[id] = jobs[id]),
         \A id \in DOMAIN jobs' : id \in DOMAIN jobs /\ jobs'[id] = jobs[id],
         at # "not_ready",
         at = "not_found" => restarts > 0,
         at \in {"polling", "fetching", "done", "failed"} => clients[c].id \in DOMAIN jobs' \/ restarts > 0,
         clients[c].id \in DOMAIN jobs' =>
           /\ at \in {"fetching", "done"} => jobs[clients[c].id].status = "succeeded" /\ jobs[clients[c].id].hasResult
           /\ at = "failed" => jobs[clients[c].id].status = "failed",
         clients[c].id # NoId
  PROVE  AInv'
<1>1. /\ clients'[c] = [at |-> at, id |-> clients[c].id]
      /\ \A d \in Clients : d # c => clients'[d] = clients[d]
      /\ \A d \in Clients : clients'[d].id = clients[d].id
  BY DEF IInv, TypeOK
<1>2. Issued'
  BY <1>1 DEF AInv, Issued
<1>3. \A d, e \in Clients : clients'[d].id # NoId /\ clients'[e].id = clients'[d].id => e = d
  BY <1>1 DEF AInv, AnswersAreTrue
<1>4. ASSUME NEW d \in Clients, d # c
      PROVE  /\ clients'[d].at # "not_ready"
             /\ clients'[d].at = "not_found" => restarts' > 0
             /\ clients'[d].at \in {"polling", "fetching", "done", "failed"} =>
                  clients'[d].id \in DOMAIN jobs' \/ restarts' > 0
             /\ clients'[d].id \in DOMAIN jobs' =>
                  /\ clients'[d].at \in {"fetching", "done"} =>
                       jobs'[clients'[d].id].status = "succeeded" /\ jobs'[clients'[d].id].hasResult
                  /\ clients'[d].at = "failed" => jobs'[clients'[d].id].status = "failed"
  <2>1. clients[d].id # clients[c].id
    BY <1>4 DEF AInv, AnswersAreTrue
  <2> QED BY <1>1, <1>4, <2>1 DEF AInv, AnswersAreTrue
<1>5. /\ clients'[c].at # "not_ready"
      /\ clients'[c].at = "not_found" => restarts' > 0
      /\ clients'[c].at \in {"polling", "fetching", "done", "failed"} =>
           clients'[c].id \in DOMAIN jobs' \/ restarts' > 0
      /\ clients'[c].id \in DOMAIN jobs' =>
           /\ clients'[c].at \in {"fetching", "done"} =>
                jobs'[clients'[c].id].status = "succeeded" /\ jobs'[clients'[c].id].hasResult
           /\ clients'[c].at = "failed" => jobs'[clients'[c].id].status = "failed"
  BY <1>1
<1>6. AnswersAreTrue'
  BY <1>3, <1>4, <1>5 DEF AnswersAreTrue
<1> QED BY <1>2, <1>6 DEF AInv

\* Before a submission no client holds the fresh id.
LEMMA RecordAnswers ==
  ASSUME IInv, AInv, NEW c \in Clients, Record(c)
  PROVE  AInv'
<1>1. /\ counter \in Nat /\ counter' = counter + 1 /\ restarts' = restarts
      /\ \A d \in Clients : clients[d].id \in Int
      /\ \A id \in DOMAIN jobs : id \in Int /\ id < counter
  BY JobServiceAssumption DEF IInv, TypeOK, Ids, NoId, Given, Record
<1>2. /\ clients'[c] = [at |-> "sending", id |-> counter]
      /\ \A d \in Clients : d # c => clients'[d] = clients[d]
  BY DEF IInv, TypeOK, Record, ClientGoes
<1>3. \A d \in Clients : clients[d].id # NoId => clients[d].id < counter
  BY DEF AInv, Issued
<1>4. Issued'
  <2>1. ASSUME NEW d \in Clients
        PROVE  /\ clients'[d].id # NoId => clients'[d].id < counter'
               /\ clients'[d].at # "idle" => clients'[d].id # NoId
    <3>1. CASE d = c
      BY <1>1, <1>2, <3>1 DEF NoId
    <3>2. CASE d # c
      BY <1>1, <1>2, <1>3, <3>2 DEF AInv, Issued
    <3> QED BY <3>1, <3>2
  <2> QED BY <2>1 DEF Issued
<1>5. \A d, e \in Clients : clients'[d].id # NoId /\ clients'[e].id = clients'[d].id => e = d
  <2>1. counter # NoId
    BY <1>1 DEF NoId
  <2>2. \A d \in Clients : d # c => clients'[d].id # counter
    BY <1>1, <1>2, <1>3, <2>1
  <2>3. \A d, e \in Clients : clients[d].id # NoId /\ clients[e].id = clients[d].id => e = d
    BY DEF AInv, AnswersAreTrue
  <2> QED BY <1>2, <2>2, <2>3
<1>6. \A id \in DOMAIN jobs' : id # counter => id \in DOMAIN jobs /\ jobs'[id] = jobs[id]
  BY DEF Record, Put
<1>7. \A id \in DOMAIN jobs : id \in DOMAIN jobs'
  BY DEF Record, Put
<1>8. ASSUME NEW d \in Clients
      PROVE  /\ clients'[d].at # "not_ready"
             /\ clients'[d].at = "not_found" => restarts' > 0
             /\ clients'[d].at \in {"polling", "fetching", "done", "failed"} =>
                  clients'[d].id \in DOMAIN jobs' \/ restarts' > 0
             /\ clients'[d].id \in DOMAIN jobs' =>
                  /\ clients'[d].at \in {"fetching", "done"} =>
                       jobs'[clients'[d].id].status = "succeeded" /\ jobs'[clients'[d].id].hasResult
                  /\ clients'[d].at = "failed" => jobs'[clients'[d].id].status = "failed"
  <2>1. CASE d = c
    BY <1>2, <2>1
  <2>2. CASE d # c
    <3>1. clients[d].id # counter
      BY <1>1, <1>3 DEF NoId
    <3> QED BY <1>1, <1>2, <1>6, <1>7, <2>2, <3>1 DEF AInv, AnswersAreTrue
  <2> QED BY <2>1, <2>2
<1>9. AnswersAreTrue'
  BY <1>5, <1>8 DEF AnswersAreTrue
<1> QED BY <1>4, <1>9 DEF AInv

\* A client that is about to submit again has no id, and no answer.
LEMMA ResubmitAnswers ==
  ASSUME IInv, AInv, NEW c \in Clients, Resubmit(c)
  PROVE  AInv'
<1>1. /\ clients'[c] = [at |-> "idle", id |-> NoId]
      /\ \A d \in Clients : d # c => clients'[d] = clients[d]
      /\ UNCHANGED <<jobs, counter, restarts>>
  BY DEF IInv, TypeOK, Resubmit, ClientGoes
<1>2. Issued'
  BY <1>1 DEF AInv, Issued
<1>3. NoId \notin DOMAIN jobs
  BY DEF IInv, TypeOK, Ids, NoId
<1>4. AnswersAreTrue'
  BY <1>1, <1>3 DEF AInv, AnswersAreTrue
<1> QED BY <1>2, <1>4 DEF AInv

\* Being told this, a client is told no untruth about its run.
Told(c, at) ==
  /\ at \in ClientAt \ {"not_ready"}
  /\ at = "not_found" => restarts > 0
  /\ at \in {"polling", "fetching", "done", "failed"} => clients[c].id \in DOMAIN jobs \/ restarts > 0
  /\ clients[c].id \in DOMAIN jobs =>
       /\ at \in {"fetching", "done"} => jobs[clients[c].id].status = "succeeded" /\ jobs[clients[c].id].hasResult
       /\ at = "failed" => jobs[clients[c].id].status = "failed"

\* A step of one client that leaves the index alone keeps all answers true, if what
\* the client is told is.
LEMMA ToldAnswers ==
  ASSUME IInv, AInv, NEW c \in Clients, NEW at, Told(c, at), clients[c].at # "idle",
         ClientGoes(c, at, clients[c].id), UNCHANGED <<jobs, counter, restarts>>
  PROVE  AInv'
<1>1. clients[c].id # NoId
  BY DEF AInv, Issued
<1> QED BY <1>1, OthersAnswers DEF Told, ClientGoes

\* An id on its way is the client's own, and recorded.
LEMMA SendAnswers ==
  ASSUME IInv, AInv, NEW c \in Clients, Send(c) \/ SendFails(c)
  PROVE  AInv'
<1>1. clients[c].at = "sending" /\ clients[c].id \in DOMAIN jobs /\ UNCHANGED <<jobs, counter, restarts>>
  BY DEF IInv, Held, Is, Submits, Send, SendFails
<1>2. Told(c, "polling") /\ Told(c, "refusing")
  BY <1>1 DEF Told, ClientAt, ClientEnds
<1>3. ClientGoes(c, "polling", clients[c].id) \/ ClientGoes(c, "refusing", clients[c].id)
  BY DEF Send, SendFails
<1> QED BY <1>1, <1>2, <1>3, ToldAnswers

\* The record that a refusal removes is of no other client's run.
LEMMA RefuseAnswers ==
  ASSUME IInv, AInv, NEW c \in Clients, Refuse(c)
  PROVE  AInv'
<1>1. clients[c].id # NoId
  BY DEF AInv, Issued, Refuse
<1>2. clients' = [clients EXCEPT ![c] = [at |-> "refused", id |-> clients[c].id]] /\ "refused" \in ClientAt
  BY DEF Refuse, ClientGoes, ClientAt, ClientEnds
<1>3. /\ \A id \in DOMAIN jobs : id = clients[c].id \/ (id \in DOMAIN jobs' /\ jobs'[id] = jobs[id])
      /\ \A id \in DOMAIN jobs' : id \in DOMAIN jobs /\ jobs'[id] = jobs[id]
      /\ UNCHANGED <<counter, restarts>>
  BY DEF Refuse, Drop
<1> QED BY <1>1, <1>2, <1>3, OthersAnswers

\* Giving up claims nothing.
LEMMA GiveUpAnswers ==
  ASSUME IInv, AInv, NEW c \in Clients, TimeOut(c) \/ LoseAnswer(c)
  PROVE  AInv'
<1>1. clients[c].at # "idle" /\ UNCHANGED <<jobs, counter, restarts>>
  BY DEF TimeOut, LoseAnswer
<1>2. Told(c, "timed_out") /\ Told(c, "unreachable")
  BY DEF Told, ClientAt, ClientEnds
<1>3. ClientGoes(c, "timed_out", clients[c].id) \/ ClientGoes(c, "unreachable", clients[c].id)
  BY DEF TimeOut, LoseAnswer
<1> QED BY <1>1, <1>2, <1>3, ToldAnswers

\* A poll tells the status the job has, and finds no job only after a restart.
LEMMA PollEndsAnswers ==
  ASSUME IInv, AInv, NEW c \in Clients, PollEnds(c)
  PROVE  AInv'
<1>1. clients[c].at = "polling" /\ UNCHANGED <<jobs, counter, restarts>>
  BY DEF PollEnds
<1>2. CASE ~Known(c)
  <2>1. Told(c, "not_found")
    BY <1>1, <1>2 DEF AInv, AnswersAreTrue, Known, Told, ClientAt, ClientEnds
  <2> QED BY <1>1, <1>2, <2>1, ToldAnswers DEF PollEnds
<1>3. CASE Known(c) /\ StatusSeen(c) = "failed"
  <2>1. Told(c, "failed")
    BY <1>3 DEF Known, StatusSeen, Told, ClientAt, ClientEnds
  <2> QED BY <1>1, <1>3, <2>1, ToldAnswers DEF PollEnds
<1>4. CASE Known(c) /\ StatusSeen(c) # "failed"
  <2>1. StatusSeen(c) = "succeeded" /\ jobs[clients[c].id].hasResult
    BY <1>4 DEF PollEnds, StatusSeen, Known, Terminal, IInv, Resulted
  <2>2. Told(c, "fetching")
    BY <1>4, <2>1 DEF Known, StatusSeen, Told, ClientAt, ClientEnds
  <2> QED BY <1>1, <1>4, <2>2, ToldAnswers DEF PollEnds
<1> QED BY <1>2, <1>3, <1>4

\* What was seen to succeed is fetched, or gone with a restart.
LEMMA FetchAnswers ==
  ASSUME IInv, AInv, NEW c \in Clients, Fetch(c)
  PROVE  AInv'
<1>1. clients[c].at = "fetching" /\ UNCHANGED <<jobs, counter, restarts>>
  BY DEF Fetch
<1>2. CASE ~Known(c)
  <2>1. Told(c, "not_found")
    BY <1>1, <1>2 DEF AInv, AnswersAreTrue, Known, Told, ClientAt, ClientEnds
  <2> QED BY <1>1, <1>2, <2>1, ToldAnswers DEF Fetch
<1>3. CASE Known(c)
  <2>1. StatusSeen(c) = "succeeded" /\ jobs[clients[c].id].hasResult
    BY <1>1, <1>3 DEF StatusSeen, Known, AInv, AnswersAreTrue
  <2>2. Told(c, "done")
    BY <1>3, <2>1 DEF Known, StatusSeen, Told, ClientAt, ClientEnds
  <2>3. ClientGoes(c, "done", clients[c].id)
    BY <1>3, <2>1 DEF Fetch
  <2> QED BY <1>1, <2>2, <2>3, ToldAnswers
<1> QED BY <1>2, <1>3

\* A worker changes only jobs that are not finished, and finishes one at a time.
LEMMA WorkAnswers ==
  ASSUME IInv, AInv, NEW w \in Workers, Work(w)
  PROVE  AInv'
<1>1. UNCHANGED <<clients, counter, restarts>>
  BY DEF Work, Receive, Take, MarkRunning, Load, RunEngine, Summarize, Die, Store, Fail
<1>2. /\ DOMAIN jobs' = DOMAIN jobs
      /\ \A id \in DOMAIN jobs : jobs[id].status \in Terminal => jobs'[id] = jobs[id]
  <2>1. CASE MarkRunning(w) \/ Store(w) \/ Fail(w)
    <3>1. workers[w].id \in DOMAIN jobs /\ jobs[workers[w].id].status \notin Terminal
      BY <2>1 DEF IInv, Held, Is, Busy, Terminal, MarkRunning, Store, Fail
    <3>2. \E job : jobs' = [jobs EXCEPT ![workers[w].id] = job]
      BY <2>1, <3>1 DEF MarkRunning, Store, Fail, Update
    <3> QED BY <3>1, <3>2
  <2>2. CASE ~(MarkRunning(w) \/ Store(w) \/ Fail(w))
    <3>1. jobs' = jobs
      BY <2>2 DEF Work, Receive, Take, Load, RunEngine, Summarize, Die
    <3> QED BY <3>1
  <2> QED BY <2>1, <2>2
<1>3. Issued'
  BY <1>1 DEF AInv, Issued
<1>4. AnswersAreTrue'
  BY <1>1, <1>2 DEF AInv, AnswersAreTrue, Terminal
<1> QED BY <1>3, <1>4 DEF AInv

\* After a restart the index is empty, and the clients' ids stay given out.
LEMMA RestartAnswers ==
  ASSUME IInv, AInv, Restart
  PROVE  AInv'
<1>1. /\ \A c \in Clients : clients'[c].id = clients[c].id
      /\ \A c \in Clients :
           clients'[c].at = clients[c].at \/ (clients[c].at # "idle" /\ clients'[c].at = "unreachable")
      /\ DOMAIN jobs' = {} /\ counter' = counter
  BY DEF IInv, TypeOK, Restart
<1>2. restarts' > 0
  BY JobServiceAssumption DEF IInv, TypeOK, Restart
<1>3. Issued'
  BY <1>1 DEF AInv, Issued
<1>4. AnswersAreTrue'
  BY <1>1, <1>2 DEF AInv, AnswersAreTrue
<1> QED BY <1>3, <1>4 DEF AInv

\* The answers stay true in every step.
LEMMA NextAnswers == IInv /\ AInv /\ [Next]_vars => AInv'
<1> SUFFICES ASSUME IInv, AInv, [Next]_vars PROVE AInv'
  OBVIOUS
<1>1. CASE \E c \in Clients : Handle(c) \/ Follow(c) \/ LoseAnswer(c) \/ Resubmit(c)
  BY <1>1, RecordAnswers, SendAnswers, RefuseAnswers, GiveUpAnswers, PollEndsAnswers, FetchAnswers,
     ResubmitAnswers DEF Handle, Follow
<1>2. CASE \E w \in Workers : Work(w)
  BY <1>2, WorkAnswers
<1>3. CASE Restart
  BY <1>3, RestartAnswers
<1>4. CASE UNCHANGED vars
  BY <1>4 DEF AInv, vars, AnswersAreTrue, Issued
<1> QED BY <1>1, <1>2, <1>3, <1>4 DEF Next

(* What a client is told of its run is true and stays true, whatever happens  *)
(* between its requests: a run that succeeded has its result, one that failed *)
(* has failed, a run is unknown only after a restart, and no two calls are    *)
(* answered about the same run.                                               *)
THEOREM ClientsAnswersAreTrue == Spec => []AnswersAreTrue
<1>1. Init => AInv
  BY DEF Init, AInv, AnswersAreTrue, Issued, NoId
<1>2. AInv => AnswersAreTrue
  BY DEF AInv
<1> QED BY <1>1, <1>2, NextAnswers, Invariance, PTL DEF Spec

-----------------------------------------------------------------------------

\* What the registry sees of the service.
status == [id \in DOMAIN jobs |-> jobs[id].status]
results == {id \in DOMAIN jobs : jobs[id].hasResult}
used == 0 .. counter - 1

\* The empty index is the empty registry.
LEMMA InitRefines == Init => RR!Init
<1> SUFFICES ASSUME Init PROVE RR!Init
  OBVIOUS
<1>1. DOMAIN jobs = {} /\ counter = 0
  BY DEF Init
<1>2. status = <<>> /\ results = {} /\ used = {}
  BY <1>1 DEF status, results, used
<1> QED BY <1>2 DEF RR!Init, status, results, used

\* A step that leaves the index and the counter alone is none of the registry's.
LEMMA UnseenRefines ==
  ASSUME jobs' = jobs, counter' = counter
  PROVE  UNCHANGED RR!vars
BY DEF RR!vars

\* Recording a job submits a run under an id never used before.
LEMMA RecordRefines ==
  ASSUME IInv, NEW c \in Clients, Record(c)
  PROVE  \E id \in Ids : RR!Submit(id)
<1>0. PICK run \in Ids : run = counter
  BY JobServiceAssumption DEF IInv, TypeOK, Ids, Record
<1>1. counter \in Nat /\ counter' = counter + 1 /\ run \notin DOMAIN jobs
  BY <1>0, JobServiceAssumption DEF IInv, TypeOK, Given, Ids, Record
<1>2. jobs' = Put(jobs, run, Queued)
  BY <1>0 DEF Record
<1>3. used' = used \cup {run} /\ run \notin used
  BY <1>0, <1>1 DEF used
<1>4. status' = [x \in DOMAIN status \cup {run} |-> IF x = run THEN "queued" ELSE status[x]]
  BY <1>2 DEF status, Put, Queued
<1>5. results' = results
  BY <1>1, <1>2 DEF results, Put, Queued
<1>6. RR!Submit(run)
  BY <1>3, <1>4, <1>5 DEF RR!Submit, status, results, used
<1> QED BY <1>6

\* Removing a refused job withdraws a run that is still queued.
LEMMA RefuseRefines ==
  ASSUME IInv, NEW c \in Clients, Refuse(c)
  PROVE  \E id \in Ids : RR!Withdraw(id)
<1>0. PICK run \in Ids : run = clients[c].id
  BY DEF IInv, TypeOK, Held, Is, Submits, Refuse, Resulted
<1>1. run \in DOMAIN jobs /\ jobs[run].status = "queued" /\ ~jobs[run].hasResult
  BY <1>0 DEF IInv, TypeOK, Held, Is, Submits, Refuse, Resulted
<1>2. jobs' = Drop(jobs, run) /\ counter' = counter
  BY <1>0 DEF Refuse
<1>3. status' = [x \in DOMAIN status \ {run} |-> status[x]]
  BY <1>2 DEF status, Drop
<1>4. results' = results
  BY <1>1, <1>2 DEF results, Drop
<1>5. RR!Withdraw(run)
  BY <1>1, <1>2, <1>3, <1>4 DEF RR!Withdraw, status, results
<1> QED BY <1>5

\* Marking a job as running starts a queued run.
LEMMA MarkRunningRefines ==
  ASSUME IInv, NEW w \in Workers, MarkRunning(w)
  PROVE  \E id \in Ids : RR!Start(id)
<1>0. PICK run \in Ids : run = workers[w].id
  BY DEF IInv, TypeOK, Held, Is, Busy, MarkRunning, Resulted
<1>1. run \in DOMAIN jobs /\ jobs[run].status = "queued" /\ ~jobs[run].hasResult
  BY <1>0 DEF IInv, TypeOK, Held, Is, Busy, MarkRunning, Resulted
<1>2. jobs' = [jobs EXCEPT ![run] = [status |-> "running", hasResult |-> FALSE]] /\ counter' = counter
  BY <1>0, <1>1 DEF MarkRunning, Update
<1>3. status' = [status EXCEPT ![run] = "running"]
  BY <1>2 DEF status
<1>4. results' = results
  BY <1>1, <1>2 DEF results
<1>5. RR!Start(run)
  BY <1>1, <1>2, <1>3, <1>4 DEF RR!Start, status, results
<1> QED BY <1>5

\* Storing status and result in one region of the lock finishes a run.
LEMMA StoreRefines ==
  ASSUME IInv, NEW w \in Workers, Store(w)
  PROVE  \E id \in Ids : RR!Finish(id)
<1>0. PICK run \in Ids : run = workers[w].id
  BY DEF IInv, TypeOK, Held, Is, Busy, Store
<1>1. run \in DOMAIN jobs /\ jobs[run].status = "running"
  BY <1>0 DEF IInv, TypeOK, Held, Is, Busy, Store
<1>2. jobs' = [jobs EXCEPT ![run] = [status |-> "succeeded", hasResult |-> TRUE]] /\ counter' = counter
  BY <1>0, <1>1 DEF Store, Update
<1>3. status' = [status EXCEPT ![run] = "succeeded"]
  BY <1>2 DEF status
<1>4. results' = results \cup {run}
  BY <1>1, <1>2 DEF results
<1>5. RR!Finish(run)
  BY <1>1, <1>2, <1>3, <1>4 DEF RR!Finish, status, results
<1> QED BY <1>5

\* Storing a failure finishes a run without a result.
LEMMA FailRefines ==
  ASSUME IInv, NEW w \in Workers, Fail(w)
  PROVE  \E id \in Ids : RR!Finish(id)
<1>0. PICK run \in Ids : run = workers[w].id
  BY DEF IInv, TypeOK, Held, Is, Busy, Fail, Resulted
<1>1. run \in DOMAIN jobs /\ jobs[run].status = "running" /\ ~jobs[run].hasResult
  BY <1>0 DEF IInv, TypeOK, Held, Is, Busy, Fail, Resulted
<1>2. jobs' = [jobs EXCEPT ![run] = [status |-> "failed", hasResult |-> FALSE]] /\ counter' = counter
  BY <1>0, <1>1 DEF Fail, Update
<1>3. status' = [status EXCEPT ![run] = "failed"]
  BY <1>2 DEF status
<1>4. results' = results
  BY <1>1, <1>2 DEF results
<1>5. RR!Finish(run)
  BY <1>1, <1>2, <1>3, <1>4 DEF RR!Finish, status, results
<1> QED BY <1>5

\* A restart forgets every run, and no id that was given out.
LEMMA RestartRefines ==
  ASSUME Restart
  PROVE  RR!Restart
<1>1. DOMAIN jobs' = {} /\ counter' = counter
  BY DEF Restart
<1>2. status' = <<>> /\ results' = {}
  BY <1>1 DEF status, results
<1> QED BY <1>1, <1>2 DEF RR!Restart, status, results

\* Every step of the service is a step of the registry or none.
LEMMA NextRefines == IInv /\ [Next]_vars => [RR!Next]_(RR!vars)
<1> SUFFICES ASSUME IInv, [Next]_vars PROVE [RR!Next]_(RR!vars)
  OBVIOUS
<1>1. CASE \E c \in Clients : Record(c)
  BY <1>1, RecordRefines DEF RR!Next
<1>2. CASE \E c \in Clients : Refuse(c)
  BY <1>2, RefuseRefines DEF RR!Next
<1>3. CASE \E w \in Workers : MarkRunning(w)
  BY <1>3, MarkRunningRefines DEF RR!Next
<1>4. CASE \E w \in Workers : Store(w) \/ Fail(w)
  BY <1>4, StoreRefines, FailRefines DEF RR!Next
<1>5. CASE Restart
  BY <1>5, RestartRefines DEF RR!Next
<1>6. CASE \E c \in Clients : Send(c) \/ SendFails(c) \/ Follow(c) \/ LoseAnswer(c) \/ Resubmit(c)
  <2>1. jobs' = jobs /\ counter' = counter
    BY <1>6 DEF Send, SendFails, Follow, PollEnds, TimeOut, Fetch, LoseAnswer, Resubmit
  <2> QED BY <2>1, UnseenRefines
<1>7. CASE \E w \in Workers : Receive(w) \/ Take(w) \/ Load(w) \/ RunEngine(w) \/ Summarize(w) \/ Die(w)
  <2>1. jobs' = jobs /\ counter' = counter
    BY <1>7 DEF Receive, Take, Load, RunEngine, Summarize, Die
  <2> QED BY <2>1, UnseenRefines
<1>8. CASE UNCHANGED vars
  BY <1>8, UnseenRefines DEF vars
<1> QED BY <1>1, <1>2, <1>3, <1>4, <1>5, <1>6, <1>7, <1>8 DEF Next, Handle, Work

(* Whatever handlers, workers and restarts interleave, every run goes through *)
(* the states the registry promises, its result is there when it is seen to   *)
(* have succeeded, and no id is given twice.                                  *)
THEOREM ServiceImplementsRegistry == Spec => ImplementsRunRegistry
  BY InitRefines, NextRefines, Invariance, PTL DEF Spec, RR!Spec, ImplementsRunRegistry
=============================================================================
