--------------------------- MODULE TopoSortProofs ---------------------------
(* Proofs about the order of the signals, for every list without a duplicate  *)
(* id. The inductive invariant says what each loop has done so far: the       *)
(* in-degree of a signal counts the inputs whose signal it has not yet been   *)
(* relaxed against, the queue and the order together hold exactly the signals *)
(* whose count is zero, and hold none of them twice.                          *)
EXTENDS TopoSort, FiniteSetTheorems, TLAPS

Signal == [id : Id, inputs : Seq(Id)]

Queued == {queue[p] : p \in DOMAIN queue}

\* The visited signals that signal i has been relaxed against.
Settled(i) == {order[p] : p \in {q \in DOMAIN order : q < Len(order) \/ i < cursor}}

\* The inputs of signal i whose signal is not settled.
Pending(i) == {k \in InputsAt(i) : \E j \in DOMAIN signals \ Settled(i) : k \in Links(j, i)}

Typed ==
  /\ signals \in Seq(Signal)
  /\ \A i, j \in DOMAIN signals : signals[i].id = signals[j].id => i = j
  /\ stage \in {"idle", "seeding", "relaxing", "sorted", "cyclic"}
  /\ cursor \in 1..(Len(signals) + 1)
  /\ indegree \in [DOMAIN signals -> Nat]
  /\ queue \in Seq(DOMAIN signals)
  /\ order \in Seq(DOMAIN signals)
  /\ stage = "relaxing" => order # <<>>
  /\ stage \in {"idle", "seeding"} => order = <<>>
  /\ stage = "idle" => queue = <<>>
  /\ stage = "sorted" => Len(order) = Len(signals)
  /\ stage = "cyclic" => queue = <<>> /\ cursor > Len(signals) /\ Len(order) # Len(signals)

Counted == \A i \in DOMAIN signals : indegree[i] = Cardinality(Pending(i))

ReadyOnes ==
  \A i \in DOMAIN signals :
    i \in Visited \cup Queued <=> indegree[i] = 0 /\ (stage = "seeding" => i < cursor)

Distinct ==
  /\ \A p, q \in DOMAIN order : order[p] = order[q] => p = q
  /\ \A p, q \in DOMAIN queue : queue[p] = queue[q] => p = q
  /\ Visited \cap Queued = {}

Preceded ==
  \A p \in DOMAIN order, j \in DOMAIN signals :
    Links(j, order[p]) # {} => \E q \in 1..(p - 1) : order[q] = j

IInv == Typed /\ Counted /\ ReadyOnes /\ Distinct /\ Preceded

-----------------------------------------------------------------------------

\* The inputs of a signal, pending or not, are finitely many.
LEMMA FiniteInputs ==
  ASSUME Typed, NEW i \in DOMAIN signals
  PROVE  /\ IsFiniteSet(InputsAt(i))
         /\ Pending(i) \subseteq InputsAt(i)
         /\ IsFiniteSet(Pending(i))
         /\ Cardinality(Pending(i)) \in Nat
         /\ Cardinality(Pending(i)) = 0 <=> Pending(i) = {}
<1>1. signals[i].inputs \in Seq(Id)
  <2>1. signals[i] \in Signal
    BY DEF Typed
  <2> QED BY <2>1 DEF Signal
<1>2. InputsAt(i) = 1..Len(signals[i].inputs) /\ Len(signals[i].inputs) \in Nat
  BY <1>1 DEF InputsAt
<1>3. IsFiniteSet(InputsAt(i))
  BY <1>2, FS_Interval
<1>4. Pending(i) \subseteq InputsAt(i)
  BY DEF Pending
<1>5. IsFiniteSet(Pending(i))
  BY <1>3, <1>4, FS_Subset
<1> QED BY <1>3, <1>4, <1>5, FS_CardinalityType, FS_EmptySet

\* Once the cursor has passed signal i, it is settled against every visited one.
LEMMA SettledOver ==
  ASSUME Typed, NEW i \in DOMAIN signals, i < cursor
  PROVE  Settled(i) = Visited
BY DEF Settled, Visited

\* Distinct visits are at most as many as the signals, and as many only if all.
LEMMA VisitedCount ==
  ASSUME Typed, Distinct
  PROVE  /\ Len(order) <= Len(signals)
         /\ Len(order) = Len(signals) <=> Visited = DOMAIN signals
<1> DEFINE S == 1..Len(order)
           T == 1..Len(signals)
<1>1. /\ DOMAIN order = S /\ DOMAIN signals = T
      /\ Len(order) \in Nat /\ Len(signals) \in Nat
      /\ order \in [S -> T]
  BY DEF Typed
<1>2. order \in Injection(S, T)
  BY <1>1 DEF Distinct, Injection, IsInjective
<1>3. order \in Surjection(S, T) <=> Visited = T
  BY <1>1 DEF Surjection, Visited
<1>4. IsFiniteSet(T) /\ Cardinality(S) = Len(order) /\ Cardinality(T) = Len(signals)
  <2>1. \A n \in Nat : IsFiniteSet(1..n) /\ Cardinality(1..n) = n
    <3> TAKE n \in Nat
    <3>1. IsFiniteSet(1..n) /\ Cardinality(1..n) = IF 1 > n THEN 0 ELSE n - 1 + 1
      BY FS_Interval
    <3> QED BY <3>1
  <2> QED BY <1>1, <2>1
<1> HIDE DEF S, T
<1>5. /\ Cardinality(S) <= Cardinality(T)
      /\ Cardinality(S) = Cardinality(T) <=> order \in Surjection(S, T)
  BY <1>2, <1>4, FS_Injection
<1> QED BY <1>1, <1>3, <1>4, <1>5

-----------------------------------------------------------------------------

LEMMA InitInv == SortInit => IInv
<1> SUFFICES ASSUME SortInit PROVE IInv
  OBVIOUS
<1>1. signals = <<>> /\ DOMAIN signals = {} /\ Len(signals) = 0 /\ Len(order) = 0
  BY DEF SortInit
<1>2. Typed
  BY <1>1 DEF SortInit, Typed, Signal
<1>3. Counted /\ ReadyOnes /\ Preceded /\ Distinct
  BY <1>1 DEF SortInit, Counted, ReadyOnes, Preceded, Distinct, Visited, Queued
<1> QED BY <1>2, <1>3 DEF IInv

\* Entering the loop that seeds the queue.
LEMMA StartInv ==
  ASSUME IInv, NEW list, Start(list),
         list \in Seq(Signal),
         \A i, j \in DOMAIN list : list[i].id = list[j].id => i = j
  PROVE  IInv'
<1>1. /\ list \in Seq(Signal)
      /\ \A i, j \in DOMAIN list : list[i].id = list[j].id => i = j
  OBVIOUS
<1>2. order = <<>> /\ queue = <<>> /\ order' = <<>> /\ queue' = <<>>
  BY DEF IInv, Typed, Start
<1>3. \A i \in DOMAIN list :
        /\ list[i].inputs \in Seq(Id)
        /\ Cardinality({k \in DOMAIN list[i].inputs :
                           \E j \in DOMAIN list : list[i].inputs[k] = list[j].id}) \in Nat
  <2> TAKE i \in DOMAIN list
  <2> DEFINE D == DOMAIN list[i].inputs
             P == {k \in D : \E j \in DOMAIN list : list[i].inputs[k] = list[j].id}
  <2>1. list[i] \in Signal
    BY <1>1
  <2>2. list[i].inputs \in Seq(Id)
    BY <2>1 DEF Signal
  <2>3. D = 1..Len(list[i].inputs) /\ Len(list[i].inputs) \in Nat
    BY <2>2
  <2>4. IsFiniteSet(D)
    BY <2>3, FS_Interval
  <2>5. IsFiniteSet(P)
    BY <2>4, FS_Subset
  <2> QED BY <2>2, <2>5, FS_CardinalityType
<1>4. Typed'
  <2>1. signals' = list /\ cursor' = 1 /\ stage' = "seeding" /\ Len(list) \in Nat
    BY <1>1 DEF Start
  <2>2. indegree' \in [DOMAIN list -> Nat]
    BY <1>3 DEF Start
  <2> QED BY <1>1, <1>2, <2>1, <2>2 DEF Typed
<1>5. Counted'
  <2> SUFFICES ASSUME NEW i \in DOMAIN list
               PROVE  indegree'[i] = Cardinality(Pending(i)')
    BY DEF Counted, Start
  <2>1. Settled(i)' = {}
    BY <1>2 DEF Settled
  <2>2. Pending(i)' = {k \in DOMAIN list[i].inputs :
                        \E j \in DOMAIN list : list[i].inputs[k] = list[j].id}
    BY <2>1 DEF Pending, Links, InputsAt, Start
  <2> QED BY <2>2 DEF Start
<1>6. ReadyOnes' /\ Distinct' /\ Preceded'
  <2>1. DOMAIN signals' = 1..Len(signals') /\ cursor' = 1 /\ stage' = "seeding"
    BY <1>1 DEF Start
  <2> QED BY <1>2, <2>1 DEF ReadyOnes, Distinct, Preceded, Visited, Queued
<1> QED BY <1>4, <1>5, <1>6 DEF IInv

\* The loop that seeds the queue with the signals that read no other.
LEMMA SeedInv ==
  ASSUME IInv, Seed
  PROVE  IInv'
<1> USE DEF IInv
<1>1. /\ cursor \in DOMAIN signals /\ cursor' = cursor + 1 /\ cursor \in Nat
      /\ order = <<>> /\ order' = order /\ stage = "seeding" /\ stage' = stage
      /\ signals' = signals /\ indegree' = indegree
      /\ DOMAIN signals = 1..Len(signals) /\ Len(signals) \in Nat
  BY DEF Typed, Seed
<1>2. CASE indegree[cursor] = 0
  <2>1. queue' = Append(queue, cursor)
    BY <1>2 DEF Seed
  <2>2. /\ queue' \in Seq(DOMAIN signals)
        /\ Queued' = Queued \cup {cursor}
        /\ DOMAIN queue' = 1..(Len(queue) + 1) /\ DOMAIN queue = 1..Len(queue)
        /\ Len(queue) \in Nat
        /\ \A p \in DOMAIN queue : queue'[p] = queue[p]
        /\ queue'[Len(queue) + 1] = cursor
    <3>1. queue \in Seq(DOMAIN signals) /\ cursor \in DOMAIN signals
      BY <1>1 DEF Typed
    <3>2. /\ queue' \in Seq(DOMAIN signals)
          /\ DOMAIN queue' = 1..(Len(queue) + 1) /\ DOMAIN queue = 1..Len(queue)
          /\ Len(queue) \in Nat
          /\ \A p \in DOMAIN queue : queue'[p] = queue[p]
          /\ queue'[Len(queue) + 1] = cursor
      BY <2>1, <3>1
    <3>3. Queued' = Queued \cup {cursor}
      BY <3>2 DEF Queued
    <3> QED BY <3>2, <3>3
  <2>3. cursor \notin Queued
    BY <1>1 DEF ReadyOnes
  <2>4. Typed'
    BY <1>1, <2>2 DEF Typed
  <2>5. ReadyOnes'
    BY <1>1, <1>2, <2>2 DEF ReadyOnes, Visited, Typed
  <2>6. Distinct'
    <3>1. \A p, q \in DOMAIN queue' : queue'[p] = queue'[q] => p = q
      BY <2>2, <2>3 DEF Distinct, Queued
    <3> QED BY <1>1, <3>1 DEF Distinct, Visited
  <2> QED BY <1>1, <2>4, <2>5, <2>6 DEF Counted, Preceded, Pending, Settled, InputsAt, Links
<1>3. CASE indegree[cursor] # 0
  <2>1. queue' = queue
    BY <1>3 DEF Seed
  <2>2. Typed'
    BY <1>1, <2>1 DEF Typed
  <2>3. ReadyOnes'
    BY <1>1, <1>3, <2>1 DEF ReadyOnes, Visited, Queued, Typed
  <2> QED BY <1>1, <2>1, <2>2, <2>3
          DEF Counted, Preceded, Pending, Settled, InputsAt, Links, Distinct, Visited, Queued
<1> QED BY <1>2, <1>3

\* The head of the queue becomes the last of the order.
LEMMA VisitInv ==
  ASSUME IInv, Visit
  PROVE  IInv'
<1> USE DEF IInv
<1> DEFINE h == Head(queue)
           n == Len(order)
<1>1. /\ signals' = signals /\ indegree' = indegree /\ cursor' = 1 /\ stage' = "relaxing"
      /\ order' = Append(order, h) /\ queue' = Tail(queue)
      /\ cursor > Len(signals) /\ stage \in {"seeding", "relaxing"}
      /\ DOMAIN signals = 1..Len(signals) /\ Len(signals) \in Nat
      /\ \A i \in DOMAIN signals : i < cursor
  BY DEF Typed, Visit, LoopOver
<1>2. /\ h \in DOMAIN signals /\ n \in Nat
      /\ order' \in Seq(DOMAIN signals) /\ queue' \in Seq(DOMAIN signals)
      /\ DOMAIN order = 1..n /\ DOMAIN order' = 1..(n + 1) /\ Len(order') = n + 1
      /\ \A p \in 1..n : order'[p] = order[p]
      /\ order'[n + 1] = h
  BY <1>1 DEF Typed, Visit
<1>3. /\ Len(queue) \in Nat /\ Len(queue) > 0
      /\ DOMAIN queue = 1..Len(queue) /\ DOMAIN queue' = 1..(Len(queue) - 1)
      /\ \A p \in DOMAIN queue' : queue'[p] = queue[p + 1]
      /\ h = queue[1]
  BY <1>1 DEF Typed, Visit
<1> HIDE DEF h, n
<1>4. Visited' = Visited \cup {h}
  BY <1>2 DEF Visited
<1>5. h \in Queued /\ Queued' = Queued \ {h}
  <2>1. \A p \in DOMAIN queue : p # 1 => p - 1 \in DOMAIN queue' /\ queue'[p - 1] = queue[p]
    BY <1>3
  <2>2. \A p \in DOMAIN queue' : p + 1 \in DOMAIN queue /\ queue[p + 1] # h
    BY <1>3 DEF Distinct
  <2> QED BY <1>3, <2>1, <2>2 DEF Queued
<1>6. Typed'
  <2>1. order' # <<>>
    BY <1>2
  <2>2. cursor' \in 1..(Len(signals) + 1)
    BY <1>1
  <2>3. /\ signals \in Seq(Signal) /\ indegree \in [DOMAIN signals -> Nat]
        /\ \A i, j \in DOMAIN signals : signals[i].id = signals[j].id => i = j
    BY DEF Typed
  <2> QED BY <1>1, <1>2, <2>1, <2>2, <2>3 DEF Typed
<1>7. \A i \in DOMAIN signals : Settled(i) = Visited /\ Settled(i)' = Visited
  <2> TAKE i \in DOMAIN signals
  <2>1. Settled(i) = Visited
    BY <1>1, SettledOver
  <2>2. \A q \in DOMAIN order' : (q < Len(order') \/ i < cursor') <=> q \in DOMAIN order
    BY <1>1, <1>2
  <2>3. Settled(i)' = Visited
    BY <1>2, <2>2 DEF Settled, Visited
  <2> QED BY <2>1, <2>3
<1>8. Counted'
  BY <1>1, <1>7 DEF Counted, Pending, InputsAt, Links
<1>9. ReadyOnes'
  BY <1>1, <1>4, <1>5 DEF ReadyOnes
<1>10. Distinct'
  <2>1. h \notin Visited
    BY <1>5 DEF Distinct
  <2>2. \A p, q \in DOMAIN order' : order'[p] = order'[q] => p = q
    BY <1>2, <2>1 DEF Distinct, Visited
  <2>3. \A p, q \in DOMAIN queue' : queue'[p] = queue'[q] => p = q
    BY <1>3 DEF Distinct
  <2> QED BY <1>4, <1>5, <2>2, <2>3 DEF Distinct
<1>11. Preceded'
  <2>1. indegree[h] = 0
    BY <1>2, <1>5 DEF ReadyOnes
  <2>2. Pending(h) = {}
    BY <1>2, <2>1, FiniteInputs DEF Counted
  <2>3. \A j \in DOMAIN signals : Links(j, h) # {} => j \in Visited
    BY <1>2, <1>7, <2>2 DEF Pending, Links
  <2>4. \A p \in 1..n, j \in DOMAIN signals :
          Links(j, order[p]) # {} => \E q \in 1..(p - 1) : order[q] = j
    BY <1>2 DEF Preceded
  <2>5. ASSUME NEW p \in DOMAIN order', NEW j \in DOMAIN signals, Links(j, order'[p]) # {}
        PROVE  \E q \in 1..(p - 1) : order'[q] = j
    <3>1. CASE p \in 1..n
      BY <1>2, <2>4, <2>5, <3>1
    <3>2. CASE p = n + 1
      BY <1>2, <2>3, <2>5, <3>2 DEF Visited
    <3> QED BY <1>2, <3>1, <3>2, SMTT(15)
  <2>6. \A p \in DOMAIN order' : order'[p] \in DOMAIN signals
    BY <1>2
  <2>7. ASSUME NEW p \in DOMAIN order', NEW j \in DOMAIN signals', (Links(j, order[p]) # {})'
        PROVE  \E q \in 1..(p - 1) : order'[q] = j
    <3>1. j \in DOMAIN signals /\ order'[p] \in DOMAIN signals
      BY <1>1, <2>6, <2>7
    <3>2. (Links(j, order[p]))' = Links(j, order'[p])
      BY <1>1 DEF Links, InputsAt
    <3> QED BY <2>5, <2>7, <3>1, <3>2
  <2> QED BY <2>7 DEF Preceded
<1> QED BY <1>6, <1>8, <1>9, <1>10, <1>11

\* What step Relax finds and leaves alone.
LEMMA RelaxFacts ==
  ASSUME Typed, Relax
  PROVE  /\ signals' = signals /\ order' = order /\ cursor' = cursor + 1
         /\ stage' = stage /\ stage = "relaxing"
         /\ cursor \in DOMAIN signals /\ cursor \in Nat
         /\ DOMAIN signals = 1..Len(signals) /\ Len(signals) \in Nat
<1>1. /\ signals' = signals /\ order' = order /\ cursor' = cursor + 1
      /\ stage' = stage /\ stage = "relaxing" /\ cursor <= Len(signals)
  BY DEF Relax
<1>2. signals \in Seq(Signal) /\ cursor \in 1..(Len(signals) + 1)
  BY DEF Typed
<1>3. DOMAIN signals = 1..Len(signals) /\ Len(signals) \in Nat
  BY <1>2
<1> QED BY <1>1, <1>2, <1>3

\* Relaxing a signal settles it, and no other, against the last visited one.
LEMMA RelaxSettles ==
  ASSUME IInv, Relax, NEW i \in DOMAIN signals
  PROVE  /\ order[Len(order)] \in DOMAIN signals
         /\ i = cursor => /\ Pending(i)' = Pending(i) \ Links(order[Len(order)], i)
                          /\ Links(order[Len(order)], i) \subseteq Pending(i)
         /\ i # cursor => Pending(i)' = Pending(i)
<1> USE DEF IInv
<1>1. /\ signals' = signals /\ order' = order /\ cursor' = cursor + 1
      /\ cursor \in DOMAIN signals /\ cursor \in Nat /\ i \in Nat
      /\ DOMAIN signals = 1..Len(signals) /\ Len(signals) \in Nat
  BY RelaxFacts
<1>2. PICK n \in Nat : /\ n = Len(order) /\ n > 0 /\ DOMAIN order = 1..n
                       /\ \A p \in 1..n : order[p] \in DOMAIN signals
  <2>1. order \in Seq(DOMAIN signals) /\ order # <<>>
    BY DEF Typed, Relax
  <2> QED BY <2>1
<1>3. PICK v \in DOMAIN signals : v = order[n]
  BY <1>2
<1>4. \A p \in 1..n : p # n <=> order[p] # v
  <2>1. \A p, q \in 1..n : order[p] = order[q] => p = q
    BY <1>2 DEF Distinct
  <2>2. n \in 1..n
    BY <1>2
  <2> QED BY <1>3, <2>1, <2>2
<1>5. i = cursor => Settled(i) = Visited \ {v} /\ Settled(i)' = Visited
  <2> SUFFICES ASSUME i = cursor PROVE Settled(i) = Visited \ {v} /\ Settled(i)' = Visited
    OBVIOUS
  <2>1. \A q \in 1..n : (q < Len(order) \/ i < cursor) <=> order[q] # v
    <3>1. \A q \in 1..n : q < n <=> q # n
      OBVIOUS
    <3>2. ~(i < cursor)
      BY <1>1
    <3> QED BY <1>2, <1>4, <3>1, <3>2
  <2>2. Settled(i) = Visited \ {v}
    BY <1>2, <2>1 DEF Settled, Visited
  <2>3. i < cursor'
    BY <1>1
  <2>4. Settled(i)' = Visited
    BY <1>1, <1>2, <2>3 DEF Settled, Visited
  <2> QED BY <2>2, <2>4
<1>6. i # cursor => Settled(i)' = Settled(i)
  <2>1. i # cursor => (i < cursor' <=> i < cursor)
    BY <1>1
  <2> QED BY <1>1, <2>1 DEF Settled
<1>7. v \in Visited
  BY <1>2, <1>3 DEF Visited
<1>8. \A j \in DOMAIN signals, k \in Links(v, i) : k \in Links(j, i) => j = v
  BY <1>1, <1>3 DEF Typed, Links
<1>9. Pending(i)' = {k \in InputsAt(i) : \E j \in DOMAIN signals \ Settled(i)' : k \in Links(j, i)}
  BY <1>1 DEF Pending, Links, InputsAt
<1>10. i = cursor => Pending(i)' = Pending(i) \ Links(v, i)
  BY <1>3, <1>5, <1>7, <1>8, <1>9 DEF Pending
<1>11. i = cursor => Links(v, i) \subseteq Pending(i)
  BY <1>3, <1>5 DEF Pending, Links
<1>12. i # cursor => Pending(i)' = Pending(i)
  BY <1>6, <1>9 DEF Pending
<1> QED BY <1>2, <1>3, <1>10, <1>11, <1>12

\* The loop that relaxes every signal against the one just visited.
LEMMA RelaxInv ==
  ASSUME IInv, Relax
  PROVE  IInv'
<1> USE DEF IInv
<1>1. /\ signals' = signals /\ order' = order /\ cursor' = cursor + 1
      /\ stage' = stage /\ stage = "relaxing" /\ Visited' = Visited
      /\ DOMAIN signals = 1..Len(signals) /\ Len(signals) \in Nat
  BY RelaxFacts DEF Visited
<1>2. PICK c \in DOMAIN signals : c = cursor
  BY RelaxFacts
<1>3. PICK L : L = Links(order[Len(order)], c)
  OBVIOUS
<1>4. PICK left : left = indegree[c] - Cardinality(L)
  OBVIOUS
<1>5. /\ indegree' = [indegree EXCEPT ![c] = left]
      /\ queue' = IF L # {} /\ left = 0 THEN Append(queue, c) ELSE queue
  BY <1>2, <1>3, <1>4 DEF Relax
<1>6. /\ Pending(c)' = Pending(c) \ L /\ L \subseteq Pending(c)
      /\ \A i \in DOMAIN signals : i # c => Pending(i)' = Pending(i)
  BY <1>2, <1>3, RelaxSettles
<1>7. left = Cardinality(Pending(c)')
  <2>1. IsFiniteSet(Pending(c)) /\ Pending(c) \cap L = L
    BY <1>6, FiniteInputs
  <2>2. Cardinality(Pending(c) \ L) = Cardinality(Pending(c)) - Cardinality(Pending(c) \cap L)
    BY <2>1, FS_Difference
  <2> QED BY <1>2, <1>4, <1>6, <2>1, <2>2 DEF Counted
<1>8. left \in Nat /\ (L # {} => indegree[c] # 0) /\ (L = {} => left = indegree[c])
  <2>1. IsFiniteSet(Pending(c)) /\ Cardinality(Pending(c)) = indegree[c]
    BY FiniteInputs DEF Counted
  <2>2. IsFiniteSet(Pending(c) \ L)
    BY <2>1, FS_Difference
  <2>3. left \in Nat
    BY <1>6, <1>7, <2>2, FS_CardinalityType
  <2>4. L # {} => indegree[c] # 0
    BY <1>6, <2>1, FS_EmptySet
  <2>5. L = {} => left = indegree[c]
    BY <1>6, <1>7, <2>1
  <2> QED BY <2>3, <2>4, <2>5
<1>9. Counted'
  BY <1>1, <1>5, <1>6, <1>7 DEF Counted, Typed
<1>10. CASE L # {} /\ left = 0
  <2>1. queue' = Append(queue, c)
    BY <1>5, <1>10
  <2>2. /\ queue' \in Seq(DOMAIN signals)
        /\ DOMAIN queue' = 1..(Len(queue) + 1) /\ DOMAIN queue = 1..Len(queue)
        /\ Len(queue) \in Nat
        /\ \A p \in DOMAIN queue : queue'[p] = queue[p]
        /\ queue'[Len(queue) + 1] = c
    <3>1. queue \in Seq(DOMAIN signals)
      BY DEF Typed
    <3> QED BY <2>1, <3>1
  <2>3. Queued' = Queued \cup {c}
    BY <2>2 DEF Queued
  <2>4. c \notin Visited \cup Queued
    BY <1>8, <1>10 DEF ReadyOnes
  <2>5. Typed'
    <3>1. indegree' \in [DOMAIN signals -> Nat]
      BY <1>5, <1>8 DEF Typed
    <3>2. cursor' \in 1..(Len(signals) + 1)
      BY <1>1, <1>2
    <3> QED BY <1>1, <2>2, <3>1, <3>2 DEF Typed
  <2>6. ReadyOnes'
    <3> SUFFICES ASSUME NEW i \in DOMAIN signals
                 PROVE  i \in Visited \cup Queued' <=> indegree'[i] = 0
      BY <1>1 DEF ReadyOnes
    <3>1. CASE i = c
      BY <1>5, <1>10, <2>3, <3>1 DEF Typed
    <3>2. CASE i # c
      BY <1>1, <1>5, <2>3, <3>2 DEF Typed, ReadyOnes
    <3> QED BY <3>1, <3>2
  <2>7. Distinct'
    <3>1. \A p, q \in DOMAIN queue' : queue'[p] = queue'[q] => p = q
      BY <2>2, <2>4 DEF Distinct, Queued
    <3> QED BY <1>1, <2>3, <2>4, <3>1 DEF Distinct
  <2> QED BY <1>1, <1>9, <2>5, <2>6, <2>7 DEF Preceded, Links, InputsAt
<1>11. CASE L = {} \/ left # 0
  <2>1. queue' = queue /\ Queued' = Queued
    BY <1>5, <1>11 DEF Queued
  <2>2. Typed'
    <3>1. indegree' \in [DOMAIN signals -> Nat]
      BY <1>5, <1>8 DEF Typed
    <3>2. cursor' \in 1..(Len(signals) + 1)
      BY <1>1, <1>2
    <3> QED BY <1>1, <2>1, <3>1, <3>2 DEF Typed
  <2>3. ReadyOnes'
    <3> SUFFICES ASSUME NEW i \in DOMAIN signals
                 PROVE  i \in Visited \cup Queued <=> indegree'[i] = 0
      BY <1>1, <2>1 DEF ReadyOnes
    <3>1. indegree'[i] = 0 <=> indegree[i] = 0
      BY <1>5, <1>8, <1>11 DEF Typed
    <3> QED BY <1>1, <3>1 DEF ReadyOnes
  <2> QED BY <1>1, <1>9, <2>1, <2>2, <2>3 DEF Preceded, Links, InputsAt, Distinct
<1> QED BY <1>10, <1>11

\* The queue is empty: the list is sorted, or what is left of it is refused.
LEMMA FinishInv ==
  ASSUME IInv, Finish
  PROVE  IInv'
<1> USE DEF IInv
<1>1. /\ stage' \in {"sorted", "cyclic"} /\ stage \in {"seeding", "relaxing"}
      /\ cursor > Len(signals) /\ queue = <<>>
      /\ stage' = "sorted" => Len(order) = Len(signals)
      /\ stage' = "cyclic" => Len(order) # Len(signals)
      /\ UNCHANGED <<signals, cursor, indegree, queue, order>>
      /\ DOMAIN signals = 1..Len(signals) /\ Len(signals) \in Nat
  BY DEF Typed, Finish, LoopOver
<1>2. Typed'
  BY <1>1 DEF Typed
<1>3. \A i \in DOMAIN signals : i < cursor
  BY <1>1 DEF Typed
<1>4. ReadyOnes'
  BY <1>1, <1>3 DEF ReadyOnes, Visited, Queued
<1> QED BY <1>1, <1>2, <1>4
        DEF Counted, Distinct, Preceded, Visited, Queued, Pending, Settled, Links, InputsAt

\* A step that changes nothing keeps the invariant.
LEMMA StutterInv ==
  ASSUME IInv, UNCHANGED sortVars
  PROVE  IInv'
<1>1. UNCHANGED <<signals, stage, cursor, indegree, queue, order>>
  BY DEF sortVars
<1>2. Visited' = Visited /\ Queued' = Queued
  BY <1>1 DEF Visited, Queued
<1>3. \A i, j \in DOMAIN signals : Pending(i)' = Pending(i) /\ Links(j, i)' = Links(j, i)
  BY <1>1 DEF Pending, Settled, Links, InputsAt
<1>4. Typed'
  BY <1>1 DEF IInv, Typed
<1>5. Counted' /\ ReadyOnes' /\ Distinct'
  BY <1>1, <1>2, <1>3 DEF IInv, Counted, ReadyOnes, Distinct
<1>6. Preceded'
  BY <1>1 DEF IInv, Preceded, Links, InputsAt
<1> QED BY <1>4, <1>5, <1>6 DEF IInv

LEMMA SortInv == IInv /\ Sort => IInv'
BY SeedInv, VisitInv, RelaxInv, FinishInv DEF Sort

LEMMA NextInv == IInv /\ [SortNext]_sortVars => IInv'
<1> SUFFICES ASSUME IInv, [SortNext]_sortVars PROVE IInv'
  OBVIOUS
<1>1. ASSUME NEW list \in SignalLists, Start(list) PROVE IInv'
  BY <1>1, StartInv, SignalListsAssumption DEF Signal
<1> QED BY <1>1, SortInv, StutterInv DEF SortNext

-----------------------------------------------------------------------------

\* What the invariant says of the outcome.
LEMMA SortOutcome == IInv => TopoTypeOK /\ InputsComeFirst /\ RefusedOnlyCyclic
<1>1. IInv => TopoTypeOK
  <2> SUFFICES ASSUME IInv PROVE TopoTypeOK
    OBVIOUS
  <2>1. Len(order) <= Len(signals)
    BY VisitedCount DEF IInv
  <2> QED BY <2>1 DEF IInv, Typed, TopoTypeOK
<1>2. IInv => InputsComeFirst
  <2> SUFFICES ASSUME IInv, stage = "sorted" PROVE InputsComeFirst
    BY DEF InputsComeFirst
  <2>1. Visited = DOMAIN signals
    BY VisitedCount DEF IInv, Typed
  <2> QED BY <2>1 DEF InputsComeFirst, IInv, Distinct, Preceded
<1>3. IInv => RefusedOnlyCyclic
  <2> SUFFICES ASSUME IInv, stage = "cyclic" PROVE RefusedOnlyCyclic
    BY DEF RefusedOnlyCyclic
  <2> DEFINE left == DOMAIN signals \ Visited
  <2>1. Visited # DOMAIN signals /\ Visited \subseteq DOMAIN signals
    <3>1. order \in Seq(DOMAIN signals)
      BY DEF IInv, Typed
    <3>2. Visited \subseteq DOMAIN signals
      BY <3>1 DEF Visited
    <3> QED BY <3>2, VisitedCount DEF IInv, Typed
  <2>2. ASSUME NEW i \in left PROVE \E j \in left : Links(j, i) # {}
    <3>1. i < cursor /\ queue = <<>>
      BY DEF IInv, Typed
    <3>2. indegree[i] # 0
      BY <3>1 DEF IInv, ReadyOnes, Queued
    <3>3. Pending(i) # {}
      BY <3>2, FiniteInputs DEF IInv, Counted
    <3>4. Settled(i) = Visited
      BY <3>1, SettledOver DEF IInv
    <3> QED BY <3>3, <3>4 DEF Pending
  <2>3. left # {}
    BY <2>1
  <2> HIDE DEF left
  <2>4. left # {} /\ \A i \in left : \E j \in left : Links(j, i) # {}
    BY <2>2, <2>3
  <2> QED BY <2>4 DEF RefusedOnlyCyclic, left
<1> QED BY <1>1, <1>2, <1>3

(* Every variable of the sort stays in its type, for every list.              *)
THEOREM TypeCorrect == SortSpec => []TopoTypeOK
BY SortOutcome, InitInv, NextInv, PTL DEF SortSpec

(* A list that is sorted has every signal once, after the signals it reads:   *)
(* whatever the list, an order comes out only if the engine's single pass     *)
(* over it finds every input already evaluated.                               *)
THEOREM SortedIsUsable == SortSpec => []InputsComeFirst
BY SortOutcome, InitInv, NextInv, PTL DEF SortSpec

(* A list is refused only if some of its signals read one another in a cycle: *)
(* the compiler rejects no graph that has an order of evaluation.             *)
THEOREM RefusedIsCyclic == SortSpec => []RefusedOnlyCyclic
BY SortOutcome, InitInv, NextInv, PTL DEF SortSpec
=============================================================================
