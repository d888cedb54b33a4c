------------------------------ MODULE TopoSort ------------------------------
(* The order in which the engine evaluates signals: `topo_order_signals` of   *)
(* crates/graph-compiler. A combinator reads what its inputs decided earlier  *)
(* in the same tick, so the compiler emits every signal after the signals it  *)
(* reads and refuses a list whose inputs form a cycle. The algorithm is       *)
(* Kahn's, run loop by loop over the positions of the list: seed the queue    *)
(* with the signals that read none, then visit its head and relax, position   *)
(* by position, the signals that read it.                                     *)
EXTENDS Integers, Sequences, FiniteSets

CONSTANTS
  Id,          \* the identifiers of nodes
  SignalLists  \* the lists to sort

\* `compile` refuses a duplicate id before it collects the signals.
ASSUME SignalListsAssumption ==
  /\ SignalLists \subseteq Seq([id : Id, inputs : Seq(Id)])
  /\ \A list \in SignalLists :
       \A i, j \in DOMAIN list : list[i].id = list[j].id => i = j

VARIABLES
  signals,   \* the list to sort: [id, inputs] each
  stage,     \* "idle", "seeding", "relaxing", "sorted" or "cyclic"
  cursor,    \* the position the current loop is at
  indegree,  \* how many inputs of a signal have not been visited and relaxed
  queue,     \* positions ready to be visited
  order      \* positions visited, the last of them being relaxed

sortVars == <<signals, stage, cursor, indegree, queue, order>>

InputsAt(i) == DOMAIN signals[i].inputs

\* The inputs of signal i that name signal j, which may do so more than once.
Links(j, i) == {k \in InputsAt(i) : signals[i].inputs[k] = signals[j].id}

-----------------------------------------------------------------------------

SortInit ==
  /\ signals = <<>>
  /\ stage = "idle"
  /\ cursor = 1
  /\ indegree = <<>>
  /\ queue = <<>>
  /\ order = <<>>

Start(list) ==
  /\ stage = "idle"
  /\ stage' = "seeding"
  /\ signals' = list
  /\ cursor' = 1
  /\ indegree' = [i \in DOMAIN list |->
       Cardinality({k \in DOMAIN list[i].inputs :
                      \E j \in DOMAIN list : list[i].inputs[k] = list[j].id})]
  /\ UNCHANGED <<queue, order>>

Seed ==
  /\ stage = "seeding"
  /\ cursor <= Len(signals)
  /\ queue' = IF indegree[cursor] = 0 THEN Append(queue, cursor) ELSE queue
  /\ cursor' = cursor + 1
  /\ UNCHANGED <<signals, stage, indegree, order>>

LoopOver == stage \in {"seeding", "relaxing"} /\ cursor > Len(signals)

Visit ==
  /\ LoopOver
  /\ queue # <<>>
  /\ stage' = "relaxing"
  /\ cursor' = 1
  /\ order' = Append(order, Head(queue))
  /\ queue' = Tail(queue)
  /\ UNCHANGED <<signals, indegree>>

\* The mutant of `RefusedOnlyCyclic`: a signal listed twice is relaxed once.
Relax_OncePerSignal ==
  /\ stage = "relaxing"
  /\ cursor <= Len(signals)
  /\ LET links == Links(order[Len(order)], cursor)
         left  == indegree[cursor] - (IF links = {} THEN 0 ELSE 1)
     IN  /\ indegree' = [indegree EXCEPT ![cursor] = left]
         /\ queue' = IF links # {} /\ left = 0 THEN Append(queue, cursor) ELSE queue
  /\ cursor' = cursor + 1
  /\ UNCHANGED <<signals, stage, order>>

\* The mutant of `InputsComeFirst`: a signal is ready once any input is visited,
\* as in a breadth-first search.
Relax_AnyInput ==
  /\ stage = "relaxing"
  /\ cursor <= Len(signals)
  /\ LET links == Links(order[Len(order)], cursor)
         seen  == {order[p] : p \in DOMAIN order} \cup {queue[p] : p \in DOMAIN queue}
     IN  /\ indegree' = [indegree EXCEPT ![cursor] = @ - Cardinality(links)]
         /\ queue' = IF links # {} /\ cursor \notin seen THEN Append(queue, cursor) ELSE queue
  /\ cursor' = cursor + 1
  /\ UNCHANGED <<signals, stage, order>>

Relax ==
  /\ stage = "relaxing"
  /\ cursor <= Len(signals)
  /\ LET links == Links(order[Len(order)], cursor)
         left  == indegree[cursor] - Cardinality(links)
     IN  /\ indegree' = [indegree EXCEPT ![cursor] = left]
         /\ queue' = IF links # {} /\ left = 0 THEN Append(queue, cursor) ELSE queue
  /\ cursor' = cursor + 1
  /\ UNCHANGED <<signals, stage, order>>

Finish ==
  /\ LoopOver
  /\ queue = <<>>
  /\ stage' = IF Len(order) = Len(signals) THEN "sorted" ELSE "cyclic"
  /\ UNCHANGED <<signals, cursor, indegree, queue, order>>

Sort == Seed \/ Visit \/ Relax \/ Finish

SortNext == (\E list \in SignalLists : Start(list)) \/ Sort

SortSpec == SortInit /\ [][SortNext]_sortVars

-----------------------------------------------------------------------------

TopoTypeOK ==
  /\ stage \in {"idle", "seeding", "relaxing", "sorted", "cyclic"}
  /\ cursor \in 1..(Len(signals) + 1)
  /\ indegree \in [DOMAIN signals -> Nat]
  /\ queue \in Seq(DOMAIN signals)
  /\ order \in Seq(DOMAIN signals)
  /\ Len(order) <= Len(signals)
  /\ stage = "relaxing" => order # <<>>

Visited == {order[p] : p \in DOMAIN order}

(* A sorted list has every signal exactly once, and each after every signal   *)
(* it reads: the engine's single pass over the signals never evaluates a      *)
(* combinator before its inputs, however often one is listed.                 *)
InputsComeFirst ==
  stage = "sorted" =>
    /\ Visited = DOMAIN signals
    /\ \A p, q \in DOMAIN order : order[p] = order[q] => p = q
    /\ \A p \in DOMAIN order, j \in DOMAIN signals :
         Links(j, order[p]) # {} => \E q \in 1..(p - 1) : order[q] = j

(* A list is refused only for a cycle: some signals remain, and each of them  *)
(* reads one that remains, so no order of evaluation exists.                  *)
RefusedOnlyCyclic ==
  stage = "cyclic" =>
    LET left == DOMAIN signals \ Visited
    IN  /\ left # {}
        /\ \A i \in left : \E j \in left : Links(j, i) # {}
=============================================================================
