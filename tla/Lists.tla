------------------------------- MODULE Lists --------------------------------
(* Lists as the compiler, the loader and the engine handle them: filtered,    *)
(* sorted, counted and added up.                                              *)
EXTENDS Integers, Sequences, FiniteSets

\* Those of a list that are in a set, in the order of the list.
Those(list, keep) ==
  LET upTo[n \in 0..Len(list)] ==
        IF n = 0 THEN <<>>
        ELSE IF list[n] \in keep THEN Append(upTo[n - 1], list[n]) ELSE upTo[n - 1]
  IN  upTo[Len(list)]

\* How often t is in a list.
Occurs(t, list) == Cardinality({i \in DOMAIN list : list[i] = t})

\* The numbers of a list added up.
Added(list) ==
  LET upTo[n \in 0..Len(list)] == IF n = 0 THEN 0 ELSE upTo[n - 1] + list[n]
  IN  upTo[Len(list)]

\* The places whose number comes before that of place i, equal ones staying as they are.
Before(list, i) ==
  {j \in DOMAIN list : list[j] < list[i] \/ (list[j] = list[i] /\ j < i)}

\* A stable sort.
Sorted(list) ==
  [n \in DOMAIN list |->
     list[CHOOSE i \in DOMAIN list : Cardinality(Before(list, i)) = n - 1]]

\* The numbers of a set in order: each by how many are below it.
Ascending(S) ==
  [n \in 1..Cardinality(S) |-> CHOOSE t \in S : Cardinality({u \in S : u < t}) = n - 1]
=============================================================================
