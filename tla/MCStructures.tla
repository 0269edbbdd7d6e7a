---------------------------- MODULE MCStructures ----------------------------
(* The data structures share nothing: a behaviour calls those of one subject. *)
EXTENDS FifoQueue, DependencyCycle, MutableQueue, HashMap, StableSort, MutableSet, SetDict

CONSTANT Subjects

VARIABLE subject

(* DependencyCycle and HashMap start in several states, StableSort in one for each input. *)
CycleIdle ==
  /\ modules = {} /\ edges = [n \in Node |-> {}] /\ start_nodes = {} /\ shortest_cycle = <<>>

(* Modules are the same but for their names: those with more deps come first. *)
Renumbered == \A m, n \in Node : m < n => Cardinality(edges[m]) >= Cardinality(edges[n])

HashIdle == HashInit /\ Cardinality(DOMAIN h.buckets) = 1
SortIdle == input = <<>> /\ output = <<>>

MCInit ==
  /\ subject \in Subjects
  /\ QueueInit /\ LinkedInit /\ MutInit /\ DictInit
  /\ IF subject = "dependency cycle" THEN CycleInit /\ Renumbered ELSE CycleIdle
  /\ IF subject = "hash map" THEN HashInit ELSE HashIdle
  /\ IF subject = "sort" THEN SortInit ELSE SortIdle

MCNext ==
  /\ UNCHANGED subject
  /\ \/ /\ subject = "event queue" /\ QueueNext
        /\ UNCHANGED <<searchVars, linkedVars, hashVars, sortVars, mutVars, dictVars>>
     \/ /\ subject = "dependency cycle" /\ CycleNext
        /\ UNCHANGED <<queueVars, linkedVars, hashVars, sortVars, mutVars, dictVars>>
     \/ /\ subject = "mutable queue" /\ LinkedNext
        /\ UNCHANGED <<queueVars, searchVars, hashVars, sortVars, mutVars, dictVars>>
     \/ /\ subject = "hash map" /\ HashNext
        /\ UNCHANGED <<queueVars, searchVars, linkedVars, sortVars, mutVars, dictVars>>
     \/ /\ subject = "sort" /\ Sort
        /\ UNCHANGED <<queueVars, searchVars, linkedVars, hashVars, mutVars, dictVars>>
     \/ /\ subject = "mutable set" /\ MutNext
        /\ UNCHANGED <<queueVars, searchVars, linkedVars, hashVars, sortVars, dictVars>>
     \/ /\ subject = "set" /\ DictNext
        /\ UNCHANGED <<queueVars, searchVars, linkedVars, hashVars, sortVars, mutVars>>

MCSpec ==
  MCInit /\ [][MCNext]_<<subject, queueVars, searchVars, linkedVars, hashVars, sortVars, mutVars, dictVars>>

-----------------------------------------------------------------------------
CONSTANTS k1, k2, k3, k4

(* A compile universe of all modules, and one that two modules are not in. *)
TwoUniverses == {1..5, 1..3}

(* Of keys k1, k2 and k3 all but the lowest bits differ. *)
HashOf == k1 :> 0 @@ k2 :> 2 @@ k3 :> 4 @@ k4 :> 3

(* Twelve elements are sorted by merges of merges. *)
Inputs == UNION {[1..n -> {0, 2}] : n \in 0..12} \cup [1..6 -> 0..2]

Elements == 1..9
Arrays ==
  {<<>>, <<2, 3>>, <<7, 6, 2, 1>>, <<1, 2, 3, 4, 5, 6, 7, 8, 9>>, <<6, 1, 3, 3, 9>>,
   <<2, 8, 4, 5>>, <<5, 6, 1, 2, 3>>, <<1, 2, 3, 4, 5, 6, 7, 9>>}
=============================================================================
