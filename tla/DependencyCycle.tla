--------------------------- MODULE DependencyCycle ---------------------------
(***************************************************************************)
(* The search for the dependency cycle to report when the compile loop is  *)
(* stuck (rewatch/src/build/compile/dependency_cycle.rs): a breadth-first  *)
(* search from one module after the other, those with many edges first,    *)
(* each cut off at the length of the shortest cycle that was found before. *)
(* The order of equal modules, and of the deps of one, is that of hash     *)
(* tables: any.                                                            *)
(***************************************************************************)
EXTENDS Naturals, Sequences, FiniteSets, FiniteSetsExt

CONSTANTS
  Node,             \* modules, of the compile universe or not
  Universes,        \* compile universes
  MaxDeps           \* a bound on the deps of one, for TLC

ASSUME NodeAssumption ==
  IsFiniteSet(Node) /\ Universes \subseteq SUBSET Node /\ MaxDeps \in Nat

VARIABLES
  modules,          \* the modules of the compile universe
  edges,            \* deps
  start_nodes,      \* those that have not been tried yet
  shortest_cycle    \* empty while none is known

searchVars == <<modules, edges, start_nodes, shortest_cycle>>

in_degree(n) == Cardinality({m \in modules : n \in edges[m]})
connectivity(n) == in_degree(n) + Cardinality(edges[n])

(* usize::MAX stands for no bound: no search is deeper than there are modules. *)
NoBound == Cardinality(Node) + 2
current_shortest_length_Zero == IF shortest_cycle = <<>> THEN 0 ELSE Len(shortest_cycle)
current_shortest_length == IF shortest_cycle = <<>> THEN NoBound ELSE Len(shortest_cycle)

(* The modules that are visited at a distance of d from start, or nearer.  Those at
   max_length - 1 or further are not expanded, and modules outside the universe have no
   entry in the graph. *)
Visited(start, max_length) ==
  LET seen[d \in 0..(Cardinality(Node) + 1)] ==
        IF d = 0 THEN {start}
        ELSE LET nearer == seen[d - 1]
             IN IF d - 1 >= max_length - 1 THEN nearer
                ELSE nearer \cup UNION {edges[m] : m \in nearer \cap modules}
  IN seen

(* The modules at each distance: one is visited once. *)
Layers(start, max_length) ==
  LET seen == Visited(start, max_length)
  IN [d \in DOMAIN seen |-> IF d = 0 THEN {start} ELSE seen[d] \ seen[d - 1]]

(* What find_cycle_bfs may return: the way back, along parents, from the first module it
   expands that has start among its deps. *)
find_cycle_bfs(start, max_length) ==
  LET layer == Layers(start, max_length)
      closing == {d \in DOMAIN layer : /\ d < max_length - 1
                                       /\ \E m \in layer[d] \cap modules : start \in edges[m]}
      k == Min(closing) + 1
      path == {p \in [1..k -> modules] : p[1] = start /\ \A i \in 2..k : p[i] \in layer[k + 1 - i]}
  IN IF closing = {} THEN {}
     ELSE {p \in path : \A i \in 1..k : p[i] \in edges[p[(i % k) + 1]]}

CycleInit ==
  /\ modules \in Universes
  /\ edges \in [Node -> UNION {kSubset(k, Node) : k \in 0..MaxDeps}]
  /\ \A n \in Node : n \notin edges[n]
  /\ \A n \in Node \ modules : edges[n] = {}
  /\ start_nodes = {n \in modules : edges[n] # {}}
  /\ shortest_cycle = <<>>

(* `if cycle.len() <= 3 { break }` *)
Stop_AnyCycle == shortest_cycle # <<>>
Stop == shortest_cycle # <<>> /\ Len(shortest_cycle) <= 3

FindFrom(n) ==
  /\ ~Stop
  /\ n \in start_nodes /\ \A m \in start_nodes : connectivity(n) >= connectivity(m)
  /\ start_nodes' = start_nodes \ {n}
  /\ LET found == IF in_degree(n) = 0 THEN {} ELSE find_cycle_bfs(n, current_shortest_length)
     IN \/ found = {} /\ UNCHANGED shortest_cycle
        \/ \E cycle \in found :
             shortest_cycle' = IF shortest_cycle = <<>> \/ Len(cycle) < Len(shortest_cycle)
                               THEN cycle ELSE shortest_cycle
  /\ UNCHANGED <<modules, edges>>

CycleNext == \E n \in Node : FindFrom(n)

CycleSpec == CycleInit /\ [][CycleNext]_searchVars

-----------------------------------------------------------------------------
(* The reference: modules that can reach themselves within the universe, and how far
   that is. *)
Reaches(n) ==
  LET within[k \in 0..Cardinality(Node)] ==
        IF k = 0 THEN edges[n]
        ELSE LET nearer == within[k - 1]
             IN nearer \cup UNION {edges[m] : m \in nearer \cap modules}
  IN within

OnCycle == {n \in modules : n \in Reaches(n)[Cardinality(Node)]}
Girth == Min({k \in 1..Cardinality(Node) : \E n \in OnCycle : n \in Reaches(n)[k - 1]})

SearchEnded == Stop \/ start_nodes = {}

(* When the search ends it has found a cycle exactly if there is one: a module whose
   search was cut off is not tried again, and modules without deps or dependents are left
   out. *)
CycleFoundIffThereIsOne == SearchEnded => (shortest_cycle # <<>> <=> OnCycle # {})

(* What is printed is a cycle, each module in it once and a dep of the module after it.
   It is the shortest one, unless one of three modules was good enough. *)
CycleIsShortest ==
  SearchEnded /\ shortest_cycle # <<>> =>
    LET k == Len(shortest_cycle)
    IN /\ \A i \in 1..k : shortest_cycle[i] \in edges[shortest_cycle[IF i = k THEN 1 ELSE i + 1]]
       /\ Cardinality({shortest_cycle[i] : i \in 1..k}) = k
       /\ k <= 3 \/ k = Girth
=============================================================================
