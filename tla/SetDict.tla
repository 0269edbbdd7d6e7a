------------------------------ MODULE SetDict ------------------------------
(***************************************************************************)
(* Belt.Set (packages/@rescript/runtime/lib/js/Belt_SetDict.js): sets that *)
(* never change and share nodes.  A program goes on with the set that its  *)
(* last call gave it; `dictMembers` is what that has to hold.              *)
(***************************************************************************)
EXTENDS AvlSet

CONSTANTS
  DictElement,     \* natural numbers, compared as such
  DictArrays,      \* array arguments: sequences of elements
  DictMaxSize      \* a bound on the size of the set, for TLC

ASSUME DictAssumption == DictElement \subseteq Nat /\ DictMaxSize \in Nat

VARIABLES dictSet, dictMembers

dictVars == <<dictSet, dictMembers>>

DictInit == dictSet = Empty /\ dictMembers = {}

Hold(tree, members) ==
  /\ Cardinality(members) <= DictMaxSize
  /\ dictSet' = tree /\ dictMembers' = members

RECURSIVE add(_, _)
add(t, x) ==
  IF t = Empty THEN singleton(x)
  ELSE IF x = t.v THEN t
  ELSE IF x < t.v
  THEN LET ll == add(t.l, x) IN IF ll = t.l THEN t ELSE bal(ll, t.v, t.r)
  ELSE LET rr == add(t.r, x) IN IF rr = t.r THEN t ELSE bal(t.l, t.v, rr)

RECURSIVE remove(_, _)
remove(t, x) ==
  IF t = Empty THEN t
  ELSE IF x = t.v
  THEN IF t.l = Empty THEN t.r ELSE IF t.r = Empty THEN t.l
       ELSE bal(t.l, min0Aux(t.r), removeMinAuxWithRef(t.r))
  ELSE IF x < t.v
  THEN LET ll == remove(t.l, x) IN IF ll = t.l THEN t ELSE bal(ll, t.v, t.r)
  ELSE LET rr == remove(t.r, x) IN IF rr = t.r THEN t ELSE bal(t.l, t.v, rr)

(* splitAuxPivot, and splitAuxNoPivot without pres: what is below x and what is above. *)
RECURSIVE splitAux(_, _)
splitAux(n, x) ==
  CASE n = Empty -> [below |-> Empty, above |-> Empty, pres |-> FALSE]
    [] n # Empty /\ x = n.v -> [below |-> n.l, above |-> n.r, pres |-> TRUE]
    [] n # Empty /\ x < n.v ->
         IF n.l = Empty THEN [below |-> Empty, above |-> n, pres |-> FALSE]
         ELSE LET match == splitAux(n.l, x)
              IN [match EXCEPT !.above = joinShared(@, n.v, n.r)]
    [] OTHER ->
         IF n.r = Empty THEN [below |-> n, above |-> Empty, pres |-> FALSE]
         ELSE LET match == splitAux(n.r, x)
              IN [match EXCEPT !.below = joinShared(n.l, n.v, @)]

(* The tree that is higher is taken apart at its root, the other split there. *)
RECURSIVE union(_, _)
union(s1, s2) ==
  IF s1 = Empty THEN s2 ELSE IF s2 = Empty THEN s1
  ELSE IF s1.h >= s2.h
  THEN IF s2.h = 1 THEN add(s1, s2.v)
       ELSE LET match == splitAux(s2, s1.v)
            IN joinShared(union(s1.l, match.below), s1.v, union(s1.r, match.above))
  ELSE IF s1.h = 1 THEN add(s2, s1.v)
       ELSE LET match == splitAux(s1, s2.v)
            IN joinShared(union(match.below, s2.l), s2.v, union(match.above, s2.r))

RECURSIVE intersect(_, _)
intersect(s1, s2) ==
  IF s1 = Empty \/ s2 = Empty THEN Empty
  ELSE LET match == splitAux(s2, s1.v)
           ll == intersect(s1.l, match.below)
           rr == intersect(s1.r, match.above)
       IN IF match.pres THEN joinShared(ll, s1.v, rr) ELSE concatShared(ll, rr)

RECURSIVE diff(_, _)
diff(s1, s2) ==
  IF s1 = Empty \/ s2 = Empty THEN s1
  ELSE LET match == splitAux(s2, s1.v)
           ll == diff(s1.l, match.below)
           rr == diff(s1.r, match.above)
       IN IF match.pres THEN concatShared(ll, rr) ELSE joinShared(ll, s1.v, rr)

-----------------------------------------------------------------------------
dictAdd(x) == Hold(add(dictSet, x), dictMembers \cup {x})
dictRemove(x) == Hold(remove(dictSet, x), dictMembers \ {x})
dictMergeMany(xs) == Hold(FoldLeft(add, dictSet, xs), dictMembers \cup Range(xs))
dictRemoveMany(xs) == Hold(FoldLeft(remove, dictSet, xs), dictMembers \ Range(xs))
dictFromArray(xs) == Hold(fromArray(xs), Range(xs))

dictSplit(x) ==
  LET match == splitAux(dictSet, x)
  IN \/ Hold(match.below, {y \in dictMembers : y < x})
     \/ Hold(match.above, {y \in dictMembers : y > x})

dictKeep(p) == Hold(keepShared(dictSet, p), dictMembers \cap p)

dictPartition(p) ==
  LET halves == partitionShared(dictSet, p)
  IN Hold(halves[1], dictMembers \cap p) \/ Hold(halves[2], dictMembers \ p)

dictCombine(xs) ==
  LET other == fromArray(xs)
  IN \/ Hold(union(dictSet, other), dictMembers \cup Range(xs))
     \/ Hold(union(other, dictSet), dictMembers \cup Range(xs))
     \/ Hold(intersect(dictSet, other), dictMembers \cap Range(xs))
     \/ Hold(intersect(other, dictSet), dictMembers \cap Range(xs))
     \/ Hold(diff(dictSet, other), dictMembers \ Range(xs))
     \/ Hold(diff(other, dictSet), Range(xs) \ dictMembers)

DictNext ==
  \/ \E x \in DictElement : dictAdd(x) \/ dictRemove(x) \/ dictSplit(x)
  \/ \E xs \in DictArrays :
       \/ dictMergeMany(xs) \/ dictRemoveMany(xs) \/ dictFromArray(xs) \/ dictCombine(xs)
       \/ dictKeep(Range(xs)) \/ dictPartition(Range(xs))

DictSpec == DictInit /\ [][DictNext]_dictVars

-----------------------------------------------------------------------------
(* What a call returns holds what the calls so far say, in order and each element once. *)
SetHoldsItsMembers == Holds(dictSet, dictMembers)

(* Its cached heights are true and siblings differ by 2 at most, also when it was joined
   from trees of any heights. *)
SetIsBalanced == IsBalanced(dictSet)
=============================================================================
