----------------------------- MODULE MutableSet -----------------------------
(***************************************************************************)
(* Belt.MutableSet (packages/@rescript/runtime/lib/js/Belt_MutableSet.js). *)
(* A program has one set; it changes it in place, or goes on with the new  *)
(* set that a call gives it.  `mutMembers` is what the set has to hold     *)
(* after these calls.                                                      *)
(***************************************************************************)
EXTENDS AvlSet

CONSTANTS
  MutElement,      \* natural numbers, compared as such
  MutArrays,       \* array arguments: sequences of elements
  MutMaxSize       \* a bound on the size of the set, for TLC

ASSUME MutAssumption == MutElement \subseteq Nat /\ MutMaxSize \in Nat

VARIABLES mutSet, mutMembers

mutVars == <<mutSet, mutMembers>>

MutInit == mutSet = Empty /\ mutMembers = {}

Become(tree, members) ==
  /\ Cardinality(members) <= MutMaxSize
  /\ mutSet' = tree /\ mutMembers' = members

(* add and addCheck *)
mutAdd(x) == Become(addMutate(mutSet, x), mutMembers \cup {x})

mutMergeMany(xs) == Become(FoldLeft(addMutate, mutSet, xs), mutMembers \cup Range(xs))

mutFromArray(xs) == Become(fromArray(xs), Range(xs))

(* remove0 and removeCheck0; the minimum of the right subtree replaces a root between two. *)
RemoveRoot_KeepsMin(nt) ==
  IF nt.l = Empty THEN nt.r ELSE IF nt.r = Empty THEN nt.l
  ELSE balMutate([nt EXCEPT !.v = min0Aux(nt.r)])
RemoveRoot(nt) ==
  IF nt.l = Empty THEN nt.r ELSE IF nt.r = Empty THEN nt.l
  ELSE balMutate([nt EXCEPT !.v = min0Aux(nt.r), !.r = removeMinAuxWithRootMutate(@)])
RECURSIVE remove0(_, _)
remove0(nt, x) ==
  CASE x = nt.v -> RemoveRoot(nt)
    [] x < nt.v /\ nt.l # Empty -> balMutate([nt EXCEPT !.l = remove0(@, x)])
    [] x > nt.v /\ nt.r # Empty -> balMutate([nt EXCEPT !.r = remove0(@, x)])
    [] OTHER -> nt

RemovedFrom(t, x) == IF t = Empty THEN Empty ELSE remove0(t, x)

mutRemove(x) == Become(RemovedFrom(mutSet, x), mutMembers \ {x})

mutRemoveMany(xs) == Become(FoldLeft(RemovedFrom, mutSet, xs), mutMembers \ Range(xs))

mutKeep(p) == Become(keepCopy(mutSet, p), mutMembers \cap p)

mutPartition(p) ==
  LET halves == partitionCopy(mutSet, p)
  IN Become(halves[1], mutMembers \cap p) \/ Become(halves[2], mutMembers \ p)

(* arr starts at index 0 in the search and at 1 in the trees. *)
mutSplit(key) ==
  LET arr == elements(mutSet)
      i == binarySearchBy([j \in 0..(Len(arr) - 1) |-> arr[j + 1]], key)
      next == IF i >= 0 THEN i ELSE -i - 1
      after == IF i >= 0 THEN i + 1 ELSE next
  IN \/ Become(fromSortedArrayAux(arr, 1, next), {x \in mutMembers : x < key})
     \/ Become(fromSortedArrayAux(arr, after + 1, Len(arr) - after), {x \in mutMembers : x > key})

(* union, intersect and diff.  Sets that do not overlap are told by their ends, for union
   only with a below b.  What needs no merge is copied as it is. *)
AllBelow(a, b) == LET x == elements(a) IN x[Len(x)] < min0Aux(b)
Apart(a, b) == a = Empty \/ b = Empty \/ AllBelow(a, b) \/ AllBelow(b, a)

setUnion(a, b) ==
  IF a = Empty THEN b ELSE IF b = Empty THEN a
  ELSE fromWhole(IF AllBelow(a, b) THEN elements(a) \o elements(b)
                 ELSE unionSorted(elements(a), elements(b)))
setIntersect(a, b) ==
  IF Apart(a, b) THEN Empty ELSE fromWhole(intersectSorted(elements(a), elements(b)))
setDiff(a, b) ==
  IF Apart(a, b) THEN a ELSE fromWhole(diffSorted(elements(a), elements(b)))

mutCombine(xs) ==
  LET b == fromArray(xs)
  IN \/ Become(setUnion(mutSet, b), mutMembers \cup Range(xs))
     \/ Become(setUnion(b, mutSet), mutMembers \cup Range(xs))
     \/ Become(setIntersect(mutSet, b), mutMembers \cap Range(xs))
     \/ Become(setDiff(mutSet, b), mutMembers \ Range(xs))
     \/ Become(setDiff(b, mutSet), Range(xs) \ mutMembers)

MutNext ==
  \/ \E x \in MutElement : mutAdd(x) \/ mutRemove(x) \/ mutSplit(x)
  \/ \E xs \in MutArrays :
       \/ mutMergeMany(xs) \/ mutRemoveMany(xs) \/ mutFromArray(xs) \/ mutCombine(xs)
       \/ mutKeep(Range(xs)) \/ mutPartition(Range(xs))

MutSpec == MutInit /\ [][MutNext]_mutVars

-----------------------------------------------------------------------------
(* After any calls the set holds what they put into it and did not take away, in order
   and each element once. *)
MutableSetHoldsItsMembers == Holds(mutSet, mutMembers)

(* Each cached height is true and siblings differ by 2 at most, so that no later call
   rebalances a node by heights that are wrong. *)
MutableSetIsBalanced == IsBalanced(mutSet)

TreeOf == [xs \in MutArrays |-> fromArray(xs)]

(* The queries tell the same as the set does, subset included, which cuts one tree up
   along the other. *)
MutableSetAnswers ==
  /\ \A x \in MutElement : has(mutSet, x) <=> x \in mutMembers
  /\ \A xs \in MutArrays :
       /\ subset(mutSet, TreeOf[xs]) <=> mutMembers \subseteq Range(xs)
       /\ subset(TreeOf[xs], mutSet) <=> Range(xs) \subseteq mutMembers
=============================================================================
