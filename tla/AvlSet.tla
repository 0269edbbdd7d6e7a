------------------------------- MODULE AvlSet -------------------------------
(***************************************************************************)
(* The trees behind Belt's sets (packages/@rescript/runtime/lib/js/        *)
(* Belt_internalAVLset.js).  Every node caches its height, and the heights *)
(* of two siblings differ by 2 at most.  An operation that mutates a tree  *)
(* is given by the tree that it leaves.                                    *)
(***************************************************************************)
EXTENDS SortArray, SequencesExt

(* Belt.SortArray once more.  The merges of union, intersect and diff write into arrays of
   their own and give what they write. *)

(* The length of the longest prefix that ascends strictly, or minus that of one that
   descends. *)
strictlySortedLength(xs) ==
  LET Monotone(n, Lt(_, _)) == \A i \in 1..(n - 1) : Lt(xs[i], xs[i + 1])
      Longest(Lt(_, _)) == Max({n \in 1..Len(xs) : Monotone(n, Lt)})
  IN IF Len(xs) <= 1 THEN Len(xs)
     ELSE IF xs[2] < xs[1] THEN -Longest(LAMBDA x, y : y < x)
     ELSE Longest(LAMBDA x, y : x < y)

(* What union, intersect and diff write, for two sequences that ascend strictly.  The
   loop goes through both from the front; when one ends, the rest of the other is copied
   or left out. *)
RECURSIVE unionSorted(_, _), intersectSorted(_, _), diffSorted(_, _)
unionSorted(s1, s2) ==
  IF s1 = <<>> THEN s2 ELSE IF s2 = <<>> THEN s1
  ELSE IF Head(s1) < Head(s2) THEN <<Head(s1)>> \o unionSorted(Tail(s1), s2)
  ELSE IF Head(s1) = Head(s2) THEN <<Head(s1)>> \o unionSorted(Tail(s1), Tail(s2))
  ELSE <<Head(s2)>> \o unionSorted(s1, Tail(s2))

intersectSorted(s1, s2) ==
  IF s1 = <<>> \/ s2 = <<>> THEN <<>>
  ELSE IF Head(s1) < Head(s2) THEN intersectSorted(Tail(s1), s2)
  ELSE IF Head(s1) = Head(s2) THEN <<Head(s1)>> \o intersectSorted(Tail(s1), Tail(s2))
  ELSE intersectSorted(s1, Tail(s2))

diffSorted(s1, s2) ==
  IF s1 = <<>> \/ s2 = <<>> THEN s1
  ELSE IF Head(s1) < Head(s2) THEN <<Head(s1)>> \o diffSorted(Tail(s1), s2)
  ELSE IF Head(s1) = Head(s2) THEN diffSorted(Tail(s1), Tail(s2))
  ELSE diffSorted(s1, Tail(s2))

-----------------------------------------------------------------------------
Empty == [h |-> 0]     \* undefined

Larger(x, y) == IF x >= y THEN x ELSE y

create(l, v, r) == [v |-> v, h |-> Larger(l.h, r.h) + 1, l |-> l, r |-> r]
singleton(x) == create(Empty, x, Empty)

heightGe(l, r) == l.h >= r.h

(* bal(l, v, r): a double rotation when the inner grandchild is the higher one. *)
bal(l, v, r) ==
  IF l.h > r.h + 2
  THEN IF heightGe(l.l, l.r) THEN create(l.l, l.v, create(l.r, v, r))
       ELSE create(create(l.l, l.v, l.r.l), l.r.v, create(l.r.r, v, r))
  ELSE IF r.h > l.h + 2
  THEN IF heightGe(r.r, r.l) THEN create(create(l, v, r.l), r.v, r.r)
       ELSE create(create(l, v, r.l.l), r.l.v, create(r.l.r, r.v, r.r))
  ELSE create(l, v, r)

RECURSIVE elements(_)
elements(n) == IF n = Empty THEN <<>> ELSE elements(n.l) \o <<n.v>> \o elements(n.r)

RECURSIVE min0Aux(_), removeMinAuxWithRef(_)
min0Aux(n) == IF n.l = Empty THEN n.v ELSE min0Aux(n.l)
removeMinAuxWithRef(n) ==
  IF n.l = Empty THEN n.r ELSE bal(removeMinAuxWithRef(n.l), n.v, n.r)

RECURSIVE has(_, _)
has(t, x) == t # Empty /\ (x = t.v \/ has(IF x < t.v THEN t.l ELSE t.r, x))

(* s1 is cut into pieces that fit the subtrees of s2. *)
UpToRoot_RootLost(s1) == s1.l
UpToRoot(s1) == create(s1.l, s1.v, Empty)

RECURSIVE subset(_, _)
subset(s1, s2) ==
  \/ s1 = Empty
  \/ /\ s2 # Empty
     /\ CASE s1.v = s2.v -> subset(s1.l, s2.l) /\ subset(s1.r, s2.r)
          [] s1.v < s2.v -> subset(UpToRoot(s1), s2.l) /\ subset(s1.r, s2)
          [] s1.v > s2.v -> subset(create(Empty, s1.v, s1.r), s2.r) /\ subset(s1.l, s2)

-----------------------------------------------------------------------------
(* Trees that share nodes with others. *)

RECURSIVE addMinElement(_, _), addMaxElement(_, _)
addMinElement(n, v) ==
  IF n = Empty THEN singleton(v) ELSE bal(addMinElement(n.l, v), n.v, n.r)
addMaxElement(n, v) ==
  IF n = Empty THEN singleton(v) ELSE bal(n.l, n.v, addMaxElement(n.r, v))

(* Two trees may differ in height by any number. *)
Outgrows_ByFour(x, y) == x.h > y.h + 3
Outgrows(x, y) == x.h > y.h + 2

RECURSIVE joinShared(_, _, _)
joinShared(ln, v, rn) ==
  IF ln = Empty THEN addMinElement(rn, v)
  ELSE IF rn = Empty THEN addMaxElement(ln, v)
  ELSE IF Outgrows(ln, rn) THEN bal(ln.l, ln.v, joinShared(ln.r, v, rn))
  ELSE IF Outgrows(rn, ln) THEN bal(joinShared(ln, v, rn.l), rn.v, rn.r)
  ELSE create(ln, v, rn)

concatShared_MinStays(t1, t2) ==
  IF t1 = Empty THEN t2 ELSE IF t2 = Empty THEN t1
  ELSE joinShared(t1, min0Aux(t2), t2)
concatShared(t1, t2) ==
  IF t1 = Empty THEN t2 ELSE IF t2 = Empty THEN t1
  ELSE joinShared(t1, min0Aux(t2), removeMinAuxWithRef(t2))

RECURSIVE keepShared(_, _)
keepShared(n, p) ==
  IF n = Empty THEN n
  ELSE LET newL == keepShared(n.l, p)
           newR == keepShared(n.r, p)
       IN IF n.v \notin p THEN concatShared(newL, newR)
          ELSE IF n.l = newL /\ n.r = newR THEN n ELSE joinShared(newL, n.v, newR)

RECURSIVE partitionShared(_, _)
partitionShared(n, p) ==
  IF n = Empty THEN <<Empty, Empty>>
  ELSE LET left == partitionShared(n.l, p)
           right == partitionShared(n.r, p)
       IN IF n.v \in p
          THEN <<joinShared(left[1], n.v, right[1]), concatShared(left[2], right[2])>>
          ELSE <<concatShared(left[1], right[1]), joinShared(left[2], n.v, right[2])>>

-----------------------------------------------------------------------------
(* From arrays; arr is a sequence, so its first element has index 1. *)

RECURSIVE fromSortedArrayAux(_, _, _)
fromSortedArrayAux(arr, off, len) ==
  LET nl == len \div 2
  IN CASE len = 0 -> Empty
       [] len = 1 -> singleton(arr[off])
       [] len = 2 -> create(singleton(arr[off]), arr[off + 1], Empty)
       [] OTHER -> create(fromSortedArrayAux(arr, off, nl), arr[off + nl],
                          fromSortedArrayAux(arr, off + nl + 1, len - nl - 1))

RECURSIVE fromSortedArrayRevAux(_, _, _)
fromSortedArrayRevAux(arr, off, len) ==
  LET nl == len \div 2
  IN CASE len = 0 -> Empty
       [] len = 1 -> singleton(arr[off])
       [] len = 2 -> create(singleton(arr[off]), arr[off - 1], Empty)
       [] OTHER -> create(fromSortedArrayRevAux(arr, off, nl), arr[off - nl],
                          fromSortedArrayRevAux(arr, off - nl - 1, len - nl - 1))

fromWhole(arr) == fromSortedArrayAux(arr, 1, Len(arr))

keepCopy(n, p) == fromWhole(SelectSeq(elements(n), LAMBDA x : x \in p))

(* Those that p takes are filled in from the front, the others from the back. *)
partitionCopy(n, p) ==
  LET accepted == SelectSeq(elements(n), LAMBDA x : x \in p)
      refused == SelectSeq(elements(n), LAMBDA x : x \notin p)
      v == accepted \o Reverse(refused)
  IN <<fromSortedArrayAux(v, 1, Len(accepted)), fromSortedArrayRevAux(v, Len(v), Len(refused))>>

-----------------------------------------------------------------------------
(* Trees that one set owns and changes in place. *)

rotateWithLeftChild(k2) == create(k2.l.l, k2.l.v, create(k2.l.r, k2.v, k2.r))
rotateWithRightChild(k1) == create(create(k1.l, k1.v, k1.r.l), k1.r.v, k1.r.r)
doubleWithLeftChild(k3) == rotateWithLeftChild([k3 EXCEPT !.l = rotateWithRightChild(@)])
doubleWithRightChild(k2) == rotateWithRightChild([k2 EXCEPT !.r = rotateWithLeftChild(@)])

heightUpdateMutate(t) == [t EXCEPT !.h = Larger(t.l.h, t.r.h) + 1]

balMutate_LeftOnly(nt) ==
  IF nt.l.h > nt.r.h + 2
  THEN heightUpdateMutate(IF heightGe(nt.l.l, nt.l.r) THEN rotateWithLeftChild(nt)
                          ELSE doubleWithLeftChild(nt))
  ELSE heightUpdateMutate(nt)
balMutate(nt) ==
  IF nt.l.h > nt.r.h + 2
  THEN heightUpdateMutate(IF heightGe(nt.l.l, nt.l.r) THEN rotateWithLeftChild(nt)
                          ELSE doubleWithLeftChild(nt))
  ELSE IF nt.r.h > nt.l.h + 2
  THEN heightUpdateMutate(IF heightGe(nt.r.r, nt.r.l) THEN rotateWithRightChild(nt)
                          ELSE doubleWithRightChild(nt))
  ELSE heightUpdateMutate(nt)

RECURSIVE addMutate(_, _)
addMutate(t, x) ==
  IF t = Empty THEN singleton(x)
  ELSE IF x = t.v THEN t
  ELSE balMutate(IF x < t.v THEN [t EXCEPT !.l = addMutate(@, x)]
                 ELSE [t EXCEPT !.r = addMutate(@, x)])

(* What is left of n; its minimum goes into the node above. *)
RECURSIVE removeMinAuxWithRootMutate(_)
removeMinAuxWithRootMutate(n) ==
  IF n.l = Empty THEN n.r ELSE balMutate([n EXCEPT !.l = removeMinAuxWithRootMutate(@)])

(* The longest monotone prefix is taken as it is, what follows is added. *)
fromArray(xs) ==
  LET sorted == strictlySortedLength(xs)
      next == IF sorted >= 0 THEN sorted ELSE -sorted
      start == IF sorted >= 0 THEN fromSortedArrayAux(xs, 1, next)
               ELSE fromSortedArrayRevAux(xs, next, next)
  IN IF xs = <<>> THEN Empty ELSE FoldLeft(addMutate, start, SubSeq(xs, next + 1, Len(xs)))

-----------------------------------------------------------------------------
(* checkInvariantInternal; the heights it looks at are those that are cached. *)
RECURSIVE checkInvariantInternal(_)
checkInvariantInternal(v) ==
  v # Empty =>
    /\ v.l.h - v.r.h \in -2..2
    /\ checkInvariantInternal(v.l) /\ checkInvariantInternal(v.r)

RECURSIVE HeightsAreTrue(_)
HeightsAreTrue(n) ==
  n # Empty =>
    /\ n.h = Larger(n.l.h, n.r.h) + 1
    /\ HeightsAreTrue(n.l) /\ HeightsAreTrue(n.r)

IsBalanced(n) == HeightsAreTrue(n) /\ checkInvariantInternal(n)

Holds(n, members) ==
  LET s == elements(n)
  IN Range(s) = members /\ \A i \in 1..(Len(s) - 1) : s[i] < s[i + 1]
=============================================================================
