----------------------------- MODULE SortArray -----------------------------
(***************************************************************************)
(* The stable sort and the binary search of Belt.SortArray                 *)
(* (packages/@rescript/runtime/lib/js/Belt_SortArray.js).  The sort works  *)
(* in one buffer t beside the array a: it sorts a part of an array into    *)
(* another, or into another place of the same array, and merges two parts  *)
(* into an array that holds one of them.  Arrays start at 0.  Recursion is *)
(* by functions of how often it is done.                                   *)
(***************************************************************************)
EXTENDS Integers, Sequences, FiniteSets

CONSTANT Undefined    \* what is in a new buffer

Item == [key : Int, place : Nat]

cmp(x, y) == x.key - y.key

(* For an array of length l, with a buffer for its second half. *)
Places(l) == ({"a"} \X (0..(l - 1))) \cup ({"t"} \X (0..(l - l \div 2 - 1)))
Memories(l) == [Places(l) -> Item \cup {Undefined}]

(* Part of an array: src or dst with an offset. *)
Part(array, ofs, len) == {array} \X (ofs..(ofs + len - 1))

(* dst[dstofs + j] := src[srcofs + j] for j < len *)
blit(m, src, srcofs, dst, dstofs, len) ==
  [p \in DOMAIN m |-> IF p \in Part(dst, dstofs, len) THEN m[<<src, p[2] - dstofs + srcofs>>] ELSE m[p]]

-----------------------------------------------------------------------------
(* Element i of the source goes before those of the first i in dst that are larger: j goes
   down past them. *)
IsPlaceFor(j, m, e, dst, dstofs, i) ==
  /\ \A k \in j..(dstofs + i - 1) : cmp(m[<<dst, k>>], e) > 0
  /\ j > dstofs => cmp(m[<<dst, j - 1>>], e) <= 0

Inserted(m, src, srcofs, dst, dstofs, i) ==
  LET e == m[<<src, srcofs + i>>]
      at == CHOOSE j \in dstofs..(dstofs + i) : IsPlaceFor(j, m, e, dst, dstofs, i)
  IN [blit(m, dst, at, dst, at + 1, dstofs + i - at) EXCEPT ![<<dst, at>>] = e]

insertionSort(memory, src, srcofs, dst, dstofs, len) ==
  LET after[i \in 0..len] == IF i = 0 THEN memory
                             ELSE Inserted(after[i - 1], src, srcofs, dst, dstofs, i - 1)
  IN after[len]

TakesFirst_Less(s1, s2) == cmp(s1, s2) < 0
TakesFirst(s1, s2) == cmp(s1, s2) <= 0

(* The loop of merge: s1 and s2, from i1 and i2, were read before what is written at d. *)
Loop(memory, i1, s1, i2, s2, d, done) ==
  [memory |-> memory, i1 |-> i1, s1 |-> s1, i2 |-> i2, s2 |-> s2, d |-> d, done |-> done]

(* A turn of it.  When a part is used up, the rest of the other is copied. *)
Turn(x, src, src1r, src2, src2r, dst) ==
  LET i1 == x.i1 + 1
      i2 == x.i2 + 1
      d == x.d + 1
      Put(e) == [x.memory EXCEPT ![<<dst, x.d>>] = e]
  IN IF TakesFirst(x.s1, x.s2)
     THEN IF i1 < src1r THEN Loop(Put(x.s1), i1, Put(x.s1)[<<src, i1>>], x.i2, x.s2, d, FALSE)
          ELSE Loop(blit(Put(x.s1), src2, x.i2, dst, d, src2r - x.i2), i1, x.s1, x.i2, x.s2, d, TRUE)
     ELSE IF i2 < src2r THEN Loop(Put(x.s2), x.i1, x.s1, i2, Put(x.s2)[<<src2, i2>>], d, FALSE)
          ELSE Loop(blit(Put(x.s2), src, x.i1, dst, d, src1r - x.i1), x.i1, x.s1, i2, x.s2, d, TRUE)

(* There are fewer turns than elements. *)
merge(memory, src, src1ofs, src1len, src2, src2ofs, src2len, dst, dstofs) ==
  LET turn[n \in 0..(src1len + src2len)] ==
        IF n = 0
        THEN Loop(memory, src1ofs, memory[<<src, src1ofs>>], src2ofs, memory[<<src2, src2ofs>>],
                  dstofs, FALSE)
        ELSE LET before == turn[n - 1]
             IN IF before.done THEN before
                ELSE Turn(before, src, src1ofs + src1len, src2, src2ofs + src2len, dst)
  IN turn[src1len + src2len].memory

(* The calls of sortTo for at most `most` elements: two parts of the arrays that do not
   overlap, and in the first the items as they were in the input. *)
Calls(l, most) ==
  {c \in [memory : Memories(l), src : {"a", "t"}, srcofs : Nat, dst : {"a", "t"}, dstofs : Nat,
          len : 0..most] :
     /\ Part(c.src, c.srcofs, c.len) \cup Part(c.dst, c.dstofs, c.len) \subseteq Places(l)
     /\ Part(c.src, c.srcofs, c.len) \cap Part(c.dst, c.dstofs, c.len) = {}
     /\ \A p \in Part(c.src, c.srcofs, c.len) : c.memory[p] \in Item
     /\ \A p, q \in Part(c.src, c.srcofs, c.len) :
          p[2] < q[2] => c.memory[p].place < c.memory[q].place}

Call(memory, src, srcofs, dst, dstofs, len) ==
  [memory |-> memory, src |-> src, srcofs |-> srcofs, dst |-> dst, dstofs |-> dstofs, len |-> len]

(* The memory after the call c; sort[inner] is the memory after a call inside it. *)
SortedTo(c, sort) ==
  LET l1 == c.len \div 2
      l2 == c.len - l1
      second == sort[Call(c.memory, c.src, c.srcofs + l1, c.dst, c.dstofs + l1, l2)]
      both == sort[Call(second, c.src, c.srcofs, c.src, c.srcofs + l2, l1)]
  IN IF c.len <= 5 THEN insertionSort(c.memory, c.src, c.srcofs, c.dst, c.dstofs, c.len)
     ELSE merge(both, c.src, c.srcofs + l2, l1, c.dst, c.dstofs + l1, l2, c.dst, c.dstofs)

(* The calls inside a call have fewer elements. *)
sortTo(l, call) ==
  LET nested[most \in 0..call.len] == [c \in Calls(l, most) |-> SortedTo(c, nested[most - 1])]
  IN nested[call.len][call]

stableSortInPlaceBy(a) ==
  LET l == Cardinality(DOMAIN a)
      l1 == l \div 2
      l2 == l - l1
      memory == [p \in Places(l) |-> IF p[1] = "a" THEN a[p[2]] ELSE Undefined]
      second == sortTo(l, Call(memory, "a", l1, "t", 0, l2))
      both == sortTo(l, Call(second, "a", 0, "a", l2, l1))
      sorted == IF l <= 5 THEN insertionSort(memory, "a", 0, "a", 0, l)
                ELSE merge(both, "a", l2, l1, "t", 0, l2, "a", 0)
  IN [i \in DOMAIN a |-> sorted[<<"a", i>>]]

-----------------------------------------------------------------------------
(* The index of the key, or -(insertion point) - 1. *)
NotFound_AtMid(mid, hi) == -(mid + 1)
NotFound(mid, hi) == -(hi + 1)

(* binarySearchAux, from lo to hi: where it goes on, and its answer where it stops. *)
Mid(range) == (range.lo + range.hi) \div 2

Narrowed(sorted, key, range) ==
  LET mid == Mid(range)
  IN IF key < sorted[mid] /\ range.hi # mid THEN [range EXCEPT !.hi = mid]
     ELSE IF key > sorted[mid] /\ range.lo # mid THEN [range EXCEPT !.lo = mid]
     ELSE range

Answer(sorted, key, range) ==
  LET mid == Mid(range)
      last == IF key < sorted[mid] THEN range.lo ELSE range.hi
  IN IF key = sorted[mid] THEN mid
     ELSE IF sorted[last] = key THEN last ELSE NotFound(mid, range.hi)

(* It goes on fewer times than there are elements. *)
binarySearchBy(sorted, key) ==
  LET len == Cardinality(DOMAIN sorted)
      range[n \in Nat] == IF n = 0 THEN [lo |-> 0, hi |-> len - 1]
                          ELSE Narrowed(sorted, key, range[n - 1])
  IN IF len = 0 \/ key < sorted[0] THEN -1
     ELSE IF key > sorted[len - 1] THEN -(len + 1)
     ELSE Answer(sorted, key, range[len])
=============================================================================
