------------------------------ MODULE HashMap ------------------------------
(***************************************************************************)
(* Belt.HashMap (packages/@rescript/runtime/lib/js/Belt_HashMap.js,        *)
(* Belt_internalBuckets.js, Belt_internalBucketsType.js): an array of      *)
(* buckets, each a chain of cells.  The cells stay when the table grows;   *)
(* only what is next to them changes.  There is one cell for a key at      *)
(* most, so the key stands for its cell.                                   *)
(***************************************************************************)
EXTENDS Integers, FiniteSetsExt

CONSTANTS
  Key, Val,
  Hash,          \* id.hash
  MinBuckets,    \* 16, or a smaller power of 2 for TLC
  SignBit,       \* 2^31, or a smaller power of 2 for TLC: what does not fit into an int
  KeepSeveral,   \* may keepMapInPlace keep several cells of one bucket?
  Missing        \* undefined

ASSUME HashAssumption ==
  /\ IsFiniteSet(Key) /\ Hash \in [Key -> Nat] /\ Missing \notin Key /\ Missing \notin Val
  /\ MinBuckets \in Nat \ {0} /\ SignBit \in Nat \ {0} /\ KeepSeveral \in BOOLEAN

VARIABLES
  h,           \* size, buckets (from index 0), and next and value of each cell
  bindings     \* what the calls so far bind each key to

hashVars == <<h, bindings>>

Table(size, buckets, next, value) ==
  [size |-> size, buckets |-> buckets, next |-> next, value |-> value]

(* x << 1 of a positive x. *)
Doubled(x) == IF 2 * x >= SignBit THEN 2 * x - 2 * SignBit ELSE 2 * x

(* Doubled from MinBuckets on; n times is enough to reach n. *)
power_2_above(n) ==
  LET x[i \in Nat] == IF i = 0 THEN MinBuckets
                      ELSE LET before == x[i - 1]
                           IN IF before >= n \/ Doubled(before) < before THEN before
                              ELSE Doubled(before)
  IN x[n]

NumBuckets(t) == Cardinality(DOMAIN t.buckets)

(* hash(key) & (len - 1) *)
Index(t, k) == Hash[k] % NumBuckets(t)

(* The cells from `first` on, and no cell for ever after the last one. *)
CellsFrom(next, first) ==
  LET at[i \in Nat] == IF i = 0 THEN first
                       ELSE LET before == at[i - 1]
                            IN IF before = Missing THEN Missing ELSE next[before]
  IN at

(* As a sequence; a chain with a loop in it is cut off. *)
Bucket(t, i) ==
  LET at == CellsFrom(t.next, t.buckets[i])
      steps == 0..(Cardinality(Key) - 1)
  IN [j \in 1..Cardinality({step \in steps : at[step] # Missing}) |-> at[j - 1]]

CellsOf(t, i) == Range(Bucket(t, i))
hashHas(t, k) == k \in CellsOf(t, Index(t, k))

(* What forEach, reduce and toArray go through, and in which order. *)
Listed(t) == UNION {CellsOf(t, i) : i \in DOMAIN t.buckets}

Position(t, k) == CHOOSE j \in DOMAIN Bucket(t, Index(t, k)) : Bucket(t, Index(t, k))[j] = k
Earlier(t, k, l) ==
  \/ Index(t, k) < Index(t, l)
  \/ Index(t, k) = Index(t, l) /\ Position(t, k) < Position(t, l)
FirstOf(t, K) == CHOOSE k \in K : \A l \in K \ {k} : Earlier(t, k, l)
LastOf(t, K) == CHOOSE k \in K : \A l \in K \ {k} : Earlier(t, l, k)

(* Cells that no bucket reaches are garbage. *)
Collected(t) ==
  LET Live(field) == [k \in Key |-> IF k \in Listed(t) THEN field[k] ELSE Missing]
  IN Table(t.size, t.buckets, Live(t.next), Live(t.value))

Nowhere == [k \in Key |-> Missing]

(* make(hintSize) *)
HashInit ==
  /\ bindings = Nowhere
  /\ \E hintSize \in 0..3 :
       h = Table(0, [i \in 0..(power_2_above(hintSize) - 1) |-> Missing], Nowhere, Nowhere)

-----------------------------------------------------------------------------
(* replaceInBucket, or a new cell before the others. *)
Replaced_FirstCell(t, k, v) ==
  LET i == Index(t, k)
      first == t.buckets[i]
  IN IF first # Missing THEN Table(t.size, t.buckets, t.next, [t.value EXCEPT ![first] = v])
     ELSE Table(t.size + 1, [t.buckets EXCEPT ![i] = k], t.next, [t.value EXCEPT ![k] = v])
Replaced(t, k, v) ==
  LET i == Index(t, k)
      value == [t.value EXCEPT ![k] = v]
  IN IF hashHas(t, k) THEN Table(t.size, t.buckets, t.next, value)
     ELSE Table(t.size + 1, [t.buckets EXCEPT ![i] = k], [t.next EXCEPT ![k] = t.buckets[i]], value)

(* copyBucketReHash appends the cells of the old buckets, in order, to the new ones; at
   the end the last cell of each gets no next. *)
LastNext_Kept(t, k) == t.next[k]
LastNext(t, k) == Missing

Rehashed(t, nsize) ==
  LET inNew(i) == {k \in Listed(t) : Hash[k] % nsize = i}
      after(k) == {l \in inNew(Hash[k] % nsize) : Earlier(t, k, l)}
      First(K, none) == IF K = {} THEN none ELSE FirstOf(t, K)
  IN Table(t.size,
           [i \in 0..(nsize - 1) |-> First(inNew(i), Missing)],
           [k \in Key |-> IF k \in Listed(t) THEN First(after(k), LastNext(t, k)) ELSE Missing],
           t.value)

(* set0: with more than two cells to a bucket the number of buckets doubles, unless that
   overflows. *)
hashSet(k, v) ==
  LET t == Replaced(h, k, v)
      osize == NumBuckets(t)
  IN /\ h' = IF t.size > Doubled(osize) /\ Doubled(osize) >= osize
             THEN Rehashed(t, Doubled(osize)) ELSE t
     /\ bindings' = [bindings EXCEPT ![k] = v]

(* The bucket without the cell: the head, or the cell before it, gets its next. *)
Unlinked(t, k) ==
  LET i == Index(t, k)
      j == Position(t, k)
  IN IF j = 1 THEN Table(t.size - 1, [t.buckets EXCEPT ![i] = t.next[k]], t.next, t.value)
     ELSE Table(t.size - 1, t.buckets, [t.next EXCEPT ![Bucket(t, i)[j - 1]] = t.next[k]], t.value)

hashRemove(k) ==
  /\ hashHas(h, k)
  /\ h' = Collected(Unlinked(h, k))
  /\ bindings' = [bindings EXCEPT ![k] = Missing]

hashClear ==
  /\ bindings' = Nowhere
  /\ h' = Collected(Table(0, [i \in DOMAIN h.buckets |-> Missing], h.next, h.value))

(* filterMapInplaceBucket, for each bucket; f answers for each key with a value or
   Missing.  The first cell that is kept becomes the head of its bucket.  Every later one
   is made its own next (`cell.next = cell`, where the cell before it was meant).  The
   last one gets no next if it, or a cell after it that goes, ends the bucket. *)
keepMapInPlace(f) ==
  LET kept(i) == {k \in CellsOf(h, i) : f[k] # Missing}
      NextOf(k) == LET K == kept(Index(h, k))
                   IN IF k = LastOf(h, K) THEN Missing
                      ELSE IF k = FirstOf(h, K) THEN h.next[k] ELSE k
      stays(k) == k \in Listed(h) /\ f[k] # Missing
  IN /\ KeepSeveral \/ \A i \in DOMAIN h.buckets : \A k, l \in kept(i) : k = l
     /\ h' = Collected(Table(
          h.size - Cardinality({k \in Listed(h) : f[k] = Missing}),
          [i \in DOMAIN h.buckets |-> IF kept(i) = {} THEN Missing ELSE FirstOf(h, kept(i))],
          [k \in Key |-> IF stays(k) THEN NextOf(k) ELSE h.next[k]],
          [k \in Key |-> IF stays(k) THEN f[k] ELSE h.value[k]]))
     /\ bindings' = [k \in Key |-> IF bindings[k] = Missing THEN Missing ELSE f[k]]

(* What the callers' f may keep, and the value it gives. *)
Filters == {[k \in Key |-> IF k \in kept THEN v ELSE Missing] : kept \in SUBSET Key, v \in Val}

HashNext ==
  \/ \E k \in Key, v \in Val : hashSet(k, v)
  \/ \E k \in Key : hashRemove(k)
  \/ hashClear
  \/ \E f \in Filters : keepMapInPlace(f)

HashSpec == HashInit /\ [][HashNext]_hashVars

-----------------------------------------------------------------------------
(* The keys that are listed are those that are found, each once, however the table grew;
   "size(tbl) returns the number of bindings in tbl". *)
EntriesAreTheBindings ==
  /\ Listed(h) = {k \in Key : hashHas(h, k)}
  /\ h.size = Cardinality(Listed(h))
  /\ \A i \in DOMAIN h.buckets : IsInjective(Bucket(h, i))
  /\ \A i, j \in DOMAIN h.buckets : i # j => CellsOf(h, i) \cap CellsOf(h, j) = {}

hashGet(k) == IF hashHas(h, k) THEN h.value[k] ELSE Missing

(* A call changes the bindings of the keys that it names, to what it says, and no others:
   not those with the same hash, and not those that the table moves when it grows. *)
TableHoldsItsBindings == \A k \in Key : hashGet(k) = bindings[k]
=============================================================================
