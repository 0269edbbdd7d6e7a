----------------------------- MODULE StableSort -----------------------------
(***************************************************************************)
(* Calls of Belt.SortArray.stableSortInPlaceBy, and of binarySearchBy on   *)
(* what it leaves.                                                         *)
(***************************************************************************)
EXTENDS SortArray

CONSTANTS
  SortInputs,    \* the arrays to sort: sequences of keys
  SearchKeys     \* the keys to search for

ASSUME SortAssumption == SortInputs \subseteq Seq(Int) /\ SearchKeys \subseteq Int

VARIABLES
  input,    \* items with the keys of an input, each with its place in it
  output    \* the array after stableSortInPlaceBy, or <<>>

sortVars == <<input, output>>

SortInit ==
  /\ \E s \in SortInputs : input = [i \in 0..(Len(s) - 1) |-> [key |-> s[i + 1], place |-> i]]
  /\ output = <<>>

Sort == output = <<>> /\ output' = stableSortInPlaceBy(input) /\ UNCHANGED input

SortSpec == SortInit /\ [][Sort]_sortVars

-----------------------------------------------------------------------------
(* The sort permutes the elements into ascending order, and those with the same key stay
   in the order they had: no part is overwritten before it was merged. *)
SortedAndStable ==
  output # <<>> =>
    /\ {output[i] : i \in DOMAIN output} = {input[i] : i \in DOMAIN input}
    /\ \A i \in DOMAIN output : i > 0 =>
         LET x == output[i - 1]
             y == output[i]
         IN x.key < y.key \/ (x.key = y.key /\ x.place < y.place)

(* binarySearchBy finds a key exactly if it is there, and otherwise tells where it would
   have to go, also with several elements of the same key. *)
SearchFindsTheKey ==
  output # <<>> =>
    LET keys == [i \in DOMAIN output |-> output[i].key]
        len == Cardinality(DOMAIN keys)
    IN \A k \in SearchKeys :
         LET i == binarySearchBy(keys, k)
         IN IF \E j \in DOMAIN keys : keys[j] = k THEN i \in DOMAIN keys /\ keys[i] = k
            ELSE /\ -i - 1 \in 0..len
                 /\ \A j \in 0..(-i - 2) : keys[j] < k
                 /\ \A j \in (-i - 1)..(len - 1) : keys[j] > k
=============================================================================
