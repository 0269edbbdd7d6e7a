---------------------------- MODULE MutableQueue ----------------------------
(***************************************************************************)
(* Belt.MutableQueue (packages/@rescript/runtime/lib/js/                   *)
(* Belt_MutableQueue.js): linked cells that an operation changes in place, *)
(* so that two queues could come to share some.  A cell that no queue      *)
(* reaches is garbage and leaves the heap.                                 *)
(***************************************************************************)
EXTENDS Naturals, SequencesExt

CONSTANTS
  Queue, Element,
  Cell,          \* as many as fit into memory
  Nothing        \* undefined

ASSUME CellAssumption ==
  IsFiniteSet(Cell) /\ Nothing \notin Cell /\ Nothing \notin Element

VARIABLES
  cells,         \* the heap: content and next of each cell
  queues,        \* length, first and last of each queue
  taken          \* what the last pop returned

linkedVars == <<cells, queues, taken>>

Cleared == [length |-> 0, first |-> Nothing, last |-> Nothing]

LinkedInit ==
  /\ cells = [c \in {} |-> Nothing]
  /\ queues = [q \in Queue |-> Cleared]
  /\ taken = Nothing

(* The cells from `first` on, and no cell for ever after the last one. *)
Walk(heap, first) ==
  LET at[i \in Nat] == IF i = 0 THEN first
                       ELSE LET before == at[i - 1]
                            IN IF before = Nothing THEN Nothing ELSE heap[before].next
  IN at

(* As a sequence; a chain with a loop in it is cut off. *)
Chain(heap, first) ==
  LET walk == Walk(heap, first)
      steps == 0..(Cardinality(DOMAIN heap) - 1)
  IN [i \in 1..Cardinality({k \in steps : walk[k] # Nothing}) |-> walk[i - 1]]

Link(newQueues, heap) ==
  LET reached == UNION {Range(Chain(heap, newQueues[q].first)) : q \in Queue}
  IN queues' = newQueues /\ cells' = Restrict(heap, reached)

Free == Cell \ DOMAIN cells

(* The heap with new cells. *)
With(heap, new) ==
  [c \in DOMAIN heap \cup DOMAIN new |-> IF c \in DOMAIN new THEN new[c] ELSE heap[c]]

-----------------------------------------------------------------------------
queueClear(q) ==
  /\ Link([queues EXCEPT ![q] = Cleared], cells)
  /\ UNCHANGED taken

queueAdd(q, x) ==
  LET last == queues[q].last
      cell == CHOOSE c \in Free : TRUE
      heap == With(cells, [c \in {cell} |-> [content |-> x, next |-> Nothing]])
  IN /\ Free # {}
     /\ IF last # Nothing
        THEN Link([queues EXCEPT ![q] = [length |-> queues[q].length + 1,
                                         first |-> queues[q].first, last |-> cell]],
                  [heap EXCEPT ![last].next = cell])
        ELSE Link([queues EXCEPT ![q] = [length |-> 1, first |-> cell, last |-> cell]], heap)
     /\ UNCHANGED taken

(* pop, popOrThrow and popUndefined; the last cell clears the queue. *)
AfterPop(q, next) ==
  IF next = Nothing THEN Cleared
  ELSE [length |-> queues[q].length - 1, first |-> next, last |-> queues[q].last]

(* What pop gives; the fault looks at the wrong end. *)
Popped_Last(q) == cells[queues[q].last].content
Popped(q) == cells[queues[q].first].content

queuePop(q) ==
  LET x == queues[q].first
  IN \/ /\ x = Nothing
        /\ taken' = Nothing /\ UNCHANGED <<cells, queues>>
     \/ /\ x # Nothing
        /\ taken' = Popped(q)
        /\ Link([queues EXCEPT ![q] = AfterPop(q, cells[x].next)], cells)

(* map, and copy with the identity; the result is held as r. *)
queueMap(q, r, f) ==
  LET chain == Chain(cells, queues[q].first)
      n == Len(chain)
      copied == CHOOSE s \in [1..n -> Free] : IsInjective(s)
      Copy(i) == [content |-> f[cells[chain[i]].content],
                  next |-> IF i = n THEN Nothing ELSE copied[i + 1]]
  IN /\ Cardinality(Free) >= n
     /\ IF n = 0
        THEN Link([queues EXCEPT ![r] = Cleared], cells)
        ELSE Link([queues EXCEPT ![r] = [length |-> queues[q].length, first |-> copied[1],
                                         last |-> copied[n]]],
                  With(cells, [c \in Range(copied) |-> Copy(CHOOSE i \in 1..n : copied[i] = c)]))
     /\ UNCHANGED taken

(* transfer hooks the cells of q1 to those of q2 and lets q1 go of them. *)
AfterTransfer_LastStays(q1, q2) == [queues[q2] EXCEPT !.length = @ + queues[q1].length]
AfterTransfer(q1, q2) ==
  [length |-> queues[q2].length + queues[q1].length,
   first |-> queues[q2].first, last |-> queues[q1].last]

queueTransfer(q1, q2) ==
  LET l == queues[q2].last
  IN /\ queues[q1].length > 0
     /\ IF l # Nothing
        THEN Link([queues EXCEPT ![q2] = AfterTransfer(q1, q2), ![q1] = Cleared],
                  [cells EXCEPT ![l].next = queues[q1].first])
        ELSE Link([queues EXCEPT ![q2] = queues[q1], ![q1] = Cleared], cells)
     /\ UNCHANGED taken

LinkedNext ==
  \E q, r \in Queue :
    \/ queueClear(q) \/ queuePop(q)
    \/ \E x \in Element : queueAdd(q, x)
    \/ \E f \in [Element -> Element] : queueMap(q, r, f)
    \/ queueTransfer(q, r)

LinkedSpec == LinkedInit /\ [][LinkedNext]_linkedVars

-----------------------------------------------------------------------------
toArray(q) ==
  LET chain == Chain(cells, queues[q].first) IN [i \in DOMAIN chain |-> cells[chain[i]].content]

(* What add and transfer rely on and never check: length counts the cells, last is the end
   of the chain that first begins, and no cell is in two queues. *)
ChainsAreSound ==
  /\ \A q \in Queue :
       LET chain == Chain(cells, queues[q].first)
       IN /\ queues[q].length = Len(chain)
          /\ queues[q].last = IF chain = <<>> THEN Nothing ELSE chain[Len(chain)]
          /\ chain # <<>> => cells[queues[q].last].next = Nothing
  /\ \A q, r \in Queue : q # r =>
       Range(Chain(cells, queues[q].first)) \cap Range(Chain(cells, queues[r].first)) = {}

(* Each operation does to the sequences what its doc says and leaves every other queue
   alone, transfer of a queue to itself included. *)
Abstract == INSTANCE Queues WITH contents <- [q \in Queue |-> toArray(q)]
ImplementsQueues == Abstract!QueuesSpec
=============================================================================
