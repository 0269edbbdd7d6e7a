----------------------------- MODULE BeltProofs -----------------------------
(***************************************************************************)
(* Structures of Belt.  The cells of a mutable queue are sequences, for    *)
(* any number of queues and cells: the chains stay sound, and every        *)
(* operation does to the sequences what module Queues says.  A hash map    *)
(* lists and finds what was bound last, for any keys and hash function, as *)
(* long as keepMapInPlace keeps no two cells of a bucket.                  *)
(* stableSortInPlaceBy sorts every array, and binarySearchBy finds every   *)
(* key in what it leaves.                                                  *)
(***************************************************************************)
EXTENDS MutableQueue, HashMap, StableSort, FiniteSetTheorems, TLAPS

Less == {p \in Nat \X Nat : p[1] < p[2]}

(* A set of natural numbers has a least one. *)
LEMMA Least ==
  ASSUME NEW T \in SUBSET Nat, T # {}
  PROVE  \E x \in T : \A y \in T : x <= y
<1>0. IsWellFoundedOn(Less, Nat)
  BY NatLessThanWellFounded DEF OpToRel, Less
<1>1. PICK x \in T : \A y \in T : ~(<<y, x>> \in Less)
  BY <1>0, WFMin
<1>2. ASSUME NEW y \in T PROVE x <= y
  <2>1. <<y, x>> \notin Less
    BY <1>1
  <2> QED BY <2>1 DEF Less
<1> QED BY <1>2

(* Induction over the natural numbers, for a set of them. *)
LEMMA Induction ==
  ASSUME NEW S, 0 \in S, \A n \in Nat : n \in S => n + 1 \in S
  PROVE  \A n \in Nat : n \in S
<1> SUFFICES ASSUME NEW m \in Nat, m \notin S PROVE FALSE
  OBVIOUS
<1>1. PICK x \in Nat \ S : \A y \in Nat \ S : x <= y
  BY Least
<1>2. x # 0 /\ x - 1 \in Nat
  OBVIOUS
<1>3. x - 1 \in S
  BY <1>1, <1>2
<1> QED BY <1>2, <1>3

Iterates(f, G, x) == f[0] = x /\ \A n \in Nat : f[n + 1] = G[f[n]]

(* A function can be iterated: the recursive function that does it exists. *)
LEMMA Iteration ==
  ASSUME NEW S, NEW x \in S, NEW G \in [S -> S]
  PROVE  \E f \in [Nat -> S] : Iterates(f, G, x)
<1> DEFINE Prefix(n) == {g \in [0..n -> S] : g[0] = x /\ \A i \in 0..(n - 1) : g[i + 1] = G[g[i]]}
<1>1. \A n \in Nat : Prefix(n) # {}
  <2> DEFINE T == {n \in Nat : Prefix(n) # {}}
  <2>1. 0 \in T
    <3>1. [i \in 0..0 |-> x] \in Prefix(0)
      OBVIOUS
    <3> QED BY <3>1
  <2>2. ASSUME NEW n \in Nat, n \in T PROVE n + 1 \in T
    <3>1. PICK g \in Prefix(n) : TRUE
      BY <2>2
    <3>2. [i \in 0..(n + 1) |-> IF i <= n THEN g[i] ELSE G[g[n]]] \in Prefix(n + 1)
      OBVIOUS
    <3> QED BY <3>2
  <2> HIDE DEF T
  <2>3. \A n \in Nat : n \in T
    BY <2>1, <2>2, Induction
  <2> QED BY <2>3 DEF T
<1>2. ASSUME NEW n \in Nat, NEW g \in Prefix(n), NEW longer \in Prefix(n + 1)
      PROVE  \A i \in Nat : i <= n => g[i] = longer[i]
  <2> DEFINE T == {i \in Nat : i <= n => g[i] = longer[i]}
  <2>1. 0 \in T
    OBVIOUS
  <2>2. ASSUME NEW i \in Nat, i \in T PROVE i + 1 \in T
    <3>1. CASE i + 1 <= n
      BY <2>2, <3>1
    <3> QED BY <3>1
  <2> HIDE DEF T
  <2>3. \A i \in Nat : i \in T
    BY <2>1, <2>2, Induction
  <2> QED BY <2>3 DEF T
<1> DEFINE part(n) == CHOOSE g \in Prefix(n) : TRUE
           f == [n \in Nat |-> part(n)[n]]
<1>3. \A n \in Nat : part(n) \in Prefix(n)
  BY <1>1
<1> HIDE DEF part
<1>4. f \in [Nat -> S] /\ f[0] = x
  BY <1>3
<1>5. ASSUME NEW n \in Nat PROVE f[n + 1] = G[f[n]]
  <2>1. part(n)[n] = part(n + 1)[n]
    <3> HIDE DEF Prefix
    <3>1. part(n) \in Prefix(n) /\ part(n + 1) \in Prefix(n + 1)
      BY <1>3
    <3> QED BY <1>2, <3>1
  <2> QED BY <1>3, <2>1
<1> QED BY <1>4, <1>5 DEF Iterates

(* Walk follows next from cell to cell. *)
LEMMA WalkIs ==
  ASSUME NEW heap, NEW first \in DOMAIN heap \cup {Nothing}, Nothing \notin DOMAIN heap,
         \A c \in DOMAIN heap : heap[c].next \in DOMAIN heap \cup {Nothing}
  PROVE  /\ Walk(heap, first)[0] = first
         /\ \A i \in Nat : Walk(heap, first)[i + 1] =
              IF Walk(heap, first)[i] = Nothing THEN Nothing ELSE heap[Walk(heap, first)[i]].next
<1> DEFINE S == DOMAIN heap \cup {Nothing}
           G == [c \in S |-> IF c = Nothing THEN Nothing ELSE heap[c].next]
           Is(f) == f = [i \in Nat |-> IF i = 0 THEN first
                       ELSE IF f[i - 1] = Nothing THEN Nothing ELSE heap[f[i - 1]].next]
<1>1. PICK f \in [Nat -> S] : Iterates(f, G, first)
  <2>1. first \in S /\ G \in [S -> S]
    OBVIOUS
  <2> HIDE DEF S, G
  <2> QED BY <2>1, Iteration
<1>2. Is(f)
  <2>1. ASSUME NEW i \in Nat
        PROVE f[i] = IF i = 0 THEN first
                       ELSE IF f[i - 1] = Nothing THEN Nothing ELSE heap[f[i - 1]].next
    <3>1. CASE i = 0
      BY <1>1, <3>1 DEF Iterates
    <3>2. CASE i # 0
      <4>1. i - 1 \in Nat /\ (i - 1) + 1 = i
        BY <3>2
      <4>2. f[i] = G[f[i - 1]]
        BY <1>1, <4>1 DEF Iterates
      <4> QED BY <3>2, <4>1, <4>2
    <3> QED BY <3>1, <3>2
  <2> QED BY <2>1
<1>3. Walk(heap, first) = CHOOSE g : Is(g)
  BY DEF Walk
<1>4. Is(Walk(heap, first))
  <2> HIDE DEF Is
  <2> QED BY <1>2, <1>3
<1> QED BY <1>4

-----------------------------------------------------------------------------
(* The chains themselves, as a sequence of cells for each queue. *)

Closed(heap) ==
  /\ DOMAIN heap \subseteq Cell /\ IsFiniteSet(DOMAIN heap)
  /\ \A c \in DOMAIN heap : heap[c] \in [content : Element, next : DOMAIN heap \cup {Nothing}]

(* s are the cells from first on. *)
IsChain(heap, first, s) ==
  /\ s \in Seq(DOMAIN heap)
  /\ \A i, j \in 1..Len(s) : s[i] = s[j] => i = j
  /\ first = IF s = <<>> THEN Nothing ELSE s[1]
  /\ \A i \in 1..Len(s) : heap[s[i]].next = IF i = Len(s) THEN Nothing ELSE s[i + 1]

(* A chain has no more cells than the heap. *)
LEMMA ChainFits ==
  ASSUME NEW T, IsFiniteSet(T), NEW s \in Seq(T),
         \A i, j \in 1..Len(s) : s[i] = s[j] => i = j
  PROVE  Cardinality(T) \in Nat /\ Len(s) <= Cardinality(T)
<1>1. s \in Injection(1..Len(s), T)
  BY DEF Injection, IsInjective
<1>2. Cardinality(1..Len(s)) <= Cardinality(T)
  BY <1>1, FS_Injection
<1>3. Cardinality(1..Len(s)) = Len(s)
  BY FS_Interval
<1> QED BY <1>2, <1>3, FS_CardinalityType

(* Chain finds the chain, whole and no more. *)
LEMMA ChainIs ==
  ASSUME NEW heap, Closed(heap), NEW first, NEW s, IsChain(heap, first, s)
  PROVE  Chain(heap, first) = s
<1> DEFINE walk == Walk(heap, first)
           most == Cardinality(DOMAIN heap)
           steps == 0..(most - 1)
<1>1. Nothing \notin DOMAIN heap /\ first \in DOMAIN heap \cup {Nothing}
  BY CellAssumption DEF Closed, IsChain
<1>2. walk[0] = first
  BY <1>1, WalkIs DEF Closed
<1>3. \A i \in Nat : walk[i + 1] = IF walk[i] = Nothing THEN Nothing ELSE heap[walk[i]].next
  BY <1>1, WalkIs DEF Closed
<1> HIDE DEF walk
<1>4. \A i \in Nat : walk[i] = IF i < Len(s) THEN s[i + 1] ELSE Nothing
  <2> DEFINE T == {i \in Nat : walk[i] = IF i < Len(s) THEN s[i + 1] ELSE Nothing}
  <2>1. 0 \in T
    BY <1>2 DEF IsChain
  <2>2. ASSUME NEW i \in Nat, i \in T PROVE i + 1 \in T
    <3>1. CASE i < Len(s)
      <4>1. walk[i] = s[i + 1] /\ s[i + 1] \in DOMAIN heap
        BY <2>2, <3>1 DEF IsChain
      <4>2. walk[i + 1] = heap[s[i + 1]].next
        BY <1>1, <1>3, <4>1
      <4>3. heap[s[i + 1]].next = IF i + 1 = Len(s) THEN Nothing ELSE s[i + 2]
        BY <3>1 DEF IsChain
      <4>4. (i + 1) + 1 = i + 2 /\ Len(s) \in Nat /\ i + 1 <= Len(s)
        BY <3>1 DEF IsChain
      <4>5. walk[i + 1] = IF i + 1 < Len(s) THEN s[(i + 1) + 1] ELSE Nothing
        BY <4>2, <4>3, <4>4
      <4>6. i + 1 \in Nat
        OBVIOUS
      <4> QED BY <4>5, <4>6 DEF T
    <3>2. CASE ~(i < Len(s))
      <4>1. Len(s) \in Nat
        BY DEF IsChain
      <4>2. walk[i] = Nothing
        BY <2>2, <3>2
      <4>3. walk[i + 1] = Nothing
        BY <1>3, <4>2
      <4>4. ~(i + 1 < Len(s)) /\ i + 1 \in Nat
        BY <3>2, <4>1
      <4> QED BY <4>3, <4>4
    <3> QED BY <3>1, <3>2
  <2> HIDE DEF T
  <2>3. \A i \in Nat : i \in T
    BY <2>1, <2>2, Induction
  <2> QED BY <2>3 DEF T
<1>5. most \in Nat /\ Len(s) \in Nat /\ Len(s) <= most
  BY ChainFits DEF Closed, IsChain
<1>6. {k \in steps : walk[k] # Nothing} = 0..(Len(s) - 1)
  <2>1. \A k \in 0..(Len(s) - 1) : s[k + 1] # Nothing
    BY <1>1 DEF IsChain
  <2> QED BY <1>4, <1>5, <2>1
<1>7. Cardinality({k \in steps : walk[k] # Nothing}) = Len(s)
  <2>1. Cardinality(0..(Len(s) - 1)) = Len(s)
    <3> DEFINE last == Len(s) - 1
    <3>1. last \in Int /\ 0 \in Int /\ (IF 0 > last THEN 0 ELSE last - 0 + 1) = Len(s)
      BY <1>5
    <3> HIDE DEF last
    <3>2. Cardinality(0..last) = IF 0 > last THEN 0 ELSE last - 0 + 1
      BY <3>1, FS_Interval
    <3> QED BY <3>1, <3>2 DEF last
  <2> HIDE DEF steps
  <2> QED BY <1>6, <2>1
<1>8. Chain(heap, first) = [i \in 1..Len(s) |-> walk[i - 1]]
  BY <1>7 DEF Chain, walk
<1>9. \A i \in 1..Len(s) : walk[i - 1] = s[i]
  BY <1>4, <1>5
<1> QED BY <1>8, <1>9 DEF IsChain

-----------------------------------------------------------------------------
QueueRecord == [length : Nat, first : Cell \cup {Nothing}, last : Cell \cup {Nothing}]

(* The record of a queue describes the chain s. *)
Describes(heap, record, s) ==
  /\ record \in QueueRecord
  /\ IsChain(heap, record.first, s)
  /\ record.length = Len(s)
  /\ record.last = IF s = <<>> THEN Nothing ELSE s[Len(s)]

Apart(s, t) == \A i \in 1..Len(s), j \in 1..Len(t) : s[i] # t[j]

(* The queues are sound with these chains: what ChainsAreSound says, and that the heap
   holds what it should. *)
Sound(heap, qs, chain) ==
  /\ Closed(heap)
  /\ qs \in [Queue -> QueueRecord]
  /\ chain \in [Queue -> Seq(DOMAIN heap)]
  /\ \A q \in Queue : Describes(heap, qs[q], chain[q])
  /\ \A q, r \in Queue : q # r => Apart(chain[q], chain[r])

chains == [q \in Queue |-> Chain(cells, queues[q].first)]

LInv == Sound(cells, queues, chains)

(* What the cells of a chain hold. *)
Held(heap, s) == [i \in 1..Len(s) |-> heap[s[i]].content]

Contents(heap, chain) == [q \in Queue |-> Held(heap, chain[q])]

(* A function with one value changed. *)
Updated(f, x, v) == [f EXCEPT ![x] = v]

(* The heap lets go of the cells that no queue reaches, and of no others. *)
LEMMA LinkKeeps ==
  ASSUME NEW heap, NEW qs, NEW chain, Sound(heap, qs, chain), Link(qs, heap)
  PROVE  LInv' /\ chains' = chain /\ Contents(cells', chains') = Contents(heap, chain)
<1> DEFINE reached == UNION {Range(Chain(heap, qs[q].first)) : q \in Queue}
<1>1. queues' = qs /\ cells' = [c \in reached |-> heap[c]]
  BY DEF Link, Restrict
<1>2. \A q \in Queue : Chain(heap, qs[q].first) = chain[q]
  BY ChainIs DEF Sound, Describes
<1>3. reached = UNION {Range(chain[q]) : q \in Queue}
  BY <1>2
<1> HIDE DEF reached
<1>4. \A q \in Queue : \A i \in 1..Len(chain[q]) : chain[q][i] \in reached
  BY <1>3 DEF Sound, Range
<1>5. \A c \in reached : \E q \in Queue : \E i \in 1..Len(chain[q]) : c = chain[q][i]
  BY <1>3 DEF Sound, Range
<1>6. DOMAIN cells' = reached /\ reached \subseteq DOMAIN heap
  BY <1>1, <1>5 DEF Sound
<1>7. \A q \in Queue : \A i \in 1..Len(chain[q]) : cells'[chain[q][i]] = heap[chain[q][i]]
  BY <1>1, <1>4
<1>8. chain \in [Queue -> Seq(reached)]
  BY <1>4 DEF Sound
<1>9. ASSUME NEW q \in Queue PROVE Describes(cells', qs[q], chain[q])
  <2>1. Describes(heap, qs[q], chain[q]) /\ chain[q] \in Seq(reached)
    BY <1>8 DEF Sound
  <2> QED BY <2>1, <1>6, <1>7 DEF Describes, IsChain
<1>10. Closed(cells')
  <2>1. IsFiniteSet(reached)
    BY <1>6, FS_Subset DEF Sound, Closed
  <2>2. ASSUME NEW c \in reached PROVE heap[c].next \in reached \cup {Nothing}
    <3>0. PICK q \in Queue : \E i \in 1..Len(chain[q]) : c = chain[q][i]
      BY <1>5
    <3>1. PICK i \in 1..Len(chain[q]) : c = chain[q][i]
      BY <3>0
    <3>2. heap[c].next = IF i = Len(chain[q]) THEN Nothing ELSE chain[q][i + 1]
      BY <3>1 DEF Sound, Describes, IsChain
    <3>3. i # Len(chain[q]) => i + 1 \in 1..Len(chain[q])
      BY <1>8
    <3> QED BY <3>2, <3>3, <1>4
  <2> QED BY <2>1, <2>2, <1>1, <1>6 DEF Sound, Closed
<1>11. Sound(cells', queues', chain)
  BY <1>1, <1>6, <1>8, <1>9, <1>10 DEF Sound
<1>12. \A q \in Queue : Chain(cells', queues'[q].first) = chain[q]
  BY <1>11, ChainIs DEF Sound, Describes
<1>13. chains' = chain
  BY <1>8, <1>12 DEF chains
<1>14. Contents(cells', chains') = Contents(heap, chain)
  <2>1. ASSUME NEW q \in Queue PROVE Held(cells', chain[q]) = Held(heap, chain[q])
    BY <1>7 DEF Held
  <2> QED BY <1>13, <2>1 DEF Contents
<1> QED BY <1>11, <1>13, <1>14 DEF LInv

-----------------------------------------------------------------------------
(* The operations, each with the chains that it leaves. *)

(* A chain whose cells do not change is one in the new heap as well. *)
LEMMA ChainStays ==
  ASSUME NEW heap, NEW other, NEW first, NEW s, IsChain(heap, first, s),
         \A i \in 1..Len(s) : s[i] \in DOMAIN other /\ other[s[i]] = heap[s[i]]
  PROVE  s \in Seq(DOMAIN other) /\ IsChain(other, first, s)
BY DEF IsChain

(* One queue gets another record and another chain, in another heap. *)
LEMMA Put ==
  ASSUME NEW heap, NEW qs, NEW chain, Sound(heap, qs, chain), NEW q \in Queue,
         NEW other, Closed(other), NEW record, NEW s, Describes(other, record, s),
         \A r \in Queue : r # q =>
           /\ Apart(s, chain[r])
           /\ \A i \in 1..Len(chain[r]) :
                chain[r][i] \in DOMAIN other /\ other[chain[r][i]] = heap[chain[r][i]]
  PROVE  /\ Sound(other, Updated(qs, q, record), Updated(chain, q, s))
         /\ Contents(other, Updated(chain, q, s))
              = Updated(Contents(heap, chain), q, Held(other, s))
<1> DEFINE qs2 == Updated(qs, q, record)
           chain2 == Updated(chain, q, s)
<1>1. /\ DOMAIN chain2 = Queue /\ chain2 = [r \in Queue |-> chain2[r]] /\ chain2[q] = s
      /\ \A r \in Queue : r # q => chain2[r] = chain[r]
  BY DEF Sound, Updated
<1>2. qs2 \in [Queue -> QueueRecord] /\ qs2[q] = record
      /\ \A r \in Queue : r # q => qs2[r] = qs[r]
  BY DEF Sound, Describes, Updated
<1> HIDE DEF qs2, chain2
<1>3. s \in Seq(DOMAIN other)
  BY DEF Describes, IsChain
<1>4. ASSUME NEW r \in Queue, r # q
      PROVE  chain[r] \in Seq(DOMAIN other) /\ Describes(other, qs[r], chain[r])
  BY <1>4, ChainStays DEF Sound, Describes
<1>5. chain2 \in [Queue -> Seq(DOMAIN other)]
  BY <1>1, <1>3, <1>4
<1>6. \A r \in Queue : Describes(other, qs2[r], chain2[r])
  BY <1>1, <1>2, <1>4
<1>7. \A r, t \in Queue : r # t => Apart(chain2[r], chain2[t])
  <2>1. \A r, t \in Queue : r # t /\ r # q /\ t # q => Apart(chain[r], chain[t])
    BY DEF Sound
  <2>2. \A r \in Queue : r # q => Apart(s, chain[r]) /\ Apart(chain[r], s)
    BY DEF Apart
  <2> QED BY <2>1, <2>2, <1>1
<1>8. Sound(other, qs2, chain2)
  BY <1>2, <1>5, <1>6, <1>7 DEF Sound
<1>9. Contents(other, chain2) = Updated(Contents(heap, chain), q, Held(other, s))
  <2>1. \A r \in Queue : r # q => Held(other, chain[r]) = Held(heap, chain[r])
    BY DEF Held
  <2> QED BY <1>1, <2>1 DEF Contents, Updated
<1> QED BY <1>8, <1>9 DEF qs2, chain2

(* The same, with the cells that are garbage let go. *)
LEMMA LinkOne ==
  ASSUME LInv, NEW q \in Queue, NEW other, Closed(other), NEW record, NEW s,
         Describes(other, record, s), Link(Updated(queues, q, record), other),
         \A r \in Queue : r # q =>
           /\ Apart(s, chains[r])
           /\ \A i \in 1..Len(chains[r]) :
                chains[r][i] \in DOMAIN other /\ other[chains[r][i]] = cells[chains[r][i]]
  PROVE  /\ LInv'
         /\ Contents(cells', chains') = Updated(Contents(cells, chains), q, Held(other, s))
<1>1. /\ Sound(other, Updated(queues, q, record), Updated(chains, q, s))
      /\ Contents(other, Updated(chains, q, s))
           = Updated(Contents(cells, chains), q, Held(other, s))
  BY Put DEF LInv
<1>2. LInv' /\ chains' = Updated(chains, q, s)
      /\ Contents(cells', chains') = Contents(other, Updated(chains, q, s))
  BY <1>1, LinkKeeps
<1> QED BY <1>1, <1>2

(* What the chain of one queue is like. *)
LEMMA OfOneQueue ==
  ASSUME LInv, NEW q \in Queue
  PROVE  /\ Describes(cells, queues[q], chains[q])
         /\ chains[q] \in Seq(DOMAIN cells) /\ Len(chains[q]) \in Nat
         /\ DOMAIN chains[q] = 1..Len(chains[q])
         /\ \A i \in 1..Len(chains[q]) : chains[q][i] \in DOMAIN cells
         /\ \A r \in Queue : r # q => Apart(chains[q], chains[r])
         /\ Contents(cells, chains)[q] = Held(cells, chains[q])
<1>1. chains[q] \in Seq(DOMAIN cells)
  BY DEF LInv, Sound
<1> QED BY <1>1 DEF LInv, Sound, Contents

(* clear leaves the queue empty. *)
LEMMA ClearKeeps ==
  ASSUME LInv, NEW q \in Queue, Link([queues EXCEPT ![q] = Cleared], cells)
  PROVE  LInv' /\ Contents(cells', chains') = Updated(Contents(cells, chains), q, <<>>)
<1>1. Link(Updated(queues, q, Cleared), cells) /\ Closed(cells)
  BY DEF LInv, Sound, Updated
<1>2. Describes(cells, Cleared, <<>>)
  BY DEF Describes, QueueRecord, Cleared, IsChain
<1>3. \A r \in Queue : Apart(<<>>, chains[r])
  BY DEF Apart
<1>4. \A r \in Queue : \A i \in 1..Len(chains[r]) : chains[r][i] \in DOMAIN cells
  BY OfOneQueue
<1>5. Held(cells, <<>>) = <<>>
  BY DEF Held
<1> QED BY <1>1, <1>2, <1>3, <1>4, <1>5, LinkOne

(* The chain of q with one more cell at its end, which the last cell is linked to. *)
LEMMA AddKeeps ==
  ASSUME LInv, NEW q \in Queue, NEW x \in Element, queueAdd(q, x)
  PROVE  /\ LInv'
         /\ Contents(cells', chains')
              = Updated(Contents(cells, chains), q, Append(Contents(cells, chains)[q], x))
<1> DEFINE last == queues[q].last
           cell == CHOOSE c \in Free : TRUE
           heap == With(cells, [c \in {cell} |-> [content |-> x, next |-> Nothing]])
           other == IF last # Nothing THEN [heap EXCEPT ![last].next = cell] ELSE heap
           record == IF last # Nothing
                     THEN [length |-> queues[q].length + 1,
                           first |-> queues[q].first, last |-> cell]
                     ELSE [length |-> 1, first |-> cell, last |-> cell]
           s == Append(chains[q], cell)
           n == Len(chains[q])
<1>1. cell \in Cell /\ cell \notin DOMAIN cells /\ cell # Nothing
  BY CellAssumption DEF queueAdd, Free
<1>2. Link(Updated(queues, q, record), other)
  BY DEF queueAdd, Updated
<1>3. /\ queues[q] \in QueueRecord /\ n \in Nat /\ queues[q].length = n
      /\ last = IF n = 0 THEN Nothing ELSE chains[q][n]
      /\ last # Nothing <=> n # 0
      /\ last # Nothing => last \in DOMAIN cells
  BY OfOneQueue, CellAssumption DEF Describes, LInv, Sound, Closed
<1> HIDE DEF cell
<1>4. /\ record \in QueueRecord /\ record.length = n + 1 /\ record.last = cell
       /\ record.first = IF last # Nothing THEN queues[q].first ELSE cell
  <2>1. CASE last # Nothing
    <3>2. record = [length |-> n + 1, first |-> queues[q].first, last |-> cell]
      BY <2>1, <1>3
    <3> HIDE DEF record, last, n
    <3>3. queues[q].first \in Cell \cup {Nothing}
      BY <1>3 DEF QueueRecord
    <3> QED BY <2>1, <3>2, <3>3, <1>1, <1>3 DEF QueueRecord
  <2>2. CASE last = Nothing
    <3>1. record = [length |-> 1, first |-> cell, last |-> cell]
      BY <2>2
    <3> HIDE DEF record, last, n
    <3> QED BY <2>2, <3>1, <1>1, <1>3 DEF QueueRecord
  <2> QED BY <2>1, <2>2
<1> HIDE DEF record
<1>5. /\ DOMAIN heap = DOMAIN cells \cup {cell}
      /\ heap[cell] = [content |-> x, next |-> Nothing]
      /\ \A c \in DOMAIN cells : heap[c] = cells[c]
  BY <1>1 DEF With
<1> HIDE DEF heap
<1>6. /\ DOMAIN other = DOMAIN cells \cup {cell}
      /\ other[cell] = [content |-> x, next |-> Nothing]
      /\ \A c \in DOMAIN cells : c # last => other[c] = cells[c]
      /\ last # Nothing => other[last] = [cells[last] EXCEPT !.next = cell]
  BY <1>1, <1>3, <1>5
<1> HIDE DEF other
<1>7. /\ Nothing \notin DOMAIN cells
      /\ \A c \in DOMAIN cells :
           cells[c] \in [content : Element, next : DOMAIN cells \cup {Nothing}]
  BY CellAssumption DEF LInv, Sound, Closed
<1>8. /\ other[cell].next = Nothing /\ other[cell].content = x
      /\ \A c \in DOMAIN cells : other[c].content = cells[c].content
      /\ \A c \in DOMAIN cells : c # last => other[c].next = cells[c].next
      /\ last # Nothing => other[last].next = cell
      /\ \A c \in DOMAIN other :
           other[c] \in [content : Element, next : DOMAIN other \cup {Nothing}]
  <2>1. CASE last = Nothing
    BY <2>1, <1>1, <1>6, <1>7
  <2>2. CASE last # Nothing
    <3>1. other[last] = [content |-> cells[last].content, next |-> cell]
      BY <2>2, <1>3, <1>6, <1>7
    <3> QED BY <3>1, <1>1, <1>3, <1>6, <1>7
  <2> QED BY <2>1, <2>2
<1>9. Closed(other)
  BY <1>1, <1>6, <1>8, FS_AddElement DEF LInv, Sound, Closed
<1>10. /\ s \in Seq(DOMAIN other) /\ Len(s) = n + 1 /\ s[n + 1] = cell
      /\ \A i \in 1..n : s[i] = chains[q][i] /\ s[i] \in DOMAIN cells
  BY <1>3, <1>6, OfOneQueue
<1> HIDE DEF s
<1>11. IsChain(other, record.first, s)
  <2>1. IsChain(cells, queues[q].first, chains[q])
    BY OfOneQueue DEF Describes
  <2>2. \A i, j \in 1..Len(s) : s[i] = s[j] => i = j
    BY <1>1, <1>3, <1>10, <2>1 DEF IsChain
  <2>3. \A i \in 1..Len(s) : other[s[i]].next = IF i = Len(s) THEN Nothing ELSE s[i + 1]
    <3>1. CASE last = Nothing
      BY <3>1, <1>1, <1>3, <1>7, <1>8, <1>10
    <3>2. CASE last # Nothing
      <4>0. \A i \in 1..(n - 1) :
              chains[q][i] # chains[q][n] /\ cells[chains[q][i]].next = chains[q][i + 1]
        BY <1>3, <2>1 DEF IsChain
      <4>1. \A i \in 1..(n - 1) : s[i] # last /\ cells[s[i]].next = s[i + 1]
        BY <3>2, <1>3, <1>10, <4>0
      <4>2. s[n] = last /\ other[s[n]].next = s[n + 1]
        BY <3>2, <1>1, <1>3, <1>8, <1>10
      <4> SUFFICES ASSUME NEW i \in 1..Len(s)
                   PROVE  other[s[i]].next = IF i = Len(s) THEN Nothing ELSE s[i + 1]
        OBVIOUS
      <4>3. i = n + 1 \/ i = n \/ i \in 1..(n - 1)
        BY <1>3, <1>10
      <4>4. CASE i = n + 1
        BY <4>4, <1>3, <1>8, <1>10
      <4>5. CASE i = n
        BY <4>5, <1>3, <1>10, <4>2
      <4>6. CASE i \in 1..(n - 1)
        BY <4>6, <1>3, <1>8, <1>10, <4>1
      <4> QED BY <4>3, <4>4, <4>5, <4>6
    <3> QED BY <3>1, <3>2
  <2>4. record.first = IF s = <<>> THEN Nothing ELSE s[1]
    <3>1. s # <<>> /\ s[1] = IF n = 0 THEN cell ELSE chains[q][1]
      BY <1>3, <1>10
    <3>2. n # 0 => queues[q].first = chains[q][1]
      BY <1>3, <2>1 DEF IsChain
    <3> QED BY <1>3, <1>4, <3>1, <3>2
  <2> QED BY <1>10, <2>2, <2>3, <2>4 DEF IsChain
<1>12. Describes(other, record, s)
  BY <1>10, <1>11, <1>4, <1>3 DEF Describes
<1>13. ASSUME NEW r \in Queue, r # q
       PROVE  /\ Apart(s, chains[r])
              /\ \A i \in 1..Len(chains[r]) :
                   chains[r][i] \in DOMAIN other /\ other[chains[r][i]] = cells[chains[r][i]]
  <2>1. Apart(chains[q], chains[r]) /\ \A i \in 1..Len(chains[r]) : chains[r][i] \in DOMAIN cells
    BY <1>13, OfOneQueue
  <2>2. \A i \in 1..Len(chains[r]) : chains[r][i] # last /\ chains[r][i] # cell
    BY <1>1, <1>3, <1>7, <2>1 DEF Apart
  <2> QED BY <1>3, <1>6, <1>10, <2>1, <2>2 DEF Apart
<1>14. Held(other, s) = Append(Contents(cells, chains)[q], x)
  <2>1. Contents(cells, chains)[q] = [i \in 1..n |-> cells[chains[q][i]].content]
    BY OfOneQueue DEF Held
  <2>2. Append(Contents(cells, chains)[q], x)
          = [i \in 1..(n + 1) |-> IF i = n + 1 THEN x ELSE cells[chains[q][i]].content]
    BY <2>1, <1>3
  <2>3. \A i \in 1..(n + 1) :
          other[s[i]].content = IF i = n + 1 THEN x ELSE cells[chains[q][i]].content
    BY <1>3, <1>8, <1>10
  <2> QED BY <2>2, <2>3, <1>10 DEF Held
<1> HIDE DEF last, n
<1>15. /\ LInv'
       /\ Contents(cells', chains') = Updated(Contents(cells, chains), q, Held(other, s))
  BY <1>2, <1>9, <1>12, <1>13, LinkOne
<1> QED BY <1>14, <1>15

(* What Tail leaves. *)
LEMMA TailIs ==
  ASSUME NEW S, NEW s \in Seq(S), Len(s) # 0
  PROVE  /\ Tail(s) \in Seq(S) /\ Len(Tail(s)) = Len(s) - 1
         /\ \A i \in 1..(Len(s) - 1) : Tail(s)[i] = s[i + 1]
OBVIOUS

(* The chain of q without its first cell. *)
LEMMA PopKeeps ==
  ASSUME LInv, NEW q \in Queue, queues[q].first # Nothing, taken' = Popped(q),
         Link([queues EXCEPT ![q] = AfterPop(q, cells[queues[q].first].next)], cells)
  PROVE  /\ LInv' /\ Contents(cells, chains)[q] # <<>>
         /\ taken' = Head(Contents(cells, chains)[q])
         /\ Contents(cells', chains')
              = Updated(Contents(cells, chains), q, Tail(Contents(cells, chains)[q]))
<1> DEFINE record == AfterPop(q, cells[queues[q].first].next)
           s == Tail(chains[q])
           n == Len(chains[q])
<1>1. Link(Updated(queues, q, record), cells)
  BY DEF Updated
<1>2. /\ queues[q] \in QueueRecord /\ n \in Nat /\ queues[q].length = n /\ n # 0
      /\ queues[q].first = chains[q][1] /\ queues[q].last = chains[q][n]
      /\ chains[q] \in Seq(DOMAIN cells)
      /\ \A i \in 1..n : chains[q][i] \in DOMAIN cells
      /\ \A i, j \in 1..n : chains[q][i] = chains[q][j] => i = j
      /\ \A i \in 1..n : cells[chains[q][i]].next = IF i = n THEN Nothing ELSE chains[q][i + 1]
  BY OfOneQueue DEF Describes, IsChain
<1>3. DOMAIN cells \subseteq Cell /\ Nothing \notin DOMAIN cells /\ Closed(cells)
  BY CellAssumption DEF LInv, Sound, Closed
<1>4. s \in Seq(DOMAIN cells) /\ Len(s) = n - 1 /\ \A i \in 1..(n - 1) : s[i] = chains[q][i + 1]
  BY <1>2, TailIs
<1> HIDE DEF s, n
<1>5. /\ record = IF n = 1 THEN Cleared
                   ELSE [length |-> n - 1, first |-> chains[q][2], last |-> chains[q][n]]
  <2>1. cells[queues[q].first].next = IF n = 1 THEN Nothing ELSE chains[q][2]
    BY <1>2
  <2>2. n # 1 => chains[q][2] # Nothing
    BY <1>2, <1>3
  <2> QED BY <1>2, <2>1, <2>2 DEF AfterPop
<1> HIDE DEF record
<1>6. /\ record \in QueueRecord /\ record.length = n - 1
      /\ record.first = IF n = 1 THEN Nothing ELSE chains[q][2]
      /\ record.last = IF n = 1 THEN Nothing ELSE chains[q][n]
  <2>1. CASE n = 1
    BY <2>1, <1>5 DEF Cleared, QueueRecord
  <2>2. CASE n # 1
    BY <2>2, <1>2, <1>3, <1>5 DEF QueueRecord
  <2> QED BY <2>1, <2>2
<1>7. IsChain(cells, record.first, s)
  <2>1. ASSUME NEW i \in 1..Len(s), NEW j \in 1..Len(s), s[i] = s[j] PROVE i = j
    <3>1. i + 1 \in 1..n /\ j + 1 \in 1..n /\ chains[q][i + 1] = chains[q][j + 1]
      BY <2>1, <1>2, <1>4
    <3>2. i + 1 = j + 1
      BY <3>1, <1>2
    <3> QED BY <3>2
  <2>2. ASSUME NEW i \in 1..Len(s)
        PROVE  cells[s[i]].next = IF i = Len(s) THEN Nothing ELSE s[i + 1]
    <3>1. i \in 1..(n - 1) /\ i + 1 \in 1..n /\ s[i] = chains[q][i + 1]
      BY <1>2, <1>4
    <3>2. cells[s[i]].next = IF i + 1 = n THEN Nothing ELSE chains[q][(i + 1) + 1]
      BY <3>1, <1>2
    <3>3. CASE i = n - 1
      BY <3>2, <3>3, <1>2, <1>4
    <3>4. CASE i # n - 1
      <4>1. i + 1 \in 1..(n - 1) /\ i + 1 # n
        BY <3>1, <3>4, <1>2
      <4>2. s[i + 1] = chains[q][(i + 1) + 1]
        BY <4>1, <1>4
      <4> QED BY <3>2, <3>4, <4>1, <4>2, <1>4
    <3> QED BY <3>3, <3>4
  <2>3. record.first = IF s = <<>> THEN Nothing ELSE s[1]
    BY <1>2, <1>4, <1>6
  <2> QED BY <1>4, <2>1, <2>2, <2>3 DEF IsChain
<1>8. Describes(cells, record, s)
  <2>1. record.last = IF s = <<>> THEN Nothing ELSE s[Len(s)]
    BY <1>2, <1>4, <1>6
  <2> QED BY <1>4, <1>6, <1>7, <2>1 DEF Describes
<1>9. ASSUME NEW r \in Queue, r # q
      PROVE  Apart(s, chains[r]) /\ \A i \in 1..Len(chains[r]) : chains[r][i] \in DOMAIN cells
  <2>1. Apart(chains[q], chains[r]) /\ \A i \in 1..Len(chains[r]) : chains[r][i] \in DOMAIN cells
    BY <1>9, OfOneQueue
  <2> QED BY <1>2, <1>4, <2>1 DEF Apart, n
<1>10. /\ Contents(cells, chains)[q] = [i \in 1..n |-> cells[chains[q][i]].content]
       /\ Contents(cells, chains)[q] # <<>>
  BY <1>2, OfOneQueue DEF Held, n
<1>11. Held(cells, s) = Tail(Contents(cells, chains)[q])
  <2>1. Tail(Contents(cells, chains)[q]) = [i \in 1..(n - 1) |-> cells[chains[q][i + 1]].content]
    BY <1>2, <1>10
  <2>2. \A i \in 1..(n - 1) : cells[s[i]].content = cells[chains[q][i + 1]].content
    BY <1>4
  <2>3. Held(cells, s) = [i \in 1..(n - 1) |-> cells[s[i]].content]
    BY <1>4 DEF Held
  <2> QED BY <2>1, <2>2, <2>3
<1>12. taken' = Head(Contents(cells, chains)[q])
  BY <1>2, <1>10 DEF Popped
<1>13. /\ LInv'
       /\ Contents(cells', chains') = Updated(Contents(cells, chains), q, Held(cells, s))
  BY <1>1, <1>3, <1>8, <1>9, LinkOne
<1> QED BY <1>10, <1>11, <1>12, <1>13

(* As many cells can be taken as there are. *)
LEMMA InjectionExists ==
  ASSUME NEW T, IsFiniteSet(T), NEW n \in Nat, n <= Cardinality(T)
  PROVE  \E s \in [1..n -> T] : IsInjective(s)
<1>1. PICK b : b \in Bijection(1..Cardinality(T), T)
  BY FS_CardinalityType DEF ExistsBijection
<1>2. Cardinality(T) \in Nat
  BY FS_CardinalityType
<1> DEFINE s == [i \in 1..n |-> b[i]]
<1>3. s \in [1..n -> T]
  BY <1>1, <1>2 DEF Bijection, Injection
<1>4. IsInjective(s)
  BY <1>1, <1>2 DEF Bijection, Injection, IsInjective
<1> QED BY <1>3, <1>4

(* r gets a chain of new cells, one for each cell of q. *)
LEMMA MapKeeps ==
  ASSUME LInv, NEW q \in Queue, NEW r \in Queue, NEW f \in [Element -> Element], queueMap(q, r, f)
  PROVE  /\ LInv'
         /\ Contents(cells', chains')
              = Updated(Contents(cells, chains), r,
                        [i \in DOMAIN Contents(cells, chains)[q] |->
                           f[Contents(cells, chains)[q][i]]])
<1> DEFINE chain == Chain(cells, queues[q].first)
           n == Len(chain)
           s == CHOOSE s \in [1..n -> Free] : IsInjective(s)
           Copy(i) == [content |-> f[cells[chain[i]].content],
                       next |-> IF i = n THEN Nothing ELSE s[i + 1]]
           new == [c \in Range(s) |-> Copy(CHOOSE i \in 1..n : s[i] = c)]
           record == [length |-> queues[q].length, first |-> s[1], last |-> s[n]]
           mapped == [i \in DOMAIN Contents(cells, chains)[q] |-> f[Contents(cells, chains)[q][i]]]
<1>1. chain = chains[q] /\ n \in Nat /\ queues[q].length = n
      /\ \A i \in 1..n : chain[i] \in DOMAIN cells
  BY OfOneQueue DEF chains, Describes
<1>2. n = 0 => Link([queues EXCEPT ![r] = Cleared], cells)
  BY DEF queueMap
<1>3. n # 0 => Link(Updated(queues, r, record), With(cells, new))
  BY DEF queueMap, Updated
<1>4. s \in [1..n -> Free] /\ IsInjective(s)
  <2>1. IsFiniteSet(Free) /\ n <= Cardinality(Free)
    BY CellAssumption, FS_Subset, FS_CardinalityType DEF queueMap, Free
  <2> QED BY <1>1, <2>1, InjectionExists
<1>5. mapped = [i \in 1..n |-> f[cells[chain[i]].content]]
      /\ \A i \in 1..n : f[cells[chain[i]].content] \in Element
  <2>1. Contents(cells, chains)[q] = [i \in 1..n |-> cells[chain[i]].content]
    BY <1>1, OfOneQueue DEF Held
  <2>2. \A i \in 1..n : cells[chain[i]].content \in Element
    BY <1>1 DEF LInv, Sound, Closed
  <2> QED BY <2>1, <2>2
<1>6. CASE n = 0
  <2>1. mapped = <<>>
    BY <1>5, <1>6
  <2> HIDE DEF mapped
  <2>2. LInv' /\ Contents(cells', chains') = Updated(Contents(cells, chains), r, <<>>)
    BY <1>2, <1>6, ClearKeeps
  <2> QED BY <2>1, <2>2 DEF mapped
<1>7. CASE n # 0
  <2> DEFINE other == With(cells, new)
  <2> HIDE DEF s
  <2>1. s \in Seq(Free) /\ Len(s) = n /\ s # <<>>
        /\ \A i, j \in 1..n : s[i] = s[j] => i = j
    BY <1>1, <1>4, <1>7 DEF IsInjective
  <2>2. DOMAIN new = {s[i] : i \in 1..n}
    BY <1>4 DEF Range
  <2>3. \A i \in 1..n : new[s[i]] = Copy(i)
    <3> SUFFICES ASSUME NEW i \in 1..n PROVE new[s[i]] = Copy(i)
      OBVIOUS
    <3>1. (CHOOSE j \in 1..n : s[j] = s[i]) = i
      BY <2>1
    <3>2. s[i] \in Range(s)
      BY <1>4 DEF Range
    <3> QED BY <3>1, <3>2
  <2>4. \A i \in 1..n : s[i] \in Cell /\ s[i] \notin DOMAIN cells
    BY <1>4 DEF Free
  <2> HIDE DEF new
  <2>5. /\ DOMAIN other = DOMAIN cells \cup {s[i] : i \in 1..n}
        /\ \A i \in 1..n : other[s[i]] = Copy(i)
        /\ \A c \in DOMAIN cells : other[c] = cells[c]
    BY <2>2, <2>3, <2>4 DEF With
  <2> HIDE DEF other
  <2>6. /\ Nothing \notin DOMAIN cells
        /\ \A c \in DOMAIN cells :
             cells[c] \in [content : Element, next : DOMAIN cells \cup {Nothing}]
        /\ DOMAIN cells \subseteq Cell /\ DOMAIN other \subseteq Cell
    BY <2>4, <2>5, CellAssumption DEF LInv, Sound, Closed
  <2>7. \A i \in 1..n : /\ other[s[i]].content = f[cells[chain[i]].content]
                        /\ other[s[i]].next = IF i = n THEN Nothing ELSE s[i + 1]
                        /\ s[i] \in DOMAIN other
    <3> SUFFICES ASSUME NEW i \in 1..n
                 PROVE  /\ other[s[i]].content = f[cells[chain[i]].content]
                        /\ other[s[i]].next = IF i = n THEN Nothing ELSE s[i + 1]
                        /\ s[i] \in DOMAIN other
      OBVIOUS
    <3>1. other[s[i]] = Copy(i) /\ s[i] \in DOMAIN other
      BY <2>5
    <3> QED BY <3>1
  <2>8. \A i \in 1..n : other[s[i]] \in [content : Element, next : DOMAIN other \cup {Nothing}]
    <3> SUFFICES ASSUME NEW i \in 1..n
                 PROVE  other[s[i]] \in [content : Element, next : DOMAIN other \cup {Nothing}]
      OBVIOUS
    <3>1. other[s[i]] = Copy(i) /\ f[cells[chain[i]].content] \in Element
      BY <1>5, <2>5
    <3>2. i # n => i + 1 \in 1..n
      BY <1>1
    <3>3. (IF i = n THEN Nothing ELSE s[i + 1]) \in DOMAIN other \cup {Nothing}
      BY <2>7, <3>2
    <3> QED BY <3>1, <3>3
  <2>9. Closed(other)
    <3>1. IsFiniteSet(DOMAIN other)
      BY <2>6, CellAssumption, FS_Subset
    <3>2. ASSUME NEW c \in DOMAIN other
          PROVE  other[c] \in [content : Element, next : DOMAIN other \cup {Nothing}]
      <4>1. CASE c \in DOMAIN cells
        BY <4>1, <2>5, <2>6
      <4>2. CASE c \notin DOMAIN cells
        BY <4>2, <2>5, <2>8
      <4> QED BY <4>1, <4>2
    <3> QED BY <2>6, <3>1, <3>2 DEF Closed
  <2>10. s \in Seq(DOMAIN other)
    BY <2>1, <2>7
  <2>11. record \in QueueRecord
    BY <1>1, <1>7, <2>4 DEF QueueRecord
  <2>12. record.length = n /\ record.first = s[1] /\ record.last = s[n]
    BY <1>1
  <2> HIDE DEF record, chain, mapped
  <2>13. Describes(other, record, s)
    BY <1>1, <2>1, <2>7, <2>10, <2>11, <2>12 DEF Describes, IsChain
  <2>14. ASSUME NEW t \in Queue, t # r
         PROVE  /\ Apart(s, chains[t])
                /\ \A i \in 1..Len(chains[t]) :
                     chains[t][i] \in DOMAIN other /\ other[chains[t][i]] = cells[chains[t][i]]
    <3>1. \A i \in 1..Len(chains[t]) : chains[t][i] \in DOMAIN cells
      BY OfOneQueue
    <3> QED BY <3>1, <2>1, <2>4, <2>5 DEF Apart
  <2>15. Held(other, s) = mapped
    BY <1>5, <2>1, <2>7 DEF Held
  <2>16. /\ LInv'
         /\ Contents(cells', chains') = Updated(Contents(cells, chains), r, Held(other, s))
    <3>1. Link(Updated(queues, r, record), other)
      BY <1>3, <1>7 DEF other
    <3> QED BY <3>1, <2>9, <2>13, <2>14, LinkOne
  <2> QED BY <2>15, <2>16 DEF mapped
<1> QED BY <1>1, <1>6, <1>7

(* One sequence behind another. *)
LEMMA Joined ==
  ASSUME NEW S, NEW a \in Seq(S), NEW b \in Seq(S)
  PROVE  /\ a \o b \in Seq(S) /\ Len(a \o b) = Len(a) + Len(b)
         /\ \A i \in 1..Len(a) : (a \o b)[i] = a[i]
         /\ \A i \in 1..Len(b) : (a \o b)[Len(a) + i] = b[i]
         /\ \A k \in 1..(Len(a) + Len(b)) : k \in 1..Len(a) \/ k - Len(a) \in 1..Len(b)
OBVIOUS

(* Behind the empty sequence there is only the other one. *)
LEMMA JoinedToNone == ASSUME NEW S, NEW b \in Seq(S) PROVE <<>> \o b = b
OBVIOUS

(* The chain of one queue behind that of another, once its last cell is linked to it. *)
LEMMA JoinedChains ==
  ASSUME NEW heap, NEW other, DOMAIN other = DOMAIN heap, Nothing \notin DOMAIN heap,
         NEW a, NEW b, NEW x, NEW y, IsChain(heap, x, a), IsChain(heap, y, b),
         a # <<>>, b # <<>>, Apart(a, b),
         \A c \in DOMAIN heap : other[c].next = IF c = a[Len(a)] THEN y ELSE heap[c].next
  PROVE  IsChain(other, x, a \o b)
<1> DEFINE s == a \o b
<1>1. PICK m \in Nat, n \in Nat : m = Len(a) /\ n = Len(b) /\ m # 0 /\ n # 0
  BY DEF IsChain
<1>2. /\ s \in Seq(DOMAIN heap) /\ Len(s) = m + n
      /\ \A i \in 1..m : s[i] = a[i]
      /\ \A i \in 1..n : s[m + i] = b[i]
      /\ \A k \in 1..(m + n) : k \in 1..m \/ k - m \in 1..n
  BY <1>1, Joined DEF IsChain
<1>3. /\ x = a[1] /\ y = b[1]
      /\ \A i \in 1..m : a[i] \in DOMAIN heap
      /\ \A i \in 1..n : b[i] \in DOMAIN heap
      /\ \A i, j \in 1..m : a[i] = a[j] => i = j
      /\ \A i, j \in 1..n : b[i] = b[j] => i = j
      /\ \A i \in 1..m : heap[a[i]].next = IF i = m THEN Nothing ELSE a[i + 1]
      /\ \A i \in 1..n : heap[b[i]].next = IF i = n THEN Nothing ELSE b[i + 1]
  BY <1>1 DEF IsChain
<1>4. \A i \in 1..m, j \in 1..n : a[i] # b[j]
  BY <1>1 DEF Apart
<1>5. /\ \A c \in DOMAIN heap : other[c].next = IF c = a[m] THEN y ELSE heap[c].next
      /\ s # <<>> /\ s[1] = a[1]
  BY <1>1, <1>2
<1> HIDE DEF s
<1>6. ASSUME NEW i \in 1..(m + n), NEW j \in 1..(m + n), s[i] = s[j] PROVE i = j
  <2>1. CASE i \in 1..m /\ j \in 1..m
    BY <2>1, <1>2, <1>3, <1>6
  <2>2. CASE i \in 1..m /\ j - m \in 1..n
    <3>1. j = m + (j - m)
      BY <1>1
    <3>2. s[i] = a[i] /\ s[j] = b[j - m]
      BY <2>2, <3>1, <1>2
    <3> QED BY <2>2, <3>2, <1>4, <1>6
  <2>3. CASE j \in 1..m /\ i - m \in 1..n
    <3>1. i = m + (i - m)
      BY <1>1
    <3>2. s[j] = a[j] /\ s[i] = b[i - m]
      BY <2>3, <3>1, <1>2
    <3> QED BY <2>3, <3>2, <1>4, <1>6
  <2>4. CASE i - m \in 1..n /\ j - m \in 1..n
    <3>1. i = m + (i - m) /\ j = m + (j - m)
      BY <1>1
    <3>2. s[i] = b[i - m] /\ s[j] = b[j - m]
      BY <2>4, <3>1, <1>2
    <3>3. i - m = j - m
      BY <2>4, <3>2, <1>3, <1>6
    <3> QED BY <3>1, <3>3
  <2> QED BY <2>1, <2>2, <2>3, <2>4, <1>2
<1>7. ASSUME NEW i \in 1..m
      PROVE  other[s[i]].next = s[i + 1]
  <2>1. CASE i = m
    <3>1. s[m] = a[m] /\ s[m + 1] = b[1] /\ a[m] \in DOMAIN heap
      BY <1>1, <1>2, <1>3
    <3> QED BY <2>1, <3>1, <1>3, <1>5
  <2>2. CASE i # m
    <3>1. i + 1 \in 1..m /\ m \in 1..m
      BY <2>2, <1>1
    <3>2. s[i] = a[i] /\ s[i + 1] = a[i + 1] /\ a[i] # a[m] /\ heap[a[i]].next = a[i + 1]
      BY <2>2, <3>1, <1>2, <1>3
    <3> QED BY <3>2, <1>3, <1>5
  <2> QED BY <2>1, <2>2
<1>8. ASSUME NEW k \in 1..n
      PROVE  other[s[m + k]].next = IF k = n THEN Nothing ELSE s[m + k + 1]
  <2>1. s[m + k] = b[k] /\ b[k] # a[m] /\ b[k] \in DOMAIN heap
    <3>1. m \in 1..m
      BY <1>1
    <3>2. s[m + k] = b[k]
      BY <1>2
    <3>3. b[k] # a[m] /\ b[k] \in DOMAIN heap
      BY <3>1, <1>3, <1>4
    <3> QED BY <3>2, <3>3
  <2>2. other[b[k]].next = IF k = n THEN Nothing ELSE b[k + 1]
    BY <2>1, <1>3, <1>5
  <2>3. k # n => s[m + k + 1] = b[k + 1]
    <3> SUFFICES ASSUME k # n PROVE s[m + k + 1] = b[k + 1]
      OBVIOUS
    <3>1. k + 1 \in 1..n /\ m + (k + 1) = m + k + 1
      BY <1>1
    <3> QED BY <3>1, <1>2
  <2> QED BY <2>1, <2>2, <2>3
<1>9. ASSUME NEW i \in 1..(m + n)
      PROVE  other[s[i]].next = IF i = m + n THEN Nothing ELSE s[i + 1]
  <2>1. CASE i \in 1..m
    <3>1. i # m + n
      BY <2>1, <1>1
    <3> QED BY <2>1, <3>1, <1>7
  <2>2. CASE i - m \in 1..n
    <3>1. PICK k \in 1..n : k = i - m
      BY <2>2
    <3>2. i = m + k /\ (k = n <=> i = m + n)
      BY <3>1, <1>1
    <3> QED BY <3>2, <1>8
  <2> QED BY <2>1, <2>2, <1>2
<1>10. s \in Seq(DOMAIN other) /\ x = IF s = <<>> THEN Nothing ELSE s[1]
  BY <1>2, <1>3, <1>5
<1>11. IsChain(other, x, s)
  BY <1>2, <1>6, <1>9, <1>10 DEF IsChain
<1> QED BY <1>11 DEF s

(* q2 gets the chain of q1 behind its own, and q1 the empty one. *)
LEMMA TransferKeeps ==
  ASSUME LInv, NEW q1 \in Queue, NEW q2 \in Queue, queueTransfer(q1, q2)
  PROVE  /\ LInv'
         /\ Contents(cells', chains')
              = [Contents(cells, chains) EXCEPT ![q2] = @ \o Contents(cells, chains)[q1],
                                                ![q1] = <<>>]
<1> DEFINE l == queues[q2].last
           a == chains[q2]
           b == chains[q1]
           m == Len(a)
           n == Len(b)
           other == IF l # Nothing THEN [cells EXCEPT ![l].next = queues[q1].first] ELSE cells
           record == IF l # Nothing THEN AfterTransfer(q1, q2) ELSE queues[q1]
<1>1. Link([queues EXCEPT ![q2] = record, ![q1] = Cleared], other)
  BY DEF queueTransfer
<1>2. /\ queues[q1] \in QueueRecord /\ queues[q2] \in QueueRecord /\ m \in Nat /\ n \in Nat
      /\ queues[q1].length = n /\ n # 0 /\ queues[q2].length = m
      /\ queues[q1].first = b[1] /\ queues[q1].last = b[n]
      /\ queues[q2].first = IF m = 0 THEN Nothing ELSE a[1]
      /\ l = IF m = 0 THEN Nothing ELSE a[m]
      /\ a \in Seq(DOMAIN cells) /\ b \in Seq(DOMAIN cells)
      /\ \A i \in 1..m : a[i] \in DOMAIN cells
      /\ \A i \in 1..n : b[i] \in DOMAIN cells
      /\ \A i, j \in 1..m : a[i] = a[j] => i = j
      /\ \A i, j \in 1..n : b[i] = b[j] => i = j
      /\ \A i \in 1..m : cells[a[i]].next = IF i = m THEN Nothing ELSE a[i + 1]
      /\ \A i \in 1..n : cells[b[i]].next = IF i = n THEN Nothing ELSE b[i + 1]
  BY OfOneQueue DEF queueTransfer, Describes, IsChain
<1>3. /\ Nothing \notin DOMAIN cells /\ DOMAIN cells \subseteq Cell /\ Closed(cells)
      /\ \A c \in DOMAIN cells :
           cells[c] \in [content : Element, next : DOMAIN cells \cup {Nothing}]
  BY CellAssumption DEF LInv, Sound, Closed
<1>4. (l # Nothing <=> m # 0) /\ (l # Nothing => l \in DOMAIN cells)
  BY <1>2, <1>3
<1>5. record = [length |-> m + n, first |-> IF m = 0 THEN b[1] ELSE a[1], last |-> b[n]]
  <2>1. CASE l = Nothing
    <3>1. record = queues[q1] /\ m = 0
      BY <2>1, <1>4
    <3>2. queues[q1] = [length |-> queues[q1].length, first |-> queues[q1].first,
                        last |-> queues[q1].last]
      BY <1>2 DEF QueueRecord
    <3> HIDE DEF record, l, m, n, a, b
    <3> QED BY <3>1, <3>2, <1>2
  <2>2. CASE l # Nothing
    BY <2>2, <1>2, <1>4 DEF AfterTransfer
  <2> QED BY <2>1, <2>2
<1>6. record \in QueueRecord
  <2>1. (IF m = 0 THEN b[1] ELSE a[1]) \in Cell /\ b[n] \in Cell
    BY <1>2, <1>3
  <2> HIDE DEF record, m, n, a, b
  <2> QED BY <1>2, <1>5, <2>1 DEF QueueRecord
<1>7. /\ DOMAIN other = DOMAIN cells
      /\ \A c \in DOMAIN cells : c # l => other[c] = cells[c]
      /\ l # Nothing => other[l] = [content |-> cells[l].content, next |-> b[1]]
  BY <1>2, <1>3, <1>4
<1>8. record.length = m + n /\ record.last = b[n] /\ record.first = IF m = 0 THEN b[1] ELSE a[1]
  <2> HIDE DEF record, m, n, a, b
  <2> QED BY <1>5
<1> HIDE DEF record, other, l
<1>9. /\ \A c \in DOMAIN cells : other[c].content = cells[c].content
      /\ \A c \in DOMAIN cells : other[c].next = IF c = l THEN b[1] ELSE cells[c].next
  BY <1>3, <1>4, <1>7
<1>10. Closed(other)
  <2>1. \A c \in DOMAIN cells : other[c] \in [content : Element, next : DOMAIN cells \cup {Nothing}]
    BY <1>2, <1>3, <1>4, <1>7
  <2> QED BY <2>1, <1>7, <1>3 DEF Closed
<1>11. ASSUME NEW r \in Queue, r # q2
       PROVE  \A i \in 1..Len(chains[r]) :
                chains[r][i] \in DOMAIN other /\ other[chains[r][i]] = cells[chains[r][i]]
  <2>1. Apart(chains[q2], chains[r]) /\ \A i \in 1..Len(chains[r]) : chains[r][i] \in DOMAIN cells
    BY <1>11, OfOneQueue
  <2>2. \A i \in 1..Len(chains[r]) : chains[r][i] # l
    BY <1>2, <1>3, <2>1 DEF Apart
  <2> QED BY <2>1, <2>2, <1>7
<1>12. \A r \in Queue : Apart(<<>>, chains[r])
  BY DEF Apart
<1>13. Held(cells, <<>>) = <<>> /\ Held(other, <<>>) = <<>>
  BY DEF Held
<1>14. ASSUME NEW heap PROVE Describes(heap, Cleared, <<>>)
  BY DEF Describes, QueueRecord, Cleared, IsChain
<1>15. CASE q1 = q2
  <2>1. Link(Updated(queues, q2, Cleared), other)
    <3>1. [queues EXCEPT ![q2] = record, ![q1] = Cleared] = Updated(queues, q2, Cleared)
      BY <1>15 DEF Updated
    <3> QED BY <1>1, <3>1
  <2>2. LInv' /\ Contents(cells', chains') = Updated(Contents(cells, chains), q2, <<>>)
    BY <2>1, <1>10, <1>11, <1>12, <1>13, <1>14, LinkOne
  <2> QED BY <1>15, <2>2 DEF Updated
<1>16. CASE q1 # q2
  <2> DEFINE queues1 == Updated(queues, q1, Cleared)
             chains1 == Updated(chains, q1, <<>>)
             s == a \o b
  <2>1. /\ Sound(cells, queues1, chains1)
        /\ Contents(cells, chains1) = Updated(Contents(cells, chains), q1, <<>>)
    <3>1. \A r \in Queue : \A i \in 1..Len(chains[r]) : chains[r][i] \in DOMAIN cells
      BY OfOneQueue
    <3> QED BY <3>1, <1>3, <1>12, <1>13, <1>14, Put DEF LInv
  <2>2. chains1[q1] = <<>> /\ \A r \in Queue : r # q1 => chains1[r] = chains[r]
    BY DEF LInv, Sound, Updated
  <2>3. [queues EXCEPT ![q2] = record, ![q1] = Cleared] = Updated(queues1, q2, record)
    BY <1>16 DEF Updated
  <2> HIDE DEF queues1, chains1
  <2>4. Apart(a, b)
    BY <1>16, OfOneQueue
  <2>5. /\ s \in Seq(DOMAIN cells) /\ Len(s) = m + n
        /\ \A i \in 1..m : s[i] = a[i]
        /\ \A i \in 1..n : s[m + i] = b[i]
        /\ \A k \in 1..(m + n) : k \in 1..m \/ k - m \in 1..n
    BY <1>2, Joined
  <2>6. IsChain(other, record.first, s)
    <3>1. IsChain(cells, queues[q2].first, a) /\ IsChain(cells, b[1], b)
      BY <1>2, OfOneQueue DEF Describes
    <3>2. CASE m = 0
      <4>1. s = b
        <5>1. a = <<>>
          BY <3>2, <1>2
        <5> QED BY <5>1, <1>2, JoinedToNone
      <4>2. DOMAIN other = DOMAIN cells /\ \A c \in DOMAIN cells : other[c] = cells[c]
        BY <3>2, <1>3, <1>4, <1>7
      <4>3. IsChain(other, b[1], b)
        BY <3>1, <4>2 DEF IsChain
      <4> QED BY <3>2, <4>1, <4>3, <1>8
    <3>3. CASE m # 0
      <4>1. /\ a # <<>> /\ b # <<>> /\ queues[q2].first = record.first
            /\ \A c \in DOMAIN cells : other[c].next = IF c = a[Len(a)] THEN b[1] ELSE cells[c].next
        BY <3>3, <1>2, <1>8, <1>9
      <4> QED BY <3>1, <4>1, <2>4, <1>3, <1>7, JoinedChains
    <3> QED BY <3>2, <3>3
  <2> HIDE DEF s
  <2>7. Describes(other, record, s)
    <3> HIDE DEF m, n, a, b
    <3>1. n \in 1..n /\ m + n # 0
      BY <1>2
    <3>2. s[m + n] = b[n] /\ s # <<>>
      BY <3>1, <2>5
    <3> QED BY <3>2, <2>5, <2>6, <1>6, <1>8 DEF Describes
  <2>8. ASSUME NEW r \in Queue, r # q2
        PROVE  /\ Apart(s, chains1[r])
               /\ \A i \in 1..Len(chains1[r]) :
                    chains1[r][i] \in DOMAIN other /\ other[chains1[r][i]] = cells[chains1[r][i]]
    <3>1. CASE r = q1
      BY <3>1, <2>2 DEF Apart
    <3>2. CASE r # q1
      <4>1. Apart(a, chains[r]) /\ Apart(b, chains[r])
        BY <2>8, <3>2, OfOneQueue
      <4>2. Apart(s, chains[r])
        <5> SUFFICES ASSUME NEW i \in 1..(m + n), NEW j \in 1..Len(chains[r])
                     PROVE  s[i] # chains[r][j]
          BY <2>5 DEF Apart
        <5>1. CASE i \in 1..m
          BY <5>1, <4>1, <2>5 DEF Apart
        <5>2. CASE i - m \in 1..n
          <6>1. i = m + (i - m)
            BY <1>2
          <6>2. s[i] = b[i - m]
            BY <5>2, <6>1, <2>5
          <6> QED BY <5>2, <6>2, <4>1 DEF Apart
        <5> QED BY <5>1, <5>2, <2>5
      <4> QED BY <2>2, <2>8, <3>2, <4>2, <1>11
    <3> QED BY <3>1, <3>2
  <2>9. Held(other, s) = Contents(cells, chains)[q2] \o Contents(cells, chains)[q1]
    <3> DEFINE c == Contents(cells, chains)[q2]
               d == Contents(cells, chains)[q1]
    <3>1. /\ c \in Seq(Element) /\ Len(c) = m /\ \A i \in 1..m : c[i] = cells[a[i]].content
          /\ d \in Seq(Element) /\ Len(d) = n /\ \A i \in 1..n : d[i] = cells[b[i]].content
      <4>1. c = [i \in 1..m |-> cells[a[i]].content] /\ d = [i \in 1..n |-> cells[b[i]].content]
        BY OfOneQueue DEF Held
      <4>2. /\ \A i \in 1..m : cells[a[i]].content \in Element
            /\ \A i \in 1..n : cells[b[i]].content \in Element
        BY <1>2, <1>3
      <4>3. m \in Nat /\ n \in Nat
        BY <1>2
      <4> HIDE DEF a, b, m, n, c, d
      <4>4. c \in [1..m -> Element] /\ d \in [1..n -> Element]
        BY <4>1, <4>2
      <4>5. c \in Seq(Element) /\ Len(c) = m
        BY <4>3, <4>4
      <4>6. d \in Seq(Element) /\ Len(d) = n
        BY <4>3, <4>4
      <4> QED BY <4>1, <4>5, <4>6
    <3> HIDE DEF c, d, a, b, m, n
    <3>2. /\ c \o d \in Seq(Element) /\ Len(c \o d) = m + n
          /\ \A i \in 1..m : (c \o d)[i] = c[i]
          /\ \A i \in 1..n : (c \o d)[m + i] = d[i]
      <4>1. c \in Seq(Element) /\ d \in Seq(Element)
        BY <3>1
      <4>2. /\ c \o d \in Seq(Element) /\ Len(c \o d) = Len(c) + Len(d)
            /\ \A i \in 1..Len(c) : (c \o d)[i] = c[i]
            /\ \A i \in 1..Len(d) : (c \o d)[Len(c) + i] = d[i]
        BY <4>1, Joined
      <4> QED BY <3>1, <4>2
    <3>3. ASSUME NEW i \in 1..(m + n) PROVE other[s[i]].content = (c \o d)[i]
      <4>1. CASE i \in 1..m
        <5>1. s[i] = a[i] /\ a[i] \in DOMAIN cells /\ (c \o d)[i] = c[i]
          BY <4>1, <1>2, <2>5, <3>2
        <5> QED BY <4>1, <5>1, <1>9, <3>1
      <4>2. CASE i - m \in 1..n
        <5>1. i = m + (i - m)
          BY <1>2
        <5>2. s[i] = b[i - m]
          BY <4>2, <5>1, <2>5
        <5>3. (c \o d)[i] = d[i - m]
          BY <4>2, <5>1, <3>2
        <5>4. b[i - m] \in DOMAIN cells /\ d[i - m] = cells[b[i - m]].content
          BY <4>2, <1>2, <3>1
        <5> QED BY <5>2, <5>3, <5>4, <1>9
      <4> QED BY <4>1, <4>2, <2>5
    <3>4. c \o d = [i \in 1..(m + n) |-> (c \o d)[i]]
      <4> DEFINE e == c \o d
      <4>1. e \in Seq(Element) /\ Len(e) = m + n
        BY <3>2
      <4> HIDE DEF e
      <4>2. e = [i \in 1..Len(e) |-> e[i]]
        BY <4>1
      <4> QED BY <4>1, <4>2 DEF e
    <3> QED BY <2>5, <3>3, <3>4 DEF Held, c, d
  <2>10. /\ Sound(other, Updated(queues1, q2, record), Updated(chains1, q2, s))
         /\ Contents(other, Updated(chains1, q2, s))
              = Updated(Contents(cells, chains1), q2, Held(other, s))
    BY <2>1, <2>7, <2>8, <1>10, Put
  <2>11. /\ LInv'
         /\ Contents(cells', chains') = Contents(other, Updated(chains1, q2, s))
    <3>1. Link(Updated(queues1, q2, record), other)
      BY <1>1, <2>3
    <3> QED BY <3>1, <2>10, LinkKeeps
  <2> QED BY <1>16, <2>1, <2>9, <2>10, <2>11 DEF Updated
<1> QED BY <1>15, <1>16

-----------------------------------------------------------------------------
(* What the queues hold, as module Queues sees it. *)
arrays == [q \in Queue |-> toArray(q)]

(* toArray reads what the chain of the queue holds. *)
LEMMA ArraysAreContents == ASSUME LInv PROVE arrays = Contents(cells, chains)
<1>1. \A q \in Queue : Chain(cells, queues[q].first) = chains[q]
  BY DEF chains
<1>2. \A q \in Queue : DOMAIN chains[q] = 1..Len(chains[q])
  BY DEF LInv, Sound
<1>3. \A q \in Queue : toArray(q) = Held(cells, chains[q])
  BY <1>1, <1>2 DEF toArray, Held
<1> QED BY <1>3 DEF arrays, Contents

(* The same after a step. *)
LEMMA ArraysAreContentsNext == ASSUME LInv' PROVE arrays' = Contents(cells', chains')
<1>1. \A q \in Queue : Chain(cells', queues'[q].first) = chains'[q]
  BY DEF chains
<1>2. \A q \in Queue : DOMAIN chains'[q] = 1..Len(chains'[q])
  BY DEF LInv, Sound
<1>3. \A q \in Queue : toArray(q)' = Held(cells', chains'[q])
  BY <1>1, <1>2 DEF toArray, Held
<1> QED BY <1>3 DEF arrays, Contents

(* At first every queue is empty. *)
LEMMA AtFirst == ASSUME LinkedInit PROVE LInv /\ arrays = [q \in Queue |-> <<>>]
<1>1. Closed(cells)
  BY FS_EmptySet DEF LinkedInit, Closed
<1>2. \A q \in Queue : Describes(cells, queues[q], <<>>)
  BY DEF LinkedInit, Describes, QueueRecord, Cleared, IsChain
<1>3. \A q \in Queue : Chain(cells, queues[q].first) = <<>>
  BY <1>1, <1>2, ChainIs DEF Describes
<1>4. chains = [q \in Queue |-> <<>>]
  BY <1>3 DEF chains
<1>5. LInv
  <2>1. queues \in [Queue -> QueueRecord] /\ chains \in [Queue -> Seq(DOMAIN cells)]
    BY <1>4 DEF LinkedInit, QueueRecord, Cleared
  <2>2. \A q, r \in Queue : Apart(chains[q], chains[r])
    BY <1>4 DEF Apart
  <2> QED BY <1>1, <1>2, <1>4, <2>1, <2>2 DEF LInv, Sound
<1>6. Contents(cells, chains) = [q \in Queue |-> <<>>]
  BY <1>4 DEF Contents, Held
<1> QED BY <1>5, <1>6, ArraysAreContents

(* Each step keeps the chains sound and is a step of module Queues. *)
LEMMA Steps ==
  ASSUME LInv, [LinkedNext]_linkedVars
  PROVE  LInv' /\ [Abstract!QueuesNext]_<<arrays, taken>>
<1> DEFINE held == Contents(cells, chains)
<1>1. arrays = held /\ \A q \in Queue : \A s : Updated(held, q, s) = [arrays EXCEPT ![q] = s]
  BY ArraysAreContents DEF Updated
<1>2. LInv' => arrays' = Contents(cells', chains')
  BY ArraysAreContentsNext
<1>3. ASSUME NEW q \in Queue, NEW s,
             LInv', Contents(cells', chains') = Updated(held, q, s), UNCHANGED taken
      PROVE  LInv' /\ Abstract!Replace(q, s)
  <2>1. arrays' = [arrays EXCEPT ![q] = s]
    BY <1>1, <1>2, <1>3
  <2> QED BY <1>3, <2>1 DEF Abstract!Replace, arrays
<1>4. ASSUME NEW q \in Queue, queueClear(q)
      PROVE  LInv' /\ Abstract!Replace(q, <<>>)
  BY <1>3, <1>4, ClearKeeps DEF queueClear
<1>5. ASSUME NEW q \in Queue, NEW x \in Element, queueAdd(q, x)
      PROVE  LInv' /\ Abstract!Replace(q, Append(held[q], x))
  <2>1. UNCHANGED taken
    BY <1>5 DEF queueAdd
  <2> QED BY <1>3, <1>5, <2>1, AddKeeps
<1>6. ASSUME NEW q \in Queue, NEW r \in Queue, NEW f \in [Element -> Element], queueMap(q, r, f)
      PROVE  LInv' /\ Abstract!Replace(r, [i \in DOMAIN held[q] |-> f[held[q][i]]])
  <2>1. UNCHANGED taken
    BY <1>6, Zenon DEF queueMap
  <2> QED BY <1>3, <1>6, <2>1, MapKeeps
<1>7. ASSUME NEW q \in Queue, NEW r \in Queue, queueTransfer(q, r)
      PROVE  LInv' /\ Abstract!Transfer(q, r)
  <2>1. UNCHANGED taken
    BY <1>7 DEF queueTransfer
  <2>2. LInv' /\ arrays' = [arrays EXCEPT ![r] = @ \o arrays[q], ![q] = <<>>]
    BY <1>1, <1>2, <1>7, TransferKeeps
  <2> QED BY <2>1, <2>2 DEF Abstract!Transfer, arrays
<1>8. CASE UNCHANGED linkedVars
  <2>1. UNCHANGED <<cells, queues, taken>>
    BY <1>8 DEF linkedVars
  <2>2. LInv'
    BY <2>1 DEF LInv, chains
  <2>3. UNCHANGED <<arrays, taken>>
    BY <2>1 DEF arrays, toArray
  <2> QED BY <2>2, <2>3
<1>9. ASSUME NEW q \in Queue, queuePop(q)
      PROVE  LInv' /\ Abstract!Pop(q)
  <2>1. CASE queues[q].first = Nothing
    <3>1. taken' = Nothing /\ UNCHANGED <<cells, queues>>
      BY <1>9, <2>1 DEF queuePop
    <3>2. LInv' /\ UNCHANGED arrays
      BY <3>1 DEF LInv, chains, arrays, toArray
    <3>3. chains[q] = <<>>
      <4>1. \A i \in 1..Len(chains[q]) : chains[q][i] # Nothing
        BY OfOneQueue, CellAssumption DEF LInv, Sound, Closed
      <4>2. Nothing = IF chains[q] = <<>> THEN Nothing ELSE chains[q][1]
        BY <2>1, OfOneQueue DEF Describes, IsChain
      <4> QED BY <4>1, <4>2, OfOneQueue
    <3>4. arrays[q] = <<>>
      <4>1. held[q] = Held(cells, <<>>)
        BY <3>3, OfOneQueue
      <4>2. Held(cells, <<>>) = <<>>
        BY DEF Held
      <4> QED BY <1>1, <4>1, <4>2
    <3> QED BY <3>1, <3>2, <3>4 DEF Abstract!Pop, arrays
  <2>2. CASE queues[q].first # Nothing
    <3>1. /\ taken' = Popped(q)
          /\ Link([queues EXCEPT ![q] = AfterPop(q, cells[queues[q].first].next)], cells)
      BY <1>9, <2>2 DEF queuePop
    <3>2. LInv' /\ held[q] # <<>> /\ taken' = Head(held[q])
          /\ Contents(cells', chains') = Updated(held, q, Tail(held[q]))
      BY <2>2, <3>1, PopKeeps
    <3>3. arrays[q] # <<>> /\ taken' = Head(arrays[q])
          /\ arrays' = [arrays EXCEPT ![q] = Tail(@)]
      BY <1>1, <1>2, <3>2
    <3> QED BY <3>2, <3>3 DEF Abstract!Pop, arrays
  <2> QED BY <2>1, <2>2
<1> HIDE DEF held
<1>10. ASSUME NEW q \in Queue, NEW r \in Queue,
              \/ queueClear(q) \/ queuePop(q)
              \/ \E x \in Element : queueAdd(q, x)
              \/ \E f \in [Element -> Element] : queueMap(q, r, f)
              \/ queueTransfer(q, r)
       PROVE  LInv' /\ Abstract!QueuesNext
  <2>1. CASE queueClear(q)
    BY <2>1, <1>4 DEF Abstract!QueuesNext
  <2>2. CASE queuePop(q)
    BY <2>2, <1>9 DEF Abstract!QueuesNext
  <2>3. CASE \E x \in Element : queueAdd(q, x)
    <3>1. PICK x \in Element : queueAdd(q, x)
      BY <2>3
    <3>2. LInv' /\ Abstract!Replace(q, Append(arrays[q], x))
      BY <3>1, <1>1, <1>5
    <3> QED BY <3>2 DEF Abstract!QueuesNext, arrays
  <2>4. CASE \E f \in [Element -> Element] : queueMap(q, r, f)
    <3>1. PICK f \in [Element -> Element] : queueMap(q, r, f)
      BY <2>4
    <3>2. LInv' /\ Abstract!Replace(r, [i \in DOMAIN arrays[q] |-> f[arrays[q][i]]])
      BY <3>1, <1>1, <1>6
    <3> QED BY <3>2 DEF Abstract!QueuesNext, arrays
  <2>5. CASE queueTransfer(q, r)
    BY <2>5, <1>7 DEF Abstract!QueuesNext
  <2> QED BY <1>10, <2>1, <2>2, <2>3, <2>4, <2>5
<1> QED BY <1>8, <1>10 DEF LinkedNext

(* What every operation relies on and none checks: length counts the cells, last is the end
   of the chain that first begins, and no cell is in two queues. *)
THEOREM QueuesShareNoCell == LinkedSpec => []ChainsAreSound
<1>1. LinkedInit => LInv
  BY AtFirst
<1>2. LInv /\ [LinkedNext]_linkedVars => LInv'
  BY Steps
<1>3. LInv => ChainsAreSound
  <2> SUFFICES ASSUME LInv PROVE ChainsAreSound
    OBVIOUS
  <2>1. \A q \in Queue : Chain(cells, queues[q].first) = chains[q]
    BY DEF chains
  <2>2. ASSUME NEW q \in Queue
        PROVE  /\ queues[q].length = Len(chains[q])
               /\ queues[q].last = IF chains[q] = <<>> THEN Nothing ELSE chains[q][Len(chains[q])]
               /\ chains[q] # <<>> => cells[queues[q].last].next = Nothing
    <3>1. chains[q] # <<>> => Len(chains[q]) \in 1..Len(chains[q])
      BY OfOneQueue
    <3> QED BY <3>1, OfOneQueue DEF Describes, IsChain
  <2>3. ASSUME NEW q \in Queue, NEW r \in Queue, q # r
        PROVE  Range(chains[q]) \cap Range(chains[r]) = {}
    BY <2>3, OfOneQueue DEF Apart, Range
  <2> QED BY <2>1, <2>2, <2>3 DEF ChainsAreSound
<1> QED BY <1>1, <1>2, <1>3, PTL DEF LinkedSpec

(* The linked queues behave as the sequences that the interface promises. *)
THEOREM LinkedQueuesAreSequences == LinkedSpec => ImplementsQueues
<1>1. LinkedInit => LInv /\ Abstract!QueuesInit
  BY AtFirst DEF Abstract!QueuesInit, arrays, LinkedInit
<1>2. LInv /\ [LinkedNext]_linkedVars => LInv' /\ [Abstract!QueuesNext]_<<arrays, taken>>
  BY Steps
<1> QED BY <1>1, <1>2, PTL DEF LinkedSpec, ImplementsQueues, Abstract!QueuesSpec, arrays
-----------------------------------------------------------------------------
(* Hash maps. *)

(* CellsFrom follows next from cell to cell. *)
LEMMA CellsFromIs ==
  ASSUME NEW next, next \in [Key -> Key \cup {Missing}], NEW first \in Key \cup {Missing}
  PROVE  /\ CellsFrom(next, first)[0] = first
         /\ \A i \in Nat : CellsFrom(next, first)[i + 1] =
              IF CellsFrom(next, first)[i] = Missing THEN Missing
              ELSE next[CellsFrom(next, first)[i]]
<1> DEFINE S == Key \cup {Missing}
           G == [c \in S |-> IF c = Missing THEN Missing ELSE next[c]]
           Is(f) == f = [i \in Nat |-> IF i = 0 THEN first
                       ELSE IF f[i - 1] = Missing THEN Missing ELSE next[f[i - 1]]]
<1>1. PICK f \in [Nat -> S] : Iterates(f, G, first)
  <2>1. first \in S /\ G \in [S -> S]
    OBVIOUS
  <2> HIDE DEF S, G
  <2> QED BY <2>1, Iteration
<1>2. Is(f)
  <2>1. ASSUME NEW i \in Nat
        PROVE f[i] = IF i = 0 THEN first
                       ELSE IF f[i - 1] = Missing THEN Missing ELSE next[f[i - 1]]
    <3>1. CASE i = 0
      BY <1>1, <3>1 DEF Iterates
    <3>2. CASE i # 0
      <4>1. i - 1 \in Nat /\ (i - 1) + 1 = i
        BY <3>2
      <4>2. f[i] = G[f[i - 1]]
        BY <1>1, <4>1 DEF Iterates
      <4> QED BY <1>1, <3>2, <4>1, <4>2
    <3> QED BY <3>1, <3>2
  <2> QED BY <2>1
<1>3. CellsFrom(next, first) = CHOOSE g : Is(g)
  BY DEF CellsFrom
<1>4. Is(CellsFrom(next, first))
  <2> HIDE DEF Is
  <2> QED BY <1>2, <1>3
<1> QED BY <1>4

(* The number of buckets of an empty table is a positive number, whatever the hint. *)
LEMMA SomeBuckets == ASSUME NEW n \in Nat PROVE power_2_above(n) \in Nat \ {0}
<1> DEFINE S == Nat \ {0}
           G == [b \in S |-> IF b >= n \/ Doubled(b) < b THEN b ELSE Doubled(b)]
           Is(x) == x = [i \in Nat |-> IF i = 0 THEN MinBuckets
                       ELSE IF x[i - 1] >= n \/ Doubled(x[i - 1]) < x[i - 1] THEN x[i - 1]
                            ELSE Doubled(x[i - 1])]
<1>1. PICK f \in [Nat -> S] : Iterates(f, G, MinBuckets)
  <2>1. \A b \in S : Doubled(b) \in Int /\ (~(Doubled(b) < b) => Doubled(b) \in S)
    BY HashAssumption DEF Doubled
  <2>2. MinBuckets \in S /\ G \in [S -> S]
    BY HashAssumption, <2>1
  <2> HIDE DEF S, G
  <2> QED BY <2>2, Iteration
<1>2. Is(f)
  <2>1. ASSUME NEW i \in Nat
        PROVE f[i] = IF i = 0 THEN MinBuckets
                       ELSE IF f[i - 1] >= n \/ Doubled(f[i - 1]) < f[i - 1] THEN f[i - 1]
                            ELSE Doubled(f[i - 1])
    <3>1. CASE i = 0
      BY <1>1, <3>1 DEF Iterates
    <3>2. CASE i # 0
      <4>1. i - 1 \in Nat /\ (i - 1) + 1 = i
        BY <3>2
      <4>2. f[i] = G[f[i - 1]]
        BY <1>1, <4>1 DEF Iterates
      <4>3. f[i - 1] \in S
        BY <1>1, <4>1
      <4> QED BY <3>2, <4>2, <4>3
    <3> QED BY <3>1, <3>2
  <2> QED BY <2>1
<1> DEFINE chosen == CHOOSE x : Is(x)
<1>3. power_2_above(n) = chosen[n]
  BY DEF power_2_above
<1>4. Is(chosen)
  <2> HIDE DEF Is
  <2> QED BY <1>2
<1>5. ASSUME NEW i \in Nat PROVE chosen[i] \in S
  <2> HIDE DEF chosen
  <2> DEFINE T == {m \in Nat : chosen[m] \in S}
  <2>1. 0 \in T
    BY <1>4, HashAssumption
  <2>2. ASSUME NEW m \in Nat, m \in T PROVE m + 1 \in T
    <3>1. m + 1 \in Nat /\ m + 1 # 0 /\ (m + 1) - 1 = m
      OBVIOUS
    <3>2. chosen[m + 1] = IF chosen[m] >= n \/ Doubled(chosen[m]) < chosen[m] THEN chosen[m]
                          ELSE Doubled(chosen[m])
      BY <1>4, <3>1
    <3>3. chosen[m] \in S
      BY <2>2
    <3>4. ~(Doubled(chosen[m]) < chosen[m]) => Doubled(chosen[m]) \in S
      BY <3>3, HashAssumption DEF Doubled
    <3> QED BY <3>1, <3>2, <3>3, <3>4
  <2> HIDE DEF T
  <2>3. \A m \in Nat : m \in T
    BY <2>1, <2>2, Induction
  <2> QED BY <2>3 DEF T
<1> QED BY <1>3, <1>5

-----------------------------------------------------------------------------
(* s are the cells from first on. *)
IsBucket(next, first, s) ==
  /\ s \in Seq(Key)
  /\ \A i, j \in 1..Len(s) : s[i] = s[j] => i = j
  /\ first = IF s = <<>> THEN Missing ELSE s[1]
  /\ \A i \in 1..Len(s) : next[s[i]] = IF i = Len(s) THEN Missing ELSE s[i + 1]

Members(s) == {s[j] : j \in 1..Len(s)}

(* The keys of K that belong into bucket i of n. *)
OfBucket(K, n, i) == {k \in K : Hash[k] % n = i}

(* Each of the n buckets lists those of the keys K that belong into it. *)
Holds(t, n, K) ==
  /\ n \in Nat \ {0} /\ DOMAIN t.buckets = 0..(n - 1)
  /\ t.next \in [Key -> Key \cup {Missing}]
  /\ K \subseteq Key
  /\ \A i \in 0..(n - 1) :
       \E s : IsBucket(t.next, t.buckets[i], s) /\ Members(s) = OfBucket(K, n, i)

BoundKeys(b) == {k \in Key : b[k] # Missing}

(* The table binds the keys as b says. *)
Binds(t, b) ==
  /\ b \in [Key -> Val \cup {Missing}] /\ t.value \in [Key -> Val \cup {Missing}]
  /\ t.size = Cardinality(BoundKeys(b))
  /\ \A k \in BoundKeys(b) : t.value[k] = b[k]
  /\ \E n : Holds(t, n, BoundKeys(b))

HInv == Binds(h, bindings)

LEMMA CountedFrom0 == ASSUME NEW n \in Nat PROVE Cardinality(0..(n - 1)) = n
<1> DEFINE last == n - 1
<1>1. last \in Int /\ 0 \in Int /\ (IF 0 > last THEN 0 ELSE last - 0 + 1) = n
  OBVIOUS
<1> HIDE DEF last
<1>2. Cardinality(0..last) = IF 0 > last THEN 0 ELSE last - 0 + 1
  BY <1>1, FS_Interval
<1> QED BY <1>1, <1>2 DEF last

(* Bucket finds the cells, all and no more. *)
LEMMA BucketIs ==
  ASSUME NEW t, t.next \in [Key -> Key \cup {Missing}], NEW i, NEW s,
         IsBucket(t.next, t.buckets[i], s)
  PROVE  Bucket(t, i) = s
<1> DEFINE first == t.buckets[i]
           walk == CellsFrom(t.next, first)
           most == Cardinality(Key)
           steps == 0..(most - 1)
<1>1. Missing \notin Key /\ first \in Key \cup {Missing}
  BY HashAssumption DEF IsBucket
<1>2. walk[0] = first
  BY <1>1, CellsFromIs
<1>3. \A k \in Nat : walk[k + 1] = IF walk[k] = Missing THEN Missing ELSE t.next[walk[k]]
  BY <1>1, CellsFromIs
<1> HIDE DEF walk
<1>4. \A k \in Nat : walk[k] = IF k < Len(s) THEN s[k + 1] ELSE Missing
  <2> DEFINE T == {k \in Nat : walk[k] = IF k < Len(s) THEN s[k + 1] ELSE Missing}
  <2>1. 0 \in T
    BY <1>2 DEF IsBucket
  <2>2. ASSUME NEW k \in Nat, k \in T PROVE k + 1 \in T
    <3>1. CASE k < Len(s)
      <4>1. walk[k] = s[k + 1] /\ s[k + 1] \in Key
        BY <2>2, <3>1 DEF IsBucket
      <4>2. walk[k + 1] = t.next[s[k + 1]]
        BY <1>1, <1>3, <4>1
      <4>3. t.next[s[k + 1]] = IF k + 1 = Len(s) THEN Missing ELSE s[k + 2]
        BY <3>1 DEF IsBucket
      <4>4. (k + 1) + 1 = k + 2 /\ Len(s) \in Nat /\ k + 1 <= Len(s)
        BY <3>1 DEF IsBucket
      <4>5. walk[k + 1] = IF k + 1 < Len(s) THEN s[(k + 1) + 1] ELSE Missing
        BY <4>2, <4>3, <4>4
      <4>6. k + 1 \in Nat
        OBVIOUS
      <4> QED BY <4>5, <4>6 DEF T
    <3>2. CASE ~(k < Len(s))
      <4>1. Len(s) \in Nat
        BY DEF IsBucket
      <4>2. walk[k] = Missing
        BY <2>2, <3>2
      <4>3. walk[k + 1] = Missing
        BY <1>3, <4>2
      <4>4. ~(k + 1 < Len(s)) /\ k + 1 \in Nat
        BY <3>2, <4>1
      <4> QED BY <4>3, <4>4
    <3> QED BY <3>1, <3>2
  <2> HIDE DEF T
  <2>3. \A k \in Nat : k \in T
    BY <2>1, <2>2, Induction
  <2> QED BY <2>3 DEF T
<1>5. most \in Nat /\ Len(s) \in Nat /\ Len(s) <= most
  <2>1. IsFiniteSet(Key)
    BY HashAssumption
  <2>2. s \in Seq(Key) /\ \A k, j \in 1..Len(s) : s[k] = s[j] => k = j
    BY DEF IsBucket
  <2> QED BY <2>1, <2>2, ChainFits
<1>6. {k \in steps : walk[k] # Missing} = 0..(Len(s) - 1)
  <2>1. \A k \in 0..(Len(s) - 1) : s[k + 1] # Missing
    BY <1>1 DEF IsBucket
  <2> QED BY <1>4, <1>5, <2>1
<1>7. Cardinality({k \in steps : walk[k] # Missing}) = Len(s)
  <2>1. Cardinality(0..(Len(s) - 1)) = Len(s)
    BY <1>5, CountedFrom0
  <2> HIDE DEF steps
  <2> QED BY <1>6, <2>1
<1>8. Bucket(t, i) = [j \in 1..Len(s) |-> walk[j - 1]]
  BY <1>7 DEF Bucket, walk
<1>9. \A j \in 1..Len(s) : walk[j - 1] = s[j]
  BY <1>4, <1>5
<1> QED BY <1>8, <1>9 DEF IsBucket

(* What lookup and iteration find in such a table. *)
LEMMA TableIs ==
  ASSUME NEW t, NEW n, NEW K, Holds(t, n, K)
  PROVE  /\ NumBuckets(t) = n /\ IsFiniteSet(K)
         /\ \A k \in Key : Index(t, k) = Hash[k] % n /\ Index(t, k) \in 0..(n - 1)
         /\ \A i \in 0..(n - 1) :
              /\ IsBucket(t.next, t.buckets[i], Bucket(t, i))
              /\ Members(Bucket(t, i)) = OfBucket(K, n, i)
              /\ CellsOf(t, i) = OfBucket(K, n, i)
         /\ \A k \in Key : hashHas(t, k) <=> k \in K
         /\ Listed(t) = K
<1>1. NumBuckets(t) = n /\ IsFiniteSet(K)
  BY CountedFrom0, HashAssumption, FS_Subset DEF Holds, NumBuckets
<1>2. ASSUME NEW k \in Key PROVE Index(t, k) = Hash[k] % n /\ Index(t, k) \in 0..(n - 1)
  <2>1. n \in Nat \ {0} /\ Hash[k] \in Nat
    BY HashAssumption DEF Holds
  <2>2. Hash[k] % n \in 0..(n - 1)
    BY <2>1
  <2> QED BY <1>1, <2>2 DEF Index
<1>3. ASSUME NEW i \in 0..(n - 1)
      PROVE  /\ IsBucket(t.next, t.buckets[i], Bucket(t, i))
             /\ Members(Bucket(t, i)) = OfBucket(K, n, i)
             /\ CellsOf(t, i) = OfBucket(K, n, i)
  <2>1. PICK s : IsBucket(t.next, t.buckets[i], s) /\ Members(s) = OfBucket(K, n, i)
    BY DEF Holds
  <2>2. Bucket(t, i) = s
    BY <2>1, BucketIs DEF Holds
  <2>3. DOMAIN s = 1..Len(s)
    BY <2>1 DEF IsBucket
  <2>4. CellsOf(t, i) = Members(s)
    BY <2>2, <2>3 DEF CellsOf, Range, Members
  <2> QED BY <2>1, <2>2, <2>4
<1>4. \A k \in Key : hashHas(t, k) <=> k \in K
  BY <1>2, <1>3 DEF hashHas, OfBucket
<1>5. Listed(t) = K
  <2>1. DOMAIN t.buckets = 0..(n - 1) /\ K \subseteq Key
    BY DEF Holds
  <2>2. ASSUME NEW k \in K PROVE k \in Listed(t)
    BY <1>2, <1>3, <2>1, <2>2 DEF Listed, OfBucket
  <2>3. ASSUME NEW k \in Listed(t) PROVE k \in K
    BY <1>3, <2>1, <2>3 DEF Listed, OfBucket
  <2> QED BY <2>2, <2>3
<1> QED BY <1>1, <1>2, <1>3, <1>4, <1>5

LEMMA FoundIsSound ==
  ASSUME HInv PROVE EntriesAreTheBindings /\ TableHoldsItsBindings
<1> DEFINE K == BoundKeys(bindings)
<1>1. PICK n : Holds(h, n, K)
  BY DEF HInv, Binds
<1>2. Listed(h) = {k \in Key : hashHas(h, k)} /\ h.size = Cardinality(Listed(h))
  <2>1. Listed(h) = K /\ K \subseteq Key /\ \A k \in Key : hashHas(h, k) <=> k \in K
    BY <1>1, TableIs DEF BoundKeys
  <2>2. h.size = Cardinality(K)
    BY DEF HInv, Binds
  <2> HIDE DEF K
  <2> QED BY <2>1, <2>2
<1>3. DOMAIN h.buckets = 0..(n - 1)
  BY <1>1 DEF Holds
<1>4. ASSUME NEW i \in DOMAIN h.buckets PROVE IsInjective(Bucket(h, i))
  <2>1. IsBucket(h.next, h.buckets[i], Bucket(h, i))
    BY <1>1, <1>3, TableIs
  <2> QED BY <2>1 DEF IsBucket, IsInjective
<1>5. ASSUME NEW i \in DOMAIN h.buckets, NEW j \in DOMAIN h.buckets, i # j
      PROVE CellsOf(h, i) \cap CellsOf(h, j) = {}
  <2>1. CellsOf(h, i) = OfBucket(K, n, i) /\ CellsOf(h, j) = OfBucket(K, n, j)
    BY <1>1, <1>3, TableIs
  <2> QED BY <1>5, <2>1 DEF OfBucket
<1>6. \A k \in Key : hashHas(h, k) <=> k \in K
  BY <1>1, TableIs
<1>7. TableHoldsItsBindings
  BY <1>6 DEF TableHoldsItsBindings, hashGet, HInv, Binds, BoundKeys
<1> QED BY <1>2, <1>4, <1>5, <1>7 DEF EntriesAreTheBindings

-----------------------------------------------------------------------------
(* Keys in the order of a table. *)

Orders(R, S) ==
  /\ \A a \in S : <<a, a>> \notin R
  /\ \A a, b \in S : a # b => <<a, b>> \in R \/ <<b, a>> \in R
  /\ \A a, b, c \in S : <<a, b>> \in R /\ <<b, c>> \in R => <<a, c>> \in R

Enumerates(s, S, R) ==
  /\ s \in Seq(S) /\ Members(s) = S
  /\ \A i, j \in 1..Len(s) : i < j => <<s[i], s[j]>> \in R

IsLast(m, A, R) == m \in A /\ \A a \in A \ {m} : <<a, m>> \in R

(* A finite set that is ordered has a last element. *)
LEMMA HasLast ==
  ASSUME NEW S, NEW R, Orders(R, S), NEW A \in SUBSET S, IsFiniteSet(A), A # {}
  PROVE  \E m : IsLast(m, A, R)
<1> DEFINE T == {n \in Nat : \A B \in SUBSET S :
                  IsFiniteSet(B) /\ Cardinality(B) = n + 1 => \E m : IsLast(m, B, R)}
<1>1. 0 \in T
  <2> SUFFICES ASSUME NEW B \in SUBSET S, IsFiniteSet(B), Cardinality(B) = 1
               PROVE \E m : IsLast(m, B, R)
    OBVIOUS
  <2>1. PICK x : B = {x}
    BY FS_Singleton
  <2> QED BY <2>1 DEF IsLast
<1>2. ASSUME NEW n \in Nat, n \in T PROVE n + 1 \in T
  <2> SUFFICES ASSUME NEW B \in SUBSET S, IsFiniteSet(B), Cardinality(B) = n + 2
               PROVE \E m : IsLast(m, B, R)
    OBVIOUS
  <2>1. PICK x \in B : TRUE
    BY FS_EmptySet
  <2>2. IsFiniteSet(B \ {x}) /\ Cardinality(B \ {x}) = n + 1
    BY <2>1, FS_RemoveElement
  <2>3. PICK m : IsLast(m, B \ {x}, R)
    BY <1>2, <2>2
  <2>4. IsLast(m, B, R) \/ IsLast(x, B, R)
    BY <2>1, <2>3 DEF IsLast, Orders
  <2> QED BY <2>4
<1> HIDE DEF T
<1>3. \A n \in Nat : n \in T
  BY <1>1, <1>2, Induction
<1>4. Cardinality(A) \in Nat /\ Cardinality(A) # 0
  BY FS_CardinalityType, FS_EmptySet
<1>5. Cardinality(A) - 1 \in Nat /\ (Cardinality(A) - 1) + 1 = Cardinality(A)
  BY <1>4
<1>6. Cardinality(A) - 1 \in T
  BY <1>3, <1>5
<1> QED BY <1>5, <1>6 DEF T

(* It can be listed in its order. *)
LEMMA Enumerated ==
  ASSUME NEW S, IsFiniteSet(S), NEW R, Orders(R, S)
  PROVE  \E s : Enumerates(s, S, R)
<1> DEFINE T == {n \in Nat : \A A \in SUBSET S : Cardinality(A) = n => \E s : Enumerates(s, A, R)}
<1>1. 0 \in T
  <2> SUFFICES ASSUME NEW A \in SUBSET S, Cardinality(A) = 0 PROVE \E s : Enumerates(s, A, R)
    OBVIOUS
  <2>1. A = {}
    BY FS_Subset, FS_EmptySet
  <2>2. Enumerates(<<>>, {}, R)
    BY DEF Enumerates, Members
  <2> QED BY <2>1, <2>2
<1>2. ASSUME NEW n \in Nat, n \in T PROVE n + 1 \in T
  <2> SUFFICES ASSUME NEW A \in SUBSET S, Cardinality(A) = n + 1
               PROVE \E s : Enumerates(s, A, R)
    OBVIOUS
  <2>1. IsFiniteSet(A) /\ A # {}
    BY FS_Subset, FS_EmptySet
  <2>2. PICK m : IsLast(m, A, R)
    BY <2>1, HasLast
  <2>3. Cardinality(A \ {m}) = n /\ A \ {m} \in SUBSET S
    <3>1. m \in A
      BY <2>2 DEF IsLast
    <3>2. Cardinality(A \ {m}) = Cardinality(A) - 1
      BY <2>1, <3>1, FS_RemoveElement
    <3> QED BY <3>2
  <2>4. PICK s : Enumerates(s, A \ {m}, R)
    BY <1>2, <2>3
  <2>5. Enumerates(Append(s, m), A, R)
    <3> DEFINE u == Append(s, m)
    <3>1. s \in Seq(A) /\ m \in A
      BY <2>2, <2>4 DEF IsLast, Enumerates
    <3>2. u \in Seq(A) /\ Len(u) = Len(s) + 1 /\ Len(s) \in Nat
      BY <3>1
    <3>3. \A i \in 1..Len(u) : u[i] = IF i <= Len(s) THEN s[i] ELSE m
      BY <3>1
    <3> HIDE DEF u
    <3>4. \A i \in 1..Len(s) : s[i] \in A \ {m}
      BY <2>4 DEF Enumerates
    <3>5. Members(u) = A
      <4>1. \A a \in A \ {m} : \E i \in 1..Len(s) : s[i] = a
        BY <2>4 DEF Enumerates, Members
      <4>2. \A i \in 1..Len(s) : i \in 1..Len(u) /\ u[i] = s[i]
        BY <3>2, <3>3
      <4>3. Len(u) \in 1..Len(u) /\ u[Len(u)] = m
        BY <3>2, <3>3
      <4>4. ASSUME NEW a \in A PROVE a \in Members(u)
        BY <4>1, <4>2, <4>3 DEF Members
      <4>5. ASSUME NEW a \in Members(u) PROVE a \in A
        BY <3>2 DEF Members
      <4> QED BY <4>4, <4>5
    <3>6. ASSUME NEW i \in 1..Len(u), NEW j \in 1..Len(u), i < j PROVE <<u[i], u[j]>> \in R
      <4>1. i \in 1..Len(s) /\ u[i] = s[i]
        BY <3>2, <3>3, <3>6
      <4>2. CASE j <= Len(s)
        BY <2>4, <3>3, <3>6, <4>1, <4>2 DEF Enumerates
      <4>3. CASE ~(j <= Len(s))
        BY <2>2, <3>3, <3>4, <4>1, <4>3 DEF IsLast
      <4> QED BY <4>2, <4>3
    <3> QED BY <3>2, <3>5, <3>6 DEF Enumerates, u
  <2> QED BY <2>5
<1> HIDE DEF T
<1>3. \A n \in Nat : n \in T
  BY <1>1, <1>2, Induction
<1>4. Cardinality(S) \in T
  BY <1>3, FS_CardinalityType
<1> QED BY <1>4 DEF T

(* The order in which a table lists the keys K. *)
OrderOf(t, K) == {p \in K \X K : Earlier(t, p[1], p[2])}

LEMMA PositionIs ==
  ASSUME NEW t, NEW n, NEW K, Holds(t, n, K), NEW k \in K
  PROVE  /\ Position(t, k) \in 1..Len(Bucket(t, Index(t, k)))
         /\ Bucket(t, Index(t, k))[Position(t, k)] = k
<1> DEFINE i == Index(t, k)
           s == Bucket(t, i)
<1>1. k \in Key /\ i \in 0..(n - 1) /\ k \in OfBucket(K, n, i)
  <2>1. k \in Key
    BY DEF Holds
  <2> QED BY <2>1, TableIs DEF OfBucket
<1>2. IsBucket(t.next, t.buckets[i], s) /\ Members(s) = OfBucket(K, n, i)
  BY <1>1, TableIs
<1> HIDE DEF i
<1>3. DOMAIN s = 1..Len(s)
  BY <1>2 DEF IsBucket
<1>4. \E j \in DOMAIN s : s[j] = k
  BY <1>1, <1>2, <1>3 DEF Members
<1>5. Position(t, k) = CHOOSE j \in DOMAIN s : s[j] = k
  BY DEF Position, i
<1> QED BY <1>3, <1>4, <1>5 DEF i

LEMMA ListingOrders ==
  ASSUME NEW t, NEW n, NEW K, Holds(t, n, K)
  PROVE  Orders(OrderOf(t, K), K)
<1> DEFINE i(k) == Index(t, k)
           j(k) == Position(t, k)
<1>1. ASSUME NEW k \in K
      PROVE i(k) \in Int /\ j(k) \in Int /\ Bucket(t, i(k))[j(k)] = k
  <2>1. k \in Key /\ n \in Nat
    BY DEF Holds
  <2>2. i(k) \in 0..(n - 1)
    BY <2>1, TableIs
  <2>3. j(k) \in 1..Len(Bucket(t, i(k))) /\ Bucket(t, i(k))[j(k)] = k
    BY PositionIs
  <2>4. Len(Bucket(t, i(k))) \in Nat
    BY <2>2, TableIs DEF IsBucket
  <2> HIDE DEF i, j
  <2> QED BY <2>1, <2>2, <2>3, <2>4
<1>2. \A k, l : Earlier(t, k, l) <=> i(k) < i(l) \/ (i(k) = i(l) /\ j(k) < j(l))
  BY DEF Earlier
<1>3. \A k, l \in K : i(k) = i(l) /\ j(k) = j(l) => k = l
  <2> HIDE DEF i, j
  <2> QED BY <1>1
<1> HIDE DEF i, j
<1>4. ASSUME NEW a \in K PROVE ~Earlier(t, a, a)
  BY <1>1, <1>2
<1>5. ASSUME NEW a \in K, NEW b \in K, a # b PROVE Earlier(t, a, b) \/ Earlier(t, b, a)
  BY <1>1, <1>2, <1>3, <1>5
<1>6. ASSUME NEW a \in K, NEW b \in K, NEW c \in K, Earlier(t, a, b), Earlier(t, b, c)
      PROVE Earlier(t, a, c)
  <2>1. i(a) \in Int /\ i(b) \in Int /\ i(c) \in Int /\ j(a) \in Int /\ j(b) \in Int /\ j(c) \in Int
    BY <1>1
  <2> QED BY <1>2, <1>6, <2>1
<1> QED BY <1>4, <1>5, <1>6 DEF Orders, OrderOf

LEMMA FirstIs ==
  ASSUME NEW t, NEW A, NEW f \in A, Orders(OrderOf(t, A), A),
         \A l \in A \ {f} : Earlier(t, f, l)
  PROVE  FirstOf(t, A) = f
<1> DEFINE IsFirst(k) == \A l \in A \ {k} : Earlier(t, k, l)
<1>1. ASSUME NEW k \in A, IsFirst(k) PROVE k = f
  <2> SUFFICES ASSUME k # f PROVE FALSE
    OBVIOUS
  <2>1. <<k, f>> \in OrderOf(t, A) /\ <<f, k>> \in OrderOf(t, A)
    BY <1>1 DEF OrderOf
  <2> QED BY <2>1 DEF Orders
<1>2. FirstOf(t, A) = CHOOSE k \in A : IsFirst(k)
  BY DEF FirstOf
<1>3. IsFirst(f)
  OBVIOUS
<1> HIDE DEF IsFirst
<1> QED BY <1>1, <1>2, <1>3

(* A part of the keys is in the same order. *)
LEMMA PartIsOrdered ==
  ASSUME NEW t, NEW K, Orders(OrderOf(t, K), K), NEW A \in SUBSET K
  PROVE  Orders(OrderOf(t, A), A)
BY DEF Orders, OrderOf

LEMMA RehashKeeps ==
  ASSUME NEW t, NEW n, NEW K, Holds(t, n, K), NEW m \in Nat \ {0}
  PROVE  Holds(Rehashed(t, m), m, K)
<1> DEFINE r == Rehashed(t, m)
           inNew(i) == OfBucket(K, m, i)
           after(k) == {l \in inNew(Hash[k] % m) : Earlier(t, k, l)}
           first(A) == IF A = {} THEN Missing ELSE FirstOf(t, A)
<1>1. Listed(t) = K /\ K \subseteq Key /\ IsFiniteSet(K)
  <2>1. K \subseteq Key
    BY DEF Holds
  <2> QED BY <2>1, TableIs
<1>2. /\ r.buckets = [i \in 0..(m - 1) |-> first(inNew(i))]
      /\ r.next = [k \in Key |-> IF k \in K THEN first(after(k)) ELSE Missing]
  BY <1>1 DEF Rehashed, Table, OfBucket, LastNext
<1>3. Orders(OrderOf(t, K), K)
  BY ListingOrders
<1>4. ASSUME NEW i \in 0..(m - 1)
      PROVE \E s : IsBucket(r.next, r.buckets[i], s) /\ Members(s) = inNew(i)
  <2> DEFINE A == inNew(i)
  <2>1. A \in SUBSET K /\ IsFiniteSet(A) /\ \A k \in A : Hash[k] % m = i
    BY <1>1, FS_Subset DEF OfBucket
  <2>2. Orders(OrderOf(t, A), A)
    BY <1>3, <2>1, PartIsOrdered
  <2> HIDE DEF A
  <2>3. PICK s : Enumerates(s, A, OrderOf(t, A))
    BY <2>1, <2>2, Enumerated
  <2>4. s \in Seq(A) /\ s \in Seq(Key) /\ Len(s) \in Nat
    BY <1>1, <2>1, <2>3 DEF Enumerates
  <2>5. \A j, l \in 1..Len(s) : j < l => Earlier(t, s[j], s[l])
    BY <2>3 DEF Enumerates, OrderOf
  <2>6. \A j, l \in 1..Len(s) : Earlier(t, s[j], s[l]) => j < l
    <3> SUFFICES ASSUME NEW j \in 1..Len(s), NEW l \in 1..Len(s), Earlier(t, s[j], s[l]), ~(j < l)
                 PROVE FALSE
      OBVIOUS
    <3>1. s[j] \in A /\ s[l] \in A
      BY <2>4
    <3>2. <<s[j], s[l]>> \in OrderOf(t, A)
      BY <3>1 DEF OrderOf
    <3>3. j = l \/ l < j
      OBVIOUS
    <3>4. s[j] = s[l] \/ <<s[l], s[j]>> \in OrderOf(t, A)
      BY <2>3, <3>3 DEF Enumerates
    <3> QED BY <2>2, <3>1, <3>2, <3>4 DEF Orders
  <2>7. \A j, l \in 1..Len(s) : s[j] = s[l] => j = l
    <3> SUFFICES ASSUME NEW j \in 1..Len(s), NEW l \in 1..Len(s), s[j] = s[l], j # l PROVE FALSE
      OBVIOUS
    <3>1. j < l \/ l < j
      OBVIOUS
    <3>2. Earlier(t, s[j], s[l])
      BY <2>5, <3>1
    <3>3. j < l /\ l < j
      BY <2>6, <3>2
    <3> QED BY <3>3
  <2>8. A = {s[j] : j \in 1..Len(s)}
    BY <2>3 DEF Enumerates, Members
  <2>9. first(A) = IF s = <<>> THEN Missing ELSE s[1]
    <3>1. CASE s = <<>>
      BY <2>8, <3>1
    <3>2. CASE s # <<>>
      <4>1. 1 \in 1..Len(s)
        BY <2>4, <3>2
      <4>2. s[1] \in A /\ \A l \in A \ {s[1]} : Earlier(t, s[1], l)
        <5>1. ASSUME NEW l \in A \ {s[1]} PROVE Earlier(t, s[1], l)
          <6>1. PICK j \in 1..Len(s) : l = s[j]
            BY <2>8
          <6>2. 1 < j
            BY <5>1, <6>1
          <6> QED BY <2>5, <4>1, <6>1, <6>2
        <5> QED BY <2>8, <4>1, <5>1
      <4>3. FirstOf(t, A) = s[1]
        BY <2>2, <4>2, FirstIs
      <4> QED BY <3>2, <4>2, <4>3
    <3> QED BY <3>1, <3>2
  <2>10. ASSUME NEW j \in 1..Len(s)
         PROVE first(after(s[j])) = IF j = Len(s) THEN Missing ELSE s[j + 1]
    <3> DEFINE B == after(s[j])
    <3>1. s[j] \in A /\ B = {l \in A : Earlier(t, s[j], l)}
      BY <2>1, <2>4 DEF A
    <3>2. B = {s[l] : l \in (j + 1)..Len(s)}
      <4>1. ASSUME NEW l \in (j + 1)..Len(s) PROVE s[l] \in B
        <5>1. l \in 1..Len(s) /\ j < l
          BY <2>4
        <5> QED BY <2>5, <2>8, <3>1, <5>1
      <4>2. ASSUME NEW b \in B PROVE \E l \in (j + 1)..Len(s) : b = s[l]
        <5>1. b \in A /\ Earlier(t, s[j], b)
          BY <3>1
        <5>2. PICK l \in 1..Len(s) : b = s[l]
          BY <2>8, <5>1
        <5>3. j < l
          BY <2>6, <5>1, <5>2
        <5>4. l \in (j + 1)..Len(s)
          BY <2>4, <5>3
        <5> QED BY <5>2, <5>4
      <4> HIDE DEF B
      <4> QED BY <4>1, <4>2
    <3> HIDE DEF B
    <3>3. CASE j = Len(s)
      <4>1. B = {}
        BY <2>4, <3>2, <3>3
      <4> QED BY <3>3, <4>1 DEF B
    <3>4. CASE j # Len(s)
      <4>1. j + 1 \in (j + 1)..Len(s) /\ j + 1 \in 1..Len(s)
        BY <2>4, <3>4
      <4>2. s[j + 1] \in B
        BY <3>2, <4>1
      <4>3. ASSUME NEW b \in B \ {s[j + 1]} PROVE Earlier(t, s[j + 1], b)
        <5>1. PICK l \in (j + 1)..Len(s) : b = s[l]
          BY <3>2
        <5>2. l # j + 1
          BY <4>3, <5>1
        <5>3. l \in 1..Len(s) /\ j + 1 < l
          BY <2>4, <5>2
        <5> QED BY <2>5, <4>1, <5>1, <5>3
      <4>4. B \in SUBSET A
        BY <3>1
      <4>5. FirstOf(t, B) = s[j + 1]
        BY <2>2, <4>2, <4>3, <4>4, FirstIs, PartIsOrdered
      <4>6. first(B) = s[j + 1]
        BY <4>2, <4>5
      <4> QED BY <3>4, <4>6 DEF B
    <3> QED BY <3>3, <3>4
  <2>11. r.buckets[i] = first(A)
    BY <1>2 DEF A
  <2>12. \A j \in 1..Len(s) : r.next[s[j]] = first(after(s[j]))
    <3>1. \A j \in 1..Len(s) : s[j] \in K /\ s[j] \in Key
      BY <1>1, <2>1, <2>4
    <3> HIDE DEF first, after, r
    <3> QED BY <1>2, <3>1
  <2>13. IsBucket(r.next, r.buckets[i], s)
    <3> HIDE DEF first, after, r
    <3> QED BY <2>4, <2>7, <2>9, <2>10, <2>11, <2>12 DEF IsBucket
  <2> QED BY <2>8, <2>13 DEF A, Members
<1>5. r.next \in [Key -> Key \cup {Missing}]
  <2>1. ASSUME NEW k \in K PROVE first(after(k)) \in Key \cup {Missing}
    <3> DEFINE i == Hash[k] % m
    <3>1. i \in 0..(m - 1) /\ k \in inNew(i)
      <4>1. Hash[k] \in Nat
        BY <1>1, HashAssumption
      <4> QED BY <4>1 DEF OfBucket
    <3>2. PICK s : IsBucket(r.next, r.buckets[i], s) /\ Members(s) = inNew(i)
      BY <1>4, <3>1
    <3> HIDE DEF r, inNew, i
    <3>3. PICK j \in 1..Len(s) : s[j] = k
      BY <3>1, <3>2 DEF Members
    <3>4. r.next[k] \in Key \cup {Missing}
      BY <3>2, <3>3 DEF IsBucket
    <3>5. r.next[k] = first(after(k))
      BY <1>1, <1>2
    <3> QED BY <3>4, <3>5
  <2> HIDE DEF first, after, r
  <2> QED BY <1>2, <2>1
<1>6. DOMAIN r.buckets = 0..(m - 1)
  BY <1>2
<1> HIDE DEF r
<1> QED BY <1>1, <1>4, <1>5, <1>6 DEF Holds, r

-----------------------------------------------------------------------------
(* What the calls do to the buckets. *)

(* Each bucket of t is known. *)
LEMMA BucketsOf ==
  ASSUME NEW t, NEW n, NEW K, Holds(t, n, K), NEW i \in 0..(n - 1)
  PROVE  /\ IsBucket(t.next, t.buckets[i], Bucket(t, i))
         /\ Members(Bucket(t, i)) = OfBucket(K, n, i)
         /\ Len(Bucket(t, i)) \in Nat
         /\ \A j \in 1..Len(Bucket(t, i)) : /\ Bucket(t, i)[j] \in K
                                          /\ Hash[Bucket(t, i)[j]] % n = i
<1>1. IsBucket(t.next, t.buckets[i], Bucket(t, i)) /\ Members(Bucket(t, i)) = OfBucket(K, n, i)
  BY TableIs
<1>2. Len(Bucket(t, i)) \in Nat
  BY <1>1 DEF IsBucket
<1>3. \A j \in 1..Len(Bucket(t, i)) : Bucket(t, i)[j] \in OfBucket(K, n, i)
  BY <1>1 DEF Members
<1> QED BY <1>1, <1>2, <1>3 DEF OfBucket

(* A bucket stays if its first cell stays and its cells keep what is next. *)
LEMMA BucketStays ==
  ASSUME NEW next, NEW first, NEW s, IsBucket(next, first, s),
         NEW other, \A j \in 1..Len(s) : other[s[j]] = next[s[j]]
  PROVE  IsBucket(other, first, s)
BY DEF IsBucket

LEMMA SameCells ==
  ASSUME NEW t, NEW n, NEW K, Holds(t, n, K),
         NEW u, u.buckets = t.buckets, u.next = t.next
  PROVE  Holds(u, n, K)
BY DEF Holds

(* A new cell before the others of its bucket. *)
LEMMA AddedHolds ==
  ASSUME NEW t, NEW n, NEW K, Holds(t, n, K), NEW k \in Key, k \notin K,
         NEW u, u.buckets = [t.buckets EXCEPT ![Index(t, k)] = k],
         u.next = [t.next EXCEPT ![k] = t.buckets[Index(t, k)]]
  PROVE  Holds(u, n, K \cup {k})
<1> DEFINE at == Index(t, k)
           old == Bucket(t, at)
           s == <<k>> \o old
<1>1. at \in 0..(n - 1) /\ at = Hash[k] % n
  BY TableIs
<1>2. /\ n \in Nat \ {0} /\ DOMAIN t.buckets = 0..(n - 1)
      /\ t.next \in [Key -> Key \cup {Missing}] /\ K \subseteq Key
  BY DEF Holds
<1> HIDE DEF at
<1>3. /\ u.buckets = [t.buckets EXCEPT ![at] = k] /\ u.next = [t.next EXCEPT ![k] = t.buckets[at]]
  BY DEF at
<1>4. /\ IsBucket(t.next, t.buckets[at], old) /\ Members(old) = OfBucket(K, n, at)
      /\ Len(old) \in Nat /\ \A j \in 1..Len(old) : old[j] \in K
  BY <1>1, BucketsOf
<1> HIDE DEF old
<1>5. t.buckets[at] \in Key \cup {Missing}
  BY <1>4 DEF IsBucket
<1>6. old \in Seq(Key)
  BY <1>4 DEF IsBucket
<1>7. /\ s \in Seq(Key) /\ Len(s) = Len(old) + 1
      /\ \A j \in 1..Len(s) : s[j] = IF j = 1 THEN k ELSE old[j - 1]
  BY <1>4, <1>6
<1> HIDE DEF s
<1>8. IsBucket(u.next, u.buckets[at], s)
  <2>1. u.buckets[at] = k /\ s # <<>> /\ s[1] = k
    BY <1>1, <1>2, <1>3, <1>4, <1>7
  <2>2. ASSUME NEW j \in 1..Len(s), NEW l \in 1..Len(s), s[j] = s[l] PROVE j = l
    <3>1. (j = 1 \/ j - 1 \in 1..Len(old)) /\ (l = 1 \/ l - 1 \in 1..Len(old))
      BY <1>4, <1>7
    <3>2. (j # 1 => s[j] = old[j - 1] /\ s[j] \in K) /\ (l # 1 => s[l] = old[l - 1] /\ s[l] \in K)
      BY <1>4, <1>7, <3>1
    <3>3. CASE j = 1 \/ l = 1
      BY <1>7, <2>2, <3>2, <3>3
    <3>4. CASE j # 1 /\ l # 1
      <4>1. j - 1 = l - 1
        BY <1>4, <2>2, <3>1, <3>2, <3>4 DEF IsBucket
      <4> QED BY <4>1
    <3> QED BY <3>3, <3>4
  <2>3. ASSUME NEW j \in 1..Len(s)
        PROVE u.next[s[j]] = IF j = Len(s) THEN Missing ELSE s[j + 1]
    <3>1. CASE j = 1
      <4>1. u.next[s[j]] = t.buckets[at]
        BY <1>2, <1>3, <1>7, <3>1
      <4>2. t.buckets[at] = IF old = <<>> THEN Missing ELSE old[1]
        BY <1>4 DEF IsBucket
      <4>3. (old = <<>>) <=> (j = Len(s))
        BY <1>4, <1>6, <1>7, <3>1
      <4>4. j # Len(s) => s[j + 1] = old[1]
        BY <1>4, <1>7, <3>1
      <4> QED BY <4>1, <4>2, <4>3, <4>4
    <3>2. CASE j # 1
      <4>1. j - 1 \in 1..Len(old) /\ s[j] = old[j - 1]
        BY <1>4, <1>7, <3>2
      <4>2. s[j] \in K /\ s[j] # k
        BY <1>4, <4>1
      <4>3. u.next[s[j]] = t.next[old[j - 1]]
        BY <1>2, <1>3, <4>1, <4>2
      <4>4. t.next[old[j - 1]] = IF j - 1 = Len(old) THEN Missing ELSE old[(j - 1) + 1]
        BY <1>4, <4>1 DEF IsBucket
      <4>5. (j - 1 = Len(old)) <=> (j = Len(s))
        BY <1>4, <1>7
      <4>6. j # Len(s) => s[j + 1] = old[(j - 1) + 1]
        BY <1>4, <1>7, <3>2
      <4> QED BY <4>3, <4>4, <4>5, <4>6
    <3> QED BY <3>1, <3>2
  <2> QED BY <1>7, <2>1, <2>2, <2>3 DEF IsBucket
<1>9. Members(s) = OfBucket(K \cup {k}, n, at)
  <2>1. Members(s) = Members(old) \cup {k}
    <3>1. 1 \in 1..Len(s) /\ s[1] = k
      BY <1>4, <1>7
    <3>2. \A j \in 1..Len(old) : j + 1 \in 1..Len(s) /\ s[j + 1] = old[j]
      BY <1>4, <1>7
    <3>3. \A j \in 1..Len(s) : j = 1 \/ (j - 1 \in 1..Len(old) /\ s[j] = old[j - 1])
      BY <1>4, <1>7
    <3> QED BY <3>1, <3>2, <3>3 DEF Members
  <2> QED BY <1>1, <1>4, <2>1 DEF OfBucket
<1>10. ASSUME NEW i \in 0..(n - 1)
       PROVE \E q : IsBucket(u.next, u.buckets[i], q) /\ Members(q) = OfBucket(K \cup {k}, n, i)
  <2>1. CASE i = at
    BY <1>8, <1>9, <2>1
  <2>2. CASE i # at
    <3> DEFINE q == Bucket(t, i)
    <3>1. /\ IsBucket(t.next, t.buckets[i], q) /\ Members(q) = OfBucket(K, n, i)
          /\ \A j \in 1..Len(q) : q[j] \in K
      BY BucketsOf
    <3> HIDE DEF q
    <3>2. \A j \in 1..Len(q) : u.next[q[j]] = t.next[q[j]]
      BY <1>2, <1>3, <3>1
    <3>3. u.buckets[i] = t.buckets[i]
      BY <1>2, <1>3, <2>2
    <3>4. IsBucket(u.next, u.buckets[i], q)
      BY <3>1, <3>2, <3>3, BucketStays
    <3>5. OfBucket(K \cup {k}, n, i) = OfBucket(K, n, i)
      BY <1>1, <2>2 DEF OfBucket
    <3> QED BY <3>1, <3>4, <3>5
  <2> QED BY <2>1, <2>2
<1>11. u.next \in [Key -> Key \cup {Missing}] /\ DOMAIN u.buckets = 0..(n - 1)
  BY <1>2, <1>3, <1>5
<1> QED BY <1>2, <1>10, <1>11 DEF Holds

(* Garbage is not in any bucket. *)
LEMMA CollectedHolds ==
  ASSUME NEW t, NEW n, NEW K, Holds(t, n, K)
  PROVE  /\ Holds(Collected(t), n, K)
         /\ Collected(t).size = t.size
         /\ Collected(t).value = [k \in Key |-> IF k \in K THEN t.value[k] ELSE Missing]
<1> DEFINE u == Collected(t)
<1>1. Listed(t) = K
  BY TableIs
<1>2. /\ n \in Nat \ {0} /\ DOMAIN t.buckets = 0..(n - 1)
      /\ t.next \in [Key -> Key \cup {Missing}] /\ K \subseteq Key
  BY DEF Holds
<1>3. /\ u.size = t.size /\ u.buckets = t.buckets
      /\ u.next = [k \in Key |-> IF k \in K THEN t.next[k] ELSE Missing]
      /\ u.value = [k \in Key |-> IF k \in K THEN t.value[k] ELSE Missing]
  BY <1>1 DEF Collected, Table
<1> HIDE DEF u
<1>4. ASSUME NEW i \in 0..(n - 1)
      PROVE \E s : IsBucket(u.next, u.buckets[i], s) /\ Members(s) = OfBucket(K, n, i)
  <2> DEFINE s == Bucket(t, i)
  <2>1. /\ IsBucket(t.next, t.buckets[i], s) /\ Members(s) = OfBucket(K, n, i)
        /\ \A j \in 1..Len(s) : s[j] \in K
    BY BucketsOf
  <2> HIDE DEF s
  <2>2. \A j \in 1..Len(s) : u.next[s[j]] = t.next[s[j]]
    BY <1>2, <1>3, <2>1
  <2>3. IsBucket(u.next, u.buckets[i], s)
    BY <1>3, <2>1, <2>2, BucketStays
  <2> QED BY <2>1, <2>3
<1>5. u.next \in [Key -> Key \cup {Missing}]
  BY <1>2, <1>3
<1>6. Holds(u, n, K)
  BY <1>2, <1>3, <1>4, <1>5 DEF Holds
<1> QED BY <1>3, <1>6 DEF u

Without(s, j) == [i \in 1..(Len(s) - 1) |-> IF i < j THEN s[i] ELSE s[i + 1]]

LEMMA WithoutIs ==
  ASSUME NEW s \in Seq(Key), \A i, l \in 1..Len(s) : s[i] = s[l] => i = l, NEW j \in 1..Len(s)
  PROVE  /\ Without(s, j) \in Seq(Key) /\ Len(Without(s, j)) = Len(s) - 1
         /\ \A i \in 1..(Len(s) - 1) : Without(s, j)[i] = IF i < j THEN s[i] ELSE s[i + 1]
         /\ \A i, l \in 1..(Len(s) - 1) : Without(s, j)[i] = Without(s, j)[l] => i = l
         /\ Members(Without(s, j)) = Members(s) \ {s[j]}
<1> DEFINE w == Without(s, j)
<1>1. Len(s) \in Nat /\ Len(s) - 1 \in Nat
  OBVIOUS
<1>2. \A i \in 1..(Len(s) - 1) : w[i] = IF i < j THEN s[i] ELSE s[i + 1]
  BY DEF Without
<1>3. \A i \in 1..(Len(s) - 1) : i \in 1..Len(s) /\ i + 1 \in 1..Len(s)
  BY <1>1
<1>4. w \in Seq(Key) /\ Len(w) = Len(s) - 1
  BY <1>1, <1>3 DEF Without
<1> HIDE DEF w
<1>5. ASSUME NEW i \in 1..(Len(s) - 1), NEW l \in 1..(Len(s) - 1), w[i] = w[l] PROVE i = l
  <2>1. (IF i < j THEN i ELSE i + 1) = (IF l < j THEN l ELSE l + 1)
    BY <1>2, <1>3, <1>5
  <2> QED BY <2>1
<1>6. Members(w) = Members(s) \ {s[j]}
  <2>1. ASSUME NEW i \in 1..(Len(s) - 1) PROVE w[i] \in Members(s) \ {s[j]}
    BY <1>2, <1>3 DEF Members
  <2>2. ASSUME NEW i \in 1..Len(s), i # j PROVE s[i] \in Members(w)
    <3>1. CASE i < j
      <4>1. i \in 1..(Len(s) - 1)
        BY <3>1
      <4> QED BY <1>2, <1>4, <3>1, <4>1 DEF Members
    <3>2. CASE ~(i < j)
      <4>1. i - 1 \in 1..(Len(s) - 1) /\ ~(i - 1 < j) /\ (i - 1) + 1 = i
        BY <2>2, <3>2
      <4>2. w[i - 1] = s[i]
        BY <1>2, <4>1
      <4> QED BY <1>4, <4>1, <4>2 DEF Members
    <3> QED BY <3>1, <3>2
  <2>3. ASSUME NEW x \in Members(w) PROVE x \in Members(s) \ {s[j]}
    <3>1. PICK i \in 1..Len(w) : x = w[i]
      BY DEF Members
    <3> QED BY <1>4, <2>1, <3>1
  <2>4. ASSUME NEW x \in Members(s) \ {s[j]} PROVE x \in Members(w)
    <3>1. PICK i \in 1..Len(s) : x = s[i]
      BY DEF Members
    <3>2. i # j
      BY <2>4, <3>1
    <3> QED BY <2>2, <3>1, <3>2
  <2> QED BY <2>3, <2>4
<1> QED BY <1>2, <1>4, <1>5, <1>6 DEF w

(* The cell of k leaves its bucket. *)
LEMMA UnlinkedHolds ==
  ASSUME NEW t, NEW n, NEW K, Holds(t, n, K), NEW k \in K
  PROVE  /\ Holds(Unlinked(t, k), n, K \ {k})
         /\ Unlinked(t, k).size = t.size - 1 /\ Unlinked(t, k).value = t.value
<1> DEFINE u == Unlinked(t, k)
           at == Index(t, k)
           s == Bucket(t, at)
           j == Position(t, k)
           w == Without(s, j)
<1>1. /\ n \in Nat \ {0} /\ DOMAIN t.buckets = 0..(n - 1)
      /\ t.next \in [Key -> Key \cup {Missing}] /\ K \subseteq Key
  BY DEF Holds
<1>2. at \in 0..(n - 1) /\ at = Hash[k] % n
  BY <1>1, TableIs
<1>3. j \in 1..Len(s) /\ s[j] = k
  BY PositionIs
<1>4. /\ u.size = t.size - 1 /\ u.value = t.value
      /\ u.buckets = IF j = 1 THEN [t.buckets EXCEPT ![at] = t.next[k]] ELSE t.buckets
      /\ u.next = IF j = 1 THEN t.next ELSE [t.next EXCEPT ![s[j - 1]] = t.next[k]]
  BY DEF Unlinked, Table
<1> HIDE DEF u, at, j
<1>5. /\ IsBucket(t.next, t.buckets[at], s) /\ Members(s) = OfBucket(K, n, at)
      /\ Len(s) \in Nat /\ \A i \in 1..Len(s) : s[i] \in K /\ Hash[s[i]] % n = at
  BY <1>2, BucketsOf
<1> HIDE DEF s
<1>6. s \in Seq(Key) /\ \A i, l \in 1..Len(s) : s[i] = s[l] => i = l
  BY <1>5 DEF IsBucket
<1>7. /\ w \in Seq(Key) /\ Len(w) = Len(s) - 1
      /\ \A i \in 1..(Len(s) - 1) : w[i] = IF i < j THEN s[i] ELSE s[i + 1]
      /\ \A i, l \in 1..(Len(s) - 1) : w[i] = w[l] => i = l
      /\ Members(w) = Members(s) \ {k}
  BY <1>3, <1>6, WithoutIs
<1> HIDE DEF w
<1>8. \A i \in 1..Len(s) : t.next[s[i]] = IF i = Len(s) THEN Missing ELSE s[i + 1]
  BY <1>5 DEF IsBucket
<1>9. t.next[k] = IF j = Len(s) THEN Missing ELSE s[j + 1]
  BY <1>3, <1>8
<1>10. t.buckets[at] = s[1]
  BY <1>3, <1>5 DEF IsBucket
<1>11. IsBucket(u.next, u.buckets[at], w)
  <2>1. u.buckets[at] = IF w = <<>> THEN Missing ELSE w[1]
    <3>1. CASE j = 1
      <4>1. u.buckets[at] = IF Len(s) = 1 THEN Missing ELSE s[2]
        BY <1>1, <1>2, <1>4, <1>9, <3>1
      <4>2. (w = <<>>) <=> (Len(s) = 1)
        BY <1>3, <1>5, <1>7
      <4>3. Len(s) # 1 => w[1] = s[2]
        BY <1>3, <1>5, <1>7, <3>1
      <4> QED BY <4>1, <4>2, <4>3
    <3>2. CASE j # 1
      <4>1. 1 \in 1..(Len(s) - 1) /\ 1 < j
        BY <1>3, <1>5, <3>2
      <4>2. w # <<>> /\ w[1] = s[1]
        BY <1>5, <1>7, <4>1
      <4> QED BY <1>4, <1>10, <3>2, <4>2
    <3> QED BY <3>1, <3>2
  <2>2. ASSUME NEW i \in 1..Len(w)
        PROVE u.next[w[i]] = IF i = Len(w) THEN Missing ELSE w[i + 1]
    <3>1. i \in 1..(Len(s) - 1) /\ i \in 1..Len(s) /\ i + 1 \in 1..Len(s) /\ i \in Int /\ j \in Int
      BY <1>3, <1>5, <1>7
    <3>2. i # Len(w) => w[i + 1] = IF i + 1 < j THEN s[i + 1] ELSE s[i + 2]
      <4> SUFFICES ASSUME i # Len(w) PROVE w[i + 1] = IF i + 1 < j THEN s[i + 1] ELSE s[i + 2]
        OBVIOUS
      <4>1. i + 1 \in 1..(Len(s) - 1) /\ (i + 1) + 1 = i + 2
        BY <1>5, <1>7, <3>1
      <4> QED BY <1>7, <4>1
    <3>3. CASE i < j /\ i + 1 # j
      <4>1. w[i] = s[i] /\ i + 1 < j
        BY <1>7, <3>1, <3>3
      <4>2. s[i] # s[j - 1] /\ j # 1 /\ s[i] \in Key
        BY <1>3, <1>5, <1>6, <3>1, <4>1
      <4>3. u.next[w[i]] = t.next[s[i]]
        BY <1>1, <1>4, <4>1, <4>2
      <4>4. t.next[s[i]] = s[i + 1] /\ i # Len(w)
        BY <1>3, <1>5, <1>7, <1>8, <3>1, <4>1
      <4> QED BY <3>2, <4>1, <4>3, <4>4
    <3>4. CASE i + 1 = j
      <4>1. w[i] = s[i] /\ j - 1 = i /\ j # 1 /\ s[i] \in Key
        BY <1>5, <1>6, <1>7, <3>1, <3>4
      <4>2. u.next[w[i]] = t.next[k]
        BY <1>1, <1>4, <4>1
      <4>3. (j = Len(s)) <=> (i = Len(w))
        BY <1>5, <1>7, <3>1, <3>4
      <4>4. i # Len(w) => w[i + 1] = s[j + 1]
        <5>1. ~(i + 1 < j) /\ i + 2 = j + 1
          BY <3>1, <3>4
        <5> QED BY <3>2, <5>1
      <4> QED BY <1>9, <4>2, <4>3, <4>4
    <3>5. CASE ~(i < j)
      <4>1. w[i] = s[i + 1] /\ s[i + 1] \in Key
        BY <1>5, <1>6, <1>7, <3>1, <3>5
      <4>2. j # 1 => s[i + 1] # s[j - 1]
        <5> SUFFICES ASSUME j # 1 PROVE s[i + 1] # s[j - 1]
          OBVIOUS
        <5>1. j - 1 \in 1..Len(s) /\ i + 1 # j - 1
          BY <1>3, <1>5, <3>1, <3>5
        <5> QED BY <1>6, <3>1, <5>1
      <4>3. u.next[w[i]] = t.next[s[i + 1]]
        BY <1>1, <1>4, <4>1, <4>2
      <4>4. t.next[s[i + 1]] = IF i + 1 = Len(s) THEN Missing ELSE s[i + 2]
        <5>1. (i + 1) + 1 = i + 2
          BY <3>1
        <5> QED BY <1>8, <3>1, <5>1
      <4>5. (i + 1 = Len(s)) <=> (i = Len(w))
        BY <1>5, <1>7, <3>1
      <4>6. i # Len(w) => w[i + 1] = s[i + 2]
        BY <3>1, <3>2, <3>5
      <4> QED BY <4>3, <4>4, <4>5, <4>6
    <3>6. i < j => i + 1 < j \/ i + 1 = j
      BY <3>1
    <3> QED BY <3>3, <3>4, <3>5, <3>6
  <2> QED BY <1>7, <2>1, <2>2 DEF IsBucket
<1>12. Members(w) = OfBucket(K \ {k}, n, at)
  BY <1>5, <1>7 DEF OfBucket
<1>13. ASSUME NEW i \in 0..(n - 1)
       PROVE \E q : IsBucket(u.next, u.buckets[i], q) /\ Members(q) = OfBucket(K \ {k}, n, i)
  <2>1. CASE i = at
    BY <1>11, <1>12, <2>1
  <2>2. CASE i # at
    <3> DEFINE q == Bucket(t, i)
    <3>1. /\ IsBucket(t.next, t.buckets[i], q) /\ Members(q) = OfBucket(K, n, i)
          /\ \A l \in 1..Len(q) : q[l] \in K /\ Hash[q[l]] % n = i
      BY BucketsOf
    <3> HIDE DEF q
    <3>2. ASSUME NEW l \in 1..Len(q) PROVE u.next[q[l]] = t.next[q[l]]
      <4>1. CASE j = 1
        BY <1>4, <4>1
      <4>2. CASE j # 1
        <5>1. j - 1 \in 1..Len(s)
          BY <1>3, <1>5, <4>2
        <5>2. Hash[s[j - 1]] % n = at /\ Hash[q[l]] % n = i /\ q[l] \in Key
          BY <1>1, <1>5, <3>1, <5>1
        <5>3. s[j - 1] # q[l]
          BY <2>2, <5>2
        <5> QED BY <1>1, <1>4, <4>2, <5>2, <5>3
      <4> QED BY <4>1, <4>2
    <3>3. u.buckets[i] = t.buckets[i]
      BY <1>1, <1>4, <2>2
    <3>4. IsBucket(u.next, u.buckets[i], q)
      BY <3>1, <3>2, <3>3, BucketStays
    <3>5. OfBucket(K \ {k}, n, i) = OfBucket(K, n, i)
      BY <1>2, <2>2 DEF OfBucket
    <3> QED BY <3>1, <3>4, <3>5
  <2> QED BY <2>1, <2>2
<1>14. u.next \in [Key -> Key \cup {Missing}] /\ DOMAIN u.buckets = 0..(n - 1)
  BY <1>1, <1>4
<1>15. Holds(u, n, K \ {k})
  BY <1>1, <1>13, <1>14 DEF Holds
<1> QED BY <1>4, <1>15 DEF u

EmptyBuckets(n) == [i \in 0..(n - 1) |-> Missing]

LEMMA EmptyHolds ==
  ASSUME NEW t, NEW n \in Nat \ {0}, t.buckets = EmptyBuckets(n),
         t.next \in [Key -> Key \cup {Missing}]
  PROVE  Holds(t, n, {})
<1>1. ASSUME NEW i \in 0..(n - 1)
      PROVE IsBucket(t.next, t.buckets[i], <<>>) /\ Members(<<>>) = OfBucket({}, n, i)
  BY DEF IsBucket, Members, OfBucket, EmptyBuckets
<1>2. \A i \in 0..(n - 1) :
        \E s : IsBucket(t.next, t.buckets[i], s) /\ Members(s) = OfBucket({}, n, i)
  BY <1>1
<1> QED BY <1>2 DEF Holds, EmptyBuckets

(* Buckets of which one cell at most stays; it is the first one and has no next. *)
LEMMA KeptHolds ==
  ASSUME NEW t, NEW n \in Nat \ {0}, NEW K \in SUBSET Key,
         DOMAIN t.buckets = 0..(n - 1), t.next \in [Key -> Key \cup {Missing}],
         \A i \in 0..(n - 1) :
           \/ OfBucket(K, n, i) = {} /\ t.buckets[i] = Missing
           \/ \E k \in Key : OfBucket(K, n, i) = {k} /\ t.buckets[i] = k /\ t.next[k] = Missing
  PROVE  Holds(t, n, K)
<1>1. ASSUME NEW i \in 0..(n - 1)
      PROVE \E s : IsBucket(t.next, t.buckets[i], s) /\ Members(s) = OfBucket(K, n, i)
  <2>1. CASE OfBucket(K, n, i) = {} /\ t.buckets[i] = Missing
    <3>1. IsBucket(t.next, t.buckets[i], <<>>) /\ Members(<<>>) = OfBucket(K, n, i)
      BY <2>1 DEF IsBucket, Members
    <3> QED BY <3>1
  <2>2. ASSUME NEW k \in Key, OfBucket(K, n, i) = {k}, t.buckets[i] = k, t.next[k] = Missing
        PROVE IsBucket(t.next, t.buckets[i], <<k>>) /\ Members(<<k>>) = OfBucket(K, n, i)
    <3> DEFINE s == <<k>>
    <3>1. s \in Seq(Key) /\ Len(s) = 1 /\ s[1] = k /\ s # <<>>
      OBVIOUS
    <3> HIDE DEF s
    <3>2. IsBucket(t.next, t.buckets[i], s)
      BY <2>2, <3>1 DEF IsBucket
    <3>3. Members(s) = {k}
      BY <3>1 DEF Members
    <3> QED BY <2>2, <3>2, <3>3 DEF s
  <2> QED BY <2>1, <2>2
<1> QED BY <1>1 DEF Holds

-----------------------------------------------------------------------------
(* What the calls do to what the table binds. *)

LEMMA BoundIsFinite ==
  ASSUME NEW b PROVE IsFiniteSet(BoundKeys(b)) /\ Cardinality(BoundKeys(b)) \in Nat
BY HashAssumption, FS_Subset, FS_CardinalityType DEF BoundKeys

LEMMA ReplacedBinds ==
  ASSUME NEW t, NEW b, Binds(t, b), NEW k \in Key, NEW v \in Val
  PROVE  Binds(Replaced(t, k, v), [b EXCEPT ![k] = v])
<1> DEFINE u == Replaced(t, k, v)
           c == [b EXCEPT ![k] = v]
           K == BoundKeys(b)
<1>1. PICK n : Holds(t, n, K)
  BY DEF Binds
<1>2. /\ b \in [Key -> Val \cup {Missing}] /\ t.value \in [Key -> Val \cup {Missing}]
      /\ t.size = Cardinality(K) /\ \A l \in K : t.value[l] = b[l]
  BY DEF Binds
<1>3. hashHas(t, k) <=> k \in K
  BY <1>1, TableIs
<1>4. BoundKeys(c) = K \cup {k} /\ v # Missing
  BY <1>2, HashAssumption DEF BoundKeys
<1>5. c \in [Key -> Val \cup {Missing}]
  BY <1>2
<1>6. u.value = [t.value EXCEPT ![k] = v]
  BY DEF Replaced, Table
<1>7. \A l \in BoundKeys(c) : u.value[l] = c[l]
  <2>1. \A l \in BoundKeys(c) : l \in Key
    BY DEF BoundKeys
  <2> HIDE DEF K
  <2> QED BY <1>2, <1>4, <1>6, <2>1
<1>8. CASE k \in K
  <2>1. u.size = t.size /\ u.buckets = t.buckets /\ u.next = t.next
    BY <1>3, <1>8 DEF Replaced, Table
  <2>2. BoundKeys(c) = K
    BY <1>4, <1>8
  <2> HIDE DEF u, c, K
  <2>3. Holds(u, n, BoundKeys(c))
    BY <1>1, <2>1, <2>2, SameCells
  <2>4. u.value \in [Key -> Val \cup {Missing}]
    BY <1>2, <1>6
  <2>5. Binds(u, c)
    BY <1>2, <1>5, <1>7, <2>1, <2>2, <2>3, <2>4 DEF Binds
  <2> QED BY <2>5 DEF u, c
<1>9. CASE k \notin K
  <2>1. /\ u.size = t.size + 1
        /\ u.buckets = [t.buckets EXCEPT ![Index(t, k)] = k]
        /\ u.next = [t.next EXCEPT ![k] = t.buckets[Index(t, k)]]
    BY <1>3, <1>9 DEF Replaced, Table
  <2>2. IsFiniteSet(K)
    BY BoundIsFinite
  <2> HIDE DEF u, c, K
  <2>3. Holds(u, n, BoundKeys(c))
    BY <1>1, <1>4, <1>9, <2>1, AddedHolds
  <2>4. u.size = Cardinality(BoundKeys(c))
    BY <1>2, <1>4, <1>9, <2>1, <2>2, FS_AddElement
  <2>5. u.value \in [Key -> Val \cup {Missing}]
    BY <1>2, <1>6
  <2>6. Binds(u, c)
    BY <1>5, <1>7, <2>3, <2>4, <2>5 DEF Binds
  <2> QED BY <2>6 DEF u, c
<1> QED BY <1>8, <1>9

LEMMA RehashedBinds ==
  ASSUME NEW t, NEW b, Binds(t, b), NEW m \in Nat \ {0}
  PROVE  Binds(Rehashed(t, m), b)
<1>1. PICK n : Holds(t, n, BoundKeys(b))
  BY DEF Binds
<1>2. Holds(Rehashed(t, m), m, BoundKeys(b))
  BY <1>1, RehashKeeps
<1>3. Rehashed(t, m).size = t.size /\ Rehashed(t, m).value = t.value
  BY DEF Rehashed, Table
<1> QED BY <1>2, <1>3 DEF Binds

LEMMA CollectedBinds ==
  ASSUME NEW t, NEW b, Binds(t, b) PROVE Binds(Collected(t), b)
<1> DEFINE u == Collected(t)
           K == BoundKeys(b)
<1>1. PICK n : Holds(t, n, K)
  BY DEF Binds
<1>2. /\ Holds(u, n, K) /\ u.size = t.size
      /\ u.value = [k \in Key |-> IF k \in K THEN t.value[k] ELSE Missing]
  BY <1>1, CollectedHolds
<1>3. \A k \in K : k \in Key
  BY DEF BoundKeys
<1> HIDE DEF u
<1>4. u.value \in [Key -> Val \cup {Missing}] /\ \A k \in K : u.value[k] = b[k]
  BY <1>2, <1>3 DEF Binds
<1>5. Binds(u, b)
  BY <1>2, <1>4 DEF Binds
<1> QED BY <1>5 DEF u

LEMMA UnlinkedBinds ==
  ASSUME NEW t, NEW b, Binds(t, b), NEW k \in Key, hashHas(t, k)
  PROVE  Binds(Unlinked(t, k), [b EXCEPT ![k] = Missing])
<1> DEFINE u == Unlinked(t, k)
           c == [b EXCEPT ![k] = Missing]
           K == BoundKeys(b)
<1>1. PICK n : Holds(t, n, K)
  BY DEF Binds
<1>2. /\ b \in [Key -> Val \cup {Missing}] /\ t.value \in [Key -> Val \cup {Missing}]
      /\ t.size = Cardinality(K) /\ \A l \in K : t.value[l] = b[l]
  BY DEF Binds
<1>3. k \in K
  BY <1>1, TableIs
<1>4. BoundKeys(c) = K \ {k} /\ \A l \in BoundKeys(c) : c[l] = b[l]
  BY <1>2 DEF BoundKeys
<1>5. c \in [Key -> Val \cup {Missing}] /\ IsFiniteSet(K)
  BY <1>2, BoundIsFinite
<1>6. Holds(u, n, K \ {k}) /\ u.size = t.size - 1 /\ u.value = t.value
  BY <1>1, <1>3, UnlinkedHolds
<1> HIDE DEF u, c, K
<1>7. u.size = Cardinality(BoundKeys(c))
  BY <1>2, <1>3, <1>4, <1>5, <1>6, FS_RemoveElement
<1>8. Binds(u, c)
  BY <1>2, <1>4, <1>5, <1>6, <1>7 DEF Binds
<1> QED BY <1>8 DEF u, c

(* An empty table of n buckets binds nothing. *)
LEMMA EmptyBinds ==
  ASSUME NEW t, NEW n \in Nat \ {0}, t.size = 0, t.buckets = EmptyBuckets(n),
         t.next \in [Key -> Key \cup {Missing}], t.value \in [Key -> Val \cup {Missing}]
  PROVE  Binds(t, Nowhere)
<1>1. BoundKeys(Nowhere) = {}
  BY DEF BoundKeys, Nowhere
<1>2. Holds(t, n, {})
  BY EmptyHolds
<1>3. Nowhere \in [Key -> Val \cup {Missing}] /\ Cardinality({}) = 0
  BY FS_EmptySet DEF Nowhere
<1> QED BY <1>1, <1>2, <1>3 DEF Binds

LEMMA HInvInit == HashInit => HInv
<1> SUFFICES ASSUME HashInit PROVE HInv
  OBVIOUS
<1>1. PICK hintSize \in 0..3 :
        h = Table(0, EmptyBuckets(power_2_above(hintSize)), Nowhere, Nowhere)
  BY DEF HashInit, EmptyBuckets
<1>2. power_2_above(hintSize) \in Nat \ {0}
  BY SomeBuckets
<1>3. /\ h.size = 0 /\ h.buckets = EmptyBuckets(power_2_above(hintSize))
      /\ h.next = Nowhere /\ h.value = Nowhere
  BY <1>1 DEF Table
<1>4. h.next \in [Key -> Key \cup {Missing}] /\ h.value \in [Key -> Val \cup {Missing}]
  BY <1>3 DEF Nowhere
<1>5. bindings = Nowhere
  BY DEF HashInit
<1> QED BY <1>2, <1>3, <1>4, <1>5, EmptyBinds DEF HInv

LEMMA SetKeeps ==
  ASSUME HInv, NEW k \in Key, NEW v \in Val, hashSet(k, v) PROVE HInv'
<1> DEFINE t == Replaced(h, k, v)
           osize == NumBuckets(t)
<1>1. Binds(t, bindings')
  BY ReplacedBinds DEF HInv, hashSet
<1>2. h' = (IF t.size > Doubled(osize) /\ Doubled(osize) >= osize
            THEN Rehashed(t, Doubled(osize)) ELSE t)
  BY DEF hashSet
<1>3. osize \in Nat \ {0} /\ Doubled(osize) \in Int
  <2>1. PICK n : Holds(t, n, BoundKeys(bindings'))
    BY <1>1 DEF Binds
  <2>2. osize = n
    BY <2>1, TableIs
  <2>3. n \in Nat \ {0}
    BY <2>1 DEF Holds
  <2> HIDE DEF osize
  <2> QED BY <2>2, <2>3, HashAssumption DEF Doubled
<1> HIDE DEF t, osize
<1>4. CASE t.size > Doubled(osize) /\ Doubled(osize) >= osize
  <2>1. Doubled(osize) \in Nat \ {0}
    BY <1>3, <1>4
  <2>2. Binds(Rehashed(t, Doubled(osize)), bindings')
    BY <1>1, <2>1, RehashedBinds
  <2>3. h' = Rehashed(t, Doubled(osize))
    BY <1>2, <1>4
  <2> QED BY <2>2, <2>3 DEF HInv
<1>5. CASE ~(t.size > Doubled(osize) /\ Doubled(osize) >= osize)
  <2>1. h' = t
    BY <1>2, <1>5
  <2> QED BY <1>1, <2>1 DEF HInv
<1> QED BY <1>4, <1>5

LEMMA RemoveKeeps == ASSUME HInv, NEW k \in Key, hashRemove(k) PROVE HInv'
<1>1. Binds(Unlinked(h, k), bindings')
  BY UnlinkedBinds DEF HInv, hashRemove
<1>2. h' = Collected(Unlinked(h, k))
  BY DEF hashRemove
<1> QED BY <1>1, <1>2, CollectedBinds DEF HInv

LEMMA EmptyingKeeps == ASSUME HInv, hashClear PROVE HInv'
<1> DEFINE t == Table(0, [i \in DOMAIN h.buckets |-> Missing], h.next, h.value)
<1>1. PICK n : Holds(h, n, BoundKeys(bindings))
  BY DEF HInv, Binds
<1>2. /\ n \in Nat \ {0} /\ DOMAIN h.buckets = 0..(n - 1)
      /\ h.next \in [Key -> Key \cup {Missing}]
  BY <1>1 DEF Holds
<1>3. h.value \in [Key -> Val \cup {Missing}]
  BY DEF HInv, Binds
<1>4. /\ t.size = 0 /\ t.buckets = EmptyBuckets(n)
      /\ t.next \in [Key -> Key \cup {Missing}] /\ t.value \in [Key -> Val \cup {Missing}]
  BY <1>2, <1>3 DEF Table, EmptyBuckets
<1>5. h' = Collected(t) /\ bindings' = Nowhere
  BY DEF hashClear
<1> HIDE DEF t
<1>6. Binds(t, Nowhere)
  BY <1>2, <1>4, EmptyBinds
<1> QED BY <1>5, <1>6, CollectedBinds DEF HInv

LEMMA FilteredKeeps ==
  ASSUME ~KeepSeveral, HInv, NEW f \in Filters, keepMapInPlace(f) PROVE HInv'
<1> DEFINE K == BoundKeys(bindings)
           stay == {k \in K : f[k] # Missing}
           go == {k \in K : f[k] = Missing}
           c == [k \in Key |-> IF bindings[k] = Missing THEN Missing ELSE f[k]]
           kept(i) == {k \in CellsOf(h, i) : f[k] # Missing}
           NextOf(k) == IF k = LastOf(h, kept(Index(h, k))) THEN Missing
                        ELSE IF k = FirstOf(h, kept(Index(h, k))) THEN h.next[k] ELSE k
           t == Table(
                  h.size - Cardinality({k \in Listed(h) : f[k] = Missing}),
                  [i \in DOMAIN h.buckets |->
                     IF kept(i) = {} THEN Missing ELSE FirstOf(h, kept(i))],
                  [k \in Key |->
                     IF k \in Listed(h) /\ f[k] # Missing THEN NextOf(k) ELSE h.next[k]],
                  [k \in Key |->
                     IF k \in Listed(h) /\ f[k] # Missing THEN f[k] ELSE h.value[k]])
<1>1. h' = Collected(t) /\ bindings' = c
  BY DEF keepMapInPlace
<1>2. \A i \in DOMAIN h.buckets : \A k, l \in kept(i) : k = l
  BY DEF keepMapInPlace
<1>3. PICK n : Holds(h, n, K)
  BY DEF HInv, Binds
<1>4. /\ n \in Nat \ {0} /\ DOMAIN h.buckets = 0..(n - 1)
      /\ h.next \in [Key -> Key \cup {Missing}] /\ K \subseteq Key
  BY <1>3 DEF Holds
<1>5. /\ bindings \in [Key -> Val \cup {Missing}] /\ h.value \in [Key -> Val \cup {Missing}]
      /\ h.size = Cardinality(K)
  BY DEF HInv, Binds
<1>6. f \in [Key -> Val \cup {Missing}]
  BY DEF Filters
<1>7. Listed(h) = K /\ \A k \in Key : Index(h, k) = Hash[k] % n /\ Index(h, k) \in 0..(n - 1)
  BY <1>3, TableIs
<1>8. ASSUME NEW i \in 0..(n - 1) PROVE kept(i) = OfBucket(stay, n, i)
  <2>1. CellsOf(h, i) = OfBucket(K, n, i)
    BY <1>3, TableIs
  <2> QED BY <2>1 DEF OfBucket
<1>9. BoundKeys(c) = stay /\ c \in [Key -> Val \cup {Missing}] /\ \A k \in stay : c[k] = f[k]
  BY <1>6 DEF BoundKeys
<1>10. /\ t.size = Cardinality(K) - Cardinality(go)
       /\ t.buckets = [i \in 0..(n - 1) |-> IF kept(i) = {} THEN Missing ELSE FirstOf(h, kept(i))]
       /\ t.next = [k \in Key |-> IF k \in stay THEN NextOf(k) ELSE h.next[k]]
       /\ t.value = [k \in Key |-> IF k \in stay THEN f[k] ELSE h.value[k]]
  <2>1. \A k \in Key : (k \in Listed(h) /\ f[k] # Missing) <=> k \in stay
    BY <1>7
  <2>2. {k \in Listed(h) : f[k] = Missing} = go
    BY <1>7
  <2> HIDE DEF K, stay, go, kept, NextOf
  <2> QED BY <1>4, <1>5, <2>1, <2>2 DEF Table
<1> HIDE DEF t
<1>11. t.size = Cardinality(stay)
  <2>1. IsFiniteSet(stay) /\ IsFiniteSet(go) /\ stay \cup go = K /\ stay \cap go = {}
    <3>1. IsFiniteSet(K) /\ stay \subseteq K /\ go \subseteq K
      BY BoundIsFinite
    <3> QED BY <3>1, FS_Subset
  <2> HIDE DEF K, stay, go
  <2>2. Cardinality(K) = Cardinality(stay) + Cardinality(go) - Cardinality({})
    BY <2>1, FS_Union
  <2>3. Cardinality(stay) \in Nat /\ Cardinality(go) \in Nat /\ Cardinality({}) = 0
    BY <2>1, FS_CardinalityType, FS_EmptySet
  <2> QED BY <1>10, <2>2, <2>3
<1>12. ASSUME NEW k \in stay PROVE kept(Hash[k] % n) = {k} /\ NextOf(k) = Missing
  <2>1. k \in Key /\ Index(h, k) = Hash[k] % n /\ Hash[k] % n \in 0..(n - 1)
    BY <1>4, <1>7
  <2> DEFINE i == Hash[k] % n
  <2>2. k \in kept(i)
    BY <1>8, <2>1 DEF OfBucket
  <2>3. kept(i) = {k}
    BY <1>2, <1>4, <2>1, <2>2
  <2>4. LastOf(h, {k}) = k
    BY DEF LastOf
  <2> HIDE DEF kept, i
  <2>5. kept(Index(h, k)) = {k}
    BY <2>1, <2>3 DEF i
  <2> QED BY <2>3, <2>4, <2>5 DEF i
<1>13. ASSUME NEW i \in 0..(n - 1)
       PROVE \/ OfBucket(stay, n, i) = {} /\ t.buckets[i] = Missing
             \/ \E k \in Key : OfBucket(stay, n, i) = {k} /\ t.buckets[i] = k /\ t.next[k] = Missing
  <2>1. t.buckets[i] = (IF kept(i) = {} THEN Missing ELSE FirstOf(h, kept(i)))
    BY <1>10
  <2>2. CASE kept(i) = {}
    BY <1>8, <2>1, <2>2
  <2>3. CASE kept(i) # {}
    <3>1. PICK k \in OfBucket(stay, n, i) : TRUE
      BY <1>8, <2>3
    <3>2. k \in stay /\ Hash[k] % n = i /\ k \in Key
      BY <1>4, <3>1 DEF OfBucket
    <3>3. kept(i) = {k} /\ NextOf(k) = Missing
      BY <1>12, <3>2
    <3>4. FirstOf(h, {k}) = k
      BY DEF FirstOf
    <3>5. t.next[k] = Missing
      <4> HIDE DEF NextOf, stay
      <4> QED BY <1>10, <3>2, <3>3
    <3> HIDE DEF kept, stay
    <3> QED BY <1>8, <2>1, <2>3, <3>2, <3>3, <3>4, <3>5
  <2> QED BY <2>2, <2>3
<1>14. t.next \in [Key -> Key \cup {Missing}] /\ t.value \in [Key -> Val \cup {Missing}]
  <2> HIDE DEF NextOf, kept, stay
  <2> QED BY <1>4, <1>5, <1>6, <1>10, <1>12
<1>15. Holds(t, n, stay)
  <2>1. stay \in SUBSET Key /\ DOMAIN t.buckets = 0..(n - 1)
    BY <1>4, <1>10
  <2> HIDE DEF stay
  <2> QED BY <1>4, <1>13, <1>14, <2>1, KeptHolds
<1>16. \A k \in stay : t.value[k] = c[k]
  <2>1. \A k \in stay : k \in Key
    BY <1>4
  <2> HIDE DEF stay, c
  <2> QED BY <1>9, <1>10, <2>1
<1>17. Binds(t, c)
  <2> HIDE DEF stay, c
  <2> QED BY <1>9, <1>11, <1>14, <1>15, <1>16 DEF Binds
<1> HIDE DEF c
<1> QED BY <1>1, <1>17, CollectedBinds DEF HInv

LEMMA HInvStep == ASSUME ~KeepSeveral, HInv, [HashNext]_hashVars PROVE HInv'
<1>1. ASSUME NEW k \in Key, NEW v \in Val, hashSet(k, v) PROVE HInv'
  BY <1>1, SetKeeps
<1>2. ASSUME NEW k \in Key, hashRemove(k) PROVE HInv'
  BY <1>2, RemoveKeeps
<1>3. CASE hashClear
  BY <1>3, EmptyingKeeps
<1>4. ASSUME NEW f \in Filters, keepMapInPlace(f) PROVE HInv'
  BY <1>4, FilteredKeeps
<1>5. CASE UNCHANGED hashVars
  BY <1>5 DEF hashVars, HInv
<1> QED BY <1>1, <1>2, <1>3, <1>4, <1>5 DEF HashNext

LEMMA BindsAlways == ASSUME ~KeepSeveral PROVE HashSpec => []HInv
<1>1. HInv /\ [HashNext]_hashVars => HInv'
  BY HInvStep
<1> QED BY <1>1, HInvInit, PTL DEF HashSpec

(* If keepMapInPlace keeps no two cells of one bucket then iteration goes through exactly
   the keys that lookup finds, each once, and size counts them: for any keys, hash
   function and number of buckets, however the table grew. *)
THEOREM HashMapListsItsEntries ==
  ASSUME ~KeepSeveral PROVE HashSpec => []EntriesAreTheBindings
<1>1. HInv => EntriesAreTheBindings
  BY FoundIsSound
<1> QED BY <1>1, BindsAlways, PTL

(* Under the same assumption lookup gives for each key what the calls bound it to last. *)
THEOREM HashMapFindsItsBindings ==
  ASSUME ~KeepSeveral PROVE HashSpec => []TableHoldsItsBindings
<1>1. HInv => TableHoldsItsBindings
  BY FoundIsSound
<1> QED BY <1>1, BindsAlways, PTL

-----------------------------------------------------------------------------
(* The stable sort and the binary search. *)

Follows(f, last, T, x, G) ==
  /\ f = [n \in 0..last |-> f[n]]
  /\ f[0] = x
  /\ \A n \in 0..last : f[n] \in T[n]
  /\ \A n \in 0..(last - 1) : f[n + 1] = G[n][f[n]]

(* A function whose value at n + 1 comes from that at n exists, and has its values where
   the steps lead. *)
LEMMA Stages ==
  ASSUME NEW last \in Nat, NEW T, NEW x \in T[0], NEW G,
         \A n \in 0..(last - 1) : \A y \in T[n] : G[n][y] \in T[n + 1]
  PROVE  \E f : Follows(f, last, T, x, G)
<1> DEFINE V == UNION {T[n] : n \in 0..last}
           Start(n) == {g \in [0..n -> V] : /\ g[0] = x
                                            /\ \A i \in 0..n : g[i] \in T[i]
                                            /\ \A i \in 0..(n - 1) : g[i + 1] = G[i][g[i]]}
           S == {n \in Nat : n <= last => Start(n) # {}}
<1>1. 0 \in S
  <2>1. [i \in 0..0 |-> x] \in Start(0)
    OBVIOUS
  <2> QED BY <2>1
<1>2. ASSUME NEW n \in Nat, n \in S PROVE n + 1 \in S
  <2> SUFFICES ASSUME n + 1 <= last PROVE Start(n + 1) # {}
    <3> HIDE DEF Start
    <3> QED OBVIOUS
  <2>0. Start(n) # {}
    <3> HIDE DEF Start
    <3> QED BY <1>2
  <2>1. PICK g \in Start(n) : TRUE
    <3> HIDE DEF Start
    <3> QED BY <2>0
  <2> DEFINE y == G[n][g[n]]
             f == [i \in 0..(n + 1) |-> IF i <= n THEN g[i] ELSE y]
  <2>2. y \in T[n + 1]
    OBVIOUS
  <2> HIDE DEF y
  <2>3. f \in [0..(n + 1) -> V]
    BY <2>1, <2>2
  <2>4. f[0] = x /\ \A i \in 0..(n + 1) : f[i] \in T[i]
    BY <2>1, <2>2
  <2>5. ASSUME NEW i \in 0..n PROVE f[i + 1] = G[i][f[i]]
    <3>1. CASE i = n
      BY <3>1 DEF y
    <3>2. CASE i # n
      <4>1. i \in 0..(n - 1) /\ i + 1 \in 0..n
        BY <3>2
      <4> QED BY <2>1, <4>1
    <3> QED BY <3>1, <3>2
  <2> HIDE DEF f, V
  <2>6. 0..((n + 1) - 1) = 0..n
    OBVIOUS
  <2>7. f \in Start(n + 1)
    BY <2>3, <2>4, <2>5, <2>6
  <2> QED BY <2>7
<1> HIDE DEF S
<1>3. \A n \in Nat : n \in S
  BY <1>1, <1>2, Induction
<1>4. PICK g \in Start(last) : TRUE
  <2> HIDE DEF Start
  <2> QED BY <1>3 DEF S
<1>5. Follows(g, last, T, x, G)
  BY DEF Follows
<1> QED BY <1>5

(* What each step keeps holds to the end. *)
LEMMA StaysIn ==
  ASSUME NEW last \in Nat, NEW T, NEW f, f[0] \in T[0],
         \A n \in 0..(last - 1) : f[n] \in T[n] => f[n + 1] \in T[n + 1]
  PROVE  \A n \in 0..last : f[n] \in T[n]
<1> DEFINE S == {n \in Nat : n <= last => f[n] \in T[n]}
<1>1. 0 \in S
  OBVIOUS
<1>2. ASSUME NEW n \in Nat, n \in S PROVE n + 1 \in S
  BY <1>2
<1> HIDE DEF S
<1>3. \A n \in Nat : n \in S
  BY <1>1, <1>2, Induction
<1> QED BY <1>3 DEF S

(* x comes before y in the sorted array. *)
Before(x, y) == x.key < y.key \/ (x.key = y.key /\ x.place < y.place)

(* w are the items of S, in order. *)
Sorted(w, n, S) ==
  /\ w \in [0..(n - 1) -> Item]
  /\ \A i, j \in 0..(n - 1) : i < j => Before(w[i], w[j])
  /\ S = {w[i] : i \in 0..(n - 1)}

LEMMA BeforeIsTransitive ==
  ASSUME NEW x \in Item, NEW y \in Item, NEW z \in Item, Before(x, y), Before(y, z)
  PROVE  Before(x, z)
BY DEF Before, Item

LEMMA SortedIs ==
  ASSUME NEW n \in Nat, NEW S, NEW w
  PROVE  Sorted(w, n, S) <=>
           /\ w \in [0..(n - 1) -> Item]
           /\ \A i, j \in 0..(n - 1) : i < j => Before(w[i], w[j])
           /\ \A i \in 0..(n - 1) : w[i] \in S
           /\ \A x \in S : \E i \in 0..(n - 1) : x = w[i]
BY DEF Sorted

(* Items that come after all others are added at the end. *)
LEMMA AppendedSorts ==
  ASSUME NEW n \in Nat, NEW S, NEW w, Sorted(w, n, S),
         NEW k \in Nat, NEW U, NEW u, Sorted(u, k, U),
         \A x \in S, y \in U : Before(x, y)
  PROVE  Sorted([i \in 0..(n + k - 1) |-> IF i < n THEN w[i] ELSE u[i - n]], n + k, S \cup U)
<1> DEFINE v == [i \in 0..(n + k - 1) |-> IF i < n THEN w[i] ELSE u[i - n]]
<1>0. w \in [0..(n - 1) -> Item] /\ u \in [0..(k - 1) -> Item]
  BY SortedIs
<1>1. \A i \in 0..(n - 1) : i \in DOMAIN v /\ v[i] = w[i]
  OBVIOUS
<1>2. \A i \in 0..(k - 1) : i + n \in DOMAIN v /\ v[i + n] = u[i]
  OBVIOUS
<1>3. \A i \in DOMAIN v : i \in 0..(n - 1) \/ (i >= n /\ i - n \in 0..(k - 1) /\ v[i] = u[i - n])
  OBVIOUS
<1>4. v \in [0..(n + k - 1) -> Item]
  BY <1>0
<1>5. DOMAIN v = 0..(n + k - 1)
  OBVIOUS
<1> HIDE DEF v
<1>6. \A i \in DOMAIN v : v[i] \in S \cup U
  BY <1>1, <1>3, SortedIs
<1>7. ASSUME NEW x \in S \cup U PROVE \E i \in DOMAIN v : x = v[i]
  <2>1. CASE x \in S
    BY <1>1, <2>1, SortedIs
  <2>2. CASE x \in U
    BY <1>2, <2>2, SortedIs
  <2> QED BY <2>1, <2>2
<1>8. ASSUME NEW i \in DOMAIN v, NEW j \in DOMAIN v, i < j PROVE Before(v[i], v[j])
  <2>1. CASE j \in 0..(n - 1)
    <3>1. i \in 0..(n - 1)
      BY <1>5, <1>8, <2>1
    <3> QED BY <1>1, <1>8, <2>1, <3>1, SortedIs
  <2>2. CASE i \in 0..(n - 1) /\ j \notin 0..(n - 1)
    <3>1. v[i] \in S /\ v[j] \in U
      BY <1>1, <1>3, <2>2, SortedIs
    <3> QED BY <3>1
  <2>3. CASE i \notin 0..(n - 1) /\ j \notin 0..(n - 1)
    <3>1. i - n \in 0..(k - 1) /\ j - n \in 0..(k - 1) /\ i - n < j - n
      BY <1>3, <1>5, <1>8, <2>3
    <3> QED BY <1>3, <2>3, <3>1, SortedIs
  <2> QED BY <2>1, <2>2, <2>3
<1>9. n + k \in Nat
  OBVIOUS
<1>10. Sorted(v, n + k, S \cup U)
  <2> DEFINE l == n + k
             W == S \cup U
  <2>1. l \in Nat /\ v \in [0..(l - 1) -> Item] /\ DOMAIN v = 0..(l - 1)
    BY <1>4, <1>5, <1>9
  <2>2. \A i \in DOMAIN v : v[i] \in W
    BY <1>6
  <2>3. \A x \in W : \E i \in DOMAIN v : x = v[i]
    BY <1>7
  <2> HIDE DEF l, W
  <2>4. Sorted(v, l, W)
    BY <1>8, <2>1, <2>2, <2>3, SortedIs
  <2> QED BY <2>4 DEF l, W
<1> QED BY <1>10 DEF v

(* An item that was behind the others goes before the larger ones. *)
LEMMA InsertedSorts ==
  ASSUME NEW n \in Nat, NEW S, NEW w, Sorted(w, n, S),
         NEW e \in Item, \A x \in S : x.place < e.place,
         NEW at \in 0..n, \A k \in at..(n - 1) : w[k].key > e.key, at > 0 => w[at - 1].key <= e.key
  PROVE  Sorted([k \in 0..n |-> IF k < at THEN w[k] ELSE IF k = at THEN e ELSE w[k - 1]], n + 1,
                S \cup {e})
<1> DEFINE v == [k \in 0..n |-> IF k < at THEN w[k] ELSE IF k = at THEN e ELSE w[k - 1]]
           Old(k) == IF k < at THEN k ELSE k - 1
<1>0. /\ w \in [0..(n - 1) -> Item]
      /\ \A i, j \in 0..(n - 1) : i < j => Before(w[i], w[j])
      /\ \A i \in 0..(n - 1) : w[i] \in S
      /\ \A x \in S : \E i \in 0..(n - 1) : x = w[i]
  BY SortedIs
<1>1. \A k \in 0..n : k # at => Old(k) \in 0..(n - 1) /\ v[k] = w[Old(k)]
  OBVIOUS
<1>2. v[at] = e /\ DOMAIN v = 0..n
  OBVIOUS
<1>3. v \in [0..n -> Item]
  <2>1. \A k \in 0..n : v[k] \in Item
    <3> HIDE DEF v, Old
    <3> QED BY <1>0, <1>1, <1>2
  <2> QED BY <2>1
<1>4. ASSUME NEW k \in 0..(at - 1) PROVE Before(w[k], e)
  <2>1. k \in 0..(n - 1) /\ at - 1 \in 0..(n - 1) /\ at > 0
    OBVIOUS
  <2>2. w[k].place < e.place /\ w[k].key <= w[at - 1].key
    <3>1. CASE k = at - 1
      BY <1>0, <2>1, <3>1 DEF Item
    <3>2. CASE k < at - 1
      <4>1. Before(w[k], w[at - 1])
        BY <1>0, <2>1, <3>2
      <4> QED BY <1>0, <2>1, <4>1 DEF Before, Item
    <3> QED BY <3>1, <3>2
  <2>3. w[k] \in Item /\ w[at - 1] \in Item
    BY <1>0, <2>1
  <2> QED BY <2>1, <2>2, <2>3 DEF Before, Item
<1>5. ASSUME NEW k \in at..(n - 1) PROVE Before(e, w[k])
  <2>1. w[k] \in Item
    BY <1>0
  <2> QED BY <2>1 DEF Before, Item
<1>6. ASSUME NEW i \in 0..n, NEW j \in 0..n, i < j PROVE Before(v[i], v[j])
  <2>1. CASE i # at /\ j # at
    <3>1. Old(i) < Old(j)
      BY <1>6, <2>1
    <3> HIDE DEF v, Old
    <3> QED BY <1>0, <1>1, <2>1, <3>1
  <2>2. CASE i = at
    <3>1. Old(j) \in at..(n - 1) /\ v[j] = w[Old(j)]
      BY <1>6, <2>2
    <3> HIDE DEF v, Old
    <3> QED BY <1>2, <1>5, <2>2, <3>1
  <2>3. CASE j = at
    <3>1. i \in 0..(at - 1) /\ v[i] = w[i]
      BY <1>6, <2>3
    <3> HIDE DEF v, Old
    <3> QED BY <1>2, <1>4, <2>3, <3>1
  <2> QED BY <2>1, <2>2, <2>3
<1>7. \A k \in 0..n : v[k] \in S \cup {e}
  <2> HIDE DEF v, Old
  <2> QED BY <1>0, <1>1, <1>2
<1>8. ASSUME NEW x \in S \cup {e} PROVE \E k \in 0..n : x = v[k]
  <2>1. CASE x = e
    BY <1>2, <2>1
  <2>2. CASE x \in S
    <3>1. PICK i \in 0..(n - 1) : x = w[i]
      BY <1>0, <2>2
    <3> DEFINE k == IF i < at THEN i ELSE i + 1
    <3>2. k \in 0..n /\ v[k] = w[i]
      <4>1. CASE i < at
        BY <4>1
      <4>2. CASE ~(i < at)
        <5>1. k = i + 1 /\ k \in 0..n /\ ~(k < at) /\ k # at /\ k - 1 = i
          BY <4>2
        <5> HIDE DEF k
        <5> QED BY <5>1
      <4> QED BY <4>1, <4>2
    <3> HIDE DEF v, k
    <3> QED BY <3>1, <3>2
  <2> QED BY <2>1, <2>2
<1>9. Sorted(v, n + 1, S \cup {e})
  <2> DEFINE W == S \cup {e}
             l == n + 1
  <2>1. l \in Nat /\ 0..(l - 1) = 0..n
    OBVIOUS
  <2>2. \A k \in 0..n : v[k] \in W
    BY <1>7
  <2>3. \A x \in W : \E k \in 0..n : x = v[k]
    BY <1>8
  <2> HIDE DEF W, l, v, Old
  <2>4. Sorted(v, l, W)
    BY <1>3, <1>6, <2>1, <2>2, <2>3, SortedIs
  <2> QED BY <2>4 DEF W, l
<1> QED BY <1>9

(* What was taken of a part, and what is left of it. *)
Taken(u, t) == {u[i] : i \in 0..(t - 1)}

(* t of the n items of u and k of the l of v were merged into w; some of each are left. *)
Merging(w, u, n, t, v, l, k) ==
  /\ t \in 0..(n - 1) /\ k \in 0..(l - 1)
  /\ Sorted(w, t + k, Taken(u, t) \cup Taken(v, k))
  /\ \A x \in Taken(u, t) \cup Taken(v, k) : Before(x, u[t]) /\ Before(x, v[k])

LEMMA MergingIsSymmetric ==
  ASSUME NEW w, NEW u, NEW n \in Nat, NEW t, NEW v, NEW l \in Nat, NEW k,
         Merging(w, u, n, t, v, l, k)
  PROVE  Merging(w, v, l, k, u, n, t)
<1>1. t + k = k + t
  BY DEF Merging
<1>2. Taken(u, t) \cup Taken(v, k) = Taken(v, k) \cup Taken(u, t)
  OBVIOUS
<1> HIDE DEF Merging
<1> QED BY <1>1, <1>2 DEF Merging

LEMMA TakenNext ==
  ASSUME NEW u, NEW t \in Nat
  PROVE  Taken(u, t + 1) = Taken(u, t) \cup {u[t]}
<1>1. 0..((t + 1) - 1) = 0..(t - 1) \cup {t}
  OBVIOUS
<1> QED BY <1>1 DEF Taken

Followed(w, n, e) == [i \in 0..n |-> IF i < n THEN w[i] ELSE e]

(* The head of u is taken next. *)
LEMMA TakingSorts ==
  ASSUME NEW n \in Nat, NEW S, NEW u, Sorted(u, n, S), NEW l \in Nat, NEW U, NEW v, Sorted(v, l, U),
         NEW t \in Nat, NEW k \in Nat, NEW w, Merging(w, u, n, t, v, l, k), Before(u[t], v[k])
  PROVE  /\ Sorted(Followed(w, t + k, u[t]), t + k + 1, Taken(u, t + 1) \cup Taken(v, k))
         /\ \A x \in Taken(u, t + 1) \cup Taken(v, k) : Before(x, v[k])
         /\ t + 1 < n => Merging(Followed(w, t + k, u[t]), u, n, t + 1, v, l, k)
<1> DEFINE next == Followed(w, t + k, u[t])
           e == u[t]
           one == [i \in 0..0 |-> e]
           W == Taken(u, t) \cup Taken(v, k)
<1>0. /\ t \in 0..(n - 1) /\ k \in 0..(l - 1) /\ Sorted(w, t + k, W)
      /\ \A x \in W : Before(x, e) /\ Before(x, v[k])
  BY DEF Merging
<1>1. e \in Item /\ v[k] \in Item /\ W \subseteq Item
  <2>1. e \in Item /\ v[k] \in Item
    BY <1>0, SortedIs
  <2>2. Sorted(w, t + k, W) /\ t + k \in Nat
    BY <1>0
  <2> HIDE DEF W
  <2>3. W \subseteq Item
    BY <2>2 DEF Sorted
  <2> QED BY <2>1, <2>3
<1> HIDE DEF W
<1>2. Sorted(next, t + k + 1, W \cup {e})
  <2> DEFINE m == t + k
  <2>1. Sorted(one, 1, {e})
    BY <1>1 DEF Sorted
  <2>2. m \in Nat /\ Sorted(w, m, W) /\ \A x \in W, y \in {e} : Before(x, y)
    BY <1>0
  <2> HIDE DEF m, e, one
  <2>3. Sorted([i \in 0..(m + 1 - 1) |-> IF i < m THEN w[i] ELSE one[i - m]], m + 1, W \cup {e})
    BY <2>1, <2>2, AppendedSorts
  <2>4. m + 1 - 1 = m
    BY <2>2
  <2>5. [i \in 0..(m + 1 - 1) |-> IF i < m THEN w[i] ELSE one[i - m]]
          = [i \in 0..m |-> IF i < m THEN w[i] ELSE e]
    BY <2>2, <2>4 DEF one
  <2>6. Sorted(Followed(w, m, e), m + 1, W \cup {e})
    BY <2>3, <2>5 DEF Followed
  <2> QED BY <2>6 DEF m, e
<1>3. W \cup {e} = Taken(u, t + 1) \cup Taken(v, k)
  BY TakenNext DEF W
<1>4. \A x \in W \cup {e} : Before(x, v[k])
  BY <1>0
<1>5. ASSUME t + 1 < n PROVE Merging(next, u, n, t + 1, v, l, k)
  <2>1. t + 1 \in 0..(n - 1) /\ u[t + 1] \in Item /\ Before(e, u[t + 1])
    BY <1>0, <1>5 DEF Sorted
  <2>2. \A x \in W \cup {e} : Before(x, u[t + 1])
    BY <1>0, <1>1, <2>1, BeforeIsTransitive
  <2>3. (t + 1) + k = t + k + 1
    OBVIOUS
  <2> HIDE DEF e, next
  <2> QED BY <1>0, <1>2, <1>3, <1>4, <2>1, <2>2, <2>3 DEF Merging
<1> HIDE DEF next, e
<1> QED BY <1>2, <1>3, <1>4, <1>5 DEF next, e

Whole(w, v, n, l, k) == [i \in 0..(n + l - 1) |-> IF i < n + k THEN w[i] ELSE v[i - n]]

(* The whole of u was taken, and the rest of v follows. *)
LEMMA RestFollows ==
  ASSUME NEW n \in Nat, NEW S, NEW u, Sorted(u, n, S), NEW l \in Nat, NEW U, NEW v, Sorted(v, l, U),
         NEW k \in 0..(l - 1), NEW w, Sorted(w, n + k, Taken(u, n) \cup Taken(v, k)),
         \A x \in Taken(u, n) \cup Taken(v, k) : Before(x, v[k])
  PROVE  Sorted(Whole(w, v, n, l, k), n + l, S \cup U)
<1> DEFINE m == n + k
           r == l - k
           W == Taken(u, n) \cup Taken(v, k)
           rest == [i \in 0..(r - 1) |-> v[k + i]]
           R == {rest[i] : i \in 0..(r - 1)}
<1>1. m \in Nat /\ r \in Nat /\ m + r = n + l /\ k \in Nat
  OBVIOUS
<1>2. \A i \in 0..(r - 1) : k + i \in 0..(l - 1) /\ rest[i] = v[k + i]
  OBVIOUS
<1>3. v \in [0..(l - 1) -> Item] /\ \A i, j \in 0..(l - 1) : i < j => Before(v[i], v[j])
  BY DEF Sorted
<1>4. Sorted(rest, r, R)
  <2>1. rest \in [0..(r - 1) -> Item]
    BY <1>2, <1>3
  <2>2. ASSUME NEW i \in 0..(r - 1), NEW j \in 0..(r - 1), i < j PROVE Before(rest[i], rest[j])
    <3>1. k + i < k + j
      BY <2>2
    <3> HIDE DEF rest
    <3> QED BY <1>2, <1>3, <3>1
  <2> HIDE DEF rest
  <2> QED BY <2>1, <2>2 DEF Sorted
<1>5. W \subseteq Item
  <2>1. Sorted(w, m, W)
    OBVIOUS
  <2> HIDE DEF W, m
  <2> QED BY <2>1 DEF Sorted
<1>6. ASSUME NEW x \in W, NEW y \in R PROVE Before(x, y)
  <2>1. PICK i \in 0..(r - 1) : y = v[k + i]
    BY <1>2
  <2>2. Before(x, v[k]) /\ v[k] \in Item /\ y \in Item /\ x \in Item
    BY <1>2, <1>3, <1>5, <2>1
  <2>3. CASE i = 0
    BY <2>1, <2>2, <2>3
  <2>4. CASE i # 0
    <3>1. k < k + i /\ k \in 0..(l - 1) /\ k + i \in 0..(l - 1)
      BY <2>4
    <3>2. Before(v[k], y)
      BY <1>3, <2>1, <3>1
    <3> QED BY <2>2, <3>2, BeforeIsTransitive
  <2> QED BY <2>3, <2>4
<1>7. S \cup U = W \cup R
  <2>1. S = Taken(u, n)
    BY DEF Sorted, Taken
  <2>2. R \subseteq U
    <3>1. \A i \in 0..(r - 1) : rest[i] \in U
      BY <1>2 DEF Sorted
    <3> HIDE DEF rest, r
    <3> QED BY <3>1
  <2>3. Taken(v, k) \subseteq U
    <3>1. \A i \in 0..(k - 1) : i \in 0..(l - 1)
      OBVIOUS
    <3>2. U = {v[i] : i \in 0..(l - 1)}
      BY Zenon DEF Sorted
    <3> QED BY <3>1, <3>2 DEF Taken
  <2>4. ASSUME NEW y \in U PROVE y \in Taken(v, k) \cup R
    <3>1. PICK j \in 0..(l - 1) : y = v[j]
      BY DEF Sorted
    <3>2. CASE j < k
      BY <3>1, <3>2 DEF Taken
    <3>3. CASE ~(j < k)
      <4>1. j - k \in 0..(r - 1) /\ rest[j - k] = v[k + (j - k)] /\ k + (j - k) = j
        BY <3>3
      <4> HIDE DEF rest, r
      <4> QED BY <3>1, <4>1
    <3> QED BY <3>2, <3>3
  <2> HIDE DEF R
  <2> QED BY <2>1, <2>2, <2>3, <2>4
<1> DEFINE all == [i \in 0..(m + r - 1) |-> IF i < m THEN w[i] ELSE rest[i - m]]
<1>8. Sorted(all, m + r, W \cup R)
  <2>1. Sorted(w, m, W)
    OBVIOUS
  <2> HIDE DEF m, r, W, rest, R
  <2> QED BY <1>1, <1>4, <1>6, <2>1, AppendedSorts
<1>9. all = [i \in 0..(n + l - 1) |-> IF i < n + k THEN w[i] ELSE v[i - n]]
  <2>1. \A i \in 0..(n + l - 1) : ~(i < m) => i - m \in 0..(r - 1) /\ k + (i - m) = i - n
    OBVIOUS
  <2>2. \A i \in 0..(n + l - 1) : ~(i < m) => rest[i - m] = v[i - n]
    BY <1>2, <2>1
  <2>3. \A i \in 0..(n + l - 1) : all[i] = IF i < n + k THEN w[i] ELSE v[i - n]
    <3> HIDE DEF rest
    <3> QED BY <1>1, <2>2
  <2>4. all = [i \in 0..(n + l - 1) |-> all[i]]
    <3> DEFINE range == 0..(n + l - 1)
    <3>1. 0..(m + r - 1) = range
      BY <1>1
    <3> HIDE DEF m, r, rest, range
    <3>2. all = [i \in range |-> all[i]]
      BY <3>1
    <3> QED BY <3>2 DEF range
  <2> HIDE DEF all
  <2> QED BY <2>3, <2>4
<1> HIDE DEF all, R, W
<1> QED BY <1>1, <1>7, <1>8, <1>9 DEF Whole

-----------------------------------------------------------------------------
(* What is in a part of an array. *)
Cells(m, array, ofs, len) == [k \in 0..(len - 1) |-> m[<<array, ofs + k>>]]

LEMMA PartIs ==
  ASSUME NEW array, NEW ofs \in Nat, NEW len \in Nat
  PROVE  /\ \A k \in 0..(len - 1) : <<array, ofs + k>> \in Part(array, ofs, len)
         /\ \A p \in Part(array, ofs, len) :
              p[2] - ofs \in 0..(len - 1) /\ p = <<array, ofs + (p[2] - ofs)>>
         /\ \A other, i :
              <<other, i>> \in Part(array, ofs, len) <=> other = array /\ i \in ofs..(ofs + len - 1)
BY DEF Part

(* b is the memory m, but that len places of dst have what is in src. *)
Copied(b, m, P, W, src, srcofs, dst, dstofs, len) ==
  /\ b \in [P -> W]
  /\ \A k \in 0..(len - 1) : b[<<dst, dstofs + k>>] = m[<<src, srcofs + k>>]
  /\ \A p \in P \ Part(dst, dstofs, len) : b[p] = m[p]

LEMMA BlitIs ==
  ASSUME NEW P, NEW W, NEW m \in [P -> W], NEW src, NEW srcofs \in Nat, NEW dst, NEW dstofs \in Nat,
         NEW len \in Nat, Part(src, srcofs, len) \subseteq P, Part(dst, dstofs, len) \subseteq P
  PROVE  Copied(blit(m, src, srcofs, dst, dstofs, len), m, P, W, src, srcofs, dst, dstofs, len)
<1> DEFINE b == blit(m, src, srcofs, dst, dstofs, len)
<1>1. b = [p \in P |-> IF p \in Part(dst, dstofs, len) THEN m[<<src, p[2] - dstofs + srcofs>>]
                       ELSE m[p]]
  BY DEF blit
<1>2. ASSUME NEW p \in Part(dst, dstofs, len) PROVE m[<<src, p[2] - dstofs + srcofs>>] \in W
  <2>1. p[2] - dstofs \in 0..(len - 1)
    BY PartIs
  <2>2. <<src, srcofs + (p[2] - dstofs)>> \in P
    BY <2>1, PartIs
  <2>3. srcofs + (p[2] - dstofs) = p[2] - dstofs + srcofs
    BY <2>1, PartIs DEF Part
  <2> QED BY <2>2, <2>3
<1>3. b \in [P -> W]
  BY <1>1, <1>2
<1>4. ASSUME NEW k \in 0..(len - 1) PROVE b[<<dst, dstofs + k>>] = m[<<src, srcofs + k>>]
  <2>1. <<dst, dstofs + k>> \in Part(dst, dstofs, len)
    BY PartIs
  <2>2. (dstofs + k) - dstofs + srcofs = srcofs + k
    OBVIOUS
  <2>3. b[<<dst, dstofs + k>>] = m[<<src, (dstofs + k) - dstofs + srcofs>>]
    BY <1>1, <2>1
  <2> QED BY <2>2, <2>3
<1>5. \A p \in P \ Part(dst, dstofs, len) : b[p] = m[p]
  BY <1>1
<1> HIDE DEF b
<1>6. Copied(b, m, P, W, src, srcofs, dst, dstofs, len)
  BY <1>3, <1>4, <1>5 DEF Copied
<1> QED BY <1>6 DEF b

(* mem is the memory m, but that the part of dst has the items of S in order. *)
Leaves(mem, m, P, W, dst, dstofs, n, S) ==
  /\ mem \in [P -> W]
  /\ Sorted(Cells(mem, dst, dstofs, n), n, S)
  /\ \A p \in P \ Part(dst, dstofs, n) : mem[p] = m[p]

(* Items in a part, as they were in the input. *)
InOrder(u, n) ==
  /\ u \in [0..(n - 1) -> Item]
  /\ \A i, j \in 0..(n - 1) : i < j => u[i].place < u[j].place

LEMMA PlaceExists ==
  ASSUME NEW m, NEW e \in Item, NEW dst, NEW dstofs \in Nat, NEW i \in Nat,
         \A k \in dstofs..(dstofs + i - 1) : m[<<dst, k>>] \in Item
  PROVE  \E j \in dstofs..(dstofs + i) : IsPlaceFor(j, m, e, dst, dstofs, i)
<1> DEFINE T == {j \in dstofs..(dstofs + i) : \A k \in j..(dstofs + i - 1) : cmp(m[<<dst, k>>], e) > 0}
<1>1. dstofs + i \in T
  OBVIOUS
<1>2. PICK j \in T : \A k \in T : j <= k
  <2>1. T \in SUBSET Nat /\ T # {}
    BY <1>1
  <2> HIDE DEF T
  <2> QED BY <2>1, Least
<1>3. ASSUME j > dstofs PROVE cmp(m[<<dst, j - 1>>], e) <= 0
  <2> SUFFICES ASSUME ~(cmp(m[<<dst, j - 1>>], e) <= 0) PROVE FALSE
    OBVIOUS
  <2>1. j \in Nat /\ j - 1 \in dstofs..(dstofs + i) /\ j - 1 \in dstofs..(dstofs + i - 1)
    BY <1>3
  <2>2. m[<<dst, j - 1>>].key \in Int /\ e.key \in Int
    BY <2>1 DEF Item
  <2>3. cmp(m[<<dst, j - 1>>], e) > 0
    BY <2>2 DEF cmp
  <2>4. \A k \in (j - 1)..(dstofs + i - 1) : k = j - 1 \/ k \in j..(dstofs + i - 1)
    BY <2>1
  <2>5. \A k \in (j - 1)..(dstofs + i - 1) : cmp(m[<<dst, k>>], e) > 0
    BY <1>2, <2>3, <2>4
  <2>6. j - 1 \in T
    BY <2>1, <2>5
  <2>7. ~(j <= j - 1)
    BY <2>1
  <2> HIDE DEF T
  <2> QED BY <1>2, <2>6, <2>7
<1> QED BY <1>2, <1>3 DEF IsPlaceFor

(* Element i goes where it belongs among those before it. *)
LEMMA InsertingKeeps ==
  ASSUME NEW P, NEW W, NEW m \in [P -> W], NEW src, NEW srcofs \in Nat, NEW dst, NEW dstofs \in Nat,
         NEW len \in Nat, Part(src, srcofs, len) \subseteq P, Part(dst, dstofs, len) \subseteq P,
         \/ src = dst /\ srcofs = dstofs
         \/ Part(src, srcofs, len) \cap Part(dst, dstofs, len) = {},
         InOrder(Cells(m, src, srcofs, len), len),
         NEW i \in 0..(len - 1), NEW mem,
         Leaves(mem, m, P, W, dst, dstofs, i, Taken(Cells(m, src, srcofs, len), i))
  PROVE  Leaves(Inserted(mem, src, srcofs, dst, dstofs, i), m, P, W, dst, dstofs, i + 1,
                Taken(Cells(m, src, srcofs, len), i + 1))
<1> DEFINE u == Cells(m, src, srcofs, len)
           w == Cells(mem, dst, dstofs, i)
           S == Taken(u, i)
           e == mem[<<src, srcofs + i>>]
           IsAt(j) == j \in dstofs..(dstofs + i) /\ IsPlaceFor(j, mem, e, dst, dstofs, i)
           at == CHOOSE j \in dstofs..(dstofs + i) : IsPlaceFor(j, mem, e, dst, dstofs, i)
           b == blit(mem, dst, at, dst, at + 1, dstofs + i - at)
           new == Inserted(mem, src, srcofs, dst, dstofs, i)
<1>1. mem \in [P -> W] /\ Sorted(w, i, S) /\ \A p \in P \ Part(dst, dstofs, i) : mem[p] = m[p]
  BY DEF Leaves
<1>2. e = u[i]
  <2>1. <<src, srcofs + i>> \in Part(src, srcofs, len)
    BY PartIs
  <2>2. <<src, srcofs + i>> \notin Part(dst, dstofs, i)
    <3>1. CASE src = dst /\ srcofs = dstofs
      <4>1. srcofs + i \notin dstofs..(dstofs + i - 1)
        BY <3>1
      <4> QED BY <4>1 DEF Part
    <3>2. CASE ~(src = dst /\ srcofs = dstofs)
      <4>1. Part(src, srcofs, len) \cap Part(dst, dstofs, len) = {}
        BY <3>2
      <4> DEFINE A == Part(src, srcofs, len)
                 B == Part(dst, dstofs, len)
      <4>2. <<src, srcofs + i>> \notin B
        <5>1. A \cap B = {} /\ <<src, srcofs + i>> \in A
          BY <2>1, <4>1
        <5> HIDE DEF A, B
        <5> QED BY <5>1
      <4>3. Part(dst, dstofs, i) \subseteq B
        BY DEF Part
      <4> HIDE DEF B
      <4> QED BY <4>2, <4>3
    <3> QED BY <3>1, <3>2
  <2>3. u[i] = m[<<src, srcofs + i>>]
    BY DEF Cells
  <2> QED BY <1>1, <2>1, <2>2, <2>3
<1>3. e \in Item
  BY <1>2 DEF InOrder
<1>4. \A x \in S : x.place < e.place
  <2>1. \A k \in 0..(i - 1) : k \in 0..(len - 1) /\ k < i
    OBVIOUS
  <2>2. \A k \in 0..(i - 1) : u[k].place < u[i].place
    BY <2>1 DEF InOrder
  <2> HIDE DEF u, e
  <2> QED BY <1>2, <2>2 DEF Taken
<1>5. \A k \in dstofs..(dstofs + i - 1) :
        k - dstofs \in 0..(i - 1) /\ mem[<<dst, k>>] = w[k - dstofs] /\ mem[<<dst, k>>] \in Item
  <2>1. \A k \in dstofs..(dstofs + i - 1) : k - dstofs \in 0..(i - 1) /\ dstofs + (k - dstofs) = k
    OBVIOUS
  <2>2. \A k \in 0..(i - 1) : w[k] = mem[<<dst, dstofs + k>>] /\ w[k] \in Item
    BY <1>1 DEF Sorted, Cells
  <2> HIDE DEF w
  <2> QED BY <2>1, <2>2
<1>6. IsAt(at)
  <2>1. \E j \in dstofs..(dstofs + i) : IsPlaceFor(j, mem, e, dst, dstofs, i)
    <3>1. \A k \in dstofs..(dstofs + i - 1) : mem[<<dst, k>>] \in Item
      BY <1>5
    <3>2. i \in Nat
      OBVIOUS
    <3> HIDE DEF e
    <3> QED BY <1>3, <3>1, <3>2, PlaceExists
  <2> HIDE DEF e
  <2> QED BY <2>1
<1>7. new = [b EXCEPT ![<<dst, at>>] = e]
  BY DEF Inserted
<1> HIDE DEF at, e, u, w, new
<1>8. at \in Nat /\ at + 1 \in Nat /\ dstofs + i - at \in Nat /\ at - dstofs \in 0..i
  BY <1>6
<1>9. /\ Part(dst, at, dstofs + i - at) \subseteq P
      /\ Part(dst, at + 1, dstofs + i - at) \subseteq P
      /\ <<dst, at>> \in P
      /\ Part(dst, at + 1, dstofs + i - at) \subseteq Part(dst, dstofs, i + 1)
      /\ Part(dst, dstofs, i) \subseteq Part(dst, dstofs, i + 1)
      /\ <<dst, at>> \in Part(dst, dstofs, i + 1)
  BY <1>6, <1>8 DEF Part
<1>10. Copied(b, mem, P, W, dst, at, dst, at + 1, dstofs + i - at)
  <2> DEFINE l == dstofs + i - at
             after == at + 1
  <2>1. /\ at \in Nat /\ after \in Nat /\ l \in Nat
        /\ Part(dst, at, l) \subseteq P /\ Part(dst, after, l) \subseteq P
    BY <1>8, <1>9
  <2> HIDE DEF l, after
  <2>2. Copied(blit(mem, dst, at, dst, after, l), mem, P, W, dst, at, dst, after, l)
    BY <1>1, <2>1, BlitIs
  <2> QED BY <2>2 DEF l, after
<1> HIDE DEF b
<1>11. e \in W
  <2>1. <<src, srcofs + i>> \in P
    BY PartIs
  <2> QED BY <1>1, <2>1 DEF e
<1>12. new \in [P -> W] /\ new[<<dst, at>>] = e /\ \A p \in P : p # <<dst, at>> => new[p] = b[p]
  BY <1>7, <1>9, <1>10, <1>11 DEF Copied
<1>13. \A p \in P \ Part(dst, dstofs, i + 1) : new[p] = m[p]
  BY <1>1, <1>9, <1>10, <1>12 DEF Copied
<1> DEFINE a == at - dstofs
           v == [k \in 0..i |-> IF k < a THEN w[k] ELSE IF k = a THEN e ELSE w[k - 1]]
<1>14. ASSUME NEW k \in 0..i PROVE new[<<dst, dstofs + k>>] = v[k]
  <2>1. dstofs + k \in Nat /\ <<dst, dstofs + k>> \in P
    BY PartIs
  <2>2. CASE k < a
    <3>1. k \in 0..(i - 1) /\ dstofs + k # at /\ dstofs + k < at
      BY <1>8, <2>2
    <3>2. <<dst, dstofs + k>> \notin Part(dst, at + 1, dstofs + i - at)
      BY <1>8, <3>1 DEF Part
    <3>3. new[<<dst, dstofs + k>>] = mem[<<dst, dstofs + k>>]
      BY <1>10, <1>12, <2>1, <3>1, <3>2 DEF Copied
    <3>4. w[k] = mem[<<dst, dstofs + k>>]
      BY <3>1 DEF w, Cells
    <3> QED BY <2>2, <3>3, <3>4
  <2>3. CASE k = a
    <3>1. dstofs + k = at
      BY <1>8, <2>3
    <3> QED BY <1>12, <2>3, <3>1
  <2>4. CASE k > a
    <3>1. /\ dstofs + k - at - 1 \in 0..(dstofs + i - at - 1)
          /\ at + 1 + (dstofs + k - at - 1) = dstofs + k
          /\ at + (dstofs + k - at - 1) = dstofs + (k - 1)
          /\ dstofs + k # at /\ k - 1 \in 0..(i - 1)
      BY <1>8, <2>4
    <3>2. b[<<dst, dstofs + k>>] = mem[<<dst, dstofs + (k - 1)>>]
      <4> DEFINE q == dstofs + k - at - 1
      <4>1. q \in 0..((dstofs + i - at) - 1) /\ at + 1 + q = dstofs + k /\ at + q = dstofs + (k - 1)
        BY <1>8, <2>4
      <4> HIDE DEF q
      <4>2. \A j \in 0..((dstofs + i - at) - 1) : b[<<dst, at + 1 + j>>] = mem[<<dst, at + j>>]
        BY <1>10, Zenon DEF Copied
      <4>3. b[<<dst, at + 1 + q>>] = mem[<<dst, at + q>>]
        BY <4>1, <4>2, Zenon
      <4> QED BY <4>1, <4>3
    <3>3. w[k - 1] = mem[<<dst, dstofs + (k - 1)>>]
      BY <3>1 DEF w, Cells
    <3>4. v[k] = w[k - 1]
      BY <1>8, <2>4
    <3> QED BY <1>12, <2>1, <3>1, <3>2, <3>3, <3>4
  <2> QED BY <1>8, <2>2, <2>3, <2>4
<1>15. Cells(new, dst, dstofs, i + 1) = v
  <2>1. 0..((i + 1) - 1) = 0..i
    OBVIOUS
  <2>2. v = [k \in 0..i |-> v[k]]
    OBVIOUS
  <2> HIDE DEF v
  <2> QED BY <1>14, <2>1, <2>2 DEF Cells
<1>16. Sorted(v, i + 1, S \cup {e})
  <2>1. i \in Nat /\ a \in 0..i
    BY <1>8
  <2>2. \A k \in a..(i - 1) : w[k].key > e.key
    <3> SUFFICES ASSUME NEW k \in a..(i - 1) PROVE w[k].key > e.key
      OBVIOUS
    <3>1. /\ dstofs + k \in at..(dstofs + i - 1) /\ dstofs + k \in dstofs..(dstofs + i - 1)
          /\ dstofs + k - dstofs = k
      BY <1>8
    <3>2. cmp(mem[<<dst, dstofs + k>>], e) > 0 /\ mem[<<dst, dstofs + k>>] = w[k] /\ w[k] \in Item
      BY <1>5, <1>6, <3>1 DEF IsPlaceFor
    <3> QED BY <1>3, <3>2 DEF cmp, Item
  <2>3. a > 0 => w[a - 1].key <= e.key
    <3> SUFFICES ASSUME a > 0 PROVE w[a - 1].key <= e.key
      OBVIOUS
    <3>1. at > dstofs /\ at - 1 \in dstofs..(dstofs + i - 1) /\ at - 1 - dstofs = a - 1
      BY <1>8
    <3>2. cmp(mem[<<dst, at - 1>>], e) <= 0 /\ mem[<<dst, at - 1>>] = w[a - 1] /\ w[a - 1] \in Item
      BY <1>5, <1>6, <3>1 DEF IsPlaceFor
    <3> QED BY <1>3, <3>2 DEF cmp, Item
  <2> HIDE DEF a, S
  <2> QED BY <1>1, <1>3, <1>4, <2>1, <2>2, <2>3, InsertedSorts
<1>17. S \cup {e} = Taken(u, i + 1)
  BY <1>2, TakenNext
<1> HIDE DEF v, S
<1>18. Leaves(new, m, P, W, dst, dstofs, i + 1, Taken(u, i + 1))
  BY <1>12, <1>13, <1>15, <1>16, <1>17 DEF Leaves
<1> QED BY <1>18 DEF new, u

LEMMA NothingIsSorted ==
  ASSUME NEW m, NEW array, NEW ofs, NEW u
  PROVE  Sorted(Cells(m, array, ofs, 0), 0, Taken(u, 0))
BY DEF Sorted, Cells, Taken

(* insertionSort sorts a part into itself, or into another that it does not overlap. *)
LEMMA InsertionSorts ==
  ASSUME NEW P, NEW W, NEW m \in [P -> W], NEW src, NEW srcofs \in Nat, NEW dst, NEW dstofs \in Nat,
         NEW len \in Nat, Part(src, srcofs, len) \subseteq P, Part(dst, dstofs, len) \subseteq P,
         \/ src = dst /\ srcofs = dstofs
         \/ Part(src, srcofs, len) \cap Part(dst, dstofs, len) = {},
         InOrder(Cells(m, src, srcofs, len), len)
  PROVE  Leaves(insertionSort(m, src, srcofs, dst, dstofs, len), m, P, W, dst, dstofs, len,
                Taken(Cells(m, src, srcofs, len), len))
<1> DEFINE u == Cells(m, src, srcofs, len)
           Done(i) == {mem \in [P -> W] : Leaves(mem, m, P, W, dst, dstofs, i, Taken(u, i))}
           T == [i \in 0..len |-> Done(i)]
           G == [i \in 0..(len - 1) |-> [mem \in Done(i) |-> Inserted(mem, src, srcofs, dst, dstofs, i)]]
           Is(f) == f = [i \in 0..len |-> IF i = 0 THEN m
                                          ELSE Inserted(f[i - 1], src, srcofs, dst, dstofs, i - 1)]
           after == CHOOSE f : Is(f)
<1>1. m \in Done(0)
  <2>1. Sorted(Cells(m, dst, dstofs, 0), 0, Taken(u, 0))
    BY NothingIsSorted
  <2> HIDE DEF u
  <2> QED BY <2>1 DEF Leaves
<1>2. ASSUME NEW i \in 0..(len - 1), NEW mem \in Done(i)
      PROVE Inserted(mem, src, srcofs, dst, dstofs, i) \in Done(i + 1)
  <2> DEFINE new == Inserted(mem, src, srcofs, dst, dstofs, i)
  <2>1. Leaves(new, m, P, W, dst, dstofs, i + 1, Taken(u, i + 1))
    BY InsertingKeeps
  <2> HIDE DEF new, u
  <2>2. new \in [P -> W]
    BY <2>1 DEF Leaves
  <2> QED BY <2>1, <2>2 DEF new
<1> HIDE DEF Done
<1>3. PICK f : Follows(f, len, T, m, G)
  <2>1. m \in T[0]
    BY <1>1
  <2>2. \A n \in 0..(len - 1) : \A y \in T[n] : G[n][y] \in T[n + 1]
    BY <1>2
  <2> HIDE DEF T, G
  <2> QED BY <2>1, <2>2, Stages
<1>4. Is(f)
  <2>1. f = [i \in 0..len |-> f[i]] /\ f[0] = m
    BY <1>3 DEF Follows
  <2>2. \A n \in 0..(len - 1) : f[n + 1] = Inserted(f[n], src, srcofs, dst, dstofs, n)
    <3> SUFFICES ASSUME NEW n \in 0..(len - 1)
                 PROVE f[n + 1] = Inserted(f[n], src, srcofs, dst, dstofs, n)
      OBVIOUS
    <3>1. f[n] \in T[n] /\ f[n + 1] = G[n][f[n]]
      <4>1. n \in 0..len
        OBVIOUS
      <4> HIDE DEF T, G, u
      <4>2. \A j \in 0..len : f[j] \in T[j]
        BY <1>3, Zenon DEF Follows
      <4>3. \A j \in 0..(len - 1) : f[j + 1] = G[j][f[j]]
        BY <1>3, Zenon DEF Follows
      <4> QED BY <4>1, <4>2, <4>3
    <3>2. f[n] \in Done(n)
      BY <3>1
    <3> QED BY <3>1, <3>2
  <2>3. \A i \in 0..len : f[i] = IF i = 0 THEN m ELSE Inserted(f[i - 1], src, srcofs, dst, dstofs, i - 1)
    <3> SUFFICES ASSUME NEW i \in 0..len, i # 0
                 PROVE f[i] = Inserted(f[i - 1], src, srcofs, dst, dstofs, i - 1)
      BY <2>1
    <3>1. i - 1 \in 0..(len - 1) /\ (i - 1) + 1 = i
      OBVIOUS
    <3> QED BY <2>2, <3>1
  <2> QED BY <2>1, <2>3
<1>5. Is(after)
  <2> HIDE DEF Is
  <2> QED BY <1>4
<1> HIDE DEF after
<1>6. \A n \in 0..len : after[n] \in T[n]
  <2>1. after[0] \in T[0]
    BY <1>1, <1>5
  <2>2. ASSUME NEW n \in 0..(len - 1), after[n] \in T[n] PROVE after[n + 1] \in T[n + 1]
    <3>1. after[n] \in Done(n) /\ n + 1 \in 0..len
      BY <2>2
    <3>2. after[n + 1] = Inserted(after[n], src, srcofs, dst, dstofs, n)
      BY <1>5
    <3>3. after[n + 1] \in Done(n + 1)
      BY <1>2, <3>1, <3>2
    <3> QED BY <3>1, <3>3
  <2> HIDE DEF T, Is
  <2> QED BY <2>1, <2>2, StaysIn
<1>7. Leaves(after[len], m, P, W, dst, dstofs, len, Taken(u, len))
  BY <1>6 DEF Done
<1>8. insertionSort(m, src, srcofs, dst, dstofs, len) = after[len]
  BY DEF insertionSort, after
<1> QED BY <1>7, <1>8

-----------------------------------------------------------------------------
(* No place of dst is written, as long as some of the other part is left, before what it
   holds of this part was read. *)
Safe(array, ofs, len, other, dst, dstofs) ==
  array # dst \/ ofs >= dstofs + other \/ ofs + len <= dstofs

Took(g, m, P, W, dst, dstofs, a, aofs, n, t, b, bofs, l, k, S, U) ==
  /\ g \in [P -> W]
  /\ \A p \in P \ Part(dst, dstofs, t + k + 1) : g[p] = m[p]
  /\ t + 1 < n =>
       /\ Merging(Cells(g, dst, dstofs, t + k + 1), Cells(m, a, aofs, n), n, t + 1,
                  Cells(m, b, bofs, l), l, k)
       /\ g[<<a, aofs + t + 1>>] = m[<<a, aofs + t + 1>>]
  /\ t + 1 = n =>
       Leaves(blit(g, b, bofs + k, dst, dstofs + (t + k) + 1, l - k), m, P, W, dst, dstofs,
              n + l, S \cup U)

(* The next of part a is put behind what was merged into dst, and if it was the last, the
   rest of part b behind it. *)
LEMMA TakingKeeps ==
  ASSUME NEW P, NEW W, NEW m \in [P -> W], NEW dst, NEW dstofs \in Nat,
         NEW a, NEW aofs \in Nat, NEW n \in Nat, NEW b, NEW bofs \in Nat, NEW l \in Nat,
         Part(a, aofs, n) \subseteq P, Part(b, bofs, l) \subseteq P,
         Part(dst, dstofs, n + l) \subseteq P,
         Safe(a, aofs, n, l, dst, dstofs), Safe(b, bofs, l, n, dst, dstofs),
         NEW S, Sorted(Cells(m, a, aofs, n), n, S), NEW U, Sorted(Cells(m, b, bofs, l), l, U),
         NEW t \in Nat, NEW k \in Nat, NEW mem \in [P -> W],
         \A p \in P \ Part(dst, dstofs, t + k) : mem[p] = m[p],
         Merging(Cells(mem, dst, dstofs, t + k), Cells(m, a, aofs, n), n, t, Cells(m, b, bofs, l), l, k),
         Before(m[<<a, aofs + t>>], m[<<b, bofs + k>>]),
         NEW g, g = [mem EXCEPT ![<<dst, dstofs + (t + k)>>] = m[<<a, aofs + t>>]]
  PROVE  Took(g, m, P, W, dst, dstofs, a, aofs, n, t, b, bofs, l, k, S, U)
<1> DEFINE u == Cells(m, a, aofs, n)
           v == Cells(m, b, bofs, l)
           w == Cells(mem, dst, dstofs, t + k)
           e == m[<<a, aofs + t>>]
           d == dstofs + (t + k)
           next == Followed(w, t + k, u[t])
<1>1. t \in 0..(n - 1) /\ k \in 0..(l - 1)
  BY DEF Merging
<1>2. u[t] = e /\ v[k] = m[<<b, bofs + k>>]
  BY <1>1 DEF Cells
<1>3. /\ Sorted(next, t + k + 1, Taken(u, t + 1) \cup Taken(v, k))
      /\ \A x \in Taken(u, t + 1) \cup Taken(v, k) : Before(x, v[k])
      /\ t + 1 < n => Merging(next, u, n, t + 1, v, l, k)
  <2>1. Merging(w, u, n, t, v, l, k) /\ Before(u[t], v[k]) /\ Sorted(u, n, S) /\ Sorted(v, l, U)
    BY <1>2
  <2> HIDE DEF u, v, w
  <2> QED BY <2>1, TakingSorts
<1>4. /\ <<dst, d>> \in P /\ <<dst, d>> \in Part(dst, dstofs, t + k + 1) /\ <<a, aofs + t>> \in P
      /\ Part(dst, dstofs, t + k) \subseteq Part(dst, dstofs, t + k + 1)
      /\ \A p \in Part(dst, dstofs, t + k + 1) : p \in Part(dst, dstofs, t + k) \/ p = <<dst, d>>
  BY <1>1 DEF Part
<1>5. e \in W
  BY <1>4
<1>6. g \in [P -> W] /\ g[<<dst, d>>] = e /\ \A p \in P : p # <<dst, d>> => g[p] = mem[p]
  BY <1>4, <1>5
<1>7. \A p \in P \ Part(dst, dstofs, t + k + 1) : g[p] = m[p]
  BY <1>4, <1>6
<1>8. Cells(g, dst, dstofs, t + k + 1) = next
  <2>1. ASSUME NEW i \in 0..(t + k) PROVE g[<<dst, dstofs + i>>] = next[i]
    <3>1. CASE i = t + k
      BY <1>2, <1>6, <3>1 DEF Followed
    <3>2. CASE i # t + k
      <4>1. i \in 0..(t + k - 1) /\ dstofs + i # d
        BY <3>2
      <4>2. <<dst, dstofs + i>> \in P
        BY <1>1, <4>1 DEF Part
      <4>3. g[<<dst, dstofs + i>>] = mem[<<dst, dstofs + i>>]
        BY <1>6, <4>1, <4>2
      <4>4. next[i] = mem[<<dst, dstofs + i>>]
        BY <4>1 DEF Cells, Followed
      <4> QED BY <4>3, <4>4
    <3> QED BY <3>1, <3>2
  <2>2. 0..((t + k + 1) - 1) = 0..(t + k)
    OBVIOUS
  <2>3. next = [i \in 0..(t + k) |-> next[i]]
    BY DEF Followed
  <2> HIDE DEF next
  <2> QED BY <2>1, <2>2, <2>3 DEF Cells
<1> HIDE DEF next, w
<1>9. ASSUME t + 1 < n PROVE g[<<a, aofs + t + 1>>] = m[<<a, aofs + t + 1>>]
  <2>1. <<a, aofs + t + 1>> \in P
    BY <1>9 DEF Part
  <2>2. <<a, aofs + t + 1>> \notin Part(dst, dstofs, t + k + 1)
    BY <1>1, <1>9 DEF Safe, Part
  <2> QED BY <1>7, <2>1, <2>2
<1>10. ASSUME t + 1 = n
       PROVE Leaves(blit(g, b, bofs + k, dst, d + 1, l - k), m, P, W, dst, dstofs, n + l, S \cup U)
  <2> DEFINE c == blit(g, b, bofs + k, dst, d + 1, l - k)
             all == Whole(next, v, n, l, k)
  <2>1. /\ bofs + k \in Nat /\ d + 1 \in Nat /\ l - k \in Nat
        /\ Part(b, bofs + k, l - k) \subseteq P /\ Part(dst, d + 1, l - k) \subseteq P
        /\ t + k + 1 = n + k /\ d + 1 = dstofs + (n + k)
    BY <1>1, <1>10 DEF Part
  <2>2. Copied(c, g, P, W, b, bofs + k, dst, d + 1, l - k)
    <3> DEFINE first == bofs + k
               target == d + 1
               left == l - k
    <3>1. /\ first \in Nat /\ target \in Nat /\ left \in Nat
          /\ Part(b, first, left) \subseteq P /\ Part(dst, target, left) \subseteq P
      BY <2>1
    <3> HIDE DEF first, target, left
    <3>2. Copied(blit(g, b, first, dst, target, left), g, P, W, b, first, dst, target, left)
      BY <1>6, <3>1, BlitIs
    <3> QED BY <3>2 DEF first, target, left
  <2> HIDE DEF c
  <2>3. Sorted(all, n + l, S \cup U)
    <3>1. Sorted(next, n + k, Taken(u, n) \cup Taken(v, k))
      BY <1>3, <1>10, <2>1
    <3>2. \A x \in Taken(u, n) \cup Taken(v, k) : Before(x, v[k])
      BY <1>3, <1>10
    <3>3. Sorted(u, n, S) /\ Sorted(v, l, U)
      OBVIOUS
    <3> HIDE DEF u, v
    <3> QED BY <1>1, <3>1, <3>2, <3>3, RestFollows
  <2> HIDE DEF all
  <2>4. ASSUME NEW i \in 0..(n + l - 1) PROVE c[<<dst, dstofs + i>>] = all[i]
    <3>1. <<dst, dstofs + i>> \in P
      BY DEF Part
    <3>2. CASE i < n + k
      <4>1. i \in 0..(t + k)
        BY <1>10, <3>2
      <4>2. <<dst, dstofs + i>> \notin Part(dst, d + 1, l - k)
        BY <2>1, <3>2 DEF Part
      <4>3. c[<<dst, dstofs + i>>] = g[<<dst, dstofs + i>>]
        BY <2>2, <3>1, <4>2 DEF Copied
      <4>4. g[<<dst, dstofs + i>>] = next[i]
        <5>1. Cells(g, dst, dstofs, t + k + 1)[i] = g[<<dst, dstofs + i>>]
          BY <4>1 DEF Cells
        <5> QED BY <1>8, <5>1
      <4> QED BY <3>2, <4>3, <4>4 DEF all, Whole
    <3>3. CASE ~(i < n + k)
      <4> DEFINE j == i - (n + k)
      <4>1. /\ j \in 0..((l - k) - 1) /\ d + 1 + j = dstofs + i /\ bofs + k + j = bofs + (i - n)
            /\ i - n \in 0..(l - 1)
        BY <1>1, <1>10, <2>1, <3>3
      <4> HIDE DEF j
      <4>2. \A q \in 0..((l - k) - 1) : c[<<dst, d + 1 + q>>] = g[<<b, bofs + k + q>>]
        BY <2>2, Zenon DEF Copied
      <4>3. c[<<dst, dstofs + i>>] = g[<<b, bofs + (i - n)>>]
        BY <4>1, <4>2
      <4>4. <<b, bofs + (i - n)>> \in P
        BY <4>1 DEF Part
      <4>5. <<b, bofs + (i - n)>> \notin Part(dst, dstofs, t + k + 1)
        BY <1>1, <1>10, <3>3 DEF Safe, Part
      <4>6. g[<<b, bofs + (i - n)>>] = m[<<b, bofs + (i - n)>>]
        BY <1>7, <4>4, <4>5
      <4>7. v[i - n] = m[<<b, bofs + (i - n)>>]
        BY <4>1 DEF Cells
      <4> QED BY <3>3, <4>3, <4>6, <4>7 DEF all, Whole
    <3> QED BY <3>2, <3>3
  <2>5. Cells(c, dst, dstofs, n + l) = all
    <3>1. all = [i \in 0..(n + l - 1) |-> all[i]]
      BY DEF all, Whole
    <3>2. (n + l) - 1 = n + l - 1
      OBVIOUS
    <3> QED BY <2>4, <3>1, <3>2 DEF Cells
  <2>6. \A p \in P \ Part(dst, dstofs, n + l) : c[p] = m[p]
    <3>1. /\ Part(dst, d + 1, l - k) \subseteq Part(dst, dstofs, n + l)
          /\ Part(dst, dstofs, t + k + 1) \subseteq Part(dst, dstofs, n + l)
      BY <1>1, <1>10, <2>1 DEF Part
    <3> QED BY <1>7, <2>2, <3>1 DEF Copied
  <2>7. c \in [P -> W]
    BY <2>2 DEF Copied
  <2>8. Leaves(c, m, P, W, dst, dstofs, n + l, S \cup U)
    <3> QED BY <2>3, <2>5, <2>6, <2>7 DEF Leaves
  <2> QED BY <2>8 DEF c
<1> HIDE DEF u, v, e
<1>11. t + 1 < n => Merging(Cells(g, dst, dstofs, t + k + 1), u, n, t + 1, v, l, k)
  BY <1>3, <1>8
<1> QED BY <1>6, <1>7, <1>9, <1>10, <1>11 DEF u, v, Took

(* merge puts two sorted parts together, the second of items that were behind those of the
   first, although one of them lies in the array that it writes. *)
LEMMA MergeSorts ==
  ASSUME NEW P, NEW W, NEW m \in [P -> W], NEW dst, NEW dstofs \in Nat,
         NEW src, NEW src1ofs \in Nat, NEW n \in Nat \ {0}, NEW src2, NEW src2ofs \in Nat,
         NEW l \in Nat \ {0},
         Part(src, src1ofs, n) \subseteq P, Part(src2, src2ofs, l) \subseteq P,
         Part(dst, dstofs, n + l) \subseteq P,
         Safe(src, src1ofs, n, l, dst, dstofs), Safe(src2, src2ofs, l, n, dst, dstofs),
         NEW S, Sorted(Cells(m, src, src1ofs, n), n, S), NEW U,
         Sorted(Cells(m, src2, src2ofs, l), l, U),
         \A x \in S, y \in U : x.place < y.place
  PROVE  Leaves(merge(m, src, src1ofs, n, src2, src2ofs, l, dst, dstofs), m, P, W, dst, dstofs,
                n + l, S \cup U)
<1> DEFINE u == Cells(m, src, src1ofs, n)
           v == Cells(m, src2, src2ofs, l)
           Loops == [memory : [P -> W], i1 : Nat, s1 : W, i2 : Nat, s2 : W, d : Nat, done : BOOLEAN]
           Goes(x, j) ==
             /\ j = (x.i1 - src1ofs) + (x.i2 - src2ofs) /\ x.d = dstofs + j
             /\ x.s1 = m[<<src, x.i1>>] /\ x.s2 = m[<<src2, x.i2>>]
             /\ Merging(Cells(x.memory, dst, dstofs, j), u, n, x.i1 - src1ofs, v, l, x.i2 - src2ofs)
             /\ \A p \in P \ Part(dst, dstofs, j) : x.memory[p] = m[p]
           Over(x) == Leaves(x.memory, m, P, W, dst, dstofs, n + l, S \cup U)
           At(j) == {x \in Loops : IF x.done THEN Over(x) ELSE Goes(x, j)}
           start == Loop(m, src1ofs, m[<<src, src1ofs>>], src2ofs, m[<<src2, src2ofs>>], dstofs, FALSE)
           Step(x) == IF x.done THEN x ELSE Turn(x, src, src1ofs + n, src2, src2ofs + l, dst)
<1>0. n \in Nat /\ l \in Nat /\ n > 0 /\ l > 0
  OBVIOUS
<1>1. /\ \A t \in 0..(n - 1) : /\ <<src, src1ofs + t>> \in P /\ u[t] = m[<<src, src1ofs + t>>]
                               /\ u[t] \in Item /\ u[t] \in S
      /\ \A k \in 0..(l - 1) : /\ <<src2, src2ofs + k>> \in P /\ v[k] = m[<<src2, src2ofs + k>>]
                               /\ v[k] \in Item /\ v[k] \in U
  <2>1. \A t \in 0..(n - 1) : <<src, src1ofs + t>> \in P /\ u[t] = m[<<src, src1ofs + t>>]
    BY DEF Part, Cells
  <2>2. \A k \in 0..(l - 1) : <<src2, src2ofs + k>> \in P /\ v[k] = m[<<src2, src2ofs + k>>]
    BY DEF Part, Cells
  <2> HIDE DEF u, v
  <2>3. /\ \A t \in 0..(n - 1) : u[t] \in Item /\ u[t] \in S
        /\ \A k \in 0..(l - 1) : v[k] \in Item /\ v[k] \in U
    <3>1. Sorted(u, n, S) /\ Sorted(v, l, U)
      BY DEF u, v
    <3> QED BY <1>0, <3>1, SortedIs
  <2> QED BY <2>1, <2>2, <2>3
<1>2. start \in At(0)
  <2>1. start \in Loops
    <3>1. 0 \in 0..(n - 1) /\ 0 \in 0..(l - 1) /\ src1ofs + 0 = src1ofs /\ src2ofs + 0 = src2ofs
      BY <1>0
    <3>2. m[<<src, src1ofs>>] \in W /\ m[<<src2, src2ofs>>] \in W
      <4>1. <<src, src1ofs>> \in P /\ <<src2, src2ofs>> \in P
        BY <1>0 DEF Part
      <4> QED BY <4>1
    <3> QED BY <3>2 DEF Loop
  <2>2. Goes(start, 0)
    <3>1. src1ofs - src1ofs = 0 /\ src2ofs - src2ofs = 0 /\ 0 + 0 = 0 /\ dstofs + 0 = dstofs
      OBVIOUS
    <3>2. Merging(Cells(m, dst, dstofs, 0), u, n, 0, v, l, 0)
      <4>1. Taken(u, 0) = {} /\ Taken(v, 0) = {}
        BY DEF Taken
      <4>2. Sorted(Cells(m, dst, dstofs, 0), 0, {})
        BY DEF Sorted, Cells
      <4>3. {} \cup {} = {} /\ 0 + 0 = 0
        OBVIOUS
      <4> HIDE DEF u, v
      <4>4. Sorted(Cells(m, dst, dstofs, 0), 0 + 0, Taken(u, 0) \cup Taken(v, 0))
        BY <4>1, <4>2, <4>3
      <4>5. \A x \in Taken(u, 0) \cup Taken(v, 0) : Before(x, u[0]) /\ Before(x, v[0])
        BY <4>1
      <4>6. 0 \in 0..(n - 1) /\ 0 \in 0..(l - 1)
        BY <1>0
      <4> QED BY <4>4, <4>5, <4>6 DEF Merging
    <3> HIDE DEF u, v
    <3> QED BY <3>1, <3>2 DEF Loop
  <2>3. start.done = FALSE
    BY DEF Loop
  <2> HIDE DEF Loops, Goes, start
  <2> QED BY <2>1, <2>2, <2>3
<1>3. ASSUME NEW j \in Nat, NEW x \in Loops, x.done = FALSE, Goes(x, j)
      PROVE Turn(x, src, src1ofs + n, src2, src2ofs + l, dst) \in At(j + 1)
  <2> DEFINE t == x.i1 - src1ofs
             k == x.i2 - src2ofs
             mem == x.memory
             e == m[<<src, src1ofs + t>>]
             f == m[<<src2, src2ofs + k>>]
             g == [mem EXCEPT ![<<dst, dstofs + (t + k)>>] = e]
             q == [mem EXCEPT ![<<dst, dstofs + (k + t)>>] = f]
             y == Turn(x, src, src1ofs + n, src2, src2ofs + l, dst)
  <2>1. /\ t \in 0..(n - 1) /\ k \in 0..(l - 1) /\ t \in Nat /\ k \in Nat
        /\ x.i1 = src1ofs + t /\ x.i2 = src2ofs + k /\ x.d = dstofs + (t + k) /\ j = t + k
        /\ mem \in [P -> W] /\ x.s1 \in W /\ x.s2 \in W /\ x.i1 \in Nat /\ x.i2 \in Nat /\ x.d \in Nat
    BY <1>3 DEF Merging
  <2>2. /\ Merging(Cells(mem, dst, dstofs, t + k), u, n, t, v, l, k)
        /\ \A p \in P \ Part(dst, dstofs, t + k) : mem[p] = m[p]
        /\ x.s1 = e /\ x.s2 = f
    <3>1. x.s1 = m[<<src, x.i1>>] /\ x.s2 = m[<<src2, x.i2>>]
      BY <1>3
    <3>2. x.s1 = e /\ x.s2 = f
      BY <2>1, <3>1
    <3>3. /\ Merging(Cells(mem, dst, dstofs, j), u, n, t, v, l, k)
          /\ \A p \in P \ Part(dst, dstofs, j) : mem[p] = m[p]
      BY <1>3
    <3> QED BY <2>1, <3>2, <3>3
  <2>3. e \in Item /\ f \in Item /\ e.place < f.place
    BY <1>1, <2>1
  <2> HIDE DEF e, f, t, k, mem
  <2>4. CASE TakesFirst(e, f)
    <3>1. Before(e, f)
      BY <2>3, <2>4 DEF TakesFirst, cmp, Before, Item
    <3>2. Took(g, m, P, W, dst, dstofs, src, src1ofs, n, t, src2, src2ofs, l, k, S, U)
      <4>1. /\ Before(m[<<src, src1ofs + t>>], m[<<src2, src2ofs + k>>])
            /\ g = [mem EXCEPT ![<<dst, dstofs + (t + k)>>] = m[<<src, src1ofs + t>>]]
        BY <3>1 DEF e, f
      <4> HIDE DEF g
      <4> QED BY <1>0, <2>1, <2>2, <4>1, TakingKeeps
    <3>3. g = [x.memory EXCEPT ![<<dst, x.d>>] = x.s1]
      BY <2>1, <2>2 DEF mem
    <3> HIDE DEF g
    <3>4. CASE t + 1 < n
      <4>1. x.i1 + 1 < src1ofs + n /\ x.i1 + 1 = src1ofs + t + 1 /\ x.i1 + 1 \in Nat /\ x.d + 1 \in Nat
        BY <2>1, <3>4
      <4>2. y = Loop(g, x.i1 + 1, g[<<src, x.i1 + 1>>], x.i2, x.s2, x.d + 1, FALSE)
        BY <2>2, <2>4, <3>3, <4>1 DEF Turn
      <4> HIDE DEF y
      <4>3. g[<<src, x.i1 + 1>>] \in W
        <5>1. <<src, x.i1 + 1>> \in P
          <6>1. t + 1 \in 0..(n - 1) /\ src1ofs + (t + 1) = x.i1 + 1
            BY <2>1, <3>4, <4>1
          <6> QED BY <1>1, <6>1
        <5> QED BY <3>2, <5>1 DEF Took
      <4>4. y \in Loops
        BY <2>1, <3>2, <4>1, <4>2, <4>3 DEF Took, Loop
      <4>5. Goes(y, j + 1)
        <5>1. /\ y.i1 - src1ofs = t + 1 /\ y.i2 - src2ofs = k /\ j + 1 = (t + 1) + k /\ j + 1 = t + k + 1
              /\ y.d = dstofs + (j + 1) /\ y.memory = g
          BY <2>1, <4>1, <4>2 DEF Loop
        <5>2. y.s1 = m[<<src, y.i1>>] /\ y.s2 = m[<<src2, y.i2>>]
          BY <1>3, <3>2, <3>4, <4>1, <4>2 DEF Took, Loop
        <5> HIDE DEF u, v
        <5>3. Merging(Cells(y.memory, dst, dstofs, j + 1), u, n, y.i1 - src1ofs, v, l, y.i2 - src2ofs)
          <6>1. Merging(Cells(g, dst, dstofs, t + k + 1), u, n, t + 1, v, l, k)
            BY <3>2, <3>4 DEF Took, u, v
          <6> HIDE DEF t, k
          <6> QED BY <5>1, <6>1
        <5>4. \A p \in P \ Part(dst, dstofs, j + 1) : y.memory[p] = m[p]
          BY <3>2, <5>1 DEF Took
        <5> QED BY <5>1, <5>2, <5>3, <5>4
      <4>6. y.done = FALSE
        BY <4>2 DEF Loop
      <4> HIDE DEF Loops, Goes
      <4> QED BY <4>4, <4>5, <4>6 DEF y
    <3>5. CASE t + 1 = n
      <4>1. /\ ~(x.i1 + 1 < src1ofs + n) /\ x.i1 + 1 \in Nat /\ x.d + 1 \in Nat
            /\ (src2ofs + l) - x.i2 = l - k /\ x.i2 = src2ofs + k /\ x.d + 1 = dstofs + (t + k) + 1
        BY <2>1, <3>5
      <4>2. y = Loop(blit(g, src2, x.i2, dst, x.d + 1, (src2ofs + l) - x.i2), x.i1 + 1, x.s1, x.i2, x.s2,
                     x.d + 1, TRUE)
        BY <2>2, <2>4, <3>3, <4>1 DEF Turn
      <4> HIDE DEF y
      <4>3. Leaves(y.memory, m, P, W, dst, dstofs, n + l, S \cup U)
        <5>1. Leaves(blit(g, src2, src2ofs + k, dst, dstofs + (t + k) + 1, l - k), m, P, W, dst, dstofs,
                     n + l, S \cup U)
          BY <3>2, <3>5 DEF Took
        <5>2. y.memory = blit(g, src2, src2ofs + k, dst, dstofs + (t + k) + 1, l - k)
          BY <4>1, <4>2 DEF Loop
        <5> QED BY <5>1, <5>2
      <4>4. y \in Loops
        <5>1. y.memory \in [P -> W]
          BY <4>3 DEF Leaves
        <5> QED BY <2>1, <4>1, <4>2, <5>1 DEF Loop
      <4>5. y.done = TRUE
        BY <4>2 DEF Loop
      <4> HIDE DEF Loops, Goes
      <4> QED BY <4>3, <4>4, <4>5 DEF y
    <3> QED BY <2>1, <3>4, <3>5
  <2>5. CASE ~TakesFirst(e, f)
    <3>1. Before(f, e)
      BY <2>3, <2>5 DEF TakesFirst, cmp, Before, Item
    <3>2. Took(q, m, P, W, dst, dstofs, src2, src2ofs, l, k, src, src1ofs, n, t, U, S)
      <4>1. /\ Before(m[<<src2, src2ofs + k>>], m[<<src, src1ofs + t>>])
            /\ q = [mem EXCEPT ![<<dst, dstofs + (k + t)>>] = m[<<src2, src2ofs + k>>]]
        BY <3>1 DEF e, f
      <4>2. t + k = k + t /\ n + l = l + n
        BY <2>1
      <4>3. /\ Part(dst, dstofs, l + n) \subseteq P
            /\ \A p \in P \ Part(dst, dstofs, k + t) : mem[p] = m[p]
            /\ Merging(Cells(mem, dst, dstofs, k + t), v, l, k, u, n, t)
        <5> HIDE DEF u, v
        <5>1. Merging(Cells(mem, dst, dstofs, t + k), v, l, k, u, n, t)
          BY <1>0, <2>2, MergingIsSymmetric
        <5> QED BY <2>2, <4>2, <5>1
      <4> HIDE DEF q
      <4> QED BY <1>0, <2>1, <4>1, <4>3, TakingKeeps
    <3>3. q = [x.memory EXCEPT ![<<dst, x.d>>] = x.s2]
      <4>1. t + k = k + t
        BY <2>1
      <4> QED BY <2>1, <2>2, <4>1 DEF mem
    <3> HIDE DEF q
    <3>4. CASE k + 1 < l
      <4>1. x.i2 + 1 < src2ofs + l /\ x.i2 + 1 = src2ofs + k + 1 /\ x.i2 + 1 \in Nat /\ x.d + 1 \in Nat
        BY <2>1, <3>4
      <4>2. y = Loop(q, x.i1, x.s1, x.i2 + 1, q[<<src2, x.i2 + 1>>], x.d + 1, FALSE)
        BY <2>2, <2>5, <3>3, <4>1 DEF Turn
      <4> HIDE DEF y
      <4>3. q[<<src2, x.i2 + 1>>] \in W
        <5>1. <<src2, x.i2 + 1>> \in P
          <6>1. k + 1 \in 0..(l - 1) /\ src2ofs + (k + 1) = x.i2 + 1
            BY <2>1, <3>4, <4>1
          <6> QED BY <1>1, <6>1
        <5> QED BY <3>2, <5>1 DEF Took
      <4>4. y \in Loops
        BY <2>1, <3>2, <4>1, <4>2, <4>3 DEF Took, Loop
      <4>5. Goes(y, j + 1)
        <5>1. /\ y.i1 - src1ofs = t /\ y.i2 - src2ofs = k + 1 /\ j + 1 = t + (k + 1) /\ j + 1 = k + t + 1
              /\ y.d = dstofs + (j + 1) /\ y.memory = q
          BY <2>1, <4>1, <4>2 DEF Loop
        <5>2. y.s1 = m[<<src, y.i1>>] /\ y.s2 = m[<<src2, y.i2>>]
          BY <1>3, <3>2, <3>4, <4>1, <4>2 DEF Took, Loop
        <5> HIDE DEF u, v
        <5>3. Merging(Cells(y.memory, dst, dstofs, j + 1), u, n, y.i1 - src1ofs, v, l, y.i2 - src2ofs)
          <6>1. Merging(Cells(q, dst, dstofs, k + t + 1), v, l, k + 1, u, n, t)
            BY <3>2, <3>4 DEF Took, u, v
          <6>2. Merging(Cells(q, dst, dstofs, k + t + 1), u, n, t, v, l, k + 1)
            BY <1>0, <6>1, MergingIsSymmetric
          <6> HIDE DEF t, k
          <6> QED BY <5>1, <6>2
        <5>4. \A p \in P \ Part(dst, dstofs, j + 1) : y.memory[p] = m[p]
          BY <3>2, <5>1 DEF Took
        <5> QED BY <5>1, <5>2, <5>3, <5>4
      <4>6. y.done = FALSE
        BY <4>2 DEF Loop
      <4> HIDE DEF Loops, Goes
      <4> QED BY <4>4, <4>5, <4>6 DEF y
    <3>5. CASE k + 1 = l
      <4>1. /\ ~(x.i2 + 1 < src2ofs + l) /\ x.i2 + 1 \in Nat /\ x.d + 1 \in Nat
            /\ (src1ofs + n) - x.i1 = n - t /\ x.i1 = src1ofs + t /\ x.d + 1 = dstofs + (k + t) + 1
        BY <2>1, <3>5
      <4>2. y = Loop(blit(q, src, x.i1, dst, x.d + 1, (src1ofs + n) - x.i1), x.i1, x.s1, x.i2 + 1, x.s2,
                     x.d + 1, TRUE)
        BY <2>2, <2>5, <3>3, <4>1 DEF Turn
      <4> HIDE DEF y
      <4>3. Leaves(y.memory, m, P, W, dst, dstofs, n + l, S \cup U)
        <5>1. Leaves(blit(q, src, src1ofs + t, dst, dstofs + (k + t) + 1, n - t), m, P, W, dst, dstofs,
                     l + n, U \cup S)
          BY <3>2, <3>5 DEF Took
        <5>2. y.memory = blit(q, src, src1ofs + t, dst, dstofs + (k + t) + 1, n - t)
          BY <4>1, <4>2 DEF Loop
        <5>3. l + n = n + l /\ U \cup S = S \cup U
          OBVIOUS
        <5> QED BY <5>1, <5>2, <5>3
      <4>4. y \in Loops
        <5>1. y.memory \in [P -> W]
          BY <4>3 DEF Leaves
        <5> QED BY <2>1, <4>1, <4>2, <5>1 DEF Loop
      <4>5. y.done = TRUE
        BY <4>2 DEF Loop
      <4> HIDE DEF Loops, Goes
      <4> QED BY <4>3, <4>4, <4>5 DEF y
    <3> QED BY <2>1, <3>4, <3>5
  <2> QED BY <2>4, <2>5
<1> DEFINE last == n + l
           T == [j \in 0..last |-> At(j)]
           G == [j \in 0..(last - 1) |-> [x \in At(j) |-> Step(x)]]
           Is(f) == f = [j \in 0..last |->
                          IF j = 0 THEN start
                          ELSE IF f[j - 1].done THEN f[j - 1]
                          ELSE Turn(f[j - 1], src, src1ofs + n, src2, src2ofs + l, dst)]
           turn == CHOOSE f : Is(f)
<1>4. last \in Nat
  OBVIOUS
<1>5. ASSUME NEW j \in 0..(last - 1), NEW x \in At(j) PROVE Step(x) \in At(j + 1)
  <2>1. x \in Loops /\ x.done \in BOOLEAN /\ j \in Nat
    OBVIOUS
  <2>2. CASE x.done
    BY <2>2
  <2>3. CASE ~x.done
    <3>1. x.done = FALSE /\ Goes(x, j)
      BY <2>1, <2>3
    <3> HIDE DEF Goes, At, Loops
    <3>2. Turn(x, src, src1ofs + n, src2, src2ofs + l, dst) \in At(j + 1)
      BY <1>3, <2>1, <3>1
    <3> QED BY <2>3, <3>2
  <2> QED BY <2>2, <2>3
<1>6. ASSUME NEW x \in At(last) PROVE Over(x)
  <2>1. CASE x.done
    BY <2>1
  <2>2. CASE ~x.done
    <3>1. Goes(x, last)
      BY <2>2
    <3>2. /\ last = (x.i1 - src1ofs) + (x.i2 - src2ofs)
          /\ x.i1 - src1ofs \in 0..(n - 1) /\ x.i2 - src2ofs \in 0..(l - 1)
      BY <3>1 DEF Merging
    <3> QED BY <3>2
  <2> QED BY <2>1, <2>2
<1> HIDE DEF last, At, Step, start
<1>7. PICK f : Follows(f, last, T, start, G)
  <2>1. start \in T[0]
    BY <1>2, <1>4
  <2>2. \A j \in 0..(last - 1) : \A y \in T[j] : G[j][y] \in T[j + 1]
    BY <1>4, <1>5
  <2> HIDE DEF T, G
  <2> QED BY <1>4, <2>1, <2>2, Stages
<1>8. Is(f)
  <2>1. f = [j \in 0..last |-> f[j]] /\ f[0] = start
    BY <1>7 DEF Follows
  <2>2. \A j \in 0..(last - 1) : f[j + 1] = Step(f[j])
    <3> SUFFICES ASSUME NEW j \in 0..(last - 1) PROVE f[j + 1] = Step(f[j])
      OBVIOUS
    <3>1. f[j] \in T[j] /\ f[j + 1] = G[j][f[j]]
      <4>1. j \in 0..last
        BY <1>4
      <4> HIDE DEF T, G
      <4>2. \A i \in 0..last : f[i] \in T[i]
        BY <1>7, Zenon DEF Follows
      <4>3. \A i \in 0..(last - 1) : f[i + 1] = G[i][f[i]]
        BY <1>7, Zenon DEF Follows
      <4> QED BY <4>1, <4>2, <4>3
    <3>2. f[j] \in At(j)
      BY <1>4, <3>1
    <3> QED BY <3>1, <3>2
  <2>3. \A j \in 0..last : f[j] = IF j = 0 THEN start
                                  ELSE IF f[j - 1].done THEN f[j - 1]
                                  ELSE Turn(f[j - 1], src, src1ofs + n, src2, src2ofs + l, dst)
    <3> SUFFICES ASSUME NEW j \in 0..last, j # 0 PROVE f[j] = Step(f[j - 1])
      BY <2>1 DEF Step
    <3>1. j - 1 \in 0..(last - 1) /\ (j - 1) + 1 = j
      BY <1>4
    <3> QED BY <2>2, <3>1
  <2> QED BY <2>1, <2>3
<1>9. Is(turn)
  <2> HIDE DEF Is
  <2> QED BY <1>8
<1> HIDE DEF turn
<1>10. \A j \in 0..last : turn[j] \in T[j]
  <2>1. turn[0] \in T[0]
    BY <1>2, <1>4, <1>9
  <2>2. ASSUME NEW j \in 0..(last - 1), turn[j] \in T[j] PROVE turn[j + 1] \in T[j + 1]
    <3>1. turn[j] \in At(j) /\ j + 1 \in 0..last /\ j + 1 # 0 /\ (j + 1) - 1 = j
      BY <1>4, <2>2
    <3>2. turn[j + 1] = Step(turn[j])
      BY <1>9, <3>1 DEF Step
    <3>3. turn[j + 1] \in At(j + 1)
      BY <1>5, <3>1, <3>2
    <3> QED BY <3>1, <3>3
  <2> HIDE DEF T, Is
  <2> QED BY <1>4, <2>1, <2>2, StaysIn
<1>11. turn[last] \in At(last)
  BY <1>4, <1>10
<1>12. Leaves(turn[last].memory, m, P, W, dst, dstofs, last, S \cup U)
  BY <1>6, <1>11 DEF Over, last
<1>13. merge(m, src, src1ofs, n, src2, src2ofs, l, dst, dstofs) = turn[last].memory
  BY DEF merge, turn, last, start
<1> QED BY <1>12, <1>13 DEF last

-----------------------------------------------------------------------------
(* Two parts have no place in common. *)
Separate(a, i, n, b, j, l) == a # b \/ i + n <= j \/ j + l <= i

LEMMA ApartIs ==
  ASSUME NEW a, NEW i \in Nat, NEW n \in Nat, NEW b, NEW j \in Nat, NEW l \in Nat,
         Separate(a, i, n, b, j, l)
  PROVE  Part(a, i, n) \cap Part(b, j, l) = {}
BY DEF Separate, Part

LEMMA ApartFollows ==
  ASSUME NEW a, NEW i \in Nat, NEW n \in Nat \ {0}, NEW b, NEW j \in Nat, NEW l \in Nat \ {0},
         Part(a, i, n) \cap Part(b, j, l) = {}
  PROVE  Separate(a, i, n, b, j, l)
<1> SUFFICES ASSUME a = b, ~(i + n <= j), ~(j + l <= i) PROVE FALSE
  BY DEF Separate
<1>1. CASE i <= j
  <2>1. <<a, j>> \in Part(a, i, n) /\ <<a, j>> \in Part(b, j, l)
    BY <1>1 DEF Part
  <2> QED BY <2>1
<1>2. CASE j < i
  <2>1. <<a, i>> \in Part(a, i, n) /\ <<a, i>> \in Part(b, j, l)
    BY <1>2 DEF Part
  <2> QED BY <2>1
<1> QED BY <1>1, <1>2

LEMMA SubPart ==
  ASSUME NEW a, NEW ofs \in Nat, NEW len \in Nat, NEW i \in Nat, NEW n \in Nat, i + n <= len
  PROVE  Part(a, ofs + i, n) \subseteq Part(a, ofs, len)
BY DEF Part

(* The items of a part are those of its halves, and items of the second half come later. *)
LEMMA HalvesAre ==
  ASSUME NEW m, NEW a, NEW ofs \in Nat, NEW n \in Nat, NEW l \in Nat,
         InOrder(Cells(m, a, ofs, n + l), n + l)
  PROVE  /\ InOrder(Cells(m, a, ofs, n), n) /\ InOrder(Cells(m, a, ofs + n, l), l)
         /\ Taken(Cells(m, a, ofs, n + l), n + l)
              = Taken(Cells(m, a, ofs, n), n) \cup Taken(Cells(m, a, ofs + n, l), l)
         /\ \A x \in Taken(Cells(m, a, ofs, n), n), y \in Taken(Cells(m, a, ofs + n, l), l) :
              x.place < y.place
<1> DEFINE w == Cells(m, a, ofs, n + l)
           u == Cells(m, a, ofs, n)
           v == Cells(m, a, ofs + n, l)
<1>1. \A i \in 0..(n - 1) : i \in 0..(n + l - 1) /\ u[i] = w[i]
  BY DEF Cells
<1>2. \A i \in 0..(l - 1) : n + i \in 0..(n + l - 1) /\ v[i] = w[n + i]
  <2>1. \A i \in 0..(l - 1) :
          n + i \in 0..((n + l) - 1) /\ n + i \in 0..(n + l - 1) /\ ofs + (n + i) = ofs + n + i
    OBVIOUS
  <2>2. \A i \in 0..(l - 1) : w[n + i] = m[<<a, ofs + (n + i)>>] /\ v[i] = m[<<a, ofs + n + i>>]
    BY <2>1 DEF Cells
  <2> HIDE DEF w, v
  <2> QED BY <2>1, <2>2
<1>3. \A i \in 0..(n + l - 1) : i \in 0..(n - 1) \/ (i - n \in 0..(l - 1) /\ n + (i - n) = i)
  OBVIOUS
<1>4. /\ DOMAIN u = 0..(n - 1) /\ DOMAIN v = 0..(l - 1)
      /\ u = [i \in 0..(n - 1) |-> u[i]] /\ v = [i \in 0..(l - 1) |-> v[i]]
  BY DEF Cells
<1>5. /\ \A i \in 0..(n + l - 1) : w[i] \in Item
      /\ \A i, j \in 0..(n + l - 1) : i < j => w[i].place < w[j].place
  BY DEF InOrder
<1> HIDE DEF u, v, w
<1>6. InOrder(u, n)
  BY <1>1, <1>4, <1>5 DEF InOrder
<1>7. InOrder(v, l)
  <2>1. \A i \in 0..(l - 1) : v[i] \in Item
    BY <1>2, <1>5
  <2>2. \A i, j \in 0..(l - 1) : i < j => n + i < n + j
    OBVIOUS
  <2>3. \A i, j \in 0..(l - 1) : i < j => v[i].place < v[j].place
    BY <1>2, <1>5, <2>2
  <2> QED BY <1>4, <2>1, <2>3 DEF InOrder
<1>8. Taken(w, n + l) = Taken(u, n) \cup Taken(v, l)
  <2>1. \A i \in 0..(n - 1) : u[i] \in Taken(w, n + l)
    BY <1>1 DEF Taken
  <2>2. \A i \in 0..(l - 1) : v[i] \in Taken(w, n + l)
    BY <1>2 DEF Taken
  <2>3. \A i \in 0..(n + l - 1) : w[i] \in Taken(u, n) \cup Taken(v, l)
    <3> SUFFICES ASSUME NEW i \in 0..(n + l - 1) PROVE w[i] \in Taken(u, n) \cup Taken(v, l)
      OBVIOUS
    <3>1. CASE i \in 0..(n - 1)
      BY <1>1, <3>1 DEF Taken
    <3>2. CASE i \notin 0..(n - 1)
      <4>1. i - n \in 0..(l - 1) /\ v[i - n] = w[i]
        BY <1>2, <1>3, <3>2
      <4> QED BY <4>1 DEF Taken
    <3> QED BY <3>1, <3>2
  <2> QED BY <2>1, <2>2, <2>3 DEF Taken
<1>9. ASSUME NEW x \in Taken(u, n), NEW y \in Taken(v, l) PROVE x.place < y.place
  <2>1. PICK i \in 0..(n - 1) : x = u[i]
    BY DEF Taken
  <2>2. PICK j \in 0..(l - 1) : y = v[j]
    BY DEF Taken
  <2>3. i < n + j
    OBVIOUS
  <2> QED BY <1>1, <1>2, <1>5, <2>1, <2>2, <2>3
<1> QED BY <1>6, <1>7, <1>8, <1>9 DEF u, v, w

(* mem is the memory after a call of sortTo. *)
After(mem, l, m, src, srcofs, dst, dstofs, len) ==
  /\ mem \in [Places(l) -> Item \cup {Undefined}]
  /\ Sorted(Cells(mem, dst, dstofs, len), len, Taken(Cells(m, src, srcofs, len), len))
  /\ \A p \in Places(l) : p \in Part(src, srcofs, len) \/ p \in Part(dst, dstofs, len) \/ mem[p] = m[p]

(* What a call of sortTo may rely on. *)
Fits(l, m, src, srcofs, dst, dstofs, len) ==
  /\ m \in [Places(l) -> Item \cup {Undefined}]
  /\ src \in {"a", "t"} /\ dst \in {"a", "t"} /\ srcofs \in Nat /\ dstofs \in Nat /\ len \in Nat
  /\ Part(src, srcofs, len) \subseteq Places(l) /\ Part(dst, dstofs, len) \subseteq Places(l)
  /\ Part(src, srcofs, len) \cap Part(dst, dstofs, len) = {}
  /\ InOrder(Cells(m, src, srcofs, len), len)

LEMMA CallsFit ==
  ASSUME NEW l \in Nat, NEW most \in Nat, NEW c \in Calls(l, most)
  PROVE  /\ Fits(l, c.memory, c.src, c.srcofs, c.dst, c.dstofs, c.len)
         /\ c.len <= most
<1>1. /\ c.memory \in Memories(l) /\ c.src \in {"a", "t"} /\ c.dst \in {"a", "t"}
      /\ c.srcofs \in Nat /\ c.dstofs \in Nat /\ c.len \in 0..most
      /\ Part(c.src, c.srcofs, c.len) \cup Part(c.dst, c.dstofs, c.len) \subseteq Places(l)
      /\ Part(c.src, c.srcofs, c.len) \cap Part(c.dst, c.dstofs, c.len) = {}
      /\ \A p \in Part(c.src, c.srcofs, c.len) : c.memory[p] \in Item
      /\ \A p, q \in Part(c.src, c.srcofs, c.len) :
           p[2] < q[2] => c.memory[p].place < c.memory[q].place
  BY DEF Calls
<1>2. InOrder(Cells(c.memory, c.src, c.srcofs, c.len), c.len)
  <2> DEFINE u == Cells(c.memory, c.src, c.srcofs, c.len)
             At(i) == <<c.src, c.srcofs + i>>
  <2>1. \A i \in 0..(c.len - 1) : At(i) \in Part(c.src, c.srcofs, c.len) /\ u[i] = c.memory[At(i)]
    BY <1>1 DEF Part, Cells
  <2>2. u = [i \in 0..(c.len - 1) |-> u[i]]
    BY DEF Cells
  <2>3. \A i, j \in 0..(c.len - 1) : i < j => At(i)[2] < At(j)[2]
    BY <1>1
  <2> HIDE DEF u, At
  <2>4. \A i \in 0..(c.len - 1) : u[i] \in Item
    BY <1>1, <2>1
  <2>5. \A i, j \in 0..(c.len - 1) : i < j => u[i].place < u[j].place
    BY <1>1, <2>1, <2>3
  <2> QED BY <2>2, <2>4, <2>5 DEF InOrder, u
<1> QED BY <1>1, <1>2 DEF Fits, Memories

LEMMA FittingCalls ==
  ASSUME NEW l \in Nat, NEW most \in Nat, NEW m, NEW src, NEW srcofs, NEW dst, NEW dstofs,
         NEW len \in 0..most,
         Fits(l, m, src, srcofs, dst, dstofs, len)
  PROVE  Call(m, src, srcofs, dst, dstofs, len) \in Calls(l, most)
<1> DEFINE c == Call(m, src, srcofs, dst, dstofs, len)
<1>1. /\ c.memory = m /\ c.src = src /\ c.srcofs = srcofs /\ c.dst = dst /\ c.dstofs = dstofs /\ c.len = len
      /\ c \in [memory : Memories(l), src : {"a", "t"}, srcofs : Nat, dst : {"a", "t"}, dstofs : Nat,
                len : 0..most]
  BY DEF Call, Fits, Memories
<1>2. \A p \in Part(src, srcofs, len) :
        p[2] - srcofs \in 0..(len - 1) /\ m[p] = Cells(m, src, srcofs, len)[p[2] - srcofs] /\ p[2] \in Nat
  <2> SUFFICES ASSUME NEW p \in Part(src, srcofs, len)
               PROVE /\ p[2] - srcofs \in 0..(len - 1) /\ p[2] \in Nat
                     /\ m[p] = Cells(m, src, srcofs, len)[p[2] - srcofs]
    OBVIOUS
  <2>1. srcofs \in Nat /\ len \in Nat
    BY DEF Fits
  <2>2. p[2] - srcofs \in 0..(len - 1) /\ p = <<src, srcofs + (p[2] - srcofs)>> /\ p[2] \in Nat
    BY <2>1 DEF Part
  <2>3. Cells(m, src, srcofs, len)[p[2] - srcofs] = m[<<src, srcofs + (p[2] - srcofs)>>]
    BY <2>2 DEF Cells
  <2> QED BY <2>2, <2>3
<1>3. \A p \in Part(src, srcofs, len) : m[p] \in Item
  BY <1>2 DEF Fits, InOrder
<1>4. \A p, q \in Part(src, srcofs, len) : p[2] < q[2] => m[p].place < m[q].place
  <2> DEFINE u == Cells(m, src, srcofs, len)
  <2>1. srcofs \in Nat /\ \A i, j \in 0..(len - 1) : i < j => u[i].place < u[j].place
    BY DEF Fits, InOrder
  <2> SUFFICES ASSUME NEW p \in Part(src, srcofs, len), NEW q \in Part(src, srcofs, len), p[2] < q[2]
               PROVE m[p].place < m[q].place
    OBVIOUS
  <2>2. p[2] - srcofs < q[2] - srcofs
    BY <1>2, <2>1
  <2> HIDE DEF u
  <2> QED BY <1>2, <2>1, <2>2 DEF u
<1> HIDE DEF c
<1>5. c \in Calls(l, most)
  BY <1>1, <1>3, <1>4 DEF Calls, Fits
<1> QED BY <1>5 DEF c

(* g is what a part and a buffer b leave when they are merged into dst. *)
MergedInto(g, m, l, src, srcofs, n, b, bofs, l2, dst, dstofs) ==
  /\ g \in [Places(l) -> Item \cup {Undefined}]
  /\ Sorted(Cells(g, dst, dstofs, n), n, Taken(Cells(m, src, srcofs, n), n))
  /\ \A p \in Places(l) : \/ p \in Part(src, srcofs, n) \/ p \in Part(b, bofs, l2)
                          \/ p \in Part(dst, dstofs, n) \/ g[p] = m[p]

(* The second half can be sorted into b, then the first half behind where the second was,
   and the merge of both is the whole. *)
HalvesCanBeSorted(l, m, src, srcofs, l1, b, bofs, l2, dst, dstofs) ==
  /\ Fits(l, m, src, srcofs + l1, b, bofs, l2)
  /\ \A second : After(second, l, m, src, srcofs + l1, b, bofs, l2) =>
       /\ Fits(l, second, src, srcofs, src, srcofs + l2, l1)
       /\ \A both : After(both, l, second, src, srcofs, src, srcofs + l2, l1) =>
            MergedInto(merge(both, src, srcofs + l2, l1, b, bofs, l2, dst, dstofs),
                       m, l, src, srcofs, l1 + l2, b, bofs, l2, dst, dstofs)

(* The second half is sorted to b, and then the first half behind where the second was: the
   second call gets what it may rely on, and the merge of both is the whole, sorted. *)
LEMMA HalvesSort ==
  ASSUME NEW l \in Nat, NEW m, NEW src, NEW srcofs \in Nat, NEW l1 \in Nat \ {0},
         NEW l2 \in Nat \ {0}, l1 <= l2,
         NEW b, NEW bofs \in Nat, NEW dst, NEW dstofs \in Nat,
         src \in {"a", "t"}, b \in {"a", "t"}, m \in [Places(l) -> Item \cup {Undefined}],
         Part(src, srcofs, l1 + l2) \subseteq Places(l), Part(b, bofs, l2) \subseteq Places(l),
         Part(dst, dstofs, l1 + l2) \subseteq Places(l),
         InOrder(Cells(m, src, srcofs, l1 + l2), l1 + l2),
         Separate(src, srcofs, l1 + l2, b, bofs, l2),
         Safe(src, srcofs + l2, l1, l2, dst, dstofs), Safe(b, bofs, l2, l1, dst, dstofs)
  PROVE  HalvesCanBeSorted(l, m, src, srcofs, l1, b, bofs, l2, dst, dstofs)
<1> DEFINE P == Places(l)
           W == Item \cup {Undefined}
           u == Cells(m, src, srcofs, l1)
           v == Cells(m, src, srcofs + l1, l2)
           S == Taken(u, l1)
           U == Taken(v, l2)
<1>0. /\ l1 \in Nat /\ l2 \in Nat /\ l1 > 0 /\ l2 > 0
      /\ l1 + l2 \in Nat /\ srcofs + l1 \in Nat /\ srcofs + l2 \in Nat
  OBVIOUS
<1>1. /\ InOrder(u, l1) /\ InOrder(v, l2)
      /\ Taken(Cells(m, src, srcofs, l1 + l2), l1 + l2) = S \cup U
      /\ \A x \in S, y \in U : x.place < y.place
  BY <1>0, HalvesAre
<1>2. /\ Part(src, srcofs + l1, l2) \subseteq Part(src, srcofs, l1 + l2)
      /\ Part(src, srcofs, l1) \subseteq Part(src, srcofs, l1 + l2)
      /\ Part(src, srcofs + l2, l1) \subseteq Part(src, srcofs, l1 + l2)
      /\ Part(src, srcofs, l1) \cap Part(src, srcofs + l2, l1) = {}
      /\ Part(src, srcofs, l1) \cap Part(src, srcofs + l1, l2) = {}
      /\ Part(src, srcofs, l1 + l2) \cap Part(b, bofs, l2) = {}
  <2>1. Part(src, srcofs, l1 + l2) \cap Part(b, bofs, l2) = {}
    BY <1>0, ApartIs
  <2> QED BY <1>0, <2>1 DEF Part
<1>3. Fits(l, m, src, srcofs + l1, b, bofs, l2)
  <2>1. /\ Part(src, srcofs + l1, l2) \subseteq P
        /\ Part(src, srcofs + l1, l2) \cap Part(b, bofs, l2) = {}
    BY <1>2
  <2> HIDE DEF v
  <2> QED BY <1>0, <1>1, <2>1 DEF Fits, v
<1> SUFFICES ASSUME NEW second, After(second, l, m, src, srcofs + l1, b, bofs, l2)
             PROVE  /\ Fits(l, second, src, srcofs, src, srcofs + l2, l1)
                    /\ \A both : After(both, l, second, src, srcofs, src, srcofs + l2, l1) =>
                         MergedInto(merge(both, src, srcofs + l2, l1, b, bofs, l2, dst, dstofs),
                                    m, l, src, srcofs, l1 + l2, b, bofs, l2, dst, dstofs)
  BY <1>3, Zenon DEF HalvesCanBeSorted
<1>4. /\ second \in [P -> W] /\ Sorted(Cells(second, b, bofs, l2), l2, U)
      /\ \A p \in P : p \in Part(src, srcofs + l1, l2) \/ p \in Part(b, bofs, l2) \/ second[p] = m[p]
  BY DEF After
<1>5. Cells(second, src, srcofs, l1) = u
  <2>1. ASSUME NEW k \in 0..(l1 - 1) PROVE second[<<src, srcofs + k>>] = m[<<src, srcofs + k>>]
    <3>1. <<src, srcofs + k>> \in Part(src, srcofs, l1)
      BY DEF Part
    <3> QED BY <1>2, <1>4, <3>1
  <2> QED BY <2>1 DEF Cells
<1>6. Fits(l, second, src, srcofs, src, srcofs + l2, l1)
  <2>1. /\ Part(src, srcofs, l1) \subseteq P /\ Part(src, srcofs + l2, l1) \subseteq P
    BY <1>2
  <2> HIDE DEF u
  <2> QED BY <1>0, <1>1, <1>2, <1>4, <1>5, <2>1 DEF Fits
<1> SUFFICES ASSUME NEW both, After(both, l, second, src, srcofs, src, srcofs + l2, l1)
             PROVE  MergedInto(merge(both, src, srcofs + l2, l1, b, bofs, l2, dst, dstofs),
                               m, l, src, srcofs, l1 + l2, b, bofs, l2, dst, dstofs)
  BY <1>6
<1>7. /\ both \in [P -> W] /\ Sorted(Cells(both, src, srcofs + l2, l1), l1, S)
      /\ \A p \in P : p \in Part(src, srcofs, l1) \/ p \in Part(src, srcofs + l2, l1) \/ both[p] = second[p]
  BY <1>5 DEF After
<1>8. Cells(both, b, bofs, l2) = Cells(second, b, bofs, l2)
  <2>1. ASSUME NEW k \in 0..(l2 - 1) PROVE both[<<b, bofs + k>>] = second[<<b, bofs + k>>]
    <3>1. <<b, bofs + k>> \in Part(b, bofs, l2)
      BY DEF Part
    <3>2. <<b, bofs + k>> \notin Part(src, srcofs, l1 + l2)
      BY <1>2, <3>1
    <3> QED BY <1>2, <1>7, <3>1, <3>2
  <2> QED BY <2>1 DEF Cells
<1> DEFINE mem == merge(both, src, srcofs + l2, l1, b, bofs, l2, dst, dstofs)
<1>9. Leaves(mem, both, P, W, dst, dstofs, l1 + l2, S \cup U)
  <2> DEFINE first == srcofs + l2
  <2>1. /\ first \in Nat /\ both \in [P -> W]
        /\ Part(src, first, l1) \subseteq P /\ Part(b, bofs, l2) \subseteq P
        /\ Part(dst, dstofs, l1 + l2) \subseteq P
        /\ Safe(src, first, l1, l2, dst, dstofs) /\ Safe(b, bofs, l2, l1, dst, dstofs)
        /\ Sorted(Cells(both, src, first, l1), l1, S) /\ Sorted(Cells(both, b, bofs, l2), l2, U)
    BY <1>0, <1>2, <1>4, <1>7, <1>8
  <2> HIDE DEF first, S, U, P, W
  <2>2. Leaves(merge(both, src, first, l1, b, bofs, l2, dst, dstofs), both, P, W, dst, dstofs,
               l1 + l2, S \cup U)
    BY <1>1, <2>1, MergeSorts
  <2> QED BY <2>2 DEF first
<1> HIDE DEF mem
<1>10. mem \in [P -> W] /\ Sorted(Cells(mem, dst, dstofs, l1 + l2), l1 + l2, S \cup U)
  BY <1>9 DEF Leaves
<1>11. ASSUME NEW p \in P, p \notin Part(src, srcofs, l1 + l2), p \notin Part(b, bofs, l2),
              p \notin Part(dst, dstofs, l1 + l2)
       PROVE  mem[p] = m[p]
  <2>1. mem[p] = both[p]
    BY <1>9, <1>11 DEF Leaves
  <2>2. both[p] = second[p]
    BY <1>2, <1>7, <1>11
  <2>3. second[p] = m[p]
    BY <1>2, <1>4, <1>11
  <2> QED BY <2>1, <2>2, <2>3
<1> HIDE DEF S, U
<1>12. MergedInto(mem, m, l, src, srcofs, l1 + l2, b, bofs, l2, dst, dstofs)
  BY <1>1, <1>10, <1>11 DEF MergedInto
<1> QED BY <1>12 DEF mem

(* What one call does when the calls inside it sort. *)
LEMMA SortedToSorts ==
  ASSUME NEW l \in Nat, NEW most \in Nat, NEW c \in Calls(l, most), NEW sort,
         \A call \in Calls(l, most - 1) :
           After(sort[call], l, call.memory, call.src, call.srcofs, call.dst, call.dstofs, call.len)
  PROVE  After(SortedTo(c, sort), l, c.memory, c.src, c.srcofs, c.dst, c.dstofs, c.len)
<1> DEFINE m == c.memory
           W == Item \cup {Undefined}
           mem == SortedTo(c, sort)
<1>1. Fits(l, m, c.src, c.srcofs, c.dst, c.dstofs, c.len) /\ c.len <= most
  BY CallsFit
<1>2. /\ m \in [Places(l) -> W] /\ c.srcofs \in Nat /\ c.dstofs \in Nat /\ c.len \in Nat
      /\ c.src \in {"a", "t"} /\ c.dst \in {"a", "t"}
      /\ Part(c.src, c.srcofs, c.len) \subseteq Places(l)
      /\ Part(c.dst, c.dstofs, c.len) \subseteq Places(l)
      /\ Part(c.src, c.srcofs, c.len) \cap Part(c.dst, c.dstofs, c.len) = {}
      /\ InOrder(Cells(m, c.src, c.srcofs, c.len), c.len)
  BY <1>1 DEF Fits
<1>3. CASE c.len <= 5
  <2>1. mem = insertionSort(m, c.src, c.srcofs, c.dst, c.dstofs, c.len)
    BY <1>3 DEF SortedTo
  <2> HIDE DEF mem, W, m
  <2>2. Leaves(mem, m, Places(l), W, c.dst, c.dstofs, c.len, Taken(Cells(m, c.src, c.srcofs, c.len), c.len))
    BY <1>2, <2>1, InsertionSorts
  <2> QED BY <2>2 DEF Leaves, After, mem, W, m
<1>4. CASE ~(c.len <= 5)
  <2> DEFINE l1 == c.len \div 2
             l2 == c.len - l1
             one == Call(m, c.src, c.srcofs + l1, c.dst, c.dstofs + l1, l2)
             second == sort[one]
             two == Call(second, c.src, c.srcofs, c.src, c.srcofs + l2, l1)
             both == sort[two]
  <2>1. /\ l1 \in Nat \ {0} /\ l2 \in Nat \ {0} /\ l1 <= l2 /\ c.len = l1 + l2
        /\ l1 \in 0..(most - 1) /\ l2 \in 0..(most - 1) /\ most - 1 \in Nat
    BY <1>1, <1>2, <1>4
  <2>2. mem = merge(both, c.src, c.srcofs + l2, l1, c.dst, c.dstofs + l1, l2, c.dst, c.dstofs)
    BY <1>4 DEF SortedTo
  <2> HIDE DEF l1, l2, m, mem, one, two
  <2>3. /\ Part(c.dst, c.dstofs + l1, l2) \subseteq Part(c.dst, c.dstofs, c.len)
        /\ Separate(c.src, c.srcofs, l1 + l2, c.dst, c.dstofs + l1, l2)
        /\ Safe(c.src, c.srcofs + l2, l1, l2, c.dst, c.dstofs)
        /\ Safe(c.dst, c.dstofs + l1, l2, l1, c.dst, c.dstofs)
        /\ c.dstofs + l1 \in Nat
    <3>1. Separate(c.src, c.srcofs, c.len, c.dst, c.dstofs, c.len)
      BY <1>2, <2>1, ApartFollows
    <3>2. Part(c.dst, c.dstofs + l1, l2) \subseteq Part(c.dst, c.dstofs, c.len)
      BY <1>2, <2>1, SubPart
    <3> QED BY <1>2, <2>1, <3>1, <3>2 DEF Separate, Safe
  <2>4. HalvesCanBeSorted(l, m, c.src, c.srcofs, l1, c.dst, c.dstofs + l1, l2, c.dst, c.dstofs)
    <3> DEFINE b == c.dst
               bofs == c.dstofs + l1
               src == c.src
               srcofs == c.srcofs
               dstofs == c.dstofs
    <3>1. /\ l \in Nat /\ srcofs \in Nat /\ l1 \in Nat \ {0} /\ l2 \in Nat \ {0} /\ l1 <= l2
          /\ bofs \in Nat /\ dstofs \in Nat
          /\ src \in {"a", "t"} /\ b \in {"a", "t"} /\ m \in [Places(l) -> Item \cup {Undefined}]
          /\ Part(src, srcofs, l1 + l2) \subseteq Places(l) /\ Part(b, bofs, l2) \subseteq Places(l)
          /\ Part(b, dstofs, l1 + l2) \subseteq Places(l)
          /\ InOrder(Cells(m, src, srcofs, l1 + l2), l1 + l2)
          /\ Separate(src, srcofs, l1 + l2, b, bofs, l2)
          /\ Safe(src, srcofs + l2, l1, l2, b, dstofs) /\ Safe(b, bofs, l2, l1, b, dstofs)
      BY <1>2, <2>1, <2>3
    <3> HIDE DEF b, bofs, src, srcofs, dstofs
    <3>2. HalvesCanBeSorted(l, m, src, srcofs, l1, b, bofs, l2, b, dstofs)
      BY <3>1, HalvesSort
    <3> QED BY <3>2 DEF b, bofs, src, srcofs, dstofs
  <2>5. After(second, l, m, c.src, c.srcofs + l1, c.dst, c.dstofs + l1, l2)
    <3>1. one \in Calls(l, most - 1)
      <4>1. Fits(l, m, c.src, c.srcofs + l1, c.dst, c.dstofs + l1, l2)
        BY <2>4, Zenon DEF HalvesCanBeSorted
      <4> QED BY <2>1, <4>1, FittingCalls DEF one
    <3>2. /\ one.memory = m /\ one.src = c.src /\ one.srcofs = c.srcofs + l1 /\ one.dst = c.dst
          /\ one.dstofs = c.dstofs + l1 /\ one.len = l2
      BY DEF one, Call
    <3>3. After(sort[one], l, one.memory, one.src, one.srcofs, one.dst, one.dstofs, one.len)
      BY <3>1
    <3> QED BY <3>2, <3>3
  <2> HIDE DEF second
  <2>6. After(both, l, second, c.src, c.srcofs, c.src, c.srcofs + l2, l1)
    <3>1. two \in Calls(l, most - 1)
      <4>1. Fits(l, second, c.src, c.srcofs, c.src, c.srcofs + l2, l1)
        BY <2>4, <2>5, Zenon DEF HalvesCanBeSorted
      <4> QED BY <2>1, <4>1, FittingCalls DEF two
    <3>2. /\ two.memory = second /\ two.src = c.src /\ two.srcofs = c.srcofs /\ two.dst = c.src
          /\ two.dstofs = c.srcofs + l2 /\ two.len = l1
      BY DEF two, Call
    <3>3. After(sort[two], l, two.memory, two.src, two.srcofs, two.dst, two.dstofs, two.len)
      BY <3>1
    <3> QED BY <3>2, <3>3
  <2> HIDE DEF both
  <2>7. MergedInto(mem, m, l, c.src, c.srcofs, c.len, c.dst, c.dstofs + l1, l2, c.dst, c.dstofs)
    <3>1. MergedInto(mem, m, l, c.src, c.srcofs, l1 + l2, c.dst, c.dstofs + l1, l2, c.dst, c.dstofs)
      BY <2>2, <2>4, <2>5, <2>6, Zenon DEF HalvesCanBeSorted
    <3> QED BY <2>1, <3>1
  <2> QED BY <2>3, <2>7 DEF MergedInto, After, mem, m
<1> QED BY <1>3, <1>4

(* A call for no elements makes no call. *)
LEMMA NoneAreSorted ==
  ASSUME NEW l \in Nat, NEW x, NEW y
  PROVE  [c \in Calls(l, 0) |-> SortedTo(c, x)] = [c \in Calls(l, 0) |-> SortedTo(c, y)]
<1>1. ASSUME NEW c \in Calls(l, 0) PROVE SortedTo(c, x) = SortedTo(c, y)
  <2>1. c.len <= 5
    <3>1. c.len \in 0..0
      BY DEF Calls
    <3> QED BY <3>1
  <2> QED BY <2>1 DEF SortedTo
<1> QED BY <1>1

(* sortTo sorts, whatever call it gets. *)
LEMMA SortToSorts ==
  ASSUME NEW l \in Nat, NEW m, NEW src, NEW srcofs, NEW dst, NEW dstofs, NEW len,
         Fits(l, m, src, srcofs, dst, dstofs, len)
  PROVE  After(sortTo(l, Call(m, src, srcofs, dst, dstofs, len)), l, m, src, srcofs, dst, dstofs, len)
<1> DEFINE call == Call(m, src, srcofs, dst, dstofs, len)
           Leads(c, mem) == After(mem, l, c.memory, c.src, c.srcofs, c.dst, c.dstofs, c.len)
           Sorts(most) == {f \in [Calls(l, most) -> [Places(l) -> Item \cup {Undefined}]] :
                             \A c \in Calls(l, most) : Leads(c, f[c])}
           Step(most, f) == [c \in Calls(l, most) |-> SortedTo(c, f)]
           T == [most \in 0..len |-> Sorts(most)]
           Is(f) == f = [most \in 0..len |-> Step(most, f[most - 1])]
           nested == CHOOSE f : Is(f)
<1>1. len \in Nat
  BY DEF Fits
<1>2. ASSUME NEW most \in Nat, NEW f,
             \A c \in Calls(l, most - 1) : Leads(c, f[c])
      PROVE Step(most, f) \in Sorts(most)
  <2>1. ASSUME NEW c \in Calls(l, most) PROVE Leads(c, SortedTo(c, f))
    BY <1>2, SortedToSorts
  <2>2. \A c \in Calls(l, most) : SortedTo(c, f) \in [Places(l) -> Item \cup {Undefined}]
    BY <2>1 DEF After
  <2> HIDE DEF Leads
  <2> QED BY <2>1, <2>2
<1>3. Calls(l, 0 - 1) = {}
  <2>1. 0..(0 - 1) = {}
    OBVIOUS
  <2> QED BY <2>1 DEF Calls
<1>4. ASSUME NEW f PROVE Step(0, f) \in Sorts(0)
  <2> HIDE DEF Step, Leads, Sorts
  <2> QED BY <1>2, <1>3
<1>5. ASSUME NEW n \in 0..(len - 1), NEW f \in Sorts(n) PROVE Step(n + 1, f) \in Sorts(n + 1)
  <2>1. n \in Nat /\ n + 1 \in Nat /\ (n + 1) - 1 = n
    BY <1>1
  <2>2. \A c \in Calls(l, (n + 1) - 1) : Leads(c, f[c])
    BY <2>1
  <2> HIDE DEF Step, Leads, Sorts
  <2> QED BY <1>2, <2>1, <2>2
<1>6. ASSUME NEW x, NEW y PROVE Step(0, x) = Step(0, y)
  BY NoneAreSorted
<1> HIDE DEF Step, Sorts
<1>7. \E f : Is(f)
  <2> DEFINE start == Step(0, 0)
             G == [n \in 0..(len - 1) |-> [f \in Sorts(n) |-> Step(n + 1, f)]]
  <2>1. start \in T[0]
    BY <1>1, <1>4
  <2>2. \A n \in 0..(len - 1) : \A f \in T[n] : G[n][f] \in T[n + 1]
    BY <1>1, <1>5
  <2> DEFINE S == T
             H == G
  <2>3. /\ start \in S[0]
        /\ \A n \in 0..(len - 1) : \A f \in S[n] : H[n][f] \in S[n + 1]
    BY <2>1, <2>2
  <2> HIDE DEF S, H, start
  <2>4. PICK f : Follows(f, len, S, start, H)
    BY <1>1, <2>3, Stages
  <2>5. /\ f = [n \in 0..len |-> f[n]] /\ f[0] = start
        /\ \A n \in 0..len : f[n] \in S[n]
        /\ \A n \in 0..(len - 1) : f[n + 1] = H[n][f[n]]
    BY <2>4, Zenon DEF Follows
  <2>6. ASSUME NEW n \in 0..len PROVE f[n] = Step(n, f[n - 1])
    <3>1. CASE n = 0
      BY <1>6, <2>5, <3>1 DEF start
    <3>2. CASE n # 0
      <4> DEFINE k == n - 1
      <4>1. k \in 0..(len - 1) /\ k \in 0..len /\ k + 1 = n
        BY <1>1, <3>2
      <4>2. f[k] \in Sorts(k)
        BY <2>5, <4>1 DEF S
      <4>3. H[k][f[k]] = Step(k + 1, f[k])
        BY <4>1, <4>2 DEF H
      <4>4. f[k + 1] = H[k][f[k]]
        BY <2>5, <4>1
      <4> QED BY <4>1, <4>3, <4>4
    <3> QED BY <3>1, <3>2
  <2>7. f = [n \in 0..len |-> Step(n, f[n - 1])]
    BY <2>5, <2>6
  <2> QED BY <2>7
<1>8. Is(nested)
  <2> HIDE DEF Is
  <2> QED BY <1>7
<1>9. sortTo(l, call) = nested[len][call]
  <2>1. call.len = len
    BY DEF Call
  <2> QED BY <2>1 DEF sortTo, Step
<1> HIDE DEF nested
<1>10. \A n \in 0..len : nested[n] = Step(n, nested[n - 1])
  BY <1>8
<1>11. nested[0] \in T[0]
  BY <1>1, <1>4, <1>10
<1>12. ASSUME NEW n \in 0..(len - 1), nested[n] \in T[n] PROVE nested[n + 1] \in T[n + 1]
  <2>1. n + 1 \in 0..len /\ (n + 1) - 1 = n /\ n \in 0..len
    BY <1>1
  <2>2. nested[n + 1] = Step(n + 1, nested[n])
    BY <1>10, <2>1
  <2> QED BY <1>5, <1>12, <2>1, <2>2
<1>13. nested[len] \in T[len]
  <2> HIDE DEF T
  <2>1. \A n \in 0..len : nested[n] \in T[n]
    BY <1>1, <1>11, <1>12, StaysIn
  <2> QED BY <1>1, <2>1
<1>14. call \in Calls(l, len)
  BY <1>1, FittingCalls
<1>15. Leads(call, nested[len][call])
  BY <1>1, <1>13, <1>14 DEF Sorts
<1>16. /\ call.memory = m /\ call.src = src /\ call.srcofs = srcofs /\ call.dst = dst
       /\ call.dstofs = dstofs /\ call.len = len
  BY DEF Call
<1> HIDE DEF call
<1>17. After(sortTo(l, call), l, m, src, srcofs, dst, dstofs, len)
  BY <1>9, <1>15, <1>16
<1> QED BY <1>17 DEF call

(* stableSortInPlaceBy leaves the items of the array, sorted. *)
LEMMA StableSortSorts ==
  ASSUME NEW l \in Nat, NEW a \in [0..(l - 1) -> Item], \A i \in 0..(l - 1) : a[i].place = i
  PROVE  Sorted(stableSortInPlaceBy(a), l, Taken(a, l))
<1> DEFINE W == Item \cup {Undefined}
           m == [p \in Places(l) |-> IF p[1] = "a" THEN a[p[2]] ELSE Undefined]
           l1 == l \div 2
           l2 == l - l1
<1>1. Cardinality(DOMAIN a) = l /\ DOMAIN a = 0..(l - 1)
  BY CountedFrom0
<1>2. /\ Part("a", 0, l) \subseteq Places(l) /\ Part("t", 0, l2) \subseteq Places(l)
      /\ \A i \in 0..(l - 1) : <<"a", i>> \in Places(l)
  BY DEF Part, Places
<1>3. m \in [Places(l) -> W]
  <2>1. ASSUME NEW p \in Places(l) PROVE (IF p[1] = "a" THEN a[p[2]] ELSE Undefined) \in W
    <3>1. p[1] = "a" => p[2] \in 0..(l - 1)
      BY DEF Places
    <3> QED BY <3>1
  <2> QED BY <2>1
<1>4. Cells(m, "a", 0, l) = a
  <2>1. ASSUME NEW i \in 0..(l - 1) PROVE m[<<"a", 0 + i>>] = a[i]
    <3>1. <<"a", i>> \in Places(l) /\ <<"a", i>>[1] = "a" /\ <<"a", i>>[2] = i /\ 0 + i = i
      BY <1>2
    <3> QED BY <3>1
  <2> HIDE DEF m
  <2> QED BY <2>1 DEF Cells
<1>5. InOrder(Cells(m, "a", 0, l), l)
  BY <1>4 DEF InOrder
<1> HIDE DEF m, W
<1>6. CASE l <= 5
  <2> DEFINE g == insertionSort(m, "a", 0, "a", 0, l)
  <2>1. Leaves(g, m, Places(l), W, "a", 0, l, Taken(Cells(m, "a", 0, l), l))
    BY <1>2, <1>3, <1>5, InsertionSorts
  <2>2. stableSortInPlaceBy(a) = [i \in 0..(l - 1) |-> g[<<"a", i>>]]
    BY <1>1, <1>6 DEF stableSortInPlaceBy, m
  <2> HIDE DEF g
  <2>3. Cells(g, "a", 0, l) = stableSortInPlaceBy(a)
    BY <2>2 DEF Cells
  <2> QED BY <1>4, <2>1, <2>3 DEF Leaves
<1>7. CASE ~(l <= 5)
  <2> DEFINE second == sortTo(l, Call(m, "a", l1, "t", 0, l2))
             both == sortTo(l, Call(second, "a", 0, "a", l2, l1))
             g == merge(both, "a", l2, l1, "t", 0, l2, "a", 0)
  <2>1. l1 \in Nat \ {0} /\ l2 \in Nat \ {0} /\ l1 <= l2 /\ l = l1 + l2 /\ 0 + l1 = l1 /\ 0 + l2 = l2
    BY <1>7
  <2>2. stableSortInPlaceBy(a) = [i \in 0..(l - 1) |-> g[<<"a", i>>]]
    BY <1>1, <1>7 DEF stableSortInPlaceBy, m
  <2> HIDE DEF l1, l2
  <2>3. /\ Separate("a", 0, l1 + l2, "t", 0, l2)
        /\ Safe("a", 0 + l2, l1, l2, "a", 0) /\ Safe("t", 0, l2, l1, "a", 0)
    BY <2>1 DEF Separate, Safe
  <2>4. HalvesCanBeSorted(l, m, "a", 0, l1, "t", 0, l2, "a", 0)
    <3>1. /\ m \in [Places(l) -> Item \cup {Undefined}]
          /\ Part("a", 0, l1 + l2) \subseteq Places(l)
          /\ InOrder(Cells(m, "a", 0, l1 + l2), l1 + l2)
      BY <1>2, <1>3, <1>5, <2>1 DEF W
    <3> QED BY <1>2, <2>1, <2>3, <3>1, HalvesSort
  <2>5. Fits(l, m, "a", l1, "t", 0, l2)
    BY <2>1, <2>4 DEF HalvesCanBeSorted
  <2>6. After(second, l, m, "a", l1, "t", 0, l2)
    BY <2>5, SortToSorts
  <2> HIDE DEF second
  <2>7. After(second, l, m, "a", 0 + l1, "t", 0, l2)
    BY <2>1, <2>6
  <2>8. Fits(l, second, "a", 0, "a", 0 + l2, l1)
    BY <2>4, <2>7, Zenon DEF HalvesCanBeSorted
  <2>9. After(both, l, second, "a", 0, "a", 0 + l2, l1)
    <3>1. Fits(l, second, "a", 0, "a", l2, l1)
      BY <2>1, <2>8
    <3>2. After(both, l, second, "a", 0, "a", l2, l1)
      BY <3>1, SortToSorts
    <3> HIDE DEF both
    <3> QED BY <2>1, <3>2
  <2> HIDE DEF both
  <2>10. MergedInto(merge(both, "a", 0 + l2, l1, "t", 0, l2, "a", 0), m, l, "a", 0, l1 + l2,
                    "t", 0, l2, "a", 0)
    BY <2>4, <2>7, <2>9, Zenon DEF HalvesCanBeSorted
  <2>11. MergedInto(g, m, l, "a", 0, l, "t", 0, l2, "a", 0)
    BY <2>1, <2>10
  <2> HIDE DEF g
  <2>12. Cells(g, "a", 0, l) = stableSortInPlaceBy(a)
    BY <2>2 DEF Cells
  <2> QED BY <1>4, <2>11, <2>12 DEF MergedInto
<1> QED BY <1>6, <1>7

SortInv ==
  \E l \in Nat :
    /\ input \in [0..(l - 1) -> Item]
    /\ \A i \in 0..(l - 1) : input[i].place = i
    /\ output = <<>> \/ Sorted(output, l, Taken(input, l))

LEMMA SortInvInit == SortInit => SortInv
<1> SUFFICES ASSUME SortInit PROVE SortInv
  OBVIOUS
<1>1. PICK s \in SortInputs : input = [i \in 0..(Len(s) - 1) |-> [key |-> s[i + 1], place |-> i]]
  BY DEF SortInit
<1>2. s \in Seq(Int) /\ Len(s) \in Nat
  BY <1>1, SortAssumption
<1>3. ASSUME NEW i \in 0..(Len(s) - 1) PROVE [key |-> s[i + 1], place |-> i] \in Item
  <2>1. s[i + 1] \in Int
    BY <1>2
  <2> QED BY <1>2, <2>1 DEF Item
<1>4. /\ input \in [0..(Len(s) - 1) -> Item]
      /\ \A i \in 0..(Len(s) - 1) : input[i].place = i
  BY <1>1, <1>3
<1> QED BY <1>2, <1>4 DEF SortInit, SortInv

LEMMA SortInvNext == SortInv /\ [Sort]_sortVars => SortInv'
<1> SUFFICES ASSUME SortInv, [Sort]_sortVars PROVE SortInv'
  OBVIOUS
<1>1. PICK l \in Nat :
        /\ input \in [0..(l - 1) -> Item]
        /\ \A i \in 0..(l - 1) : input[i].place = i
        /\ output = <<>> \/ Sorted(output, l, Taken(input, l))
  BY DEF SortInv
<1>2. input' = input
  BY DEF Sort, sortVars
<1>3. CASE output' = output
  BY <1>1, <1>2, <1>3 DEF SortInv
<1>4. CASE output' = stableSortInPlaceBy(input)
  <2>1. Sorted(output', l, Taken(input', l))
    BY <1>1, <1>2, <1>4, StableSortSorts
  <2> QED BY <1>1, <1>2, <2>1 DEF SortInv
<1> QED BY <1>3, <1>4 DEF Sort, sortVars

(* What is there after a call of stableSortInPlaceBy are the elements that were there, in
   ascending order of their keys; those with the same key are in the order they had. *)
THEOREM SortIsStable == SortSpec => []SortedAndStable
<1>1. SortInv => SortedAndStable
  <2> SUFFICES ASSUME SortInv, output # <<>> PROVE SortedAndStable
    BY DEF SortedAndStable
  <2>1. PICK l \in Nat :
          /\ input \in [0..(l - 1) -> Item]
          /\ \A i \in 0..(l - 1) : input[i].place = i
          /\ output = <<>> \/ Sorted(output, l, Taken(input, l))
    BY DEF SortInv
  <2>2. /\ output \in [0..(l - 1) -> Item]
        /\ \A i, j \in 0..(l - 1) : i < j => Before(output[i], output[j])
        /\ Taken(input, l) = {output[i] : i \in 0..(l - 1)}
    BY <2>1 DEF Sorted
  <2>3. {output[i] : i \in DOMAIN output} = {input[i] : i \in DOMAIN input}
    BY <2>1, <2>2 DEF Taken
  <2>4. ASSUME NEW i \in DOMAIN output, i > 0 PROVE Before(output[i - 1], output[i])
    BY <2>2, <2>4
  <2> QED BY <2>3, <2>4 DEF SortedAndStable, Before
<1> QED BY <1>1, SortInvInit, SortInvNext, PTL DEF SortSpec

(* Where binarySearchAux is after it went on n times: the key is between the keys at the ends
   of the range, which got smaller each time or stays. *)
Searching(sorted, key, l, n, range) ==
  /\ range \in [lo : 0..(l - 1), hi : 0..(l - 1)] /\ range.lo <= range.hi
  /\ sorted[range.lo] <= key /\ key <= sorted[range.hi]
  /\ range.hi - range.lo <= l - 1 - n \/ Narrowed(sorted, key, range) = range

LEMMA NarrowedIs ==
  ASSUME NEW l \in Nat, NEW sorted \in [0..(l - 1) -> Int], NEW key \in Int, NEW n \in Nat,
         NEW range,
         Searching(sorted, key, l, n, range)
  PROVE  Searching(sorted, key, l, n + 1, Narrowed(sorted, key, range))
<1> DEFINE mid == Mid(range)
<1>1. /\ range \in [lo : 0..(l - 1), hi : 0..(l - 1)] /\ range.lo <= range.hi
      /\ sorted[range.lo] <= key /\ key <= sorted[range.hi]
      /\ range.lo \in 0..(l - 1) /\ range.hi \in 0..(l - 1)
  BY DEF Searching
<1>2. mid \in 0..(l - 1) /\ range.lo <= mid /\ mid <= range.hi
  BY <1>1 DEF Mid
<1>3. CASE Narrowed(sorted, key, range) = range
  BY <1>1, <1>3 DEF Searching
<1>4. CASE Narrowed(sorted, key, range) # range
  <2>1. range.hi - range.lo <= (l - 1) - n
    BY <1>4 DEF Searching
  <2> HIDE DEF mid
  <2>2. CASE key < sorted[mid] /\ range.hi # mid
    <3>1. Narrowed(sorted, key, range) = [range EXCEPT !.hi = mid]
      BY <2>2 DEF Narrowed, mid
    <3>2. Narrowed(sorted, key, range) = [lo |-> range.lo, hi |-> mid]
      BY <1>1, <3>1
    <3>3. mid - range.lo <= (l - 1) - (n + 1)
      BY <1>1, <1>2, <2>1, <2>2
    <3>4. key <= sorted[mid]
      BY <1>2, <2>2
    <3> QED BY <1>1, <1>2, <3>2, <3>3, <3>4 DEF Searching
  <2>3. CASE ~(key < sorted[mid] /\ range.hi # mid) /\ key > sorted[mid] /\ range.lo # mid
    <3>1. Narrowed(sorted, key, range) = [range EXCEPT !.lo = mid]
      BY <2>3 DEF Narrowed, mid
    <3>2. Narrowed(sorted, key, range) = [lo |-> mid, hi |-> range.hi]
      BY <1>1, <3>1
    <3>3. range.hi - mid <= (l - 1) - (n + 1)
      BY <1>1, <1>2, <2>1, <2>3
    <3>4. sorted[mid] <= key
      BY <1>2, <2>3
    <3> QED BY <1>1, <1>2, <3>2, <3>3, <3>4 DEF Searching
  <2>4. CASE ~(key < sorted[mid] /\ range.hi # mid) /\ ~(key > sorted[mid] /\ range.lo # mid)
    BY <1>4, <2>4 DEF Narrowed, mid
  <2> QED BY <2>2, <2>3, <2>4
<1> QED BY <1>3, <1>4

(* What binarySearchBy answers. *)
Found(sorted, l, key, i) ==
  IF \E j \in 0..(l - 1) : sorted[j] = key THEN i \in 0..(l - 1) /\ sorted[i] = key
  ELSE /\ -i - 1 \in 0..l
       /\ \A j \in 0..(-i - 2) : sorted[j] < key
       /\ \A j \in (-i - 1)..(l - 1) : sorted[j] > key

LEMMA AnswerIs ==
  ASSUME NEW l \in Nat, NEW sorted \in [0..(l - 1) -> Int],
         \A i, j \in 0..(l - 1) : i <= j => sorted[i] <= sorted[j],
         NEW key \in Int, NEW range, Searching(sorted, key, l, l, range)
  PROVE  Found(sorted, l, key, Answer(sorted, key, range))
<1> DEFINE mid == Mid(range)
<1>1. /\ range \in [lo : 0..(l - 1), hi : 0..(l - 1)] /\ range.lo <= range.hi
      /\ sorted[range.lo] <= key /\ key <= sorted[range.hi]
      /\ range.lo \in 0..(l - 1) /\ range.hi \in 0..(l - 1)
  BY DEF Searching
<1>2. mid \in 0..(l - 1) /\ range.lo <= mid /\ mid <= range.hi
  BY <1>1 DEF Mid
<1>3. Narrowed(sorted, key, range) = range
  <2>1. ~(range.hi - range.lo <= (l - 1) - l)
    BY <1>1
  <2> QED BY <2>1 DEF Searching
<1> DEFINE found == Answer(sorted, key, range)
<1> HIDE DEF found
<1>4. CASE key = sorted[mid]
  <2>1. found = mid
    BY <1>4 DEF Answer, found
  <2> HIDE DEF mid
  <2>2. Found(sorted, l, key, mid)
    BY <1>2, <1>4 DEF Found
  <2> QED BY <2>1, <2>2 DEF found
<1>5. CASE key < sorted[mid]
  <2>1. range.hi = mid
    <3>1. ASSUME range.hi # mid PROVE FALSE
      <4>1. Narrowed(sorted, key, range) = [range EXCEPT !.hi = mid]
        BY <1>5, <3>1 DEF Narrowed
      <4>2. Narrowed(sorted, key, range).hi = mid
        BY <1>1, <4>1
      <4> QED BY <1>3, <3>1, <4>2
    <3> QED BY <3>1
  <2>2. range.lo # range.hi
    BY <1>1, <1>5, <2>1
  <2>3. range.hi = range.lo + 1
    BY <1>1, <2>1, <2>2 DEF Mid
  <2>4. FALSE
    BY <1>1, <2>1, <2>2, <2>3 DEF Mid
  <2> QED BY <2>4
<1>6. CASE key > sorted[mid]
  <2>1. range.lo = mid
    <3>1. ASSUME range.lo # mid PROVE FALSE
      <4>1. ~(key < sorted[mid])
        BY <1>2, <1>6
      <4>2. Narrowed(sorted, key, range) = [range EXCEPT !.lo = mid]
        BY <1>6, <3>1, <4>1 DEF Narrowed
      <4>3. Narrowed(sorted, key, range).lo = mid
        BY <1>1, <4>2
      <4> QED BY <1>3, <3>1, <4>3
    <3> QED BY <3>1
  <2>2. range.hi <= range.lo + 1
    BY <1>1, <2>1 DEF Mid
  <2>3. found = IF sorted[range.hi] = key THEN range.hi ELSE -(range.hi + 1)
    <3>1. ~(key < sorted[mid]) /\ key # sorted[mid]
      BY <1>2, <1>6
    <3> QED BY <3>1 DEF Answer, NotFound, found
  <2>4. CASE sorted[range.hi] = key
    <3>1. Found(sorted, l, key, range.hi)
      BY <1>1, <2>4 DEF Found
    <3> QED BY <2>3, <2>4, <3>1 DEF found
  <2>5. CASE sorted[range.hi] # key
    <3>1. /\ found = -(range.hi + 1) /\ sorted[range.hi] > key
          /\ -found - 1 = range.hi /\ -found - 2 = range.hi - 1
      BY <1>1, <2>3, <2>5
    <3>2. ASSUME NEW j \in 0..(range.hi - 1) PROVE sorted[j] < key
      <4>1. j \in 0..(l - 1) /\ j <= range.lo
        BY <1>1, <2>2
      <4>2. sorted[j] <= sorted[range.lo] /\ sorted[range.lo] < key
        BY <1>1, <1>6, <2>1, <4>1
      <4> QED BY <1>1, <4>1, <4>2
    <3>3. ASSUME NEW j \in range.hi..(l - 1) PROVE sorted[j] > key
      <4>1. j \in 0..(l - 1) /\ range.hi <= j
        BY <1>1
      <4>2. sorted[range.hi] <= sorted[j]
        BY <1>1, <4>1
      <4> QED BY <1>1, <3>1, <4>1, <4>2
    <3>4. ~\E j \in 0..(l - 1) : sorted[j] = key
      <4> SUFFICES ASSUME NEW j \in 0..(l - 1), sorted[j] = key PROVE FALSE
        OBVIOUS
      <4>1. j \in 0..(range.hi - 1) \/ j \in range.hi..(l - 1)
        BY <1>1
      <4> QED BY <3>2, <3>3, <4>1
    <3>5. Found(sorted, l, key, found)
      BY <1>1, <3>1, <3>2, <3>3, <3>4 DEF Found
    <3> QED BY <3>5 DEF found
  <2> QED BY <2>4, <2>5
<1>7. key = sorted[mid] \/ key < sorted[mid] \/ key > sorted[mid]
  BY <1>2
<1> QED BY <1>4, <1>5, <1>6, <1>7

LEMMA BinarySearchIs ==
  ASSUME NEW l \in Nat, NEW sorted \in [0..(l - 1) -> Int],
         \A i, j \in 0..(l - 1) : i <= j => sorted[i] <= sorted[j], NEW key \in Int
  PROVE  Found(sorted, l, key, binarySearchBy(sorted, key))
<1> DEFINE first == [lo |-> 0, hi |-> l - 1]
           Is(f) == f = [n \in Nat |-> IF n = 0 THEN first ELSE Narrowed(sorted, key, f[n - 1])]
           found == binarySearchBy(sorted, key)
           Start(c) == [lo |-> 0, hi |-> c - 1]
           RangeOf(c) == CHOOSE f : f = [n \in Nat |-> IF n = 0 THEN Start(c)
                                                      ELSE Narrowed(sorted, key, f[n - 1])]
           AnswerOf(c) == IF c = 0 \/ key < sorted[0] THEN -1
                          ELSE IF key > sorted[c - 1] THEN -(c + 1)
                          ELSE Answer(sorted, key, RangeOf(c)[c])
           range == RangeOf(l)
<1>1. Cardinality(DOMAIN sorted) = l /\ DOMAIN sorted = 0..(l - 1)
  BY CountedFrom0
<1>2. found = IF l = 0 \/ key < sorted[0] THEN -1
              ELSE IF key > sorted[l - 1] THEN -(l + 1)
              ELSE Answer(sorted, key, range[l])
  <2>1. found = AnswerOf(Cardinality(DOMAIN sorted))
    BY Zenon DEF binarySearchBy
  <2> HIDE DEF found, AnswerOf
  <2>2. found = AnswerOf(l)
    BY <1>1, <2>1
  <2> QED BY <2>2 DEF AnswerOf
<1>0. range = CHOOSE f : Is(f)
  OBVIOUS
<1> HIDE DEF found, range
<1>3. CASE l = 0 \/ key < sorted[0]
  <2>0. found = -1
    BY <1>2, <1>3
  <2>1. -found - 1 = 0 /\ -found - 2 = 0 - 1
    <3>1. found \in Int /\ found + 1 = 0
      BY <2>0
    <3> HIDE <2>0
    <3> QED BY <3>1
  <2>2. ASSUME NEW j \in 0..(l - 1) PROVE sorted[j] > key
    <3>1. sorted[0] <= sorted[j] /\ key < sorted[0] /\ sorted[0] \in Int /\ sorted[j] \in Int
      BY <1>3
    <3> QED BY <3>1
  <2>3. ~\E j \in 0..(l - 1) : sorted[j] = key
    BY <2>2
  <2>4. Found(sorted, l, key, found)
    BY <2>1, <2>2, <2>3 DEF Found
  <2> QED BY <2>4 DEF found
<1>4. CASE ~(l = 0 \/ key < sorted[0]) /\ key > sorted[l - 1]
  <2>1. found = -(l + 1) /\ -found - 1 = l /\ -found - 2 = l - 1 /\ l > 0
    BY <1>2, <1>4
  <2>2. ASSUME NEW j \in 0..(l - 1) PROVE sorted[j] < key
    <3>1. sorted[j] <= sorted[l - 1] /\ sorted[l - 1] \in Int /\ sorted[j] \in Int
      BY <2>1
    <3> QED BY <1>4, <3>1
  <2>3. ~\E j \in 0..(l - 1) : sorted[j] = key
    BY <2>2
  <2>4. \A j \in l..(l - 1) : FALSE
    OBVIOUS
  <2>5. Found(sorted, l, key, found)
    BY <2>1, <2>2, <2>3, <2>4 DEF Found
  <2> QED BY <2>5 DEF found
<1>5. CASE ~(l = 0 \/ key < sorted[0]) /\ ~(key > sorted[l - 1])
  <2>1. \E f : Is(f)
    <3> DEFINE R == [lo : 0..(l - 1), hi : 0..(l - 1)]
               G == [r \in R |-> Narrowed(sorted, key, r)]
    <3>1. first \in R
      BY <1>5
    <3>2. ASSUME NEW r \in R PROVE Narrowed(sorted, key, r) \in R
      <4>1. Mid(r) \in 0..(l - 1)
        BY DEF Mid
      <4> QED BY <4>1 DEF Narrowed
    <3> HIDE DEF R, first
    <3>3. G \in [R -> R]
      BY <3>2
    <3> HIDE DEF G
    <3>4. PICK f \in [Nat -> R] : Iterates(f, G, first)
      BY <3>1, <3>3, Iteration
    <3>5. ASSUME NEW n \in Nat PROVE f[n] = IF n = 0 THEN first ELSE Narrowed(sorted, key, f[n - 1])
      <4>1. CASE n = 0
        BY <3>4, <4>1 DEF Iterates
      <4>2. CASE n # 0
        <5>1. n - 1 \in Nat /\ (n - 1) + 1 = n
          BY <4>2
        <5>2. f[n] = G[f[n - 1]] /\ f[n - 1] \in R
          BY <3>4, <5>1 DEF Iterates
        <5> QED BY <4>2, <5>2 DEF G
      <4> QED BY <4>1, <4>2
    <3>6. f = [n \in Nat |-> IF n = 0 THEN first ELSE Narrowed(sorted, key, f[n - 1])]
      BY <3>4, <3>5
    <3> QED BY <3>6 DEF first
  <2>2. Is(range)
    <3> HIDE DEF Is
    <3> QED BY <1>0, <2>1
  <2>3. range[0] = first /\ \A n \in Nat : range[n + 1] = Narrowed(sorted, key, range[n])
    BY <2>2
  <2>4. Searching(sorted, key, l, 0, range[0])
    <3>1. sorted[0] \in Int /\ sorted[l - 1] \in Int /\ 0 \in 0..(l - 1) /\ l - 1 \in 0..(l - 1)
      BY <1>5
    <3> QED BY <1>5, <2>3, <3>1 DEF Searching
  <2> DEFINE S == {n \in Nat : Searching(sorted, key, l, n, range[n])}
  <2>5. 0 \in S
    BY <2>4
  <2>6. ASSUME NEW n \in Nat, n \in S PROVE n + 1 \in S
    <3>1. Searching(sorted, key, l, n + 1, Narrowed(sorted, key, range[n]))
      BY <2>6, NarrowedIs
    <3>2. range[n + 1] = Narrowed(sorted, key, range[n])
      BY <2>3
    <3>3. Searching(sorted, key, l, n + 1, range[n + 1])
      BY <3>1, <3>2
    <3> QED BY <3>3
  <2> HIDE DEF S
  <2>7. \A n \in Nat : n \in S
    BY <2>5, <2>6, Induction
  <2>8. Searching(sorted, key, l, l, range[l])
    BY <2>7 DEF S
  <2>9. Found(sorted, l, key, Answer(sorted, key, range[l]))
    BY <2>8, AnswerIs
  <2> QED BY <1>2, <1>5, <2>9 DEF found
<1> QED BY <1>3, <1>4, <1>5

(* On what the sort leaves, binarySearchBy finds a key exactly if it is there, and otherwise
   tells where it would have to go. *)
THEOREM SearchIsExact == SortSpec => []SearchFindsTheKey
<1>1. SortInv => SearchFindsTheKey
  <2> SUFFICES ASSUME SortInv, output # <<>> PROVE SearchFindsTheKey
    BY DEF SearchFindsTheKey
  <2> DEFINE keys == [i \in DOMAIN output |-> output[i].key]
  <2>1. PICK l \in Nat :
          /\ input \in [0..(l - 1) -> Item]
          /\ \A i \in 0..(l - 1) : input[i].place = i
          /\ output = <<>> \/ Sorted(output, l, Taken(input, l))
    BY DEF SortInv
  <2>2. /\ output \in [0..(l - 1) -> Item]
        /\ \A i, j \in 0..(l - 1) : i < j => Before(output[i], output[j])
    BY <2>1 DEF Sorted
  <2>3. keys \in [0..(l - 1) -> Int]
    BY <2>2 DEF Item
  <2>4. ASSUME NEW i \in 0..(l - 1), NEW j \in 0..(l - 1), i <= j PROVE keys[i] <= keys[j]
    <3>1. keys[i] = output[i].key /\ keys[j] = output[j].key /\ keys[i] \in Int /\ keys[j] \in Int
      BY <2>2, <2>3
    <3> HIDE DEF keys
    <3>2. CASE i = j
      BY <3>1, <3>2
    <3>3. CASE i < j
      BY <2>2, <3>1, <3>3 DEF Before
    <3> QED BY <2>4, <3>2, <3>3
  <2>5. DOMAIN keys = 0..(l - 1) /\ Cardinality(DOMAIN keys) = l
    BY <2>3, CountedFrom0
  <2> HIDE DEF keys
  <2>6. ASSUME NEW k \in SearchKeys PROVE Found(keys, l, k, binarySearchBy(keys, k))
    <3>1. k \in Int
      BY SortAssumption
    <3> QED BY <2>3, <2>4, <3>1, BinarySearchIs
  <2>7. ASSUME NEW k \in SearchKeys
        PROVE LET i == binarySearchBy(keys, k)
              IN IF \E j \in DOMAIN keys : keys[j] = k THEN i \in DOMAIN keys /\ keys[i] = k
                 ELSE /\ -i - 1 \in 0..l
                      /\ \A j \in 0..(-i - 2) : keys[j] < k
                      /\ \A j \in (-i - 1)..(l - 1) : keys[j] > k
    BY <2>5, <2>6 DEF Found
  <2> QED BY <2>5, <2>7 DEF SearchFindsTheKey, keys
<1> QED BY <1>1, SortInvInit, SortInvNext, PTL DEF SortSpec
=============================================================================
