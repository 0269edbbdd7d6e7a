------------------------------- MODULE Queues -------------------------------
(***************************************************************************)
(* What Belt.MutableQueue promises (Belt_MutableQueue.resi): each queue is *)
(* a sequence, and the queues of a program are independent of each other.  *)
(***************************************************************************)
EXTENDS Sequences

CONSTANTS Queue, Element, Nothing

VARIABLES
  contents,   \* of each queue, the oldest first
  taken       \* what the last pop returned

Replace(q, s) == contents' = [contents EXCEPT ![q] = s] /\ UNCHANGED taken

Pop(q) ==
  \/ contents[q] = <<>> /\ taken' = Nothing /\ UNCHANGED contents
  \/ /\ contents[q] # <<>>
     /\ taken' = Head(contents[q])
     /\ contents' = [contents EXCEPT ![q] = Tail(@)]

Transfer(q1, q2) ==
  /\ contents' = [contents EXCEPT ![q2] = @ \o contents[q1], ![q1] = <<>>]
  /\ UNCHANGED taken

QueuesInit == contents = [q \in Queue |-> <<>>] /\ taken = Nothing

QueuesNext ==
  \E q, r \in Queue :
    \/ Replace(q, <<>>)
    \/ \E x \in Element : Replace(q, Append(contents[q], x))
    \/ Pop(q)
    \/ \E f \in [Element -> Element] :
         Replace(r, [i \in DOMAIN contents[q] |-> f[contents[q][i]]])
    \/ Transfer(q, r)

QueuesSpec == QueuesInit /\ [][QueuesNext]_<<contents, taken>>
=============================================================================
