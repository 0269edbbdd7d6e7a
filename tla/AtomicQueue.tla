---------------------------- MODULE AtomicQueue ----------------------------
(***************************************************************************)
(* What the queue between the notifier and the watcher promises            *)
(* (trait Queue of rewatch/src/queue.rs): a push adds a value at the back, *)
(* a pop returns the value that has waited longest and takes it away, each *)
(* in one step.  A pop of an empty queue returns when there is a value.    *)
(***************************************************************************)
EXTENDS Naturals, Sequences

CONSTANTS
  Value,     \* what is put into the queue
  Consumer,  \* the threads that take from it
  NoValue    \* nothing was popped yet

VARIABLES
  items,     \* the values, the oldest first
  popped     \* what the last pop of each thread returned

atomicVars == <<items, popped>>

AtomicInit ==
  /\ items = <<>>
  /\ popped = [c \in Consumer |-> NoValue]

AtomicPush(v) ==
  /\ items' = Append(items, v)
  /\ UNCHANGED popped

AtomicPop(c) ==
  /\ items # <<>>
  /\ popped' = [popped EXCEPT ![c] = Head(items)]
  /\ items' = Tail(items)

AtomicNext ==
  \/ \E v \in Value : AtomicPush(v)
  \/ \E c \in Consumer : AtomicPop(c)

AtomicSpec == AtomicInit /\ [][AtomicNext]_atomicVars
=============================================================================
