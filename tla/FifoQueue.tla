----------------------------- MODULE FifoQueue -----------------------------
(***************************************************************************)
(* The queue of rewatch/src/queue.rs: a VecDeque behind a mutex, with a    *)
(* condition variable for the threads that pop an empty one.  What is done *)
(* under the mutex is one step; a thread in Condvar::wait has released the *)
(* mutex and, once woken, takes it again among all the others, so that     *)
(* another thread may have been faster.                                    *)
(***************************************************************************)
EXTENDS Naturals, Sequences, FiniteSets

CONSTANTS Value, Consumer, NoValue,
  MaxLen     \* a bound on the queue, for TLC

ASSUME QueueAssumption == NoValue \notin Value /\ IsFiniteSet(Consumer) /\ MaxLen \in Nat

VARIABLES
  data,      \* the VecDeque
  waiting,   \* threads in cv.wait
  woken,     \* threads that were woken there and have not got the mutex yet
  answer     \* what the last pop of each thread returned

queueVars == <<data, waiting, woken, answer>>

QueueTypeOK ==
  /\ data \in Seq(Value)
  /\ waiting \subseteq Consumer
  /\ woken \subseteq Consumer \ waiting
  /\ answer \in [Consumer -> Value \cup {NoValue}]

QueueInit ==
  /\ data = <<>>
  /\ waiting = {} /\ woken = {}
  /\ answer = [c \in Consumer |-> NoValue]

(* notify_one wakes one of the waiting threads, if there is one. *)
notify_one_Lost == UNCHANGED <<waiting, woken>>
notify_one ==
  \/ waiting = {} /\ UNCHANGED <<waiting, woken>>
  \/ \E c \in waiting : waiting' = waiting \ {c} /\ woken' = woken \cup {c}

push(v) ==
  /\ Len(data) < MaxLen
  /\ data' = Append(data, v)
  /\ notify_one
  /\ UNCHANGED answer

(* pop_front, of the front; the fault takes from the back. *)
pop_front_Back(c) ==
  /\ answer' = [answer EXCEPT ![c] = data[Len(data)]]
  /\ data' = SubSeq(data, 1, Len(data) - 1)
pop_front(c) ==
  /\ answer' = [answer EXCEPT ![c] = Head(data)]
  /\ data' = Tail(data)

(* The mutex is taken, by a call of pop or after a wait. *)
pop(c) ==
  /\ c \notin waiting
  /\ woken' = woken \ {c}
  /\ \/ data = <<>> /\ waiting' = waiting \cup {c} /\ UNCHANGED <<data, answer>>
     \/ data # <<>> /\ pop_front(c) /\ UNCHANGED waiting

(* Condvar::wait may return without a notification. *)
SpuriousWakeup(c) ==
  /\ c \in waiting
  /\ waiting' = waiting \ {c} /\ woken' = woken \cup {c}
  /\ UNCHANGED <<data, answer>>

QueueNext ==
  \/ \E v \in Value : push(v)
  \/ \E c \in Consumer : pop(c) \/ SpuriousWakeup(c)

QueueSpec == QueueInit /\ [][QueueNext]_queueVars

-----------------------------------------------------------------------------
(* No wake-up is lost: while a thread sleeps in pop, every value in the queue has a
   thread of its own that was woken for it and has still to take the mutex. *)
NoLostWakeup == waiting # {} => Len(data) <= Cardinality(woken)

(* First in, first out, each value once: with its waits left out the queue does what
   AtomicQueue does, whichever threads push and pop at the same time. *)
Atomic == INSTANCE AtomicQueue WITH items <- data, popped <- answer
ImplementsAtomicQueue == Atomic!AtomicSpec
=============================================================================
