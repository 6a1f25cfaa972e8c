----------------------------- MODULE BlockQueue ------------------------------
(***************************************************************************)
(* log/block_queue.h: block_queue, a bounded queue in a circular array     *)
(* with a mutex and a condition variable, as far as the log uses it: full, *)
(* push and the pop that waits.  Each of them is one critical section of   *)
(* m_mutex, or the part of one up to the wait, and so one step here.       *)
(***************************************************************************)
EXTENDS Integers, Sequences

CONSTANTS
  Items,       \* what may be in the queue
  Consumers,   \* the threads that pop
  m_max_size,  \* the length of the array
  NULL         \* no item

ASSUME BlockQueueAssumption ==
  /\ m_max_size \in Nat \ {0}     \* the constructor ends the program otherwise
  /\ NULL \notin Items

VARIABLES
  m_array, m_size, m_front, m_back,
  waiting      \* the consumers in m_cond.wait

queueVars == <<m_array, m_size, m_front, m_back, waiting>>

QueueInit ==
  /\ m_array = [i \in 0 .. m_max_size - 1 |-> NULL]
  /\ m_size = 0 /\ m_front = -1 /\ m_back = -1
  /\ waiting = {}

QueueTypeOK ==
  /\ m_array \in [0 .. m_max_size - 1 -> Items \cup {NULL}]
  /\ m_size \in 0 .. m_max_size
  /\ m_front \in -1 .. m_max_size - 1 /\ m_back \in -1 .. m_max_size - 1
  /\ waiting \subseteq Consumers

\* Where an index is in the circular array.
Slot(i) == i % m_max_size

full == m_size >= m_max_size

push_NoCheck(item) ==              \* an item is overwritten when the array is full
  /\ m_back' = Slot(m_back + 1)
  /\ m_array' = [m_array EXCEPT ![m_back'] = item]
  /\ m_size' = m_size + 1
  /\ waiting' = {}
  /\ UNCHANGED m_front

push_NoSignal(item) ==             \* wakes a consumer only when the queue is full
  /\ IF full
       THEN waiting' = {} /\ UNCHANGED <<m_array, m_size, m_back>>
       ELSE /\ m_back' = Slot(m_back + 1)
            /\ m_array' = [m_array EXCEPT ![m_back'] = item]
            /\ m_size' = m_size + 1
            /\ UNCHANGED waiting
  /\ UNCHANGED m_front

\* push refuses when the array is full; it wakes every consumer either way.
push(item) ==
  /\ IF full
       THEN UNCHANGED <<m_array, m_size, m_back>>
       ELSE /\ m_back' = Slot(m_back + 1)
            /\ m_array' = [m_array EXCEPT ![m_back'] = item]
            /\ m_size' = m_size + 1
  /\ waiting' = {}
  /\ UNCHANGED m_front

\* pop finds the queue empty: it unlocks and waits.
popWaits(c) ==
  /\ c \notin waiting /\ m_size <= 0
  /\ waiting' = waiting \cup {c}
  /\ UNCHANGED <<m_array, m_size, m_front, m_back>>

\* A wait may end without a broadcast; pop looks at m_size again.
Spurious(c) ==
  /\ c \in waiting
  /\ waiting' = waiting \ {c}
  /\ UNCHANGED <<m_array, m_size, m_front, m_back>>

pop_Stay(c, item) ==               \* m_front stays where it is
  /\ c \notin waiting /\ m_size > 0
  /\ item = m_array[Slot(m_front + 1)]
  /\ m_size' = m_size - 1
  /\ UNCHANGED <<m_array, m_front, m_back, waiting>>

pop_Back(c, item) ==               \* takes the newest item
  /\ c \notin waiting /\ m_size > 0
  /\ item = m_array[m_back]
  /\ m_back' = Slot(m_back - 1)
  /\ m_size' = m_size - 1
  /\ UNCHANGED <<m_array, m_front, waiting>>

\* The rest of pop, which returns item.
pop(c, item) ==
  /\ c \notin waiting /\ m_size > 0
  /\ m_front' = Slot(m_front + 1)
  /\ item = m_array[m_front']
  /\ m_size' = m_size - 1
  /\ UNCHANGED <<m_array, m_back, waiting>>

\* What is in the queue, oldest first.
Content == [i \in 1 .. m_size |-> m_array[Slot(m_front + i)]]
=============================================================================
