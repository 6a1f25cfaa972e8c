------------------------------- MODULE SqlPool -------------------------------
(***************************************************************************)
(* cgimysql/sql_connection_pool.cpp: connection_pool and the connectionRAII*)
(* by which each worker borrows a MySQL connection around process          *)
(* (threadpool.h:129).  GetConnection looks at the list without the lock,  *)
(* then waits on the semaphore, then locks and pops; ReleaseConnection     *)
(* locks and pushes, then posts.                                           *)
(***************************************************************************)
EXTENDS Integers, Sequences, FiniteSets

CONSTANTS
  Threads,    \* the threads that use the pool
  Conns,      \* the MYSQL handles mysql_init may return
  NULL,       \* no handle
  MaxInterrupts   \* bound: how many waits a signal may end

ASSUME SqlPoolAssumption ==
  /\ IsFiniteSet(Threads) /\ IsFiniteSet(Conns)
  /\ NULL \notin Conns
  /\ MaxInterrupts \in Nat

VARIABLES
  MaxConn,    \* how many connections init has opened
  connList,   \* the free connections
  reserve,    \* the value of the semaphore
  thread,     \* where each thread is, and conRAII, the connection it has
  interrupts  \* the waits that a signal has ended

vars == <<MaxConn, connList, reserve, thread, interrupts>>

\* init has opened the connections it was asked for and set the semaphore.
Init ==
  /\ MaxConn \in 1 .. Cardinality(Conns)
  /\ connList \in {s \in [1 .. MaxConn -> Conns] : \A i, j \in 1 .. MaxConn : s[i] = s[j] => i = j}
  /\ reserve = MaxConn
  /\ thread = [t \in Threads |-> [pc |-> "out", con |-> NULL]]
  /\ interrupts = 0

At(t, pc) == thread[t].pc = pc
GoTo(t, pc, con) == thread' = [thread EXCEPT ![t] = [pc |-> pc, con |-> con]]
-----------------------------------------------------------------------------
(* connectionRAII's constructor: GetConnection.                            *)

\* if (0 == connList.size()), without the lock: use the handle NULL, or go on.
CheckSize(t) ==
  /\ At(t, "out")
  /\ GoTo(t, IF connList = <<>> THEN "use" ELSE "wait", NULL)
  /\ UNCHANGED <<MaxConn, connList, reserve, interrupts>>

Wait_Try(t) ==                     \* does not wait for the semaphore to be positive
  /\ At(t, "wait")
  /\ reserve' = reserve - 1
  /\ GoTo(t, "lock", NULL)
  /\ UNCHANGED <<MaxConn, connList, interrupts>>

Wait_Mut(t) ==                     \* the semaphore is not taken
  /\ At(t, "wait") /\ reserve > 0
  /\ GoTo(t, "lock", NULL)
  /\ UNCHANGED <<MaxConn, connList, reserve, interrupts>>

Wait(t) ==
  /\ At(t, "wait") /\ reserve > 0
  /\ reserve' = reserve - 1
  /\ GoTo(t, "lock", NULL)
  /\ UNCHANGED <<MaxConn, connList, interrupts>>

\* A signal ends a wait that blocks; its result is ignored.
Interrupted(t) ==
  /\ At(t, "wait") /\ reserve = 0
  /\ interrupts < MaxInterrupts
  /\ interrupts' = interrupts + 1
  /\ GoTo(t, "lock", NULL)
  /\ UNCHANGED <<MaxConn, connList, reserve>>

Pop_Mut(t) ==                      \* front without pop_front
  /\ At(t, "lock") /\ connList # <<>>
  /\ GoTo(t, "use", Head(connList))
  /\ UNCHANGED <<MaxConn, connList, reserve, interrupts>>

\* lock; front and pop_front; unlock.
Pop(t) ==
  /\ At(t, "lock") /\ connList # <<>>
  /\ GoTo(t, "use", Head(connList))
  /\ connList' = Tail(connList)
  /\ UNCHANGED <<MaxConn, reserve, interrupts>>

\* front and pop_front of an empty list are undefined: whatever this returns,
\* the list is corrupt and the thread is not followed any further.
PopEmpty(t) ==
  /\ At(t, "lock") /\ connList = <<>>
  /\ GoTo(t, "undefined", NULL)
  /\ UNCHANGED <<MaxConn, connList, reserve, interrupts>>
-----------------------------------------------------------------------------
(* connectionRAII's destructor: ReleaseConnection.                         *)

\* if (NULL == con) return false.
ReleaseNull(t) ==
  /\ At(t, "use") /\ thread[t].con = NULL
  /\ GoTo(t, "out", NULL)
  /\ UNCHANGED <<MaxConn, connList, reserve, interrupts>>

Push_Mut(t) ==                     \* the connection is not put back
  /\ At(t, "use") /\ thread[t].con # NULL
  /\ GoTo(t, "post", NULL)
  /\ UNCHANGED <<MaxConn, connList, reserve, interrupts>>

\* lock; push_back; unlock.
Push(t) ==
  /\ At(t, "use") /\ thread[t].con # NULL
  /\ connList' = Append(connList, thread[t].con)
  /\ GoTo(t, "post", NULL)
  /\ UNCHANGED <<MaxConn, reserve, interrupts>>

Post_Mut(t) ==                     \* posts only if a thread may be waiting
  /\ At(t, "post")
  /\ reserve' = IF reserve = 0 THEN 1 ELSE reserve
  /\ GoTo(t, "out", NULL)
  /\ UNCHANGED <<MaxConn, connList, interrupts>>

Post(t) ==
  /\ At(t, "post")
  /\ reserve' = reserve + 1
  /\ GoTo(t, "out", NULL)
  /\ UNCHANGED <<MaxConn, connList, interrupts>>
-----------------------------------------------------------------------------
Get(t) == CheckSize(t) \/ Wait(t) \/ Interrupted(t) \/ Pop(t) \/ PopEmpty(t)
Release(t) == ReleaseNull(t) \/ Push(t) \/ Post(t)

Next == \E t \in Threads : Get(t) \/ Release(t)

Spec == Init /\ [][Next]_vars

\* A thread in the pool's code keeps running and process ends; nobody has to
\* ask for a connection, and no signal has to come.  The semaphore need not be
\* fair: a waiter is woken only if it could be at any time.
FairSpec ==
  /\ Spec
  /\ \A t \in Threads : WF_vars(Wait(t)) /\ WF_vars(Pop(t)) /\ WF_vars(Release(t))
-----------------------------------------------------------------------------
TypeOK ==
  /\ MaxConn \in Nat
  /\ connList \in Seq(Conns)
  /\ reserve \in Nat
  /\ thread \in [Threads -> [pc : {"out", "wait", "lock", "use", "post", "undefined"},
                             con : Conns \cup {NULL}]]
  /\ interrupts \in 0 .. MaxInterrupts

Held(t) == thread[t].con
Holders == {t \in Threads : Held(t) # NULL}

(* A connection is free or with one thread: none is lost or given to two   *)
(* threads, whose queries would mix on its socket                          *)
(* (sql_connection_pool.cpp:85-86, 104).                                   *)
OneUser ==
  /\ \A i, j \in DOMAIN connList : connList[i] = connList[j] => i = j
  /\ \A t \in Holders : /\ \A i \in DOMAIN connList : connList[i] # Held(t)
                        /\ \A u \in Holders : Held(t) = Held(u) => t = u
  /\ Len(connList) + Cardinality(Holders) = MaxConn

\* The threads past the wait that have not posted yet.
Admitted == {t \in Threads : thread[t].pc \in {"lock", "post", "undefined"} \/ Held(t) # NULL}

(* The semaphore drifts from the free connections by exactly the waits     *)
(* that a signal ended: each of them lets one thread too many past it, and *)
(* is never made up for (sql_connection_pool.cpp:81, 110).                 *)
ReserveCounts == reserve + Cardinality(Admitted) = MaxConn + interrupts

(* With at most as many threads as connections (main.cpp:124 opens 8 for   *)
(* the 8 workers) every request for a connection is met: no thread goes on *)
(* with NULL and none pops the empty list, although neither the size check *)
(* nor an interrupted wait is followed by another look at the list.        *)
GetsConnection ==
  Cardinality(Threads) <= MaxConn =>
    \A t \in Threads : /\ thread[t].pc = "use" => thread[t].con # NULL
                       /\ thread[t].pc # "undefined"

(* With as many connections, a thread that waits for one has one in the    *)
(* end, although the semaphore need not be fair and other threads keep     *)
(* asking (sql_connection_pool.cpp:81, 110).                               *)
WaiterIsServed ==
  \A t \in Threads :
    (Cardinality(Threads) <= MaxConn /\ thread[t].pc = "wait") ~> thread[t].pc = "use"
=============================================================================
