------------------------------ MODULE WorkQueue ------------------------------
(***************************************************************************)
(* What threadpool/threadpool.h promises the main thread: a bounded queue. *)
(* append puts a request in it or refuses it, every request in it is given *)
(* to one worker, oldest first, and while the pool lives none of them is   *)
(* left lying with a worker idle.  Server relies on it; ThreadPool, with   *)
(* its mutex and its semaphore, is shown to implement it, and so is Log's  *)
(* block_queue, with its condition variable, and the thread that empties   *)
(* it into the log file.                                                   *)
(***************************************************************************)
EXTENDS Naturals, Sequences

CONSTANTS
  Requests,        \* what can be appended
  Workers,         \* the threads of the pool
  NoRequest,       \* what an idle worker is doing; not in Requests
  m_max_requests   \* the capacity, at least 1

VARIABLES
  queue,    \* the requests accepted and not begun
  doing,    \* the request of each worker
  stopped   \* the pool has been destroyed

queueVars == <<queue, doing, stopped>>

Init ==
  /\ queue = <<>>
  /\ doing = [w \in Workers |-> NoRequest]
  /\ stopped = FALSE

Put(r) ==
  /\ Len(queue) < m_max_requests
  /\ queue' = Append(queue, r)
  /\ UNCHANGED <<doing, stopped>>

Get(w) ==
  /\ doing[w] = NoRequest /\ queue # <<>>
  /\ doing' = [doing EXCEPT ![w] = Head(queue)]
  /\ queue' = Tail(queue)
  /\ UNCHANGED stopped

Finish(w) ==
  /\ doing[w] # NoRequest
  /\ doing' = [doing EXCEPT ![w] = NoRequest]
  /\ UNCHANGED <<queue, stopped>>

Stop ==
  /\ stopped' = TRUE
  /\ UNCHANGED <<queue, doing>>

Next ==
  \/ \E r \in Requests : Put(r)
  \/ \E w \in Workers : Get(w) \/ Finish(w)
  \/ Stop

Spec == Init /\ [][Next]_queueVars

\* The fairness is part of the promise: requests are begun and finished.
Promise ==
  /\ Spec
  /\ WF_queueVars(~stopped /\ \E w \in Workers : Get(w))
  /\ \A w \in Workers : WF_queueVars(Finish(w))
=============================================================================
