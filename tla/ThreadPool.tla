----------------------------- MODULE ThreadPool -----------------------------
(***************************************************************************)
(* threadpool/threadpool.h with the sem and locker of lock/locker.h: the   *)
(* main thread appends, the workers wait on the semaphore, lock, pop,      *)
(* unlock and process.  The queue changes only under the mutex, the        *)
(* semaphore is posted after the unlock, and run ignores the result of     *)
(* wait: SIGALRM is delivered to any thread and its handler is installed   *)
(* without SA_RESTART (main.cpp:178), so that a wait may return having     *)
(* taken nothing.                                                          *)
(***************************************************************************)
EXTENDS Naturals, Sequences, FiniteSets

CONSTANTS
  Workers,          \* the m_thread_number threads
  NULL,             \* no thread, no request
  m_max_requests,
  MaxAppends        \* bound: how often the main thread calls append

ASSUME ThreadPoolAssumption ==
  /\ IsFiniteSet(Workers)
  /\ NULL \notin Workers /\ NULL \notin Nat
  /\ m_max_requests \in Nat \ {0}
  /\ MaxAppends \in Nat

VARIABLES
  m_workqueue,
  m_queuelocker,    \* NULL, a worker or "main": who has locked it
  m_queuestat,      \* the value of the semaphore
  m_stop,
  main,             \* append: "out", "locked" or "post", and the calls so far
  worker            \* run: where each worker is, and its request

vars == <<m_workqueue, m_queuelocker, m_queuestat, m_stop, main, worker>>

\* The n-th call of append has the request n.
Requests == 1 .. MaxAppends

Init ==
  /\ m_workqueue = <<>> /\ m_queuelocker = NULL
  /\ m_queuestat = 0 /\ m_stop = FALSE
  /\ main = [pc |-> "out", calls |-> 0]
  /\ worker = [w \in Workers |-> [pc |-> "test", request |-> NULL]]
-----------------------------------------------------------------------------
(* append.                                                                 *)

AppendLock ==
  /\ main.pc = "out" /\ main.calls < MaxAppends
  /\ ~m_stop                       \* main destroys the pool when its loop is over
  /\ m_queuelocker = NULL
  /\ m_queuelocker' = "main"
  /\ main' = [pc |-> "locked", calls |-> main.calls + 1]
  /\ UNCHANGED <<m_workqueue, m_queuestat, m_stop, worker>>

Full_Mut == Len(m_workqueue) > m_max_requests

Full == Len(m_workqueue) >= m_max_requests

\* return false.
AppendRefused ==
  /\ main.pc = "locked" /\ Full
  /\ m_queuelocker' = NULL
  /\ main' = [main EXCEPT !.pc = "out"]
  /\ UNCHANGED <<m_workqueue, m_queuestat, m_stop, worker>>

AppendPush_Mut ==                  \* only a request for an empty queue is announced
  /\ main.pc = "locked" /\ ~Full
  /\ m_workqueue' = Append(m_workqueue, main.calls)
  /\ m_queuelocker' = NULL
  /\ main' = [main EXCEPT !.pc = IF m_workqueue = <<>> THEN "post" ELSE "out"]
  /\ UNCHANGED <<m_queuestat, m_stop, worker>>

\* push_back and unlock.
AppendPush ==
  /\ main.pc = "locked" /\ ~Full
  /\ m_workqueue' = Append(m_workqueue, main.calls)
  /\ m_queuelocker' = NULL
  /\ main' = [main EXCEPT !.pc = "post"]
  /\ UNCHANGED <<m_queuestat, m_stop, worker>>

AppendPost ==
  /\ main.pc = "post"
  /\ m_queuestat' = m_queuestat + 1
  /\ main' = [main EXCEPT !.pc = "out"]
  /\ UNCHANGED <<m_workqueue, m_queuelocker, m_stop, worker>>

\* ~threadpool, as far as the workers can tell: nobody joins or wakes them.
Destroy ==
  /\ main.pc = "out" /\ ~m_stop
  /\ m_stop' = TRUE
  /\ UNCHANGED <<m_workqueue, m_queuelocker, m_queuestat, main, worker>>
-----------------------------------------------------------------------------
(* run.                                                                    *)

At(w, pc) == worker[w].pc = pc
GoTo(w, pc, r) == worker' = [worker EXCEPT ![w] = [pc |-> pc, request |-> r]]

\* while(!m_stop)
Test(w) ==
  /\ At(w, "test")
  /\ GoTo(w, IF m_stop THEN "ended" ELSE "wait", NULL)
  /\ UNCHANGED <<m_workqueue, m_queuelocker, m_queuestat, m_stop, main>>

Wait(w) ==
  /\ At(w, "wait") /\ m_queuestat > 0
  /\ m_queuestat' = m_queuestat - 1
  /\ GoTo(w, "lock", NULL)
  /\ UNCHANGED <<m_workqueue, m_queuelocker, m_stop, main>>

\* A signal ends a wait that blocks; the semaphore is as it was.
Interrupted(w) ==
  /\ At(w, "wait") /\ m_queuestat = 0
  /\ GoTo(w, "lock", NULL)
  /\ UNCHANGED <<m_workqueue, m_queuelocker, m_queuestat, m_stop, main>>

Lock(w) ==
  /\ At(w, "lock") /\ m_queuelocker = NULL
  /\ m_queuelocker' = w
  /\ GoTo(w, "locked", NULL)
  /\ UNCHANGED <<m_workqueue, m_queuestat, m_stop, main>>

\* The queue is empty: unlock and continue.
Nothing(w) ==
  /\ At(w, "locked") /\ m_workqueue = <<>>
  /\ m_queuelocker' = NULL
  /\ GoTo(w, "test", NULL)
  /\ UNCHANGED <<m_workqueue, m_queuestat, m_stop, main>>

Pop_Mut(w) ==                      \* front of a queue that grows at the front
  /\ At(w, "locked") /\ m_workqueue # <<>>
  /\ GoTo(w, "process", m_workqueue[Len(m_workqueue)])
  /\ m_workqueue' = SubSeq(m_workqueue, 1, Len(m_workqueue) - 1)
  /\ m_queuelocker' = NULL
  /\ UNCHANGED <<m_queuestat, m_stop, main>>

\* front, pop_front and unlock.
Pop(w) ==
  /\ At(w, "locked") /\ m_workqueue # <<>>
  /\ GoTo(w, "process", Head(m_workqueue))
  /\ m_workqueue' = Tail(m_workqueue)
  /\ m_queuelocker' = NULL
  /\ UNCHANGED <<m_queuestat, m_stop, main>>

\* request->process returns.
Process(w) ==
  /\ At(w, "process")
  /\ GoTo(w, "test", NULL)
  /\ UNCHANGED <<m_workqueue, m_queuelocker, m_queuestat, m_stop, main>>
-----------------------------------------------------------------------------
MainThread == AppendLock \/ AppendRefused \/ AppendPush \/ AppendPost

Run(w) == Test(w) \/ Wait(w) \/ Lock(w) \/ Nothing(w) \/ Pop(w) \/ Process(w)

Next == MainThread \/ Destroy \/ \E w \in Workers : Run(w) \/ Interrupted(w)

Spec == Init /\ [][Next]_vars

\* Every thread that can run does; no signal and no destruction has to come.
\* The mutex need not be fair.
FairSpec == Spec /\ WF_vars(MainThread) /\ \A w \in Workers : WF_vars(Run(w))
-----------------------------------------------------------------------------
TypeOK ==
  /\ m_workqueue \in Seq(Requests) /\ Len(m_workqueue) <= m_max_requests
  /\ m_queuelocker \in Workers \cup {NULL, "main"}
  /\ m_queuestat \in Nat
  /\ m_stop \in BOOLEAN
  /\ main \in [pc : {"out", "locked", "post"}, calls : 0 .. MaxAppends]
  /\ worker \in [Workers -> [pc : {"test", "wait", "lock", "locked", "process", "ended"},
                             request : Requests \cup {NULL}]]

\* The workers that will look at the queue without waiting first.
Woken == {w \in Workers : worker[w].pc \in {"lock", "locked"}}

(* No request is forgotten although run ignores failed waits and append    *)
(* posts after it has unlocked: every request in the queue is covered by a *)
(* unit of the semaphore, by a worker already on its way to the queue, or  *)
(* by the post that append still owes (threadpool.h:86-90, 107-118).       *)
NoLostWakeup ==
  Len(m_workqueue) <= m_queuestat + Cardinality(Woken) + (IF main.pc = "post" THEN 1 ELSE 0)

Queue == INSTANCE WorkQueue WITH
  NoRequest <- NULL,
  queue     <- m_workqueue,
  doing     <- [w \in Workers |-> worker[w].request],
  stopped   <- m_stop

(* The pool is a bounded FIFO queue that loses, repeats and reorders no    *)
(* request and leaves none lying ("take the first task of the request      *)
(* queue", threadpool.h:116), until it is destroyed.                       *)
ImplementsWorkQueue == Queue!Promise
=============================================================================
