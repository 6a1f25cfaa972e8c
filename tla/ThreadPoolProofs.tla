-------------------------- MODULE ThreadPoolProofs --------------------------
(***************************************************************************)
(* Theorems about ThreadPool, for any number of workers, any capacity and  *)
(* any number of calls of append: type correctness with the bound on the   *)
(* queue, that no wake-up is lost, and that every step is a step of the    *)
(* bounded queue of WorkQueue or leaves it alone.                          *)
(***************************************************************************)
EXTENDS ThreadPool, FiniteSetTheorems, TLAPS

\* Where main and a worker hold what.
Holding ==
  /\ main.pc # "out" => main.calls \in Requests
  /\ \A w \in Workers : IF worker[w].pc = "process" THEN worker[w].request \in Requests
                                                   ELSE worker[w].request = NULL

Typed == TypeOK /\ Holding

IInv == Typed /\ NoLostWakeup

LEMMA TypedInit == Init => Typed
<1> SUFFICES ASSUME Init PROVE Typed
  OBVIOUS
<1> USE ThreadPoolAssumption DEF Init
<1>1. m_workqueue \in Seq(Requests) /\ Len(m_workqueue) <= m_max_requests
  OBVIOUS
<1>2. main \in [pc : {"out", "locked", "post"}, calls : 0 .. MaxAppends]
  OBVIOUS
<1>3. worker \in [Workers -> [pc : {"test", "wait", "lock", "locked", "process", "ended"},
                              request : Requests \cup {NULL}]]
  OBVIOUS
<1>4. Holding
  BY DEF Holding
<1> QED
  BY <1>1, <1>2, <1>3, <1>4 DEF Typed, TypeOK

LEMMA TypedStep == Typed /\ [Next]_vars => Typed'
<1> SUFFICES ASSUME Typed, [Next]_vars PROVE Typed'
  OBVIOUS
<1> USE ThreadPoolAssumption DEF Typed, TypeOK, Holding, Requests
<1>1. CASE UNCHANGED vars
  BY <1>1 DEF vars
<1>2. CASE AppendLock
  BY <1>2 DEF AppendLock
<1>3. CASE AppendRefused
  BY <1>3 DEF AppendRefused
<1>4. CASE AppendPush
  BY <1>4 DEF AppendPush, Full
<1>5. CASE AppendPost
  BY <1>5 DEF AppendPost
<1>6. CASE Destroy
  BY <1>6 DEF Destroy
<1>7. ASSUME NEW w \in Workers, Test(w) PROVE Typed'
  BY <1>7 DEF Test, At, GoTo
<1>8. ASSUME NEW w \in Workers, Wait(w) \/ Interrupted(w) PROVE Typed'
  BY <1>8 DEF Wait, Interrupted, At, GoTo
<1>9. ASSUME NEW w \in Workers, Lock(w) PROVE Typed'
  BY <1>9 DEF Lock, At, GoTo
<1>10. ASSUME NEW w \in Workers, Nothing(w) PROVE Typed'
  BY <1>10 DEF Nothing, At, GoTo
<1>11. ASSUME NEW w \in Workers, Pop(w) PROVE Typed'
  BY <1>11 DEF Pop, At, GoTo
<1>12. ASSUME NEW w \in Workers, Process(w) PROVE Typed'
  BY <1>12 DEF Process, At, GoTo
<1> QED
  BY <1>1, <1>2, <1>3, <1>4, <1>5, <1>6, <1>7, <1>8, <1>9, <1>10, <1>11, <1>12
  DEF Next, MainThread, Run

-----------------------------------------------------------------------------
\* The number of woken workers after one of them wakes up or is done.
LEMMA WokenCount ==
  ASSUME Typed, NEW w \in Workers, NEW pc, NEW r, GoTo(w, pc, r)
  PROVE  /\ Cardinality(Woken) \in Nat /\ Cardinality(Woken') \in Nat
         /\ w \notin Woken /\ pc \in {"lock", "locked"} => Cardinality(Woken') = Cardinality(Woken) + 1
         /\ w \notin Woken /\ pc \notin {"lock", "locked"} => Woken' = Woken
         /\ w \in Woken /\ pc \in {"lock", "locked"} => Woken' = Woken
         /\ w \in Woken /\ pc \notin {"lock", "locked"} => Cardinality(Woken') = Cardinality(Woken) - 1
<1>1. IsFiniteSet(Woken) /\ IsFiniteSet(Woken')
  BY FS_Subset, ThreadPoolAssumption DEF Woken
<1>2. Woken' = IF pc \in {"lock", "locked"} THEN Woken \cup {w} ELSE Woken \ {w}
  BY DEF Woken, GoTo, Typed, TypeOK
<1> QED
  BY <1>1, <1>2, FS_CardinalityType, FS_AddElement, FS_RemoveElement

LEMMA NoLostWakeupStep == Typed /\ NoLostWakeup /\ [Next]_vars => NoLostWakeup'
<1> SUFFICES ASSUME Typed, NoLostWakeup, [Next]_vars PROVE NoLostWakeup'
  OBVIOUS
<1> USE DEF NoLostWakeup
<1>a. Cardinality(Woken) \in Nat /\ m_queuestat \in Nat /\ m_workqueue \in Seq(Requests)
  BY FS_Subset, FS_CardinalityType, ThreadPoolAssumption DEF Woken, Typed, TypeOK
<1>b. worker' = worker => Woken' = Woken
  BY DEF Woken
<1>1. CASE UNCHANGED vars
  BY <1>1, <1>b DEF vars
<1>2. CASE AppendLock \/ AppendRefused
  BY <1>2, <1>a, <1>b DEF AppendLock, AppendRefused
<1>3. CASE AppendPush
  BY <1>3, <1>a, <1>b DEF AppendPush, Typed, TypeOK
<1>4. CASE AppendPost
  BY <1>4, <1>a, <1>b DEF AppendPost, Typed, TypeOK
<1>5. CASE Destroy
  BY <1>5, <1>a, <1>b DEF Destroy
<1>6. ASSUME NEW w \in Workers, Test(w) \/ Process(w) PROVE NoLostWakeup'
  <2>1. PICK pc \in {"ended", "wait", "test"} : GoTo(w, pc, NULL)
    BY <1>6 DEF Test, Process
  <2>2. w \notin Woken
    BY <1>6 DEF Test, Process, At, Woken
  <2>3. Woken' = Woken
    BY <2>1, <2>2, WokenCount
  <2> QED
    BY <1>6, <2>3 DEF Test, Process
<1>7. ASSUME NEW w \in Workers, Wait(w) \/ Interrupted(w) PROVE NoLostWakeup'
  <2>1. GoTo(w, "lock", NULL) /\ w \notin Woken
    BY <1>7 DEF Wait, Interrupted, At, Woken
  <2>2. Cardinality(Woken') = Cardinality(Woken) + 1
    BY <2>1, WokenCount
  <2> QED
    BY <1>7, <1>a, <2>2 DEF Wait, Interrupted
<1>8. ASSUME NEW w \in Workers, Lock(w) PROVE NoLostWakeup'
  <2>1. GoTo(w, "locked", NULL) /\ w \in Woken
    BY <1>8 DEF Lock, At, Woken
  <2>2. Woken' = Woken
    BY <2>1, WokenCount
  <2> QED
    BY <1>8, <2>2 DEF Lock
<1>9. ASSUME NEW w \in Workers, Nothing(w) PROVE NoLostWakeup'
  <2>1. GoTo(w, "test", NULL)
    BY <1>9 DEF Nothing
  <2>2. Cardinality(Woken') \in Nat
    BY <2>1, WokenCount
  <2> QED
    BY <1>9, <1>a, <2>2 DEF Nothing
<1>10. ASSUME NEW w \in Workers, Pop(w) PROVE NoLostWakeup'
  <2>1. GoTo(w, "process", Head(m_workqueue)) /\ w \in Woken
    BY <1>10 DEF Pop, At, Woken
  <2>2. Cardinality(Woken') = Cardinality(Woken) - 1
    BY <2>1, WokenCount
  <2>3. Len(m_workqueue') = Len(m_workqueue) - 1
    BY <1>10, <1>a DEF Pop
  <2> QED
    BY <1>10, <1>a, <2>2, <2>3 DEF Pop
<1> QED
  BY <1>1, <1>2, <1>3, <1>4, <1>5, <1>6, <1>7, <1>8, <1>9, <1>10 DEF Next, MainThread, Run

LEMMA NoLostWakeupInit == Init => NoLostWakeup
<1> SUFFICES ASSUME Init PROVE NoLostWakeup
  OBVIOUS
<1>1. Woken = {}
  BY DEF Init, Woken
<1> QED
  BY <1>1, FS_EmptySet DEF Init, NoLostWakeup

LEMMA IInvAlways == Spec => []IInv
<1>1. Init => IInv
  BY TypedInit, NoLostWakeupInit DEF IInv
<1>2. IInv /\ [Next]_vars => IInv'
  BY TypedStep, NoLostWakeupStep DEF IInv
<1> QED
  BY <1>1, <1>2, PTL DEF Spec

(* Types, and the queue never exceeds m_max_requests (threadpool.h:80).    *)
THEOREM PoolTypeCorrect == Spec => []TypeOK
<1>1. IInv => TypeOK
  BY DEF IInv, Typed
<1> QED
  BY <1>1, IInvAlways, PTL

(* For any number of workers and however many waits are interrupted, every *)
(* request in the queue has a wake-up coming (threadpool.h:86-90, 107-118).*)
THEOREM NoWakeupLost == Spec => []NoLostWakeup
<1>1. IInv => NoLostWakeup
  BY DEF IInv
<1> QED
  BY <1>1, IInvAlways, PTL

(* The pool implements the bounded FIFO queue step by step: each request   *)
(* accepted goes to one worker, once, oldest first.                        *)
THEOREM PoolRefinesQueue == Spec => Queue!Spec
<1> USE DEF Queue!queueVars
<1>1. Init => Queue!Init
  BY DEF Init, Queue!Init
<1>2. IInv /\ [Next]_vars => [Queue!Next]_(Queue!queueVars)
  <2> SUFFICES ASSUME IInv, [Next]_vars PROVE [Queue!Next]_(Queue!queueVars)
    OBVIOUS
  <2> USE ThreadPoolAssumption DEF IInv, Typed, TypeOK, Holding
  <2>1. CASE UNCHANGED vars \/ AppendLock \/ AppendRefused \/ AppendPost
    BY <2>1 DEF vars, AppendLock, AppendRefused, AppendPost
  <2>2. CASE AppendPush
    <3>1. Queue!Put(main.calls)
      BY <2>2 DEF AppendPush, Full, Queue!Put
    <3> QED
      BY <2>2, <3>1 DEF AppendPush, Queue!Next
  <2>3. CASE Destroy
    BY <2>3 DEF Destroy, Queue!Next, Queue!Stop
  <2>4. ASSUME NEW w \in Workers,
               Test(w) \/ Wait(w) \/ Interrupted(w) \/ Lock(w) \/ Nothing(w)
        PROVE  UNCHANGED Queue!queueVars
    BY <2>4 DEF Test, Wait, Interrupted, Lock, Nothing, At, GoTo
  <2>5. ASSUME NEW w \in Workers, Pop(w) PROVE Queue!Next
    <3>1. Queue!Get(w)
      BY <2>5 DEF Pop, At, GoTo, Queue!Get
    <3> QED
      BY <3>1 DEF Queue!Next
  <2>6. ASSUME NEW w \in Workers, Process(w) PROVE Queue!Next
    <3>1. Queue!Finish(w)
      <4>1. worker[w].request # NULL
        BY <2>6 DEF Process, At, Requests
      <4>2. \A v \in Workers : worker'[v].request = IF v = w THEN NULL ELSE worker[v].request
        BY <2>6 DEF Process, GoTo
      <4> QED
        BY <2>6, <4>1, <4>2 DEF Process, Queue!Finish
    <3> QED
      BY <3>1 DEF Queue!Next
  <2> QED
    BY <2>1, <2>2, <2>3, <2>4, <2>5, <2>6 DEF Next, MainThread, Run
<1> QED
  BY <1>1, <1>2, IInvAlways, PTL DEF Spec, Queue!Spec
=============================================================================
