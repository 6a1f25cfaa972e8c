---------------------------- MODULE SqlPoolProofs ----------------------------
(***************************************************************************)
(* Theorems about SqlPool, for any number of threads, connections and      *)
(* interrupted waits: types, that a connection is never lost or shared,    *)
(* how far the semaphore drifts, and that with no more threads than        *)
(* connections every thread gets a connection.                             *)
(***************************************************************************)
EXTENDS SqlPool, FiniteSetTheorems, TLAPS

\* Only a thread that uses a connection has one.
Placed == \A t \in Threads : Held(t) # NULL => thread[t].pc = "use"

Typed == TypeOK /\ Placed

IInv == Typed /\ OneUser /\ ReserveCounts /\ GetsConnection

LEMMA MaxConnNat == Init => MaxConn \in Nat
  BY SqlPoolAssumption, FS_CardinalityType DEF Init

\* A tail, and a sequence with one element more, by their elements.
LEMMA SeqParts ==
  ASSUME NEW S, NEW s \in Seq(S)
  PROVE  /\ s # <<>> => /\ Head(s) \in S /\ Head(s) = s[1] /\ 1 \in DOMAIN s
                        /\ Tail(s) \in Seq(S) /\ Len(Tail(s)) = Len(s) - 1
                        /\ \A i \in DOMAIN Tail(s) : i + 1 \in DOMAIN s /\ Tail(s)[i] = s[i + 1] /\ i \in Nat \ {0}
         /\ \A x \in S : /\ Append(s, x) \in Seq(S) /\ Len(Append(s, x)) = Len(s) + 1
                         /\ \A i \in DOMAIN Append(s, x) :
                              \/ i \in DOMAIN s /\ Append(s, x)[i] = s[i]
                              \/ i = Len(s) + 1 /\ Append(s, x)[i] = x
  OBVIOUS

LEMMA TypedInit == Init => Typed
<1> SUFFICES ASSUME Init PROVE Typed
  OBVIOUS
<1>1. connList \in Seq(Conns)
  BY MaxConnNat DEF Init
<1>2. reserve \in Nat /\ interrupts \in 0 .. MaxInterrupts
  BY MaxConnNat, SqlPoolAssumption DEF Init
<1> QED
  BY <1>1, <1>2 DEF Init, Typed, TypeOK, Placed, Held

LEMMA TypedStep == Typed /\ [Next]_vars => Typed'
<1> SUFFICES ASSUME Typed, [Next]_vars PROVE Typed'
  OBVIOUS
<1> USE SqlPoolAssumption DEF Typed, TypeOK, Placed, Held, At, GoTo
<1>1. CASE UNCHANGED vars
  BY <1>1 DEF vars
<1>2. ASSUME NEW t \in Threads, CheckSize(t) PROVE Typed'
  BY <1>2 DEF CheckSize
<1>3. ASSUME NEW t \in Threads, Wait(t) PROVE Typed'
  BY <1>3 DEF Wait
<1>4. ASSUME NEW t \in Threads, Interrupted(t) PROVE Typed'
  BY <1>4 DEF Interrupted
<1>5. ASSUME NEW t \in Threads, Pop(t) PROVE Typed'
  BY <1>5 DEF Pop
<1>6. ASSUME NEW t \in Threads, PopEmpty(t) PROVE Typed'
  BY <1>6 DEF PopEmpty
<1>7. ASSUME NEW t \in Threads, ReleaseNull(t) PROVE Typed'
  BY <1>7 DEF ReleaseNull
<1>8. ASSUME NEW t \in Threads, Push(t) PROVE Typed'
  BY <1>8 DEF Push
<1>9. ASSUME NEW t \in Threads, Post(t) PROVE Typed'
  BY <1>9 DEF Post
<1> QED
  BY <1>1, <1>2, <1>3, <1>4, <1>5, <1>6, <1>7, <1>8, <1>9 DEF Next, Get, Release

-----------------------------------------------------------------------------
\* What a step of t does to the set of holders and the set of the admitted.
LEMMA SetsStep ==
  ASSUME Typed, NEW t \in Threads, NEW pc, NEW con, GoTo(t, pc, con)
  PROVE  /\ Cardinality(Holders) \in Nat /\ Cardinality(Admitted) \in Nat
         /\ Holders' = IF con # NULL THEN Holders \cup {t} ELSE Holders \ {t}
         /\ Admitted' = IF pc \in {"lock", "post", "undefined"} \/ con # NULL
                          THEN Admitted \cup {t} ELSE Admitted \ {t}
         /\ Cardinality(Holders') = IF con # NULL
              THEN IF t \in Holders THEN Cardinality(Holders) ELSE Cardinality(Holders) + 1
              ELSE IF t \in Holders THEN Cardinality(Holders) - 1 ELSE Cardinality(Holders)
         /\ Cardinality(Admitted') = IF pc \in {"lock", "post", "undefined"} \/ con # NULL
              THEN IF t \in Admitted THEN Cardinality(Admitted) ELSE Cardinality(Admitted) + 1
              ELSE IF t \in Admitted THEN Cardinality(Admitted) - 1 ELSE Cardinality(Admitted)
<1>1. IsFiniteSet(Holders) /\ IsFiniteSet(Admitted)
  BY FS_Subset, SqlPoolAssumption DEF Holders, Admitted
<1>2. thread' = [thread EXCEPT ![t] = [pc |-> pc, con |-> con]]
  BY DEF GoTo
<1>3. Holders' = IF con # NULL THEN Holders \cup {t} ELSE Holders \ {t}
  BY <1>2 DEF Holders, Held, Typed, TypeOK
<1>4. Admitted' = IF pc \in {"lock", "post", "undefined"} \/ con # NULL
                    THEN Admitted \cup {t} ELSE Admitted \ {t}
  BY <1>2 DEF Admitted, Held, Typed, TypeOK
<1> QED
  BY <1>1, <1>3, <1>4, FS_CardinalityType, FS_AddElement, FS_RemoveElement

LEMMA ReserveCountsStep == IInv /\ [Next]_vars => ReserveCounts'
<1> SUFFICES ASSUME IInv, [Next]_vars PROVE ReserveCounts'
  OBVIOUS
<1> USE DEF IInv, ReserveCounts
<1>a. Cardinality(Admitted) \in Nat /\ reserve \in Nat /\ interrupts \in Nat /\ MaxConn \in Nat
  BY FS_Subset, FS_CardinalityType, SqlPoolAssumption DEF Admitted, Typed, TypeOK
<1>1. CASE UNCHANGED vars
  BY <1>1 DEF vars, Admitted, Held
<1>2. ASSUME NEW t \in Threads, CheckSize(t) \/ ReleaseNull(t) PROVE ReserveCounts'
  <2>1. PICK pc \in {"use", "wait", "out"} : GoTo(t, pc, NULL)
    BY <1>2 DEF CheckSize, ReleaseNull
  <2>2. t \notin Admitted
    BY <1>2 DEF CheckSize, ReleaseNull, At, Admitted, Held, Typed, Placed
  <2> QED
    BY <1>2, <1>a, <2>1, <2>2, SetsStep DEF CheckSize, ReleaseNull
<1>3. ASSUME NEW t \in Threads, Wait(t) \/ Interrupted(t) PROVE ReserveCounts'
  <2>1. GoTo(t, "lock", NULL) /\ t \notin Admitted
    BY <1>3 DEF Wait, Interrupted, At, Admitted, Held, Typed, Placed
  <2>2. Cardinality(Admitted') = Cardinality(Admitted) + 1
    BY <2>1, SetsStep
  <2> QED
    BY <1>3, <1>a, <2>2 DEF Wait, Interrupted
<1>4. ASSUME NEW t \in Threads, Pop(t) \/ PopEmpty(t) \/ Push(t) PROVE ReserveCounts'
  <2>1. PICK pc \in {"use", "undefined", "post"}, con \in Conns \cup {NULL} :
             GoTo(t, pc, con) /\ (pc \in {"lock", "post", "undefined"} \/ con # NULL)
    BY <1>4, SeqParts, SqlPoolAssumption DEF Pop, PopEmpty, Push, Typed, TypeOK
  <2>2. t \in Admitted
    BY <1>4 DEF Pop, PopEmpty, Push, At, Admitted, Held
  <2>3. Cardinality(Admitted') = Cardinality(Admitted)
    BY <2>1, <2>2, SetsStep
  <2> QED
    BY <1>4, <1>a, <2>3 DEF Pop, PopEmpty, Push
<1>5. ASSUME NEW t \in Threads, Post(t) PROVE ReserveCounts'
  <2>1. GoTo(t, "out", NULL) /\ t \in Admitted
    BY <1>5 DEF Post, At, Admitted, Held
  <2>2. Cardinality(Admitted') = Cardinality(Admitted) - 1
    BY <2>1, SetsStep
  <2> QED
    BY <1>5, <1>a, <2>2 DEF Post
<1> QED
  BY <1>1, <1>2, <1>3, <1>4, <1>5 DEF Next, Get, Release
-----------------------------------------------------------------------------
\* The steps that move no connection.
LEMMA OneUserQuiet ==
  ASSUME OneUser, UNCHANGED <<MaxConn, connList>>, \A t \in Threads : Held(t)' = Held(t)
  PROVE  OneUser'
<1>1. Holders' = Holders
  BY DEF Holders
<1> QED
  BY <1>1 DEF OneUser, Holders

LEMMA OneUserStep == IInv /\ [Next]_vars => OneUser'
<1> SUFFICES ASSUME IInv, [Next]_vars PROVE OneUser'
  OBVIOUS
<1>a. /\ connList \in Seq(Conns) /\ OneUser /\ MaxConn \in Nat
      /\ Cardinality(Holders) \in Nat
      /\ \A u \in Threads : Held(u) \in Conns \cup {NULL}
  BY FS_Subset, FS_CardinalityType, SqlPoolAssumption
  DEF IInv, Typed, TypeOK, Held, Holders
<1>1. CASE UNCHANGED vars
  BY <1>1, <1>a, OneUserQuiet DEF vars, Held
<1>2. ASSUME NEW t \in Threads,
             CheckSize(t) \/ Wait(t) \/ Interrupted(t) \/ PopEmpty(t) \/ ReleaseNull(t) \/ Post(t)
      PROVE  OneUser'
  <2>1. UNCHANGED <<MaxConn, connList>> /\ \E pc : GoTo(t, pc, NULL)
    BY <1>2 DEF CheckSize, Wait, Interrupted, PopEmpty, ReleaseNull, Post
  <2>2. Held(t) = NULL
    BY <1>2 DEF CheckSize, Wait, Interrupted, PopEmpty, ReleaseNull, Post, At, Held, IInv, Typed, Placed
  <2>3. \A u \in Threads : Held(u)' = Held(u)
    BY <2>1, <2>2 DEF GoTo, Held, IInv, Typed, TypeOK
  <2> QED
    BY <1>a, <2>1, <2>3, OneUserQuiet
<1>3. ASSUME NEW t \in Threads, Pop(t) PROVE OneUser'
  <2>1. /\ connList # <<>> /\ connList' = Tail(connList) /\ GoTo(t, "use", Head(connList))
        /\ Held(t) = NULL /\ MaxConn' = MaxConn
    BY <1>3 DEF Pop, At, Held, IInv, Typed, Placed
  <2>2. Head(connList) \in Conns /\ Head(connList) # NULL /\ Head(connList) = connList[1]
    BY <1>a, <2>1, SeqParts, SqlPoolAssumption
  <2>3. /\ Held(t)' = Head(connList)
        /\ \A u \in Threads \ {t} : Held(u)' = Held(u)
    BY <2>1 DEF GoTo, Held, IInv, Typed, TypeOK
  <2>4. /\ 1 \in DOMAIN connList
        /\ \A i \in DOMAIN connList' : i + 1 \in DOMAIN connList /\ connList'[i] = connList[i + 1] /\ i \in Nat \ {0}
        /\ Len(connList') = Len(connList) - 1
    BY <1>a, <2>1, SeqParts
  <2>5. \A i, j \in DOMAIN connList' : connList'[i] = connList'[j] => i = j
    BY <1>a, <2>4 DEF OneUser
  <2>6. \A u \in Holders' : \A i \in DOMAIN connList' : connList'[i] # Held(u)'
    <3> SUFFICES ASSUME NEW u \in Threads, Held(u)' # NULL, NEW i \in DOMAIN connList',
                        connList'[i] = Held(u)'
                 PROVE  FALSE
      BY DEF Holders
    <3>1. CASE u = t
      BY <1>a, <2>2, <2>3, <2>4, <3>1 DEF OneUser
    <3>2. CASE u # t
      BY <1>a, <2>3, <2>4, <3>2 DEF OneUser, Holders
    <3> QED
      BY <3>1, <3>2
  <2>7. \A u, v \in Holders' : Held(u)' = Held(v)' => u = v
    BY <1>a, <2>2, <2>3, <2>4 DEF OneUser, Holders
  <2>8. Cardinality(Holders') = Cardinality(Holders) + 1
    BY <2>1, <2>2, SetsStep DEF IInv, Holders
  <2>9. Len(connList') + Cardinality(Holders') = MaxConn'
    BY <1>a, <2>1, <2>4, <2>8 DEF OneUser
  <2> QED
    BY <2>5, <2>6, <2>7, <2>9 DEF OneUser
<1>4. ASSUME NEW t \in Threads, Push(t) PROVE OneUser'
  <2>1. /\ Held(t) # NULL /\ Held(t) \in Conns /\ t \in Holders
        /\ connList' = Append(connList, Held(t)) /\ GoTo(t, "post", NULL)
        /\ MaxConn' = MaxConn
    BY <1>4, <1>a DEF Push, Held, Holders
  <2>2. /\ Held(t)' = NULL
        /\ \A u \in Threads \ {t} : Held(u)' = Held(u)
    BY <2>1 DEF GoTo, Held, IInv, Typed, TypeOK
  <2>3. /\ Len(connList') = Len(connList) + 1
        /\ \A i \in DOMAIN connList' : \/ i \in DOMAIN connList /\ connList'[i] = connList[i]
                                       \/ i = Len(connList) + 1 /\ connList'[i] = Held(t)
    BY <1>a, <2>1, SeqParts
  <2>4. \A i \in DOMAIN connList : connList[i] # Held(t)
    BY <1>a, <2>1 DEF OneUser
  <2>5. \A i, j \in DOMAIN connList' : connList'[i] = connList'[j] => i = j
    BY <1>a, <2>3, <2>4 DEF OneUser
  <2>6. \A u \in Holders' : /\ \A i \in DOMAIN connList' : connList'[i] # Held(u)'
                            /\ \A v \in Holders' : Held(u)' = Held(v)' => u = v
    <3> SUFFICES ASSUME NEW u \in Threads, Held(u)' # NULL
                 PROVE  /\ \A i \in DOMAIN connList' : connList'[i] # Held(u)'
                        /\ \A v \in Threads : Held(v)' # NULL /\ Held(u)' = Held(v)' => u = v
      BY DEF Holders
    <3>1. u # t /\ Held(u)' = Held(u) /\ u \in Holders
      BY <2>2 DEF Holders
    <3> QED
      BY <1>a, <2>1, <2>2, <2>3, <3>1 DEF OneUser, Holders
  <2>7. Cardinality(Holders') = Cardinality(Holders) - 1
    BY <2>1, SetsStep DEF IInv
  <2>8. Len(connList') + Cardinality(Holders') = MaxConn'
    BY <1>a, <2>1, <2>3, <2>7 DEF OneUser
  <2> QED
    BY <2>5, <2>6, <2>8 DEF OneUser
<1> QED
  BY <1>1, <1>2, <1>3, <1>4 DEF Next, Get, Release

-----------------------------------------------------------------------------
\* With no more threads than connections, a thread without one finds one.
LEMMA OneIsFree ==
  ASSUME IInv, Cardinality(Threads) <= MaxConn, NEW t \in Threads, Held(t) = NULL
  PROVE  connList # <<>>
<1>1. /\ IsFiniteSet(Threads \ {t}) /\ Cardinality(Threads \ {t}) = Cardinality(Threads) - 1
      /\ Cardinality(Threads) \in Nat
  BY SqlPoolAssumption, FS_RemoveElement, FS_CardinalityType
<1>2. Holders \subseteq Threads \ {t}
  BY DEF Holders
<1>3. Cardinality(Holders) <= Cardinality(Threads) - 1 /\ Cardinality(Holders) \in Nat
  BY <1>1, <1>2, FS_Subset, FS_CardinalityType
<1>4. Len(connList) + Cardinality(Holders) = MaxConn
  BY DEF IInv, OneUser
<1>5. Len(connList) # 0
  BY <1>1, <1>3, <1>4 DEF IInv, Typed, TypeOK
<1> QED
  BY <1>5 DEF IInv, Typed, TypeOK

LEMMA GetsConnectionStep == IInv /\ [Next]_vars => GetsConnection'
<1>a. ASSUME [Next]_vars PROVE MaxConn' = MaxConn
  BY <1>a DEF Next, vars, Get, Release, CheckSize, Wait, Interrupted, Pop, PopEmpty, ReleaseNull, Push, Post
<1> SUFFICES ASSUME IInv, [Next]_vars, Cardinality(Threads) <= MaxConn,
                    NEW u \in Threads
             PROVE  (thread'[u].pc = "use" => thread'[u].con # NULL) /\ thread'[u].pc # "undefined"
  BY <1>a DEF GetsConnection
<1> USE DEF IInv, Typed, TypeOK, GetsConnection, At, GoTo
<1>1. CASE UNCHANGED vars
  BY <1>1 DEF vars
<1>2. ASSUME NEW t \in Threads, CheckSize(t) PROVE thread'[u].pc = "use" => u # t
  BY <1>2, OneIsFree DEF CheckSize, Held, Placed
<1>3. ASSUME NEW t \in Threads, PopEmpty(t) PROVE FALSE
  BY <1>3, OneIsFree DEF PopEmpty, Held, Placed
<1>4. ASSUME NEW t \in Threads, CheckSize(t) \/ Wait(t) \/ Interrupted(t)
             \/ ReleaseNull(t) \/ Push(t) \/ Post(t)
      PROVE  (thread'[u].pc = "use" => thread'[u].con # NULL) /\ thread'[u].pc # "undefined"
  BY <1>4, <1>2 DEF CheckSize, Wait, Interrupted, ReleaseNull, Push, Post
<1>5. ASSUME NEW t \in Threads, Pop(t)
      PROVE  (thread'[u].pc = "use" => thread'[u].con # NULL) /\ thread'[u].pc # "undefined"
  <2>1. Head(connList) # NULL
    BY <1>5, SeqParts, SqlPoolAssumption DEF Pop
  <2> QED
    BY <1>5, <2>1 DEF Pop
<1> QED
  BY <1>1, <1>3, <1>4, <1>5 DEF Next, Get, Release

LEMMA CountsInit == Init => OneUser /\ ReserveCounts /\ GetsConnection
<1> SUFFICES ASSUME Init PROVE OneUser /\ ReserveCounts /\ GetsConnection
  OBVIOUS
<1>1. Holders = {} /\ Admitted = {}
  BY DEF Init, Holders, Admitted, Held
<1>2. Cardinality({}) = 0
  BY FS_EmptySet
<1>3. connList \in [1 .. MaxConn -> Conns] /\ Len(connList) = MaxConn
  BY MaxConnNat DEF Init
<1>4. OneUser
  BY <1>1, <1>2, <1>3, MaxConnNat DEF OneUser, Init
<1>5. ReserveCounts /\ GetsConnection
  BY <1>1, <1>2, MaxConnNat DEF ReserveCounts, GetsConnection, Init
<1> QED
  BY <1>4, <1>5

LEMMA IInvAlways == Spec => []IInv
<1>1. Init => IInv
  BY TypedInit, CountsInit DEF IInv
<1>2. IInv /\ [Next]_vars => IInv'
  BY TypedStep, OneUserStep, ReserveCountsStep, GetsConnectionStep DEF IInv
<1> QED
  BY <1>1, <1>2, PTL DEF Spec

(* A MySQL connection is free or has one user, for any number of threads   *)
(* and however many waits a signal ends (sql_connection_pool.cpp:85, 104). *)
THEOREM ConnectionHasOneUser == Spec => []OneUser
<1>1. IInv => OneUser
  BY DEF IInv
<1> QED
  BY <1>1, IInvAlways, PTL

(* The semaphore counts the connections, off by the interrupted waits.     *)
THEOREM SemaphoreDrift == Spec => []ReserveCounts
<1>1. IInv => ReserveCounts
  BY DEF IInv
<1> QED
  BY <1>1, IInvAlways, PTL

(* No more threads than connections, as main.cpp sets the pools up: no     *)
(* thread continues with NULL and none pops an empty list.                 *)
THEOREM EveryThreadGetsConnection == Spec => []GetsConnection
<1>1. IInv => GetsConnection
  BY DEF IInv
<1> QED
  BY <1>1, IInvAlways, PTL

=============================================================================
