-------------------------- MODULE RegistrationProofs --------------------------
(***************************************************************************)
(* Theorems about Registration, for any number of threads, connections,    *)
(* names, passwords and forms: the workers use the pool as SqlPool says,   *)
(* and with a key on username the map and the table agree.                 *)
(***************************************************************************)
EXTENDS Registration, SqlPoolProofs

FormsTyped ==
  /\ users \in [Names -> Passwords \cup {Absent}]
  /\ user \in Seq(Rows)
  /\ cgi \in [Threads -> [pc : {"idle", "find", "lock", "insert", "answered", "undefined"},
                          form : Forms \cup {NoForm}, res : 0 .. 1]]
  /\ m_lock \in Threads \cup {NULL}
  /\ forms \in 0 .. MaxForms
  /\ answers \subseteq [form : Forms, ok : BOOLEAN]
  /\ failed \subseteq Names

\* A thread with a form is in process, with the connection it was given.
Busy == \A t \in Threads :
          cgi[t].pc # "idle" => thread[t].pc = "use" /\ cgi[t].form \in Forms

Inserting(t) == cgi[t].pc = "insert"
HoldsLock == \A t \in Threads : Inserting(t) => m_lock = t /\ t # NULL

\* The name has its row but is not in the map yet.
OnTheWay(n) == \E t \in Threads : Inserting(t) /\ cgi[t].form.name = n /\ cgi[t].res = 0

\* m_lock holds NULL for nobody.
LEMMA NoThreadIsNULL == NULL \notin Threads
  BY RegistrationAssumption

\* With a key on username: the row of a name whose INSERTs did not fail is what
\* the map has, or the map does not have the name and the thread with m_lock
\* is about to put it there.
Mirror ==
  UniqueNames =>
    /\ \A i, j \in DOMAIN user : user[i].username = user[j].username => i = j
    /\ \A n \in Names \ failed : ~InTable(n) => users[n] = Absent
    /\ \A i \in DOMAIN user : user[i].username \notin failed =>
         \/ users[user[i].username] = user[i].passwd
         \/ OnTheWay(user[i].username)
    /\ \A t \in Threads : Inserting(t) /\ cgi[t].res = 0 =>
         /\ \E i \in DOMAIN user : user[i] = [username |-> cgi[t].form.name, passwd |-> cgi[t].form.password]
         /\ cgi[t].form.name \notin failed => users[cgi[t].form.name] = Absent
    /\ \A t \in Threads : Inserting(t) /\ cgi[t].res = 1 =>
         InTable(cgi[t].form.name) \/ cgi[t].form.name \in failed

FInv == Typed /\ FormsTyped /\ Busy /\ HoldsLock /\ Mirror /\ RegisteredCanLogIn
-----------------------------------------------------------------------------
LEMMA StepIsPoolStep == [FormsNext]_allVars => [Next]_vars
  BY DEF FormsNext, allVars, poolVars, Next, Submit, Serve, Find, Query, QueryNull, Insert, Login, Return

\* The composition of the forms with the pool is the pool: nothing that is
\* proved of SqlPool depends on what a thread does with its connection.
THEOREM FormsRefinePool == FormsSpec => Spec
<1>1. FormsInit => Init
  BY DEF FormsInit
<1>2. [FormsNext]_allVars => [Next]_vars
  BY StepIsPoolStep
<1> QED
  BY <1>1, <1>2, PTL DEF FormsSpec, Spec

\* The pool's guarantees hold of the workers that serve forms
\* (threadpool.h:129): no connection is lost or shared, and with no more
\* workers than connections each worker has one.
THEOREM WorkersShareNoConnection == FormsSpec => [](OneUser /\ GetsConnection)
<1> QED
  BY FormsRefinePool, ConnectionHasOneUser, EveryThreadGetsConnection, PTL

-----------------------------------------------------------------------------
\* Of rows with different names, initmysql_result loads each.
LEMMA LoadRow ==
  ASSUME user \in Seq(Rows), \A i, j \in DOMAIN user : user[i].username = user[j].username => i = j,
         NEW i \in DOMAIN user
  PROVE  Load(user)[user[i].username] = user[i].passwd
<1> DEFINE own == {k \in DOMAIN user : user[k].username = user[i].username}
<1>1. own = {i} /\ i \in Nat
  OBVIOUS
<1>2. (CHOOSE k \in own : \A j \in own : j <= k) = i
  BY <1>1
<1>3. user[i].username \in Names
  <2>1. user[i] \in Rows
    OBVIOUS
  <2> QED
    BY <2>1 DEF Rows
<1> HIDE DEF own
<1>4. Load(user)[user[i].username] =
        IF own = {} THEN Absent ELSE user[CHOOSE k \in own : \A j \in own : j <= k].passwd
  BY <1>3 DEF Load, own
<1> QED
  BY <1>1, <1>2, <1>4

LEMMA FInvInit == FormsInit => FInv
<1> SUFFICES ASSUME FormsInit PROVE FInv
  OBVIOUS
<1>1. user \in Seq(Rows) /\ \A i, j \in DOMAIN user : i = j
  <2>1. CASE user = <<>>
    BY <2>1
  <2>2. ASSUME NEW row \in Rows, user = <<row>> PROVE user \in Seq(Rows) /\ \A i, j \in DOMAIN user : i = j
    BY <2>2
  <2> QED
    BY <2>1, <2>2 DEF FormsInit
<1>2. users = Load(user)
  BY DEF FormsInit
<1>3. \A n \in Names : ~InTable(n) => users[n] = Absent
  BY <1>2 DEF Load, InTable
<1>4. \A i \in DOMAIN user : user[i].username \in Names /\ user[i].passwd \in Passwords
  <2>1. \A i \in DOMAIN user : user[i] \in Rows
    BY <1>1
  <2> QED
    BY <2>1 DEF Rows
<1>5. \A i \in DOMAIN user : users[user[i].username] = user[i].passwd
  BY <1>1, <1>2, LoadRow
<1>6. users \in [Names -> Passwords \cup {Absent}]
  <2>1. \A n \in Names : users[n] \in Passwords \cup {Absent}
    BY <1>3, <1>4, <1>5 DEF InTable
  <2> QED
    BY <2>1, <1>2 DEF Load
<1>7. \A t \in Threads : cgi[t] = [pc |-> "idle", form |-> NoForm, res |-> 0]
  BY DEF FormsInit
<1>8. Typed
  BY TypedInit DEF FormsInit
<1>9. FormsTyped
  BY <1>1, <1>6, RegistrationAssumption DEF FormsInit, FormsTyped
<1>10. Busy /\ HoldsLock
  BY <1>7 DEF Busy, HoldsLock, Inserting
<1>11. Mirror
  BY <1>1, <1>3, <1>5, <1>7 DEF Mirror, Inserting
<1>12. RegisteredCanLogIn
  BY DEF FormsInit, RegisteredCanLogIn
<1> QED
  BY <1>8, <1>9, <1>10, <1>11, <1>12 DEF FInv

-----------------------------------------------------------------------------
LEMMA FormsTypedStep == FInv /\ [FormsNext]_allVars => FormsTyped'
<1> SUFFICES ASSUME FInv, [FormsNext]_allVars PROVE FormsTyped'
  OBVIOUS
<1> USE RegistrationAssumption DEF FInv, FormsTyped, Busy, In, At, Form, Step, Answer, accounts, formVars
<1>1. CASE UNCHANGED allVars
  BY <1>1 DEF allVars
<1>2. ASSUME NEW t \in Threads, Get(t) /\ UNCHANGED formVars PROVE FormsTyped'
  BY <1>2
<1>3. ASSUME NEW t \in Threads, NEW form \in Forms, Submit(t, form) PROVE FormsTyped'
  BY <1>3 DEF Submit
<1>4. ASSUME NEW t \in Threads, Find(t) \/ Login(t) PROVE FormsTyped'
  <2>1. cgi[t].form \in Forms
    BY <1>4 DEF Find, Login
  <2>2. \A ok \in BOOLEAN : [form |-> cgi[t].form, ok |-> ok] \in [form : Forms, ok : BOOLEAN]
    BY <2>1
  <2>3. CASE Find(t)
    <3>1. (Answer(t, FALSE) \/ (Step(t, "lock") /\ UNCHANGED answers)) /\ UNCHANGED <<accounts, m_lock, forms, failed>>
      BY <2>3 DEF Find
    <3>2. answers' \subseteq [form : Forms, ok : BOOLEAN]
      BY <3>1, <2>2
    <3>3. cgi' = [cgi EXCEPT ![t].pc = "answered"] \/ cgi' = [cgi EXCEPT ![t].pc = "lock"]
      BY <3>1
    <3> QED
      BY <3>1, <3>2, <3>3
  <2>4. CASE Login(t)
    <3>1. PICK ok \in BOOLEAN : Answer(t, ok)
      BY <2>4 DEF Login, Found
    <3>2. answers' \subseteq [form : Forms, ok : BOOLEAN]
      BY <3>1, <2>2
    <3> QED
      BY <2>4, <3>1, <3>2 DEF Login
  <2> QED
    BY <1>4, <2>3, <2>4
<1>5. ASSUME NEW t \in Threads, Query(t) PROVE FormsTyped'
  <2>1. cgi[t].form \in Forms
    BY <1>5 DEF Query
  <2>2. cgi[t].form.name \in Names /\ [username |-> cgi[t].form.name, passwd |-> cgi[t].form.password] \in Rows
    BY <2>1 DEF Forms, Rows
  <2>3. user' \in Seq(Rows)
    <3> DEFINE row == [username |-> cgi[t].form.name, passwd |-> cgi[t].form.password]
    <3>1. user' = Append(user, row) \/ user' = user
      BY <1>5 DEF Query
    <3>2. row \in Rows
      BY <2>2
    <3> HIDE DEF row
    <3> QED
      BY <3>1, <3>2
  <2>4. failed' \subseteq Names
    BY <1>5, <2>2 DEF Query
  <2> QED
    BY <1>5, <2>1, <2>3, <2>4 DEF Query
<1>6. ASSUME NEW t \in Threads, QueryNull(t) PROVE FormsTyped'
  BY <1>6 DEF QueryNull
<1>7. ASSUME NEW t \in Threads, Insert(t) PROVE FormsTyped'
  <2>1. cgi[t].form \in Forms
    BY <1>7 DEF Insert
  <2>2. cgi[t].form.name \in Names /\ cgi[t].form.password \in Passwords
    BY <2>1 DEF Forms
  <2>3. users' \in [Names -> Passwords \cup {Absent}]
    BY <1>7, <2>2 DEF Insert
  <2>4. answers' \subseteq [form : Forms, ok : BOOLEAN]
    <3> DEFINE a == [form |-> cgi[t].form, ok |-> cgi[t].res = 0]
    <3>1. a \in [form : Forms, ok : BOOLEAN]
      BY <2>1
    <3>2. answers' = answers \cup {a}
      BY <1>7 DEF Insert
    <3> QED
      BY <3>1, <3>2
  <2> QED
    BY <1>7, <2>3, <2>4 DEF Insert
<1>8. ASSUME NEW t \in Threads, Return(t) PROVE FormsTyped'
  BY <1>8 DEF Return
<1> QED
  BY <1>1, <1>2, <1>3, <1>4, <1>5, <1>6, <1>7, <1>8 DEF FormsNext, Serve

LEMMA BusyStep == FInv /\ [FormsNext]_allVars => Busy'
<1> SUFFICES ASSUME FInv, [FormsNext]_allVars PROVE Busy'
  OBVIOUS
<1> USE DEF FInv, FormsTyped, Typed, TypeOK, Busy, In, At, Form, Step, Answer, accounts, formVars, poolVars, vars
<1>1. CASE UNCHANGED allVars
  BY <1>1 DEF allVars
<1>2. ASSUME NEW t \in Threads, Get(t) /\ UNCHANGED formVars PROVE Busy'
  <2>1. cgi[t].pc = "idle" /\ \A u \in Threads \ {t} : thread'[u] = thread[u]
    BY <1>2 DEF Get, CheckSize, Wait, Interrupted, Pop, PopEmpty, GoTo
  <2> QED
    BY <1>2, <2>1
<1>3. ASSUME NEW t \in Threads, NEW form \in Forms, Submit(t, form) PROVE Busy'
  BY <1>3 DEF Submit
<1>4. ASSUME NEW t \in Threads, Find(t) \/ Login(t) \/ Query(t) \/ QueryNull(t) \/ Insert(t) PROVE Busy'
  <2>1. thread' = thread /\ cgi[t].pc # "idle"
    BY <1>4 DEF Find, Login, Query, QueryNull, Insert
  <2>2. \A u \in Threads : cgi'[u].form = cgi[u].form /\ (u # t => cgi'[u].pc = cgi[u].pc)
    BY <1>4 DEF Find, Login, Query, QueryNull, Insert
  <2> QED
    BY <2>1, <2>2
<1>5. ASSUME NEW t \in Threads, Return(t) PROVE Busy'
  <2>1. \A u \in Threads \ {t} : thread'[u] = thread[u]
    BY <1>5 DEF Return, Release, ReleaseNull, Push, Post, GoTo
  <2> QED
    BY <1>5, <2>1 DEF Return
<1> QED
  BY <1>1, <1>2, <1>3, <1>4, <1>5 DEF FormsNext, Serve

\* The steps by what they do to the accounts.
Bystander(t) ==
  \/ Get(t) /\ UNCHANGED formVars
  \/ \E form \in Forms : Submit(t, form)
  \/ Find(t) \/ Login(t) \/ QueryNull(t) \/ Return(t)

LEMMA Steps ==
  ASSUME [FormsNext]_allVars
  PROVE  UNCHANGED allVars \/ \E t \in Threads : Bystander(t) \/ Query(t) \/ Insert(t)
  BY DEF FormsNext, Serve, Bystander

\* A step that leaves the accounts and the inserting threads as they are, and
\* tells nobody that a registration succeeded.
Quiet ==
  /\ UNCHANGED <<accounts, failed>>
  /\ \A u \in Threads : /\ cgi'[u].pc = "insert" <=> cgi[u].pc = "insert"
                        /\ cgi[u].pc = "insert" => cgi'[u] = cgi[u]
  /\ \A a \in answers' \ answers : ~(a.form.url = "3" /\ a.ok)

LEMMA QuietStep == FInv /\ Quiet => Mirror' /\ RegisteredCanLogIn'
<1> SUFFICES ASSUME FInv, Quiet PROVE Mirror' /\ RegisteredCanLogIn'
  OBVIOUS
<1>1. Mirror'
  BY DEF FInv, Quiet, Mirror, OnTheWay, Inserting, InTable, accounts
<1>2. RegisteredCanLogIn'
  BY DEF FInv, Quiet, RegisteredCanLogIn, accounts
<1> QED
  BY <1>1, <1>2

LEMMA QuietSteps ==
  ASSUME FInv, NEW t \in Threads, Bystander(t)
  PROVE  Quiet
<1> USE DEF Quiet, FInv, FormsTyped, In, At, Form, Step, accounts, formVars
<1>1. CASE Get(t) /\ UNCHANGED formVars
  BY <1>1
<1>2. CASE \E form \in Forms : Submit(t, form)
  BY <1>2 DEF Submit
<1>3. CASE Find(t)
  BY <1>3 DEF Find, Answer
<1>4. CASE Login(t)
  BY <1>4 DEF Login, Answer
<1>5. CASE QueryNull(t)
  BY <1>5 DEF QueryNull
<1>6. CASE Return(t)
  BY <1>6 DEF Return
<1> QED
  BY <1>1, <1>2, <1>3, <1>4, <1>5, <1>6 DEF Bystander
-----------------------------------------------------------------------------
LEMMA HoldsLockStep == FInv /\ [FormsNext]_allVars => HoldsLock'
<1> SUFFICES ASSUME FInv, [FormsNext]_allVars PROVE HoldsLock'
  OBVIOUS
<1>1. CASE UNCHANGED allVars
  BY <1>1 DEF allVars, formVars, FInv, HoldsLock, Inserting
<1>2. ASSUME NEW t \in Threads, Bystander(t) PROVE HoldsLock'
  <2>1. m_lock' = m_lock \/ m_lock = NULL
    BY <1>2 DEF Bystander, Submit, Find, Login, QueryNull, Return, formVars
  <2>2. Quiet
    BY <1>2, QuietSteps
  <2> QED
    BY <2>1, <2>2 DEF Quiet, FInv, HoldsLock, Inserting
<1>3. ASSUME NEW t \in Threads, Query(t) PROVE HoldsLock'
  <2>1. \A u \in Threads \ {t} : cgi'[u] = cgi[u]
    BY <1>3 DEF Query, FInv, FormsTyped
  <2> QED
    BY <1>3, <2>1, NoThreadIsNULL DEF Query, FInv, HoldsLock, Inserting
<1>4. ASSUME NEW t \in Threads, Insert(t) PROVE HoldsLock'
  BY <1>4 DEF Insert, In, Answer, Step, FInv, FormsTyped, HoldsLock, Inserting
<1> QED
  BY <1>1, <1>2, <1>3, <1>4, Steps

\* A row appended to the table, by its elements.
LEMMA AppendedRow ==
  ASSUME FormsTyped, NEW row \in Rows, user' = Append(user, row)
  PROVE  /\ DOMAIN user' = DOMAIN user \cup {Len(user) + 1} /\ Len(user) + 1 \notin DOMAIN user
         /\ \A i \in DOMAIN user : user'[i] = user[i]
         /\ user'[Len(user) + 1] = row
<1> QED
  BY DEF FormsTyped

LEMMA QueryStep ==
  ASSUME FInv, NEW t \in Threads, Query(t)
  PROVE  Mirror' /\ RegisteredCanLogIn'
<1> DEFINE name == cgi[t].form.name
           row  == [username |-> name, passwd |-> cgi[t].form.password]
<1>1. cgi[t].pc = "lock" /\ cgi[t].form \in Forms /\ name \in Names /\ row \in Rows
  BY DEF FInv, Query, In, Busy, Forms, Rows
<1>2. \A u \in Threads : cgi[u].pc # "insert"
  BY DEF FInv, Query, HoldsLock, Inserting
<1>3. UNCHANGED <<users, answers>>
  BY DEF Query
<1>4. CASE ~(UniqueNames /\ InTable(name)) /\ user' = Append(user, row) /\ UNCHANGED failed
           /\ cgi' = [cgi EXCEPT ![t] = [pc |-> "insert", form |-> Form(t), res |-> 0]]
  <2> USE <1>1, <1>2, <1>3, <1>4 DEF FInv, FormsTyped, Form
  <2>1. /\ DOMAIN user' = DOMAIN user \cup {Len(user) + 1} /\ Len(user) + 1 \notin DOMAIN user
        /\ \A i \in DOMAIN user : user'[i] = user[i]
        /\ user'[Len(user) + 1] = row
    BY AppendedRow
  <2>2. \A u \in Threads : cgi'[u].pc = "insert" <=> u = t
    OBVIOUS
  <2>3. cgi'[t].form = cgi[t].form /\ cgi'[t].res = 0
    OBVIOUS
  <2>4. RegisteredCanLogIn'
    BY <2>1 DEF RegisteredCanLogIn
  <2>5. Mirror'
    <3> SUFFICES ASSUME UniqueNames PROVE Mirror'
      BY DEF Mirror
    <3>0. ~InTable(name) /\ (name \notin failed => users[name] = Absent)
      BY DEF Mirror
    <3>1. \A i, j \in DOMAIN user' : user'[i].username = user'[j].username => i = j
      BY <2>1, <3>0 DEF Mirror, InTable
    <3>2. \A n \in Names \ failed' : ~InTable(n)' => users'[n] = Absent
      BY <2>1 DEF Mirror, InTable
    <3>3. \A i \in DOMAIN user' : user'[i].username \notin failed' =>
            \/ users'[user'[i].username] = user'[i].passwd
            \/ OnTheWay(user[i].username)'
      <4>1. OnTheWay(name)'
        BY <2>2, <2>3 DEF OnTheWay, Inserting
      <4>2. \A n : ~OnTheWay(n)
        BY DEF OnTheWay, Inserting
      <4> SUFFICES ASSUME NEW i \in DOMAIN user', user'[i].username \notin failed'
                   PROVE  users'[user'[i].username] = user'[i].passwd \/ OnTheWay(user[i].username)'
        OBVIOUS
      <4>3. CASE i \in DOMAIN user
        BY <2>1, <4>2, <4>3 DEF Mirror
      <4>4. CASE i = Len(user) + 1
        <5>1. user'[i].username = name
          BY <2>1, <4>4
        <5> QED
          BY <4>1, <5>1 DEF OnTheWay
      <4> QED
        BY <2>1, <4>3, <4>4
    <3>4. \A u \in Threads : Inserting(u)' => u = t
      BY <2>2 DEF Inserting
    <3>5. \E i \in DOMAIN user' : user'[i] = row
      BY <2>1
    <3>6. ASSUME NEW u \in Threads, Inserting(u)'
          PROVE  /\ cgi'[u].res = 0
                 /\ \E i \in DOMAIN user' : user'[i] = [username |-> cgi'[u].form.name, passwd |-> cgi'[u].form.password]
                 /\ cgi'[u].form.name \notin failed' => users'[cgi'[u].form.name] = Absent
      <4>1. u = t
        BY <3>4, <3>6
      <4> QED
        BY <2>3, <3>0, <3>5, <4>1
    <3>7. \A u \in Threads : ~(Inserting(u)' /\ cgi'[u].res = 1)
      BY <2>3, <3>4
    <3> HIDE <1>1, <1>2, <1>3, <1>4 DEF FInv, FormsTyped
    <3> QED
      BY <3>1, <3>2, <3>3, <3>6, <3>7 DEF Mirror
  <2> QED
    BY <2>4, <2>5
<1>5. CASE /\ UniqueNames /\ InTable(name) /\ UNCHANGED <<user, failed>>
           /\ cgi' = [cgi EXCEPT ![t] = [pc |-> "insert", form |-> Form(t), res |-> 1]]
  <2> USE <1>1, <1>2, <1>3, <1>5 DEF FInv, FormsTyped, Form
  <2>1. \A u \in Threads : cgi'[u].pc = "insert" <=> u = t
    OBVIOUS
  <2>2. cgi'[t].form = cgi[t].form /\ cgi'[t].res = 1
    OBVIOUS
  <2>3. Mirror'
    BY <2>1, <2>2 DEF Mirror, InTable, OnTheWay, Inserting
  <2> QED
    BY <2>3 DEF RegisteredCanLogIn
<1>6. CASE /\ ~InTable(name) /\ UNCHANGED user /\ failed' = failed \cup {name}
           /\ cgi' = [cgi EXCEPT ![t] = [pc |-> "insert", form |-> Form(t), res |-> 1]]
  <2> USE <1>1, <1>2, <1>3, <1>6 DEF FInv, FormsTyped, Form
  <2>1. \A u \in Threads : cgi'[u].pc = "insert" <=> u = t
    OBVIOUS
  <2>2. cgi'[t].form = cgi[t].form /\ cgi'[t].res = 1
    OBVIOUS
  <2>3. Mirror'
    BY <2>1, <2>2 DEF Mirror, InTable, OnTheWay, Inserting
  <2> QED
    BY <2>3 DEF RegisteredCanLogIn
<1> QED
  BY <1>4, <1>5, <1>6 DEF Query, Form

LEMMA InsertStep ==
  ASSUME FInv, NEW t \in Threads, Insert(t)
  PROVE  Mirror' /\ RegisteredCanLogIn'
<1> USE DEF FInv, FormsTyped
<1> DEFINE name == cgi[t].form.name
<1>1. cgi[t].pc = "insert" /\ cgi[t].form \in Forms /\ name \in Names /\ cgi[t].form.password \in Passwords
  BY DEF Insert, In, Busy, Forms
<1>2. UNCHANGED <<user, failed>>
  BY DEF Insert
<1>3. /\ \A n \in Names \ {name} : users'[n] = users[n]
      /\ users'[name] = IF users[name] = Absent THEN cgi[t].form.password ELSE users[name]
  BY <1>1 DEF Insert, Form
<1>4. /\ \A u \in Threads : cgi'[u].pc = "insert" <=> (cgi[u].pc = "insert" /\ u # t)
      /\ \A u \in Threads : cgi'[u].form = cgi[u].form /\ cgi'[u].res = cgi[u].res
  BY DEF Insert, Answer, Step
<1>5. \A u \in Threads : cgi[u].pc = "insert" => u = t
  BY <1>1 DEF HoldsLock, Inserting
<1>6. \A i \in DOMAIN user : user[i].username \in Names
  <2>1. \A i \in DOMAIN user : user[i] \in Rows
    OBVIOUS
  <2> QED
    BY <2>1 DEF Rows
<1>7. cgi[t].res \in 0 .. 1
  OBVIOUS
<1>8. Mirror'
  <2> SUFFICES ASSUME UniqueNames PROVE Mirror'
    BY DEF Mirror
  <2>1. \A i, j \in DOMAIN user' : user'[i].username = user'[j].username => i = j
    BY <1>2 DEF Mirror
  <2>2. \A n \in Names \ failed' : ~InTable(n)' => users'[n] = Absent
    BY <1>1, <1>2, <1>3, <1>7 DEF Mirror, InTable, Inserting
  <2>3. ASSUME NEW i \in DOMAIN user', user'[i].username \notin failed'
        PROVE  users'[user'[i].username] = user'[i].passwd
    <3>1. user' = user /\ failed' = failed /\ user[i].username \in Names
      BY <1>2, <1>6
    <3>2. i \in DOMAIN user /\ user[i].username \notin failed
      BY <2>3, <3>1
    <3>3. user[i].passwd \in Passwords
      <4>1. user[i] \in Rows
        BY <3>2
      <4> QED
        BY <4>1 DEF Rows
    <3>4. CASE users[user[i].username] = user[i].passwd
      <4>1. users[user[i].username] # Absent
        BY <3>3, <3>4, RegistrationAssumption
      <4> QED
        BY <1>3, <3>1, <3>4, <4>1
    <3>5. CASE OnTheWay(user[i].username)
      <4>1. user[i].username = name /\ cgi[t].res = 0
        BY <1>5, <3>5 DEF OnTheWay, Inserting
      <4>2. PICK j \in DOMAIN user : user[j] = [username |-> name, passwd |-> cgi[t].form.password]
        BY <1>1, <4>1 DEF Mirror, Inserting
      <4>3. i = j
        BY <3>2, <4>1, <4>2 DEF Mirror
      <4>4. users[name] = Absent
        BY <1>1, <3>2, <4>1 DEF Mirror, Inserting
      <4> QED
        BY <1>3, <3>1, <4>1, <4>2, <4>3, <4>4
    <3> QED
      BY <3>2, <3>4, <3>5 DEF Mirror
  <2> QED
    BY <1>4, <1>5, <2>1, <2>2, <2>3 DEF Mirror, Inserting
<1>9. RegisteredCanLogIn'
  <2> SUFFICES ASSUME UniqueNames, NEW a \in answers', a.form.url = "3", a.ok
               PROVE  /\ \E i \in DOMAIN user : user[i] = [username |-> a.form.name, passwd |-> a.form.password]
                      /\ a.form.name \notin failed => users'[a.form.name] = a.form.password
    BY <1>2 DEF RegisteredCanLogIn
  <2>1. answers' = answers \cup {[form |-> cgi[t].form, ok |-> cgi[t].res = 0]}
    BY DEF Insert, Answer, Form
  <2>2. CASE a \in answers
    <3>1. a.form.name \in Names /\ a.form.password \in Passwords
      BY <2>2 DEF Forms
    <3> QED
      BY <1>3, <2>2, <3>1, RegistrationAssumption DEF RegisteredCanLogIn
  <2>3. CASE a = [form |-> cgi[t].form, ok |-> cgi[t].res = 0]
    <3>1. a.form = cgi[t].form /\ cgi[t].res = 0
      BY <2>3
    <3> QED
      BY <1>1, <1>3, <3>1 DEF Mirror, Inserting
  <2> QED
    BY <2>1, <2>2, <2>3
<1> QED
  BY <1>8, <1>9

LEMMA FInvStep == FInv /\ [FormsNext]_allVars => FInv'
<1> SUFFICES ASSUME FInv, [FormsNext]_allVars PROVE FInv'
  OBVIOUS
<1>1. Typed'
  BY TypedStep, StepIsPoolStep DEF FInv
<1>2. Mirror' /\ RegisteredCanLogIn'
  <2>1. CASE UNCHANGED allVars
    BY <2>1, QuietStep DEF allVars, formVars, accounts, Quiet
  <2>2. ASSUME NEW t \in Threads, Bystander(t) PROVE Mirror' /\ RegisteredCanLogIn'
    BY <2>2, QuietSteps, QuietStep
  <2> QED
    BY <2>1, <2>2, QueryStep, InsertStep, Steps
<1> QED
  BY <1>1, <1>2, FormsTypedStep, BusyStep, HoldsLockStep DEF FInv

LEMMA FInvAlways == FormsSpec => []FInv
  BY FInvInit, FInvStep, PTL DEF FormsSpec

(* Types of the forms, the accounts and the pool.                         *)
THEOREM FormsTypeCorrect == FormsSpec => []FormsTypeOK
<1>1. FInv => FormsTypeOK
  BY DEF FInv, Typed, FormsTyped, FormsTypeOK
<1> QED
  BY <1>1, FInvAlways, PTL

(* With a key on username, whoever is told that the registration succeeded *)
(* can log in with that password, for any number of workers racing for the *)
(* name between the lookup and m_lock (http_conn.cpp:492-498).             *)
THEOREM RegisteredLogsIn == FormsSpec => []RegisteredCanLogIn
<1>1. FInv => RegisteredCanLogIn
  BY DEF FInv
<1> QED
  BY <1>1, FInvAlways, PTL

(* With a key on username, a restart changes no account but those whose    *)
(* INSERT is on its way or failed (http_conn.cpp:32-60, 496-497).          *)
THEOREM AccountsOutliveRestart == FormsSpec => []RestartKeepsAccounts
<1>1. FInv => RestartKeepsAccounts
  <2> SUFFICES ASSUME FInv, UniqueNames, NEW n \in Names \ failed, Pending(n) = {}
               PROVE  users[n] = Load(user)[n]
    BY DEF RestartKeepsAccounts
  <2>1. ~OnTheWay(n)
    BY DEF FInv, Busy, OnTheWay, Inserting, Pending, In, At, Form
  <2>2. CASE InTable(n)
    <3>1. PICK i \in DOMAIN user : user[i].username = n
      BY <2>2 DEF InTable
    <3>2. users[n] = user[i].passwd
      BY <2>1, <3>1 DEF FInv, Mirror
    <3> QED
      BY <3>1, <3>2, LoadRow DEF FInv, FormsTyped, Mirror
  <2>3. CASE ~InTable(n)
    <3>1. users[n] = Absent
      BY <2>3 DEF FInv, Mirror
    <3>2. {i \in DOMAIN user : user[i].username = n} = {}
      BY <2>3 DEF InTable
    <3> QED
      BY <3>1, <3>2 DEF Load
  <2> QED
    BY <2>2, <2>3
<1> QED
  BY <1>1, FInvAlways, PTL
=============================================================================
