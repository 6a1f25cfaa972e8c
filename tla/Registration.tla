---------------------------- MODULE Registration -----------------------------
(***************************************************************************)
(* Registration and login in http/http_conn.cpp: the forms of do_request,  *)
(* which a worker serves with the connection it has from the pool.  The    *)
(* accounts are in the table user of MySQL and in the map users, which     *)
(* initmysql_result fills when the server starts.  A registration looks    *)
(* into the map without m_lock, then, with m_lock, inserts into the table  *)
(* and into the map, whatever the table says.                              *)
(***************************************************************************)
EXTENDS SqlPool

CONSTANTS
  Names, Passwords,
  Absent,         \* no password: the name is not in the map
  UniqueNames,    \* is username a key of the table?  The schema is not here.
  MaxForms,       \* bound: how many forms are sent
  MaxFailures     \* bound: how many INSERTs fail although the name is new

ASSUME RegistrationAssumption ==
  /\ Absent \notin Passwords /\ NULL \notin Threads
  /\ UniqueNames \in BOOLEAN
  /\ MaxForms \in Nat /\ MaxFailures \in Nat

Rows  == [username : Names, passwd : Passwords]
Forms == [url : {"2", "3"}, name : Names, password : Passwords]   \* log in, register
NoForm == [url |-> "none"]

VARIABLES
  users,     \* the map
  user,      \* the table, in the order of the inserts
  m_lock,    \* who holds it, NULL for nobody
  cgi,       \* the form each thread is serving, and where in do_request it is
  forms,     \* how many forms were sent
  answers,   \* the forms that were answered, and whether with the page of success
  failed     \* the names whose INSERT failed although they were new

poolVars == vars
accounts == <<users, user>>
formVars == <<accounts, m_lock, cgi, forms, answers, failed>>
allVars  == <<poolVars, formVars>>

\* initmysql_result: users[row[0]] = row[1], row after row.
Load(rows) ==
  [n \in Names |->
     LET own == {i \in DOMAIN rows : rows[i].username = n} IN
     IF own = {} THEN Absent ELSE rows[CHOOSE i \in own : \A j \in own : j <= i].passwd]

FormsInit ==
  /\ Init
  /\ user \in {<<>>} \cup {<<row>> : row \in Rows}
  /\ users = Load(user)
  /\ m_lock = NULL
  /\ cgi = [t \in Threads |-> [pc |-> "idle", form |-> NoForm, res |-> 0]]
  /\ forms = 0 /\ answers = {} /\ failed = {}

In(t, pc) == At(t, "use") /\ cgi[t].pc = pc
Form(t) == cgi[t].form
Step(t, pc) == cgi' = [cgi EXCEPT ![t].pc = pc]

Answer(t, ok) ==
  /\ answers' = answers \cup {[form |-> Form(t), ok |-> ok]}
  /\ Step(t, "answered")
-----------------------------------------------------------------------------
\* The request is a form; others do not concern the accounts.
Submit(t, form) ==
  /\ In(t, "idle") /\ forms < MaxForms
  /\ forms' = forms + 1
  /\ cgi' = [cgi EXCEPT ![t] = [pc |-> "find", form |-> form, res |-> 0]]
  /\ UNCHANGED <<poolVars, accounts, m_lock, answers, failed>>

\* users.find(name), without m_lock: undefined while another thread is in
\* users.insert; a name that is in the map may not be found.
Found(t) == {users[Form(t).name] # Absent}
              \cup (IF \E u \in Threads \ {t} : In(u, "insert") THEN {FALSE} ELSE {})

Find(t) ==
  /\ In(t, "find") /\ Form(t).url = "3"
  /\ \E found \in Found(t) :
       IF found THEN Answer(t, FALSE) ELSE Step(t, "lock") /\ UNCHANGED answers
  /\ UNCHANGED <<poolVars, accounts, m_lock, forms, failed>>

InTable(name) == \E i \in DOMAIN user : user[i].username = name

\* lock; mysql_query: INSERT.
Query(t) ==
  /\ In(t, "lock") /\ Held(t) # NULL
  /\ m_lock = NULL /\ m_lock' = t
  /\ \/ /\ ~(UniqueNames /\ InTable(Form(t).name))
        /\ user' = Append(user, [username |-> Form(t).name, passwd |-> Form(t).password])
        /\ cgi' = [cgi EXCEPT ![t] = [pc |-> "insert", form |-> Form(t), res |-> 0]]
        /\ UNCHANGED failed
     \/ /\ UniqueNames /\ InTable(Form(t).name)
        /\ cgi' = [cgi EXCEPT ![t] = [pc |-> "insert", form |-> Form(t), res |-> 1]]
        /\ UNCHANGED <<user, failed>>
     \/ /\ ~InTable(Form(t).name) /\ Cardinality(failed) < MaxFailures
        /\ cgi' = [cgi EXCEPT ![t] = [pc |-> "insert", form |-> Form(t), res |-> 1]]
        /\ failed' = failed \cup {Form(t).name}
        /\ UNCHANGED user
  /\ UNCHANGED <<poolVars, users, forms, answers>>

\* mysql_query without a connection is undefined: the thread is not followed
\* any further, and m_lock is not released.
QueryNull(t) ==
  /\ In(t, "lock") /\ Held(t) = NULL
  /\ m_lock = NULL /\ m_lock' = t
  /\ Step(t, "undefined")
  /\ UNCHANGED <<poolVars, accounts, forms, answers, failed>>

Insert_Overwrite(t) ==             \* users[name] = password
  /\ In(t, "insert")
  /\ users' = [users EXCEPT ![Form(t).name] = Form(t).password]
  /\ m_lock' = NULL
  /\ Answer(t, cgi[t].res = 0)
  /\ UNCHANGED <<poolVars, user, forms, failed>>

Insert_TableOnly(t) ==             \* the map is left to the next start
  /\ In(t, "insert")
  /\ m_lock' = NULL
  /\ Answer(t, cgi[t].res = 0)
  /\ UNCHANGED <<poolVars, accounts, forms, failed>>

\* users.insert, which leaves a name alone that is in the map; unlock; the page
\* by the result of the INSERT.
Insert(t) ==
  /\ In(t, "insert")
  /\ users' = [users EXCEPT ![Form(t).name] = IF @ = Absent THEN Form(t).password ELSE @]
  /\ m_lock' = NULL
  /\ Answer(t, cgi[t].res = 0)
  /\ UNCHANGED <<poolVars, user, forms, failed>>

\* A login looks into the map only, and without m_lock.
Login(t) ==
  /\ In(t, "find") /\ Form(t).url = "2"
  /\ \E found \in Found(t) : Answer(t, found /\ users[Form(t).name] = Form(t).password)
  /\ UNCHANGED <<poolVars, accounts, m_lock, forms, failed>>

\* process returns and connectionRAII's destructor runs.
Return(t) ==
  /\ Release(t)
  /\ cgi[t].pc \in {"idle", "answered"}
  /\ Step(t, "idle")
  /\ UNCHANGED <<accounts, m_lock, forms, answers, failed>>
-----------------------------------------------------------------------------
Serve(t) == Find(t) \/ Query(t) \/ QueryNull(t) \/ Insert(t) \/ Login(t)

FormsNext ==
  \E t \in Threads :
    \/ Get(t) /\ UNCHANGED formVars
    \/ \E form \in Forms : Submit(t, form)
    \/ Serve(t)
    \/ Return(t)

FormsSpec == FormsInit /\ [][FormsNext]_allVars

\* The fairness of the pool, with process, which ends when the form is served.
FormsFairSpec ==
  /\ FormsSpec
  /\ \A t \in Threads : /\ WF_allVars(Wait(t) /\ UNCHANGED formVars)
                        /\ WF_allVars(Pop(t) /\ UNCHANGED formVars)
                        /\ WF_allVars(Serve(t)) /\ WF_allVars(Return(t))
-----------------------------------------------------------------------------
FormsTypeOK ==
  /\ TypeOK
  /\ users \in [Names -> Passwords \cup {Absent}]
  /\ user \in Seq(Rows)
  /\ m_lock \in Threads \cup {NULL}
  /\ cgi \in [Threads -> [pc : {"idle", "find", "lock", "insert", "answered", "undefined"},
                          form : Forms \cup {NoForm}, res : 0 .. 1]]
  /\ forms \in 0 .. MaxForms
  /\ answers \subseteq [form : Forms, ok : BOOLEAN]
  /\ failed \subseteq Names

\* The threads whose INSERT of this name is not in the map yet.
Pending(name) == {t \in Threads : In(t, "insert") /\ Form(t).name = name}

(* With a key on username, who is told that the registration succeeded is  *)
(* in the table and can log in with that password at once, although the    *)
(* name was looked up before m_lock was taken and other registrations of   *)
(* the name may have come in between (http_conn.cpp:492-498).  Only a name *)
(* whose INSERT once failed is an exception: the map has kept it.          *)
RegisteredCanLogIn ==
  UniqueNames =>
    \A a \in answers : a.form.url = "3" /\ a.ok =>
      /\ \E i \in DOMAIN user : user[i] = [username |-> a.form.name, passwd |-> a.form.password]
      /\ a.form.name \notin failed => users[a.form.name] = a.form.password

(* With a key on username, a restart changes no account: the map is what   *)
(* initmysql_result would load from the table, but for the INSERTs on the  *)
(* way and the names whose INSERT failed (http_conn.cpp:32-60, 496-497).   *)
RestartKeepsAccounts ==
  UniqueNames =>
    \A n \in Names \ failed : Pending(n) = {} => users[n] = Load(user)[n]

(* "if the name and password can be found in the table": who is welcomed   *)
(* is in the table (http_conn.cpp:510-515).                                *)
WelcomeIsInTable ==
  \A a \in answers : a.form.url = "2" /\ a.ok =>
    \E i \in DOMAIN user : user[i] = [username |-> a.form.name, passwd |-> a.form.password]
=============================================================================
