---------------------------- MODULE ServerProofs ----------------------------
(***************************************************************************)
(* Theorems about Server, for every number of descriptors, connections and *)
(* workers and every timer life: TypeOK, and the two invariants that keep  *)
(* the main thread's timer pointers good, NoDanglingTimer and OpenHasTimer,*)
(* whatever the workers close behind its back.  If the workers close       *)
(* nothing, also TickClosesItsOwn; if requests are prompt as well, also    *)
(* OneOwner and AnswersOwnRequest.  The last section shows that Server     *)
(* uses its timers and its pool as ActiveTimers and WorkQueue say.         *)
(***************************************************************************)
EXTENDS Server, FiniteSetTheorems, TLAPS

WorkerHasSlot == \A w \in Workers : worker[w].pc # "idle" => worker[w].fd \in Fds

AcceptHasConn == main.pc = "accepted" => main.fd \in Fds /\ main.timer \in Conns

Typed == TypeOK /\ WorkerHasSlot /\ AcceptHasConn

USE DEF NoFd, Between

LEMMA TypedInit == Init => Typed
  BY ServerAssumption DEF Init, Typed, TypeOK, WorkerHasSlot, AcceptHasConn, Pcs, WorkerPcs, Events, Empty, AT!Init

TimersTyped == timers \subseteq Conns /\ left \in [Conns -> 0 .. Life]

MainTyped == main \in [pc : Pcs, fd : Fds \cup {NoFd}, timer : Conns \cup {None}, reg : Int]

SendingTyped == sending \in [Fds -> [who : Conns \cup {None}, n : 0 .. Chunks]]

\* A function stays typed when one value of it is replaced.
LEMMA Update ==
  ASSUME NEW D, NEW S, NEW f \in [D -> S], NEW x, NEW v \in S
  PROVE  [f EXCEPT ![x] = v] \in [D -> S]
  OBVIOUS

LEMMA SendingPart ==
  ASSUME NEW S, NEW T, NEW f \in [Fds -> [who : S, n : T]], NEW fd \in Fds, NEW n \in T
  PROVE  [f EXCEPT ![fd].n = n] \in [Fds -> [who : S, n : T]]
  OBVIOUS

LEMMA SendingOwner ==
  ASSUME NEW S, NEW T, NEW f \in [Fds -> [who : S, n : T]], NEW fd \in Fds, NEW c \in S
  PROVE  [f EXCEPT ![fd].who = c] \in [Fds -> [who : S, n : T]]
  OBVIOUS

LEMMA RemovefdTyped ==
  ASSUME TypeOK, NEW fd, Removefd(fd)
  PROVE  /\ socket' \in [Fds -> Conns \cup {None}]
         /\ epoll' \in [Fds -> {"none", "off", "in", "out"}]
         /\ peer' \in [Conns -> {"away", "backlog", "open", "hup", "done"}]
         /\ unread' \subseteq Conns
  BY DEF TypeOK, Removefd

\* The operations of the timer container keep its type.
LEMMA ContainerTyped ==
  ASSUME TimersTyped, NEW t,
         (t \in Conns /\ AT!Add(t, Life)) \/ AT!Del(t) \/ AT!Adjust(t, Life) \/ AT!Age
           \/ UNCHANGED <<timers, left>>
  PROVE  TimersTyped'
<1>1. Life \in Nat /\ 0 \in 0 .. Life /\ Life \in 0 .. Life
  BY ServerAssumption
<1>2. CASE t \in Conns /\ AT!Add(t, Life)
  BY <1>1, <1>2, Update DEF TimersTyped, AT!Add
<1>3. CASE AT!Del(t)
  BY <1>1, <1>3, Update DEF TimersTyped, AT!Del
<1>4. CASE AT!Adjust(t, Life)
  BY <1>1, <1>4, Update DEF TimersTyped, AT!Adjust
<1>5. CASE AT!Age
  BY <1>1, <1>5 DEF TimersTyped, AT!Age
<1>6. CASE UNCHANGED <<timers, left>>
  BY <1>6 DEF TimersTyped
<1> QED
  BY <1>2, <1>3, <1>4, <1>5, <1>6

LEMMA PostponeTyped ==
  ASSUME Typed, NEW fd \in Fds, Postpone(fd)
  PROVE  TimersTyped'
<1>1. TimersTyped
  BY DEF Typed, TypeOK, TimersTyped
<1>2. AT!Adjust(users_timer[fd], Life) \/ UNCHANGED <<timers, left>>
  BY DEF Postpone
<1> QED
  BY <1>1, <1>2, ContainerTyped

LEMMA TypedStep == Typed /\ [Next]_vars => Typed'
<1> SUFFICES ASSUME Typed, [Next]_vars PROVE Typed'
  OBVIOUS
<1> USE ServerAssumption DEF Typed, TypeOK, WorkerHasSlot, AcceptHasConn, Pcs, WorkerPcs, Events, Empty, kernelVars, slotVars, clockVars
<1>a. TimersTyped /\ MainTyped /\ SendingTyped
  BY DEF TimersTyped, MainTyped, SendingTyped
<1>b. Life \in Nat /\ Chunks \in Nat
  OBVIOUS
<1>d. AcceptHasConn
  OBVIOUS
<1>0. CASE UNCHANGED vars
  BY <1>0 DEF vars
<1>1. ASSUME NEW c \in Conns, Connect(c) PROVE Typed'
  BY <1>1 DEF Connect
<1>2. ASSUME NEW c \in Conns, Send(c) PROVE Typed'
  BY <1>2 DEF Send
<1>3. ASSUME NEW c \in Conns, HangUp(c) PROVE Typed'
  BY <1>3 DEF HangUp
<1>4. CASE Slot
  <2>1. TimersTyped'
    BY <1>a, <1>4, ContainerTyped DEF Slot, TimersTyped
  <2>2. alarm' \in {"set", "fired", "timeout"}
    BY <1>4 DEF Slot, TimersTyped
  <2> QED
    BY <1>4, <2>1, <2>2 DEF Slot, TimersTyped
<1>5. CASE EpollWait
  <2>1. batch' \subseteq Events
    BY <1>5 DEF EpollWait, Reported
  <2>2. epoll' \in [Fds -> {"none", "off", "in", "out"}]
    BY <1>5 DEF EpollWait, Disarmed
  <2>3. main' \in [pc : Pcs, fd : Fds \cup {NoFd}, timer : Conns \cup {None}, reg : Int]
    BY <1>5 DEF EpollWait
  <2> QED
    BY <1>5, <2>1, <2>2, <2>3 DEF EpollWait
<1>6. CASE Accept
  <2> PICK c \in Conns, fd \in FreeFds :
             /\ socket' = [socket EXCEPT ![fd] = c]
             /\ epoll' = [epoll EXCEPT ![fd] = "in"]
             /\ peer' = [peer EXCEPT ![c] = "open"]
             /\ m_sockfd' = [m_sockfd EXCEPT ![fd] = fd]
             /\ main' = [pc |-> "accepted", fd |-> fd, timer |-> c, reg |-> m_user_count]
    BY <1>6 DEF Accept
  <2> QED
    BY <1>6 DEF Accept, Handle, FreeFds
<1>7. CASE AcceptDone
  <2>0. main.fd \in Fds \cup {NoFd} /\ main.timer \in Conns \cup {None} /\ main.reg \in Int
    BY <1>a DEF MainTyped
  <2>1. reading' \in [Fds -> Conns \cup {None}] /\ m_user_count' \in Int
    BY <1>7, <2>0 DEF AcceptDone
  <2>5. SendingTyped'
    <3>1. main.fd \in Fds /\ sending' = [sending EXCEPT ![main.fd].n = 0]
      BY <1>7, <1>d DEF AcceptDone
    <3>2. 0 \in 0 .. Chunks
      BY <1>b
    <3> QED
      BY <1>a, <3>1, <3>2, SendingPart DEF SendingTyped
  <2>2. /\ users_timer' \in [Fds -> Conns \cup {None}]
        /\ timer_fd' \in [Conns -> Fds \cup {NoFd}]
    BY <1>7, <2>0 DEF AcceptDone
  <2>3. TimersTyped'
    <3>1. main.timer \in Conns
      BY <1>7, <1>d DEF AcceptDone
    <3> QED
      BY <1>a, <1>7, <3>1, ContainerTyped DEF AcceptDone
  <2>4. MainTyped'
    BY <1>7 DEF AcceptDone, MainTyped, Pcs
  <2> QED
    BY <1>7, <2>1, <2>2, <2>3, <2>4, <2>5 DEF AcceptDone, TimersTyped, MainTyped, SendingTyped
<1>8. CASE Refuse
  <2>1. peer' \in [Conns -> {"away", "backlog", "open", "hup", "done"}]
    BY <1>8 DEF Refuse
  <2> QED
    BY <1>8, <2>1 DEF Refuse, Handle
<1>9. CASE AcceptFails
  BY <1>9 DEF AcceptFails, Handle
<1>10. CASE CbFuncDone
  <2>1. TimersTyped'
    BY <1>a, <1>10, ContainerTyped DEF CbFuncDone
  <2>2. m_user_count' \in Int
    BY <1>10 DEF CbFuncDone
  <2>3. main' \in [pc : Pcs, fd : Fds \cup {NoFd}, timer : Conns \cup {None}, reg : Int]
    BY <1>10 DEF CbFuncDone
  <2> QED
    BY <1>10, <2>1, <2>2, <2>3 DEF CbFuncDone, TimersTyped
<1>11. CASE HandleSignal
  BY <1>11 DEF HandleSignal, Handle
<1>12. CASE BatchDone
  BY <1>12 DEF BatchDone
<1>13. CASE TickDone
  BY <1>13 DEF TickDone
<1>14. ASSUME NEW fd \in Fds, HandleHup(fd) PROVE Typed'
  BY <1>14 DEF HandleHup, Handle, Drop, CbFunc, Removefd
<1>15. ASSUME NEW fd \in Fds, HandleIn(fd) PROVE Typed'
  <2>1. TimersTyped'
    BY <1>15, PostponeTyped DEF HandleIn
  <2>2. workqueue' \in Seq(Fds)
    BY <1>15 DEF HandleIn
  <2> QED
    BY <1>15, <2>1, <2>2 DEF HandleIn, Handle, Postpone, TimersTyped
<1>16. ASSUME NEW fd \in Fds, HandleInFails(fd) PROVE Typed'
  BY <1>16 DEF HandleInFails, Handle, Drop, CbFunc, Removefd
<1>17. ASSUME NEW fd \in Fds, HandleOut(fd) PROVE Typed'
  <2>1. TimersTyped'
    BY <1>17, PostponeTyped DEF HandleOut
  <2>2. epoll' \in [Fds -> {"none", "off", "in", "out"}]
    BY <1>17 DEF HandleOut, Modfd
  <2>3. SendingTyped' /\ reading' \in [Fds -> Conns \cup {None}]
    <3>1. 0 \in 0 .. Chunks
      BY <1>b
    <3>2. SendingTyped'
      BY <1>a, <1>17, <3>1, SendingPart DEF HandleOut, SendingTyped
    <3> QED
      BY <1>17, <3>2 DEF HandleOut
  <2>4. batch' \subseteq Events
    BY <1>17 DEF HandleOut, Handle
  <2> QED
    BY <1>17, <2>1, <2>2, <2>3, <2>4 DEF HandleOut, Postpone, TimersTyped, SendingTyped
<1>18. ASSUME NEW fd \in Fds, HandleOutAgain(fd) PROVE Typed'
  <2>1. TimersTyped'
    BY <1>18, PostponeTyped DEF HandleOutAgain
  <2>2. epoll' \in [Fds -> {"none", "off", "in", "out"}]
    BY <1>18 DEF HandleOutAgain, Modfd
  <2>3. SendingTyped'
    <3> PICK n \in 1 .. sending[fd].n - 1 : sending' = [sending EXCEPT ![fd].n = n]
      BY <1>18 DEF HandleOutAgain
    <3>1. sending[fd].n \in 0 .. Chunks
      BY <1>a DEF SendingTyped
    <3>2. n \in 0 .. Chunks
      BY <1>b, <3>1
    <3> QED
      BY <1>a, <3>2, SendingPart DEF SendingTyped
  <2>4. batch' \subseteq Events
    BY <1>18 DEF HandleOutAgain, Handle
  <2> QED
    BY <1>18, <2>1, <2>2, <2>3, <2>4 DEF HandleOutAgain, Postpone, TimersTyped, SendingTyped
<1>19. ASSUME NEW fd \in Fds, HandleOutFails(fd) PROVE Typed'
  BY <1>19 DEF HandleOutFails, Handle, Drop, CbFunc, Removefd
<1>20. ASSUME NEW t \in Conns, Expire(t) PROVE Typed'
  BY <1>20 DEF Expire, CbFunc, Removefd
<1>21. ASSUME NEW w \in Workers, Take(w) PROVE Typed'
  BY <1>21 DEF Take, At, GoTo
<1>22. ASSUME NEW w \in Workers, Incomplete(w) PROVE Typed'
  BY <1>22 DEF Incomplete, At, GoTo, Modfd
<1>23. ASSUME NEW w \in Workers, Respond(w) PROVE Typed'
  <2>0. worker[w].fd \in Fds
    BY <1>23 DEF Respond, At
  <2>1. SendingTyped'
    <3> PICK n \in 1 .. Chunks : sending' = [sending EXCEPT ![worker[w].fd].n = n]
      BY <1>23 DEF Respond
    <3>1. n \in 0 .. Chunks
      BY <1>b
    <3> QED
      BY <1>a, <2>0, <3>1, SendingPart DEF SendingTyped
  <2>2. worker' \in [Workers -> [pc : WorkerPcs, fd : Fds \cup {NoFd}, reg : Int]] /\ WorkerHasSlot'
    BY <1>23, <2>0 DEF Respond, GoTo
  <2> QED
    BY <1>23, <2>1, <2>2 DEF Respond, SendingTyped
<1>28. ASSUME NEW w \in Workers, ReadRequest(w) PROVE Typed'
  <2>0. worker[w].fd \in Fds
    BY <1>28 DEF ReadRequest, At
  <2>1. SendingTyped'
    <3>1. /\ sending' = [sending EXCEPT ![worker[w].fd].who = reading[worker[w].fd]]
          /\ reading[worker[w].fd] \in Conns \cup {None}
      BY <1>28, <2>0 DEF ReadRequest
    <3> QED
      BY <1>a, <2>0, <3>1, SendingOwner DEF SendingTyped
  <2>2. worker' \in [Workers -> [pc : WorkerPcs, fd : Fds \cup {NoFd}, reg : Int]] /\ WorkerHasSlot'
    BY <1>28, <2>0 DEF ReadRequest, GoTo
  <2> QED
    BY <1>28, <2>1, <2>2 DEF ReadRequest, SendingTyped
<1>24. ASSUME NEW w \in Workers, CloseConn(w) PROVE Typed'
  <2>0. worker[w].fd \in Fds
    BY <1>24 DEF CloseConn, At
  <2>1. \E pc \in {"closed", "rearm"} : GoTo(w, pc, worker[w].fd, 0)
    BY <1>24 DEF CloseConn
  <2>2. worker' \in [Workers -> [pc : WorkerPcs, fd : Fds \cup {NoFd}, reg : Int]] /\ WorkerHasSlot'
    BY <2>0, <2>1 DEF GoTo
  <2>3. UNCHANGED kernelVars \/ Removefd(worker[w].fd)
    BY <1>24 DEF CloseConn
  <2>4. /\ socket' \in [Fds -> Conns \cup {None}]
        /\ epoll' \in [Fds -> {"none", "off", "in", "out"}]
        /\ peer' \in [Conns -> {"away", "backlog", "open", "hup", "done"}]
        /\ unread' \subseteq Conns
    BY <2>3, RemovefdTyped
  <2> QED
    BY <1>24, <2>2, <2>4 DEF CloseConn
<1>25. ASSUME NEW w \in Workers, CloseConnLoad(w) PROVE Typed'
  BY <1>25 DEF CloseConnLoad, At, GoTo
<1>26. ASSUME NEW w \in Workers, CloseConnDone(w) PROVE Typed'
  BY <1>26 DEF CloseConnDone, At, GoTo
<1>27. ASSUME NEW w \in Workers, Rearm(w) PROVE Typed'
  BY <1>27 DEF Rearm, At, GoTo, Modfd
<1> QED
  BY <1>0, <1>1, <1>2, <1>3, <1>4, <1>5, <1>6, <1>7, <1>8, <1>9, <1>10, <1>11, <1>12, <1>13, <1>14, <1>15, <1>16, <1>17, <1>18, <1>19, <1>20, <1>21, <1>22, <1>23, <1>24, <1>25, <1>26, <1>27, <1>28 DEF Next, Clients, MainThread, Worker

-----------------------------------------------------------------------------
Accepting(fd) == main.pc = "accepted" /\ main.fd = fd

\* A connection is open on one descriptor at most.
SocketsDistinct ==
  \A f, g \in Fds : socket[f] # None /\ socket[f] = socket[g] => f = g

\* A connection the server has not accepted yet has left no trace in it.
FreshUnknown ==
  \A c \in Conns : peer[c] \in {"away", "backlog"} =>
    /\ c \notin timers
    /\ \A fd \in Fds : socket[fd] # c /\ users_timer[fd] # c

RegisteredIsOpen == \A fd \in Fds : epoll[fd] # "none" => socket[fd] # None

\* users_timer[fd].timer->user_data is &users_timer[fd].
TimerPointsBack ==
  \A fd \in Fds : users_timer[fd] # None => timer_fd[users_timer[fd]] = fd

\* Between users[connfd].init and add_timer.
AcceptInProgress ==
  main.pc = "accepted" =>
    /\ main.fd \in Fds /\ main.timer \in Conns \ timers
    /\ peer[main.timer] \notin {"away", "backlog"}
    /\ socket[main.fd] \in {None, main.timer}
    /\ \A fd \in Fds : /\ users_timer[fd] # main.timer
                       /\ socket[fd] = main.timer => fd = main.fd

OneEventEach ==
  /\ \A d, e \in batch : d.fd = e.fd /\ d.fd \in Fds => d = e
  /\ batch # {} => main.pc \in {"dispatch", "accepted", "closing"}

EventHasTimer ==
  \A e \in batch : e.fd \in Fds => users_timer[e.fd] \in timers

\* Between cb_func's close and the delete of the timer.
CloseInProgress ==
  main.pc \in {"closing", "expiring"} =>
    /\ main.timer # None /\ \A fd \in Fds : socket[fd] # main.timer
    /\ \A e \in batch : e.fd \in Fds => users_timer[e.fd] # main.timer

Ownership ==
  /\ SocketsDistinct /\ FreshUnknown /\ RegisteredIsOpen
  /\ TimerPointsBack /\ OpenHasTimer
  /\ AcceptInProgress /\ OneEventEach /\ EventHasTimer /\ CloseInProgress

IInv == Typed /\ Ownership

LEMMA OwnershipInit == Init => Ownership
  BY ServerAssumption DEF Init, Ownership, SocketsDistinct, FreshUnknown, RegisteredIsOpen, TimerPointsBack,
         OpenHasTimer, AcceptInProgress, OneEventEach, EventHasTimer, CloseInProgress, AT!Init

\* A step that opens and closes nothing, changes no timer, accepts nobody and
\* at most takes events off the batch.
Quiet ==
  /\ UNCHANGED <<socket, users_timer, timer_fd, timers, main>>
  /\ batch' \subseteq batch
  /\ \A fd \in Fds : epoll'[fd] # "none" => epoll[fd] # "none"
  /\ \A c \in Conns : peer'[c] \in {"away", "backlog"} => peer[c] \in {"away", "backlog"}

LEMMA QuietStep ==
  ASSUME IInv, Quiet
  PROVE  Ownership'
<1> USE DEF IInv, Ownership, Quiet
<1>1. SocketsDistinct' /\ TimerPointsBack' /\ OpenHasTimer'
  BY DEF SocketsDistinct, TimerPointsBack, OpenHasTimer
<1>2. FreshUnknown'
  BY DEF FreshUnknown
<1>3. RegisteredIsOpen'
  BY DEF RegisteredIsOpen
<1>4. AcceptInProgress'
  BY DEF AcceptInProgress, Typed, AcceptHasConn
<1>5. OneEventEach' /\ EventHasTimer' /\ CloseInProgress'
  BY DEF OneEventEach, EventHasTimer, CloseInProgress
<1> QED
  BY <1>1, <1>2, <1>3, <1>4, <1>5

\* Closing a descriptor disturbs nothing the others rely on.
LEMMA RemovefdStep ==
  ASSUME IInv, NEW fd, Removefd(fd), UNCHANGED <<users_timer, timer_fd, timers>>
  PROVE  /\ SocketsDistinct' /\ FreshUnknown' /\ RegisteredIsOpen' /\ TimerPointsBack'
         /\ \A g \in Fds : socket'[g] # None => g # fd /\ socket'[g] = socket[g]
         /\ \A c \in Conns : peer'[c] \in {"away", "backlog"} => peer[c] \in {"away", "backlog"}
<1> USE DEF IInv, Ownership, Typed, TypeOK
<1>1. /\ \A g \in Fds : socket'[g] # None => g # fd /\ socket'[g] = socket[g]
      /\ \A g \in Fds : epoll'[g] # "none" => g # fd /\ epoll'[g] = epoll[g]
      /\ \A c \in Conns : peer'[c] \in {"away", "backlog"} => peer[c] \in {"away", "backlog"}
  BY DEF Removefd
<1>2. SocketsDistinct'
  BY <1>1 DEF SocketsDistinct
<1>3. FreshUnknown'
  BY <1>1, ServerAssumption DEF FreshUnknown
<1>4. RegisteredIsOpen'
  BY DEF RegisteredIsOpen, Removefd
<1>5. TimerPointsBack'
  BY DEF TimerPointsBack
<1> QED
  BY <1>1, <1>2, <1>3, <1>4, <1>5

\* cb_func for the timer t of the descriptor fd, which leaves the list next.
LEMMA CbFuncStep ==
  ASSUME IInv, NEW fd, NEW t \in timers, NEW pc \in {"closing", "expiring"},
         CbFunc(fd, t, pc), UNCHANGED <<users_timer, timer_fd, timers>>,
         timer_fd[t] = fd, main.pc \notin {"accepted"},
         batch' \subseteq batch, batch' # {} => pc = "closing",
         \A e \in batch' : e.fd # fd \/ e.fd \notin Fds
  PROVE  Ownership'
<1> USE DEF IInv, Ownership
<1>1. Removefd(fd) /\ main' = [pc |-> pc, fd |-> fd, timer |-> t, reg |-> m_user_count]
  BY DEF CbFunc
<1>2. /\ SocketsDistinct' /\ FreshUnknown' /\ RegisteredIsOpen' /\ TimerPointsBack'
      /\ \A g \in Fds : socket'[g] # None => g # fd /\ socket'[g] = socket[g]
  BY <1>1, RemovefdStep
<1>3. t \in Conns
  BY DEF Typed, TypeOK
<1>4. OpenHasTimer'
  BY <1>1, <1>2 DEF OpenHasTimer
<1>5. AcceptInProgress'
  BY <1>1 DEF AcceptInProgress
<1>6. OneEventEach'
  BY <1>1 DEF OneEventEach
<1>7. EventHasTimer'
  BY DEF EventHasTimer
<1>8. CloseInProgress'
  <2>1. \A g \in Fds : socket'[g] # t
    <3> SUFFICES ASSUME NEW g \in Fds, socket'[g] = t PROVE FALSE
      OBVIOUS
    <3>1. t # None
      BY <1>3, ServerAssumption
    <3>2. g # fd /\ socket[g] = t
      BY <1>2, <3>1
    <3>3. timer_fd[t] = g
      BY <3>1, <3>2 DEF OpenHasTimer
    <3> QED
      BY <3>2, <3>3
  <2>2. \A e \in batch' : e.fd \in Fds => users_timer[e.fd] # t
    BY <1>3, ServerAssumption DEF TimerPointsBack
  <2> QED
    BY <1>1, <1>3, <2>1, <2>2, ServerAssumption DEF CloseInProgress
<1> QED
  BY <1>2, <1>4, <1>5, <1>6, <1>7, <1>8

\* A handler of the main thread that drops the connection whose event it took.
LEMMA DropStep ==
  ASSUME IInv, NEW fd \in Fds, NEW ev, Handle(fd, ev), Drop(fd)
  PROVE  Ownership'
<1> USE DEF IInv, Ownership
<1>1. /\ main.pc = "dispatch" /\ [fd |-> fd, ev |-> ev] \in batch
      /\ batch' = batch \ {[fd |-> fd, ev |-> ev]}
  BY DEF Handle
<1>2. users_timer[fd] \in timers
  BY <1>1 DEF EventHasTimer
<1>3. users_timer[fd] # None
  BY <1>2, ServerAssumption DEF Typed, TypeOK
<1>4. timer_fd[users_timer[fd]] = fd
  BY <1>3 DEF TimerPointsBack
<1>5. \A e \in batch' : e.fd # fd
  BY <1>1 DEF OneEventEach
<1>6. CbFunc(fd, users_timer[fd], "closing") /\ UNCHANGED <<users_timer, timer_fd, timers>>
  BY DEF Drop, clockVars
<1> QED
  BY <1>1, <1>2, <1>4, <1>5, <1>6, CbFuncStep

LEMMA OwnershipStep == IInv /\ [Next]_vars => Ownership'
<1> SUFFICES ASSUME IInv, [Next]_vars PROVE Ownership'
  OBVIOUS
<1> USE DEF kernelVars, slotVars, clockVars
<1>0. CASE UNCHANGED vars
  BY <1>0, QuietStep DEF vars, Quiet
<1>1. ASSUME NEW c \in Conns, Connect(c) PROVE Ownership'
  BY <1>1, QuietStep DEF Connect, Quiet, IInv, Typed, TypeOK
<1>2. ASSUME NEW c \in Conns, Send(c) PROVE Ownership'
  BY <1>2, QuietStep DEF Send, Quiet
<1>3. ASSUME NEW c \in Conns, HangUp(c) PROVE Ownership'
  BY <1>3, QuietStep DEF HangUp, Quiet, IInv, Typed, TypeOK
<1>4. CASE Slot
  BY <1>4, QuietStep DEF Slot, AT!Age, Quiet
<1>5. CASE EpollWait
  <2> USE DEF IInv, Ownership
  <2>1. PICK sendable : batch' = Reported(sendable) /\ epoll' = Disarmed(Reported(sendable))
    BY <1>5 DEF EpollWait
  <2>2. main.pc = "wait" /\ main'.pc = "dispatch"
        /\ UNCHANGED <<socket, peer, users_timer, timer_fd, timers>>
    BY <1>5 DEF EpollWait, Typed, TypeOK
  <2>3. \A e \in batch' : e.fd \in Fds => socket[e.fd] # None
    <3>1. \A e \in batch' : e.fd \in Fds => epoll[e.fd] \in {"in", "out"}
      BY <2>1, ServerAssumption DEF Reported
    <3> QED
      BY <3>1 DEF RegisteredIsOpen
  <2>4. EventHasTimer'
    BY <2>2, <2>3 DEF EventHasTimer, OpenHasTimer
  <2>5. OneEventEach'
    BY <2>1, <2>2, ServerAssumption DEF OneEventEach, Reported
  <2>6. RegisteredIsOpen'
    BY <2>1, <2>2, <2>3 DEF RegisteredIsOpen, Disarmed
  <2>7. SocketsDistinct' /\ FreshUnknown' /\ TimerPointsBack' /\ OpenHasTimer'
    BY <2>2 DEF SocketsDistinct, FreshUnknown, TimerPointsBack, OpenHasTimer
  <2>8. AcceptInProgress' /\ CloseInProgress'
    BY <2>2 DEF AcceptInProgress, CloseInProgress
  <2> QED
    BY <2>4, <2>5, <2>6, <2>7, <2>8
<1>6. CASE Accept
  <2> USE DEF IInv, Ownership, Typed, TypeOK
  <2>1. PICK c \in Conns, fd \in FreeFds :
          /\ peer[c] = "backlog"
          /\ socket' = [socket EXCEPT ![fd] = c]
          /\ epoll' = [epoll EXCEPT ![fd] = "in"]
          /\ peer' = [peer EXCEPT ![c] = "open"]
          /\ main' = [pc |-> "accepted", fd |-> fd, timer |-> c, reg |-> m_user_count]
    BY <1>6 DEF Accept
  <2>2. fd \in Fds /\ socket[fd] = None /\ c # None
    BY ServerAssumption DEF FreeFds
  <2>3. UNCHANGED <<users_timer, timer_fd, timers>> /\ batch' \subseteq batch /\ main.pc = "dispatch"
    BY <1>6 DEF Accept, Handle
  <2>4. c \notin timers /\ \A g \in Fds : socket[g] # c /\ users_timer[g] # c
    BY <2>1 DEF FreshUnknown
  <2>5. SocketsDistinct'
    BY <2>1, <2>2, <2>4 DEF SocketsDistinct
  <2>6. FreshUnknown'
    BY <2>1, <2>2, <2>3 DEF FreshUnknown
  <2>7. RegisteredIsOpen'
    BY <2>1, <2>2 DEF RegisteredIsOpen
  <2>8. TimerPointsBack' /\ OpenHasTimer'
    BY <2>1, <2>2, <2>3 DEF TimerPointsBack, OpenHasTimer
  <2>9. AcceptInProgress'
    BY <2>1, <2>2, <2>3, <2>4 DEF AcceptInProgress
  <2>10. OneEventEach' /\ EventHasTimer' /\ CloseInProgress'
    BY <2>1, <2>3 DEF OneEventEach, EventHasTimer, CloseInProgress
  <2> QED
    BY <2>5, <2>6, <2>7, <2>8, <2>9, <2>10
<1>7. CASE AcceptDone
  <2> USE DEF IInv, Ownership, Typed, TypeOK
  <2>1. /\ main.pc = "accepted" /\ main'.pc = "dispatch"
        /\ users_timer' = [users_timer EXCEPT ![main.fd] = main.timer]
        /\ timer_fd' = [timer_fd EXCEPT ![main.timer] = main.fd]
        /\ timers' = timers \cup {main.timer}
        /\ UNCHANGED <<socket, epoll, peer, batch>>
    BY <1>7 DEF AcceptDone, AT!Add
  <2>2. /\ main.fd \in Fds /\ main.timer \in Conns \ timers
        /\ peer[main.timer] \notin {"away", "backlog"}
        /\ socket[main.fd] \in {None, main.timer}
        /\ \A fd \in Fds : users_timer[fd] # main.timer /\ (socket[fd] = main.timer => fd = main.fd)
    BY <2>1 DEF AcceptInProgress
  <2>3. SocketsDistinct' /\ RegisteredIsOpen'
    BY <2>1 DEF SocketsDistinct, RegisteredIsOpen
  <2>4. FreshUnknown'
    BY <2>1, <2>2 DEF FreshUnknown
  <2>5. TimerPointsBack'
    BY <2>1, <2>2 DEF TimerPointsBack
  <2>6. OpenHasTimer'
    BY <2>1, <2>2 DEF OpenHasTimer
  <2>7. AcceptInProgress' /\ CloseInProgress'
    BY <2>1 DEF AcceptInProgress, CloseInProgress
  <2>8. OneEventEach' /\ EventHasTimer'
    BY <2>1, <2>2 DEF OneEventEach, EventHasTimer
  <2> QED
    BY <2>3, <2>4, <2>5, <2>6, <2>7, <2>8
<1>8. CASE Refuse
  BY <1>8, QuietStep DEF Refuse, Handle, Quiet, IInv, Typed, TypeOK
<1>9. CASE AcceptFails
  BY <1>9, QuietStep DEF AcceptFails, Handle, Quiet
<1>10. CASE CbFuncDone
  <2> USE DEF IInv, Ownership
  <2>1. /\ main.pc \in {"closing", "expiring"} /\ timers' = timers \ {main.timer}
        /\ main'.pc = IF main.pc = "closing" THEN "dispatch" ELSE "tick"
        /\ UNCHANGED <<socket, epoll, peer, users_timer, timer_fd, batch>>
    BY <1>10 DEF CbFuncDone, AT!Del
  <2>2. SocketsDistinct' /\ FreshUnknown' /\ RegisteredIsOpen' /\ TimerPointsBack'
    BY <2>1 DEF SocketsDistinct, FreshUnknown, RegisteredIsOpen, TimerPointsBack
  <2>3. OpenHasTimer' /\ EventHasTimer'
    BY <2>1 DEF OpenHasTimer, EventHasTimer, CloseInProgress
  <2>4. AcceptInProgress' /\ CloseInProgress' /\ OneEventEach'
    BY <2>1 DEF AcceptInProgress, CloseInProgress, OneEventEach
  <2> QED
    BY <2>2, <2>3, <2>4
<1>11. CASE HandleSignal
  BY <1>11, QuietStep DEF HandleSignal, Handle, Quiet
<1>12. ASSUME BatchDone \/ TickDone PROVE Ownership'
  <2> USE DEF IInv, Ownership, Typed, TypeOK
  <2>1. /\ main.pc \in {"dispatch", "tick"} /\ main'.pc \in {"tick", "wait"} /\ batch' = {}
        /\ UNCHANGED <<socket, epoll, peer, users_timer, timer_fd, timers>>
    BY <1>12 DEF BatchDone, TickDone, OneEventEach
  <2>2. SocketsDistinct' /\ FreshUnknown' /\ RegisteredIsOpen' /\ TimerPointsBack' /\ OpenHasTimer'
    BY <2>1 DEF SocketsDistinct, FreshUnknown, RegisteredIsOpen, TimerPointsBack, OpenHasTimer
  <2>3. AcceptInProgress' /\ OneEventEach' /\ EventHasTimer' /\ CloseInProgress'
    BY <2>1 DEF AcceptInProgress, OneEventEach, EventHasTimer, CloseInProgress
  <2> QED
    BY <2>2, <2>3
<1>13. ASSUME NEW fd \in Fds, HandleHup(fd) \/ HandleInFails(fd) \/ HandleOutFails(fd)
       PROVE  Ownership'
  BY <1>13, DropStep DEF HandleHup, HandleInFails, HandleOutFails
<1>14. ASSUME NEW fd \in Fds, HandleIn(fd) \/ HandleOut(fd) \/ HandleOutAgain(fd)
       PROVE  Ownership'
  <2>1. UNCHANGED <<users_timer, timer_fd, timers>>
    BY <1>14 DEF HandleIn, HandleOut, HandleOutAgain, Postpone, AT!Adjust
  <2>2. UNCHANGED <<socket, peer, main>> /\ batch' \subseteq batch
        /\ \A g \in Fds : epoll'[g] # "none" => epoll[g] # "none"
    BY <1>14 DEF HandleIn, HandleOut, HandleOutAgain, Handle, Modfd
  <2> QED
    BY <2>1, <2>2, QuietStep DEF Quiet
<1>15. ASSUME NEW t \in Conns, Expire(t) PROVE Ownership'
  <2>1. /\ main.pc = "tick" /\ t \in timers /\ CbFunc(timer_fd[t], t, "expiring")
        /\ UNCHANGED <<users_timer, timer_fd, timers, batch>>
    BY <1>15 DEF Expire, AT!Expired
  <2>2. batch = {}
    BY <2>1 DEF IInv, Ownership, OneEventEach
  <2> QED
    BY <2>1, <2>2, CbFuncStep
<1>16. ASSUME NEW w \in Workers,
              Take(w) \/ ReadRequest(w) \/ Respond(w) \/ CloseConnLoad(w) \/ CloseConnDone(w)
       PROVE  Ownership'
  BY <1>16, QuietStep DEF Take, ReadRequest, Respond, CloseConnLoad, CloseConnDone, Quiet
<1>17. ASSUME NEW w \in Workers, Incomplete(w) \/ Rearm(w) PROVE Ownership'
  BY <1>17, QuietStep DEF Incomplete, Rearm, Modfd, Quiet
<1>18. ASSUME NEW w \in Workers, CloseConn(w) PROVE Ownership'
  <2> USE DEF IInv, Ownership
  <2>1. UNCHANGED <<users_timer, timer_fd, timers, main, batch>>
    BY <1>18 DEF CloseConn
  <2>2. CASE UNCHANGED kernelVars
    BY <2>1, <2>2, QuietStep DEF Quiet
  <2>3. CASE Removefd(worker[w].fd)
    <3>1. /\ SocketsDistinct' /\ FreshUnknown' /\ RegisteredIsOpen' /\ TimerPointsBack'
          /\ \A g \in Fds : socket'[g] # None => socket'[g] = socket[g]
          /\ \A c \in Conns : peer'[c] \in {"away", "backlog"} => peer[c] \in {"away", "backlog"}
      BY <2>1, <2>3, RemovefdStep
    <3>2. OpenHasTimer'
      BY <2>1, <3>1 DEF OpenHasTimer
    <3>3. AcceptInProgress'
      <4>1. main.pc = "accepted" => main.fd \in Fds /\ main.timer \in Conns /\ main.timer # None
        BY ServerAssumption DEF Typed, AcceptHasConn
      <4> QED
        BY <2>1, <3>1, <4>1 DEF AcceptInProgress
    <3>4. OneEventEach' /\ EventHasTimer'
      BY <2>1 DEF OneEventEach, EventHasTimer
    <3>5. CloseInProgress'
      BY <2>1, <3>1 DEF CloseInProgress
    <3> QED
      BY <3>1, <3>2, <3>3, <3>4, <3>5
  <2> QED
    BY <1>18, <2>2, <2>3 DEF CloseConn
<1> QED
  BY <1>0, <1>1, <1>2, <1>3, <1>4, <1>5, <1>6, <1>7, <1>8, <1>9, <1>10, <1>11, <1>12, <1>13,
     <1>14, <1>15, <1>16, <1>17, <1>18 DEF Next, Clients, MainThread, Worker

LEMMA IInvAlways == Spec => []IInv
<1>1. Init => IInv
  BY TypedInit, OwnershipInit DEF IInv
<1>2. IInv /\ [Next]_vars => IInv'
  BY TypedStep, OwnershipStep DEF IInv
<1> QED
  BY <1>1, <1>2, PTL DEF Spec

(* Every variable keeps its type, in every behaviour of the server.        *)
THEOREM ServerTypeCorrect == Spec => []TypeOK
<1>1. IInv => TypeOK
  BY DEF IInv, Typed
<1> QED
  BY <1>1, IInvAlways, PTL

(* An open connection always has its own timer in the list, bound to its   *)
(* descriptor (main.cpp:226-245), for any number of connections, workers   *)
(* and descriptors, and although close_conn in a worker leaves the timer   *)
(* of the connection it closes behind.                                     *)
THEOREM OpenAlwaysHasTimer == Spec => []OpenHasTimer
<1>1. IInv => OpenHasTimer
  BY DEF IInv, Ownership
<1> QED
  BY <1>1, IInvAlways, PTL

(* The main thread never uses users_timer[fd].timer after its delete: the  *)
(* pointer a handler follows for the descriptor of an event is in the list *)
(* (main.cpp:286, 335, 370).                                               *)
THEOREM NoTimerDangles == Spec => []NoDanglingTimer
<1>1. IInv => NoDanglingTimer
  <2> SUFFICES ASSUME IInv, NEW fd \in Fds,
                      \/ epoll[fd] # "none" /\ ~(main.pc = "accepted" /\ main.fd = fd)
                      \/ \E e \in batch : e.fd = fd
               PROVE  users_timer[fd] \in timers
    BY DEF NoDanglingTimer
  <2>1. CASE \E e \in batch : e.fd = fd
    BY <2>1 DEF IInv, Ownership, EventHasTimer
  <2>2. CASE epoll[fd] # "none" /\ ~(main.pc = "accepted" /\ main.fd = fd)
    BY <2>2 DEF IInv, Ownership, RegisteredIsOpen, OpenHasTimer
  <2> QED
    BY <2>1, <2>2
<1> QED
  BY <1>1, IInvAlways, PTL

-----------------------------------------------------------------------------
(* A server in which only the main thread closes connections.              *)

NoCloser == \A w \in Workers : worker[w].pc \notin {"closed", "decrement"}

\* A timer in the list belongs to an open connection, or is about to go.
TimerIsOpen ==
  \A t \in timers :
    /\ timer_fd[t] \in Fds
    /\ socket[timer_fd[t]] = t \/ (main.pc \in {"closing", "expiring"} /\ main.timer = t)

\* Nobody closes a connection while it is being accepted.
Accepted == main.pc = "accepted" => socket[main.fd] = main.timer

Careful == NoCloser /\ TimerIsOpen /\ Accepted

LEMMA CarefulInit == Init => Careful
  BY DEF Init, Careful, NoCloser, TimerIsOpen, Accepted, Between, AT!Init

LEMMA NoCloserStep ==
  ASSUME ~WorkerCloses, Typed, NoCloser, [Next]_vars
  PROVE  NoCloser'
<1> USE DEF NoCloser
<1>1. CASE worker' = worker
  BY <1>1
<1>2. ASSUME NEW w \in Workers, NEW pc \in {"process", "write", "idle", "rearm"}, NEW fd, NEW reg,
             GoTo(w, pc, fd, reg)
      PROVE  NoCloser'
  BY <1>2 DEF GoTo, Typed, TypeOK
<1>3. ASSUME NEW w \in Workers, Worker(w) PROVE NoCloser'
  BY <1>2, <1>3 DEF Worker, Take, Incomplete, ReadRequest, Respond, Rearm, CloseConn, CloseConnLoad, CloseConnDone, At
<1>4. worker' = worker \/ \E w \in Workers : Worker(w)
  BY DEF Next, vars, Clients, Connect, Send, HangUp, Slot, MainThread, EpollWait, Accept,
         AcceptDone, Refuse, AcceptFails, CbFuncDone, HandleSignal, BatchDone, TickDone,
         HandleHup, HandleIn, HandleInFails, HandleOut, HandleOutAgain, HandleOutFails, Drop, Expire
<1> QED
  BY <1>1, <1>3, <1>4

\* A step that opens and closes nothing and leaves the timers.
Still ==
  /\ UNCHANGED <<socket, timer_fd, timers>>
  /\ main' = main \/ {main.pc, main'.pc} \subseteq {"wait", "dispatch", "tick"}

LEMMA StillStep ==
  ASSUME TimerIsOpen, Accepted, Still
  PROVE  TimerIsOpen' /\ Accepted'
  BY DEF Still, TimerIsOpen, Accepted

\* cb_func closes the connection of the timer t.
LEMMA CbFuncTimer ==
  ASSUME IInv, TimerIsOpen, Accepted, main.pc \in {"dispatch", "tick"}, NEW t \in timers,
         NEW pc \in {"closing", "expiring"}, CbFunc(timer_fd[t], t, pc),
         UNCHANGED <<timer_fd, timers>>
  PROVE  TimerIsOpen' /\ Accepted'
<1> DEFINE fd == timer_fd[t]
<1>1. /\ main' = [pc |-> pc, fd |-> fd, timer |-> t, reg |-> m_user_count]
      /\ socket' = [socket EXCEPT ![fd] = None]
  BY DEF CbFunc, Removefd
<1>2. fd \in Fds /\ socket[fd] = t /\ t # None
  BY ServerAssumption DEF TimerIsOpen, IInv, Typed, TypeOK
<1>3. TimerIsOpen'
  <2> SUFFICES ASSUME NEW u \in timers, u # t
               PROVE  timer_fd[u] \in Fds /\ socket'[timer_fd[u]] = u
    BY <1>1, <1>2 DEF TimerIsOpen
  <2>1. timer_fd[u] \in Fds /\ socket[timer_fd[u]] = u
    BY DEF TimerIsOpen
  <2> QED
    BY <1>1, <1>2, <2>1
<1> QED
  BY <1>1, <1>3 DEF Accepted

LEMMA DropTimer ==
  ASSUME IInv, TimerIsOpen, Accepted, NEW fd \in Fds, NEW ev, Handle(fd, ev), Drop(fd)
  PROVE  TimerIsOpen' /\ Accepted'
<1>1. main.pc = "dispatch" /\ users_timer[fd] \in timers
  BY DEF Handle, IInv, Ownership, EventHasTimer
<1>2. timer_fd[users_timer[fd]] = fd
  BY <1>1, ServerAssumption DEF IInv, Ownership, TimerPointsBack, Typed, TypeOK
<1> QED
  BY <1>1, <1>2, CbFuncTimer DEF Drop, clockVars

LEMMA CarefulStep ==
  ASSUME IInv, Careful, NoCloser', [Next]_vars, ~WorkerCloses
  PROVE  TimerIsOpen' /\ Accepted'
<1> USE DEF Careful, kernelVars, slotVars, clockVars
<1>0. CASE UNCHANGED vars
  BY <1>0, StillStep DEF vars, Still
<1>1. CASE Clients \/ Slot
  BY <1>1, StillStep DEF Clients, Connect, Send, HangUp, Slot, AT!Age, Still
<1>2. CASE EpollWait \/ BatchDone \/ TickDone
  BY <1>2, StillStep DEF EpollWait, BatchDone, TickDone, Still, IInv, Typed, TypeOK
<1>3. CASE Refuse \/ AcceptFails \/ HandleSignal
  BY <1>3, StillStep DEF Refuse, AcceptFails, HandleSignal, Still
<1>4. CASE Accept
  <2> USE DEF IInv, Ownership, Typed, TypeOK
  <2>1. PICK c \in Conns, fd \in FreeFds :
          /\ socket' = [socket EXCEPT ![fd] = c]
          /\ main' = [pc |-> "accepted", fd |-> fd, timer |-> c, reg |-> m_user_count]
    BY <1>4 DEF Accept
  <2>2. fd \in Fds /\ socket[fd] = None /\ c # None
    BY ServerAssumption DEF FreeFds
  <2>3. UNCHANGED <<timer_fd, timers>> /\ main.pc = "dispatch"
    BY <1>4 DEF Accept, Handle
  <2>4. TimerIsOpen'
    BY <2>1, <2>2, <2>3, ServerAssumption DEF TimerIsOpen
  <2> QED
    BY <2>1, <2>2, <2>4 DEF Accepted
<1>5. CASE AcceptDone
  <2> USE DEF IInv, Ownership, Typed, TypeOK
  <2>1. /\ main.pc = "accepted" /\ main'.pc = "dispatch" /\ socket' = socket
        /\ timer_fd' = [timer_fd EXCEPT ![main.timer] = main.fd]
        /\ timers' = timers \cup {main.timer}
    BY <1>5 DEF AcceptDone, AT!Add
  <2>3. main.fd \in Fds /\ main.timer \in Conns \ timers
    BY <2>1 DEF AcceptInProgress
  <2>4. socket[main.fd] = main.timer
    BY <2>1 DEF Accepted
  <2> QED
    BY <2>1, <2>3, <2>4 DEF TimerIsOpen, Accepted
<1>6. CASE CbFuncDone
  <2>1. /\ main.pc \in {"closing", "expiring"} /\ main'.pc \in {"dispatch", "tick"}
        /\ timers' = timers \ {main.timer}
        /\ UNCHANGED <<socket, timer_fd>>
    BY <1>6 DEF CbFuncDone, AT!Del
  <2> QED
    BY <2>1 DEF TimerIsOpen, Accepted
<1>7. ASSUME NEW fd \in Fds, HandleHup(fd) \/ HandleInFails(fd) \/ HandleOutFails(fd)
      PROVE  TimerIsOpen' /\ Accepted'
  BY <1>7, DropTimer DEF HandleHup, HandleInFails, HandleOutFails
<1>8. ASSUME NEW fd \in Fds, HandleIn(fd) \/ HandleOut(fd) \/ HandleOutAgain(fd)
      PROVE  TimerIsOpen' /\ Accepted'
  BY <1>8, StillStep DEF HandleIn, HandleOut, HandleOutAgain, Postpone, AT!Adjust, Still
<1>9. ASSUME NEW t \in Conns, Expire(t) PROVE TimerIsOpen' /\ Accepted'
  BY <1>9, CbFuncTimer DEF Expire, AT!Expired
<1>10. ASSUME NEW w \in Workers, Worker(w) PROVE TimerIsOpen' /\ Accepted'
  BY <1>10, StillStep DEF Worker, Take, Incomplete, ReadRequest, Respond, Rearm, CloseConn, CloseConnLoad,
                          CloseConnDone, At, NoCloser, Still
<1> QED
  BY <1>0, <1>1, <1>2, <1>3, <1>4, <1>5, <1>6, <1>7, <1>8, <1>9, <1>10 DEF Next, MainThread

LEMMA CarefulAlways ==
  ASSUME ~WorkerCloses
  PROVE  Spec => []Careful
<1>1. Init => Careful
  BY CarefulInit
<1>2. IInv /\ Careful /\ [Next]_vars => Careful'
  BY NoCloserStep, CarefulStep DEF Careful, IInv
<1> QED
  BY <1>1, <1>2, IInvAlways, PTL DEF Spec

(* If workers close no connection, a tick closes the connection that the   *)
(* expired timer was made for (main.cpp:83).                               *)
THEOREM TicksCloseTheirOwn ==
  ASSUME ~WorkerCloses
  PROVE  Spec => TickClosesItsOwn
<1>1. IInv /\ Careful /\ [Next]_vars =>
        [main.pc = "tick" /\ main'.pc = "expiring" => socket[main'.fd] \in {main'.timer, None}]_vars
  <2> SUFFICES ASSUME IInv, Careful, [Next]_vars, main.pc = "tick", main'.pc = "expiring"
               PROVE  socket[main'.fd] \in {main'.timer, None}
    OBVIOUS
  <2>1. PICK t \in Conns : Expire(t)
    BY DEF Next, vars, Clients, Connect, Send, HangUp, Slot, MainThread, EpollWait, Accept,
           AcceptDone, Refuse, AcceptFails, CbFuncDone, HandleSignal, BatchDone, TickDone,
           HandleHup, HandleIn, HandleInFails, HandleOut, HandleOutAgain, HandleOutFails, Handle,
           Worker, Take, Incomplete, ReadRequest, Respond, Rearm, CloseConn, CloseConnLoad, CloseConnDone,
           IInv, Typed, TypeOK
  <2>2. main'.fd = timer_fd[t] /\ main'.timer = t /\ t \in timers
    BY <2>1 DEF Expire, CbFunc, AT!Expired
  <2> QED
    BY <2>2 DEF Careful, TimerIsOpen
<1> QED
  BY <1>1, IInvAlways, CarefulAlways, PTL DEF Spec, TickClosesItsOwn

-----------------------------------------------------------------------------
(* Who has a descriptor, when requests are processed before their timers   *)
(* can expire as well.                                                     *)

Armed(fd)   == epoll[fd] \in {"in", "out"}
Pending(fd) == \E e \in batch : e.fd = fd
Queued(fd)  == \E i \in DOMAIN workqueue : workqueue[i] = fd
Held(fd)    == \E w \in Workers : worker[w].fd = fd
Taken(fd)   == Pending(fd) \/ Queued(fd) \/ Held(fd)

\* A worker has read a request of it and is about to build the response.
Writing(fd) == \E w \in Workers : At(w, "write") /\ worker[w].fd = fd

\* At most one of the four has it, and at most once: events are OneEventEach.
Exclusive ==
  \A fd \in Fds : /\ Armed(fd) => ~Taken(fd)
                  /\ Pending(fd) => ~Queued(fd) /\ ~Held(fd)
                  /\ Queued(fd) => ~Held(fd)

QueuedOnce == \A i, j \in DOMAIN workqueue : workqueue[i] = workqueue[j] => i = j

HeldOnce == \A v, w \in Workers : worker[v].fd \in Fds /\ worker[v].fd = worker[w].fd => v = w

\* Nobody closes a descriptor that another has, so that it is not given out again.
TakenIsOpen == \A fd \in Fds : Taken(fd) => socket[fd] # None /\ ~Accepting(fd)

Owners == Exclusive /\ QueuedOnce /\ HeldOnce /\ TakenIsOpen

\* The timer of a request in process has not expired.
InTime == \A fd \in Fds : Queued(fd) \/ Held(fd) => left[users_timer[fd]] # 0

\* What process and write re-arm is the descriptor they were called for.
SlotKnown == \A fd \in Fds : m_sockfd[fd] \in {fd, NoFd}

\* An accepted slot holds nothing of another connection, a request or a response.
OwnData ==
  \A fd \in Fds : socket[fd] # None /\ ~Accepting(fd) =>
    /\ reading[fd] \in {None, socket[fd]}
    /\ sending[fd].n > 0 \/ Writing(fd) => sending[fd].who = socket[fd]

AcceptedIsIn == \A fd \in Fds : Accepting(fd) => epoll[fd] # "out"

Slots == InTime /\ SlotKnown /\ OwnData /\ AcceptedIsIn

OInv == IInv /\ Careful /\ Owners /\ Slots

LEMMA OwnersInit == Init => Owners /\ Slots
<1> SUFFICES ASSUME Init PROVE Owners /\ Slots
  OBVIOUS
<1> USE ServerAssumption DEF Init
<1>1. \A fd \in Fds : ~Pending(fd) /\ ~Queued(fd) /\ ~Held(fd) /\ ~Armed(fd) /\ ~Accepting(fd)
  BY DEF Pending, Queued, Held, Armed, Accepting
<1>3. \A fd \in Fds : ~Writing(fd)
  BY DEF Writing, At
<1>2. QueuedOnce /\ HeldOnce
  BY DEF QueuedOnce, HeldOnce
<1> QED
  BY <1>1, <1>2, <1>3 DEF Owners, Exclusive, TakenIsOpen, Taken, Slots, InTime, SlotKnown, OwnData, AcceptedIsIn

\* The queue after append and after pop_front.
LEMMA AppendQueued ==
  ASSUME TypeOK, NEW fd \in Fds, QueuedOnce, ~Queued(fd), workqueue' = Append(workqueue, fd)
  PROVE  QueuedOnce' /\ \A g \in Fds : Queued(g)' <=> Queued(g) \/ g = fd
<1> DEFINE n == Len(workqueue)
<1>1. /\ n \in Nat /\ DOMAIN workqueue = 1 .. n /\ DOMAIN workqueue' = 1 .. n + 1
      /\ \A i \in 1 .. n : workqueue'[i] = workqueue[i]
      /\ workqueue'[n + 1] = fd
  BY DEF TypeOK
<1> HIDE DEF n
<1>2. \A i \in 1 .. n + 1 : i \in 1 .. n \/ i = n + 1
  BY <1>1
<1>3. \A i \in 1 .. n : workqueue[i] # fd
  BY <1>1 DEF Queued
<1>4. QueuedOnce'
  BY <1>1, <1>2, <1>3 DEF QueuedOnce
<1>5. 1 .. n \subseteq 1 .. n + 1 /\ n + 1 \in 1 .. n + 1
  BY <1>1
<1> QED
  BY <1>1, <1>2, <1>4, <1>5 DEF Queued

LEMMA TailQueued ==
  ASSUME TypeOK, QueuedOnce, workqueue # <<>>, workqueue' = Tail(workqueue)
  PROVE  /\ QueuedOnce' /\ Head(workqueue) \in Fds /\ Queued(Head(workqueue))
         /\ \A g \in Fds : Queued(g)' => Queued(g) /\ g # Head(workqueue)
<1> DEFINE n == Len(workqueue)
<1>1. /\ n \in Nat \ {0} /\ DOMAIN workqueue = 1 .. n /\ DOMAIN workqueue' = 1 .. n - 1
      /\ Head(workqueue) = workqueue[1] /\ workqueue[1] \in Fds
      /\ \A i \in 1 .. n - 1 : workqueue'[i] = workqueue[i + 1]
  BY DEF TypeOK
<1> HIDE DEF n
<1>2. \A i \in 1 .. n - 1 : i + 1 \in 1 .. n /\ i + 1 # 1
  BY <1>1
<1>3. QueuedOnce'
  BY <1>1, <1>2 DEF QueuedOnce
<1>4. \A g \in Fds : Queued(g)' => Queued(g) /\ g # workqueue[1]
  BY <1>1, <1>2 DEF QueuedOnce, Queued
<1>5. 1 \in 1 .. n
  BY <1>1
<1> QED
  BY <1>1, <1>3, <1>4, <1>5 DEF Queued

\* A step after which nobody has a descriptor that did not have it before, and
\* which closes nothing.
Releasing ==
  /\ \A fd \in Fds : /\ Armed(fd)' => Armed(fd)
                     /\ Pending(fd)' => Pending(fd)
                     /\ Accepting(fd)' => Accepting(fd)
  /\ UNCHANGED <<socket, workqueue>>
  /\ \A w \in Workers : worker'[w].fd = worker[w].fd

LEMMA ReleasingStep ==
  ASSUME Owners, Releasing
  PROVE  Owners'
<1>1. \A fd \in Fds : (Queued(fd)' <=> Queued(fd)) /\ (Held(fd)' <=> Held(fd))
  BY DEF Releasing, Queued, Held
<1>2. QueuedOnce' /\ HeldOnce'
  BY DEF Owners, Releasing, QueuedOnce, HeldOnce
<1> QED
  BY <1>1, <1>2 DEF Owners, Releasing, Exclusive, TakenIsOpen, Taken

\* The data of the slots after a step that writes none of them.
Resting ==
  /\ UNCHANGED <<m_sockfd, reading, sending, users_timer>>
  /\ \A fd \in Fds : /\ Queued(fd)' \/ Held(fd)' => (Queued(fd) \/ Held(fd)) /\ left'[users_timer[fd]] # 0
                     /\ socket'[fd] # None /\ ~Accepting(fd)' =>
                          socket'[fd] = socket[fd] /\ ~Accepting(fd)
                     /\ Accepting(fd)' => Accepting(fd) /\ epoll'[fd] # "out"
                     /\ Writing(fd)' => Writing(fd)

LEMMA RestingStep ==
  ASSUME Slots, Resting
  PROVE  Slots'
  BY DEF Slots, Resting, InTime, SlotKnown, OwnData, AcceptedIsIn

\* A worker that is not about to build a response writes nothing.
LEMMA OtherWriters ==
  ASSUME TypeOK, NEW w \in Workers, NEW pc \in {"process", "idle", "rearm"}, NEW f, NEW reg,
         GoTo(w, pc, f, reg)
  PROVE  \A fd \in Fds : Writing(fd)' => Writing(fd)
<1>1. \A v \in Workers : worker'[v] = IF v = w THEN [pc |-> pc, fd |-> f, reg |-> reg] ELSE worker[v]
  BY DEF GoTo, TypeOK
<1>2. worker'[w].pc # "write"
  BY <1>1
<1> QED
  BY <1>1, <1>2 DEF Writing, At

\* Only a worker starts and stops writing.
LEMMA SameWriters ==
  ASSUME worker' = worker
  PROVE  \A fd \in Fds : Writing(fd)' <=> Writing(fd)
  BY DEF Writing, At

\* Steps of the clients, and those of the main thread that have no descriptor.
Idle ==
  /\ UNCHANGED <<socket, epoll, workqueue, worker, m_sockfd, reading, sending, users_timer, left>>
  /\ \A fd \in Fds : Pending(fd)' => Pending(fd)
  /\ main' = main \/ {main.pc, main'.pc} \subseteq {"wait", "dispatch", "tick"}

LEMMA IdleStep ==
  ASSUME OInv, Idle
  PROVE  Owners' /\ Slots'
<1>1. \A fd \in Fds : Accepting(fd)' <=> Accepting(fd)
  BY DEF Idle, Accepting
<1>2. Releasing
  BY <1>1 DEF Idle, Releasing, Armed
<1>3. Resting
  BY <1>1, SameWriters DEF Idle, Resting, Queued, Held, OInv, Slots, InTime, AcceptedIsIn
<1> QED
  BY <1>2, <1>3, ReleasingStep, RestingStep DEF OInv

\* cb_func on a descriptor that nobody has.
LEMMA CloseStep ==
  ASSUME OInv, NEW fd \in Fds, NEW t, NEW pc \in {"closing", "expiring"}, CbFunc(fd, t, pc),
         ~Queued(fd), ~Held(fd), \A g \in Fds : Pending(g)' => Pending(g) /\ g # fd,
         main.pc # "accepted",
         UNCHANGED <<workqueue, worker, m_sockfd, reading, sending, users_timer, left>>
  PROVE  Owners' /\ Slots'
<1>1. /\ socket' = [socket EXCEPT ![fd] = None] /\ epoll' = [epoll EXCEPT ![fd] = "none"]
      /\ main'.pc = pc
  BY DEF CbFunc, Removefd
<1>2. \A g \in Fds : ~Accepting(g)' /\ ~Accepting(g)
  BY <1>1 DEF Accepting
<1>3. \A g \in Fds : (Armed(g)' => Armed(g)) /\ (g # fd => socket'[g] = socket[g])
  BY <1>1 DEF Armed, OInv, IInv, Typed, TypeOK
<1>4. \A g \in Fds : (Queued(g)' <=> Queued(g)) /\ (Held(g)' <=> Held(g))
  BY DEF Queued, Held
<1>5. Exclusive' /\ TakenIsOpen'
  BY <1>2, <1>3, <1>4 DEF OInv, Owners, Exclusive, TakenIsOpen, Taken
<1>6. QueuedOnce' /\ HeldOnce'
  BY DEF OInv, Owners, QueuedOnce, HeldOnce
<1>7. Resting
  BY <1>1, <1>2, <1>3, <1>4, SameWriters DEF Resting, OInv, Slots, InTime, IInv, Typed, TypeOK
<1> QED
  BY <1>5, <1>6, <1>7, RestingStep DEF Owners, OInv

\* The event that is handled is the only one of its descriptor.
LEMMA UsesUp ==
  ASSUME OInv, NEW fd \in Fds, NEW ev, Handle(fd, ev)
  PROVE  \A g \in Fds : Pending(g)' => Pending(g) /\ g # fd
  BY DEF Pending, Handle, OInv, IInv, Ownership, OneEventEach

LEMMA DropOwners ==
  ASSUME OInv, NEW fd \in Fds, NEW ev, Handle(fd, ev), Drop(fd)
  PROVE  Owners' /\ Slots'
<1>1. main.pc = "dispatch" /\ Pending(fd) /\ batch' = batch \ {[fd |-> fd, ev |-> ev]}
  BY DEF Handle, Pending
<1>2. ~Queued(fd) /\ ~Held(fd)
  BY <1>1 DEF OInv, Owners, Exclusive
<1>3. \A g \in Fds : Pending(g)' => Pending(g) /\ g # fd
  BY UsesUp
<1> QED
  BY <1>1, <1>2, <1>3, CloseStep DEF Drop, slotVars, clockVars

\* The timer that tick finds expired is not that of a request in process.
LEMMA ExpireOwners ==
  ASSUME OInv, NEW t \in Conns, Expire(t)
  PROVE  Owners' /\ Slots'
<1> USE DEF OInv, IInv, Ownership
<1>1. main.pc = "tick" /\ t \in timers /\ left[t] = 0 /\ CbFunc(timer_fd[t], t, "expiring")
  BY DEF Expire, AT!Expired
<1>2. timer_fd[t] \in Fds /\ socket[timer_fd[t]] = t /\ t # None
  BY <1>1, ServerAssumption DEF Careful, TimerIsOpen
<1>3. users_timer[timer_fd[t]] = t
  BY <1>1, <1>2 DEF OpenHasTimer
<1>4. ~Queued(timer_fd[t]) /\ ~Held(timer_fd[t])
  BY <1>1, <1>2, <1>3 DEF Slots, InTime
<1>5. batch = {} /\ batch' = batch
  BY <1>1 DEF OneEventEach, Expire
<1> QED
  BY <1>1, <1>2, <1>4, <1>5, CloseStep DEF Expire, slotVars, clockVars, Pending

LEMMA EpollOwners ==
  ASSUME OInv, EpollWait
  PROVE  Owners' /\ Slots'
<1> USE DEF OInv, IInv, Ownership
<1>1. PICK sendable : batch' = Reported(sendable) /\ epoll' = Disarmed(Reported(sendable))
  BY DEF EpollWait
<1>2. main.pc = "wait" /\ main'.pc = "dispatch" /\ batch = {}
  BY DEF EpollWait, OneEventEach, Typed, TypeOK
<1>3. \A fd \in Fds : (Pending(fd)' => Armed(fd) /\ ~Armed(fd)') /\ (Armed(fd)' => Armed(fd))
  <2>1. \A e \in batch' : e.fd \in Fds => Armed(e.fd)
    BY <1>1, ServerAssumption DEF Reported, Armed
  <2> QED
    BY <1>1, <2>1 DEF Pending, Armed, Disarmed
<1>4. \A fd \in Fds : /\ ~Accepting(fd)' /\ ~Accepting(fd)
                      /\ (Queued(fd)' <=> Queued(fd)) /\ (Held(fd)' <=> Held(fd))
  BY <1>2 DEF Accepting, Queued, Held, EpollWait
<1>5. \A fd \in Fds : Armed(fd) => socket'[fd] # None
  BY DEF RegisteredIsOpen, Armed, EpollWait
<1>6. Exclusive' /\ TakenIsOpen'
  BY <1>3, <1>4, <1>5 DEF Owners, Exclusive, TakenIsOpen, Taken, EpollWait
<1>7. QueuedOnce' /\ HeldOnce'
  BY DEF Owners, QueuedOnce, HeldOnce, EpollWait
<1>8. Resting
  BY <1>4, SameWriters DEF Resting, EpollWait, slotVars, clockVars, Slots, InTime
<1> QED
  BY <1>6, <1>7, <1>8, RestingStep DEF Owners

LEMMA AcceptOwners ==
  ASSUME OInv, Accept
  PROVE  Owners' /\ Slots'
<1> USE DEF OInv, IInv, Typed, TypeOK
<1>1. PICK c \in Conns, fd \in FreeFds :
        /\ socket' = [socket EXCEPT ![fd] = c]
        /\ epoll' = [epoll EXCEPT ![fd] = "in"]
        /\ m_sockfd' = [m_sockfd EXCEPT ![fd] = fd]
        /\ main' = [pc |-> "accepted", fd |-> fd, timer |-> c, reg |-> m_user_count]
  BY DEF Accept
<1>2. fd \in Fds /\ socket[fd] = None
  BY DEF FreeFds
<1>3. /\ main.pc = "dispatch" /\ batch' \subseteq batch
      /\ UNCHANGED <<workqueue, worker, reading, sending, users_timer, left>>
  BY DEF Accept, Handle, clockVars
<1>4. ~Taken(fd)
  BY <1>2 DEF Owners, TakenIsOpen
<1>5. \A g \in Fds : (Accepting(g)' <=> g = fd) /\ ~Accepting(g)
  BY <1>1, <1>3 DEF Accepting
<1>6. \A g \in Fds : /\ (Queued(g)' <=> Queued(g)) /\ (Held(g)' <=> Held(g))
                     /\ (Pending(g)' => Pending(g)) /\ (g # fd => Armed(g)' = Armed(g))
  BY <1>1, <1>3 DEF Queued, Held, Pending, Armed
<1>7. Exclusive' /\ TakenIsOpen'
  BY <1>1, <1>2, <1>4, <1>5, <1>6 DEF Owners, Exclusive, TakenIsOpen, Taken
<1>8. QueuedOnce' /\ HeldOnce'
  BY <1>3 DEF Owners, QueuedOnce, HeldOnce
<1>9. InTime' /\ SlotKnown'
  BY <1>1, <1>3, <1>6 DEF Slots, InTime, SlotKnown
<1>10. OwnData' /\ AcceptedIsIn'
  BY <1>1, <1>2, <1>3, <1>5, SameWriters DEF Slots, OwnData, AcceptedIsIn
<1> QED
  BY <1>7, <1>8, <1>9, <1>10 DEF Owners, Slots

LEMMA AcceptDoneOwners ==
  ASSUME OInv, AcceptDone
  PROVE  Owners' /\ Slots'
<1> USE DEF OInv, IInv, Ownership, Typed, TypeOK
<1>1. /\ main.pc = "accepted" /\ main'.pc = "dispatch"
      /\ reading' = [reading EXCEPT ![main.fd] = None]
      /\ sending' = [sending EXCEPT ![main.fd].n = 0]
      /\ users_timer' = [users_timer EXCEPT ![main.fd] = main.timer]
      /\ left' = [left EXCEPT ![main.timer] = Life]
      /\ UNCHANGED <<socket, epoll, m_sockfd, batch, workqueue, worker>>
  BY DEF AcceptDone, AT!Add, kernelVars
<1>2. main.fd \in Fds /\ main.timer \in Conns /\ \A fd \in Fds : users_timer[fd] # main.timer
  BY <1>1 DEF AcceptInProgress
<1>3. \A fd \in Fds : ~Accepting(fd)' /\ (Accepting(fd) <=> fd = main.fd)
  BY <1>1 DEF Accepting
<1>4. Releasing
  BY <1>1, <1>3 DEF Releasing, Armed, Pending
<1>5. \A fd \in Fds : (Queued(fd)' <=> Queued(fd)) /\ (Held(fd)' <=> Held(fd))
  BY <1>1 DEF Queued, Held
<1>6. \A fd \in Fds : fd # main.fd => /\ users_timer'[fd] = users_timer[fd]
                                      /\ left'[users_timer[fd]] = left[users_timer[fd]]
  BY <1>1, <1>2
<1>7. InTime'
  <2>1. left'[users_timer'[main.fd]] # 0
    BY <1>1, <1>2, ServerAssumption
  <2> SUFFICES ASSUME NEW fd \in Fds, fd # main.fd, Queued(fd) \/ Held(fd)
               PROVE  left'[users_timer'[fd]] # 0
    BY <1>5, <2>1 DEF InTime
  <2>2. left[users_timer[fd]] # 0
    BY DEF Slots, InTime
  <2> QED
    BY <1>6, <2>2
<1>8. OwnData'
  <2>0. ~Held(main.fd)
    BY <1>2, <1>3 DEF Owners, TakenIsOpen, Taken
  <2>1. ~Writing(main.fd)
    BY <2>0 DEF Writing, Held
  <2>2. /\ reading'[main.fd] = None /\ sending'[main.fd].n = 0
        /\ \A fd \in Fds : fd # main.fd => reading'[fd] = reading[fd] /\ sending'[fd] = sending[fd]
    BY <1>1, <1>2
  <2> QED
    <3>1. \A fd \in Fds : Writing(fd)' => Writing(fd) /\ fd # main.fd
      BY <1>1, <2>1, SameWriters
    <3> QED
      BY <1>1, <1>3, <2>2, <3>1 DEF Slots, OwnData
<1>9. SlotKnown' /\ AcceptedIsIn'
  BY <1>1, <1>3 DEF Slots, SlotKnown, AcceptedIsIn
<1> QED
  BY <1>4, <1>7, <1>8, <1>9, ReleasingStep DEF Slots

\* del_timer and the store after cb_func: the timer is no open connection's.
LEMMA CbFuncDoneOwners ==
  ASSUME OInv, CbFuncDone
  PROVE  Owners' /\ Slots'
<1> USE DEF OInv, IInv, Ownership
<1>1. /\ main.pc \in {"closing", "expiring"} /\ main'.pc \in {"dispatch", "tick"}
      /\ left' = [left EXCEPT ![main.timer] = 0]
      /\ UNCHANGED <<socket, epoll, m_sockfd, reading, sending, users_timer, batch, workqueue, worker>>
  BY DEF CbFuncDone, AT!Del, kernelVars, slotVars
<1>2. \A fd \in Fds : ~Accepting(fd)' /\ ~Accepting(fd)
  BY <1>1 DEF Accepting
<1>3. Releasing
  BY <1>1, <1>2 DEF Releasing, Armed, Pending
<1>4. \A fd \in Fds : (Queued(fd)' <=> Queued(fd)) /\ (Held(fd)' <=> Held(fd))
  BY <1>1 DEF Queued, Held
<1>5. ASSUME NEW fd \in Fds, Queued(fd) \/ Held(fd)
      PROVE  left'[users_timer[fd]] # 0
  <2>1. socket[fd] # None
    BY <1>5 DEF Owners, TakenIsOpen, Taken
  <2>2. users_timer[fd] = socket[fd] /\ socket[fd] # main.timer /\ socket[fd] \in Conns
    BY <1>1, <1>2, <2>1 DEF OpenHasTimer, Accepting, CloseInProgress, Typed, TypeOK
  <2> QED
    BY <1>1, <1>5, <2>2 DEF Slots, InTime, Typed, TypeOK
<1>6. Resting
  BY <1>1, <1>2, <1>4, <1>5, SameWriters DEF Resting
<1> QED
  BY <1>3, <1>6, ReleasingStep, RestingStep

\* The effect of a handler that leaves the connection open on the timers.
LEMMA PostponeOwners ==
  ASSUME OInv, NEW fd \in Fds, Pending(fd), Postpone(fd)
  PROVE  /\ users_timer' = users_timer /\ left'[users_timer[fd]] # 0
         /\ \A g \in Fds : left[users_timer[g]] # 0 => left'[users_timer[g]] # 0
<1> USE DEF OInv, IInv, Ownership, Typed, TypeOK
<1>1. users_timer[fd] \in timers
  BY DEF EventHasTimer, Pending
<1>2. users_timer' = users_timer /\ left' = [left EXCEPT ![users_timer[fd]] = Life]
  BY <1>1 DEF Postpone, AT!Adjust
<1>3. users_timer[fd] \in Conns /\ Life # 0
  BY <1>1, ServerAssumption
<1> QED
  BY <1>2, <1>3

LEMMA HandleInOwners ==
  ASSUME OInv, NEW fd \in Fds, HandleIn(fd)
  PROVE  Owners' /\ Slots'
<1> USE DEF OInv, IInv, Ownership, Typed, TypeOK
<1>1. /\ main.pc = "dispatch" /\ Pending(fd) /\ socket[fd] # None
      /\ reading' = [reading EXCEPT ![fd] = socket[fd]]
      /\ UNCHANGED <<socket, epoll, m_sockfd, sending, main, worker>>
  BY ServerAssumption DEF HandleIn, Handle, Pending, Readable
<1>0. \A g \in Fds : Pending(g)' => Pending(g) /\ g # fd
  BY UsesUp DEF HandleIn
<1>2. \A g \in Fds : (Pending(g)' => Pending(g) /\ g # fd) /\ Armed(g)' = Armed(g)
                     /\ (Held(g)' <=> Held(g)) /\ ~Accepting(g) /\ ~Accepting(g)'
  BY <1>0, <1>1 DEF Armed, Held, Accepting
<1>3. ~Armed(fd) /\ ~Queued(fd) /\ ~Held(fd)
  BY <1>1 DEF Owners, Exclusive, Taken
<1>4. QueuedOnce' /\ \A g \in Fds : Queued(g)' => Queued(g) \/ g = fd
  <2>1. CASE workqueue' = workqueue
    BY <2>1 DEF Queued, Owners, QueuedOnce
  <2>2. CASE workqueue' = Append(workqueue, fd)
    BY <1>3, <2>2, AppendQueued DEF Owners
  <2> QED
    BY <2>1, <2>2 DEF HandleIn
<1>5. Exclusive' /\ TakenIsOpen'
  BY <1>1, <1>2, <1>3, <1>4 DEF Owners, Exclusive, TakenIsOpen, Taken
<1>6. HeldOnce'
  BY <1>1 DEF Owners, HeldOnce
<1>7. InTime'
  BY <1>1, <1>2, <1>4, PostponeOwners DEF HandleIn, Slots, InTime
<1>8. OwnData'
  BY <1>1, <1>2, SameWriters DEF Slots, OwnData
<1>9. SlotKnown' /\ AcceptedIsIn'
  BY <1>1, <1>2 DEF Slots, SlotKnown, AcceptedIsIn
<1> QED
  BY <1>4, <1>5, <1>6, <1>7, <1>8, <1>9 DEF Owners, Slots

\* write: the event is used up and the descriptor armed again.
LEMMA HandleOutOwners ==
  ASSUME OInv, NEW fd \in Fds, HandleOut(fd) \/ HandleOutAgain(fd)
  PROVE  Owners' /\ Slots'
<1> USE DEF OInv, IInv, Ownership, Typed, TypeOK
<1>1. /\ main.pc = "dispatch" /\ Pending(fd)
      /\ UNCHANGED <<socket, m_sockfd, main, workqueue, worker>>
  BY DEF HandleOut, HandleOutAgain, Handle, Pending
<1>0. \A g \in Fds : Pending(g)' => Pending(g) /\ g # fd
  BY UsesUp DEF HandleOut, HandleOutAgain
<1>2. \A g \in Fds : (Pending(g)' => Pending(g) /\ g # fd) /\ (Queued(g)' <=> Queued(g))
                     /\ (Held(g)' <=> Held(g)) /\ ~Accepting(g) /\ ~Accepting(g)'
  BY <1>0, <1>1 DEF Queued, Held, Accepting
<1>3. \A g \in Fds : Armed(g)' => Armed(g) \/ g = fd
  <2>1. m_sockfd[fd] \in {fd, NoFd} /\ NoFd \notin Fds
    BY ServerAssumption DEF Slots, SlotKnown
  <2>2. \E ev \in {"in", "out"} : epoll' = Modfd(m_sockfd[fd], ev)
    BY DEF HandleOut, HandleOutAgain
  <2> QED
    BY <2>1, <2>2 DEF Modfd, Armed
<1>4. Exclusive' /\ TakenIsOpen'
  BY <1>1, <1>2, <1>3 DEF Owners, Exclusive, TakenIsOpen, Taken
<1>5. QueuedOnce' /\ HeldOnce'
  BY <1>1 DEF Owners, QueuedOnce, HeldOnce
<1>6. InTime'
  BY <1>1, <1>2, PostponeOwners DEF HandleOut, HandleOutAgain, Slots, InTime
<1>7. OwnData'
  <2>1. CASE HandleOut(fd)
    <3>1. \A g \in Fds : /\ reading'[g] \in {None, reading[g]} /\ sending'[g].who = sending[g].who
                         /\ sending'[g].n > 0 => sending[g].n > 0
      BY <2>1, ServerAssumption DEF HandleOut
    <3> QED
      BY <1>1, <1>2, <3>1, SameWriters DEF Slots, OwnData
  <2>2. CASE HandleOutAgain(fd)
    <3>1. /\ reading' = reading
          /\ \A g \in Fds : sending'[g].who = sending[g].who /\ (sending'[g].n > 0 => sending[g].n > 0)
      <4>1. PICK n \in 1 .. sending[fd].n - 1 : sending' = [sending EXCEPT ![fd].n = n]
        BY <2>2 DEF HandleOutAgain
      <4>2. sending[fd].n \in Nat
        BY ServerAssumption
      <4>3. sending[fd].n > 0
        BY <4>1, <4>2
      <4> QED
        BY <2>2, <4>1, <4>3 DEF HandleOutAgain
    <3> QED
      BY <1>1, <1>2, <3>1, SameWriters DEF Slots, OwnData
  <2> QED
    BY <2>1, <2>2
<1>8. SlotKnown' /\ AcceptedIsIn'
  BY <1>1, <1>2 DEF Slots, SlotKnown, AcceptedIsIn
<1> QED
  BY <1>4, <1>5, <1>6, <1>7, <1>8 DEF Owners, Slots

LEMMA TakeOwners ==
  ASSUME OInv, NEW w \in Workers, Take(w)
  PROVE  Owners' /\ Slots'
<1> USE DEF OInv, IInv, Typed, TypeOK
<1> DEFINE fd == Head(workqueue)
<1>1. /\ UNCHANGED <<socket, epoll, m_sockfd, reading, sending, users_timer, left, main, batch>>
      /\ workqueue # <<>> /\ workqueue' = Tail(workqueue)
      /\ \A v \in Workers : worker'[v].fd = IF v = w THEN fd ELSE worker[v].fd
  BY DEF Take, GoTo, kernelVars, slotVars, clockVars
<1>2. /\ QueuedOnce' /\ fd \in Fds /\ Queued(fd)
      /\ \A g \in Fds : Queued(g)' => Queued(g) /\ g # fd
  BY <1>1, TailQueued DEF Owners
<1>3. \A g \in Fds : /\ Held(g)' => Held(g) \/ g = fd
                     /\ Pending(g)' = Pending(g) /\ Armed(g)' = Armed(g) /\ Accepting(g)' = Accepting(g)
  BY <1>1 DEF Held, Pending, Armed, Accepting
<1>4. ~Held(fd) /\ ~Pending(fd) /\ ~Armed(fd)
  BY <1>2 DEF Owners, Exclusive, Taken
<1>5. Exclusive' /\ TakenIsOpen'
  BY <1>1, <1>2, <1>3, <1>4 DEF Owners, Exclusive, TakenIsOpen, Taken
<1>6. HeldOnce'
  BY <1>1, <1>4 DEF Owners, HeldOnce, Held
<1>8. \A g \in Fds : Writing(g)' => Writing(g)
  BY OtherWriters DEF Take
<1>7. Resting
  BY <1>1, <1>2, <1>3, <1>8 DEF Resting, Slots, InTime, AcceptedIsIn
<1> QED
  BY <1>2, <1>5, <1>6, <1>7, RestingStep DEF Owners

\* process has ended: the worker has let go of the descriptor and armed it.
LEMMA RearmOwners ==
  ASSUME OInv, NEW w \in Workers, Incomplete(w) \/ Rearm(w)
  PROVE  Owners' /\ Slots'
<1> USE DEF OInv, IInv, Typed, TypeOK
<1> DEFINE fd == worker[w].fd
<1>1. /\ UNCHANGED <<socket, m_sockfd, reading, sending, users_timer, left, main, batch, workqueue>>
      /\ \A v \in Workers : worker'[v].fd = IF v = w THEN NoFd ELSE worker[v].fd
      /\ fd \in Fds /\ Held(fd)
  BY DEF Incomplete, Rearm, At, GoTo, slotVars, clockVars, WorkerHasSlot, Held
<1>2. NoFd \notin Fds
  BY ServerAssumption
<1>3. \A g \in Fds : /\ Held(g)' => Held(g) /\ g # fd
                     /\ Pending(g)' = Pending(g) /\ Queued(g)' = Queued(g) /\ Accepting(g)' = Accepting(g)
  BY <1>1, <1>2 DEF Held, Pending, Queued, Accepting, Owners, HeldOnce
<1>4. \A g \in Fds : g # fd => epoll'[g] = epoll[g]
  BY <1>1, <1>2 DEF Incomplete, Rearm, Modfd, Slots, SlotKnown
<1>5. ~Queued(fd) /\ ~Pending(fd) /\ ~Accepting(fd)
  BY <1>1 DEF Owners, Exclusive, TakenIsOpen, Taken
<1>6. Exclusive' /\ TakenIsOpen'
  BY <1>1, <1>3, <1>4, <1>5 DEF Owners, Exclusive, TakenIsOpen, Taken, Armed
<1>7. QueuedOnce' /\ HeldOnce'
  BY <1>1, <1>2 DEF Owners, QueuedOnce, HeldOnce
<1>9. \A g \in Fds : Writing(g)' => Writing(g)
  BY OtherWriters DEF Incomplete, Rearm
<1>8. Resting
  BY <1>1, <1>3, <1>4, <1>5, <1>9 DEF Resting, Slots, InTime, AcceptedIsIn
<1> QED
  BY <1>6, <1>7, <1>8, RestingStep DEF Owners

\* process_read takes the request that is in the slot, of the connection on it.
LEMMA ReadRequestOwners ==
  ASSUME OInv, NEW w \in Workers, ReadRequest(w)
  PROVE  Owners' /\ Slots'
<1> USE DEF OInv, IInv, Typed, TypeOK
<1> DEFINE fd == worker[w].fd
<1>1. /\ UNCHANGED <<socket, epoll, m_sockfd, reading, users_timer, left, main, batch, workqueue>>
      /\ \A v \in Workers : worker'[v].fd = worker[v].fd
      /\ fd \in Fds /\ Held(fd) /\ reading[fd] # None
  BY DEF ReadRequest, At, GoTo, kernelVars, clockVars, WorkerHasSlot, Held
<1>2. \A g \in Fds : (Held(g)' <=> Held(g)) /\ (Queued(g)' <=> Queued(g)) /\ Accepting(g)' = Accepting(g)
  BY <1>1 DEF Held, Queued, Accepting
<1>3. Releasing
  BY <1>1, <1>2 DEF Releasing, Armed, Pending
<1>4. socket[fd] # None /\ ~Accepting(fd)
  BY <1>1 DEF Owners, TakenIsOpen, Taken
<1>5. reading[fd] = socket[fd]
  BY <1>1, <1>4 DEF Slots, OwnData
<1>6. OwnData'
  <2>1. \A g \in Fds : /\ sending'[g].who = IF g = fd THEN socket[g] ELSE sending[g].who
                       /\ sending'[g].n = sending[g].n
    BY <1>1, <1>5 DEF ReadRequest
  <2>2. \A g \in Fds : g # fd => (Writing(g)' <=> Writing(g))
    BY DEF ReadRequest, GoTo, Writing, At
  <2> QED
    BY <1>1, <1>2, <2>1, <2>2 DEF Slots, OwnData
<1>7. InTime' /\ SlotKnown' /\ AcceptedIsIn'
  BY <1>1, <1>2 DEF Slots, InTime, SlotKnown, AcceptedIsIn
<1> QED
  BY <1>3, <1>6, <1>7, ReleasingStep DEF Slots

\* process_write builds the response from that request.
LEMMA RespondOwners ==
  ASSUME OInv, NEW w \in Workers, Respond(w)
  PROVE  Owners' /\ Slots'
<1> USE DEF OInv, IInv, Typed, TypeOK
<1> DEFINE fd == worker[w].fd
<1>1. /\ UNCHANGED <<socket, epoll, m_sockfd, reading, users_timer, left, main, batch, workqueue>>
      /\ \A v \in Workers : worker'[v].fd = worker[v].fd
      /\ fd \in Fds /\ Writing(fd)
  BY DEF Respond, At, GoTo, kernelVars, clockVars, WorkerHasSlot, Writing
<1>2. \A g \in Fds : (Held(g)' <=> Held(g)) /\ (Queued(g)' <=> Queued(g)) /\ Accepting(g)' = Accepting(g)
  BY <1>1 DEF Held, Queued, Accepting
<1>3. Releasing
  BY <1>1, <1>2 DEF Releasing, Armed, Pending
<1>4. \A g \in Fds : Writing(g)' => Writing(g)
  BY OtherWriters DEF Respond
<1>5. \A g \in Fds : sending'[g].who = sending[g].who /\ (g # fd => sending'[g] = sending[g])
  BY <1>1 DEF Respond
<1>6. OwnData'
  BY <1>1, <1>2, <1>4, <1>5 DEF Slots, OwnData
<1>7. InTime' /\ SlotKnown' /\ AcceptedIsIn'
  BY <1>1, <1>2 DEF Slots, InTime, SlotKnown, AcceptedIsIn
<1> QED
  BY <1>3, <1>6, <1>7, ReleasingStep DEF Slots

\* Prompt: time does not pass the last unit of a connection in process.
LEMMA SlotOwners ==
  ASSUME OInv, Prompt, Slot
  PROVE  Owners' /\ Slots'
<1> USE DEF OInv, IInv, Typed, TypeOK
<1>1. /\ UNCHANGED <<socket, epoll, m_sockfd, reading, sending, users_timer, main, batch, workqueue, worker>>
      /\ \A fd \in InFlight : left[users_timer[fd]] # 1
      /\ left' = [t \in Conns |-> IF left[t] > 0 THEN left[t] - 1 ELSE 0]
  BY DEF Slot, AT!Age, kernelVars, slotVars
<1>2. \A fd \in Fds : /\ (Held(fd)' <=> Held(fd)) /\ (Queued(fd)' <=> Queued(fd))
                      /\ Accepting(fd)' = Accepting(fd)
                      /\ Held(fd) \/ Queued(fd) => fd \in InFlight
  BY <1>1, ServerAssumption DEF Held, Queued, Accepting, InFlight
<1>3. Releasing
  BY <1>1, <1>2 DEF Releasing, Armed, Pending
<1>4. ASSUME NEW fd \in Fds, Queued(fd) \/ Held(fd)
      PROVE  left'[users_timer[fd]] # 0
  <2>1. socket[fd] # None /\ ~Accepting(fd)
    BY <1>4 DEF Owners, TakenIsOpen, Taken
  <2>2. users_timer[fd] \in Conns
    BY <2>1 DEF Ownership, OpenHasTimer, Accepting
  <2>3. left[users_timer[fd]] \in Nat /\ left[users_timer[fd]] \notin {0, 1}
    BY <1>1, <1>2, <1>4, <2>2, ServerAssumption DEF Slots, InTime
  <2> QED
    BY <1>1, <2>2, <2>3
<1>5. Resting
  BY <1>1, <1>2, <1>4, SameWriters DEF Resting, Slots, AcceptedIsIn
<1> QED
  BY <1>3, <1>5, ReleasingStep, RestingStep

LEMMA OwnersStep ==
  ASSUME OInv, [Next]_vars, ~WorkerCloses, Prompt
  PROVE  Owners' /\ Slots'
<1> USE DEF kernelVars, slotVars, clockVars
<1>0. CASE UNCHANGED vars
  BY <1>0, IdleStep DEF vars, Idle, Pending
<1>1. CASE Clients
  BY <1>1, IdleStep DEF Clients, Connect, Send, HangUp, Idle, Pending
<1>2. CASE Slot
  BY <1>2, SlotOwners
<1>3. CASE EpollWait
  BY <1>3, EpollOwners
<1>4. CASE Accept
  BY <1>4, AcceptOwners
<1>5. CASE AcceptDone
  BY <1>5, AcceptDoneOwners
<1>6. CASE Refuse \/ AcceptFails \/ HandleSignal
  BY <1>6, IdleStep DEF Refuse, AcceptFails, HandleSignal, Handle, Idle, Pending
<1>7. CASE CbFuncDone
  BY <1>7, CbFuncDoneOwners
<1>8. CASE BatchDone \/ TickDone
  BY <1>8, IdleStep DEF BatchDone, TickDone, Idle, Pending, OInv, IInv, Typed, TypeOK
<1>9. ASSUME NEW fd \in Fds, HandleHup(fd) \/ HandleInFails(fd) \/ HandleOutFails(fd)
      PROVE  Owners' /\ Slots'
  BY <1>9, DropOwners DEF HandleHup, HandleInFails, HandleOutFails
<1>10. ASSUME NEW fd \in Fds, HandleIn(fd) \/ HandleOut(fd) \/ HandleOutAgain(fd)
       PROVE  Owners' /\ Slots'
  BY <1>10, HandleInOwners, HandleOutOwners
<1>11. ASSUME NEW t \in Conns, Expire(t) PROVE Owners' /\ Slots'
  BY <1>11, ExpireOwners
<1>12. ASSUME NEW w \in Workers, Worker(w) PROVE Owners' /\ Slots'
  <2>1. Take(w) \/ Incomplete(w) \/ ReadRequest(w) \/ Respond(w) \/ Rearm(w)
    BY <1>12 DEF Worker, CloseConn, CloseConnLoad, CloseConnDone, At, OInv, Careful, NoCloser
  <2> QED
    BY <2>1, TakeOwners, RearmOwners, ReadRequestOwners, RespondOwners
<1> QED
  BY <1>0, <1>1, <1>2, <1>3, <1>4, <1>5, <1>6, <1>7, <1>8, <1>9, <1>10, <1>11, <1>12 DEF Next, MainThread

LEMMA OInvAlways ==
  ASSUME ~WorkerCloses, Prompt
  PROVE  Spec => []OInv
<1>1. Init => Owners /\ Slots
  BY OwnersInit
<1>2. IInv /\ Careful /\ Owners /\ Slots /\ [Next]_vars => (Owners /\ Slots)'
  BY OwnersStep DEF OInv
<1>3. IInv /\ Careful /\ (Owners /\ Slots) => OInv
  BY DEF OInv
<1> QED
  BY <1>1, <1>2, <1>3, IInvAlways, CarefulAlways, PTL DEF Spec

LEMMA AtMostOne ==
  ASSUME NEW S, \A x, y \in S : x = y
  PROVE  Cardinality(S) = IF S = {} THEN 0 ELSE 1
<1>1. CASE S = {}
  BY <1>1, FS_EmptySet
<1>2. CASE S # {}
  <2>1. PICK x \in S : S = {x}
    BY <1>2
  <2> QED
    BY <1>2, <2>1, FS_Singleton
<1> QED
  BY <1>1, <1>2

(* If workers close nothing and requests are processed before their timers *)
(* can expire, EPOLLONESHOT hands each descriptor to one thread at a time  *)
(* (http_conn.cpp:93, main.cpp:343): it is armed, or has one event, or is  *)
(* in the queue once, or with one worker.                                  *)
THEOREM EachHasOneOwner ==
  ASSUME ~WorkerCloses, Prompt
  PROVE  Spec => []OneOwner
<1>1. OInv => OneOwner
  <2> SUFFICES ASSUME OInv, NEW fd \in Fds
               PROVE  (IF epoll[fd] \in {"in", "out"} THEN 1 ELSE 0)
                        + Cardinality({e \in batch : e.fd = fd})
                        + Cardinality({i \in DOMAIN workqueue : workqueue[i] = fd})
                        + Cardinality({w \in Workers : worker[w].fd = fd}) <= 1
    BY DEF OneOwner
  <2>1. Cardinality({e \in batch : e.fd = fd}) = IF Pending(fd) THEN 1 ELSE 0
    BY AtMostOne DEF OInv, IInv, Ownership, OneEventEach, Pending
  <2>2. Cardinality({i \in DOMAIN workqueue : workqueue[i] = fd}) = IF Queued(fd) THEN 1 ELSE 0
    BY AtMostOne DEF OInv, Owners, QueuedOnce, Queued
  <2>3. Cardinality({w \in Workers : worker[w].fd = fd}) = IF Held(fd) THEN 1 ELSE 0
    BY AtMostOne DEF OInv, Owners, HeldOnce, Held
  <2> QED
    BY <2>1, <2>2, <2>3 DEF OInv, Owners, Exclusive, Armed, Taken
<1> QED
  BY <1>1, OInvAlways, PTL

(* On the same conditions, what write is about to send on a descriptor is  *)
(* the response to a request of the connection that is open on it          *)
(* (http_conn.cpp:149-169, 797).                                           *)
THEOREM ResponsesReachTheirClient ==
  ASSUME ~WorkerCloses, Prompt
  PROVE  Spec => []AnswersOwnRequest
<1>1. OInv => AnswersOwnRequest
  <2> SUFFICES ASSUME OInv, NEW fd \in Fds, socket[fd] # None, sending[fd].n > 0,
                      epoll[fd] = "out" \/ [fd |-> fd, ev |-> "out"] \in batch
               PROVE  sending[fd].who = socket[fd]
    BY DEF AnswersOwnRequest
  <2>1. ~Accepting(fd)
    BY DEF OInv, Slots, AcceptedIsIn, Owners, TakenIsOpen, Taken, Pending
  <2> QED
    BY <2>1 DEF OInv, Slots, OwnData
<1> QED
  BY <1>1, OInvAlways, PTL

-----------------------------------------------------------------------------
(* Server keeps the contracts of the two components it is built on, so     *)
(* that what TimerList and ThreadPool are shown to promise holds here.     *)

\* The timer that is about to be deleted is in the list: the handlers that
\* close a connection find it there, and tick takes it from there.
ClosesListed == main.pc \in {"closing", "expiring"} => main.timer \in timers

LEMMA ClosesListedStep ==
  ASSUME IInv, ClosesListed, [Next]_vars
  PROVE  ClosesListed'
<1>1. CASE UNCHANGED <<main, timers>>
  BY <1>1 DEF ClosesListed
<1>2. ASSUME NEW fd \in Fds, HandleHup(fd) \/ HandleInFails(fd) \/ HandleOutFails(fd) PROVE ClosesListed'
  <2>1. Drop(fd) /\ \E e \in batch : e.fd = fd
    BY <1>2 DEF HandleHup, HandleInFails, HandleOutFails, Handle
  <2>2. users_timer[fd] \in timers
    BY <2>1 DEF IInv, Ownership, EventHasTimer
  <2> QED
    BY <2>1, <2>2 DEF Drop, CbFunc, clockVars, ClosesListed
<1>3. ASSUME NEW t \in Conns, Expire(t) PROVE ClosesListed'
  BY <1>3 DEF Expire, CbFunc, AT!Expired, clockVars, ClosesListed
<1>4. CASE EpollWait \/ Accept \/ AcceptDone \/ CbFuncDone \/ BatchDone \/ TickDone
  <2>1. main'.pc \notin {"closing", "expiring"}
    BY <1>4 DEF IInv, Typed, TypeOK, EpollWait, Accept, AcceptDone, CbFuncDone, BatchDone, TickDone
  <2> QED
    BY <2>1 DEF ClosesListed
<1>5. CASE Slot
  BY <1>5 DEF Slot, AT!Age, ClosesListed
<1>6. ASSUME NEW fd \in Fds, HandleIn(fd) \/ HandleOut(fd) \/ HandleOutAgain(fd) PROVE ClosesListed'
  <2>1. UNCHANGED <<main, timers>>
    BY <1>6 DEF HandleIn, HandleOut, HandleOutAgain, Postpone, AT!Adjust
  <2> QED
    BY <1>1, <2>1
<1>7. CASE Clients \/ Refuse \/ AcceptFails \/ HandleSignal \/ UNCHANGED vars \/ \E w \in Workers : Worker(w)
  <2>1. UNCHANGED <<main, timers>>
    <3>1. CASE Clients \/ Refuse \/ AcceptFails \/ HandleSignal \/ UNCHANGED vars
      BY <3>1 DEF Clients, Connect, Send, HangUp, Refuse, AcceptFails, HandleSignal, vars, clockVars
    <3>2. ASSUME NEW w \in Workers, Worker(w) PROVE UNCHANGED <<main, timers>>
      BY <3>2 DEF Worker, Take, Incomplete, ReadRequest, Respond, CloseConn, CloseConnLoad, CloseConnDone, Rearm, clockVars
    <3> QED
      BY <1>7, <3>1, <3>2
  <2> QED
    BY <1>1, <2>1
<1> QED
  BY <1>2, <1>3, <1>4, <1>5, <1>6, <1>7 DEF Next, MainThread

(* The server uses its timers as ActiveTimers says, which TimerList is     *)
(* shown to implement: it adds a timer that is not in the list, postpones  *)
(* and deletes one that is, none twice (main.cpp:245, 286-292, 349-353,    *)
(* lst_timer.h:169-195), also when workers close connections and are late. *)
THEOREM TimersAreUsedAsPromised == Spec => AT!Spec
<1>1. Init => AT!Init /\ ClosesListed
  BY DEF Init, ClosesListed
<1>2. IInv /\ ClosesListed /\ [Next]_vars => [AT!Next]_(AT!timerVars)
  <2> SUFFICES ASSUME IInv, ClosesListed, [Next]_vars PROVE [AT!Next]_(AT!timerVars)
    OBVIOUS
  <2> USE DEF AT!timerVars
  <2>1. CASE AcceptDone
    <3>1. main.timer \in Conns \ timers
      BY <2>1 DEF AcceptDone, IInv, Ownership, AcceptInProgress
    <3>2. AT!Add(main.timer, Life)
      BY <2>1 DEF AcceptDone
    <3> QED
      BY <3>1, <3>2 DEF AT!Next
  <2>2. CASE CbFuncDone
    <3>1. main.timer \in timers /\ AT!Del(main.timer)
      BY <2>2 DEF CbFuncDone, ClosesListed
    <3> QED
      BY <3>1 DEF AT!Next
  <2>3. CASE Slot
    BY <2>3 DEF Slot, AT!Next
  <2>4. ASSUME NEW fd \in Fds, HandleIn(fd) \/ HandleOut(fd) \/ HandleOutAgain(fd)
        PROVE  [AT!Next]_(AT!timerVars)
    <3>1. Postpone(fd)
      BY <2>4 DEF HandleIn, HandleOut, HandleOutAgain
    <3>2. CASE users_timer[fd] \in timers
      BY <3>1, <3>2 DEF Postpone, AT!Next
    <3>3. CASE users_timer[fd] \notin timers
      BY <3>1, <3>3 DEF Postpone
    <3> QED
      BY <3>2, <3>3
  <2>5. CASE UNCHANGED <<timers, left>>
    BY <2>5
  <2>6. CASE \/ EpollWait \/ Accept \/ Refuse \/ AcceptFails \/ HandleSignal \/ BatchDone \/ TickDone
             \/ Clients \/ UNCHANGED vars
    BY <2>5, <2>6 DEF EpollWait, Accept, Refuse, AcceptFails, HandleSignal, BatchDone, TickDone,
                      Clients, Connect, Send, HangUp, vars, clockVars
  <2>7. ASSUME NEW fd \in Fds, HandleHup(fd) \/ HandleInFails(fd) \/ HandleOutFails(fd)
        PROVE  UNCHANGED <<timers, left>>
    BY <2>7 DEF HandleHup, HandleInFails, HandleOutFails, Drop, clockVars
  <2>8. ASSUME NEW t \in Conns, Expire(t) PROVE UNCHANGED <<timers, left>>
    BY <2>8 DEF Expire, clockVars
  <2>9. ASSUME NEW w \in Workers, Worker(w) PROVE UNCHANGED <<timers, left>>
    BY <2>9 DEF Worker, Take, Incomplete, ReadRequest, Respond, CloseConn, CloseConnLoad, CloseConnDone, Rearm, clockVars
  <2> QED
    BY <2>1, <2>2, <2>3, <2>4, <2>5, <2>6, <2>7, <2>8, <2>9 DEF Next, MainThread
<1>3. IInv /\ ClosesListed /\ [Next]_vars => ClosesListed'
  BY ClosesListedStep
<1> QED
  BY <1>1, <1>2, <1>3, IInvAlways, PTL DEF Spec, AT!Spec

\* The pool as Server has it.
Pool == INSTANCE WorkQueue WITH
  Requests       <- Fds,
  NoRequest      <- NoFd,
  m_max_requests <- MaxRequests,
  queue          <- workqueue,
  doing          <- [w \in Workers |-> worker[w].fd],
  stopped        <- FALSE

\* A worker has a slot exactly while it is not idle.
IdleHasNone == \A w \in Workers : worker[w].pc = "idle" => worker[w].fd = NoFd

\* What the steps of a worker do to what it has.
LEMMA GoToIs ==
  ASSUME TypeOK, NEW w \in Workers, NEW pc, NEW fd, NEW reg, GoTo(w, pc, fd, reg)
  PROVE  /\ worker'[w] = [pc |-> pc, fd |-> fd, reg |-> reg]
         /\ \A v \in Workers : v # w => worker'[v] = worker[v]
         /\ [v \in Workers |-> worker[v].fd]' = [[v \in Workers |-> worker[v].fd] EXCEPT ![w] = fd]
  BY DEF TypeOK, GoTo

LEMMA GoToKeepsIdle ==
  ASSUME TypeOK, IdleHasNone, NEW w \in Workers, NEW pc, NEW fd, NEW reg, GoTo(w, pc, fd, reg),
         pc = "idle" => fd = NoFd
  PROVE  IdleHasNone'
<1>1. worker'[w] = [pc |-> pc, fd |-> fd, reg |-> reg] /\ \A v \in Workers : v # w => worker'[v] = worker[v]
  BY DEF TypeOK, GoTo
<1>2. worker'[w].pc = pc /\ worker'[w].fd = fd
  BY <1>1
<1> QED
  BY <1>1, <1>2 DEF IdleHasNone

(* The server uses the pool as WorkQueue says, which ThreadPool is shown   *)
(* to implement: it puts slots of its own in the queue up to the bound, a  *)
(* worker takes one when it has none, oldest first, and gives it back when *)
(* process is through (threadpool.h:79-90, 107-130, main.cpp:343).         *)
THEOREM PoolIsUsedAsPromised == Spec => Pool!Spec
<1> USE DEF Pool!queueVars
<1>1. Init => Pool!Init /\ IdleHasNone
  BY DEF Init, Pool!Init, IdleHasNone
<1>2. IInv /\ IdleHasNone /\ [Next]_vars => [Pool!Next]_(Pool!queueVars) /\ IdleHasNone'
  <2> SUFFICES ASSUME IInv, IdleHasNone, [Next]_vars PROVE [Pool!Next]_(Pool!queueVars) /\ IdleHasNone'
    OBVIOUS
  <2>0. TypeOK /\ WorkerHasSlot /\ NoFd \notin Fds
    BY ServerAssumption DEF IInv, Typed
  <2>1. CASE UNCHANGED <<workqueue, worker>>
    BY <2>1 DEF IdleHasNone
  <2>2. ASSUME NEW fd \in Fds, HandleIn(fd) PROVE [Pool!Next]_(Pool!queueVars) /\ IdleHasNone'
    <3>1. UNCHANGED worker /\ workqueue' = IF Len(workqueue) >= MaxRequests THEN workqueue ELSE Append(workqueue, fd)
      BY <2>2 DEF HandleIn
    <3>2. CASE Len(workqueue) >= MaxRequests
      BY <2>1, <3>1, <3>2
    <3>3. CASE ~(Len(workqueue) >= MaxRequests)
      <4>1. Len(workqueue) < MaxRequests
        BY <2>0, <3>3, ServerAssumption DEF TypeOK
      <4>2. Pool!Put(fd)
        BY <3>1, <3>3, <4>1 DEF Pool!Put
      <4> QED
        BY <3>1, <4>2 DEF Pool!Next, IdleHasNone
    <3> QED
      BY <3>2, <3>3
  <2>3. ASSUME NEW w \in Workers, Take(w) PROVE [Pool!Next]_(Pool!queueVars) /\ IdleHasNone'
    <3>1. /\ worker[w].fd = NoFd /\ workqueue # <<>> /\ workqueue' = Tail(workqueue)
          /\ GoTo(w, "process", Head(workqueue), 0)
      BY <2>3 DEF Take, At, IdleHasNone
    <3>2. Pool!Get(w)
      BY <2>0, <3>1, GoToIs DEF Pool!Get
    <3>3. IdleHasNone'
      BY <2>0, <3>1, GoToKeepsIdle
    <3> QED
      BY <3>2, <3>3 DEF Pool!Next
  <2>4. ASSUME NEW w \in Workers, Incomplete(w) \/ Rearm(w) PROVE [Pool!Next]_(Pool!queueVars) /\ IdleHasNone'
    <3>1. worker[w].pc # "idle" /\ UNCHANGED workqueue /\ GoTo(w, "idle", NoFd, 0)
      BY <2>4 DEF Incomplete, Rearm, At
    <3>2. worker[w].fd # NoFd
      BY <2>0, <3>1 DEF WorkerHasSlot
    <3>3. Pool!Finish(w)
      <4>1. [v \in Workers |-> worker[v].fd][w] # NoFd
        BY <3>2
      <4>2. [v \in Workers |-> worker[v].fd]' = [[v \in Workers |-> worker[v].fd] EXCEPT ![w] = NoFd]
        BY <2>0, <3>1, GoToIs
      <4> QED
        BY <3>1, <4>1, <4>2 DEF Pool!Finish
    <3>4. IdleHasNone'
      BY <2>0, <3>1, GoToKeepsIdle
    <3> QED
      BY <3>3, <3>4 DEF Pool!Next
  <2>5. ASSUME NEW w \in Workers,
               ReadRequest(w) \/ Respond(w) \/ CloseConn(w) \/ CloseConnLoad(w) \/ CloseConnDone(w)
        PROVE  [Pool!Next]_(Pool!queueVars) /\ IdleHasNone'
    <3>1. PICK pc, reg : pc # "idle" /\ GoTo(w, pc, worker[w].fd, reg)
      BY <2>5 DEF ReadRequest, Respond, CloseConn, CloseConnLoad, CloseConnDone
    <3>2. UNCHANGED <<workqueue, [v \in Workers |-> worker[v].fd]>>
      <4>1. UNCHANGED workqueue
        BY <2>5 DEF ReadRequest, Respond, CloseConn, CloseConnLoad, CloseConnDone
      <4>2. [v \in Workers |-> worker[v].fd]' = [[v \in Workers |-> worker[v].fd] EXCEPT ![w] = worker[w].fd]
        BY <2>0, <3>1, GoToIs
      <4>3. @ = [v \in Workers |-> worker[v].fd]
        OBVIOUS
      <4> QED
        BY <4>1, <4>2, <4>3
    <3>3. IdleHasNone'
      BY <2>0, <3>1, GoToKeepsIdle
    <3> QED
      BY <3>2, <3>3
  <2>6. CASE \/ EpollWait \/ Accept \/ AcceptDone \/ Refuse \/ AcceptFails \/ CbFuncDone
             \/ HandleSignal \/ BatchDone \/ TickDone \/ Clients \/ Slot \/ UNCHANGED vars
    BY <2>1, <2>6 DEF EpollWait, Accept, AcceptDone, Refuse, AcceptFails, CbFuncDone, HandleSignal, BatchDone,
                      TickDone, Clients, Connect, Send, HangUp, Slot, vars
  <2>7. ASSUME NEW fd \in Fds,
               HandleHup(fd) \/ HandleInFails(fd) \/ HandleOut(fd) \/ HandleOutAgain(fd) \/ HandleOutFails(fd)
        PROVE  UNCHANGED <<workqueue, worker>>
    BY <2>7 DEF HandleHup, HandleInFails, HandleOut, HandleOutAgain, HandleOutFails, Drop
  <2>8. ASSUME NEW t \in Conns, Expire(t) PROVE UNCHANGED <<workqueue, worker>>
    BY <2>8 DEF Expire
  <2> QED
    BY <2>1, <2>2, <2>3, <2>4, <2>5, <2>6, <2>7, <2>8 DEF Next, MainThread, Worker
<1> QED
  BY <1>1, <1>2, IInvAlways, PTL DEF Spec, Pool!Spec
=============================================================================
