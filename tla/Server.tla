------------------------------- MODULE Server -------------------------------
(***************************************************************************)
(* The life of a connection in main.cpp and http/http_conn.cpp: the main   *)
(* thread's epoll loop (accept, read_once, write, the SIGALRM tick), the   *)
(* worker threads that run http_conn::process, the one http_conn slot and  *)
(* the timer of each descriptor, and the kernel's descriptor table and     *)
(* EPOLLONESHOT registrations that tie them together.                      *)
(*                                                                         *)
(* A handler of the main thread is one step, cut at the one place where it *)
(* races with the workers on shared memory: m_user_count-- and ++ are a    *)
(* load and a store.  A worker's step ends wherever another thread may see *)
(* the difference.  A request is abstracted to the connection it came      *)
(* from; what process_read makes of it is a nondeterministic choice, the   *)
(* connection that a response is computed from is not.                     *)
(***************************************************************************)
EXTENDS Integers, FiniteSets, Sequences

CONSTANTS
  Fds,             \* descriptors accept may return, the indices of users and users_timer
  listenfd,        \* the listening socket
  pipefd,          \* pipefd[0], the read end of the signal pipe
  Conns,           \* client connections; each names its util_timer too
  None,            \* no connection, no timer
  Workers,         \* the threads of the pool
  MAX_FD,          \* MAX_FD of main.cpp
  MaxRequests,     \* m_max_requests of the thread pool
  Life,            \* slots before an idle connection expires, 3 in main.cpp
  Chunks,          \* most partial writes a response may take
  WorkerCloses,    \* may process_write fail, so that a worker closes?
  Prompt           \* is every request processed before its timer can expire?

ASSUME ServerAssumption ==
  /\ Fds \subseteq Nat /\ IsFiniteSet(Fds)
  /\ listenfd \in Nat \ Fds /\ pipefd \in Nat \ Fds /\ listenfd # pipefd
  /\ None \notin Conns
  /\ MAX_FD \in Nat /\ MaxRequests \in Nat \ {0}
  /\ Life \in Nat \ {0} /\ Chunks \in Nat \ {0}
  /\ WorkerCloses \in BOOLEAN /\ Prompt \in BOOLEAN

VARIABLES
  (* The kernel and the clients. *)
  socket,        \* the connection a descriptor is open on
  epoll,         \* its registration: "none", disarmed "off", armed "in" or "out"
  peer,          \* the client's side of each connection
  unread,        \* connections with bytes recv has not returned yet
  alarm,         \* the tick's token: "set", "fired" into the pipe, "timeout" seen
  (* The http_conn slots, users[fd]. *)
  m_sockfd,      \* the descriptor the slot believes it has
  reading,       \* whose bytes m_read_buf holds
  sending,       \* whose request do_request answered last, and how much is unsent
  m_user_count,
  (* The timers. *)
  users_timer,   \* users_timer[fd].timer
  timer_fd,      \* the timer's user_data->sockfd
  timers, left,  \* the container timer_lst, see ActiveTimers
  (* The threads. *)
  main,          \* the main thread: where it is and its locals
  batch,         \* the events of the last epoll_wait not handled yet
  workqueue,     \* m_workqueue: the slots waiting for a worker
  worker         \* each worker: where it is, its slot, its loaded m_user_count

kernelVars == <<socket, epoll, peer, unread>>
slotVars   == <<m_sockfd, reading, sending>>
clockVars  == <<users_timer, timer_fd, timers, left>>
vars == <<kernelVars, alarm, slotVars, m_user_count, clockVars, main, batch, workqueue, worker>>

NoFd  == -1
Empty == [who |-> None, n |-> 0]

\* The main thread at pc, between two calls that keep locals.
Between(pc) == [pc |-> pc, fd |-> NoFd, timer |-> None, reg |-> 0]

AT == INSTANCE ActiveTimers WITH Timers <- Conns, Delays <- {Life}

Init ==
  /\ socket = [fd \in Fds |-> None] /\ epoll = [fd \in Fds |-> "none"]
  /\ peer = [c \in Conns |-> "away"] /\ unread = {} /\ alarm = "set"
  /\ m_sockfd = [fd \in Fds |-> NoFd]
  /\ reading = [fd \in Fds |-> None] /\ sending = [fd \in Fds |-> Empty]
  /\ m_user_count = 0
  /\ users_timer = [fd \in Fds |-> None] /\ timer_fd = [c \in Conns |-> NoFd]
  /\ AT!Init
  /\ main = Between("wait")
  /\ batch = {} /\ workqueue = <<>>
  /\ worker = [w \in Workers |-> [pc |-> "idle", fd |-> NoFd, reg |-> 0]]
-----------------------------------------------------------------------------
(* System calls.                                                           *)

\* modfd on an EPOLLONESHOT registration; no effect on a closed descriptor.
Modfd(f, ev) == [fd \in Fds |-> IF fd = f /\ epoll[fd] # "none" THEN ev ELSE epoll[fd]]

Removefd_Mut(fd) ==             \* the epoll registration is left behind
  /\ socket' = [socket EXCEPT ![fd] = None]
  /\ peer' = [c \in Conns |-> IF c = socket[fd] THEN "done" ELSE peer[c]]
  /\ unread' = unread \ {socket[fd]}
  /\ UNCHANGED epoll

\* removefd, and the same two calls in cb_func; no effect on a closed descriptor.
Removefd(fd) ==
  /\ socket' = [socket EXCEPT ![fd] = None]
  /\ epoll' = [epoll EXCEPT ![fd] = "none"]
  /\ peer' = [c \in Conns |-> IF c = socket[fd] THEN "done" ELSE peer[c]]
  /\ unread' = unread \ {socket[fd]}

FreeFds == {fd \in Fds : socket[fd] = None}

\* The events epoll_wait reports; sendable is where the peer's window is open.
Reported(sendable) ==
  LET armed  == {fd \in Fds : epoll[fd] \in {"in", "out"}}
      gone   == {fd \in armed : peer[socket[fd]] = "hup"}
      input  == {fd \in armed \ gone : epoll[fd] = "in" /\ socket[fd] \in unread}
      output == {fd \in (armed \ gone) \cap sendable : epoll[fd] = "out"}
  IN  {[fd |-> fd, ev |-> "hup"] : fd \in gone} \cup
      {[fd |-> fd, ev |-> "in"] : fd \in input} \cup
      {[fd |-> fd, ev |-> "out"] : fd \in output} \cup
      {[fd |-> listenfd, ev |-> "in"] : c \in {c \in Conns : peer[c] = "backlog"}} \cup
      {[fd |-> pipefd, ev |-> "in"] : a \in {alarm} \cap {"fired"}}

Disarmed_Mut(events) ==         \* no EPOLLONESHOT
  epoll

\* EPOLLONESHOT: a reported client descriptor is disarmed.
Disarmed(events) ==
  [fd \in Fds |-> IF \E e \in events : e.fd = fd THEN "off" ELSE epoll[fd]]
-----------------------------------------------------------------------------
(* The clients and the clock.                                              *)

Connect(c) ==
  /\ peer[c] = "away"
  /\ peer' = [peer EXCEPT ![c] = "backlog"]
  /\ UNCHANGED <<socket, epoll, unread, alarm, slotVars, m_user_count, clockVars,
                 main, batch, workqueue, worker>>

Send(c) ==
  /\ peer[c] = "open" /\ c \notin unread
  /\ unread' = unread \cup {c}
  /\ UNCHANGED <<socket, epoll, peer, alarm, slotVars, m_user_count, clockVars,
                 main, batch, workqueue, worker>>

HangUp(c) ==
  /\ peer[c] = "open"
  /\ peer' = [peer EXCEPT ![c] = "hup"]
  /\ UNCHANGED <<socket, epoll, unread, alarm, slotVars, m_user_count, clockVars,
                 main, batch, workqueue, worker>>

\* The slots a worker has or will have.
InFlight == {workqueue[i] : i \in DOMAIN workqueue} \cup ({worker[w].fd : w \in Workers} \ {NoFd})

\* TIMESLOT seconds go by.  If the alarm is set, SIGALRM arrives and
\* sig_handler writes its byte to the pipe.
Slot ==
  /\ alarm = "set" \/ \E t \in timers : left[t] > 0
  /\ Prompt => \A fd \in InFlight : left[users_timer[fd]] # 1
  /\ AT!Age
  /\ alarm' = IF alarm = "set" THEN "fired" ELSE alarm
  /\ UNCHANGED <<kernelVars, slotVars, m_user_count, users_timer, timer_fd,
                 main, batch, workqueue, worker>>
-----------------------------------------------------------------------------
(* The main thread.                                                        *)

EpollWait ==
  /\ main.pc = "wait"
  /\ \E sendable \in SUBSET {fd \in Fds : epoll[fd] = "out"} :
       /\ Reported(sendable) # {}
       /\ batch' = Reported(sendable)
       /\ epoll' = Disarmed(Reported(sendable))
  /\ main' = [main EXCEPT !.pc = "dispatch"]
  /\ UNCHANGED <<socket, peer, unread, alarm, slotVars, m_user_count, clockVars, workqueue, worker>>

\* Take the event of fd off the batch; events come in any order.
Handle(fd, ev) ==
  /\ main.pc = "dispatch"
  /\ [fd |-> fd, ev |-> ev] \in batch
  /\ batch' = batch \ {[fd |-> fd, ev |-> ev]}

\* 1. accept, and users[connfd].init up to the load of m_user_count++.
Accept ==
  /\ Handle(listenfd, "in")
  /\ \E c \in Conns, fd \in FreeFds :
       /\ peer[c] = "backlog" /\ m_user_count < MAX_FD
       /\ \A g \in FreeFds : fd <= g
       /\ socket' = [socket EXCEPT ![fd] = c]
       /\ epoll' = [epoll EXCEPT ![fd] = "in"]
       /\ peer' = [peer EXCEPT ![c] = "open"]
       /\ m_sockfd' = [m_sockfd EXCEPT ![fd] = fd]
       /\ main' = [pc |-> "accepted", fd |-> fd, timer |-> c, reg |-> m_user_count]
  /\ UNCHANGED <<unread, alarm, reading, sending, m_user_count, clockVars, workqueue, worker>>

AcceptDone_OldTimer ==          \* a descriptor keeps the timer of its first connection
  LET fd == main.fd
  IN  /\ main.pc = "accepted"
      /\ m_user_count' = main.reg + 1
      /\ reading' = [reading EXCEPT ![fd] = None]
      /\ sending' = [sending EXCEPT ![fd].n = 0]
      /\ users_timer' = [users_timer EXCEPT ![fd] = IF @ = None THEN main.timer ELSE @]
      /\ timer_fd' = [timer_fd EXCEPT ![main.timer] = fd]
      /\ AT!Add(main.timer, Life)
      /\ main' = Between("dispatch")
      /\ UNCHANGED <<kernelVars, alarm, m_sockfd, batch, workqueue, worker>>

AcceptDone_NoTimer ==           \* add_timer is not called
  LET fd == main.fd
  IN  /\ main.pc = "accepted"
      /\ m_user_count' = main.reg + 1
      /\ reading' = [reading EXCEPT ![fd] = None]
      /\ sending' = [sending EXCEPT ![fd].n = 0]
      /\ users_timer' = [users_timer EXCEPT ![fd] = main.timer]
      /\ timer_fd' = [timer_fd EXCEPT ![main.timer] = fd]
      /\ main' = Between("dispatch")
      /\ UNCHANGED <<kernelVars, alarm, m_sockfd, timers, left, batch, workqueue, worker>>

\* The rest: the store, init(), which leaves the answer of do_request (m_file_stat,
\* m_file_address) as it is, and a new timer for the descriptor.
AcceptDone ==
  LET fd == main.fd
  IN  /\ main.pc = "accepted"
      /\ m_user_count' = main.reg + 1
      /\ reading' = [reading EXCEPT ![fd] = None]
      /\ sending' = [sending EXCEPT ![fd].n = 0]
      /\ users_timer' = [users_timer EXCEPT ![fd] = main.timer]
      /\ timer_fd' = [timer_fd EXCEPT ![main.timer] = fd]
      /\ AT!Add(main.timer, Life)
      /\ main' = Between("dispatch")
      /\ UNCHANGED <<kernelVars, alarm, m_sockfd, batch, workqueue, worker>>

\* "Internal server busy": show_error closes the connection just accepted.
Refuse ==
  /\ Handle(listenfd, "in")
  /\ FreeFds # {} /\ m_user_count >= MAX_FD
  /\ \E c \in Conns :
       /\ peer[c] = "backlog"
       /\ peer' = [peer EXCEPT ![c] = "done"]
  /\ UNCHANGED <<socket, epoll, unread, alarm, slotVars, m_user_count, clockVars,
                 main, workqueue, worker>>

\* accept returns -1: there is no descriptor left, or any other error.  The
\* connection stays in the backlog.
AcceptFails ==
  /\ Handle(listenfd, "in")
  /\ UNCHANGED <<kernelVars, alarm, slotVars, m_user_count, clockVars, main, workqueue, worker>>

\* cb_func(&users_timer[fd]) for the timer t, up to the load of m_user_count--.
CbFunc(fd, t, pc) ==
  /\ Removefd(fd)
  /\ main' = [pc |-> pc, fd |-> fd, timer |-> t, reg |-> m_user_count]

CbFuncDone_NoDel ==             \* the handlers do not call del_timer, only tick deletes
  /\ main.pc \in {"closing", "expiring"}
  /\ m_user_count' = main.reg - 1
  /\ IF main.pc = "closing" THEN UNCHANGED <<timers, left>> ELSE AT!Del(main.timer)
  /\ main' = Between(IF main.pc = "closing" THEN "dispatch" ELSE "tick")
  /\ UNCHANGED <<kernelVars, alarm, slotVars, users_timer, timer_fd, batch, workqueue, worker>>

\* The store, and the timer leaves the list: del_timer, or the delete in tick.
CbFuncDone ==
  /\ main.pc \in {"closing", "expiring"}
  /\ m_user_count' = main.reg - 1
  /\ AT!Del(main.timer)
  /\ main' = Between(IF main.pc = "closing" THEN "dispatch" ELSE "tick")
  /\ UNCHANGED <<kernelVars, alarm, slotVars, users_timer, timer_fd, batch, workqueue, worker>>

\* timer->expire = cur + 3 * TIMESLOT and adjust_timer.  A timer that is no
\* longer in the list would be freed memory: NoDanglingTimer excludes it.
Postpone(fd) ==
  /\ IF users_timer[fd] \in timers THEN AT!Adjust(users_timer[fd], Life)
                                   ELSE UNCHANGED <<timers, left>>
  /\ UNCHANGED <<users_timer, timer_fd>>

\* A handler that ends in cb_func and del_timer changes nothing else.
Drop(fd) ==
  /\ CbFunc(fd, users_timer[fd], "closing")
  /\ UNCHANGED <<alarm, slotVars, m_user_count, clockVars, workqueue, worker>>

\* 2. EPOLLRDHUP, EPOLLHUP or EPOLLERR.
HandleHup(fd) == Handle(fd, "hup") /\ Drop(fd)

\* 3. The signal pipe.
HandleSignal ==
  /\ Handle(pipefd, "in")
  /\ alarm' = "timeout"
  /\ UNCHANGED <<kernelVars, slotVars, m_user_count, clockVars, main, workqueue, worker>>

\* 4. EPOLLIN and read_once returns true.  append may refuse the slot when the
\* queue is full; main ignores its result.
Readable(fd) == m_sockfd[fd] = fd /\ socket[fd] \in unread

HandleIn(fd) ==
  /\ Handle(fd, "in")
  /\ Readable(fd)
  /\ reading' = [reading EXCEPT ![fd] = socket[fd]]
  /\ unread' = unread \ {socket[fd]}
  /\ workqueue' = IF Len(workqueue) >= MaxRequests THEN workqueue ELSE Append(workqueue, fd)
  /\ Postpone(fd)
  /\ UNCHANGED <<socket, epoll, peer, alarm, m_sockfd, sending, m_user_count, main, worker>>

\* EPOLLIN and read_once returns false: nothing to read, a reset, or a buffer
\* that an unfinished request fills.
HandleInFails(fd) ==
  /\ Handle(fd, "in")
  /\ \/ ~Readable(fd)
     \/ Readable(fd) /\ (peer[socket[fd]] = "hup" \/ reading[fd] # None)
  /\ Drop(fd)

\* 5. EPOLLOUT.  Sendable: writev on m_sockfd does not fail.
Sendable(fd) == m_sockfd[fd] = fd /\ socket[fd] # None /\ peer[socket[fd]] # "hup"

\* write returns true: nothing to send; or all is sent and the client asked
\* for keep-alive.  The slot is initialised for the next request.
HandleOut(fd) ==
  /\ Handle(fd, "out")
  /\ sending[fd].n = 0 \/ Sendable(fd)
  /\ epoll' = Modfd(m_sockfd[fd], "in")
  /\ reading' = [reading EXCEPT ![fd] = None]
  /\ sending' = [sending EXCEPT ![fd].n = 0]
  /\ Postpone(fd)
  /\ UNCHANGED <<socket, peer, unread, alarm, m_sockfd, m_user_count, main, workqueue, worker>>

HandleOutAgain_Mut(fd) ==       \* what was sent is subtracted for each of the two buffers
  /\ Handle(fd, "out")
  /\ Sendable(fd)
  /\ \E n \in 1 .. sending[fd].n - 1 : sending' = [sending EXCEPT ![fd].n = n - 2]
  /\ epoll' = Modfd(m_sockfd[fd], "out")
  /\ Postpone(fd)
  /\ UNCHANGED <<socket, peer, unread, alarm, m_sockfd, reading, m_user_count,
                 main, workqueue, worker>>

\* write returns true: writev sends a part and then EAGAIN.
HandleOutAgain(fd) ==
  /\ Handle(fd, "out")
  /\ Sendable(fd)
  /\ \E n \in 1 .. sending[fd].n - 1 : sending' = [sending EXCEPT ![fd].n = n]
  /\ epoll' = Modfd(m_sockfd[fd], "out")
  /\ Postpone(fd)
  /\ UNCHANGED <<socket, peer, unread, alarm, m_sockfd, reading, m_user_count,
                 main, workqueue, worker>>

\* write returns false: writev fails, or all is sent and the connection is not
\* kept alive.
HandleOutFails(fd) ==
  /\ Handle(fd, "out")
  /\ sending[fd].n > 0
  /\ Drop(fd)

\* The batch is done: back to epoll_wait, through timer_handler if timeout.
BatchDone ==
  /\ main.pc = "dispatch" /\ batch = {}
  /\ main' = [main EXCEPT !.pc = IF alarm = "timeout" THEN "tick" ELSE "wait"]
  /\ UNCHANGED <<kernelVars, alarm, slotVars, m_user_count, clockVars, batch, workqueue, worker>>

\* One round of the loop of tick.
Expire(t) ==
  /\ main.pc = "tick"
  /\ t \in AT!Expired
  /\ CbFunc(timer_fd[t], t, "expiring")
  /\ UNCHANGED <<alarm, slotVars, m_user_count, clockVars, batch, workqueue, worker>>

TickDone_Mut ==                 \* timer_handler does not call alarm
  /\ main.pc = "tick" /\ AT!Expired = {}
  /\ alarm' = "unset"
  /\ main' = [main EXCEPT !.pc = "wait"]
  /\ UNCHANGED <<kernelVars, slotVars, m_user_count, clockVars, batch, workqueue, worker>>

\* The end of timer_handler: alarm(TIMESLOT).
TickDone ==
  /\ main.pc = "tick" /\ AT!Expired = {}
  /\ alarm' = "set"
  /\ main' = [main EXCEPT !.pc = "wait"]
  /\ UNCHANGED <<kernelVars, slotVars, m_user_count, clockVars, batch, workqueue, worker>>
-----------------------------------------------------------------------------
(* A worker: threadpool<http_conn>::run and http_conn::process.            *)

At(w, pc) == worker[w].pc = pc
GoTo(w, pc, fd, reg) == worker' = [worker EXCEPT ![w] = [pc |-> pc, fd |-> fd, reg |-> reg]]

Take(w) ==
  /\ At(w, "idle") /\ workqueue # <<>>
  /\ workqueue' = Tail(workqueue)
  /\ GoTo(w, "process", Head(workqueue), 0)
  /\ UNCHANGED <<kernelVars, alarm, slotVars, m_user_count, clockVars, main, batch>>

\* process_read returns NO_REQUEST.
Incomplete(w) ==
  /\ At(w, "process")
  /\ epoll' = Modfd(m_sockfd[worker[w].fd], "in")
  /\ GoTo(w, "idle", NoFd, 0)
  /\ UNCHANGED <<socket, peer, unread, alarm, slotVars, m_user_count, clockVars,
                 main, batch, workqueue>>

\* process_read finds a request and do_request answers it.  From here on the
\* worker has its verdict, whatever init() does to the slot meanwhile.
ReadRequest(w) ==
  LET fd == worker[w].fd
  IN  /\ At(w, "process") /\ reading[fd] # None
      /\ sending' = [sending EXCEPT ![fd].who = reading[fd]]
      /\ GoTo(w, "write", fd, 0)
      /\ UNCHANGED <<kernelVars, alarm, m_sockfd, reading, m_user_count, clockVars,
                     main, batch, workqueue>>

\* process_write builds the response from what do_request left in the slot.
Respond(w) ==
  LET fd == worker[w].fd
  IN  /\ At(w, "write")
      /\ \E n \in 1 .. Chunks : sending' = [sending EXCEPT ![fd].n = n]
      /\ GoTo(w, "rearm", fd, 0)
      /\ UNCHANGED <<kernelVars, alarm, m_sockfd, reading, m_user_count, clockVars,
                     main, batch, workqueue>>

\* process_write returns false (NO_RESOURCE, or an empty file): close_conn
\* closes the descriptor, in a race with an accept that gets it back ...
CloseConn(w) ==
  LET fd == worker[w].fd
  IN  /\ WorkerCloses /\ At(w, "write")
      /\ IF m_sockfd[fd] # NoFd
           THEN Removefd(fd) /\ GoTo(w, "closed", fd, 0)
           ELSE UNCHANGED kernelVars /\ GoTo(w, "rearm", fd, 0)
      /\ UNCHANGED <<alarm, slotVars, m_user_count, clockVars, main, batch, workqueue>>

\* ... then clears m_sockfd and loads m_user_count ...
CloseConnLoad(w) ==
  /\ At(w, "closed")
  /\ m_sockfd' = [m_sockfd EXCEPT ![worker[w].fd] = NoFd]
  /\ GoTo(w, "decrement", worker[w].fd, m_user_count)
  /\ UNCHANGED <<kernelVars, alarm, reading, sending, m_user_count, clockVars,
                 main, batch, workqueue>>

\* ... and stores it.  The timer of the connection stays in the list.
CloseConnDone(w) ==
  /\ At(w, "decrement")
  /\ m_user_count' = worker[w].reg - 1
  /\ GoTo(w, "rearm", worker[w].fd, 0)
  /\ UNCHANGED <<kernelVars, alarm, slotVars, clockVars, main, batch, workqueue>>

\* The modfd at the end of process, which a closed connection reaches as well.
Rearm(w) ==
  /\ At(w, "rearm")
  /\ epoll' = Modfd(m_sockfd[worker[w].fd], "out")
  /\ GoTo(w, "idle", NoFd, 0)
  /\ UNCHANGED <<socket, peer, unread, alarm, slotVars, m_user_count, clockVars,
                 main, batch, workqueue>>
-----------------------------------------------------------------------------
Clients == \E c \in Conns : Connect(c) \/ Send(c) \/ HangUp(c)

MainThread ==
  \/ EpollWait \/ Accept \/ AcceptDone \/ Refuse \/ AcceptFails \/ CbFuncDone
  \/ HandleSignal \/ BatchDone \/ TickDone
  \/ \E fd \in Fds : \/ HandleHup(fd) \/ HandleIn(fd) \/ HandleInFails(fd)
                     \/ HandleOut(fd) \/ HandleOutAgain(fd) \/ HandleOutFails(fd)
  \/ \E t \in Conns : Expire(t)

Worker(w) ==
  \/ Take(w) \/ Incomplete(w) \/ ReadRequest(w) \/ Respond(w) \/ Rearm(w)
  \/ CloseConn(w) \/ CloseConnLoad(w) \/ CloseConnDone(w)

Next == Clients \/ Slot \/ MainThread \/ \E w \in Workers : Worker(w)

Spec == Init /\ [][Next]_vars

\* Every thread keeps running and time passes; clients owe the server nothing.
Fairness ==
  /\ WF_vars(MainThread)
  /\ WF_vars(Slot)
  /\ \A w \in Workers : WF_vars(Worker(w))

FairSpec == Spec /\ Fairness
-----------------------------------------------------------------------------
Pcs == {"wait", "dispatch", "accepted", "closing", "expiring", "tick"}
WorkerPcs == {"idle", "process", "write", "closed", "decrement", "rearm"}
Events == [fd : Fds \cup {listenfd, pipefd}, ev : {"in", "out", "hup"}]

TypeOK ==
  /\ socket \in [Fds -> Conns \cup {None}]
  /\ epoll \in [Fds -> {"none", "off", "in", "out"}]
  /\ peer \in [Conns -> {"away", "backlog", "open", "hup", "done"}]
  /\ unread \subseteq Conns
  /\ alarm \in {"set", "fired", "timeout"}
  /\ m_sockfd \in [Fds -> Fds \cup {NoFd}]
  /\ reading \in [Fds -> Conns \cup {None}]
  /\ sending \in [Fds -> [who : Conns \cup {None}, n : 0 .. Chunks]]
  /\ m_user_count \in Int
  /\ users_timer \in [Fds -> Conns \cup {None}]
  /\ timer_fd \in [Conns -> Fds \cup {NoFd}]
  /\ timers \subseteq Conns
  /\ left \in [Conns -> 0 .. Life]
  /\ main \in [pc : Pcs, fd : Fds \cup {NoFd}, timer : Conns \cup {None}, reg : Int]
  /\ batch \subseteq Events
  /\ workqueue \in Seq(Fds)
  /\ worker \in [Workers -> [pc : WorkerPcs, fd : Fds \cup {NoFd}, reg : Int]]

(* Whatever the workers do and however late they are, the main thread      *)
(* never follows users_timer[fd].timer to a timer that tick or del_timer   *)
(* has freed: while a client descriptor is registered with epoll or has an *)
(* event in the batch, its timer is in the list (main.cpp:286, 335, 370).  *)
NoDanglingTimer ==
  \A fd \in Fds :
    (epoll[fd] # "none" /\ ~(main.pc = "accepted" /\ main.fd = fd))
      \/ (\E e \in batch : e.fd = fd)
    => users_timer[fd] \in timers

(* No descriptor leaks: every open connection has its own timer in the     *)
(* list, bound to the descriptor it is open on, even after its descriptor  *)
(* number was closed by a worker and given out again (main.cpp:226-245).   *)
OpenHasTimer ==
  \A fd \in Fds :
    socket[fd] # None /\ ~(main.pc = "accepted" /\ main.fd = fd)
    => /\ users_timer[fd] = socket[fd]
       /\ socket[fd] \in timers
       /\ timer_fd[socket[fd]] = fd

(* m_user_count counts the open connections, as the comment of close_conn  *)
(* has it ("closing a connection takes one off the number of clients",     *)
(* http_conn.cpp:124), whenever no thread is between its load and its      *)
(* store.  close_conn in a worker leaves the timer, whose callback takes   *)
(* one off for the same connection again, and its -- is a load and a store *)
(* that the main thread's ++ and -- may fall between.                      *)
UserCountExact ==
  main.pc \in {"wait", "dispatch", "tick"}
    /\ (\A w \in Workers : worker[w].pc \notin {"closed", "decrement"})
  => m_user_count = Cardinality({fd \in Fds : socket[fd] # None})

(* The timer callback of a tick closes the inactive connection it belongs  *)
(* to ("remove the registration of an inactive connection", main.cpp:83),  *)
(* or finds it closed, and never closes another connection that has got    *)
(* the descriptor since.                                                   *)
TickClosesItsOwn ==
  [][main.pc = "tick" /\ main'.pc = "expiring"
     => socket[main'.fd] \in {main'.timer, None}]_vars

(* EPOLLONESHOT hands each connection to one thread at a time: it is armed,*)
(* or has one event in the batch, or waits in the queue once, or is with   *)
(* one worker, and never two of these (http_conn.cpp:93, main.cpp:343).    *)
OneOwner ==
  \A fd \in Fds :
    (IF epoll[fd] \in {"in", "out"} THEN 1 ELSE 0)
      + Cardinality({e \in batch : e.fd = fd})
      + Cardinality({i \in DOMAIN workqueue : workqueue[i] = fd})
      + Cardinality({w \in Workers : worker[w].fd = fd}) <= 1

(* A client is sent the response to its own request: what write is about   *)
(* to send on a descriptor answers a request of the connection open on it. *)
AnswersOwnRequest ==
  \A fd \in Fds :
    socket[fd] # None /\ sending[fd].n > 0
      /\ (epoll[fd] = "out" \/ [fd |-> fd, ev |-> "out"] \in batch)
    => sending[fd].who = socket[fd]

(* A client that stays silent is disconnected, although its timer is the   *)
(* only thing that can do it: SIGALRM, the pipe, the timeout flag and the  *)
(* tick hand the alarm on forever (main.cpp:74-78, 403-407).               *)
SilentIsClosed ==
  \A c \in Conns : peer[c] = "open" ~> (peer[c] = "done" \/ c \in unread)

(* A disarmed registration is armed again or closed in the end, also when  *)
(* append refused the request and no worker ever saw it (main.cpp:343).    *)
DisarmedIsSettled ==
  \A fd \in Fds : epoll[fd] = "off" ~> epoll[fd] # "off"

=============================================================================
