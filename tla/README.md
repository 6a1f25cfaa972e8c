# A TLA+ development for webservnote

webservnote is a small HTTP server in C++ (about 2300 lines): one main thread
with an `epoll` loop, a pool of worker threads that parse requests and build
responses, a pool of MySQL connections for registration and login, a sorted list
of connection timers driven by `SIGALRM`, and a log. The repository has no tests
and an empty README; the reference for everything below is the code with its
comments.

## 1. The system

### Components

| component | state | operations | what makes it correct |
|---|---|---|---|
| event loop and connection life cycle: `main.cpp`, `process`, `close_conn`, `init`, `read_once`, `write` of `http/http_conn.cpp` | the kernel's descriptor table and epoll registrations; `users[fd]` (one `http_conn` per descriptor); `m_user_count`; `users_timer[fd]`; the `timeout` flag and the signal pipe | accept, hang-up, signal, read, write, tick (main thread); process (workers) | one thread at a time has a slot; a descriptor is closed once and by someone entitled to; every open connection has a timer; the count is right; silent clients are disconnected |
| timer container: `timer/lst_timer.h` | `head`, `tail`, and `prev`, `next`, `expire` of each node | `add_timer`, `adjust_timer`, `del_timer`, `tick` | no node lost, links intact, sorted; a tick removes exactly what is due |
| thread pool: `threadpool/threadpool.h`, `lock/locker.h` | `m_workqueue`, mutex, semaphore, `m_stop` | `append`, `run`, destructor | bounded FIFO; nothing lost, duplicated or left lying |
| MySQL connection pool: `cgimysql/` | `connList`, mutex, semaphore | `init`, `GetConnection`, `ReleaseConnection`, `connectionRAII`, `DestroyPool` | a connection has one user, none is lost; who asks gets one |
| HTTP request parser: `process_read` ... `do_request` | `m_read_buf` with `m_read_idx`, `m_checked_idx`, `m_start_line`; `m_check_state`; the parsed fields | `parse_line`, `parse_request_line`, `parse_headers`, `parse_content`, `do_request` | the result does not depend on how the bytes were split; nothing of an earlier request shows |
| HTTP response writer: `process_write`, `write` | `m_write_buf`, two iovecs, `bytes_to_send`, `bytes_have_send`, the mapped file | `add_*`, `process_write`, `write`, `unmap` | the bytes sent are the response, whatever writev takes at a time; the file is unmapped |
| registration and login: `do_request`, `initmysql_result` | the `users` map with `m_lock`; the `user` table | register, log in | map and table agree; a name is registered once |
| log: `log/log.cpp`, `log/block_queue.h` | ring buffer with mutex and condition variable; open file, day, line count | `push`, `pop`, `write_log`, the writer thread | FIFO, no line lost, rotation |

### Interaction

The main thread owns the timers and the epoll loop. On `EPOLLIN` it reads into
`users[fd]` and hands a pointer to the slot to the pool (`append`); a worker
borrows a MySQL connection for the time of `process` (`connectionRAII` in
`run`), parses, builds the response in the slot, and hands the connection back
by re-arming the descriptor (`modfd`), for more input or for output. The main
thread then writes. What separates the threads is `EPOLLONESHOT` alone: a
reported descriptor is disarmed until somebody calls `modfd`. The timer of a
connection is postponed on each read and write; `SIGALRM` every `TIMESLOT`
seconds sends a byte through a pipe, the loop sets `timeout`, and after the batch
`timer_handler` runs `tick`, which closes expired connections with `cb_func`, and
calls `alarm` again.

### What is hard

- The main thread and the workers may both close a connection: `cb_func` from
  the timers and the error paths, `close_conn` when `process_write` fails.
  Neither tells the other: `cb_func` leaves `m_sockfd`, `close_conn` leaves the timer.
- Descriptor numbers are reused at once, and slots and `users_timer` entries with them.
- `m_user_count` is a plain `int` changed by several threads.
- A tick does not ask whether the connection's request is queued or in process.
- `append` may refuse, and its result is ignored.
- `sem_wait` may be interrupted by `SIGALRM` (installed without `SA_RESTART`,
  `main.cpp:178`), and its result is ignored.
- `GetConnection` looks at the list before it has the lock or the semaphore.
- Wall clock time in the timers.

`PROJECT.json` lists these and the others line by line under `hazards`, with the
properties that watch them.

## 2. The modules

    ActiveTimers <---implements--- TimerList          WorkQueue <---implements--- ThreadPool
         ^  (its actions are used by)                     ^---implements--- Log --extends--> BlockQueue
       Server
                                                      SqlPool <---extends, implements--- Registration
    HttpParse    HttpWrite

`Server` has the life cycle of all connections and leaves open what the bytes are.
`HttpParse` and `HttpWrite` have one slot, which serves one connection after
another, with the bytes: what `process_read` makes of the input, and what `write`
makes of the output. They are separate because nothing they have is shared but
`init()` and `m_linger`: `process_write` gets the result of `process_read` as an
argument. `Registration` has the forms of `do_request` in the threads of
`SqlPool`, which it extends. `Log` extends `BlockQueue` with the writers and
the files.

Each `MC*` module only extends its specification and adds symmetry sets and
constant values for TLC; `ThreadPool`, `HttpWrite` and `Registration`, whose runs are also
those of `SqlPool`, need none. Each `*Proofs`
module extends the module it is named after.

### Server

The connection life cycle. `socket`, `epoll`, `peer` and `unread` are the kernel
and the clients; `m_sockfd`, `reading`, `sending` the slots; `users_timer`,
`timer_fd`, `timers`, `left` the timers (with the actions of `ActiveTimers`);
`main` is where the main thread is, `batch` the events of the last `epoll_wait`,
`workqueue` and `worker` the pool.

| actions | code |
|---|---|
| `EpollWait`, `BatchDone` | the loop, `main.cpp:193-203, 401-407` |
| `Accept`, `AcceptDone`, `Refuse`, `AcceptFails` | `main.cpp:206-246` with `http_conn::init` |
| `HandleHup` | `main.cpp:283-293` |
| `HandleSignal`, `Slot` | `main.cpp:297-327`, `sig_handler` and the time that passes |
| `HandleIn`, `HandleInFails` | `main.cpp:332-365` with `read_once`, `append`, `adjust_timer` |
| `HandleOut`, `HandleOutAgain`, `HandleOutFails` | `main.cpp:368-396` with `write` |
| `CbFuncDone` (second half of each close) | `cb_func` and `del_timer` |
| `Expire`, `TickDone` | `tick` and `timer_handler` |
| `Take`, `Incomplete`, `ReadRequest`, `Respond`, `Rearm` | `run` and `process`: the bytes read and the verdict, then the response from what is in the slot by then |
| `CloseConn`, `CloseConnLoad`, `CloseConnDone` | `close_conn` |

Grain. A main-thread handler is one step, except that `m_user_count++` and `--`
are a load and a store, so that a handler that changes the count is two steps.
A worker's step ends wherever another thread may notice: between `process_read` and
`process_write`, where the slot may be initialised for another client, and `close_conn` is cut
into closing, clearing `m_sockfd` with the load, and the store.

Abstractions. What the bytes are is left out: a slot knows *whose* bytes it
holds, and a response *whose* request it answers and how many writes are left.
The result of `process_read` and `process_write` is a nondeterministic choice.
Time is counted in `TIMESLOT`s; a connection's timer has `Life` of them left.
The pool is a FIFO with the bound of `append`, which `ThreadPool` is shown to
implement. `events` come in any order. Every number of events fits one batch.

Parameters that are assumptions. `WorkerCloses` says whether `process_write` may
return false (it does for a missing or an empty file). `Prompt` says that time
does not pass the last slot of a connection while its request is queued or in
process: with `Life` slots of five seconds the code relies on it without
enforcing it. Where a run sets `WorkerCloses = FALSE` or `Prompt = TRUE`, that
is because the property is wrong without it (`server_stale_timer` and
`server_user_count` have the first TRUE), and the run says what the code guarantees under that condition.

### ActiveTimers and TimerList

`ActiveTimers` is a set of timers with the time each has left. `TimerList` has
the pointers, with one definition per function of `lst_timer.h` (`InsertAfter`
the private `add_timer`, `Insert` the public one, `Reposition` `adjust_timer`,
`Unlink` `del_timer`, `Due` and `AfterTick` the loop of `tick`). The refinement
mapping sends a node to `expire - now`, 0 when it is due. `tick` leaves `tail` at
a freed node when it empties the list; the model keeps that, and `ListIntact`
shows that it is never read.

### ThreadPool and WorkQueue

One action per step of `append` and `run` between two operations on the mutex or
the semaphore. `Interrupted` is `sem_wait` ended by a signal. `WorkQueue` is the
promise: put, get in FIFO order, finish, and the fairness that accepted requests
are begun while the pool lives.

### SqlPool

`MaxConn` is the number of connections `init` was asked for, chosen initially.
It has no run of its own: `Registration` extends it, and its run checks both.
`CheckSize` is the unlocked `connList.size()`; `Wait`/`Interrupted` the
semaphore; `Pop` and `Push` the two critical sections; `Post` the post after the
unlock. `front()` of an empty list is undefined behaviour: `PopEmpty` ends the
thread in a state the properties see.

### HttpParse

One character of the model is the text of a request line or header line (its
kind, with the page or the length as argument), a CR, an LF, or a byte of a body,
so that `Recv(n)` may split the input anywhere that matters to `parse_line`: between lines, between CR and LF,
inside a body. The variables of the slot have the names of the code;
`m_url` is the character after the last `/`, `m_string` a position. `at` says who has the
slot and where `process_read` is.

| actions | code |
|---|---|
| `Accept`, `KeepAlive` (with `Reset`), `Close`, `Drop` | `init()` after accept and after a response; the closes of the main thread |
| `Recv` | `read_once`; a read that would not fit closes the connection (`Drop`) |
| `NextLine`, `NoLine`, `NoLineInBody` | the condition of the `while`, with `parse_line` where it is called |
| `RequestLine`, `Header`, `EmptyLine`, `Content`, `ContentAstray`, `ContentOpen` | the body of the `while`: `parse_request_line`, `parse_headers`, `parse_content` |
| `DoRequest`, `Page`, `Separates`, `CString` | `do_request`: the page, and for the forms the name and the password that the two scans from `m_string` find |

`m_method`, `m_version` and `m_host` are never read again and left out. `Expected` says
what a request asks for without a parser, and `AnswerIsRight` compares.

Undefined behaviour. Where the code reads or writes what no property can say
anything about, the model goes to `at = "astray"` and stops. That is so for a url `http://host` without a `/`
(`strchr` gives NULL, `http_conn.cpp:359, 364`), for a length that overflows an
int, for a negative one that sends the NUL of line 431 in front of the buffer or into the
request line, and for a form whose name or password the scans of lines 468-475 do
not end inside the buffer and the arrays (no `&`, `m_string` never set, 100 characters or more).
Two cases are not astray, because it is known what happens. A body that fills the
buffer has its NUL written one behind `m_read_buf`, which is the low byte of `m_read_idx`
(`EndsBehind`; `http_conn.h:80-82`): `m_read_idx` is then `READ_BUFFER_SIZE`, a multiple of 256 (`Byte`), so that the byte is 0
before and after. And a form without a body scans from where `m_string` points, which `init()`
does not reset but in a buffer that `init()` has cleared: it finds no `&` or one in
its own headers.

Assumptions. A client sends its next request after the answer (no pipelining:
`init()` after a response empties the buffer, so that a second request in it is
lost; the code has no notion of it). `Positions` and `ParseEnds` ask nothing else of
clients. The other properties are about clients that are truthful about their bodies
(`ClientsAreTruthful`, of which TLC is told for the requests of the runs): a request line that may end in CR or LF
alone, any headers, of which the last `Content-Length` is that of the body, or one that
no body can have, and no NUL in a body. Forms need not have a body.
`BodyInOnePiece`: recv never returns a part of a body; see the violations.

### HttpWrite

A byte of a response is its place in header or file, so that "the right bytes in
the right order" can be said without any content. Header lengths are
arbitrary (what the `add_` functions write), file sizes from a set that has 0.
`mapped` is what munmap has not released. `MapFile` may fail at any request, by open or
by mmap, and the response goes on as if it had not: its header can be sent and none of its file (`Readable`),
with which `write` fails and the connection is closed.

| actions | code |
|---|---|
| `RespondFile`, `RespondError`, `NoResponse` | the end of `do_request` (stat, mmap) with `process_write` and the end of `process` |
| `Writable`, `Writev`, `Again`, `WriteFails`, `Sent` | `write`; `Writev` is one turn of its loop, `Advance` the iovecs after it |
| `Unmap` | `unmap`: munmap of `m_file_address` with the `st_size` of the last stat |
| `Abort`, `HangUp` | `cb_func` in the middle of a response, or between two |

Assumption. `CutsHeaderOnce`: writev ends inside the header once at most per response. At the
second time `write` compares and subtracts with `m_iv[0].iov_len`, which it has already
shortened (`http_conn.cpp:779, 787`), and skips or repeats part of the response.
Headers are about 70 bytes, so a kernel that takes any of it has room for it nearly always.

### SqlPool and Registration

`Registration`'s threads are workers that have come back from
`connectionRAII`'s constructor, in `SqlPool`'s state "use". `users` is the map, `user` the table.
`Find` and `Login` look into the map without `m_lock`: while another
thread is in `users.insert` they may miss a name that is there. `Query` is the INSERT
under `m_lock`, which MySQL refuses for a name that is a key already, or for any
other reason (`MaxFailures` bounds these); `Insert` is `users.insert` with the
unlock and the page by the INSERT's result. `Load` is `initmysql_result`: a
restart would set the map to `Load(user)`, and `RestartKeepsAccounts` compares
the two in every state rather than restarting.

Assumption. `UniqueNames`: username is a key of the table. The schema is not in
the repository. Without a key, two racing registrations are both told they
succeeded and one of them cannot log in.

### BlockQueue and Log

`push`, `pop` and `full` are one critical section each; `popWaits` is the part
of `pop` up to the wait, `Spurious` a wait that ends by itself. `Log` follows a
line through `write_log`: the time (`gettimeofday`, `localtime`, `CopyTime`, with the buffer
of `localtime` shared by all threads), the count and the choice of the file
(`Count`), `full()` with the formatting (`Format`), then `Push` or `Fputs`, and `flush`. What a
stream may still have in its buffer (`buffered`) is kept with its file: `fflush` empties that of
the open file. `m_is_async`
is chosen initially: `main.cpp:23` compiles the synchronous log, `main.cpp:110`
has the asynchronous one with a queue of 8. A file is its day and its number.
(`main.cpp` passes the name "ServerLog", without a `/`, so that `dir_name` and
`log_name` stay empty and the files opened later are named by the day alone,
`log.cpp:57-61, 134`.)

The refinement mapping sends the circular array to the sequence it stands for
(`Content`) and the line in the thread's hand to the work of `WorkQueue`'s only worker.

## 3. The runs

| run | asks | bounds | result |
|---|---|---|---|
| server_live | `NoDanglingTimer`, `OpenHasTimer`, `SilentIsClosed`, `DisarmedIsSettled` with everything allowed | 2 descriptors, 2 connections, 1 worker, queue of 1, `Life` 1, fairness | holds, 0.30 M states |
| server_careful | `TypeOK`, `TickClosesItsOwn`, `OneOwner`, `AnswersOwnRequest` if workers do not close and requests are prompt | 3 descriptors and `MAX_FD` = 2, 3 connections, 2 workers, responses of 2 writes, `Life` 2 | holds, 1.7 M |
| server_user_count | `UserCountExact` if workers close | 1 descriptor, 1 connection, 1 worker | violated |
| server_stale_timer | `TickClosesItsOwn` with everything allowed | 1 descriptor, 2 connections, 1 worker | violated |
| timer_list | `ListIntact`, `Ascending`, refinement of `ActiveTimers` | 4 timers, 2 delays, clock up to 5 | holds, 28 K |
| thread_pool | `TypeOK`, `NoLostWakeup`, refinement of `WorkQueue` with its liveness | 3 workers, queue of 2, 4 appends | holds, 30 K |
| http_parse | `Positions`, `AnswerIsRight`, `CredsAreOwn`, `CompleteIsAnswered`, `NothingLeftOver`, `ParseEnds` | 17 requests in any order, buffer of 14, any splitting, bodies in one piece | holds, 3.3 K |
| http_body_in_pieces | `CompleteIsAnswered` with bodies split | the same requests | violated |
| http_write | `TypeOK`, `RestIsDescribed`, `SentInOrder`, `UnmapsItsOwn`, `LeaksAreAborts`, `WriteEnds` | headers of 1 to 3 bytes, files of 0 to 2, failing maps, 2 aborts, header cut once | holds, 68 K |
| registration | `FormsTypeOK`, `RegisteredCanLogIn`, `RestartKeepsAccounts`, and of `SqlPool` `OneUser`, `ReserveCounts`, `GetsConnection`, `WaiterIsServed` | 2 threads, 1 or 2 connections, 1 name, 2 passwords, 3 forms, 1 failing INSERT, 2 interrupts | holds, 0.32 M |
| registration_failed | `WelcomeIsInTable` | 1 thread, 1 failing INSERT | violated |
| log | `TypeOK`, `EachLineOnce`, `OrderKept`, `FilesAreSplit`, `FlushedIsInFile`, `StaysOnToday`, refinement of `WorkQueue` with its liveness | 2 writers of 2 lines, queue of 2, files of 2 lines, 1 midnight, both variants | holds, 0.55 M |

Why the bounds are enough to be interesting. Three connections, of
which `MAX_FD` lets two be open, make reuse of a descriptor certain while another
connection is open; a queue of one makes `append` refuse as soon as two requests meet; two
workers and the main thread are all the parties a slot can have; a third
descriptor makes `Refuse` possible. Four timers reach every case of the relinking code
(head, inside, tail, only node). A connection may send any number of requests;
that a connection is used once bounds the runs. `MaxAppends`, `MaxInterrupts` and
`MaxTime` bound the counters of the small modules. The buffer of `http_parse` is
filled exactly by a form, whose NUL goes behind it, and too small for another request; `Byte` is
the size of the buffer as 256 divides 2048, and a name has one character at most so that one is too long. The requests are every
branch of the parser, malformed lines, absurd lengths and forms without a body included, and follow one another in any
order on the slot. In `http_write` three bytes of header and two of file let writev end
before, at and behind every boundary. One name is enough for `registration`, whose races are about one name;
three forms are two registrations and a login. Two threads with one connection have one of
them wait, be interrupted and find the list empty; with two none waits, and the interrupts are to no effect (`GetsConnection`, `WaiterIsServed`). Two writers, whose four lines exceed
queue and file, meet midnight between any two steps. The named bounds of the code
(65536 descriptors, 10000 requests, 8 threads, 8 connections) are parameters.

Deadlock is checked in the runs of `Server`, `TimerList` and `HttpWrite`. It is
off where the system of the run really stops: the thread pool
after its last append or its destruction, a parser that has gone astray, threads that popped an empty list of
connections or have served the last form, and the log after the last line.

Fairness. `Server`: weak fairness of the main thread as a whole, of each
worker as a whole, and of the passing of time; none for clients, and none
for the choice among a thread's actions. In `DisarmedIsSettled` it is time that
settles a refused request: the property is about the timers, not the pool.
`ThreadPool`: weak fairness of the main thread's `append` and of each worker; no
fairness of mutex or semaphore, no interrupts, no destruction. `Registration`: weak
fairness of a waiting thread, of the pop, of serving a form and of returning, which releases the connection; asking is not fair.
`HttpParse` and `HttpWrite`: a thread that is in `process_read` or `write` goes
on; clients and the kernel need do nothing. `WriteEnds` holds because
`Writev` sends something whenever something is described. `Log`: the writer
thread pops and writes as long as it can; a wait need not end by itself.

### Violations

1. **server_stale_timer**. A worker closes a connection; its timer stays in the list.
   The descriptor is given to the next client. The old timer expires and
   `cb_func` closes the new client's connection. (That connection's own timer is
   in the list too: `OpenHasTimer` holds.)
2. **server_user_count**. A worker closes a connection and takes one off `m_user_count`. Its
   timer expires, and `cb_func` takes one off for it again. The comment of `close_conn` says
   that closing a connection takes one off. (`++` and `--` being loads and stores of a plain
   `int`, the count may also be lost between two threads; admission, `main.cpp:220`, relies on it.)
3. **http_body_in_pieces**. A part of a body arrives. `process_read` sets
   `line_status` to `LINE_OPEN` "to avoid entering the loop again", but with that
   the condition of the `while` calls `parse_line`, which moves `m_checked_idx`
   over the part. From then on `parse_content` waits for `m_content_length` bytes
   behind it: the request is complete and is never answered. `ParseEnds` holds all the
   same: the loop is left, if not in the way the comment says.
4. **registration_failed**. `users.insert` follows the INSERT whatever its result.
   A user who is told `registerError.html` can log in until the next restart, although
   the comment says that a login is looked up in the table.

### Known behaviours outside the runs

These follow from the code directly; the models have them or exclude them by a named assumption.

- `Ascending` fails when the wall clock is set back (`ClockSteps <- AdjustableClock`).
- The pool's destructor wakes no worker that waits; the process exits right afterwards.
- `GetConnection` returns `NULL` from an empty pool at once, although its comment
  says it waits; with 8 threads and 8 connections this cannot happen (`GetsConnection`).
  If it happened, `QueryNull` of `Registration` is where it would bite.
- The iovecs go wrong when the header is cut twice (`CutsHeaderOnce`).
- A line that is malformed (LF or CR alone) is never answered: `NoLine` covers `LINE_BAD`.
- A form without a body is answered from what `m_string` points to: nothing, its own headers, or undefined behaviour (`DoRequest`).
- A file that cannot be opened or mapped is described all the same; `write` fails and closes (`Readable`).
- A response broken off by `cb_func` leaves its file mapped; `LeaksAreAborts` says that nothing else does,
  for one file per abort.
- Lines in the asynchronous log's queue are lost at exit; nobody joins the thread.

## 4. The proofs

All by TLAPS, for every value of the constants that satisfies the named
assumptions of the modules.

**ServerProofs**: `ServerTypeCorrect`, `OpenAlwaysHasTimer`, `NoTimerDangles`,
`TicksCloseTheirOwn`, `EachHasOneOwner`, `ResponsesReachTheirClient`,
`TimersAreUsedAsPromised`, `PoolIsUsedAsPromised`.
`NoDanglingTimer` is not inductive. The invariant `IInv` is `Typed` and
`Ownership`, which says: no connection is open on two descriptors; a
connection not yet accepted has no timer; a registered descriptor is open; a
timer's back pointer `timer_fd` agrees with `users_timer`; a connection being accepted
or closed has its socket in a known state; a descriptor has at most one event in
the batch, and one with an event has its timer in the list. The last is the heart: events are
handled one by one, and handling one may close a descriptor, but only the
descriptor's own event can remove its timer before the batch is through, because
ticks come after the batch and workers never touch timers. These three hold with
`WorkerCloses` true and `Prompt` false, that is, with every race of the code.
`TicksCloseTheirOwn` assumes `~WorkerCloses`, as it must (see the
violations), but nothing about `Prompt`: here the proof goes beyond the
run `server_careful`. Its invariant `Careful` adds that every timer in the list
belongs to an open connection, except the one `cb_func` is about to delete.

`EachHasOneOwner` and `ResponsesReachTheirClient` assume `~WorkerCloses` and `Prompt`: a worker
that is late still has the slot when its descriptor has been closed and given
out again. `OneOwner` counts events, queue entries and workers; the invariant
`OInv` has predicates in their place (armed, pending, queued, held: one at most
of them, and each of the last three once), and three facts that keep them apart.
A descriptor with an event, in the queue or with a worker is open, and its
connection is the one whose bytes the slot has. While it is queued or held its
timer has time left (this is what `Prompt` gives), so that no tick closes it. And only
`EPOLLIN` and the worker's `modfd` move it from one predicate to the next.

`TimersAreUsedAsPromised` and `PoolIsUsedAsPromised` close the composition: `Server` implements
`ActiveTimers` and `WorkQueue` on its own variables, with every race of the code, so
that what `TimerList` and `ThreadPool` are shown to implement is what `Server` relies
on, and is called as they expect. For the timers this takes that a connection being accepted has no timer
yet, and that the timer which a handler or a tick deletes is in the list
(`ClosesListed`): no timer is freed twice.

**TimerListProofs**: all of `TimerList`. `ListStaysIntact` for any clock, also one that is set
back; `ListStaysAscending` if it never is, by any steps; `ListImplementsContainer` if it goes on
a unit at a time, as in `ActiveTimers`. What a traversal visits is defined by
recursion, and the prover has no induction. The invariant therefore says that
there is an order, an injection from `1 .. n` to the timers of the list, which the
pointers link (`Links`); each function of `lst_timer.h` is shown to do to the order what
it does to the list: insert a position, remove one, move one, drop the
first ones. Where a traversal stops is shown by the least position at which it
could be wrong (a set of numbers that is not empty has a least element), not by induction.

**ThreadPoolProofs**: `PoolTypeCorrect`, `NoWakeupLost`, `PoolRefinesQueue`. The
counting invariant is `NoLostWakeup` itself, strengthened by who holds the
mutex; each action moves one unit from one of its terms to another. The
refinement is the safety part, `Spec => Queue!Spec`; its liveness is checked by TLC.

**SqlPoolProofs**: `ConnectionHasOneUser`, `SemaphoreDrift`,
`EveryThreadGetsConnection`. The last rests on a counting argument: with the
connections partitioned between list and holders, and not more threads than
connections, a thread that holds none leaves at least one in the list. It
holds in spite of interrupted waits.

**HttpParseProofs**: all safety of `HttpParse`, for any buffer, any set of
requests, with any number of headers and bodies of any length, and any splitting. `ParserStaysInBuffer` holds for
clients that lie about their bodies, too. `AnswersAreRight`, `CredentialsAreOwn`, `NothingIsLeftOver` and
`CompleteRequestsAreAnswered` assume `ClientsAreTruthful`; the first three
include bodies in pieces, the last assumes
`BodyInOnePiece`, as it must (`http_body_in_pieces`). The invariant `PInv` says where in the
text of its request a slot is: in line `k` (`InLine`), the fields being what the
lines before `k` make of them (`Scanned`), or in the body (`InBody`), or stuck in a
malformed line; what has been received and not looked at is in the buffer unchanged, and behind
it the buffer is empty; a slot without a request is as `init()` leaves it or
closed. The lemma `GoodText` says what is at each position of a request's text,
`Scan` where `parse_line` stops, `LengthIsRead` that `m_content_length` is the length of the
body after the headers or one no body can have, `CredsAreBody` that the two strings `do_request` reads divide the body at
its first `&`, and `Buffered` that every character in the buffer was sent in the request at hand.

**HttpWriteProofs**: all safety of `HttpWrite`. `WriterTypeCorrect`, `IovecsDescribeRest`
and `ClientGetsResponse` assume `CutsHeaderOnce`; the invariant `Shape` is the types, the
iovecs and "a response begins with nothing sent", and `Got` says byte by byte
what the client has. `WriterUnmapsItsOwn` and `WriterLeaksAreAborts` hold for any
splitting and whether or not files can be mapped: `Maps` bounds the number of mappings by the aborts and the one file
that is being sent, and says that this one is where `unmap` will look for it.

**RegistrationProofs**: `FormsRefinePool` shows that every step of `Registration` is one
of `SqlPool` or leaves it unchanged, so that `OneUser` and `GetsConnection` carry over
(`WorkersShareNoConnection`). `FormsTypeCorrect`. `RegisteredLogsIn` and `AccountsOutliveRestart`
rest on an invariant about `m_lock`: only its holder is between INSERT and
insert, so that a name is in the table and not in the map for one thread at
most, and `users.insert` cannot meet a name whose INSERT has succeeded. They need
`UniqueNames`, which the properties state.

**LogProofs**: all safety of `Log`, for any number of writers and lines, any queue and
any `m_split_lines`. `LogTypeCorrect`, `LogStaysOnToday`. `FlushedLinesAreInFile` rests on
`OpenHasAll`: what is still in a buffer is in that of the open file, since `write_log` flushes a file before it opens another. `LogRefinesQueue`, the
safety part of the refinement: the sequence `Content` of the circular array gains
at its end by `push` and loses its head by `pop`, which is arithmetic modulo
`m_max_size`. `EachLineIsSomewhereOnce`: the invariant counts, for each line, its places in the array,
the files, the thread's hand and among the lost (`Tally`); the sum is one for a line that has been logged
and none before, and lemmas say what appending and taking the
head do to such a count. `LinesKeepTheirOrder`: with the queue, a thread's lines in the array
come after those the writer thread has in hand, and these after those in the
files, except those it wrote itself. `FilesGetTheirShare`: while `today` is 0,
`SplitNow` ties `m_count` to the file in use and the lines written or under way, and says that the
lines of earlier files were enough to open this one; the rest is division.

Only model-checked: liveness, that is `SilentIsClosed`, `DisarmedIsSettled`, `WaiterIsServed`,
`ParseEnds`, `WriteEnds` and the fairness in `ImplementsWorkQueue`, whose safety part is proved
(`PoolRefinesQueue`, `LogRefinesQueue`): fairness and ENABLED are outside the prover's reach.
Every safety property of a passing run is a theorem.

## 5. Not modelled, and the plan

Done: Server, TimerList, ThreadPool, SqlPool, HttpParse, HttpWrite, Registration,
BlockQueue and Log, with their proofs as above.

Left out, with the reason:

- SIGTERM and what follows the loop in `main`: the process ends right afterwards;
  that `delete[] users` runs beside detached workers can be seen from the code
  and needs no model.
- `DestroyPool`, the destructors of the log, the queue, the timer list: static
  destructors at exit.
- `clear`, `empty`, `front`, `back`, `size`, `max_size` and the `pop` with a timeout of
  `block_queue`, `cond::timewait` and `cond::signal`: nothing calls them
  ("not used in the project", `block_queue.h:184`). Reading them: `front` returns
  the item popped last, not the next one, and the timeout's milliseconds are
  multiplied by 1000 where nanoseconds are meant.
- The edge-triggered variants (`connfdET`, `listenfdET`), which the build does not compile.
- Formatting and wording of pages, headers and log lines (among them
  "keep-live" in `add_linger`); thread creation failures, which end the
  program; MySQL itself; the static pages.

Next theorems: that `HttpParse` and `HttpWrite` have the slot as `Server` says (a response
is of the request that was read, whole or broken off), stated over the
variables they share with it.
