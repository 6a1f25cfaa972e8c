-------------------------------- MODULE Log ----------------------------------
(***************************************************************************)
(* log/log.h and log/log.cpp: threads call LOG_x, that is write_log, and   *)
(* then flush.  write_log counts the line under m_mutex and may open       *)
(* another file, formats it under m_mutex again, and then either pushes it *)
(* onto the block_queue, from which flush_log_thread writes it, or writes  *)
(* it itself.  What is done between a lock and its unlock is one step.     *)
(*                                                                         *)
(* A line is who wrote it and that thread's how-manieth it is; a file is   *)
(* the day in its name and the number after it, 0 for none.                *)
(***************************************************************************)
EXTENDS BlockQueue, FiniteSets

CONSTANTS
  Writers,        \* the threads that log
  flusher,        \* flush_log_thread
  m_split_lines,  \* lines to a file
  MaxLines,       \* bound: lines of a writer
  MaxDay          \* bound: days

ASSUME LogAssumption ==
  /\ IsFiniteSet(Writers) /\ flusher \notin Writers
  /\ Consumers = {flusher}
  /\ Items = [by : Writers, no : 1 .. MaxLines]
  /\ m_split_lines \in Nat \ {0}
  /\ MaxLines \in Nat /\ MaxDay \in Nat

VARIABLES
  m_is_async,
  m_count, m_today,
  m_fp,         \* the file that is open
  today,        \* the wall clock
  sys_tm,       \* localtime's buffer, one for all threads
  writer,       \* each writer: where it is, its lines so far, now and my_tm
  single_log,   \* the line flush_log_thread has popped
  written,      \* every line put into a file, in order: line, file, by whom
  buffered,     \* of these, what may still be in the buffer of its file's stream
  dropped       \* the lines push refused

logVars == <<m_count, m_today, m_fp>>
fileVars == <<written, buffered>>
vars == <<queueVars, m_is_async, logVars, today, sys_tm, writer, single_log, fileVars, dropped>>

File(day, part) == [day |-> day, part |-> part]

\* Log::init, with max_queue_size 0 (SYNLOG) or at least 1 (ASYNLOG).
Init ==
  /\ QueueInit
  /\ m_is_async \in BOOLEAN
  /\ m_count = 0 /\ m_today = 0 /\ m_fp = File(0, 0)
  /\ today = 0 /\ sys_tm = 0
  /\ writer = [w \in Writers |-> [pc |-> "out", no |-> 0, now |-> 0, my_tm |-> 0]]
  /\ single_log = NULL
  /\ written = <<>> /\ buffered = {} /\ dropped = {}

At(w, pc) == writer[w].pc = pc
GoTo(w, pc) == writer' = [writer EXCEPT ![w].pc = pc]
LineOf(w) == [by |-> w, no |-> writer[w].no]

Midnight ==
  /\ today < MaxDay
  /\ today' = today + 1
  /\ UNCHANGED <<queueVars, m_is_async, logVars, sys_tm, writer, single_log, fileVars, dropped>>
-----------------------------------------------------------------------------
(* write_log: the time.                                                    *)

gettimeofday(w) ==
  /\ At(w, "out") \/ At(w, "unflushed")
  /\ writer[w].no < MaxLines
  /\ writer' = [writer EXCEPT ![w].pc = "localtime", ![w].no = @ + 1, ![w].now = today]
  /\ UNCHANGED <<queueVars, m_is_async, logVars, today, sys_tm, single_log, fileVars, dropped>>

\* localtime fills the buffer that all threads share, ...
localtime(w) ==
  /\ At(w, "localtime")
  /\ sys_tm' = writer[w].now
  /\ GoTo(w, "copy")
  /\ UNCHANGED <<queueVars, m_is_async, logVars, today, single_log, fileVars, dropped>>

CopyTime_First(w) ==               \* my_tm is set for the first line only
  /\ At(w, "copy")
  /\ writer' = [writer EXCEPT ![w].my_tm = IF writer[w].no = 1 THEN sys_tm ELSE @, ![w].pc = "count"]
  /\ UNCHANGED <<queueVars, m_is_async, logVars, today, sys_tm, single_log, fileVars, dropped>>

\* ... and my_tm = *sys_tm copies what is in it by then.
CopyTime(w) ==
  /\ At(w, "copy")
  /\ writer' = [writer EXCEPT ![w].my_tm = sys_tm, ![w].pc = "count"]
  /\ UNCHANGED <<queueVars, m_is_async, logVars, today, sys_tm, single_log, fileVars, dropped>>
-----------------------------------------------------------------------------
(* write_log: the critical sections.                                       *)

\* fflush(m_fp), or fclose(m_fp): what is in the buffer of the open file is
\* written, no other file's is.
fflush == buffered' = {b \in buffered : b.file # m_fp}

\* The file of another day: its log without a number, and the count from 0.
Rotate(day) ==
  /\ m_count' = 0 /\ m_today' = day
  /\ m_fp' = File(day, 0)

Count_After(w) ==                  \* the line is counted after the test
  /\ At(w, "count")
  /\ LET day == writer[w].my_tm IN
     \/ /\ m_today # day
        /\ Rotate(day) /\ fflush
     \/ /\ m_today = day /\ m_count % m_split_lines = 0
        /\ m_fp' = File(day, m_count \div m_split_lines)
        /\ m_count' = m_count + 1
        /\ fflush /\ UNCHANGED m_today
     \/ /\ m_today = day /\ m_count % m_split_lines # 0
        /\ m_count' = m_count + 1
        /\ UNCHANGED <<m_today, m_fp, buffered>>
  /\ GoTo(w, "format")
  /\ UNCHANGED <<queueVars, m_is_async, today, sys_tm, single_log, written, dropped>>

Count_NoClose(w) ==                \* another part is opened, this one not closed
  /\ At(w, "count")
  /\ LET day == writer[w].my_tm  count == m_count + 1 IN
     \/ /\ m_today # day
        /\ Rotate(day) /\ fflush
     \/ /\ m_today = day
        /\ m_count' = count
        /\ m_fp' = IF count % m_split_lines = 0 THEN File(day, count \div m_split_lines) ELSE m_fp
        /\ UNCHANGED <<buffered, m_today>>
  /\ GoTo(w, "format")
  /\ UNCHANGED <<queueVars, m_is_async, today, sys_tm, single_log, written, dropped>>

\* Count the line; close the file and open another when the day is not that of
\* the file or another m_split_lines lines have been counted.
Count(w) ==
  /\ At(w, "count")
  /\ LET day == writer[w].my_tm  count == m_count + 1 IN
     \/ /\ m_today # day
        /\ Rotate(day) /\ fflush
     \/ /\ m_today = day /\ count % m_split_lines = 0
        /\ m_count' = count
        /\ m_fp' = File(day, count \div m_split_lines)
        /\ fflush /\ UNCHANGED m_today
     \/ /\ m_today = day /\ count % m_split_lines # 0
        /\ m_count' = count
        /\ UNCHANGED <<m_today, m_fp, buffered>>
  /\ GoTo(w, "format")
  /\ UNCHANGED <<queueVars, m_is_async, today, sys_tm, single_log, written, dropped>>

\* Format into m_buf and copy it; then full(), if asynchronous.
Format(w) ==
  /\ At(w, "format")
  /\ GoTo(w, IF m_is_async /\ ~full THEN "push" ELSE "fputs")
  /\ UNCHANGED <<queueVars, m_is_async, logVars, today, sys_tm, single_log, fileVars, dropped>>

\* push, whose result is not looked at.
Push(w) ==
  /\ At(w, "push")
  /\ push(LineOf(w))
  /\ dropped' = IF full THEN dropped \cup {LineOf(w)} ELSE dropped
  /\ GoTo(w, "flush")
  /\ UNCHANGED <<m_is_async, logVars, today, sys_tm, single_log, fileVars>>

\* fputs(line, m_fp)
Put(line, who) ==
  LET entry == [line |-> line, file |-> m_fp, by |-> who] IN
  /\ written' = Append(written, entry)
  /\ buffered' = buffered \cup {entry}

Fputs(w) ==
  /\ At(w, "fputs")
  /\ Put(LineOf(w), w)
  /\ GoTo(w, "flush")
  /\ UNCHANGED <<queueVars, m_is_async, logVars, today, sys_tm, single_log, dropped>>

flush(w) ==
  /\ At(w, "flush")
  /\ fflush
  /\ GoTo(w, "out")
  /\ UNCHANGED <<queueVars, m_is_async, logVars, today, sys_tm, single_log, written, dropped>>

\* Most calls of LOG_x are followed by flush, some are not.
NoFlush(w) ==
  /\ At(w, "flush")
  /\ GoTo(w, "unflushed")
  /\ UNCHANGED <<queueVars, m_is_async, logVars, today, sys_tm, single_log, fileVars, dropped>>
-----------------------------------------------------------------------------
(* async_write_log, in the thread that init starts.                        *)

Pop ==
  /\ m_is_async /\ single_log = NULL
  /\ pop(flusher, single_log')
  /\ UNCHANGED <<m_is_async, logVars, today, sys_tm, writer, fileVars, dropped>>

PopWaits ==
  /\ m_is_async /\ single_log = NULL
  /\ popWaits(flusher) \/ Spurious(flusher)
  /\ UNCHANGED <<m_is_async, logVars, today, sys_tm, writer, single_log, fileVars, dropped>>

WritePopped ==
  /\ single_log # NULL
  /\ Put(single_log, flusher)
  /\ single_log' = NULL
  /\ UNCHANGED <<queueVars, m_is_async, logVars, today, sys_tm, writer, dropped>>
-----------------------------------------------------------------------------
write_log(w) ==
  \/ gettimeofday(w) \/ localtime(w) \/ CopyTime(w)
  \/ Count(w) \/ Format(w) \/ Push(w) \/ Fputs(w)

async_write_log == Pop \/ PopWaits \/ WritePopped

Next ==
  \/ \E w \in Writers : write_log(w) \/ flush(w) \/ NoFlush(w)
  \/ async_write_log
  \/ Midnight

Spec == Init /\ [][Next]_vars

\* The thread keeps running.  Nobody has to log, and waits need not end by
\* themselves.
FairSpec == Spec /\ WF_vars(Pop) /\ WF_vars(WritePopped)
-----------------------------------------------------------------------------
TypeOK ==
  /\ QueueTypeOK
  /\ m_is_async \in BOOLEAN
  /\ m_count \in Nat
  /\ m_today \in 0 .. today /\ today \in 0 .. MaxDay /\ sys_tm \in 0 .. today
  /\ m_fp \in [day : 0 .. today, part : Nat]
  /\ writer \in [Writers -> [pc : {"out", "localtime", "copy", "count", "format", "push",
                                  "fputs", "flush", "unflushed"},
                             no : 0 .. MaxLines, now : 0 .. today, my_tm : 0 .. today]]
  /\ single_log \in Items \cup {NULL}
  /\ buffered \subseteq [line : Items, file : [day : 0 .. today, part : Nat],
                         by : Writers \cup {flusher}]
  /\ dropped \subseteq Items

\* The lines for which write_log is through.
Logged == {l \in Items : \/ l.no < writer[l.by].no
                         \/ /\ l.no = writer[l.by].no
                            /\ writer[l.by].pc \in {"flush", "out", "unflushed"}}

Times(line, seq) == Cardinality({i \in DOMAIN seq : seq[i] = line})

Copies(line) ==
    Times(line, Content) + Cardinality({i \in DOMAIN written : written[i].line = line})
  + Cardinality({line} \cap {single_log}) + Cardinality({line} \cap dropped)

(* A line that has been logged is in a file, in the queue or in the        *)
(* thread's hand, and once only; the one way to lose a line is that the    *)
(* queue has filled up since full() was asked, which takes the queue and   *)
(* another writer (log.cpp:171-173).                                       *)
EachLineOnce ==
  /\ \A line \in Items : Copies(line) = IF line \in Logged THEN 1 ELSE 0
  /\ dropped # {} => m_is_async /\ Cardinality(Writers) > 1

(* The lines of a thread are in the files in the order in which it logged  *)
(* them, except that a line which is written directly because the queue is *)
(* full overtakes those in the queue (log.cpp:171-180).                    *)
OrderKept ==
  \A i, j \in DOMAIN written :
    LET a == written[i].line  b == written[j].line IN
    i < j /\ a.by = b.by /\ b.no < a.no => m_is_async /\ written[i].by = a.by

(* Until midnight a file gets m_split_lines lines (the first, for the      *)
(* count is tested before the line is written, one less), and those that   *)
(* were under way when it was opened: one of each other writer and, if     *)
(* there is a queue, what is in it and in the thread's hand                *)
(* (log.cpp:114-146, 176-179).                                             *)
FilesAreSplit ==
  today = 0 =>
    \A k \in {written[i].file.part : i \in DOMAIN written} :
      Cardinality({i \in DOMAIN written : written[i].file.part = k}) <=
        (IF k = 0 THEN m_split_lines - 1 ELSE m_split_lines + Cardinality(Writers) - 1)
        + (IF m_is_async THEN m_max_size + 1 ELSE 0)

(* Without the queue, a thread that comes back from flush has all its      *)
(* lines in their files, although flush flushes the file that is open by   *)
(* then, and another thread may have opened that one since the line was    *)
(* put into its own (log.cpp:124-125, 177-179, 185-191).                   *)
FlushedIsInFile ==
  ~m_is_async => \A w \in Writers : At(w, "out") => \A b \in buffered : b.line.by # w

\* The log is at today's file and no writer has an older time in hand.
OnToday ==
  /\ m_today = today
  /\ \A w \in Writers :
       /\ writer[w].pc \in {"localtime", "copy"} => writer[w].now = today
       /\ At(w, "copy") => sys_tm = today
       /\ At(w, "count") => writer[w].my_tm = today

(* A writer that took the time before midnight reopens yesterday's log     *)
(* after another has opened today's, and localtime's buffer may give its   *)
(* time to a third; once the last of them is through, the log stays with   *)
(* today until midnight (log.cpp:87-90, 120-143).                          *)
StaysOnToday == [][OnToday /\ UNCHANGED today => OnToday']_vars

(* What is pushed is written, in the order of the pushes, by the thread,   *)
(* which never sleeps while the queue has something: the circular array,   *)
(* the condition variable and the thread are a bounded FIFO queue with one *)
(* worker (block_queue.h:147-187, log.h:44-54).                            *)
Queue == INSTANCE WorkQueue WITH
           Requests <- Items, Workers <- Consumers, NoRequest <- NULL,
           m_max_requests <- m_max_size, queue <- Content,
           doing <- [c \in Consumers |-> single_log], stopped <- FALSE

ImplementsWorkQueue == Queue!Promise
=============================================================================
