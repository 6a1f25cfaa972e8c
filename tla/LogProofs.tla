------------------------------ MODULE LogProofs ------------------------------
(***************************************************************************)
(* Theorems about Log, for any number of writers and lines, any length of  *)
(* the queue and any m_split_lines: types, that the log stays with the     *)
(* day, that what was flushed is in a file, that the circular array with   *)
(* its thread is a FIFO queue, that every line is kept once and those of a *)
(* thread in order, and that a file gets no more than its share of lines.  *)
(***************************************************************************)
EXTENDS Log, FiniteSetTheorems, TLAPS

\* What % is where the array's indices use it.
LEMMA Modulus ==
  ASSUME NEW m \in Nat \ {0}, NEW x \in 0 .. 2 * m - 1
  PROVE  x % m = IF x < m THEN x ELSE x - m
<1>1. CASE x < m
  BY <1>1
<1>2. CASE x >= m
  <2>1. x \in m .. 2 * m - 1
    BY <1>2
  <2>2. x % m = x - m
    BY <2>1
  <2> QED
    BY <1>2, <2>2
<1> QED
  BY <1>1, <1>2

LEMMA SlotValue ==
  \A x \in 0 .. 2 * m_max_size - 1 : Slot(x) = IF x < m_max_size THEN x ELSE x - m_max_size
  BY Modulus, BlockQueueAssumption DEF Slot

LEMMA SlotShift ==
  ASSUME NEW f \in -1 .. m_max_size - 1, NEW i \in 1 .. m_max_size - 1
  PROVE  Slot(Slot(f + 1) + i) = Slot(f + (i + 1))
<1> USE BlockQueueAssumption
<1>1. Slot(f + 1) = IF f + 1 < m_max_size THEN f + 1 ELSE 0
  <2>1. f + 1 \in 0 .. 2 * m_max_size - 1
    OBVIOUS
  <2> QED
    BY <2>1, SlotValue
<1>2. Slot(f + 1) + i \in 0 .. 2 * m_max_size - 1 /\ f + (i + 1) \in 0 .. 2 * m_max_size - 1
  BY <1>1
<1> QED
  BY <1>1, <1>2, SlotValue

\* The last item is m_size behind the first.
Ring == m_back = IF m_front + m_size < m_max_size THEN m_front + m_size
                                                   ELSE m_front + m_size - m_max_size

\* Who is in write_log has counted its line.
Numbered == \A w \in Writers : writer[w].pc \notin {"out", "unflushed"} => writer[w].no > 0

IInv == TypeOK /\ Ring /\ Numbered

LEMMA IInvInit == Init => IInv
  BY BlockQueueAssumption, LogAssumption
     DEF Init, QueueInit, IInv, TypeOK, QueueTypeOK, Ring, Numbered, File

LEMMA LineOfItem ==
  ASSUME IInv, NEW w \in Writers, writer[w].pc \notin {"out", "unflushed"}
  PROVE  LineOf(w) \in Items
<1>1. writer[w].no \in 1 .. MaxLines
  BY LogAssumption DEF IInv, TypeOK, Numbered
<1> QED
  BY <1>1, LogAssumption DEF LineOf

-----------------------------------------------------------------------------
(* The circular array.                                                     *)

LEMMA PushStep ==
  ASSUME QueueTypeOK, Ring, NEW item \in Items, push(item)
  PROVE  QueueTypeOK' /\ Ring' /\ Content' = IF full THEN Content ELSE Append(Content, item)
<1> USE BlockQueueAssumption DEF QueueTypeOK
<1>1. CASE full
  BY <1>1 DEF push, Ring, Content
<1>2. CASE ~full
  <2>1. m_size < m_max_size /\ m_size' = m_size + 1 /\ UNCHANGED m_front /\ waiting' = {}
    BY <1>2 DEF push, full
  <2>2. m_back + 1 \in 0 .. 2 * m_max_size - 1 /\ m_back' = Slot(m_back + 1)
    BY <1>2 DEF push
  <2>3. m_back' = IF m_back + 1 < m_max_size THEN m_back + 1 ELSE m_back + 1 - m_max_size
    BY <2>2, SlotValue
  <2>4. m_back' \in 0 .. m_max_size - 1 /\ m_array' = [m_array EXCEPT ![m_back'] = item]
    BY <1>2, <2>3 DEF push
  <2>5. QueueTypeOK'
    BY <2>1, <2>4
  <2>6. m_back' = IF m_front + m_size + 1 < m_max_size THEN m_front + m_size + 1
                                                       ELSE m_front + m_size + 1 - m_max_size
    BY <2>1, <2>3 DEF Ring
  <2>7. Ring'
    BY <2>1, <2>6 DEF Ring
  <2>8. \A i \in 1 .. m_size + 1 :
          Slot(m_front + i) = IF m_front + i < m_max_size THEN m_front + i
                                                                   ELSE m_front + i - m_max_size
    BY <2>1, SlotValue
  <2>9. \A i \in 1 .. m_size : Slot(m_front + i) # m_back' /\ Slot(m_front + i) \in 0 .. m_max_size - 1
    BY <2>1, <2>6, <2>8
  <2>10. Slot(m_front + m_size + 1) = m_back'
    BY <2>6, <2>8
  <2>11. \A i \in 1 .. m_size + 1 :
           m_array'[Slot(m_front + i)] = IF i = m_size + 1 THEN item ELSE m_array[Slot(m_front + i)]
    BY <2>1, <2>4, <2>9, <2>10
  <2>12. Content' = [i \in 1 .. m_size + 1 |-> m_array'[Slot(m_front + i)]]
    BY <2>1 DEF Content
  <2>13. Content = [i \in 1 .. m_size |-> m_array[Slot(m_front + i)]]
    BY DEF Content
  <2>14. Content \in Seq(Items \cup {NULL}) /\ Len(Content) = m_size
    <3>1. \A i \in 1 .. m_size : m_array[Slot(m_front + i)] \in Items \cup {NULL}
      BY <2>9
    <3> QED
      BY <2>13, <3>1
  <2>15. Append(Content, item) = [i \in 1 .. m_size + 1 |-> IF i = m_size + 1 THEN item ELSE Content[i]]
    BY <2>14
  <2>16. \A i \in 1 .. m_size + 1 : m_array'[Slot(m_front + i)] = IF i = m_size + 1 THEN item ELSE Content[i]
    BY <2>11, <2>13
  <2>17. Content' = Append(Content, item)
    BY <2>12, <2>15, <2>16
  <2> QED
    BY <1>2, <2>5, <2>7, <2>17
<1> QED
  BY <1>1, <1>2

LEMMA PopStep ==
  ASSUME QueueTypeOK, Ring, NEW c, NEW item, pop(c, item)
  PROVE  /\ QueueTypeOK' /\ Ring' /\ item \in Items \cup {NULL}
         /\ Content # <<>> /\ item = Head(Content) /\ Content' = Tail(Content)
<1> USE BlockQueueAssumption DEF QueueTypeOK
<1>1. m_size > 0 /\ m_size' = m_size - 1 /\ UNCHANGED <<m_array, m_back, waiting>>
  BY DEF pop
<1>2. m_front + 1 \in 0 .. 2 * m_max_size - 1 /\ m_front' = Slot(m_front + 1)
  BY DEF pop
<1>3. m_front' = IF m_front + 1 < m_max_size THEN m_front + 1 ELSE m_front + 1 - m_max_size
  BY <1>2, SlotValue
<1>4. m_front' \in 0 .. m_max_size - 1 /\ item = m_array[m_front']
  BY <1>3 DEF pop
<1>5. QueueTypeOK' /\ item \in Items \cup {NULL}
  BY <1>1, <1>4
<1>6. Ring'
  BY <1>1, <1>3 DEF Ring
<1>7. \A i \in 1 .. m_size - 1 : Slot(m_front' + i) = Slot(m_front + (i + 1))
  BY <1>1, <1>2, SlotShift DEF pop
<1>8. Content = [i \in 1 .. m_size |-> m_array[Slot(m_front + i)]] /\ Len(Content) = m_size
  BY DEF Content
<1>9. Content' = [i \in 1 .. m_size - 1 |-> Content[i + 1]]
  BY <1>1, <1>7, <1>8 DEF Content
<1>10. Content # <<>> /\ Head(Content) = item
  BY <1>1, <1>2, <1>4, <1>8
<1>11. Tail(Content) = [i \in 1 .. m_size - 1 |-> Content[i + 1]]
  BY <1>1, <1>8
<1> QED
  BY <1>5, <1>6, <1>9, <1>10, <1>11

-----------------------------------------------------------------------------
(* The steps.                                                              *)

\* A step that leaves the array alone.
LEMMA QueueStutters ==
  ASSUME QueueTypeOK, Ring, UNCHANGED queueVars
  PROVE  QueueTypeOK' /\ Ring' /\ Content' = Content
  BY DEF queueVars, QueueTypeOK, Ring, Content

LEMMA PartIsNat ==
  \A count \in Nat, lines \in Nat \ {0} : count \div lines \in Nat
  OBVIOUS

LEMMA CountStep ==
  ASSUME IInv, NEW w \in Writers, Count(w)
  PROVE  /\ m_count' \in Nat /\ m_today' \in 0 .. today /\ m_fp' \in [day : 0 .. today, part : Nat]
         /\ buffered' \subseteq buffered
         /\ m_today = writer[w].my_tm => m_today' = m_today
<1> USE LogAssumption DEF IInv, TypeOK
<1> DEFINE day == writer[w].my_tm
<1>1. day \in 0 .. today /\ m_count + 1 \in Nat
  OBVIOUS
<1>2. (m_count + 1) \div m_split_lines \in Nat
  BY <1>1, PartIsNat
<1>3. CASE m_today # day /\ Rotate(day) /\ fflush
  BY <1>1, <1>3 DEF Rotate, File, fflush
<1>4. CASE /\ m_today = day /\ m_count' = m_count + 1 /\ fflush /\ UNCHANGED m_today
           /\ m_fp' = File(day, (m_count + 1) \div m_split_lines)
  BY <1>1, <1>2, <1>4 DEF File, fflush
<1>5. CASE m_today = day /\ m_count' = m_count + 1 /\ UNCHANGED <<m_today, m_fp, buffered>>
  <2>1. buffered' \subseteq buffered
    BY <1>5
  <2>2. m_count' \in Nat /\ m_today' = m_today
    BY <1>1, <1>5
  <2>3. m_today' \in 0 .. today /\ m_fp' \in [day : 0 .. today, part : Nat]
    BY <1>5
  <2> QED
    BY <2>1, <2>2, <2>3
<1> QED
  BY <1>3, <1>4, <1>5 DEF Count

\* What fputs puts into the open file's buffer.
LEMMA PutStep ==
  ASSUME TypeOK, NEW line \in Items, NEW who \in Writers \cup {flusher},
         Put(line, who), UNCHANGED today
  PROVE  buffered' \subseteq [line : Items, file : [day : 0 .. today', part : Nat],
                             by : Writers \cup {flusher}]
<1> DEFINE entry == [line |-> line, file |-> m_fp, by |-> who]
<1>1. entry \in [line : Items, file : [day : 0 .. today, part : Nat], by : Writers \cup {flusher}]
  BY DEF TypeOK
<1>2. buffered' = buffered \cup {entry}
  BY DEF Put
<1> HIDE DEF entry
<1> QED
  BY <1>1, <1>2 DEF TypeOK

LEMMA IInvStep == IInv /\ [Next]_vars => IInv'
<1> SUFFICES ASSUME IInv, [Next]_vars PROVE IInv'
  OBVIOUS
<1> USE LogAssumption DEF IInv, TypeOK, Numbered, At, GoTo
<1>0. UNCHANGED queueVars => QueueTypeOK' /\ Ring'
  BY QueueStutters
<1>1. CASE UNCHANGED vars
  BY <1>0, <1>1 DEF vars, logVars, fileVars
<1>2. ASSUME NEW w \in Writers, gettimeofday(w) PROVE IInv'
  BY <1>0, <1>2 DEF gettimeofday, logVars, fileVars
<1>3. ASSUME NEW w \in Writers, localtime(w) PROVE IInv'
  BY <1>0, <1>3 DEF localtime, logVars, fileVars
<1>4. ASSUME NEW w \in Writers, CopyTime(w) PROVE IInv'
  BY <1>0, <1>4 DEF CopyTime, logVars, fileVars
<1>5. ASSUME NEW w \in Writers, Count(w) PROVE IInv'
  <2>1. QueueTypeOK' /\ Ring'
    BY <1>0, <1>5 DEF Count
  <2>2. UNCHANGED <<m_is_async, today, sys_tm, single_log, dropped>> /\ GoTo(w, "format") /\ At(w, "count")
    BY <1>5 DEF Count
  <2>3. Numbered'
    BY <2>2
  <2> QED
    BY <1>5, <2>1, <2>2, <2>3, CountStep
<1>6. ASSUME NEW w \in Writers, Format(w) PROVE IInv'
  BY <1>0, <1>6 DEF Format, logVars, fileVars
<1>7. ASSUME NEW w \in Writers, Push(w) PROVE IInv'
  <2>1. LineOf(w) \in Items
    BY <1>7, LineOfItem DEF Push
  <2>2. QueueTypeOK' /\ Ring'
    BY <1>7, <2>1, PushStep DEF Push
  <2> QED
    BY <1>7, <2>1, <2>2 DEF Push, logVars, fileVars
<1>8. ASSUME NEW w \in Writers, Fputs(w) PROVE IInv'
  <2>1. LineOf(w) \in Items
    BY <1>8, LineOfItem DEF Fputs
  <2>2. UNCHANGED today /\ Put(LineOf(w), w)
    BY <1>8 DEF Fputs
  <2>3. buffered' \subseteq [line : Items, file : [day : 0 .. today', part : Nat],
                            by : Writers \cup {flusher}]
    BY <2>1, <2>2, PutStep
  <2> QED
    BY <1>0, <1>8, <2>3 DEF Fputs, logVars
<1>9. ASSUME NEW w \in Writers, flush(w) \/ NoFlush(w) PROVE IInv'
  <2>1. buffered' \subseteq buffered
    BY <1>9 DEF flush, fflush, NoFlush, fileVars
  <2>2. UNCHANGED <<queueVars, m_is_async, logVars, today, sys_tm, single_log, dropped>>
    BY <1>9 DEF flush, NoFlush
  <2>3. \E pc \in {"out", "unflushed"} : writer' = [writer EXCEPT ![w].pc = pc]
    BY <1>9 DEF flush, NoFlush
  <2> QED
    BY <1>0, <2>1, <2>2, <2>3 DEF logVars
<1>10. CASE Pop
  <2>1. QueueTypeOK' /\ Ring' /\ single_log' \in Items \cup {NULL}
    BY <1>10, PopStep DEF Pop
  <2> QED
    BY <1>10, <2>1 DEF Pop, logVars, fileVars
<1>11. CASE PopWaits
  <2>1. QueueTypeOK' /\ Ring'
    BY <1>11 DEF PopWaits, popWaits, Spurious, QueueTypeOK, Ring
  <2> QED
    BY <1>11, <2>1 DEF PopWaits, logVars, fileVars
<1>12. CASE WritePopped
  <2>0. UNCHANGED today /\ Put(single_log, flusher) /\ single_log \in Items
    BY <1>12 DEF WritePopped
  <2>1. buffered' \subseteq [line : Items, file : [day : 0 .. today', part : Nat],
                            by : Writers \cup {flusher}]
    BY <2>0, PutStep
  <2> QED
    BY <1>0, <1>12, <2>1 DEF WritePopped, logVars
<1>13. CASE Midnight
  BY <1>0, <1>13 DEF Midnight, logVars, fileVars
<1> QED
  BY <1>1, <1>2, <1>3, <1>4, <1>5, <1>6, <1>7, <1>8, <1>9, <1>10, <1>11, <1>12, <1>13
     DEF Next, write_log, async_write_log

LEMMA IInvAlways == Spec => []IInv
  BY IInvInit, IInvStep, PTL DEF Spec

(* Types, with the indices of the circular array in it.                    *)
THEOREM LogTypeCorrect == Spec => []TypeOK
<1>1. IInv => TypeOK
  BY DEF IInv
<1> QED
  BY <1>1, IInvAlways, PTL

(* Once the writers that took the time before midnight are through, the    *)
(* log stays with today's file until the next midnight (log.cpp:87-90,     *)
(* 120-143).                                                               *)
THEOREM LogStaysOnToday == Spec => StaysOnToday
<1>1. IInv /\ [Next]_vars => [OnToday /\ UNCHANGED today => OnToday']_vars
  <2> SUFFICES ASSUME IInv, [Next]_vars, OnToday, UNCHANGED today PROVE OnToday'
    OBVIOUS
  <2> USE DEF IInv, TypeOK, OnToday, At, GoTo
  <2>1. CASE UNCHANGED vars
    BY <2>1 DEF vars, logVars
  <2>2. ASSUME NEW w \in Writers, gettimeofday(w) \/ localtime(w) \/ CopyTime(w) PROVE OnToday'
    BY <2>2 DEF gettimeofday, localtime, CopyTime, logVars
  <2>3. ASSUME NEW w \in Writers, Count(w) PROVE OnToday'
    <3>1. m_today' = m_today
      BY <2>3, CountStep DEF Count
    <3> QED
      BY <2>3, <3>1 DEF Count
  <2>4. ASSUME NEW w \in Writers, Format(w) \/ Push(w) \/ Fputs(w) \/ flush(w) \/ NoFlush(w) PROVE OnToday'
    BY <2>4 DEF Format, Push, Fputs, flush, NoFlush, logVars
  <2>5. CASE async_write_log
    BY <2>5 DEF async_write_log, Pop, PopWaits, WritePopped, logVars
  <2>6. CASE Midnight
    BY <2>6 DEF Midnight
  <2> QED
    BY <2>1, <2>2, <2>3, <2>4, <2>5, <2>6 DEF Next, write_log
<1> QED
  BY <1>1, IInvAlways, PTL DEF Spec, StaysOnToday

\* Without the queue the thread has nothing in hand.
NoQueue == ~m_is_async => single_log = NULL

\* What is not yet written is in the file that is open.
OpenHasAll == \A b \in buffered : b.file = m_fp

(* Without the queue, who comes back from flush has its lines in their     *)
(* files: flush flushes the open file only, and every other one has been   *)
(* flushed when it was closed (log.cpp:124-125, 177-179, 185-191).         *)
THEOREM FlushedLinesAreInFile == Spec => []FlushedIsInFile
<1> DEFINE F == NoQueue /\ OpenHasAll /\ FlushedIsInFile
<1>1. Init => F
  BY DEF Init, NoQueue, OpenHasAll, FlushedIsInFile
<1>2. IInv /\ F /\ [Next]_vars => F'
  <2> SUFFICES ASSUME IInv, F, [Next]_vars PROVE F'
    OBVIOUS
  <2> USE DEF NoQueue, OpenHasAll, FlushedIsInFile, At, GoTo
  <2>0. TypeOK
    BY DEF IInv
  <2>1. CASE UNCHANGED vars
    BY <2>1 DEF vars, logVars, fileVars
  <2>2. ASSUME NEW w \in Writers,
               gettimeofday(w) \/ localtime(w) \/ CopyTime(w) \/ Format(w) \/ Push(w) \/ NoFlush(w)
        PROVE  F'
    BY <2>0, <2>2 DEF TypeOK, gettimeofday, localtime, CopyTime, Format, Push, NoFlush, logVars, fileVars
  <2>3. ASSUME NEW w \in Writers, Count(w) PROVE F'
    <3>1. fflush \/ UNCHANGED <<m_fp, buffered>>
      BY <2>3 DEF Count
    <3>2. OpenHasAll' /\ buffered' \subseteq buffered
      BY <3>1 DEF fflush
    <3> QED
      BY <2>0, <2>3, <3>2 DEF Count, TypeOK
  <2>4. ASSUME NEW w \in Writers, Fputs(w) PROVE F'
    <3>1. LineOf(w).by = w
      BY DEF LineOf
    <3> QED
      BY <2>0, <2>4, <3>1 DEF TypeOK, Fputs, Put, logVars
  <2>5. ASSUME NEW w \in Writers, flush(w) PROVE F'
    <3>1. buffered' = {} /\ UNCHANGED <<m_is_async, m_fp, single_log>>
      BY <2>5 DEF flush, fflush, logVars
    <3> QED
      BY <3>1
  <2>6. CASE async_write_log
    BY <2>6 DEF async_write_log, Pop, PopWaits, WritePopped, Put, logVars, fileVars
  <2>7. CASE Midnight
    BY <2>7 DEF Midnight, logVars, fileVars
  <2> QED
    BY <2>1, <2>2, <2>3, <2>4, <2>5, <2>6, <2>7 DEF Next, write_log
<1>3. F => FlushedIsInFile
  OBVIOUS
<1> QED
  BY <1>1, <1>2, <1>3, IInvAlways, PTL DEF Spec

-----------------------------------------------------------------------------
(* The array, the condition variable and the thread are a FIFO queue with  *)
(* one worker: its safety; its fairness is left to TLC                     *)
(* (block_queue.h:147-187, log.h:44-54).                                   *)
THEOREM LogRefinesQueue == Spec => Queue!Spec
<1>1. Init => Queue!Init
  BY DEF Init, QueueInit, Queue!Init, Content
<1>2. IInv /\ [Next]_vars => [Queue!Next]_(Queue!queueVars)
  <2> SUFFICES ASSUME IInv, [Next]_vars PROVE [Queue!Next]_(Queue!queueVars)
    OBVIOUS
  <2> USE LogAssumption DEF IInv, TypeOK
  <2>0. UNCHANGED <<queueVars, single_log>> => UNCHANGED Queue!queueVars
    BY QueueStutters DEF Queue!queueVars
  <2>1. CASE UNCHANGED vars
    BY <2>0, <2>1 DEF vars
  <2>2. ASSUME NEW w \in Writers,
               \/ gettimeofday(w) \/ localtime(w) \/ CopyTime(w) \/ Count(w) \/ Format(w)
               \/ Fputs(w) \/ flush(w) \/ NoFlush(w)
        PROVE  UNCHANGED Queue!queueVars
    BY <2>0, <2>2 DEF gettimeofday, localtime, CopyTime, Count, Format, Fputs, flush, NoFlush
  <2>3. ASSUME NEW w \in Writers, Push(w) PROVE [Queue!Next]_(Queue!queueVars)
    <3>1. LineOf(w) \in Items /\ push(LineOf(w)) /\ UNCHANGED single_log
      BY <2>3, LineOfItem DEF Push, At
    <3>2. Content' = IF full THEN Content ELSE Append(Content, LineOf(w))
      BY <3>1, PushStep
    <3>3. CASE full
      BY <3>1, <3>2, <3>3 DEF Queue!queueVars
    <3>4. CASE ~full
      <4>1. Len(Content) < m_max_size
        BY <3>4, BlockQueueAssumption DEF full, Content, QueueTypeOK
      <4>2. Queue!Put(LineOf(w))
        BY <3>1, <3>2, <3>4, <4>1 DEF Queue!Put
      <4> QED
        BY <3>1, <4>2 DEF Queue!Next
    <3> QED
      BY <3>3, <3>4
  <2>4. CASE Pop
    <3>1. Content # <<>> /\ single_log = NULL /\ single_log' = Head(Content) /\ Content' = Tail(Content)
      BY <2>4, PopStep DEF Pop
    <3>2. Queue!Get(flusher)
      BY <3>1 DEF Queue!Get
    <3> QED
      BY <3>2 DEF Queue!Next
  <2>5. CASE PopWaits
    <3>1. Content' = Content /\ UNCHANGED single_log
      BY <2>5 DEF PopWaits, popWaits, Spurious, Content
    <3> QED
      BY <3>1 DEF Queue!queueVars
  <2>6. CASE WritePopped
    <3>1. Content' = Content /\ single_log # NULL /\ single_log' = NULL
      BY <2>6, QueueStutters DEF WritePopped
    <3>2. Queue!Finish(flusher)
      BY <3>1 DEF Queue!Finish
    <3> QED
      BY <3>2 DEF Queue!Next
  <2>7. CASE Midnight
    BY <2>0, <2>7 DEF Midnight
  <2> QED
    BY <2>1, <2>2, <2>3, <2>4, <2>5, <2>6, <2>7 DEF Next, write_log, async_write_log
<1> QED
  BY <1>1, <1>2, IInvAlways, PTL DEF Spec, Queue!Spec

-----------------------------------------------------------------------------
(* Counting the positions of a sequence.                                   *)

Hits(s, A) == {i \in DOMAIN s : s[i] \in A}

\* The first n numbers are n.
LEMMA UpTo ==
  ASSUME NEW n \in Nat
  PROVE  IsFiniteSet(1 .. n) /\ Cardinality(1 .. n) = n
<1>1. 1 \in Int /\ n \in Int
  OBVIOUS
<1>2. IsFiniteSet(1 .. n) /\ Cardinality(1 .. n) = (IF 1 > n THEN 0 ELSE n - 1 + 1)
  BY <1>1, FS_Interval
<1>3. (IF 1 > n THEN 0 ELSE n - 1 + 1) = n
  OBVIOUS
<1> QED
  BY <1>2, <1>3

LEMMA HitsFinite ==
  ASSUME NEW T, NEW s \in Seq(T), NEW A
  PROVE  /\ IsFiniteSet(Hits(s, A)) /\ Cardinality(Hits(s, A)) \in Nat
         /\ Cardinality(Hits(s, A)) <= Len(s)
<1>1. DOMAIN s = 1 .. Len(s) /\ Len(s) \in Nat
  OBVIOUS
<1>2. IsFiniteSet(1 .. Len(s)) /\ Cardinality(1 .. Len(s)) = Len(s)
  BY <1>1, UpTo
<1>3. Hits(s, A) \in SUBSET (1 .. Len(s))
  BY <1>1 DEF Hits
<1> QED
  BY <1>2, <1>3, FS_Subset, FS_CardinalityType

LEMMA HitsAppend ==
  ASSUME NEW T, NEW s \in Seq(T), NEW x \in T, NEW A
  PROVE  Cardinality(Hits(Append(s, x), A)) = Cardinality(Hits(s, A)) + (IF x \in A THEN 1 ELSE 0)
<1>1. /\ DOMAIN s = 1 .. Len(s) /\ Len(s) \in Nat
      /\ DOMAIN Append(s, x) = 1 .. Len(s) + 1
      /\ \A i \in 1 .. Len(s) : Append(s, x)[i] = s[i]
      /\ Append(s, x)[Len(s) + 1] = x
  OBVIOUS
<1>2. \A i \in 1 .. Len(s) + 1 : i \in 1 .. Len(s) \/ i = Len(s) + 1
  BY <1>1
<1>3. Len(s) + 1 \in 1 .. Len(s) + 1 /\ Len(s) + 1 \notin 1 .. Len(s)
  BY <1>1
<1>4. \A i \in 1 .. Len(s) : i \in 1 .. Len(s) + 1
  BY <1>1
<1>5. CASE x \in A
  <2>1. Hits(Append(s, x), A) = Hits(s, A) \cup {Len(s) + 1}
    BY <1>1, <1>2, <1>3, <1>4, <1>5 DEF Hits
  <2>2. Len(s) + 1 \notin Hits(s, A)
    BY <1>1, <1>3 DEF Hits
  <2> QED
    BY <1>5, <2>1, <2>2, HitsFinite, FS_AddElement
<1>6. CASE x \notin A
  <2>1. Hits(Append(s, x), A) = Hits(s, A)
    BY <1>1, <1>2, <1>3, <1>4, <1>6 DEF Hits
  <2> QED
    BY <1>6, <2>1, HitsFinite
<1> QED
  BY <1>5, <1>6

LEMMA HitsTail ==
  ASSUME NEW T, NEW s \in Seq(T), s # <<>>, NEW A
  PROVE  Cardinality(Hits(s, A)) = Cardinality(Hits(Tail(s), A)) + (IF Head(s) \in A THEN 1 ELSE 0)
<1>1. /\ DOMAIN s = 1 .. Len(s) /\ Len(s) \in Nat /\ Len(s) > 0
      /\ Tail(s) \in Seq(T) /\ DOMAIN Tail(s) = 1 .. Len(s) - 1
      /\ \A i \in 1 .. Len(s) - 1 : Tail(s)[i] = s[i + 1]
      /\ Head(s) = s[1]
  OBVIOUS
<1> DEFINE R == Hits(s, A) \ {1}
           f == [i \in Hits(Tail(s), A) |-> i + 1]
<1>2. \A i \in 1 .. Len(s) - 1 : i + 1 \in 1 .. Len(s) /\ i + 1 # 1
  BY <1>1
<1>3. \A i \in 1 .. Len(s) : i # 1 => i - 1 \in 1 .. Len(s) - 1 /\ (i - 1) + 1 = i
  BY <1>1
<1>4. \A i \in Hits(Tail(s), A) : i \in Nat /\ f[i] = i + 1 /\ i + 1 \in R
  BY <1>1, <1>2 DEF Hits
<1>5. \A j \in R : j - 1 \in Hits(Tail(s), A) /\ f[j - 1] = j
  BY <1>1, <1>3 DEF Hits
<1>6. f \in Bijection(Hits(Tail(s), A), R)
  <2>1. f \in [Hits(Tail(s), A) -> R]
    BY <1>4
  <2>2. \A i, j \in Hits(Tail(s), A) : f[i] = f[j] => i = j
    BY <1>4
  <2>3. \A j \in R : \E i \in Hits(Tail(s), A) : f[i] = j
    BY <1>5
  <2> HIDE DEF f, R
  <2> QED
    BY <2>1, <2>2, <2>3 DEF Bijection, Injection, Surjection, IsInjective
<1>7. Cardinality(R) = Cardinality(Hits(Tail(s), A))
  <2>1. ExistsBijection(Hits(Tail(s), A), R)
    BY <1>6 DEF ExistsBijection
  <2>2. IsFiniteSet(Hits(Tail(s), A))
    BY <1>1, HitsFinite
  <2> HIDE DEF R
  <2> QED
    BY <2>1, <2>2, FS_Bijection
<1>8. IsFiniteSet(Hits(s, A)) /\ Cardinality(Hits(s, A)) \in Nat
  BY HitsFinite
<1>9. 1 \in Hits(s, A) <=> Head(s) \in A
  BY <1>1 DEF Hits
<1>10. Cardinality(R) = IF 1 \in Hits(s, A) THEN Cardinality(Hits(s, A)) - 1 ELSE Cardinality(Hits(s, A))
  BY <1>8, FS_RemoveElement
<1> QED
  BY <1>7, <1>8, <1>9, <1>10

-----------------------------------------------------------------------------
(* Where each line is.                                                     *)

Records == [line : Items, file : [day : 0 .. MaxDay, part : Nat], by : Writers \cup {flusher}]

IsLine(l) == {r \in Records : r.line = l}

\* Copies, from the values of Content, written, single_log and dropped.
Tally(c, wr, sl, dr, l) ==
    Cardinality({i \in DOMAIN c : c[i] = l}) + Cardinality({i \in DOMAIN wr : wr[i].line = l})
  + Cardinality({l} \cap {sl}) + Cardinality({l} \cap dr)

LEMMA TallyIs ==
  ASSUME NEW c \in Seq(Items), NEW wr \in Seq(Records), NEW sl, NEW dr, NEW l \in Items
  PROVE  /\ Tally(c, wr, sl, dr, l) = Cardinality(Hits(c, {l})) + Cardinality(Hits(wr, IsLine(l)))
                                      + (IF l = sl THEN 1 ELSE 0) + (IF l \in dr THEN 1 ELSE 0)
         /\ Cardinality(Hits(c, {l})) \in Nat /\ Cardinality(Hits(wr, IsLine(l))) \in Nat
<1>1. {i \in DOMAIN c : c[i] = l} = Hits(c, {l})
  BY DEF Hits
<1>2. {i \in DOMAIN wr : wr[i].line = l} = Hits(wr, IsLine(l))
  <2>1. \A i \in DOMAIN wr : wr[i] \in Records
    OBVIOUS
  <2> QED
    BY <2>1 DEF Hits, IsLine
<1>3. Cardinality({l} \cap {sl}) = IF l = sl THEN 1 ELSE 0
  <2>1. CASE l = sl
    <3>1. {l} \cap {sl} = {l}
      BY <2>1
    <3> QED
      BY <2>1, <3>1, FS_Singleton
  <2>2. CASE l # sl
    <3>1. {l} \cap {sl} = {}
      BY <2>2
    <3> QED
      BY <2>2, <3>1, FS_EmptySet
  <2> QED
    BY <2>1, <2>2
<1>4. Cardinality({l} \cap dr) = IF l \in dr THEN 1 ELSE 0
  <2>1. CASE l \in dr
    <3>1. {l} \cap dr = {l}
      BY <2>1
    <3> QED
      BY <2>1, <3>1, FS_Singleton
  <2>2. CASE l \notin dr
    <3>1. {l} \cap dr = {}
      BY <2>2
    <3> QED
      BY <2>2, <3>1, FS_EmptySet
  <2> QED
    BY <2>1, <2>2
<1> QED
  BY <1>1, <1>2, <1>3, <1>4, HitsFinite DEF Tally

LEMMA CopiesIs ==
  /\ \A l \in Items : Copies(l) = Tally(Content, written, single_log, dropped, l)
  /\ \A l \in Items : Copies(l)' = Tally(Content', written', single_log', dropped', l)
  BY DEF Copies, Tally, Times

\* What the queue and the files hold, and where nothing is without the queue.
Stored ==
  /\ Content \in Seq(Items) /\ Len(Content) = m_size
  /\ written \in Seq(Records)
  /\ ~m_is_async => single_log = NULL /\ m_size = 0 /\ dropped = {} /\ \A w \in Writers : ~At(w, "push")

LEMMA TallyNow ==
  ASSUME Stored, NEW l \in Items
  PROVE  /\ Tally(Content, written, single_log, dropped, l) =
             Cardinality(Hits(Content, {l})) + Cardinality(Hits(written, IsLine(l)))
               + (IF l = single_log THEN 1 ELSE 0) + (IF l \in dropped THEN 1 ELSE 0)
         /\ Cardinality(Hits(Content, {l})) \in Nat /\ Cardinality(Hits(written, IsLine(l))) \in Nat
<1>1. Content \in Seq(Items) /\ written \in Seq(Records)
  BY DEF Stored
<1>2. Tally(Content, written, single_log, dropped, l) =
        Cardinality(Hits(Content, {l})) + Cardinality(Hits(written, IsLine(l)))
          + (IF l = single_log THEN 1 ELSE 0) + (IF l \in dropped THEN 1 ELSE 0)
  BY <1>1, TallyIs
<1> QED
  BY <1>1, <1>2, HitsFinite

EachOnce == \A l \in Items : Copies(l) = IF l \in Logged THEN 1 ELSE 0

\* Who is about to push has seen that there was room.
OthersFilled == \A w \in Writers : At(w, "push") /\ full => \E v \in Writers : v # w

LInv == Stored /\ EachOnce /\ OthersFilled /\ (dropped # {} => Cardinality(Writers) > 1)

LEMMA LInvInit == Init => LInv
<1> SUFFICES ASSUME Init PROVE LInv
  OBVIOUS
<1>1. Content = <<>> /\ m_size = 0
  BY DEF Init, QueueInit, Content
<1>2. written = <<>> /\ dropped = {} /\ single_log = NULL /\ NULL \notin Items
  BY BlockQueueAssumption DEF Init
<1>3. <<>> \in Seq(Items) /\ <<>> \in Seq(Records) /\ Len(<<>>) = 0
  OBVIOUS
<1>4. Stored
  BY <1>1, <1>2, <1>3 DEF Stored, Init, At
<1>5. ASSUME NEW l \in Items PROVE Copies(l) = IF l \in Logged THEN 1 ELSE 0
  <2>1. \A A : Hits(<<>>, A) = {}
    BY <1>3 DEF Hits
  <2>2. Copies(l) = 0
    <3>1. Cardinality(Hits(<<>>, {l})) = 0 /\ Cardinality(Hits(<<>>, IsLine(l))) = 0
      BY <2>1, FS_EmptySet
    <3>2. Tally(Content, written, single_log, dropped, l) =
            Cardinality(Hits(Content, {l})) + Cardinality(Hits(written, IsLine(l)))
              + (IF l = single_log THEN 1 ELSE 0) + (IF l \in dropped THEN 1 ELSE 0)
      BY <1>4, TallyIs DEF Stored
    <3>3. l # single_log /\ l \notin dropped
      BY <1>2
    <3> QED
      BY <1>1, <1>2, <3>1, <3>2, <3>3, CopiesIs
  <2>3. l \notin Logged
    BY LogAssumption DEF Logged, Init
  <2> QED
    BY <2>2, <2>3
<1>6. OthersFilled
  BY DEF OthersFilled, Init, At
<1> QED
  BY <1>2, <1>4, <1>5, <1>6 DEF LInv, EachOnce

\* A line is logged when its writer is through with it.
LEMMA LoggedIs ==
  /\ \A l \in Items : l \in Logged <=> \/ l.no < writer[l.by].no
                                       \/ l.no = writer[l.by].no /\ writer[l.by].pc \in {"flush", "out", "unflushed"}
  /\ \A l \in Items : l \in Logged' <=> \/ l.no < writer'[l.by].no
                                        \/ l.no = writer'[l.by].no /\ writer'[l.by].pc \in {"flush", "out", "unflushed"}
  BY DEF Logged

LEMMA ItemFacts ==
  /\ \A l \in Items : l.by \in Writers /\ l.no \in 1 .. MaxLines /\ l = [by |-> l.by, no |-> l.no]
  /\ \A w \in Writers : LineOf(w).by = w /\ LineOf(w).no = writer[w].no
  BY LogAssumption DEF LineOf

\* Nothing that LInv counts changes.
LEMMA LInvStutters ==
  ASSUME LInv, Content' = Content, m_size' = m_size,
         UNCHANGED <<m_is_async, written, single_log, dropped>>,
         Logged' = Logged,
         \A w \in Writers : At(w, "push")' => At(w, "push") \/ (m_is_async /\ ~full)
  PROVE  LInv'
<1>1. full' = full
  BY DEF full
<1>2. Stored'
  BY DEF LInv, Stored
<1>3. EachOnce'
  BY CopiesIs DEF LInv, EachOnce
<1>4. OthersFilled'
  BY <1>1 DEF LInv, OthersFilled
<1> QED
  BY <1>2, <1>3, <1>4 DEF LInv

\* The line of w is stored, and w through with it.
LEMMA LogsLine ==
  ASSUME IInv, LInv, NEW w \in Writers, At(w, "push") \/ At(w, "fputs"), GoTo(w, "flush")
  PROVE  /\ LineOf(w) \in Items \ Logged
         /\ \A l \in Items : l \in Logged' <=> l \in Logged \/ l = LineOf(w)
<1> USE LogAssumption DEF IInv, TypeOK
<1>1. LineOf(w) \in Items
  BY LineOfItem DEF At
<1>2. writer[w].no \in Nat
  OBVIOUS
<1>3. LineOf(w) \notin Logged
  BY <1>1, <1>2, LoggedIs, ItemFacts DEF At
<1>4. ASSUME NEW l \in Items PROVE l \in Logged' <=> l \in Logged \/ l = LineOf(w)
  <2>1. CASE l.by = w
    <3>1. writer'[w].pc = "flush" /\ writer'[w].no = writer[w].no /\ writer[w].pc \notin {"flush", "out", "unflushed"}
      BY DEF GoTo, At
    <3>2. l = LineOf(w) <=> l.no = writer[w].no
      BY <2>1, ItemFacts, <1>1
    <3> QED
      BY <2>1, <3>1, <3>2, LoggedIs
  <2>2. CASE l.by # w
    <3>1. writer'[l.by] = writer[l.by] /\ l # LineOf(w)
      BY <2>2, ItemFacts DEF GoTo
    <3> QED
      BY <3>1, LoggedIs
  <2> QED
    BY <2>1, <2>2
<1> QED
  BY <1>1, <1>3, <1>4

\* A step of w that leaves the set of logged lines as it is.
LEMMA LoggedStays ==
  ASSUME IInv, NEW w \in Writers,
         \/ UNCHANGED writer
         \/ gettimeofday(w) \/ localtime(w) \/ CopyTime(w) \/ Count(w) \/ Format(w) \/ flush(w) \/ NoFlush(w)
  PROVE  Logged' = Logged
<1> USE LogAssumption DEF IInv, TypeOK
<1>1. ASSUME NEW l \in Items PROVE l \in Logged' <=> l \in Logged
  <2>0. l.by \in Writers /\ l.no \in Nat /\ writer[l.by].no \in Nat /\ writer[w].no \in Nat
    BY ItemFacts
  <2>1. CASE UNCHANGED writer
    BY <2>1, LoggedIs
  <2>2. CASE l.by # w /\ ~UNCHANGED writer
    <3>1. writer'[l.by] = writer[l.by]
      BY <2>0, <2>2 DEF gettimeofday, localtime, CopyTime, Count, Format, flush, NoFlush, GoTo
    <3> QED
      BY <3>1, LoggedIs
  <2>3. CASE l.by = w /\ gettimeofday(w)
    <3>1. writer'[w].no = writer[w].no + 1 /\ writer'[w].pc = "localtime" /\ writer[w].pc \in {"out", "unflushed"}
      BY <2>3 DEF gettimeofday, At
    <3> QED
      BY <2>0, <2>3, <3>1, LoggedIs
  <2>4. CASE l.by = w /\ (localtime(w) \/ CopyTime(w) \/ Count(w) \/ Format(w))
    <3>1. /\ writer'[w].no = writer[w].no
          /\ writer[w].pc \notin {"flush", "out", "unflushed"} /\ writer'[w].pc \notin {"flush", "out", "unflushed"}
      BY <2>4 DEF localtime, CopyTime, Count, Format, GoTo, At
    <3> QED
      BY <2>4, <3>1, LoggedIs
  <2>5. CASE l.by = w /\ (flush(w) \/ NoFlush(w))
    <3>1. /\ writer'[w].no = writer[w].no
          /\ writer[w].pc = "flush" /\ writer'[w].pc \in {"out", "unflushed"}
      BY <2>5 DEF flush, NoFlush, GoTo, At
    <3> QED
      BY <2>5, <3>1, LoggedIs
  <2> QED
    BY <2>1, <2>2, <2>3, <2>4, <2>5
<1>2. Logged \subseteq Items /\ Logged' \subseteq Items
  BY DEF Logged
<1> QED
  BY <1>1, <1>2

\* A line that is put into a file: into the file that is open.
LEMMA PutIs ==
  ASSUME IInv, Stored, NEW l \in Items, NEW who \in Writers \cup {flusher}, Put(l, who)
  PROVE  LET r == [line |-> l, file |-> m_fp, by |-> who] IN
         /\ r \in Records /\ written' = Append(written, r) /\ written' \in Seq(Records)
         /\ \A k \in Items : Cardinality(Hits(written', IsLine(k))) =
                             Cardinality(Hits(written, IsLine(k))) + (IF k = l THEN 1 ELSE 0)
<1> DEFINE r == [line |-> l, file |-> m_fp, by |-> who]
<1>1. r \in Records
  BY LogAssumption DEF Records, IInv, TypeOK
<1>2. written' = Append(written, r)
  BY DEF Put
<1>3. written \in Seq(Records)
  BY DEF Stored
<1>4. \A k \in Items : r \in IsLine(k) <=> k = l
  BY <1>1 DEF IsLine
<1> HIDE DEF r
<1>5. \A k \in Items : Cardinality(Hits(written', IsLine(k))) =
                       Cardinality(Hits(written, IsLine(k))) + (IF k = l THEN 1 ELSE 0)
  <2>1. ASSUME NEW k \in Items
        PROVE Cardinality(Hits(written', IsLine(k))) =
                 Cardinality(Hits(written, IsLine(k))) + (IF k = l THEN 1 ELSE 0)
    BY <1>1, <1>2, <1>3, <1>4, HitsAppend
  <2> QED
    BY <2>1
<1> QED
  BY <1>1, <1>2, <1>3, <1>5 DEF r

LEMMA PushKeepsLInv ==
  ASSUME IInv, IInv', LInv, NEW w \in Writers, Push(w)
  PROVE  LInv'
<1> DEFINE x == LineOf(w)
<1>1. /\ x \in Items \ Logged /\ \A l \in Items : l \in Logged' <=> l \in Logged \/ l = x
  BY LogsLine DEF Push
<1>2. /\ QueueTypeOK /\ Ring /\ push(x) /\ At(w, "push") /\ GoTo(w, "flush")
      /\ UNCHANGED <<m_is_async, written, single_log>>
      /\ dropped' = IF full THEN dropped \cup {x} ELSE dropped
  BY DEF Push, fileVars, IInv, TypeOK
<1>3. Content' = IF full THEN Content ELSE Append(Content, x)
  BY <1>1, <1>2, PushStep
<1>4. Stored /\ EachOnce /\ OthersFilled
  BY DEF LInv
<1>5. Content' \in Seq(Items) /\ Len(Content') = m_size'
  <2>1. m_size' = IF full THEN m_size ELSE m_size + 1
    BY <1>2 DEF push
  <2>2. Content \in Seq(Items) /\ Len(Content) = m_size
    BY <1>4 DEF Stored
  <2> HIDE DEF x
  <2> QED
    BY <1>1, <1>3, <2>1, <2>2
<1>6. Stored'
  <2>1. m_is_async
    BY <1>2, <1>4 DEF Stored
  <2>2. m_is_async' /\ written' \in Seq(Records)
    BY <1>2, <1>4, <2>1 DEF Stored
  <2> QED
    BY <1>5, <2>2 DEF Stored
<1>7. ASSUME NEW l \in Items
      PROVE  Tally(Content', written', single_log', dropped', l) =
               Tally(Content, written, single_log, dropped, l) + (IF l = x THEN 1 ELSE 0)
  <2>1. Copies(x) = 0
    BY <1>1, <1>4 DEF EachOnce
  <2>2. Tally(Content, written, single_log, dropped, x) = 0
    BY <1>1, <2>1, CopiesIs
  <2>3. Content \in Seq(Items) /\ written \in Seq(Records)
    BY <1>4 DEF Stored
  <2>4. x \notin dropped
    <3> HIDE DEF x
    <3>1. /\ Tally(Content, written, single_log, dropped, x) =
               Cardinality(Hits(Content, {x})) + Cardinality(Hits(written, IsLine(x)))
                 + (IF x = single_log THEN 1 ELSE 0) + (IF x \in dropped THEN 1 ELSE 0)
          /\ Cardinality(Hits(Content, {x})) \in Nat /\ Cardinality(Hits(written, IsLine(x))) \in Nat
      BY <1>1, TallyNow DEF LInv
    <3> QED
      BY <2>2, <3>1
  <2>5. Cardinality(Hits(Content', {l})) = Cardinality(Hits(Content, {l})) + IF ~full /\ x = l THEN 1 ELSE 0
    <3> HIDE DEF x
    <3>0. Cardinality(Hits(Content, {l})) \in Nat
      BY <2>3, HitsFinite
    <3>1. CASE full
      BY <1>3, <3>0, <3>1
    <3>2. CASE ~full
      BY <1>1, <1>3, <2>3, <3>2, HitsAppend
    <3> QED
      BY <3>1, <3>2
  <2>6. l \in dropped' <=> l \in dropped \/ (full /\ l = x)
    BY <1>2
  <2> HIDE DEF x
  <2>7. /\ Tally(Content, written, single_log, dropped, l) =
             Cardinality(Hits(Content, {l})) + Cardinality(Hits(written, IsLine(l)))
               + (IF l = single_log THEN 1 ELSE 0) + (IF l \in dropped THEN 1 ELSE 0)
        /\ Cardinality(Hits(Content, {l})) \in Nat /\ Cardinality(Hits(written, IsLine(l))) \in Nat
    BY <2>3, TallyIs
  <2>8. Tally(Content', written', single_log', dropped', l) =
             Cardinality(Hits(Content', {l})) + Cardinality(Hits(written', IsLine(l)))
               + (IF l = single_log' THEN 1 ELSE 0) + (IF l \in dropped' THEN 1 ELSE 0)
    BY <1>2, <1>5, <2>3, TallyIs
  <2> QED
    BY <1>2, <2>4, <2>5, <2>6, <2>7, <2>8
<1>8. EachOnce'
  <2>1. ASSUME NEW l \in Items PROVE Copies(l)' = IF l \in Logged' THEN 1 ELSE 0
    <3>1. Tally(Content, written, single_log, dropped, l) = IF l \in Logged THEN 1 ELSE 0
      BY <1>4, CopiesIs DEF EachOnce
    <3>2. Copies(l)' = Tally(Content, written, single_log, dropped, l) + (IF l = x THEN 1 ELSE 0)
      BY <1>7, CopiesIs
    <3> QED
      BY <1>1, <3>1, <3>2
  <2> QED
    BY <2>1 DEF EachOnce
<1>9. OthersFilled'
  <2>1. ASSUME NEW v \in Writers, At(v, "push")' PROVE v # w
    BY <1>2, <2>1 DEF GoTo, At, IInv, TypeOK
  <2> QED
    BY <2>1 DEF OthersFilled
<1>10. ASSUME dropped' # {} PROVE Cardinality(Writers) > 1
  <2>1. CASE dropped # {}
    BY <2>1 DEF LInv
  <2>2. CASE dropped = {}
    <3>1. full
      BY <1>2, <1>10, <2>2
    <3>2. PICK v \in Writers : v # w
      BY <1>2, <1>4, <3>1 DEF OthersFilled
    <3>3. IsFiniteSet({w, v}) /\ Cardinality({w, v}) = 2 /\ {w, v} \subseteq Writers
      <4>1. {w, v} = {w} \cup {v} /\ v \notin {w}
        BY <3>2
      <4>2. IsFiniteSet({w}) /\ Cardinality({w}) = 1
        BY FS_Singleton
      <4> QED
        BY <4>1, <4>2, FS_AddElement
    <3>4. Cardinality({w, v}) <= Cardinality(Writers) /\ Cardinality(Writers) \in Nat
      BY <3>3, LogAssumption, FS_Subset, FS_CardinalityType
    <3> QED
      BY <3>3, <3>4
  <2> QED
    BY <2>1, <2>2
<1> QED
  BY <1>6, <1>8, <1>9, <1>10 DEF LInv

LEMMA FputsKeepsLInv ==
  ASSUME IInv, LInv, NEW w \in Writers, Fputs(w)
  PROVE  LInv'
<1> DEFINE x == LineOf(w)
<1>1. /\ x \in Items \ Logged /\ \A l \in Items : l \in Logged' <=> l \in Logged \/ l = x
  BY LogsLine DEF Fputs
<1>2. /\ At(w, "fputs") /\ GoTo(w, "flush") /\ Put(x, w)
      /\ UNCHANGED <<queueVars, m_is_async, single_log, dropped>>
  BY DEF Fputs
<1>3. Content' = Content /\ m_size' = m_size /\ full' = full
  BY <1>2 DEF Content, queueVars, full
<1>4. Stored /\ EachOnce /\ OthersFilled
  BY DEF LInv
<1>5. /\ written' \in Seq(Records)
      /\ \A k \in Items : Cardinality(Hits(written', IsLine(k))) =
                          Cardinality(Hits(written, IsLine(k))) + (IF k = x THEN 1 ELSE 0)
  BY <1>1, <1>2, <1>4, PutIs
<1>6. \A v \in Writers : At(v, "push")' => At(v, "push")
  BY <1>2 DEF GoTo, At, IInv, TypeOK
<1>7. Stored'
  BY <1>2, <1>3, <1>4, <1>5, <1>6 DEF Stored
<1>8. EachOnce'
  <2>1. ASSUME NEW l \in Items PROVE Copies(l)' = IF l \in Logged' THEN 1 ELSE 0
    <3> HIDE DEF x
    <3>1. Tally(Content, written, single_log, dropped, l) = IF l \in Logged THEN 1 ELSE 0
      BY <1>4, CopiesIs DEF EachOnce
    <3>2. /\ Tally(Content, written, single_log, dropped, l) =
               Cardinality(Hits(Content, {l})) + Cardinality(Hits(written, IsLine(l)))
                 + (IF l = single_log THEN 1 ELSE 0) + (IF l \in dropped THEN 1 ELSE 0)
          /\ Cardinality(Hits(Content, {l})) \in Nat /\ Cardinality(Hits(written, IsLine(l))) \in Nat
      BY TallyNow DEF LInv
    <3>3. Tally(Content', written', single_log', dropped', l) =
               Cardinality(Hits(Content', {l})) + Cardinality(Hits(written', IsLine(l)))
                 + (IF l = single_log' THEN 1 ELSE 0) + (IF l \in dropped' THEN 1 ELSE 0)
      BY <1>7, TallyIs DEF Stored
    <3>4. Copies(l)' = Tally(Content', written', single_log', dropped', l)
      BY CopiesIs
    <3> QED
      BY <1>1, <1>2, <1>3, <1>5, <3>1, <3>2, <3>3, <3>4
  <2> QED
    BY <2>1 DEF EachOnce
<1>9. OthersFilled'
  BY <1>3, <1>4, <1>6 DEF OthersFilled
<1> QED
  BY <1>2, <1>7, <1>8, <1>9 DEF LInv

LEMMA PopKeepsLInv ==
  ASSUME IInv, LInv, Pop
  PROVE  LInv'
<1>1. /\ QueueTypeOK /\ Ring /\ m_is_async /\ single_log = NULL /\ pop(flusher, single_log')
      /\ UNCHANGED <<m_is_async, writer, written, dropped>>
  BY DEF Pop, fileVars, IInv, TypeOK
<1>2. Content # <<>> /\ single_log' = Head(Content) /\ Content' = Tail(Content) /\ m_size' = m_size - 1
  BY <1>1, PopStep DEF pop
<1>3. Stored /\ EachOnce /\ OthersFilled
  BY DEF LInv
<1>4. /\ Content \in Seq(Items) /\ Len(Content) = m_size /\ written \in Seq(Records)
      /\ Head(Content) \in Items /\ Content' \in Seq(Items) /\ Len(Content') = m_size'
  BY <1>2, <1>3 DEF Stored
<1>5. Stored'
  BY <1>1, <1>3, <1>4 DEF Stored
<1>6. EachOnce'
  <2>1. ASSUME NEW l \in Items PROVE Copies(l)' = IF l \in Logged' THEN 1 ELSE 0
    <3>1. Tally(Content, written, single_log, dropped, l) = IF l \in Logged THEN 1 ELSE 0
      BY <1>3, CopiesIs DEF EachOnce
    <3>2. /\ Tally(Content, written, single_log, dropped, l) =
               Cardinality(Hits(Content, {l})) + Cardinality(Hits(written, IsLine(l)))
                 + (IF l = single_log THEN 1 ELSE 0) + (IF l \in dropped THEN 1 ELSE 0)
          /\ Cardinality(Hits(Content, {l})) \in Nat /\ Cardinality(Hits(written, IsLine(l))) \in Nat
      BY TallyNow DEF LInv
    <3>3. Tally(Content', written', single_log', dropped', l) =
               Cardinality(Hits(Content', {l})) + Cardinality(Hits(written', IsLine(l)))
                 + (IF l = single_log' THEN 1 ELSE 0) + (IF l \in dropped' THEN 1 ELSE 0)
      BY <1>5, TallyIs DEF Stored
    <3>7. Cardinality(Hits(Content', {l})) \in Nat
      BY <1>4, HitsFinite
    <3>4. Copies(l)' = Tally(Content', written', single_log', dropped', l) /\ Logged' = Logged
      BY <1>1, CopiesIs DEF Logged
    <3>5. Cardinality(Hits(Content, {l})) =
            Cardinality(Hits(Content', {l})) + (IF single_log' = l THEN 1 ELSE 0)
      BY <1>2, <1>4, HitsTail
    <3>6. l # NULL /\ single_log = NULL
      BY <1>1, BlockQueueAssumption
    <3> QED
      BY <1>1, <3>1, <3>2, <3>3, <3>4, <3>5, <3>6, <3>7
  <2> QED
    BY <2>1 DEF EachOnce
<1>7. OthersFilled'
  <2>1. m_size' <= m_size
    BY <1>1, <1>2 DEF QueueTypeOK
  <2>2. full' => full
    BY <1>1, <1>2, <2>1, BlockQueueAssumption DEF full, QueueTypeOK
  <2> QED
    BY <1>1, <1>3, <2>2 DEF OthersFilled, At
<1> QED
  BY <1>1, <1>5, <1>6, <1>7 DEF LInv

LEMMA WritePoppedKeepsLInv ==
  ASSUME IInv, LInv, WritePopped
  PROVE  LInv'
<1>1. /\ single_log \in Items /\ single_log' = NULL /\ Put(single_log, flusher)
      /\ UNCHANGED <<queueVars, m_is_async, writer, dropped>>
  BY DEF WritePopped, IInv, TypeOK
<1>2. Content' = Content /\ m_size' = m_size /\ full' = full /\ Logged' = Logged
  BY <1>1 DEF Content, queueVars, full, Logged
<1>3. Stored /\ EachOnce /\ OthersFilled
  BY DEF LInv
<1>4. /\ written' \in Seq(Records)
      /\ \A k \in Items : Cardinality(Hits(written', IsLine(k))) =
                          Cardinality(Hits(written, IsLine(k))) + (IF k = single_log THEN 1 ELSE 0)
  BY <1>1, <1>3, PutIs
<1>5. Stored'
  BY <1>1, <1>2, <1>3, <1>4 DEF Stored, At
<1>6. EachOnce'
  <2>1. ASSUME NEW l \in Items PROVE Copies(l)' = IF l \in Logged' THEN 1 ELSE 0
    <3>1. Tally(Content, written, single_log, dropped, l) = IF l \in Logged THEN 1 ELSE 0
      BY <1>3, CopiesIs DEF EachOnce
    <3>2. /\ Tally(Content, written, single_log, dropped, l) =
               Cardinality(Hits(Content, {l})) + Cardinality(Hits(written, IsLine(l)))
                 + (IF l = single_log THEN 1 ELSE 0) + (IF l \in dropped THEN 1 ELSE 0)
          /\ Cardinality(Hits(Content, {l})) \in Nat /\ Cardinality(Hits(written, IsLine(l))) \in Nat
      BY TallyNow DEF LInv
    <3>3. Tally(Content', written', single_log', dropped', l) =
               Cardinality(Hits(Content', {l})) + Cardinality(Hits(written', IsLine(l)))
                 + (IF l = single_log' THEN 1 ELSE 0) + (IF l \in dropped' THEN 1 ELSE 0)
      BY <1>5, TallyIs DEF Stored
    <3>4. Copies(l)' = Tally(Content', written', single_log', dropped', l)
      BY CopiesIs
    <3>5. l # NULL
      BY BlockQueueAssumption
    <3> QED
      BY <1>1, <1>2, <1>4, <3>1, <3>2, <3>3, <3>4, <3>5
  <2> QED
    BY <2>1 DEF EachOnce
<1>7. OthersFilled'
  BY <1>1, <1>2, <1>3 DEF OthersFilled, At
<1> QED
  BY <1>1, <1>5, <1>6, <1>7 DEF LInv

LEMMA LInvStep == IInv /\ IInv' /\ LInv /\ [Next]_vars => LInv'
<1> SUFFICES ASSUME IInv, IInv', LInv, [Next]_vars PROVE LInv'
  OBVIOUS
<1>0. UNCHANGED queueVars => Content' = Content /\ m_size' = m_size
  BY DEF queueVars, Content
<1>1. CASE UNCHANGED vars
  <2>1. /\ Content' = Content /\ m_size' = m_size /\ UNCHANGED <<m_is_async, written, single_log, dropped, writer>>
    BY <1>0, <1>1 DEF vars, fileVars
  <2>2. Logged' = Logged /\ \A w \in Writers : At(w, "push")' => At(w, "push")
    BY <2>1 DEF Logged, At
  <2> QED
    BY <2>1, <2>2, LInvStutters
<1>2. ASSUME NEW w \in Writers,
             \/ gettimeofday(w) \/ localtime(w) \/ CopyTime(w) \/ Count(w) \/ Format(w)
             \/ flush(w) \/ NoFlush(w)
      PROVE  LInv'
  <2>1. /\ UNCHANGED queueVars /\ UNCHANGED <<m_is_async, written, single_log, dropped>>
    BY <1>2 DEF gettimeofday, localtime, CopyTime, Count, Format, flush, NoFlush, fileVars
  <2>2. Logged' = Logged
    BY <1>2, LoggedStays
  <2>3. ASSUME NEW v \in Writers, At(v, "push")' PROVE At(v, "push") \/ (m_is_async /\ ~full)
    <3>1. CASE v # w
      BY <1>2, <2>3, <3>1 DEF gettimeofday, localtime, CopyTime, Count, Format, flush, NoFlush, GoTo, At, IInv, TypeOK
    <3>2. CASE v = w
      BY <1>2, <2>3, <3>2 DEF gettimeofday, localtime, CopyTime, Count, Format, flush, NoFlush, GoTo, At, IInv, TypeOK
    <3> QED
      BY <3>1, <3>2
  <2> QED
    BY <1>0, <2>1, <2>2, <2>3, LInvStutters
<1>3. ASSUME NEW w \in Writers, Push(w) PROVE LInv'
  BY <1>3, PushKeepsLInv
<1>4. ASSUME NEW w \in Writers, Fputs(w) PROVE LInv'
  BY <1>4, FputsKeepsLInv
<1>5. CASE Pop
  BY <1>5, PopKeepsLInv
<1>6. CASE WritePopped
  BY <1>6, WritePoppedKeepsLInv
<1>7. CASE PopWaits \/ Midnight
  <2>1. Content' = Content /\ m_size' = m_size
    BY <1>7 DEF PopWaits, popWaits, Spurious, Midnight, queueVars, Content
  <2>2. /\ UNCHANGED <<m_is_async, written, single_log, dropped, writer>>
    BY <1>7 DEF PopWaits, Midnight, fileVars
  <2>3. Logged' = Logged /\ \A w \in Writers : At(w, "push")' => At(w, "push")
    BY <2>2 DEF Logged, At
  <2> QED
    BY <2>1, <2>2, <2>3, LInvStutters
<1> QED
  BY <1>1, <1>2, <1>3, <1>4, <1>5, <1>6, <1>7 DEF Next, write_log, async_write_log

LEMMA LInvAlways == Spec => []LInv
  BY IInvAlways, IInvInit, LInvInit, LInvStep, PTL DEF Spec

(* A line that has been logged is in a file, in the queue or in the        *)
(* thread's hand, and once only; lines are lost only if there is a queue   *)
(* and another writer, which fills it between full() and push              *)
(* (log.cpp:171-173).                                                      *)
THEOREM EachLineIsSomewhereOnce == Spec => []EachLineOnce
<1>1. LInv => EachLineOnce
  BY DEF LInv, EachOnce, Stored, EachLineOnce
<1> QED
  BY <1>1, LInvAlways, PTL

-----------------------------------------------------------------------------
(* The order of a thread's lines.                                          *)

Before(l, k) == l.by = k.by => l.no < k.no

\* What flush_log_thread has in hand or has written comes before what is in
\* the queue, and what it has written before whatever is written afterwards.
InLine ==
  /\ \A i \in DOMAIN written : written[i].line \in Logged /\ written[i].by \in {written[i].line.by, flusher}
  /\ \A i \in DOMAIN Content : Content[i] \in Logged
  /\ single_log # NULL => single_log \in Logged
  /\ \A i, j \in DOMAIN Content : i < j => Before(Content[i], Content[j])
  /\ single_log # NULL => \A j \in DOMAIN Content : Before(single_log, Content[j])
  /\ \A i \in DOMAIN written : written[i].by = flusher =>
       /\ single_log # NULL => Before(written[i].line, single_log)
       /\ \A j \in DOMAIN Content : Before(written[i].line, Content[j])
  /\ \A i, j \in DOMAIN written :
       i < j /\ (written[i].by = flusher \/ ~m_is_async) => Before(written[i].line, written[j].line)

LEMMA LineIsLast ==
  ASSUME IInv, NEW w \in Writers, LineOf(w) \in Items \ Logged, NEW l \in Logged
  PROVE  Before(l, LineOf(w))
<1>1. l \in Items
  BY DEF Logged
<1>2. ASSUME l.by = w PROVE l.no < writer[w].no
  <2>1. l # LineOf(w)
    OBVIOUS
  <2>2. l.no # writer[w].no
    BY <1>1, <1>2, <2>1, ItemFacts DEF LineOf
  <2>3. l.no \in Nat /\ writer[w].no \in Nat
    BY <1>1, ItemFacts DEF IInv, TypeOK
  <2> QED
    BY <1>1, <1>2, <2>2, <2>3, LoggedIs
<1> QED
  BY <1>2, ItemFacts DEF Before

LEMMA InLineStutters ==
  ASSUME InLine, Content' = Content, UNCHANGED <<m_is_async, written, single_log>>, Logged \subseteq Logged'
  PROVE  InLine'
  BY DEF InLine

LEMMA PushKeepsInLine ==
  ASSUME IInv, LInv, InLine, NEW w \in Writers, Push(w)
  PROVE  InLine'
<1> DEFINE x == LineOf(w)
<1>1. /\ x \in Items \ Logged /\ \A l \in Items : l \in Logged' <=> l \in Logged \/ l = x
  BY LogsLine DEF Push
<1>2. /\ QueueTypeOK /\ Ring /\ push(x) /\ UNCHANGED <<m_is_async, written, single_log>>
  BY DEF Push, fileVars, IInv, TypeOK
<1>3. Content' = IF full THEN Content ELSE Append(Content, x)
  BY <1>1, <1>2, PushStep
<1>4. Logged \subseteq Logged' /\ x \in Logged'
  BY <1>1 DEF Logged
<1>5. \A l \in Logged : Before(l, x)
  BY <1>1, LineIsLast
<1>6. CASE full
  BY <1>2, <1>3, <1>4, <1>6, InLineStutters
<1>7. CASE ~full
  <2> HIDE DEF x
  <2>0. Content \in Seq(Items)
    BY DEF LInv, Stored
  <2>1. /\ DOMAIN Content' = 1 .. Len(Content) + 1 /\ DOMAIN Content = 1 .. Len(Content) /\ Len(Content) \in Nat
        /\ \A i \in DOMAIN Content' : Content'[i] = IF i = Len(Content) + 1 THEN x ELSE Content[i]
    BY <1>1, <1>3, <1>7, <2>0
  <2>2. \A i \in DOMAIN Content' : i \in DOMAIN Content \/ i = Len(Content) + 1
    BY <2>1
  <2>3. Len(Content) + 1 \notin DOMAIN Content
    BY <2>1
  <2>4. \A i \in DOMAIN Content' : Content'[i] \in Logged'
    BY <1>4, <2>1, <2>2 DEF InLine
  <2>5. ASSUME NEW i \in DOMAIN Content', NEW j \in DOMAIN Content', i < j
        PROVE  Before(Content'[i], Content'[j])
    <3>1. i \in DOMAIN Content /\ i # Len(Content) + 1
      BY <2>1, <2>5
    <3> QED
      BY <1>5, <2>1, <2>2, <2>5, <3>1 DEF InLine
  <2>6. \A j \in DOMAIN Content' : single_log # NULL => Before(single_log, Content'[j])
    BY <1>5, <2>1, <2>2 DEF InLine
  <2>7. ASSUME NEW i \in DOMAIN written, written[i].by = flusher, NEW j \in DOMAIN Content'
        PROVE  Before(written[i].line, Content'[j])
    BY <1>5, <2>1, <2>2, <2>7 DEF InLine
  <2> QED
    BY <1>2, <1>4, <2>4, <2>5, <2>6, <2>7 DEF InLine
<1> QED
  BY <1>6, <1>7

\* A line that is put into a file behind the others.
LEMMA PutKeepsInLine ==
  ASSUME IInv, Stored, InLine, NEW l \in Items, NEW who \in Writers \cup {flusher}, Put(l, who),
         l \in Logged', Logged \subseteq Logged', who \in {l.by, flusher},
         Content' = Content, m_is_async' = m_is_async, single_log' \in {single_log, NULL},
         \A i \in DOMAIN written : written[i].by = flusher \/ ~m_is_async => Before(written[i].line, l),
         who = flusher => \A j \in DOMAIN Content : Before(l, Content[j]),
         who = flusher => single_log' = NULL
  PROVE  InLine'
<1> DEFINE r == [line |-> l, file |-> m_fp, by |-> who]
           n == Len(written)
<1>1. r \in Records /\ written' = Append(written, r) /\ written \in Seq(Records)
  BY PutIs DEF Stored
<1>2. r.line = l /\ r.by = who
  OBVIOUS
<1> HIDE DEF r
<1>3. /\ DOMAIN written' = 1 .. n + 1 /\ DOMAIN written = 1 .. n /\ n \in Nat
      /\ \A i \in DOMAIN written' : written'[i] = IF i = n + 1 THEN r ELSE written[i]
  BY <1>1
<1>4. \A i \in DOMAIN written' : i \in DOMAIN written \/ i = n + 1
  BY <1>3
<1>5. \A i \in DOMAIN written' : written'[i].line \in Logged' /\ written'[i].by \in {written'[i].line.by, flusher}
  BY <1>2, <1>3, <1>4 DEF InLine
<1>6. ASSUME NEW i \in DOMAIN written', written'[i].by = flusher
      PROVE  /\ single_log' # NULL => Before(written'[i].line, single_log')
             /\ \A j \in DOMAIN Content' : Before(written'[i].line, Content'[j])
  <2>1. CASE i = n + 1
    BY <1>2, <1>3, <1>6, <2>1
  <2>2. CASE i # n + 1
    BY <1>3, <1>4, <1>6, <2>2 DEF InLine
  <2> QED
    BY <2>1, <2>2
<1>7. ASSUME NEW i \in DOMAIN written', NEW j \in DOMAIN written', i < j,
             written'[i].by = flusher \/ ~m_is_async'
      PROVE  Before(written'[i].line, written'[j].line)
  <2>1. i \in DOMAIN written /\ i # n + 1 /\ written'[i] = written[i]
    BY <1>3, <1>7
  <2>2. CASE j = n + 1
    BY <1>2, <1>3, <1>7, <2>1, <2>2
  <2>3. CASE j # n + 1
    BY <1>3, <1>4, <1>7, <2>1, <2>3 DEF InLine
  <2> QED
    BY <2>2, <2>3
<1>8. /\ \A i \in DOMAIN Content' : Content'[i] \in Logged'
      /\ single_log' # NULL => single_log' \in Logged'
      /\ \A i, j \in DOMAIN Content' : i < j => Before(Content'[i], Content'[j])
      /\ single_log' # NULL => \A j \in DOMAIN Content' : Before(single_log', Content'[j])
  BY DEF InLine
<1> QED
  BY <1>5, <1>6, <1>7, <1>8 DEF InLine

LEMMA InLineStep == IInv /\ LInv /\ InLine /\ [Next]_vars => InLine'
<1> SUFFICES ASSUME IInv, LInv, InLine, [Next]_vars PROVE InLine'
  OBVIOUS
<1>0. (UNCHANGED queueVars => Content' = Content) /\ Stored
  BY DEF queueVars, Content, LInv
<1>1. CASE UNCHANGED vars
  <2>1. Content' = Content /\ UNCHANGED <<m_is_async, written, single_log, writer>>
    BY <1>0, <1>1 DEF vars, fileVars
  <2> QED
    BY <2>1, InLineStutters DEF Logged
<1>2. ASSUME NEW w \in Writers,
             \/ gettimeofday(w) \/ localtime(w) \/ CopyTime(w) \/ Count(w) \/ Format(w)
             \/ flush(w) \/ NoFlush(w)
      PROVE  InLine'
  <2>1. /\ UNCHANGED queueVars /\ UNCHANGED <<m_is_async, written, single_log>>
    BY <1>2 DEF gettimeofday, localtime, CopyTime, Count, Format, flush, NoFlush, fileVars
  <2>2. Logged' = Logged
    BY <1>2, LoggedStays
  <2> QED
    BY <1>0, <2>1, <2>2, InLineStutters
<1>3. ASSUME NEW w \in Writers, Push(w) PROVE InLine'
  BY <1>3, PushKeepsInLine
<1>4. ASSUME NEW w \in Writers, Fputs(w) PROVE InLine'
  <2>1. /\ LineOf(w) \in Items \ Logged
        /\ \A l \in Items : l \in Logged' <=> l \in Logged \/ l = LineOf(w)
    BY <1>4, LogsLine DEF Fputs
  <2>2. Logged \subseteq Logged' /\ LineOf(w) \in Logged'
    BY <2>1 DEF Logged
  <2>3. \A i \in DOMAIN written : Before(written[i].line, LineOf(w))
    BY <2>1, LineIsLast DEF InLine
  <2>4. Put(LineOf(w), w) /\ UNCHANGED <<queueVars, m_is_async, single_log>>
    BY <1>4 DEF Fputs
  <2>5. LineOf(w).by = w /\ w # flusher
    BY LogAssumption, ItemFacts
  <2> QED
    BY <1>0, <2>1, <2>2, <2>3, <2>4, <2>5, PutKeepsInLine
<1>5. CASE Pop
  <2>1. /\ QueueTypeOK /\ Ring /\ pop(flusher, single_log') /\ single_log = NULL
        /\ UNCHANGED <<m_is_async, writer, written>>
    BY <1>5 DEF Pop, fileVars, IInv, TypeOK
  <2>2. Content # <<>> /\ single_log' = Head(Content) /\ Content' = Tail(Content) /\ Content \in Seq(Items)
    BY <1>0, <2>1, PopStep DEF Stored
  <2>3. /\ DOMAIN Content' = 1 .. Len(Content) - 1 /\ DOMAIN Content = 1 .. Len(Content) /\ Len(Content) \in Nat
        /\ 1 \in DOMAIN Content /\ single_log' = Content[1]
        /\ \A i \in DOMAIN Content' : Content'[i] = Content[i + 1]
    BY <2>2
  <2>4. \A i \in DOMAIN Content' : i + 1 \in DOMAIN Content /\ 1 < i + 1
    BY <2>3
  <2>5. \A i, j \in DOMAIN Content' : i < j => i + 1 < j + 1
    BY <2>3
  <2>6. Logged' = Logged
    BY <2>1 DEF Logged
  <2>7. \A i, j \in DOMAIN Content' : i < j => Before(Content'[i], Content'[j])
    BY <2>3, <2>4, <2>5 DEF InLine
  <2>8. \A j \in DOMAIN Content' : Before(single_log', Content'[j])
    BY <2>3, <2>4 DEF InLine
  <2>9. ASSUME NEW i \in DOMAIN written, written[i].by = flusher
        PROVE  /\ Before(written[i].line, single_log')
               /\ \A j \in DOMAIN Content' : Before(written[i].line, Content'[j])
    BY <2>3, <2>4, <2>9 DEF InLine
  <2>10. single_log' \in Logged /\ \A i \in DOMAIN Content' : Content'[i] \in Logged
    BY <2>3, <2>4 DEF InLine
  <2> QED
    BY <2>1, <2>6, <2>7, <2>8, <2>9, <2>10 DEF InLine
<1>6. CASE WritePopped
  <2>1. /\ single_log \in Items /\ single_log # NULL /\ single_log' = NULL /\ Put(single_log, flusher)
        /\ UNCHANGED <<queueVars, m_is_async, writer>>
    BY <1>6 DEF WritePopped, IInv, TypeOK
  <2>2. Logged' = Logged /\ m_is_async /\ single_log \in Logged
    BY <1>0, <2>1 DEF Logged, Stored, InLine
  <2>3. \A i \in DOMAIN written : written[i].by = flusher \/ ~m_is_async => Before(written[i].line, single_log)
    BY <2>1, <2>2 DEF InLine
  <2>4. \A j \in DOMAIN Content : Before(single_log, Content[j])
    BY <2>1 DEF InLine
  <2> QED
    BY <1>0, <2>1, <2>2, <2>3, <2>4, PutKeepsInLine
<1>7. CASE PopWaits \/ Midnight
  <2>1. Content' = Content
    BY <1>7 DEF PopWaits, popWaits, Spurious, Midnight, queueVars, Content
  <2>2. UNCHANGED <<m_is_async, written, single_log, writer>>
    BY <1>7 DEF PopWaits, Midnight, fileVars
  <2> QED
    BY <2>1, <2>2, InLineStutters DEF Logged
<1> QED
  BY <1>1, <1>2, <1>3, <1>4, <1>5, <1>6, <1>7 DEF Next, write_log, async_write_log

(* The lines of a thread reach the files in the order in which it logged   *)
(* them; only a line that its writer put there itself, because the queue   *)
(* was full, can be ahead of older ones (log.cpp:171-180).                 *)
THEOREM LinesKeepTheirOrder == Spec => []OrderKept
<1>1. Init => InLine
  <2>1. Init => Content = <<>> /\ DOMAIN Content = {}
    BY DEF Init, QueueInit, Content
  <2> QED
    BY <2>1 DEF Init, InLine
<1>2. LInv /\ IInv /\ InLine => OrderKept
  <2> SUFFICES ASSUME LInv, IInv, InLine, NEW i \in DOMAIN written, NEW j \in DOMAIN written,
                      i < j, written[i].line.by = written[j].line.by,
                      written[j].line.no < written[i].line.no
               PROVE  m_is_async /\ written[i].by = written[i].line.by
    BY DEF OrderKept
  <2>1. written[i].line \in Items /\ written[j].line \in Items
    BY DEF InLine, Logged
  <2>2. ~Before(written[i].line, written[j].line)
    BY <2>1, ItemFacts DEF Before
  <2> QED
    BY <2>2 DEF InLine
<1> QED
  BY <1>1, <1>2, InLineStep, LInvAlways, IInvAlways, PTL DEF Spec

-----------------------------------------------------------------------------
(* Lines to a file, until midnight.                                        *)

LEMMA Divides ==
  ASSUME NEW m \in Nat \ {0}, NEW x \in Nat
  PROVE  x = m * (x \div m) + (x % m) /\ x % m \in 0 .. m - 1 /\ x \div m \in Nat
  OBVIOUS
LEMMA Positive ==
  ASSUME NEW m \in Nat \ {0}, NEW d \in Nat \ {0}
  PROVE  m * d >= m
  OBVIOUS
LEMMA Multiple ==
  ASSUME NEW m \in Nat \ {0}, NEW k \in Nat, NEW x \in Nat, x = m * k
  PROVE  x % m = 0
<1>1. PICK q \in Nat, r \in 0 .. m - 1 : x = m * q + r /\ r = x % m
  BY Divides
<1>2. CASE k > q
  <2>1. k - q \in Nat \ {0} /\ m * (k - q) >= m
    BY <1>2, Positive
  <2>2. m * (k - q) = m * k - m * q
    OBVIOUS
  <2> QED
    BY <1>1, <2>1, <2>2
<1>3. CASE k < q
  <2>1. q - k \in Nat \ {0} /\ m * (q - k) >= m
    BY <1>3, Positive
  <2>2. m * (q - k) = m * q - m * k
    OBVIOUS
  <2> QED
    BY <1>1, <2>1, <2>2
<1>4. CASE k = q
  <2>1. m * k = m * q
    BY <1>4
  <2> QED
    BY <1>1, <2>1
<1> QED
  BY <1>2, <1>3, <1>4
LEMMA NextMultiple ==
  ASSUME NEW m \in Nat \ {0}, NEW c \in Nat, NEW n \in Nat, c * m <= n, n < (c + 1) * m
  PROVE  IF (n + 1) % m = 0 THEN (n + 1) \div m = c + 1 /\ n + 1 = (c + 1) * m
                            ELSE n + 1 < (c + 1) * m
<1> DEFINE q == (n + 1) \div m
<1>1. n + 1 = m * q + ((n + 1) % m) /\ q \in Nat
  BY Divides
<1> HIDE DEF q
<1>2. c * m = m * c /\ (c + 1) * m = m * c + m
  OBVIOUS
<1>3. CASE (n + 1) % m = 0
  <2>1. n + 1 = m * q
    BY <1>1, <1>3
  <2>2. ASSUME q > c + 1 PROVE FALSE
    <3>1. q - (c + 1) \in Nat \ {0} /\ m * (q - (c + 1)) >= m
      BY <1>1, <2>2, Positive
    <3>2. m * (q - (c + 1)) = m * q - (m * c + m)
      BY <1>1
    <3> QED
      BY <1>2, <2>1, <3>1, <3>2
  <2>3. ASSUME q < c + 1 PROVE FALSE
    <3>1. c - q \in Nat /\ m * (c - q) >= 0
      BY <1>1, <2>3
    <3>2. m * (c - q) = m * c - m * q
      BY <1>1
    <3> QED
      BY <1>2, <2>1, <3>1, <3>2
  <2>4. q = c + 1
    BY <1>1, <2>2, <2>3
  <2> QED
    BY <1>2, <1>3, <2>1, <2>4 DEF q
<1>4. CASE (n + 1) % m # 0
  <2>1. ASSUME n + 1 = m * (c + 1) PROVE FALSE
    <3>1. n + 1 \in Nat /\ c + 1 \in Nat
      OBVIOUS
    <3>2. (n + 1) % m = 0
      BY <2>1, <3>1, Multiple
    <3> QED
      BY <1>4, <3>2
  <2>2. m * (c + 1) = m * c + m
    OBVIOUS
  <2> QED
    BY <1>2, <1>4, <2>1, <2>2
<1> QED
  BY <1>3, <1>4

\* The writers that have counted a line and not yet passed it on, and all the
\* counted lines that are in no file.
InHand == {w \in Writers : writer[w].pc \in {"format", "push", "fputs"}}
UnderWay == Cardinality(InHand) + m_size + (IF single_log = NULL THEN 0 ELSE 1) + Cardinality(dropped)

Room == IF m_is_async THEN m_max_size + 1 ELSE 0
Bound(k) == (IF k = 0 THEN m_split_lines - 1 ELSE m_split_lines + Cardinality(Writers) - 1) + Room

PartIs(k) == {r \in Records : r.file.part = k}
PartBelow(k) == {r \in Records : r.file.part < k}
LinesIn(k) == Cardinality(Hits(written, PartIs(k)))
LinesBefore(k) == Cardinality(Hits(written, PartBelow(k)))

\* The file that is open has its share of the counted lines, and of the lines
\* counted before it was opened no more than there were hands, queue and losses
\* are missing in the older ones.
SplitNow ==
  /\ m_fp.part * m_split_lines <= m_count /\ m_count < (m_fp.part + 1) * m_split_lines
  /\ Len(written) + UnderWay = m_count
  /\ \A i \in DOMAIN written : written[i].file.part <= m_fp.part
  /\ LinesBefore(m_fp.part) + LinesIn(m_fp.part) = Len(written)
  /\ LinesBefore(m_fp.part) + Cardinality(dropped) + Cardinality(Writers) + Room
       >= m_fp.part * m_split_lines
  /\ \A k \in Nat : LinesIn(k) <= Bound(k)

SInv == IsFiniteSet(dropped) /\ (today = 0 => SplitNow)

LEMMA SplitTypes ==
  ASSUME IInv, Stored, IsFiniteSet(dropped)
  PROVE  /\ IsFiniteSet(InHand) /\ Cardinality(InHand) \in Nat
         /\ Cardinality(InHand) <= Cardinality(Writers) /\ Cardinality(Writers) \in Nat
         /\ m_size \in Nat /\ Cardinality(dropped) \in Nat /\ Room \in Nat
         /\ UnderWay \in Nat /\ UnderWay <= Cardinality(Writers) + Room + Cardinality(dropped)
         /\ m_fp.part \in Nat /\ m_count \in Nat /\ m_split_lines \in Nat \ {0} /\ Len(written) \in Nat
         /\ \A k \in Nat : LinesIn(k) \in Nat /\ LinesBefore(k) \in Nat
<1> USE LogAssumption, BlockQueueAssumption
<1>1. IsFiniteSet(InHand) /\ Cardinality(InHand) <= Cardinality(Writers)
  <2>1. InHand \in SUBSET Writers
    BY DEF InHand
  <2> QED
    BY <2>1, FS_Subset
<1>2. Cardinality(InHand) \in Nat /\ Cardinality(Writers) \in Nat /\ Cardinality(dropped) \in Nat
  BY <1>1, FS_CardinalityType
<1>3. m_size \in 0 .. m_max_size /\ (~m_is_async => m_size = 0 /\ single_log = NULL) /\ m_is_async \in BOOLEAN
  BY DEF IInv, TypeOK, QueueTypeOK, Stored
<1>4. Room \in Nat /\ UnderWay \in Nat /\ UnderWay <= Cardinality(Writers) + Room + Cardinality(dropped)
  BY <1>1, <1>2, <1>3 DEF Room, UnderWay
<1>5. m_fp.part \in Nat /\ m_count \in Nat
  BY DEF IInv, TypeOK
<1>6. Len(written) \in Nat /\ \A k \in Nat : LinesIn(k) \in Nat /\ LinesBefore(k) \in Nat
  <2>1. written \in Seq(Records)
    BY DEF Stored
  <2> QED
    BY <2>1, HitsFinite DEF LinesIn, LinesBefore
<1> QED
  BY <1>1, <1>2, <1>3, <1>4, <1>5, <1>6

\* A line in hand is put into the file that is open.
LEMMA PutKeepsSplit ==
  ASSUME IInv, Stored, IsFiniteSet(dropped), SplitNow,
         NEW l \in Items, NEW who \in Writers \cup {flusher}, Put(l, who),
         UNCHANGED <<m_is_async, m_count, m_fp, dropped>>,
         UnderWay' = UnderWay - 1, Cardinality(dropped) <= UnderWay'
  PROVE  SplitNow'
<1> DEFINE r == [line |-> l, file |-> m_fp, by |-> who]
<1>1. r \in Records /\ written' = Append(written, r) /\ written \in Seq(Records)
  BY PutIs DEF Stored
<1>0. PICK c \in Nat : c = m_fp.part
  BY DEF IInv, TypeOK
<1>2. r.file.part = c /\ m_fp'.part = c
  BY <1>0
<1> HIDE DEF r
<1>3. Len(written') = Len(written) + 1 /\ Len(written) \in Nat
  BY <1>1
<1>4. \A k \in Nat : LinesIn(k)' = LinesIn(k) + (IF k = c THEN 1 ELSE 0) /\ LinesIn(k) \in Nat
  <2>1. ASSUME NEW k \in Nat
        PROVE Cardinality(Hits(written', PartIs(k))) =
                Cardinality(Hits(written, PartIs(k))) + (IF r \in PartIs(k) THEN 1 ELSE 0)
    BY <1>1, HitsAppend
  <2>2. \A k \in Nat : r \in PartIs(k) <=> k = c
    BY <1>1, <1>2 DEF PartIs
  <2>3. \A k \in Nat : LinesIn(k) \in Nat
    BY SplitTypes
  <2> QED
    BY <2>1, <2>2, <2>3 DEF LinesIn
<1>5. LinesBefore(c)' = LinesBefore(c) /\ LinesBefore(c) \in Nat
  <2>1. Cardinality(Hits(written', PartBelow(c))) =
          Cardinality(Hits(written, PartBelow(c))) + (IF r \in PartBelow(c) THEN 1 ELSE 0)
    BY <1>1, HitsAppend
  <2>2. r \notin PartBelow(c)
    BY <1>2 DEF PartBelow
  <2>3. LinesBefore(c) \in Nat
    BY SplitTypes
  <2> QED
    BY <2>1, <2>2, <2>3 DEF LinesBefore
<1>6. LinesIn(c)' = LinesIn(c) + 1 /\ LinesIn(c) \in Nat
  BY <1>4
<1>7. \A i \in DOMAIN written' : written'[i].file.part <= c
  BY <1>0, <1>1, <1>2 DEF SplitNow
<1>8. Room' = Room /\ \A k \in Nat : Bound(k)' = Bound(k)
  BY DEF Room, Bound
<1>9. UnderWay \in Nat
  BY SplitTypes
<1>10. LinesBefore(c) + LinesIn(c) = Len(written) /\ Len(written) + UnderWay = m_count
  BY <1>0 DEF SplitNow
<1>11. c * m_split_lines <= m_count /\ m_count < (c + 1) * m_split_lines
  BY <1>0 DEF SplitNow
<1>12. LinesBefore(c) + Cardinality(dropped) + Cardinality(Writers) + Room >= c * m_split_lines
  BY <1>0 DEF SplitNow
<1>13. Len(written') + UnderWay' = m_count
  BY <1>3, <1>9, <1>10
<1>14. LinesBefore(c)' + LinesIn(c)' = Len(written')
  BY <1>3, <1>5, <1>6, <1>10
<1>15. LinesIn(c)' <= Bound(c)
  <2>1. /\ m_split_lines \in Nat \ {0} /\ m_count \in Nat /\ Cardinality(dropped) \in Nat
        /\ Cardinality(Writers) \in Nat /\ Room \in Nat
    BY SplitTypes
  <2>2. LinesIn(c)' \in Nat /\ LinesBefore(c)' \in Nat /\ Len(written') \in Nat
    BY <1>3, <1>5, <1>6
  <2>3. UnderWay' \in Nat
    BY <1>9, <2>1
  <2>4. LinesBefore(c)' + Cardinality(dropped) + Cardinality(Writers) + Room >= c * m_split_lines
    BY <1>5, <1>12
  <2>5. LinesIn(c)' <= (IF c = 0 THEN m_split_lines - 1 ELSE m_split_lines + Cardinality(Writers) - 1) + Room
    <3>1. PICK share \in Nat : share = c * m_split_lines
      BY <2>1
    <3>2. (c + 1) * m_split_lines = share + m_split_lines /\ (c = 0 => share = 0)
      BY <2>1, <3>1
    <3>3. m_count < share + m_split_lines
      BY <1>11, <3>2
    <3>4. LinesBefore(c)' + Cardinality(dropped) + Cardinality(Writers) + Room >= share
      BY <2>4, <3>1
    <3>5. LinesIn(c)' + LinesBefore(c)' + UnderWay' = m_count
      BY <1>13, <1>14, <2>2, <2>3
    <3>6. PICK in \in Nat, before \in Nat, away \in Nat : in = LinesIn(c)' /\ before = LinesBefore(c)' /\ away = UnderWay'
      BY <2>2, <2>3
    <3>7. PICK lost \in Nat, hands \in Nat, room \in Nat, m \in Nat, split \in Nat :
            lost = Cardinality(dropped) /\ hands = Cardinality(Writers) /\ room = Room /\ m = m_count /\ split = m_split_lines
      BY <2>1
    <3>8. in + before + away = m /\ m < share + split
      BY <3>3, <3>5, <3>6, <3>7
    <3>9. before + lost + hands + room >= share /\ lost <= away
      BY <3>4, <3>6, <3>7
    <3>10. in <= split + hands - 1 + room /\ (share = 0 => in <= split - 1 + room)
      BY <3>8, <3>9
    <3>11. LinesIn(c)' <= m_split_lines + Cardinality(Writers) - 1 + Room
      BY <3>6, <3>7, <3>10
    <3>12. c = 0 => LinesIn(c)' <= m_split_lines - 1 + Room
      BY <3>2, <3>6, <3>7, <3>10
    <3> QED
      BY <3>11, <3>12
  <2> QED
    BY <2>5 DEF Bound
<1>16. ASSUME NEW k \in Nat PROVE LinesIn(k)' <= Bound(k)'
  <2>1. CASE k = c
    BY <1>8, <1>15, <2>1
  <2>2. CASE k # c
    <3>1. LinesIn(k)' = LinesIn(k) /\ LinesIn(k) \in Nat
      BY <1>4, <2>2
    <3>2. LinesIn(k) <= Bound(k) /\ Bound(k)' = Bound(k)
      BY <1>8 DEF SplitNow
    <3> QED
      BY <3>1, <3>2
  <2> QED
    BY <2>1, <2>2
<1>17. m_fp'.part * m_split_lines <= m_count' /\ m_count' < (m_fp'.part + 1) * m_split_lines
  BY <1>2, <1>11
<1>18. /\ LinesBefore(m_fp.part)' + LinesIn(m_fp.part)' = Len(written')
       /\ LinesBefore(m_fp.part)' + Cardinality(dropped') + Cardinality(Writers) + Room' >= m_fp'.part * m_split_lines
  BY <1>0, <1>2, <1>5, <1>8, <1>12, <1>14
<1> QED
  BY <1>2, <1>7, <1>13, <1>16, <1>17, <1>18 DEF SplitNow

\* Lines move on between a hand, the queue and the losses.
LEMMA MoveKeepsSplit ==
  ASSUME IInv, Stored, IsFiniteSet(dropped), SplitNow,
         UNCHANGED <<m_is_async, m_count, m_fp, written>>, UnderWay' = UnderWay,
         Cardinality(dropped') \in Nat, Cardinality(dropped) <= Cardinality(dropped')
  PROVE  SplitNow'
<1>1. Room' = Room /\ \A k \in Nat : Bound(k)' = Bound(k) /\ LinesIn(k)' = LinesIn(k)
  BY DEF Room, Bound, LinesIn
<1>2. LinesIn(m_fp.part)' = LinesIn(m_fp.part) /\ LinesBefore(m_fp.part)' = LinesBefore(m_fp.part)
  BY DEF LinesIn, LinesBefore
<1>3. LinesBefore(m_fp.part) + Cardinality(dropped) + Cardinality(Writers) + Room >= m_fp.part * m_split_lines
  BY DEF SplitNow
<1>4. /\ LinesBefore(m_fp.part) \in Nat /\ Cardinality(Writers) \in Nat /\ Room \in Nat
      /\ Cardinality(dropped) \in Nat /\ m_fp.part * m_split_lines \in Nat
  <2>1. m_fp.part \in Nat /\ m_split_lines \in Nat
    BY SplitTypes
  <2>2. m_fp.part * m_split_lines \in Nat
    BY <2>1
  <2> QED
    BY <2>1, <2>2, SplitTypes
<1>5. LinesBefore(m_fp.part) + Cardinality(dropped') + Cardinality(Writers) + Room >= m_fp.part * m_split_lines
  BY <1>3, <1>4
<1> QED
  BY <1>1, <1>2, <1>5 DEF SplitNow

LEMMA HandChanges ==
  ASSUME IInv, NEW w \in Writers
  PROVE  /\ At(w, "count") /\ GoTo(w, "format") => Cardinality(InHand') = Cardinality(InHand) + 1
         /\ (At(w, "push") \/ At(w, "fputs")) /\ GoTo(w, "flush")
              => Cardinality(InHand') = Cardinality(InHand) - 1
         /\ UNCHANGED writer => InHand' = InHand
<1> USE DEF IInv, TypeOK
<1>1. IsFiniteSet(InHand) /\ Cardinality(InHand) \in Nat
  <2>1. InHand \in SUBSET Writers /\ IsFiniteSet(Writers)
    BY LogAssumption DEF InHand
  <2> QED
    BY <2>1, FS_Subset, FS_CardinalityType
<1>2. ASSUME At(w, "count"), GoTo(w, "format")
      PROVE  Cardinality(InHand') = Cardinality(InHand) + 1
  <2>1. w \notin InHand /\ InHand' = InHand \cup {w}
    BY <1>2 DEF At, GoTo, InHand
  <2> QED
    BY <1>1, <2>1, FS_AddElement
<1>3. ASSUME At(w, "push") \/ At(w, "fputs"), GoTo(w, "flush")
      PROVE  Cardinality(InHand') = Cardinality(InHand) - 1
  <2>1. w \in InHand /\ InHand' = InHand \ {w}
    BY <1>3 DEF At, GoTo, InHand
  <2> QED
    BY <1>1, <2>1, FS_RemoveElement
<1>4. UNCHANGED writer => InHand' = InHand
  BY DEF InHand
<1> QED
  BY <1>2, <1>3, <1>4

\* A line is counted, and perhaps another file opened.
LEMMA CountKeepsSplit ==
  ASSUME IInv, Stored, IsFiniteSet(dropped), SplitNow, today = 0, NEW w \in Writers, Count(w)
  PROVE  SplitNow'
<1>1. PICK c \in Nat : c = m_fp.part
  BY DEF IInv, TypeOK
<1>2. m_today = writer[w].my_tm
  BY DEF IInv, TypeOK
<1>3. /\ UNCHANGED <<m_is_async, m_size, single_log, dropped, written>>
      /\ At(w, "count") /\ GoTo(w, "format")
  BY DEF Count, queueVars
<1>4. m_count' = m_count + 1
  BY <1>2 DEF Count
<1>5. UnderWay' = UnderWay + 1 /\ Cardinality(InHand) \in Nat
  <2>1. /\ Cardinality(InHand') = Cardinality(InHand) + 1 /\ Cardinality(InHand) \in Nat
        /\ m_size \in Nat /\ Cardinality(dropped) \in Nat
    BY <1>3, HandChanges, SplitTypes
  <2> QED
    BY <1>3, <2>1 DEF UnderWay
<1>6. /\ UnderWay \in Nat /\ Len(written) \in Nat /\ m_count \in Nat /\ m_split_lines \in Nat \ {0}
      /\ Cardinality(dropped) \in Nat /\ Cardinality(Writers) \in Nat /\ Room \in Nat
      /\ UnderWay <= Cardinality(Writers) + Room + Cardinality(dropped)
  BY SplitTypes
<1>7. Len(written) + UnderWay = m_count /\ Len(written') + UnderWay' = m_count'
  BY <1>3, <1>4, <1>5, <1>6 DEF SplitNow
<1>8. c * m_split_lines <= m_count /\ m_count < (c + 1) * m_split_lines
  BY <1>1 DEF SplitNow
<1>9. \A i \in DOMAIN written : written[i].file.part <= c /\ written[i] \in Records
  BY <1>1 DEF SplitNow, Stored
<1>10. Room' = Room /\ \A k \in Nat : LinesIn(k)' = LinesIn(k) /\ LinesBefore(k)' = LinesBefore(k) /\ Bound(k)' = Bound(k)
  BY <1>3 DEF Room, LinesIn, LinesBefore, Bound
<1>11. \A k \in Nat : LinesIn(k)' <= Bound(k)'
  BY <1>10 DEF SplitNow
<1>12. CASE (m_count + 1) % m_split_lines = 0
  <2>1. m_fp'.part = (m_count + 1) \div m_split_lines
    BY <1>2, <1>12 DEF Count, File
  <2>2. m_fp'.part = c + 1 /\ m_count' = (c + 1) * m_split_lines
    BY <1>4, <1>6, <1>8, <1>12, <2>1, NextMultiple
  <2>3. LinesBefore(c + 1) = Len(written)
    <3>1. written \in Seq(Records) /\ DOMAIN written = 1 .. Len(written)
      BY DEF Stored
    <3>2. Hits(written, PartBelow(c + 1)) = 1 .. Len(written)
      <4>1. \A i \in DOMAIN written : written[i].file.part \in Nat
        BY <1>9 DEF Records
      <4> QED
        BY <1>9, <3>1, <4>1 DEF Hits, PartBelow
    <3>3. Cardinality(1 .. Len(written)) = Len(written)
      <4>1. PICK n \in Nat : n = Len(written)
        BY <1>6
      <4>2. Cardinality(1 .. n) = n
        BY UpTo
      <4> QED
        BY <4>1, <4>2
    <3> QED
      BY <3>2, <3>3 DEF LinesBefore
  <2>4. LinesIn(c + 1) = 0
    <3>1. Hits(written, PartIs(c + 1)) = {}
      BY <1>9 DEF Hits, PartIs
    <3> QED
      BY <3>1, FS_EmptySet DEF LinesIn
  <2>5. c + 1 \in Nat
    OBVIOUS
  <2>6. LinesBefore(m_fp.part)' = Len(written) /\ LinesIn(m_fp.part)' = 0
    <3>1. LinesBefore(m_fp.part)' = Cardinality(Hits(written, PartBelow(c + 1)))
      BY <1>3, <2>2 DEF LinesBefore
    <3>2. LinesIn(m_fp.part)' = Cardinality(Hits(written, PartIs(c + 1)))
      BY <1>3, <2>2 DEF LinesIn
    <3> QED
      BY <2>3, <2>4, <3>1, <3>2 DEF LinesBefore, LinesIn
  <2>7. m_fp'.part * m_split_lines <= m_count' /\ m_count' < (m_fp'.part + 1) * m_split_lines
    <3>1. PICK share \in Nat : share = (c + 1) * m_split_lines
      BY <1>6
    <3>2. (c + 1 + 1) * m_split_lines = share + m_split_lines
      BY <1>6, <3>1
    <3> QED
      BY <1>6, <2>2, <3>1, <3>2
  <2>8. LinesBefore(m_fp.part)' + Cardinality(dropped') + Cardinality(Writers) + Room' >= m_fp'.part * m_split_lines
    <3>1. UnderWay' <= Cardinality(Writers) + Room' + Cardinality(dropped') /\ UnderWay' \in Nat
      <4>1. Cardinality(InHand') <= Cardinality(Writers)
        <5>1. InHand' \in SUBSET Writers /\ IsFiniteSet(Writers)
          BY LogAssumption DEF InHand
        <5> QED
          BY <5>1, FS_Subset
      <4>2. UnderWay' = Cardinality(InHand') + m_size + (IF single_log = NULL THEN 0 ELSE 1) + Cardinality(dropped)
        BY <1>3 DEF UnderWay
      <4>3. /\ m_size \in 0 .. m_max_size /\ m_is_async \in BOOLEAN
            /\ ~m_is_async => m_size = 0 /\ single_log = NULL
        BY DEF IInv, TypeOK, QueueTypeOK, Stored
      <4>4. Cardinality(InHand') \in Nat
        BY <1>3, <1>5, HandChanges
      <4> QED
        BY <1>3, <1>6, <4>1, <4>2, <4>3, <4>4, BlockQueueAssumption DEF Room
    <3>2. m_fp'.part * m_split_lines = Len(written) + UnderWay'
      BY <1>3, <1>7, <2>2
    <3> QED
      BY <1>3, <1>6, <1>10, <2>6, <3>1, <3>2
  <2>9. \A i \in DOMAIN written' : written'[i].file.part <= m_fp'.part
    <3>1. \A i \in DOMAIN written : written[i].file.part \in Nat
      BY <1>9 DEF Records
    <3> QED
      BY <1>3, <1>9, <2>2, <3>1
  <2>10. LinesBefore(m_fp.part)' + LinesIn(m_fp.part)' = Len(written')
    BY <1>3, <1>6, <2>6
  <2> QED
    BY <1>7, <1>11, <2>7, <2>8, <2>9, <2>10 DEF SplitNow
<1>13. CASE (m_count + 1) % m_split_lines # 0
  <2>1. m_fp'.part = c
    BY <1>1, <1>2, <1>13 DEF Count
  <2>2. m_count' < (c + 1) * m_split_lines
    BY <1>4, <1>6, <1>8, <1>13, NextMultiple
  <2>3. c * m_split_lines <= m_count'
    BY <1>4, <1>6, <1>8
  <2>4. LinesBefore(m_fp.part)' = LinesBefore(m_fp.part) /\ LinesIn(m_fp.part)' = LinesIn(m_fp.part)
    BY <1>1, <1>3, <2>1 DEF LinesBefore, LinesIn
  <2> QED
    BY <1>1, <1>3, <1>7, <1>10, <1>11, <2>1, <2>2, <2>3, <2>4 DEF SplitNow
<1> QED
  BY <1>12, <1>13

LEMMA SInvInit == Init => SInv
<1> SUFFICES ASSUME Init PROVE SInv
  OBVIOUS
<1> USE LogAssumption, BlockQueueAssumption
<1>1. /\ written = <<>> /\ dropped = {} /\ single_log = NULL /\ m_size = 0 /\ m_count = 0
      /\ m_fp.part = 0 /\ m_is_async \in BOOLEAN
  BY DEF Init, QueueInit, File
<1>2. InHand = {}
  BY DEF Init, InHand
<1>3. IsFiniteSet(dropped) /\ Cardinality({}) = 0
  BY <1>1, FS_EmptySet
<1>4. UnderWay = 0 /\ Len(written) = 0 /\ DOMAIN written = {}
  BY <1>1, <1>2, <1>3 DEF UnderWay
<1>5. \A A : Hits(written, A) = {}
  BY <1>4 DEF Hits
<1>6. \A k \in Nat : LinesIn(k) = 0 /\ LinesBefore(k) = 0
  BY <1>3, <1>5 DEF LinesIn, LinesBefore
<1>7. LinesIn(m_fp.part) = 0 /\ LinesBefore(m_fp.part) = 0
  BY <1>1, <1>6
<1>8. Cardinality(Writers) \in Nat /\ Room \in Nat
  BY <1>1, FS_CardinalityType DEF Room
<1>9. \A k \in Nat : Bound(k) >= 0
  BY <1>8 DEF Bound
<1>10. SplitNow
  BY <1>1, <1>3, <1>4, <1>6, <1>7, <1>8, <1>9 DEF SplitNow
<1> QED
  BY <1>3, <1>10 DEF SInv

LEMMA SInvStep == IInv /\ LInv /\ SInv /\ [Next]_vars => SInv'
<1> SUFFICES ASSUME IInv, LInv, SInv, [Next]_vars PROVE SInv'
  OBVIOUS
<1>0. Stored /\ IsFiniteSet(dropped) /\ (today = 0 => SplitNow)
  BY DEF LInv, SInv
<1>1. /\ Cardinality(InHand) \in Nat /\ m_size \in Nat /\ Cardinality(dropped) \in Nat /\ UnderWay \in Nat
      /\ single_log \in Items \cup {NULL} /\ NULL \notin Items
  BY <1>0, SplitTypes, BlockQueueAssumption DEF IInv, TypeOK
<1>2. ASSUME UNCHANGED <<m_is_async, m_count, m_fp, written, today, dropped>>, UnderWay' = UnderWay
      PROVE  SInv'
  BY <1>0, <1>1, <1>2, MoveKeepsSplit DEF SInv
<1>3. CASE UNCHANGED vars
  <2>1. UNCHANGED <<m_is_async, m_count, m_fp, written, today, dropped>>
    BY <1>3 DEF vars, logVars, fileVars
  <2>2. UnderWay' = UnderWay
    BY <1>3 DEF vars, queueVars, UnderWay, InHand
  <2> QED
    BY <1>2, <2>1, <2>2
<1>4. ASSUME NEW w \in Writers,
             gettimeofday(w) \/ localtime(w) \/ CopyTime(w) \/ Format(w) \/ flush(w) \/ NoFlush(w)
      PROVE  SInv'
  <2>1. UNCHANGED <<queueVars, m_is_async, m_count, m_fp, written, today, dropped, single_log>>
    BY <1>4 DEF gettimeofday, localtime, CopyTime, Format, flush, NoFlush, logVars, fileVars
  <2>2. InHand' = InHand
    BY <1>4 DEF gettimeofday, localtime, CopyTime, Format, flush, NoFlush, GoTo, At, InHand, IInv, TypeOK
  <2>3. UnderWay' = UnderWay
    BY <2>1, <2>2 DEF UnderWay, queueVars
  <2> QED
    BY <1>2, <2>1, <2>3
<1>5. ASSUME NEW w \in Writers, Count(w) PROVE SInv'
  <2>1. UNCHANGED <<today, dropped>>
    BY <1>5 DEF Count
  <2> QED
    BY <1>0, <1>5, <2>1, CountKeepsSplit DEF SInv
<1>6. ASSUME NEW w \in Writers, Push(w) PROVE SInv'
  <2>1. /\ UNCHANGED <<m_is_async, m_count, m_fp, written, today, single_log>>
        /\ At(w, "push") /\ GoTo(w, "flush") /\ push(LineOf(w))
        /\ dropped' = IF full THEN dropped \cup {LineOf(w)} ELSE dropped
    BY <1>6 DEF Push, logVars, fileVars
  <2>2. Cardinality(InHand') = Cardinality(InHand) - 1
    BY <2>1, HandChanges
  <2>3. m_size' = IF full THEN m_size ELSE m_size + 1
    BY <2>1 DEF push
  <2>4. LineOf(w) \notin dropped
    <3>1. LineOf(w) \in Items \ Logged
      BY <2>1, LogsLine
    <3>2. Tally(Content, written, single_log, dropped, LineOf(w)) = 0
      BY <3>1, CopiesIs DEF LInv, EachOnce
    <3> DEFINE x == LineOf(w)
    <3> HIDE DEF x
    <3>3. x \in Items /\ Tally(Content, written, single_log, dropped, x) = 0
      BY <3>1, <3>2 DEF x
    <3>4. /\ Tally(Content, written, single_log, dropped, x) =
               Cardinality(Hits(Content, {x})) + Cardinality(Hits(written, IsLine(x)))
                 + (IF x = single_log THEN 1 ELSE 0) + (IF x \in dropped THEN 1 ELSE 0)
          /\ Cardinality(Hits(Content, {x})) \in Nat /\ Cardinality(Hits(written, IsLine(x))) \in Nat
      BY <1>0, <3>3, TallyNow
    <3>5. x \notin dropped
      BY <3>3, <3>4
    <3> QED
      BY <3>5 DEF x
  <2>5. IsFiniteSet(dropped') /\ Cardinality(dropped') = Cardinality(dropped) + IF full THEN 1 ELSE 0
    <3>1. CASE full
      BY <1>0, <2>1, <2>4, <3>1, FS_AddElement
    <3>2. CASE ~full
      BY <1>0, <1>1, <2>1, <3>2
    <3> QED
      BY <3>1, <3>2
  <2>6. UnderWay' = UnderWay
    BY <1>1, <2>1, <2>2, <2>3, <2>5 DEF UnderWay
  <2>7. Cardinality(dropped') \in Nat /\ Cardinality(dropped) <= Cardinality(dropped')
    BY <1>1, <2>5
  <2> QED
    BY <1>0, <2>1, <2>5, <2>6, <2>7, MoveKeepsSplit DEF SInv
<1>7. ASSUME NEW w \in Writers, Fputs(w) PROVE SInv'
  <2>1. /\ UNCHANGED <<queueVars, m_is_async, m_count, m_fp, today, single_log, dropped>>
        /\ At(w, "fputs") /\ GoTo(w, "flush") /\ Put(LineOf(w), w)
    BY <1>7 DEF Fputs, logVars
  <2>2. Cardinality(InHand') = Cardinality(InHand) - 1 /\ LineOf(w) \in Items
    BY <2>1, HandChanges, LogsLine
  <2>3. Cardinality(InHand') \in Nat
    <3>1. InHand' \in SUBSET Writers /\ IsFiniteSet(Writers)
      BY LogAssumption DEF InHand
    <3> QED
      BY <3>1, FS_Subset, FS_CardinalityType
  <2>4. UnderWay' = UnderWay - 1 /\ Cardinality(dropped) <= UnderWay'
    BY <1>1, <2>1, <2>2, <2>3 DEF UnderWay, queueVars
  <2> QED
    BY <1>0, <2>1, <2>2, <2>4, PutKeepsSplit DEF SInv
<1>8. CASE Pop
  <2>1. /\ UNCHANGED <<m_is_async, m_count, m_fp, written, today, dropped, writer>>
        /\ QueueTypeOK /\ Ring /\ single_log = NULL /\ pop(flusher, single_log')
    BY <1>8 DEF Pop, logVars, fileVars, IInv, TypeOK
  <2>2. m_size' = m_size - 1 /\ single_log' # NULL
    <3>1. Content # <<>> /\ single_log' = Head(Content) /\ Content \in Seq(Items)
      BY <1>0, <2>1, PopStep DEF Stored
    <3>2. single_log' \in Items
      BY <3>1
    <3> QED
      BY <1>1, <2>1, <3>2 DEF pop
  <2>3. InHand' = InHand
    BY <2>1 DEF InHand
  <2>4. UnderWay' = UnderWay
    BY <1>1, <2>1, <2>2, <2>3 DEF UnderWay
  <2> QED
    BY <1>2, <2>1, <2>4
<1>9. CASE WritePopped
  <2>1. /\ UNCHANGED <<queueVars, m_is_async, m_count, m_fp, today, dropped, writer>>
        /\ single_log # NULL /\ single_log' = NULL /\ Put(single_log, flusher)
    BY <1>9 DEF WritePopped, logVars
  <2>2. InHand' = InHand
    BY <2>1 DEF InHand
  <2>3. UnderWay' = UnderWay - 1 /\ Cardinality(dropped) <= UnderWay'
    BY <1>1, <2>1, <2>2 DEF UnderWay, queueVars
  <2>4. single_log \in Items
    BY <1>1, <2>1
  <2> QED
    BY <1>0, <2>1, <2>3, <2>4, PutKeepsSplit DEF SInv
<1>10. CASE PopWaits
  <2>1. UNCHANGED <<m_size, m_is_async, m_count, m_fp, written, today, dropped, single_log, writer>>
    BY <1>10 DEF PopWaits, popWaits, Spurious, logVars, fileVars
  <2>2. UnderWay' = UnderWay
    BY <2>1 DEF UnderWay, InHand
  <2> QED
    BY <1>2, <2>1, <2>2
<1>11. CASE Midnight
  <2>1. today' # 0 /\ UNCHANGED dropped
    BY <1>11 DEF Midnight, IInv, TypeOK
  <2> QED
    BY <1>0, <2>1 DEF SInv
<1> QED
  BY <1>3, <1>4, <1>5, <1>6, <1>7, <1>8, <1>9, <1>10, <1>11 DEF Next, write_log, async_write_log

(* Until midnight a file gets no more than its m_split_lines lines and     *)
(* those that were under way when it was opened, for any number of writers *)
(* and any length of the queue; the first file is one line short           *)
(* (log.cpp:114-146, 176-179).                                             *)
THEOREM FilesGetTheirShare == Spec => []FilesAreSplit
<1>1. LInv /\ SInv => FilesAreSplit
  <2> SUFFICES ASSUME LInv, SInv, today = 0,
                      NEW k \in {written[i].file.part : i \in DOMAIN written}
               PROVE  Cardinality({i \in DOMAIN written : written[i].file.part = k}) <=
                        (IF k = 0 THEN m_split_lines - 1 ELSE m_split_lines + Cardinality(Writers) - 1)
                        + (IF m_is_async THEN m_max_size + 1 ELSE 0)
    BY DEF FilesAreSplit
  <2>1. \A i \in DOMAIN written : written[i] \in Records
    BY DEF LInv, Stored
  <2>2. k \in Nat
    BY <2>1 DEF Records
  <2>3. {i \in DOMAIN written : written[i].file.part = k} = Hits(written, PartIs(k))
    BY <2>1 DEF Hits, PartIs
  <2>4. LinesIn(k) <= Bound(k)
    BY <2>2 DEF SInv, SplitNow
  <2> QED
    BY <2>3, <2>4 DEF LinesIn, Bound, Room
<1> QED
  BY <1>1, SInvInit, SInvStep, LInvAlways, IInvAlways, PTL DEF Spec
=============================================================================
