------------------------------ MODULE TimerList ------------------------------
(***************************************************************************)
(* timer/lst_timer.h: sort_timer_lst, a doubly linked list of util_timer   *)
(* sorted by absolute expiry time, with no sentinel node.  Only the main   *)
(* thread calls it, so each call is one step; between calls the wall clock *)
(* that time(NULL) reads moves.                                            *)
(***************************************************************************)
EXTENDS Integers, FiniteSets, FiniteSetsExt

CONSTANTS
  Timers,      \* the addresses of the util_timer objects
  NULL,        \* the null pointer
  Delays,      \* what callers add to time(NULL); main.cpp always adds 3 * TIMESLOT
  ClockSteps,  \* how far the wall clock may move at once
  MaxTime      \* bound on the clock

ASSUME TimerListAssumption ==
  /\ IsFiniteSet(Timers)
  /\ NULL \notin Timers
  /\ Delays \subseteq Nat /\ IsFiniteSet(Delays) /\ Delays # {}
  /\ ClockSteps \subseteq Int
  /\ MaxTime \in Nat

VARIABLES
  lst,      \* the pointers: head, tail, and next and prev of every node
  expire,   \* the expire field of every node
  alive,    \* the nodes allocated and handed to the list
  now       \* what time(NULL) returns

vars == <<lst, expire, alive, now>>

Pointers == Timers \cup {NULL}

Init ==
  /\ lst = [head |-> NULL, tail |-> NULL,
            next |-> [t \in Timers |-> NULL], prev |-> [t \in Timers |-> NULL]]
  /\ expire = [t \in Timers |-> 0]
  /\ alive = {}
  /\ now = 0
-----------------------------------------------------------------------------
(* The traversals.  L is a value of lst, ex a value of expire.             *)

\* Walk(L, x)[i] is the node i steps after x, NULL past the end.
Walk(L, x) ==
  LET w[i \in 0 .. Cardinality(Timers) + 1] ==
        IF i = 0 THEN x ELSE IF w[i - 1] = NULL THEN NULL ELSE L.next[w[i - 1]]
  IN  w

\* The first place after x where a node that expires later than t stands, or
\* the end of the list: the loop of the private add_timer.
Place(L, ex, x, t) ==
  LET w == Walk(L, x)
  IN  Min({i \in 1 .. Cardinality(Timers) + 1 : w[i] = NULL \/ ex[t] < ex[w[i]]})

InsertAfter_Mut(L, ex, x, t) ==   \* tail is not moved when t becomes the last node
  LET i    == Place(L, ex, x, t)
      prev == Walk(L, x)[i - 1]
      tmp  == Walk(L, x)[i]
  IN  IF tmp # NULL
        THEN [L EXCEPT !.next[prev] = t, !.next[t] = tmp, !.prev[tmp] = t, !.prev[t] = prev]
        ELSE [L EXCEPT !.next[prev] = t, !.prev[t] = prev, !.next[t] = NULL]

\* The private add_timer(timer, lst_head).
InsertAfter(L, ex, x, t) ==
  LET i    == Place(L, ex, x, t)
      prev == Walk(L, x)[i - 1]
      tmp  == Walk(L, x)[i]
  IN  IF tmp # NULL
        THEN [L EXCEPT !.next[prev] = t, !.next[t] = tmp, !.prev[tmp] = t, !.prev[t] = prev]
        ELSE [L EXCEPT !.next[prev] = t, !.prev[t] = prev, !.next[t] = NULL, !.tail = t]

\* The public add_timer.
Insert(L, ex, t) ==
  CASE L.head = NULL          -> [L EXCEPT !.head = t, !.tail = t]
    [] L.head # NULL /\ ex[t] < ex[L.head]
                              -> [L EXCEPT !.next[t] = L.head, !.prev[L.head] = t, !.head = t]
    [] OTHER                  -> InsertAfter(L, ex, L.head, t)

Reposition_Mut(L, ex, t) ==     \* the node is left where it is
  L

\* adjust_timer: nothing to do for the last node or before a later one; else
\* unlink t and insert it again behind its successor.
Reposition(L, ex, t) ==
  LET tmp == L.next[t]
  IN  CASE tmp = NULL           -> L
        [] tmp # NULL /\ ex[t] < ex[tmp] -> L
        [] tmp # NULL /\ ~(ex[t] < ex[tmp]) /\ t = L.head ->
             InsertAfter([L EXCEPT !.head = tmp, !.prev[tmp] = NULL, !.next[t] = NULL], ex, tmp, t)
        [] OTHER ->
             InsertAfter([L EXCEPT !.next[L.prev[t]] = tmp, !.prev[tmp] = L.prev[t]], ex, tmp, t)

\* del_timer, the delete included: the fields of a freed node are gone.
Unlink(L, t) ==
  LET M == CASE t = L.head /\ t = L.tail -> [L EXCEPT !.head = NULL, !.tail = NULL]
             [] t = L.head /\ t # L.tail ->
                  [L EXCEPT !.head = L.next[t], !.prev[L.next[t]] = NULL]
             [] t # L.head /\ t = L.tail ->
                  [L EXCEPT !.tail = L.prev[t], !.next[L.prev[t]] = NULL]
             [] OTHER ->
                  [L EXCEPT !.next[L.prev[t]] = L.next[t], !.prev[L.next[t]] = L.prev[t]]
  IN  [M EXCEPT !.next[t] = NULL, !.prev[t] = NULL]

Due_Mut(L, ex, cur) ==          \* a timer due now is left for the next tick
  LET w    == Walk(L, L.head)
      stop == Min({i \in 0 .. Cardinality(Timers) + 1 : w[i] = NULL \/ cur <= ex[w[i]]})
  IN  {w[i] : i \in 0 .. stop - 1}

\* The nodes tick deletes: those before the first that has not expired.
Due(L, ex, cur) ==
  LET w    == Walk(L, L.head)
      stop == Min({i \in 0 .. Cardinality(Timers) + 1 : w[i] = NULL \/ cur < ex[w[i]]})
  IN  {w[i] : i \in 0 .. stop - 1}

\* What tick leaves: head moves past the deleted nodes.  tail is not reset
\* when the last node goes; the code never reads it while head is NULL.
AfterTick(L, ex, cur) ==
  LET due   == Due(L, ex, cur)
      heads == {L.head} \cup {L.next[d] : d \in due}
      first == CHOOSE p \in heads : p \notin due
  IN  [L EXCEPT !.head = first,
                !.next = [t \in Timers |-> IF t \in due THEN NULL ELSE L.next[t]],
                !.prev = [t \in Timers |-> IF t \in due \/ t = first THEN NULL ELSE L.prev[t]]]
-----------------------------------------------------------------------------
Add(t, d) ==
  /\ t \notin alive
  /\ alive' = alive \cup {t}
  /\ expire' = [expire EXCEPT ![t] = now + d]
  /\ lst' = Insert(lst, expire', t)
  /\ UNCHANGED now

\* main.cpp sets expire to time(NULL) + 3 * TIMESLOT and then adjusts: never a
\* shorter delay than t was given before, so that only a clock set back can
\* make the new expiry earlier than the old one.
Adjust(t) ==
  /\ t \in alive
  /\ expire' = [expire EXCEPT ![t] = now + Max(Delays)]
  /\ lst' = Reposition(lst, expire', t)
  /\ UNCHANGED <<alive, now>>

Del(t) ==
  /\ t \in alive
  /\ alive' = alive \ {t}
  /\ expire' = [expire EXCEPT ![t] = 0]
  /\ lst' = Unlink(lst, t)
  /\ UNCHANGED now

Tick ==
  LET due == Due(lst, expire, now)
  IN  /\ lst.head # NULL
      /\ alive' = alive \ due
      /\ expire' = [t \in Timers |-> IF t \in due THEN 0 ELSE expire[t]]
      /\ lst' = AfterTick(lst, expire, now)
      /\ UNCHANGED now

\* The wall clock moves.
Clock ==
  /\ \E s \in ClockSteps : now' = now + s
  /\ now' \in 0 .. MaxTime
  /\ UNCHANGED <<lst, expire, alive>>

Next ==
  \/ \E t \in Timers, d \in Delays : Add(t, d)
  \/ \E t \in Timers : Adjust(t) \/ Del(t)
  \/ Tick
  \/ Clock

Spec == Init /\ [][Next]_vars
-----------------------------------------------------------------------------
TypeOK ==
  /\ lst \in [head : Pointers, tail : Pointers,
              next : [Timers -> Pointers], prev : [Timers -> Pointers]]
  /\ expire \in [Timers -> 0 .. MaxTime + Max(Delays)]
  /\ alive \subseteq Timers
  /\ now \in 0 .. MaxTime

Listed == {Walk(lst, lst.head)[i] : i \in 0 .. Cardinality(Timers)} \ {NULL}

(* No call ever loses a node or leaves a wrong link: the forward walk from *)
(* head visits exactly the nodes handed to the list, prev is the inverse   *)
(* of next, and tail is the last node whenever there is one.               *)
ListIntact ==
  /\ TypeOK
  /\ Listed = alive
  /\ Walk(lst, lst.head)[Cardinality(Timers)] = NULL
  /\ lst.head # NULL => lst.prev[lst.head] = NULL /\ lst.next[lst.tail] = NULL /\ lst.tail \in alive
  /\ \A t \in alive : lst.next[t] # NULL => lst.prev[lst.next[t]] = t

(* The order tick relies on when it stops at the first node that has not   *)
(* expired ("the container is in ascending order", lst_timer.h:189).       *)
Ascending ==
  \A t \in alive : lst.next[t] # NULL => expire[t] <= expire[lst.next[t]]

TimeLeft(t) == IF t \in alive /\ expire[t] > now THEN expire[t] - now ELSE 0

Abstract == INSTANCE ActiveTimers WITH timers <- alive, left <- [t \in Timers |-> TimeLeft(t)]

(* The list implements the container Server uses: in particular a tick,    *)
(* which stops at the first node not due, removes every timer that is due. *)
ImplementsActiveTimers == Abstract!Spec
=============================================================================
