---------------------------- MODULE ActiveTimers ----------------------------
(***************************************************************************)
(* What timer/lst_timer.h promises its one caller, the main thread: a      *)
(* container of timers, each with the time it has left, from which a tick  *)
(* removes exactly the timers whose time is up.  The order of the list is  *)
(* an implementation matter: TimerList has it and is shown to implement    *)
(* this module, and Server keeps its timers with the actions below.        *)
(***************************************************************************)
EXTENDS Naturals

CONSTANTS
  Timers,   \* the util_timer objects, each allocated at most once at a time
  Delays    \* the delays a caller may ask for, in units of the clock; in Nat

VARIABLES
  timers,   \* the timers in the container
  left      \* units of time before each of them expires; 0 outside

timerVars == <<timers, left>>

Expired == {t \in timers : left[t] = 0}

Init ==
  /\ timers = {}
  /\ left = [t \in Timers |-> 0]

\* add_timer: the caller has just allocated t, so it is not in the container.
Add(t, d) ==
  /\ timers' = timers \cup {t}
  /\ left' = [left EXCEPT ![t] = d]

\* adjust_timer: the caller only ever postpones.
Adjust(t, d) ==
  /\ d >= left[t]
  /\ left' = [left EXCEPT ![t] = d]
  /\ UNCHANGED timers

\* del_timer, and the delete of each expired timer in tick.
Del(t) ==
  /\ timers' = timers \ {t}
  /\ left' = [left EXCEPT ![t] = 0]

\* tick as a whole.
Tick ==
  /\ timers' = timers \ Expired
  /\ UNCHANGED left

\* One unit of time goes by.
Age ==
  /\ left' = [t \in Timers |-> IF left[t] > 0 THEN left[t] - 1 ELSE 0]
  /\ UNCHANGED timers

Next ==
  \/ \E t \in Timers \ timers, d \in Delays : Add(t, d)
  \/ \E t \in timers, d \in Delays : Adjust(t, d)
  \/ \E t \in timers : Del(t)
  \/ Tick
  \/ Age

Spec == Init /\ [][Next]_timerVars
=============================================================================
