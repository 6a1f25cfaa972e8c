---------------------------- MODULE MCTimerList ----------------------------
\* TimerList on a small set of timers, for TLC.
EXTENDS TimerList

ForwardClock == {1}

\* With this clock Ascending does not hold.
AdjustableClock == {1, -1}
=============================================================================
