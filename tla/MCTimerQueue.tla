---------------------------- MODULE MCTimerQueue ----------------------------
(* TimerQueue on small instances: timers are interchangeable.              *)
EXTENDS TimerQueue, TLC

TimerSymmetry == Permutations(Timer)
=============================================================================
