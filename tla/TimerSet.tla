------------------------------ MODULE TimerSet ------------------------------
(***************************************************************************)
(* What the timer queue of src/src/lib/timer_queue.c promises to its       *)
(* clients (src/src/include/timer.h, lines 17-50), with no word about the  *)
(* heap: a bounded set of armed timers, each with the time at which it is  *)
(* due.  timers_run() calls back at most one timer, one that is due and    *)
(* that no armed timer precedes, and stops tracking it.                    *)
(***************************************************************************)
EXTENDS Integers, FiniteSets

CONSTANTS Timer,        \* the struct timeout_callback objects of the clients
          MaxEntries,   \* how many timers may be armed at once
          MaxTime,      \* the largest value a struct mono_time holds
          Delays        \* the delays that are not taken for negative

VARIABLES due,          \* armed timers, each with its time of expiration
          now,          \* the monotonic clock
          ran,          \* the timer called back last, or a non-timer
          result        \* result of the last timer_sched_callback()

vars == <<due, now, ran, result>>

Armed == DOMAIN due

Init == /\ due = [t \in {} |-> 0]
        /\ now \in 0..MaxTime
        /\ ran \notin Timer
        /\ result = "ok"

Tick == /\ now' \in now..MaxTime
        /\ UNCHANGED <<due, ran, result>>

Arm(t, d) == /\ t \notin Armed
             /\ Cardinality(Armed) < MaxEntries
             /\ d \in Delays
             /\ now + d <= MaxTime
             /\ due' = [u \in Armed \cup {t} |->
                          IF u = t THEN now + d ELSE due[u]]
             /\ result' = "ok"
             /\ UNCHANGED <<now, ran>>

(* A timer is refused only for one of these three reasons.                 *)
Refuse(t, d) == /\ t \notin Armed
                /\ \/ d \notin Delays
                   \/ now + d > MaxTime
                   \/ Cardinality(Armed) = MaxEntries
                /\ result' = "error"
                /\ UNCHANGED <<due, now, ran>>

Fire(t) == /\ t \in Armed
           /\ due[t] <= now
           /\ \A u \in Armed : due[t] <= due[u]
           /\ due' = [u \in Armed \ {t} |-> due[u]]
           /\ ran' = t
           /\ UNCHANGED <<now, result>>

Next == \/ Tick
        \/ \E t \in Timer : \/ Fire(t)
                            \/ \E d \in 0..MaxTime : Arm(t, d) \/ Refuse(t, d)

Spec == Init /\ [][Next]_vars
=============================================================================
