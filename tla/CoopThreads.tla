---------------------------- MODULE CoopThreads ----------------------------
(***************************************************************************)
(* Cooperative threads, src/src/lib/thread.c: one thread runs at a time,   *)
(* on the boot processor, until it sleeps, ends or starts another one.     *)
(* Every variable is global state of thread.c except pc and waits_for,     *)
(* which say where in its own calls a thread is, and sections, a ghost that*)
(* counts the critical sections its function has open.                     *)
(*                                                                         *)
(* A thread sleeps on a timer of the queue that TimerQueue models and that *)
(* implements TimerSet.  Here the timers are kept relative to the clock,   *)
(* so that time can pass for ever in finitely many states: see Aged.       *)
(*                                                                         *)
(* Clients are arbitrary, within what thread.c asserts and thread.h asks   *)
(* for: no call that has to wait where yielding is disabled (asserts of    *)
(* lines 401 and 415), no join of oneself (line 391), no coop_enable       *)
(* without a coop_disable, a mutex is unlocked by the thread that locked   *)
(* it and before it ends, and a handle is not given to a second thread     *)
(* while it is in use.  A function may return, and main may run timers,    *)
(* with critical sections open: the code tests nothing there.              *)
(*                                                                         *)
(* A definition whose name starts with Mutant is the definition below it   *)
(* with a bug, which the properties are shown to catch; nothing uses it.   *)
(*                                                                         *)
(* Calls that fail change nothing and are no actions: thread_run() without *)
(* a free thread, any call that would yield where yielding is disabled.    *)
(***************************************************************************)
EXTENDS Integers, FiniteSets, SequencesExt

CONSTANTS NumThreads,    \* CONFIG_NUM_THREADS, 4 by default
          Handle,        \* struct thread_handle objects of the clients
          NoHandle,      \* the null handle
          Mutex,         \* struct thread_mutex objects
          MaxDelay,      \* bound on the microseconds of a yield
          MaxNesting     \* bound on the nesting of critical sections

ASSUME NumThreadsAssumption == NumThreads \in Nat /\ NumThreads >= 2
ASSUME HandleAssumption == NoHandle \notin Handle
ASSUME DelayAssumption == MaxDelay \in Nat
ASSUME NestingAssumption == MaxNesting \in Nat

Main == 0                \* all_threads[0], which runs main()
Idle == NumThreads       \* the last thread pushed on the free list
Thread == 0..NumThreads
Worker == Thread \ {Main, Idle}

VARIABLES active,        \* active_thread
          runnable,      \* runnable_threads; its head is the last element
          free,          \* free_threads; its head is the last element
          due,           \* sleeping threads: due time minus current time
          can_yield,     \* t->can_yield
          sections,      \* of each thread: coop_disable less coop_enable
          handle,        \* t->handle
          hstate,        \* handle->state
          pc,            \* "run": in client code, "join" or "lock": waiting
          waits_for,     \* the handle or mutex a thread waits for
          holders        \* of each mutex: the threads that locked it last

vars == <<active, runnable, free, due, can_yield, sections, handle, hstate,
          pc, waits_for, holders>>

Sleeping == DOMAIN due
Live == {active} \cup ToSet(runnable) \cup Sleeping

TypeOK ==
    /\ active \in Thread
    /\ runnable \in Seq(Thread) /\ free \in Seq(Worker)
    /\ Sleeping \subseteq Thread \ {Idle}
    /\ \A t \in Sleeping : due[t] \in Int /\ due[t] <= MaxDelay
    /\ can_yield \in [Thread -> Int]
    /\ sections \in [Thread -> Nat]
    /\ handle \in [Thread -> Handle \cup {NoHandle}]
    /\ hstate \in [Handle -> {"uninitialized", "started", "done"}]
    /\ pc \in [Thread -> {"run", "join", "lock"}]
    /\ waits_for \in [Thread -> Handle \cup Mutex \cup {NoHandle}]
    /\ holders \in [Mutex -> SUBSET Thread]

(* What threads_initialize() leaves, with idle_thread() still to run: its  *)
(* first step disables yielding, which is counted here from the start.     *)
Init ==
    /\ active = Main
    /\ runnable = <<Idle>>
    /\ free = [i \in 1..NumThreads - 1 |-> i]
    /\ due = [t \in {} |-> 0]
    /\ can_yield = [t \in Thread |-> IF t = Idle THEN 0 ELSE 1]
    /\ sections = [t \in Thread |-> IF t = Idle THEN 1 ELSE 0]
    /\ handle = [t \in Thread |-> NoHandle]
    /\ hstate = [h \in Handle |-> "uninitialized"]
    /\ pc = [t \in Thread |-> "run"]
    /\ waits_for = [t \in Thread |-> NoHandle]
    /\ holders = [m \in Mutex |-> {}]

-----------------------------------------------------------------------------
(* schedule(): every switch to a thread marks its handle as started.       *)
Started(t, hs) ==
    IF handle'[t] = NoHandle THEN hs ELSE [hs EXCEPT ![handle'[t]] = "started"]

SwitchTo(t, hs) == active' = t /\ hstate' = Started(t, hs)

(* schedule(NULL): take the head of the runnable list.  Were it empty the  *)
(* code would die(); SomeoneRunnable shows that it never is.               *)
ScheduleNext(hs) ==
    /\ runnable # <<>>
    /\ SwitchTo(Last(runnable), hs)
    /\ runnable' = Front(runnable)

(* schedule(t): the caller stays runnable.                                 *)
ScheduleThread(t) ==
    /\ SwitchTo(t, hstate)
    /\ runnable' = Append(runnable, active)

thread_can_yield(t) == can_yield[t] > 0

MutantSleep(t, us) ==
    /\ due' = [u \in Sleeping \cup {t} |-> IF u = t THEN us + 1 ELSE due[u]]
    /\ handle' = handle
    /\ ScheduleNext(hstate)

(* thread_yield_timed_callback()                                           *)
Sleep(t, us) ==
    /\ due' = [u \in Sleeping \cup {t} |-> IF u = t THEN us ELSE due[u]]
    /\ handle' = handle
    /\ ScheduleNext(hstate)

Running(t) == active = t /\ pc[t] = "run" /\ t # Idle

-----------------------------------------------------------------------------
MutantThreadRun(t, h) ==
    /\ Running(t) /\ thread_can_yield(t)
    /\ free # <<>>
    /\ h \in Handle => hstate[h] # "started" /\ \A u \in Live : waits_for[u] # h
    /\ LET u == Last(free) IN
         /\ free' = Front(free)
         /\ can_yield' = [can_yield EXCEPT ![u] = 1]
         /\ sections' = [sections EXCEPT ![u] = 0]
         /\ handle' = IF h = NoHandle THEN handle ELSE [handle EXCEPT ![u] = h]
         /\ ScheduleThread(u)
    /\ UNCHANGED <<due, pc, waits_for, holders>>

(* thread_run(): the new thread runs at once; handle is h or null.         *)
ThreadRun(t, h) ==
    /\ Running(t) /\ thread_can_yield(t)
    /\ free # <<>>
    /\ h \in Handle => hstate[h] # "started" /\ \A u \in Live : waits_for[u] # h
    /\ LET u == Last(free) IN
         /\ free' = Front(free)
         /\ can_yield' = [can_yield EXCEPT ![u] = 1]
         /\ sections' = [sections EXCEPT ![u] = 0]
         /\ handle' = [handle EXCEPT ![u] = h]
         /\ ScheduleThread(u)
    /\ UNCHANGED <<due, pc, waits_for, holders>>

(* thread_yield_microseconds(); thread_yield() is the case us = 0.         *)
YieldMicroseconds(t, us) ==
    /\ Running(t) /\ thread_can_yield(t)
    /\ Sleep(t, us)
    /\ UNCHANGED <<free, can_yield, sections, pc, waits_for, holders>>

(* The sections a thread opens are bounded by MaxNesting; the code has no  *)
(* bound.  The assertion of line 367 is part of SectionsCounted.           *)
CoopDisable(t) ==
    /\ Running(t) /\ sections[t] < MaxNesting
    /\ can_yield' = [can_yield EXCEPT ![t] = @ - 1]
    /\ sections' = [sections EXCEPT ![t] = @ + 1]
    /\ UNCHANGED <<active, runnable, free, due, handle, hstate, pc, waits_for, holders>>

MutantCoopEnable(t) ==
    /\ Running(t) /\ sections[t] > 0
    /\ can_yield' = [can_yield EXCEPT ![t] = 1]
    /\ sections' = [sections EXCEPT ![t] = @ - 1]
    /\ UNCHANGED <<active, runnable, free, due, handle, hstate, pc, waits_for, holders>>

CoopEnable(t) ==
    /\ Running(t) /\ sections[t] > 0
    /\ can_yield' = [can_yield EXCEPT ![t] = @ + 1]
    /\ sections' = [sections EXCEPT ![t] = @ - 1]
    /\ UNCHANGED <<active, runnable, free, due, handle, hstate, pc, waits_for, holders>>

(* thread_join(): a handle no thread was started with is an error, with no *)
(* effect.                                                                 *)
JoinStart(t, h) ==
    /\ Running(t)
    /\ handle[t] # h
    /\ hstate[h] # "uninitialized"
    /\ thread_can_yield(t) \/ hstate[h] = "done"
    /\ pc' = [pc EXCEPT ![t] = "join"]
    /\ waits_for' = [waits_for EXCEPT ![t] = h]
    /\ UNCHANGED <<active, runnable, free, due, can_yield, sections, handle, hstate, holders>>

Joining(t) == active = t /\ pc[t] = "join"

JoinWait(t) ==
    /\ Joining(t) /\ hstate[waits_for[t]] # "done"
    /\ thread_can_yield(t)
    /\ Sleep(t, 0)
    /\ UNCHANGED <<free, can_yield, sections, pc, waits_for, holders>>

Resume(t) ==
    /\ pc' = [pc EXCEPT ![t] = "run"]
    /\ waits_for' = [waits_for EXCEPT ![t] = NoHandle]

JoinDone(t) ==
    /\ Joining(t) /\ hstate[waits_for[t]] = "done"
    /\ Resume(t)
    /\ UNCHANGED <<active, runnable, free, due, can_yield, sections, handle, hstate, holders>>

(* thread_mutex_lock()                                                     *)
locked(m) == holders[m] # {}

LockStart(t, m) ==
    /\ Running(t)
    /\ thread_can_yield(t) \/ ~locked(m)
    /\ pc' = [pc EXCEPT ![t] = "lock"]
    /\ waits_for' = [waits_for EXCEPT ![t] = m]
    /\ UNCHANGED <<active, runnable, free, due, can_yield, sections, handle, hstate, holders>>

Locking(t) == active = t /\ pc[t] = "lock"

LockWait(t) ==
    /\ Locking(t) /\ locked(waits_for[t])
    /\ thread_can_yield(t)
    /\ Sleep(t, 0)
    /\ UNCHANGED <<free, can_yield, sections, pc, waits_for, holders>>

MutantLockAcquire(t) ==
    /\ Locking(t)
    /\ holders' = [holders EXCEPT ![waits_for[t]] = @ \cup {t}]
    /\ Resume(t)
    /\ UNCHANGED <<active, runnable, free, due, can_yield, sections, handle, hstate>>

LockAcquire(t) ==
    /\ Locking(t) /\ ~locked(waits_for[t])
    /\ holders' = [holders EXCEPT ![waits_for[t]] = @ \cup {t}]
    /\ Resume(t)
    /\ UNCHANGED <<active, runnable, free, due, can_yield, sections, handle, hstate>>

(* thread_mutex_unlock()                                                   *)
Unlock(t, m) ==
    /\ Running(t) /\ t \in holders[m]
    /\ holders' = [holders EXCEPT ![m] = {}]
    /\ UNCHANGED <<active, runnable, free, due, can_yield, sections, handle, hstate, pc, waits_for>>

(* call_wrapper() and terminate_thread(): the function of the thread       *)
(* returns.                                                                *)
Terminate(t) ==
    /\ Running(t) /\ t # Main
    /\ \A m \in Mutex : t \notin holders[m]
    /\ free' = Append(free, t)
    /\ handle' = handle
    /\ ScheduleNext(IF handle[t] = NoHandle THEN hstate
                    ELSE [hstate EXCEPT ![handle[t]] = "done"])
    /\ UNCHANGED <<due, can_yield, sections, pc, waits_for, holders>>

-----------------------------------------------------------------------------
(* timers_run(), called by the idle thread for ever and by main between    *)
(* its own steps: TimerSet's Fire of a thread that is due and that no      *)
(* sleeping thread precedes, whose callback, thread_resume_from_timeout,   *)
(* switches to it.  With no thread due, nothing changes.                   *)
MutantMayRunTimers(t) == active = t /\ (t # Idle => Running(t))
MayRunTimers(t) == active = t /\ (t = Main => Running(Main)) /\ t \in {Main, Idle}

MutantEarliest(t) == TRUE
Earliest(t) == \A u \in Sleeping : due[t] <= due[u]

MutantTimersRun(t) ==
    /\ MayRunTimers(t)
    /\ \E u \in Sleeping :
         /\ due[u] <= 0 /\ Earliest(u)
         /\ handle' = handle
         /\ ScheduleThread(u)
    /\ UNCHANGED <<free, due, can_yield, sections, pc, waits_for, holders>>

TimersRun(t) ==
    /\ MayRunTimers(t)
    /\ \E u \in Sleeping :
         /\ due[u] <= 0 /\ Earliest(u)
         /\ due' = [v \in Sleeping \ {u} |-> due[v]]
         /\ handle' = handle
         /\ ScheduleThread(u)
    /\ UNCHANGED <<free, can_yield, sections, pc, waits_for, holders>>

(* One microsecond passes.  By how much a thread is overdue is forgotten,  *)
(* but not the order of the overdue threads: the k-th distinct time counts *)
(* as -k, from the latest on.                                              *)
Aged(d) ==
    [t \in DOMAIN d |->
        IF d[t] >= 0 THEN d[t]
        ELSE -Cardinality({d[u] : u \in {v \in DOMAIN d : d[t] <= d[v] /\ d[v] < 0}})]

Tick ==
    /\ due' = Aged([t \in Sleeping |-> due[t] - 1])
    /\ UNCHANGED <<active, runnable, free, can_yield, sections, handle, hstate, pc, waits_for, holders>>

-----------------------------------------------------------------------------
Calls(t) ==
    \/ \E h \in Handle \cup {NoHandle} : ThreadRun(t, h)
    \/ \E us \in 0..MaxDelay : YieldMicroseconds(t, us)
    \/ CoopDisable(t) \/ CoopEnable(t)
    \/ \E h \in Handle : JoinStart(t, h)
    \/ JoinWait(t) \/ JoinDone(t)
    \/ \E m \in Mutex : LockStart(t, m) \/ Unlock(t, m)
    \/ LockWait(t) \/ LockAcquire(t)

Next == \/ Tick
        \/ \E t \in Thread : Calls(t) \/ Terminate(t) \/ TimersRun(t)

Spec == Init /\ [][Next]_vars

(* Where a thread gives the processor away of its own accord.              *)
GiveWay(t) == \/ \E us \in 0..MaxDelay : YieldMicroseconds(t, us)
              \/ Terminate(t)
              \/ t = Main /\ TimersRun(t)

(* Time passes, idle_thread() loops, the loops of thread.c run, whoever    *)
(* runs leaves its critical sections from the innermost outwards, and every*)
(* thread, time and again, sleeps or ends (or, for main, runs the timers), *)
(* as udelay() in device code does.                                        *)
Fairness ==
    /\ WF_vars(Tick)
    /\ WF_vars(TimersRun(Idle))
    /\ WF_vars(\E t \in Thread : JoinWait(t) \/ JoinDone(t) \/ LockWait(t) \/ LockAcquire(t))
    /\ \A n \in 1..MaxNesting : SF_vars(\E t \in Thread : CoopEnable(t) /\ sections[t] = n)
    /\ \A t \in Thread \ {Idle} : SF_vars(GiveWay(t))

FairSpec == Spec /\ Fairness

-----------------------------------------------------------------------------
Distinct(s) == \A i, j \in 1..Len(s) : s[i] = s[j] => i = j

(* Every thread is in exactly one place: it runs, waits on one of the two  *)
(* lists, or sleeps.  No control block is lost, listed twice, or free      *)
(* while its stack is in use.                                              *)
OnePlace ==
    /\ Distinct(runnable) /\ Distinct(free)
    /\ active \notin ToSet(runnable) \cup ToSet(free) \cup Sleeping
    /\ ToSet(runnable) \cap (ToSet(free) \cup Sleeping) = {}
    /\ ToSet(free) \cap Sleeping = {}
    /\ Thread \subseteq Live \cup ToSet(free)

(* The runnable list is the chain of threads that gave way to each other,  *)
(* with idle at its end; so schedule(NULL) never finds it empty and never  *)
(* dies (line 119), and idle runs only when nothing else can.              *)
SomeoneRunnable ==
    /\ active = Idle => runnable = <<>>
    /\ active # Idle => runnable # <<>> /\ runnable[1] = Idle
    /\ \A i \in 2..Len(runnable) : runnable[i] # Idle

(* Main never waits behind a thread that main did not give way to: when it *)
(* runs, only idle is runnable.  The run checks both as one.               *)
MainOverIdle == active = Main => runnable = <<Idle>>

RunnableChain == SomeoneRunnable /\ MainOverIdle

(* thread.h, lines 60-68: while a thread has a critical section open, no   *)
(* matter how deep they nest or who used its control block before, it      *)
(* keeps the processor, unless it ends or runs the timers itself: no sleep,*)
(* no wait and no thread it starts takes it away.                          *)
CriticalSection ==
    [][active' # active /\ sections[active] > 0 =>
         \/ active \in ToSet(free')
         \/ active \in {Main, Idle} /\ active' \in Sleeping]_vars

(* can_yield is 1 less the critical sections that the thread has open now, *)
(* so the assertion of coop_enable() never fails, and a thread can yield   *)
(* again when it has left the last one.                                    *)
SectionsCounted == \A t \in Thread : can_yield[t] = 1 - sections[t]

(* What thread_join() relies on: a handle is started exactly while one     *)
(* thread that publishes in it lives, so "done" means that the thread has  *)
(* stopped touching the data its joiner is about to read.                  *)
HandlesTruthful ==
    \A h \in Handle :
        LET owners == {t \in Live : handle[t] = h} IN
        /\ hstate[h] = "started" => Cardinality(owners) = 1
        /\ hstate[h] # "started" => owners = {}

(* A mutex has one owner at a time, which is not dead.                     *)
MutualExclusion ==
    \A m \in Mutex : Cardinality(holders[m]) <= 1 /\ holders[m] \subseteq Live

(* No sleeper is forgotten, whatever timers other threads set meanwhile.   *)
SleepersResume == \A t \in Thread \ {Idle} : t \in Sleeping ~> active = t
=============================================================================
