------------------------------ MODULE Ramstage ------------------------------
(***************************************************************************)
(* Ramstage as a whole: main() walks the boot state machine of BootState   *)
(* on the main thread of CoopThreads, and thread_run_until() ties the two  *)
(* together: the thread it starts blocks a phase until it is done.         *)
(*                                                                         *)
(* Every step is a step of the threads, a step of main along the boot      *)
(* states, or both at once.  hardwaremain.c calls out of itself in four    *)
(* places: it calls a callback, a run_state() function, timers_run() (which*)
(* resumes at most one sleeping thread) and, between any two statements,   *)
(* printk(), whose console drivers call udelay() and so may sleep.         *)
(*                                                                         *)
(* A definition whose name starts with Mutant is the definition below it   *)
(* with a bug, which the properties are shown to catch; nothing uses it.   *)
(***************************************************************************)
EXTENDS Integers, FiniteSets, Sequences

CONSTANTS NumThreads, Handle, NoHandle, Mutex, MaxDelay, MaxNesting,
          LastState, RunState, NoReturn, Callback, NoPhase, MaxBlocks

VARIABLES active, runnable, free, due, can_yield, sections, handle, hstate,
          pc, waits_for, holders,
          state, seq, callbacks, blockers, complete, walk, next_id, held,
          granted, blocks, scheduled, timely, called,
          timers_ran,    \* this bs_run_timers(0) has called timers_run()
          printing       \* main is in vprintk(), with the console lock taken

T == INSTANCE CoopThreads
B == INSTANCE BootState WITH Agent <- 1..NumThreads - 1

thread_vars == <<active, runnable, free, due, can_yield, sections, handle,
                 hstate, pc, waits_for, holders>>
boot_vars == <<state, seq, callbacks, blockers, complete, walk, next_id, held,
               granted, blocks, scheduled, timely, called>>
vars == <<thread_vars, boot_vars, timers_ran, printing>>

(* What the threads and the boot states assume of their constants.         *)
ASSUME ThreadsAssumption ==
    /\ NumThreads \in Nat /\ NumThreads >= 2
    /\ NoHandle \notin Handle
    /\ MaxDelay \in Nat /\ MaxNesting \in Nat
ASSUME BootAssumption ==
    /\ LastState \in Nat
    /\ RunState \in [B!BootState -> SUBSET B!BootState]
    /\ \A s \in B!BootState :
         \A n \in RunState[s] : n > s \/ (n = s /\ s \in NoReturn)
    /\ NoPhase \notin B!Phase
    /\ MaxBlocks \in Nat

Main == T!Main

Init == T!Init /\ B!Init /\ timers_ran = FALSE /\ printing = FALSE

-----------------------------------------------------------------------------
(* Main takes a step of hardwaremain.c.                                    *)
MainRuns == T!Running(Main) /\ ~printing

(* bs_run_timers(0) calls timers_run() once, which resumes the thread of   *)
(* an earliest due timer, if there is one.                                 *)
MutantSomeoneDue == FALSE
SomeoneDue == \E t \in T!Sleeping : due[t] <= 0

MainTimersRun ==
    /\ MainRuns
    /\ walk = "timers" /\ ~timers_ran
    /\ T!TimersRun(Main)
    /\ timers_ran' = TRUE
    /\ UNCHANGED <<boot_vars, printing>>

TimersReturn ==
    /\ MainRuns
    /\ timers_ran \/ ~SomeoneDue
    /\ B!TimersRan
    /\ timers_ran' = FALSE
    /\ UNCHANGED <<thread_vars, printing>>

(* The other steps of bs_walk_state_machine() and bs_call_callbacks().     *)
MainWalks ==
    /\ MainRuns
    /\ B!Walk /\ walk # "timers"
    /\ UNCHANGED <<thread_vars, timers_ran, printing>>

-----------------------------------------------------------------------------
(* Where a thread runs device code: a worker always, main in a callback or *)
(* in a run_state() function.                                              *)
InDeviceCode(t) == t = Main => walk \in {"callback", "run_state"}

(* After the OS or the payload took over, or die(), nothing runs.          *)
Alive == walk \notin {"left", "dead"}

(* vprintk(), called by hardwaremain.c itself (post_code(), the samples of *)
(* time, the debug messages): the spin lock of the console disables        *)
(* yielding.                                                               *)
MutantPrintBegins ==
    /\ MainRuns /\ ~InDeviceCode(Main)
    /\ printing' = TRUE
    /\ UNCHANGED <<thread_vars, boot_vars, timers_ran>>

PrintBegins ==
    /\ MainRuns /\ ~InDeviceCode(Main)
    /\ T!CoopDisable(Main)
    /\ printing' = TRUE
    /\ UNCHANGED <<boot_vars, timers_ran>>

(* udelay() of a console driver: it sleeps, or else waits in a loop.       *)
PrintDelays(us) ==
    /\ T!Running(Main) /\ printing
    /\ IF T!thread_can_yield(Main) THEN T!YieldMicroseconds(Main, us)
       ELSE UNCHANGED thread_vars
    /\ UNCHANGED <<boot_vars, timers_ran, printing>>

PrintEnds ==
    /\ printing
    /\ T!CoopEnable(Main)
    /\ printing' = FALSE
    /\ UNCHANGED <<boot_vars, timers_ran>>

Prints == PrintBegins \/ PrintEnds \/ \E us \in 0..MaxDelay : PrintDelays(us)

(* The calls that concern no boot state.                                   *)
DeviceCode(t) ==
    /\ InDeviceCode(t)
    /\ T!Calls(t)
    /\ UNCHANGED <<boot_vars, timers_ran, printing>>

ScheduleCallback(t, c, p) ==
    /\ T!Running(t) /\ InDeviceCode(t)
    /\ B!boot_state_sched_callback(c, p)
    /\ UNCHANGED <<thread_vars, timers_ran, printing>>

(* thread_run_until(): the first thing the new thread does, before anybody *)
(* else runs, is to block the phase; that this fails goes unnoticed.       *)
RunUntil(t, h, p) ==
    /\ InDeviceCode(t)
    /\ T!ThreadRun(t, h)
    /\ B!boot_state_block(active', p)
    /\ UNCHANGED <<timers_ran, printing>>

MutantFinish(t) ==
    /\ T!Terminate(t)
    /\ UNCHANGED <<boot_vars, timers_ran, printing>>

(* call_wrapper(), or call_wrapper_block_state(), which unblocks first.    *)
Finish(t) ==
    /\ T!Terminate(t)
    /\ IF held[t] = NoPhase THEN UNCHANGED boot_vars ELSE B!boot_state_unblock(t)
    /\ UNCHANGED <<timers_ran, printing>>

(* The idle thread, and the clock.                                         *)
IdleTimersRun == T!TimersRun(T!Idle) /\ UNCHANGED <<boot_vars, timers_ran, printing>>
Tick == T!Tick /\ UNCHANGED <<boot_vars, timers_ran, printing>>

Next ==
    \/ MainTimersRun \/ TimersReturn \/ MainWalks
    \/ Alive /\ Prints
    \/ Alive /\ Tick
    \/ Alive /\ IdleTimersRun
    \/ Alive /\ \E t \in T!Thread :
         \/ DeviceCode(t) \/ Finish(t)
         \/ \E c \in Callback, p \in B!Phase : ScheduleCallback(t, c, p)
         \/ \E h \in Handle \cup {NoHandle}, p \in B!Phase : RunUntil(t, h, p)

Spec == Init /\ [][Next]_vars

(* Time passes, main and the idle thread run on, printing and device code  *)
(* end, and so do the critical sections and the threads, though they may   *)
(* all sleep.                                                              *)
Fairness ==
    /\ WF_vars(Tick) /\ WF_vars(IdleTimersRun)
    /\ WF_vars(PrintEnds)
    /\ SF_vars(MainTimersRun \/ TimersReturn \/ MainWalks)
    /\ \A t \in T!Thread :
         /\ WF_vars(T!CoopEnable(t) /\ DeviceCode(t))
         /\ SF_vars(Finish(t))

FairSpec == Spec /\ Fairness

-----------------------------------------------------------------------------
(* Main loses the processor only in timers_run(), in a callback and in a   *)
(* run_state() function, whatever it prints in between: so nobody changes  *)
(* the tables of the boot states between two statements of                 *)
(* bs_call_callbacks(), which relinks them unguarded.                      *)
OthersWhenOpen == active # Main => walk \in {"timers", "callback", "run_state"}

(* thread.h, lines 31-33: a phase that a thread of thread_run_until()      *)
(* blocks is not left while that thread lives; and the phase counts those  *)
(* threads only, so it is not blocked for ever either.                     *)
PhaseWaitsForThreads ==
    /\ granted \subseteq T!Live
    /\ B!BlockHolds
    /\ \A p \in B!Phase : ~B!Passed(p) =>
         blockers[p] = Cardinality({t \in T!Live \cap granted : held[t] = p})

(* The boot ends: main's loop over a blocked phase lets the threads that   *)
(* block it run until they are done.                                       *)
BootEnds == B!BootEnds
=============================================================================
