----------------------------- MODULE BootState -----------------------------
(***************************************************************************)
(* The boot state machine of ramstage, src/src/lib/hardwaremain.c: main()  *)
(* walks through the boot states; each has an entry and an exit phase in   *)
(* which callbacks are called, and a phase is not left while it is blocked.*)
(*                                                                         *)
(* The callbacks, the run_state functions and, while main runs a timer,    *)
(* the cooperative threads call back into the state machine.  An agent is  *)
(* anything that blocks a phase: it unblocks that phase later, whether or  *)
(* not the block was refused, as call_wrapper_block_state() of thread.c    *)
(* does.  A callback structure is scheduled once.                          *)
(*                                                                         *)
(* A definition whose name starts with Mutant is the definition below it   *)
(* with a bug, which the properties are shown to catch; nothing uses it.   *)
(*                                                                         *)
(* Refused calls (a callback on a completed state) change nothing and are  *)
(* no actions, unless the caller goes on to unblock.                       *)
(***************************************************************************)
EXTENDS Integers, FiniteSets, Sequences

CONSTANTS LastState,     \* the largest boot_state_t
          RunState,      \* of each state: what its run_state() may return
          NoReturn,      \* states whose run_state() hands control to an OS
          Callback,      \* struct boot_state_callback objects
          Agent,         \* callers of boot_state_block()
          NoPhase,       \* no phase
          MaxBlocks      \* bound on the calls of boot_state_block()

BootState == 0..LastState
BS_ON_ENTRY == 0
BS_ON_EXIT == 1
Phase == BootState \X {BS_ON_ENTRY, BS_ON_EXIT}

(* The states of bootstate.h are numbered in the order in which they run;  *)
(* the last one only can return itself, to make the state machine fail.    *)
ASSUME TableAssumption ==
    /\ LastState \in Nat
    /\ RunState \in [BootState -> SUBSET BootState]
    /\ \A s \in BootState : \A n \in RunState[s] : n > s \/ (n = s /\ s \in NoReturn)
ASSUME PhaseAssumption == NoPhase \notin Phase
ASSUME BlocksAssumption == MaxBlocks \in Nat
ASSUME AgentAssumption == IsFiniteSet(Agent)

VARIABLES state, seq,    \* current_phase
          callbacks,     \* of each phase: its list of callbacks
          blockers,      \* of each phase: its number of blockers
          complete,      \* the completed states
          walk,          \* where main is in bs_walk_state_machine()
          next_id,       \* what the last run_state() returned
          held, granted, \* of each agent: the phase it asked to block, and
                         \* whether boot_state_block() returned 0
          blocks,        \* how often boot_state_block() has been called
          scheduled,     \* of each callback: the phase it was accepted for
          timely,        \* the callbacks accepted before that phase had passed
          called         \* the callbacks that were called

vars == <<state, seq, callbacks, blockers, complete, walk, next_id, held,
          granted, blocks, scheduled, timely, called>>

TypeOK ==
    /\ state \in BootState /\ seq \in {BS_ON_ENTRY, BS_ON_EXIT}
    /\ callbacks \in [Phase -> Seq(Callback)]
    /\ blockers \in [Phase -> Nat]
    /\ complete \subseteq BootState
    /\ walk \in {"static", "top", "timers", "callbacks", "callback",
                 "run_state", "left", "dead"}
    /\ next_id \in BootState
    /\ held \in [Agent -> Phase \cup {NoPhase}]
    /\ granted \subseteq Agent
    /\ blocks \in 0..MaxBlocks
    /\ scheduled \in [Callback -> Phase \cup {NoPhase}]
    /\ timely \subseteq Callback /\ called \subseteq Callback

Init ==
    /\ state = 0 /\ seq = BS_ON_ENTRY
    /\ callbacks = [p \in Phase |-> <<>>]
    /\ blockers = [p \in Phase |-> 0]
    /\ complete = {}
    /\ walk = "static"
    /\ next_id = 0
    /\ held = [a \in Agent |-> NoPhase]
    /\ granted = {}
    /\ blocks = 0
    /\ scheduled = [c \in Callback |-> NoPhase]
    /\ timely = {} /\ called = {}

tables == <<callbacks, blockers, held, granted, blocks, scheduled, timely, called>>

Current == <<state, seq>>

(* The phase has already run.                                              *)
Passed(p) == state > p[1] \/ (state = p[1] /\ seq > p[2])

(* Code other than the state machine's runs: the static entries are being  *)
(* scheduled, a callback or run_state() runs, or a timer resumed a thread. *)
Open == walk \in {"static", "timers", "callback", "run_state"}

-----------------------------------------------------------------------------
(* boot_state_sched_on_entry(), boot_state_sched_on_exit(): the new        *)
(* callback becomes the first one.  Only completed states refuse it.       *)
boot_state_sched_callback(c, p) ==
    /\ Open
    /\ scheduled[c] = NoPhase
    /\ p[1] \notin complete
    /\ callbacks' = [callbacks EXCEPT ![p] = <<c>> \o @]
    /\ scheduled' = [scheduled EXCEPT ![c] = p]
    /\ timely' = IF Passed(p) THEN timely ELSE timely \cup {c}
    /\ UNCHANGED <<state, seq, blockers, complete, walk, next_id, held, granted, blocks,
                   called>>

Refuses(p) == Passed(p)

boot_state_block(a, p) ==
    /\ Open /\ walk # "static"
    /\ held[a] = NoPhase
    /\ blocks < MaxBlocks
    /\ blocks' = blocks + 1
    /\ held' = [held EXCEPT ![a] = p]
    /\ IF Refuses(p)
       THEN UNCHANGED <<blockers, granted>>
       ELSE /\ blockers' = [blockers EXCEPT ![p] = @ + 1]
            /\ granted' = granted \cup {a}
    /\ UNCHANGED <<state, seq, callbacks, complete, walk, next_id, scheduled, timely,
                   called>>

boot_state_unblock(a) ==
    /\ Open /\ walk # "static"
    /\ held[a] # NoPhase
    /\ held' = [held EXCEPT ![a] = NoPhase]
    /\ granted' = granted \ {a}
    /\ blockers' = IF Refuses(held[a]) \/ blockers[held[a]] = 0 THEN blockers
                   ELSE [blockers EXCEPT ![held[a]] = @ - 1]
    /\ UNCHANGED <<state, seq, callbacks, complete, walk, next_id, blocks, scheduled,
                   timely, called>>

-----------------------------------------------------------------------------
(* boot_state_schedule_static_entries() has returned.                      *)
StartWalk ==
    /\ walk = "static"
    /\ walk' = "top"
    /\ UNCHANGED <<state, seq, complete, next_id, tables>>

(* The head of the loop, lines 328-334.                                    *)
EnterState ==
    /\ walk = "top" /\ state \notin complete
    /\ walk' = "timers"
    /\ UNCHANGED <<state, seq, complete, next_id, tables>>

AlreadyExecuted ==
    /\ walk = "top" /\ state \in complete
    /\ walk' = "dead"
    /\ UNCHANGED <<state, seq, complete, next_id, tables>>

(* bs_run_timers(0), which always precedes the loop of bs_call_callbacks.  *)
TimersRan ==
    /\ walk = "timers"
    /\ walk' = "callbacks"
    /\ UNCHANGED <<state, seq, complete, next_id, tables>>

MutantCallCallback ==
    /\ walk = "callbacks" /\ callbacks[Current] # <<>>
    /\ callbacks' = [callbacks EXCEPT ![Current] = <<>>]
    /\ called' = called \cup {Head(callbacks[Current])}
    /\ walk' = "callback"
    /\ UNCHANGED <<state, seq, blockers, complete, next_id, held, granted, blocks,
                   scheduled, timely>>

CallCallback ==
    /\ walk = "callbacks" /\ callbacks[Current] # <<>>
    /\ callbacks' = [callbacks EXCEPT ![Current] = Tail(@)]
    /\ called' = called \cup {Head(callbacks[Current])}
    /\ walk' = "callback"
    /\ UNCHANGED <<state, seq, blockers, complete, next_id, held, granted, blocks,
                   scheduled, timely>>

CallbackReturns ==
    /\ walk = "callback"
    /\ walk' = "timers"
    /\ UNCHANGED <<state, seq, complete, next_id, tables>>

MutantPhaseFinished == callbacks[Current] = <<>>
PhaseFinished == callbacks[Current] = <<>> /\ blockers[Current] = 0

WaitForBlockers ==
    /\ walk = "callbacks" /\ callbacks[Current] = <<>> /\ blockers[Current] # 0
    /\ walk' = "timers"
    /\ UNCHANGED <<state, seq, complete, next_id, tables>>

EntryFinished ==
    /\ walk = "callbacks" /\ PhaseFinished /\ seq = BS_ON_ENTRY
    /\ seq' = BS_ON_EXIT
    /\ walk' = "run_state"
    /\ UNCHANGED <<state, complete, next_id, tables>>

(* run_state() returns the next state.                                     *)
RunStateReturns ==
    /\ walk = "run_state"
    /\ next_id' \in RunState[state]
    /\ walk' = "timers"
    /\ UNCHANGED <<state, seq, complete, tables>>

(* run_state() does not return: the payload or the resumed OS runs.        *)
RunStateLeaves ==
    /\ walk = "run_state" /\ state \in NoReturn
    /\ walk' = "left"
    /\ UNCHANGED <<state, seq, complete, next_id, tables>>

(* die() in bs_os_resume(), the only run_state() that cannot return.       *)
RunStateDies ==
    /\ walk = "run_state" /\ RunState[state] = {}
    /\ walk' = "dead"
    /\ UNCHANGED <<state, seq, complete, next_id, tables>>

MutantExitFinished ==
    /\ walk = "callbacks" /\ PhaseFinished /\ seq = BS_ON_EXIT
    /\ state' = next_id /\ seq' = BS_ON_ENTRY
    /\ walk' = "top"
    /\ UNCHANGED <<complete, next_id, tables>>

ExitFinished ==
    /\ walk = "callbacks" /\ PhaseFinished /\ seq = BS_ON_EXIT
    /\ state' = next_id /\ seq' = BS_ON_ENTRY
    /\ complete' = complete \cup {state}
    /\ walk' = "top"
    /\ UNCHANGED <<next_id, tables>>

Walk == \/ StartWalk \/ EnterState \/ AlreadyExecuted \/ TimersRan
        \/ CallCallback \/ CallbackReturns \/ WaitForBlockers
        \/ EntryFinished \/ RunStateReturns \/ RunStateLeaves \/ RunStateDies
        \/ ExitFinished

Next == \/ Walk
        \/ \E c \in Callback, p \in Phase : boot_state_sched_callback(c, p)
        \/ \E a \in Agent : \/ boot_state_unblock(a)
                            \/ \E p \in Phase : boot_state_block(a, p)

Spec == Init /\ [][Next]_vars

-----------------------------------------------------------------------------
(* A phase that is still to run has as many blockers as agents whose block *)
(* was accepted; the unblock that follows a refused block takes nobody     *)
(* else's block away.                                                      *)
BlockersExact ==
    \A p \in Phase : ~Passed(p) =>
        blockers[p] = Cardinality({a \in granted : held[a] = p})

(* The states that main has entered; the resume check skips one.           *)
Entered == complete \cup {state}

(* bootstate.h, lines 161-162: the state machine does not leave a phase    *)
(* that an agent blocked, until that agent unblocks it.                    *)
BlockHolds == \A a \in granted :
    /\ held[a] \in Phase
    /\ held[a][1] \in Entered => ~Passed(held[a])

(* A callback that is accepted before its phase has passed is called       *)
(* before the phase passes, even if it is scheduled by the last callback   *)
(* of that phase or while the phase is blocked.                            *)
TimelyAreCalled ==
    \A c \in timely :
        /\ scheduled[c] \in Phase
        /\ scheduled[c][1] \in Entered /\ Passed(scheduled[c]) => c \in called

(* A refused block stays refused: a phase that has run does not run again, *)
(* so the agent's unblock is refused as well.                              *)
RefusalStands ==
    Open => \A a \in Agent : held[a] # NoPhase /\ a \notin granted => Passed(held[a])

(* The boot ends, in the payload, in the OS or in a diagnosed failure.     *)
BootEnds == <>(walk \in {"left", "dead"})

=============================================================================
