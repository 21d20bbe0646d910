--------------------------- MODULE RamstageProofs ---------------------------
(***************************************************************************)
(* Proofs about Ramstage: composed from the proofs about the threads and   *)
(* about the boot states.  Every step of Ramstage is a step of the threads,*)
(* a step of the boot states or both, so it keeps the invariants of both;  *)
(* what is proved here is what ties them together.                         *)
(*                                                                         *)
(* The invariants are those of TP and BP, which extend the modules that    *)
(* Ramstage calls T and B; the first lemmas say that they define the same. *)
(***************************************************************************)
EXTENDS Ramstage, FiniteSetTheorems, TLAPS

TP == INSTANCE CoopThreadsProofs
BP == INSTANCE BootStateProofs WITH Agent <- 1..NumThreads - 1

-----------------------------------------------------------------------------
(* T and TP are the same threads.                                          *)
LEMMA SamePlaces ==
    /\ TP!Main = T!Main /\ TP!Idle = T!Idle /\ TP!Thread = T!Thread /\ TP!Worker = T!Worker
    /\ TP!Sleeping = T!Sleeping /\ TP!Live = T!Live
    /\ \A t : TP!Running(t) <=> T!Running(t)
    /\ \A t : TP!thread_can_yield(t) <=> T!thread_can_yield(t)
BY DEF TP!Main, T!Main, TP!Idle, T!Idle, TP!Thread, T!Thread, TP!Worker, T!Worker,
       TP!Sleeping, T!Sleeping, TP!Live, T!Live, TP!ToSet, T!ToSet, TP!Running, T!Running,
       TP!thread_can_yield, T!thread_can_yield

LEMMA SameSchedule ==
    /\ \A hs : TP!ScheduleNext(hs) <=> T!ScheduleNext(hs)
    /\ \A t : TP!ScheduleThread(t) <=> T!ScheduleThread(t)
    /\ \A t, us : TP!Sleep(t, us) <=> T!Sleep(t, us)
BY SamePlaces
DEF TP!ScheduleNext, T!ScheduleNext, TP!ScheduleThread, T!ScheduleThread, TP!Sleep, T!Sleep,
    TP!SwitchTo, T!SwitchTo, TP!Started, T!Started, TP!Last, T!Last, TP!Front, T!Front

LEMMA SameCalls ==
    ASSUME NEW t
    PROVE  /\ \A h : TP!ThreadRun(t, h) <=> T!ThreadRun(t, h)
           /\ TP!Calls(t) <=> T!Calls(t)
<1>1. \A h : TP!ThreadRun(t, h) <=> T!ThreadRun(t, h)
  BY SamePlaces, SameSchedule
  DEF TP!ThreadRun, T!ThreadRun, TP!Last, T!Last, TP!Front, T!Front
<1>2. \A us : TP!YieldMicroseconds(t, us) <=> T!YieldMicroseconds(t, us)
  BY SamePlaces, SameSchedule DEF TP!YieldMicroseconds, T!YieldMicroseconds
<1>3. /\ TP!CoopDisable(t) <=> T!CoopDisable(t)
      /\ TP!CoopEnable(t) <=> T!CoopEnable(t)
  BY SamePlaces DEF TP!CoopDisable, T!CoopDisable, TP!CoopEnable, T!CoopEnable
<1>4. /\ \A h : TP!JoinStart(t, h) <=> T!JoinStart(t, h)
      /\ TP!JoinWait(t) <=> T!JoinWait(t)
      /\ TP!JoinDone(t) <=> T!JoinDone(t)
  BY SamePlaces, SameSchedule
  DEF TP!JoinStart, T!JoinStart, TP!JoinWait, T!JoinWait, TP!JoinDone, T!JoinDone,
      TP!Joining, T!Joining, TP!Resume, T!Resume
<1>5. /\ \A m : TP!LockStart(t, m) <=> T!LockStart(t, m)
      /\ \A m : TP!Unlock(t, m) <=> T!Unlock(t, m)
      /\ TP!LockWait(t) <=> T!LockWait(t)
      /\ TP!LockAcquire(t) <=> T!LockAcquire(t)
  BY SamePlaces, SameSchedule
  DEF TP!LockStart, T!LockStart, TP!Unlock, T!Unlock, TP!LockWait, T!LockWait,
      TP!LockAcquire, T!LockAcquire, TP!Locking, T!Locking, TP!locked, T!locked,
      TP!Resume, T!Resume
<1> QED
  BY <1>1, <1>2, <1>3, <1>4, <1>5 DEF TP!Calls, T!Calls

LEMMA SameThreads ==
    /\ TP!Init <=> T!Init
    /\ TP!Tick <=> T!Tick
    /\ \A t : TP!Terminate(t) <=> T!Terminate(t)
    /\ \A t : TP!TimersRun(t) <=> T!TimersRun(t)
<1>1. TP!Init <=> T!Init
  BY SamePlaces DEF TP!Init, T!Init
<1>2. TP!Tick <=> T!Tick
  <2>1. \A d : TP!Aged(d) = T!Aged(d)
    BY DEF TP!Aged, T!Aged, TP!Cardinality, T!Cardinality
  <2>2. TP!Aged([t \in TP!Sleeping |-> due[t] - 1]) = T!Aged([t \in T!Sleeping |-> due[t] - 1])
    BY <2>1, SamePlaces
  <2> QED
    BY <2>2 DEF TP!Tick, T!Tick
<1>3. ASSUME NEW t PROVE TP!Terminate(t) <=> T!Terminate(t)
  BY SamePlaces, SameSchedule DEF TP!Terminate, T!Terminate
<1>4. ASSUME NEW t PROVE TP!TimersRun(t) <=> T!TimersRun(t)
  BY SamePlaces, SameSchedule
  DEF TP!TimersRun, T!TimersRun, TP!MayRunTimers, T!MayRunTimers, TP!Earliest, T!Earliest
<1> QED
  BY <1>1, <1>2, <1>3, <1>4

(* B and BP are the same boot states.                                      *)
LEMMA SameBoot ==
    /\ BP!Init <=> B!Init
    /\ BP!Walk <=> B!Walk
    /\ \A c, p : BP!boot_state_sched_callback(c, p) <=> B!boot_state_sched_callback(c, p)
    /\ \A a, p : BP!boot_state_block(a, p) <=> B!boot_state_block(a, p)
    /\ \A a : BP!boot_state_unblock(a) <=> B!boot_state_unblock(a)
    /\ BP!Phase = B!Phase /\ BP!Entered = B!Entered
    /\ \A p : BP!Passed(p) <=> B!Passed(p)
    /\ BP!BlockHolds <=> B!BlockHolds
<1> USE DEF BP!BootState, B!BootState, BP!BS_ON_ENTRY, B!BS_ON_ENTRY, BP!BS_ON_EXIT,
            B!BS_ON_EXIT, BP!Phase, B!Phase, BP!Current, B!Current, BP!Passed, B!Passed,
            BP!Open, B!Open, BP!Refuses, B!Refuses, BP!tables, B!tables
<1>1. BP!Init <=> B!Init
  BY DEF BP!Init, B!Init
<1>2. BP!Walk <=> B!Walk
  BY DEF BP!Walk, B!Walk, BP!StartWalk, B!StartWalk, BP!EnterState, B!EnterState,
         BP!AlreadyExecuted, B!AlreadyExecuted, BP!TimersRan, B!TimersRan,
         BP!CallCallback, B!CallCallback, BP!CallbackReturns, B!CallbackReturns,
         BP!PhaseFinished, B!PhaseFinished, BP!WaitForBlockers, B!WaitForBlockers,
         BP!EntryFinished, B!EntryFinished, BP!RunStateReturns, B!RunStateReturns,
         BP!RunStateLeaves, B!RunStateLeaves, BP!RunStateDies, B!RunStateDies,
         BP!ExitFinished, B!ExitFinished
<1>3. \A c, p : BP!boot_state_sched_callback(c, p) <=> B!boot_state_sched_callback(c, p)
  BY DEF BP!boot_state_sched_callback, B!boot_state_sched_callback
<1>4. \A a, p : BP!boot_state_block(a, p) <=> B!boot_state_block(a, p)
  BY DEF BP!boot_state_block, B!boot_state_block
<1>5. \A a : BP!boot_state_unblock(a) <=> B!boot_state_unblock(a)
  BY DEF BP!boot_state_unblock, B!boot_state_unblock
<1>6. /\ BP!Phase = B!Phase /\ BP!Entered = B!Entered
      /\ \A p : BP!Passed(p) <=> B!Passed(p)
      /\ BP!BlockHolds <=> B!BlockHolds
  BY DEF BP!Entered, B!Entered, BP!BlockHolds, B!BlockHolds
<1> QED
  BY <1>1, <1>2, <1>3, <1>4, <1>5, <1>6

-----------------------------------------------------------------------------
(* What the two proofs assume, met by the assumptions of Ramstage.         *)
LEMMA BootMeetsAssumption ==
    /\ LastState \in Nat
    /\ RunState \in [BP!BootState -> SUBSET BP!BootState]
    /\ \A s \in BP!BootState :
         \A n \in RunState[s] : n > s \/ (n = s /\ s \in NoReturn)
    /\ NoPhase \notin BP!Phase
    /\ MaxBlocks \in Nat
    /\ BP!IsFiniteSet(1..NumThreads - 1)
<1>1. BP!BootState = B!BootState /\ BP!Phase = B!Phase
  BY DEF BP!BootState, B!BootState, BP!Phase, B!Phase, BP!BS_ON_ENTRY, B!BS_ON_ENTRY,
         BP!BS_ON_EXIT, B!BS_ON_EXIT
<1>2. IsFiniteSet(1..NumThreads - 1)
  BY ThreadsAssumption, FS_Interval
<1>3. BP!IsFiniteSet(1..NumThreads - 1)
  BY <1>2 DEF IsFiniteSet, BP!IsFiniteSet
<1> QED
  BY <1>1, <1>3, BootAssumption

LEMMA ThreadsKeep ==
    /\ TP!Init => TP!IInv
    /\ TP!IInv /\ [TP!Next]_(TP!vars) => TP!IInv'
    /\ TP!IInv => TP!TypeOK
BY ThreadsAssumption, TP!InitIInv, TP!NextIInv DEF TP!IInv

LEMMA BootKeeps ==
    /\ BP!Init => BP!IInv
    /\ BP!IInv /\ [BP!Next]_(BP!vars) => BP!IInv'
BY BootMeetsAssumption, BP!InitIInv, BP!NextIInv

LEMMA ThreadsLiveOn ==
    TP!IInv => /\ T!Tick => T!Live \subseteq T!Live'
               /\ \A t \in T!Thread :
                    /\ T!Calls(t) \/ T!TimersRun(t) =>
                         T!Live \subseteq T!Live' /\ active = t
                    /\ T!Terminate(t) =>
                         /\ T!Live' = T!Live \ {t}
                         /\ active = t /\ t \in T!Worker /\ active' # t
                    /\ \A h \in Handle \cup {NoHandle} : T!ThreadRun(t, h) =>
                         active' \in T!Live' /\ active' \in T!Worker
<1> SUFFICES ASSUME TP!IInv
             PROVE  /\ T!Tick => T!Live \subseteq T!Live'
                    /\ \A t \in T!Thread :
                         /\ T!Calls(t) \/ T!TimersRun(t) =>
                              T!Live \subseteq T!Live' /\ active = t
                         /\ T!Terminate(t) =>
                              /\ T!Live' = T!Live \ {t}
                              /\ active = t /\ t \in T!Worker /\ active' # t
                         /\ \A h \in Handle \cup {NoHandle} : T!ThreadRun(t, h) =>
                              active' \in T!Live' /\ active' \in T!Worker
  OBVIOUS
<1>1. TP!Live' = T!Live'
  BY DEF TP!Live, T!Live, TP!Sleeping, T!Sleeping, TP!ToSet, T!ToSet
<1>2. T!Tick => T!Live \subseteq T!Live'
  BY ThreadsAssumption, TP!LivesOn, <1>1, SamePlaces, SameThreads
<1>3. ASSUME NEW t \in T!Thread
      PROVE  /\ T!Calls(t) \/ T!TimersRun(t) => T!Live \subseteq T!Live' /\ active = t
             /\ T!Terminate(t) => /\ T!Live' = T!Live \ {t}
                                  /\ active = t /\ t \in T!Worker /\ active' # t
             /\ \A h \in Handle \cup {NoHandle} : T!ThreadRun(t, h) =>
                  active' \in T!Live' /\ active' \in T!Worker
  BY ThreadsAssumption, TP!LivesOn, <1>1, SamePlaces, SameThreads, SameCalls
<1> QED
  BY <1>2, <1>3

(* While main prints its can_yield is not positive.                        *)
LEMMA SectionsForbidYield ==
    TP!IInv /\ sections[Main] > 0 => ~T!thread_can_yield(Main)
<1> SUFFICES ASSUME TP!IInv, sections[Main] > 0 PROVE ~T!thread_can_yield(Main)
  OBVIOUS
<1>1. Main \in TP!Thread
  BY ThreadsAssumption DEF Main, T!Main, TP!Thread
<1>2. can_yield[Main] = 1 - sections[Main] /\ sections[Main] \in Nat
  BY <1>1 DEF TP!IInv, TP!SectionsCounted, TP!TypeOK
<1> QED
  BY <1>2 DEF T!thread_can_yield

LEMMA SectionsOfMain ==
    TP!IInv => /\ T!Tick => sections'[Main] = sections[Main]
               /\ \A t \in T!Thread :
                    /\ T!Terminate(t) \/ T!TimersRun(t) => sections'[Main] = sections[Main]
                    /\ T!Calls(t) /\ t # Main => sections'[Main] = sections[Main]
<1> SUFFICES ASSUME TP!IInv
             PROVE  /\ T!Tick => sections'[Main] = sections[Main]
                    /\ \A t \in T!Thread :
                         /\ T!Terminate(t) \/ T!TimersRun(t) =>
                              sections'[Main] = sections[Main]
                         /\ T!Calls(t) /\ t # Main => sections'[Main] = sections[Main]
  OBVIOUS
<1>1. Main = TP!Main
  BY SamePlaces DEF Main
<1>2. T!Tick => sections'[Main] = sections[Main]
  BY ThreadsAssumption, TP!MainsSections, <1>1, SameThreads
<1>3. ASSUME NEW t \in T!Thread
      PROVE  /\ T!Terminate(t) \/ T!TimersRun(t) => sections'[Main] = sections[Main]
             /\ T!Calls(t) /\ t # Main => sections'[Main] = sections[Main]
  BY ThreadsAssumption, TP!MainsSections, <1>1, SamePlaces, SameThreads, SameCalls
<1> QED
  BY <1>2, <1>3

-----------------------------------------------------------------------------
(* While main prints, it has a critical section open, and is in neither a  *)
(* callback nor run_state().                                               *)
PrintsLocked == printing => sections[Main] > 0 /\ ~InDeviceCode(Main)

(* A thread whose block was accepted lives: it gives the block back before *)
(* it ends, since its phase is on record.                                  *)
RInv == /\ TP!IInv /\ BP!IInv /\ OthersWhenOpen /\ granted \subseteq T!Live
        /\ PrintsLocked

LEMMA BlockersArePhases ==
    BP!IInv => \A t \in granted : held[t] # NoPhase
BY BootAssumption, SameBoot DEF BP!IInv, B!BlockHolds

LEMMA WorkersAreAgents ==
    /\ T!Worker = 1..NumThreads - 1
    /\ T!Main \in T!Thread /\ T!Idle \in T!Thread /\ T!Idle # T!Main
BY ThreadsAssumption DEF T!Worker, T!Thread, T!Main, T!Idle

(* What each step of Ramstage is for the threads, for the boot states, and *)
(* for the two properties that tie them together.                          *)
StepOK ==
    /\ [TP!Next]_(TP!vars)
    /\ [BP!Next]_(BP!vars)
    /\ OthersWhenOpen'
    /\ granted' \subseteq T!Live'
    /\ PrintsLocked'

LEMMA WalkTables ==
    B!Walk => UNCHANGED <<held, granted>>
BY DEF B!Walk, B!StartWalk, B!EnterState, B!AlreadyExecuted, B!TimersRan, B!CallCallback,
       B!CallbackReturns, B!WaitForBlockers, B!EntryFinished, B!RunStateReturns,
       B!RunStateLeaves, B!RunStateDies, B!ExitFinished, B!tables

LEMMA ThreadVarsLive == UNCHANGED thread_vars => T!Live' = T!Live /\ UNCHANGED TP!vars
BY DEF thread_vars, T!Live, T!Sleeping, T!ToSet, TP!vars

LEMMA MainStep ==
    ASSUME RInv, MainTimersRun \/ TimersReturn \/ MainWalks
    PROVE  StepOK
<1>1. Main \in T!Thread /\ T!Running(Main) => active = Main
  BY WorkersAreAgents DEF Main, T!Running
<1>2. CASE MainTimersRun
  <2>1. T!TimersRun(Main) /\ UNCHANGED boot_vars /\ walk = "timers"
    BY <1>2 DEF MainTimersRun
  <2>2. TP!Next
    BY <2>1, <1>1, SamePlaces, SameThreads, WorkersAreAgents DEF TP!Next, Main
  <2>3. T!Live \subseteq T!Live'
    BY <2>1, ThreadsLiveOn, WorkersAreAgents DEF RInv, Main
  <2>4. PrintsLocked'
    BY <1>2 DEF MainTimersRun, MainRuns, PrintsLocked
  <2> QED
    BY <2>1, <2>2, <2>3, <2>4 DEF StepOK, RInv, OthersWhenOpen, boot_vars, BP!vars
<1>3. CASE TimersReturn \/ MainWalks
  <2>1. active = Main /\ B!Walk /\ UNCHANGED thread_vars
    BY <1>1, <1>3 DEF TimersReturn, MainWalks, MainRuns, B!Walk, T!Running
  <2>2. BP!Next
    BY <2>1, SameBoot DEF BP!Next
  <2>3. PrintsLocked'
    BY <1>3 DEF TimersReturn, MainWalks, MainRuns, PrintsLocked
  <2> QED
    BY <2>1, <2>2, <2>3, WalkTables, ThreadVarsLive
    DEF StepOK, RInv, OthersWhenOpen, thread_vars
<1> QED
  BY <1>2, <1>3

LEMMA PrintStep ==
    ASSUME RInv, Prints
    PROVE  StepOK
<1>0. UNCHANGED <<boot_vars, timers_ran>> /\ T!Running(Main) /\ Main \in T!Thread
  BY WorkersAreAgents DEF Prints, PrintBegins, PrintEnds, PrintDelays, MainRuns, Main, T!CoopEnable
<1>1. CASE PrintBegins
  <2>1. T!CoopDisable(Main) /\ ~InDeviceCode(Main)
    BY <1>1 DEF PrintBegins
  <2>2. TP!Next /\ T!Live \subseteq T!Live' /\ active' = active
    <3>1. T!Calls(Main)
      BY <2>1 DEF T!Calls
    <3> QED
      BY <1>0, <2>1, <3>1, SamePlaces, SameCalls, ThreadsLiveOn DEF TP!Next, T!CoopDisable, RInv
  <2>3. sections'[Main] > 0
    <3>1. sections[Main] \in Nat /\ sections \in [T!Thread -> Nat]
      BY <1>0, SamePlaces DEF RInv, TP!IInv, TP!TypeOK
    <3> QED
      BY <1>0, <2>1, <3>1 DEF T!CoopDisable
  <2> QED
    BY <1>0, <2>1, <2>2, <2>3
    DEF StepOK, RInv, OthersWhenOpen, PrintsLocked, InDeviceCode, boot_vars, BP!vars
<1>2. CASE PrintEnds
  <2>1. T!CoopEnable(Main) /\ ~printing'
    BY <1>2 DEF PrintEnds
  <2>2. TP!Next /\ T!Live \subseteq T!Live' /\ active' = active
    <3>1. T!Calls(Main)
      BY <2>1 DEF T!Calls
    <3> QED
      BY <1>0, <2>1, <3>1, SamePlaces, SameCalls, ThreadsLiveOn DEF TP!Next, T!CoopEnable, RInv
  <2> QED
    BY <1>0, <2>1, <2>2 DEF StepOK, RInv, OthersWhenOpen, PrintsLocked, boot_vars, BP!vars
<1>3. ASSUME NEW us \in 0..MaxDelay, PrintDelays(us) PROVE StepOK
  <2>1. printing /\ ~T!thread_can_yield(Main)
    BY <1>3, SectionsForbidYield DEF PrintDelays, RInv, PrintsLocked
  <2>2. UNCHANGED <<thread_vars, boot_vars, printing>>
    BY <1>3, <2>1 DEF PrintDelays
  <2> QED
    BY <2>2, ThreadVarsLive
    DEF StepOK, RInv, OthersWhenOpen, PrintsLocked, InDeviceCode, boot_vars, thread_vars, BP!vars
<1> QED
  BY <1>1, <1>2, <1>3 DEF Prints

LEMMA QuietThreadStep ==
    ASSUME RInv, Tick \/ IdleTimersRun
    PROVE  StepOK
<1>1. UNCHANGED boot_vars /\ (T!Tick \/ T!TimersRun(T!Idle))
  BY DEF Tick, IdleTimersRun
<1>2. TP!Next
  BY <1>1, SamePlaces, SameThreads, WorkersAreAgents DEF TP!Next
<1>3. T!Live \subseteq T!Live'
  BY <1>1, ThreadsLiveOn, WorkersAreAgents DEF RInv
<1>4. OthersWhenOpen'
  <2>1. CASE T!Tick
    BY <1>1, <2>1 DEF T!Tick, RInv, OthersWhenOpen, boot_vars
  <2>2. CASE T!TimersRun(T!Idle)
    <3>1. active = T!Idle
      BY <2>2, ThreadsLiveOn, WorkersAreAgents DEF RInv
    <3> QED
      BY <1>1, <3>1, WorkersAreAgents DEF RInv, OthersWhenOpen, boot_vars, Main
  <2> QED
    BY <1>1, <2>1, <2>2
<1>5. PrintsLocked'
  <2>1. sections'[Main] = sections[Main] /\ printing' = printing
    BY <1>1, SectionsOfMain, WorkersAreAgents DEF RInv, Tick, IdleTimersRun
  <2> QED
    BY <1>1, <2>1 DEF RInv, PrintsLocked, InDeviceCode, boot_vars
<1> QED
  BY <1>1, <1>2, <1>3, <1>4, <1>5 DEF StepOK, RInv, boot_vars, BP!vars

LEMMA CallStep ==
    ASSUME RInv, NEW t \in T!Thread,
           \/ DeviceCode(t)
           \/ \E c \in Callback, p \in B!Phase : ScheduleCallback(t, c, p)
    PROVE  StepOK
<1>1. CASE DeviceCode(t)
  <2>1. InDeviceCode(t) /\ T!Calls(t) /\ UNCHANGED boot_vars
    BY <1>1 DEF DeviceCode
  <2>2. TP!Next
    BY <2>1, SamePlaces, SameCalls DEF TP!Next
  <2>3. T!Live \subseteq T!Live' /\ active = t
    BY <2>1, ThreadsLiveOn DEF RInv
  <2>4. PrintsLocked'
    <3>1. t # Main => sections'[Main] = sections[Main]
      BY <2>1, SectionsOfMain DEF RInv
    <3>2. printing' = printing
      BY <1>1 DEF DeviceCode
    <3> QED
      BY <2>1, <3>1, <3>2 DEF RInv, PrintsLocked, InDeviceCode, boot_vars
  <2> QED
    BY <2>1, <2>2, <2>3, <2>4
    DEF StepOK, RInv, OthersWhenOpen, InDeviceCode, boot_vars, BP!vars
<1>2. ASSUME NEW c \in Callback, NEW p \in B!Phase, ScheduleCallback(t, c, p) PROVE StepOK
  <2>1. B!boot_state_sched_callback(c, p) /\ UNCHANGED thread_vars
    BY <1>2 DEF ScheduleCallback
  <2>2. BP!Next
    BY <2>1, SameBoot DEF BP!Next
  <2>3. walk' = walk /\ granted' = granted
    BY <2>1 DEF B!boot_state_sched_callback
  <2>4. PrintsLocked'
    BY <1>2, <2>3 DEF ScheduleCallback, thread_vars, RInv, PrintsLocked, InDeviceCode
  <2> QED
    BY <2>1, <2>2, <2>3, <2>4, ThreadVarsLive DEF StepOK, RInv, OthersWhenOpen, thread_vars
<1> QED
  BY <1>1, <1>2

LEMMA RunUntilStep ==
    ASSUME RInv, NEW t \in T!Thread, NEW h \in Handle \cup {NoHandle}, NEW p \in B!Phase,
           RunUntil(t, h, p)
    PROVE  StepOK
<1>1. InDeviceCode(t) /\ T!ThreadRun(t, h) /\ B!boot_state_block(active', p)
  BY DEF RunUntil
<1>2. T!Calls(t)
  BY <1>1 DEF T!Calls
<1>3. T!Live \subseteq T!Live' /\ active = t /\ active' \in T!Live' /\ active' \in T!Worker
  BY <1>1, <1>2, ThreadsLiveOn DEF RInv
<1>4. TP!Next
  BY <1>2, SamePlaces, SameCalls DEF TP!Next
<1>5. PICK a \in T!Worker : a = active'
  BY <1>3
<1>6. B!boot_state_block(a, p)
  BY <1>1, <1>5
<1>7. BP!Next
  BY <1>6, SameBoot, WorkersAreAgents DEF BP!Next
<1>8. walk' = walk /\ granted' \subseteq granted \cup {a}
  BY <1>6 DEF B!boot_state_block
<1>9. PrintsLocked'
  <2>1. t # Main => sections'[Main] = sections[Main]
    BY <1>2, SectionsOfMain DEF RInv
  <2>2. printing' = printing
    BY DEF RunUntil
  <2> QED
    BY <1>1, <1>8, <2>1, <2>2 DEF RInv, PrintsLocked, InDeviceCode
<1> QED
  BY <1>1, <1>3, <1>4, <1>5, <1>7, <1>8, <1>9 DEF StepOK, RInv, OthersWhenOpen, InDeviceCode

LEMMA FinishStep ==
    ASSUME RInv, NEW t \in T!Thread, Finish(t)
    PROVE  StepOK
<1>1. /\ T!Terminate(t)
      /\ IF held[t] = NoPhase THEN UNCHANGED boot_vars ELSE B!boot_state_unblock(t)
  BY DEF Finish
<1>2. T!Live' = T!Live \ {t} /\ active = t /\ t \in T!Worker
  BY <1>1, ThreadsLiveOn DEF RInv
<1>3. TP!Next
  BY <1>1, SamePlaces, SameThreads DEF TP!Next
<1>4. t # Main
  BY <1>2 DEF Main, T!Worker
<1>7. sections'[Main] = sections[Main] /\ printing' = printing
  BY <1>1, SectionsOfMain DEF RInv, Finish
<1>5. CASE held[t] = NoPhase
  <2>1. UNCHANGED boot_vars /\ t \notin granted
    BY <1>1, <1>5, BlockersArePhases DEF RInv
  <2> QED
    BY <2>1, <1>2, <1>3, <1>4, <1>7
    DEF StepOK, RInv, OthersWhenOpen, PrintsLocked, InDeviceCode, boot_vars, BP!vars
<1>6. CASE held[t] # NoPhase
  <2>1. B!boot_state_unblock(t)
    BY <1>1, <1>6
  <2>2. BP!Next
    BY <2>1, <1>2, SameBoot, WorkersAreAgents DEF BP!Next
  <2>3. walk' = walk /\ granted' = granted \ {t}
    BY <2>1 DEF B!boot_state_unblock
  <2> QED
    BY <1>2, <1>3, <1>4, <1>7, <2>2, <2>3
    DEF StepOK, RInv, OthersWhenOpen, PrintsLocked, InDeviceCode
<1> QED
  BY <1>5, <1>6

LEMMA InitRInv == Init => RInv
<1> SUFFICES ASSUME Init PROVE RInv
  OBVIOUS
<1>1. TP!IInv /\ BP!IInv
  BY SameThreads, SameBoot, ThreadsKeep, BootKeeps DEF Init
<1>2. OthersWhenOpen /\ granted \subseteq T!Live /\ PrintsLocked
  BY DEF Init, T!Init, B!Init, OthersWhenOpen, PrintsLocked, Main
<1> QED
  BY <1>1, <1>2 DEF RInv

LEMMA StepHolds == RInv /\ [Next]_vars => StepOK
<1> SUFFICES ASSUME RInv, [Next]_vars PROVE StepOK
  OBVIOUS
<1>1. CASE Next
  BY <1>1, MainStep, PrintStep, QuietThreadStep, CallStep, RunUntilStep, FinishStep DEF Next
<1>2. CASE UNCHANGED vars
  BY <1>2, ThreadVarsLive
  DEF vars, StepOK, RInv, OthersWhenOpen, PrintsLocked, InDeviceCode, boot_vars, thread_vars,
      BP!vars
<1> QED
  BY <1>1, <1>2

LEMMA NextRInv == RInv /\ [Next]_vars => RInv'
BY StepHolds, ThreadsKeep, BootKeeps DEF RInv, StepOK

(* The invariant holds in every run of ramstage, for every number of       *)
(* threads and every table of boot states.                                 *)
THEOREM RamstageInvariant == Spec => []RInv
<1> QED
  BY InitRInv, NextRInv, PTL DEF Spec

(* Main loses the processor only in a callback, in run_state() or in       *)
(* bs_run_timers(): what it prints between two other statements of the     *)
(* state machine cannot yield, as the lock of the console opens a critical *)
(* section and nobody else closes one of main's.                           *)
THEOREM OthersOnlyWhenOpen == Spec => []OthersWhenOpen
<1>1. RInv => OthersWhenOpen
  BY DEF RInv
<1> QED
  BY <1>1, RamstageInvariant, PTL

(* A phase that a thread of thread_run_until() blocks is not left while    *)
(* the thread lives, and the blockers of a phase to come are such threads. *)
THEOREM PhasesWait == Spec => []PhaseWaitsForThreads
<1>1. RInv => PhaseWaitsForThreads
  <2> SUFFICES ASSUME RInv PROVE PhaseWaitsForThreads
    OBVIOUS
  <2>1. granted \subseteq T!Live /\ B!BlockHolds
    BY SameBoot DEF RInv, BP!IInv
  <2>2. ASSUME NEW p \in B!Phase, ~B!Passed(p)
        PROVE  blockers[p] = Cardinality({t \in T!Live \cap granted : held[t] = p})
    <3>1. blockers[p] = BP!Cardinality({t \in granted : held[t] = p})
      BY <2>2, SameBoot DEF RInv, BP!IInv, BP!Counted
    <3>2. \A S : BP!Cardinality(S) = Cardinality(S)
      BY DEF BP!Cardinality, Cardinality
    <3>3. {t \in granted : held[t] = p} = {t \in T!Live \cap granted : held[t] = p}
      BY <2>1
    <3> QED
      BY <3>1, <3>2, <3>3
  <2> QED
    BY <2>1, <2>2 DEF PhaseWaitsForThreads
<1> QED
  BY <1>1, RamstageInvariant, PTL

(* What main's walk and the threads do together is what each is allowed to *)
(* do alone: ramstage implements the threads and the boot state machine.   *)
THEOREM RamstageImplements == Spec => T!Spec /\ B!Spec
<1>1. Init => T!Init /\ B!Init
  BY DEF Init
<1>2. RInv /\ [Next]_vars => [T!Next]_(T!vars) /\ [B!Next]_(B!vars)
  <2>1. TP!Next <=> T!Next
    BY SamePlaces, SameCalls, SameThreads DEF TP!Next, T!Next
  <2>2. BP!Next <=> B!Next
    BY SameBoot DEF BP!Next, B!Next
  <2> QED
    BY <2>1, <2>2, StepHolds DEF StepOK, TP!vars, T!vars, BP!vars, B!vars
<1> QED
  BY <1>1, <1>2, RamstageInvariant, PTL DEF Spec, T!Spec, B!Spec
=============================================================================
