------------------------- MODULE CoopThreadsProofs -------------------------
(***************************************************************************)
(* Proofs about CoopThreads for every number of threads, every set of      *)
(* handles and mutexes and every bound.                                    *)
(***************************************************************************)
EXTENDS CoopThreads, FiniteSetTheorems, SequenceTheorems, TLAPS

(* A thread list is a stack: what pushing and popping do to it.            *)
LEMMA Pushed ==
    ASSUME NEW S, NEW s \in Seq(S), NEW e \in S
    PROVE  /\ Append(s, e) \in Seq(S)
           /\ Append(s, e) # <<>>
           /\ Len(Append(s, e)) = Len(s) + 1
           /\ \A i \in 1..Len(s) : Append(s, e)[i] = s[i]
           /\ Append(s, e)[Len(s) + 1] = e
           /\ ToSet(Append(s, e)) = ToSet(s) \cup {e}
           /\ Distinct(s) /\ e \notin ToSet(s) => Distinct(Append(s, e))
<1>1. /\ Append(s, e) \in Seq(S)
      /\ Append(s, e) # <<>>
      /\ Len(Append(s, e)) = Len(s) + 1
      /\ \A i \in 1..Len(s) : Append(s, e)[i] = s[i]
      /\ Append(s, e)[Len(s) + 1] = e
  BY AppendProperties
<1>2. DOMAIN s = 1..Len(s) /\ Len(s) \in Nat /\ DOMAIN Append(s, e) = 1..Len(s) + 1
  BY <1>1, LenProperties
<1>3. ToSet(Append(s, e)) = ToSet(s) \cup {e}
  BY <1>1, <1>2, 1..Len(s) + 1 = 1..Len(s) \cup {Len(s) + 1} DEF ToSet
<1>4. ASSUME Distinct(s), e \notin ToSet(s)
      PROVE  Distinct(Append(s, e))
  <2>1. \A i \in 1..Len(s) : s[i] # e
    BY <1>2, <1>4 DEF ToSet
  <2> QED
    BY <1>1, <1>2, <1>4, <2>1 DEF Distinct
<1> QED
  BY <1>1, <1>3, <1>4

LEMMA Popped ==
    ASSUME NEW S, NEW s \in Seq(S), s # <<>>
    PROVE  /\ Front(s) \in Seq(S) /\ Last(s) \in S
           /\ Len(s) \in Nat \ {0} /\ Len(Front(s)) = Len(s) - 1
           /\ \A i \in 1..Len(s) - 1 : Front(s)[i] = s[i]
           /\ Last(s) = s[Len(s)]
           /\ ToSet(s) = ToSet(Front(s)) \cup {Last(s)}
           /\ Distinct(s) => Distinct(Front(s)) /\ Last(s) \notin ToSet(Front(s))
<1>1. Len(s) \in Nat \ {0} /\ DOMAIN s = 1..Len(s) /\ \A i \in 1..Len(s) : s[i] \in S
  BY EmptySeq, LenProperties, ElementOfSeq
<1>2. Last(s) = s[Len(s)] /\ Last(s) \in S
  BY <1>1 DEF Last
<1>3. /\ Front(s) \in Seq(S) /\ Len(Front(s)) = Len(s) - 1
      /\ \A i \in 1..Len(s) - 1 : Front(s)[i] = s[i]
  BY <1>1, SubSeqProperties, Len(s) - 1 \in Nat DEF Front
<1>4. DOMAIN Front(s) = 1..Len(s) - 1
  BY <1>3, LenProperties
<1>5. ToSet(s) = ToSet(Front(s)) \cup {Last(s)}
  BY <1>1, <1>2, <1>3, <1>4, 1..Len(s) = 1..Len(s) - 1 \cup {Len(s)} DEF ToSet
<1>6. ASSUME Distinct(s)
      PROVE  Distinct(Front(s)) /\ Last(s) \notin ToSet(Front(s))
  BY <1>1, <1>2, <1>3, <1>4, <1>6 DEF Distinct, ToSet
<1> QED
  BY <1>1, <1>2, <1>3, <1>5, <1>6

-----------------------------------------------------------------------------
(* What a step may do to the places of the threads.                        *)
Stays == /\ active' = active /\ runnable' = runnable /\ free' = free
         /\ Sleeping' = Sleeping

Pops == runnable # <<>> /\ active' = Last(runnable) /\ runnable' = Front(runnable)

Dozes == /\ active # Idle
         /\ Pops
         /\ free' = free /\ Sleeping' = Sleeping \cup {active}

Ends == /\ active \notin {Main, Idle}
        /\ Pops
        /\ free' = Append(free, active) /\ Sleeping' = Sleeping

Starts == /\ active # Idle
          /\ free # <<>> /\ active' = Last(free) /\ free' = Front(free)
          /\ runnable' = Append(runnable, active) /\ Sleeping' = Sleeping

Wakes(u) == /\ active \in {Main, Idle}
            /\ active' = u /\ Sleeping' = Sleeping \ {u}
            /\ runnable' = Append(runnable, active) /\ free' = free

(* The idle thread never waits in thread.c.                                *)
IdleNeverWaits == \A t \in Thread : pc[t] # "run" => t # Idle

LEMMA CallKinds ==
    ASSUME TypeOK, IdleNeverWaits, NEW t \in Thread, Calls(t)
    PROVE  Stays \/ Dozes \/ Starts
<1>1. CASE \E h \in Handle \cup {NoHandle} : ThreadRun(t, h)
  BY <1>1 DEF ThreadRun, Running, ScheduleThread, SwitchTo, Starts, Sleeping
<1>2. CASE \E us \in 0..MaxDelay : YieldMicroseconds(t, us)
  BY <1>2 DEF YieldMicroseconds, Running, Sleep, ScheduleNext, SwitchTo, Dozes, Pops, Sleeping
<1>3. CASE CoopDisable(t) \/ CoopEnable(t)
  BY <1>3 DEF CoopDisable, CoopEnable, Stays, Sleeping
<1>4. CASE \E h \in Handle : JoinStart(t, h)
  BY <1>4 DEF JoinStart, Stays, Sleeping
<1>5. CASE JoinWait(t) \/ LockWait(t)
  BY <1>5 DEF JoinWait, LockWait, Joining, Locking, IdleNeverWaits, Sleep, ScheduleNext,
              SwitchTo, Dozes, Pops, Sleeping
<1>6. CASE JoinDone(t) \/ LockAcquire(t)
  BY <1>6 DEF JoinDone, LockAcquire, Stays, Sleeping
<1>7. CASE \E m \in Mutex : LockStart(t, m) \/ Unlock(t, m)
  BY <1>7 DEF LockStart, Unlock, Stays, Sleeping
<1> QED
  BY <1>1, <1>2, <1>3, <1>4, <1>5, <1>6, <1>7 DEF Calls

LEMMA StepKinds ==
    ASSUME TypeOK, IdleNeverWaits, Next
    PROVE  Stays \/ Dozes \/ Ends \/ Starts \/ \E u \in Sleeping : Wakes(u)
<1>1. CASE Tick
  BY <1>1 DEF Tick, Stays, Sleeping, Aged
<1>2. ASSUME NEW t \in Thread, Calls(t)
      PROVE  Stays \/ Dozes \/ Starts
  BY <1>2, CallKinds
<1>3. ASSUME NEW t \in Thread, Terminate(t)
      PROVE  Ends
  BY <1>3 DEF Terminate, Running, ScheduleNext, SwitchTo, Ends, Pops, Sleeping
<1>4. ASSUME NEW t \in Thread, TimersRun(t)
      PROVE  \E u \in Sleeping : Wakes(u)
  BY <1>4 DEF TimersRun, MayRunTimers, ScheduleThread, SwitchTo, Wakes, Sleeping
<1> QED
  BY <1>1, <1>2, <1>3, <1>4 DEF Next

-----------------------------------------------------------------------------
(* Where main is on the runnable list: directly over idle.                 *)
MainSecond == \A i \in 1..Len(runnable) : runnable[i] = Main => i = 2

Places == OnePlace /\ SomeoneRunnable /\ MainOverIdle /\ MainSecond

Typed == /\ active \in Thread /\ runnable \in Seq(Thread) /\ free \in Seq(Worker)
         /\ Sleeping \subseteq Thread \ {Idle}

LEMMA InitPlaces == Init => Places
<1> SUFFICES ASSUME Init PROVE Places
  OBVIOUS
<1>1. active = 0 /\ runnable = <<NumThreads>> /\ Sleeping = {} /\ Idle # Main
  BY NumThreadsAssumption DEF Init, Main, Idle, Sleeping
<1>2. /\ Len(runnable) = 1 /\ runnable[1] = NumThreads /\ ToSet(runnable) = {NumThreads}
  BY <1>1 DEF ToSet
<1>3. /\ free = [i \in 1..NumThreads - 1 |-> i]
      /\ Len(free) = NumThreads - 1 /\ ToSet(free) = 1..NumThreads - 1
  BY NumThreadsAssumption DEF Init, ToSet
<1>4. OnePlace
  BY <1>1, <1>2, <1>3, NumThreadsAssumption DEF OnePlace, Distinct, Live, Thread
<1>5. SomeoneRunnable /\ MainOverIdle /\ MainSecond
  BY <1>1, <1>2, NumThreadsAssumption DEF SomeoneRunnable, MainOverIdle, MainSecond, Main, Idle
<1> QED
  BY <1>4, <1>5 DEF Places

LEMMA PlacesStep ==
    ASSUME Typed, Typed', Places,
           Stays \/ Dozes \/ Ends \/ Starts \/ \E u \in Sleeping : Wakes(u)
    PROVE  Places'
<1> USE NumThreadsAssumption
<1>0. Idle # Main /\ Main \in Thread /\ Idle \in Thread /\ Main \notin Worker /\ Idle \notin Worker
  BY DEF Main, Idle, Thread, Worker
<1>a. ASSUME Pops, active # Idle, Len(runnable) = 1
      PROVE  active' = Idle /\ runnable' = <<>>
  BY <1>a, Popped, EmptySeq DEF Pops, Typed, Places, SomeoneRunnable
<1>b. ASSUME Pops, active # Idle
      PROVE  SomeoneRunnable' /\ MainOverIdle' /\ MainSecond'
  <2>1. CASE Len(runnable) = 1
    BY <1>a, <1>b, <1>0, <2>1 DEF SomeoneRunnable, MainOverIdle, MainSecond
  <2>2. CASE Len(runnable) # 1
    <3>0. /\ Len(runnable) \in Nat \ {0} /\ Len(Front(runnable)) = Len(runnable) - 1
          /\ \A i \in 1..Len(runnable) - 1 : Front(runnable)[i] = runnable[i]
          /\ Last(runnable) = runnable[Len(runnable)]
      BY <1>b, Popped DEF Pops, Typed
    <3>1. /\ Len(runnable) \in Nat /\ Len(runnable) >= 2 /\ Len(runnable') = Len(runnable) - 1
          /\ \A i \in 1..Len(runnable') : runnable'[i] = runnable[i]
          /\ active' = runnable[Len(runnable)]
      BY <1>b, <2>2, <3>0 DEF Pops
    <3>2. active' # Idle /\ runnable' # <<>> /\ runnable'[1] = Idle
      BY <3>1, <1>b DEF Places, SomeoneRunnable
    <3>3. active' = Main => runnable' = <<Idle>>
      <4> SUFFICES ASSUME active' = Main PROVE runnable' = <<Idle>>
        OBVIOUS
      <4>1. Len(runnable) = 2
        BY <3>1 DEF Places, MainSecond
      <4> QED
        BY <4>1, <3>1, <3>2 DEF Typed
    <3> QED
      BY <3>1, <3>2, <3>3, <1>b DEF Places, SomeoneRunnable, MainOverIdle, MainSecond
  <2> QED
    BY <2>1, <2>2
<1>c. ASSUME runnable' = Append(runnable, active), active' \in Thread \ {Main, Idle} \/
             (active = Idle /\ active' \in Thread \ {Idle})
      PROVE  SomeoneRunnable' /\ MainOverIdle' /\ MainSecond'
  <2>1. /\ Len(runnable) \in Nat /\ Len(runnable') = Len(runnable) + 1 /\ runnable' # <<>>
        /\ \A i \in 1..Len(runnable) : runnable'[i] = runnable[i]
        /\ runnable'[Len(runnable) + 1] = active
    BY <1>c, Pushed DEF Typed
  <2>2. CASE active = Idle
    <3>1. runnable = <<>> /\ runnable' = <<Idle>> /\ active' # Idle
      BY <1>c, <2>2 DEF Places, SomeoneRunnable
    <3> QED
      BY <3>1, <1>0 DEF SomeoneRunnable, MainOverIdle, MainSecond
  <2>3. CASE active # Idle
    <3>1. active' # Main /\ active' # Idle /\ runnable # <<>> /\ Len(runnable) > 0
      BY <1>c, <2>3, EmptySeq DEF Places, SomeoneRunnable, Typed
    <3>2. active = Main => Len(runnable) = 1
      BY DEF Places, MainOverIdle
    <3> QED
      BY <2>1, <2>3, <3>1, <3>2 DEF Places, SomeoneRunnable, MainOverIdle, MainSecond
  <2> QED
    BY <2>2, <2>3
<1>1. CASE Stays
  BY <1>1 DEF Stays, Places, OnePlace, SomeoneRunnable, MainOverIdle, MainSecond, Live, Distinct
<1>2. CASE Dozes
  <2>1. OnePlace'
    BY <1>2, Popped DEF Dozes, Pops, Places, OnePlace, Live, Typed
  <2> QED
    BY <1>2, <1>b, <2>1 DEF Dozes, Places
<1>3. CASE Ends
  <2>1. active \in Worker
    BY <1>3 DEF Ends, Typed, Worker
  <2>2. OnePlace'
    BY <1>3, <2>1, Popped, Pushed DEF Ends, Pops, Places, OnePlace, Live, Typed
  <2> QED
    BY <1>3, <1>b, <2>2 DEF Ends, Places
<1>4. CASE Starts
  <2>1. active' \in Worker
    BY <1>4, Popped DEF Starts, Typed
  <2>2. OnePlace'
    <3>1. /\ ToSet(free) = ToSet(free') \cup {active'}
          /\ Distinct(free') /\ active' \notin ToSet(free')
      BY <1>4, Popped DEF Starts, Typed, Places, OnePlace
    <3>2. /\ ToSet(runnable') = ToSet(runnable) \cup {active}
          /\ Distinct(runnable')
      BY <1>4, Pushed DEF Starts, Typed, Places, OnePlace
    <3> QED
      BY <1>4, <3>1, <3>2 DEF Starts, Places, OnePlace, Live
  <2>3. active' \in Thread \ {Main, Idle}
    BY <2>1, <1>0 DEF Worker
  <2> QED
    BY <1>4, <1>c, <2>2, <2>3 DEF Starts, Places
<1>5. ASSUME NEW u \in Sleeping, Wakes(u)
      PROVE  Places'
  <2>1. u \in Thread \ {Idle}
    BY DEF Typed
  <2>2. OnePlace'
    BY <1>5, Pushed DEF Wakes, Places, OnePlace, Live, Typed
  <2>3. active = Main => u # Main
    BY DEF Places, OnePlace
  <2> QED
    BY <1>5, <1>c, <2>1, <2>2, <2>3 DEF Wakes, Places
<1> QED
  BY <1>1, <1>2, <1>3, <1>4, <1>5

-----------------------------------------------------------------------------
LEMMA InitTypes == Init => TypeOK /\ IdleNeverWaits
<1> SUFFICES ASSUME Init PROVE TypeOK /\ IdleNeverWaits
  OBVIOUS
<1> USE NumThreadsAssumption
<1>1. active \in Thread /\ runnable \in Seq(Thread) /\ Sleeping = {}
  BY DEF Init, Main, Idle, Thread, Sleeping
<1>2. [i \in 1..NumThreads - 1 |-> i] \in Seq(Worker)
  <2>1. 1..NumThreads - 1 \subseteq Worker
    BY DEF Worker, Thread, Main, Idle
  <2>2. [i \in 1..NumThreads - 1 |-> i] \in [1..NumThreads - 1 -> Worker]
    BY <2>1
  <2> QED
    BY <2>2, NumThreads - 1 \in Nat, SeqDef
<1>3. can_yield \in [Thread -> Int] /\ sections \in [Thread -> Nat]
  BY DEF Init
<1> QED
  BY <1>1, <1>2, <1>3 DEF Init, TypeOK, IdleNeverWaits

(* However long threads are overdue, the relative times stay in range.     *)
LEMMA AgedInRange ==
    ASSUME TypeOK, NEW d, DOMAIN d = Sleeping,
           \A t \in Sleeping : d[t] \in Int /\ d[t] <= MaxDelay
    PROVE  \A t \in Sleeping : Aged(d)[t] \in Int /\ Aged(d)[t] <= MaxDelay
<1> SUFFICES ASSUME NEW t \in Sleeping, ~(d[t] >= 0)
             PROVE  Aged(d)[t] \in Int /\ Aged(d)[t] <= MaxDelay
  BY DEF Aged
<1> DEFINE Later == {v \in DOMAIN d : d[t] <= d[v] /\ d[v] < 0}
<1>1. IsFiniteSet(Sleeping)
  <2>1. IsFiniteSet(Thread)
    BY NumThreadsAssumption, FS_Interval DEF Thread
  <2> QED
    BY <2>1, FS_Subset DEF TypeOK
<1>2. IsFiniteSet(Later)
  BY <1>1, FS_Subset
<1>3. IsFiniteSet({d[u] : u \in Later})
  <2> DEFINE T == {d[u] : u \in Later}
             f == [u \in Later |-> d[u]]
  <2>1. f \in Surjection(Later, T)
    BY DEF Surjection
  <2> QED
    BY <1>2, <2>1, FS_Surjection
<1>4. Cardinality({d[u] : u \in Later}) \in Nat
  BY <1>3, FS_CardinalityType
<1>5. Aged(d)[t] = -Cardinality({d[u] : u \in Later})
  BY DEF Aged
<1> QED
  BY <1>4, <1>5, DelayAssumption

LEMMA SwitchTypes ==
    ASSUME TypeOK, NEW t \in Thread, NEW hs \in [Handle -> {"uninitialized", "started", "done"}],
           SwitchTo(t, hs)
    PROVE  active' \in Thread /\ hstate' \in [Handle -> {"uninitialized", "started", "done"}]
BY DEF SwitchTo, Started

LEMMA PopTypes ==
    ASSUME TypeOK, NEW hs \in [Handle -> {"uninitialized", "started", "done"}],
           ScheduleNext(hs)
    PROVE  /\ active' \in Thread /\ runnable' \in Seq(Thread)
           /\ hstate' \in [Handle -> {"uninitialized", "started", "done"}]
<1>1. Last(runnable) \in Thread /\ Front(runnable) \in Seq(Thread)
  BY Popped DEF ScheduleNext, TypeOK
<1> QED
  BY <1>1, SwitchTypes DEF ScheduleNext

LEMMA PushTypes ==
    ASSUME TypeOK, NEW t \in Thread, ScheduleThread(t)
    PROVE  /\ active' \in Thread /\ runnable' \in Seq(Thread)
           /\ hstate' \in [Handle -> {"uninitialized", "started", "done"}]
<1>1. Append(runnable, active) \in Seq(Thread)
  BY Pushed DEF TypeOK
<1> QED
  BY <1>1, SwitchTypes DEF ScheduleThread, TypeOK

LEMMA SleepTypes ==
    ASSUME TypeOK, NEW t \in Thread, t # Idle, NEW us \in 0..MaxDelay, Sleep(t, us),
           UNCHANGED <<free, can_yield, sections, pc, waits_for, holders>>
    PROVE  TypeOK'
<1>1. Sleeping' = Sleeping \cup {t}
  BY DEF Sleep, Sleeping
<1>2. \A u \in Sleeping' : due'[u] \in Int /\ due'[u] <= MaxDelay
  BY <1>1, DelayAssumption DEF Sleep, TypeOK
<1>3. /\ active' \in Thread /\ runnable' \in Seq(Thread)
      /\ hstate' \in [Handle -> {"uninitialized", "started", "done"}]
  BY PopTypes DEF Sleep, TypeOK
<1> QED
  BY <1>1, <1>2, <1>3 DEF Sleep, TypeOK

LEMMA TypeStep ==
    ASSUME TypeOK, IdleNeverWaits, Next
    PROVE  TypeOK'
<1> USE NumThreadsAssumption
<1>1. CASE Tick
  <2>1. Sleeping' = Sleeping
    BY <1>1 DEF Tick, Sleeping, Aged
  <2>2. \A t \in Sleeping : due'[t] \in Int /\ due'[t] <= MaxDelay
    <3> DEFINE d == [t \in Sleeping |-> due[t] - 1]
    <3>1. DOMAIN d = Sleeping /\ \A t \in Sleeping : d[t] \in Int /\ d[t] <= MaxDelay
      BY DelayAssumption DEF TypeOK
    <3>2. due' = Aged(d)
      BY <1>1 DEF Tick
    <3> HIDE DEF d
    <3> QED
      BY <3>1, <3>2, AgedInRange
  <2> QED
    BY <1>1, <2>1, <2>2 DEF Tick, TypeOK
<1>2. ASSUME NEW t \in Thread, NEW h \in Handle \cup {NoHandle}, ThreadRun(t, h)
      PROVE  TypeOK'
  <2>1. Last(free) \in Worker /\ Front(free) \in Seq(Worker)
    BY <1>2, Popped DEF ThreadRun, TypeOK
  <2>2. Last(free) \in Thread
    BY <2>1 DEF Worker
  <2>3. /\ active' \in Thread /\ runnable' \in Seq(Thread)
        /\ hstate' \in [Handle -> {"uninitialized", "started", "done"}]
    BY <1>2, <2>2, PushTypes DEF ThreadRun
  <2>4. Sleeping' = Sleeping
    BY <1>2 DEF ThreadRun, Sleeping
  <2>5. /\ can_yield' \in [Thread -> Int] /\ sections' \in [Thread -> Nat]
        /\ handle' \in [Thread -> Handle \cup {NoHandle}]
    <3>1. /\ can_yield' = [can_yield EXCEPT ![Last(free)] = 1]
          /\ sections' = [sections EXCEPT ![Last(free)] = 0]
          /\ handle' = [handle EXCEPT ![Last(free)] = h]
      BY <1>2 DEF ThreadRun
    <3>2. can_yield' \in [Thread -> Int] /\ sections' \in [Thread -> Nat]
      BY <3>1, <2>2 DEF TypeOK
    <3>3. handle' \in [Thread -> Handle \cup {NoHandle}]
      BY <3>1, <2>2 DEF TypeOK
    <3> QED
      BY <3>2, <3>3
  <2>6. free' \in Seq(Worker) /\ UNCHANGED <<due, pc, waits_for, holders>>
    BY <1>2, <2>1 DEF ThreadRun
  <2> QED
    BY <2>3, <2>4, <2>5, <2>6 DEF TypeOK
<1>3. ASSUME NEW t \in Thread, NEW us \in 0..MaxDelay, YieldMicroseconds(t, us)
      PROVE  TypeOK'
  BY <1>3, SleepTypes DEF YieldMicroseconds, Running
<1>4. ASSUME NEW t \in Thread, JoinWait(t) \/ LockWait(t)
      PROVE  TypeOK'
  <2>1. t # Idle /\ 0 \in 0..MaxDelay
    BY <1>4, DelayAssumption DEF JoinWait, LockWait, Joining, Locking, IdleNeverWaits
  <2> QED
    BY <1>4, <2>1, SleepTypes DEF JoinWait, LockWait
<1>5. ASSUME NEW t \in Thread, CoopDisable(t) \/ CoopEnable(t)
      PROVE  TypeOK'
  <2>1. can_yield' \in [Thread -> Int]
    BY <1>5 DEF CoopDisable, CoopEnable, TypeOK
  <2>2. sections' \in [Thread -> Nat]
    <3>1. CASE CoopDisable(t)
      BY <3>1 DEF CoopDisable, TypeOK
    <3>2. CASE CoopEnable(t)
      <4>1. sections[t] - 1 \in Nat
        BY <3>2 DEF CoopEnable, TypeOK
      <4> QED
        BY <3>2, <4>1 DEF CoopEnable, TypeOK
    <3> QED
      BY <1>5, <3>1, <3>2
  <2> QED
    BY <1>5, <2>1, <2>2 DEF CoopDisable, CoopEnable, TypeOK, Sleeping
<1>6. ASSUME NEW t \in Thread,
             \/ \E h \in Handle : JoinStart(t, h)
             \/ \E m \in Mutex : LockStart(t, m)
             \/ JoinDone(t)
      PROVE  TypeOK'
  <2>1. pc' \in [Thread -> {"run", "join", "lock"}]
    BY <1>6 DEF JoinStart, LockStart, JoinDone, Resume, TypeOK
  <2>2. waits_for' \in [Thread -> Handle \cup Mutex \cup {NoHandle}]
    BY <1>6 DEF JoinStart, LockStart, JoinDone, Resume, TypeOK
  <2> QED
    BY <1>6, <2>1, <2>2 DEF JoinStart, LockStart, JoinDone, TypeOK, Sleeping
<1>7. ASSUME NEW t \in Thread, LockAcquire(t) \/ \E m \in Mutex : Unlock(t, m)
      PROVE  TypeOK'
  <2>1. holders' \in [Mutex -> SUBSET Thread]
    <3>1. CASE LockAcquire(t)
      <4>1. holders' = [holders EXCEPT ![waits_for[t]] = holders[waits_for[t]] \cup {t}]
        BY <3>1 DEF LockAcquire
      <4>2. waits_for[t] \in Mutex => holders[waits_for[t]] \cup {t} \in SUBSET Thread
        BY DEF TypeOK
      <4> QED
        BY <4>1, <4>2 DEF TypeOK
    <3>2. CASE \E m \in Mutex : Unlock(t, m)
      BY <3>2 DEF Unlock, TypeOK
    <3> QED
      BY <1>7, <3>1, <3>2
  <2>2. pc' \in [Thread -> {"run", "join", "lock"}]
    BY <1>7 DEF LockAcquire, Unlock, Resume, TypeOK
  <2>3. waits_for' \in [Thread -> Handle \cup Mutex \cup {NoHandle}]
    BY <1>7 DEF LockAcquire, Unlock, Resume, TypeOK
  <2> QED
    BY <1>7, <2>1, <2>2, <2>3 DEF LockAcquire, Unlock, TypeOK, Sleeping
<1>8. ASSUME NEW t \in Thread, Terminate(t)
      PROVE  TypeOK'
  <2>1. t \in Worker /\ Append(free, t) \in Seq(Worker)
    BY <1>8, AppendProperties DEF Terminate, Running, Worker, TypeOK
  <2>2. PICK hs \in [Handle -> {"uninitialized", "started", "done"}] : ScheduleNext(hs)
    BY <1>8 DEF Terminate, TypeOK
  <2>3. /\ active' \in Thread /\ runnable' \in Seq(Thread)
        /\ hstate' \in [Handle -> {"uninitialized", "started", "done"}]
    BY <2>2, PopTypes
  <2> QED
    BY <1>8, <2>1, <2>3 DEF Terminate, TypeOK, Sleeping
<1>9. ASSUME NEW t \in Thread, TimersRun(t)
      PROVE  TypeOK'
  <2>1. PICK u \in Sleeping : /\ due' = [v \in Sleeping \ {u} |-> due[v]]
                              /\ handle' = handle /\ ScheduleThread(u)
    BY <1>9 DEF TimersRun
  <2>2. u \in Thread /\ Sleeping' = Sleeping \ {u}
    BY <2>1 DEF TypeOK, Sleeping
  <2>3. /\ active' \in Thread /\ runnable' \in Seq(Thread)
        /\ hstate' \in [Handle -> {"uninitialized", "started", "done"}]
    BY <2>1, <2>2, PushTypes
  <2> QED
    BY <1>9, <2>1, <2>2, <2>3 DEF TimersRun, TypeOK
<1> QED
  BY <1>1, <1>2, <1>3, <1>4, <1>5, <1>6, <1>7, <1>8, <1>9 DEF Next, Calls

LEMMA WaitersStep ==
    ASSUME TypeOK, IdleNeverWaits, Next
    PROVE  IdleNeverWaits'
<1>1. CASE Tick
  BY <1>1 DEF Tick, IdleNeverWaits
<1>2. ASSUME NEW t \in Thread, Calls(t)
      PROVE  IdleNeverWaits'
  <2>1. CASE \E h \in Handle \cup {NoHandle} : ThreadRun(t, h)
    BY <2>1 DEF ThreadRun, IdleNeverWaits, TypeOK
  <2>2. CASE \E us \in 0..MaxDelay : YieldMicroseconds(t, us)
    BY <2>2 DEF YieldMicroseconds, IdleNeverWaits
  <2>3. CASE CoopDisable(t) \/ CoopEnable(t)
    BY <2>3 DEF CoopDisable, CoopEnable, Running, IdleNeverWaits, TypeOK
  <2>4. CASE \E h \in Handle : JoinStart(t, h)
    BY <2>4 DEF JoinStart, Running, IdleNeverWaits, TypeOK
  <2>5. CASE JoinWait(t) \/ LockWait(t)
    BY <2>5 DEF JoinWait, LockWait, IdleNeverWaits
  <2>6. CASE JoinDone(t) \/ LockAcquire(t)
    BY <2>6 DEF JoinDone, LockAcquire, Resume, IdleNeverWaits, TypeOK
  <2>7. CASE \E m \in Mutex : LockStart(t, m) \/ Unlock(t, m)
    BY <2>7 DEF LockStart, Unlock, Running, IdleNeverWaits, TypeOK
  <2> QED
    BY <1>2, <2>1, <2>2, <2>3, <2>4, <2>5, <2>6, <2>7 DEF Calls
<1>3. ASSUME NEW t \in Thread, Terminate(t) \/ TimersRun(t)
      PROVE  IdleNeverWaits'
  BY <1>3 DEF Terminate, TimersRun, IdleNeverWaits
<1> QED
  BY <1>1, <1>2, <1>3 DEF Next

-----------------------------------------------------------------------------
(* Only starting and ending a thread change which threads live.            *)
LEMMA LiveStep ==
    ASSUME TypeOK, Places
    PROVE  /\ Stays \/ Dozes \/ (\E u \in Sleeping : Wakes(u)) => Live' = Live
           /\ Dozes \/ Ends \/ (\E u \in Sleeping : Wakes(u)) => active' \in Live
           /\ Ends => Live' = Live \ {active} /\ active' # active
           /\ Starts => Live' = Live \cup {Last(free)} /\ Last(free) \in Thread \ Live
<1>1. ASSUME Pops
      PROVE  ToSet(runnable) = ToSet(runnable') \cup {active'}
  BY <1>1, Popped DEF Pops, TypeOK
<1>2. ASSUME runnable' = Append(runnable, active)
      PROVE  ToSet(runnable') = ToSet(runnable) \cup {active}
  BY <1>2, Pushed DEF TypeOK
<1>3. Stays => Live' = Live
  BY DEF Stays, Live
<1>4. Dozes => Live' = Live /\ active' \in Live
  BY <1>1 DEF Dozes, Live
<1>5. (\E u \in Sleeping : Wakes(u)) => Live' = Live /\ active' \in Live
  BY <1>2 DEF Wakes, Live
<1>6. Ends => Live' = Live \ {active} /\ active' # active /\ active' \in Live
  BY <1>1 DEF Ends, Live, Places, OnePlace
<1>7. Starts => Live' = Live \cup {Last(free)} /\ Last(free) \in Thread \ Live
  <2> SUFFICES ASSUME Starts
               PROVE  Live' = Live \cup {Last(free)} /\ Last(free) \in Thread \ Live
    OBVIOUS
  <2>1. ToSet(free) = ToSet(Front(free)) \cup {Last(free)} /\ Last(free) \in Worker
    BY Popped DEF Starts, TypeOK
  <2>2. Last(free) \notin Live
    BY <2>1 DEF Places, OnePlace, Live
  <2> QED
    BY <1>2, <2>1, <2>2 DEF Starts, Live, Worker
<1> QED
  BY <1>3, <1>4, <1>5, <1>6, <1>7

(* A mutex has at most one owner, which lives.                             *)
Owned == \A m \in Mutex : /\ holders[m] \subseteq Live
                          /\ \A t, u \in holders[m] : t = u

LEMMA OwnedStep ==
    ASSUME TypeOK, IdleNeverWaits, Places, Owned, Next
    PROVE  Owned'
<1>1. Stays \/ Dozes \/ Ends \/ Starts \/ \E u \in Sleeping : Wakes(u)
  BY StepKinds
<1>2. ASSUME UNCHANGED holders, ~Ends
      PROVE  Owned'
  BY <1>1, <1>2, LiveStep DEF Owned
<1>3. ASSUME NEW t \in Thread, Terminate(t)
      PROVE  Owned'
  <2>1. Ends /\ t = active
    BY <1>3 DEF Terminate, Running, ScheduleNext, SwitchTo, Ends, Pops, Sleeping
  <2>2. Live' = Live \ {t} /\ holders' = holders /\ \A m \in Mutex : t \notin holders[m]
    BY <1>3, <2>1, LiveStep DEF Terminate
  <2> QED
    BY <2>2 DEF Owned
<1>4. ASSUME NEW t \in Thread, LockAcquire(t)
      PROVE  Owned'
  <2>1. Live' = Live /\ t \in Live
    BY <1>4 DEF LockAcquire, Locking, Live, Sleeping
  <2>2. ASSUME NEW m \in Mutex
        PROVE  holders'[m] = holders[m] \/ holders'[m] = {t}
    BY <1>4 DEF LockAcquire, locked, TypeOK
  <2> QED
    BY <2>1, <2>2 DEF Owned
<1>5. ASSUME NEW t \in Thread, NEW n \in Mutex, Unlock(t, n)
      PROVE  Owned'
  <2>1. Live' = Live
    BY <1>5 DEF Unlock, Live, Sleeping
  <2>2. ASSUME NEW m \in Mutex
        PROVE  holders'[m] = holders[m] \/ holders'[m] = {}
    BY <1>5 DEF Unlock, TypeOK
  <2> QED
    BY <2>1, <2>2 DEF Owned
<1>6. ASSUME Ends
      PROVE  active' # active
  BY <1>6, LiveStep
<1>7. CASE Tick
  BY <1>2, <1>6, <1>7 DEF Tick
<1>8. ASSUME NEW t \in Thread, Calls(t)
      PROVE  Owned'
  <2>0. Ends => Append(free, active) = free'
    BY DEF Ends
  <2>1. CASE \E h \in Handle \cup {NoHandle} : ThreadRun(t, h)
    <3>1. ~Ends
      BY <2>1, LiveStep DEF ThreadRun, ScheduleThread, SwitchTo, Running, Starts, Sleeping, Live
    <3> QED
      BY <1>2, <2>1, <3>1 DEF ThreadRun
  <2>2. CASE (\E us \in 0..MaxDelay : YieldMicroseconds(t, us)) \/ JoinWait(t) \/ LockWait(t)
    <3>1. t \in Sleeping' /\ t = active /\ holders' = holders
      BY <2>2 DEF YieldMicroseconds, Running, JoinWait, Joining, LockWait, Locking, Sleep, Sleeping
    <3>2. ~Ends
      BY <3>1 DEF Ends, Places, OnePlace
    <3> QED
      BY <1>2, <3>1, <3>2
  <2>3. CASE \/ CoopDisable(t) \/ CoopEnable(t) \/ JoinDone(t)
             \/ \E h \in Handle : JoinStart(t, h)
             \/ \E m \in Mutex : LockStart(t, m)
    BY <1>2, <1>6, <2>3 DEF CoopDisable, CoopEnable, JoinDone, JoinStart, LockStart
  <2>4. CASE LockAcquire(t) \/ \E m \in Mutex : Unlock(t, m)
    BY <1>4, <1>5, <2>4
  <2> QED
    BY <1>8, <2>1, <2>2, <2>3, <2>4 DEF Calls
<1>9. ASSUME NEW t \in Thread, TimersRun(t)
      PROVE  Owned'
  <2>1. ~Ends
    BY <1>9 DEF TimersRun, MayRunTimers, Ends
  <2> QED
    BY <1>2, <1>9, <2>1 DEF TimersRun
<1> QED
  BY <1>3, <1>7, <1>8, <1>9 DEF Next

(* Handles: the threads that live and have one mark it as started, no two  *)
(* of them have the same, and no other handle is marked so.                *)
Published ==
    /\ \A t \in Live : handle[t] \in Handle => hstate[handle[t]] = "started"
    /\ \A t, u \in Live : handle[t] \in Handle /\ handle[t] = handle[u] => t = u
    /\ \A h \in Handle : hstate[h] = "started" => \E t \in Live : handle[t] = h

LEMMA SwitchKeeps ==
    ASSUME TypeOK, NEW hs \in [Handle -> {"uninitialized", "started", "done"}], NEW v \in Thread,
           handle' = handle, SwitchTo(v, hs),
           handle[v] \in Handle => hs[handle[v]] = "started"
    PROVE  hstate' = hs
BY DEF SwitchTo, Started, TypeOK

LEMMA LiveAreThreads == TypeOK => Live \subseteq Thread
<1> SUFFICES ASSUME TypeOK PROVE ToSet(runnable) \subseteq Thread
  BY DEF Live, TypeOK
<1> QED
  BY LenProperties, ElementOfSeq DEF ToSet, TypeOK

LEMMA PublishedStep ==
    ASSUME TypeOK, IdleNeverWaits, Places, Published, Next
    PROVE  Published'
<1>1. ASSUME Live' = Live, handle' = handle, hstate' = hstate
      PROVE  Published'
  BY <1>1 DEF Published
<1>2. ASSUME NEW t \in Thread, t # Idle, NEW us \in 0..MaxDelay, t = active, free' = free, Sleep(t, us)
      PROVE  Published'
  <2>1. Dozes
    BY <1>2 DEF Sleep, ScheduleNext, SwitchTo, Dozes, Pops, Sleeping
  <2>2. Live' = Live /\ active' \in Live /\ active' \in Thread
    BY <2>1, LiveStep, LiveAreThreads
  <2>3. hstate' = hstate
    BY <1>2, <2>2, SwitchKeeps DEF Sleep, ScheduleNext, SwitchTo, Published, TypeOK
  <2> QED
    BY <1>1, <1>2, <2>2, <2>3 DEF Sleep
<1>3. ASSUME NEW t \in Thread, TimersRun(t)
      PROVE  Published'
  <2>1. PICK u \in Sleeping : Wakes(u) /\ handle' = handle /\ ScheduleThread(u)
    BY <1>3 DEF TimersRun, MayRunTimers, ScheduleThread, SwitchTo, Wakes, Sleeping
  <2>2. Live' = Live /\ u \in Live /\ u \in Thread
    BY <2>1, LiveStep, LiveAreThreads DEF Live
  <2>3. hstate' = hstate
    BY <2>1, <2>2, SwitchKeeps DEF ScheduleThread, Published, TypeOK
  <2> QED
    BY <1>1, <2>1, <2>2, <2>3
<1>4. ASSUME NEW t \in Thread, NEW h \in Handle \cup {NoHandle}, ThreadRun(t, h)
      PROVE  Published'
  <2> DEFINE u == Last(free)
  <2>1. Starts /\ handle' = [handle EXCEPT ![u] = h] /\ SwitchTo(u, hstate)
    BY <1>4 DEF ThreadRun, Running, ScheduleThread, SwitchTo, Starts, Sleeping
  <2>2. Live' = Live \cup {u} /\ u \in Thread \ Live
    BY <2>1, LiveStep
  <2>3. handle'[u] = h /\ \A v \in Live : handle'[v] = handle[v]
    BY <2>1, <2>2, LiveAreThreads DEF TypeOK
  <2>4. hstate' = IF h = NoHandle THEN hstate ELSE [hstate EXCEPT ![h] = "started"]
    BY <2>1, <2>3 DEF SwitchTo, Started
  <2>5. h \in Handle => \A v \in Live : handle[v] # h
    BY <1>4 DEF ThreadRun, Published
  <2>6. \A g \in Handle : hstate'[g] = IF g = h THEN "started" ELSE hstate[g]
    BY <2>4, HandleAssumption DEF TypeOK
  <2> HIDE DEF u
  <2>7. \A v \in Live' : handle'[v] \in Handle => hstate'[handle'[v]] = "started"
    BY <2>2, <2>3, <2>6 DEF Published
  <2>8. \A v, w \in Live' : handle'[v] \in Handle /\ handle'[v] = handle'[w] => v = w
    BY <2>2, <2>3, <2>5 DEF Published
  <2>9. ASSUME NEW g \in Handle, hstate'[g] = "started"
        PROVE  \E v \in Live' : handle'[v] = g
    BY <2>2, <2>3, <2>6, <2>9 DEF Published
  <2> QED
    BY <2>7, <2>8, <2>9 DEF Published
<1>5. ASSUME NEW t \in Thread, Terminate(t)
      PROVE  Published'
  <2> DEFINE hs == IF handle[t] = NoHandle THEN hstate
                   ELSE [hstate EXCEPT ![handle[t]] = "done"]
  <2>1. Ends /\ t = active /\ handle' = handle /\ SwitchTo(active', hs)
    BY <1>5 DEF Terminate, Running, ScheduleNext, SwitchTo, Ends, Pops, Sleeping
  <2>2. /\ Live' = Live \ {t} /\ t \in Live
        /\ active' \in Live /\ active' # t /\ active' \in Thread
    BY <2>1, LiveStep, LiveAreThreads DEF Live
  <2>3. hs \in [Handle -> {"uninitialized", "started", "done"}]
    BY DEF TypeOK
  <2>4. handle[active'] \in Handle => hs[handle[active']] = "started"
    BY <2>2 DEF Published, TypeOK
  <2>5. hstate' = hs
    <3> HIDE DEF hs
    <3> QED
      BY <2>1, <2>2, <2>3, <2>4, SwitchKeeps
  <2> QED
    BY <2>1, <2>2, <2>5, HandleAssumption DEF Published, TypeOK
<1>6. CASE Tick
  BY <1>1, <1>6 DEF Tick, Live, Sleeping, Aged
<1>7. ASSUME NEW t \in Thread, Calls(t)
      PROVE  Published'
  <2>1. CASE \E h \in Handle \cup {NoHandle} : ThreadRun(t, h)
    BY <1>4, <2>1
  <2>2. CASE \E us \in 0..MaxDelay : YieldMicroseconds(t, us)
    BY <1>2, <2>2 DEF YieldMicroseconds, Running
  <2>3. CASE JoinWait(t) \/ LockWait(t)
    <3>1. t # Idle /\ t = active /\ free' = free /\ Sleep(t, 0) /\ 0 \in 0..MaxDelay
      BY <2>3, DelayAssumption DEF JoinWait, Joining, LockWait, Locking, IdleNeverWaits
    <3> QED
      BY <1>2, <3>1
  <2>4. CASE \/ CoopDisable(t) \/ CoopEnable(t) \/ JoinDone(t) \/ LockAcquire(t)
             \/ \E h \in Handle : JoinStart(t, h)
             \/ \E m \in Mutex : LockStart(t, m) \/ Unlock(t, m)
    BY <1>1, <2>4 DEF CoopDisable, CoopEnable, JoinDone, LockAcquire, JoinStart, LockStart,
                      Unlock, Live, Sleeping
  <2> QED
    BY <1>7, <2>1, <2>2, <2>3, <2>4 DEF Calls
<1> QED
  BY <1>3, <1>5, <1>6, <1>7 DEF Next

LEMMA SectionsStep ==
    ASSUME TypeOK, SectionsCounted, Next
    PROVE  SectionsCounted'
<1>1. ASSUME UNCHANGED <<can_yield, sections>>
      PROVE  SectionsCounted'
  BY <1>1 DEF SectionsCounted
<1>2. ASSUME NEW t \in Thread, Calls(t)
      PROVE  SectionsCounted'
  <2>1. CASE \E h \in Handle \cup {NoHandle} : ThreadRun(t, h)
    BY <2>1 DEF ThreadRun, SectionsCounted, TypeOK
  <2>2. CASE CoopDisable(t)
    BY <2>2 DEF CoopDisable, SectionsCounted, TypeOK
  <2>3. CASE CoopEnable(t)
    BY <2>3 DEF CoopEnable, SectionsCounted, TypeOK
  <2>4. CASE UNCHANGED <<can_yield, sections>>
    BY <1>1, <2>4
  <2> QED
    BY <1>2, <2>1, <2>2, <2>3, <2>4
    DEF Calls, YieldMicroseconds, JoinStart, JoinWait, JoinDone, LockStart, Unlock,
        LockWait, LockAcquire
<1> QED
  BY <1>1, <1>2 DEF Next, Tick, Terminate, TimersRun

-----------------------------------------------------------------------------
(* The inductive invariant.                                                *)
IInv == /\ TypeOK /\ IdleNeverWaits /\ Places /\ Owned /\ Published
        /\ SectionsCounted

LEMMA InitIInv == Init => IInv
<1> SUFFICES ASSUME Init PROVE IInv
  OBVIOUS
<1>1. TypeOK /\ IdleNeverWaits /\ Places
  BY InitTypes, InitPlaces
<1>2. Owned
  BY DEF Init, Owned
<1>3. Published
  BY <1>1, LiveAreThreads, HandleAssumption DEF Init, Published
<1>4. SectionsCounted
  BY DEF Init, SectionsCounted
<1> QED
  BY <1>1, <1>2, <1>3, <1>4 DEF IInv

LEMMA NextIInv == IInv /\ [Next]_vars => IInv'
<1> SUFFICES ASSUME IInv, [Next]_vars PROVE IInv'
  OBVIOUS
<1>1. CASE Next
  <2>1. TypeOK' /\ IdleNeverWaits'
    BY <1>1, TypeStep, WaitersStep DEF IInv
  <2>2. Typed /\ Typed'
    BY <2>1 DEF IInv, TypeOK, Typed
  <2>3. Places'
    BY <1>1, <2>2, StepKinds, PlacesStep DEF IInv
  <2>4. Owned' /\ Published' /\ SectionsCounted'
    BY <1>1, OwnedStep, PublishedStep, SectionsStep DEF IInv
  <2> QED
    BY <2>1, <2>3, <2>4 DEF IInv
<1>2. CASE UNCHANGED vars
  <2>1. Live' = Live /\ Sleeping' = Sleeping
    BY <1>2 DEF vars, Live, Sleeping
  <2> QED
    BY <1>2, <2>1 DEF vars, IInv, TypeOK, IdleNeverWaits, Places, OnePlace, SectionsCounted,
                      SomeoneRunnable, MainOverIdle, MainSecond, Distinct, Owned, Published
<1> QED
  BY <1>1, <1>2

(* What each step makes of the threads that live, for the modules that     *)
(* compose the threads with others.                                        *)
LEMMA LivesOn ==
    IInv => /\ Tick => Live \subseteq Live'
            /\ \A t \in Thread :
                 /\ Calls(t) \/ TimersRun(t) => Live \subseteq Live' /\ active = t
                 /\ Terminate(t) => /\ Live' = Live \ {t}
                                    /\ active = t /\ t \in Worker /\ active' # t
                 /\ \A h \in Handle \cup {NoHandle} : ThreadRun(t, h) =>
                        active' \in Live' /\ active' \in Worker
<1> SUFFICES ASSUME IInv
             PROVE  /\ Tick => Live \subseteq Live'
                    /\ \A t \in Thread :
                         /\ Calls(t) \/ TimersRun(t) => Live \subseteq Live' /\ active = t
                         /\ Terminate(t) => /\ Live' = Live \ {t}
                                            /\ active = t /\ t \in Worker /\ active' # t
                         /\ \A h \in Handle \cup {NoHandle} : ThreadRun(t, h) =>
                                active' \in Live' /\ active' \in Worker
  OBVIOUS
<1>0. TypeOK /\ IdleNeverWaits /\ Places
  BY DEF IInv
<1>1. Tick => Live \subseteq Live'
  BY DEF Tick, Live, Sleeping, Aged
<1>2. ASSUME NEW t \in Thread, Calls(t) PROVE Live \subseteq Live' /\ active = t
  <2>1. Stays \/ Dozes \/ Starts
    BY <1>0, <1>2, CallKinds
  <2>2. active = t
    BY <1>2 DEF Calls, ThreadRun, YieldMicroseconds, CoopDisable, CoopEnable, JoinStart,
                JoinWait, JoinDone, LockStart, Unlock, LockWait, LockAcquire,
                Running, Joining, Locking
  <2> QED
    BY <1>0, <2>1, <2>2, LiveStep
<1>3. ASSUME NEW t \in Thread, TimersRun(t) PROVE Live \subseteq Live' /\ active = t
  <2>1. \E u \in Sleeping : Wakes(u)
    BY <1>3 DEF TimersRun, MayRunTimers, ScheduleThread, SwitchTo, Wakes, Sleeping
  <2> QED
    BY <1>0, <1>3, <2>1, LiveStep DEF TimersRun, MayRunTimers
<1>4. ASSUME NEW t \in Thread, Terminate(t)
      PROVE  Live' = Live \ {t} /\ active = t /\ t \in Worker /\ active' # t
  <2>1. Ends /\ active = t /\ t \in Worker
    BY <1>4 DEF Terminate, Running, ScheduleNext, SwitchTo, Ends, Pops, Sleeping, Worker
  <2> QED
    BY <1>0, <2>1, LiveStep
<1>5. ASSUME NEW t \in Thread, NEW h \in Handle \cup {NoHandle}, ThreadRun(t, h)
      PROVE  active' \in Live' /\ active' \in Worker
  BY <1>0, <1>5, Popped DEF ThreadRun, ScheduleThread, SwitchTo, Live, TypeOK
<1> QED
  BY <1>1, <1>2, <1>3, <1>4, <1>5

(* Nobody but main opens or closes a critical section of main.             *)
LEMMA MainsSections ==
    IInv => /\ Tick => sections'[Main] = sections[Main]
            /\ \A t \in Thread :
                 /\ Terminate(t) \/ TimersRun(t) => sections'[Main] = sections[Main]
                 /\ Calls(t) /\ t # Main => sections'[Main] = sections[Main]
<1>1. Tick => sections' = sections
  BY DEF Tick
<1>2. ASSUME NEW t \in Thread, Terminate(t) \/ TimersRun(t)
      PROVE  sections' = sections
  BY <1>2 DEF Terminate, TimersRun
<1>3. ASSUME IInv, NEW t \in Thread, Calls(t), t # Main
      PROVE  sections'[Main] = sections[Main]
  <2>0. sections \in [Thread -> Nat] /\ Main \notin Worker
    BY <1>3 DEF IInv, TypeOK, Worker
  <2>1. CASE \E h \in Handle \cup {NoHandle} : ThreadRun(t, h)
    <3>1. free # <<>> /\ sections' = [sections EXCEPT ![Last(free)] = 0]
      BY <2>1 DEF ThreadRun
    <3>2. Last(free) # Main
      BY <1>3, <2>0, <3>1, Popped DEF IInv, TypeOK
    <3>3. Main \in Thread
      BY NumThreadsAssumption DEF Main, Thread
    <3> QED
      BY <2>0, <3>1, <3>2, <3>3
  <2>2. CASE CoopDisable(t) \/ CoopEnable(t)
    <3>1. Main \in Thread
      BY NumThreadsAssumption DEF Main, Thread
    <3> QED
      BY <1>3, <2>0, <2>2, <3>1 DEF CoopDisable, CoopEnable
  <2>3. CASE sections' = sections
    BY <2>3
  <2> QED
    BY <1>3, <2>1, <2>2, <2>3
    DEF Calls, YieldMicroseconds, JoinStart, JoinWait, JoinDone, LockStart, Unlock,
        LockWait, LockAcquire
<1> QED
  BY <1>1, <1>2, <1>3

(* The invariant holds in every run, for every number of threads.          *)
THEOREM ThreadInvariant == Spec => []IInv
<1> QED
  BY InitIInv, NextIInv, PTL DEF Spec

(* Every variable of thread.c keeps its type.                              *)
THEOREM TypeCorrect == Spec => []TypeOK
<1>1. IInv => TypeOK
  BY DEF IInv
<1> QED
  BY <1>1, ThreadInvariant, PTL

(* No thread is lost, on two lists, or free while its stack is in use.     *)
THEOREM NoThreadLost == Spec => []OnePlace
<1>1. IInv => OnePlace
  BY DEF IInv, Places
<1> QED
  BY <1>1, ThreadInvariant, PTL

(* schedule() never dies for want of a runnable thread, and idle runs only *)
(* when nothing else is runnable.                                          *)
THEOREM NeverDies == Spec => []SomeoneRunnable
<1>1. IInv => SomeoneRunnable
  BY DEF IInv, Places
<1> QED
  BY <1>1, ThreadInvariant, PTL

(* When main runs, only idle is runnable.                                  *)
THEOREM MainFirst == Spec => []MainOverIdle
<1>1. IInv => MainOverIdle
  BY DEF IInv, Places
<1> QED
  BY <1>1, ThreadInvariant, PTL

(* Both: the chain of threads that gave way to each other ends as it must. *)
THEOREM ChainEndsWell == Spec => []RunnableChain
<1>1. SomeoneRunnable /\ MainOverIdle => RunnableChain
  BY DEF RunnableChain
<1> QED
  BY <1>1, NeverDies, MainFirst, PTL

(* A mutex never has two owners, nor a dead one.                           *)
THEOREM OneOwner == Spec => []MutualExclusion
<1>1. ASSUME IInv, NEW m \in Mutex
      PROVE  Cardinality(holders[m]) <= 1 /\ holders[m] \subseteq Live
  <2>1. CASE holders[m] = {}
    BY <2>1, FS_EmptySet
  <2>2. CASE holders[m] # {}
    <3>1. PICK t \in holders[m] : holders[m] = {t}
      BY <1>1, <2>2 DEF IInv, Owned
    <3>2. Cardinality(holders[m]) = 1
      BY <3>1, FS_Singleton
    <3> QED
      BY <1>1, <3>2 DEF IInv, Owned
  <2> QED
    BY <2>1, <2>2
<1>2. IInv => MutualExclusion
  BY <1>1 DEF MutualExclusion
<1> QED
  BY <1>2, ThreadInvariant, PTL

(* A handle is started exactly while the one thread that has it lives.     *)
THEOREM HandlesTrue == Spec => []HandlesTruthful
<1>1. ASSUME IInv, NEW h \in Handle
      PROVE  /\ hstate[h] = "started" => Cardinality({t \in Live : handle[t] = h}) = 1
             /\ hstate[h] # "started" => {t \in Live : handle[t] = h} = {}
  <2>1. ASSUME hstate[h] = "started"
        PROVE  Cardinality({t \in Live : handle[t] = h}) = 1
    <3>1. PICK t \in Live : handle[t] = h
      BY <1>1, <2>1 DEF IInv, Published
    <3>2. {u \in Live : handle[u] = h} = {t}
      BY <1>1, <3>1 DEF IInv, Published
    <3> QED
      BY <3>2, FS_Singleton
  <2> QED
    BY <1>1, <2>1 DEF IInv, Published
<1>2. IInv => HandlesTruthful
  BY <1>1 DEF HandlesTruthful
<1> QED
  BY <1>2, ThreadInvariant, PTL

(* can_yield is 1 less the sections that are open, whoever had the control *)
(* block before and however a thread or its function ended.                *)
THEOREM YieldsOutside == Spec => []SectionsCounted
<1>1. IInv => SectionsCounted
  BY DEF IInv
<1> QED
  BY <1>1, ThreadInvariant, PTL

(* A thread with critical sections open, however deep, keeps the processor *)
(* unless it ends or runs the timers: the count of coop_disable() and      *)
(* coop_enable() calls, which the code does not keep, agrees with          *)
(* can_yield, which is all it tests.                                       *)
THEOREM CriticalSections == Spec => CriticalSection
<1> DEFINE Gives == \/ active \in ToSet(free')
                    \/ active \in {Main, Idle} /\ active' \in Sleeping
<1>1. ASSUME IInv, Next, active' # active, sections[active] > 0
      PROVE  Gives
  <2>0. ~thread_can_yield(active)
    BY <1>1 DEF IInv, SectionsCounted, TypeOK, thread_can_yield
  <2>1. CASE Tick
    BY <1>1, <2>1 DEF Tick
  <2>2. ASSUME NEW t \in Thread, Calls(t)
        PROVE  FALSE
    <3>1. CASE JoinWait(t) \/ LockWait(t)
      BY <2>0, <3>1 DEF JoinWait, LockWait, Joining, Locking
    <3>2. CASE \E h \in Handle \cup {NoHandle} : ThreadRun(t, h)
      BY <2>0, <3>2 DEF ThreadRun, Running
    <3>3. CASE \E us \in 0..MaxDelay : YieldMicroseconds(t, us)
      BY <2>0, <3>3 DEF YieldMicroseconds, Running
    <3> QED
      BY <1>1, <2>2, <3>1, <3>2, <3>3
      DEF Calls, CoopDisable, CoopEnable, JoinStart, JoinDone, LockStart, LockAcquire, Unlock
  <2>3. ASSUME NEW t \in Thread, Terminate(t)
        PROVE  active \in ToSet(free')
    <3>1. free' = Append(free, active) /\ active \in Worker
      BY <2>3 DEF Terminate, Running, Worker
    <3> QED
      BY <1>1, <3>1, Pushed DEF IInv, TypeOK
  <2>4. ASSUME NEW t \in Thread, TimersRun(t)
        PROVE  active \in {Main, Idle} /\ active' \in Sleeping
    BY <2>4 DEF TimersRun, MayRunTimers, ScheduleThread, SwitchTo
  <2> QED
    BY <1>1, <2>1, <2>2, <2>3, <2>4 DEF Next
<1>2. IInv /\ [Next]_vars => [active' # active /\ sections[active] > 0 => Gives]_vars
  BY <1>1
<1> QED
  BY <1>2, ThreadInvariant, PTL DEF Spec, CriticalSection
=============================================================================
