-------------------------- MODULE BootStateProofs --------------------------
(***************************************************************************)
(* Proofs about BootState for every table of boot states whose order is    *)
(* that of their numbers, every set of agents and callbacks, and every     *)
(* number of blocks.                                                       *)
(***************************************************************************)
EXTENDS BootState, FiniteSetTheorems, SequenceTheorems, TLAPS

(* The walk: where main is fits the phase and what run_state() returned,   *)
(* and what is completed lies behind.                                      *)
WalkInv ==
    /\ walk \in {"static", "top"} => seq = BS_ON_ENTRY
    /\ walk = "run_state" => seq = BS_ON_EXIT
    /\ walk \in {"timers", "callbacks", "callback"} /\ seq = BS_ON_EXIT =>
         next_id \in RunState[state]
    /\ \A s \in complete : s <= state
    /\ state \in complete => walk \in {"top", "dead"}

(* BlockersExact also for the phases that main has been through: they have *)
(* no blockers left, whereas a phase that was skipped may keep one.        *)
Counted ==
    \A p \in Phase : ~Passed(p) \/ p[1] \in Entered =>
        blockers[p] = Cardinality({a \in granted : held[a] = p})

RefusedHavePassed ==
    state \notin complete =>
        \A a \in Agent : held[a] # NoPhase /\ a \notin granted => Passed(held[a])

Listed(c, p) == \E i \in 1..Len(callbacks[p]) : callbacks[p][i] = c

(* A callback that was in time and is not called yet waits in its list.    *)
TimelyWait ==
    \A c \in timely :
        /\ scheduled[c] \in Phase
        /\ c \notin called =>
             /\ Listed(c, scheduled[c])
             /\ scheduled[c][1] \in Entered => ~Passed(scheduled[c])

IInv == TypeOK /\ WalkInv /\ Counted /\ BlockHolds /\ RefusedHavePassed /\ TimelyWait

-----------------------------------------------------------------------------
LEMMA PhaseIs == \A p : p \in Phase <=> \E s \in BootState, e \in {BS_ON_ENTRY, BS_ON_EXIT} :
                                           p = <<s, e>>
BY DEF Phase

LEMMA InitIInv == Init => IInv
<1> SUFFICES ASSUME Init PROVE IInv
  OBVIOUS
<1>1. TypeOK
  BY TableAssumption, BlocksAssumption DEF Init, TypeOK, BootState
<1>2. WalkInv
  BY DEF Init, WalkInv
<1>3. Counted
  <2>1. \A p : {a \in granted : held[a] = p} = {}
    BY DEF Init
  <2> QED
    BY <2>1, FS_EmptySet DEF Init, Counted
<1>4. BlockHolds /\ RefusedHavePassed /\ TimelyWait
  BY DEF Init, BlockHolds, RefusedHavePassed, TimelyWait
<1> QED
  BY <1>1, <1>2, <1>3, <1>4 DEF IInv

LEMMA Numbers ==
    TypeOK => /\ state \in Nat /\ seq \in {0, 1} /\ BootState \subseteq Nat
              /\ \A p \in Phase : p[1] \in BootState /\ p[2] \in {0, 1} /\ p = <<p[1], p[2]>>
              /\ Current \in Phase /\ Current[1] = state /\ Current[2] = seq
BY TableAssumption DEF TypeOK, BootState, Phase, BS_ON_ENTRY, BS_ON_EXIT, Current

(* The steps that change neither the phase nor the tables.                 *)
Quiet == UNCHANGED <<state, seq, complete, tables>>

LEMMA QuietKeeps ==
    ASSUME Quiet, Counted, BlockHolds, RefusedHavePassed, TimelyWait
    PROVE  Counted' /\ BlockHolds' /\ RefusedHavePassed' /\ TimelyWait'
BY DEF Quiet, tables, Counted, BlockHolds, RefusedHavePassed, TimelyWait, Passed, Entered, Listed

LEMMA QuietStep ==
    ASSUME IInv,
           \/ StartWalk \/ EnterState \/ AlreadyExecuted \/ TimersRan \/ CallbackReturns
           \/ WaitForBlockers \/ RunStateReturns \/ RunStateLeaves \/ RunStateDies
    PROVE  IInv'
<1>1. Quiet
  BY DEF StartWalk, EnterState, AlreadyExecuted, TimersRan, CallbackReturns,
         WaitForBlockers, RunStateReturns, RunStateLeaves, RunStateDies, Quiet
<1>2. next_id' \in BootState
  BY TableAssumption
  DEF IInv, TypeOK, StartWalk, EnterState, AlreadyExecuted, TimersRan, CallbackReturns,
      WaitForBlockers, RunStateReturns, RunStateLeaves, RunStateDies
<1>3. TypeOK'
  BY <1>1, <1>2
  DEF IInv, TypeOK, Quiet, tables, StartWalk, EnterState, AlreadyExecuted, TimersRan,
      CallbackReturns, WaitForBlockers, RunStateReturns, RunStateLeaves, RunStateDies
<1>4. WalkInv'
  BY <1>1
  DEF IInv, WalkInv, Quiet, StartWalk, EnterState, AlreadyExecuted, TimersRan,
      CallbackReturns, WaitForBlockers, RunStateReturns, RunStateLeaves, RunStateDies,
      BS_ON_ENTRY, BS_ON_EXIT
<1> QED
  BY <1>1, <1>3, <1>4, QuietKeeps DEF IInv

(* A phase that is finished has no accepted agent and no waiting callback. *)
LEMMA FinishedIsFree ==
    ASSUME IInv, PhaseFinished
    PROVE  /\ \A a \in granted : held[a] # Current
           /\ \A c \in timely : c \notin called => scheduled[c] # Current
<1>1. Current \in Phase /\ Current[1] \in Entered
  BY Numbers DEF IInv, Entered
<1>2. Cardinality({a \in granted : held[a] = Current}) = 0
  BY <1>1 DEF IInv, Counted, PhaseFinished
<1>3. IsFiniteSet({a \in granted : held[a] = Current})
  BY AgentAssumption, FS_Subset DEF IInv, TypeOK
<1>4. \A a \in granted : held[a] # Current
  BY <1>2, <1>3, FS_EmptySet
<1>5. \A c \in timely : c \notin called => scheduled[c] # Current
  BY EmptySeq DEF IInv, TimelyWait, Listed, PhaseFinished
<1> QED
  BY <1>4, <1>5

LEMMA EntryStep == IInv /\ EntryFinished => IInv'
<1> SUFFICES ASSUME IInv, EntryFinished PROVE IInv'
  OBVIOUS
<1> USE DEF BS_ON_ENTRY, BS_ON_EXIT
<1>1. /\ seq = 0 /\ seq' = 1 /\ walk = "callbacks" /\ walk' = "run_state" /\ PhaseFinished
      /\ UNCHANGED <<state, complete, next_id, tables>>
  BY DEF EntryFinished
<1>2. TypeOK' /\ WalkInv'
  BY <1>1 DEF IInv, TypeOK, WalkInv, tables
<1>3. \A p \in Phase : Passed(p) => Passed(p)'
  BY <1>1, Numbers DEF IInv, Passed
<1>4. \A p \in Phase : Passed(p)' => Passed(p) \/ p = Current
  BY <1>1, Numbers DEF IInv, Passed, Current
<1>5. Entered' = Entered
  BY <1>1 DEF Entered
<1>6. Counted'
  BY <1>1, <1>3, <1>5 DEF IInv, Counted, tables
<1>7. BlockHolds'
  BY <1>1, <1>4, <1>5, FinishedIsFree DEF IInv, BlockHolds, tables
<1>8. RefusedHavePassed'
  BY <1>1, <1>3 DEF IInv, TypeOK, RefusedHavePassed, tables
<1>9. TimelyWait'
  BY <1>1, <1>4, <1>5, FinishedIsFree DEF IInv, TimelyWait, Listed, tables
<1> QED
  BY <1>2, <1>6, <1>7, <1>8, <1>9 DEF IInv

LEMMA ExitStep == IInv /\ ExitFinished => IInv'
<1> SUFFICES ASSUME IInv, ExitFinished PROVE IInv'
  OBVIOUS
<1> USE DEF BS_ON_ENTRY, BS_ON_EXIT
<1>1. /\ seq = 1 /\ seq' = 0 /\ walk = "callbacks" /\ walk' = "top" /\ PhaseFinished
      /\ state' = next_id /\ complete' = complete \cup {state}
      /\ UNCHANGED <<next_id, tables>>
  BY DEF ExitFinished
<1>2. state \notin complete /\ next_id \in RunState[state]
  BY <1>1 DEF IInv, WalkInv
<1>3. state' \in BootState /\ state' >= state
  <2>1. state \in BootState /\ next_id \in BootState
    BY DEF IInv, TypeOK
  <2>2. next_id > state \/ next_id = state
    BY <1>2, <2>1, TableAssumption
  <2>3. next_id >= state
    BY <2>1, <2>2, TableAssumption DEF BootState
  <2> QED
    BY <1>1, <2>1, <2>3
<1>4. TypeOK'
  BY <1>1, <1>3 DEF IInv, TypeOK, tables
<1>5. WalkInv'
  BY <1>1, <1>3, Numbers DEF IInv, TypeOK, WalkInv
<1>6. \A p \in Phase : Passed(p) /\ ~Passed(p)' => state' = state
  BY <1>1, <1>3, Numbers DEF IInv, TypeOK, Passed
<1>7. \A p \in Phase : ~Passed(p)' => ~Passed(p) \/ p[1] \in Entered
  BY <1>1, <1>3, Numbers DEF IInv, TypeOK, Passed, Entered
<1>8. Entered' = Entered \cup {state'}
  BY <1>1 DEF Entered
<1>9. ASSUME NEW p \in Phase, p[1] \in Entered', Passed(p)'
      PROVE  (p[1] \in Entered /\ Passed(p)) \/ p = Current
  <2>0. state' \in Nat /\ p[1] \in Nat /\ p[2] \in {0, 1}
    BY <1>3, Numbers DEF IInv
  <2>1. p[1] # state'
    BY <1>1, <1>9, <2>0 DEF Passed
  <2>2. p[1] \in Entered /\ p[1] <= state
    BY <1>8, <1>9, <2>1, Numbers DEF IInv, WalkInv, Entered
  <2> QED
    BY <2>2, <1>1, Numbers DEF IInv, Passed, Current
<1>10. Counted'
  <2> SUFFICES ASSUME NEW p \in Phase, ~Passed(p)' \/ p[1] \in Entered'
               PROVE  blockers'[p] = Cardinality({a \in granted' : held'[a] = p})
    BY DEF Counted
  <2>1. ~Passed(p) \/ p[1] \in Entered
    <3>1. CASE ~Passed(p)'
      BY <3>1, <1>7
    <3>2. CASE p[1] = state'
      BY <3>2, <1>1, <1>3, Numbers DEF IInv, TypeOK, Passed, Entered
    <3> QED
      BY <3>1, <3>2, <1>8
  <2> QED
    BY <1>1, <2>1 DEF IInv, Counted, tables
<1>11. BlockHolds'
  BY <1>1, <1>9, FinishedIsFree DEF IInv, BlockHolds, tables
<1>12. RefusedHavePassed'
  <2> SUFFICES ASSUME state' \notin complete', NEW a \in Agent, held[a] # NoPhase, a \notin granted
               PROVE  Passed(held[a])'
    BY <1>1 DEF RefusedHavePassed, tables, Passed
  <2>1. state' # state /\ Passed(held[a]) /\ held[a] \in Phase
    BY <1>1, <1>2 DEF IInv, RefusedHavePassed, TypeOK
  <2> QED
    BY <2>1, <1>6, <1>1 DEF tables, Passed
<1>13. TimelyWait'
  BY <1>1, <1>9, FinishedIsFree DEF IInv, TimelyWait, Listed, tables
<1> QED
  BY <1>4, <1>5, <1>10, <1>11, <1>12, <1>13 DEF IInv

-----------------------------------------------------------------------------
(* The steps below do not change the phase.                                *)
LEMMA SamePhase ==
    ASSUME UNCHANGED <<state, seq, complete>>
    PROVE  /\ \A p : Passed(p)' <=> Passed(p)
           /\ Entered' = Entered
           /\ Current' = Current
BY DEF Passed, Entered, Current

LEMMA CallStep == IInv /\ CallCallback => IInv'
<1> SUFFICES ASSUME IInv, CallCallback PROVE IInv'
  OBVIOUS
<1> DEFINE s == callbacks[Current]
           c0 == Head(s)
<1>1. Current \in Phase /\ s \in Seq(Callback) /\ s # <<>>
  BY Numbers DEF IInv, TypeOK, CallCallback
<1>2. /\ c0 \in Callback /\ Tail(s) \in Seq(Callback) /\ c0 = s[1]
      /\ Len(s) \in Nat /\ Len(Tail(s)) = Len(s) - 1
      /\ \A i \in 1..Len(Tail(s)) : Tail(s)[i] = s[i + 1]
  BY <1>1, HeadTailProperties, LenProperties
<1>3. /\ UNCHANGED <<state, seq, blockers, complete, next_id, held, granted, blocks,
                     scheduled, timely>>
      /\ callbacks' = [callbacks EXCEPT ![Current] = Tail(s)]
      /\ called' = called \cup {c0} /\ walk = "callbacks" /\ walk' = "callback"
  BY DEF CallCallback
<1>4. TypeOK'
  BY <1>1, <1>2, <1>3 DEF IInv, TypeOK
<1>5. WalkInv'
  BY <1>3 DEF IInv, WalkInv
<1>6. Counted' /\ BlockHolds' /\ RefusedHavePassed'
  BY <1>3, SamePhase DEF IInv, Counted, BlockHolds, RefusedHavePassed
<1>7. ASSUME NEW c, NEW p \in Phase, c # c0, Listed(c, p)
      PROVE  Listed(c, p)'
  <2>1. CASE p = Current
    <3>1. PICK i \in 1..Len(s) : s[i] = c
      BY <1>7, <2>1 DEF Listed
    <3>2. i # 1 /\ i - 1 \in 1..Len(Tail(s)) /\ Tail(s)[i - 1] = c
      BY <1>2, <1>7, <3>1
    <3>3. callbacks'[p] = Tail(s)
      BY <1>1, <1>3, <2>1 DEF IInv, TypeOK
    <3> QED
      BY <3>2, <3>3 DEF Listed
  <2>2. CASE p # Current
    BY <1>3, <1>7, <2>2 DEF Listed, IInv, TypeOK
  <2> QED
    BY <2>1, <2>2
<1>8. TimelyWait'
  BY <1>3, <1>7, SamePhase DEF IInv, TimelyWait
<1> QED
  BY <1>4, <1>5, <1>6, <1>8 DEF IInv

LEMMA SchedStep ==
    ASSUME IInv, NEW c \in Callback, NEW p \in Phase, boot_state_sched_callback(c, p)
    PROVE  IInv'
<1> DEFINE s == <<c>> \o callbacks[p]
<1>1. callbacks[p] \in Seq(Callback) /\ <<c>> \in Seq(Callback) /\ Len(<<c>>) = 1
  BY DEF IInv, TypeOK
<1>2. /\ s \in Seq(Callback) /\ s[1] = c
      /\ Len(callbacks[p]) \in Nat /\ Len(s) = Len(callbacks[p]) + 1
      /\ \A i \in 1..Len(callbacks[p]) : s[i + 1] = callbacks[p][i]
  <2>1. /\ s \in Seq(Callback) /\ Len(s) = 1 + Len(callbacks[p])
        /\ \A i \in 1..1 + Len(callbacks[p]) :
              s[i] = IF i <= 1 THEN <<c>>[i] ELSE callbacks[p][i - 1]
    <3>1. /\ s \in Seq(Callback) /\ Len(s) = Len(<<c>>) + Len(callbacks[p])
          /\ \A i \in 1..Len(<<c>>) + Len(callbacks[p]) :
                s[i] = IF i <= Len(<<c>>) THEN <<c>>[i] ELSE callbacks[p][i - Len(<<c>>)]
      BY <1>1, ConcatProperties
    <3> HIDE DEF s
    <3> QED
      BY <1>1, <3>1
  <2> HIDE DEF s
  <2>2. Len(callbacks[p]) \in Nat
    BY <1>1, LenProperties
  <2>3. s[1] = c
    <3>1. s[1] = <<c>>[1]
      BY <2>1, <2>2
    <3> QED
      BY <3>1
  <2>4. ASSUME NEW i \in 1..Len(callbacks[p])
        PROVE  s[i + 1] = callbacks[p][i]
    BY <2>1, <2>2, i + 1 \in 1..1 + Len(callbacks[p]), ~(i + 1 <= 1), i + 1 - 1 = i
  <2> QED
    BY <2>1, <2>2, <2>3, <2>4
<1>3. /\ UNCHANGED <<state, seq, blockers, complete, walk, next_id, held, granted, blocks,
                     called>>
      /\ callbacks' = [callbacks EXCEPT ![p] = s]
      /\ scheduled[c] = NoPhase /\ scheduled' = [scheduled EXCEPT ![c] = p]
      /\ timely' = IF Passed(p) THEN timely ELSE timely \cup {c}
  BY DEF boot_state_sched_callback
<1> HIDE DEF s
<1>4. TypeOK'
  BY <1>2, <1>3 DEF IInv, TypeOK
<1>5. WalkInv'
  BY <1>3 DEF IInv, WalkInv
<1>6. Counted' /\ BlockHolds' /\ RefusedHavePassed'
  BY <1>3, SamePhase DEF IInv, Counted, BlockHolds, RefusedHavePassed
<1>7. ASSUME NEW d, NEW q \in Phase, Listed(d, q)
      PROVE  Listed(d, q)'
  <2>1. CASE q = p
    <3>1. PICK i \in 1..Len(callbacks[p]) : callbacks[p][i] = d
      BY <1>7, <2>1 DEF Listed
    <3>2. i + 1 \in 1..Len(s) /\ s[i + 1] = d /\ callbacks'[q] = s
      BY <1>2, <1>3, <2>1, <3>1 DEF IInv, TypeOK
    <3> QED
      BY <3>2 DEF Listed
  <2>2. CASE q # p
    BY <1>3, <1>7, <2>2 DEF Listed, IInv, TypeOK
  <2> QED
    BY <2>1, <2>2
<1>8. Listed(c, p)'
  <2>1. 1 \in 1..Len(s) /\ s[1] = c /\ callbacks'[p] = s
    BY <1>2, <1>3 DEF IInv, TypeOK
  <2> QED
    BY <2>1 DEF Listed
<1>9. TimelyWait'
  <2> SUFFICES ASSUME NEW d \in timely'
               PROVE  /\ scheduled'[d] \in Phase
                      /\ d \notin called' =>
                           /\ Listed(d, scheduled[d])'
                           /\ scheduled'[d][1] \in Entered' => ~Passed(scheduled[d])'
    BY DEF TimelyWait
  <2>1. CASE d \in timely
    <3>1. d # c /\ scheduled'[d] = scheduled[d] /\ scheduled[d] \in Phase
      BY <1>3, <2>1, PhaseAssumption DEF IInv, TimelyWait, TypeOK
    <3>2. d \notin called => /\ Listed(d, scheduled[d])
                             /\ scheduled[d][1] \in Entered => ~Passed(scheduled[d])
      BY <2>1 DEF IInv, TimelyWait
    <3>3. \A q \in Phase : Listed(d, q) => Listed(d, q)'
      BY <1>7
    <3> QED
      BY <1>3, <3>1, <3>2, <3>3, SamePhase DEF Listed, Passed, Entered
  <2>2. CASE d \notin timely
    <3>1. d = c /\ ~Passed(p) /\ scheduled'[d] = p
      BY <1>3, <2>2 DEF IInv, TypeOK
    <3> QED
      BY <1>3, <1>8, <3>1, SamePhase DEF Listed, Passed, Entered
  <2> QED
    BY <2>1, <2>2
<1> QED
  BY <1>4, <1>5, <1>6, <1>9 DEF IInv

LEMMA BlockStep ==
    ASSUME IInv, NEW a \in Agent, NEW p \in Phase, boot_state_block(a, p)
    PROVE  IInv'
<1>1. /\ UNCHANGED <<state, seq, callbacks, complete, walk, next_id, scheduled, timely, called>>
      /\ held[a] = NoPhase /\ held' = [held EXCEPT ![a] = p]
      /\ blocks < MaxBlocks /\ blocks' = blocks + 1
      /\ Passed(p) => UNCHANGED <<blockers, granted>>
      /\ ~Passed(p) => /\ blockers' = [blockers EXCEPT ![p] = @ + 1]
                       /\ granted' = granted \cup {a}
  BY DEF boot_state_block, Refuses
<1>2. a \notin granted
  BY <1>1, PhaseAssumption DEF IInv, BlockHolds
<1>3. TypeOK'
  <2>1. held' \in [Agent -> Phase \cup {NoPhase}] /\ granted' \subseteq Agent
    BY <1>1 DEF IInv, TypeOK
  <2>2. blockers' \in [Phase -> Nat]
    BY <1>1 DEF IInv, TypeOK
  <2>3. blocks' \in 0..MaxBlocks
    BY <1>1, BlocksAssumption DEF IInv, TypeOK
  <2> QED
    BY <1>1, <2>1, <2>2, <2>3 DEF IInv, TypeOK
<1>4. WalkInv' /\ TimelyWait'
  BY <1>1, SamePhase DEF IInv, WalkInv, TimelyWait, Listed
<1>5. BlockHolds'
  BY <1>1, <1>2, SamePhase DEF IInv, TypeOK, BlockHolds
<1>6. RefusedHavePassed'
  BY <1>1, SamePhase DEF IInv, TypeOK, RefusedHavePassed
<1>7. Counted'
  <2> SUFFICES ASSUME NEW q \in Phase, ~Passed(q)' \/ q[1] \in Entered'
               PROVE  blockers'[q] = Cardinality({b \in granted' : held'[b] = q})
    BY DEF Counted
  <2> DEFINE S == {b \in granted : held[b] = q}
             S1 == {b \in granted' : held'[b] = q}
  <2>1. blockers[q] = Cardinality(S) /\ IsFiniteSet(S)
    BY <1>1, SamePhase, AgentAssumption, FS_Subset DEF IInv, TypeOK, Counted
  <2>2. CASE q = p /\ ~Passed(p)
    <3>1. S1 = S \cup {a} /\ a \notin S /\ blockers'[q] = blockers[q] + 1
      BY <1>1, <1>2, <2>2 DEF IInv, TypeOK
    <3> QED
      BY <2>1, <3>1, FS_AddElement
  <2>3. CASE q # p \/ Passed(p)
    <3>1. S1 = S /\ blockers'[q] = blockers[q]
      BY <1>1, <1>2, <2>3 DEF IInv, TypeOK
    <3> QED
      BY <2>1, <3>1
  <2> QED
    BY <2>2, <2>3
<1> QED
  BY <1>3, <1>4, <1>5, <1>6, <1>7 DEF IInv

LEMMA OpenIsOn == IInv /\ Open => state \notin complete
BY DEF IInv, WalkInv, Open

LEMMA UnblockStep ==
    ASSUME IInv, NEW a \in Agent, boot_state_unblock(a)
    PROVE  IInv'
<1> DEFINE p == held[a]
<1>1. /\ UNCHANGED <<state, seq, callbacks, complete, walk, next_id, blocks, scheduled,
                     timely, called>>
      /\ p \in Phase /\ held' = [held EXCEPT ![a] = NoPhase]
      /\ granted' = granted \ {a}
      /\ blockers' = IF Passed(p) \/ blockers[p] = 0 THEN blockers
                     ELSE [blockers EXCEPT ![p] = @ - 1]
  BY DEF boot_state_unblock, Refuses, IInv, TypeOK
<1>2. a \notin granted => Passed(p)
  BY OpenIsOn DEF boot_state_unblock, IInv, RefusedHavePassed
<1>3. a \in granted => ~(p[1] \in Entered /\ Passed(p))
  BY DEF IInv, BlockHolds
<1>4. TypeOK'
  <2>1. held' \in [Agent -> Phase \cup {NoPhase}] /\ granted' \subseteq Agent
    BY <1>1 DEF IInv, TypeOK
  <2>2. blockers' \in [Phase -> Nat]
    BY <1>1 DEF IInv, TypeOK
  <2> QED
    BY <1>1, <2>1, <2>2 DEF IInv, TypeOK
<1>5. WalkInv' /\ TimelyWait'
  BY <1>1, SamePhase DEF IInv, WalkInv, TimelyWait, Listed
<1>6. BlockHolds' /\ RefusedHavePassed'
  BY <1>1, SamePhase DEF IInv, TypeOK, BlockHolds, RefusedHavePassed
<1>7. Counted'
  <2> SUFFICES ASSUME NEW q \in Phase, ~Passed(q)' \/ q[1] \in Entered'
               PROVE  blockers'[q] = Cardinality({b \in granted' : held'[b] = q})
    BY DEF Counted
  <2> DEFINE S == {b \in granted : held[b] = q}
             S1 == {b \in granted' : held'[b] = q}
  <2>1. /\ blockers[q] = Cardinality(S) /\ IsFiniteSet(S)
        /\ ~Passed(q) \/ q[1] \in Entered
    BY <1>1, SamePhase, AgentAssumption, FS_Subset DEF IInv, TypeOK, Counted
  <2>2. S1 = S \ {a}
    BY <1>1, PhaseAssumption DEF IInv, TypeOK
  <2>3. CASE a \in S
    <3>1. q = p /\ a \in granted
      BY <2>3
    <3>2. ~Passed(p)
      BY <1>3, <2>1, <3>1
    <3>3. Cardinality(S1) = Cardinality(S) - 1 /\ Cardinality(S) # 0
      <4> HIDE DEF S, S1
      <4>1. Cardinality(S1) = Cardinality(S) - 1
        BY <2>1, <2>2, <2>3, FS_RemoveElement
      <4>2. Cardinality(S) # 0
        BY <2>1, <2>3, FS_EmptySet
      <4> QED
        BY <4>1, <4>2
    <3>4. blockers'[q] = blockers[q] - 1
      BY <1>1, <2>1, <3>1, <3>2, <3>3 DEF IInv, TypeOK
    <3> QED
      BY <2>1, <3>3, <3>4
  <2>4. CASE a \notin S
    <3>1. blockers'[q] = blockers[q]
      BY <1>1, <1>2, <2>4 DEF IInv, TypeOK
    <3> QED
      BY <2>1, <2>2, <2>4, <3>1
  <2> QED
    BY <2>3, <2>4
<1> QED
  BY <1>4, <1>5, <1>6, <1>7 DEF IInv

-----------------------------------------------------------------------------
LEMMA NextIInv == IInv /\ [Next]_vars => IInv'
<1>1. IInv /\ Walk => IInv'
  BY QuietStep, EntryStep, ExitStep, CallStep DEF Walk
<1>2. IInv /\ Next => IInv'
  BY <1>1, SchedStep, BlockStep, UnblockStep DEF Next
<1>3. IInv /\ UNCHANGED vars => IInv'
  BY QuietKeeps DEF vars, tables, Quiet, IInv, TypeOK, WalkInv
<1> QED
  BY <1>2, <1>3

(* The invariant holds in every run, for every table of boot states.       *)
THEOREM BootInvariant == Spec => []IInv
<1> QED
  BY InitIInv, NextIInv, PTL DEF Spec

(* Every variable of the state machine keeps its type; blockers, an int in *)
(* the code, never goes below zero.                                        *)
THEOREM TypeCorrect == Spec => []TypeOK
<1>1. IInv => TypeOK
  BY DEF IInv
<1> QED
  BY <1>1, BootInvariant, PTL

(* The blockers of a phase still to run are the agents that block it.      *)
THEOREM BlockersCount == Spec => []BlockersExact
<1>1. IInv => BlockersExact
  BY DEF IInv, Counted, BlockersExact
<1> QED
  BY <1>1, BootInvariant, PTL

(* The state machine does not leave a phase that an agent blocked.         *)
THEOREM BlocksHold == Spec => []BlockHolds
<1>1. IInv => BlockHolds
  BY DEF IInv
<1> QED
  BY <1>1, BootInvariant, PTL

(* A callback that was scheduled in time is called before its phase ends.  *)
THEOREM TimelyCalled == Spec => []TimelyAreCalled
<1>1. IInv => TimelyAreCalled
  BY DEF IInv, TimelyWait, TimelyAreCalled
<1> QED
  BY <1>1, BootInvariant, PTL

(* A refused block stays refused until the agent unblocks.                 *)
THEOREM RefusalsStand == Spec => []RefusalStands
<1>1. IInv => RefusalStands
  BY OpenIsOn DEF IInv, RefusedHavePassed, RefusalStands
<1> QED
  BY <1>1, BootInvariant, PTL
=============================================================================
