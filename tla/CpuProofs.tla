----------------------------- MODULE CpuProofs ------------------------------
(***************************************************************************)
(* Proofs about what processors do together, src/src/cpu/x86: in SMM, with *)
(* the stores that are written to there, and while they are started up.    *)
(*                                                                         *)
(* Smm: that one processor at a time serves in SMM, and that the others    *)
(* leave only when it is done; that the event log in flash is what its     *)
(* mirror says, has room and works again after lost power; and that the    *)
(* variable store never loses an entry.  All of it for every number of     *)
(* processors, any sizes of the two stores and any number of faults.       *)
(*                                                                         *)
(* The first part is about the lock.  The steps of the stores matter there *)
(* in one respect only, whether they are at rest, so the proof cuts each   *)
(* step down to what it does to the lock and to the two conditions "at     *)
(* rest" before it looks at processors.  The next two parts each have an   *)
(* invariant of one service, LogInv and StoreInv, and use nothing of the   *)
(* lock, because neither service reads what the other or the processors    *)
(* keep.  What they need is a theory of the recursive definitions: the     *)
(* length of a log (End), and what is found in flash (ScanEnd and          *)
(* ActiveEntries).                                                         *)
(*                                                                         *)
(* MpInit: that processors relocate one at a time, that the boot processor *)
(* works alone where it must, that nobody runs what is gone, and what a    *)
(* call promises, for every number of processors and mailboxes.  The first *)
(* three hold as long as no wait expires, and of the first something is    *)
(* left when waits do.  The argument: the records of the                   *)
(* flight plan order the processors: what the boot processor has released  *)
(* bounds how far the others are, and what they have entered, counted,     *)
(* bounds how far it is.  The mailboxes order the calls: it does not       *)
(* return before each processor has copied what it was given.              *)
(***************************************************************************)
EXTENDS Smm, MpInit, FiniteSetTheorems, SequenceTheorems, WellFoundedInduction, TLAPS

Serving(c) == cpu[c] \in {"serve", "work"}

(* A store that is not at rest has a processor that works on it, and only  *)
(* one of the two is not at rest.                                          *)
AtRest ==
    /\ ~Quiet => \E c \in CPU : cpu[c] = "work"
    /\ op = "none" \/ Idle
    /\ waiting => request # NoRequest

Exclusive ==
    /\ \A c, d \in CPU : Serving(c) /\ Serving(d) => c = d
    /\ smi_handler_status = "SMI_LOCKED" <=> \E c \in CPU : Serving(c)
    /\ \A c \in CPU : cpu[c] = "work" => ~do_driver_init

LockInv == HandlerTypeOK /\ Exclusive /\ AtRest

-----------------------------------------------------------------------------
(* What the steps do to the stores' being at rest.                         *)

(* A step of smmstore is taken while it is busy.                           *)
LEMMA StoreStepBusy == StoreStep => op # "none"
BY DEF StoreStep, WriteWord, EraseSector, AccessFails, StoreFault

(* No request of the event log is the absence of one.                      *)
LEMMA RequestsAreSome == \A r \in Request : r # NoRequest
<1> SUFFICES ASSUME NEW r \in Request PROVE r # NoRequest
  OBVIOUS
<1>1. CASE r \in Event
  <2>1. r.len \in 1..MaxEvent
    BY <1>1, EventAssumption
  <2>2. NoRequest.len = 0
    BY DEF NoRequest
  <2>3. 0 \notin 1..MaxEvent
    OBVIOUS
  <2> QED BY <2>1, <2>2, <2>3
<1>2. CASE r = Clear
  BY <1>2 DEF Clear, NoRequest
<1> QED BY <1>1, <1>2 DEF Request

(* A step of the event log is taken while it is busy, and a waiting        *)
(* request stays one.                                                      *)
LEMMA LogStepBusy ==
  ASSUME waiting => request # NoRequest, LogStep
  PROVE  ~Idle /\ (waiting' => request' # NoRequest)
<1>1. CASE Continue
  BY <1>1 DEF Continue, Idle
<1>2. CASE Erase
  BY <1>2 DEF Erase, Idle
<1>3. CASE AppendToNv
  BY <1>3 DEF AppendToNv, EndSync, Idle
<1>4. CASE RewriteNv
  BY <1>4 DEF RewriteNv, EndSync, Idle
<1> QED BY <1>1, <1>2, <1>3, <1>4 DEF LogStep, LogSync

(* A request begins while the log is at rest.                              *)
LEMMA LogCommandRests ==
  ASSUME waiting => request # NoRequest, LogCommand
  PROVE  Idle /\ (waiting' => request' # NoRequest)
<1>1. PICK r \in Request : Refuse(r) \/ Call(r) \/ CallAndInit(r)
  BY DEF LogCommand
<1>2. r # NoRequest
  BY RequestsAreSome
<1>3. CASE Refuse(r)
  BY <1>3 DEF Refuse
<1>4. CASE Call(r)
  BY <1>2, <1>4 DEF Call, Begins
<1>5. CASE CallAndInit(r)
  BY <1>2, <1>5 DEF CallAndInit, Begins
<1> QED BY <1>1, <1>3, <1>4, <1>5

(* A reset leaves both at rest.                                            *)
LEMMA ResetRests ==
  ASSUME AtRest, Reset
  PROVE  Quiet' /\ (waiting' => request' # NoRequest)
<1>1. CASE PowerLost /\ UNCHANGED logVars
  <2>1. Idle /\ op' = "none"
    BY <1>1 DEF PowerLost, StoreFault, EndCommand, AtRest
  <2>2. UNCHANGED <<sync, request, waiting>>
    BY <1>1 DEF logVars
  <2> QED BY <2>1, <2>2 DEF Quiet, Idle, AtRest
<1>2. CASE LogPowerLost /\ UNCHANGED storeVars
  <2>1. op = "none"
    BY <1>2 DEF LogPowerLost, Idle, AtRest
  <2> QED BY <1>2, <2>1 DEF LogPowerLost, Forget, Quiet, Idle, storeVars
<1>3. CASE op = "none" /\ Restart /\ UNCHANGED storeVars
  BY <1>3 DEF Restart, Forget, Quiet, Idle, storeVars
<1> QED BY <1>1, <1>2, <1>3 DEF Reset

-----------------------------------------------------------------------------
LEMMA InitLock == Init => LockInv
<1> SUFFICES ASSUME Init PROVE LockInv
  OBVIOUS
<1>1. HandlerTypeOK /\ \A c \in CPU : cpu[c] = "out"
  BY DEF Init, HandlerInit, HandlerTypeOK
<1>2. Quiet /\ ~waiting
  BY DEF Init, StoreInit, LogInit, Quiet, Idle
<1>3. smi_handler_status = "SMI_UNLOCKED"
  BY DEF Init, HandlerInit
<1> QED BY <1>1, <1>2, <1>3 DEF LockInv, Exclusive, AtRest, Serving, Quiet

(* The steps of the lock, with both stores as they were.                   *)
LEMMA LockSteps ==
  ASSUME LockInv, NEW c \in CPU, HandlerStep(c)
  PROVE  HandlerTypeOK' /\ Exclusive' /\ \A d \in CPU : cpu[d] = "work" => cpu'[d] = "work"
<1> USE DEF LockInv, HandlerTypeOK, Exclusive, Serving, Move
<1>1. CASE Enter(c)
  BY <1>1 DEF Enter
<1>2. CASE ObtainLock(c)
  <2>1. CASE Obtained
    BY <1>2, <2>1 DEF ObtainLock, Obtained
  <2>2. CASE ~Obtained
    BY <1>2, <2>2 DEF ObtainLock, Obtained
  <2> QED BY <2>1, <2>2
<1>3. CASE LeaveSpin(c)
  BY <1>3 DEF LeaveSpin
<1>4. CASE SetEos(c)
  BY <1>4 DEF SetEos
<1> QED BY <1>1, <1>2, <1>3, <1>4 DEF HandlerStep

LEMMA RestKept ==
  ASSUME LockInv, UNCHANGED <<storeVars, logVars>>,
         \A d \in CPU : cpu[d] = "work" => cpu'[d] = "work"
  PROVE  AtRest'
<1>1. UNCHANGED <<op, sync, request, waiting>>
  BY DEF storeVars, logVars
<1> QED BY <1>1 DEF LockInv, AtRest, Quiet, Idle

(* The processor that has the lock begins, and finds both at rest.         *)
LEMMA ServeStep == ASSUME LockInv, NEW c \in CPU, Serve(c) PROVE LockInv'
<1>1. cpu[c] = "serve" /\ cpu' = [cpu EXCEPT ![c] = "work"]
  BY DEF Serve, BeginWork, Move
<1>2. HandlerTypeOK' /\ Exclusive'
  BY <1>1 DEF Serve, BeginWork, LockInv, HandlerTypeOK, Exclusive, Serving
<1>3. op = "none" /\ Idle
  <2>1. \A d \in CPU : cpu[d] # "work"
    BY <1>1 DEF LockInv, Exclusive, Serving
  <2> QED BY <2>1 DEF LockInv, AtRest, Quiet
<1>4. cpu'[c] = "work"
  BY <1>1 DEF LockInv, HandlerTypeOK
<1>5. (op' = "none" \/ Idle') /\ (waiting' => request' # NoRequest)
  <2>1. CASE StoreCommand /\ UNCHANGED logVars
    BY <1>3, <2>1 DEF logVars, Idle, LockInv, AtRest
  <2>2. CASE LogCommand /\ UNCHANGED storeVars
    BY <1>3, <2>2, LogCommandRests DEF storeVars, LockInv, AtRest
  <2>3. CASE UNCHANGED <<storeVars, logVars>>
    BY <1>3, <2>3 DEF storeVars, logVars, Idle, LockInv, AtRest
  <2> QED BY <2>1, <2>2, <2>3 DEF Serve
<1> QED BY <1>2, <1>4, <1>5 DEF LockInv, AtRest

(* It goes on; one of the two is not at rest, and the other stays so.      *)
LEMMA WorkStep == ASSUME LockInv, NEW c \in CPU, Work(c) PROVE LockInv'
<1>1. cpu[c] = "work" /\ UNCHANGED handlerVars
  BY DEF Work
<1>2. HandlerTypeOK' /\ Exclusive' /\ cpu'[c] = "work"
  BY <1>1 DEF handlerVars, LockInv, HandlerTypeOK, Exclusive, Serving
<1>3. (op' = "none" \/ Idle') /\ (waiting' => request' # NoRequest)
  <2>1. CASE StoreStep /\ UNCHANGED logVars
    BY <2>1, StoreStepBusy DEF logVars, Idle, LockInv, AtRest
  <2>2. CASE LogStep /\ UNCHANGED storeVars
    BY <2>2, LogStepBusy DEF storeVars, LockInv, AtRest
  <2> QED BY <2>1, <2>2 DEF Work
<1> QED BY <1>2, <1>3 DEF LockInv, AtRest

LEMMA DoneStep == ASSUME LockInv, NEW c \in CPU, Done(c) PROVE LockInv'
<1>1. HandlerTypeOK' /\ Exclusive'
  BY DEF Done, ReleaseLock, Released, Move, LockInv, HandlerTypeOK, Exclusive, Serving
<1>2. UNCHANGED <<op, sync, request, waiting>>
  BY DEF Done, storeVars, logVars
<1> QED BY <1>1, <1>2 DEF Done, LockInv, AtRest, Quiet, Idle

LEMMA ResetStep ==
    ASSUME LockInv, Reset
    PROVE  LockInv' /\ Quiet' /\ \A c \in CPU : cpu'[c] = "out"
<1>1. HandlerTypeOK' /\ Exclusive' /\ \A c \in CPU : cpu'[c] = "out"
  BY DEF Reset, HandlerReset, HandlerTypeOK, Exclusive, Serving
<1>2. Quiet' /\ (waiting' => request' # NoRequest)
  BY ResetRests DEF LockInv
<1> QED BY <1>1, <1>2 DEF LockInv, AtRest, Quiet

LEMMA SmiStep ==
  ASSUME LockInv, Smi, UNCHANGED <<storeVars, logVars>> PROVE LockInv'
<1>1. HandlerTypeOK' /\ Exclusive' /\ UNCHANGED cpu
  BY DEF Smi, LockInv, HandlerTypeOK, Exclusive, Serving
<1> QED BY <1>1, RestKept DEF LockInv

LEMMA NextLock == LockInv /\ [Next]_smmVars => LockInv'
<1> SUFFICES ASSUME LockInv, [Next]_smmVars PROVE LockInv'
  OBVIOUS
<1>1. ASSUME NEW c \in CPU, Locking(c) PROVE LockInv'
  BY <1>1, LockSteps, RestKept DEF Locking, LockInv
<1>2. CASE Smi /\ UNCHANGED <<storeVars, logVars, service>>
  BY <1>2, SmiStep
<1>3. CASE UNCHANGED smmVars
  BY <1>3, RestKept DEF smmVars, handlerVars, LockInv, HandlerTypeOK, Exclusive, Serving
<1> QED BY <1>1, <1>2, <1>3, ServeStep, WorkStep, DoneStep, ResetStep DEF Next, Processor

(* The inductive invariant of the processors in SMM: smm_handler_start().  *)
THEOREM LockInvariant == Spec => []LockInv
BY InitLock, NextLock, PTL DEF Spec

(* One processor at a time serves, the lock tells that it does, and only   *)
(* while one works may the flash be in use: smi_obtain_lock().             *)
THEOREM OneServes == Spec => []OneServer
<1>1. LockInv => OneServer
  <2> SUFFICES ASSUME LockInv PROVE OneServer
    OBVIOUS
  <2> DEFINE serving == {c \in CPU : cpu[c] \in {"serve", "work"}}
  <2>1. Cardinality(serving) <= 1
    <3>1. CASE serving = {}
      BY <3>1, FS_EmptySet
    <3>2. CASE serving # {}
      <4>1. PICK x \in serving : TRUE
        BY <3>2
      <4>2. serving = {x}
        BY <4>1 DEF LockInv, Exclusive, Serving
      <4>3. Cardinality({x}) = 1
        BY FS_Singleton
      <4> QED BY <4>2, <4>3
    <3> QED BY <3>1, <3>2
  <2>2. smi_handler_status = "SMI_LOCKED" <=> serving # {}
    BY DEF LockInv, Exclusive, Serving
  <2>3. ~Quiet => \E c \in serving : cpu[c] = "work" /\ ~do_driver_init
    BY DEF LockInv, Exclusive, AtRest
  <2> QED BY <2>1, <2>2, <2>3 DEF OneServer
<1> QED BY <1>1, LockInvariant, PTL

(* A processor that waited goes back to the interrupted system only when   *)
(* both stores are at rest and nobody works: the loop on                   *)
(* smi_handler_status in smm_handler_start().                              *)
THEOREM LeavesWhenDone == Spec => HeldUntilDone
<1> DEFINE Left(c) == cpu[c] = "spin" /\ cpu'[c] = "out"
           Free == Quiet' /\ \A d \in CPU : cpu'[d] # "work"
<1>1. ASSUME LockInv, Next, NEW c \in CPU, Left(c) PROVE Free
  <2>1. ASSUME NEW d \in CPU, Locking(d) PROVE Free
    <3>1. d = c /\ LeaveSpin(d)
      BY <1>1, <2>1 DEF Locking, HandlerStep, Enter, ObtainLock, LeaveSpin, SetEos, Move,
                        LockInv, HandlerTypeOK
    <3>2. \A e \in CPU : ~Serving(e)
      BY <1>1, <3>1 DEF LeaveSpin, MayLeave, LockInv, Exclusive
    <3>3. Quiet
      BY <1>1, <3>2 DEF LockInv, AtRest, Serving
    <3>4. UNCHANGED <<op, sync, request>>
      BY <2>1 DEF Locking, storeVars, logVars
    <3> QED BY <1>1, <3>1, <3>2, <3>3, <3>4
            DEF LeaveSpin, Move, LockInv, HandlerTypeOK, Serving, Quiet, Idle
  <2>2. ASSUME NEW d \in CPU, Serve(d) \/ Work(d) \/ Done(d) PROVE FALSE
    BY <1>1, <2>2 DEF Serve, Work, Done, BeginWork, ReleaseLock, Move, handlerVars,
                      LockInv, HandlerTypeOK
  <2>3. CASE Smi
    BY <1>1, <2>3 DEF Smi
  <2>4. CASE Reset
    BY <1>1, <2>4, ResetStep
  <2> QED BY <1>1, <2>1, <2>2, <2>3, <2>4 DEF Next, Processor
<1>2. LockInv /\ [Next]_smmVars
        => [\A c \in CPU : Left(c) => Free]_cpu
  <2> SUFFICES ASSUME LockInv, [Next]_smmVars, NEW c \in CPU, Left(c) PROVE Free
    OBVIOUS
  <2>1. CASE Next
    BY <2>1, <1>1
  <2>2. CASE UNCHANGED smmVars
    BY <2>2 DEF smmVars, handlerVars
  <2> QED BY <2>1, <2>2
<1> QED BY <1>2, LockInvariant, PTL DEF Spec, HeldUntilDone

-----------------------------------------------------------------------------
(* Induction, for what is defined by recursion in the two services.        *)

(* A set of natural numbers that is not empty has a least element.         *)
LEMMA Least ==
    ASSUME NEW S, S \subseteq Nat, S # {}
    PROVE  \E m \in S : \A k \in S : m <= k
<1> DEFINE R == OpToRel(<, Nat)
<1>1. IsWellFoundedOn(R, Nat)
  BY NatLessThanWellFounded
<1>2. \A k, m \in Nat : k < m => <<k, m>> \in R
  BY DEF OpToRel
<1> HIDE DEF R
<1>3. PICK m \in S : \A k \in S : <<k, m>> \notin R
  BY <1>1, WFMin
<1>4. ASSUME NEW k \in S PROVE m <= k
  <2>1. m \in Nat /\ k \in Nat
    OBVIOUS
  <2>2. ~(k < m)
    BY <1>2, <1>3, <2>1
  <2> QED
    BY <2>1, <2>2
<1> QED
  BY <1>4

(* Induction, for a set instead of a predicate.                            *)
LEMMA Induct ==
    ASSUME NEW S, 0 \in S, \A n \in Nat : n \in S => n + 1 \in S
    PROVE  Nat \subseteq S
<1> SUFFICES ASSUME Nat \ S # {} PROVE FALSE
  OBVIOUS
<1>1. PICK m \in Nat \ S : \A k \in Nat \ S : m <= k
  BY Least
<1>2. m # 0 /\ m - 1 \in Nat /\ m - 1 \notin Nat \ S
  BY <1>1
<1> QED
  BY <1>1, <1>2

-----------------------------------------------------------------------------
(* End(es) is a fold: it takes the largest index off the set of indices    *)
(* until nothing is left.  Fold is one step of it, for a function that     *)
(* does the rest.                                                          *)
Fold(es, g) ==
    [s \in SUBSET DOMAIN es |->
        IF s = {} THEN Header ELSE g[s \ {Max(s)}] + es[Max(s)].len]

Sums(es) == CHOOSE g : g = Fold(es, g)

LEMMA EndFolds == ASSUME NEW es PROVE End(es) = Sums(es)[DOMAIN es]
BY DEF End, FoldLeft, MapThenFoldSet, Fold, Sums

LEMMA MaxIs ==
    ASSUME NEW s \in SUBSET Nat, NEW k \in s, \A i \in s : i <= k
    PROVE  Max(s) = k
<1>1. \E x \in s : \A y \in s : x >= y
  OBVIOUS
<1>2. Max(s) \in s /\ \A y \in s : Max(s) >= y
  <2>1. Max(s) = CHOOSE x \in s : \A y \in s : x >= y
    BY DEF Max
  <2> QED
    BY <1>1, <2>1
<1>3. Max(s) \in Nat /\ k \in Nat /\ Max(s) <= k /\ Max(s) >= k
  BY <1>2
<1> QED
  BY <1>3

LEMMA MaxOf ==
    ASSUME NEW k \in Nat, NEW s \in SUBSET (1..k + 1), s # {}
    PROVE  Max(s) \in s /\ s \ {Max(s)} \subseteq 1..k
<1>1. PICK m \in {k + 2 - i : i \in s} : \A j \in {k + 2 - i : i \in s} : m <= j
  <2>1. \A i \in s : i \in 1..k + 1 /\ k + 2 - i \in Nat
    OBVIOUS
  <2>2. {k + 2 - i : i \in s} \subseteq Nat /\ {k + 2 - i : i \in s} # {}
    BY <2>1
  <2> QED
    BY <2>2, Least
<1>2. PICK x \in s : m = k + 2 - x
  BY <1>1
<1>3. ASSUME NEW i \in s PROVE i <= x
  <2>1. m <= k + 2 - i
    BY <1>1
  <2> QED
    BY <1>2, <2>1
<1>4. Max(s) = x
  BY <1>3, MaxIs
<1> QED
  BY <1>3, <1>4

(* The fold ends: it is a function.                                        *)
LEMMA SumsDefined ==
    ASSUME NEW es, NEW n \in Nat, DOMAIN es = 1..n
    PROVE  Sums(es) = Fold(es, Sums(es))
<1> DEFINE Right(g, k) == \A s \in SUBSET (1..k) : g[s] = Fold(es, g)[s]
           D == {k \in Nat : k <= n => \E g : Right(g, k)}
<1>1. 0 \in D
  <2> DEFINE g == [s \in SUBSET DOMAIN es |-> Header]
  <2>1. ASSUME NEW s \in SUBSET (1..0) PROVE g[s] = Fold(es, g)[s]
    <3>1. s = {} /\ s \in SUBSET DOMAIN es
      OBVIOUS
    <3> QED
      BY <3>1 DEF Fold
  <2>2. Right(g, 0)
    BY <2>1
  <2> HIDE DEF Right
  <2> QED
    BY <2>2
<1>2. ASSUME NEW k \in Nat, k \in D PROVE k + 1 \in D
  <2> SUFFICES ASSUME k + 1 <= n PROVE \E g : Right(g, k + 1)
    OBVIOUS
  <2>0. k <= n
    OBVIOUS
  <2> HIDE DEF Right
  <2>1. PICK g : Right(g, k)
    BY <1>2, <2>0
  <2> USE DEF Right
  <2> DEFINE h == Fold(es, g)
  <2>a. h = Fold(es, g)
    OBVIOUS
  <2> HIDE DEF h
  <2>2. ASSUME NEW s \in SUBSET (1..k + 1) PROVE h[s] = Fold(es, h)[s]
    <3>0. s \in SUBSET DOMAIN es
      OBVIOUS
    <3>1. CASE s = {}
      BY <2>a, <3>0, <3>1 DEF Fold
    <3>2. CASE s # {}
      <4>1. Max(s) \in s /\ s \ {Max(s)} \subseteq 1..k
        BY <3>2, MaxOf
      <4>2. PICK r \in SUBSET (1..k) : r = s \ {Max(s)}
        BY <4>1
      <4>3. g[r] = h[r]
        BY <2>1, <2>a
      <4> QED
        BY <2>a, <3>0, <3>2, <4>2, <4>3 DEF Fold
    <3> QED
      BY <3>1, <3>2
  <2>3. Right(h, k + 1)
    BY <2>2
  <2> QED
    BY <2>3
<1>3. n \in D
  <2> HIDE DEF D
  <2> QED
    BY <1>1, <1>2, Induct
<1>4. PICK g : Right(g, n)
  <2> HIDE DEF Right
  <2>1. n <= n
    OBVIOUS
  <2> QED
    BY <1>3, <2>1
<1> DEFINE h == Fold(es, g)
<1>5. \A s \in SUBSET (1..n) : g[s] = h[s]
  BY <1>4
<1>6. h = Fold(es, h)
  <2>1. ASSUME NEW s \in SUBSET DOMAIN es, s # {} PROVE g[s \ {Max(s)}] = h[s \ {Max(s)}]
    BY <1>5
  <2>2. Fold(es, g) = Fold(es, h)
    <3> HIDE DEF h
    <3> QED
      BY <2>1 DEF Fold
  <2> QED
    BY <2>2
<1> QED
  BY <1>6 DEF Sums

LEMMA SumsStep ==
    ASSUME NEW es, NEW n \in Nat, DOMAIN es = 1..n
    PROVE  /\ Sums(es)[1..0] = Header
           /\ \A k \in 0..n - 1 : Sums(es)[1..k + 1] = Sums(es)[1..k] + es[k + 1].len
<1>1. Sums(es) = Fold(es, Sums(es))
  BY SumsDefined
<1>2. Sums(es)[1..0] = Header
  <2>1. 1..0 = {} /\ {} \in SUBSET DOMAIN es
    OBVIOUS
  <2>2. Fold(es, Sums(es))[{}] = Header
    BY <2>1 DEF Fold
  <2> QED
    BY <1>1, <2>1, <2>2
<1>3. ASSUME NEW k \in 0..n - 1
      PROVE  Sums(es)[1..k + 1] = Sums(es)[1..k] + es[k + 1].len
  <2>1. PICK s \in SUBSET DOMAIN es : s = 1..k + 1
    OBVIOUS
  <2>2. s # {} /\ Max(s) = k + 1 /\ s \ {k + 1} = 1..k
    BY <2>1, MaxIs
  <2>3. Fold(es, Sums(es))[s] = Sums(es)[1..k] + es[k + 1].len
    BY <2>2 DEF Fold
  <2> QED
    BY <1>1, <2>1, <2>3
<1> QED
  BY <1>2, <1>3

-----------------------------------------------------------------------------
(* What End computes.                                                      *)
Logged == Event \cup {LogClear}

LEMMA SumsAgree ==
    ASSUME NEW es \in Seq(Logged), NEW fs \in Seq(Logged), NEW n \in Nat,
           n <= Len(es), n <= Len(fs), \A i \in 1..n : es[i] = fs[i]
    PROVE  Sums(es)[1..n] = Sums(fs)[1..n]
<1> DEFINE D == {k \in Nat : k <= n => Sums(es)[1..k] = Sums(fs)[1..k]}
<1>0. DOMAIN es = 1..Len(es) /\ DOMAIN fs = 1..Len(fs)
  OBVIOUS
<1>1. 0 \in D
  BY <1>0, SumsStep
<1>2. ASSUME NEW k \in Nat, k \in D PROVE k + 1 \in D
  <2> SUFFICES ASSUME k + 1 <= n PROVE Sums(es)[1..k + 1] = Sums(fs)[1..k + 1]
    OBVIOUS
  <2>1. k \in 0..Len(es) - 1 /\ k \in 0..Len(fs) - 1 /\ k + 1 \in 1..n /\ k <= n
    OBVIOUS
  <2>2. Sums(es)[1..k + 1] = Sums(es)[1..k] + es[k + 1].len
    BY <1>0, <2>1, SumsStep
  <2>3. Sums(fs)[1..k + 1] = Sums(fs)[1..k] + fs[k + 1].len
    BY <1>0, <2>1, SumsStep
  <2>4. Sums(es)[1..k] = Sums(fs)[1..k] /\ es[k + 1] = fs[k + 1]
    BY <1>2, <2>1
  <2> QED
    BY <2>2, <2>3, <2>4
<1>3. n \in D
  <2> HIDE DEF D
  <2> QED
    BY <1>1, <1>2, Induct
<1> QED
  BY <1>3

LEMMA EndEmpty == End(<<>>) = Header
<1>1. DOMAIN <<>> = 1..0
  OBVIOUS
<1> QED
  BY <1>1, EndFolds, SumsStep

LEMMA EndAppend ==
    ASSUME NEW es \in Seq(Logged), NEW e \in Logged
    PROVE  End(Append(es, e)) = End(es) + e.len
<1> DEFINE fs == Append(es, e)   n == Len(es)
<1>1. /\ fs \in Seq(Logged) /\ Len(fs) = n + 1 /\ n \in Nat /\ fs[n + 1] = e
      /\ \A i \in 1..n : fs[i] = es[i]
      /\ DOMAIN fs = 1..n + 1 /\ DOMAIN es = 1..n
  OBVIOUS
<1> HIDE DEF fs, n
<1>2. n \in 0..(n + 1) - 1 /\ n + 1 \in Nat /\ n <= Len(es) /\ n <= Len(fs)
  BY <1>1 DEF n
<1>3. Sums(fs)[1..n + 1] = Sums(fs)[1..n] + e.len
  BY <1>1, <1>2, SumsStep
<1>4. Sums(fs)[1..n] = Sums(es)[1..n]
  BY <1>1, <1>2, SumsAgree
<1>5. End(fs) = Sums(fs)[1..n + 1] /\ End(es) = Sums(es)[1..n]
  BY <1>1, EndFolds
<1> QED
  BY <1>3, <1>4, <1>5 DEF fs

LEMMA LengthsPositive ==
    /\ \A e \in Logged : e.len \in Nat /\ 1 <= e.len /\ e.len <= MaxEvent
    /\ Header \in Nat /\ 1 <= Header /\ MaxEvent \in Nat /\ 1 <= MaxEvent
    /\ LogClear \in Logged
<1>1. \A e \in Logged : e.len \in 1..MaxEvent
  BY EventAssumption DEF Logged
<1> QED
  BY <1>1, EventAssumption DEF Logged

LEMMA LastOff ==
    ASSUME NEW es \in Seq(Logged), NEW n \in Nat, Len(es) = n + 1
    PROVE  \E fs \in Seq(Logged), e \in Logged : es = Append(fs, e) /\ Len(fs) = n
<1>1. es # <<>>
  BY EmptySeq
<1>2. PICK fs \in Seq(Logged), e \in Logged : es = Append(fs, e)
  BY <1>1, SequenceEmptyOrAppend
<1>3. Len(es) = Len(fs) + 1 /\ Len(fs) \in Nat
  BY <1>2, AppendProperties
<1> QED
  BY <1>2, <1>3

LEMMA EndIsNat ==
    ASSUME NEW es \in Seq(Logged)
    PROVE  End(es) \in Nat /\ End(es) >= Header
<1> DEFINE D == {k \in Nat : \A fs \in Seq(Logged) :
                    Len(fs) = k => End(fs) \in Nat /\ End(fs) >= Header}
<1>1. 0 \in D
  BY EndEmpty, LengthsPositive
<1>2. ASSUME NEW k \in Nat, k \in D PROVE k + 1 \in D
  <2> SUFFICES ASSUME NEW fs \in Seq(Logged), Len(fs) = k + 1
               PROVE  End(fs) \in Nat /\ End(fs) >= Header
    OBVIOUS
  <2>1. PICK gs \in Seq(Logged), e \in Logged : fs = Append(gs, e) /\ Len(gs) = k
    BY LastOff
  <2>2. End(gs) \in Nat /\ End(gs) >= Header
    BY <1>2, <2>1
  <2> QED
    BY <2>1, <2>2, EndAppend, LengthsPositive
<1>3. Len(es) \in D
  <2> HIDE DEF D
  <2> QED
    BY <1>1, <1>2, Induct
<1> QED
  BY <1>3

LEMMA EndConcat ==
    ASSUME NEW es \in Seq(Logged), NEW fs \in Seq(Logged)
    PROVE  End(es \o fs) = End(es) + End(fs) - Header
<1> DEFINE D == {k \in Nat : \A gs \in Seq(Logged) :
                    Len(gs) = k => End(es \o gs) = End(es) + End(gs) - Header}
<1>1. 0 \in D
  <2>1. ASSUME NEW gs \in Seq(Logged), Len(gs) = 0
        PROVE  End(es \o gs) = End(es) + End(gs) - Header
    <3>1. gs = <<>>
      BY <2>1, EmptySeq
    <3>2. es \o gs = es
      BY <3>1, ConcatEmptySeq
    <3> QED
      BY <3>1, <3>2, EndEmpty, EndIsNat, LengthsPositive
  <2> QED
    BY <2>1
<1>2. ASSUME NEW k \in Nat, k \in D PROVE k + 1 \in D
  <2> SUFFICES ASSUME NEW gs \in Seq(Logged), Len(gs) = k + 1
               PROVE  End(es \o gs) = End(es) + End(gs) - Header
    OBVIOUS
  <2>1. PICK hs \in Seq(Logged), e \in Logged : gs = Append(hs, e) /\ Len(hs) = k
    BY LastOff
  <2>2. End(es \o hs) = End(es) + End(hs) - Header
    BY <1>2, <2>1
  <2>3. es \o gs = Append(es \o hs, e) /\ es \o hs \in Seq(Logged)
    BY <2>1
  <2>4. End(es \o gs) = End(es \o hs) + e.len /\ End(gs) = End(hs) + e.len
    BY <2>1, <2>3, EndAppend
  <2>5. End(es) \in Nat /\ End(hs) \in Nat
    BY EndIsNat
  <2>6. e.len \in Nat /\ Header \in Nat
    BY LengthsPositive
  <2>7. PICK a \in Nat, b \in Nat, l \in Nat, h \in Nat :
           a = End(es) /\ b = End(hs) /\ l = e.len /\ h = Header
    BY <2>5, <2>6
  <2>8. End(es \o gs) = (a + b - h) + l /\ End(gs) = b + l
    BY <2>2, <2>4, <2>7
  <2>9. (a + b - h) + l = a + (b + l) - h
    OBVIOUS
  <2> QED
    BY <2>7, <2>8, <2>9
<1>3. Len(fs) \in D
  <2> HIDE DEF D
  <2> QED
    BY <1>1, <1>2, Induct
<1> QED
  BY <1>3

(* A part of the log ends behind the part before it.                       *)
LEMMA EndSplits ==
    ASSUME NEW es \in Seq(Logged), NEW k \in 0..Len(es)
    PROVE  /\ SubSeq(es, 1, k) \in Seq(Logged) /\ SubSeq(es, k + 1, Len(es)) \in Seq(Logged)
           /\ es = SubSeq(es, 1, k) \o SubSeq(es, k + 1, Len(es))
           /\ End(es) = End(SubSeq(es, 1, k)) + End(SubSeq(es, k + 1, Len(es))) - Header
<1>1. SubSeq(es, 1, k) \in Seq(Logged) /\ SubSeq(es, k + 1, Len(es)) \in Seq(Logged)
  OBVIOUS
<1>2. es = SubSeq(es, 1, k) \o SubSeq(es, k + 1, Len(es))
  <2>1. 1 \in 1..Len(es) + 1 /\ k \in 1 - 1..Len(es) /\ Len(es) \in k..Len(es)
    OBVIOUS
  <2> QED
    BY <2>1, ConcatAdjacentSubSeq, SubSeqFull
<1>3. End(SubSeq(es, 1, k) \o SubSeq(es, k + 1, Len(es)))
        = End(SubSeq(es, 1, k)) + End(SubSeq(es, k + 1, Len(es))) - Header
  BY <1>1, EndConcat
<1> QED
  BY <1>1, <1>2, <1>3

LEMMA PrefixOfPrefix ==
    ASSUME NEW es \in Seq(Logged), NEW n \in 0..Len(es), NEW k \in 0..n
    PROVE  SubSeq(SubSeq(es, 1, n), 1, k) = SubSeq(es, 1, k)
<1>1. Len(SubSeq(es, 1, n)) = n /\ SubSeq(es, 1, n) \in Seq(Logged)
  OBVIOUS
<1>2. \A i \in 1..k : SubSeq(SubSeq(es, 1, n), 1, k)[i] = SubSeq(es, 1, k)[i]
  OBVIOUS
<1>3. Len(SubSeq(SubSeq(es, 1, n), 1, k)) = k /\ Len(SubSeq(es, 1, k)) = k
  BY <1>1
<1>4. SubSeq(SubSeq(es, 1, n), 1, k) \in Seq(Logged) /\ SubSeq(es, 1, k) \in Seq(Logged)
  BY <1>1
<1> QED
  BY <1>2, <1>3, <1>4, SeqEqual

(* The events get further and further into the flash.                      *)
LEMMA PrefixGrows ==
    ASSUME NEW es \in Seq(Logged), NEW n \in 0..Len(es), NEW k \in 0..n
    PROVE  /\ End(SubSeq(es, 1, k)) \in Nat /\ End(SubSeq(es, 1, n)) \in Nat
           /\ End(SubSeq(es, 1, k)) <= End(SubSeq(es, 1, n))
           /\ k < n => End(SubSeq(es, 1, k)) < End(SubSeq(es, 1, n))
<1> DEFINE ps == SubSeq(es, 1, n)   rest == SubSeq(ps, k + 1, n)
<1>1. ps \in Seq(Logged) /\ Len(ps) = n
  OBVIOUS
<1>2. SubSeq(ps, 1, k) = SubSeq(es, 1, k)
  BY PrefixOfPrefix
<1> HIDE DEF ps
<1>3. rest \in Seq(Logged) /\ Len(rest) = n - k
  BY <1>1
<1>4. /\ SubSeq(ps, 1, k) \in Seq(Logged)
      /\ End(ps) = End(SubSeq(ps, 1, k)) + End(rest) - Header
  BY <1>1, EndSplits
<1> HIDE DEF rest
<1>5. k < n => End(rest) > Header
  <2> SUFFICES ASSUME k < n PROVE End(rest) > Header
    OBVIOUS
  <2>1. n - k - 1 \in Nat /\ Len(rest) = (n - k - 1) + 1
    BY <1>3
  <2>2. PICK gs \in Seq(Logged), e \in Logged : rest = Append(gs, e)
    BY <1>3, <2>1, LastOff
  <2>3. End(rest) = End(gs) + e.len
    BY <2>2, EndAppend
  <2>4. End(gs) \in Nat /\ End(gs) >= Header /\ e.len \in Nat /\ e.len >= 1
    BY EndIsNat, LengthsPositive
  <2> QED
    BY <2>3, <2>4, LengthsPositive
<1>6. End(SubSeq(ps, 1, k)) \in Nat /\ End(rest) \in Nat /\ End(rest) >= Header /\ End(ps) \in Nat
  BY <1>1, <1>3, <1>4, EndIsNat
<1>7. End(SubSeq(ps, 1, k)) <= End(ps) /\ (k < n => End(SubSeq(ps, 1, k)) < End(ps))
  BY <1>4, <1>5, <1>6, LengthsPositive
<1> QED
  BY <1>2, <1>6, <1>7 DEF ps

-----------------------------------------------------------------------------
(* The events that begin up to some offset are the first ones.             *)
LEMMA FirstOnes ==
    ASSUME NEW es \in Seq(Logged), NEW x \in Int
    PROVE  \E d \in 0..Len(es) : \A i \in 1..Len(es) : Begin(es, i) <= x <=> i <= d
<1> DEFINE late == {i \in 1..Len(es) : Begin(es, i) > x} \cup {Len(es) + 1}
<1>1. late \subseteq Nat /\ late # {}
  OBVIOUS
<1>2. PICK m \in late : \A i \in late : m <= i
  BY <1>1, Least
<1>3. m \in 1..Len(es) + 1 /\ m - 1 \in 0..Len(es)
  BY <1>2
<1>4. ASSUME NEW i \in 1..Len(es) PROVE Begin(es, i) <= x <=> i <= m - 1
  <2>0. i - 1 \in 0..Len(es) /\ Begin(es, i) \in Nat
    BY PrefixGrows DEF Begin
  <2>1. CASE i < m
    <3>1. i \notin late
      BY <1>2, <1>3, <2>1
    <3> QED
      BY <1>3, <2>0, <2>1, <3>1
  <2>2. CASE i >= m
    <3>1. m \in 1..Len(es) /\ Begin(es, m) > x
      BY <1>2, <1>3, <2>2
    <3>2. m - 1 \in 0..i - 1
      BY <1>3, <2>2
    <3>3. Begin(es, m) \in Nat /\ Begin(es, m) <= Begin(es, i)
      BY <2>0, <3>2, PrefixGrows DEF Begin
    <3> QED
      BY <1>3, <2>0, <2>2, <3>1, <3>3
  <2> QED
    BY <1>3, <2>1, <2>2
<1> QED
  BY <1>3, <1>4

(* elog_do_shrink() drops the first events.                                *)
LEMMA ShrunkIs ==
    ASSUME NEW es \in Seq(Logged)
    PROVE  \E d \in 0..Len(es) :
               /\ \A i \in 1..Len(es) : Begin(es, i) <= ShrinkSize <=> i <= d
               /\ Shrunk(es) = SubSeq(es, d + 1, Len(es))
<1>1. PICK d \in 0..Len(es) : \A i \in 1..Len(es) : Begin(es, i) <= ShrinkSize <=> i <= d
  BY FirstOnes, ShrinkAssumption
<1>2. {i \in DOMAIN es : Begin(es, i) <= ShrinkSize} = 1..d
  BY <1>1
<1>3. Cardinality(1..d) = d
  BY FS_Interval
<1> QED
  BY <1>1, <1>2, <1>3 DEF Shrunk

LEMMA Count ==
    ASSUME NEW a \in Nat, NEW b \in Nat, a <= b
    PROVE  Cardinality(a + 1..b) = b - a
<1>1. PICK c \in Int : c = a + 1
  OBVIOUS
<1>2. Cardinality(c..b) = IF c > b THEN 0 ELSE b - c + 1
  BY FS_Interval
<1> QED
  BY <1>1, <1>2

(* elog_nv_write() writes the events from the offset on.                   *)
LEMMA WrittenIs ==
    ASSUME mirror \in Seq(Logged), nv_last_write \in Int, NEW n \in 0..Len(mirror)
    PROVE  \E d \in 0..Len(mirror), u \in 0..Len(mirror) :
               /\ d + u <= Len(mirror) /\ (n = Len(mirror) => d + u = n)
               /\ \A i \in 1..Len(mirror) : Begin(mirror, i) >= nv_last_write <=> i > d
               /\ Written(n) =
                    LET at == IF nv.state = "blank" THEN 0 ELSE End(nv.events)
                    IN IF nv.state = "junk" \/ at # nv_last_write THEN Junk
                       ELSE Log(nv.events \o SubSeq(mirror, d + 1, d + u))
<1> DEFINE L == Len(mirror)
           new == {i \in DOMAIN mirror : Begin(mirror, i) >= nv_last_write}
           upto == {i \in new : i <= n}
<1>1. PICK d \in 0..L : \A i \in 1..L : Begin(mirror, i) <= nv_last_write - 1 <=> i <= d
  <2>1. nv_last_write - 1 \in Int
    OBVIOUS
  <2> QED
    BY <2>1, FirstOnes
<1>2. ASSUME NEW i \in 1..L PROVE Begin(mirror, i) >= nv_last_write <=> i > d
  <2>1. Begin(mirror, i) \in Nat
    BY PrefixGrows DEF Begin
  <2> QED
    BY <1>1, <2>1
<1>3. new = d + 1..L
  BY <1>2
<1>4. Cardinality(new) = L - d
  <2>1. L \in Nat /\ d \in Nat /\ d <= L
    OBVIOUS
  <2>2. Cardinality(d + 1..L) = L - d
    BY <2>1, Count
  <2> QED
    BY <1>3, <2>2
<1> DEFINE u == IF n >= d THEN n - d ELSE 0
<1>5. upto = d + 1..d + u
  BY <1>3
<1>6. Cardinality(upto) = u
  <2>1. u \in Nat /\ d \in Nat
    OBVIOUS
  <2> HIDE DEF u, upto
  <2>2. d + u \in Nat /\ d <= d + u /\ d + u - d = u
    BY <2>1
  <2>3. Cardinality(d + 1..d + u) = d + u - d
    BY <2>1, <2>2, Count
  <2> QED
    BY <1>5, <2>2, <2>3
<1>7. /\ u \in 0..L /\ d + u <= L /\ (n = L => d + u = n)
      /\ L - (L - d) + 1 = d + 1 /\ L - (L - d) + u = d + u
  OBVIOUS
<1> HIDE DEF u, new
<1>8. SubSeq(mirror, L - Cardinality(new) + 1, L - Cardinality(new) + Cardinality(upto))
        = SubSeq(mirror, d + 1, d + u)
  BY <1>4, <1>6, <1>7
<1> QED
  BY <1>2, <1>7, <1>8 DEF Written, new

-----------------------------------------------------------------------------
(* Room for the largest event and for the mark.                            *)
Roomy(es) == End(es) + MaxEvent + LogClear.len <= LogSize

LEMMA RoomyAtFirst == Roomy(<<>>) /\ <<LogClear>> \in Seq(Logged) /\ Roomy(<<LogClear>>)
<1>1. <<LogClear>> = Append(<<>>, LogClear) /\ <<>> \in Seq(Logged)
  OBVIOUS
<1>2. End(<<LogClear>>) = Header + LogClear.len
  BY <1>1, EndEmpty, EndAppend, LengthsPositive
<1>3. <<LogClear>> \in Seq(Logged)
  BY LengthsPositive
<1>4. LogClear.len \in Nat /\ LogClear.len <= MaxEvent
  BY LengthsPositive
<1> QED
  BY <1>2, <1>3, <1>4, EndEmpty, LengthsPositive, EventAssumption, ShrinkAssumption
     DEF Roomy, Reserved

LEMMA PartIs ==
    ASSUME NEW es \in Seq(Logged), NEW d \in Nat, NEW u \in Nat, d + u <= Len(es)
    PROVE  /\ SubSeq(es, d + 1, d + u) \in Seq(Logged)
           /\ End(SubSeq(es, d + 1, d + u)) \in Nat
           /\ End(SubSeq(es, 1, d)) \in Nat /\ End(SubSeq(es, 1, d + u)) \in Nat
           /\ End(SubSeq(es, d + 1, d + u))
                = End(SubSeq(es, 1, d + u)) - End(SubSeq(es, 1, d)) + Header
<1> DEFINE n == d + u   ps == SubSeq(es, 1, n)
<1>1. n \in 0..Len(es) /\ d \in 0..n
  OBVIOUS
<1>2. ps \in Seq(Logged) /\ Len(ps) = n
  BY <1>1
<1>3. SubSeq(ps, 1, d) = SubSeq(es, 1, d)
  BY <1>1, PrefixOfPrefix
<1>4. SubSeq(es, d + 1, n) \in Seq(Logged) /\ Len(SubSeq(es, d + 1, n)) = u
  BY <1>1
<1>5. SubSeq(ps, d + 1, n) = SubSeq(es, d + 1, n)
  <2>1. /\ SubSeq(ps, d + 1, n) \in Seq(Logged)
        /\ Len(SubSeq(ps, d + 1, n)) = u
        /\ \A i \in 1..u : SubSeq(ps, d + 1, n)[i] = SubSeq(es, d + 1, n)[i]
    BY <1>1
  <2> QED
    BY <1>4, <2>1, SeqEqual
<1> HIDE DEF ps
<1>6. /\ SubSeq(ps, 1, d) \in Seq(Logged) /\ SubSeq(ps, d + 1, n) \in Seq(Logged)
      /\ End(ps) = End(SubSeq(ps, 1, d)) + End(SubSeq(ps, d + 1, n)) - Header
  BY <1>1, <1>2, EndSplits
<1> HIDE DEF n
<1>7. End(ps) \in Nat /\ End(SubSeq(ps, 1, d)) \in Nat /\ End(SubSeq(ps, d + 1, n)) \in Nat
  BY <1>2, <1>6, EndIsNat
<1>8. End(SubSeq(ps, d + 1, n)) = End(ps) - End(SubSeq(ps, 1, d)) + Header
  BY <1>6, <1>7, LengthsPositive
<1> QED
  BY <1>3, <1>4, <1>5, <1>7, <1>8 DEF ps, n

(* An event that fills the log does away with old ones, never with itself, *)
(* and leaves room for the next.                                           *)
LEMMA AddShrinks ==
    ASSUME NEW es \in Seq(Logged), NEW e \in Event, Roomy(es),
           End(Append(es, e)) >= Threshold
    PROVE  \E n \in 1..Len(es) :
               LET with == Append(es, e)
                   left == SubSeq(with, n + 1, Len(with))
               IN /\ Append(Shrunk(with), LogClear) = left \o <<LogClear>>
                  /\ left \o <<LogClear>> \in Seq(Logged)
                  /\ Roomy(left \o <<LogClear>>)
<1> DEFINE with == Append(es, e)   L == Len(es)
<1>1. /\ e \in Logged /\ with \in Seq(Logged) /\ L \in Nat /\ Len(with) = L + 1
      /\ SubSeq(with, 1, L) = es
  <2>1. e \in Logged
    BY DEF Logged
  <2>2. SubSeq(with, 1, L) = es
    <3>1. Len(SubSeq(with, 1, L)) = L /\ SubSeq(with, 1, L) \in Seq(Logged)
      BY <2>1
    <3>2. \A i \in 1..L : SubSeq(with, 1, L)[i] = es[i]
      BY <2>1
    <3> QED
      BY <3>1, <3>2, SeqEqual
  <2> QED
    BY <2>1, <2>2
<1>2. /\ End(with) = End(es) + e.len /\ End(es) \in Nat /\ End(with) \in Nat
      /\ e.len \in Nat /\ e.len <= MaxEvent /\ MaxEvent \in Nat /\ Header \in Nat
      /\ LogClear \in Logged /\ LogClear.len \in Nat /\ LogClear.len <= MaxEvent
      /\ ShrinkSize \in Nat /\ LogSize \in Nat
  BY <1>1, EndAppend, EndIsNat, LengthsPositive, ShrinkAssumption
<1> HIDE DEF with, L
<1>3. PICK d \in 0..L + 1 : /\ \A i \in 1..L + 1 : Begin(with, i) <= ShrinkSize <=> i <= d
                            /\ Shrunk(with) = SubSeq(with, d + 1, Len(with))
  BY <1>1, ShrunkIs
<1>4. Begin(with, 1) = Header
  <2>1. SubSeq(with, 1, 1 - 1) = <<>>
    BY SubSeqEmpty
  <2> QED
    BY <2>1, EndEmpty DEF Begin
<1>5. Begin(with, L + 1) = End(es)
  <2>1. (L + 1) - 1 = L
    BY <1>1
  <2> QED
    BY <1>1, <2>1 DEF Begin
<1>6. d >= 1
  BY <1>1, <1>2, <1>3, <1>4, EventAssumption, ShrinkAssumption DEF Reserved
<1>7. d <= L
  <2>1. End(es) >= LogSize - 3 * MaxEvent
    BY <1>2 DEF Threshold, Reserved, with
  <2>2. End(es) > ShrinkSize
    BY <1>2, <2>1, ShrinkAssumption
  <2>3. L + 1 \in 1..L + 1 /\ ~(L + 1 <= d)
    BY <1>1, <1>2, <1>3, <1>5, <2>2
  <2> QED
    BY <1>1, <1>3, <2>3
<1> DEFINE left == SubSeq(with, d + 1, Len(with))
<1>8. d \in 0..Len(with) /\ d + 1 \in 1..L + 1 /\ d + 1 - 1 = d
  BY <1>1, <1>7
<1>9. /\ left \in Seq(Logged) /\ SubSeq(with, 1, d) \in Seq(Logged)
      /\ End(with) = End(SubSeq(with, 1, d)) + End(left) - Header
  BY <1>1, <1>8, EndSplits
<1>10. End(SubSeq(with, 1, d)) > ShrinkSize /\ End(SubSeq(with, 1, d)) \in Nat /\ End(left) \in Nat
  <2>1. ~(Begin(with, d + 1) <= ShrinkSize)
    BY <1>3, <1>8
  <2>2. Begin(with, d + 1) = End(SubSeq(with, 1, d))
    BY <1>8 DEF Begin
  <2>3. End(SubSeq(with, 1, d)) \in Nat /\ End(left) \in Nat
    BY <1>9, EndIsNat
  <2> QED
    BY <1>2, <2>1, <2>2, <2>3
<1> HIDE DEF left
<1>11. /\ Append(left, LogClear) = left \o <<LogClear>> /\ Append(left, LogClear) \in Seq(Logged)
       /\ End(Append(left, LogClear)) = End(left) + LogClear.len
  BY <1>2, <1>9, EndAppend, AppendIsConcat
<1>12. End(left) + LogClear.len + MaxEvent + LogClear.len <= LogSize
  <2>1. End(with) <= LogSize - LogClear.len
    BY <1>2 DEF Roomy
  <2>2. End(left) <= End(with) + Header - ShrinkSize
    BY <1>2, <1>9, <1>10
  <2>3. ShrinkSize >= MaxEvent + MaxEvent /\ Header + LogClear.len <= MaxEvent
    BY <1>2, ShrinkAssumption, EventAssumption DEF Reserved
  <2>4. PICK a \in Nat, b \in Nat, c \in Nat :
           a = End(left) /\ b = End(with) /\ c = LogClear.len
    BY <1>2, <1>10
  <2>5. MaxEvent \in Nat /\ Header \in Nat /\ ShrinkSize \in Nat /\ LogSize \in Nat
    BY <1>2
  <2>6. /\ b <= LogSize - c /\ a <= b + Header - ShrinkSize
        /\ ShrinkSize >= MaxEvent + MaxEvent /\ Header + c <= MaxEvent
    BY <2>1, <2>2, <2>3, <2>4
  <2>7. a + c + MaxEvent + c <= LogSize
    BY <2>5, <2>6
  <2> QED
    BY <2>4, <2>7
<1>13. Roomy(left \o <<LogClear>>)
  BY <1>11, <1>12 DEF Roomy
<1>14. d \in 1..Len(es)
  BY <1>1, <1>3, <1>6, <1>7 DEF L
<1> QED
  BY <1>3, <1>11, <1>13, <1>14 DEF left, with

LEMMA AddFits ==
    ASSUME NEW es \in Seq(Logged), NEW e \in Event, ~(End(Append(es, e)) >= Threshold)
    PROVE  Append(es, e) \in Seq(Logged) /\ Roomy(Append(es, e))
<1>1. e \in Logged /\ Append(es, e) \in Seq(Logged)
  BY DEF Logged
<1>2. End(Append(es, e)) \in Nat
  BY <1>1, EndIsNat
<1> QED
  BY <1>1, <1>2, LengthsPositive, ShrinkAssumption DEF Roomy, Threshold, Reserved

(* Nothing that is written, wholly or in part, is longer than the mirror,  *)
(* whatever was in flash.                                                  *)
Formed(v) == v = Blank \/ v = Junk \/ v = Log(v.events)
Kept(v) == Formed(v) /\ v.events \in Seq(Logged) /\ Roomy(v.events)

LEMMA WrittenKept ==
    ASSUME mirror \in Seq(Logged), nv_last_write \in Int, Roomy(mirror), Kept(nv),
           NEW n \in 0..Len(mirror)
    PROVE  Kept(Written(n))
<1>1. PICK d \in 0..Len(mirror), u \in 0..Len(mirror) :
         /\ d + u <= Len(mirror) /\ (n = Len(mirror) => d + u = n)
         /\ \A i \in 1..Len(mirror) : Begin(mirror, i) >= nv_last_write <=> i > d
         /\ Written(n) =
              LET at == IF nv.state = "blank" THEN 0 ELSE End(nv.events)
              IN IF nv.state = "junk" \/ at # nv_last_write THEN Junk
                 ELSE Log(nv.events \o SubSeq(mirror, d + 1, d + u))
  BY WrittenIs
<1>2. d \in Nat /\ u \in Nat
  BY <1>1
<1> DEFINE part == SubSeq(mirror, d + 1, d + u)
<1>3. /\ part \in Seq(Logged) /\ End(part) \in Nat
      /\ End(SubSeq(mirror, 1, d)) \in Nat /\ End(SubSeq(mirror, 1, d + u)) \in Nat
      /\ End(part) = End(SubSeq(mirror, 1, d + u)) - End(SubSeq(mirror, 1, d)) + Header
  BY <1>1, <1>2, PartIs
<1>4. End(SubSeq(mirror, 1, d + u)) <= End(mirror) /\ End(mirror) \in Nat
  <2>1. Len(mirror) \in 0..Len(mirror) /\ d + u \in 0..Len(mirror)
    BY <1>1, <1>2
  <2> QED
    BY <2>1, PrefixGrows, SubSeqFull
<1> HIDE DEF part
<1>5. CASE Written(n) = Junk
  BY <1>5, RoomyAtFirst DEF Kept, Formed, Junk
<1>6. CASE nv = Blank /\ nv_last_write = 0 /\ Written(n) = Log(nv.events \o part)
  <2>1. Written(n) = Log(part)
    BY <1>3, <1>6, ConcatEmptySeq DEF Blank
  <2>2. d = 0
    <3>1. CASE Len(mirror) = 0
      BY <1>1, <3>1
    <3>2. CASE Len(mirror) # 0
      <4>1. 1 \in 1..Len(mirror) /\ 0 \in 0..Len(mirror) /\ 1 - 1 = 0
        BY <3>2
      <4>2. Begin(mirror, 1) \in Nat
        BY <4>1, PrefixGrows DEF Begin
      <4> QED
        BY <1>1, <1>6, <4>1, <4>2
    <3> QED
      BY <3>1, <3>2
  <2>3. End(SubSeq(mirror, 1, d)) = Header
    <3>1. SubSeq(mirror, 1, 0) = <<>>
      BY SubSeqEmpty
    <3> QED
      BY <2>2, <3>1, EndEmpty
  <2>4. End(part) <= End(mirror)
    BY <1>3, <1>4, <2>3, LengthsPositive
  <2>5. End(part) \in Nat
    BY <1>3
  <2>6. Roomy(part)
    BY <1>4, <2>4, <2>5, LengthsPositive, ShrinkAssumption DEF Roomy
  <2> QED
    BY <1>3, <2>1, <2>6 DEF Kept, Formed, Log
<1>7. CASE nv = Log(nv.events) /\ End(nv.events) = nv_last_write /\ Written(n) = Log(nv.events \o part)
  <2>0. nv.events \in Seq(Logged) /\ End(nv.events) \in Nat
    BY EndIsNat DEF Kept
  <2>1. /\ nv.events \o part \in Seq(Logged)
        /\ End(nv.events \o part) = End(nv.events) + End(part) - Header
    BY <1>3, <2>0, EndConcat
  <2>2. Roomy(nv.events \o part)
    <3>1. CASE d < Len(mirror)
      <4>1. d + 1 \in 1..Len(mirror) /\ d + 1 > d /\ d + 1 - 1 = d
        BY <1>2, <3>1
      <4>2. Begin(mirror, d + 1) >= nv_last_write
        BY <1>1, <4>1
      <4>3. End(SubSeq(mirror, 1, d)) >= nv_last_write
        BY <4>1, <4>2 DEF Begin
      <4>h. Header \in Nat
        BY LengthsPositive
      <4>p. PICK a \in Nat, b \in Nat, c \in Nat, h \in Nat, m \in Nat, l \in Nat :
               /\ a = End(nv.events) /\ b = End(SubSeq(mirror, 1, d))
               /\ c = End(SubSeq(mirror, 1, d + u)) /\ h = Header /\ m = End(mirror)
               /\ l = End(part)
        BY <1>3, <1>4, <2>0, <4>h
      <4>e. l = c - b + h /\ c <= m /\ b >= a
        BY <1>3, <1>4, <1>7, <4>3, <4>p
      <4>a. a + l - h <= m
        BY <4>e
      <4>4. End(nv.events \o part) <= End(mirror)
        BY <2>1, <4>p, <4>a
      <4>5. End(nv.events \o part) \in Nat
        BY <2>1, EndIsNat
      <4> QED
        BY <1>4, <4>4, <4>5, LengthsPositive, ShrinkAssumption DEF Roomy
    <3>2. CASE d = Len(mirror)
      <4>1. u = 0
        BY <1>1, <1>2, <3>2
      <4>2. part = <<>>
        BY <1>2, <4>1, SubSeqEmpty DEF part
      <4> QED
        BY <2>0, <4>2, ConcatEmptySeq DEF Kept
    <3> QED
      BY <1>1, <3>1, <3>2
  <2> QED
    BY <1>7, <2>1, <2>2 DEF Kept, Formed, Log
<1>8. nv = Junk => Written(n) = Junk
  BY <1>1 DEF Junk
<1>9. nv = Blank => Written(n) = Junk \/ (nv_last_write = 0 /\ Written(n) = Log(nv.events \o part))
  BY <1>1 DEF Blank, part
<1>10. nv = Log(nv.events) =>
         \/ Written(n) = Junk
         \/ End(nv.events) = nv_last_write /\ Written(n) = Log(nv.events \o part)
  <2>1. nv = Log(nv.events) => nv.state = "log"
    BY DEF Log
  <2> QED
    BY <1>1, <2>1 DEF part
<1> QED
  BY <1>5, <1>6, <1>7, <1>8, <1>9, <1>10 DEF Kept, Formed

-----------------------------------------------------------------------------
(* The flash holds the first events of the mirror, up to the offset where  *)
(* the next write begins.                                                  *)
Appendable ==
    \/ nv = Blank /\ nv_last_write = 0
    \/ \E k \in 0..Len(mirror) :
         nv = Log(SubSeq(mirror, 1, k)) /\ nv_last_write = End(SubSeq(mirror, 1, k))

LEMMA WholeWritten ==
    ASSUME mirror \in Seq(Logged), nv_last_write \in Int, Appendable
    PROVE  Written(Len(mirror)) = Log(mirror)
<1> DEFINE L == Len(mirror)
<1>0. L \in 0..L /\ L \in Nat
  OBVIOUS
<1>1. PICK d \in 0..L, u \in 0..L :
         /\ d + u = L
         /\ \A i \in 1..L : Begin(mirror, i) >= nv_last_write <=> i > d
         /\ Written(L) =
              LET at == IF nv.state = "blank" THEN 0 ELSE End(nv.events)
              IN IF nv.state = "junk" \/ at # nv_last_write THEN Junk
                 ELSE Log(nv.events \o SubSeq(mirror, d + 1, d + u))
  BY <1>0, WrittenIs
<1>2. CASE nv = Blank /\ nv_last_write = 0
  <2>1. d = 0
    <3>1. CASE L = 0
      BY <1>1, <3>1
    <3>2. CASE L # 0
      <4>1. 1 \in 1..L /\ 0 \in 0..L /\ 1 - 1 = 0 /\ 0 \in 0..0
        BY <3>2
      <4>2. Begin(mirror, 1) \in Nat
        BY <4>1, PrefixGrows DEF Begin
      <4>3. 1 > d
        BY <1>1, <1>2, <4>1, <4>2
      <4> QED
        BY <1>1, <4>3
    <3> QED
      BY <3>1, <3>2
  <2>2. SubSeq(mirror, d + 1, d + u) = mirror
    BY <1>1, <2>1, SubSeqFull
  <2>3. Written(L) = Log(<<>> \o mirror)
    BY <1>1, <1>2, <2>2 DEF Blank
  <2> QED
    BY <2>3, ConcatEmptySeq
<1>3. ASSUME NEW k \in 0..L, nv = Log(SubSeq(mirror, 1, k)),
             nv_last_write = End(SubSeq(mirror, 1, k))
      PROVE  Written(L) = Log(mirror)
  <2>1. \A i \in 1..L : Begin(mirror, i) >= nv_last_write <=> i > k
    <3> SUFFICES ASSUME NEW i \in 1..L
                 PROVE  Begin(mirror, i) >= nv_last_write <=> i > k
      OBVIOUS
    <3>0. i - 1 \in 0..L /\ Begin(mirror, i) = End(SubSeq(mirror, 1, i - 1))
      BY DEF Begin
    <3>1. CASE i > k
      <4>1. k \in 0..i - 1
        BY <3>1
      <4> QED
        BY <1>3, <3>0, <3>1, <4>1, PrefixGrows
    <3>2. CASE ~(i > k)
      <4>1. i - 1 \in 0..k /\ i - 1 < k
        BY <3>2
      <4>2. /\ Begin(mirror, i) \in Nat /\ nv_last_write \in Nat
            /\ Begin(mirror, i) < nv_last_write
        BY <1>3, <3>0, <4>1, PrefixGrows
      <4> QED
        BY <3>2, <4>2
    <3> QED
      BY <3>1, <3>2
  <2>2. d = k
    <3>1. \A i \in 1..L : i > d <=> i > k
      BY <1>1, <2>1
    <3>2. CASE d < k
      <4>1. k \in 1..L /\ k > d
        BY <3>2
      <4> QED
        BY <3>1, <4>1
    <3>3. CASE k < d
      <4>1. d \in 1..L /\ d > k
        BY <3>3
      <4> QED
        BY <3>1, <4>1
    <3> QED
      BY <3>2, <3>3
  <2>3. nv.state = "log" /\ nv.events = SubSeq(mirror, 1, k)
    BY <1>3 DEF Log
  <2>4. Written(L) = Log(SubSeq(mirror, 1, k) \o SubSeq(mirror, k + 1, L))
    BY <1>1, <1>3, <2>2, <2>3
  <2> QED
    BY <2>4, EndSplits
<1> QED
  BY <1>2, <1>3 DEF Appendable

-----------------------------------------------------------------------------
(* The invariant of the log.  It speaks of the contents only as long as no *)
(* access has failed since the start; what keeps the sizes right always    *)
(* holds.                                                                  *)
Recorded(es) ==
    LET all == Append(found, request)
    IN \/ es = all
       \/ \E n \in 1..Len(found) : es = SubSeq(all, n + 1, Len(all)) \o <<LogClear>>

InStep ==
    /\ sync = "none" => nv = Log(mirror) /\ nv_last_write = End(mirror)
    /\ sync = "append" => Appendable
    /\ sync = "rewrite" => nv = Blank /\ nv_last_write = 0

Sized == LogTypeOK /\ Roomy(mirror) /\ Kept(nv)

Sound ==
    /\ ~failed /\ elog_initialized = "initialized" => InStep
    /\ ~failed /\ waiting => mirror = <<LogClear>> /\ found = <<LogClear>>
    /\ ~failed /\ ~waiting /\ sync # "none" /\ request \in Event => Recorded(mirror)
    /\ elog_initialized = "broken" => failed

LogInv ==
    /\ Sized
    /\ sync # "none" \/ waiting => elog_initialized = "initialized"
    /\ waiting => request # NoRequest
    /\ Sound

LogNext == LogCommand \/ LogStep \/ LogPowerLost \/ Restart

Offset == 0..LogSize \cup {NeedsErase}

LEMMA EndIsOffset ==
    ASSUME NEW es \in Seq(Logged), Roomy(es)
    PROVE  End(es) \in Offset /\ End(es) \in Int /\ End(es) # 0
<1>1. End(es) \in Nat /\ End(es) >= Header
  BY EndIsNat
<1> QED
  BY <1>1, LengthsPositive, EventAssumption, ShrinkAssumption DEF Roomy, Offset

LEMMA InitLog == LogInit => LogInv
<1> SUFFICES ASSUME LogInit PROVE LogInv
  OBVIOUS
<1>1. LogTypeOK
  <2>1. nv.state = "blank" /\ nv.events = <<>> /\ <<>> \in Seq(Event \cup {LogClear})
    BY DEF LogInit, Blank
  <2>2. failures \in 0..MaxFailures /\ nv_last_write \in 0..LogSize \cup {NeedsErase}
    BY FailureAssumption, ShrinkAssumption DEF LogInit
  <2> QED
    BY <2>1, <2>2 DEF LogInit, LogTypeOK
<1>2. Roomy(mirror) /\ Kept(nv)
  BY RoomyAtFirst DEF LogInit, Kept, Formed, Blank
<1> QED
  BY <1>1, <1>2 DEF LogInit, LogInv, Sized, Sound

(* A request puts the new contents into the mirror.                        *)
LEMMA Performs ==
    ASSUME NEW r \in Request, NEW es \in Seq(Logged), NEW last \in Offset,
           Roomy(es), Perform(r, es, last)
    PROVE  /\ mirror' \in Seq(Logged) /\ Roomy(mirror)' /\ nv_last_write' \in Offset
           /\ sync' \in {"erase", "append"}
           /\ r \in Event => \/ mirror' = Append(es, r)
                             \/ \E n \in 1..Len(es) :
                                  mirror' = SubSeq(Append(es, r), n + 1, Len(Append(es, r)))
                                              \o <<LogClear>>
           /\ last = End(es) /\ sync' = "append" /\ nv' = Log(es) => Appendable'
<1>0. End(es) # 0
  BY EndIsOffset
<1>1. PossibleErase(last) \in Offset /\ (last # 0 => PossibleErase(last) = NeedsErase)
  BY ShrinkAssumption DEF PossibleErase, Offset
<1>2. CASE r = Clear
  <2>1. SyncFrom(<<LogClear>>, PossibleErase(last))
    BY <1>2 DEF Perform, PrepareEmpty
  <2>2. r \notin Event
    <3>1. r.len = 0
      BY <1>2 DEF Clear
    <3> QED
      BY <3>1, LengthsPositive DEF Logged
  <2> QED
    BY <1>0, <1>1, <2>1, <2>2, RoomyAtFirst DEF SyncFrom, Roomy
<1>3. CASE r # Clear
  <2>0. r \in Event /\ Add(es, r, last)
    BY <1>3 DEF Request, Perform
  <2>1. CASE End(Append(es, r)) >= Threshold
    <3>1. SyncFrom(Append(Shrunk(Append(es, r)), LogClear), PossibleErase(last))
      BY <2>0, <2>1 DEF Add
    <3>2. PICK n \in 1..Len(es) :
             LET with == Append(es, r)
                 left == SubSeq(with, n + 1, Len(with))
             IN /\ Append(Shrunk(with), LogClear) = left \o <<LogClear>>
                /\ left \o <<LogClear>> \in Seq(Logged)
                /\ Roomy(left \o <<LogClear>>)
      BY <2>0, <2>1, AddShrinks
    <3> QED
      BY <1>0, <1>1, <3>1, <3>2 DEF SyncFrom, Roomy
  <2>2. CASE ~(End(Append(es, r)) >= Threshold)
    <3>1. SyncFrom(Append(es, r), last)
      BY <2>0, <2>2 DEF Add
    <3>2. Append(es, r) \in Seq(Logged) /\ Roomy(Append(es, r))
      BY <2>0, <2>2, AddFits
    <3>3. ASSUME last = End(es), nv' = Log(es) PROVE Appendable'
      <4>1. mirror' = Append(es, r) /\ nv_last_write' = last
        BY <3>1 DEF SyncFrom
      <4>2. Len(es) \in 0..Len(Append(es, r)) /\ SubSeq(Append(es, r), 1, Len(es)) = es
        <5>1. r \in Logged /\ Len(es) \in Nat /\ Len(Append(es, r)) = Len(es) + 1
          BY <2>0 DEF Logged
        <5>2. /\ SubSeq(Append(es, r), 1, Len(es)) \in Seq(Logged)
              /\ Len(SubSeq(Append(es, r), 1, Len(es))) = Len(es)
              /\ \A i \in 1..Len(es) : SubSeq(Append(es, r), 1, Len(es))[i] = es[i]
          BY <5>1
        <5> QED
          BY <5>1, <5>2, SeqEqual
      <4> QED
        BY <3>3, <4>1, <4>2 DEF Appendable
    <3> QED
      BY <2>0, <3>1, <3>2, <3>3 DEF SyncFrom, Roomy
  <2> QED
    BY <2>1, <2>2
<1> QED
  BY <1>2, <1>3

LEMMA SizedParts ==
    Sized => /\ mirror \in Seq(Logged) /\ nv.events \in Seq(Logged) /\ found \in Seq(Logged)
             /\ nv_last_write \in Offset /\ nv_last_write \in Int
             /\ Roomy(mirror) /\ Roomy(nv.events)
             /\ Len(mirror) \in 0..Len(mirror) /\ waiting \in BOOLEAN
<1>1. Sized => nv_last_write \in Offset
  BY DEF Sized, LogTypeOK, Offset
<1>2. Offset \subseteq Int
  BY ShrinkAssumption DEF Offset, NeedsErase
<1>3. mirror \in Seq(Logged) => Len(mirror) \in 0..Len(mirror)
  OBVIOUS
<1> QED
  BY <1>1, <1>2, <1>3 DEF Sized, LogTypeOK, Kept, Logged

LEMMA NoEventIsClear == Clear \notin Event /\ \A r \in Request : r # NoRequest
<1>1. \A e \in Event : e.len # 0
  BY LengthsPositive DEF Logged
<1>2. Clear.len = 0 /\ NoRequest.len = 0 /\ Clear # NoRequest
  BY DEF Clear, NoRequest
<1> QED
  BY <1>1, <1>2 DEF Request

(* A request is taken up, with the contents and the offset of the flash as *)
(* elog_init() or earlier requests have left them.                         *)
LEMMA SyncBegins ==
    ASSUME Sized, NEW r \in Request, NEW es \in Seq(Logged), NEW last \in Offset, Roomy(es),
           Perform(r, es, last),
           elog_initialized' = "initialized",
           UNCHANGED <<nv, returned, failed, failures>>,
           found' \in Seq(Logged), request' \in Request, waiting' \in BOOLEAN,
           ~failed => \/ nv = Log(es) /\ last = End(es)
                      \/ r = Clear /\ (last = 0 => nv = Blank),
           ~failed /\ waiting' => r = Clear /\ found' = <<LogClear>>,
           ~failed /\ ~waiting' /\ request' \in Event => r = request' /\ found' = es
    PROVE  LogInv'
<1>1. /\ mirror' \in Seq(Logged) /\ Roomy(mirror)' /\ nv_last_write' \in Offset
      /\ sync' \in {"erase", "append"}
      /\ r \in Event => \/ mirror' = Append(es, r)
                        \/ \E n \in 1..Len(es) :
                             mirror' = SubSeq(Append(es, r), n + 1, Len(Append(es, r)))
                                         \o <<LogClear>>
      /\ last = End(es) /\ sync' = "append" /\ nv' = Log(es) => Appendable'
  BY Performs
<1>2. Kept(nv)'
  <2>1. nv' = nv /\ Kept(nv)
    BY DEF Sized
  <2> QED
    BY <2>1 DEF Kept, Formed, Roomy
<1>3. LogTypeOK'
  BY <1>1 DEF Sized, LogTypeOK, Logged, Offset
<1>4. r = Clear => mirror' = <<LogClear>> /\ (sync' = "append" => nv_last_write' = 0 /\ last = 0)
  BY DEF Perform, PrepareEmpty, SyncFrom, PossibleErase, NeedsErase
<1>5. ~failed' /\ sync' = "append" => Appendable'
  <2> SUFFICES ASSUME ~failed, sync' = "append" PROVE Appendable'
    OBVIOUS
  <2>1. CASE nv = Log(es) /\ last = End(es)
    BY <1>1, <2>1
  <2>2. CASE r = Clear /\ (last = 0 => nv = Blank)
    BY <1>4, <2>2 DEF Appendable, Blank
  <2> QED
    BY <2>1, <2>2
<1>6. ~failed' /\ ~waiting' /\ request' \in Event => Recorded(mirror)'
  <2> SUFFICES ASSUME ~failed, ~waiting', request' \in Event PROVE Recorded(mirror)'
    OBVIOUS
  <2>1. r \in Event /\ found' = es /\ request' = r
    OBVIOUS
  <2> QED
    BY <1>1, <2>1 DEF Recorded
<1>7. Sound'
  BY <1>1, <1>4, <1>5, <1>6 DEF Sound, InStep
<1> QED
  BY <1>1, <1>2, <1>3, <1>7, NoEventIsClear DEF LogInv, Sized

LEMMA CallStep ==
    ASSUME LogInv, NEW r \in Request, Call(r)
    PROVE  LogInv'
<1>1. /\ Idle /\ elog_initialized = "initialized" /\ ~waiting
      /\ UNCHANGED <<elog_initialized, waiting, nv, returned, failed, failures>>
      /\ waiting' = waiting /\ request' = r /\ found' = nv.events
      /\ Perform(r, mirror, nv_last_write)
  BY DEF Call, Begins, LogInv, Idle
<1>2. ~failed => nv = Log(mirror) /\ nv_last_write = End(mirror)
  BY <1>1 DEF LogInv, Sound, InStep, Idle
<1>3. ~failed => nv.events = mirror
  BY <1>2 DEF Log
<1>4. /\ Sized /\ mirror \in Seq(Logged) /\ nv_last_write \in Offset /\ Roomy(mirror)
      /\ elog_initialized' = "initialized" /\ found' \in Seq(Logged)
      /\ ~waiting' /\ waiting' \in BOOLEAN
  BY <1>1, SizedParts DEF LogInv
<1> QED
  BY <1>1, <1>2, <1>3, <1>4, SyncBegins

LEMMA CallAndInitStep ==
    ASSUME LogInv, NEW r \in Request, CallAndInit(r)
    PROVE  LogInv'
<1>1. /\ ~waiting /\ elog_initialized' = "initialized" /\ request' = r
      /\ UNCHANGED <<nv, returned, failed, failures>>
  BY DEF CallAndInit, Begins, LogInv, Idle
<1>2. Scanned \in Offset /\ (Scanned = 0 => nv = Blank) /\ (nv.state = "log" => Scanned = End(nv.events))
  <2>1. End(nv.events) \in Offset /\ End(nv.events) # 0
    BY SizedParts, EndIsOffset DEF LogInv
  <2>2. 0 \in Offset
    BY ShrinkAssumption DEF Offset
  <2>3. nv.state = "blank" => nv = Blank
    BY DEF LogInv, Sized, Kept, Formed, Junk, Log
  <2> QED
    BY <2>1, <2>2, <2>3 DEF Scanned
<1>3. CASE nv.state = "log"
  <2>1. /\ found' = nv.events /\ ~waiting' /\ waiting' = waiting /\ nv = Log(nv.events)
        /\ Perform(r, nv.events, Scanned)
    BY <1>1, <1>3 DEF CallAndInit, Begins, LogInv, Sized, Kept, Formed, Blank, Junk
  <2>2. /\ Sized /\ nv.events \in Seq(Logged) /\ Roomy(nv.events)
        /\ found' \in Seq(Logged) /\ waiting' \in BOOLEAN
    BY <2>1, SizedParts DEF LogInv
  <2> QED
    BY <1>1, <1>2, <1>3, <2>1, <2>2, SyncBegins
<1>4. CASE nv.state # "log"
  <2>1. found' = <<LogClear>> /\ waiting' /\ waiting' = TRUE /\ PrepareEmpty(Scanned)
    BY <1>4 DEF CallAndInit, Begins
  <2>2. Clear \in Request /\ Perform(Clear, nv.events, Scanned)
    BY <2>1 DEF Request, Perform
  <2>3. found' \in Seq(Logged) /\ waiting' \in BOOLEAN
    BY <2>1, RoomyAtFirst
  <2> QED
    BY <1>1, <1>2, <2>1, <2>2, <2>3, SizedParts, SyncBegins DEF LogInv
<1> QED
  BY <1>3, <1>4

LEMMA ContinueStep ==
    ASSUME LogInv, Continue
    PROVE  LogInv'
<1>1. /\ sync = "none" /\ waiting /\ waiting' = FALSE
      /\ Perform(request, mirror, nv_last_write)
      /\ UNCHANGED <<nv, elog_initialized, request, returned, found, failed, failures>>
  BY DEF Continue
<1>2. elog_initialized = "initialized" /\ request \in Request
  BY <1>1 DEF LogInv, Sized, LogTypeOK
<1>3. ~failed => /\ nv = Log(mirror) /\ nv_last_write = End(mirror)
                 /\ mirror = <<LogClear>> /\ found = <<LogClear>>
  BY <1>1, <1>2 DEF LogInv, Sound, InStep
<1>4. found' \in Seq(Logged) /\ waiting' \in BOOLEAN
  BY <1>1, SizedParts DEF LogInv
<1> QED
  BY <1>1, <1>2, <1>3, <1>4, SizedParts, SyncBegins DEF LogInv

LEMMA RefuseStep ==
    ASSUME LogInv, NEW r \in Request, Refuse(r)
    PROVE  LogInv'
<1>1. /\ sync = "none" /\ UNCHANGED <<nv, mirror, nv_last_write, elog_initialized, sync, request,
                   waiting, found, failed, failures>>
      /\ returned' \in {"none", "success", "failure"}
  BY DEF Refuse, Idle
<1>2. Sized'
  BY <1>1 DEF LogInv, Sized, LogTypeOK, Kept, Formed, Roomy
<1>3. Sound'
  BY <1>1 DEF LogInv, Sound, InStep
<1> QED
  BY <1>1, <1>2, <1>3 DEF LogInv

-----------------------------------------------------------------------------
(* What an access may leave in flash.                                      *)
LEMMA FaultKept ==
    ASSUME Sized, nv' \in Partly
    PROVE  Kept(nv)'
<1>1. Kept(Blank) /\ Kept(Junk)
  BY RoomyAtFirst DEF Kept, Formed, Blank, Junk
<1>2. \A n \in 0..Len(mirror) : Kept(Written(n))
  BY SizedParts, WrittenKept DEF Sized
<1>3. nv' \in {nv, Junk, Blank} \/ \E n \in 0..Len(mirror) : nv' = Written(n)
  BY DEF Partly
<1>4. PICK v : v = nv' /\ Kept(v)
  BY <1>1, <1>2, <1>3 DEF Sized
<1> QED
  BY <1>4 DEF Kept, Formed, Roomy

LEMMA WholeKept ==
    ASSUME Sized, nv' = Written(Len(mirror))
    PROVE  Kept(nv)'
<1>1. PICK v : v = nv' /\ Kept(v)
  BY SizedParts, WrittenKept DEF Sized
<1> QED
  BY <1>1 DEF Kept, Formed, Roomy

LEMMA KeptHasType == Kept(nv) => /\ nv.state \in {"log", "blank", "junk"}
                                 /\ nv.events \in Seq(Event \cup {LogClear})
BY DEF Kept, Formed, Blank, Junk, Log, Logged
LEMMA KeptHasTypeNext == (Kept(nv) => /\ nv.state \in {"log", "blank", "junk"}
                                      /\ nv.events \in Seq(Event \cup {LogClear}))'
BY KeptHasType, PTL

LEMMA FaultCounts ==
    ASSUME Sized, NEW outcomes, Fault(outcomes)
    PROVE  failures' \in 0..MaxFailures /\ failed' = TRUE /\ nv' \in outcomes
BY FailureAssumption DEF Fault, Sized, LogTypeOK

LEMMA EraseStep ==
    ASSUME LogInv, Erase
    PROVE  LogInv'
<1>1. /\ sync = "erase" /\ sync' = "rewrite" /\ nv_last_write' = 0
      /\ UNCHANGED <<mirror, elog_initialized, request, waiting, returned, found>>
  BY DEF Erase, AfterErase
<1>2. \/ nv' = Blank /\ UNCHANGED <<failed, failures>>
      \/ nv' \in Partly /\ failed' = TRUE /\ failures' \in 0..MaxFailures
  BY FaultCounts DEF Erase, LogInv
<1>3. Kept(nv)'
  <2>1. CASE nv' = Blank
    <3>1. nv'.events = <<>> /\ Roomy(<<>>) /\ <<>> \in Seq(Logged)
      BY <2>1, RoomyAtFirst DEF Blank
    <3> QED
      BY <2>1, <3>1 DEF Kept, Formed, Roomy
  <2> QED
    BY <1>2, <2>1, FaultKept DEF LogInv
<1>4. Sized'
  <2>1. 0 \in 0..LogSize
    BY ShrinkAssumption
  <2> QED
    BY <1>1, <1>2, <1>3, <2>1, KeptHasTypeNext DEF LogInv, Sized, LogTypeOK, Roomy
<1>5. Sound'
  BY <1>1, <1>2 DEF LogInv, Sound, InStep, Recorded, Blank
<1> QED
  BY <1>1, <1>4, <1>5 DEF LogInv

(* How a write to the flash ends.                                          *)
LEMMA EndTypes ==
    ASSUME LogInv, NEW res \in {"success", "failure"}, EndSync(res)
    PROVE  /\ sync' = "none" /\ request' \in Request \cup {NoRequest}
           /\ waiting' \in BOOLEAN /\ returned' \in {"none", "success", "failure"}
           /\ found' \in Seq(Event \cup {LogClear})
           /\ waiting' => /\ waiting /\ res = "success"
                          /\ request' = request /\ found' = found
<1>1. <<>> \in Seq(Event \cup {LogClear})
  OBVIOUS
<1>2. CASE waiting /\ res = "success"
  BY <1>2 DEF EndSync, LogInv, Sized, LogTypeOK
<1>3. CASE ~(waiting /\ res = "success")
  BY <1>1, <1>3 DEF EndSync
<1> QED
  BY <1>2, <1>3

LEMMA AppendStep ==
    ASSUME LogInv, AppendToNv
    PROVE  LogInv'
<1>1. /\ sync = "append" /\ EndSync("success") /\ nv_last_write' = End(mirror)
      /\ UNCHANGED <<mirror, elog_initialized>>
  BY DEF AppendToNv
<1>2. \/ nv' = Written(Len(mirror)) /\ UNCHANGED <<failed, failures>>
      \/ nv' \in Partly /\ failed' = TRUE /\ failures' \in 0..MaxFailures
  BY FaultCounts DEF AppendToNv, LogInv
<1>3. Kept(nv)'
  BY <1>2, FaultKept, WholeKept DEF LogInv
<1>4. elog_initialized = "initialized"
  BY <1>1 DEF LogInv
<1>5. Sized'
  <2>1. End(mirror) \in 0..LogSize \cup {NeedsErase}
    BY SizedParts, EndIsOffset DEF LogInv, Offset
  <2> QED
    BY <1>1, <1>2, <1>3, <2>1, EndTypes, KeptHasTypeNext DEF LogInv, Sized, LogTypeOK, Roomy
<1>6. ~failed' => nv' = Log(mirror)
  <2> SUFFICES ASSUME ~failed' PROVE nv' = Log(mirror)
    OBVIOUS
  <2>1. nv' = Written(Len(mirror)) /\ ~failed
    BY <1>2
  <2>2. Appendable
    BY <1>1, <1>4, <2>1 DEF LogInv, Sound, InStep
  <2> QED
    BY <2>1, <2>2, SizedParts, WholeWritten DEF LogInv
<1>7. ~failed' => ~failed
  BY <1>2
<1>8. Sound'
  BY <1>1, <1>4, <1>6, <1>7, EndTypes DEF LogInv, Sound, InStep
<1> QED
  BY <1>1, <1>4, <1>5, <1>8, EndTypes DEF LogInv

LEMMA RewriteStep ==
    ASSUME LogInv, RewriteNv
    PROVE  LogInv'
<1>1. /\ sync = "rewrite" /\ mirror' = nv'.events
      /\ nv_last_write' = IF nv'.state = "blank" THEN 0 ELSE End(nv'.events)
      /\ \/ /\ nv'.state = "log" /\ EndSync("success") /\ elog_initialized' = elog_initialized
         \/ /\ nv'.state # "log" /\ EndSync("failure") /\ elog_initialized' = "broken"
  BY DEF RewriteNv
<1>2. \/ nv' = Written(Len(mirror)) /\ UNCHANGED <<failed, failures>>
      \/ nv' \in Partly /\ failed' = TRUE /\ failures' \in 0..MaxFailures
  BY FaultCounts DEF RewriteNv, LogInv
<1>3. Kept(nv)'
  BY <1>2, FaultKept, WholeKept DEF LogInv
<1>4. elog_initialized = "initialized"
  BY <1>1 DEF LogInv
<1>5. mirror' \in Seq(Logged) /\ Roomy(mirror)'
  BY <1>1, <1>3 DEF Kept, Roomy
<1>6. Sized'
  <2>1. End(mirror') \in 0..LogSize \cup {NeedsErase} /\ 0 \in 0..LogSize
    <3>1. PICK es \in Seq(Logged) : es = mirror' /\ Roomy(es)
      BY <1>5 DEF Roomy
    <3> QED
      BY <3>1, EndIsOffset, ShrinkAssumption DEF Offset
  <2> QED
    BY <1>1, <1>2, <1>3, <1>4, <1>5, <2>1, EndTypes, KeptHasTypeNext
    DEF LogInv, Sized, LogTypeOK, Logged
<1>7. ~failed' => ~failed /\ nv' = Log(mirror) /\ mirror' = mirror /\ nv'.state = "log"
  <2> SUFFICES ASSUME ~failed'
               PROVE  ~failed /\ nv' = Log(mirror) /\ mirror' = mirror /\ nv'.state = "log"
    OBVIOUS
  <2>1. nv' = Written(Len(mirror)) /\ ~failed
    BY <1>2
  <2>2. Appendable
    BY <1>1, <1>4, <2>1 DEF LogInv, Sound, InStep, Appendable
  <2>3. nv' = Log(mirror)
    BY <2>1, <2>2, SizedParts, WholeWritten DEF LogInv
  <2> QED
    BY <1>1, <2>1, <2>3 DEF Log
<1>8. Sound'
  <2>1. ~failed' /\ elog_initialized' = "initialized" => InStep'
    BY <1>1, <1>7, EndTypes DEF InStep, Log
  <2>2. ~failed' /\ waiting' => mirror' = <<LogClear>> /\ found' = <<LogClear>>
    BY <1>1, <1>7, EndTypes DEF LogInv, Sound
  <2>3. elog_initialized' = "broken" => failed'
    BY <1>1, <1>4, <1>7
  <2>4. sync' = "none"
    BY <1>1, EndTypes
  <2> QED
    BY <2>1, <2>2, <2>3, <2>4 DEF Sound
<1>9. waiting' => elog_initialized' = "initialized" /\ request' # NoRequest
  BY <1>1, <1>4, EndTypes DEF LogInv
<1> QED
  BY <1>1, <1>6, <1>8, <1>9, EndTypes DEF LogInv

(* A restart forgets the mirror.                                           *)
LEMMA ForgetStep ==
    ASSUME LogInv, Forget, Kept(nv)', failures' \in 0..MaxFailures
    PROVE  LogInv'
<1>1. Roomy(mirror)' /\ mirror' \in Seq(Event \cup {LogClear}) /\ found' \in Seq(Event \cup {LogClear})
  BY RoomyAtFirst DEF Forget, Roomy
<1>2. 0 \in 0..LogSize
  BY ShrinkAssumption
<1>3. Sized'
  BY <1>1, <1>2, KeptHasTypeNext DEF Forget, Sized, LogTypeOK
<1> QED
  BY <1>3 DEF Forget, LogInv, Sound

LEMMA LogPowerLostStep == LogInv /\ LogPowerLost => LogInv'
<1> SUFFICES ASSUME LogInv, LogPowerLost PROVE LogInv'
  OBVIOUS
<1>1. Kept(nv)'
  BY FaultKept DEF LogInv, LogPowerLost
<1>2. failures' \in 0..MaxFailures
  BY FailureAssumption DEF LogInv, Sized, LogTypeOK, LogPowerLost
<1> QED
  BY <1>1, <1>2, ForgetStep DEF LogPowerLost

LEMMA RestartStep == LogInv /\ Restart => LogInv'
<1> SUFFICES ASSUME LogInv, Restart PROVE LogInv'
  OBVIOUS
<1>1. Kept(nv)' /\ failures' \in 0..MaxFailures
  BY DEF LogInv, Sized, LogTypeOK, Restart, Kept, Formed, Roomy
<1> QED
  BY <1>1, ForgetStep DEF Restart

LEMMA LogKeeps == LogInv /\ UNCHANGED logVars => LogInv'
<1> SUFFICES ASSUME LogInv, UNCHANGED logVars PROVE LogInv'
  OBVIOUS
<1>1. UNCHANGED <<nv, mirror, nv_last_write, elog_initialized, sync, request,
                  waiting, returned, found, failed, failures>>
  BY DEF logVars
<1>2. Sized'
  BY <1>1 DEF LogInv, Sized, LogTypeOK, Kept, Formed, Roomy
<1>3. InStep' <=> InStep
  BY <1>1 DEF InStep, Appendable
<1>4. Recorded(mirror)' <=> Recorded(mirror)
  BY <1>1 DEF Recorded
<1>5. Sound'
  BY <1>1, <1>3, <1>4 DEF LogInv, Sound
<1> QED
  BY <1>1, <1>2, <1>5 DEF LogInv

LEMMA NextLog == LogInv /\ (LogNext \/ UNCHANGED logVars) => LogInv'
BY CallStep, CallAndInitStep, RefuseStep, ContinueStep, EraseStep, AppendStep, RewriteStep,
   LogPowerLostStep, RestartStep, LogKeeps DEF LogNext, LogCommand, LogStep, LogSync

(* Every step of SMM is one of the log or leaves it as it is.              *)
LEMMA StepOfLog == [Next]_smmVars => LogNext \/ UNCHANGED logVars
<1> SUFFICES ASSUME [Next]_smmVars PROVE LogNext \/ UNCHANGED logVars
  OBVIOUS
<1>1. ASSUME NEW c \in CPU, Processor(c) PROVE LogNext \/ UNCHANGED logVars
  BY <1>1 DEF Processor, Locking, Serve, Work, Done, LogNext
<1>2. CASE Reset
  BY <1>2 DEF Reset, LogNext
<1>3. CASE UNCHANGED smmVars
  BY <1>3 DEF smmVars
<1> QED
  BY <1>1, <1>2, <1>3 DEF Next

(* The inductive invariant of the event log, elog.c, for events of any     *)
(* lengths, any sizes that the assumptions allow and any number of failed  *)
(* accesses: what is in flash is blank, junk or events that leave room for *)
(* one more, and as long as no access fails, every step of                 *)
(* elog_sync_to_nv() finds the flash as the one before it left it.         *)
THEOREM LogInvariant == Spec => []LogInv
<1>1. Init => LogInv
  BY InitLog DEF Init
<1>2. LogInv /\ [Next]_smmVars => LogInv'
  BY NextLog, StepOfLog
<1> QED
  BY <1>1, <1>2, PTL DEF Spec

(* Between requests the flash holds what the mirror holds, unless an       *)
(* access has failed: elog_sync_to_nv().                                   *)
THEOREM FlashIsMirrored == Spec => []MirrorMatchesFlash
<1>1. LogInv => MirrorMatchesFlash
  BY DEF LogInv, Sound, InStep, Idle, MirrorMatchesFlash
<1> QED
  BY <1>1, LogInvariant, PTL

(* No event is refused for want of space: the threshold of                 *)
(* elog_find_flash() and the quarter that elog_shrink() drops leave room   *)
(* for the largest event and the mark.                                     *)
THEOREM EventsHaveRoom == Spec => []RoomForEvent
<1>1. LogInv => RoomForEvent
  BY DEF LogInv, Sized, Roomy, RoomForEvent
<1> QED
  BY <1>1, LogInvariant, PTL

(* The log is broken only after an access has failed, whatever lost power  *)
(* has left in flash: elog_init().                                         *)
THEOREM LogWorksAgain == Spec => []BrokenOnlyByFailure
<1>1. LogInv => BrokenOnlyByFailure
  BY DEF LogInv, Sound, BrokenOnlyByFailure
<1> QED
  BY <1>1, LogInvariant, PTL

(* A request for an event ends in success, with no access failed, only     *)
(* by the last write of its contents.                                      *)
LEMMA EndsInWrite ==
    ASSUME LogInv, LogNext, request \in Event, request' = NoRequest,
           returned' = "success", ~failed'
    PROVE  /\ AppendToNv \/ RewriteNv
           /\ ~waiting /\ sync # "none" /\ ~failed
<1>1. request # NoRequest
  BY NoEventIsClear DEF Request
<1>2. ~LogCommand
  <2>1. ASSUME NEW r \in Request, Refuse(r) \/ Call(r) \/ CallAndInit(r) PROVE FALSE
    BY <1>1, <2>1 DEF Refuse, Call, CallAndInit, Begins, Idle
  <2> QED
    BY <2>1 DEF LogCommand
<1>3. ~LogPowerLost /\ ~Restart
  BY DEF LogPowerLost, Restart, Forget
<1>4. ~Continue /\ ~Erase
  BY <1>1 DEF Continue, Erase
<1>5. AppendToNv \/ RewriteNv
  BY <1>2, <1>3, <1>4 DEF LogNext, LogStep, LogSync
<1>6. ~failed /\ sync # "none"
  BY <1>5 DEF AppendToNv, RewriteNv, Fault
<1>7. ~waiting
  <2>1. EndSync("success") \/ EndSync("failure")
    BY <1>5 DEF AppendToNv, RewriteNv
  <2>2. ~EndSync("failure")
    BY DEF EndSync
  <2> QED
    BY <1>1, <2>1, <2>2 DEF EndSync
<1> QED
  BY <1>5, <1>6, <1>7

(* What such a step leaves in flash is the mirror.                         *)
LEMMA WriteLeavesMirror ==
    ASSUME LogInv, AppendToNv \/ RewriteNv, ~failed'
    PROVE  nv' = Log(mirror)
<1>1. nv' = Written(Len(mirror)) /\ ~failed
  BY DEF AppendToNv, RewriteNv, Fault
<1>2. elog_initialized = "initialized"
  BY DEF AppendToNv, RewriteNv, LogInv
<1>3. Appendable \/ (nv = Blank /\ nv_last_write = 0)
  BY <1>1, <1>2 DEF AppendToNv, RewriteNv, LogInv, Sound, InStep
<1>4. Appendable
  BY <1>3 DEF Appendable
<1> QED
  BY <1>1, <1>4, SizedParts, WholeWritten DEF LogInv

(* An event that was added with success is in flash behind those that      *)
(* were there, the oldest of which may have been dropped for the mark:     *)
(* elog_add_event_raw().                                                   *)
THEOREM EventIsFound == Spec => AddedIsFound
<1> DEFINE Added == request \in Event /\ request' = NoRequest /\ returned' = "success"
                        /\ ~failed'
           InFlash == LET all == Append(found, request)
                      IN \/ nv' = Log(all)
                         \/ \E n \in 1..Len(found) :
                                nv' = Log(SubSeq(all, n + 1, Len(all)) \o <<LogClear>>)
<1>1. ASSUME LogInv, LogNext, Added PROVE InFlash
  <2>1. nv' = Log(mirror)
    BY <1>1, EndsInWrite, WriteLeavesMirror
  <2>2. Recorded(mirror)
    BY <1>1, EndsInWrite DEF LogInv, Sound
  <2> QED
    BY <2>1, <2>2 DEF Recorded
<1>2. LogInv /\ [Next]_smmVars => [Added => InFlash]_logVars
  BY <1>1, StepOfLog
<1> QED
  BY <1>2, LogInvariant, PTL DEF Spec, AddedIsFound

-----------------------------------------------------------------------------
(* Induction from n down to 0.                                             *)
LEMMA DownInduct ==
    ASSUME NEW n \in Nat, NEW S,
           \A k \in 0..n : (\A j \in k + 1..n : j \in S) => k \in S
    PROVE  0..n \subseteq S
<1> DEFINE D == {d \in Nat : \A k \in 0..n : k + d > n => k \in S}
<1>1. 0 \in D
  OBVIOUS
<1>2. ASSUME NEW d \in Nat, d \in D PROVE d + 1 \in D
  <2>1. ASSUME NEW k \in 0..n, k + (d + 1) > n PROVE k \in S
    <3>1. ASSUME NEW j \in k + 1..n PROVE j \in S
      <4>1. j \in 0..n /\ j + d > n
        BY <2>1
      <4> QED
        BY <1>2, <4>1
    <3> QED
      BY <3>1
  <2> QED
    BY <2>1
<1>3. n + 1 \in Nat
  OBVIOUS
<1>4. n + 1 \in D
  <2> HIDE DEF D
  <2> QED
    BY <1>1, <1>2, <1>3, Induct
<1> QED
  BY <1>4

(* A recursive function over 0..n whose value depends on those above it    *)
(* exists; H[g] is one step of it, with g for the rest.                    *)
Downward(n, V, H) ==
    /\ H \in [[0..n -> V] -> [0..n -> V]]
    /\ \A g, h \in [0..n -> V] : \A k \in 0..n :
           (\A j \in k + 1..n : g[j] = h[j]) => H[g][k] = H[h][k]

FixedPoint(n, V, H) == \E g \in [0..n -> V] : g = H[g]

LEMMA DownwardRecursion ==
    ASSUME NEW n \in Nat, NEW V, V # {}, NEW H, Downward(n, V, H)
    PROVE  FixedPoint(n, V, H)
<1> USE DEF Downward, FixedPoint
<1> DEFINE Right(g, d) == \A k \in 0..n : k + d > n => g[k] = H[g][k]
           D == {d \in Nat : \E g \in [0..n -> V] : Right(g, d)}
<1>1. 0 \in D
  <2>1. PICK v \in V : TRUE
    OBVIOUS
  <2>2. [k \in 0..n |-> v] \in [0..n -> V]
    OBVIOUS
  <2>3. \A k \in 0..n : ~(k + 0 > n)
    OBVIOUS
  <2> QED
    BY <2>2, <2>3
<1>2. ASSUME NEW d \in Nat, d \in D PROVE d + 1 \in D
  <2>1. PICK g \in [0..n -> V] : Right(g, d)
    BY <1>2
  <2>2. PICK h \in [0..n -> V] : h = H[g]
    OBVIOUS
  <2>3. ASSUME NEW k \in 0..n, k + (d + 1) > n PROVE h[k] = H[h][k]
    <3>1. ASSUME NEW j \in k + 1..n PROVE g[j] = h[j]
      <4>1. j \in 0..n /\ j + d > n
        BY <2>3
      <4> QED
        BY <2>1, <2>2, <4>1
    <3> QED
      BY <2>2, <3>1
  <2>4. Right(h, d + 1)
    BY <2>3
  <2> HIDE DEF Right
  <2> QED
    BY <2>4
<1>3. n + 1 \in D
  <2>1. n + 1 \in Nat
    OBVIOUS
  <2> HIDE DEF D
  <2> QED
    BY <1>1, <1>2, <2>1, Induct
<1>4. PICK g \in [0..n -> V] : Right(g, n + 1)
  BY <1>3
<1>5. \A k \in 0..n : g[k] = H[g][k]
  BY <1>4
<1>6. H[g] \in [0..n -> V]
  OBVIOUS
<1> QED
  BY <1>5, <1>6

-----------------------------------------------------------------------------
(* The two walks over the flash as functions of it.                        *)
ScanStep(f, g) ==
    [end \in 0..Size |->
        IF end = Size THEN -1
        ELSE IF f[end] = Erased THEN end
        ELSE IF ~SizeOK(f[end]) \/ end + 1 = Size \/ ~SizeOK(f[end + 1]) THEN -1
        ELSE LET next == NextEntry(end, f[end], f[end + 1])
             IN IF next > Size THEN -1 ELSE g[next]]

Scan(f) == CHOOSE g : g = ScanStep(f, g)

Found(f, end) ==
    [k_sz |-> f[end], v_sz |-> f[end + 1],
     words |-> {f[a] : a \in end + 2..NextEntry(end, f[end], f[end + 1]) - 2}]

WalkStep(f, g) ==
    [end \in 0..Size |->
        IF \/ end + 1 >= Size \/ ~SizeOK(f[end]) \/ ~SizeOK(f[end + 1])
           \/ NextEntry(end, f[end], f[end + 1]) > Size
        THEN <<>>
        ELSE LET next == NextEntry(end, f[end], f[end + 1])
             IN IF f[next - 1] # 0 THEN g[next] ELSE <<Found(f, end)>> \o g[next]]

Active(f) == CHOOSE g : g = WalkStep(f, g)

LEMMA ScanEndIs == ScanEnd = Scan(flash)[0]
BY DEF ScanEnd, Scan, ScanStep

LEMMA ActiveEntriesIs == ActiveEntries = Active(flash)[0]
BY DEF ActiveEntries, Active, WalkStep, Found

LEMMA SizeIsNat == Size \in Nat /\ MaxBody \in Nat /\ SectorSize \in Nat \ {0}
BY SizeAssumption

LEMMA NextIsAbove ==
    ASSUME NEW f, NEW end \in 0..Size, SizeOK(f[end]), SizeOK(f[end + 1])
    PROVE  /\ NextEntry(end, f[end], f[end + 1]) \in Nat
           /\ NextEntry(end, f[end], f[end + 1]) >= end + 3
           /\ NextEntry(end, f[end], f[end + 1]) = end + 2 + f[end] + f[end + 1] + 1
BY SizeIsNat DEF NextEntry, SizeOK

LEMMA NextWithin ==
    ASSUME NEW f, NEW end \in 0..Size, SizeOK(f[end]), SizeOK(f[end + 1]),
           ~(NextEntry(end, f[end], f[end + 1]) > Size)
    PROVE  /\ NextEntry(end, f[end], f[end + 1]) \in end + 1..Size
           /\ NextEntry(end, f[end], f[end + 1]) \in 0..Size
           /\ NextEntry(end, f[end], f[end + 1]) >= end + 3
           /\ NextEntry(end, f[end], f[end + 1]) = end + 2 + f[end] + f[end + 1] + 1
BY NextIsAbove, SizeIsNat

ScanRange == 0..Size \cup {-1}

LEMMA ScanDefined ==
    ASSUME NEW f
    PROVE  Scan(f) = ScanStep(f, Scan(f))
<1> DEFINE V == ScanRange
           H == [g \in [0..Size -> V] |-> ScanStep(f, g)]
<1>1. \A g \in [0..Size -> V] : ScanStep(f, g) \in [0..Size -> V]
  <2> SUFFICES ASSUME NEW g \in [0..Size -> V], NEW end \in 0..Size
               PROVE  ScanStep(f, g)[end] \in V
    BY DEF ScanStep
  <2>1. end \in V /\ -1 \in V
    BY DEF ScanRange
  <2>2. ASSUME SizeOK(f[end]), SizeOK(f[end + 1]),
               ~(NextEntry(end, f[end], f[end + 1]) > Size)
        PROVE  g[NextEntry(end, f[end], f[end + 1])] \in V
    <3>1. NextEntry(end, f[end], f[end + 1]) \in 0..Size
      BY <2>2, NextWithin
    <3> HIDE DEF V
    <3> QED
      BY <3>1
  <2> HIDE DEF V
  <2> QED
    BY <2>1, <2>2 DEF ScanStep
<1>2. H \in [[0..Size -> V] -> [0..Size -> V]]
  BY <1>1
<1>3. ASSUME NEW g \in [0..Size -> V], NEW h \in [0..Size -> V], NEW k \in 0..Size,
             \A j \in k + 1..Size : g[j] = h[j]
      PROVE  H[g][k] = H[h][k]
  <2>1. ASSUME SizeOK(f[k]), SizeOK(f[k + 1]), ~(NextEntry(k, f[k], f[k + 1]) > Size)
        PROVE  g[NextEntry(k, f[k], f[k + 1])] = h[NextEntry(k, f[k], f[k + 1])]
    <3>1. NextEntry(k, f[k], f[k + 1]) \in k + 1..Size
      BY <2>1, NextWithin
    <3> QED
      BY <1>3, <3>1
  <2> QED
    BY <2>1 DEF ScanStep
<1>a. -1 \in V
  BY DEF ScanRange
<1> HIDE DEF H, V
<1>b. V # {}
  BY <1>a
<1>c. Downward(Size, V, H)
  BY <1>2, <1>3 DEF Downward
<1>4. FixedPoint(Size, V, H)
  BY <1>b, <1>c, SizeIsNat, DownwardRecursion
<1>5. \E g : g = ScanStep(f, g)
  BY <1>4 DEF H, FixedPoint
<1>6. Scan(f) = ScanStep(f, Scan(f))
  BY <1>5 DEF Scan
<1> QED
  BY <1>6

(* What scan_end() does with a word.                                       *)
HasHeader(f, end) ==
    /\ end + 1 < Size /\ SizeOK(f[end]) /\ SizeOK(f[end + 1])
    /\ NextEntry(end, f[end], f[end + 1]) <= Size

LEMMA ScanIs ==
    ASSUME NEW f, NEW end \in 0..Size
    PROVE  /\ end = Size => Scan(f)[end] = -1
           /\ end # Size /\ f[end] = Erased => Scan(f)[end] = end
           /\ end # Size /\ f[end] # Erased /\ ~HasHeader(f, end) => Scan(f)[end] = -1
           /\ end # Size /\ f[end] # Erased /\ HasHeader(f, end)
                => Scan(f)[end] = Scan(f)[NextEntry(end, f[end], f[end + 1])]
<1>1. Scan(f)[end] = ScanStep(f, Scan(f))[end]
  BY ScanDefined
<1>2. end # Size => (end + 1 < Size <=> end + 1 # Size)
  BY SizeIsNat
<1>3. SizeOK(f[end]) /\ SizeOK(f[end + 1])
        => (NextEntry(end, f[end], f[end + 1]) <= Size
              <=> ~(NextEntry(end, f[end], f[end + 1]) > Size))
  BY NextIsAbove, SizeIsNat
<1> QED
  BY <1>1, <1>2, <1>3 DEF ScanStep, HasHeader

LEMMA HeaderNext ==
    ASSUME NEW f, NEW end \in 0..Size, HasHeader(f, end)
    PROVE  LET next == NextEntry(end, f[end], f[end + 1])
           IN /\ next \in end + 1..Size /\ next \in 0..Size /\ next >= end + 3
              /\ next = end + 2 + f[end] + f[end + 1] + 1
<1>1. /\ NextEntry(end, f[end], f[end + 1]) \in Nat
      /\ NextEntry(end, f[end], f[end + 1]) <= Size
  BY NextIsAbove DEF HasHeader
<1> QED
  BY <1>1, NextIsAbove, SizeIsNat DEF HasHeader

LEMMA ScanInRange == ASSUME NEW f, NEW end \in 0..Size PROVE Scan(f)[end] \in ScanRange
<1> DEFINE S == {k \in 0..Size : Scan(f)[k] \in ScanRange}
<1>1. ASSUME NEW k \in 0..Size, \A j \in k + 1..Size : j \in S PROVE k \in S
  <2>1. k \in ScanRange /\ -1 \in ScanRange
    BY DEF ScanRange
  <2>2. ASSUME HasHeader(f, k) PROVE NextEntry(k, f[k], f[k + 1]) \in S
    BY <1>1, <2>2, HeaderNext
  <2> QED
    BY <2>1, <2>2, ScanIs
<1> HIDE DEF S
<1>2. 0..Size \subseteq S
  BY <1>1, SizeIsNat, DownInduct
<1> QED
  BY <1>2 DEF S

-----------------------------------------------------------------------------
(* The walk of the payload is defined in the same way.                     *)
FoundIn(f) == {Found(f, end) : end \in 0..Size}

LEMMA ActiveDefined == ASSUME NEW f PROVE Active(f) = WalkStep(f, Active(f))
<1> DEFINE V == Seq(FoundIn(f))
           H == [g \in [0..Size -> V] |-> WalkStep(f, g)]
<1>1. ASSUME NEW g \in [0..Size -> V], NEW end \in 0..Size PROVE WalkStep(f, g)[end] \in V
  <2>1. <<>> \in V
    OBVIOUS
  <2>2. <<Found(f, end)>> \in V
    <3>1. Found(f, end) \in FoundIn(f)
      BY DEF FoundIn
    <3> QED
      BY <3>1
  <2>3. \A v \in V : <<Found(f, end)>> \o v \in V
    BY <2>2, ConcatProperties
  <2> HIDE DEF V
  <2>4. ASSUME SizeOK(f[end]), SizeOK(f[end + 1]),
               ~(NextEntry(end, f[end], f[end + 1]) > Size)
        PROVE  g[NextEntry(end, f[end], f[end + 1])] \in V
    BY <2>4, NextWithin
  <2> QED
    BY <2>1, <2>3, <2>4 DEF WalkStep
<1> HIDE DEF V
<1>2. \A g \in [0..Size -> V] : WalkStep(f, g) \in [0..Size -> V]
  BY <1>1 DEF WalkStep
<1>3. H \in [[0..Size -> V] -> [0..Size -> V]]
  BY <1>2
<1>4. ASSUME NEW g \in [0..Size -> V], NEW h \in [0..Size -> V], NEW k \in 0..Size,
             \A j \in k + 1..Size : g[j] = h[j]
      PROVE  H[g][k] = H[h][k]
  <2>1. ASSUME SizeOK(f[k]), SizeOK(f[k + 1]), ~(NextEntry(k, f[k], f[k + 1]) > Size)
        PROVE  g[NextEntry(k, f[k], f[k + 1])] = h[NextEntry(k, f[k], f[k + 1])]
    <3>1. NextEntry(k, f[k], f[k + 1]) \in k + 1..Size
      BY <2>1, NextWithin
    <3> QED
      BY <1>4, <3>1
  <2> QED
    BY <2>1 DEF WalkStep
<1>5. V # {}
  <2>1. <<>> \in V
    BY DEF V
  <2> QED
    BY <2>1
<1> HIDE DEF H
<1>6. Downward(Size, V, H)
  BY <1>3, <1>4 DEF Downward
<1>7. FixedPoint(Size, V, H)
  BY <1>5, <1>6, SizeIsNat, DownwardRecursion
<1>8. \E g : g = WalkStep(f, g)
  BY <1>7 DEF H, FixedPoint
<1> QED
  BY <1>8 DEF Active

LEMMA ActiveIs ==
    ASSUME NEW f, NEW end \in 0..Size
    PROVE  /\ ~HasHeader(f, end) => Active(f)[end] = <<>>
           /\ HasHeader(f, end)
                => LET next == NextEntry(end, f[end], f[end + 1])
                   IN Active(f)[end] = IF f[next - 1] # 0 THEN Active(f)[next]
                                       ELSE <<Found(f, end)>> \o Active(f)[next]
<1>1. Active(f)[end] = WalkStep(f, Active(f))[end]
  BY ActiveDefined
<1>2. end + 1 < Size <=> ~(end + 1 >= Size)
  BY SizeIsNat
<1>3. SizeOK(f[end]) /\ SizeOK(f[end + 1])
        => (NextEntry(end, f[end], f[end + 1]) <= Size
              <=> ~(NextEntry(end, f[end], f[end + 1]) > Size))
  BY NextIsAbove, SizeIsNat
<1> QED
  BY <1>1, <1>2, <1>3 DEF WalkStep, HasHeader

LEMMA ActiveIsSeq ==
    ASSUME NEW f, NEW end \in 0..Size
    PROVE  Active(f)[end] \in Seq(FoundIn(f))
<1> DEFINE S == {k \in 0..Size : Active(f)[k] \in Seq(FoundIn(f))}
<1>1. ASSUME NEW k \in 0..Size, \A j \in k + 1..Size : j \in S PROVE k \in S
  <2>1. <<>> \in Seq(FoundIn(f))
    OBVIOUS
  <2>2. CASE ~HasHeader(f, k)
    BY <2>1, <2>2, ActiveIs
  <2>3. CASE HasHeader(f, k)
    <3>1. PICK v \in Seq(FoundIn(f)) : v = Active(f)[NextEntry(k, f[k], f[k + 1])]
      BY <1>1, <2>3, HeaderNext
    <3>2. <<Found(f, k)>> \in Seq(FoundIn(f))
      BY DEF FoundIn
    <3>3. <<Found(f, k)>> \o v \in Seq(FoundIn(f))
      BY <3>2, ConcatProperties
    <3> QED
      BY <2>3, <3>1, <3>3, ActiveIs
  <2> QED
    BY <2>2, <2>3
<1> HIDE DEF S
<1>2. 0..Size \subseteq S
  BY <1>1, SizeIsNat, DownInduct
<1> QED
  BY <1>2 DEF S

-----------------------------------------------------------------------------
Regroups(u, v, w) == (u \o v) \o w = u \o (v \o w)

LEMMA Regrouped ==
    ASSUME NEW U, NEW u \in Seq(U), NEW v \in Seq(U), NEW w \in Seq(U)
    PROVE  Regroups(u, v, w)
BY ConcatAssociative DEF Regroups

SameBelow(f, g, s) == \A a \in 0..s - 1 : f[a] = g[a]

EndsAt(f, p, s) == Scan(f)[p] = s

GoesOn(f, g, s, p) ==
    /\ Scan(g)[p] = Scan(g)[s]
    /\ Active(g)[p] = Active(f)[p] \o Active(g)[s]

(* Where the scan of f ends, at s, the walk over any flash that is like f  *)
(* below s has found what it finds in f, and goes on at s.                 *)
LEMMA Continues ==
    ASSUME NEW f, NEW g, NEW s \in 0..Size, SameBelow(f, g, s),
           NEW p \in 0..Size, EndsAt(f, p, s)
    PROVE  GoesOn(f, g, s, p)
<1> DEFINE Good(k) == Scan(f)[k] = s =>
                        /\ k <= s
                        /\ Scan(g)[k] = Scan(g)[s]
                        /\ Active(g)[k] = Active(f)[k] \o Active(g)[s]
           S == {k \in 0..Size : Good(k)}
<1>1. ASSUME NEW k \in 0..Size, \A j \in k + 1..Size : j \in S PROVE k \in S
  <2> SUFFICES ASSUME Scan(f)[k] = s
               PROVE  /\ k <= s
                      /\ Scan(g)[k] = Scan(g)[s]
                      /\ Active(g)[k] = Active(f)[k] \o Active(g)[s]
    OBVIOUS
  <2>1. k # Size
    BY ScanIs
  <2>2. CASE f[k] = Erased
    <3>1. k = s
      BY <2>1, <2>2, ScanIs
    <3>2. ~HasHeader(f, k)
      BY <2>2 DEF HasHeader, SizeOK, Erased
    <3>3. Active(f)[k] = <<>>
      BY <3>2, ActiveIs
    <3>4. <<>> \o Active(g)[s] = Active(g)[s]
      BY ActiveIsSeq, ConcatEmptySeq
    <3> QED
      BY <3>1, <3>3, <3>4
  <2>3. CASE f[k] # Erased
    <3>1. HasHeader(f, k)
      BY <2>1, <2>3, ScanIs
    <3>2. PICK next \in 0..Size : next = NextEntry(k, f[k], f[k + 1])
      BY <3>1, HeaderNext
    <3>3. next \in k + 1..Size /\ next >= k + 3 /\ next = k + 2 + f[k] + f[k + 1] + 1
      BY <3>1, <3>2, HeaderNext
    <3>4. Scan(f)[next] = s
      BY <2>1, <2>3, <3>1, <3>2, ScanIs
    <3>5. /\ next <= s
          /\ Scan(g)[next] = Scan(g)[s]
          /\ Active(g)[next] = Active(f)[next] \o Active(g)[s]
      BY <1>1, <3>3, <3>4
    <3>6. \A a \in k..next - 1 : f[a] = g[a]
      BY <3>3, <3>5 DEF SameBelow
    <3>7. f[k] = g[k] /\ f[k + 1] = g[k + 1] /\ f[next - 1] = g[next - 1]
      BY <3>3, <3>6
    <3>8. g[k] # Erased /\ HasHeader(g, k) /\ next = NextEntry(k, g[k], g[k + 1])
      BY <2>3, <3>1, <3>2, <3>7 DEF HasHeader
    <3>9. Found(g, k) = Found(f, k)
      <4>1. \A a \in k + 2..next - 2 : f[a] = g[a]
        BY <3>3, <3>6
      <4> QED
        BY <3>2, <3>7, <3>8, <4>1 DEF Found
    <3>10. Scan(g)[k] = Scan(g)[s]
      BY <2>1, <3>5, <3>8, ScanIs
    <3>11. Active(g)[k] = Active(f)[k] \o Active(g)[s]
      <4>1. CASE f[next - 1] # 0
        <5>1. Active(f)[k] = Active(f)[next]
          BY <3>1, <3>2, <4>1, ActiveIs
        <5>2. g[next - 1] # 0
          BY <3>7, <4>1
        <5>3. Active(g)[k] = Active(g)[next]
          BY <3>8, <5>2, ActiveIs
        <5> QED
          BY <3>5, <5>1, <5>3
      <4>2. CASE f[next - 1] = 0
        <5>a. Active(f)[k] = <<Found(f, k)>> \o Active(f)[next]
          BY <3>1, <3>2, <4>2, ActiveIs
        <5>b. g[next - 1] = 0
          BY <3>7, <4>2
        <5>1. Active(g)[k] = <<Found(f, k)>> \o Active(g)[next]
          BY <3>8, <3>9, <5>b, ActiveIs
        <5> DEFINE U == FoundIn(f) \cup FoundIn(g)
        <5>2. PICK u \in Seq(U), v \in Seq(U), w \in Seq(U) :
                 u = <<Found(f, k)>> /\ v = Active(f)[next] /\ w = Active(g)[s]
          <6>0. Found(f, k) \in U
            BY DEF FoundIn
          <6>1. <<Found(f, k)>> \in Seq(U)
            BY <6>0
          <6>2. Active(f)[next] \in Seq(FoundIn(f)) /\ Active(g)[s] \in Seq(FoundIn(g))
            BY ActiveIsSeq
          <6>3. \A x \in Seq(FoundIn(f)) : x \in Seq(U)
            OBVIOUS
          <6>4. \A x \in Seq(FoundIn(g)) : x \in Seq(U)
            OBVIOUS
          <6> QED
            BY <6>1, <6>2, <6>3, <6>4
        <5> HIDE DEF U
        <5>3. Regroups(u, v, w)
          BY Regrouped
        <5>4. u \o (v \o w) = (u \o v) \o w
          BY <5>3 DEF Regroups
        <5> QED
          BY <3>5, <5>a, <5>1, <5>2, <5>4
      <4> QED
        BY <4>1, <4>2
    <3> QED
      BY <3>3, <3>5, <3>10, <3>11
  <2> QED
    BY <2>2, <2>3
<1> HIDE DEF S
<1>2. 0..Size \subseteq S
  BY <1>1, SizeIsNat, DownInduct
<1> QED
  BY <1>2 DEF S, EndsAt, GoesOn

-----------------------------------------------------------------------------
(* Flash that is erased from s on.                                         *)
ErasedFrom(f, s) == \A a \in s..Size - 1 : f[a] = Erased

(* Where the scan ends, everything is erased.                              *)
Clean(f, p) == Scan(f)[p] # -1 => Scan(f)[p] \in 0..Size - 1 /\ ErasedFrom(f, Scan(f)[p])

LEMMA ErasedIsEnd ==
    ASSUME NEW f, NEW s \in 0..Size, ErasedFrom(f, s)
    PROVE  /\ Active(f)[s] = <<>>
           /\ Clean(f, s)
           /\ s # Size => Scan(f)[s] = s
<1>1. s # Size => s \in s..Size - 1 /\ s \in 0..Size - 1
  BY SizeIsNat
<1>2. s # Size => f[s] = Erased
  BY <1>1 DEF ErasedFrom
<1>3. ~HasHeader(f, s)
  BY <1>2, SizeIsNat DEF HasHeader, SizeOK, Erased
<1>4. s # Size => Scan(f)[s] = s
  BY <1>2, ScanIs
<1>5. s = Size => Scan(f)[s] = -1
  BY ScanIs
<1> QED
  BY <1>1, <1>3, <1>4, <1>5, ActiveIs DEF Clean

LEMMA WordsAre ==
    ASSUME NEW e \in Entry
    PROVE  LET n == e.k_sz + e.v_sz
           IN /\ n \in Nat /\ e.k_sz \in Nat /\ e.v_sz \in Nat
              /\ Len(EntryWords(e)) = n + 3
              /\ EntryWords(e)[1] = e.k_sz /\ EntryWords(e)[2] = e.v_sz
              /\ \A i \in 3..n + 2 : EntryWords(e)[i] = e.value
              /\ EntryWords(e)[n + 3] = 0
<1>1. e.k_sz \in Nat /\ e.v_sz \in Nat
  BY SizeIsNat DEF Entry
<1>2. PICK n \in Nat : n = e.k_sz + e.v_sz
  BY <1>1
<1> DEFINE head == <<e.k_sz, e.v_sz>>
           body == [i \in 1..n |-> e.value]
           W == {e.k_sz, e.v_sz, e.value, 0}
<1>3. head \in Seq(W) /\ Len(head) = 2 /\ head[1] = e.k_sz /\ head[2] = e.v_sz
  OBVIOUS
<1>4. body \in Seq(W) /\ Len(body) = n /\ \A i \in 1..n : body[i] = e.value
  BY <1>2
<1>5. <<0>> \in Seq(W) /\ Len(<<0>>) = 1 /\ <<0>>[1] = 0
  OBVIOUS
<1>6. EntryWords(e) = head \o body \o <<0>>
  BY <1>2 DEF EntryWords
<1> HIDE DEF head, body, W
<1>7. PICK h \in Seq(W) : h = head \o body
  BY <1>3, <1>4, ConcatProperties
<1>8. /\ Len(h) = n + 2 /\ h[1] = e.k_sz /\ h[2] = e.v_sz
      /\ \A i \in 3..n + 2 : h[i] = e.value
  <2>1. Len(h) = Len(head) + Len(body)
    BY <1>3, <1>4, <1>7, ConcatProperties
  <2>2. \A i \in 1..Len(head) + Len(body) :
          h[i] = IF i <= Len(head) THEN head[i] ELSE body[i - Len(head)]
    BY <1>3, <1>4, <1>7, ConcatProperties
  <2>3. \A i \in 3..n + 2 : i - 2 \in 1..n /\ i \in 1..n + 2 /\ ~(i <= 2)
    BY <1>2
  <2>4. 1 \in 1..2 + n /\ 2 \in 1..2 + n /\ 2 + n = n + 2
    BY <1>2
  <2> QED
    BY <1>3, <1>4, <2>1, <2>2, <2>3, <2>4
<1>9. PICK t \in Seq(W) : t = <<0>>
  BY <1>5
<1>10. EntryWords(e) = h \o t
  BY <1>6, <1>7, <1>9
<1>11. Len(EntryWords(e)) = n + 3
  BY <1>5, <1>8, <1>9, <1>10, ConcatProperties
<1>12. \A i \in 1..n + 3 : EntryWords(e)[i] = IF i <= n + 2 THEN h[i] ELSE t[i - (n + 2)]
  <2>1. Len(h) + Len(t) = n + 3
    BY <1>5, <1>8, <1>9
  <2> QED
    BY <1>8, <1>10, <2>1, ConcatProperties
<1>13. EntryWords(e)[n + 3] = 0
  <2>1. n + 3 \in 1..n + 3 /\ ~(n + 3 <= n + 2) /\ n + 3 - (n + 2) = 1
    BY <1>2
  <2> QED
    BY <1>5, <1>9, <1>12, <2>1
<1>14. \A i \in 1..n + 2 : EntryWords(e)[i] = h[i]
  BY <1>12
<1>15. 1 \in 1..n + 2 /\ 2 \in 1..n + 2
  OBVIOUS
<1>16. \A i \in 3..n + 2 : i \in 1..n + 2
  OBVIOUS
<1> QED
  BY <1>1, <1>2, <1>8, <1>11, <1>13, <1>14, <1>15, <1>16

(* A flash with the first n words of an entry at s, then word w, and       *)
(* nothing behind it.                                                      *)
Holds(f, s, e, n) == \A i \in 1..n : f[s + i - 1] = EntryWords(e)[i]

(* An entry that has not been written to its end is no entry for the       *)
(* payload, and scan_end() finds a free word behind it or gives up.        *)
LEMMA PartOfEntry ==
    ASSUME NEW f, NEW s \in 0..Size, NEW e \in Entry, s + Len(EntryWords(e)) <= Size,
           NEW n \in 0..Len(EntryWords(e)) - 1, Holds(f, s, e, n),
           f[s + n] \in {Erased, Garbage}, ErasedFrom(f, s + n + 1)
    PROVE  Active(f)[s] = <<>> /\ Clean(f, s)
<1>1. PICK k \in Nat, v \in Nat, len \in Nat :
         /\ k = e.k_sz /\ v = e.v_sz /\ len = k + v + 3 /\ len = Len(EntryWords(e))
         /\ EntryWords(e)[1] = k /\ EntryWords(e)[2] = v
  BY WordsAre
<1>a. len = k + v + 3 /\ s + len <= Size /\ n \in 0..len - 1
  BY <1>1
<1>b. Size \in Nat
  BY SizeIsNat
<1>2. s \in Nat /\ n \in Nat /\ n < len /\ s + len <= Size /\ s # Size
  BY <1>a, <1>b
<1>c. /\ k \in 0..Size /\ v \in 0..Size /\ k # -1
      /\ s + len \in 0..Size /\ s + 1 < Size /\ s + len >= s + n + 1
  BY <1>a, <1>b, <1>2
<1>3. CASE n = 0
  <2>1. f[s] \in {Erased, Garbage}
    BY <1>2, <1>3
  <2>2. ~HasHeader(f, s)
    BY <2>1, SizeIsNat DEF HasHeader, SizeOK, Erased, Garbage
  <2>3. CASE f[s] = Garbage
    <3>1. f[s] # Erased
      BY <2>3 DEF Erased, Garbage
    <3>2. Scan(f)[s] = -1
      BY <1>2, <2>2, <3>1, ScanIs
    <3>3. Active(f)[s] = <<>>
      BY <2>2, ActiveIs
    <3> QED
      BY <3>2, <3>3 DEF Clean
  <2>4. CASE f[s] = Erased
    <3>1. ErasedFrom(f, s)
      BY <1>2, <1>3, <2>4 DEF ErasedFrom
    <3> QED
      BY <3>1, ErasedIsEnd
  <2> QED
    BY <2>1, <2>3, <2>4
<1>4. ASSUME n # 0 PROVE f[s] = k /\ SizeOK(f[s]) /\ f[s] # Erased
  <2>1. 1 \in 1..n /\ s + 1 - 1 = s
    BY <1>2, <1>4
  <2>2. f[s] = k
    BY <1>1, <2>1 DEF Holds
  <2>3. k \in 0..Size /\ k # Erased
    BY <1>c DEF Erased
  <2> QED
    BY <2>2, <2>3 DEF SizeOK
<1>5. CASE n = 1
  <2>1. f[s + 1] \in {Erased, Garbage}
    BY <1>2, <1>5
  <2>2. ~HasHeader(f, s)
    BY <2>1, SizeIsNat DEF HasHeader, SizeOK, Erased, Garbage
  <2>3. Active(f)[s] = <<>> /\ Clean(f, s)
    <3>1. f[s] # Erased
      BY <1>4, <1>5
    <3>2. Scan(f)[s] = -1
      BY <1>2, <2>2, <3>1, ScanIs
    <3>3. Active(f)[s] = <<>>
      BY <2>2, ActiveIs
    <3> QED
      BY <3>2, <3>3 DEF Clean
  <2> QED
    BY <2>3
<1>6. CASE n >= 2
  <2>1. f[s + 1] = v /\ SizeOK(f[s + 1])
    <3>1. 2 \in 1..n /\ s + 2 - 1 = s + 1
      BY <1>2, <1>6
    <3>2. f[s + 1] = v
      BY <1>1, <3>1 DEF Holds
    <3>3. v \in 0..Size
      BY <1>c
    <3> QED
      BY <3>2, <3>3 DEF SizeOK
  <2>2. NextEntry(s, f[s], f[s + 1]) = s + len
    <3>1. f[s] = k /\ f[s + 1] = v
      BY <1>2, <1>4, <1>6, <2>1
    <3>2. s + 2 + k + v + 1 = s + len
      BY <1>a, <1>2
    <3> QED
      BY <3>1, <3>2 DEF NextEntry
  <2>3. s + len \in 0..Size /\ s + 1 < Size /\ s + len >= s + n + 1
    BY <1>c
  <2>4. HasHeader(f, s)
    BY <1>2, <1>4, <1>6, <2>1, <2>2, <2>3 DEF HasHeader
  <2>5. ErasedFrom(f, s + len)
    BY <1>2, <2>3 DEF ErasedFrom
  <2>6. f[s + len - 1] # 0
    <3>1. CASE n = len - 1
      <4>1. s + len - 1 = s + n
        BY <1>2, <3>1
      <4> QED
        BY <4>1 DEF Erased, Garbage
    <3>2. CASE n < len - 1
      <4>1. s + len - 1 \in s + n + 1..Size - 1
        BY <1>2, <3>2, SizeIsNat
      <4> QED
        BY <4>1 DEF ErasedFrom, Erased
    <3> QED
      BY <1>2, <3>1, <3>2
  <2>7. PICK next \in 0..Size : next = s + len
    BY <2>3
  <2>8. Active(f)[s] = Active(f)[next]
    <3>1. f[next - 1] # 0 /\ next = NextEntry(s, f[s], f[s + 1])
      BY <2>2, <2>6, <2>7
    <3> QED
      BY <2>4, <3>1, ActiveIs
  <2>9. Scan(f)[s] = Scan(f)[next]
    BY <1>2, <1>4, <1>6, <2>2, <2>4, <2>7, ScanIs
  <2> QED
    BY <2>5, <2>7, <2>8, <2>9, ErasedIsEnd DEF Clean
<1> QED
  BY <1>2, <1>3, <1>5, <1>6

(* An entry that has been written is found as it is.                       *)
LEMMA WholeEntry ==
    ASSUME NEW f, NEW s \in 0..Size, NEW e \in Entry, s + Len(EntryWords(e)) <= Size,
           Holds(f, s, e, Len(EntryWords(e))), ErasedFrom(f, s + Len(EntryWords(e)))
    PROVE  Active(f)[s] = <<AsFound(e)>> /\ Clean(f, s)
<1>1. PICK k \in Nat, v \in Nat, len \in Nat :
         /\ k = e.k_sz /\ v = e.v_sz /\ len = k + v + 3 /\ len = Len(EntryWords(e))
         /\ EntryWords(e)[1] = k /\ EntryWords(e)[2] = v /\ EntryWords(e)[len] = 0
         /\ \A i \in 3..len - 1 : EntryWords(e)[i] = e.value
  <2>1. e.k_sz \in Nat /\ e.v_sz \in Nat
    BY WordsAre
  <2>2. PICK k \in Nat, v \in Nat : k = e.k_sz /\ v = e.v_sz
    BY <2>1
  <2>3. PICK n \in Nat, len \in Nat : n = k + v /\ len = n + 3
    OBVIOUS
  <2>4. n = e.k_sz + e.v_sz /\ len = k + v + 3 /\ len - 1 = n + 2
    BY <2>2, <2>3
  <2>5. /\ len = Len(EntryWords(e)) /\ EntryWords(e)[1] = k /\ EntryWords(e)[2] = v
        /\ EntryWords(e)[len] = 0
        /\ \A i \in 3..n + 2 : EntryWords(e)[i] = e.value
    BY <2>2, <2>3, <2>4, WordsAre
  <2>6. \A i \in 3..len - 1 : EntryWords(e)[i] = e.value
    BY <2>4, <2>5
  <2> WITNESS k \in Nat, v \in Nat, len \in Nat
  <2> QED
    BY <2>2, <2>4, <2>5, <2>6
<1>a. len = k + v + 3 /\ s + len <= Size
  BY <1>1
<1>b. Size \in Nat
  BY SizeIsNat
<1>2. /\ s \in Nat /\ s + len <= Size /\ s # Size /\ s + len \in 0..Size /\ s + 1 < Size
      /\ k \in 0..Size /\ v \in 0..Size /\ k # -1
  BY <1>a, <1>b
<1>3. \A i \in 1..len : f[s + i - 1] = EntryWords(e)[i]
  BY <1>1 DEF Holds
<1>4. f[s] = k /\ f[s + 1] = v /\ f[s + len - 1] = 0
  <2>1. 1 \in 1..len /\ 2 \in 1..len /\ len \in 1..len /\ s + 1 - 1 = s /\ s + 2 - 1 = s + 1
    BY <1>a, <1>2
  <2> QED
    BY <1>1, <1>3, <2>1
<1>5. k \in 0..Size /\ v \in 0..Size /\ k # Erased
  BY <1>2 DEF Erased
<1>6. NextEntry(s, f[s], f[s + 1]) = s + len
  <2>1. s + 2 + k + v + 1 = s + len
    BY <1>a, <1>2
  <2> QED
    BY <1>4, <2>1 DEF NextEntry
<1>7. HasHeader(f, s) /\ f[s] # Erased
  BY <1>2, <1>4, <1>5, <1>6 DEF HasHeader, SizeOK
<1>8. PICK next \in 0..Size : next = s + len
  BY <1>2
<1>9. Active(f)[next] = <<>> /\ Clean(f, next)
  BY <1>1, <1>8, ErasedIsEnd
<1>10. Scan(f)[s] = Scan(f)[next]
  BY <1>2, <1>6, <1>7, <1>8, ScanIs
<1>11. Found(f, s) = AsFound(e)
  <2>1. \A a \in s + 2..s + len - 2 : f[a] = e.value
    <3> SUFFICES ASSUME NEW a \in s + 2..s + len - 2 PROVE f[a] = e.value
      OBVIOUS
    <3>1. PICK i \in 3..len - 1 : a = s + i - 1
      <4>1. a - s + 1 \in 3..len - 1 /\ a = s + (a - s + 1) - 1
        BY <1>1, <1>2
      <4> QED
        BY <4>1
    <3>2. i \in 1..len
      BY <1>1
    <3> QED
      BY <1>1, <1>3, <3>1, <3>2
  <2>2. {f[a] : a \in s + 2..s + len - 2} = IF k + v = 0 THEN {} ELSE {e.value}
    <3>1. CASE k + v = 0
      <4>1. s + 2..s + len - 2 = {}
        BY <1>a, <1>2, <3>1
      <4> QED
        BY <3>1, <4>1
    <3>2. CASE k + v # 0
      <4>1. s + 2 \in s + 2..s + len - 2
        BY <1>a, <1>2, <3>2
      <4> QED
        BY <2>1, <3>2, <4>1
    <3> QED
      BY <3>1, <3>2
  <2>3. s + len - 2 = NextEntry(s, f[s], f[s + 1]) - 2
    BY <1>6
  <2> QED
    BY <1>1, <1>4, <2>2, <2>3 DEF Found, AsFound
<1>12. Active(f)[s] = <<AsFound(e)>> \o Active(f)[next]
  <2>1. f[next - 1] = 0
    BY <1>4, <1>8
  <2> QED
    BY <1>6, <1>7, <1>8, <1>11, <2>1, ActiveIs
<1>13. <<AsFound(e)>> \o <<>> = <<AsFound(e)>>
  <2>1. <<AsFound(e)>> \in Seq({AsFound(e)})
    OBVIOUS
  <2> QED
    BY <2>1, ConcatEmptySeq
<1> QED
  BY <1>9, <1>10, <1>12, <1>13 DEF Clean

-----------------------------------------------------------------------------
(* The invariant of the store.  While an entry is being written, the flash *)
(* in front of it is what it was, and behind the words that have been      *)
(* written everything is erased.                                           *)
Listed(es) == [i \in DOMAIN es |-> AsFound(es[i])]

InFront == [a \in Address |-> IF a < start THEN flash[a] ELSE Erased]

Resting == Clean(flash, 0) /\ Active(flash)[0] = Listed(stored)

Writing ==
    /\ start # Size /\ Scan(InFront)[0] = start
    /\ Active(InFront)[0] = Listed(stored)
    /\ Holds(flash, start, entry, offset)
    /\ ErasedFrom(flash, start + offset)

StoreInv ==
    /\ StoreTypeOK
    /\ op = "none" => offset = 0
    /\ op = "append" => /\ entry \in Entry
                        /\ start + Len(EntryWords(entry)) <= Size
                        /\ offset < Len(EntryWords(entry))
    /\ op = "clear" => /\ stored = <<>>
                       /\ \A a \in 0..offset - 1 : flash[a] = Erased
    /\ op = "none" /\ ~unerased => Resting
    /\ op = "append" /\ ~unerased => Writing

StoreNext == StoreCommand \/ StoreStep \/ PowerLost

LEMMA ListedAppends ==
    ASSUME NEW es \in Seq(Entry), NEW e \in Entry
    PROVE  /\ Listed(Append(es, e)) = Listed(es) \o <<AsFound(e)>>
           /\ Listed(es) \o <<>> = Listed(es)
           /\ Listed(<<>>) = <<>>
<1> DEFINE F == {AsFound(x) : x \in Entry}
           n == Len(es)
<1>1. n \in Nat /\ DOMAIN es = 1..n /\ \A i \in 1..n : es[i] \in Entry
  OBVIOUS
<1>2. \A i \in 1..n : AsFound(es[i]) \in F
  BY <1>1
<1>3. AsFound(e) \in F
  OBVIOUS
<1> HIDE DEF F
<1>4. Listed(es) \in Seq(F) /\ Len(Listed(es)) = n
  BY <1>1, <1>2 DEF Listed
<1>5. <<AsFound(e)>> \in Seq(F) /\ Len(<<AsFound(e)>>) = 1 /\ <<AsFound(e)>>[1] = AsFound(e)
  BY <1>3
<1>6. Append(es, e) \in Seq(Entry) /\ Len(Append(es, e)) = n + 1
  OBVIOUS
<1>7. DOMAIN Append(es, e) = 1..n + 1
  BY <1>6
<1>8. \A i \in 1..n + 1 : Append(es, e)[i] = IF i <= n THEN es[i] ELSE e
  BY <1>1
<1> HIDE DEF n
<1>9. PICK t \in Seq(F) : t = <<AsFound(e)>>
  BY <1>5
<1>10. PICK l \in Seq(F) : l = Listed(es)
  BY <1>4
<1>11. /\ l \o t \in Seq(F) /\ Len(l \o t) = n + 1
       /\ \A i \in 1..n + 1 : (l \o t)[i] = IF i <= n THEN l[i] ELSE t[i - n]
  BY <1>4, <1>5, <1>9, <1>10, ConcatProperties
<1>12. PICK m : m = Listed(Append(es, e))
  OBVIOUS
<1>13. m = [i \in 1..n + 1 |-> AsFound(Append(es, e)[i])]
  BY <1>7, <1>12 DEF Listed
<1>14. \A i \in 1..n + 1 : m[i] = (l \o t)[i]
  <2> SUFFICES ASSUME NEW i \in 1..n + 1 PROVE m[i] = (l \o t)[i]
    OBVIOUS
  <2>1. CASE i <= n
    <3>1. i \in 1..n
      BY <1>1, <2>1
    <3>2. l[i] = AsFound(es[i])
      BY <1>1, <1>10, <3>1 DEF Listed
    <3> QED
      BY <1>8, <1>11, <1>13, <2>1, <3>2
  <2>2. CASE ~(i <= n)
    <3>1. i - n = 1
      BY <1>1, <2>2
    <3>2. t[i - n] = AsFound(e)
      BY <1>5, <1>9, <3>1
    <3> QED
      BY <1>8, <1>11, <1>13, <2>2, <3>2
  <2> QED
    BY <2>1, <2>2
<1>15. m = l \o t
  <2>1. \A i \in 1..n + 1 : AsFound(Append(es, e)[i]) \in F
    BY <1>1, <1>2, <1>3, <1>8
  <2>a. PICK k \in Nat : k = n + 1
    BY <1>1
  <2>b. m \in [1..k -> F]
    BY <1>13, <2>1, <2>a
  <2>c. \A q \in [1..k -> F] : q \in Seq(F) /\ Len(q) = k
    OBVIOUS
  <2>2. m \in Seq(F) /\ Len(m) = n + 1
    BY <2>a, <2>b, <2>c
  <2> QED
    BY <1>11, <1>14, <2>2, SeqEqual
<1>16. Listed(es) \o <<>> = Listed(es)
  BY <1>10, ConcatEmptySeq
<1>17. Listed(<<>>) = <<>>
  BY DEF Listed
<1> QED
  BY <1>9, <1>10, <1>12, <1>15, <1>16, <1>17

LEMMA WordsHaveType ==
    ASSUME NEW e \in Entry, NEW s \in 0..Size, s + Len(EntryWords(e)) <= Size
    PROVE  \A i \in 1..Len(EntryWords(e)) : EntryWords(e)[i] \in Word
<1>1. PICK n \in Nat : n = e.k_sz + e.v_sz
  BY WordsAre
<1>2. Len(EntryWords(e)) = n + 3
  BY <1>1, WordsAre
<1>3. e.k_sz \in 0..n /\ e.v_sz \in 0..n
  BY <1>1, WordsAre
<1>4. n <= Size
  BY <1>2, SizeIsNat
<1>5. e.k_sz \in 0..Size /\ e.v_sz \in 0..Size /\ 0 \in 0..Size
  BY <1>3, <1>4, SizeIsNat
<1>6. e.value \in Value
  BY DEF Entry
<1>7. /\ EntryWords(e)[1] = e.k_sz /\ EntryWords(e)[2] = e.v_sz
      /\ \A i \in 3..n + 2 : EntryWords(e)[i] = e.value
      /\ EntryWords(e)[n + 3] = 0
  BY <1>1, WordsAre
<1>8. ASSUME NEW i \in 1..n + 3 PROVE i = 1 \/ i = 2 \/ i \in 3..n + 2 \/ i = n + 3
  BY <1>1
<1>9. ASSUME NEW i \in 1..n + 3 PROVE EntryWords(e)[i] \in Word
  BY <1>5, <1>6, <1>7, <1>8 DEF Word
<1> QED
  BY <1>2, <1>9

LEMMA LongEnough ==
    ASSUME NEW e \in Entry
    PROVE  Len(EntryWords(e)) \in Nat /\ Len(EntryWords(e)) >= 3
<1>1. PICK n \in Nat : n = e.k_sz + e.v_sz
  BY WordsAre
<1>2. Len(EntryWords(e)) = n + 3
  BY <1>1, WordsAre
<1> QED
  BY <1>2

LEMMA InitStore == StoreInit => StoreInv
<1> SUFFICES ASSUME StoreInit PROVE StoreInv
  OBVIOUS
<1>1. flash \in [Address -> Word]
  BY DEF StoreInit, Word
<1>2. /\ entry \in Entry \cup {NoEntry} /\ start \in 0..Size /\ offset \in 0..Size
      /\ faults \in 0..MaxFaults /\ stored = <<>> /\ offset = 0 /\ op = "none"
  BY SizeIsNat, FaultAssumption DEF StoreInit
<1>3. stored \in Seq(Entry)
  BY <1>2
<1>4. StoreTypeOK
  BY <1>1, <1>2, <1>3 DEF StoreInit, StoreTypeOK
<1>5. ErasedFrom(flash, 0) /\ 0 \in 0..Size
  BY SizeIsNat DEF StoreInit, ErasedFrom, Address
<1>6. Listed(stored) = <<>>
  BY <1>2 DEF Listed
<1> QED
  BY <1>2, <1>4, <1>5, <1>6, ErasedIsEnd DEF StoreInv, Resting

(* The entries are where they were, in front of another flash.             *)
LEMMA FrontAgrees ==
    ASSUME NEW f, start \in 0..Size, \A a \in 0..start - 1 : f[a] = flash[a],
           Scan(InFront)[0] = start
    PROVE  /\ Scan(f)[0] = Scan(f)[start]
           /\ Active(f)[0] = Active(InFront)[0] \o Active(f)[start]
<1>1. PICK s \in 0..Size : s = start
  OBVIOUS
<1>2. \A a \in 0..s - 1 : a \in Address /\ a < s
  BY SizeIsNat DEF Address
<1>3. \A a \in 0..s - 1 : InFront[a] = f[a]
  BY <1>1, <1>2 DEF InFront
<1>4. 0 \in 0..Size
  BY SizeIsNat
<1>5. PICK h : h = InFront
  OBVIOUS
<1>6. EndsAt(h, 0, s) /\ SameBelow(h, f, s)
  BY <1>1, <1>3, <1>5 DEF SameBelow, EndsAt
<1>7. GoesOn(h, f, s, 0)
  BY <1>4, <1>6, Continues
<1> QED
  BY <1>1, <1>5, <1>7 DEF GoesOn

(* An entry that is not complete does not show: n words of it are there,   *)
(* and perhaps a part of the next.                                         *)
LEMMA PartDoesNotShow ==
    ASSUME StoreInv, op = "append", ~unerased, NEW f, NEW n \in Nat,
           n < Len(EntryWords(entry)),
           \A a \in 0..start - 1 : f[a] = flash[a],
           Holds(f, start, entry, n), f[start + n] \in {Erased, Garbage},
           ErasedFrom(f, start + n + 1)
    PROVE  Clean(f, 0) /\ Active(f)[0] = Listed(stored)
<1>1. Writing /\ entry \in Entry /\ stored \in Seq(Entry)
  BY DEF StoreInv, StoreTypeOK
<1>2. PICK s \in 0..Size, len \in Nat : s = start /\ len = Len(EntryWords(entry))
  BY <1>1, LongEnough DEF StoreInv, StoreTypeOK
<1>3. s + len <= Size /\ n \in 0..len - 1
  BY <1>2 DEF StoreInv
<1>4. /\ Scan(f)[0] = Scan(f)[s]
      /\ Active(f)[0] = Listed(stored) \o Active(f)[s]
  BY <1>1, <1>2, FrontAgrees DEF Writing
<1>5. Active(f)[s] = <<>> /\ Clean(f, s)
  BY <1>1, <1>2, <1>3, PartOfEntry
<1> QED
  BY <1>1, <1>4, <1>5, ListedAppends DEF Clean

LEMMA AppendDataStep ==
    ASSUME StoreInv, NEW e \in Entry, AppendData(e)
    PROVE  StoreInv'
<1>1. /\ op = "none" /\ offset = 0 /\ StoreTypeOK
      /\ UNCHANGED <<flash, offset, stored, unerased, faults>>
  BY DEF AppendData, StoreInv
<1>2. CASE ~Fits(ScanEnd, e)
  <2>1. result' = "failure" /\ UNCHANGED <<op, entry, start>>
    BY <1>2 DEF AppendData
  <2> QED
    BY <1>1, <2>1 DEF StoreInv, StoreTypeOK, Resting, Clean, ErasedFrom
<1>3. CASE Fits(ScanEnd, e)
  <2>1. op' = "append" /\ entry' = e /\ start' = ScanEnd /\ result' = result
    BY <1>3 DEF AppendData
  <2>2. PICK s \in 0..Size : s = ScanEnd /\ s + Len(EntryWords(e)) <= Size
    <3>1. Scan(flash)[0] \in ScanRange
      BY ScanInRange, SizeIsNat
    <3> QED
      BY <1>3, <3>1, ScanEndIs DEF Fits, ScanRange
  <2>3. StoreTypeOK'
    BY <1>1, <2>1, <2>2 DEF StoreTypeOK
  <2>4. 0 < Len(EntryWords(e)) /\ s + Len(EntryWords(e)) \in Nat /\ s # Size
    BY <2>2, LongEnough, SizeIsNat
  <2>5. ASSUME ~unerased PROVE Writing'
    <3>1. Clean(flash, 0) /\ Active(flash)[0] = Listed(stored)
      BY <1>1, <2>5 DEF StoreInv, Resting
    <3>2. Scan(flash)[0] = s /\ ErasedFrom(flash, s)
      BY <2>2, <3>1, ScanEndIs DEF Clean
    <3>3. flash = [a \in Address |-> IF a < s THEN flash[a] ELSE Erased]
      <4>1. \A a \in Address : ~(a < s) => a \in s..Size - 1
        BY SizeIsNat DEF Address
      <4>2. flash = [a \in Address |-> flash[a]]
        BY <1>1 DEF StoreTypeOK
      <4> QED
        BY <3>2, <4>1, <4>2 DEF ErasedFrom
    <3>4. InFront' = flash
      BY <1>1, <2>1, <2>2, <3>3 DEF InFront
    <3>5. Holds(flash, s, e, 0)
      BY DEF Holds
    <3>6. s + 0 = s
      OBVIOUS
    <3> QED
      BY <1>1, <2>1, <2>2, <2>4, <3>1, <3>2, <3>4, <3>5, <3>6
      DEF Writing, Holds, ErasedFrom
  <2> QED
    BY <1>1, <2>1, <2>2, <2>3, <2>4, <2>5 DEF StoreInv
<1> QED
  BY <1>2, <1>3

LEMMA ClearRegionStep == ASSUME StoreInv, ClearRegion PROVE StoreInv'
<1>1. /\ op' = "clear" /\ stored' = <<>> /\ offset = 0
      /\ UNCHANGED <<flash, entry, start, offset, result, unerased, faults>>
  BY DEF ClearRegion, StoreInv
<1>2. StoreTypeOK'
  BY <1>1 DEF StoreInv, StoreTypeOK
<1>3. 0..offset' - 1 = {}
  BY <1>1
<1> QED
  BY <1>1, <1>2, <1>3 DEF StoreInv

(* Where the next word goes.                                               *)
LEMMA NextWord ==
    ASSUME StoreInv, op = "append"
    PROVE  /\ start \in 0..Size /\ offset \in Nat /\ entry \in Entry
           /\ Len(EntryWords(entry)) \in Nat
           /\ start + offset \in Address /\ offset + 1 \in 1..Len(EntryWords(entry))
           /\ start + offset < start + Len(EntryWords(entry))
           /\ start + Len(EntryWords(entry)) <= Size
           /\ EntryWords(entry)[offset + 1] \in Word
<1>1. PICK s \in 0..Size, n \in 0..Size, len \in Nat :
         s = start /\ n = offset /\ len = Len(EntryWords(entry))
  BY LongEnough DEF StoreInv, StoreTypeOK
<1>2. entry \in Entry /\ s + len <= Size /\ n < len
  BY <1>1 DEF StoreInv
<1>3. Size \in Nat
  BY SizeIsNat
<1>4. s + n \in 0..Size - 1 /\ n + 1 \in 1..len /\ s + n < s + len
  BY <1>1, <1>2, <1>3
<1>5. EntryWords(entry)[n + 1] \in Word
  BY <1>1, <1>2, <1>4, WordsHaveType
<1> QED
  BY <1>1, <1>2, <1>4, <1>5 DEF Address

(* What the write of a word leaves when it takes effect.                   *)
LEMMA OneMoreWord ==
    ASSUME StoreInv, op = "append", NEW f, f = WordWritten,
           NEW s, NEW n, NEW e, s = start, n = offset, e = entry
    PROVE  /\ f \in [Address -> Word]
           /\ ~unerased => /\ Writing
                           /\ Holds(f, s, e, n + 1)
                           /\ ErasedFrom(f, s + (n + 1))
                           /\ \A a \in 0..s - 1 : f[a] = flash[a]
<1>1. StoreTypeOK
  BY DEF StoreInv
<1>2. PICK len \in Nat : len = Len(EntryWords(e))
  BY NextWord
<1>3. /\ s \in 0..Size /\ n \in Nat /\ e \in Entry
      /\ s + n \in 0..Size - 1 /\ n + 1 \in 1..len /\ s + len <= Size
      /\ EntryWords(e)[n + 1] \in Word
  BY <1>2, NextWord DEF Address
<1>4. Size \in Nat
  BY SizeIsNat
<1>5. PICK w \in Word : /\ w = Program(flash[s + n], EntryWords(e)[n + 1])
                        /\ flash[s + n] = Erased => w = EntryWords(e)[n + 1]
  BY <1>3 DEF Program, Word
<1>6. f = [flash EXCEPT ![s + n] = w]
  BY <1>5 DEF WordWritten
<1>7. /\ f \in [Address -> Word] /\ f[s + n] = w
      /\ \A a \in Address : a # s + n => f[a] = flash[a]
  BY <1>1, <1>3, <1>6 DEF StoreTypeOK, Address
<1>8. ASSUME ~unerased
      PROVE  /\ Writing
             /\ Holds(f, s, e, n + 1)
             /\ ErasedFrom(f, s + (n + 1))
             /\ \A a \in 0..s - 1 : f[a] = flash[a]
  <2>1. Writing
    BY <1>8 DEF StoreInv
  <2>2. ErasedFrom(flash, s + n) /\ Holds(flash, s, e, n)
    BY <2>1 DEF Writing
  <2>3. f[s + n] = EntryWords(e)[n + 1]
    <3>1. s + n \in s + n..Size - 1
      BY <1>3
    <3> QED
      BY <1>5, <1>7, <2>2, <3>1 DEF ErasedFrom
  <2>4. ASSUME NEW i \in 1..n + 1 PROVE f[s + i - 1] = EntryWords(e)[i]
    <3>1. CASE i = n + 1
      <4>1. s + i - 1 = s + n
        BY <1>3, <3>1
      <4> QED
        BY <2>3, <3>1, <4>1
    <3>2. CASE i # n + 1
      <4>1. i \in 1..n /\ s + i - 1 \in 0..Size - 1 /\ s + i - 1 # s + n
        BY <1>3, <1>4, <3>2
      <4> QED
        BY <1>7, <2>2, <4>1 DEF Holds, Address
    <3> QED
      BY <3>1, <3>2
  <2>5. ASSUME NEW a \in s + (n + 1)..Size - 1 PROVE f[a] = Erased
    <3>1. a \in s + n..Size - 1 /\ a \in 0..Size - 1 /\ a # s + n
      BY <1>3, <1>4
    <3> QED
      BY <1>7, <2>2, <3>1 DEF ErasedFrom, Address
  <2>6. ASSUME NEW a \in 0..s - 1 PROVE f[a] = flash[a]
    <3>1. a \in 0..Size - 1 /\ a # s + n
      BY <1>3, <1>4
    <3> QED
      BY <1>7, <3>1 DEF Address
  <2> QED
    BY <2>1, <2>4, <2>5, <2>6 DEF Holds, ErasedFrom
<1> QED
  BY <1>7, <1>8

(* The write of a word has taken effect, whatever is reported of it: the   *)
(* entry shows if it was the last.                                         *)
LEMMA WordShows ==
    ASSUME StoreInv, op = "append", ~unerased, NEW f, f = WordWritten,
           NEW es, es = MarkedActive
    PROVE  Clean(f, 0) /\ Active(f)[0] = Listed(es)
<1>1. Writing /\ stored \in Seq(Entry)
  BY DEF StoreInv, StoreTypeOK
<1>2. PICK s \in 0..Size, n \in Nat, len \in Nat, e \in Entry :
         s = start /\ n = offset /\ e = entry /\ len = Len(EntryWords(e))
  BY NextWord
<1>3. /\ s + n \in 0..Size - 1 /\ n + 1 \in 1..len /\ s + len <= Size
  BY <1>2, NextWord DEF Address
<1>4. /\ Holds(f, s, e, n + 1) /\ ErasedFrom(f, s + (n + 1))
      /\ \A a \in 0..s - 1 : f[a] = flash[a]
  BY <1>2, OneMoreWord
<1>5. Size \in Nat
  BY SizeIsNat
<1>6. CASE LastWord
  <2>1. n + 1 = len /\ es = Append(stored, e)
    BY <1>2, <1>6 DEF LastWord, MarkedActive
  <2>2. Holds(f, s, e, len) /\ ErasedFrom(f, s + len)
    BY <1>4, <2>1
  <2>3. Active(f)[s] = <<AsFound(e)>> /\ Clean(f, s)
    BY <1>2, <1>3, <2>2, WholeEntry
  <2>4. /\ Scan(f)[0] = Scan(f)[s]
        /\ Active(f)[0] = Listed(stored) \o Active(f)[s]
    BY <1>1, <1>2, <1>4, FrontAgrees DEF Writing
  <2> QED
    BY <1>1, <2>1, <2>3, <2>4, ListedAppends DEF Clean
<1>7. CASE ~LastWord
  <2>1. n + 1 < len /\ es = stored
    BY <1>2, <1>3, <1>7 DEF LastWord, MarkedActive
  <2>2. PICK m \in Nat : m = n + 1
    BY <1>3
  <2>3. /\ s + m \in s + m..Size - 1
        /\ \A a \in s + m + 1..Size - 1 : a \in s + m..Size - 1
    BY <1>3, <1>5, <2>1, <2>2
  <2>4. Holds(f, s, e, m) /\ f[s + m] = Erased /\ ErasedFrom(f, s + m + 1)
    BY <1>4, <2>2, <2>3 DEF ErasedFrom
  <2> QED
    BY <1>2, <1>4, <2>1, <2>2, <2>4, PartDoesNotShow
<1> QED
  BY <1>6, <1>7

LEMMA MarkedHasType ==
    ASSUME StoreInv, op = "append" PROVE MarkedActive \in Seq(Entry)
<1>1. stored \in Seq(Entry) /\ entry \in Entry
  BY DEF StoreInv, StoreTypeOK
<1>2. Append(stored, entry) \in Seq(Entry)
  BY <1>1
<1> QED
  BY <1>1, <1>2 DEF MarkedActive

LEMMA WriteWordStep == ASSUME StoreInv, WriteWord PROVE StoreInv'
<1>1. /\ op = "append" /\ UNCHANGED <<unerased, faults>> /\ StoreTypeOK
      /\ flash' = WordWritten /\ stored' = MarkedActive
  BY DEF WriteWord, StoreInv
<1>2. PICK s \in 0..Size, n \in Nat, len \in Nat, e \in Entry :
         s = start /\ n = offset /\ e = entry /\ len = Len(EntryWords(e))
  BY <1>1, NextWord
<1>3. s + n \in 0..Size - 1 /\ n + 1 \in 1..len /\ s + len <= Size
  BY <1>1, <1>2, NextWord DEF Address
<1>4. Size \in Nat /\ 0 \in 0..Size
  BY SizeIsNat
<1>5. PICK f : f = flash'
  OBVIOUS
<1>6. f \in [Address -> Word] /\ stored' \in Seq(Entry)
  BY <1>1, <1>2, <1>5, OneMoreWord, MarkedHasType
<1>7. CASE ~LastWord
  <2>1. /\ offset' = n + 1 /\ UNCHANGED <<op, entry, start, result, stored>>
        /\ n + 1 < len
    BY <1>1, <1>2, <1>3, <1>7 DEF WriteWord, LastWord, MarkedActive
  <2>2. n + 1 \in 0..Size
    BY <1>3, <1>4, <2>1
  <2>3. StoreTypeOK'
    BY <1>1, <1>5, <1>6, <2>1, <2>2 DEF StoreTypeOK
  <2>4. ASSUME ~unerased PROVE Writing'
    <3>1. /\ Writing /\ Holds(f, s, e, n + 1) /\ ErasedFrom(f, s + (n + 1))
          /\ \A a \in 0..s - 1 : f[a] = flash[a]
      BY <1>1, <1>2, <1>5, <2>4, OneMoreWord
    <3>2. InFront' = InFront
      <4>1. \A a \in Address : a < s => a \in 0..s - 1
        BY DEF Address
      <4>2. \A a \in Address : a < s => f[a] = flash[a]
        BY <3>1, <4>1
      <4> QED
        BY <1>2, <1>5, <2>1, <4>2 DEF InFront
    <3>3. start # Size /\ Scan(InFront)[0] = start /\ Active(InFront)[0] = Listed(stored)
      BY <3>1 DEF Writing
    <3> QED
      BY <1>2, <1>5, <2>1, <3>1, <3>2, <3>3 DEF Writing, Holds, ErasedFrom
  <2> QED
    BY <1>1, <1>2, <1>3, <2>1, <2>3, <2>4 DEF StoreInv
<1>8. CASE LastWord
  <2>1. EndCommand("success")
    BY <1>8 DEF WriteWord
  <2>2. StoreTypeOK'
    BY <1>1, <1>4, <1>5, <1>6, <2>1 DEF StoreTypeOK, EndCommand
  <2>3. ASSUME ~unerased PROVE Clean(f, 0) /\ Active(f)[0] = Listed(stored')
    BY <1>1, <1>5, <2>3, WordShows
  <2>4. ~unerased' => Resting'
    BY <1>1, <1>5, <2>3 DEF Resting, Clean, ErasedFrom, Listed
  <2> QED
    BY <2>1, <2>2, <2>4 DEF StoreInv, EndCommand
<1> QED
  BY <1>7, <1>8

LEMMA EraseSectorStep == ASSUME StoreInv, EraseSector PROVE StoreInv'
<1>1. /\ op = "clear" /\ UNCHANGED <<stored, faults>> /\ StoreTypeOK /\ stored = <<>>
      /\ \A a \in 0..offset - 1 : flash[a] = Erased
  BY DEF EraseSector, StoreInv
<1>2. PICK n \in 0..Size : n = offset
  BY <1>1 DEF StoreTypeOK
<1>3. Size \in Nat /\ SectorSize \in Nat \ {0}
  BY SizeIsNat
<1>4. PICK f : f = flash'
  OBVIOUS
<1>5. f = [a \in Address |-> IF a \in n..n + SectorSize - 1 THEN Erased ELSE flash[a]]
  BY <1>2, <1>4 DEF EraseSector, SectorBecomes, Sector
<1>6. f \in [Address -> Word]
  BY <1>1, <1>5 DEF StoreTypeOK, Word
<1>7. ASSUME NEW a \in Address, a < n + SectorSize PROVE f[a] = Erased
  <2>1. a \in n..n + SectorSize - 1 \/ a \in 0..n - 1
    BY <1>3, <1>7 DEF Address
  <2> QED
    BY <1>1, <1>2, <1>5, <2>1
<1>8. CASE n + SectorSize < Size
  <2>1. offset' = n + SectorSize /\ UNCHANGED <<op, entry, start, result, unerased>>
    BY <1>2, <1>8 DEF EraseSector
  <2>2. n + SectorSize \in 0..Size
    BY <1>3, <1>8
  <2>3. StoreTypeOK'
    BY <1>1, <1>4, <1>6, <2>1, <2>2 DEF StoreTypeOK
  <2>4. \A a \in 0..offset' - 1 : f[a] = Erased
    <3>2. PICK m \in Nat : m = n + SectorSize
      BY <1>3
    <3>3. \A a \in 0..m - 1 : a \in Address /\ a < n + SectorSize
      BY <1>3, <1>8, <3>2 DEF Address
    <3>4. \A a \in 0..m - 1 : f[a] = Erased
      BY <1>7, <3>3
    <3>5. offset' = m
      BY <2>1, <3>2
    <3> QED
      BY <3>4, <3>5
  <2> QED
    BY <1>1, <1>4, <2>1, <2>3, <2>4 DEF StoreInv
<1>9. CASE ~(n + SectorSize < Size)
  <2>1. EndCommand("success") /\ unerased' = FALSE
    BY <1>2, <1>9 DEF EraseSector
  <2>2. StoreTypeOK'
    <3>1. 0 \in 0..Size
      BY <1>3
    <3>2. op' = "none" /\ entry' = NoEntry /\ start' = 0 /\ offset' = 0 /\ result' = "success"
      BY <2>1 DEF EndCommand
    <3> QED
      BY <1>1, <1>4, <1>6, <2>1, <3>1, <3>2 DEF StoreTypeOK
  <2>3. ErasedFrom(f, 0)
    <3>1. \A a \in 0..Size - 1 : a \in Address /\ a < n + SectorSize
      BY <1>3, <1>9 DEF Address
    <3> QED
      BY <1>7, <3>1 DEF ErasedFrom
  <2>4. Clean(f, 0) /\ Active(f)[0] = <<>>
    BY <1>3, <2>3, ErasedIsEnd
  <2>5. Listed(stored) = <<>>
    BY <1>1 DEF Listed
  <2>6. Resting'
    BY <1>1, <1>4, <2>4, <2>5 DEF Resting, Clean, ErasedFrom, Listed
  <2> QED
    BY <2>1, <2>2, <2>6 DEF StoreInv, EndCommand
<1> QED
  BY <1>8, <1>9

(* An access that is cut off or fails, be it undone, half done or done.    *)
LEMMA FaultStep ==
    ASSUME StoreInv, StoreFault, NEW res \in {"none", "failure"}, EndCommand(res)
    PROVE  StoreInv'
<1>1. /\ StoreTypeOK /\ op \in {"append", "clear"}
      /\ unerased' = (unerased \/ op = "clear")
  BY DEF StoreInv, StoreTypeOK, StoreFault
<1>2. faults' \in 0..MaxFaults /\ 0 \in 0..Size
  BY <1>1, FaultAssumption, SizeIsNat DEF StoreTypeOK, StoreFault
<1>3. PICK f : f = flash'
  OBVIOUS
<1>4. /\ op' = "none" /\ entry' = NoEntry /\ start' = 0 /\ offset' = 0
      /\ result' \in {"none", "success", "failure"}
  BY DEF EndCommand
<1>5. SUFFICES /\ f \in [Address -> Word] /\ stored' \in Seq(Entry)
               /\ ~unerased' => Clean(f, 0) /\ Active(f)[0] = Listed(stored')
  <2>1. ~unerased' => Resting'
    BY <1>3, <1>5 DEF Resting, Clean, ErasedFrom, Listed
  <2>2. StoreTypeOK'
    BY <1>1, <1>2, <1>3, <1>4, <1>5 DEF StoreTypeOK
  <2> QED
    BY <1>4, <2>1, <2>2 DEF StoreInv
<1>6. CASE op = "append" /\ flash' \in Torn /\ stored' = stored
  <2>1. PICK w \in {flash[start + offset], Garbage} :
           f = [flash EXCEPT ![start + offset] = w]
    BY <1>3, <1>6 DEF Torn
  <2>2. PICK s \in 0..Size, n \in Nat :
           /\ s = start /\ n = offset /\ s + n \in Address
           /\ n < Len(EntryWords(entry))
    BY <1>6, NextWord DEF StoreInv
  <2>3. /\ f \in [Address -> Word] /\ f[s + n] = w
        /\ \A a \in Address : a # s + n => f[a] = flash[a]
    BY <1>1, <2>1, <2>2 DEF StoreTypeOK, Word
  <2>4. ASSUME ~unerased PROVE Clean(f, 0) /\ Active(f)[0] = Listed(stored)
    <3>1. ErasedFrom(flash, s + n) /\ Holds(flash, s, entry, n)
      BY <1>6, <2>2, <2>4 DEF StoreInv, Writing
    <3>2. /\ s + n \in s + n..Size - 1
          /\ \A a \in s + n + 1..Size - 1 :
                a \in Address /\ a # s + n /\ a \in s + n..Size - 1
          /\ \A a \in 0..s - 1 : a \in Address /\ a # s + n
          /\ \A i \in 1..n : s + i - 1 \in Address /\ s + i - 1 # s + n
      BY <2>2, SizeIsNat DEF Address
    <3>3. w \in {Erased, Garbage}
      BY <2>1, <2>2, <3>1, <3>2 DEF ErasedFrom
    <3>4. Holds(f, s, entry, n)
      BY <2>3, <3>1, <3>2 DEF Holds
    <3>5. ErasedFrom(f, s + n + 1)
      BY <2>3, <3>1, <3>2 DEF ErasedFrom
    <3>6. \A a \in 0..s - 1 : f[a] = flash[a]
      BY <2>3, <3>2
    <3> QED
      BY <1>6, <2>2, <2>3, <2>4, <3>3, <3>4, <3>5, <3>6, PartDoesNotShow
  <2> QED
    BY <1>1, <1>6, <2>3, <2>4 DEF StoreTypeOK
<1>7. CASE op = "append" /\ flash' = WordWritten /\ stored' = MarkedActive
  <2>1. f \in [Address -> Word] /\ stored' \in Seq(Entry)
    BY <1>3, <1>7, OneMoreWord, MarkedHasType
  <2>2. ASSUME ~unerased PROVE Clean(f, 0) /\ Active(f)[0] = Listed(stored')
    BY <1>3, <1>7, <2>2, WordShows
  <2> QED
    BY <1>1, <2>1, <2>2
<1>8. CASE op = "clear" /\ stored' = stored
  <2>1. \/ f = flash
        \/ \E w \in {Erased, Garbage} :
              f = [a \in Address |-> IF a \in Sector(offset) THEN w ELSE flash[a]]
    BY <1>3, <1>8 DEF StoreFault, Torn, AccessDone, SectorBecomes
  <2>2. f \in [Address -> Word]
    BY <1>1, <2>1 DEF StoreTypeOK, Word
  <2> QED
    BY <1>1, <1>8, <2>2 DEF StoreTypeOK
<1> QED
  BY <1>1, <1>6, <1>7, <1>8 DEF StoreFault, AccessDone

LEMMA StoreKeeps == StoreInv /\ UNCHANGED storeVars => StoreInv'
<1> SUFFICES ASSUME StoreInv, UNCHANGED storeVars PROVE StoreInv'
  OBVIOUS
<1>1. UNCHANGED <<flash, op, entry, start, offset, result, stored, unerased, faults>>
  BY DEF storeVars
<1>2. StoreTypeOK'
  BY <1>1 DEF StoreInv, StoreTypeOK
<1>3. Resting' <=> Resting
  BY <1>1 DEF Resting, Clean, ErasedFrom
<1>4. InFront' = InFront
  BY <1>1 DEF InFront
<1>5. Writing' <=> Writing
  BY <1>1, <1>4 DEF Writing, Holds, ErasedFrom
<1> QED
  BY <1>1, <1>2, <1>3, <1>5 DEF StoreInv

LEMMA NextStore == StoreInv /\ (StoreNext \/ UNCHANGED storeVars) => StoreInv'
<1> SUFFICES ASSUME StoreInv, StoreNext PROVE StoreInv'
  BY StoreKeeps
<1>1. CASE StoreCommand
  BY <1>1, AppendDataStep, ClearRegionStep DEF StoreCommand
<1>2. CASE AccessFails
  BY <1>2, FaultStep DEF AccessFails
<1>3. CASE PowerLost
  BY <1>3, FaultStep DEF PowerLost
<1> QED
  BY <1>1, <1>2, <1>3, WriteWordStep, EraseSectorStep DEF StoreNext, StoreStep

LEMMA StoredIsFound == StoreInv => Durable
<1> SUFFICES ASSUME StoreInv, op # "clear", ~unerased
             PROVE  ActiveEntries = Listed(stored)
  BY DEF Durable, Listed
<1>1. CASE op = "none"
  BY <1>1, ActiveEntriesIs DEF StoreInv, Resting
<1>2. CASE op = "append"
  <2>1. PICK s \in 0..Size, n \in Nat :
           /\ s = start /\ n = offset /\ s + n \in Address
           /\ n < Len(EntryWords(entry))
    BY <1>2, NextWord DEF StoreInv
  <2>2. /\ s + n \in s + n..Size - 1
        /\ \A a \in s + n + 1..Size - 1 : a \in s + n..Size - 1
    BY <2>1, SizeIsNat DEF Address
  <2>3. Holds(flash, s, entry, n) /\ ErasedFrom(flash, s + n)
    BY <1>2, <2>1 DEF StoreInv, Writing
  <2>4. flash[s + n] = Erased /\ ErasedFrom(flash, s + n + 1)
    BY <2>2, <2>3 DEF ErasedFrom
  <2>5. Active(flash)[0] = Listed(stored)
    BY <1>2, <2>1, <2>3, <2>4, PartDoesNotShow
  <2> QED
    BY <2>5, ActiveEntriesIs
<1> QED
  BY <1>1, <1>2 DEF StoreInv, StoreTypeOK

(* Every step of SMM is one of the store or leaves it as it is.            *)
LEMMA StepOfStore == [Next]_smmVars => StoreNext \/ UNCHANGED storeVars
<1> SUFFICES ASSUME [Next]_smmVars PROVE StoreNext \/ UNCHANGED storeVars
  OBVIOUS
<1>1. ASSUME NEW c \in CPU, Processor(c) PROVE StoreNext \/ UNCHANGED storeVars
  BY <1>1 DEF Processor, Locking, Serve, Work, Done, StoreNext
<1>2. CASE Reset
  BY <1>2 DEF Reset, StoreNext
<1>3. CASE UNCHANGED smmVars
  BY <1>3 DEF smmVars
<1> QED
  BY <1>1, <1>2, <1>3 DEF Next

(* The inductive invariant of the variable store, smmstore_append_data()   *)
(* and smmstore_clear_region(), for any size of the region and of its      *)
(* sectors, any entries and any number of faults: behind the entries, and  *)
(* the words that have been written of one more, everything is erased, or  *)
(* scan_end() gives up.                                                    *)
THEOREM StoreInvariant == Spec => []StoreInv
<1>1. Init => StoreInv
  BY InitStore DEF Init
<1>2. StoreInv /\ [Next]_smmVars => StoreInv'
  BY NextStore, StepOfStore
<1> QED
  BY <1>1, <1>2, PTL DEF Spec

(* Whatever power losses and failures there were, the payload finds the    *)
(* entries whose last write has taken effect since the store was cleared,  *)
(* in this order and nothing else: all that smmstore_append_data() wrote   *)
(* with success, and those that it reports as failed, or power was lost,   *)
(* when they were complete.                                                *)
THEOREM EntriesAreDurable == Spec => []Durable
BY StoreInvariant, StoredIsFound, PTL

(* Every variable of SMM keeps its type: the lock of smm_handler_start(),  *)
(* the store and the log.                                                  *)
THEOREM TypeCorrect == Spec => []TypeOK
<1> DEFINE Service == service \in {"smmstore", "elog"}
<1>1. Init => Service
  BY DEF Init
<1>2. Service /\ [Next]_smmVars => Service'
  BY DEF Next, smmVars, Processor, Locking, Serve, Work, Done, Reset
<1>3. Spec => []Service
  BY <1>1, <1>2, PTL DEF Spec
<1>4. LockInv /\ LogInv /\ StoreInv /\ Service => TypeOK
  BY DEF LockInv, LogInv, Sized, StoreInv, TypeOK
<1> QED
  BY <1>3, <1>4, LockInvariant, LogInvariant, StoreInvariant, PTL

-----------------------------------------------------------------------------
Types ==
    /\ bpc \in {"start", "wait", "call", "relocating", "release", "ready",
                "calling", "parking"}
    /\ brec \in Record
    /\ pc \in [AP -> {"off", "sipi", "barrier", "call", "relocating", "poll",
                      "got", "copied", "taken", "parked", "lost"}]
    /\ rec \in [AP -> Record]
    /\ plan \in {"init", "restart"}
    /\ barrier \in [Record -> BOOLEAN] /\ entered \in [Record -> Nat]
    /\ area \in {"sipi", "smm", "returned"} /\ do_smm \in BOOLEAN
    /\ locked \in BOOLEAN /\ expired \in Nat
    /\ smi \in [Cpu -> {"none", "pending", "handler", "lost"}]
    /\ \A a \in AP : pc[a] = "relocating" => rec[a] = 2

Relocating == {a \in AP : pc[a] = "relocating"}

(* Who relocates has the spin lock.                                        *)
OneRelocates ==
    /\ bpc = "relocating" \/ Relocating # {} => locked
    /\ bpc = "relocating" => Relocating = {}
    /\ \A a, b \in Relocating : a = b

InPlan == bpc \in {"wait", "call", "relocating", "release"}
Over == bpc \in {"ready", "calling", "parking"}

(* The record a processor has entered, 0 before the first, and who has     *)
(* come as far as record r.                                                *)
At(a) == IF pc[a] \in {"off", "sipi"} THEN 0 ELSE rec[a]
Past(a) == pc[a] \notin {"off", "sipi", "barrier"}
Reached(r) == {a \in AP : At(a) >= r}

Counts ==
    on_time /\ plan = "init" =>
        \A r \in 1..4 : entered[r] = Cardinality(Reached(r))

(* How many records of mp_steps[] the boot processor is done with, and the *)
(* last blocking one at which it has met all others.                       *)
ReleasedTo == IF bpc = "start" THEN 0 ELSE IF Over THEN 4 ELSE brec - 1
Met ==
    IF Over THEN 4
    ELSE IF bpc = "start" THEN 0
    ELSE IF bpc = "wait" THEN (IF brec = 1 THEN 0 ELSE IF brec = 4 THEN 3 ELSE 1)
    ELSE IF brec = 2 THEN 1 ELSE brec

(* The other processors in the plan, between what the boot processor has   *)
(* released and what it has met them at.                                   *)
Between(a) ==
    /\ At(a) \in Met..4 /\ pc[a] # "lost"
    /\ At(a) \in {2, 3} \/ (Past(a) /\ At(a) = 1) => ReleasedTo >= 1
    /\ At(a) = 4 \/ (Past(a) /\ At(a) = 3) => ReleasedTo >= 3
    /\ Past(a) /\ At(a) = 4 => ReleasedTo = 4
    /\ pc[a] = "relocating" => At(a) = 2 /\ do_smm
    /\ pc[a] \in {"poll", "got", "copied", "taken", "parked"} => At(a) = 4

OnPlan ==
    on_time /\ plan = "init" =>
        /\ InPlan => brec \in 1..4
        /\ \A r \in 1..4 : barrier[r] <=> r = 2 \/ r <= ReleasedTo
        /\ \A a \in AP : Between(a)
        /\ bpc = "relocating" => brec = 2 /\ do_smm
        /\ ReleasedTo = 0 /\ bpc # "release" => area = "sipi"
        /\ InPlan /\ (ReleasedTo > 0 \/ bpc = "release") /\ do_smm => area = "smm"

OnRestart ==
    on_time /\ plan = "restart" =>
        /\ InPlan => brec = 5
        /\ bpc # "relocating" /\ area = "sipi"
        /\ \A a \in AP : /\ pc[a] \notin {"off", "sipi"} => rec[a] = 5
                         /\ pc[a] \notin {"relocating", "lost"}

(* The mailboxes.                                                          *)
CallRecord == [op: {"none", "run", "serial", "park"}, frame: Frame \cup {NoFrame},
               target: 0..NumAps, wait: BOOLEAN, timed: BOOLEAN]

MailTypes ==
    /\ slot \in [Slot -> Frame \cup {NoFrame}]
    /\ got \in [AP -> Frame \cup {NoFrame}]
    /\ \A a \in AP : pc[a] = "got" => got[a] \in Frame
    /\ lcb \in [AP -> [cb: Callback, current: BOOLEAN]]
    /\ frame \in [Frame -> Callback]
    /\ call \in CallRecord
    /\ bpc = "calling" => call.frame \in Frame

(* As long as no wait expires.                                             *)
Reads(a) == pc[a] \in {"got", "copied"}

Delivery ==
    on_time =>
        /\ bpc # "calling" => \A a \in AP : slot[a] = NoFrame /\ ~Reads(a)
        /\ bpc = "calling" =>
              /\ frame[call.frame].func # "garbage"
              /\ \A s \in Slot \ AP : slot[s] # NoFrame
              /\ \A a \in AP : /\ slot[a] \in {NoFrame, call.frame}
                               /\ Reads(a) => slot[a] # NoFrame
                               /\ pc[a] = "got" => got[a] = call.frame
        /\ \A a \in AP : pc[a] \in {"copied", "taken"} => lcb[a].cb.func # "garbage"

(* The interrupts, as long as no wait expires: only who waits for it has   *)
(* one, and it finds the handler.                                          *)
InPlace ==
    on_time => \A p \in Cpu : /\ smi[p] # "lost"
                              /\ smi[p] # "none" => Relocates(p)

PlanInv == Types /\ OneRelocates /\ Counts /\ OnPlan /\ OnRestart /\ InPlace
           /\ MailTypes /\ Delivery

-----------------------------------------------------------------------------
(* The tables of the plans, record by record.                              *)
LEMMA Tables ==
    /\ FirstRecord["init"] = 1 /\ FirstRecord["restart"] = 5
    /\ LastRecord["init"] = 4 /\ LastRecord["restart"] = 5
    /\ \A r \in Record : /\ ap_call[r] = "relocate" <=> r = 2
                         /\ ap_call[r] = "wait" <=> r \in {4, 5}
                         /\ ap_call[r] \in {"none", "initialize"} <=> r \in {1, 3}
                         /\ bsp_call[r] = "load" <=> r = 1
                         /\ bsp_call[r] = "relocate" <=> r = 2
                         /\ Blocks(r) <=> r # 2
BY DEF FirstRecord, LastRecord, ap_call, bsp_call, Record, Blocks

LEMMA Mailboxes == AP \subseteq Slot /\ IsFiniteSet(AP) /\ Cardinality(AP) = NumAps
<1>1. AP \subseteq Slot
  BY CpuAssumption DEF AP, Slot
<1>2. IsFiniteSet(AP) /\ Cardinality(AP) = NumAps
  BY CpuAssumption, FS_Interval DEF AP
<1> QED BY <1>1, <1>2

(* A processor's step, as far as the plan is concerned.                    *)
PlanKept == /\ UNCHANGED <<bpc, brec, plan, barrier, area, do_smm>>
            /\ expired' \in {expired, expired + 1}
InLoop == {"poll", "got", "copied", "taken", "parked"}
Moves(a, from, to) ==
    /\ pc[a] \in from /\ \E p \in to : pc' = [pc EXCEPT ![a] = p]
    /\ UNCHANGED <<rec, entered>>

StepsAside(a) ==
    \/ area = "sipi" /\ Moves(a, {"off"}, {"sipi"})
    \/ barrier[rec[a]] /\ Moves(a, {"barrier"}, {"call"})
    \/ rec[a] \in {4, 5} /\ Moves(a, {"call"}, {"poll"})
    \/ Moves(a, InLoop, InLoop)

StepsOn(a) ==
    \/ pc[a] = "sipi" /\ area = "sipi" /\ EnterRecord(a, FirstRecord[plan])
    \/ pc[a] = "call" /\ rec[a] \in 1..3 /\ EnterRecord(a, rec[a] + 1)

ApKind(a) ==
    \/ StepsAside(a) /\ UNCHANGED <<locked, smi>>
    \/ StepsOn(a) /\ UNCHANGED <<locked, smi>>
    \/ /\ pc[a] = "relocating" /\ EnterRecord(a, rec[a] + 1)
       /\ locked' = FALSE /\ EndsWait(a) /\ UNCHANGED smi
    \/ ApRelocates(a)
    \/ Lost(a) /\ \/ area # "sipi" /\ pc[a] \in {"off", "sipi"}
                  \/ RunsGarbage(a)

(* An interrupt comes, or is done with, or nothing happens: nothing else   *)
(* changes.                                                                *)
SmiOrNothing == (\E p \in Cpu : RelocationSmi(p)) \/ UNCHANGED vars
Steady == UNCHANGED <<bpc, brec, pc, rec, planVars, area, do_smm, locked, mailVars,
                      callVars, restarts, history>>

LEMMA Steadily == ASSUME SmiOrNothing PROVE Steady
BY DEF SmiOrNothing, RelocationSmi, Steady, smiUnchanged, vars, planVars, relocVars,
       mailVars, callVars, history

LEMMA ApKinds ==
  ASSUME Types, NEW a \in AP, ApWorks(a)
  PROVE  PlanKept /\ ApKind(a)
<1> USE DEF Types, PlanKept, ApKind, apUnchanged, smiUnchanged, StepsAside, StepsOn, Moves, InLoop
<1>1. CASE CheckIn(a)
  BY <1>1 DEF CheckIn, Lost
<1>2. CASE ApInit(a)
  BY <1>2 DEF ApInit, Lost
<1>3. CASE PassBarrier(a)
  BY <1>3 DEF PassBarrier
<1>4. CASE ApCall(a)
  <2>1. rec[a] \in 1..3
    BY <1>4, Tables DEF ApCall
  <2> QED BY <1>4, <2>1 DEF ApCall
<1>5. CASE ApRelocates(a)
  BY <1>5 DEF ApRelocates, SendsSmi, Expires
<1>6. CASE ApRelocated(a)
  BY <1>6 DEF ApRelocated, EndsWait, Expires
<1>7. CASE WaitForInstruction(a)
  <2>1. rec[a] \in {4, 5}
    BY <1>7, Tables DEF WaitForInstruction
  <2> QED BY <1>7, <2>1 DEF WaitForInstruction
<1>8. CASE ReadCallback(a)
  BY <1>8 DEF ReadCallback
<1>9. CASE CopyCallback(a)
  BY <1>9 DEF CopyCallback
<1>10. CASE ClearSlot(a)
  BY <1>10 DEF ClearSlot
<1>11. CASE Finish(a)
  BY <1>11 DEF Finish
<1>12. CASE Park(a)
  BY <1>12 DEF Park
<1>13. CASE RunsGarbage(a)
  BY <1>13 DEF RunsGarbage, Lost
<1> QED BY <1>1, <1>2, <1>3, <1>4, <1>5, <1>6, <1>7, <1>8, <1>9, <1>10, <1>11,
           <1>12, <1>13 DEF ApWorks

(* Calls and their ends happen behind the plan.                            *)
Calling ==
    \/ \E f \in Frame, t \in 0..NumAps, w, timed \in BOOLEAN :
           RunOnAps(f, t, w, timed)
    \/ \E f \in Frame, timed \in BOOLEAN : RunOnAllAps(f, timed)
    \/ \E f \in Frame : ParkAps(f)
    \/ CallNext \/ CallReturns \/ CallExpired \/ ParkDone \/ ParkExpired

CallKind ==
    /\ Over /\ bpc' \in {"ready", "calling", "parking"}
    /\ UNCHANGED <<brec, pc, rec, plan, barrier, entered, area, do_smm, locked, smi>>
    /\ expired' \in {expired, expired + 1}

LEMMA CallKinds == ASSUME Calling PROVE CallKind
<1> USE DEF CallKind, Over, planVars, relocVars
<1>1. ASSUME NEW f \in Frame, NEW t \in 0..NumAps, NEW w \in BOOLEAN,
             NEW timed \in BOOLEAN, RunOnAps(f, t, w, timed)
      PROVE  CallKind
  BY <1>1 DEF RunOnAps, BeginCall, Post, postUnchanged
<1>2. ASSUME NEW f \in Frame, NEW timed \in BOOLEAN, RunOnAllAps(f, timed)
      PROVE  CallKind
  BY <1>2 DEF RunOnAllAps, BeginCall, Post, postUnchanged
<1>3. ASSUME NEW f \in Frame, ParkAps(f) PROVE CallKind
  BY <1>3 DEF ParkAps, BeginCall, Post, postUnchanged
<1>4. CASE CallNext
  BY <1>4 DEF CallNext, Post, callUnchanged
<1>5. CASE CallReturns
  BY <1>5 DEF CallReturns, callUnchanged
<1>6. CASE CallExpired
  BY <1>6 DEF CallExpired, Expires, callUnchanged
<1>7. CASE ParkDone
  BY <1>7 DEF ParkDone, callUnchanged
<1>8. CASE ParkExpired
  BY <1>8 DEF ParkExpired, Expires, callUnchanged
<1> QED BY <1>1, <1>2, <1>3, <1>4, <1>5, <1>6, <1>7, <1>8 DEF Calling

(* The boot processor's steps in the plan.                                 *)
Planning ==
    \/ Started \/ StartExpired \/ RecordReached \/ RecordExpired
    \/ LoadSmmHandlers \/ BspRelocates \/ BspRelocated \/ BspCall
    \/ ReleaseBarrier

LEMMA NextKinds ==
  ASSUME Types, [MpNext]_vars
  PROVE  \/ Planning \/ CallKind \/ RestartAps
         \/ PlanKept /\ \E a \in AP : ApKind(a)
         \/ SmiOrNothing
BY CallKinds, ApKinds DEF MpNext, Bsp, BspWorks, Ap, Caller, Calling, Planning,
                          SmiOrNothing, Cpu

-----------------------------------------------------------------------------
LEMMA TypesStep == ASSUME Types, [MpNext]_vars PROVE Types'
<1> USE DEF Types
<1>1. CASE Planning
  <2> USE DEF relocVars, planVars, history, callVars
  <2>1. CASE Started
    BY <2>1, Tables DEF Started, Record
  <2>2. CASE StartExpired
    BY <2>2 DEF StartExpired, Return, Expires
  <2>3. CASE RecordReached
    BY <2>3 DEF RecordReached
  <2>4. CASE RecordExpired
    BY <2>4 DEF RecordExpired, Expires
  <2>5. CASE LoadSmmHandlers
    BY <2>5 DEF LoadSmmHandlers
  <2>6. CASE BspRelocates
    BY <2>6 DEF BspRelocates, SendsSmi, Expires, Cpu
  <2>7. CASE BspRelocated
    <3> HIDE DEF Types, history, callVars, relocVars, planVars
    <3>1. /\ bpc' = "release" /\ locked' = FALSE
          /\ UNCHANGED <<brec, pc, rec, plan, barrier, entered, area, do_smm, smi>>
      BY <2>7 DEF BspRelocated, planVars
    <3>2. expired' = expired \/ expired' = expired + 1
      BY <2>7 DEF BspRelocated, EndsWait, Expires
    <3>3. expired \in Nat
      BY DEF Types
    <3>4. expired' \in Nat
      BY <3>2, <3>3
    <3> QED
      BY <3>1, <3>4 DEF Types
  <2>8. CASE BspCall
    BY <2>8 DEF BspCall
  <2>9. CASE ReleaseBarrier
    BY <2>9, Tables DEF ReleaseBarrier, Return, Record
  <2> QED BY <1>1, <2>1, <2>2, <2>3, <2>4, <2>5, <2>6, <2>7, <2>8, <2>9 DEF Planning
<1>2. CASE CallKind
  BY <1>2 DEF CallKind
<1>3. CASE RestartAps
  BY <1>3 DEF RestartAps, history
<1>4. ASSUME PlanKept, NEW a \in AP, ApKind(a) PROVE Types'
  <2> USE DEF PlanKept
  <2>1. CASE StepsAside(a) /\ UNCHANGED <<locked, smi>>
    BY <1>4, <2>1 DEF StepsAside, Moves, InLoop
  <2>2. CASE StepsOn(a) /\ UNCHANGED <<locked, smi>>
    <3>1. PICK r \in Record : EnterRecord(a, r)
      BY <2>2, Tables DEF StepsOn, Record
    <3> QED BY <1>4, <2>2, <3>1 DEF EnterRecord
  <2>3. CASE /\ pc[a] = "relocating" /\ EnterRecord(a, rec[a] + 1)
             /\ locked' = FALSE /\ UNCHANGED smi
    <3>1. PICK r \in Record : EnterRecord(a, r)
      BY <2>3 DEF Record
    <3>2. locked' \in BOOLEAN /\ UNCHANGED smi
      BY <2>3
    <3>3. pc' \in [AP -> {"off", "sipi", "barrier", "call", "relocating", "poll",
                         "got", "copied", "taken", "parked", "lost"}]
      BY <3>1 DEF EnterRecord
    <3>4. rec' \in [AP -> Record] /\ entered' \in [Record -> Nat]
      BY <3>1 DEF EnterRecord
    <3>5. \A b \in AP : pc'[b] = "relocating" => rec'[b] = 2
      BY <3>1 DEF EnterRecord
    <3> QED BY <1>4, <3>2, <3>3, <3>4, <3>5
  <2>4. CASE ApRelocates(a)
    <3>1. smi' \in [Cpu -> {"none", "pending", "handler", "lost"}]
      BY <2>4 DEF ApRelocates, SendsSmi, Cpu
    <3>2. pc' = [pc EXCEPT ![a] = "relocating"] /\ rec' = rec /\ entered' = entered
          /\ locked' = TRUE
      BY <2>4 DEF ApRelocates
    <3> QED BY <1>4, <2>4, <3>1, <3>2, Tables DEF ApRelocates
  <2>5. CASE Lost(a)
    BY <1>4, <2>5 DEF Lost, apUnchanged
  <2> QED BY <1>4, <2>1, <2>2, <2>3, <2>4, <2>5 DEF ApKind
<1>5. CASE SmiOrNothing
  <2>1. smi' \in [Cpu -> {"none", "pending", "handler", "lost"}]
    BY <1>5 DEF SmiOrNothing, RelocationSmi, vars, relocVars
  <2> QED BY <1>5, <2>1, Steadily DEF Steady, planVars, history
<1> QED BY <1>1, <1>2, <1>3, <1>4, <1>5, NextKinds

(* The spin lock.                                                          *)
LEMMA RelocatesStep ==
  ASSUME Types, OneRelocates, [MpNext]_vars PROVE OneRelocates'
<1> USE DEF Types, OneRelocates, Relocating
<1>1. CASE Planning
  <2> USE DEF relocVars, planVars
  <2>1. CASE Started
    BY <2>1 DEF Started
  <2>2. CASE StartExpired
    BY <2>2 DEF StartExpired, Return
  <2>3. CASE RecordReached
    BY <2>3 DEF RecordReached
  <2>4. CASE RecordExpired
    BY <2>4 DEF RecordExpired
  <2>5. CASE LoadSmmHandlers
    BY <2>5 DEF LoadSmmHandlers
  <2>6. CASE BspRelocates
    BY <2>6 DEF BspRelocates, LockFree
  <2>7. CASE BspRelocated
    BY <2>7 DEF BspRelocated
  <2>8. CASE BspCall
    BY <2>8 DEF BspCall
  <2>9. CASE ReleaseBarrier
    BY <2>9 DEF ReleaseBarrier, Return
  <2> QED BY <1>1, <2>1, <2>2, <2>3, <2>4, <2>5, <2>6, <2>7, <2>8, <2>9 DEF Planning
<1>2. CASE CallKind
  BY <1>2 DEF CallKind
<1>3. CASE RestartAps
  BY <1>3 DEF RestartAps
<1>4. ASSUME PlanKept, NEW a \in AP, ApKind(a) PROVE OneRelocates'
  <2> USE DEF PlanKept
  <2>1. CASE StepsAside(a) /\ UNCHANGED <<locked, smi>>
    BY <1>4, <2>1 DEF StepsAside, Moves, InLoop
  <2>2. CASE StepsOn(a) /\ UNCHANGED <<locked, smi>>
    BY <1>4, <2>2 DEF StepsOn, EnterRecord
  <2>3. CASE /\ pc[a] = "relocating" /\ EnterRecord(a, rec[a] + 1)
             /\ locked' = FALSE /\ UNCHANGED smi
    <3>1. Relocating = {a} /\ bpc # "relocating"
      BY <2>3
    <3>2. pc' = [pc EXCEPT ![a] = "barrier"]
      BY <2>3 DEF EnterRecord
    <3>3. Relocating' = {}
      BY <3>1, <3>2
    <3> QED BY <1>4, <3>1, <3>3
  <2>4. CASE ApRelocates(a)
    <3>1. Relocating = {} /\ bpc # "relocating" /\ locked'
      BY <2>4 DEF ApRelocates, LockFree
    <3>2. Relocating' \subseteq {a}
      BY <3>1, <2>4 DEF ApRelocates
    <3> QED BY <1>4, <3>1, <3>2
  <2>5. CASE Lost(a)
    BY <1>4, <2>5 DEF Lost
  <2> QED BY <1>4, <2>1, <2>2, <2>3, <2>4, <2>5 DEF ApKind
<1>5. CASE SmiOrNothing
  BY <1>5, Steadily DEF Steady
<1> QED BY <1>1, <1>2, <1>3, <1>4, <1>5, NextKinds

-----------------------------------------------------------------------------
(* What the plan says of one processor: as long as no wait expires, the    *)
(* code it is to run is there.                                             *)
LEMMA CodeIsThere ==
  ASSUME Types, OnPlan, OnRestart, on_time, NEW a \in AP
  PROVE  pc[a] \in {"off", "sipi"} => area = "sipi"
<1> USE DEF Types
<1>1. CASE plan = "init"
  BY <1>1 DEF OnPlan, Between, At, Met, ReleasedTo, Over, InPlan
<1>2. CASE plan = "restart"
  BY <1>2 DEF OnRestart
<1> QED BY <1>1, <1>2

LEMMA HandlerIsThere ==
  ASSUME Types, OnPlan, OnRestart, on_time, NEW p \in Cpu, Relocates(p)
  PROVE  area = "smm" /\ InPlan
<1>0. bpc = "relocating" \/ \E a \in AP : pc[a] = "relocating"
  BY DEF Relocates, Cpu
<1>1. plan = "init"
  BY <1>0 DEF Types, OnRestart
<1>2. do_smm /\ InPlan /\ ReleasedTo > 0
  <2>1. CASE bpc = "relocating"
    BY <1>1, <2>1 DEF OnPlan, InPlan, ReleasedTo, Over
  <2>2. ASSUME NEW a \in AP, pc[a] = "relocating" PROVE do_smm /\ InPlan /\ ReleasedTo > 0
    <3>1. Between(a) /\ At(a) = 2 /\ do_smm /\ ReleasedTo >= 1 /\ Met <= 2
      BY <1>1, <2>2 DEF OnPlan, Between
    <3>2. bpc \in {"start", "wait", "call", "relocating", "release", "ready",
                   "calling", "parking"}
      BY DEF Types
    <3>3. bpc # "start" /\ ~Over
      BY <3>1 DEF ReleasedTo, Met
    <3>4. InPlan
      BY <3>2, <3>3 DEF Over, InPlan
    <3>5. ReleasedTo > 0
      BY <3>1, <3>3 DEF ReleasedTo, Types, Record
    <3> QED BY <3>1, <3>4, <3>5
  <2> QED BY <1>0, <2>1, <2>2
<1> QED BY <1>1, <1>2 DEF OnPlan

(* What a processor's step then is.                                        *)
LEMMA NotLost ==
  ASSUME Types, OnPlan, OnRestart, Delivery, on_time, NEW a \in AP, ApKind(a)
  PROVE  \/ StepsAside(a)
         \/ StepsOn(a)
         \/ pc[a] = "relocating" /\ EnterRecord(a, rec[a] + 1)
         \/ /\ Moves(a, {"call"}, {"relocating"})
            /\ rec[a] = 2 /\ do_smm
<1>1. ~(area # "sipi" /\ pc[a] \in {"off", "sipi"})
  BY CodeIsThere
<1>2. ~RunsGarbage(a)
  BY DEF Delivery, RunsGarbage, Runs
<1>3. ASSUME ApRelocates(a)
      PROVE  Moves(a, {"call"}, {"relocating"}) /\ rec[a] = 2 /\ do_smm
  BY <1>3, Tables DEF Types, ApRelocates, Moves
<1> QED BY <1>1, <1>2, <1>3 DEF ApKind

(* The steps of the boot processor leave the others where they are.        *)
LEMMA PlanningKeeps ==
  ASSUME Planning PROVE UNCHANGED <<pc, rec, plan, entered>>
BY DEF Planning, Started, StartExpired, RecordReached, RecordExpired, LoadSmmHandlers,
       BspRelocates, BspRelocated, BspCall, ReleaseBarrier, planVars, relocVars

LEMMA OnTimeBefore == ASSUME Types, [MpNext]_vars, on_time' PROVE on_time
<1>1. expired \in Nat /\ expired' = 0
  BY DEF Types, on_time
<1>2. expired' \in {expired, expired + 1}
  <2>1. CASE Planning
    BY <2>1 DEF Planning, Started, StartExpired, RecordReached, RecordExpired, Expires,
                LoadSmmHandlers, BspRelocates, BspRelocated, BspCall, ReleaseBarrier,
                SendsSmi, EndsWait, history
  <2>2. CASE SmiOrNothing
    BY <2>2, Steadily DEF Steady, history
  <2> QED BY <2>1, <2>2, NextKinds DEF CallKind, RestartAps, history, PlanKept
<1> QED BY <1>1, <1>2 DEF on_time

LEMMA CountsStep ==
  ASSUME Types, Counts, OnPlan, OnRestart, Delivery, [MpNext]_vars PROVE Counts'
<1> SUFFICES ASSUME on_time', plan' = "init", NEW r \in 1..4
             PROVE  entered'[r] = Cardinality(Reached(r)')
  BY DEF Counts
<1>0. on_time
  BY OnTimeBefore
<1>1. ASSUME UNCHANGED <<pc, rec, plan, entered>>
      PROVE  entered'[r] = Cardinality(Reached(r)')
  BY <1>0, <1>1 DEF Counts, Reached, At
<1>2. CASE RestartAps
  BY <1>2 DEF RestartAps
<1>3. ASSUME PlanKept, NEW a \in AP, ApKind(a)
      PROVE  entered'[r] = Cardinality(Reached(r)')
  <2>1. plan = "init" /\ entered[r] = Cardinality(Reached(r))
    BY <1>0, <1>3 DEF PlanKept, Counts
  <2>2. ASSUME NEW from, NEW to, Moves(a, from, to), \A p \in to : p \notin {"off", "sipi"},
               from \cap {"off", "sipi"} = {}
        PROVE  entered'[r] = Cardinality(Reached(r)')
    <3>1. Reached(r)' = Reached(r)
      BY <2>2 DEF Types, Moves, Reached, At
    <3> QED BY <2>1, <2>2, <3>1 DEF Moves
  <2>3. ASSUME Moves(a, {"off"}, {"sipi"})
        PROVE  entered'[r] = Cardinality(Reached(r)')
    <3>1. Reached(r)' = Reached(r)
      BY <2>3 DEF Types, Moves, Reached, At
    <3> QED BY <2>1, <2>3, <3>1 DEF Moves
  <2>4. ASSUME NEW q \in 1..4, q = At(a) + 1, EnterRecord(a, q)
        PROVE  entered'[r] = Cardinality(Reached(r)')
    <3>1. CASE r = q
      <4>1. Reached(r)' = Reached(r) \cup {a} /\ a \notin Reached(r)
        BY <2>4, <3>1 DEF Types, EnterRecord, Reached, At, Record
      <4>2. IsFiniteSet(Reached(r))
        BY Mailboxes, FS_Subset DEF Reached
      <4>3. Cardinality(Reached(r)') = Cardinality(Reached(r)) + 1
        BY <4>1, <4>2, FS_AddElement
      <4>4. entered'[r] = entered[r] + 1
        BY <2>4, <3>1 DEF Types, EnterRecord, Record
      <4> QED BY <2>1, <4>3, <4>4
    <3>2. CASE r # q
      <4>1. Reached(r)' = Reached(r)
        BY <2>4, <3>2 DEF Types, EnterRecord, Reached, At, Record
      <4>2. entered'[r] = entered[r]
        BY <2>4, <3>2 DEF Types, EnterRecord, Record
      <4> QED BY <2>1, <4>1, <4>2
    <3> QED BY <3>1, <3>2
  <2>5. CASE StepsAside(a)
    BY <2>2, <2>3, <2>5 DEF StepsAside, InLoop
  <2>6. CASE StepsOn(a)
    BY <2>1, <2>4, <2>6, Tables DEF StepsOn, At
  <2>7. CASE pc[a] = "relocating" /\ EnterRecord(a, rec[a] + 1)
    BY <2>4, <2>7 DEF Types, At
  <2>8. CASE Moves(a, {"call"}, {"relocating"})
    BY <2>2, <2>8
  <2> QED BY <1>0, <1>3, <2>5, <2>6, <2>7, <2>8, NotLost
<1>4. CASE SmiOrNothing
  BY <1>1, <1>4, Steadily DEF Steady, planVars
<1> QED BY <1>1, <1>2, <1>3, <1>4, NextKinds, PlanningKeeps DEF CallKind

-----------------------------------------------------------------------------
(* A blocking record that is not released has been entered by all when the *)
(* count says so.                                                          *)
LEMMA ArrivedAll ==
  ASSUME Types, Counts, OnPlan, on_time, plan = "init", bpc = "wait", Arrived
  PROVE  brec # 2 => \A a \in AP : At(a) >= brec
<1> SUFFICES ASSUME brec # 2 PROVE \A a \in AP : At(a) >= brec
  OBVIOUS
<1>1. brec \in 1..4 /\ ~barrier[brec]
  BY DEF OnPlan, InPlan, ReleasedTo, Over
<1>2. Cardinality(Reached(brec)) = NumAps
  BY <1>1 DEF Arrived, Counts
<1>3. Reached(brec) = AP
  BY <1>2, Mailboxes, FS_Subset DEF Reached
<1> QED BY <1>3 DEF Reached

LEMMA PlanStep ==
  ASSUME Types, Counts, OnPlan, OnRestart, Delivery, [MpNext]_vars PROVE OnPlan'
<1> SUFFICES ASSUME on_time', plan' = "init"
             PROVE  /\ InPlan' => brec' \in 1..4
                    /\ \A r \in 1..4 : barrier'[r] <=> r = 2 \/ r <= ReleasedTo'
                    /\ \A a \in AP : Between(a)'
                    /\ bpc' = "relocating" => brec' = 2 /\ do_smm'
                    /\ ReleasedTo' = 0 /\ bpc' # "release" => area' = "sipi"
                    /\ InPlan' /\ (ReleasedTo' > 0 \/ bpc' = "release") /\ do_smm'
                          => area' = "smm"
  BY DEF OnPlan
<1>0. on_time
  BY OnTimeBefore
<1>1. CASE Planning
  <2>1. plan = "init" /\ UNCHANGED <<pc, rec>> /\ \A a \in AP : At(a)' = At(a) /\ Past(a)' = Past(a)
    BY <1>1, PlanningKeeps DEF At, Past
  <2> USE <1>0, <2>1 DEF Types, OnPlan, Between, InPlan, Over, ReleasedTo, Met, relocVars, planVars
  <2>2. CASE Started
    BY <2>2, Tables DEF Started
  <2>3. CASE StartExpired \/ RecordExpired
    BY <2>3 DEF StartExpired, RecordExpired, Expires, on_time
  <2>4. CASE RecordReached
    <3>1. brec # 2 => \A a \in AP : At(a) >= brec
      BY <2>4, ArrivedAll DEF RecordReached
    <3> QED BY <2>4, <3>1 DEF RecordReached
  <2>5. CASE LoadSmmHandlers
    BY <2>5, Tables DEF LoadSmmHandlers
  <2>6. CASE BspRelocates
    BY <2>6, Tables DEF BspRelocates
  <2>7. CASE BspRelocated
    BY <2>7 DEF BspRelocated
  <2>8. CASE BspCall
    BY <2>8, Tables DEF BspCall
  <2>9. CASE ReleaseBarrier
    BY <2>9, Tables DEF ReleaseBarrier, Return, Record
  <2> QED BY <1>1, <2>2, <2>3, <2>4, <2>5, <2>6, <2>7, <2>8, <2>9 DEF Planning
<1>2. CASE CallKind
  BY <1>0, <1>2 DEF CallKind, OnPlan, Between, At, Past, InPlan, Over, ReleasedTo, Met
<1>3. CASE RestartAps
  BY <1>3 DEF RestartAps
<1>4. ASSUME PlanKept, \E a \in AP : ApKind(a) PROVE OnPlan'
  <2>1. PICK a \in AP : ApKind(a)
    BY <1>4
  <2>2. plan = "init" /\ ReleasedTo' = ReleasedTo /\ Met' = Met
    BY <1>4 DEF PlanKept, ReleasedTo, Met, Over
  <2>3. ASSUME NEW b \in AP, pc'[b] = pc[b], rec'[b] = rec[b] PROVE Between(b)'
    BY <1>0, <1>4, <2>2, <2>3 DEF OnPlan, PlanKept, Between, At, Past
  <2>4. \A b \in AP : b # a => pc'[b] = pc[b] /\ rec'[b] = rec[b]
    BY <1>0, <2>1, NotLost DEF Types, StepsAside, StepsOn, Moves, EnterRecord
  <2>5. /\ Between(a) /\ Met \in 0..4 /\ ReleasedTo \in 0..4
        /\ \A r \in 1..4 : barrier[r] <=> r = 2 \/ r <= ReleasedTo
    BY <1>0, <2>2 DEF OnPlan, Met, ReleasedTo, Over, InPlan, Types
  <2>6. Between(a)'
    <3> USE <1>4, <2>2, <2>5 DEF Types, PlanKept, Between, At, Past
    <3>1. CASE StepsAside(a)
      BY <3>1 DEF StepsAside, Moves, InLoop
    <3>2. CASE pc[a] = "sipi" /\ EnterRecord(a, FirstRecord[plan])
      <4>1. pc'[a] = "barrier" /\ rec'[a] = 1
        BY <3>2, Tables DEF EnterRecord
      <4> QED BY <3>2, <4>1
    <3>3. CASE pc[a] \in {"call", "relocating"} /\ rec[a] \in 1..3 /\ EnterRecord(a, rec[a] + 1)
      <4>1. pc'[a] = "barrier" /\ rec'[a] = rec[a] + 1
        BY <3>3 DEF EnterRecord
      <4> QED BY <3>3, <4>1
    <3>4. CASE Moves(a, {"call"}, {"relocating"}) /\ rec[a] = 2 /\ do_smm
      BY <3>4 DEF Moves
    <3> QED BY <1>0, <2>1, <3>1, <3>2, <3>3, <3>4, NotLost DEF StepsOn
  <2> QED BY <1>0, <1>4, <2>2, <2>3, <2>4, <2>6 DEF OnPlan, PlanKept, InPlan
<1>5. CASE SmiOrNothing
  BY <1>0, <1>5, Steadily DEF Steady, planVars, OnPlan, Between, At, Past, InPlan, Over, ReleasedTo, Met
<1> QED BY <1>1, <1>2, <1>3, <1>4, <1>5, NextKinds DEF OnPlan

LEMMA ReplanStep ==
  ASSUME Types, OnPlan, OnRestart, Delivery, [MpNext]_vars PROVE OnRestart'
<1> SUFFICES ASSUME on_time', plan' = "restart"
             PROVE  /\ InPlan' => brec' = 5
                    /\ bpc' # "relocating" /\ area' = "sipi"
                    /\ \A a \in AP : /\ pc'[a] \notin {"off", "sipi"} => rec'[a] = 5
                                     /\ pc'[a] \notin {"relocating", "lost"}
  BY DEF OnRestart
<1>0. on_time
  BY OnTimeBefore
<1>1. CASE Planning
  <2> USE <1>0, PlanningKeeps DEF Types, OnRestart, InPlan, relocVars, planVars, Record
  <2>1. CASE Started
    BY <1>1, <2>1, Tables DEF Started
  <2>2. CASE StartExpired \/ RecordExpired
    BY <2>2 DEF StartExpired, RecordExpired, Expires, on_time
  <2>3. CASE RecordReached
    BY <1>1, <2>3 DEF RecordReached
  <2>4. CASE LoadSmmHandlers \/ BspRelocates \/ BspRelocated
    BY <1>1, <2>4, Tables DEF LoadSmmHandlers, BspRelocates, BspRelocated
  <2>5. CASE BspCall
    BY <1>1, <2>5 DEF BspCall
  <2>6. CASE ReleaseBarrier
    BY <1>1, <2>6, Tables DEF ReleaseBarrier, Return
  <2> QED BY <1>1, <2>1, <2>2, <2>3, <2>4, <2>5, <2>6 DEF Planning
<1>2. CASE CallKind
  BY <1>0, <1>2 DEF CallKind, OnRestart, InPlan, Over
<1>3. CASE RestartAps
  BY <1>3 DEF RestartAps, InPlan
<1>4. ASSUME PlanKept, NEW a \in AP, ApKind(a) PROVE OnRestart'
  <2> USE <1>0, <1>4 DEF Types, OnRestart, PlanKept, InPlan
  <2>1. CASE StepsAside(a)
    BY <2>1 DEF StepsAside, Moves, InLoop
  <2>2. CASE StepsOn(a)
    BY <2>2, Tables DEF StepsOn, EnterRecord
  <2>3. pc[a] # "relocating" /\ (~Moves(a, {"call"}, {"relocating"}) \/ rec[a] # 2)
    BY DEF Moves
  <2> QED BY <2>1, <2>2, <2>3, NotLost DEF Moves
<1>5. CASE SmiOrNothing
  BY <1>0, <1>5, Steadily DEF Steady, planVars, OnRestart, InPlan
<1> QED BY <1>1, <1>2, <1>3, <1>4, <1>5, NextKinds DEF OnRestart

(* Where a processor may be in its relocation, and where its interrupt.    *)
LEMMA InPlaceStep ==
  ASSUME Types, OnPlan, OnRestart, InPlace, [MpNext]_vars PROVE InPlace'
<1> SUFFICES ASSUME on_time', NEW p \in Cpu
             PROVE  smi'[p] # "lost" /\ (smi'[p] # "none" => Relocates(p)')
  BY DEF InPlace
<1>0. on_time /\ ~Expires
  BY OnTimeBefore DEF on_time, Expires, Types
<1>1. smi[p] # "lost" /\ (smi[p] # "none" => Relocates(p))
  BY <1>0 DEF InPlace
<1>2. ASSUME smi' = smi, Relocates(p) => Relocates(p)'
      PROVE  smi'[p] # "lost" /\ (smi'[p] # "none" => Relocates(p)')
  BY <1>1, <1>2
<1>3. ASSUME smi' = smi, smi[p] = "none"
      PROVE  smi'[p] # "lost" /\ (smi'[p] # "none" => Relocates(p)')
  BY <1>3
<1>4. Relocates(p) => InPlan /\ area = "smm"
  BY <1>0, HandlerIsThere
<1>5. CASE Planning
  <2>0. UNCHANGED pc
    BY <1>5, PlanningKeeps
  <2> USE DEF relocVars, Relocates
  <2>1. CASE Started \/ RecordReached \/ BspCall \/ LoadSmmHandlers \/ ReleaseBarrier
    BY <1>2, <2>0, <2>1 DEF Started, RecordReached, BspCall, LoadSmmHandlers, ReleaseBarrier
  <2>2. CASE StartExpired \/ RecordExpired
    BY <1>0, <2>2 DEF StartExpired, RecordExpired
  <2>3. CASE BspRelocates
    <3>1. smi' = [smi EXCEPT ![Boot] = "pending"] /\ bpc' = "relocating"
      BY <1>0, <2>3 DEF BspRelocates, SendsSmi
    <3> QED BY <1>1, <2>0, <2>3, <3>1 DEF Types, BspRelocates
  <2>4. CASE BspRelocated
    <3>1. smi[Boot] = "none" /\ smi' = smi
      BY <1>0, <2>4 DEF BspRelocated, EndsWait
    <3> QED BY <1>1, <2>0, <2>4, <3>1
  <2> QED BY <1>5, <2>1, <2>2, <2>3, <2>4 DEF Planning
<1>6. CASE CallKind \/ RestartAps
  <2>1. smi' = smi /\ ~InPlan
    BY <1>6 DEF CallKind, RestartAps, Over, InPlan
  <2> QED BY <1>1, <1>3, <1>4, <2>1
<1>7. ASSUME PlanKept, NEW a \in AP, ApKind(a)
      PROVE  smi'[p] # "lost" /\ (smi'[p] # "none" => Relocates(p)')
  <2>0. bpc' = bpc
    BY <1>7 DEF PlanKept
  <2>1. CASE p # a
    <3>1. smi'[p] = smi[p] /\ (p # Boot => pc'[p] = pc[p])
      BY <1>7, <2>1 DEF ApKind, Types, StepsAside, StepsOn, Moves, EnterRecord,
                        ApRelocates, SendsSmi, Lost, apUnchanged, Cpu
    <3> QED BY <1>1, <2>0, <3>1 DEF Relocates
  <2>2. CASE p = a
    <3>0. a # Boot
      BY DEF AP, Boot
    <3>1. CASE (StepsAside(a) \/ StepsOn(a)) /\ UNCHANGED <<locked, smi>>
      <4>1. pc[a] # "relocating"
        BY <3>1 DEF StepsAside, StepsOn, Moves, InLoop
      <4> QED BY <1>1, <1>3, <2>2, <3>0, <3>1, <4>1 DEF Relocates
    <3>2. CASE EndsWait(a) /\ UNCHANGED smi
      BY <1>0, <1>3, <2>2, <3>2 DEF EndsWait
    <3>3. CASE ApRelocates(a)
      <4>1. smi' = [smi EXCEPT ![a] = "pending"] /\ pc' = [pc EXCEPT ![a] = "relocating"]
        BY <1>0, <3>3 DEF ApRelocates, SendsSmi
      <4> QED BY <2>2, <3>0, <4>1 DEF Types, Relocates
    <3>4. CASE Lost(a) /\ (pc[a] \in {"off", "sipi"} \/ RunsGarbage(a))
      <4>1. pc[a] # "relocating" /\ smi' = smi
        BY <3>4 DEF Lost, apUnchanged, RunsGarbage
      <4> QED BY <1>1, <1>3, <2>2, <3>0, <4>1 DEF Relocates
    <3> QED BY <1>7, <3>1, <3>2, <3>3, <3>4 DEF ApKind
  <2> QED BY <2>1, <2>2
<1>8. CASE SmiOrNothing
  <2>1. UNCHANGED <<bpc, pc>> /\ Relocates(p)' = Relocates(p)
    BY <1>8, Steadily DEF Steady, Relocates
  <2>2. CASE UNCHANGED vars
    BY <1>2, <2>1, <2>2 DEF vars, relocVars
  <2>3. ASSUME NEW q \in Cpu, RelocationSmi(q)
        PROVE  smi'[p] # "lost" /\ (smi'[p] # "none" => Relocates(p)')
    <3>1. smi[q] # "none" /\ \E x : smi' = [smi EXCEPT ![q] = x]
      BY <2>3 DEF RelocationSmi
    <3>2. CASE p # q
      BY <1>1, <2>1, <3>1, <3>2 DEF Types
    <3>3. CASE p = q
      <4>1. Relocates(p) /\ area = "smm"
        BY <1>1, <1>4, <3>1, <3>3
      <4>2. smi' = [smi EXCEPT ![p] = "handler"] \/ smi' = [smi EXCEPT ![p] = "none"]
        BY <2>3, <3>3, <4>1 DEF RelocationSmi
      <4> QED BY <2>1, <4>1, <4>2 DEF Types
    <3> QED BY <3>2, <3>3
  <2> QED BY <1>8, <2>2, <2>3 DEF SmiOrNothing
<1> QED BY <1>5, <1>6, <1>7, <1>8, NextKinds

-----------------------------------------------------------------------------
(* What a processor does with its mailbox: read it, copy the call, empty   *)
(* it; or nothing.                                                         *)
LeavesMail(a) ==
    /\ \E p \in {"off", "sipi", "barrier", "call", "relocating", "poll", "parked", "lost"} :
           pc' = [pc EXCEPT ![a] = p]
    /\ UNCHANGED <<slot, got>>
    /\ lcb' = lcb \/ lcb' = [lcb EXCEPT ![a] = BlankCall]

LEMMA MailKinds ==
  ASSUME NEW a \in AP, ApWorks(a)
  PROVE  /\ UNCHANGED <<bpc, call, frame>>
         /\ LeavesMail(a) \/ ReadCallback(a) \/ CopyCallback(a) \/ ClearSlot(a)
<1> USE DEF LeavesMail, apUnchanged, smiUnchanged, mailVars
<1>1. CASE CheckIn(a) \/ ApInit(a) \/ RunsGarbage(a)
  BY <1>1 DEF CheckIn, ApInit, RunsGarbage, Lost, EnterRecord
<1>2. CASE PassBarrier(a) \/ ApCall(a)
  BY <1>2 DEF PassBarrier, ApCall, EnterRecord
<1>3. CASE ApRelocates(a)
  BY <1>3 DEF ApRelocates
<1>4. CASE ApRelocated(a) \/ WaitForInstruction(a)
  BY <1>4 DEF ApRelocated, WaitForInstruction, EnterRecord
<1>5. CASE Finish(a) \/ Park(a)
  BY <1>5 DEF Finish, Park
<1>6. CASE ReadCallback(a) \/ CopyCallback(a) \/ ClearSlot(a)
  BY <1>6 DEF ReadCallback, CopyCallback, ClearSlot
<1> QED BY <1>1, <1>2, <1>3, <1>4, <1>5, <1>6 DEF ApWorks

(* The calls that post work, and what they post.                           *)
Posts(c, func) ==
    /\ Post(c, func) /\ c \in CallRecord /\ c.frame \in Frame
    /\ func \in {"work", "park"} /\ UNCHANGED <<pc, got>>

LEMMA Posted ==
  ASSUME MailTypes,
         \/ \E f \in Frame, t \in 0..NumAps, w, timed \in BOOLEAN :
                RunOnAps(f, t, w, timed)
         \/ \E f \in Frame, timed \in BOOLEAN : RunOnAllAps(f, timed)
         \/ \E f \in Frame : ParkAps(f)
         \/ CallNext
  PROVE  /\ \E c, func : Posts(c, func)
         /\ bpc = "ready" \/ (bpc = "calling" /\ WorkDone)
         /\ UNCHANGED expired
<1> USE DEF Posts, CallRecord
<1>1. ASSUME NEW f \in Frame, NEW t \in 0..NumAps, NEW w \in BOOLEAN,
             NEW timed \in BOOLEAN, RunOnAps(f, t, w, timed)
      PROVE  (\E c, func : Posts(c, func)) /\ bpc = "ready" /\ UNCHANGED expired
  <2> DEFINE c == [op |-> "run", frame |-> f, target |-> t, wait |-> w, timed |-> timed]
  <2>1. c \in CallRecord /\ c.frame \in Frame
    OBVIOUS
  <2>2. Post(c, "work") /\ bpc = "ready" /\ UNCHANGED <<pc, got, expired>>
    BY <1>1 DEF RunOnAps, BeginCall, postUnchanged
  <2> QED BY <2>1, <2>2
<1>2. ASSUME NEW f \in Frame, NEW timed \in BOOLEAN, RunOnAllAps(f, timed)
      PROVE  (\E c, func : Posts(c, func)) /\ bpc = "ready" /\ UNCHANGED expired
  <2> DEFINE c == [op |-> "serial", frame |-> f, target |-> 1, wait |-> FALSE,
                   timed |-> timed]
  <2>1. c \in CallRecord /\ c.frame \in Frame
    BY CpuAssumption
  <2>2. Post(c, "work") /\ bpc = "ready" /\ UNCHANGED <<pc, got, expired>>
    BY <1>2 DEF RunOnAllAps, BeginCall, postUnchanged
  <2> QED BY <2>1, <2>2
<1>3. ASSUME NEW f \in Frame, ParkAps(f)
      PROVE  (\E c, func : Posts(c, func)) /\ bpc = "ready" /\ UNCHANGED expired
  <2> DEFINE c == [op |-> "park", frame |-> f, target |-> All, wait |-> FALSE,
                   timed |-> TRUE]
  <2>1. c \in CallRecord /\ c.frame \in Frame
    BY CpuAssumption DEF All
  <2>2. Post(c, "park") /\ bpc = "ready" /\ UNCHANGED <<pc, got, expired>>
    BY <1>3 DEF ParkAps, BeginCall, postUnchanged
  <2> QED BY <2>1, <2>2
<1>4. ASSUME CallNext
      PROVE  (\E c, func : Posts(c, func)) /\ bpc = "calling" /\ WorkDone
             /\ UNCHANGED expired
  <2> DEFINE c == [call EXCEPT !.target = @ + 1]
  <2>1. c \in CallRecord /\ c.frame \in Frame
    BY <1>4, CpuAssumption DEF CallNext, MailTypes
  <2>2. Post(c, "work") /\ UNCHANGED <<pc, got, expired>>
    BY <1>4 DEF CallNext, callUnchanged
  <2> HIDE DEF c
  <2> QED BY <1>4, <2>1, <2>2 DEF CallNext
<1> QED BY <1>1, <1>2, <1>3, <1>4

(* The boot processor's other steps leave the mailboxes alone.             *)
LEMMA MailKept ==
  ASSUME Planning \/ CallReturns \/ CallExpired \/ ParkDone \/ ParkExpired
  PROVE  /\ UNCHANGED <<slot, got, lcb, frame, pc>>
         /\ bpc' # "calling" /\ call' \in {call, NoCall}
<1> USE DEF mailVars, callVars, callUnchanged
<1>1. CASE Started \/ StartExpired
  BY <1>1 DEF Started, StartExpired, Return
<1>2. CASE RecordReached \/ RecordExpired
  BY <1>2 DEF RecordReached, RecordExpired
<1>3. CASE LoadSmmHandlers \/ BspRelocates
  BY <1>3 DEF LoadSmmHandlers, BspRelocates
<1>4. CASE BspRelocated \/ BspCall
  BY <1>4 DEF BspRelocated, BspCall
<1>5. CASE ReleaseBarrier
  BY <1>5 DEF ReleaseBarrier, Return
<1>6. CASE CallReturns
  BY <1>6 DEF CallReturns
<1>7. CASE CallExpired
  BY <1>7 DEF CallExpired
<1>8. CASE ParkDone \/ ParkExpired
  BY <1>8 DEF ParkDone, ParkExpired
<1> QED BY <1>1, <1>2, <1>3, <1>4, <1>5, <1>6, <1>7, <1>8 DEF Planning

(* Every step, as far as the mailboxes are concerned.                      *)
LEMMA NextMail ==
  ASSUME MailTypes, [MpNext]_vars
  PROVE  \/ \E a \in AP : ApWorks(a)
         \/ Planning \/ CallReturns \/ CallExpired \/ ParkDone \/ ParkExpired
         \/ /\ \E c, func : Posts(c, func)
            /\ bpc = "ready" \/ (bpc = "calling" /\ WorkDone)
            /\ UNCHANGED expired
         \/ RestartAps
         \/ SmiOrNothing
BY Posted DEF MpNext, Bsp, BspWorks, Ap, Caller, Planning, SmiOrNothing, Cpu

LEMMA MailTypesStep ==
  ASSUME Types, MailTypes, [MpNext]_vars PROVE MailTypes'
<1>1. ASSUME NEW a \in AP, ApWorks(a) PROVE MailTypes'
  <2>1. UNCHANGED <<bpc, call, frame>>
    BY <1>1, MailKinds
  <2> USE DEF Types, MailTypes
  <2>2. BlankCall \in [cb: Callback, current: BOOLEAN] /\ GarbageCall \in Callback
    BY CpuAssumption DEF BlankCall, GarbageCall, Callback, All
  <2>3. CASE LeavesMail(a)
    BY <2>1, <2>2, <2>3 DEF LeavesMail
  <2>4. CASE ReadCallback(a)
    <3>1. slot[a] \in Frame
      BY <2>4, Mailboxes DEF ReadCallback
    <3> QED BY <2>1, <2>4, <3>1 DEF ReadCallback
  <2>5. CASE CopyCallback(a)
    <3>1. got[a] \in Frame /\ InFrame(got[a]) \subseteq Callback
      BY <2>2, <2>5 DEF CopyCallback, InFrame
    <3>2. PICK cb \in Callback :
            lcb' = [lcb EXCEPT ![a] = [cb |-> cb, current |-> Live(got[a])]]
      BY <2>5, <3>1 DEF CopyCallback
    <3>3. lcb' \in [AP -> [cb: Callback, current: BOOLEAN]]
      BY <3>2 DEF Live
    <3> QED BY <2>1, <2>5, <3>3, FrameAssumption DEF CopyCallback
  <2>6. CASE ClearSlot(a)
    BY <2>1, <2>6 DEF ClearSlot, Clears
  <2> QED BY <1>1, <2>3, <2>4, <2>5, <2>6, MailKinds
<1>2. CASE Planning \/ CallReturns \/ CallExpired \/ ParkDone \/ ParkExpired
  <2>1. NoCall \in CallRecord
    BY CpuAssumption DEF NoCall, CallRecord, All
  <2> QED BY <1>2, <2>1, MailKept DEF MailTypes
<1>3. ASSUME NEW c, NEW func, Posts(c, func) PROVE MailTypes'
  <2>1. c.target \in 0..NumAps /\ [func |-> func, target |-> c.target] \in Callback
    BY <1>3 DEF Posts, CallRecord, Callback
  <2> QED BY <1>3, <2>1 DEF Posts, Post, MailTypes
<1>4. CASE RestartAps
  <2>1. BlankCall \in [cb: Callback, current: BOOLEAN]
    BY CpuAssumption DEF BlankCall, GarbageCall, Callback, All
  <2> QED BY <1>4, <2>1 DEF RestartAps, callVars, MailTypes
<1>5. CASE SmiOrNothing
  BY <1>5, Steadily DEF Steady, mailVars, callVars, MailTypes
<1> QED BY <1>1, <1>2, <1>3, <1>4, <1>5, NextMail

(* A call that is done has been taken out of every mailbox that somebody   *)
(* reads: the others stay full.                                            *)
LEMMA AllTaken ==
  ASSUME MailTypes, Delivery, on_time, bpc = "calling", WorkDone
  PROVE  \A a \in AP : slot[a] = NoFrame
<1>1. Accepted \subseteq AP
  BY DEF Delivery, Accepted
<1>2. Accepted = AP
  BY <1>1, Mailboxes, FS_Subset DEF WorkDone
<1> QED BY <1>2 DEF Accepted

LEMMA DeliveryStep ==
  ASSUME Types, MailTypes, Delivery, [MpNext]_vars PROVE Delivery'
<1> SUFFICES ASSUME on_time' PROVE Delivery'
  BY DEF Delivery
<1>0. on_time
  BY OnTimeBefore
<1>1. ASSUME NEW a \in AP, ApWorks(a) PROVE Delivery'
  <2>1. UNCHANGED <<bpc, call, frame>>
    BY <1>1, MailKinds
  <2> USE <1>0 DEF Types, MailTypes, Delivery, Reads
  <2>2. CASE LeavesMail(a)
    BY <2>1, <2>2 DEF LeavesMail
  <2>3. CASE ReadCallback(a)
    BY <2>1, <2>3 DEF ReadCallback
  <2>4. CASE CopyCallback(a)
    <3>1. bpc = "calling" /\ got[a] = call.frame
      BY <2>4 DEF CopyCallback
    <3>2. InFrame(got[a]) = {frame[call.frame]}
      BY <3>1 DEF InFrame, Live
    <3>3. PICK cb : /\ cb = frame[call.frame]
                    /\ lcb' = [lcb EXCEPT ![a] = [cb |-> cb, current |-> Live(got[a])]]
      BY <2>4, <3>2 DEF CopyCallback
    <3>4. lcb'[a].cb.func # "garbage" /\ \A b \in AP \ {a} : lcb'[b] = lcb[b]
      BY <3>1, <3>3
    <3>5. UNCHANGED slot /\ pc' = [pc EXCEPT ![a] = "copied"]
          /\ got' = [got EXCEPT ![a] = NoFrame]
      BY <2>4 DEF CopyCallback
    <3>6. slot[a] # NoFrame
      BY <2>4, <3>1 DEF CopyCallback
    <3> QED BY <2>1, <3>1, <3>4, <3>5, <3>6
  <2>5. CASE ClearSlot(a)
    BY <2>1, <2>5, Mailboxes DEF ClearSlot, Clears
  <2> QED BY <1>1, <2>2, <2>3, <2>4, <2>5, MailKinds
<1>2. CASE CallReturns
  <2>1. \A a \in AP : slot[a] = NoFrame
    BY <1>0, <1>2, AllTaken DEF CallReturns
  <2> QED BY <1>0, <1>2, <2>1, MailKept DEF CallReturns, Delivery, Reads
<1>3. CASE CallExpired
  BY <1>3 DEF CallExpired, Expires, on_time, Types
<1>4. CASE Planning \/ ParkDone \/ ParkExpired
  <2>1. bpc # "calling"
    BY <1>4 DEF Planning, Started, StartExpired, RecordReached, RecordExpired,
                LoadSmmHandlers, BspRelocates, BspRelocated, BspCall, ReleaseBarrier,
                ParkDone, ParkExpired
  <2> QED BY <1>0, <1>4, <2>1, MailKept DEF Delivery, Reads
<1>5. ASSUME NEW c, NEW func, Posts(c, func),
             bpc = "ready" \/ (bpc = "calling" /\ WorkDone)
      PROVE  Delivery'
  <2>1. \A a \in AP : ~Reads(a)
    BY <1>0, <1>5, AllTaken DEF Delivery
  <2>2. slot' = [s \in Slot |-> c.frame] /\ call' = c /\ bpc' = "calling"
        /\ c.frame # NoFrame /\ frame'[call'.frame].func # "garbage"
    BY <1>5, FrameAssumption DEF Posts, Post, MailTypes
  <2>3. ASSUME NEW a \in AP PROVE lcb'[a].cb = lcb[a].cb /\ pc'[a] = pc[a]
    BY <1>5 DEF Posts, Post, MailTypes
  <2> QED BY <1>0, <2>1, <2>2, <2>3, Mailboxes DEF Delivery, Reads
<1>6. CASE RestartAps
  BY <1>0, <1>6 DEF RestartAps, Delivery, Reads
<1>7. CASE SmiOrNothing
  BY <1>0, <1>7, Steadily DEF Steady, mailVars, callVars, Delivery, Reads
<1> QED BY <1>1, <1>2, <1>3, <1>4, <1>5, <1>6, <1>7, NextMail

-----------------------------------------------------------------------------
LEMMA InitPlan == MpStart => PlanInv
<1> SUFFICES ASSUME MpStart PROVE PlanInv
  OBVIOUS
<1>0. barrier \in [Record -> BOOLEAN] /\ \A r \in Record : barrier[r] <=> r = 2
  BY Zenon DEF MpStart, Blocks
<1>1. Types /\ OneRelocates
  <2>1. Types
    <3>1. brec \in Record /\ rec \in [AP -> Record]
      BY DEF MpStart, Record
    <3>2. entered \in [Record -> Nat] /\ expired \in Nat
      BY DEF MpStart
    <3>3. /\ bpc = "start" /\ plan = "init" /\ area = "sipi"
          /\ do_smm \in BOOLEAN /\ locked = FALSE
          /\ pc = [a \in AP |-> "off"] /\ smi = [p \in Cpu |-> "none"]
      BY DEF MpStart
    <3> QED BY <1>0, <3>1, <3>2, <3>3 DEF Types
  <2>2. OneRelocates
    BY DEF MpStart, OneRelocates, Relocating
  <2> QED BY <2>1, <2>2
<1>2. Counts
  <2>1. ASSUME NEW r \in 1..4 PROVE Reached(r) = {}
    BY DEF MpStart, Reached, At
  <2>2. ASSUME NEW r \in 1..4 PROVE entered[r] = 0
    BY DEF MpStart, Record
  <2>3. ASSUME NEW r \in 1..4 PROVE entered[r] = Cardinality(Reached(r))
    BY <2>1, <2>2, FS_EmptySet
  <2> QED BY <2>3 DEF Counts
<1>3. OnPlan /\ OnRestart
  <2>1. \A r \in 1..4 : barrier[r] <=> r = 2
    BY <1>0 DEF Record
  <2>2. ReleasedTo = 0 /\ Met = 0 /\ ~InPlan
    BY DEF MpStart, ReleasedTo, Met, Over, InPlan
  <2>3. \A a \in AP : Between(a)
    BY <2>2 DEF MpStart, Between, At, Past
  <2> QED BY <2>1, <2>2, <2>3 DEF MpStart, OnPlan, OnRestart
<1>6. InPlace
  BY DEF MpStart, InPlace
<1>4. MailTypes
  BY CpuAssumption DEF MpStart, MailTypes, BlankCall, GarbageCall, Callback, CallRecord, NoCall, All
<1>5. Delivery
  BY Mailboxes DEF MpStart, Delivery, Reads
<1> QED BY <1>1, <1>2, <1>3, <1>4, <1>5, <1>6 DEF PlanInv

(* The inductive invariant of the start-up and of the calls: the flight    *)
(* plan orders the processors, the mailboxes order the calls;              *)
(* bsp_do_flight_plan(), run_ap_work().                                    *)
THEOREM PlanInvariant == MpSpec => []PlanInv
<1>1. PlanInv /\ [MpNext]_vars => PlanInv'
  BY TypesStep, RelocatesStep, CountsStep, PlanStep, ReplanStep, InPlaceStep,
     MailTypesStep, DeliveryStep DEF PlanInv
<1> QED BY <1>1, InitPlan, PTL DEF MpSpec

(* While the boot processor writes the SMM handlers over the start code,   *)
(* or does its part of any blocking record, every other processor stands   *)
(* at the barrier: bsp_do_flight_plan().                                   *)
THEOREM WorksAlone == MpSpec => []BspWorksAlone
<1>1. PlanInv => BspWorksAlone
  <2> SUFFICES ASSUME PlanInv, on_time, plan = "init", brec # 2, bpc = "call", NEW a \in AP
               PROVE  pc[a] = "barrier" /\ rec[a] = brec
    BY DEF BspWorksAlone
  <2>1. brec \in 1..4 /\ Met = brec /\ ReleasedTo = brec - 1 /\ Between(a)
    BY DEF PlanInv, OnPlan, InPlan, Met, ReleasedTo, Over
  <2>2. At(a) = brec /\ ~Past(a)
    BY <2>1 DEF Between, PlanInv, Types, At
  <2> QED BY <2>1, <2>2 DEF At, Past
<1> QED BY <1>1, PlanInvariant, PTL

(* Nobody runs code that is gone, nor a call whose frame is gone, and no   *)
(* interrupt finds the handler gone, as long as no wait expires:           *)
(* load_smm_handlers(), run_ap_work().                                     *)
THEOREM NoneLost == MpSpec => []NobodyLost
<1>1. PlanInv => NobodyLost
  BY DEF PlanInv, NobodyLost, OnPlan, OnRestart, InPlace, Between, Types
<1> QED BY <1>1, PlanInvariant, PTL

(* Two processors are in the relocation handler at once only if one of     *)
(* them had stopped waiting for its interrupt, and as long as no wait      *)
(* expires never, and with the handler in place: smm_initiate_relocation(),*)
(* smm_initiate_relocation_parallel().                                     *)
THEOREM RelocatesAlone == MpSpec => []RelocateAlone
<1>1. PlanInv => RelocateAlone
  <2> SUFFICES ASSUME PlanInv PROVE RelocateAlone
    OBVIOUS
  <2> DEFINE inside == {p \in Cpu : smi[p] = "handler"}
  <2>1. ASSUME NEW p \in Cpu, Relocates(p) PROVE locked
    BY <2>1 DEF PlanInv, OneRelocates, Relocating, Relocates, Cpu
  <2>2. ASSUME NEW p \in Cpu, NEW q \in Cpu, Relocates(p), Relocates(q) PROVE p = q
    BY <2>2 DEF PlanInv, OneRelocates, Relocating, Relocates, Cpu
  <2>3. ASSUME on_time, NEW p \in inside PROVE Relocates(p) /\ area = "smm"
    <3>1. Relocates(p)
      BY <2>3 DEF PlanInv, InPlace
    <3> QED BY <2>3, <3>1, HandlerIsThere DEF PlanInv
  <2>4. inside \subseteq Cpu
    OBVIOUS
  <2>5. \A p, q \in inside : p = q \/ ~Relocates(p) \/ ~Relocates(q)
    BY <2>2, <2>4
  <2>6. on_time => (\A p, q \in inside : p = q) /\ (inside # {} => area = "smm")
    BY <2>3, <2>5
  <2> QED BY <2>1, <2>4, <2>5, <2>6 DEF RelocateAlone
<1> QED BY <1>1, PlanInvariant, PTL

-----------------------------------------------------------------------------
(* What a call of the boot processor promises, however many waits expire:  *)
(* each processor takes it at most once, and success means what the caller *)
(* thinks.  Both rest on who may empty a mailbox, its owner, once per      *)
(* call: an empty one is a processor that has taken something since the    *)
(* call was posted.                                                        *)
CallCounts == served \in [AP -> Nat] /\ parked \in Nat
Statuses == ap_status \in [AP -> {"unset", "busy", "not busy"}]

CallShape ==
    /\ call.op = "serial" => call.target \in AP
    /\ call.op \in {"none", "park"} => call.target = All
    /\ ~Over \/ bpc = "parking" => call.op \in {"none", "park"}

ParkNeverWaits == call.op \in {"none", "park"} => ~call.wait

CallTypes == CallCounts /\ Statuses /\ CallShape /\ ParkNeverWaits

Aimed(a) == call.target \in {All, a}

(* Whose turn it has been in this call.                                    *)
HadTurn(a) == IF call.op = "serial" THEN a <= call.target ELSE Aimed(a)

(* Whoever is reading has not emptied its mailbox yet; if it is the call   *)
(* of now that it has copied, it has not begun that before.                *)
AtMostOnce ==
    \A a \in AP :
        /\ served[a] <= 1 /\ (~HadTurn(a) => served[a] = 0)
        /\ Reads(a) => slot[a] # NoFrame
        /\ Aimed(a) /\ slot[a] # NoFrame => served[a] = 0
        /\ pc[a] = "copied" /\ lcb[a].current
              => Over /\ lcb[a].cb.target = call.target

(* While a call is made, an empty mailbox has been emptied by its owner.   *)
Answered(a) ==
    pc[a] = "poll" \/ (pc[a] \in {"taken", "parked", "lost"} /\ ap_status[a] = "busy")

InCall ==
    /\ \A a \in AP : pc[a] \in {"copied", "taken", "parked"} => ap_status[a] = "busy"
    /\ bpc = "calling" =>
        /\ frame[call.frame].target = call.target
        /\ \A s \in Slot \ AP : slot[s] # NoFrame
        /\ \A a \in AP : slot[a] = NoFrame => Answered(a)

(* A call before which no mailbox was in use reaches all it is for.        *)
Reaches ==
    clean /\ call.op # "none" =>
        /\ \A a \in AP : /\ slot[a] \in {NoFrame, call.frame}
                         /\ pc[a] = "got" => got[a] = call.frame
                         /\ bpc = "calling" /\ pc[a] = "copied" => lcb[a].current
        /\ bpc = "calling" =>
              \A a \in AP : HadTurn(a) =>
                  served[a] = 1 \/ (Aimed(a) /\ slot[a] # NoFrame)
        /\ bpc \in {"parking", "ready"} /\ ret = "success" =>
              \A a \in Addressed : served[a] = 1

(* Who is parked has been counted, and after success nobody moves.         *)
Parked == {a \in AP : pc[a] = "parked"}

Settled ==
    /\ call.op = "park" /\ Over => parked <= Cardinality(Parked)
    /\ bpc = "ready" /\ ret = "success" /\ call.wait =>
          \A a \in AP : pc[a] = "poll" /\ slot[a] = NoFrame
    /\ bpc = "ready" /\ ret = "success" /\ call.op = "park" =>
          \A a \in AP : pc[a] = "parked"

CallInv == CallTypes /\ AtMostOnce /\ InCall /\ Reaches /\ Settled

-----------------------------------------------------------------------------
(* A processor's step, as far as calls are concerned.                      *)
Early == {"off", "sipi", "barrier", "call", "relocating"}
CallKept == UNCHANGED <<bpc, call, frame, ret, clean>>

ElseWhere(a) ==
    /\ pc[a] \in Early
    /\ \E p \in Early \cup {"poll", "lost"} : pc' = [pc EXCEPT ![a] = p]
    /\ UNCHANGED <<slot, got, parked, served>>
    /\ lcb' = lcb \/ lcb' = [lcb EXCEPT ![a] = BlankCall]
    /\ ap_status' = ap_status \/ ap_status' = [ap_status EXCEPT ![a] = "not busy"]

Ends(a) ==
    /\ pc[a] = "taken"
    /\ UNCHANGED <<slot, got, served>> /\ lcb' = [lcb EXCEPT ![a] = BlankCall]
    /\ \/ /\ pc' = [pc EXCEPT ![a] = "poll"] /\ parked' = parked
          /\ ap_status' = [ap_status EXCEPT ![a] = "not busy"]
       \/ /\ pc' = [pc EXCEPT ![a] = "lost"] /\ parked' = parked
          /\ ap_status' = ap_status
       \/ /\ pc' = [pc EXCEPT ![a] = "parked"] /\ parked' = parked + 1
          /\ ap_status' = ap_status

LEMMA ServeKinds ==
  ASSUME NEW a \in AP, ApWorks(a)
  PROVE  /\ CallKept
         /\ ElseWhere(a) \/ ReadCallback(a) \/ CopyCallback(a) \/ ClearSlot(a) \/ Ends(a)
<1> USE DEF CallKept, ElseWhere, Early, Ends, apUnchanged, smiUnchanged, mailVars
<1>1. CASE CheckIn(a) \/ ApInit(a)
  BY <1>1 DEF CheckIn, ApInit, Lost, EnterRecord
<1>2. CASE PassBarrier(a) \/ ApCall(a)
  BY <1>2 DEF PassBarrier, ApCall, EnterRecord
<1>3. CASE ApRelocates(a)
  BY <1>3 DEF ApRelocates
<1>4. CASE ApRelocated(a) \/ WaitForInstruction(a)
  BY <1>4 DEF ApRelocated, WaitForInstruction, EnterRecord
<1>5. CASE Finish(a) \/ Park(a)
  BY <1>5 DEF Finish, Park
<1>6. CASE ReadCallback(a) \/ CopyCallback(a) \/ ClearSlot(a)
  BY <1>6 DEF ReadCallback, CopyCallback, ClearSlot
<1>7. CASE RunsGarbage(a)
  BY <1>7 DEF RunsGarbage, Lost
<1> QED BY <1>1, <1>2, <1>3, <1>4, <1>5, <1>6, <1>7 DEF ApWorks

(* A call of the interface posts the first work of a call.                 *)
CallBegins(c, func) ==
    /\ bpc = "ready" /\ call.op # "park"
    /\ Post(c, func) /\ c \in CallRecord /\ c.frame \in Frame
    /\ c.op # "none"
    /\ c.op = "serial" => c.target = 1
    /\ c.op = "park" => c.target = All /\ ~c.wait
    /\ served' = [a \in AP |-> 0]
    /\ clean' = \A a \in AP : slot[a] = NoFrame /\ pc[a] \notin {"got", "copied"}
    /\ parked' = IF c.op = "park" THEN 0 ELSE parked
    /\ UNCHANGED <<pc, got, ap_status>>

LEMMA BeginKinds ==
  ASSUME \/ \E f \in Frame, t \in 0..NumAps, w, timed \in BOOLEAN :
                RunOnAps(f, t, w, timed)
         \/ \E f \in Frame, timed \in BOOLEAN : RunOnAllAps(f, timed)
         \/ \E f \in Frame : ParkAps(f)
  PROVE  \E c, func : CallBegins(c, func)
<1> USE DEF CallBegins, CallRecord
<1>1. ASSUME NEW f \in Frame, NEW t \in 0..NumAps, NEW w \in BOOLEAN,
             NEW timed \in BOOLEAN, RunOnAps(f, t, w, timed)
      PROVE  \E c, func : CallBegins(c, func)
  <2> DEFINE c == [op |-> "run", frame |-> f, target |-> t, wait |-> w, timed |-> timed]
  <2>1. c \in CallRecord /\ c.frame \in Frame /\ c.op = "run"
    OBVIOUS
  <2>2. Post(c, "work") /\ BeginCall /\ UNCHANGED <<pc, got, ap_status, parked>>
    BY <1>1 DEF RunOnAps, postUnchanged
  <2> HIDE DEF c
  <2> QED BY <2>1, <2>2 DEF BeginCall
<1>2. ASSUME NEW f \in Frame, NEW timed \in BOOLEAN, RunOnAllAps(f, timed)
      PROVE  \E c, func : CallBegins(c, func)
  <2> DEFINE c == [op |-> "serial", frame |-> f, target |-> 1, wait |-> FALSE,
                   timed |-> timed]
  <2>1. c \in CallRecord /\ c.frame \in Frame /\ c.op = "serial" /\ c.target = 1
    BY CpuAssumption
  <2>2. Post(c, "work") /\ BeginCall /\ UNCHANGED <<pc, got, ap_status, parked>>
    BY <1>2 DEF RunOnAllAps, postUnchanged
  <2> HIDE DEF c
  <2> QED BY <2>1, <2>2 DEF BeginCall
<1>3. ASSUME NEW f \in Frame, ParkAps(f)
      PROVE  \E c, func : CallBegins(c, func)
  <2> DEFINE c == [op |-> "park", frame |-> f, target |-> All, wait |-> FALSE,
                   timed |-> TRUE]
  <2>1. /\ c \in CallRecord /\ c.frame \in Frame /\ c.op = "park" /\ c.target = All
        /\ ~c.wait
    BY CpuAssumption DEF All
  <2>2. Post(c, "park") /\ BeginCall /\ UNCHANGED <<pc, got, ap_status>> /\ parked' = 0
    BY <1>3 DEF ParkAps, postUnchanged
  <2> HIDE DEF c
  <2> QED BY <2>1, <2>2 DEF BeginCall
<1> QED BY <1>1, <1>2, <1>3

(* The plan does not touch a call, but the end of the plan forgets it.     *)
Plans ==
    /\ UNCHANGED <<slot, got, lcb, frame, pc, ap_status, served, clean>>
    /\ ~Over /\ bpc' # "calling" /\ parked' \in {0, parked}
    /\ (call' = call /\ ~Over') \/ call' = NoCall

LEMMA PlanKinds == ASSUME Types, Planning PROVE Plans
<1> USE DEF Plans, Over, mailVars, callVars, history
<1>1. CASE Started
  BY <1>1 DEF Started
<1>2. CASE StartExpired
  BY <1>2 DEF StartExpired, Return
<1>3. CASE RecordReached \/ RecordExpired
  BY <1>3 DEF RecordReached, RecordExpired
<1>4. CASE LoadSmmHandlers \/ BspRelocates
  BY <1>4 DEF LoadSmmHandlers, BspRelocates
<1>5. CASE BspRelocated \/ BspCall
  BY <1>5 DEF BspRelocated, BspCall
<1>6. CASE ReleaseBarrier
  BY <1>6 DEF ReleaseBarrier, Return
<1> QED BY <1>1, <1>2, <1>3, <1>4, <1>5, <1>6 DEF Planning

(* A call comes to an end, or the parking does.                            *)
Rests ==
    /\ UNCHANGED <<slot, got, lcb, frame, pc, ap_status, served, clean, parked, call>>
    /\ \/ /\ bpc = "calling" /\ WorkDone /\ ret' = "success"
          /\ ~(call.op = "serial" /\ call.target < NumAps)
          /\ bpc' = IF call.op = "park" THEN "parking" ELSE "ready"
       \/ /\ bpc \in {"calling", "parking"} /\ ret' = "error"
          /\ bpc' = "ready" \/ (bpc' = "parking" /\ call.op = "park")
       \/ bpc = "parking" /\ bpc' = "ready" /\ parked >= NumAps /\ ret' = ret

LEMMA RestKinds ==
  ASSUME CallReturns \/ CallExpired \/ ParkDone \/ ParkExpired PROVE Rests
<1> USE DEF Rests, callUnchanged
<1>1. CASE CallReturns
  BY <1>1 DEF CallReturns
<1>2. CASE CallExpired
  BY <1>2 DEF CallExpired
<1>3. CASE ParkDone
  BY <1>3 DEF ParkDone
<1>4. CASE ParkExpired
  BY <1>4 DEF ParkExpired
<1> QED BY <1>1, <1>2, <1>3, <1>4

LEMMA NextCalls ==
  ASSUME Types, [MpNext]_vars
  PROVE  \/ \E a \in AP : ApWorks(a)
         \/ Plans \/ Rests \/ (\E c, func : CallBegins(c, func))
         \/ CallNext \/ RestartAps \/ SmiOrNothing
BY PlanKinds, RestKinds, BeginKinds DEF MpNext, Bsp, BspWorks, Ap, Caller, Planning,
                                        SmiOrNothing, Cpu

(* As many empty mailboxes as there are processors are just theirs.        *)
LEMMA TakenByAll ==
  ASSUME MailTypes, InCall, bpc = "calling", WorkDone
  PROVE  \A a \in AP : slot[a] = NoFrame /\ Answered(a)
<1>1. Accepted \subseteq AP
  BY DEF InCall, Accepted
<1>2. Accepted = AP
  BY <1>1, Mailboxes, FS_Subset DEF WorkDone
<1> QED BY <1>2 DEF Accepted, InCall

-----------------------------------------------------------------------------
LEMMA CallTypesStep ==
  ASSUME Types, MailTypes, CallTypes, [MpNext]_vars PROVE CallTypes'
<1>0. CallCounts /\ Statuses /\ CallShape /\ ParkNeverWaits
  BY DEF CallTypes
<1>1. ASSUME NEW a \in AP, ApWorks(a) PROVE CallTypes'
  <2>1. CallKept
    BY <1>1, ServeKinds
  <2>2. served' \in [AP -> Nat]
    <3>1. UNCHANGED served \/ served' = [served EXCEPT ![a] = @ + 1]
      BY <1>1, ServeKinds DEF ElseWhere, ReadCallback, CopyCallback, ClearSlot, Ends
    <3> QED BY <1>0, <3>1 DEF CallCounts
  <2>3. parked' \in Nat
    <3>1. UNCHANGED parked \/ parked' = parked + 1
      BY <1>1, ServeKinds DEF ElseWhere, ReadCallback, CopyCallback, ClearSlot, Ends
    <3> QED BY <1>0, <3>1 DEF CallCounts
  <2>4. Statuses'
    <3>1. \/ UNCHANGED ap_status
          \/ ap_status' = [ap_status EXCEPT ![a] = "busy"]
          \/ ap_status' = [ap_status EXCEPT ![a] = "not busy"]
      BY <1>1, ServeKinds DEF ElseWhere, ReadCallback, CopyCallback, ClearSlot, Ends
    <3> QED BY <1>0, <3>1 DEF Statuses
  <2>5. CallShape' /\ ParkNeverWaits'
    BY <1>0, <2>1 DEF CallKept, CallShape, ParkNeverWaits, Over
  <2> QED BY <2>2, <2>3, <2>4, <2>5 DEF CallTypes, CallCounts
<1>2. CASE Plans
  <2>1. CallCounts' /\ Statuses'
    <3>1. CallCounts'
      BY <1>0, <1>2 DEF Plans, CallCounts
    <3>2. Statuses'
      BY <1>0, <1>2 DEF Plans, Statuses
    <3> QED BY <3>1, <3>2
  <2>2. CASE UNCHANGED call /\ ~Over'
    <3>1. CallShape' /\ ParkNeverWaits'
      BY <1>0, <1>2, <2>2 DEF Plans, CallShape, ParkNeverWaits
    <3> QED BY <2>1, <3>1 DEF CallTypes
  <2>3. CASE call' = NoCall
    <3>1. CallShape' /\ ParkNeverWaits'
      BY <2>3 DEF NoCall, CallShape, ParkNeverWaits
    <3> QED BY <2>1, <3>1 DEF CallTypes
  <2> QED BY <1>2, <2>2, <2>3 DEF Plans
<1>3. CASE Rests
  <2>1. UNCHANGED <<served, parked, ap_status, call>> /\ Over
        /\ (bpc' = "parking" => bpc = "parking" \/ call.op = "park")
        /\ bpc' \in {"ready", "parking"}
    BY <1>3 DEF Rests, Over
  <2>2. CallCounts'
    BY <1>0, <2>1 DEF CallCounts
  <2>3. Statuses'
    BY <1>0, <2>1 DEF Statuses
  <2>4. CallShape'
    BY <1>0, <2>1 DEF CallShape, Over
  <2>5. ParkNeverWaits'
    BY <1>0, <2>1 DEF ParkNeverWaits
  <2> QED BY <2>2, <2>3, <2>4, <2>5 DEF CallTypes
<1>4. ASSUME NEW c, NEW func, CallBegins(c, func) PROVE CallTypes'
  <2>1. 1 \in AP
    BY CpuAssumption DEF AP
  <2>2. CallCounts' /\ Statuses' /\ bpc' = "calling"
    BY <1>0, <1>4 DEF CallBegins, Post, CallCounts, Statuses
  <2>3. /\ call' = c /\ c.op # "none"
        /\ c.op = "serial" => c.target = 1
        /\ c.op = "park" => c.target = All /\ ~c.wait
    BY <1>4 DEF CallBegins, Post
  <2>4. CallShape' /\ ParkNeverWaits'
    BY <2>1, <2>2, <2>3 DEF CallShape, ParkNeverWaits, Over
  <2> QED BY <2>2, <2>4 DEF CallTypes
<1>5. CASE CallNext
  <2>1. call.op = "serial" /\ call.target < NumAps
        /\ call' = [call EXCEPT !.target = @ + 1] /\ bpc' = "calling"
    BY <1>5 DEF CallNext, Post
  <2>2. call.target \in AP /\ call'.op = "serial" /\ call'.target = call.target + 1
    BY <1>0, <2>1 DEF CallShape, MailTypes, CallRecord
  <2>3. CallShape' /\ ParkNeverWaits'
    BY <2>1, <2>2, CpuAssumption DEF AP, CallShape, ParkNeverWaits, Over
  <2>4. CallCounts' /\ Statuses'
    BY <1>0, <1>5 DEF CallNext, callUnchanged, CallCounts, Statuses
  <2> QED BY <2>3, <2>4 DEF CallTypes
<1>6. CASE RestartAps
  <2>1. CallCounts' /\ Statuses' /\ CallShape' /\ ParkNeverWaits'
    BY <1>0, <1>6 DEF RestartAps, callVars, history, CallCounts, Statuses, CallShape,
                      ParkNeverWaits, Over
  <2> QED BY <2>1 DEF CallTypes
<1>7. CASE SmiOrNothing
  BY <1>7, Steadily DEF Steady, mailVars, callVars, history, CallTypes, CallCounts, Statuses, CallShape,
              ParkNeverWaits, Over
<1> QED BY <1>1, <1>2, <1>3, <1>4, <1>5, <1>6, <1>7, NextCalls

(* A call is aimed at those whose turn it is.                              *)
LEMMA Turns ==
  ASSUME MailTypes, CallTypes, NEW a \in AP
  PROVE  /\ Aimed(a) => HadTurn(a)
         /\ HadTurn(a) => a \in Addressed
         /\ call.op = "serial" => call.target \in AP /\ (Aimed(a) <=> a = call.target)
<1>1. call.op = "serial" => call.target \in AP /\ call.target # All
  BY CpuAssumption DEF CallTypes, CallShape, AP, All
<1>2. CASE call.op = "serial"
  BY <1>1, <1>2 DEF Aimed, HadTurn, Addressed, AP
<1>3. CASE call.op # "serial"
  BY <1>3 DEF Aimed, HadTurn, Addressed, AimedAt
<1> QED BY <1>1, <1>2, <1>3

LEMMA AtMostOnceStep ==
  ASSUME Types, MailTypes, CallTypes, InCall, AtMostOnce, [MpNext]_vars
  PROVE  AtMostOnce'
<1> USE DEF AtMostOnce, Reads
<1>1. ASSUME NEW a \in AP, ApWorks(a) PROVE AtMostOnce'
  <2>1. CallKept
    BY <1>1, ServeKinds
  <2>2. Over' = Over /\ call' = call
        /\ \A b \in AP : Aimed(b)' = Aimed(b) /\ HadTurn(b)' = HadTurn(b)
    BY <2>1 DEF CallKept, HadTurn, Aimed, Over
  <2> USE <2>2 DEF Types
  <2>3. CASE ElseWhere(a)
    <3>1. /\ UNCHANGED <<served, slot>>
          /\ pc'[a] \notin {"got", "copied"}
          /\ \A b \in AP : b # a => pc'[b] = pc[b] /\ lcb'[b] = lcb[b]
      BY <2>3 DEF ElseWhere, Early, MailTypes
    <3> QED BY <3>1
  <2>4. CASE ReadCallback(a)
    BY <2>4 DEF ReadCallback
  <2>5. CASE CopyCallback(a)
    <3>1. PICK cb \in InFrame(got[a]) :
            lcb' = [lcb EXCEPT ![a] = [cb |-> cb, current |-> Live(got[a])]]
      BY <2>5 DEF CopyCallback
    <3>2. lcb'[a].cb = cb /\ lcb'[a].current = Live(got[a])
      BY <3>1 DEF MailTypes
    <3>3. Live(got[a]) => Over /\ cb.target = call.target
      BY <3>1 DEF Live, InFrame, InCall, Over
    <3>4. \A b \in AP : b # a => lcb'[b] = lcb[b]
      BY <3>1 DEF MailTypes
    <3>5. UNCHANGED <<slot, served>> /\ pc' = [pc EXCEPT ![a] = "copied"] /\ pc[a] = "got"
      BY <2>5 DEF CopyCallback
    <3> QED BY <3>2, <3>3, <3>4, <3>5
  <2>6. CASE ClearSlot(a)
    <3>1. /\ slot' = [slot EXCEPT ![a] = NoFrame] /\ UNCHANGED lcb
          /\ pc' = [pc EXCEPT ![a] = "taken"] /\ pc[a] = "copied"
      BY <2>6 DEF ClearSlot, Clears
    <3>2. \/ UNCHANGED served
          \/ /\ served' = [served EXCEPT ![a] = @ + 1]
             /\ lcb[a].current /\ AimedAt(a, lcb[a].cb)
      BY <2>6 DEF ClearSlot
    <3>3. slot'[a] = NoFrame /\ \A b \in AP : b # a => slot'[b] = slot[b]
      BY <3>1, Mailboxes DEF MailTypes
    <3>4. CASE UNCHANGED served
      BY <3>1, <3>3, <3>4
    <3>5. CASE served' = [served EXCEPT ![a] = @ + 1]
               /\ lcb[a].current /\ AimedAt(a, lcb[a].cb)
      <4>1. Aimed(a) /\ HadTurn(a) /\ served[a] = 0
        BY <3>1, <3>5, Turns DEF AimedAt, Aimed
      <4>2. served'[a] = 1 /\ \A b \in AP : b # a => served'[b] = served[b]
        BY <3>5, <4>1 DEF CallTypes, CallCounts
      <4> QED BY <3>1, <3>3, <4>1, <4>2
    <3> QED BY <3>2, <3>4, <3>5
  <2>7. CASE Ends(a)
    <3>1. /\ UNCHANGED <<served, slot>>
          /\ pc'[a] \notin {"got", "copied"}
          /\ \A b \in AP : b # a => pc'[b] = pc[b] /\ lcb'[b] = lcb[b]
      BY <2>7 DEF Ends, MailTypes
    <3> QED BY <3>1
  <2> QED BY <1>1, <2>3, <2>4, <2>5, <2>6, <2>7, ServeKinds
<1>2. CASE Plans
  <2>1. UNCHANGED <<slot, lcb, pc, served>> /\ ~Over
    BY <1>2 DEF Plans
  <2>2. call.op # "serial" /\ call.target = All
        /\ call'.op # "serial" /\ call'.target = All
    BY <1>2, <2>1 DEF Plans, CallTypes, CallShape, NoCall
  <2>3. \A a \in AP : Aimed(a) /\ Aimed(a)' /\ HadTurn(a)'
    BY <2>2 DEF Aimed, HadTurn
  <2> QED BY <2>1, <2>3
<1>3. CASE Rests
  BY <1>3 DEF Rests, HadTurn, Aimed, Over
<1>4. ASSUME NEW c, NEW func, CallBegins(c, func) PROVE AtMostOnce'
  <2>1. ASSUME NEW a \in AP PROVE slot'[a] # NoFrame
    BY <1>4, Mailboxes, FrameAssumption DEF CallBegins, Post
  <2>2. ASSUME NEW a \in AP PROVE served'[a] = 0
    BY <1>4 DEF CallBegins
  <2>3. ASSUME NEW a \in AP PROVE ~lcb'[a].current
    BY <1>4 DEF CallBegins, Post, MailTypes
  <2> QED BY <2>1, <2>2, <2>3
<1>5. CASE CallNext
  <2>1. call.frame \in Frame /\ [call EXCEPT !.target = @ + 1].frame = call.frame
    BY <1>5 DEF CallNext, MailTypes, CallRecord
  <2>2. ASSUME NEW a \in AP PROVE slot'[a] # NoFrame
    BY <1>5, <2>1, Mailboxes, FrameAssumption DEF CallNext, Post
  <2>3. ASSUME NEW a \in AP PROVE ~lcb'[a].current
    BY <1>5 DEF CallNext, Post, MailTypes
  <2>4. UNCHANGED served
    BY <1>5 DEF CallNext, callUnchanged
  <2>5. call.op = "serial" /\ call'.op = "serial" /\ call'.target = call.target + 1
        /\ call.target \in AP
    BY <1>5 DEF CallNext, Post, MailTypes, CallRecord, CallTypes, CallShape
  <2>6. ASSUME NEW a \in AP
        PROVE  /\ HadTurn(a) => HadTurn(a)'
               /\ Aimed(a)' => ~HadTurn(a)
    BY <2>5, CpuAssumption DEF HadTurn, Aimed, All, AP
  <2> QED BY <2>2, <2>3, <2>4, <2>6
<1>6. CASE RestartAps
  <2>1. UNCHANGED <<slot, served, call>> /\ \A a \in AP : pc'[a] = "off"
    BY <1>6 DEF RestartAps, callVars, history
  <2> QED BY <2>1 DEF HadTurn, Aimed
<1>7. CASE SmiOrNothing
  BY <1>7, Steadily DEF Steady, mailVars, callVars, history, HadTurn, Aimed, Over
<1> QED BY <1>1, <1>2, <1>3, <1>4, <1>5, <1>6, <1>7, NextCalls

LEMMA InCallStep ==
  ASSUME Types, MailTypes, CallTypes, InCall, [MpNext]_vars PROVE InCall'
<1> USE DEF InCall, Answered
<1>1. ASSUME NEW a \in AP, ApWorks(a) PROVE InCall'
  <2>1. CallKept
    BY <1>1, ServeKinds
  <2> USE <2>1, Mailboxes DEF CallKept, Types, CallTypes, Statuses
  <2>2. CASE ElseWhere(a)
    BY <2>2, ZenonT(60) DEF ElseWhere, Early
  <2>3. CASE ReadCallback(a)
    BY <2>3 DEF ReadCallback, MailTypes
  <2>4. CASE CopyCallback(a)
    BY <2>4 DEF CopyCallback, MailTypes
  <2>5. CASE ClearSlot(a)
    BY <2>5 DEF ClearSlot, Clears, MailTypes
  <2>6. CASE Ends(a)
    <3>1. UNCHANGED slot /\ pc[a] = "taken" /\ ap_status[a] = "busy"
      BY <2>6 DEF Ends
    <3>2. pc'[a] = "poll" \/ (pc'[a] \in {"lost", "parked"} /\ ap_status'[a] = "busy")
      BY <2>6, <3>1 DEF Ends
    <3>3. \A b \in AP : b # a => pc'[b] = pc[b] /\ ap_status'[b] = ap_status[b]
      BY <2>6 DEF Ends
    <3>4. \A b \in AP : pc'[b] \in {"copied", "taken", "parked"} => ap_status'[b] = "busy"
      BY <3>1, <3>2, <3>3
    <3>5. \A b \in AP : Answered(b) => Answered(b)'
      BY <3>1, <3>2, <3>3
    <3> QED BY <3>1, <3>4, <3>5
  <2> QED BY <1>1, <2>2, <2>3, <2>4, <2>5, <2>6, ServeKinds
<1>2. CASE Plans
  BY <1>2 DEF Plans
<1>3. CASE Rests
  BY <1>3 DEF Rests
<1>4. ASSUME NEW c, NEW func, Post(c, func), UNCHANGED <<pc, ap_status>>,
             c.frame \in Frame
      PROVE  InCall'
  <2>1. \A s \in Slot : slot'[s] # NoFrame
    BY <1>4, FrameAssumption DEF Post
  <2>2. frame'[call'.frame].target = call'.target
    BY <1>4 DEF Post, MailTypes
  <2> QED BY <1>4, <2>1, <2>2, Mailboxes DEF Post
<1>5. CASE \E c, func : CallBegins(c, func)
  BY <1>4, <1>5 DEF CallBegins
<1>6. CASE CallNext
  <2>1. [call EXCEPT !.target = @ + 1].frame \in Frame
    BY <1>6 DEF CallNext, MailTypes, CallRecord
  <2> QED BY <1>4, <1>6, <2>1 DEF CallNext, callUnchanged
<1>7. CASE RestartAps
  BY <1>7 DEF RestartAps
<1>8. CASE SmiOrNothing
  BY <1>8, Steadily DEF Steady, mailVars, callVars, history
<1> QED BY <1>1, <1>2, <1>3, <1>5, <1>6, <1>7, <1>8, NextCalls

LEMMA ReachesStep ==
  ASSUME Types, MailTypes, CallTypes, InCall, AtMostOnce, Reaches, [MpNext]_vars
  PROVE  Reaches'
<1> SUFFICES ASSUME clean', call'.op # "none" PROVE Reaches'
  BY DEF Reaches
<1>1. ASSUME NEW a \in AP, ApWorks(a) PROVE Reaches'
  <2>1. CallKept
    BY <1>1, ServeKinds
  <2>2. /\ UNCHANGED <<bpc, call, ret, clean>>
        /\ \A b \in AP : Aimed(b)' = Aimed(b) /\ HadTurn(b)' = HadTurn(b)
        /\ Addressed' = Addressed
    BY <2>1 DEF CallKept, HadTurn, Aimed, Addressed, AimedAt
  <2> USE <2>2 DEF Reaches, Types
  <2>3. CASE ElseWhere(a) \/ Ends(a)
    <3>1. /\ UNCHANGED <<served, slot, got>>
          /\ pc'[a] \notin {"got", "copied"}
          /\ \A b \in AP : b # a => pc'[b] = pc[b] /\ lcb'[b] = lcb[b]
      BY <2>3 DEF ElseWhere, Ends, Early, MailTypes
    <3> QED BY <3>1
  <2>4. CASE ReadCallback(a)
    <3>1. /\ UNCHANGED <<served, slot, lcb>> /\ slot[a] # NoFrame
          /\ pc' = [pc EXCEPT ![a] = "got"] /\ got' = [got EXCEPT ![a] = slot[a]]
      BY <2>4 DEF ReadCallback
    <3>2. got'[a] = slot[a] /\ \A b \in AP : b # a => got'[b] = got[b]
      BY <3>1 DEF MailTypes
    <3> QED BY <3>1, <3>2
  <2>5. CASE CopyCallback(a)
    <3>1. PICK cb \in InFrame(got[a]) :
            lcb' = [lcb EXCEPT ![a] = [cb |-> cb, current |-> Live(got[a])]]
      BY <2>5 DEF CopyCallback
    <3>2. lcb'[a].current = Live(got[a]) /\ \A b \in AP : b # a => lcb'[b] = lcb[b]
      BY <3>1 DEF MailTypes
    <3>3. UNCHANGED <<slot, served>> /\ pc' = [pc EXCEPT ![a] = "copied"] /\ pc[a] = "got"
          /\ got' = [got EXCEPT ![a] = NoFrame]
      BY <2>5 DEF CopyCallback
    <3>4. bpc = "calling" => Live(got[a])
      BY <3>3 DEF Live
    <3>5. \A b \in AP : b # a => got'[b] = got[b]
      BY <3>3 DEF MailTypes
    <3> QED BY <3>2, <3>3, <3>4, <3>5
  <2>6. CASE ClearSlot(a)
    <3>1. /\ slot' = [slot EXCEPT ![a] = NoFrame] /\ UNCHANGED <<lcb, got>>
          /\ pc' = [pc EXCEPT ![a] = "taken"] /\ pc[a] = "copied"
          /\ served' = IF lcb[a].current /\ AimedAt(a, lcb[a].cb)
                       THEN [served EXCEPT ![a] = @ + 1] ELSE served
      BY <2>6 DEF ClearSlot, Clears
    <3>2. slot'[a] = NoFrame /\ \A b \in AP : b # a => slot'[b] = slot[b]
      BY <3>1, Mailboxes DEF MailTypes
    <3>3. \A b \in AP : b # a => served'[b] = served[b]
      BY <3>1 DEF CallTypes, CallCounts
    <3>4. lcb[a].current => (AimedAt(a, lcb[a].cb) <=> Aimed(a))
      BY <3>1 DEF AtMostOnce, AimedAt, Aimed
    <3>5. lcb[a].current /\ Aimed(a) => served[a] = 0
      BY <3>1 DEF AtMostOnce, Reads
    <3>6. served'[a] = IF lcb[a].current /\ Aimed(a) THEN served[a] + 1 ELSE served[a]
      BY <3>1, <3>4 DEF CallTypes, CallCounts
    <3>7. ASSUME bpc = "calling", HadTurn(a)
          PROVE  served'[a] = 1
      BY <3>1, <3>5, <3>6, <3>7
    <3>8. ASSUME bpc \in {"parking", "ready"}, ret = "success", a \in Addressed
          PROVE  served'[a] = 1
      BY <3>5, <3>6, <3>8
    <3> QED BY <3>1, <3>2, <3>3, <3>7, <3>8
  <2> QED BY <1>1, <2>3, <2>4, <2>5, <2>6, ServeKinds
<1>2. CASE Plans
  <2>1. call' = call /\ UNCHANGED <<slot, got, pc, lcb, served, clean>>
        /\ bpc' \notin {"calling", "parking", "ready"}
    <3>1. call' # NoCall
      BY DEF NoCall
    <3>2. call' = call /\ ~Over'
      BY <1>2, <3>1 DEF Plans
    <3> QED BY <1>2, <3>2 DEF Plans, Over
  <2> QED BY <2>1 DEF Reaches
<1>3. CASE Rests
  <2> USE DEF Reaches
  <2>1. UNCHANGED <<slot, got, pc, lcb, served, clean, call>> /\ bpc' # "calling"
        /\ Addressed' = Addressed
    BY <1>3 DEF Rests, Addressed, AimedAt
  <2>2. CASE ret' # "success"
    BY <2>1, <2>2
  <2>3. CASE bpc = "parking" /\ UNCHANGED ret
    BY <2>1, <2>3
  <2>4. CASE bpc = "calling" /\ WorkDone /\ ~(call.op = "serial" /\ call.target < NumAps)
    <3>1. ASSUME NEW a \in Addressed PROVE served[a] = 1
      <4>1. a \in AP /\ slot[a] = NoFrame
        BY <2>4, TakenByAll DEF Addressed
      <4>2. HadTurn(a)
        <5>1. CASE call.op = "serial"
          <6>1. call.target \in AP /\ ~(call.target < NumAps)
            BY <2>4, <4>1, <5>1, Turns
          <6> QED BY <4>1, <5>1, <6>1, CpuAssumption DEF AP, HadTurn
        <5>2. CASE call.op # "serial"
          BY <5>2 DEF Addressed, AimedAt, HadTurn, Aimed
        <5> QED BY <5>1, <5>2
      <4> QED BY <2>1, <2>4, <4>1, <4>2
    <3> QED BY <2>1, <3>1
  <2> QED BY <1>3, <2>2, <2>3, <2>4 DEF Rests
<1>4. ASSUME NEW c, NEW func, CallBegins(c, func) PROVE Reaches'
  <2>1. call' = c /\ bpc' = "calling" /\ UNCHANGED pc
        /\ \A a \in AP : pc[a] \notin {"got", "copied"}
    BY <1>4 DEF CallBegins, Post
  <2>2. \A a \in AP : slot'[a] = c.frame /\ c.frame # NoFrame
    BY <1>4, Mailboxes, FrameAssumption DEF CallBegins, Post
  <2>3. ASSUME NEW a \in AP, HadTurn(a)' PROVE Aimed(a)'
    <3>1. CASE c.op = "serial"
      BY <1>4, <2>1, <2>3, <3>1, CpuAssumption DEF CallBegins, HadTurn, Aimed, AP
    <3>2. CASE c.op # "serial"
      BY <2>1, <2>3, <3>2 DEF HadTurn
    <3> QED BY <3>1, <3>2
  <2> QED BY <2>1, <2>2, <2>3 DEF Reaches
<1>5. CASE CallNext
  <2>1. /\ bpc = "calling" /\ WorkDone /\ bpc' = "calling"
        /\ call.op = "serial" /\ UNCHANGED <<pc, got, clean, served>>
        /\ call' = [call EXCEPT !.target = @ + 1]
        /\ slot' = [s \in Slot |-> call'.frame]
    <3> DEFINE c == [call EXCEPT !.target = @ + 1]
    <3>1. /\ bpc = "calling" /\ WorkDone /\ call.op = "serial"
          /\ Post(c, "work") /\ UNCHANGED <<pc, got, clean, served>>
      BY <1>5 DEF CallNext, callUnchanged
    <3>2. bpc' = "calling" /\ call' = c /\ slot' = [s \in Slot |-> c.frame]
      BY <3>1 DEF Post
    <3> HIDE DEF c
    <3>3. slot' = [s \in Slot |-> call'.frame]
      BY <3>2
    <3>4. call' = [call EXCEPT !.target = @ + 1]
      BY <3>2 DEF c
    <3> QED BY <3>1, <3>2, <3>3, <3>4
  <2>2. \A a \in AP : slot[a] = NoFrame /\ ~Reads(a)
    BY <2>1, TakenByAll DEF AtMostOnce
  <2>3. call'.op = "serial" /\ call'.target = call.target + 1 /\ call'.frame \in Frame
    BY <2>1 DEF MailTypes, CallRecord
  <2>4. \A a \in AP : slot'[a] = call'.frame /\ call'.frame # NoFrame
    BY <2>1, <2>3, Mailboxes, FrameAssumption
  <2>5. ASSUME NEW a \in AP, HadTurn(a)' PROVE served'[a] = 1 \/ Aimed(a)'
    <3>1. a <= call.target + 1 /\ call.target \in AP
      BY <2>1, <2>3, <2>5, Turns DEF HadTurn
    <3>2. CASE a = call.target + 1
      BY <2>3, <3>2 DEF Aimed
    <3>3. CASE a <= call.target
      BY <2>1, <2>2, <3>3 DEF HadTurn, Reaches
    <3> QED BY <3>1, <3>2, <3>3 DEF AP
  <2> QED BY <2>1, <2>2, <2>4, <2>5 DEF Reaches, Reads
<1>6. CASE RestartAps
  <2>1. UNCHANGED <<slot, served, call, clean>> /\ bpc' = "start"
        /\ (\A a \in AP : pc'[a] = "off")
    BY <1>6 DEF RestartAps, callVars, history
  <2> QED BY <2>1 DEF Reaches
<1>7. CASE SmiOrNothing
  BY <1>7, Steadily DEF Steady, mailVars, callVars, history, Reaches, HadTurn, Aimed, Addressed, AimedAt
<1> QED BY <1>1, <1>2, <1>3, <1>4, <1>5, <1>6, <1>7, NextCalls

(* Counting the parked ones.                                               *)
LEMMA ParkedCount ==
  /\ IsFiniteSet(Parked) /\ Cardinality(Parked) \in Nat
  /\ Cardinality(Parked) <= NumAps
  /\ Cardinality(Parked) = NumAps => Parked = AP
<1>1. Parked \subseteq AP
  BY DEF Parked
<1>2. IsFiniteSet(Parked) /\ Cardinality(Parked) <= NumAps
      /\ (Cardinality(Parked) = NumAps => Parked = AP)
  BY <1>1, Mailboxes, FS_Subset
<1> QED BY <1>2, FS_CardinalityType

LEMMA SettledStep ==
  ASSUME Types, MailTypes, CallTypes, InCall, Settled, [MpNext]_vars
  PROVE  Settled'
<1>0. parked \in Nat
  BY DEF CallTypes, CallCounts
<1>1. ASSUME NEW a \in AP, ApWorks(a) PROVE Settled'
  <2>1. UNCHANGED <<bpc, call, ret>> /\ Over' = Over
    BY <1>1, ServeKinds DEF CallKept, Over
  <2>2. \/ pc[a] \notin {"poll", "parked"}
        \/ pc[a] = "poll" /\ slot[a] # NoFrame
    BY <1>1, ServeKinds DEF ElseWhere, ReadCallback, CopyCallback, ClearSlot, Ends, Early
  <2>3. ~(bpc = "ready" /\ ret = "success" /\ (call.wait \/ call.op = "park"))
    BY <2>2 DEF Settled
  <2>4. ASSUME call.op = "park", Over PROVE parked' <= Cardinality(Parked')
    <3>1. parked <= Cardinality(Parked)
      BY <2>4 DEF Settled
    <3>2. CASE parked' = parked /\ Parked' = Parked
      BY <3>1, <3>2
    <3>3. CASE parked' = parked + 1 /\ Parked' = Parked \cup {a} /\ a \notin Parked
      <4>1. Cardinality(Parked \cup {a}) = Cardinality(Parked) + 1
        BY <3>3, ParkedCount, FS_AddElement
      <4> QED BY <1>0, <3>1, <3>3, <4>1, ParkedCount
    <3>4. \/ parked' = parked /\ Parked' = Parked
          \/ parked' = parked + 1 /\ Parked' = Parked \cup {a} /\ a \notin Parked
      <4>1. CASE ElseWhere(a)
        BY <4>1 DEF ElseWhere, Early, Parked, Types
      <4>2. CASE ReadCallback(a)
        BY <4>2 DEF ReadCallback, Parked, Types
      <4>3. CASE CopyCallback(a)
        BY <4>3 DEF CopyCallback, Parked, Types
      <4>4. CASE ClearSlot(a)
        BY <4>4 DEF ClearSlot, Parked, Types
      <4>5. CASE Ends(a)
        BY <4>5 DEF Ends, Parked, Types
      <4> QED BY <1>1, <4>1, <4>2, <4>3, <4>4, <4>5, ServeKinds
    <3> QED BY <3>2, <3>3, <3>4
  <2> QED BY <2>1, <2>3, <2>4 DEF Settled
<1>2. CASE Plans
  <2>1. CASE UNCHANGED call /\ ~Over'
    BY <2>1 DEF Settled, Over
  <2>2. CASE call' = NoCall
    BY <2>2 DEF Settled, NoCall
  <2> QED BY <1>2, <2>1, <2>2 DEF Plans
<1>3. CASE Rests
  <2>1. UNCHANGED <<slot, pc, parked, call>> /\ Parked' = Parked /\ Over
    BY <1>3 DEF Rests, Parked, Over
  <2>2. call.op = "park" /\ Over' => parked' <= Cardinality(Parked')
    BY <2>1 DEF Settled
  <2>3. CASE ret' # "success"
    <3>1. ~(bpc' = "ready" /\ ret' = "success")
      BY <2>3
    <3> QED BY <2>1, <2>2, <3>1 DEF Settled
  <2>4. CASE bpc = "parking" /\ parked >= NumAps
    <3>1. CASE call.op = "park"
      <4>1. Parked = AP
        <5>1. parked <= Cardinality(Parked)
          BY <2>1, <3>1 DEF Settled
        <5> QED BY <1>0, <2>4, <5>1, ParkedCount, CpuAssumption
      <4>2. ~call.wait
        BY <3>1 DEF CallTypes, ParkNeverWaits
      <4> QED BY <2>1, <2>2, <4>1, <4>2 DEF Settled, Parked
    <3>2. CASE call.op = "none"
      BY <2>1, <2>2, <3>2 DEF Settled, CallTypes, ParkNeverWaits
    <3> QED BY <2>4, <3>1, <3>2 DEF CallTypes, CallShape
  <2>5. CASE /\ bpc = "calling" /\ WorkDone /\ ret' = "success"
             /\ bpc' = IF call.op = "park" THEN "parking" ELSE "ready"
    <3>1. CASE call.wait
      <4>1. Finished \subseteq AP /\ Cardinality(Finished) = NumAps
        BY <2>5, <3>1 DEF WorkDone, Finished
      <4>2. Finished = AP
        BY <4>1, Mailboxes, FS_Subset
      <4>3. \A a \in AP : slot[a] = NoFrame /\ ap_status[a] = "not busy" /\ Answered(a)
        BY <2>5, <4>2, TakenByAll DEF Finished, Accepted
      <4>4. \A a \in AP : pc[a] = "poll"
        BY <4>3 DEF Answered
      <4>5. call.op # "park"
        BY <3>1 DEF CallTypes, ParkNeverWaits
      <4> QED BY <2>1, <2>2, <4>3, <4>4, <4>5 DEF Settled
    <3>2. CASE ~call.wait
      BY <2>1, <2>2, <2>5, <3>2 DEF Settled
    <3> QED BY <3>1, <3>2
  <2> QED BY <1>3, <2>3, <2>4, <2>5 DEF Rests
<1>4. ASSUME NEW c, NEW func, CallBegins(c, func) PROVE Settled'
  <2>1. call' = c /\ bpc' = "calling" /\ (c.op = "park" => parked' = 0)
    BY <1>4 DEF CallBegins, Post
  <2>2. Cardinality(Parked)' \in Nat
    <3>1. Parked' = Parked
      BY <1>4 DEF CallBegins, Parked
    <3> QED BY <3>1, ParkedCount
  <2> QED BY <2>1, <2>2 DEF Settled
<1>5. CASE CallNext
  <2>1. call'.op = "serial" /\ bpc' = "calling"
    BY <1>5 DEF CallNext, Post, MailTypes, CallRecord
  <2> QED BY <2>1 DEF Settled
<1>6. CASE RestartAps
  BY <1>6 DEF RestartAps, Settled, Over
<1>7. CASE SmiOrNothing
  BY <1>7, Steadily DEF Steady, mailVars, callVars, history, Settled, Parked, Over
<1> QED BY <1>1, <1>2, <1>3, <1>4, <1>5, <1>6, <1>7, NextCalls

-----------------------------------------------------------------------------
LEMMA InitCalls == MpStart => CallInv
<1> SUFFICES ASSUME MpStart PROVE CallInv
  OBVIOUS
<1>1. CallCounts /\ Statuses
  <2>1. CallCounts
    BY DEF MpStart, CallCounts
  <2>2. Statuses
    BY DEF MpStart, Statuses
  <2> QED BY <2>1, <2>2
<1>2. CallShape /\ ParkNeverWaits
  BY DEF MpStart, NoCall, CallShape, ParkNeverWaits
<1>3. AtMostOnce /\ InCall
  BY DEF MpStart, AtMostOnce, InCall, Reads
<1>4. Reaches /\ Settled
  BY DEF MpStart, NoCall, Reaches, Settled, Over
<1> QED BY <1>1, <1>2, <1>3, <1>4 DEF CallInv, CallTypes

(* The inductive invariant of the calls, on top of that of the start-up:   *)
(* run_ap_work() and ap_wait_for_instruction().                            *)
THEOREM CallInvariant == MpSpec => []CallInv
<1>1. CallInv /\ PlanInv /\ [MpNext]_vars => CallInv'
  BY CallTypesStep, AtMostOnceStep, InCallStep, ReachesStep, SettledStep
  DEF CallInv, PlanInv
<1> QED BY <1>1, InitCalls, PlanInvariant, PTL DEF MpSpec

(* A call is begun at most once by a processor it is for, and by all of    *)
(* them if it returns success and no mailbox was in use when it began,     *)
(* whatever waits expire: run_ap_work().                                   *)
THEOREM CallsDelivered == MpSpec => []Delivered
<1>1. CallInv /\ PlanInv => Delivered
  <2> SUFFICES ASSUME CallInv, PlanInv PROVE Delivered
    OBVIOUS
  <2>1. \A a \in AP : served[a] <= IF a \in Addressed THEN 1 ELSE 0
    <3> SUFFICES ASSUME NEW a \in AP PROVE served[a] <= IF a \in Addressed THEN 1 ELSE 0
      OBVIOUS
    <3>1. served[a] <= 1 /\ (~HadTurn(a) => served[a] = 0)
      BY DEF CallInv, AtMostOnce
    <3>2. HadTurn(a) => a \in Addressed
      BY Turns DEF CallInv, PlanInv
    <3> QED BY <3>1, <3>2
  <2>2. bpc = "ready" /\ call.op # "none" /\ ret = "success" /\ clean
           => \A a \in Addressed : served[a] = 1
    BY DEF CallInv, Reaches
  <2> QED BY <2>1, <2>2 DEF Delivered
<1> QED BY <1>1, CallInvariant, PlanInvariant, PTL

(* Success of mp_run_on_all_cpus_synchronously() means that every          *)
(* processor is back in its loop, that of mp_park_aps() that every one has *)
(* stopped, whatever expired before.                                       *)
THEOREM SuccessIsDone == MpSpec => []SuccessMeansDone
<1>1. CallInv => SuccessMeansDone
  BY DEF CallInv, Settled, SuccessMeansDone
<1> QED BY <1>1, CallInvariant, PTL
=============================================================================
