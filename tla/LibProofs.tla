----------------------------- MODULE LibProofs ------------------------------
(***************************************************************************)
(* Proofs about two parts of src/src/lib: the heap of TimerQueue, for      *)
(* every set of timers, every capacity and every width of the clock, and   *)
(* the log of CbmemConsole, for every size of its buffers and every number *)
(* of bytes printed and of resets.                                         *)
(***************************************************************************)
EXTENDS TimerQueue, CbmemConsole, FiniteSetTheorems, SequenceTheorems, TLAPS

-----------------------------------------------------------------------------
(* The slot arithmetic of a binary heap.                                   *)
LEMMA ParentBelow ==
    ASSUME NEW i \in Nat, i # 0
    PROVE  Parent(i) \in Nat /\ Parent(i) < i
BY DEF Parent

LEMMA ParentOfChildren ==
    ASSUME NEW i \in Nat, NEW j \in Nat, i # 0
    PROVE  Parent(i) = j <=> (i = Left(j) \/ i = Right(j))
BY DEF Parent, Left, Right

LEMMA ExpiryInTime ==
    ASSUME TypeOK, NEW us \in Time
    PROVE  Expiry(us) \in Time
BY TimeAssumption DEF Expiry, TypeOK, Time

(* The child that is sifted against is in use and no sibling precedes it.  *)
LEMMA MinChildIsChild ==
    ASSUME TypeOK, NoDuplicate, Left(index) < num_entries
    PROVE  /\ MinChild \in Used \ {0}
           /\ Parent(MinChild) = index
           /\ \A i \in Used \ {0} : Parent(i) = index =>
                 expiration[queue[MinChild]] <= expiration[queue[i]]
<1>1. index \in Nat /\ num_entries \in Nat
  BY DEF TypeOK, Slot
<1>2. MinChild \in {Left(index), Right(index)} /\ MinChild < num_entries
  BY <1>1 DEF MinChild, Left, Right
<1>3. MinChild \in Used \ {0} /\ Parent(MinChild) = index
  BY <1>1, <1>2 DEF Used, Parent, Left, Right
<1>4. ASSUME NEW i \in Used \ {0}, Parent(i) = index
      PROVE  expiration[queue[MinChild]] <= expiration[queue[i]]
  <2>1. i \in {Left(index), Right(index)}
    BY <1>1, <1>4, ParentOfChildren DEF Used
  <2>2. \A j \in Used : expiration[queue[j]] \in Int
    BY DEF TypeOK, NoDuplicate, Time
  <2>3. i < num_entries /\ Left(index) \in Used
    BY <1>1, <1>4 DEF Used, Left
  <2>4. CASE i = Left(index)
    BY <1>1, <1>3, <2>2, <2>3, <2>4 DEF MinChild
  <2>5. CASE i = Right(index)
    BY <1>1, <1>3, <2>2, <2>3, <2>5 DEF MinChild
  <2> QED
    BY <2>1, <2>4, <2>5
<1> QED
  BY <1>3, <1>4

-----------------------------------------------------------------------------
(* What the calls of the timer queue keep true between two steps.          *)
IInv == TypeOK /\ NoDuplicate /\ SiftInv

LEMMA InitIInv == Init => IInv
<1> SUFFICES ASSUME Init PROVE IInv
  OBVIOUS
<1>1. TypeOK
  BY MaxEntriesAssumption, TimeAssumption DEF Init, TypeOK, Time, Slot
<1>2. Used = {}
  BY DEF Init, Used
<1> QED
  BY <1>1, <1>2 DEF Init, IInv, NoDuplicate, SiftInv

LEMMA TypeStep == IInv /\ [Next]_vars => TypeOK'
<1> SUFFICES ASSUME IInv, [Next]_vars PROVE TypeOK'
  OBVIOUS
<1> USE DEF IInv
<1>1. CASE Tick
  BY <1>1 DEF Tick, TypeOK
<1>2. ASSUME NEW t \in Timer, NEW us \in Time, SchedNegative(t, us)
      PROVE  TypeOK'
  BY <1>2 DEF SchedNegative, TypeOK
<1>3. ASSUME NEW t \in Timer, NEW us \in Time, SchedRefused(t, us)
      PROVE  TypeOK'
  BY <1>3, ExpiryInTime DEF SchedRefused, TypeOK
<1>4. ASSUME NEW t \in Timer, NEW us \in Time, SchedInsert(t, us)
      PROVE  TypeOK'
  <2>1. Expiry(us) \in Time
    BY ExpiryInTime
  <2>2. num_entries \in Slot
    BY <1>4, MaxEntriesAssumption DEF SchedInsert, timer_queue_full, TypeOK, Slot
  <2> QED
    BY <1>4, <2>1, <2>2, MaxEntriesAssumption DEF SchedInsert, TypeOK, Slot
<1>5. CASE SiftUp
  <2>1. index \in Nat /\ index # 0
    BY <1>5 DEF SiftUp, SiftedUp, TypeOK, Slot
  <2>2. Parent(index) \in Slot
    BY <2>1, ParentBelow, MaxEntriesAssumption DEF TypeOK, Slot
  <2> QED
    BY <1>5, <2>2 DEF SiftUp, TypeOK
<1>6. CASE InsertDone
  BY <1>6, MaxEntriesAssumption DEF InsertDone, TypeOK, Slot
<1>7. CASE RemoveHead
  <2>1. num_entries - 1 \in Slot /\ 0 \in Slot /\ num_entries - 1 \in 0..MaxEntries
    BY <1>7, MaxEntriesAssumption DEF RemoveHead, TypeOK, Slot
  <2>2. 0 \in Used
    BY <1>7, MaxEntriesAssumption DEF RemoveHead, TypeOK, Used
  <2> QED
    BY <1>7, <2>1, <2>2 DEF RemoveHead, TypeOK, NoDuplicate
<1>8. CASE SiftDown
  <2>1. MinChild \in Slot
    <3>1. Left(index) < num_entries
      BY <1>8 DEF SiftDown, SiftedDown
    <3>2. MinChild \in Used
      BY <3>1, MinChildIsChild
    <3> QED
      BY <3>2, MaxEntriesAssumption DEF Used, Slot, TypeOK
  <2> QED
    BY <1>8, <2>1 DEF SiftDown, TypeOK
<1>9. CASE RemoveDone
  BY <1>9, MaxEntriesAssumption DEF RemoveDone, TypeOK, Slot
<1>10. CASE UNCHANGED vars
  BY <1>10 DEF vars, TypeOK
<1> QED
  BY <1>1, <1>2, <1>3, <1>4, <1>5, <1>6, <1>7, <1>8, <1>9, <1>10 DEF Next, Sched

(* Sifting up or down exchanges two entries of the array.                  *)
LEMMA ExchangeKeepsEntries ==
    ASSUME TypeOK, NoDuplicate,
           NEW i \in Used, NEW j \in Used,
           queue' = [queue EXCEPT ![i] = queue[j], ![j] = queue[i]],
           num_entries' = num_entries
    PROVE  NoDuplicate'
<1>1. Used \subseteq Slot
  BY MaxEntriesAssumption DEF TypeOK, Used, Slot
<1>2. \A k \in Used : queue'[k] = IF k = j THEN queue[i]
                                 ELSE IF k = i THEN queue[j] ELSE queue[k]
  BY <1>1 DEF TypeOK
<1>3. Used' = Used
  BY DEF Used
<1>4. \A k \in Used : queue'[k] \in Timer
  BY <1>2 DEF NoDuplicate
<1>5. ASSUME NEW a \in Used, NEW b \in Used, queue'[a] = queue'[b]
      PROVE  a = b
  BY <1>2, <1>5 DEF NoDuplicate
<1> QED
  BY <1>3, <1>4, <1>5 DEF NoDuplicate

LEMMA NoDuplicateStep == IInv /\ [Next]_vars => NoDuplicate'
<1> SUFFICES ASSUME IInv, [Next]_vars PROVE NoDuplicate'
  OBVIOUS
<1> USE DEF IInv
<1>0. Used \subseteq Slot
  BY MaxEntriesAssumption DEF TypeOK, Used, Slot
<1>1. ASSUME UNCHANGED <<queue, num_entries>> PROVE NoDuplicate'
  BY <1>1 DEF NoDuplicate, Used
<1>2. ASSUME NEW t \in Timer, NEW us \in Time, SchedInsert(t, us)
      PROVE  NoDuplicate'
  <2>1. num_entries \in Slot /\ num_entries' = num_entries + 1
    BY <1>2, MaxEntriesAssumption
       DEF SchedInsert, timer_queue_full, TypeOK, Slot
  <2>2. Used' = Used \cup {num_entries} /\ num_entries \notin Used
    BY <2>1 DEF Used, Slot
  <2>3. queue'[num_entries] = t /\ \A i \in Used : queue'[i] = queue[i]
    BY <1>0, <1>2, <2>1, <2>2 DEF SchedInsert, TypeOK
  <2>4. \A i \in Used : queue[i] # t
    BY <1>2 DEF SchedInsert, Tracked
  <2> QED
    BY <2>2, <2>3, <2>4 DEF NoDuplicate
<1>3. CASE SiftUp
  <2>1. index \in Used /\ index \in Nat /\ index # 0 /\ queue[index] = tocb
    BY <1>3 DEF SiftUp, SiftedUp, SiftInv, TypeOK, Slot
  <2>2. Parent(index) \in Used
    BY <2>1, ParentBelow DEF Used, TypeOK
  <2> QED
    BY <1>3, <2>1, <2>2, ExchangeKeepsEntries DEF SiftUp
<1>4. CASE RemoveHead
  <2>1. /\ num_entries \in Nat /\ num_entries # 0
        /\ Used' = Used \ {num_entries - 1}
    BY <1>4 DEF RemoveHead, Used, TypeOK
  <2>2. 0 \in Used /\ num_entries - 1 \in Used
    BY <2>1 DEF Used
  <2>3. \A i \in Used : queue'[i] = IF i = 0 THEN queue[num_entries - 1]
                                   ELSE queue[i]
    BY <1>0, <1>4, <2>2 DEF RemoveHead, TypeOK
  <2> QED
    BY <2>1, <2>2, <2>3 DEF NoDuplicate
<1>5. CASE SiftDown
  <2>1. Left(index) < num_entries
    BY <1>5 DEF SiftDown, SiftedDown
  <2>2. index \in Used /\ queue[index] = tocb
    BY <1>5, <2>1 DEF SiftDown, SiftInv, Left, Used, TypeOK, Slot
  <2>3. MinChild \in Used
    BY <2>1, MinChildIsChild
  <2> QED
    BY <1>5, <2>2, <2>3, ExchangeKeepsEntries DEF SiftDown
<1> QED
  BY <1>1, <1>2, <1>3, <1>4, <1>5
     DEF Next, Sched, vars, Tick, SchedNegative, SchedRefused, InsertDone, RemoveDone

(* A timer that is not in the heap may change its time of expiration.      *)
LEMMA OrderFrame ==
    ASSUME SiftInv, NoDuplicate, UNCHANGED <<queue, num_entries, pc, index, tocb>>,
           \A i \in Used : expiration'[queue[i]] = expiration[queue[i]],
           num_entries \in Nat, index \in Nat
    PROVE  SiftInv'
<1>1. \A i \in Used \ {0} : Parent(i) \in Used
  BY ParentBelow DEF Used
<1>2. Used' = Used
  BY DEF Used
<1>3. \A i \in Used \ {0} : HeapOrdered(i)' <=> HeapOrdered(i)
  BY <1>1 DEF HeapOrdered
<1> QED
  BY <1>1, <1>2, <1>3 DEF SiftInv
(* The keys of the heap are numbers, and slots are natural numbers.        *)
LEMMA Keys ==
    ASSUME TypeOK, NoDuplicate
    PROVE  /\ num_entries \in Nat /\ index \in Nat
           /\ Used \subseteq Slot /\ Used \subseteq Nat
           /\ \A i \in Used : expiration[queue[i]] \in Int
           /\ \A i \in Used \ {0} : Parent(i) \in Used /\ Parent(i) < i
<1>1. /\ num_entries \in Nat /\ index \in Nat
      /\ Used \subseteq Slot /\ Used \subseteq Nat
  BY MaxEntriesAssumption DEF TypeOK, Used, Slot
<1>2. \A i \in Used : expiration[queue[i]] \in Int
  BY DEF TypeOK, NoDuplicate, Time
<1>3. \A i \in Used \ {0} : Parent(i) \in Used /\ Parent(i) < i
  BY <1>1, ParentBelow DEF Used
<1> QED
  BY <1>1, <1>2, <1>3

LEMMA InsertSiftInv ==
    ASSUME IInv, NEW t \in Timer, NEW us \in Time, SchedInsert(t, us)
    PROVE  SiftInv'
<1> USE DEF IInv
<1>1. /\ pc' = "insert" /\ index' = num_entries /\ tocb' = t
      /\ Used' = Used \cup {num_entries} /\ num_entries \notin Used
      /\ num_entries \in Slot
  BY Keys, MaxEntriesAssumption
     DEF SchedInsert, timer_queue_full, Used, Slot, TypeOK
<1>2. queue'[num_entries] = t /\ \A i \in Used : queue'[i] = queue[i]
  BY <1>1, Keys DEF SchedInsert, TypeOK
<1>3. \A i \in Used : expiration'[queue[i]] = expiration[queue[i]]
  BY DEF SchedInsert, Tracked, NoDuplicate, TypeOK
<1>4. \A i \in Used \ {0} : HeapOrdered(i)
  BY DEF SchedInsert, SiftInv
<1>5. \A i \in Used \ {0} : HeapOrdered(i)'
  BY <1>2, <1>3, <1>4, Keys DEF HeapOrdered
<1>6. \A i \in Used' \ {0} : Parent(i) # num_entries
  BY <1>1, Keys, ParentBelow DEF Used
<1> QED
  BY <1>1, <1>2, <1>5, <1>6 DEF SiftInv

LEMMA SiftUpSiftInv == ASSUME IInv, SiftUp PROVE SiftInv'
<1> USE DEF IInv
<1> DEFINE p == Parent(index)
<1>1. /\ index \in Used \ {0} /\ queue[index] = tocb
      /\ p \in Used /\ p < index /\ p # index
      /\ ~(expiration[queue[p]] <= expiration[queue[index]])
  BY Keys DEF SiftUp, SiftedUp, SiftInv
<1>2. /\ pc' = "insert" /\ index' = p /\ tocb' = tocb
      /\ expiration' = expiration /\ Used' = Used
  BY DEF SiftUp, Used
<1>3. \A i \in Used : queue'[i] = IF i = index THEN queue[p]
                                  ELSE IF i = p THEN tocb ELSE queue[i]
  BY <1>1, Keys DEF SiftUp, TypeOK
<1>4. /\ \A i \in Used \ {0, index} : HeapOrdered(i)
      /\ \A i \in Used \ {0} : Parent(i) = index =>
            expiration[queue[p]] <= expiration[queue[i]]
  BY <1>1 DEF SiftUp, SiftInv
<1> HIDE DEF p
<1>5. ASSUME NEW i \in Used \ {0, p} PROVE HeapOrdered(i)'
  <2>1. i # 0 /\ Parent(i) \in Used /\ Parent(i) < i
    BY Keys
  <2>2. CASE i = index
    BY <1>1, <1>2, <1>3, <2>2, Keys DEF HeapOrdered, p
  <2>3. CASE Parent(i) = index
    BY <1>1, <1>2, <1>3, <1>4, <2>1, <2>3, Keys DEF HeapOrdered
  <2>4. CASE Parent(i) = p /\ i # index
    BY <1>1, <1>2, <1>3, <1>4, <2>1, <2>4, Keys DEF HeapOrdered
  <2>5. CASE Parent(i) # p /\ Parent(i) # index /\ i # index
    BY <1>1, <1>2, <1>3, <1>4, <2>1, <2>5, Keys DEF HeapOrdered
  <2> QED
    BY <2>2, <2>3, <2>4, <2>5
<1>6. ASSUME p # 0, NEW i \in Used \ {0}, Parent(i) = p
      PROVE  expiration[queue'[Parent(p)]] <= expiration[queue'[i]]
  <2>1. /\ Parent(p) \in Used /\ Parent(p) < p
        /\ expiration[queue[Parent(p)]] <= expiration[queue[p]]
    BY <1>1, <1>4, <1>6, Keys DEF HeapOrdered
  <2>2. queue'[Parent(p)] = queue[Parent(p)] /\ Parent(i) < i
    BY <1>1, <1>3, <2>1, Keys
  <2>3. CASE i = index
    BY <1>1, <1>3, <2>1, <2>2, <2>3
  <2>4. CASE i # index
    <3>1. expiration[queue[p]] <= expiration[queue[i]] /\ queue'[i] = queue[i]
      BY <1>3, <1>4, <1>6, <2>2, <2>4, Keys DEF HeapOrdered
    <3> QED
      BY <1>1, <2>1, <2>2, <3>1, Keys
  <2> QED
    BY <2>3, <2>4
<1>7. p \in Used' /\ queue'[p] = tocb'
  BY <1>1, <1>2, <1>3
<1> QED
  BY <1>2, <1>5, <1>6, <1>7 DEF SiftInv

LEMMA InsertDoneSiftInv == ASSUME IInv, InsertDone PROVE SiftInv'
<1> USE DEF IInv
<1>1. \A i \in Used \ {0} : HeapOrdered(i)
  BY Keys DEF InsertDone, SiftedUp, SiftInv, HeapOrdered
<1>2. pc' = "idle" /\ Used' = Used /\ \A i \in Used \ {0} : HeapOrdered(i)'
  BY <1>1 DEF InsertDone, Used, HeapOrdered
<1> QED
  BY <1>2 DEF SiftInv
LEMMA RemoveHeadSiftInv == ASSUME IInv, RemoveHead PROVE SiftInv'
<1> USE DEF IInv
<1>1. /\ num_entries # 0 /\ 0 \in Used /\ num_entries - 1 \in Used
      /\ Used' = Used \ {num_entries - 1}
      /\ pc' = "remove" /\ index' = 0 /\ expiration' = expiration
      /\ tocb' = queue[num_entries - 1]
  BY Keys DEF RemoveHead, Used
<1>2. \A i \in Used : queue'[i] = IF i = 0 THEN tocb' ELSE queue[i]
  BY <1>1, Keys DEF RemoveHead, TypeOK
<1>3. \A i \in Used \ {0} : HeapOrdered(i)
  BY DEF RemoveHead, SiftInv
<1>4. ASSUME NEW i \in Used' \ {0}, Parent(i) # 0 PROVE HeapOrdered(i)'
  BY <1>1, <1>2, <1>3, <1>4, Keys DEF HeapOrdered
<1> QED
  BY <1>1, <1>2, <1>4 DEF SiftInv

LEMMA SiftDownSiftInv == ASSUME IInv, SiftDown PROVE SiftInv'
<1> USE DEF IInv
<1> DEFINE m == MinChild
<1>1. /\ Left(index) < num_entries /\ index \in Used /\ queue[index] = tocb
      /\ ~(expiration[queue[index]] <= expiration[queue[m]])
  BY Keys DEF SiftDown, SiftedDown, SiftInv, Left, Used
<1>2. /\ m \in Used \ {0} /\ Parent(m) = index /\ index < m
      /\ \A i \in Used \ {0} : Parent(i) = index =>
            expiration[queue[m]] <= expiration[queue[i]]
  BY <1>1, MinChildIsChild, Keys
<1>3. /\ pc' = "remove" /\ index' = m /\ tocb' = tocb
      /\ expiration' = expiration /\ Used' = Used
  BY DEF SiftDown, Used
<1>4. \A i \in Used : queue'[i] = IF i = index THEN queue[m]
                                  ELSE IF i = m THEN tocb ELSE queue[i]
  BY <1>1, <1>2, Keys DEF SiftDown, TypeOK
<1>5. /\ \A i \in Used \ {0} : Parent(i) # index => HeapOrdered(i)
      /\ index # 0 => expiration[queue[Parent(index)]] <= expiration[queue[m]]
  BY <1>2 DEF SiftDown, SiftInv
<1> HIDE DEF m
<1>6. ASSUME NEW i \in Used \ {0}, Parent(i) # m PROVE HeapOrdered(i)'
  <2>1. i # 0 /\ Parent(i) \in Used /\ Parent(i) < i
    BY Keys
  <2>2. CASE i = index
    BY <1>1, <1>2, <1>3, <1>4, <1>5, <2>1, <2>2, Keys DEF HeapOrdered
  <2>3. CASE i = m
    BY <1>1, <1>2, <1>3, <1>4, <2>1, <2>3, Keys DEF HeapOrdered
  <2>4. CASE Parent(i) = index /\ i # m
    BY <1>1, <1>2, <1>3, <1>4, <2>1, <2>4, Keys DEF HeapOrdered
  <2>5. CASE Parent(i) # index /\ i # index /\ i # m
    BY <1>1, <1>2, <1>3, <1>4, <1>5, <1>6, <2>1, <2>5, Keys DEF HeapOrdered
  <2> QED
    BY <2>2, <2>3, <2>4, <2>5
<1>7. ASSUME NEW i \in Used \ {0}, Parent(i) = m
      PROVE  expiration[queue'[Parent(m)]] <= expiration[queue'[i]]
  <2>1. Parent(i) # index /\ i # index /\ i # m
    BY <1>2, <1>7, Keys
  <2>2. expiration[queue[m]] <= expiration[queue[i]]
    BY <1>5, <1>7, <2>1 DEF HeapOrdered
  <2> QED
    BY <1>1, <1>2, <1>4, <2>1, <2>2, Keys
<1>8. m \in Used' /\ queue'[m] = tocb'
  BY <1>1, <1>2, <1>3, <1>4, Keys
<1> QED
  BY <1>3, <1>6, <1>7, <1>8 DEF SiftInv

LEMMA RemoveDoneSiftInv == ASSUME IInv, RemoveDone PROVE SiftInv'
<1> USE DEF IInv
<1>1. ASSUME NEW i \in Used \ {0} PROVE HeapOrdered(i)
  <2>1. CASE Parent(i) # index
    BY <2>1 DEF RemoveDone, SiftInv
  <2>2. CASE Parent(i) = index
    <3>1. Left(index) < num_entries
      BY <2>2, Keys, ParentOfChildren DEF Left, Right, Used
    <3>2. num_entries # 0 /\ queue[index] = tocb
      BY <3>1, Keys DEF RemoveDone, SiftInv, Left
    <3>3. expiration[tocb] <= expiration[queue[MinChild]]
      BY <3>1 DEF RemoveDone, SiftedDown
    <3>4. /\ expiration[queue[MinChild]] <= expiration[queue[i]]
          /\ expiration[queue[MinChild]] \in Int
      BY <2>2, <3>1, MinChildIsChild, Keys
    <3> QED
      BY <2>2, <3>2, <3>3, <3>4, Keys DEF HeapOrdered
  <2> QED
    BY <2>1, <2>2
<1>2. pc' = "idle" /\ Used' = Used /\ \A i \in Used \ {0} : HeapOrdered(i)'
  BY <1>1 DEF RemoveDone, Used, HeapOrdered
<1> QED
  BY <1>2 DEF SiftInv

LEMMA SiftInvStep == IInv /\ [Next]_vars => SiftInv'
<1> SUFFICES ASSUME IInv, [Next]_vars PROVE SiftInv'
  OBVIOUS
<1>1. ASSUME UNCHANGED <<queue, num_entries, expiration, pc, index, tocb>>
      PROVE  SiftInv'
  BY <1>1, OrderFrame, Keys DEF IInv
<1>2. ASSUME NEW t \in Timer, NEW us \in Time, SchedRefused(t, us)
      PROVE  SiftInv'
  BY <1>2, OrderFrame, Keys
     DEF IInv, SchedRefused, Tracked, NoDuplicate, TypeOK
<1> QED
  BY <1>1, <1>2, InsertSiftInv, SiftUpSiftInv, InsertDoneSiftInv,
     RemoveHeadSiftInv, SiftDownSiftInv, RemoveDoneSiftInv
     DEF Next, Sched, Tick, SchedNegative, vars

(* The array is a heap between calls, for every capacity: IInv holds in    *)
(* every reachable state of the queue of timer_queue.c.                    *)
THEOREM HeapInvariant == Spec => []IInv
<1>1. IInv /\ [Next]_vars => IInv'
  BY TypeStep, NoDuplicateStep, SiftInvStep DEF IInv
<1> QED
  BY InitIInv, <1>1, PTL DEF Spec

(* Every state satisfies the types of the C declarations.                  *)
THEOREM TypeCorrect == Spec => []TypeOK
<1>1. IInv => TypeOK
  BY DEF IInv
<1> QED
  BY HeapInvariant, <1>1, PTL

(* The sift loops neither lose nor copy an entry.                          *)
THEOREM NothingLostOrCopied == Spec => []NoDuplicate
<1>1. IInv => NoDuplicate
  BY DEF IInv
<1> QED
  BY HeapInvariant, <1>1, PTL

(* A slot that is smaller than the head has a smallest such slot; its      *)
(* parent is not smaller than the head, which contradicts the heap order.  *)
LEMMA HeapHead == IInv => HeadIsFirst
<1> SUFFICES ASSUME IInv, pc = "idle", NEW i \in Used,
                    ~(expiration[queue[0]] <= expiration[queue[i]])
             PROVE  FALSE
  BY DEF HeadIsFirst
<1> USE DEF IInv
<1> DEFINE Bad == {j \in Used : ~(expiration[queue[0]] <= expiration[queue[j]])}
<1>1. PICK j \in Bad : \A k \in Bad : ~(<<k, j>> \in OpToRel(<, Nat))
  <2>1. Bad \subseteq Nat /\ Bad # {}
    BY Keys
  <2> HIDE DEF Bad
  <2> QED
    BY <2>1, NatLessThanWellFounded, WFMin, Zenon
<1>2. \A k \in Bad : ~(k < j)
  BY <1>1, Keys, Zenon DEF OpToRel
<1>3. j # 0 /\ 0 \in Used
  BY Keys DEF Used
<1>4. Parent(j) \in Used /\ Parent(j) < j /\ HeapOrdered(j)
  BY <1>3, Keys DEF SiftInv
<1>5. expiration[queue[0]] <= expiration[queue[Parent(j)]]
  BY <1>2, <1>4
<1> QED
  BY <1>3, <1>4, <1>5, Keys DEF HeapOrdered

(* timers_run() looks at the head only, and that is enough.                *)
THEOREM HeadFirst == Spec => []HeadIsFirst
BY HeapInvariant, HeapHead, PTL
-----------------------------------------------------------------------------
(* The heap implements the set of timers.                                  *)
armed == [t \in Tracked |-> expiration[t]]

LEMMA CountTracked ==
    ASSUME TypeOK, NoDuplicate
    PROVE  Cardinality(Tracked) = num_entries
<1> DEFINE f == [i \in Used |-> queue[i]]
<1>1. f \in Bijection(Used, Tracked)
  <2>1. f \in Injection(Used, Tracked)
    BY DEF NoDuplicate, Tracked, Injection, IsInjective
  <2>2. \A t \in Tracked : \E i \in Used : f[i] = t
    BY DEF Tracked
  <2> QED
    BY <2>1, <2>2 DEF Bijection, Injection, Surjection
<1> HIDE DEF f
<1>2. ExistsBijection(Used, Tracked)
  BY <1>1 DEF ExistsBijection
<1>3. IsFiniteSet(Used) /\ Cardinality(Used) = num_entries
  <2>1. num_entries - 1 \in Int /\ num_entries \in Nat
    BY Keys
  <2>2. /\ IsFiniteSet(0..num_entries - 1)
        /\ Cardinality(0..num_entries - 1) =
             IF 0 > num_entries - 1 THEN 0 ELSE num_entries - 1 - 0 + 1
    BY <2>1, FS_Interval
  <2> QED
    BY <2>1, <2>2 DEF Used
<1> QED
  BY <1>2, <1>3, FS_Bijection

LEMMA SameCardinality == \A S : Abstract!Cardinality(S) = Cardinality(S)
BY DEF Abstract!Cardinality, Cardinality

LEMMA ModuloOfSum ==
    ASSUME NEW m \in Nat \ {0}, NEW a \in 0..m - 1, NEW b \in 0..m - 1
    PROVE  (a + b) % m = IF a + b < m THEN a + b ELSE a + b - m
OBVIOUS

(* The comparison of timer_sched_callback, lines 162-164, finds exactly    *)
(* the sums that wrap around.                                              *)
LEMMA OverflowIsWrap ==
    ASSUME TypeOK, NEW us \in Time
    PROVE  /\ Overflowed(us) <=> now + us > TimeModulus - 1
           /\ ~Overflowed(us) => Expiry(us) = now + us
<1>1. Expiry(us) = IF now + us < TimeModulus THEN now + us
                   ELSE now + us - TimeModulus
  BY TimeAssumption, ModuloOfSum DEF Expiry, TypeOK, Time
<1> QED
  BY <1>1, TimeAssumption DEF Overflowed, TypeOK, Time

LEMMA AbstractSteps == IInv /\ [Next]_vars => [Abstract!Next]_(Abstract!vars)
<1> SUFFICES ASSUME IInv, [Next]_vars
             PROVE  Abstract!Next \/ UNCHANGED Abstract!vars
  BY DEF Abstract!vars
<1> USE DEF IInv
<1>a. Abstract!Armed = Tracked
  BY DEF Abstract!Armed
<1>1. CASE Tick
  <2>1. now' \in now..(TimeModulus - 1)
    BY <1>1, TimeAssumption DEF Tick, TypeOK, Time
  <2>2. armed' = armed
    BY <1>1 DEF Tick, armed, Tracked, Used
  <2> QED
    BY <1>1, <2>1, <2>2 DEF Abstract!Next, Abstract!Tick, armed, Tick
<1>2. ASSUME NEW t \in Timer, NEW us \in Time, SchedNegative(t, us)
      PROVE  Abstract!Refuse(t, us)
  <2>1. armed' = armed
    BY <1>2 DEF SchedNegative, armed, Tracked, Used
  <2> QED
    BY <1>2, <1>a, <2>1 DEF Abstract!Refuse, SchedNegative, armed
<1>3. ASSUME NEW t \in Timer, NEW us \in Time, SchedRefused(t, us)
      PROVE  Abstract!Refuse(t, us)
  <2>1. Tracked' = Tracked /\ t \notin Tracked
    BY <1>3 DEF SchedRefused, Tracked, Used
  <2>2. \A u \in Tracked : expiration'[u] = expiration[u]
    BY <1>3, <2>1 DEF SchedRefused, TypeOK, Tracked, NoDuplicate
  <2>3. armed' = armed
    BY <2>1, <2>2 DEF armed
  <2>4. now + us > TimeModulus - 1 \/ Cardinality(Tracked) = MaxEntries
    BY <1>3, OverflowIsWrap, CountTracked DEF SchedRefused, timer_queue_full
  <2> QED
    BY <1>3, <1>a, <2>1, <2>3, <2>4, SameCardinality
       DEF Abstract!Refuse, SchedRefused, armed
<1>4. ASSUME NEW t \in Timer, NEW us \in Time, SchedInsert(t, us)
      PROVE  Abstract!Arm(t, us)
  <2>1. num_entries \in Slot /\ Used' = Used \cup {num_entries}
    BY <1>4, MaxEntriesAssumption, Keys
       DEF SchedInsert, timer_queue_full, TypeOK, Slot, Used
  <2>2. num_entries \notin Used /\ Used \subseteq Slot
    BY Keys DEF Used
  <2>3. /\ queue'[num_entries] = t
        /\ \A i \in Used : queue'[i] = queue[i]
    BY <1>4, <2>1, <2>2 DEF SchedInsert, TypeOK
  <2>4. Tracked' = Tracked \cup {t} /\ t \notin Tracked
    BY <1>4, <2>1, <2>3 DEF Tracked, SchedInsert
  <2>5. /\ expiration'[t] = now + us
        /\ \A u \in Tracked : expiration'[u] = expiration[u]
    BY <1>4, <2>4, OverflowIsWrap DEF SchedInsert, TypeOK, Tracked, NoDuplicate
  <2>6. Cardinality(Tracked) < MaxEntries
    BY <1>4, CountTracked, MaxEntriesAssumption
       DEF SchedInsert, timer_queue_full, TypeOK
  <2>7. now + us <= TimeModulus - 1
    BY <1>4, OverflowIsWrap, TimeAssumption DEF SchedInsert, TypeOK, Time
  <2>8. armed' = [u \in Tracked \cup {t} |-> IF u = t THEN now + us ELSE armed[u]]
    BY <2>4, <2>5 DEF armed
  <2> QED
    BY <1>4, <1>a, <2>4, <2>6, <2>7, <2>8, SameCardinality
       DEF Abstract!Arm, SchedInsert, armed, Abstract!Armed
<1>5. ASSUME NEW i \in Used, NEW j \in Used,
             queue' = [queue EXCEPT ![i] = queue[j], ![j] = queue[i]],
             UNCHANGED <<num_entries, expiration, now, ran, result>>
      PROVE  UNCHANGED Abstract!vars
  <2>1. \A k \in Used : queue'[k] = IF k = j THEN queue[i]
                                   ELSE IF k = i THEN queue[j] ELSE queue[k]
    BY <1>5, Keys DEF TypeOK
  <2>2. Used' = Used
    BY <1>5 DEF Used
  <2>3. Tracked' = Tracked
    BY <2>1, <2>2 DEF Tracked
  <2> QED
    BY <1>5, <2>3 DEF Abstract!vars
<1>6. CASE SiftUp
  <2>1. index \in Used \ {0} /\ queue[index] = tocb /\ Parent(index) \in Used
    BY <1>6, Keys DEF SiftUp, SiftedUp, SiftInv
  <2> QED
    BY <1>5, <1>6, <2>1 DEF SiftUp
<1>7. CASE SiftDown
  <2>1. Left(index) < num_entries
    BY <1>7 DEF SiftDown, SiftedDown
  <2>2. index \in Used /\ queue[index] = tocb /\ MinChild \in Used
    BY <1>7, <2>1, MinChildIsChild, Keys DEF SiftDown, SiftInv, Left, Used
  <2> QED
    BY <1>5, <1>7, <2>2 DEF SiftDown
<1>8. CASE RemoveHead
  <2>1. /\ 0 \in Used /\ num_entries - 1 \in Used
        /\ Used' = Used \ {num_entries - 1}
    BY <1>8, Keys DEF RemoveHead, Used
  <2>2. \A i \in Used : queue'[i] = IF i = 0 THEN queue[num_entries - 1]
                                   ELSE queue[i]
    BY <1>8, <2>1, Keys DEF RemoveHead, TypeOK
  <2>3. Tracked' = Tracked \ {queue[0]}
    BY <2>1, <2>2 DEF Tracked, NoDuplicate
  <2>4. PICK h \in Timer : h = queue[0]
    BY <2>1 DEF NoDuplicate
  <2>5. h \in Tracked /\ \A u \in Tracked : expiration[h] <= expiration[u]
    BY <1>8, <2>1, <2>4, HeapHead DEF HeadIsFirst, Tracked, RemoveHead
  <2>6. Abstract!Fire(h)
    BY <1>8, <1>a, <2>3, <2>4, <2>5 DEF Abstract!Fire, RemoveHead, Abstract!Armed
  <2> QED
    BY <2>6 DEF Abstract!Next
<1>9. CASE InsertDone \/ RemoveDone \/ UNCHANGED vars
  BY <1>9 DEF InsertDone, RemoveDone, vars, Abstract!vars, Tracked, Used
<1> QED
  BY <1>1, <1>2, <1>3, <1>4, <1>6, <1>7, <1>8, <1>9
     DEF Next, Sched, Abstract!Next, Time

LEMMA AbstractInit == Init => Abstract!Init
<1> SUFFICES ASSUME Init PROVE Abstract!Init
  OBVIOUS
<1>1. Tracked = {}
  BY DEF Init, Tracked, Used
<1> QED
  BY <1>1, NullAssumption, TimeAssumption DEF Init, Abstract!Init

(* The heap of timer_queue.c, of every capacity and with clocks of every   *)
(* width, implements the set of timers that timer.h documents.             *)
THEOREM Implementation == Spec => ImplementsTimerSet
BY HeapInvariant, AbstractInit, AbstractSteps, PTL
   DEF Spec, ImplementsTimerSet, Abstract!Spec

-----------------------------------------------------------------------------
(* Sequences of numbered bytes and symbols.                                *)
Any == Symbol \cup Nat

(* One follows the other, and what is missing between them was lost, or a  *)
(* warning says so.                                                        *)
Follows(S, L, i, j) ==
    /\ S[i] < S[j]
    /\ \/ \E k \in i..j : S[k] = Warning
       \/ \A n \in S[i]..S[j] - 1 : n \in L \/ \E k \in i..j : S[k] = n

Orderly(S, L) ==
    \A i, j \in DOMAIN S : i < j /\ S[i] \in Nat /\ S[j] \in Nat => Follows(S, L, i, j)

(* What is missing in front of a byte was lost, or a warning says so.      *)
Covered(S, L) ==
    \A i \in DOMAIN S : S[i] \in Nat =>
        \A n \in 1..S[i] - 1 : n \in L \/ \E k \in 1..i - 1 : S[k] = n \/ S[k] = Warning

(* Bytes are numbers and the other symbols are not.                        *)
LEMMA Symbols ==
    /\ Warning \notin Nat /\ Smi \notin Nat /\ Nothing \notin Nat /\ Smi # Warning
    /\ Symbol \subseteq Any /\ Nat \subseteq Any /\ Byte \subseteq Nat
BY SymbolAssumption, BoundAssumption DEF Any, Symbol, Byte

(* T is S without its first element.                                       *)
Shifts(S, T) == Len(S) = Len(T) + 1 /\ \A i \in 1..Len(T) : T[i] = S[i + 1]

(* T is S with x behind the first p elements.                              *)
Inserts(S, T, p, x) ==
    /\ p \in 0..Len(S) /\ Len(T) = Len(S) + 1
    /\ \A i \in 1..p : T[i] = S[i]
    /\ T[p + 1] = x
    /\ \A i \in p + 2..Len(T) : T[i] = S[i - 1]

(* T is S without q elements behind the first p.                           *)
Omits(S, T, p, q) ==
    /\ p \in Nat /\ q \in Nat /\ p + q <= Len(S) /\ Len(T) = Len(S) - q
    /\ \A i \in 1..p : T[i] = S[i]
    /\ \A i \in p + 1..Len(T) : T[i] = S[i + q]

(* T is S with an SMI byte for its p-th element.                           *)
Blots(S, T, p) ==
    /\ p \in 1..Len(S) /\ Len(T) = Len(S) /\ T[p] = Smi
    /\ \A i \in 1..Len(S) : i # p => T[i] = S[i]

(* T is S and a number that is one more than its last.                     *)
Extends(S, T) ==
    /\ Len(S) > 0 /\ Len(T) = Len(S) + 1
    /\ \A i \in 1..Len(S) : T[i] = S[i]
    /\ S[Len(S)] \in Nat /\ T[Len(T)] = S[Len(S)] + 1

(* A log stays in order when its oldest symbol goes.                       *)
LEMMA OrderShifts ==
    ASSUME NEW S \in Seq(Any), NEW T \in Seq(Any), Shifts(S, T), NEW L, Orderly(S, L)
    PROVE  Orderly(T, L)
<1>n. PICK n \in Nat : n = Len(T)
  OBVIOUS
<1>1. /\ DOMAIN T = 1..n /\ DOMAIN S = 1..n + 1
      /\ \A i \in 1..n : T[i] = S[i + 1]
  BY <1>n DEF Shifts
<1> SUFFICES ASSUME NEW i \in 1..n, NEW j \in 1..n, i < j, T[i] \in Nat, T[j] \in Nat
             PROVE  Follows(T, L, i, j)
  BY <1>1 DEF Orderly
<1>2. /\ i + 1 \in 1..n + 1 /\ j + 1 \in 1..n + 1 /\ i + 1 < j + 1
      /\ T[i] = S[i + 1] /\ T[j] = S[j + 1]
  BY <1>1
<1>3. Follows(S, L, i + 1, j + 1)
  BY <1>1, <1>2 DEF Orderly
<1>4. \A k \in i + 1..j + 1 : k - 1 \in i..j /\ S[k] = T[k - 1]
  BY <1>1
<1>5. T[i] < T[j]
  BY <1>2, <1>3 DEF Follows
<1>6. CASE \E k \in i + 1..j + 1 : S[k] = Warning
  BY <1>4, <1>5, <1>6 DEF Follows
<1>7. CASE \A m \in S[i + 1]..S[j + 1] - 1 : m \in L \/ \E k \in i + 1..j + 1 : S[k] = m
  <2>1. \A m \in T[i]..T[j] - 1 : m \in L \/ \E k \in i..j : T[k] = m
    BY <1>2, <1>4, <1>7
  <2> QED
    BY <1>5, <2>1 DEF Follows
<1> QED
  BY <1>3, <1>6, <1>7 DEF Follows

(* What is between two bytes of S is between their images in T.            *)
LEMMA FollowsToo ==
    ASSUME NEW S, NEW T, NEW L, NEW a, NEW b, NEW i, NEW j, Follows(S, L, a, b),
           T[i] = S[a], T[j] = S[b], \A k \in a..b : \E q \in i..j : T[q] = S[k]
    PROVE  Follows(T, L, i, j)
<1>1. T[i] < T[j]
  BY DEF Follows
<1>2. CASE \E k \in a..b : S[k] = Warning
  <2>1. \E q \in i..j : T[q] = Warning
    BY <1>2
  <2> QED
    BY <1>1, <2>1 DEF Follows
<1>3. CASE \A m \in S[a]..S[b] - 1 : m \in L \/ \E k \in a..b : S[k] = m
  <2>1. ASSUME NEW m \in T[i]..T[j] - 1
        PROVE  m \in L \/ \E q \in i..j : T[q] = m
    <3>1. m \in L \/ \E k \in a..b : S[k] = m
      BY <1>3
    <3> QED
      BY <3>1
  <2> QED
    BY <1>1, <2>1 DEF Follows
<1> QED
  BY <1>2, <1>3 DEF Follows

(* ... when a symbol that is no byte comes between.                        *)
LEMMA OrderInserts ==
    ASSUME NEW S \in Seq(Any), NEW T \in Seq(Any), NEW p, NEW x, Inserts(S, T, p, x),
           x \notin Nat, NEW L, Orderly(S, L)
    PROVE  Orderly(T, L)
<1>n. PICK n \in Nat : n = Len(S)
  OBVIOUS
<1>1. /\ DOMAIN T = 1..n + 1 /\ DOMAIN S = 1..n /\ p \in 0..n
      /\ \A i \in 1..p : T[i] = S[i]
      /\ T[p + 1] = x
      /\ \A i \in p + 2..n + 1 : T[i] = S[i - 1]
  BY <1>n DEF Inserts
<1> DEFINE f(i) == IF i <= p THEN i ELSE i - 1
           g(i) == IF i <= p THEN i ELSE i + 1
<1>2. \A i \in 1..n + 1 : i # p + 1 => f(i) \in 1..n /\ T[i] = S[f(i)]
  BY <1>1
<1>3. ASSUME NEW i \in 1..n + 1, NEW j \in 1..n + 1, i < j, i # p + 1, j # p + 1
      PROVE  /\ f(i) < f(j)
             /\ \A k \in f(i)..f(j) : g(k) \in i..j /\ S[k] = T[g(k)]
  <2>1. f(i) < f(j)
    BY <1>1, <1>3
  <2>2. ASSUME NEW k \in f(i)..f(j) PROVE g(k) \in i..j /\ S[k] = T[g(k)]
    <3>1. f(i) \in 1..n /\ f(j) \in 1..n
      BY <1>2, <1>3
    <3>2. k \in 1..n
      BY <3>1
    <3>3. CASE k <= p
      <4>1. g(k) = k /\ k \in 1..p
        BY <3>2, <3>3
      <4>2. k \in i..j
        BY <1>1, <1>3, <3>2, <3>3
      <4> QED
        BY <1>1, <4>1, <4>2
    <3>4. CASE ~ (k <= p)
      <4>1. g(k) = k + 1 /\ k + 1 \in p + 2..n + 1 /\ (k + 1) - 1 = k
        BY <1>1, <3>2, <3>4
      <4>2. k + 1 \in i..j
        BY <1>1, <1>3, <3>2, <3>4
      <4>3. T[k + 1] = S[(k + 1) - 1]
        BY <1>1, <4>1
      <4> QED
        BY <4>1, <4>2, <4>3
    <3> QED
      BY <3>3, <3>4
  <2> QED
    BY <2>1, <2>2
<1> HIDE DEF f, g
<1> SUFFICES ASSUME NEW i \in 1..n + 1, NEW j \in 1..n + 1, i < j, T[i] \in Nat, T[j] \in Nat
             PROVE  Follows(T, L, i, j)
  BY <1>1 DEF Orderly
<1>4. i # p + 1 /\ j # p + 1
  BY <1>1
<1>5. f(i) \in 1..n /\ f(j) \in 1..n /\ f(i) < f(j) /\ T[i] = S[f(i)] /\ T[j] = S[f(j)]
  BY <1>2, <1>3, <1>4
<1>6. Follows(S, L, f(i), f(j))
  BY <1>1, <1>5 DEF Orderly
<1>7. \A k \in f(i)..f(j) : g(k) \in i..j /\ S[k] = T[g(k)]
  BY <1>3, <1>4
<1>8. \A k \in f(i)..f(j) : \E q \in i..j : T[q] = S[k]
  BY <1>7
<1> QED
  BY <1>5, <1>6, <1>8, FollowsToo

(* ... when symbols go, and the one in front is the warning or the bytes   *)
(* among them are lost.                                                    *)
LEMMA OrderOmits ==
    ASSUME NEW S \in Seq(Any), NEW T \in Seq(Any), NEW p, NEW q, Omits(S, T, p, q),
           NEW L, NEW M, L \subseteq M, Orderly(S, L),
           \/ p > 0 /\ S[p] = Warning
           \/ \A k \in p + 1..p + q : S[k] # Warning /\ (S[k] \in Nat => S[k] \in M)
    PROVE  Orderly(T, M)
<1>n. PICK n \in Nat : n = Len(T)
  OBVIOUS
<1>1. /\ DOMAIN T = 1..n /\ DOMAIN S = 1..n + q /\ p \in Nat /\ q \in Nat /\ p <= n
      /\ \A i \in 1..p : T[i] = S[i]
      /\ \A i \in p + 1..n : T[i] = S[i + q]
  BY <1>n DEF Omits
<1> DEFINE f(i) == IF i <= p THEN i ELSE i + q
           g(i) == IF i <= p THEN i ELSE i - q
<1>2. \A i \in 1..n : f(i) \in 1..n + q /\ T[i] = S[f(i)]
  BY <1>1
<1>3. \A i, j \in 1..n : i < j =>
          /\ f(i) < f(j)
          /\ \A k \in f(i)..f(j) : k \notin p + 1..p + q => g(k) \in i..j /\ S[k] = T[g(k)]
  BY <1>1
<1>3a. \A i, j \in 1..n : i < j =>
          \A k \in f(i)..f(j) : k \in p + 1..p + q => p \in i..j \/ p = 0
  BY <1>1
<1> HIDE DEF f, g
<1> SUFFICES ASSUME NEW i \in 1..n, NEW j \in 1..n, i < j, T[i] \in Nat, T[j] \in Nat
             PROVE  Follows(T, M, i, j)
  BY <1>1 DEF Orderly
<1>5. f(i) \in 1..n + q /\ f(j) \in 1..n + q /\ f(i) < f(j) /\ T[i] = S[f(i)] /\ T[j] = S[f(j)]
  BY <1>2, <1>3
<1>6. Follows(S, L, f(i), f(j))
  BY <1>1, <1>5 DEF Orderly
<1>7. \A k \in f(i)..f(j) : k \notin p + 1..p + q => g(k) \in i..j /\ S[k] = T[g(k)]
  BY <1>3
<1>8. CASE p > 0 /\ S[p] = Warning /\ p \in i..j
  <2>1. T[p] = Warning
    BY <1>1, <1>8
  <2> QED
    BY <1>5, <1>6, <1>8, <2>1 DEF Follows
<1>9. CASE p > 0 /\ S[p] = Warning /\ p \notin i..j
  <2>1. \A k \in f(i)..f(j) : k \notin p + 1..p + q
    BY <1>3a, <1>9
  <2>2. \A k \in f(i)..f(j) : \E l \in i..j : T[l] = S[k]
    BY <1>7, <2>1
  <2> QED
    <3>1. PICK a, b : a = f(i) /\ b = f(j)
      OBVIOUS
    <3>2. Follows(S, L, a, b) /\ T[i] = S[a] /\ T[j] = S[b]
      BY <1>5, <1>6, <3>1
    <3>3. \A k \in a..b : \E l \in i..j : T[l] = S[k]
      BY <2>2, <3>1
    <3>4. Follows(T, L, i, j)
      BY <3>2, <3>3, FollowsToo
    <3> QED
      BY <3>4 DEF Follows
<1>10. CASE \A k \in p + 1..p + q : S[k] # Warning /\ (S[k] \in Nat => S[k] \in M)
  <2>1. CASE \E k \in f(i)..f(j) : S[k] = Warning
    <3>1. T[i] < T[j]
      BY <1>5, <1>6 DEF Follows
    <3>2. \E k \in i..j : T[k] = Warning
      BY <1>7, <1>10, <2>1
    <3> QED
      BY <3>1, <3>2 DEF Follows
  <2>2. CASE \A m \in S[f(i)]..S[f(j)] - 1 : m \in L \/ \E k \in f(i)..f(j) : S[k] = m
    <3>1. ASSUME NEW m \in T[i]..T[j] - 1
          PROVE  m \in M \/ \E k \in i..j : T[k] = m
      <4>1. m \in Nat
        OBVIOUS
      <4>2. m \in L \/ \E k \in f(i)..f(j) : S[k] = m
        BY <1>5, <2>2
      <4> QED
        BY <1>7, <1>10, <4>1, <4>2
    <3> QED
      BY <1>5, <1>6, <3>1 DEF Follows
  <2> QED
    BY <1>6, <2>1, <2>2 DEF Follows
<1> QED
  BY <1>8, <1>9, <1>10

(* ... when bytes of SMM overwrite a symbol that no byte precedes.         *)
LEMMA OrderBlots ==
    ASSUME NEW S \in Seq(Any), NEW T \in Seq(Any), NEW p, Blots(S, T, p),
           NEW L, Orderly(S, L), \A k \in 1..p - 1 : S[k] \notin Nat
    PROVE  Orderly(T, L)
<1>n. PICK n \in Nat : n = Len(S)
  OBVIOUS
<1>1. /\ DOMAIN T = 1..n /\ DOMAIN S = 1..n /\ p \in 1..n /\ T[p] = Smi /\ Smi \notin Nat
      /\ \A i \in 1..n : i # p => T[i] = S[i]
  BY <1>n, Symbols DEF Blots
<1> SUFFICES ASSUME NEW i \in 1..n, NEW j \in 1..n, i < j, T[i] \in Nat, T[j] \in Nat
             PROVE  Follows(T, L, i, j)
  BY <1>1 DEF Orderly
<1>2. i > p /\ j > p
  BY <1>1
<1>3. T[i] = S[i] /\ T[j] = S[j] /\ \A k \in i..j : T[k] = S[k]
  BY <1>1, <1>2
<1>4. Follows(S, L, i, j)
  BY <1>1, <1>3 DEF Orderly
<1> QED
  BY <1>3, <1>4 DEF Follows

(* ... when the next byte follows the last.                                *)
LEMMA OrderExtends ==
    ASSUME NEW S \in Seq(Any), NEW T \in Seq(Any), Extends(S, T), NEW L, Orderly(S, L)
    PROVE  Orderly(T, L)
<1>n. PICK n \in Nat : n = Len(S)
  OBVIOUS
<1>m. PICK m \in Nat : m = S[n]
  BY <1>n DEF Extends
<1>1. /\ DOMAIN T = 1..n + 1 /\ DOMAIN S = 1..n /\ n > 0 /\ T[n] = m /\ T[n + 1] = m + 1
      /\ \A i \in 1..n : T[i] = S[i]
  BY <1>n, <1>m DEF Extends
<1> SUFFICES ASSUME NEW i \in 1..n + 1, NEW j \in 1..n + 1, i < j, T[i] \in Nat, T[j] \in Nat
             PROVE  Follows(T, L, i, j)
  BY <1>1 DEF Orderly
<1>2. i \in 1..n
  OBVIOUS
<1>3. CASE j \in 1..n
  <2>1. Follows(S, L, i, j)
    BY <1>1, <1>2, <1>3 DEF Orderly
  <2>2. \A k \in i..j : T[k] = S[k]
    BY <1>1, <1>2, <1>3
  <2> QED
    BY <1>1, <1>2, <1>3, <2>1, <2>2 DEF Follows
<1>4. CASE j = n + 1
  <2>1. CASE i = n
    <3>1. T[i] = m /\ T[j] = m + 1
      BY <1>1, <1>4, <2>1
    <3>2. \A k \in T[i]..T[j] - 1 : k = T[i]
      BY <3>1
    <3> QED
      BY <1>2, <3>1, <3>2 DEF Follows
  <2>2. CASE i < n
    <3>1. Follows(S, L, i, n)
      BY <1>1, <1>2, <1>m, <2>2 DEF Orderly
    <3>2. /\ S[i] < m /\ T[i] = S[i] /\ T[i] \in Nat /\ T[j] = m + 1
          /\ \A k \in i..n : T[k] = S[k] /\ k \in i..j
      BY <1>1, <1>2, <1>4, <1>m, <3>1 DEF Follows
    <3>3. CASE \E k \in i..n : S[k] = Warning
      BY <3>2, <3>3 DEF Follows
    <3>4. CASE \A k \in S[i]..S[n] - 1 : k \in L \/ \E l \in i..n : S[l] = k
      <4>1. ASSUME NEW k \in T[i]..T[j] - 1 PROVE k \in L \/ \E l \in i..j : T[l] = k
        <5>1. CASE k = m
          BY <1>1, <1>2, <1>4, <2>2, <5>1
        <5>2. CASE k # m
          <6>1. k \in S[i]..S[n] - 1
            BY <3>2, <1>m, <5>2
          <6> QED
            BY <3>2, <3>4, <6>1
        <5> QED
          BY <5>1, <5>2
      <4> QED
        BY <3>2, <4>1 DEF Follows
    <3> QED
      BY <3>1, <3>3, <3>4 DEF Follows
  <2> QED
    BY <1>2, <2>1, <2>2
<1> QED
  BY <1>3, <1>4

-----------------------------------------------------------------------------
(* The same for what a log covers.                                         *)
LEMMA CoverMore ==
    ASSUME NEW S \in Seq(Any), NEW L, NEW M, L \subseteq M, Covered(S, L)
    PROVE  Covered(S, M)
BY DEF Covered

(* ... when more is lost.                                                  *)
LEMMA OrderMore ==
    ASSUME NEW S \in Seq(Any), NEW L, NEW M, L \subseteq M, Orderly(S, L)
    PROVE  Orderly(S, M)
<1> SUFFICES ASSUME NEW i \in DOMAIN S, NEW j \in DOMAIN S, i < j, S[i] \in Nat, S[j] \in Nat
             PROVE  Follows(S, M, i, j)
  BY DEF Orderly
<1>1. Follows(S, L, i, j)
  BY DEF Orderly
<1> QED
  BY <1>1 DEF Follows

(* What covers a log, when a symbol that is no byte comes between.         *)
LEMMA CoverInserts ==
    ASSUME NEW S \in Seq(Any), NEW T \in Seq(Any), NEW p, NEW x, Inserts(S, T, p, x),
           x \notin Nat, NEW L, Covered(S, L)
    PROVE  Covered(T, L)
<1>n. PICK n \in Nat : n = Len(S)
  OBVIOUS
<1>1. /\ DOMAIN T = 1..n + 1 /\ DOMAIN S = 1..n /\ p \in 0..n
      /\ \A i \in 1..p : T[i] = S[i]
      /\ T[p + 1] = x
      /\ \A i \in p + 2..n + 1 : T[i] = S[i - 1]
  BY <1>n DEF Inserts
<1> SUFFICES ASSUME NEW i \in 1..n + 1, T[i] \in Nat, NEW m \in 1..T[i] - 1
             PROVE  m \in L \/ \E k \in 1..i - 1 : T[k] = m \/ T[k] = Warning
  BY <1>1 DEF Covered
<1>2. i # p + 1
  BY <1>1
<1>3. CASE i <= p
  <2>1. i \in 1..n /\ T[i] = S[i] /\ \A k \in 1..i - 1 : T[k] = S[k]
    BY <1>1, <1>3
  <2>2. m \in L \/ \E k \in 1..i - 1 : S[k] = m \/ S[k] = Warning
    BY <1>1, <2>1 DEF Covered
  <2> QED
    BY <2>1, <2>2
<1>4. CASE i > p + 1
  <2>1. i - 1 \in 1..n /\ T[i] = S[i - 1]
    BY <1>1, <1>4
  <2>2. m \in L \/ \E k \in 1..(i - 1) - 1 : S[k] = m \/ S[k] = Warning
    BY <1>1, <2>1 DEF Covered
  <2>3. ASSUME NEW k \in 1..(i - 1) - 1 PROVE \E l \in 1..i - 1 : T[l] = S[k]
    <3>1. CASE k <= p
      <4>1. k \in 1..i - 1 /\ T[k] = S[k]
        BY <1>1, <3>1
      <4> QED
        BY <4>1
    <3>2. CASE k > p
      <4>1. k + 1 \in 1..i - 1 /\ k + 1 \in p + 2..n + 1 /\ (k + 1) - 1 = k
        BY <1>1, <3>2
      <4>2. T[k + 1] = S[(k + 1) - 1]
        BY <1>1, <4>1
      <4> QED
        BY <4>1, <4>2
    <3> QED
      BY <1>1, <3>1, <3>2
  <2> QED
    BY <2>2, <2>3
<1> QED
  BY <1>1, <1>2, <1>3, <1>4

(* ... when symbols go, and the one in front is the warning or the bytes   *)
(* among them are lost.                                                    *)
LEMMA CoverOmits ==
    ASSUME NEW S \in Seq(Any), NEW T \in Seq(Any), NEW p, NEW q, Omits(S, T, p, q),
           NEW L, NEW M, L \subseteq M, Covered(S, L),
           \/ p > 0 /\ S[p] = Warning
           \/ \A k \in p + 1..p + q : S[k] # Warning /\ (S[k] \in Nat => S[k] \in M)
    PROVE  Covered(T, M)
<1>n. PICK n \in Nat : n = Len(T)
  OBVIOUS
<1>1. /\ DOMAIN T = 1..n /\ DOMAIN S = 1..n + q /\ p \in Nat /\ q \in Nat /\ p <= n
      /\ \A i \in 1..p : T[i] = S[i]
      /\ \A i \in p + 1..n : T[i] = S[i + q]
  BY <1>n DEF Omits
<1> SUFFICES ASSUME NEW i \in 1..n, T[i] \in Nat, NEW m \in 1..T[i] - 1
             PROVE  m \in M \/ \E k \in 1..i - 1 : T[k] = m \/ T[k] = Warning
  BY <1>1 DEF Covered
<1>3. CASE i <= p
  <2>1. i \in 1..n + q /\ T[i] = S[i] /\ \A k \in 1..i - 1 : T[k] = S[k]
    BY <1>1, <1>3
  <2>2. m \in L \/ \E k \in 1..i - 1 : S[k] = m \/ S[k] = Warning
    BY <1>1, <2>1 DEF Covered
  <2> QED
    BY <2>1, <2>2
<1>4. CASE i > p
  <2>1. i + q \in 1..n + q /\ T[i] = S[i + q]
    BY <1>1, <1>4
  <2>2. m \in L \/ \E k \in 1..(i + q) - 1 : S[k] = m \/ S[k] = Warning
    BY <1>1, <2>1 DEF Covered
  <2>3. ASSUME NEW k \in 1..(i + q) - 1, k \notin p + 1..p + q
        PROVE  \E l \in 1..i - 1 : T[l] = S[k]
    <3>1. CASE k <= p
      <4>1. k \in 1..i - 1 /\ T[k] = S[k]
        BY <1>1, <1>4, <3>1
      <4> QED
        BY <4>1
    <3>2. CASE k > p
      <4>1. k - q \in 1..i - 1 /\ k - q \in p + 1..n /\ (k - q) + q = k
        BY <1>1, <1>4, <2>3, <3>2
      <4>2. T[k - q] = S[(k - q) + q]
        BY <1>1, <4>1
      <4> QED
        BY <4>1, <4>2
    <3> QED
      BY <1>1, <3>1, <3>2
  <2>4. CASE p > 0 /\ S[p] = Warning
    <3>1. p \in 1..i - 1 /\ T[p] = Warning
      BY <1>1, <1>4, <2>4
    <3> QED
      BY <3>1
  <2>5. CASE \A k \in p + 1..p + q : S[k] # Warning /\ (S[k] \in Nat => S[k] \in M)
    <3>1. m \in Nat
      OBVIOUS
    <3> QED
      BY <2>2, <2>3, <2>5, <3>1
  <2> QED
    BY <2>4, <2>5
<1> QED
  BY <1>1, <1>3, <1>4

(* ... when the next byte follows the last.                                *)
LEMMA CoverExtends ==
    ASSUME NEW S \in Seq(Any), NEW T \in Seq(Any), Extends(S, T), NEW L, Covered(S, L)
    PROVE  Covered(T, L)
<1>n. PICK n \in Nat : n = Len(S)
  OBVIOUS
<1>m. PICK m \in Nat : m = S[n]
  BY <1>n DEF Extends
<1>1. /\ DOMAIN T = 1..n + 1 /\ DOMAIN S = 1..n /\ n > 0 /\ T[n] = m /\ T[n + 1] = m + 1
      /\ \A i \in 1..n : T[i] = S[i]
  BY <1>n, <1>m DEF Extends
<1> SUFFICES ASSUME NEW i \in 1..n + 1, T[i] \in Nat, NEW l \in 1..T[i] - 1
             PROVE  l \in L \/ \E k \in 1..i - 1 : T[k] = l \/ T[k] = Warning
  BY <1>1 DEF Covered
<1>2. CASE i \in 1..n
  <2>1. l \in L \/ \E k \in 1..i - 1 : S[k] = l \/ S[k] = Warning
    BY <1>1, <1>2 DEF Covered
  <2>2. \A k \in 1..i - 1 : T[k] = S[k]
    BY <1>1, <1>2
  <2> QED
    BY <2>1, <2>2
<1>3. CASE i = n + 1 /\ l = m
  BY <1>1, <1>3
<1>4. CASE i = n + 1 /\ l # m
  <2>1. l \in 1..S[n] - 1 /\ n \in DOMAIN S /\ S[n] \in Nat
    BY <1>1, <1>4, <1>m
  <2>2. l \in L \/ \E k \in 1..n - 1 : S[k] = l \/ S[k] = Warning
    BY <2>1 DEF Covered
  <2>3. \A k \in 1..n - 1 : T[k] = S[k] /\ k \in 1..i - 1
    BY <1>1, <1>4
  <2> QED
    BY <2>2, <2>3
<1> QED
  BY <1>2, <1>3, <1>4

-----------------------------------------------------------------------------
(* What is on the way, without the number that comes next: its last byte   *)
(* is m or that one is lost, none of its bytes is more than m, and m is    *)
(* nowhere else in it.                                                     *)
Ends(A, m, L) == m = 0 \/ m \in L \/ (A # <<>> /\ A[Len(A)] = m)
Below(A, m) == \A i \in DOMAIN A : A[i] \in Nat => A[i] <= m
Once(A, m) == \A i \in DOMAIN A : A[i] = m => i = Len(A)

(* The end of a log when its oldest symbol goes.                           *)
LEMMA EndShifts ==
    ASSUME NEW A \in Seq(Any), NEW B \in Seq(Any), Shifts(A, B), NEW m \in Nat, NEW L
    PROVE  /\ Shifts(Append(A, m), Append(B, m))
           /\ Below(A, m) => Below(B, m)
           /\ Once(A, m) => Once(B, m)
           /\ B # <<>> /\ Ends(A, m, L) => Ends(B, m, L)
<1>n. PICK n \in Nat : n = Len(B)
  OBVIOUS
<1>1. /\ DOMAIN B = 1..n /\ DOMAIN A = 1..n + 1 /\ Len(A) = n + 1 /\ Len(B) = n
      /\ \A i \in 1..n : B[i] = A[i + 1] /\ i + 1 \in 1..n + 1
  BY <1>n DEF Shifts
<1>2. Shifts(Append(A, m), Append(B, m))
  <2>1. /\ Len(Append(A, m)) = n + 2 /\ Len(Append(B, m)) = n + 1
        /\ \A i \in 1..n : Append(B, m)[i] = A[i + 1]
        /\ Append(B, m)[n + 1] = m /\ Append(A, m)[n + 2] = m
        /\ \A i \in 1..n + 1 : Append(A, m)[i] = A[i]
    BY <1>1
  <2> HIDE <1>1
  <2> QED
    BY <1>1, <2>1 DEF Shifts
<1>3. Below(A, m) => Below(B, m)
  BY <1>1 DEF Below
<1>4. Once(A, m) => Once(B, m)
  BY <1>1 DEF Once
<1>5. ASSUME B # <<>>, Ends(A, m, L) PROVE Ends(B, m, L)
  <2>1. n > 0
    BY <1>1, <1>5
  <2>2. B[n] = A[n + 1]
    BY <1>1, <2>1
  <2> QED
    BY <1>1, <1>5, <2>2 DEF Ends
<1> QED
  BY <1>2, <1>3, <1>4, <1>5

(* ... when a symbol that is no byte comes in front of it.                 *)
LEMMA EndInserts ==
    ASSUME NEW A \in Seq(Any), NEW B \in Seq(Any), NEW p, NEW x, Inserts(A, B, p, x),
           x \notin Nat, p < Len(A), NEW m \in Nat, NEW L
    PROVE  /\ Inserts(Append(A, m), Append(B, m), p, x)
           /\ Below(A, m) => Below(B, m)
           /\ Once(A, m) => Once(B, m)
           /\ Ends(A, m, L) => Ends(B, m, L)
<1>n. PICK n \in Nat : n = Len(A)
  OBVIOUS
<1>1. /\ DOMAIN B = 1..n + 1 /\ DOMAIN A = 1..n /\ Len(A) = n /\ Len(B) = n + 1
      /\ p \in Nat /\ p < n
      /\ \A i \in 1..p : B[i] = A[i] /\ i \in 1..n
      /\ B[p + 1] = x
      /\ \A i \in p + 2..n + 1 : B[i] = A[i - 1] /\ i - 1 \in 1..n
  BY <1>n DEF Inserts
<1>1a. \A i \in 1..n + 1 : i \in 1..p \/ i = p + 1 \/ i \in p + 2..n + 1
  BY <1>1
<1>2. Inserts(Append(A, m), Append(B, m), p, x)
  <2>1. /\ Len(Append(A, m)) = n + 1 /\ Len(Append(B, m)) = n + 2
        /\ Append(B, m)[n + 2] = m /\ Append(A, m)[n + 1] = m
        /\ \A i \in 1..n + 1 : Append(B, m)[i] = B[i]
        /\ \A i \in 1..n : Append(A, m)[i] = A[i]
    <3>1. \A i \in 1..Len(A) : Append(A, m)[i] = A[i]
      OBVIOUS
    <3>2. \A i \in 1..Len(B) : Append(B, m)[i] = B[i]
      OBVIOUS
    <3>3. Append(A, m)[Len(A) + 1] = m /\ Append(B, m)[Len(B) + 1] = m
      OBVIOUS
    <3>4. Len(Append(A, m)) = Len(A) + 1 /\ Len(Append(B, m)) = Len(B) + 1
      OBVIOUS
    <3>5. Len(A) = n /\ Len(B) = n + 1 /\ (n + 1) + 1 = n + 2
      BY <1>1
    <3> QED
      BY <3>1, <3>2, <3>3, <3>4, <3>5
  <2>2. \A i \in p + 2..n + 2 : Append(B, m)[i] = Append(A, m)[i - 1]
    <3> SUFFICES ASSUME NEW i \in p + 2..n + 2
                 PROVE  Append(B, m)[i] = Append(A, m)[i - 1]
      OBVIOUS
    <3>1. CASE i = n + 2
      BY <2>1, <3>1
    <3>2. CASE i # n + 2
      <4>1. i \in p + 2..n + 1 /\ i \in 1..n + 1
        BY <1>1, <3>2
      <4> QED
        BY <1>1, <2>1, <4>1
    <3> QED
      BY <3>1, <3>2
  <2>3. \A i \in 1..p : Append(B, m)[i] = Append(A, m)[i]
    <3> SUFFICES ASSUME NEW i \in 1..p PROVE Append(B, m)[i] = Append(A, m)[i]
      OBVIOUS
    <3>1. i \in 1..n /\ i \in 1..n + 1
      BY <1>1
    <3> QED
      BY <1>1, <2>1, <3>1
  <2>4. p \in 0..n + 1 /\ p + 1 \in 1..n + 1
    BY <1>1
  <2> QED
    BY <1>1, <2>1, <2>2, <2>3, <2>4 DEF Inserts
<1>3. Below(A, m) => Below(B, m)
  BY <1>1, <1>1a DEF Below
<1>4. ASSUME Once(A, m) PROVE Once(B, m)
  <2> SUFFICES ASSUME NEW i \in 1..n + 1, B[i] = m PROVE i = n + 1
    BY <1>1 DEF Once
  <2>1. i # p + 1
    BY <1>1
  <2>2. CASE i \in 1..p
    <3>1. A[i] = m /\ i \in 1..n
      BY <1>1, <2>2
    <3>2. i = n
      BY <1>1, <1>4, <3>1 DEF Once
    <3>3. p \in Nat /\ p < n
      BY <1>1
    <3>4. i < n
      BY <2>2, <3>3
    <3> QED
      BY <3>2, <3>4
  <2>3. CASE i \in p + 2..n + 1
    <3>1. A[i - 1] = m /\ i - 1 \in 1..n
      BY <1>1, <2>3
    <3>2. i - 1 = n
      BY <1>1, <1>4, <3>1 DEF Once
    <3> QED
      BY <2>3, <3>2
  <2> QED
    BY <1>1a, <2>1, <2>2, <2>3
<1>5. Ends(A, m, L) => Ends(B, m, L)
  <2>1. n + 1 \in p + 2..n + 1 /\ (n + 1) - 1 = n
    BY <1>1
  <2>2. B[n + 1] = A[n] /\ B # <<>>
    BY <1>1, <2>1
  <2> QED
    BY <1>1, <2>2 DEF Ends
<1> QED
  BY <1>2, <1>3, <1>4, <1>5

(* ... when symbols in front of it go.                                     *)
LEMMA EndOmits ==
    ASSUME NEW A \in Seq(Any), NEW B \in Seq(Any), NEW p, NEW q, Omits(A, B, p, q),
           NEW m \in Nat, NEW L
    PROVE  /\ Omits(Append(A, m), Append(B, m), p, q)
           /\ Below(A, m) => Below(B, m)
           /\ Once(A, m) /\ p + q < Len(A) => Once(B, m)
           /\ Ends(A, m, L) /\ p + q < Len(A) => Ends(B, m, L)
<1>n. PICK n \in Nat : n = Len(B)
  OBVIOUS
<1>1. /\ DOMAIN B = 1..n /\ DOMAIN A = 1..n + q /\ Len(A) = n + q /\ Len(B) = n
      /\ p \in Nat /\ q \in Nat /\ p <= n
      /\ \A i \in 1..p : B[i] = A[i] /\ i \in 1..n + q
      /\ \A i \in p + 1..n : B[i] = A[i + q] /\ i + q \in 1..n + q
  BY <1>n DEF Omits
<1>1a. \A i \in 1..n : i \in 1..p \/ i \in p + 1..n
  BY <1>1
<1>2. Omits(Append(A, m), Append(B, m), p, q)
  <2>1. /\ Len(Append(A, m)) = n + q + 1 /\ Len(Append(B, m)) = n + 1
        /\ Append(B, m)[n + 1] = m /\ Append(A, m)[n + q + 1] = m
        /\ \A i \in 1..n : Append(B, m)[i] = B[i]
        /\ \A i \in 1..n + q : Append(A, m)[i] = A[i]
    BY <1>1
  <2>2. \A i \in p + 1..n + 1 : Append(B, m)[i] = Append(A, m)[i + q]
    <3> SUFFICES ASSUME NEW i \in p + 1..n + 1
                 PROVE  Append(B, m)[i] = Append(A, m)[i + q]
      OBVIOUS
    <3>1. CASE i = n + 1
      <4>1. i + q = n + q + 1
        BY <1>1, <3>1
      <4> QED
        BY <2>1, <3>1, <4>1
    <3>2. CASE i # n + 1
      <4>1. i \in p + 1..n /\ i \in 1..n
        BY <1>1, <3>2
      <4> QED
        BY <1>1, <2>1, <4>1
    <3> QED
      BY <3>1, <3>2
  <2>3. \A i \in 1..p : Append(B, m)[i] = Append(A, m)[i]
    <3> SUFFICES ASSUME NEW i \in 1..p PROVE Append(B, m)[i] = Append(A, m)[i]
      OBVIOUS
    <3>1. i \in 1..n /\ i \in 1..n + q
      BY <1>1
    <3> QED
      BY <1>1, <2>1, <3>1
  <2>4. p + q <= n + q + 1 /\ (n + q + 1) - q = n + 1
    BY <1>1
  <2> QED
    BY <1>1, <2>1, <2>2, <2>3, <2>4 DEF Omits
<1>3. Below(A, m) => Below(B, m)
  BY <1>1, <1>1a DEF Below
<1>4. ASSUME Once(A, m), p + q < Len(A) PROVE Once(B, m)
  <2> SUFFICES ASSUME NEW i \in 1..n, B[i] = m PROVE i = n
    BY <1>1 DEF Once
  <2>2. CASE i \in 1..p
    <3>1. A[i] = m /\ i \in 1..n + q
      BY <1>1, <2>2
    <3>2. i = n + q
      BY <1>1, <1>4, <3>1 DEF Once
    <3> QED
      BY <1>1, <3>2
  <2>3. CASE i \in p + 1..n
    <3>1. A[i + q] = m /\ i + q \in 1..n + q
      BY <1>1, <2>3
    <3>2. i + q = n + q
      BY <1>1, <1>4, <3>1 DEF Once
    <3> QED
      BY <1>1, <3>2
  <2> QED
    BY <1>1a, <2>2, <2>3
<1>5. ASSUME Ends(A, m, L), p + q < Len(A) PROVE Ends(B, m, L)
  <2>1. n \in p + 1..n
    BY <1>1, <1>5
  <2>2. B[n] = A[n + q] /\ B # <<>>
    BY <1>1, <2>1
  <2> QED
    BY <1>1, <1>5, <2>2 DEF Ends
<1> QED
  BY <1>2, <1>3, <1>4, <1>5

(* A number behind an overwritten symbol.                                  *)
LEMMA EndBlots ==
    ASSUME NEW A \in Seq(Any), NEW B \in Seq(Any), NEW p, Blots(A, B, p), NEW m \in Nat
    PROVE  Blots(Append(A, m), Append(B, m), p)
<1>n. PICK n \in Nat : n = Len(A)
  OBVIOUS
<1>1. /\ DOMAIN B = 1..n /\ DOMAIN A = 1..n /\ Len(A) = n /\ Len(B) = n /\ p \in 1..n
      /\ B[p] = Smi
      /\ \A i \in 1..n : i # p => B[i] = A[i]
  BY <1>n DEF Blots
<1>2. /\ Len(Append(A, m)) = n + 1 /\ Len(Append(B, m)) = n + 1
      /\ Append(B, m)[n + 1] = m /\ Append(A, m)[n + 1] = m
      /\ \A i \in 1..n : Append(B, m)[i] = B[i]
      /\ \A i \in 1..n : Append(A, m)[i] = A[i]
  BY <1>1
<1>3. \A i \in 1..n + 1 : i \in 1..n \/ i = n + 1
  BY <1>1
<1>4. p \in 1..n + 1
  BY <1>1
<1>5. \A i \in 1..n + 1 : i # p => Append(B, m)[i] = Append(A, m)[i]
  BY <1>1, <1>2, <1>3
<1> QED
  BY <1>1, <1>2, <1>4, <1>5 DEF Blots

-----------------------------------------------------------------------------
(* The same for sequences put together from parts.                         *)
LEMMA JoinIs ==
    ASSUME NEW A \in Seq(Any), NEW B \in Seq(Any)
    PROVE  /\ A \o B \in Seq(Any)
           /\ Len(A \o B) = Len(A) + Len(B)
           /\ \A i \in 1..Len(A) : (A \o B)[i] = A[i]
           /\ \A i \in Len(A) + 1..Len(A) + Len(B) : (A \o B)[i] = B[i - Len(A)]
OBVIOUS

(* What is where in two sequences put together.                            *)
LEMMA JoinParts ==
    ASSUME NEW A \in Seq(Any), NEW B \in Seq(Any), NEW S, S = A \o B,
           NEW a \in Nat, a = Len(A), NEW b \in Nat, b = Len(B)
    PROVE  /\ S \in Seq(Any) /\ Len(S) = a + b /\ DOMAIN S = 1..a + b
           /\ \A i \in 1..a : S[i] = A[i]
           /\ \A i \in 1..b : S[a + i] = B[i]
           /\ \A i \in a + 1..a + b : S[i] = B[i - a]
<1>1. /\ \A i \in 1..a : S[i] = A[i]
      /\ \A i \in a + 1..a + b : S[i] = B[i - a]
      /\ S \in Seq(Any) /\ Len(S) = a + b /\ DOMAIN S = 1..a + b
  BY JoinIs
<1>2. \A i \in 1..b : a + i \in a + 1..a + b /\ (a + i) - a = i
  OBVIOUS
<1> QED
  BY <1>1, <1>2

LEMMA SameSeq ==
    ASSUME NEW A \in Seq(Any), NEW B \in Seq(Any), Len(A) = Len(B),
           \A i \in 1..Len(A) : A[i] = B[i]
    PROVE  A = B
BY SeqEqual

LEMMA Associates ==
    ASSUME NEW A \in Seq(Any), NEW B \in Seq(Any), NEW C \in Seq(Any)
    PROVE  (A \o B) \o C = A \o (B \o C)
BY ConcatAssociative

LEMMA Singles ==
    ASSUME NEW x \in Any
    PROVE  <<x>> \in Seq(Any) /\ Len(<<x>>) = 1 /\ <<x>>[1] = x
OBVIOUS

(* A symbol between two sequences.                                         *)
LEMMA JoinInserts ==
    ASSUME NEW A \in Seq(Any), NEW B \in Seq(Any), NEW x \in Any,
           NEW S, S = A \o B, NEW T, T = A \o (<<x>> \o B)
    PROVE  S \in Seq(Any) /\ T \in Seq(Any) /\ Inserts(S, T, Len(A), x)
<1>a. PICK a \in Nat : a = Len(A)
  OBVIOUS
<1>b. PICK b \in Nat : b = Len(B)
  OBVIOUS
<1>x. <<x>> \in Seq(Any) /\ Len(<<x>>) = 1 /\ <<x>>[1] = x
  BY Singles
<1>1. PICK X : X = <<x>> \o B
  OBVIOUS
<1>2. /\ X \in Seq(Any) /\ Len(X) = 1 + b /\ X[1] = x
      /\ \A i \in 2..1 + b : X[i] = B[i - 1]
  <2>1. /\ X \in Seq(Any) /\ Len(X) = 1 + b
        /\ \A i \in 1..1 : X[i] = <<x>>[i]
        /\ \A i \in 1 + 1..1 + b : X[i] = B[i - 1]
    BY <1>b, <1>x, <1>1, JoinParts
  <2> QED
    BY <1>x, <2>1
<1>3. /\ S \in Seq(Any) /\ Len(S) = a + b
      /\ \A i \in 1..a : S[i] = A[i]
      /\ \A i \in a + 1..a + b : S[i] = B[i - a]
  BY <1>a, <1>b, JoinParts
<1>d. PICK d \in Nat : d = 1 + b
  OBVIOUS
<1>4. /\ T \in Seq(Any) /\ Len(T) = a + d
      /\ \A i \in 1..a : T[i] = A[i]
      /\ \A i \in a + 1..a + d : T[i] = X[i - a]
  <2>1. d = Len(X)
    BY <1>2, <1>d
  <2> QED
    BY <1>a, <1>1, <1>2, <2>1, JoinParts
<1>5. T[a + 1] = x
  <2>1. a + 1 \in a + 1..a + d /\ (a + 1) - a = 1
    BY <1>d
  <2> QED
    BY <1>2, <1>4, <2>1
<1>6. ASSUME NEW i \in a + 2..a + b + 1 PROVE T[i] = S[i - 1]
  <2>1. i \in a + 1..a + d /\ i - a \in 2..1 + b /\ (i - a) - 1 = (i - 1) - a
        /\ i - 1 \in a + 1..a + b
    BY <1>d
  <2>2. T[i] = X[i - a] /\ X[i - a] = B[(i - a) - 1] /\ S[i - 1] = B[(i - 1) - a]
    BY <1>2, <1>3, <1>4, <2>1
  <2> QED
    BY <2>1, <2>2
<1>7. a \in 0..a + b /\ a + d = (a + b) + 1
  BY <1>d
<1> QED
  BY <1>a, <1>3, <1>4, <1>5, <1>6, <1>7 DEF Inserts

(* S is A, B and C, and T is S without B.                                  *)
LosesPart(S, T, A, B, C) ==
    /\ S \in Seq(Any) /\ T \in Seq(Any) /\ Omits(S, T, Len(A), Len(B))
    /\ Len(S) = Len(A) + Len(B) + Len(C)
    /\ \A i \in 1..Len(B) : S[Len(A) + i] = B[i]

(* The middle one of three sequences goes.                                 *)
LEMMA JoinLoses ==
    ASSUME NEW A \in Seq(Any), NEW B \in Seq(Any), NEW C \in Seq(Any),
           NEW S, S = A \o (B \o C), NEW T, T = A \o C
    PROVE  LosesPart(S, T, A, B, C)
<1>a. PICK a \in Nat : a = Len(A)
  OBVIOUS
<1>b. PICK b \in Nat : b = Len(B)
  OBVIOUS
<1>c. PICK c \in Nat : c = Len(C)
  OBVIOUS
<1>1. PICK X : X = B \o C
  OBVIOUS
<1>2. /\ X \in Seq(Any) /\ Len(X) = b + c
      /\ \A i \in 1..b : X[i] = B[i]
      /\ \A i \in b + 1..b + c : X[i] = C[i - b]
  BY <1>b, <1>c, <1>1, JoinParts
<1>d. PICK d \in Nat : d = b + c
  OBVIOUS
<1>3. /\ S \in Seq(Any) /\ Len(S) = a + d
      /\ \A i \in 1..a : S[i] = A[i]
      /\ \A i \in 1..d : S[a + i] = X[i]
      /\ \A i \in a + 1..a + d : S[i] = X[i - a]
  <2>1. d = Len(X) /\ X \in Seq(Any)
    BY <1>2, <1>d
  <2>2. S = A \o X
    BY <1>1
  <2> QED
    BY <1>a, <2>1, <2>2, JoinParts
<1>4. /\ T \in Seq(Any) /\ Len(T) = a + c
      /\ \A i \in 1..a : T[i] = A[i]
      /\ \A i \in a + 1..a + c : T[i] = C[i - a]
  BY <1>a, <1>c, JoinParts
<1>5. ASSUME NEW i \in a + 1..a + c PROVE T[i] = S[i + b]
  <2>1. i + b \in a + 1..a + d /\ (i + b) - a \in b + 1..b + c
        /\ ((i + b) - a) - b = i - a
    BY <1>d
  <2>2. S[i + b] = X[(i + b) - a] /\ X[(i + b) - a] = C[((i + b) - a) - b]
    BY <1>2, <1>3, <2>1
  <2> QED
    BY <1>4, <2>1, <2>2
<1>6. \A i \in 1..b : S[a + i] = B[i]
  <2>1. \A i \in 1..b : i \in 1..d
    BY <1>d
  <2> QED
    BY <1>2, <1>3, <2>1
<1>7. a + b <= a + d /\ (a + d) - b = a + c /\ a + d = a + b + c
  BY <1>d
<1>8. Omits(S, T, a, b)
  BY <1>3, <1>4, <1>5, <1>7 DEF Omits
<1> QED
  BY <1>a, <1>b, <1>c, <1>3, <1>4, <1>6, <1>7, <1>8 DEF LosesPart

(* The first symbol of the first of two sequences goes.                    *)
LEMMA JoinShifts ==
    ASSUME NEW A \in Seq(Any), A # <<>>, NEW B \in Seq(Any),
           NEW S, S = A \o B, NEW T, T = Tail(A) \o B
    PROVE  S \in Seq(Any) /\ T \in Seq(Any) /\ Shifts(S, T)
<1>a. PICK a \in Nat : a = Len(A) /\ a > 0
  OBVIOUS
<1>b. PICK b \in Nat : b = Len(B)
  OBVIOUS
<1>1. PICK X : X = Tail(A)
  OBVIOUS
<1>d. PICK d \in Nat : d = a - 1
  <2>1. a - 1 \in Nat
    BY <1>a
  <2> QED
    BY <2>1
<1>2. X \in Seq(Any) /\ d = Len(X) /\ \A i \in 1..d : X[i] = A[i + 1]
  BY <1>a, <1>1, <1>d
<1>3. /\ S \in Seq(Any) /\ Len(S) = a + b
      /\ \A i \in 1..a : S[i] = A[i]
      /\ \A i \in a + 1..a + b : S[i] = B[i - a]
  BY <1>a, <1>b, JoinParts
<1>4. /\ T \in Seq(Any) /\ Len(T) = d + b
      /\ \A i \in 1..d : T[i] = X[i]
      /\ \A i \in d + 1..d + b : T[i] = B[i - d]
  BY <1>b, <1>1, <1>2, JoinParts
<1>5. ASSUME NEW i \in 1..d + b PROVE T[i] = S[i + 1]
  <2>1. CASE i \in 1..d
    <3>1. i + 1 \in 1..a
      BY <1>d, <2>1
    <3> QED
      BY <1>2, <1>3, <1>4, <2>1, <3>1
  <2>2. CASE i \notin 1..d
    <3>1. /\ i \in d + 1..d + b /\ i + 1 \in a + 1..a + b
          /\ (i + 1) - a = i - d
      BY <1>d, <2>2
    <3> QED
      BY <1>3, <1>4, <3>1
  <2> QED
    BY <2>1, <2>2
<1>6. a + b = (d + b) + 1
  BY <1>d
<1> QED
  BY <1>3, <1>4, <1>5, <1>6 DEF Shifts

Agree(S, A, p) == \A i \in 1..p : S[i] = A[i]

(* A symbol in the first of two sequences is overwritten.                  *)
LEMMA JoinBlots ==
    ASSUME NEW A \in Seq(Any), NEW D \in Seq(Any), NEW p, Blots(A, D, p), NEW B \in Seq(Any),
           NEW S, S = A \o B, NEW T, T = D \o B
    PROVE  S \in Seq(Any) /\ T \in Seq(Any) /\ Blots(S, T, p) /\ Agree(S, A, p)
<1>a. PICK a \in Nat : a = Len(A)
  OBVIOUS
<1>b. PICK b \in Nat : b = Len(B)
  OBVIOUS
<1>1. /\ Len(D) = a /\ p \in 1..a /\ D[p] = Smi
      /\ \A i \in 1..a : i # p => D[i] = A[i]
  BY <1>a DEF Blots
<1>d. a = Len(D)
  BY <1>1
<1>3. /\ S \in Seq(Any) /\ Len(S) = a + b
      /\ \A i \in 1..a : S[i] = A[i]
      /\ \A i \in a + 1..a + b : S[i] = B[i - a]
  BY <1>a, <1>b, JoinParts
<1>4. /\ T \in Seq(Any) /\ Len(T) = a + b
      /\ \A i \in 1..a : T[i] = D[i]
      /\ \A i \in a + 1..a + b : T[i] = B[i - a]
  BY <1>b, <1>d, JoinParts
<1>5. \A i \in 1..a + b : i \in 1..a \/ i \in a + 1..a + b
  OBVIOUS
<1>6. \A i \in 1..a + b : i # p => T[i] = S[i]
  BY <1>1, <1>3, <1>4, <1>5
<1>7. p \in 1..a + b /\ \A i \in 1..p : i \in 1..a
  BY <1>1
<1> QED
  BY <1>1, <1>3, <1>4, <1>6, <1>7 DEF Blots, Agree

(* The first symbol of one sequence as the last of the one in front.       *)
LEMMA Passes ==
    ASSUME NEW A \in Seq(Any), NEW P \in Seq(Any), P # <<>>
    PROVE  /\ Head(P) \in Any /\ Tail(P) \in Seq(Any)
           /\ (A \o <<Head(P)>>) \o Tail(P) = A \o P
<1>1. Head(P) \in Any /\ Tail(P) \in Seq(Any)
  OBVIOUS
<1>2. <<Head(P)>> \o Tail(P) = P
  BY HeadTailProperties, <1>1
<1>3. (A \o <<Head(P)>>) \o Tail(P) = A \o (<<Head(P)>> \o Tail(P))
  BY <1>1, Associates, Singles
<1> QED
  BY <1>1, <1>2, <1>3

LEMMA AppendJoins ==
    ASSUME NEW A \in Seq(Any), NEW x \in Any
    PROVE  /\ Append(A, x) = A \o <<x>> /\ Append(A, x) \in Seq(Any)
           /\ Append(A, x) # <<>>
OBVIOUS

LEMMA EmptyIs ==
    ASSUME NEW A \in Seq(Any)
    PROVE  <<>> \in Seq(Any) /\ A \o <<>> = A /\ <<>> \o A = A
BY ConcatEmptySeq

-----------------------------------------------------------------------------
(* What a buffer of n symbols holds, read from a position.                 *)
Rings(n) == [size : {0, n}, cursor : 0..n - 1, overflow : BOOLEAN,
             body : [0..n - 1 -> Symbol]]
Positions(n) == [cursor : 0..n - 1, overflow : BOOLEAN]
Seen(r, at) == [r EXCEPT !.cursor = at.cursor, !.overflow = at.overflow]

(* The slots from one position to another.                                 *)
Behind(c, d, n) == IF c <= d THEN c..d - 1 ELSE (c..n - 1) \cup (0..d - 1)

(* P is k symbols of the body, from slot f on.                             *)
Picked(P, r, f, k) ==
    P \in Seq(Symbol) /\ Len(P) = k /\ \A i \in 1..k : P[i] = r.body[f + i - 1]

(* What Piece() takes of a body.                                           *)
LEMMA PieceIs ==
    ASSUME NEW n \in Nat \ {0}, NEW r \in Rings(n), NEW f \in 0..n, NEW l \in Int,
           NEW k \in Nat, k = l - f + 1, l <= n - 1, NEW P, P = Piece(r, f, l)
    PROVE  Picked(P, r, f, k)
<1>2. \A i \in 1..k : f + i - 1 \in 0..n - 1
  OBVIOUS
<1>3. r.body \in [0..n - 1 -> Symbol]
  BY DEF Rings
<1>4. P = [i \in 1..k |-> r.body[f + i - 1]]
  BY DEF Piece
<1>5. P \in [1..k -> Symbol]
  BY <1>2, <1>3, <1>4
<1>6. P \in Seq(Symbol)
  <2>1. \A K : \A Q \in [1..k -> K] : Q \in Seq(K)
    OBVIOUS
  <2> QED
    BY <1>5, <2>1
<1>7. Len(P) = k
  <2>1. DOMAIN P = 1..k
    BY <1>4
  <2>2. DOMAIN P = 1..Len(P) /\ Len(P) \in Nat
    BY <1>6, LenProperties
  <2> QED
    BY <2>1, <2>2
<1> QED
  BY <1>4, <1>6, <1>7 DEF Picked

(* What a buffer holds that has overflowed: all slots, from the cursor on. *)
LEMMA Wrapped ==
    ASSUME NEW n \in Nat \ {0}, NEW r \in Rings(n), r.size = n, r.overflow,
           NEW c, c = r.cursor, NEW C, C = Contents(r)
    PROVE  /\ C \in Seq(Symbol) /\ C \in Seq(Any) /\ Len(C) = n /\ c \in 0..n - 1
           /\ \A i \in 1..n - c : C[i] = r.body[c + i - 1]
           /\ \A i \in n - c + 1..n : C[i] = r.body[c + i - 1 - n]
<1>c. c \in 0..n - 1 /\ n - 1 \in -1..n - 1 /\ c - 1 \in -1..n - 1 /\ 0 \in 0..n /\ c \in 0..n
  BY DEF Rings
<1>1. PICK U : U = Piece(r, c, n - 1)
  OBVIOUS
<1>2. PICK W : W = Piece(r, 0, c - 1)
  OBVIOUS
<1>3. /\ U \in Seq(Symbol) /\ Len(U) = (n - 1) - c + 1
      /\ \A i \in 1..(n - 1) - c + 1 : U[i] = r.body[c + i - 1]
  <2>1. PICK l \in Int : l = n - 1
    BY <1>c
  <2>2. PICK k \in Nat : k = l - c + 1
    <3>1. l - c + 1 \in Nat
      BY <1>c, <2>1
    <3> QED
      BY <3>1
  <2>3. U = Piece(r, c, l) /\ c \in 0..n /\ l <= n - 1
    BY <1>c, <1>1, <2>1
  <2>4. Picked(U, r, c, k)
    BY <2>2, <2>3, PieceIs
  <2> QED
    BY <2>1, <2>2, <2>4 DEF Picked
<1>4. /\ W \in Seq(Symbol) /\ Len(W) = c
      /\ \A i \in 1..c : W[i] = r.body[i - 1]
  <2>1. PICK l \in Int : l = c - 1
    BY <1>c
  <2>2. PICK f \in 0..n : f = 0
    OBVIOUS
  <2>3. W = Piece(r, f, l) /\ c = l - f + 1 /\ l <= n - 1 /\ c \in Nat
    BY <1>c, <1>2, <2>1, <2>2
  <2>4. Picked(W, r, f, c)
    BY <2>3, PieceIs
  <2>5. \A i \in 1..c : f + i - 1 = i - 1
    BY <1>c, <2>2
  <2> QED
    BY <2>4, <2>5 DEF Picked
<1>5. PICK u \in Nat : u = n - c
  <2>1. n - c \in Nat
    BY <1>c
  <2> QED
    BY <2>1
<1>6. U \in Seq(Any) /\ W \in Seq(Any) /\ u = Len(U) /\ c = Len(W) /\ c \in Nat
  BY <1>c, <1>3, <1>4, <1>5, SeqMonotonic, Symbols
<1>7. C = U \o W
  BY <1>1, <1>2 DEF Contents, Upper, Lower
<1>8. /\ C \in Seq(Any) /\ Len(C) = u + c
      /\ \A i \in 1..u : C[i] = U[i]
      /\ \A i \in u + 1..u + c : C[i] = W[i - u]
  BY <1>6, <1>7, JoinParts
<1>9. C \in Seq(Symbol)
  BY <1>3, <1>4, <1>7
<1>10. ASSUME NEW i \in 1..n - c PROVE C[i] = r.body[c + i - 1]
  <2>1. i \in 1..u /\ i \in 1..(n - 1) - c + 1
    BY <1>c, <1>5
  <2> QED
    BY <1>3, <1>8, <2>1
<1>11. ASSUME NEW i \in n - c + 1..n PROVE C[i] = r.body[c + i - 1 - n]
  <2>1. i \in u + 1..u + c /\ i - u \in 1..c /\ (i - u) - 1 = c + i - 1 - n
    BY <1>c, <1>5
  <2>2. C[i] = W[i - u] /\ W[i - u] = r.body[(i - u) - 1]
    BY <1>4, <1>8, <2>1
  <2> QED
    BY <2>1, <2>2
<1>12. u + c = n
  BY <1>c, <1>5
<1> QED
  BY <1>c, <1>8, <1>9, <1>10, <1>11, <1>12

(* What a buffer holds that has not: the slots below the cursor.           *)
LEMMA Unwrapped ==
    ASSUME NEW n \in Nat \ {0}, NEW r \in Rings(n), ~r.overflow,
           NEW c, c = r.cursor, NEW C, C = Contents(r)
    PROVE  /\ C \in Seq(Symbol) /\ C \in Seq(Any) /\ Len(C) = c /\ c \in 0..n - 1
           /\ \A i \in 1..c : C[i] = r.body[i - 1]
<1>c. c \in 0..n - 1 /\ c - 1 \in -1..n - 1
  BY DEF Rings
<1>2. C = Piece(r, 0, c - 1)
  BY DEF Contents, Lower
<1>4. /\ C \in Seq(Symbol) /\ Len(C) = c
      /\ \A i \in 1..c : C[i] = r.body[i - 1]
  <2>1. PICK l \in Int : l = c - 1
    BY <1>c
  <2>2. PICK f \in 0..n : f = 0
    OBVIOUS
  <2>3. C = Piece(r, f, l) /\ c = l - f + 1 /\ l <= n - 1 /\ c \in Nat
    BY <1>c, <1>2, <2>1, <2>2
  <2>4. Picked(C, r, f, c)
    BY <2>3, PieceIs
  <2>5. \A i \in 1..c : f + i - 1 = i - 1
    BY <1>c, <2>2
  <2> QED
    BY <2>4, <2>5 DEF Picked
<1> QED
  BY <1>c, <1>4, SeqMonotonic, Symbols

(* C is a body b of n symbols read round from slot c on, or up to slot c.  *)
Round(C, b, c, n) ==
    /\ C \in Seq(Symbol) /\ C \in Seq(Any) /\ Len(C) = n
    /\ \A i \in 1..n - c : C[i] = b[c + i - 1]
    /\ \A i \in n - c + 1..n : C[i] = b[c + i - 1 - n]
Straight(C, b, c) ==
    /\ C \in Seq(Symbol) /\ C \in Seq(Any) /\ Len(C) = c
    /\ \A i \in 1..c : C[i] = b[i - 1]

LEMMA ReadRound ==
    ASSUME NEW n \in Nat \ {0}, NEW r, r \in Rings(n), r.size = n, r.overflow,
           NEW c, r.cursor = c, NEW b, r.body = b, NEW C, C = Contents(r)
    PROVE  Round(C, b, c, n)
BY Wrapped, SMTT(30) DEF Round

LEMMA ReadStraight ==
    ASSUME NEW n \in Nat \ {0}, NEW r, r \in Rings(n), ~r.overflow,
           NEW c, r.cursor = c, NEW b, r.body = b, NEW C, C = Contents(r)
    PROVE  Straight(C, b, c)
BY Unwrapped DEF Straight

(* T is V and one more symbol, without the oldest one when full.           *)
Takes(V, T, full, x) ==
    /\ ~full => T = V \o <<x>>
    /\ full => V # <<>> /\ T = Tail(V) \o <<x>>

(* t is r with x at a position.                                            *)
PutOf(t, r, at, x, n) ==
    /\ t \in Rings(n) /\ t.size = n
    /\ t.cursor = IF at.cursor + 1 >= n THEN 0 ELSE at.cursor + 1
    /\ t.overflow = IF at.cursor + 1 >= n THEN TRUE ELSE at.overflow
    /\ t.body = [r.body EXCEPT ![at.cursor] = x]

(* What Put() leaves in a buffer.                                          *)
LEMMA PutParts ==
    ASSUME NEW n \in Nat \ {0}, NEW r, r \in Rings(n), r.size = n,
           NEW at, at \in Positions(n), NEW x, x \in Symbol, NEW t, t = Put(r, at, x)
    PROVE  PutOf(t, r, at, x, n)
<1> DEFINE next == Advanced(at, r.size)
<1>c. at.cursor \in 0..n - 1 /\ at.overflow \in BOOLEAN
  BY DEF Positions
<1>1. /\ next.cursor = IF at.cursor + 1 >= n THEN 0 ELSE at.cursor + 1
      /\ next.overflow = IF at.cursor + 1 >= n THEN TRUE ELSE at.overflow
  BY DEF Advanced, Positions
<1>2. next.cursor \in 0..n - 1 /\ next.overflow \in BOOLEAN
  <2>1. next.cursor \in 0..n - 1
    BY <1>1, <1>c
  <2>2. next.overflow \in BOOLEAN
    BY <1>1, <1>c
  <2> QED
    BY <2>1, <2>2
<1> HIDE DEF next
<1>3. /\ t.size = n /\ t.cursor = next.cursor /\ t.overflow = next.overflow
      /\ t.body = [r.body EXCEPT ![at.cursor] = x]
      /\ t = [size |-> n, cursor |-> next.cursor, overflow |-> next.overflow,
              body |-> [r.body EXCEPT ![at.cursor] = x]]
  BY DEF Put, Rings, next
<1>4. [r.body EXCEPT ![at.cursor] = x] \in [0..n - 1 -> Symbol]
  BY <1>c DEF Rings
<1>5. t \in Rings(n)
  BY <1>2, <1>3, <1>4 DEF Rings
<1> QED
  BY <1>1, <1>3, <1>5 DEF PutOf

LEMMA SeenParts ==
    ASSUME NEW n \in Nat \ {0}, NEW r \in Rings(n), NEW at \in Positions(n),
           NEW v, v = Seen(r, at)
    PROVE  /\ v \in Rings(n) /\ v.size = r.size /\ v.cursor = at.cursor
           /\ v.overflow = at.overflow /\ v.body = r.body
BY DEF Seen, Rings, Positions

(* A byte put at the position that was read comes behind what is seen from *)
(* there, and takes the place of the oldest byte when that is full.        *)
LEMMA PutIs ==
    ASSUME NEW n \in Nat \ {0}, NEW r \in Rings(n), r.size = n, NEW at \in Positions(n),
           NEW x \in Symbol, NEW t, t = Put(r, at, x), NEW v, v = Seen(r, at),
           NEW V, V = Contents(v), NEW T, T = Contents(t)
    PROVE  V \in Seq(Symbol) /\ T \in Seq(Symbol) /\ Takes(V, T, at.overflow, x)
<1>c. PICK c \in 0..n - 1 : c = at.cursor
  BY DEF Positions
<1>b. PICK b \in [0..n - 1 -> Symbol] : b = r.body
  BY DEF Rings
<1>1. /\ t \in Rings(n) /\ t.size = n
      /\ t.cursor = IF c + 1 >= n THEN 0 ELSE c + 1
      /\ t.overflow = IF c + 1 >= n THEN TRUE ELSE at.overflow
      /\ t.body = [b EXCEPT ![c] = x]
  <2>1. PutOf(t, r, at, x, n)
    BY PutParts, Zenon
  <2> QED
    BY <2>1, <1>c, <1>b DEF PutOf
<1>2. /\ v \in Rings(n) /\ v.size = n /\ v.cursor = c /\ v.overflow = at.overflow /\ v.body = b
  BY SeenParts, <1>c, <1>b
<1>e. PICK e \in [0..n - 1 -> Symbol] :
          /\ t.body = e /\ e[c] = x
          /\ \A i \in 0..n - 1 : i # c => e[i] = b[i]
  <2>1. [b EXCEPT ![c] = x] \in [0..n - 1 -> Symbol]
    OBVIOUS
  <2> QED
    BY <1>1, <2>1
<1>x. x \in Any
  BY Symbols
<1>3. CASE ~at.overflow
  <2>1. /\ V \in Seq(Symbol) /\ V \in Seq(Any) /\ Len(V) = c
        /\ \A i \in 1..c : V[i] = b[i - 1]
    <3>1. Straight(V, b, c)
      BY <1>2, <1>3, ReadStraight, Zenon
    <3> QED
      BY <3>1 DEF Straight
  <2>2. /\ T \in Seq(Symbol) /\ T \in Seq(Any) /\ Len(T) = c + 1
        /\ \A i \in 1..c + 1 : T[i] = e[i - 1]
    <3>1. CASE c + 1 >= n
      <4>1. t.cursor = 0 /\ t.overflow /\ c + 1 = n
        BY <1>1, <3>1
      <4>2. PICK d \in Nat : d = 0
        OBVIOUS
      <4>3. /\ T \in Seq(Symbol) /\ T \in Seq(Any) /\ Len(T) = n
            /\ \A i \in 1..n - d : T[i] = e[d + i - 1]
        <5>1. t.cursor = d /\ t.body = e /\ t.overflow /\ t \in Rings(n) /\ t.size = n
          BY <1>1, <1>e, <4>1, <4>2
        <5>2. Round(T, e, d, n)
          BY <5>1, ReadRound, Zenon
        <5> QED
          BY <5>2 DEF Round
      <4>4. \A i \in 1..c + 1 : i \in 1..n - d /\ d + i - 1 = i - 1
        BY <4>1, <4>2
      <4> QED
        BY <4>1, <4>3, <4>4
    <3>2. CASE c + 1 < n
      <4>1. t.cursor = c + 1 /\ ~t.overflow
        BY <1>1, <1>3, <3>2
      <4>2. PICK d \in Nat : d = c + 1
        OBVIOUS
      <4>3. /\ T \in Seq(Symbol) /\ T \in Seq(Any) /\ Len(T) = d
            /\ \A i \in 1..d : T[i] = e[i - 1]
        <5>1. t.cursor = d /\ t.body = e /\ ~t.overflow /\ t \in Rings(n)
          BY <1>1, <1>e, <4>1, <4>2
        <5>2. Straight(T, e, d)
          BY <5>1, ReadStraight, Zenon
        <5> QED
          BY <5>2 DEF Straight
      <4> QED
        BY <4>2, <4>3
    <3> QED
      BY <3>1, <3>2
  <2>3. T = V \o <<x>>
    <3>1. V \o <<x>> = Append(V, x) /\ Append(V, x) \in Seq(Any)
      BY <2>1, <1>x, AppendJoins
    <3>2. /\ Len(Append(V, x)) = c + 1
          /\ \A i \in 1..c : Append(V, x)[i] = V[i]
          /\ Append(V, x)[c + 1] = x
      BY <2>1, <1>x, AppendProperties
    <3>3. ASSUME NEW i \in 1..c + 1 PROVE T[i] = Append(V, x)[i]
      <4>1. CASE i = c + 1
        BY <1>e, <2>2, <3>2, <4>1
      <4>2. CASE i # c + 1
        <5>1. i \in 1..c /\ i - 1 \in 0..n - 1 /\ i - 1 # c
          BY <4>2
        <5> QED
          BY <1>e, <2>1, <2>2, <3>2, <5>1
      <4> QED
        BY <4>1, <4>2
    <3>4. T = Append(V, x)
      BY <2>2, <3>1, <3>2, <3>3, SeqEqual
    <3> QED
      BY <3>1, <3>4
  <2> QED
    BY <1>3, <2>1, <2>2, <2>3 DEF Takes
<1>4. CASE at.overflow
  <2>1. /\ V \in Seq(Symbol) /\ V \in Seq(Any) /\ Len(V) = n
        /\ \A i \in 1..n - c : V[i] = b[c + i - 1]
        /\ \A i \in n - c + 1..n : V[i] = b[c + i - 1 - n]
    <3>1. Round(V, b, c, n)
      BY <1>2, <1>4, ReadRound, Zenon
    <3> QED
      BY <3>1 DEF Round
  <2>2. PICK W : W = Tail(V)
    OBVIOUS
  <2>3. /\ V # <<>> /\ W \in Seq(Symbol) /\ W \in Seq(Any) /\ Len(W) = n - 1
        /\ \A i \in 1..n - 1 : W[i] = V[i + 1]
    <3>1. V # <<>>
      BY <2>1
    <3> QED
      BY <2>1, <2>2, <3>1, HeadTailProperties
  <2>4. PICK m \in Nat : m = n - 1
    <3>1. n - 1 \in Nat
      OBVIOUS
    <3> QED
      BY <3>1
  <2>5. /\ W \o <<x>> = Append(W, x) /\ Append(W, x) \in Seq(Any)
        /\ Len(Append(W, x)) = m + 1
        /\ \A i \in 1..m : Append(W, x)[i] = W[i]
        /\ Append(W, x)[m + 1] = x
    BY <2>3, <2>4, <1>x, AppendJoins, AppendProperties
  <2>6. /\ T \in Seq(Symbol) /\ T \in Seq(Any) /\ Len(T) = n
        /\ \A i \in 1..n : T[i] = IF i = n THEN x ELSE V[i + 1]
    <3>0. t.overflow
      BY <1>1, <1>4
    <3>1. CASE c + 1 >= n
      <4>1. t.cursor = 0 /\ c = m
        BY <1>1, <2>4, <3>1
      <4>2. PICK d \in Nat : d = 0
        OBVIOUS
      <4>3. /\ T \in Seq(Symbol) /\ T \in Seq(Any) /\ Len(T) = n
            /\ \A i \in 1..n - d : T[i] = e[d + i - 1]
        <5>1. t.cursor = d /\ t.body = e /\ t.overflow /\ t \in Rings(n) /\ t.size = n
          BY <1>1, <1>e, <3>0, <4>1, <4>2
        <5>2. Round(T, e, d, n)
          BY <5>1, ReadRound, Zenon
        <5> QED
          BY <5>2 DEF Round
      <4>4. ASSUME NEW i \in 1..n PROVE T[i] = IF i = n THEN x ELSE V[i + 1]
        <5>1. T[i] = e[i - 1]
          <6>1. i \in 1..n - d /\ d + i - 1 = i - 1
            BY <4>2
          <6> QED
            BY <4>3, <6>1
        <5>2. CASE i = n
          BY <1>e, <2>4, <4>1, <5>1, <5>2
        <5>3. CASE i # n
          <6>1. /\ i + 1 \in n - c + 1..n /\ c + (i + 1) - 1 - n = i - 1
                /\ i - 1 \in 0..n - 1 /\ i - 1 # c
            BY <2>4, <4>1, <5>3
          <6> QED
            BY <1>e, <2>1, <5>1, <5>3, <6>1
        <5> QED
          BY <5>2, <5>3
      <4> QED
        BY <4>3, <4>4
    <3>2. CASE c + 1 < n
      <4>1. t.cursor = c + 1
        BY <1>1, <3>2
      <4>2. PICK d \in Nat : d = c + 1
        OBVIOUS
      <4>3. /\ T \in Seq(Symbol) /\ T \in Seq(Any) /\ Len(T) = n
            /\ \A i \in 1..n - d : T[i] = e[d + i - 1]
            /\ \A i \in n - d + 1..n : T[i] = e[d + i - 1 - n]
        <5>1. t.cursor = d /\ t.body = e /\ t.overflow /\ t \in Rings(n) /\ t.size = n
          BY <1>1, <1>e, <3>0, <4>1, <4>2
        <5>2. Round(T, e, d, n)
          BY <5>1, ReadRound, Zenon
        <5> QED
          BY <5>2 DEF Round
      <4>4. ASSUME NEW i \in 1..n PROVE T[i] = IF i = n THEN x ELSE V[i + 1]
        <5>1. CASE i = n
          <6>1. i \in n - d + 1..n /\ d + i - 1 - n = c
            BY <3>2, <4>2, <5>1
          <6>2. T[i] = e[c]
            <7>1. T[i] = e[d + i - 1 - n]
              BY <4>3, <6>1
            <7> QED
              BY <6>1, <7>1
          <6> QED
            BY <1>e, <5>1, <6>2
        <5>2. CASE i \in 1..n - d
          <6>1. /\ i + 1 \in 1..n - c /\ c + (i + 1) - 1 = d + i - 1 /\ i # n
                /\ d + i - 1 \in 0..n - 1 /\ d + i - 1 # c
            BY <3>2, <4>2, <5>2
          <6> QED
            BY <1>e, <2>1, <4>3, <5>2, <6>1
        <5>3. CASE i \notin 1..n - d /\ i # n
          <6>1. /\ i \in n - d + 1..n
                /\ i + 1 \in n - c + 1..n /\ c + (i + 1) - 1 - n = d + i - 1 - n
                /\ d + i - 1 - n \in 0..n - 1 /\ d + i - 1 - n # c
            BY <3>2, <4>2, <5>3
          <6>2. T[i] = e[d + i - 1 - n]
            BY <4>3, <6>1
          <6>3. V[i + 1] = b[d + i - 1 - n]
            BY <2>1, <6>1
          <6> QED
            BY <1>e, <5>3, <6>1, <6>2, <6>3
        <5> QED
          BY <5>1, <5>2, <5>3
      <4> QED
        BY <4>3, <4>4
    <3> QED
      BY <3>1, <3>2
  <2>7. ASSUME NEW i \in 1..n PROVE T[i] = Append(W, x)[i]
    <3>1. CASE i = n
      <4>1. i = m + 1
        BY <2>4, <3>1
      <4> QED
        BY <2>5, <2>6, <3>1, <4>1
    <3>2. CASE i # n
      <4>1. i \in 1..m /\ i \in 1..n - 1
        BY <2>4, <3>2
      <4> QED
        BY <2>3, <2>5, <2>6, <3>2, <4>1
    <3> QED
      BY <3>1, <3>2
  <2>8. T = Append(W, x)
    <3>1. Len(T) = Len(Append(W, x)) /\ Len(T) = n
      BY <2>4, <2>5, <2>6
    <3> QED
      BY <2>5, <2>6, <2>7, <3>1, SeqEqual
  <2> QED
    BY <1>4, <2>1, <2>2, <2>3, <2>5, <2>6, <2>8 DEF Takes
<1> QED
  BY <1>3, <1>4

(* A byte in SMM changes what is seen from a position only in a slot all   *)
(* older ones of which hold bytes of SMM too.                              *)
LEMMA SeenBlots ==
    ASSUME NEW n \in Nat \ {0}, NEW r \in Rings(n), r.size = n, NEW at \in Positions(n),
           NEW d, d = r.cursor, NEW t \in Rings(n), t.size = n,
           t.body = [r.body EXCEPT ![d] = Smi],
           NEW v, v = Seen(r, at), NEW w, w = Seen(t, at),
           NEW V, V = Contents(v), NEW W, W = Contents(w),
           \A q \in Behind(at.cursor, d, n) : r.body[q] = Smi
    PROVE  /\ V \in Seq(Any) /\ W \in Seq(Any)
           /\ V = W \/ \E p : Blots(V, W, p) /\ \A k \in 1..p - 1 : V[k] \notin Nat
<1>c. PICK c \in 0..n - 1 : c = at.cursor
  BY DEF Positions
<1>b. PICK b \in [0..n - 1 -> Symbol] : b = r.body
  BY DEF Rings
<1>d. d \in 0..n - 1
  BY DEF Rings
<1>2. v \in Rings(n) /\ v.size = n /\ v.cursor = c /\ v.overflow = at.overflow /\ v.body = b
  BY SeenParts, <1>c, <1>b
<1>3. /\ w \in Rings(n) /\ w.size = n /\ w.cursor = c
      /\ w.overflow = at.overflow /\ w.body = t.body
  BY SeenParts, <1>c
<1>e. PICK e \in [0..n - 1 -> Symbol] :
          /\ w.body = e /\ e[d] = Smi
          /\ \A i \in 0..n - 1 : i # d => e[i] = b[i]
  <2>1. t.body \in [0..n - 1 -> Symbol]
    BY DEF Rings
  <2> QED
    BY <1>3, <1>b, <1>d, <2>1
<1>s. Smi \notin Nat
  BY Symbols
<1>q. \A q \in Behind(c, d, n) : b[q] = Smi
  BY <1>b, <1>c
<1>4. CASE ~at.overflow
  <2>1. /\ V \in Seq(Any) /\ Len(V) = c
        /\ \A i \in 1..c : V[i] = b[i - 1]
    <3>1. Straight(V, b, c)
      BY <1>2, <1>4, ReadStraight, Zenon
    <3> QED
      BY <3>1 DEF Straight
  <2>2. /\ W \in Seq(Any) /\ Len(W) = c
        /\ \A i \in 1..c : W[i] = e[i - 1]
    <3>1. w \in Rings(n) /\ w.cursor = c /\ w.overflow = at.overflow /\ w.body = e
      BY <1>3, <1>e
    <3>2. Straight(W, e, c)
      BY <3>1, <1>4, ReadStraight, Zenon
    <3> QED
      BY <3>2 DEF Straight
  <2>3. CASE c <= d
    <3>1. \A i \in 1..c : V[i] = W[i]
      <4>1. \A i \in 1..c : i - 1 \in 0..n - 1 /\ i - 1 # d
        BY <2>3
      <4> QED
        BY <1>e, <2>1, <2>2, <4>1
    <3> QED
      BY <2>1, <2>2, <3>1, SameSeq
  <2>4. CASE d < c
    <3>1. PICK p \in Nat : p = d + 1
      BY <1>d
    <3>2. p \in 1..c /\ p - 1 = d
      BY <1>d, <2>4, <3>1
    <3>3. \A i \in 1..c : i # p => i - 1 \in 0..n - 1 /\ i - 1 # d
      BY <1>d, <3>1
    <3>4. Blots(V, W, p)
      <4>1. W[p] = Smi
        BY <1>e, <2>2, <3>2
      <4>2. \A i \in 1..c : i # p => W[i] = V[i]
        BY <1>e, <2>1, <2>2, <3>3
      <4> QED
        BY <2>1, <2>2, <3>2, <4>1, <4>2 DEF Blots
    <3>5. ASSUME NEW k \in 1..p - 1 PROVE V[k] \notin Nat
      <4>1. k \in 1..c /\ k - 1 \in 0..d - 1
        BY <1>d, <2>4, <3>1
      <4>2. k - 1 \in Behind(c, d, n)
        BY <1>d, <2>4, <4>1 DEF Behind
      <4> QED
        BY <1>q, <1>s, <2>1, <4>1, <4>2
    <3> QED
      BY <2>1, <2>2, <3>4, <3>5
  <2> QED
    BY <1>d, <2>3, <2>4
<1>5. CASE at.overflow
  <2>1. /\ V \in Seq(Any) /\ Len(V) = n
        /\ \A i \in 1..n - c : V[i] = b[c + i - 1]
        /\ \A i \in n - c + 1..n : V[i] = b[c + i - 1 - n]
    <3>1. Round(V, b, c, n)
      BY <1>2, <1>5, ReadRound, Zenon
    <3> QED
      BY <3>1 DEF Round
  <2>2. /\ W \in Seq(Any) /\ Len(W) = n
        /\ \A i \in 1..n - c : W[i] = e[c + i - 1]
        /\ \A i \in n - c + 1..n : W[i] = e[c + i - 1 - n]
    <3>1. /\ w \in Rings(n) /\ w.size = n /\ w.cursor = c
          /\ w.overflow = at.overflow /\ w.body = e
      BY <1>3, <1>e
    <3>2. Round(W, e, c, n)
      BY <3>1, <1>5, ReadRound, Zenon
    <3> QED
      BY <3>2 DEF Round
  <2> DEFINE slot(i) == IF i <= n - c THEN c + i - 1 ELSE c + i - 1 - n
  <2>3. \A i \in 1..n : slot(i) \in 0..n - 1 /\ V[i] = b[slot(i)] /\ W[i] = e[slot(i)]
    <3> SUFFICES ASSUME NEW i \in 1..n
                 PROVE  slot(i) \in 0..n - 1 /\ V[i] = b[slot(i)] /\ W[i] = e[slot(i)]
      OBVIOUS
    <3>1. CASE i <= n - c
      <4>1. i \in 1..n - c
        BY <3>1
      <4> QED
        BY <2>1, <2>2, <3>1, <4>1
    <3>2. CASE ~(i <= n - c)
      <4>1. i \in n - c + 1..n
        BY <3>2
      <4> QED
        BY <2>1, <2>2, <3>2, <4>1
    <3> QED
      BY <3>1, <3>2
  <2>4. PICK p \in 1..n : p = IF c <= d THEN d - c + 1 ELSE n - c + d + 1
    <3>1. (IF c <= d THEN d - c + 1 ELSE n - c + d + 1) \in 1..n
      BY <1>d
    <3> QED
      BY <3>1
  <2>5. slot(p) = d /\ \A i \in 1..n : i # p => slot(i) # d
    <3>1. CASE c <= d
      <4>1. p = d - c + 1
        BY <2>4, <3>1
      <4> QED
        BY <1>d, <3>1, <4>1
    <3>2. CASE ~(c <= d)
      <4>1. p = n - c + d + 1
        BY <2>4, <3>2
      <4> QED
        BY <1>d, <3>2, <4>1
    <3> QED
      BY <3>1, <3>2
  <2>6. ASSUME NEW k \in 1..p - 1 PROVE k \in 1..n /\ slot(k) \in Behind(c, d, n)
    <3>0. k \in 1..n
      OBVIOUS
    <3>1. CASE c <= d
      <4>1. p = d - c + 1
        BY <2>4, <3>1
      <4>2. slot(k) \in c..d - 1
        BY <1>d, <3>1, <4>1
      <4> QED
        BY <3>0, <3>1, <4>2 DEF Behind
    <3>2. CASE ~(c <= d)
      <4>1. p = n - c + d + 1
        BY <2>4, <3>2
      <4>2. slot(k) \in c..n - 1 \/ slot(k) \in 0..d - 1
        BY <1>d, <3>2, <4>1
      <4> QED
        BY <3>0, <3>2, <4>2 DEF Behind
    <3> QED
      BY <3>1, <3>2
  <2> HIDE DEF slot
  <2>7. Blots(V, W, p)
    <3>1. W[p] = Smi
      BY <1>e, <2>3, <2>5
    <3>2. \A i \in 1..n : i # p => W[i] = V[i]
      BY <1>e, <2>3, <2>5
    <3> QED
      BY <2>1, <2>2, <3>1, <3>2 DEF Blots
  <2>8. \A k \in 1..p - 1 : V[k] \notin Nat
    BY <1>q, <1>s, <2>3, <2>6
  <2> QED
    BY <2>1, <2>2, <2>7, <2>8
<1> QED
  BY <1>4, <1>5

-----------------------------------------------------------------------------
(* The shape of a state: where the stage prints to, what has a valid       *)
(* buffer, what it is about to store and what it has read.                 *)
Waiting == IF current \in {"pre", "static"} THEN Copied(buf[current]) ELSE <<>>
Ahead == Waiting \o pending
Way == Log("cbmem") \o Ahead
View == Contents(Seen(buf["cbmem"], loaded))

(* A buffer is valid while the stage prints to it or it is copied; the one *)
(* in cbmem stays valid.                                                   *)
Places ==
    /\ source # Nowhere => current = "cbmem" /\ source \in {"pre", "static"}
    /\ buf["pre"].size = IF current = "pre" \/ source = "pre" THEN PreSize ELSE 0
    /\ buf["static"].size =
          IF current = "static" \/ source = "static" THEN StaticSize ELSE 0
    /\ current = "cbmem" => buf["cbmem"].size = CbmemSize
    /\ current = Nowhere => buf["cbmem"].size = 0 /\ pending = <<>>
    /\ buf["cbmem"].size = 0 => ~buf["cbmem"].overflow
    /\ current = "pre" \/ source = "pre" => stage # "ramstage"
    /\ current = "static" \/ source = "static" => stage = "ramstage"
    /\ current # "pre" => stage # "bootblock"
    /\ cut => survives
    /\ source = Nowhere /\ pending # <<>> => pending = <<printed>>

(* What cbmemc_tx_byte() has read is where the buffer is, but for the      *)
(* bytes that were printed in SMM since then.                              *)
Loads ==
    loaded # Nothing =>
        /\ pending # <<>> /\ current # Nowhere /\ loaded \in Positions(Space[current])
        /\ current = "cbmem" =>
              \A p \in Behind(loaded.cursor, buf["cbmem"].cursor, CbmemSize) :
                  buf["cbmem"].body[p] = Smi
        /\ current # "cbmem" => loaded = Position(buf[current])

(* What is still to be copied is the end of what the source holds.         *)
Halves == source # Nowhere => \E X \in Seq(Symbol) : Copied(buf[source]) = X \o pending

Shape == ConsoleTypeOK /\ Places /\ Loads /\ Halves

LEMMA Spaces ==
    /\ \A b \in Buffer : Space[b] \in Nat \ {0}
    /\ Space["pre"] = PreSize /\ Space["static"] = StaticSize /\ Space["cbmem"] = CbmemSize
    /\ Buffer = {"pre", "static", "cbmem"} /\ Nowhere \notin Buffer
BY SizeAssumption DEF Buffer, Space, Nowhere

(* What is copied from a buffer: what it holds, behind a warning when it   *)
(* has overflowed.                                                         *)
LEMMA HoldIs ==
    ASSUME NEW n \in Nat \ {0}, NEW r \in Rings(n), r.size = n
    PROVE  /\ Contents(r) \in Seq(Symbol) /\ Contents(r) \in Seq(Any)
           /\ Copied(r) \in Seq(Symbol) /\ Copied(r) \in Seq(Any)
           /\ ~r.overflow => Copied(r) = Contents(r)
           /\ r.overflow => Copied(r) = <<Warning>> \o Contents(r) /\ Contents(r) # <<>>
<1>1. CASE r.overflow
  <2>1. PICK c : c = r.cursor
    OBVIOUS
  <2>2. PICK C : C = Contents(r)
    OBVIOUS
  <2>3. Round(C, r.body, c, n)
    BY <1>1, <2>1, <2>2, ReadRound
  <2>4. C \in Seq(Symbol) /\ Len(C) = n
    BY <2>3 DEF Round
  <2>5. C # <<>>
    BY <2>4
  <2>6. <<Warning>> \o C \in Seq(Symbol)
    BY <2>4 DEF Symbol
  <2> QED
    BY <1>1, <2>2, <2>4, <2>5, <2>6, SeqMonotonic, Symbols DEF Copied
<1>2. CASE ~r.overflow
  <2>1. PICK c : c = r.cursor
    OBVIOUS
  <2>2. PICK C : C = Contents(r)
    OBVIOUS
  <2>3. Straight(C, r.body, c)
    BY <1>2, <2>1, <2>2, ReadStraight
  <2> QED
    BY <1>2, <2>2, <2>3 DEF Copied, Straight
<1> QED
  BY <1>1, <1>2

(* Every buffer is a ring of its size, and its log what it holds.          *)
LEMMA RingIs ==
    ASSUME ConsoleTypeOK, NEW b \in Buffer
    PROVE  /\ buf[b] \in Rings(Space[b]) /\ Space[b] \in Nat \ {0}
           /\ buf[b].size = 0 \/ buf[b].size = Space[b]
           /\ Valid(b) <=> buf[b].size = Space[b]
           /\ Valid(b) => Ready(b) = buf[b]
           /\ Log(b) \in Seq(Symbol) /\ Log(b) \in Seq(Any)
           /\ Valid(b) => Log(b) = Contents(buf[b])
           /\ ~Valid(b) => Log(b) = <<>>
<1>1. PICK n \in Nat \ {0} : n = Space[b]
  BY Spaces
<1>2. PICK r : r = buf[b]
  OBVIOUS
<1>3. r \in Rings(n)
  BY <1>1, <1>2 DEF ConsoleTypeOK, Rings
<1>4. r.size \in {0, n} /\ r.cursor \in 0..n - 1
  BY <1>3 DEF Rings
<1>5. Valid(b) <=> r.size = n
  BY <1>1, <1>2, <1>4 DEF Valid
<1>6. Valid(b) => Ready(b) = buf[b]
  BY DEF Ready
<1>7. CASE r.size = n
  <2>1. Contents(r) \in Seq(Symbol) /\ Contents(r) \in Seq(Any)
    BY <1>3, <1>7, HoldIs
  <2>2. Log(b) = Contents(r)
    BY <1>2, <1>7 DEF Log
  <2> QED
    BY <1>1, <1>2, <1>3, <1>5, <1>6, <1>7, <2>1, <2>2
<1>8. CASE r.size = 0
  <2>2. Log(b) = <<>>
    BY <1>2, <1>8 DEF Log
  <2> QED
    BY <1>1, <1>2, <1>3, <1>4, <1>5, <1>6, <1>8, <2>2
<1> QED
  BY <1>4, <1>7, <1>8

(* Nothing is copied from a buffer that starts empty.                      *)
LEMMA EmptyRing ==
    ASSUME NEW b \in Buffer
    PROVE  /\ Empty(b) \in Rings(Space[b]) /\ Empty(b).size = Space[b]
           /\ ~Empty(b).overflow /\ Copied(Empty(b)) = <<>>
           /\ Invalid(b) \in Rings(Space[b]) /\ Invalid(b).size = 0 /\ ~Invalid(b).overflow
<1>1. PICK n \in Nat \ {0} : n = Space[b]
  BY Spaces
<1>2. Nothing \in Symbol
  BY DEF Symbol
<1>3. PICK B : B = [i \in 0..n - 1 |-> Nothing]
  OBVIOUS
<1>4. B \in [0..n - 1 -> Symbol]
  BY <1>2, <1>3
<1>5. Empty(b) = [size |-> n, cursor |-> 0, overflow |-> FALSE, body |-> B]
  BY <1>1, <1>3 DEF Empty
<1>6. 0 \in 0..n - 1
  OBVIOUS
<1>7. Empty(b) \in Rings(n) /\ Empty(b).size = n /\ ~Empty(b).overflow /\ Empty(b).cursor = 0
  BY <1>4, <1>5, <1>6 DEF Rings
<1>8. PICK e : e = Empty(b)
  OBVIOUS
<1>9. Invalid(b) \in Rings(n) /\ Invalid(b).size = 0 /\ ~Invalid(b).overflow
  <2>1. e \in Rings(n) /\ ~e.overflow
    BY <1>7, <1>8
  <2>2. Invalid(b) = [e EXCEPT !.size = 0]
    BY <1>8 DEF Invalid
  <2> QED
    BY <2>1, <2>2 DEF Rings
<1>10. Copied(Empty(b)) = <<>>
  <2>1. PICK r : r = Empty(b)
    OBVIOUS
  <2>2. PICK C : C = Contents(r)
    OBVIOUS
  <2>3. PICK c : c = r.cursor
    OBVIOUS
  <2>4. Straight(C, r.body, c)
    BY <1>7, <2>1, <2>2, <2>3, ReadStraight
  <2>5. C \in Seq(Symbol) /\ Len(C) = 0
    BY <1>7, <2>1, <2>3, <2>4 DEF Straight
  <2>6. C = <<>>
    BY <2>5
  <2> QED
    BY <1>7, <2>1, <2>2, <2>6 DEF Copied
<1> QED
  BY <1>1, <1>7, <1>9, <1>10

(* The shape holds in the beginning; then what each step does to it, to    *)
(* what is on its way and to the buffer in cbmem.                          *)
LEMMA ShapeInit == ConsoleInit => Shape
<1> SUFFICES ASSUME ConsoleInit PROVE Shape
  OBVIOUS
<1>1. /\ buf["pre"] = Empty("pre") /\ buf["static"] = Invalid("static")
      /\ buf["cbmem"] = Invalid("cbmem") /\ DOMAIN buf = Buffer
  BY Spaces DEF ConsoleInit
<1>2. ConsoleTypeOK
  <2>1. \A b \in Buffer : buf[b] \in Rings(Space[b])
    BY <1>1, Spaces, EmptyRing
  <2>2. current = "pre" /\ buf["pre"].size = Space["pre"]
    BY <1>1, Spaces, EmptyRing DEF ConsoleInit
  <2>3. pending \in Seq(Symbol)
    BY DEF ConsoleInit
  <2>4. /\ survives \in BOOLEAN /\ stage \in Stage /\ current \in Buffer \cup {Nowhere}
        /\ source \in Buffer \cup {Nowhere} /\ loaded = Nothing
        /\ lost = {} /\ cut \in BOOLEAN
    BY Spaces DEF ConsoleInit, Stage
  <2>5. printed \in 0..MaxBytes /\ smis \in 0..MaxSmi /\ resets \in 0..MaxResets
    BY BoundAssumption DEF ConsoleInit
  <2> QED
    BY <1>1, <2>1, <2>2, <2>3, <2>4, <2>5 DEF ConsoleTypeOK, Rings
<1>3. Places
  <2>1. /\ buf["pre"].size = PreSize /\ buf["static"].size = 0 /\ buf["cbmem"].size = 0
        /\ ~buf["cbmem"].overflow
    BY <1>1, Spaces, EmptyRing
  <2>2. /\ source = Nowhere /\ current = "pre" /\ stage = "bootblock" /\ pending = <<>> /\ ~cut
    BY DEF ConsoleInit
  <2>3. Nowhere \notin {"pre", "static", "cbmem"}
    BY Spaces
  <2> QED
    BY <2>1, <2>2, <2>3 DEF Places
<1>4. Loads /\ Halves
  BY DEF ConsoleInit, Loads, Halves, Nowhere
<1> QED
  BY <1>2, <1>3, <1>4 DEF Shape

LEMMA ShapePrintByte == Shape /\ PrintByte => Shape'
<1> SUFFICES ASSUME Shape, PrintByte PROVE Shape'
  OBVIOUS
<1>0. ConsoleTypeOK /\ Places /\ Loads
  BY DEF Shape
<1>1. /\ UNCHANGED <<survives, buf, stage, current, loaded, source, smis, resets, cut>>
      /\ pending = <<>> /\ source = Nowhere /\ loaded = Nothing
      /\ printed \in Nat /\ printed < MaxBytes /\ printed' = printed + 1
      /\ \/ current = Nowhere /\ lost' = lost \cup {printed + 1} /\ pending' = <<>>
         \/ current # Nowhere /\ lost' = lost /\ pending' = <<printed + 1>>
  BY <1>0 DEF PrintByte, Idle, Loads, ConsoleTypeOK
<1>2. ConsoleTypeOK'
  <2>1. printed + 1 \in Byte /\ printed + 1 \in 0..MaxBytes
    BY <1>1, BoundAssumption DEF Byte
  <2>2. lost' \subseteq Byte
    BY <1>0, <1>1, <2>1 DEF ConsoleTypeOK
  <2>3. pending' \in Seq(Symbol)
    <3>1. <<>> \in Seq(Symbol)
      OBVIOUS
    <3>2. printed + 1 \in Symbol
      BY <2>1 DEF Symbol
    <3>3. <<printed + 1>> \in Seq(Symbol)
      BY <3>2
    <3> QED
      BY <1>1, <3>1, <3>3
  <2> QED
    BY <1>0, <1>1, <2>1, <2>2, <2>3 DEF ConsoleTypeOK
<1>3. Places'
  BY <1>0, <1>1 DEF Places
<1>4. Loads' /\ Halves'
  BY <1>1 DEF Loads, Halves
<1> QED
  BY <1>2, <1>3, <1>4 DEF Shape

LEMMA ShapeTxLoad == Shape /\ TxLoad => Shape'
<1> SUFFICES ASSUME Shape, TxLoad PROVE Shape'
  OBVIOUS
<1>0. ConsoleTypeOK /\ Places /\ Loads /\ Halves
  BY DEF Shape
<1>1. /\ UNCHANGED <<survives, buf, stage, current, pending, source, printed, smis, resets,
                     lost, cut>>
      /\ pending # <<>> /\ loaded' = Position(buf[current])
  BY DEF TxLoad
<1>2. current \in Buffer /\ current # Nowhere
  BY <1>0, <1>1 DEF Places, ConsoleTypeOK
<1>3. PICK n \in Nat \ {0} : n = Space[current]
  BY <1>2, Spaces
<1>4. /\ buf[current] \in Rings(n) /\ loaded' \in Positions(n)
      /\ loaded'.cursor = buf[current].cursor
  <2>1. buf[current] \in Rings(n)
    BY <1>0, <1>2, <1>3, RingIs
  <2> QED
    BY <1>1, <2>1 DEF Position, Rings, Positions
<1>5. ConsoleTypeOK'
  <2>1. loaded' \in [cursor : Nat, overflow : BOOLEAN]
    BY <1>4 DEF Positions
  <2> QED
    BY <1>0, <1>1, <2>1 DEF ConsoleTypeOK
<1>6. Places' /\ Halves'
  BY <1>0, <1>1 DEF Places, Halves
<1>7. Loads'
  <2>1. current = "cbmem" =>
            \A p \in Behind(loaded'.cursor, buf["cbmem"].cursor, CbmemSize) : FALSE
    <3> SUFFICES ASSUME current = "cbmem"
                 PROVE  Behind(loaded'.cursor, buf["cbmem"].cursor, CbmemSize) = {}
      OBVIOUS
    <3>1. PICK c \in 0..n - 1 : c = buf["cbmem"].cursor /\ c = loaded'.cursor
      BY <1>4 DEF Rings
    <3> QED
      BY <3>1 DEF Behind
  <2> QED
    BY <1>1, <1>2, <1>3, <1>4, <2>1 DEF Loads
<1> QED
  BY <1>5, <1>6, <1>7 DEF Shape

SameBuffers == DOMAIN buf' = Buffer /\ \A b \in Buffer : buf'[b] = buf[b]

LEMMA ShapeStartRomstage ==
    Shape /\ StartRomstage => Shape' /\ SameBuffers /\ UNCHANGED <<Way, Ahead>>
<1> SUFFICES ASSUME Shape, StartRomstage
             PROVE  Shape' /\ SameBuffers /\ UNCHANGED <<Way, Ahead>>
  OBVIOUS
<1>0. ConsoleTypeOK /\ Places /\ Loads /\ Halves
  BY DEF Shape
<1>1. /\ UNCHANGED <<survives, current, pending, loaded, source, printed, smis, resets,
                     lost, cut>>
      /\ pending = <<>> /\ source = Nowhere /\ stage = "bootblock" /\ stage' = "romstage"
      /\ buf' = [buf EXCEPT !["pre"] = Ready("pre")]
  BY DEF StartRomstage, Idle
<1>2. current = "pre" /\ buf["pre"].size = PreSize
  BY <1>0, <1>1 DEF Places
<1>3. Ready("pre") = buf["pre"]
  BY <1>0, <1>2, Spaces, RingIs
<1>4. SameBuffers
  BY <1>0, <1>1, <1>3 DEF ConsoleTypeOK, SameBuffers
<1>5. ConsoleTypeOK'
  BY <1>0, <1>1, <1>4 DEF ConsoleTypeOK, Stage, SameBuffers
<1>6. Places'
  BY <1>0, <1>1, <1>2, <1>4, Spaces DEF Places, SameBuffers
<1>7. Loads' /\ Halves'
  BY <1>0, <1>1, <1>4, Spaces DEF Loads, Halves
<1>8. UNCHANGED <<Way, Ahead>>
  BY <1>1, <1>4, Spaces DEF Way, Ahead, Waiting, Log, SameBuffers
<1> QED
  BY <1>1, <1>4, <1>5, <1>6, <1>7, <1>8 DEF Shape

(* init_console_ptr() leaves a valid buffer alone and empties any other.   *)
LEMMA ReadyIs ==
    ASSUME ConsoleTypeOK, NEW b \in Buffer
    PROVE  /\ Ready(b) \in Rings(Space[b]) /\ Ready(b).size = Space[b]
           /\ Contents(Ready(b)) = Log(b)
           /\ Valid(b) => Ready(b) = buf[b]
           /\ ~Valid(b) => ~Ready(b).overflow /\ Copied(Ready(b)) = <<>>
<1>0. /\ buf[b] \in Rings(Space[b]) /\ (Valid(b) <=> buf[b].size = Space[b])
      /\ Valid(b) => Ready(b) = buf[b] /\ Log(b) = Contents(buf[b])
      /\ ~Valid(b) => Log(b) = <<>>
  BY RingIs
<1>1. CASE Valid(b)
  BY <1>0, <1>1
<1>2. CASE ~Valid(b)
  <2>1. PICK n \in Nat \ {0} : n = Space[b]
    BY Spaces
  <2>2. PICK e : e = buf[b]
    OBVIOUS
  <2>3. e \in Rings(n)
    BY <1>0, <2>1, <2>2
  <2>4. PICK r : r = Ready(b)
    OBVIOUS
  <2>5. r = [e EXCEPT !.size = n, !.cursor = 0, !.overflow = FALSE]
    BY <1>2, <2>1, <2>2, <2>4 DEF Ready
  <2>6. r \in Rings(n) /\ r.size = n /\ ~r.overflow
    <3>1. PICK d \in [size : {0, n}, cursor : 0..n - 1, overflow : BOOLEAN,
                      body : [0..n - 1 -> Symbol]] : d = [e EXCEPT !.size = n, !.cursor = 0]
      <4>1. 0 \in 0..n - 1
        OBVIOUS
      <4> QED
        BY <2>3, <4>1 DEF Rings
    <3>2. d.size = n
      BY <2>3, <3>1 DEF Rings
    <3>3. r = [d EXCEPT !.overflow = FALSE]
      BY <2>5, <3>1
    <3> QED
      BY <3>1, <3>2, <3>3 DEF Rings
  <2>7. PICK c : c = 0 /\ r.cursor = c
    BY <2>3, <2>5 DEF Rings
  <2>8. PICK C : C = Contents(r)
    OBVIOUS
  <2>9. Straight(C, r.body, c)
    BY <2>6, <2>7, <2>8, ReadStraight, Zenon
  <2>10. C \in Seq(Symbol) /\ Len(C) = 0
    BY <2>7, <2>9 DEF Straight
  <2>11. C = <<>>
    BY <2>10
  <2> QED
    BY <1>0, <1>2, <2>1, <2>4, <2>6, <2>8, <2>11 DEF Copied
<1> QED
  BY <1>1, <1>2

(* What the stage is about to store is bytes.                              *)
LEMMA AheadIs ==
    ASSUME Shape
    PROVE  /\ pending \in Seq(Symbol) /\ pending \in Seq(Any)
           /\ Waiting \in Seq(Symbol) /\ Waiting \in Seq(Any)
           /\ Ahead \in Seq(Any)
           /\ Log("cbmem") \in Seq(Symbol) /\ Log("cbmem") \in Seq(Any)
           /\ Way \in Seq(Any)
           /\ printed \in Nat /\ printed + 1 \in Any /\ printed + 1 \in Nat
<1>0. ConsoleTypeOK /\ Places
  BY DEF Shape
<1>1. pending \in Seq(Symbol) /\ printed \in Nat
  BY <1>0 DEF ConsoleTypeOK
<1>2. Waiting \in Seq(Symbol)
  <2>1. CASE current \in {"pre", "static"}
    <3>1. /\ current \in Buffer /\ Space[current] \in Nat \ {0}
          /\ buf[current] \in Rings(Space[current]) /\ buf[current].size = Space[current]
      BY <1>0, <2>1, Spaces, RingIs DEF Places
    <3>2. PICK n \in Nat \ {0} : n = Space[current]
      BY <3>1
    <3>3. PICK r : r = buf[current]
      OBVIOUS
    <3>4. Copied(r) \in Seq(Symbol)
      BY <3>1, <3>2, <3>3, HoldIs
    <3> QED
      BY <2>1, <3>3, <3>4 DEF Waiting
  <2>2. CASE current \notin {"pre", "static"}
    BY <2>2 DEF Waiting
  <2> QED
    BY <2>1, <2>2
<1>3. Log("cbmem") \in Seq(Symbol)
  BY <1>0, Spaces, RingIs
<1>4. \A A \in Seq(Symbol) : A \in Seq(Any)
  BY SeqMonotonic, Symbols
<1>5. Ahead \in Seq(Any) /\ Way \in Seq(Any)
  BY <1>1, <1>2, <1>3, <1>4, JoinIs DEF Ahead, Way
<1>6. printed + 1 \in Nat
  BY <1>1
<1> QED
  BY <1>1, <1>2, <1>3, <1>4, <1>5, <1>6, Symbols

LEMMA WayIs == Shape => Way \in Seq(Any)
BY AheadIs

LEMMA ShapeCbmemReady ==
    Shape /\ CbmemReady =>
        /\ Shape' /\ Way' = Way
        /\ buf'["cbmem"].overflow = buf["cbmem"].overflow
        /\ source' = current /\ Copied(buf[source])' = Waiting /\ pending' = Waiting
        /\ Ahead' = Ahead /\ Ahead = Waiting
<1> SUFFICES ASSUME Shape, CbmemReady
             PROVE  /\ Shape' /\ Way' = Way
                    /\ buf'["cbmem"].overflow = buf["cbmem"].overflow
                    /\ source' = current /\ Copied(buf[source])' = Waiting
                    /\ pending' = Waiting
                    /\ Ahead' = Ahead /\ Ahead = Waiting
  OBVIOUS
<1>0. ConsoleTypeOK /\ Places /\ Loads /\ Halves
  BY DEF Shape
<1>1. /\ UNCHANGED <<survives, stage, loaded, printed, smis, resets, lost, cut>>
      /\ pending = <<>> /\ source = Nowhere /\ stage # "bootblock"
      /\ current \in {"pre", "static"} /\ source' = current /\ current' = "cbmem"
      /\ pending' = Copied(buf[current])
      /\ loaded = Nothing
      /\ buf' = [buf EXCEPT !["cbmem"] = Ready("cbmem")]
  BY <1>0 DEF CbmemReady, Idle, Loads
<1>2. PICK R : R = Ready("cbmem")
  OBVIOUS
<1>3. /\ R \in Rings(CbmemSize) /\ R.size = CbmemSize /\ Contents(R) = Log("cbmem")
      /\ R.overflow = buf["cbmem"].overflow
  <2>1. /\ R \in Rings(CbmemSize) /\ R.size = CbmemSize /\ Contents(R) = Log("cbmem")
        /\ Valid("cbmem") => R = buf["cbmem"]
        /\ ~Valid("cbmem") => ~R.overflow
    BY <1>0, <1>2, Spaces, ReadyIs
  <2>2. CASE Valid("cbmem")
    BY <2>1, <2>2
  <2>3. CASE ~Valid("cbmem")
    <3>1. buf["cbmem"].size = 0 /\ buf["cbmem"] \in Rings(CbmemSize)
      BY <1>0, <2>3, Spaces, RingIs
    <3>2. ~buf["cbmem"].overflow
      BY <1>0, <3>1 DEF Places
    <3>3. R.overflow \in BOOLEAN /\ buf["cbmem"].overflow \in BOOLEAN
      BY <2>1, <3>1 DEF Rings
    <3> QED
      BY <2>1, <2>3, <3>2, <3>3
  <2> QED
    BY <2>1, <2>2, <2>3
<1>4. /\ DOMAIN buf' = Buffer /\ buf'["cbmem"] = R
      /\ buf'["pre"] = buf["pre"] /\ buf'["static"] = buf["static"]
  BY <1>0, <1>1, <1>2, Spaces DEF ConsoleTypeOK
<1>5. pending' = Waiting /\ Waiting \in Seq(Symbol) /\ Waiting' = <<>>
  BY <1>1, AheadIs DEF Waiting
<1>6. ConsoleTypeOK'
  <2>1. \A b \in Buffer : buf'[b] \in Rings(Space[b])
    BY <1>0, <1>3, <1>4, Spaces, RingIs
  <2>2. current' \in Buffer /\ buf'[current'].size = Space[current'] /\ source' \in Buffer
    BY <1>1, <1>3, <1>4, Spaces
  <2> QED
    BY <1>0, <1>1, <1>4, <1>5, <2>1, <2>2 DEF ConsoleTypeOK, Rings
<1>7. Places'
  <2>1. buf'["cbmem"].size = CbmemSize /\ CbmemSize # 0
    BY <1>3, <1>4, Spaces
  <2> QED
    BY <1>0, <1>1, <1>4, <2>1, Spaces DEF Places
<1>8. Copied(buf[source])' = Waiting
  BY <1>1, <1>4 DEF Waiting
<1>9. Halves'
  <2>1. Copied(buf[source])' = <<>> \o pending' /\ <<>> \in Seq(Symbol)
    BY <1>5, <1>8
  <2> QED
    BY <2>1 DEF Halves
<1>10. Loads'
  BY <1>1 DEF Loads
<1>11. Log("cbmem")' = Log("cbmem")
  BY <1>3, <1>4, Spaces DEF Log
<1>12. Ahead' = Ahead /\ Ahead = Waiting
  BY <1>1, <1>5 DEF Ahead
<1>13. Way' = Way
  BY <1>11, <1>12 DEF Way
<1> QED
  BY <1>1, <1>3, <1>4, <1>5, <1>6, <1>7, <1>8, <1>9, <1>10, <1>12, <1>13 DEF Shape

LEMMA ShapeCbmemFull ==
    Shape /\ CbmemFull =>
        /\ Shape' /\ Way' = <<>> /\ Ahead' = <<>> /\ current' = Nowhere
        /\ ~buf'["cbmem"].overflow
<1> SUFFICES ASSUME Shape, CbmemFull
             PROVE  /\ Shape' /\ Way' = <<>> /\ Ahead' = <<>> /\ current' = Nowhere
                    /\ ~buf'["cbmem"].overflow
  OBVIOUS
<1>0. ConsoleTypeOK /\ Places /\ Loads /\ Halves
  BY DEF Shape
<1>1. /\ UNCHANGED <<survives, stage, pending, loaded, source, printed, smis, resets, cut>>
      /\ pending = <<>> /\ source = Nowhere /\ stage = "romstage" /\ current = "pre"
      /\ ~Valid("cbmem") /\ lost' = 1..printed /\ current' = Nowhere
      /\ loaded = Nothing
      /\ buf' = [buf EXCEPT !["pre"].size = 0]
  BY <1>0 DEF CbmemFull, Idle, Loads
<1>2. /\ DOMAIN buf' = Buffer /\ buf'["cbmem"] = buf["cbmem"]
      /\ buf'["pre"] = [buf["pre"] EXCEPT !.size = 0] /\ buf'["static"] = buf["static"]
  BY <1>0, <1>1, Spaces DEF ConsoleTypeOK
<1>3. buf["cbmem"].size = 0 /\ ~buf["cbmem"].overflow
  BY <1>0, <1>1, Spaces, RingIs DEF Places
<1>4. \A b \in Buffer : buf'[b] \in Rings(Space[b])
  <2>1. buf["pre"] \in Rings(PreSize) /\ buf["static"] \in Rings(StaticSize)
        /\ buf["cbmem"] \in Rings(CbmemSize)
    BY <1>0, Spaces, RingIs
  <2>2. buf'["pre"] \in Rings(PreSize)
    BY <1>2, <2>1 DEF Rings
  <2> QED
    BY <1>2, <2>1, <2>2, Spaces
<1>5. ConsoleTypeOK'
  <2>1. lost' \subseteq Byte
    BY <1>0, <1>1, BoundAssumption DEF ConsoleTypeOK, Byte
  <2> QED
    BY <1>0, <1>1, <1>2, <1>4, <2>1 DEF ConsoleTypeOK, Rings
<1>6. Places'
  <2>1. buf'["pre"].size = 0
    <3>1. buf["pre"] \in Rings(PreSize)
      BY <1>0, Spaces, RingIs
    <3> QED
      BY <1>2, <3>1 DEF Rings
  <2> QED
    BY <1>0, <1>1, <1>2, <1>3, <2>1, Spaces DEF Places
<1>7. Loads' /\ Halves'
  BY <1>1 DEF Loads, Halves
<1>8. Ahead' = <<>> /\ Log("cbmem")' = <<>>
  BY <1>1, <1>2, <1>3, Spaces DEF Ahead, Waiting, Log
<1>9. Way' = <<>>
  BY <1>8 DEF Way
<1> QED
  BY <1>1, <1>2, <1>3, <1>5, <1>6, <1>7, <1>8, <1>9 DEF Shape

LEMMA ShapeCopyDone ==
    Shape /\ CopyDone =>
        /\ Shape' /\ Way' = Way /\ Ahead' = <<>> /\ buf'["cbmem"] = buf["cbmem"]
<1> SUFFICES ASSUME Shape, CopyDone
             PROVE  /\ Shape' /\ Way' = Way /\ Ahead' = <<>>
                    /\ buf'["cbmem"] = buf["cbmem"]
  OBVIOUS
<1>0. ConsoleTypeOK /\ Places /\ Loads /\ Halves
  BY DEF Shape
<1>1. /\ UNCHANGED <<survives, stage, current, pending, loaded, printed, smis, resets, lost,
                     cut>>
      /\ pending = <<>> /\ source # Nowhere /\ source' = Nowhere /\ loaded = Nothing
      /\ current = "cbmem" /\ source \in {"pre", "static"}
      /\ buf' = [buf EXCEPT ![source].size = 0]
  BY <1>0 DEF CopyDone, SourceSize, Loads, Places
<1>2. PICK R : R = [buf[source] EXCEPT !.size = 0]
  OBVIOUS
<1>3. /\ DOMAIN buf' = Buffer /\ buf'["cbmem"] = buf["cbmem"]
      /\ buf'[source] = R
      /\ \A b \in Buffer : b # source => buf'[b] = buf[b]
  BY <1>0, <1>1, <1>2, Spaces DEF ConsoleTypeOK
<1>4. R \in Rings(Space[source]) /\ R.size = 0
  <2>1. buf[source] \in Rings(Space[source])
    BY <1>0, <1>1, Spaces, RingIs
  <2> QED
    BY <1>2, <2>1 DEF Rings
<1>5. \A b \in Buffer : buf'[b] \in Rings(Space[b])
  BY <1>0, <1>3, <1>4, RingIs
<1>6. ConsoleTypeOK'
  <2>1. buf'[current'].size = Space[current']
    BY <1>0, <1>1, <1>3, Spaces DEF ConsoleTypeOK
  <2> QED
    BY <1>0, <1>1, <1>3, <1>5, <2>1 DEF ConsoleTypeOK, Rings
<1>7. Places'
  <2>1. buf'["pre"].size = 0 /\ buf'["static"].size = 0
    <3>1. CASE source = "pre"
      BY <1>0, <1>1, <1>3, <1>4, <3>1, Spaces DEF Places
    <3>2. CASE source = "static"
      BY <1>0, <1>1, <1>3, <1>4, <3>2, Spaces DEF Places
    <3> QED
      BY <1>1, <3>1, <3>2
  <2> QED
    BY <1>0, <1>1, <1>3, <2>1, Spaces DEF Places
<1>8. Loads' /\ Halves'
  BY <1>1 DEF Loads, Halves
<1>9. Ahead' = <<>> /\ Ahead = <<>> /\ Log("cbmem")' = Log("cbmem")
  BY <1>1, <1>3, Spaces DEF Ahead, Waiting, Log
<1>10. Way' = Way
  BY <1>9 DEF Way
<1> QED
  BY <1>3, <1>6, <1>7, <1>8, <1>9, <1>10 DEF Shape

LEMMA ShapeStartRamstage ==
    Shape /\ StartRamstage =>
        /\ Shape' /\ Way' = Way /\ Ahead' = <<>> /\ buf'["cbmem"] = buf["cbmem"]
<1> SUFFICES ASSUME Shape, StartRamstage
             PROVE  /\ Shape' /\ Way' = Way /\ Ahead' = <<>>
                    /\ buf'["cbmem"] = buf["cbmem"]
  OBVIOUS
<1>0. ConsoleTypeOK /\ Places /\ Loads /\ Halves
  BY DEF Shape
<1>1. /\ UNCHANGED <<survives, pending, loaded, source, printed, smis, resets, lost, cut>>
      /\ pending = <<>> /\ source = Nowhere /\ loaded = Nothing
      /\ stage = "romstage" /\ stage' = "ramstage" /\ current' = "static"
      /\ current \in {"cbmem", Nowhere}
      /\ buf' = [buf EXCEPT !["static"] = Empty("static")]
  BY <1>0 DEF StartRamstage, Idle, Loads
<1>2. PICK R : R = Empty("static")
  OBVIOUS
<1>3. R \in Rings(StaticSize) /\ R.size = StaticSize /\ Copied(R) = <<>>
  BY <1>2, Spaces, EmptyRing
<1>4. /\ DOMAIN buf' = Buffer /\ buf'["cbmem"] = buf["cbmem"]
      /\ buf'["pre"] = buf["pre"] /\ buf'["static"] = R
  BY <1>0, <1>1, <1>2, Spaces DEF ConsoleTypeOK
<1>5. ConsoleTypeOK'
  <2>1. \A b \in Buffer : buf'[b] \in Rings(Space[b])
    BY <1>0, <1>3, <1>4, Spaces, RingIs
  <2>2. buf'[current'].size = Space[current'] /\ current' \in Buffer
    BY <1>1, <1>3, <1>4, Spaces
  <2> QED
    BY <1>0, <1>1, <1>4, <2>1, <2>2 DEF ConsoleTypeOK, Rings, Stage
<1>6. Places'
  <2>1. buf["pre"].size = 0 /\ source # "static" /\ source # "pre"
    BY <1>0, <1>1, Spaces DEF Places
  <2> QED
    BY <1>0, <1>1, <1>3, <1>4, <2>1, Spaces DEF Places
<1>7. Loads' /\ Halves'
  BY <1>1 DEF Loads, Halves
<1>8. Ahead' = <<>> /\ Ahead = <<>> /\ Log("cbmem")' = Log("cbmem")
  BY <1>1, <1>3, <1>4, Spaces DEF Ahead, Waiting, Log
<1>9. Way' = Way
  BY <1>8 DEF Way
<1> QED
  BY <1>4, <1>5, <1>6, <1>7, <1>8, <1>9 DEF Shape

(* A byte stored in cbmem comes behind what was there when the position    *)
(* was read.                                                               *)
LEMMA ShapeTxStoreCbmem ==
    Shape /\ TxStore /\ current = "cbmem" =>
        /\ Shape' /\ pending # <<>> /\ loaded # Nothing
        /\ Ahead = pending /\ Ahead' = Tail(pending)
        /\ View \in Seq(Any) /\ Takes(View, Log("cbmem")', loaded.overflow, Head(pending))
        /\ loaded.overflow => buf'["cbmem"].overflow
        /\ buf'["pre"] = buf["pre"]
<1> SUFFICES ASSUME Shape, TxStore, current = "cbmem"
             PROVE  /\ Shape' /\ pending # <<>> /\ loaded # Nothing
                    /\ Ahead = pending /\ Ahead' = Tail(pending)
                    /\ View \in Seq(Any)
                    /\ Takes(View, Log("cbmem")', loaded.overflow, Head(pending))
                    /\ loaded.overflow => buf'["cbmem"].overflow
                    /\ buf'["pre"] = buf["pre"]
  OBVIOUS
<1>0. ConsoleTypeOK /\ Places /\ Loads /\ Halves
  BY DEF Shape
<1>1. /\ UNCHANGED <<survives, stage, current, source, printed, smis, resets, lost, cut>>
      /\ loaded # Nothing /\ loaded' = Nothing /\ pending # <<>> /\ pending' = Tail(pending)
      /\ loaded \in Positions(CbmemSize) /\ current' = "cbmem"
      /\ buf' = [buf EXCEPT !["cbmem"] = Put(buf["cbmem"], loaded, Head(pending))]
  BY <1>0, Spaces DEF TxStore, Loads
<1>2. PICK R : R = Put(buf["cbmem"], loaded, Head(pending))
  OBVIOUS
<1>n. PICK n \in Nat \ {0} : n = CbmemSize
  BY Spaces
<1>r. PICK r : r = buf["cbmem"]
  OBVIOUS
<1>3. r \in Rings(n) /\ r.size = n
  BY <1>0, <1>n, <1>r, Spaces, RingIs DEF Places
<1>x. PICK x : x = Head(pending)
  OBVIOUS
<1>4. x \in Symbol /\ Tail(pending) \in Seq(Symbol) /\ pending \in Seq(Symbol)
  BY <1>0, <1>1, <1>x DEF ConsoleTypeOK
<1>5. PutOf(R, r, loaded, x, n)
  BY <1>1, <1>2, <1>n, <1>r, <1>x, <1>3, <1>4, PutParts
<1>6. /\ DOMAIN buf' = Buffer /\ buf'["cbmem"] = R
      /\ buf'["pre"] = buf["pre"] /\ buf'["static"] = buf["static"]
  BY <1>0, <1>1, <1>2, Spaces DEF ConsoleTypeOK
<1>7. R \in Rings(n) /\ R.size = n /\ (loaded.overflow => R.overflow)
  BY <1>5 DEF PutOf
<1>8. ConsoleTypeOK'
  <2>1. \A b \in Buffer : buf'[b] \in Rings(Space[b])
    BY <1>0, <1>n, <1>6, <1>7, Spaces, RingIs
  <2>2. current' \in Buffer /\ buf'[current'].size = Space[current']
    BY <1>1, <1>n, <1>6, <1>7, Spaces
  <2> QED
    BY <1>0, <1>1, <1>4, <1>6, <2>1, <2>2 DEF ConsoleTypeOK, Rings
<1>9. Places'
  <2>1. source = Nowhere => pending' = <<>>
    <3>1. source = Nowhere => pending = <<printed>>
      BY <1>0, <1>1 DEF Places
    <3>2. Tail(<<printed>>) = <<>>
      OBVIOUS
    <3> QED
      BY <1>1, <3>1, <3>2
  <2>2. buf'["cbmem"].size = CbmemSize /\ CbmemSize # 0
    BY <1>n, <1>6, <1>7
  <2> QED
    BY <1>0, <1>1, <1>6, <2>1, <2>2, Spaces DEF Places
<1>10. Loads'
  BY <1>1 DEF Loads
<1>11. Halves'
  <2> SUFFICES ASSUME source # Nowhere
               PROVE  \E X \in Seq(Symbol) : Copied(buf'[source]) = X \o Tail(pending)
    BY <1>1 DEF Halves
  <2>1. buf'[source] = buf[source]
    BY <1>0, <1>6 DEF Places
  <2>2. PICK X \in Seq(Symbol) : Copied(buf[source]) = X \o pending
    BY <1>0 DEF Halves
  <2>3. X \in Seq(Any) /\ pending \in Seq(Any)
    BY <1>4, SeqMonotonic, Symbols
  <2>4. (X \o <<x>>) \o Tail(pending) = X \o pending
    BY <1>1, <1>x, <2>3, Passes
  <2>5. X \o <<x>> \in Seq(Symbol)
    BY <1>4
  <2> QED
    BY <2>1, <2>2, <2>4, <2>5
<1>12. PICK v : v = Seen(r, loaded)
  OBVIOUS
<1>13. PICK V : V = Contents(v)
  OBVIOUS
<1>14. PICK T : T = Contents(R)
  OBVIOUS
<1>15. V \in Seq(Symbol) /\ T \in Seq(Symbol) /\ Takes(V, T, loaded.overflow, x)
  <2>1. R = Put(r, loaded, x) /\ loaded \in Positions(n)
    BY <1>1, <1>2, <1>n, <1>r, <1>x
  <2> QED
    BY <1>3, <1>4, <1>12, <1>13, <1>14, <2>1, PutIs, Zenon
<1>16. View = V /\ Log("cbmem")' = T /\ V \in Seq(Any)
  <2>1. View = V
    BY <1>r, <1>12, <1>13 DEF View
  <2>2. Log("cbmem")' = T
    BY <1>6, <1>7, <1>14 DEF Log
  <2> QED
    BY <1>15, <2>1, <2>2, SeqMonotonic, Symbols
<1>17. Ahead = pending /\ Ahead' = Tail(pending)
  <2>1. Waiting = <<>> /\ Waiting' = <<>>
    BY <1>1 DEF Waiting
  <2>2. \A Q \in Seq(Symbol) : <<>> \o Q = Q
    BY ConcatEmptySeq
  <2> QED
    BY <1>1, <1>4, <2>1, <2>2 DEF Ahead
<1> QED
  BY <1>1, <1>6, <1>7, <1>8, <1>9, <1>10, <1>11, <1>15, <1>16, <1>17, <1>x DEF Shape

(* A byte stored in an early buffer: the warning comes in front of what    *)
(* that holds, or the oldest byte behind the warning goes.                 *)
Drops(A, B) ==
    \/ B = A
    \/ \E p : Inserts(A, B, p, Warning) /\ p < Len(A)
    \/ \E p : Omits(A, B, p, 1) /\ p > 0 /\ A[p] = Warning /\ p + 1 < Len(A)

(* A byte in an early buffer: what is copied from it later is the same, or *)
(* has a new warning in front, or lacks the byte behind the warning.       *)
LEMMA DropsIs ==
    ASSUME NEW A \in Seq(Any), NEW C \in Seq(Any), NEW D \in Seq(Any), NEW x \in Any,
           NEW o \in BOOLEAN, NEW u \in BOOLEAN, o => u, Takes(C, D, o, x),
           NEW S, S = A \o ((IF o THEN <<Warning>> \o C ELSE C) \o <<x>>),
           NEW T, T = A \o (IF u THEN <<Warning>> \o D ELSE D)
    PROVE  Drops(S, T)
<1>w. Warning \in Any
  BY DEF Any, Symbol
<1>x. <<x>> \in Seq(Any) /\ <<Warning>> \in Seq(Any) /\ Len(<<x>>) = 1 /\ Len(<<Warning>>) = 1
  BY <1>w, Singles
<1>1. CASE ~o /\ ~u
  BY <1>1 DEF Takes, Drops
<1>2. CASE ~o /\ u
  <2>1. D = C \o <<x>>
    BY <1>2 DEF Takes
  <2>2. S = A \o D /\ T = A \o (<<Warning>> \o D)
    BY <1>2, <2>1
  <2>3. Inserts(S, T, Len(A), Warning)
    BY <1>w, <2>2, JoinInserts
  <2>4. Len(A) < Len(S)
    BY <1>x, <2>1, <2>2
  <2> QED
    BY <2>3, <2>4 DEF Drops
<1>3. CASE o /\ u
  <2>1. C # <<>> /\ D = Tail(C) \o <<x>>
    BY <1>3 DEF Takes
  <2>2. S = A \o ((<<Warning>> \o C) \o <<x>>) /\ T = A \o (<<Warning>> \o D)
    BY <1>3
  <2>3. Head(C) \in Any /\ Tail(C) \in Seq(Any) /\ <<Head(C)>> \o Tail(C) = C
    BY <2>1, HeadTailProperties
  <2>4. <<Head(C)>> \in Seq(Any) /\ Len(<<Head(C)>>) = 1
    BY <2>3, Singles
  <2>5. PICK P : P = A \o <<Warning>>
    OBVIOUS
  <2>6. P \in Seq(Any) /\ Len(P) = Len(A) + 1 /\ P[Len(P)] = Warning
    BY <1>x, <2>5
  <2>7. T = P \o D
    BY <1>x, <2>2, <2>5, Associates
  <2>8. S = P \o (<<Head(C)>> \o D)
    <3>1. (<<Warning>> \o C) \o <<x>> = <<Warning>> \o (C \o <<x>>)
      BY <1>x, Associates
    <3>2. C \o <<x>> = <<Head(C)>> \o (Tail(C) \o <<x>>)
      BY <1>x, <2>3, <2>4, Associates
    <3>3. PICK E \in Seq(Any) : E = C \o <<x>>
      <4>1. C \o <<x>> \in Seq(Any)
        BY <1>x
      <4> QED
        BY <4>1
    <3>4. S = P \o (C \o <<x>>)
      <4>1. S = A \o (<<Warning>> \o E)
        BY <2>2, <3>1, <3>3
      <4>2. (A \o <<Warning>>) \o E = A \o (<<Warning>> \o E)
        BY <1>x, Associates
      <4> QED
        BY <2>5, <3>3, <4>1, <4>2
    <3> QED
      BY <2>1, <3>2, <3>4
  <2>9. Omits(S, T, Len(P), Len(<<Head(C)>>)) /\ Len(S) = Len(P) + 1 + Len(D)
    <3>1. PICK H \in Seq(Any) : H = <<Head(C)>> /\ Len(H) = 1
      BY <2>4
    <3>2. S = P \o (H \o D) /\ T = P \o D
      BY <2>7, <2>8, <3>1
    <3>3. Omits(S, T, Len(P), Len(H)) /\ Len(S) = Len(P) + Len(H) + Len(D)
      <4>1. PICK X \in Seq(Any) : X = P
        BY <2>6
      <4>2. S = X \o (H \o D) /\ T = X \o D
        BY <3>2, <4>1
      <4>3. LosesPart(S, T, X, H, D)
        BY <4>2, JoinLoses, Zenon
      <4> QED
        BY <4>1, <4>3 DEF LosesPart
    <3> QED
      BY <3>1, <3>3
  <2>10. Len(D) > 0
    <3>1. Len(Tail(C) \o <<x>>) = Len(Tail(C)) + Len(<<x>>) /\ Len(Tail(C)) \in Nat
      BY <1>x, <2>3, JoinIs
    <3> QED
      BY <1>x, <2>1, <3>1
  <2>11. S[Len(P)] = Warning
    <3>1. <<Head(C)>> \o D \in Seq(Any)
      BY <2>4
    <3>2. PICK Q \in Seq(Any) : Q = <<Head(C)>> \o D
      BY <3>1
    <3>3. S = P \o Q /\ Len(P) \in 1..Len(P)
      <4>1. Len(P) \in Nat /\ Len(P) > 0
        <5>1. Len(A) \in Nat
          OBVIOUS
        <5> QED
          BY <2>6, <5>1
      <4>2. \A k \in Nat : k > 0 => k \in 1..k
        OBVIOUS
      <4>3. Len(P) \in 1..Len(P)
        BY <4>1, <4>2
      <4> QED
        BY <2>8, <3>2, <4>3
    <3>4. (P \o Q)[Len(P)] = P[Len(P)]
      BY <2>6, <3>3, JoinIs
    <3> QED
      BY <2>6, <3>3, <3>4
  <2>12. Len(P) > 0 /\ Len(P) + 1 < Len(S)
    BY <2>6, <2>9, <2>10
  <2> QED
    BY <2>4, <2>9, <2>11, <2>12 DEF Drops
<1> QED
  BY <1>1, <1>2, <1>3

(* A byte stored in an early buffer.                                       *)
LEMMA ShapeTxStoreEarly ==
    Shape /\ TxStore /\ current # "cbmem" =>
        /\ Shape' /\ Drops(Way, Way') /\ Ahead' = Waiting' /\ source = Nowhere
        /\ loaded # Nothing /\ pending # <<>> /\ buf'["cbmem"] = buf["cbmem"]
<1> SUFFICES ASSUME Shape, TxStore, current # "cbmem"
             PROVE  /\ Shape' /\ Drops(Way, Way') /\ Ahead' = Waiting'
                    /\ source = Nowhere
                    /\ loaded # Nothing /\ pending # <<>> /\ buf'["cbmem"] = buf["cbmem"]
  OBVIOUS
<1>0. ConsoleTypeOK /\ Places /\ Loads /\ Halves
  BY DEF Shape
<1>1. /\ UNCHANGED <<survives, stage, current, source, printed, smis, resets, lost, cut>>
      /\ loaded # Nothing /\ loaded' = Nothing /\ pending # <<>> /\ pending' = Tail(pending)
      /\ current # Nowhere /\ loaded \in Positions(Space[current])
      /\ loaded = Position(buf[current])
      /\ buf' = [buf EXCEPT ![current] = Put(buf[current], loaded, Head(pending))]
  BY <1>0 DEF TxStore, Loads
<1>c. current \in {"pre", "static"} /\ current \in Buffer
  BY <1>0, <1>1 DEF ConsoleTypeOK, Buffer
<1>s. source = Nowhere /\ pending = <<printed>>
  BY <1>0, <1>1 DEF Places
<1>2. PICK R : R = Put(buf[current], loaded, Head(pending))
  OBVIOUS
<1>n. PICK n \in Nat \ {0} : n = Space[current]
  BY <1>c, Spaces
<1>r. PICK r : r = buf[current]
  OBVIOUS
<1>3. r \in Rings(n) /\ r.size = n
  BY <1>0, <1>c, <1>n, <1>r, Spaces, RingIs DEF ConsoleTypeOK
<1>x. PICK x : x = Head(pending)
  OBVIOUS
<1>4. x \in Symbol /\ Tail(pending) = <<>> /\ pending \in Seq(Symbol) /\ pending = <<x>>
      /\ x \in Any
  BY <1>0, <1>1, <1>s, <1>x, Symbols DEF ConsoleTypeOK
<1>5. PutOf(R, r, loaded, x, n)
  BY <1>1, <1>2, <1>n, <1>r, <1>x, <1>3, <1>4, PutParts
<1>6. /\ DOMAIN buf' = Buffer /\ buf'[current] = R
      /\ \A b \in Buffer : b # current => buf'[b] = buf[b]
      /\ buf'["cbmem"] = buf["cbmem"]
  BY <1>0, <1>1, <1>c, <1>2, Spaces DEF ConsoleTypeOK
<1>7. R \in Rings(n) /\ R.size = n /\ (loaded.overflow => R.overflow)
  BY <1>5 DEF PutOf
<1>8. ConsoleTypeOK'
  <2>1. \A b \in Buffer : buf'[b] \in Rings(Space[b])
    BY <1>0, <1>n, <1>6, <1>7, RingIs
  <2>2. buf'[current'].size = Space[current']
    BY <1>1, <1>n, <1>6, <1>7
  <2>3. pending' \in Seq(Symbol)
    BY <1>1, <1>4
  <2> QED
    BY <1>0, <1>1, <1>6, <2>1, <2>2, <2>3 DEF ConsoleTypeOK, Rings
<1>9. Places'
  <2>1. buf'["pre"].size = buf["pre"].size /\ buf'["static"].size = buf["static"].size
    <3>1. \A b \in Buffer : buf'[b].size = buf[b].size
      BY <1>3, <1>6, <1>7, <1>r
    <3> QED
      BY <3>1, Spaces
  <2> QED
    BY <1>0, <1>1, <1>4, <1>6, <2>1 DEF Places
<1>10. Loads' /\ Halves'
  BY <1>1, <1>s DEF Loads, Halves
<1>11. PICK A : A = Log("cbmem")
  OBVIOUS
<1>12. A \in Seq(Any) /\ Log("cbmem")' = A
  <2>1. A \in Seq(Any)
    BY <1>11, AheadIs
  <2> QED
    BY <1>6, <1>11, <2>1 DEF Log
<1>13. PICK C : C = Contents(r)
  OBVIOUS
<1>14. PICK D : D = Contents(R)
  OBVIOUS
<1>15. C \in Seq(Any) /\ D \in Seq(Any) /\ Takes(C, D, loaded.overflow, x)
       /\ loaded.overflow = r.overflow
  <2>1. R = Put(r, loaded, x) /\ loaded \in Positions(n)
    BY <1>1, <1>2, <1>n, <1>r, <1>x
  <2>2. loaded.overflow = r.overflow /\ loaded.cursor = r.cursor
    BY <1>1, <1>r DEF Position
  <2>3. Seen(r, loaded) = r
    BY <1>3, <2>2 DEF Seen, Rings
  <2>4. C \in Seq(Symbol) /\ D \in Seq(Symbol) /\ Takes(C, D, loaded.overflow, x)
    BY <1>3, <1>4, <1>13, <1>14, <2>1, <2>3, PutIs, Zenon
  <2> QED
    BY <2>2, <2>4, SeqMonotonic, Symbols
<1>16. PICK o \in BOOLEAN : o = r.overflow
  BY <1>3 DEF Rings
<1>17. PICK u \in BOOLEAN : u = R.overflow
  BY <1>7 DEF Rings
<1>18. Waiting = IF o THEN <<Warning>> \o C ELSE C
  BY <1>c, <1>r, <1>13, <1>16 DEF Waiting, Copied
<1>19. Waiting' = IF u THEN <<Warning>> \o D ELSE D
  BY <1>1, <1>c, <1>6, <1>14, <1>17 DEF Waiting, Copied
<1>20. Ahead' = Waiting'
  <2>1. Waiting' \in Seq(Any)
    <3>1. Waiting' = Copied(R)
      BY <1>1, <1>c, <1>6 DEF Waiting
    <3>2. Copied(R) \in Seq(Any)
      BY <1>7, HoldIs
    <3> QED
      BY <3>1, <3>2
  <2>2. Waiting' \o <<>> = Waiting'
    BY <2>1, ConcatEmptySeq
  <2> QED
    BY <1>1, <1>4, <2>2 DEF Ahead
<1>21. PICK S : S = Way
  OBVIOUS
<1>22. PICK T : T = Way'
  OBVIOUS
<1>23. S = A \o ((IF o THEN <<Warning>> \o C ELSE C) \o <<x>>)
  BY <1>4, <1>11, <1>18, <1>21 DEF Way, Ahead
<1>24. T = A \o (IF u THEN <<Warning>> \o D ELSE D)
  BY <1>12, <1>19, <1>20, <1>22 DEF Way
<1>25. (o => u) /\ Takes(C, D, o, x)
  <2>1. loaded.overflow = o
    BY <1>15, <1>16
  <2> QED
    BY <1>7, <1>15, <1>17, <2>1
<1>26. Drops(S, T)
  BY <1>4, <1>12, <1>15, <1>23, <1>24, <1>25, DropsIs, Zenon
<1> QED
  BY <1>1, <1>s, <1>6, <1>8, <1>9, <1>10, <1>20, <1>21, <1>22, <1>26 DEF Shape

(* A byte printed in SMM comes behind everything in cbmem, and in front of *)
(* the byte the stage is storing.                                          *)
LEMMA ShapePrintInSmm ==
    Shape /\ PrintInSmm =>
        /\ Shape' /\ Ahead' = Ahead
        /\ Takes(Log("cbmem"), Log("cbmem")', buf["cbmem"].overflow, Smi)
        /\ loaded # Nothing =>
              /\ View \in Seq(Any) /\ View' \in Seq(Any)
              /\ \/ View' = View
                 \/ \E p : Blots(View, View', p) /\ \A k \in 1..p - 1 : View[k] \notin Nat
<1> SUFFICES ASSUME Shape, PrintInSmm
             PROVE  /\ Shape' /\ Ahead' = Ahead
                    /\ Takes(Log("cbmem"), Log("cbmem")', buf["cbmem"].overflow, Smi)
                    /\ loaded # Nothing =>
                          /\ View \in Seq(Any) /\ View' \in Seq(Any)
                          /\ \/ View' = View
                             \/ \E p : /\ Blots(View, View', p)
                                       /\ \A k \in 1..p - 1 : View[k] \notin Nat
  OBVIOUS
<1>0. ConsoleTypeOK /\ Places /\ Loads /\ Halves
  BY DEF Shape
<1>1. /\ UNCHANGED <<survives, stage, current, pending, loaded, source, printed, resets, lost,
                     cut>>
      /\ stage = "ramstage" /\ current = "cbmem" /\ smis < MaxSmi /\ smis' = smis + 1
      /\ buf' = [buf EXCEPT !["cbmem"] = Put(Ready("cbmem"), Position(Ready("cbmem")), Smi)]
  BY DEF PrintInSmm
<1>n. PICK n \in Nat \ {0} : n = CbmemSize
  BY Spaces
<1>r. PICK r : r = buf["cbmem"]
  OBVIOUS
<1>2. r \in Rings(n) /\ r.size = n /\ Ready("cbmem") = r /\ Log("cbmem") = Contents(r)
  BY <1>0, <1>1, <1>n, <1>r, Spaces, RingIs DEF Places
<1>a. PICK at : at = Position(r)
  OBVIOUS
<1>3. at \in Positions(n) /\ at.cursor = r.cursor /\ at.overflow = r.overflow
  BY <1>2, <1>a DEF Position, Positions, Rings
<1>4. PICK R : R = Put(r, at, Smi)
  OBVIOUS
<1>5. Smi \in Symbol
  BY DEF Symbol
<1>6. PutOf(R, r, at, Smi, n)
  BY <1>2, <1>3, <1>4, <1>5, PutParts
<1>7. /\ DOMAIN buf' = Buffer /\ buf'["cbmem"] = R
      /\ buf'["pre"] = buf["pre"] /\ buf'["static"] = buf["static"]
  BY <1>0, <1>1, <1>2, <1>a, <1>4, Spaces DEF ConsoleTypeOK
<1>d. PICK d \in 0..n - 1 : d = r.cursor
  BY <1>2 DEF Rings
<1>8. /\ R \in Rings(n) /\ R.size = n /\ R.body = [r.body EXCEPT ![d] = Smi]
      /\ R.cursor = IF d + 1 >= n THEN 0 ELSE d + 1
  BY <1>3, <1>6, <1>d DEF PutOf
<1>9. ConsoleTypeOK'
  <2>1. \A b \in Buffer : buf'[b] \in Rings(Space[b])
    BY <1>0, <1>n, <1>7, <1>8, Spaces, RingIs
  <2>2. current' \in Buffer /\ buf'[current'].size = Space[current']
    BY <1>1, <1>n, <1>7, <1>8, Spaces
  <2>3. smis' \in 0..MaxSmi
    BY <1>0, <1>1, BoundAssumption DEF ConsoleTypeOK
  <2> QED
    BY <1>0, <1>1, <1>7, <2>1, <2>2, <2>3 DEF ConsoleTypeOK, Rings
<1>10. Places'
  <2>1. buf'["cbmem"].size = CbmemSize /\ CbmemSize # 0
    BY <1>n, <1>7, <1>8
  <2> QED
    BY <1>0, <1>1, <1>7, <2>1, Spaces DEF Places
<1>11. Halves'
  BY <1>0, <1>1, <1>7 DEF Halves, Places
<1>12. Loads'
  <2> SUFFICES ASSUME loaded # Nothing
               PROVE  \A p \in Behind(loaded.cursor, R.cursor, n) : R.body[p] = Smi
    <3>1. loaded # Nothing => pending # <<>> /\ loaded \in Positions(Space[current])
      BY <1>0 DEF Loads
    <3> QED
      BY <1>1, <1>n, <1>7, <3>1, Spaces DEF Loads
  <2>1. /\ loaded \in Positions(n)
        /\ \A p \in Behind(loaded.cursor, d, n) : r.body[p] = Smi
    BY <1>0, <1>1, <1>n, <1>r, <1>d, Spaces DEF Loads
  <2>2. PICK c \in 0..n - 1 : c = loaded.cursor
    BY <2>1 DEF Positions
  <2>3. PICK b \in [0..n - 1 -> Symbol] : b = r.body
    BY <1>2 DEF Rings
  <2>4. PICK e \in 0..n - 1 : e = R.cursor /\ e = IF d + 1 >= n THEN 0 ELSE d + 1
    BY <1>8
  <2>5. \A p \in Behind(c, e, n) : p \in 0..n - 1 /\ (p = d \/ p \in Behind(c, d, n))
    <3> SUFFICES ASSUME NEW p \in Behind(c, e, n)
                 PROVE  p \in 0..n - 1 /\ (p = d \/ p \in Behind(c, d, n))
      OBVIOUS
    <3>1. CASE d + 1 >= n
      <4>1. e = 0 /\ d = n - 1
        BY <2>4, <3>1
      <4>2. p \in c..n - 1
        BY <4>1 DEF Behind
      <4> QED
        BY <4>1, <4>2 DEF Behind
    <3>2. CASE d + 1 < n
      <4>1. e = d + 1
        BY <2>4, <3>2
      <4>2. CASE c <= d
        <5>1. p \in c..d
          BY <4>1, <4>2 DEF Behind
        <5> QED
          BY <4>2, <5>1 DEF Behind
      <4>3. CASE c = d + 1
        <5>1. p \in c..e - 1
          BY <4>1, <4>3 DEF Behind
        <5> QED
          BY <4>1, <4>3, <5>1
      <4>4. CASE c > d + 1
        <5>1. p \in c..n - 1 \/ p \in 0..d
          BY <4>1, <4>4 DEF Behind
        <5> QED
          BY <4>4, <5>1 DEF Behind
      <4> QED
        BY <4>2, <4>3, <4>4
    <3> QED
      BY <3>1, <3>2
  <2>6. \A p \in Behind(c, d, n) : b[p] = Smi
    BY <2>1, <2>2, <2>3
  <2>7. \A p \in 0..n - 1 : R.body[p] = IF p = d THEN Smi ELSE b[p]
    BY <1>8, <2>3
  <2> QED
    BY <2>2, <2>4, <2>5, <2>6, <2>7
<1>13. Ahead' = Ahead
  BY <1>1 DEF Ahead, Waiting
<1>14. Takes(Log("cbmem"), Log("cbmem")', buf["cbmem"].overflow, Smi)
  <2>1. PICK C : C = Contents(r)
    OBVIOUS
  <2>2. PICK D : D = Contents(R)
    OBVIOUS
  <2>3. Seen(r, at) = r
    BY <1>2, <1>3 DEF Seen, Rings
  <2>4. Takes(C, D, at.overflow, Smi)
    BY <1>2, <1>3, <1>4, <1>5, <2>1, <2>2, <2>3, PutIs, Zenon
  <2>5. Log("cbmem")' = D
    BY <1>7, <1>8, <2>2 DEF Log
  <2> QED
    BY <1>2, <1>3, <1>r, <2>1, <2>4, <2>5
<1>15. ASSUME loaded # Nothing
       PROVE  /\ View \in Seq(Any) /\ View' \in Seq(Any)
              /\ \/ View' = View
                 \/ \E p : Blots(View, View', p) /\ \A k \in 1..p - 1 : View[k] \notin Nat
  <2>1. /\ loaded \in Positions(n)
        /\ \A p \in Behind(loaded.cursor, d, n) : r.body[p] = Smi
    BY <1>0, <1>1, <1>15, <1>n, <1>r, <1>d, Spaces DEF Loads
  <2>2. PICK v : v = Seen(r, loaded)
    OBVIOUS
  <2>3. PICK w : w = Seen(R, loaded)
    OBVIOUS
  <2>4. PICK V : V = Contents(v)
    OBVIOUS
  <2>5. PICK W : W = Contents(w)
    OBVIOUS
  <2>6. /\ V \in Seq(Any) /\ W \in Seq(Any)
        /\ V = W \/ \E p : Blots(V, W, p) /\ \A k \in 1..p - 1 : V[k] \notin Nat
    BY <1>2, <1>8, <1>d, <2>1, <2>2, <2>3, <2>4, <2>5, SeenBlots
  <2>7. View = V /\ View' = W
    BY <1>1, <1>r, <1>7, <2>2, <2>3, <2>4, <2>5 DEF View
  <2> QED
    BY <2>6, <2>7
<1> QED
  BY <1>9, <1>10, <1>11, <1>12, <1>13, <1>14, <1>15 DEF Shape

(* A reset leaves what is in cbmem, and of the early buffers only the one  *)
(* that survives it.                                                       *)
LEMMA ShapeReset ==
    Shape /\ Reset =>
        /\ Shape' /\ Log("cbmem")' = Log("cbmem") /\ buf'["cbmem"] = buf["cbmem"]
        /\ Ahead' = IF survives /\ (current = "pre" \/ source = "pre")
                    THEN Copied(buf["pre"]) ELSE <<>>
<1> SUFFICES ASSUME Shape, Reset
             PROVE  /\ Shape' /\ Log("cbmem")' = Log("cbmem")
                    /\ buf'["cbmem"] = buf["cbmem"]
                    /\ Ahead' = IF survives /\ (current = "pre" \/ source = "pre")
                                THEN Copied(buf["pre"]) ELSE <<>>
  OBVIOUS
<1>0. ConsoleTypeOK /\ Places /\ Loads /\ Halves
  BY DEF Shape
<1>1. /\ UNCHANGED <<survives, printed, smis>>
      /\ resets < MaxResets /\ resets' = resets + 1
      /\ cut' = (cut \/ (source = "pre" /\ survives))
      /\ stage' = "bootblock" /\ current' = "pre"
      /\ pending' = <<>> /\ loaded' = Nothing /\ source' = Nowhere
  BY DEF Reset
<1>2. /\ DOMAIN buf' = Buffer /\ buf'["cbmem"] = buf["cbmem"]
      /\ buf'["static"] = Invalid("static")
      /\ buf'["pre"] = IF survives THEN Ready("pre") ELSE Empty("pre")
  BY Spaces DEF Reset
<1>3. /\ buf'["pre"] \in Rings(PreSize) /\ buf'["pre"].size = PreSize
      /\ Copied(buf'["pre"]) = IF survives /\ (current = "pre" \/ source = "pre")
                               THEN Copied(buf["pre"]) ELSE <<>>
  <2>1. CASE ~survives
    BY <1>2, <2>1, Spaces, EmptyRing
  <2>2. CASE survives
    <3>1. buf'["pre"] = Ready("pre")
      BY <1>2, <2>2
    <3>2. /\ Ready("pre") \in Rings(PreSize) /\ Ready("pre").size = PreSize
          /\ Valid("pre") => Ready("pre") = buf["pre"]
          /\ ~Valid("pre") => Copied(Ready("pre")) = <<>>
          /\ Valid("pre") <=> buf["pre"].size = PreSize
      BY <1>0, Spaces, ReadyIs, RingIs
    <3>3. buf["pre"].size = PreSize <=> (current = "pre" \/ source = "pre")
      BY <1>0, Spaces DEF Places
    <3> QED
      BY <2>2, <3>1, <3>2, <3>3
  <2> QED
    BY <2>1, <2>2
<1>4. ConsoleTypeOK'
  <2>1. \A b \in Buffer : buf'[b] \in Rings(Space[b])
    BY <1>0, <1>2, <1>3, Spaces, RingIs, EmptyRing
  <2>2. current' \in Buffer /\ buf'[current'].size = Space[current']
    BY <1>1, <1>3, Spaces
  <2>3. resets' \in 0..MaxResets
    BY <1>0, <1>1, BoundAssumption DEF ConsoleTypeOK
  <2>4. lost' \subseteq Byte
    <3>1. lost \subseteq Byte /\ 1..printed \subseteq Byte
      BY <1>0, BoundAssumption DEF ConsoleTypeOK, Byte
    <3>2. \A q : BytesOf(q) \subseteq Byte
      BY DEF BytesOf
    <3>3. lost' \subseteq lost \cup BytesOf(pending) \cup 1..printed
      BY DEF Reset
    <3> QED
      BY <3>1, <3>2, <3>3
  <2>5. pending' \in Seq(Symbol) /\ cut' \in BOOLEAN /\ stage' \in Stage
    BY <1>0, <1>1 DEF ConsoleTypeOK, Stage
  <2> QED
    BY <1>0, <1>1, <1>2, <2>1, <2>2, <2>3, <2>4, <2>5 DEF ConsoleTypeOK, Rings
<1>5. Places'
  <2>1. buf'["static"].size = 0
    BY <1>2, Spaces, EmptyRing
  <2> QED
    BY <1>0, <1>1, <1>2, <1>3, <2>1, Spaces DEF Places
<1>6. Loads' /\ Halves'
  BY <1>1 DEF Loads, Halves
<1>7. Ahead' = Copied(buf'["pre"])
  <2>1. PICK n \in Nat \ {0} : n = PreSize
    BY Spaces
  <2>2. PICK r : r = buf'["pre"]
    OBVIOUS
  <2>3. Copied(r) \in Seq(Any)
    BY <1>3, <2>1, <2>2, HoldIs
  <2>4. Waiting' = Copied(r)
    BY <1>1, <2>2 DEF Waiting
  <2>5. Copied(r) \o <<>> = Copied(r)
    BY <2>3, ConcatEmptySeq
  <2> QED
    BY <1>1, <2>2, <2>4, <2>5 DEF Ahead
<1>8. Log("cbmem")' = Log("cbmem")
  BY <1>2 DEF Log
<1> QED
  BY <1>2, <1>3, <1>4, <1>5, <1>6, <1>7, <1>8 DEF Shape

(* Every step keeps the shape.                                             *)
LEMMA ShapeNext == Shape /\ [ConsoleNext]_console_vars => Shape'
<1> SUFFICES ASSUME Shape, [ConsoleNext]_console_vars PROVE Shape'
  OBVIOUS
<1>1. CASE PrintByte
  BY <1>1, ShapePrintByte
<1>2. CASE TxLoad
  BY <1>2, ShapeTxLoad
<1>3. CASE TxStore
  BY <1>3, ShapeTxStoreCbmem, ShapeTxStoreEarly
<1>4. CASE CbmemReady
  BY <1>4, ShapeCbmemReady
<1>5. CASE CbmemFull
  BY <1>5, ShapeCbmemFull
<1>6. CASE CopyDone
  BY <1>6, ShapeCopyDone
<1>7. CASE StartRomstage
  BY <1>7, ShapeStartRomstage
<1>8. CASE StartRamstage
  BY <1>8, ShapeStartRamstage
<1>9. CASE PrintInSmm
  BY <1>9, ShapePrintInSmm
<1>10. CASE Reset
  BY <1>10, ShapeReset
<1>11. CASE UNCHANGED console_vars
  <2>1. ConsoleTypeOK'
    BY <1>11 DEF Shape, ConsoleTypeOK, console_vars
  <2>2. Places'
    BY <1>11 DEF Shape, Places, console_vars
  <2>3. Loads' /\ Halves'
    BY <1>11 DEF Shape, Loads, Halves, console_vars
  <2> QED
    BY <2>1, <2>2, <2>3 DEF Shape
<1> QED
  BY <1>1, <1>2, <1>3, <1>4, <1>5, <1>6, <1>7, <1>8, <1>9, <1>10, <1>11 DEF ConsoleNext

-----------------------------------------------------------------------------
(* The order of everything that is on its way to cbmem, the next byte      *)
(* behind it.  While a byte is stored there, also the order of what will   *)
(* be in front of it.                                                      *)
Orders ==
    cut \/ /\ Orderly(Append(Way, printed + 1), lost)
           /\ loaded # Nothing /\ current = "cbmem" =>
                 Orderly(Append(View \o Ahead, printed + 1), lost)

(* One symbol is in order.                                                 *)
LEMMA OrderSingle ==
    ASSUME NEW x, NEW L
    PROVE  /\ Orderly(Append(<<>>, x), L)
           /\ \A n \in Nat : x = n + 1 /\ 1..n \subseteq L => Covered(Append(<<>>, x), L)
<1>1. Append(<<>>, x) = <<x>> /\ DOMAIN <<x>> = 1..1 /\ <<x>>[1] = x
  OBVIOUS
<1>2. Orderly(<<x>>, L)
  BY <1>1 DEF Orderly
<1>3. ASSUME NEW n \in Nat, x = n + 1, 1..n \subseteq L PROVE Covered(<<x>>, L)
  <2>1. x - 1 = n
    BY <1>3
  <2> QED
    BY <1>1, <1>3, <2>1 DEF Covered
<1> QED
  BY <1>1, <1>2, <1>3

(* A and the numbers up to m: one more.                                    *)
LEMMA EndExtends ==
    ASSUME NEW A \in Seq(Any), NEW m \in Nat, NEW L
    PROVE  /\ Orderly(Append(A, m), L) => Orderly(Append(Append(A, m), m + 1), L)
           /\ Covered(Append(A, m), L) => Covered(Append(Append(A, m), m + 1), L)
<1>1. m \in Any /\ m + 1 \in Any
  BY Symbols
<1>2. PICK S \in Seq(Any) : S = Append(A, m)
  <2>1. Append(A, m) \in Seq(Any)
    BY <1>1
  <2> QED
    BY <2>1
<1>3. PICK T \in Seq(Any) : T = Append(S, m + 1)
  <2>1. Append(S, m + 1) \in Seq(Any)
    BY <1>1
  <2> QED
    BY <2>1
<1>4. Len(S) > 0 /\ S[Len(S)] = m
  BY <1>2
<1>5. Extends(S, T)
  BY <1>3, <1>4 DEF Extends
<1> QED
  BY <1>2, <1>3, <1>5, OrderExtends, CoverExtends

(* The byte that was read goes from what is ahead to what is there.        *)
Stored(S, U, full) ==
    /\ S \in Seq(Any) /\ U \in Seq(Any) /\ U # <<>>
    /\ ~full => U = S
    /\ U = S \/ Shifts(S, U)

(* A byte stored in cbmem: nothing changes, or the oldest symbol goes.     *)
LEMMA StoreShifts ==
    ASSUME NEW V \in Seq(Any), NEW P \in Seq(Any), P # <<>>, NEW o \in BOOLEAN,
           NEW T, Takes(V, T, o, Head(P)), NEW S, S = V \o P, NEW U, U = T \o Tail(P)
    PROVE  Stored(S, U, o)
<1>1. Head(P) \in Any /\ Tail(P) \in Seq(Any) /\ <<Head(P)>> \in Seq(Any)
      /\ Len(<<Head(P)>>) = 1
  BY Passes, Singles
<1>2. CASE ~o
  <2>1. T = V \o <<Head(P)>>
    BY <1>2 DEF Takes
  <2>2. U = S
    BY <2>1, Passes
  <2>3. T \in Seq(Any) /\ Len(T) = Len(V) + 1
    BY <1>1, <2>1, JoinIs
  <2>4. Len(U) = Len(T) + Len(Tail(P)) /\ U \in Seq(Any)
    BY <1>1, <2>3, JoinIs
  <2>5. U # <<>>
    BY <2>3, <2>4, <1>1
  <2> QED
    BY <1>2, <2>2, <2>3, <2>4, <2>5 DEF Stored
<1>3. CASE o
  <2>1. V # <<>> /\ T = Tail(V) \o <<Head(P)>>
    BY <1>3 DEF Takes
  <2>2. PICK W \in Seq(Any) : W = Tail(V)
    <3>1. Tail(V) \in Seq(Any)
      BY <2>1
    <3> QED
      BY <3>1
  <2>3. T \in Seq(Any) /\ Len(T) = Len(W) + 1
    BY <1>1, <2>1, <2>2, JoinIs
  <2>4. U = W \o P
    BY <2>1, <2>2, Passes
  <2>5. S \in Seq(Any) /\ U \in Seq(Any) /\ Shifts(S, U)
    BY <2>1, <2>2, <2>4, JoinShifts
  <2>6. Len(U) = Len(T) + Len(Tail(P))
    BY <1>1, <2>3, JoinIs
  <2>7. U # <<>>
    BY <2>3, <2>6, <1>1
  <2> QED
    BY <1>3, <2>3, <2>5, <2>7 DEF Stored
<1> QED
  BY <1>2, <1>3

(* A byte printed in SMM in front of what is ahead.                        *)
LEMMA SmmOrders ==
    ASSUME NEW C \in Seq(Any), NEW D, NEW A \in Seq(Any), NEW o \in BOOLEAN,
           Takes(C, D, o, Smi), NEW m \in Nat, NEW L, Orderly(Append(C \o A, m), L)
    PROVE  Orderly(Append(D \o A, m), L)
<1>m. m \in Any /\ Smi \in Any /\ Smi \notin Nat
  BY Symbols DEF Any, Symbol
<1>s. <<Smi>> \in Seq(Any) /\ <<m>> \in Seq(Any) /\ Len(<<Smi>>) = 1
  BY <1>m, Singles
<1>1. PICK B \in Seq(Any) : B = A \o <<m>>
  <2>1. A \o <<m>> \in Seq(Any)
    BY <1>s
  <2> QED
    BY <2>1
<1>2. \A Q \in Seq(Any) : Append(Q \o A, m) = Q \o B
  <2> SUFFICES ASSUME NEW Q \in Seq(Any) PROVE Append(Q \o A, m) = Q \o B
    OBVIOUS
  <2>1. PICK R \in Seq(Any) : R = Q \o A
    BY JoinIs
  <2>2. Append(R, m) = R \o <<m>>
    BY <1>m, AppendJoins
  <2>3. (Q \o A) \o <<m>> = Q \o (A \o <<m>>)
    BY <1>s, Associates, SMTT(30)
  <2> QED
    BY <1>1, <2>1, <2>2, <2>3
<1>3. PICK S : S = C \o B
  OBVIOUS
<1>4. Orderly(S, L)
  BY <1>2, <1>3
<1>5. PICK E \in Seq(Any) : E = C \o <<Smi>> /\ Len(E) = Len(C) + 1
  <2>1. C \o <<Smi>> \in Seq(Any) /\ Len(C \o <<Smi>>) = Len(C) + 1
    BY <1>s, JoinIs
  <2> QED
    BY <2>1
<1>6. PICK T : T = E \o B
  OBVIOUS
<1>7. T = C \o (<<Smi>> \o B)
  BY <1>s, <1>5, <1>6, Associates
<1>8. S \in Seq(Any) /\ T \in Seq(Any) /\ Inserts(S, T, Len(C), Smi)
  BY <1>m, <1>3, <1>7, JoinInserts
<1>9. Orderly(T, L)
  BY <1>m, <1>4, <1>8, OrderInserts
<1>10. CASE ~o
  <2>1. D = E
    BY <1>5, <1>10 DEF Takes
  <2> QED
    BY <1>2, <1>6, <1>9, <2>1
<1>11. CASE o
  <2>1. C # <<>> /\ D = Tail(C) \o <<Smi>>
    BY <1>11 DEF Takes
  <2>2. E # <<>>
    BY <1>5
  <2>3. D = Tail(E)
    <3>1. E = Append(C, Smi)
      BY <1>m, <1>5, AppendJoins
    <3>2. Tail(Append(C, Smi)) = Append(Tail(C), Smi)
      BY <1>m, <2>1, HeadTailAppend
    <3>3. Append(Tail(C), Smi) = Tail(C) \o <<Smi>>
      <4>1. Tail(C) \in Seq(Any)
        BY <2>1
      <4> QED
        BY <1>m, <4>1, AppendJoins
    <3> QED
      BY <2>1, <3>1, <3>2, <3>3
  <2>4. D \in Seq(Any)
    BY <2>2, <2>3
  <2>5. PICK U : U = D \o B
    OBVIOUS
  <2>6. U \in Seq(Any) /\ Shifts(T, U)
    BY <1>6, <2>2, <2>3, <2>5, JoinShifts
  <2>7. Orderly(U, L)
    BY <1>8, <1>9, <2>6, OrderShifts
  <2> QED
    BY <1>2, <2>4, <2>5, <2>7
<1> QED
  BY <1>10, <1>11

(* A byte of SMM over a symbol that no byte precedes.                      *)
LEMMA BlotOrders ==
    ASSUME NEW C \in Seq(Any), NEW D \in Seq(Any), NEW A \in Seq(Any), NEW p, Blots(C, D, p),
           \A k \in 1..p - 1 : C[k] \notin Nat,
           NEW m \in Nat, NEW L, Orderly(Append(C \o A, m), L)
    PROVE  Orderly(Append(D \o A, m), L)
<1>1. PICK S : S = C \o A
  OBVIOUS
<1>2. PICK T : T = D \o A
  OBVIOUS
<1>3. S \in Seq(Any) /\ T \in Seq(Any) /\ Blots(S, T, p) /\ Agree(S, C, p)
  BY <1>1, <1>2, JoinBlots, ZenonT(30)
<1>4. Blots(Append(S, m), Append(T, m), p)
  BY <1>3, EndBlots
<1>5. \A k \in 1..p - 1 : Append(S, m)[k] \notin Nat
  <2>1. p \in 1..Len(S)
    BY <1>3 DEF Blots
  <2>2. \A k \in 1..p - 1 : k \in 1..p /\ k \in 1..Len(S)
    BY <2>1
  <2>3. \A k \in 1..Len(S) : Append(S, m)[k] = S[k]
    BY <1>3
  <2> QED
    BY <1>3, <2>2, <2>3 DEF Agree
<1>6. Append(S, m) \in Seq(Any) /\ Append(T, m) \in Seq(Any)
  BY <1>3, Symbols
<1> QED
  BY <1>1, <1>2, <1>4, <1>5, <1>6, OrderBlots

(* What happens in an early buffer keeps order, cover and end.             *)
LEMMA DropsKeep ==
    ASSUME NEW A \in Seq(Any), NEW B \in Seq(Any), Drops(A, B), NEW m \in Nat, NEW L
    PROVE  /\ Orderly(Append(A, m + 1), L) => Orderly(Append(B, m + 1), L)
           /\ Covered(Append(A, m + 1), L) => Covered(Append(B, m + 1), L)
           /\ Below(A, m) => Below(B, m)
           /\ Once(A, m) => Once(B, m)
           /\ Ends(A, m, L) => Ends(B, m, L)
<1>m. PICK k \in Nat : k = m + 1
  OBVIOUS
<1>1. k \in Any /\ Append(A, k) \in Seq(Any) /\ Append(B, k) \in Seq(Any) /\ Warning \notin Nat
  BY Symbols
<1>2. CASE B = A
  BY <1>2
<1>3. CASE \E p : Inserts(A, B, p, Warning) /\ p < Len(A)
  <2>1. PICK p : Inserts(A, B, p, Warning) /\ p < Len(A)
    BY <1>3
  <2>2. Inserts(Append(A, k), Append(B, k), p, Warning)
    BY <1>1, <2>1, EndInserts
  <2>3. /\ Below(A, m) => Below(B, m)
        /\ Once(A, m) => Once(B, m)
        /\ Ends(A, m, L) => Ends(B, m, L)
    BY <1>1, <2>1, EndInserts
  <2> QED
    BY <1>m, <1>1, <2>2, <2>3, OrderInserts, CoverInserts
<1>4. CASE \E p : Omits(A, B, p, 1) /\ p > 0 /\ A[p] = Warning /\ p + 1 < Len(A)
  <2>1. PICK p : Omits(A, B, p, 1) /\ p > 0 /\ A[p] = Warning /\ p + 1 < Len(A)
    BY <1>4
  <2>2. Omits(Append(A, k), Append(B, k), p, 1)
    BY <2>1, EndOmits
  <2>3. /\ Below(A, m) => Below(B, m)
        /\ Once(A, m) => Once(B, m)
        /\ Ends(A, m, L) => Ends(B, m, L)
    BY <2>1, EndOmits
  <2>4. Append(A, k)[p] = Warning
    <3>1. p \in 1..Len(A)
      BY <2>1 DEF Omits
    <3> QED
      BY <2>1, <3>1
  <2>5. Orderly(Append(A, k), L) => Orderly(Append(B, k), L)
    BY <1>1, <2>1, <2>2, <2>4, OrderOmits
  <2>6. Covered(Append(A, k), L) => Covered(Append(B, k), L)
    BY <1>1, <2>1, <2>2, <2>4, CoverOmits
  <2> QED
    BY <1>m, <2>3, <2>5, <2>6
<1> QED
  BY <1>2, <1>3, <1>4 DEF Drops

(* What a step of a stage does to what is on its way.                      *)
LEMMA WayPrintByte ==
    ASSUME Shape, PrintByte
    PROVE  /\ current # Nowhere => Way' = Append(Way, printed + 1)
           /\ current = Nowhere => Way' = <<>> /\ Way = <<>> /\ Ahead' = <<>>
<1>0. ConsoleTypeOK /\ Places /\ Loads
  BY DEF Shape
<1>1. /\ UNCHANGED <<buf, current>> /\ pending = <<>>
      /\ \/ current = Nowhere /\ pending' = <<>>
         \/ current # Nowhere /\ pending' = <<printed + 1>>
  BY DEF PrintByte, Idle
<1>2. /\ Waiting \in Seq(Any) /\ Log("cbmem") \in Seq(Any) /\ printed + 1 \in Any
      /\ Way \in Seq(Any)
  BY AheadIs
<1>3. Waiting' = Waiting /\ Log("cbmem")' = Log("cbmem")
  BY <1>1 DEF Waiting, Log
<1>4. Way = Log("cbmem") \o Waiting
  <2>1. Waiting \o <<>> = Waiting
    BY <1>2, ConcatEmptySeq
  <2> QED
    BY <1>1, <2>1 DEF Way, Ahead
<1>5. CASE current # Nowhere
  <2>1. <<printed + 1>> \in Seq(Any)
    BY <1>2, Singles
  <2>2. Way' = Log("cbmem") \o (Waiting \o <<printed + 1>>)
    BY <1>1, <1>3, <1>5 DEF Way, Ahead
  <2>3. Way' = Way \o <<printed + 1>>
    BY <1>2, <1>4, <2>1, <2>2, Associates
  <2> QED
    BY <1>2, <1>5, <2>3, AppendJoins
<1>6. CASE current = Nowhere
  <2>1. Log("cbmem") = <<>> /\ Waiting = <<>>
    BY <1>0, <1>6 DEF Places, Log, Waiting, Nowhere
  <2>2. Ahead' = <<>> /\ Way' = <<>> /\ Way = <<>>
    BY <1>1, <1>3, <1>4, <1>6, <2>1 DEF Way, Ahead
  <2> QED
    BY <1>6, <2>2
<1> QED
  BY <1>5, <1>6

(* When the position is read, what is seen from it is the log.             *)
LEMMA ViewTxLoad ==
    ASSUME Shape, TxLoad
    PROVE  Way' = Way /\ (current = "cbmem" => (View \o Ahead)' = Way)
<1>0. ConsoleTypeOK /\ Places
  BY DEF Shape
<1>1. /\ UNCHANGED <<buf, current, pending>> /\ loaded' = Position(buf[current])
  BY DEF TxLoad
<1>2. Way' = Way /\ Ahead' = Ahead
  BY <1>1 DEF Way, Ahead, Waiting, Log
<1>3. ASSUME current = "cbmem" PROVE (View \o Ahead)' = Way
  <2>1. PICK r : r = buf["cbmem"]
    OBVIOUS
  <2>2. r \in Rings(CbmemSize) /\ Log("cbmem") = Contents(r)
    BY <1>0, <1>3, <2>1, Spaces, RingIs DEF Places
  <2>3. Seen(r, Position(r)) = r
    BY <2>2 DEF Seen, Position, Rings
  <2>4. View' = Contents(r)
    BY <1>1, <1>3, <2>1, <2>3 DEF View
  <2> QED
    BY <1>2, <2>2, <2>4 DEF Way
<1> QED
  BY <1>2, <1>3

(* The order holds in the beginning; then, step by step, it is kept.       *)
LEMMA OrdersInit == ConsoleInit => Orders
<1> SUFFICES ASSUME ConsoleInit PROVE Orders
  OBVIOUS
<1>0. Shape
  BY ShapeInit
<1>1. Way = <<>>
  <2>1. buf["pre"] = Empty("pre") /\ buf["cbmem"].size = 0 /\ current = "pre" /\ pending = <<>>
    BY Spaces, EmptyRing DEF ConsoleInit
  <2>2. Waiting = <<>> /\ Log("cbmem") = <<>>
    BY <2>1, Spaces, EmptyRing DEF Waiting, Log
  <2> QED
    BY <2>1, <2>2 DEF Way, Ahead
<1>2. loaded = Nothing
  BY DEF ConsoleInit
<1> QED
  BY <1>1, <1>2, OrderSingle DEF Orders

LEMMA OrdersPrintByte == Shape /\ Orders /\ PrintByte => Orders'
<1> SUFFICES ASSUME Shape, Orders, PrintByte, ~cut'
             PROVE  Orders'
  BY DEF Orders
<1>1. /\ loaded' = Nothing /\ cut' = cut /\ printed' = printed + 1 /\ printed \in Nat
      /\ current # Nowhere => lost' = lost
  BY DEF PrintByte, Idle, Shape, Loads, ConsoleTypeOK
<1>2. Way \in Seq(Any)
  BY AheadIs
<1>3. CASE current # Nowhere
  <2>1. Way' = Append(Way, printed + 1)
    BY <1>3, WayPrintByte
  <2>2. Orderly(Append(Way, printed + 1), lost)
    BY <1>1 DEF Orders
  <2>3. PICK m \in Nat : m = printed + 1
    BY <1>1
  <2>4. Orderly(Append(Append(Way, m), m + 1), lost)
    BY <1>2, <2>2, <2>3, EndExtends
  <2> QED
    BY <1>1, <1>3, <2>1, <2>3, <2>4 DEF Orders
<1>4. CASE current = Nowhere
  <2>1. Way' = <<>>
    BY <1>4, WayPrintByte
  <2>2. Orderly(Append(<<>>, printed' + 1), lost')
    BY OrderSingle
  <2> QED
    BY <1>1, <2>1, <2>2 DEF Orders
<1> QED
  BY <1>3, <1>4

LEMMA OrdersSame ==
    ASSUME Orders, Way' = Way, printed' = printed, lost' = lost, cut' = cut,
           loaded' = Nothing
    PROVE  Orders'
<1>1. ~cut => Orderly(Append(Way, printed + 1), lost)
  BY DEF Orders
<1>2. ~cut' => Orderly(Append(Way', printed' + 1), lost')
  BY <1>1
<1> QED
  BY <1>2 DEF Orders

LEMMA OrdersTxLoad == Shape /\ Orders /\ TxLoad => Orders'
<1> SUFFICES ASSUME Shape, Orders, TxLoad
             PROVE  Orders'
  OBVIOUS
<1>1. printed' = printed /\ lost' = lost /\ cut' = cut /\ current' = current
  BY DEF TxLoad
<1>2. Way' = Way /\ (current = "cbmem" => (View \o Ahead)' = Way)
  BY ViewTxLoad
<1>3. ~cut => Orderly(Append(Way, printed + 1), lost)
  BY DEF Orders
<1>4. ~cut' => Orderly(Append(Way', printed' + 1), lost')
  BY <1>1, <1>2, <1>3
<1>5. ~cut' /\ current' = "cbmem" => Orderly(Append((View \o Ahead)', printed' + 1), lost')
  BY <1>1, <1>2, <1>3
<1> QED
  BY <1>4, <1>5 DEF Orders

LEMMA OrdersTxStore == Shape /\ Orders /\ TxStore => Orders'
<1> SUFFICES ASSUME Shape, Orders, TxStore, ~cut'
             PROVE  Orders'
  BY DEF Orders
<1>1. printed' = printed /\ lost' = lost /\ cut' = cut /\ current' = current /\ loaded' = Nothing
  BY DEF TxStore
<1>m. printed \in Nat
  BY AheadIs
<1>2. CASE current = "cbmem"
  <2>1. /\ pending # <<>> /\ loaded # Nothing
        /\ Ahead = pending /\ Ahead' = Tail(pending)
        /\ View \in Seq(Any) /\ Takes(View, Log("cbmem")', loaded.overflow, Head(pending))
    BY <1>2, ShapeTxStoreCbmem
  <2>2. PICK V \in Seq(Any) : V = View
    BY <2>1
  <2>3. PICK P \in Seq(Any) : P = pending /\ P # <<>>
    BY <2>1, AheadIs
  <2>4. PICK o \in BOOLEAN : o = loaded.overflow
    <3>1. loaded \in Positions(CbmemSize)
      BY <1>2, <2>1, Spaces DEF Shape, Loads
    <3> QED
      BY <3>1 DEF Positions
  <2>5. PICK T : T = Log("cbmem")'
    OBVIOUS
  <2>6. PICK S : S = V \o P
    OBVIOUS
  <2>7. PICK U : U = T \o Tail(P)
    OBVIOUS
  <2>8. Takes(V, T, o, Head(P))
    BY <2>1, <2>2, <2>3, <2>4, <2>5
  <2>9. S \in Seq(Any) /\ U \in Seq(Any) /\ (U = S \/ Shifts(S, U))
    <3>1. Stored(S, U, o)
      BY <2>3, <2>6, <2>7, <2>8, StoreShifts, Zenon
    <3> QED
      BY <3>1 DEF Stored
  <2>10. Way' = U /\ View \o Ahead = S
    BY <2>1, <2>2, <2>3, <2>5, <2>6, <2>7 DEF Way
  <2>11. PICK m \in Nat : m = printed + 1
    BY <1>m
  <2>12. Orderly(Append(S, m), lost)
    BY <1>1, <1>2, <2>1, <2>10, <2>11 DEF Orders
  <2>13. Orderly(Append(U, m), lost)
    <3>1. CASE U = S
      BY <2>12, <3>1
    <3>2. CASE Shifts(S, U)
      <4>1. Shifts(Append(S, m), Append(U, m))
        BY <2>9, <3>2, EndShifts
      <4>2. Append(S, m) \in Seq(Any) /\ Append(U, m) \in Seq(Any)
        BY <2>9, Symbols
      <4> QED
        BY <2>12, <4>1, <4>2, OrderShifts
    <3> QED
      BY <2>9, <3>1, <3>2
  <2> QED
    BY <1>1, <2>10, <2>11, <2>13 DEF Orders
<1>3. CASE current # "cbmem"
  <2>1. Drops(Way, Way') /\ Shape'
    BY <1>3, ShapeTxStoreEarly
  <2>2. Way \in Seq(Any)
    BY AheadIs
  <2>3. Way' \in Seq(Any)
    <3>1. Shape'
      BY <2>1
    <3>2. (Way \in Seq(Any))'
      BY <3>1, WayIs, PTL
    <3> QED
      BY <3>2
  <2>4. PICK A \in Seq(Any) : A = Way
    BY <2>2
  <2>5. PICK B \in Seq(Any) : B = Way'
    BY <2>3
  <2>6. Orderly(Append(A, printed + 1), lost)
    BY <1>1, <2>4 DEF Orders
  <2>7. Orderly(Append(B, printed + 1), lost)
    BY <1>m, <2>1, <2>4, <2>5, <2>6, DropsKeep
  <2> QED
    BY <1>1, <2>5, <2>7 DEF Orders
<1> QED
  BY <1>2, <1>3

LEMMA OrdersPrintInSmm == Shape /\ Orders /\ PrintInSmm => Orders'
<1> SUFFICES ASSUME Shape, Orders, PrintInSmm, ~cut'
             PROVE  Orders'
  BY DEF Orders
<1>1. printed' = printed /\ lost' = lost /\ cut' = cut /\ current' = current /\ loaded' = loaded
      /\ current = "cbmem"
  BY DEF PrintInSmm
<1>2. /\ Shape' /\ Ahead' = Ahead
      /\ Takes(Log("cbmem"), Log("cbmem")', buf["cbmem"].overflow, Smi)
      /\ loaded # Nothing =>
            /\ View \in Seq(Any) /\ View' \in Seq(Any)
            /\ \/ View' = View
               \/ \E p : Blots(View, View', p) /\ \A k \in 1..p - 1 : View[k] \notin Nat
  BY ShapePrintInSmm
<1>3. Log("cbmem") \in Seq(Any) /\ Ahead \in Seq(Any) /\ printed \in Nat
  BY AheadIs
<1>4. PICK C \in Seq(Any) : C = Log("cbmem")
  BY <1>3
<1>5. PICK A \in Seq(Any) : A = Ahead
  BY <1>3
<1>6. PICK D : D = Log("cbmem")'
  OBVIOUS
<1>7. PICK o \in BOOLEAN : o = buf["cbmem"].overflow
  <2>1. buf["cbmem"] \in Rings(CbmemSize)
    BY Spaces, RingIs DEF Shape
  <2> QED
    BY <2>1 DEF Rings
<1>8. PICK m \in Nat : m = printed + 1
  BY <1>3
<1>9. Takes(C, D, o, Smi) /\ Orderly(Append(C \o A, m), lost)
  BY <1>1, <1>2, <1>4, <1>5, <1>6, <1>7, <1>8 DEF Orders, Way
<1>10. Orderly(Append(D \o A, m), lost)
  BY <1>9, SmmOrders
<1>11. Way' = D \o A
  BY <1>2, <1>5, <1>6 DEF Way
<1>12. ASSUME loaded # Nothing PROVE Orderly(Append(View' \o Ahead', m), lost)
  <2>1. PICK V \in Seq(Any) : V = View
    BY <1>2, <1>12
  <2>2. PICK W \in Seq(Any) : W = View'
    BY <1>2, <1>12
  <2>3. Orderly(Append(V \o A, m), lost)
    BY <1>1, <1>5, <1>8, <1>12, <2>1 DEF Orders
  <2>4. CASE W = V
    BY <1>2, <1>5, <2>2, <2>3, <2>4
  <2>5. CASE \E p : Blots(V, W, p) /\ \A k \in 1..p - 1 : V[k] \notin Nat
    <3>1. PICK p : Blots(V, W, p) /\ \A k \in 1..p - 1 : V[k] \notin Nat
      BY <2>5
    <3>2. Orderly(Append(W \o A, m), lost)
      BY <2>3, <3>1, BlotOrders
    <3> QED
      BY <1>2, <1>5, <2>2, <3>2
  <2> QED
    BY <1>2, <1>12, <2>1, <2>2, <2>4, <2>5
<1> QED
  BY <1>1, <1>8, <1>10, <1>11, <1>12 DEF Orders

-----------------------------------------------------------------------------
(* A reset.  Either it takes at most the one byte that was being stored,   *)
(* or everything that was not in cbmem, and what is lost then is counted.  *)
LEMMA PartLost ==
    ASSUME NEW A \in Seq(Any), NEW n \in Nat, NEW P, P = <<>> \/ P = <<n>>,
           NEW m \in Nat, NEW L, NEW M, L \subseteq M, P = <<n>> => n \in M,
           NEW B, B = A \o P
    PROVE  /\ Orderly(Append(B, m), L) => Orderly(Append(A, m), M)
           /\ Covered(Append(B, m), L) => Covered(Append(A, m), M)
           /\ \A k : Below(B, k) => Below(A, k)
<1>a. m \in Any /\ n \in Any
  BY Symbols
<1>s. P \in Seq(Any) /\ <<m>> \in Seq(Any) /\ m \in Any /\ n \in Any
  <2>1. <<m>> \in Seq(Any) /\ <<n>> \in Seq(Any) /\ <<>> \in Seq(Any)
    BY <1>a
  <2> QED
    BY <1>a, <2>1
<1>b. B \in Seq(Any)
  BY <1>s, JoinIs
<1>1. PICK S : S = Append(B, m)
  OBVIOUS
<1>2. PICK T : T = Append(A, m)
  OBVIOUS
<1>3. PICK Q \in Seq(Any) : Q = <<m>>
  BY <1>s
<1>4. S = A \o (P \o Q) /\ T = A \o Q
  <2>1. S = B \o <<m>> /\ T = A \o <<m>>
    BY <1>s, <1>b, <1>1, <1>2, AppendJoins
  <2>2. (A \o P) \o Q = A \o (P \o Q)
    BY <1>s, Associates
  <2> QED
    BY <1>3, <2>1, <2>2
<1>5. LosesPart(S, T, A, P, Q)
  BY <1>s, <1>4, JoinLoses, Zenon
<1>6. S \in Seq(Any) /\ T \in Seq(Any) /\ Omits(S, T, Len(A), Len(P))
      /\ \A i \in 1..Len(P) : S[Len(A) + i] = P[i]
  BY <1>5 DEF LosesPart
<1>7. PICK a \in Nat : a = Len(A)
  OBVIOUS
<1>8. \A k \in a + 1..a + Len(P) : S[k] # Warning /\ (S[k] \in Nat => S[k] \in M)
  <2>1. CASE P = <<>>
    <3>1. Len(P) = 0
      BY <2>1
    <3> QED
      BY <3>1
  <2>2. CASE P = <<n>>
    <3>1. Len(P) = 1 /\ P[1] = n
      BY <2>2
    <3>2. S[a + 1] = n
      BY <1>6, <1>7, <3>1
    <3>3. \A k \in a + 1..a + Len(P) : k = a + 1
      BY <3>1
    <3> QED
      BY <2>2, <3>2, <3>3, Symbols
  <2> QED
    BY <2>1, <2>2
<1>o. Orderly(S, L) => Orderly(T, M)
  BY <1>6, <1>7, <1>8, OrderOmits
<1>c. Covered(S, L) => Covered(T, M)
  BY <1>6, <1>7, <1>8, CoverOmits
<1>9. ASSUME NEW k, Below(B, k) PROVE Below(A, k)
  <2>1. \A i \in 1..Len(A) : i \in 1..Len(A) + Len(P) /\ B[i] = A[i]
    BY <1>s, JoinIs
  <2>2. DOMAIN B = 1..Len(A) + Len(P) /\ DOMAIN A = 1..Len(A)
    BY <1>s, <1>b, JoinIs
  <2> QED
    BY <1>9, <2>1, <2>2 DEF Below
<1> QED
  BY <1>1, <1>2, <1>o, <1>c, <1>9

(* The byte at the end of what is on the way is not in front of it.        *)
LEMMA NotTwice ==
    ASSUME NEW A \in Seq(Any), NEW n \in Nat, NEW m \in Nat, NEW L, NEW B, B = A \o <<n>>,
           Orderly(Append(B, m), L) \/ Once(B, n)
    PROVE  \A i \in DOMAIN A : A[i] # n
<1>s. <<n>> \in Seq(Any) /\ n \in Any /\ m \in Any
  BY Symbols
<1>1. PICK a \in Nat : a = Len(A)
  OBVIOUS
<1>2. B = Append(A, n)
  BY <1>s, AppendJoins
<1>3. /\ B \in Seq(Any) /\ Len(B) = a + 1 /\ B[a + 1] = n /\ DOMAIN A = 1..a
      /\ \A i \in 1..a : B[i] = A[i]
  BY <1>s, <1>1, <1>2
<1>4. /\ DOMAIN Append(B, m) = 1..a + 2
      /\ \A i \in 1..a + 1 : Append(B, m)[i] = B[i]
  BY <1>s, <1>3
<1> SUFFICES ASSUME NEW i \in 1..a, A[i] = n PROVE FALSE
  BY <1>3
<1>5. CASE Orderly(Append(B, m), L)
  <2>1. /\ i \in 1..a + 2 /\ a + 1 \in 1..a + 2 /\ i < a + 1
        /\ Append(B, m)[i] = n /\ Append(B, m)[a + 1] = n
    BY <1>3, <1>4
  <2>2. Follows(Append(B, m), L, i, a + 1)
    BY <1>4, <1>5, <2>1 DEF Orderly
  <2>3. Append(B, m)[i] < Append(B, m)[a + 1]
    BY <2>2 DEF Follows
  <2>4. n < n
    BY <2>1, <2>3
  <2> QED
    BY <2>4
<1>6. CASE Once(B, n)
  <2>1. i \in DOMAIN B /\ B[i] = n
    BY <1>3
  <2>2. i = Len(B)
    BY <1>6, <2>1 DEF Once
  <2>3. i = a + 1
    BY <1>3, <2>2
  <2>4. i < a + 1
    OBVIOUS
  <2> QED
    BY <2>3, <2>4
<1> QED
  BY <1>5, <1>6

(* Everything behind the log goes, and what the log does not reach is      *)
(* lost.                                                                   *)
LEMMA RestLost ==
    ASSUME NEW C \in Seq(Symbol), NEW A \in Seq(Any), NEW k \in Nat, NEW L, NEW M,
           L \subseteq M, \A n \in 1..k : n \in M \/ \E m \in BytesOf(C) : n <= m,
           NEW B, B = C \o A
    PROVE  /\ Orderly(Append(B, k + 1), L) => Orderly(Append(C, k + 1), M)
           /\ Covered(Append(B, k + 1), L) => Covered(Append(C, k + 1), M)
           /\ Below(B, k) => Below(C, k)
<1>0. C \in Seq(Any)
  BY SeqMonotonic, Symbols
<1>1. PICK c \in Nat : c = Len(C)
  OBVIOUS
<1>2. PICK b \in Nat : b = Len(B) /\ c <= b /\ B \in Seq(Any) /\ \A i \in 1..c : B[i] = C[i]
  <2>1. Len(B) = c + Len(A) /\ B \in Seq(Any) /\ \A i \in 1..c : B[i] = C[i]
    BY <1>0, <1>1, JoinIs
  <2>2. Len(A) \in Nat
    OBVIOUS
  <2> QED
    BY <2>1, <2>2
<1>3. PICK S : S = Append(B, k + 1)
  OBVIOUS
<1>4. PICK T : T = Append(C, k + 1)
  OBVIOUS
<1>5. k + 1 \in Any /\ k + 1 \in Nat
  BY Symbols
<1>6. /\ DOMAIN S = 1..b + 1 /\ S[b + 1] = k + 1
      /\ \A i \in 1..b : S[i] = B[i]
  BY <1>2, <1>3, <1>5
<1>7. /\ DOMAIN T = 1..c + 1 /\ T[c + 1] = k + 1
      /\ \A i \in 1..c : T[i] = C[i]
  BY <1>0, <1>1, <1>4, <1>5
<1>8. \A i \in 1..c : i \in 1..b + 1 /\ T[i] = S[i] /\ T[i] = C[i]
  <2>1. \A i \in 1..c : i \in 1..b
    BY <1>2
  <2> QED
    BY <1>2, <1>6, <1>7, <2>1
<1>9. \A n \in 1..k : n \in M \/ \E l \in 1..c : T[l] \in Nat /\ n <= T[l]
  <2> SUFFICES ASSUME NEW n \in 1..k, n \notin M PROVE \E l \in 1..c : T[l] \in Nat /\ n <= T[l]
    OBVIOUS
  <2>1. PICK m \in BytesOf(C) : n <= m
    OBVIOUS
  <2>2. PICK l \in DOMAIN C : C[l] = m
    BY DEF BytesOf
  <2>3. l \in 1..c /\ m \in Nat
    BY <1>1, Symbols DEF BytesOf
  <2> QED
    BY <1>8, <2>1, <2>2, <2>3
<1>10. \A i \in 1..c : T[i] \in Nat => T[i] > 0
  <2>1. \A i \in 1..c : C[i] \in Symbol
    BY <1>1
  <2>2. \A x \in Symbol : x \in Nat => x > 0
    <3>1. \A x \in Byte : x > 0
      BY BoundAssumption DEF Byte
    <3>2. \A x \in Symbol : x \in Nat => x \in Byte
      BY SymbolAssumption DEF Symbol
    <3> QED
      BY <3>1, <3>2
  <2> QED
    BY <1>8, <2>1, <2>2
<1>o. ASSUME Orderly(S, L) PROVE Orderly(T, M)
  <2> SUFFICES ASSUME NEW i \in 1..c + 1, NEW j \in 1..c + 1, i < j, T[i] \in Nat, T[j] \in Nat
               PROVE  Follows(T, M, i, j)
    BY <1>7 DEF Orderly
  <2>1. i \in 1..c
    OBVIOUS
  <2>2. CASE j \in 1..c
    <3>1. Follows(S, L, i, j)
      BY <1>6, <1>8, <1>o, <2>1, <2>2 DEF Orderly
    <3>2. T[i] = S[i] /\ T[j] = S[j] /\ \A l \in i..j : T[l] = S[l]
      BY <1>8, <2>1, <2>2
    <3> QED
      BY <3>1, <3>2 DEF Follows
  <2>3. CASE j = c + 1
    <3>1. T[i] < T[j]
      <4>1. i \in 1..b + 1 /\ b + 1 \in 1..b + 1 /\ i < b + 1 /\ S[i] \in Nat /\ S[b + 1] \in Nat
        BY <1>2, <1>5, <1>6, <1>8, <2>1
      <4>2. Follows(S, L, i, b + 1)
        BY <1>6, <1>o, <4>1 DEF Orderly
      <4> QED
        BY <1>6, <1>7, <1>8, <2>1, <2>3, <4>2 DEF Follows
    <3>2. CASE \E l \in i..j : T[l] = Warning
      BY <3>1, <3>2 DEF Follows
    <3>3. CASE \A l \in i..j : T[l] # Warning
      <4>1. ASSUME NEW n \in T[i]..T[j] - 1 PROVE n \in M \/ \E l \in i..j : T[l] = n
        <5>1. n \in 1..k
          BY <1>7, <1>10, <2>1, <2>3
        <5>2. CASE n \in M
          BY <5>2
        <5>3. CASE n \notin M
          <6>1. PICK l \in 1..c : T[l] \in Nat /\ n <= T[l]
            BY <1>9, <5>1, <5>3
          <6>2. CASE l < i
            <7>1. /\ l \in 1..b + 1 /\ i \in 1..b + 1 /\ S[l] \in Nat /\ S[i] \in Nat
                  /\ S[l] = T[l] /\ S[i] = T[i]
              BY <1>8, <2>1, <6>1
            <7>2. Follows(S, L, l, i)
              BY <1>6, <1>o, <6>2, <7>1 DEF Orderly
            <7>3. S[l] < S[i]
              BY <7>2 DEF Follows
            <7> QED
              BY <5>1, <6>1, <7>1, <7>3
          <6>3. CASE l = i
            <7>1. n = T[l] /\ l \in i..j
              BY <5>1, <6>1, <6>3
            <7> QED
              BY <7>1
          <6>4. CASE l > i
            <7>1. /\ l \in 1..b + 1 /\ i \in 1..b + 1 /\ S[l] \in Nat /\ S[i] \in Nat
                  /\ S[l] = T[l] /\ S[i] = T[i]
              BY <1>8, <2>1, <6>1
            <7>2. Follows(S, L, i, l)
              BY <1>6, <1>o, <6>4, <7>1 DEF Orderly
            <7>3. \A q \in i..l : q \in i..j /\ T[q] = S[q]
              BY <1>8, <2>1, <2>3, <6>1
            <7>4. \A q \in i..l : S[q] # Warning
              BY <3>3, <7>3
            <7>5. \A q \in S[i]..S[l] - 1 : q \in L \/ \E p \in i..l : S[p] = q
              BY <7>2, <7>4 DEF Follows
            <7>6. CASE n = S[l]
              <8>1. l \in i..j
                BY <2>3, <6>1, <6>4
              <8> QED
                BY <7>1, <7>6, <8>1
            <7>7. CASE n # S[l]
              <8>1. n \in S[i]..S[l] - 1
                BY <5>1, <6>1, <7>1, <7>7
              <8>2. n \in L \/ \E p \in i..l : S[p] = n
                BY <7>5, <8>1
              <8> QED
                BY <7>3, <8>2
            <7> QED
              BY <7>6, <7>7
          <6> QED
            BY <6>2, <6>3, <6>4
        <5> QED
          BY <5>2, <5>3
      <4> QED
        BY <3>1, <4>1 DEF Follows
    <3> QED
      BY <3>2, <3>3
  <2> QED
    BY <2>2, <2>3
<1>c. ASSUME Covered(S, L) PROVE Covered(T, M)
  <2>1. ASSUME NEW i \in 1..c, T[i] \in Nat, NEW n \in 1..T[i] - 1
        PROVE  n \in L \/ \E q \in 1..i - 1 : T[q] = n \/ T[q] = Warning
    <3>1. i \in DOMAIN S /\ S[i] = T[i]
      BY <1>6, <1>8
    <3>2. n \in L \/ \E q \in 1..i - 1 : S[q] = n \/ S[q] = Warning
      BY <1>c, <2>1, <3>1 DEF Covered
    <3>3. \A q \in 1..i - 1 : T[q] = S[q]
      BY <1>8
    <3> QED
      BY <3>2, <3>3
  <2>2. ASSUME NEW n \in 1..k
        PROVE  n \in M \/ \E q \in 1..c : T[q] = n \/ T[q] = Warning
    <3>1. CASE n \in M
      BY <3>1
    <3>2. CASE n \notin M
      <4>1. PICK l \in 1..c : T[l] \in Nat /\ n <= T[l]
        BY <1>9, <3>2
      <4>2. CASE n = T[l]
        BY <4>2
      <4>3. CASE n # T[l]
        <5>1. n \in 1..T[l] - 1
          BY <4>1, <4>3
        <5>2. n \in L \/ \E q \in 1..l - 1 : T[q] = n \/ T[q] = Warning
          BY <2>1, <4>1, <5>1
        <5>3. \A q \in 1..l - 1 : q \in 1..c
          OBVIOUS
        <5> QED
          BY <5>2, <5>3
      <4> QED
        BY <4>2, <4>3
    <3> QED
      BY <3>1, <3>2
  <2> SUFFICES ASSUME NEW i \in 1..c + 1, T[i] \in Nat, NEW n \in 1..T[i] - 1
               PROVE  n \in M \/ \E q \in 1..i - 1 : T[q] = n \/ T[q] = Warning
    BY <1>7 DEF Covered
  <2>3. CASE i \in 1..c
    BY <2>1, <2>3
  <2>4. CASE i = c + 1
    <3>1. n \in 1..k /\ i - 1 = c
      BY <1>7, <2>4
    <3> QED
      BY <2>2, <3>1
  <2> QED
    BY <2>3, <2>4
<1>b. Below(B, k) => Below(C, k)
  <2>1. DOMAIN B = 1..b /\ DOMAIN C = 1..c /\ \A i \in 1..c : i \in 1..b /\ B[i] = C[i]
    BY <1>1, <1>2
  <2> QED
    BY <2>1 DEF Below
<1> QED
  BY <1>3, <1>4, <1>o, <1>c, <1>b

(* A valid buffer: what is copied from it is what it holds, and a warning. *)
LEMMA CopiedIs ==
    ASSUME ConsoleTypeOK, NEW b \in Buffer, buf[b].size = Space[b]
    PROVE  /\ Copied(buf[b]) \in Seq(Any)
           /\ Log(b) = <<>> => Copied(buf[b]) = <<>>
           /\ BytesOf(Log(b)) \subseteq BytesOf(Copied(buf[b]))
<1>1. PICK n \in Nat \ {0} : n = Space[b]
  BY Spaces
<1>2. PICK r : r = buf[b]
  OBVIOUS
<1>3. r \in Rings(n) /\ r.size = n
  BY <1>1, <1>2, RingIs
<1>4. PICK C : C = Contents(r)
  OBVIOUS
<1>5. Log(b) = C
  BY <1>1, <1>2, <1>3, <1>4 DEF Log
<1>6. /\ C \in Seq(Any) /\ Copied(r) \in Seq(Any)
      /\ ~r.overflow => Copied(r) = C
      /\ r.overflow => Copied(r) = <<Warning>> \o C /\ C # <<>>
  BY <1>3, <1>4, HoldIs
<1>7. BytesOf(C) \subseteq BytesOf(Copied(r))
  <2>1. CASE ~r.overflow
    BY <1>6, <2>1
  <2>2. CASE r.overflow
    <3>1. PICK W \in Seq(Any) : W = <<Warning>> /\ Len(W) = 1
      <4>1. Warning \in Any
        BY DEF Any, Symbol
      <4>2. <<Warning>> \in Seq(Any) /\ Len(<<Warning>>) = 1
        BY <4>1, Singles
      <4> QED
        BY <4>2
    <3>2. PICK c \in Nat : c = Len(C)
      BY <1>6
    <3>3. PICK S : S = W \o C
      OBVIOUS
    <3>4. DOMAIN S = 1..1 + c /\ \A i \in 1..c : S[1 + i] = C[i]
      BY <1>6, <3>1, <3>2, <3>3, JoinParts
    <3>5. DOMAIN C = 1..c
      BY <1>6, <3>2
    <3>6. \A i \in DOMAIN C : 1 + i \in DOMAIN S /\ S[1 + i] = C[i]
      BY <3>4, <3>5
    <3>7. Copied(r) = S
      BY <1>6, <2>2, <3>1, <3>3
    <3> QED
      BY <3>6, <3>7 DEF BytesOf
  <2> QED
    BY <2>1, <2>2
<1> QED
  BY <1>2, <1>5, <1>6, <1>7

(* The reset takes only the byte that was being stored, if that.           *)
ShortReset ==
    /\ Ahead' = Waiting
    /\ pending = <<>> \/ (source = Nowhere /\ pending = <<printed>>)
    /\ \A n \in BytesOf(pending) :
          n \in lost' \/ n \in BytesOf(Log("cbmem")) \/ n \in BytesOf(Waiting)

(* The reset takes everything that was not in cbmem.                       *)
LongReset ==
    /\ Ahead' = <<>> /\ ~(survives /\ (current = "pre" \/ source = "pre"))
    /\ \A n \in 1..printed : n \in lost' \/ \E m \in BytesOf(Log("cbmem")) : n <= m

(* A reset is a short or a long one, unless it cuts a copy.                *)
LEMMA ResetKinds ==
    ASSUME Shape, Reset, ~(survives /\ source = "pre")
    PROVE  lost \subseteq lost' /\ (ShortReset \/ LongReset)
<1>0. ConsoleTypeOK /\ Places /\ Halves
  BY DEF Shape
<1>1. PICK K : K = IF survives THEN {"pre", "cbmem"} ELSE {"cbmem"}
  OBVIOUS
<1>2. PICK G : G = {b \in Buffer \ K : buf[b].size > 0 /\ Log(b) # <<>>}
  OBVIOUS
<1>3. PICK R : R = UNION {BytesOf(Log(b)) : b \in K}
  OBVIOUS
<1>4. PICK E : E = {n \in Byte : \E m \in BytesOf(Log("cbmem")) : n <= m}
  OBVIOUS
<1>5. lost' = lost \cup (BytesOf(pending) \ R)
                   \cup (IF G = {} THEN {} ELSE 1..printed \ (E \cup R))
  BY <1>1, <1>2, <1>3, <1>4 DEF Reset
<1>6. lost \subseteq lost' /\ BytesOf(pending) \subseteq lost' \cup R
  BY <1>5
<1>7. Ahead' = IF survives /\ (current = "pre" \/ source = "pre")
               THEN Copied(buf["pre"]) ELSE <<>>
  BY ShapeReset
<1>8. CASE survives /\ current = "pre"
  <2>1. /\ buf["pre"].size = Space["pre"] /\ source = Nowhere
        /\ pending = <<>> \/ pending = <<printed>>
    BY <1>0, <1>8, Spaces DEF Places, Nowhere
  <2>2. Waiting = Copied(buf["pre"]) /\ Ahead' = Waiting
    BY <1>7, <1>8 DEF Waiting
  <2>3. BytesOf(Log("pre")) \subseteq BytesOf(Waiting)
    BY <1>0, <2>1, <2>2, Spaces, CopiedIs
  <2>4. R = BytesOf(Log("pre")) \cup BytesOf(Log("cbmem"))
    BY <1>1, <1>3, <1>8
  <2> QED
    BY <1>6, <2>1, <2>2, <2>3, <2>4 DEF ShortReset
<1>9. CASE ~(survives /\ current = "pre")
  <2>1. ~(survives /\ (current = "pre" \/ source = "pre")) /\ Ahead' = <<>>
    BY <1>7, <1>9
  <2>2. R = BytesOf(Log("cbmem"))
    <3>1. CASE ~survives
      BY <1>1, <1>3, <3>1
    <3>2. CASE survives
      <4>1. buf["pre"].size = 0
        BY <1>0, <2>1, <3>2 DEF Places
      <4>2. BytesOf(Log("pre")) = {}
        BY <4>1 DEF BytesOf, Log
      <4> QED
        BY <1>1, <1>3, <3>2, <4>2
    <3> QED
      BY <3>1, <3>2
  <2>3. CASE G # {}
    <3>1. 1..printed \subseteq Byte
      BY <1>0, BoundAssumption DEF ConsoleTypeOK, Byte
    <3>2. ASSUME NEW n \in 1..printed, n \notin lost'
          PROVE  \E m \in BytesOf(Log("cbmem")) : n <= m
      <4>1. n \in E \/ n \in R
        BY <1>5, <2>3, <3>2
      <4>2. CASE n \in E
        BY <1>4, <4>2
      <4>3. CASE n \in R
        <5>1. n <= n
          OBVIOUS
        <5> QED
          BY <2>2, <4>3, <5>1
      <4> QED
        BY <4>1, <4>2, <4>3
    <3> QED
      BY <1>6, <2>1, <3>2 DEF LongReset
  <2>4. CASE G = {}
    <3>1. ASSUME NEW b \in {"pre", "static"}, current = b \/ source = b
          PROVE  Copied(buf[b]) = <<>>
      <4>1. b \in Buffer /\ b \notin K
        BY <1>1, <2>1, <3>1, Spaces
      <4>2. buf[b].size = Space[b] /\ Space[b] \in Nat \ {0}
        BY <1>0, <3>1, Spaces DEF Places
      <4>3. buf[b].size > 0
        BY <4>2
      <4>4. Log(b) = <<>>
        BY <1>2, <2>4, <4>1, <4>3
      <4> QED
        BY <1>0, <4>1, <4>2, <4>4, CopiedIs
    <3>2. Waiting = <<>>
      BY <3>1 DEF Waiting
    <3>3. pending = <<>> \/ (source = Nowhere /\ pending = <<printed>>)
      <4>1. CASE source = Nowhere
        BY <1>0, <4>1 DEF Places
      <4>2. CASE source # Nowhere
        <5>1. source \in {"pre", "static"}
          BY <1>0, <4>2 DEF Places
        <5>2. PICK X \in Seq(Symbol) : Copied(buf[source]) = X \o pending
          BY <1>0, <4>2 DEF Halves
        <5>3. X \o pending = <<>>
          BY <3>1, <5>1, <5>2
        <5>4. X \in Seq(Any) /\ pending \in Seq(Any)
          BY AheadIs, SeqMonotonic, Symbols
        <5>5. Len(X \o pending) = Len(X) + Len(pending)
          BY <5>4, JoinIs
        <5>6. Len(pending) = 0
          <6>1. Len(X) \in Nat /\ Len(pending) \in Nat /\ Len(X \o pending) = 0
            BY <5>3, <5>4
          <6> QED
            BY <5>5, <6>1
        <5> QED
          BY <5>4, <5>6
      <4> QED
        BY <4>1, <4>2
    <3> QED
      BY <1>6, <2>1, <2>2, <3>2, <3>3 DEF ShortReset
  <2> QED
    BY <2>3, <2>4
<1> QED
  BY <1>8, <1>9

(* What a short reset takes is the byte that was being stored.             *)
LEMMA ShortParts ==
    ASSUME Shape, Reset, ShortReset,
           Orderly(Append(Way, printed + 1), lost) \/ (pending # <<>> => Once(Way, printed))
    PROVE  /\ Way' \in Seq(Any) /\ Way = Way' \o pending
           /\ pending = <<>> \/ (source = Nowhere /\ pending = <<printed>> /\ printed \in lost')
<1>0. ConsoleTypeOK /\ Places
  BY DEF Shape
<1>1. PICK C \in Seq(Any) : C = Log("cbmem")
  BY AheadIs
<1>2. PICK W \in Seq(Any) : W = Waiting
  BY AheadIs
<1>3. PICK P \in Seq(Any) : P = pending
  BY AheadIs
<1>4. PICK A \in Seq(Any) : A = C \o W
  BY JoinIs
<1>5. Way' = A
  BY <1>1, <1>2, <1>4, ShapeReset DEF Way, ShortReset
<1>6. Way = A \o P
  BY <1>1, <1>2, <1>3, <1>4, Associates DEF Way, Ahead
<1>7. ASSUME pending # <<>> PROVE printed \in lost'
  <2>1. pending = <<printed>>
    BY <1>7 DEF ShortReset
  <2>2. printed \in Byte
    <3>1. pending[1] \in Symbol
      <4>1. pending \in Seq(Symbol)
        BY <1>0 DEF ConsoleTypeOK
      <4>2. \A i \in 1..Len(pending) : pending[i] \in Symbol
        BY <4>1
      <4>3. Len(pending) = 1
        BY <2>1
      <4>4. 1 \in 1..Len(pending)
        BY <4>3
      <4> QED
        BY <4>2, <4>4
    <3>2. printed \in Symbol /\ printed \in Nat
      BY <1>0, <2>1, <3>1 DEF ConsoleTypeOK
    <3> QED
      BY <3>2, SymbolAssumption DEF Symbol
  <2>3. printed \in BytesOf(pending)
    <3>1. 1 \in DOMAIN pending /\ pending[1] = printed
      BY <2>1
    <3> QED
      BY <2>2, <3>1 DEF BytesOf
  <2>4. \A i \in DOMAIN A : A[i] # printed
    <3>1. PICK n \in Nat : n = printed
      BY AheadIs
    <3>2. PICK m \in Nat : m = printed + 1
      BY <3>1
    <3>3. PICK B : B = A \o <<n>>
      OBVIOUS
    <3>4. B = Way
      BY <1>3, <1>6, <2>1, <3>1, <3>3
    <3>5. PICK L : L = lost
      OBVIOUS
    <3>6. Orderly(Append(B, m), L) \/ Once(B, n)
      BY <1>7, <3>1, <3>2, <3>4, <3>5
    <3>7. \A i \in DOMAIN A : A[i] # n
      BY <3>3, <3>6, NotTwice
    <3> QED
      BY <3>1, <3>7
  <2>5. printed \notin BytesOf(C) /\ printed \notin BytesOf(W)
    <3>1. PICK c \in Nat : c = Len(C)
      OBVIOUS
    <3>2. PICK w \in Nat : w = Len(W)
      OBVIOUS
    <3>3. /\ DOMAIN A = 1..c + w /\ DOMAIN C = 1..c /\ DOMAIN W = 1..w
          /\ \A i \in 1..c : A[i] = C[i]
          /\ \A i \in 1..w : A[c + i] = W[i]
      BY <1>4, <3>1, <3>2, JoinParts
    <3>4. \A i \in DOMAIN C : i \in DOMAIN A /\ A[i] = C[i]
      BY <3>3
    <3>5. \A i \in DOMAIN W : c + i \in DOMAIN A /\ A[c + i] = W[i]
      BY <3>3
    <3> QED
      BY <2>4, <3>4, <3>5 DEF BytesOf
  <2> QED
    BY <1>1, <1>2, <2>3, <2>5 DEF ShortReset
<1> QED
  BY <1>3, <1>5, <1>6, <1>7 DEF ShortReset

(* What a long reset leaves is the log in cbmem.                           *)
LEMMA LongParts ==
    ASSUME Shape, Reset, LongReset
    PROVE  Way' = Log("cbmem")
BY AheadIs, ShapeReset, ConcatEmptySeq DEF Way, LongReset

LEMMA OrdersReset == Shape /\ Orders /\ Reset => Orders'
<1> SUFFICES ASSUME Shape, Orders, Reset, ~cut'
             PROVE  Orders'
  BY DEF Orders
<1>1. /\ printed' = printed /\ loaded' = Nothing /\ ~cut /\ ~(survives /\ source = "pre")
  BY DEF Reset
<1>2. Orderly(Append(Way, printed + 1), lost)
  BY <1>1 DEF Orders
<1>3. PICK n \in Nat : n = printed
  BY AheadIs
<1>4. PICK m \in Nat : m = printed + 1
  BY <1>3
<1>5. PICK L : L = lost
  OBVIOUS
<1>6. PICK M : M = lost'
  OBVIOUS
<1>7. L \subseteq M /\ (ShortReset \/ LongReset)
  BY <1>1, <1>5, <1>6, ResetKinds
<1>8. PICK B \in Seq(Any) : B = Way
  BY AheadIs
<1>9. Orderly(Append(Way', m), M)
  <2>1. CASE ShortReset
    <3>1. /\ Way' \in Seq(Any) /\ Way = Way' \o pending
          /\ pending = <<>> \/ (source = Nowhere /\ pending = <<printed>> /\ printed \in lost')
      BY <1>2, <2>1, ShortParts
    <3>2. PICK A \in Seq(Any) : A = Way'
      BY <3>1
    <3>3. PICK P : P = pending
      OBVIOUS
    <3>4. P = <<>> \/ P = <<n>>
      BY <1>3, <3>1, <3>3
    <3>5. P = <<n>> => n \in M
      BY <1>3, <1>6, <3>1, <3>3
    <3>6. B = A \o P
      BY <1>8, <3>1, <3>2, <3>3
    <3>7. Orderly(Append(B, m), L)
      BY <1>2, <1>4, <1>5, <1>8
    <3>8. Orderly(Append(A, m), M)
      BY <1>7, <3>4, <3>5, <3>6, <3>7, PartLost
    <3> QED
      BY <3>2, <3>8
  <2>2. CASE LongReset
    <3>1. PICK C \in Seq(Symbol) : C = Log("cbmem")
      BY AheadIs
    <3>2. PICK A \in Seq(Any) : A = Ahead
      BY AheadIs
    <3>3. B = C \o A
      BY <1>8, <3>1, <3>2 DEF Way
    <3>4. Orderly(Append(B, n + 1), L)
      BY <1>2, <1>3, <1>5, <1>8
    <3>5. \A k \in 1..n : k \in M \/ \E l \in BytesOf(C) : k <= l
      BY <1>3, <1>6, <2>2, <3>1 DEF LongReset
    <3>6. Orderly(Append(C, n + 1), M)
      BY <1>7, <3>3, <3>4, <3>5, RestLost
    <3> QED
      BY <1>3, <1>4, <2>2, <3>1, <3>6, LongParts
  <2> QED
    BY <1>7, <2>1, <2>2
<1> QED
  BY <1>1, <1>4, <1>6, <1>9 DEF Orders

(* Every step keeps the order.                                             *)
LEMMA OrdersNext == Shape /\ Orders /\ [ConsoleNext]_console_vars => Orders'
<1> SUFFICES ASSUME Shape, Orders, [ConsoleNext]_console_vars PROVE Orders'
  OBVIOUS
<1>0. pending = <<>> => loaded = Nothing
  BY DEF Shape, Loads
<1>1. CASE PrintByte
  BY <1>1, OrdersPrintByte
<1>2. CASE TxLoad
  BY <1>2, OrdersTxLoad
<1>3. CASE TxStore
  BY <1>3, OrdersTxStore
<1>4. CASE CbmemReady
  <2>1. /\ Way' = Way /\ printed' = printed /\ lost' = lost /\ cut' = cut
        /\ loaded' = Nothing
    BY <1>0, <1>4, ShapeCbmemReady DEF CbmemReady, Idle
  <2> QED
    BY <2>1, OrdersSame
<1>5. CASE CbmemFull
  <2>1. Way' = <<>> /\ loaded' = Nothing
    BY <1>0, <1>5, ShapeCbmemFull DEF CbmemFull, Idle
  <2>2. Orderly(Append(<<>>, printed' + 1), lost')
    BY OrderSingle
  <2> QED
    BY <2>1, <2>2 DEF Orders
<1>6. CASE CopyDone
  <2>1. /\ Way' = Way /\ printed' = printed /\ lost' = lost /\ cut' = cut
        /\ loaded' = Nothing
    BY <1>0, <1>6, ShapeCopyDone DEF CopyDone
  <2> QED
    BY <2>1, OrdersSame
<1>7. CASE StartRomstage
  <2>1. /\ Way' = Way /\ printed' = printed /\ lost' = lost /\ cut' = cut
        /\ loaded' = Nothing
    BY <1>0, <1>7, ShapeStartRomstage DEF StartRomstage, Idle
  <2> QED
    BY <2>1, OrdersSame
<1>8. CASE StartRamstage
  <2>1. /\ Way' = Way /\ printed' = printed /\ lost' = lost /\ cut' = cut
        /\ loaded' = Nothing
    BY <1>0, <1>8, ShapeStartRamstage DEF StartRamstage, Idle
  <2> QED
    BY <2>1, OrdersSame
<1>9. CASE PrintInSmm
  BY <1>9, OrdersPrintInSmm
<1>10. CASE Reset
  BY <1>10, OrdersReset
<1>11. CASE UNCHANGED console_vars
  BY <1>11 DEF Orders, Way, Ahead, Waiting, View, Log, console_vars
<1> QED
  BY <1>1, <1>2, <1>3, <1>4, <1>5, <1>6, <1>7, <1>8, <1>9, <1>10, <1>11 DEF ConsoleNext

(* The log is the front of what is on its way.                             *)
LEMMA OrdersInOrder == Shape /\ Orders => InOrder
<1> SUFFICES ASSUME Shape, Orders, ~cut PROVE InOrder
  BY DEF InOrder
<1>1. PICK C \in Seq(Any) : C = Log("cbmem")
  BY AheadIs
<1>2. PICK A \in Seq(Any) : A = Ahead
  BY AheadIs
<1>3. PICK n \in Nat : n = printed + 1
  BY AheadIs
<1>4. PICK S : S = Append(Way, n)
  OBVIOUS
<1>5. Orderly(S, lost)
  BY <1>3, <1>4 DEF Orders
<1>6. PICK c \in Nat : c = Len(C)
  OBVIOUS
<1>7. DOMAIN C = 1..c /\ \A i \in 1..c : i \in DOMAIN S /\ S[i] = C[i]
  <2>1. PICK a \in Nat : a = Len(A)
    OBVIOUS
  <2>2. PICK B : B = C \o A
    OBVIOUS
  <2>3. B \in Seq(Any) /\ Len(B) = c + a /\ \A i \in 1..c : B[i] = C[i]
    BY <1>6, <2>1, <2>2, JoinParts
  <2>4. S = Append(B, n) /\ n \in Any
    BY <1>1, <1>2, <1>4, <2>2, Symbols DEF Way
  <2>5. DOMAIN S = 1..c + a + 1 /\ \A i \in 1..c + a : S[i] = B[i]
    BY <2>3, <2>4
  <2>6. \A i \in 1..c : i \in 1..c + a /\ i \in 1..c + a + 1
    OBVIOUS
  <2> QED
    BY <1>6, <2>3, <2>5, <2>6
<1>8. PICK T : T = BytesOf(C)
  OBVIOUS
<1>9. ASSUME NEW i \in DOMAIN C, NEW j \in DOMAIN C, i < j, {C[i], C[j]} \subseteq Byte
      PROVE  /\ C[i] < C[j]
             /\ \/ (C[i]..C[j]) \subseteq lost \cup T
                \/ \E k \in i..j : C[k] = Warning
  <2>1. C[i] \in Nat /\ C[j] \in Nat /\ C[i] \in Byte /\ C[j] \in Byte
    BY <1>9, Symbols
  <2>2. \A k \in i..j : k \in 1..c /\ S[k] = C[k]
    BY <1>7, <1>9
  <2>3. S[i] = C[i] /\ S[j] = C[j] /\ i \in DOMAIN S /\ j \in DOMAIN S
    BY <1>7
  <2>4. Follows(S, lost, i, j)
    BY <1>5, <1>9, <2>1, <2>3 DEF Orderly
  <2>5. C[i] < C[j]
    BY <2>3, <2>4 DEF Follows
  <2>6. CASE \E k \in i..j : S[k] = Warning
    BY <2>2, <2>5, <2>6
  <2>7. CASE \A n_1 \in S[i]..S[j] - 1 : n_1 \in lost \/ \E k \in i..j : S[k] = n_1
    <3>1. ASSUME NEW q \in C[i]..C[j] PROVE q \in lost \cup T
      <4>1. q \in Byte
        BY <2>1, BoundAssumption DEF Byte
      <4>2. CASE q = C[j]
        BY <1>8, <4>1, <4>2 DEF BytesOf
      <4>3. CASE q # C[j]
        <5>1. q \in S[i]..S[j] - 1
          BY <2>1, <2>3, <4>3
        <5>2. q \in lost \/ \E k \in i..j : S[k] = q
          BY <2>7, <5>1
        <5>3. ASSUME NEW k \in i..j, S[k] = q PROVE q \in T
          BY <1>7, <1>8, <2>2, <4>1, <5>3 DEF BytesOf
        <5> QED
          BY <5>2, <5>3
      <4> QED
        BY <4>2, <4>3
    <3> QED
      BY <2>5, <3>1
  <2> QED
    BY <2>4, <2>6, <2>7 DEF Follows
<1> QED
  BY <1>1, <1>8, <1>9 DEF InOrder

-----------------------------------------------------------------------------
(* The whole of everything that is on its way to cbmem, o whether the      *)
(* buffer there has overflowed.                                            *)
Whole(B, o, m, L) ==
    /\ o \/ Covered(Append(B, m + 1), L)
    /\ Ends(B, m, L) /\ Below(B, m)

(* P is what is still to be copied of C: the rest of it is in T.           *)
Halfway(C, P, T, o, m, L) ==
    /\ C = <<>> \/ Ends(C, m, L)
    /\ Below(C, m)
    /\ \E X \in Seq(Symbol) :
          /\ C = X \o P
          /\ o \/ \A k \in DOMAIN X : \E j \in DOMAIN T : T[j] = X[k]

(* The next byte printed keeps the whole.                                  *)
LEMMA WholeAppends ==
    ASSUME NEW A \in Seq(Any), NEW o, NEW m \in Nat, NEW L, Whole(A, o, m, L),
           NEW k \in Nat, k = m + 1, NEW B, B = Append(A, k)
    PROVE  Whole(B, o, k, L) /\ Once(B, k)
<1>1. k \in Any
  BY Symbols
<1>2. PICK a \in Nat : a = Len(A)
  OBVIOUS
<1>3. /\ B \in Seq(Any) /\ Len(B) = a + 1 /\ DOMAIN B = 1..a + 1 /\ DOMAIN A = 1..a
      /\ B[a + 1] = k /\ \A i \in 1..a : B[i] = A[i]
  BY <1>1, <1>2
<1>4. Ends(B, k, L)
  <2>1. B # <<>> /\ B[Len(B)] = k
    BY <1>3
  <2> QED
    BY <2>1 DEF Ends
<1>5. \A i \in 1..a : B[i] \in Nat => B[i] < k
  <2>1. \A i \in 1..a : A[i] \in Nat => A[i] <= m
    BY <1>3 DEF Whole, Below
  <2> QED
    BY <1>3, <2>1
<1>6. Below(B, k)
  <2>1. ASSUME NEW i \in 1..a + 1, B[i] \in Nat PROVE B[i] <= k
    <3>1. CASE i = a + 1
      BY <1>3, <3>1
    <3>2. CASE i # a + 1
      <4>1. i \in 1..a
        BY <3>2
      <4>2. PICK v \in Nat : v = B[i]
        BY <2>1
      <4>3. v < k
        BY <1>5, <4>1, <4>2
      <4>4. v <= k
        BY <4>3
      <4> QED
        BY <4>2, <4>4
    <3> QED
      BY <3>1, <3>2
  <2> QED
    BY <1>3, <2>1 DEF Below
<1>7. Once(B, k)
  <2>1. ASSUME NEW i \in 1..a + 1, B[i] = k PROVE i = a + 1
    <3>1. CASE i \in 1..a
      <4>1. k < k
        BY <1>5, <2>1, <3>1
      <4> QED
        BY <4>1
    <3> QED
      BY <3>1
  <2> QED
    BY <1>3, <2>1 DEF Once
<1>8. o \/ Covered(Append(B, k + 1), L)
  <2>1. CASE o
    BY <2>1
  <2>2. CASE Covered(Append(A, k), L)
    BY <2>2, EndExtends
  <2> QED
    BY <2>1, <2>2 DEF Whole
<1> QED
  BY <1>4, <1>6, <1>7, <1>8 DEF Whole

(* Nothing is the whole when everything is lost.                           *)
LEMMA WholeEmpty ==
    ASSUME NEW o, NEW m \in Nat, NEW L
    PROVE  /\ 1..m \subseteq L => Whole(<<>>, o, m, L)
           /\ ~o /\ Whole(<<>>, o, m, L) => 1..m \subseteq L
<1>1. PICK k \in Nat : k = m + 1
  OBVIOUS
<1>2. Append(<<>>, k) = <<k>> /\ DOMAIN <<k>> = 1..1 /\ <<k>>[1] = k
  OBVIOUS
<1>3. ASSUME 1..m \subseteq L PROVE Whole(<<>>, o, m, L)
  <2>1. Covered(Append(<<>>, k), L)
    BY <1>1, <1>3, OrderSingle
  <2>2. m = 0 \/ m \in L
    <3>1. m = 0 \/ m \in 1..m
      OBVIOUS
    <3> QED
      BY <1>3, <3>1
  <2>3. DOMAIN <<>> = {}
    OBVIOUS
  <2> QED
    BY <1>1, <2>1, <2>2, <2>3 DEF Whole, Ends, Below
<1>4. ASSUME ~o, Whole(<<>>, o, m, L) PROVE 1..m \subseteq L
  <2>1. Covered(<<k>>, L)
    BY <1>1, <1>2, <1>4 DEF Whole
  <2>2. 1 \in 1..1 /\ k - 1 = m
    BY <1>1
  <2>3. \A n \in 1..m : n \in L \/ \E q \in 1..1 - 1 : <<k>>[q] = n \/ <<k>>[q] = Warning
    BY <1>2, <2>1, <2>2 DEF Covered
  <2>4. 1..1 - 1 = {}
    OBVIOUS
  <2> QED
    BY <2>3, <2>4
<1> QED
  BY <1>3, <1>4

(* The end of a sequence.                                                  *)
LEMMA EndPart ==
    ASSUME NEW B \in Seq(Any), NEW C \in Seq(Any), NEW A, A = B \o C, NEW m \in Nat, NEW L
    PROVE  /\ Below(A, m) <=> Below(B, m) /\ Below(C, m)
           /\ C # <<>> => (Ends(A, m, L) <=> Ends(C, m, L))
<1>1. PICK b \in Nat : b = Len(B)
  OBVIOUS
<1>2. PICK c \in Nat : c = Len(C)
  OBVIOUS
<1>3. /\ A \in Seq(Any) /\ Len(A) = b + c /\ DOMAIN A = 1..b + c
      /\ \A i \in 1..b : A[i] = B[i]
      /\ \A i \in 1..c : A[b + i] = C[i]
      /\ \A i \in b + 1..b + c : A[i] = C[i - b]
  BY <1>1, <1>2, JoinParts
<1>4. DOMAIN B = 1..b /\ DOMAIN C = 1..c
  BY <1>1, <1>2
<1>5. ASSUME Below(A, m) PROVE Below(B, m) /\ Below(C, m)
  <2>1. \A i \in 1..b : i \in 1..b + c
    OBVIOUS
  <2>2. \A i \in 1..c : b + i \in 1..b + c
    OBVIOUS
  <2> QED
    BY <1>3, <1>4, <1>5, <2>1, <2>2 DEF Below
<1>6. ASSUME Below(B, m), Below(C, m) PROVE Below(A, m)
  <2>1. \A i \in 1..b + c : i \in 1..b \/ (i \in b + 1..b + c /\ i - b \in 1..c)
    OBVIOUS
  <2> QED
    BY <1>3, <1>4, <1>6, <2>1 DEF Below
<1>7. ASSUME C # <<>> PROVE Ends(A, m, L) <=> Ends(C, m, L)
  <2>1. c > 0
    BY <1>2, <1>7
  <2>2. A # <<>> /\ A[Len(A)] = C[c]
    BY <1>3, <2>1
  <2> QED
    BY <1>2, <1>7, <2>2 DEF Ends
<1> QED
  BY <1>5, <1>6, <1>7

(* The end when more is lost.                                              *)
LEMMA EndsMore ==
    ASSUME NEW A, NEW m, NEW L, NEW M, L \subseteq M, Ends(A, m, L)
    PROVE  Ends(A, m, M)
BY DEF Ends

(* One more symbol is copied.                                              *)
LEMMA HalfwayStep ==
    ASSUME NEW C, NEW P \in Seq(Symbol), P # <<>>, NEW T \in Seq(Any), NEW U,
           NEW o \in BOOLEAN, NEW q \in BOOLEAN, o => q, Takes(T, U, o, Head(P)),
           NEW m \in Nat, NEW L, Halfway(C, P, T, o, m, L), NEW Q, Q = Tail(P)
    PROVE  Halfway(C, Q, U, q, m, L)
<1>s. \A Y \in Seq(Symbol) : Y \in Seq(Any)
  BY SeqMonotonic, Symbols
<1>1. PICK X \in Seq(Symbol) :
          /\ C = X \o P
          /\ o \/ \A k \in DOMAIN X : \E j \in DOMAIN T : T[j] = X[k]
  BY DEF Halfway
<1>2. PICK h \in Symbol : h = Head(P)
  OBVIOUS
<1>3. <<h>> \in Seq(Any) /\ Len(<<h>>) = 1 /\ <<h>>[1] = h /\ <<h>> \in Seq(Symbol)
  BY Symbols, Singles
<1>4. PICK H \in Seq(Any) : H = <<h>> /\ Len(H) = 1 /\ H[1] = h /\ H \in Seq(Symbol)
  BY <1>3
<1>5. PICK Y \in Seq(Symbol) : Y = X \o H
  <2>1. X \o H \in Seq(Symbol)
    BY <1>4
  <2> QED
    BY <2>1
<1>6. C = Y \o Q
  <2>1. X \in Seq(Any) /\ P \in Seq(Any)
    BY <1>s
  <2>2. X \o P = (X \o <<Head(P)>>) \o Tail(P)
    BY <2>1, Passes
  <2> QED
    BY <1>1, <1>2, <1>4, <1>5, <2>2
<1>7. ASSUME ~q PROVE \A k \in DOMAIN Y : \E j \in DOMAIN U : U[j] = Y[k]
  <2>1. ~o /\ U = T \o H
    BY <1>2, <1>4, <1>7 DEF Takes
  <2>2. \A k \in DOMAIN X : \E j \in DOMAIN T : T[j] = X[k]
    BY <1>1, <2>1
  <2>3. PICK x \in Nat : x = Len(X)
    OBVIOUS
  <2>4. PICK t \in Nat : t = Len(T)
    OBVIOUS
  <2>5. /\ DOMAIN Y = 1..x + 1 /\ \A i \in 1..x : Y[i] = X[i]
        /\ \A i \in 1..1 : Y[x + i] = H[i]
    BY <1>s, <1>4, <1>5, <2>3, JoinParts
  <2>6. /\ DOMAIN U = 1..t + 1 /\ \A i \in 1..t : U[i] = T[i]
        /\ \A i \in 1..1 : U[t + i] = H[i]
    BY <1>4, <2>1, <2>4, JoinParts
  <2>7. Y[x + 1] = h /\ U[t + 1] = h /\ t + 1 \in DOMAIN U
    BY <1>4, <2>5, <2>6
  <2>8. DOMAIN X = 1..x /\ DOMAIN T = 1..t
    BY <2>3, <2>4
  <2>9. \A j \in DOMAIN T : j \in DOMAIN U /\ U[j] = T[j]
    BY <2>6, <2>8
  <2> SUFFICES ASSUME NEW k \in 1..x + 1 PROVE \E j \in DOMAIN U : U[j] = Y[k]
    BY <2>5
  <2>10. CASE k = x + 1
    BY <2>7, <2>10
  <2>11. CASE k # x + 1
    <3>1. k \in 1..x
      BY <2>11
    <3>2. PICK j \in DOMAIN T : T[j] = X[k]
      BY <2>2, <2>8, <3>1
    <3> QED
      BY <2>5, <2>9, <3>1, <3>2
  <2> QED
    BY <2>10, <2>11
<1>8. q \/ \A k \in DOMAIN Y : \E j \in DOMAIN U : U[j] = Y[k]
  BY <1>7
<1>9. (C = <<>> \/ Ends(C, m, L)) /\ Below(C, m)
  BY DEF Halfway
<1> QED
  BY <1>6, <1>8, <1>9 DEF Halfway

(* Nearer to the start.                                                    *)
LEMMA Sooner ==
    ASSUME NEW t \in Nat, NEW x \in Nat, NEW q \in Nat, q > 0, NEW j \in Nat, q < j,
           NEW i, i = t + (x + j)
    PROVE  t + (x + q) \in 1..i - 1
OBVIOUS

(* What has been copied comes again.                                       *)
LEMMA CoverAgain ==
    ASSUME NEW T \in Seq(Any), NEW X \in Seq(Any), NEW P \in Seq(Any),
           \A k \in DOMAIN X : \E j \in DOMAIN T : T[j] = X[k], NEW L,
           NEW S, S = T \o P, Covered(S, L), NEW U, U = T \o (X \o P)
    PROVE  Covered(U, L)
<1>1. PICK t \in Nat : t = Len(T)
  OBVIOUS
<1>2. PICK x \in Nat : x = Len(X)
  OBVIOUS
<1>3. PICK p \in Nat : p = Len(P)
  OBVIOUS
<1>4. /\ DOMAIN S = 1..t + p
      /\ \A i \in 1..t : S[i] = T[i]
      /\ \A i \in 1..p : S[t + i] = P[i]
  BY <1>1, <1>3, JoinParts
<1>5. PICK Y \in Seq(Any) : Y = X \o P
  BY JoinIs
<1>6. /\ Len(Y) = x + p
      /\ \A i \in 1..x : Y[i] = X[i]
      /\ \A i \in 1..p : Y[x + i] = P[i]
  BY <1>2, <1>3, <1>5, JoinParts
<1>y. PICK y \in Nat : y = Len(Y)
  OBVIOUS
<1>7. y = x + p
  BY <1>6, <1>y
<1>8. /\ DOMAIN U = 1..t + y
      /\ \A i \in 1..t : U[i] = T[i]
      /\ \A i \in 1..y : U[t + i] = Y[i]
  <2>1. U = T \o Y
    BY <1>5
  <2> QED
    BY <1>1, <1>y, <2>1, JoinParts
<1>9. \A i \in 1..t : i \in 1..t + p /\ U[i] = S[i]
  <2>1. \A i \in 1..t : i \in 1..t + p
    OBVIOUS
  <2> QED
    BY <1>4, <1>8, <2>1
<1>10. \A i \in 1..x : i \in DOMAIN X /\ U[t + i] = X[i]
  <2>1. \A i \in 1..x : i \in 1..y
    BY <1>7
  <2> QED
    BY <1>2, <1>6, <1>8, <2>1
<1>11. \A i \in 1..p : t + i \in 1..t + p /\ U[t + (x + i)] = S[t + i]
  <2>1. \A i \in 1..p : x + i \in 1..y /\ t + i \in 1..t + p
    BY <1>7
  <2> QED
    BY <1>4, <1>6, <1>8, <2>1
<1>c. \A i \in 1..t + p : S[i] \in Nat => \A n \in 1..S[i] - 1 :
          n \in L \/ \E k \in 1..i - 1 : S[k] = n \/ S[k] = Warning
  BY <1>4 DEF Covered
<1> SUFFICES ASSUME NEW i \in 1..t + y, U[i] \in Nat, NEW n \in 1..U[i] - 1, n \notin L
             PROVE  \E k \in 1..i - 1 : U[k] = n \/ U[k] = Warning
  BY <1>8 DEF Covered
<1>12. CASE i \in 1..t
  <2>1. i \in 1..t + p /\ U[i] = S[i]
    BY <1>9, <1>12, Zenon
  <2>2. PICK k \in 1..i - 1 : S[k] = n \/ S[k] = Warning
    BY <1>c, <2>1, Zenon
  <2>3. k \in 1..t
    BY <1>12
  <2> QED
    BY <1>9, <2>2, <2>3
<1>13. CASE i \in t + 1..t + x
  <2>1. PICK j \in 1..x : i = t + j
    <3>1. i - t \in 1..x /\ i = t + (i - t)
      BY <1>13
    <3> QED
      BY <3>1
  <2>2. U[i] = X[j] /\ j \in DOMAIN X
    BY <1>10, <2>1, Zenon
  <2>3. PICK l \in 1..t : T[l] = X[j]
    BY <1>1, <2>2
  <2>4. l \in 1..t + p /\ S[l] = U[i]
    BY <1>4, <1>9, <2>2, <2>3, Zenon
  <2>5. PICK k \in 1..l - 1 : S[k] = n \/ S[k] = Warning
    BY <1>c, <2>4, Zenon
  <2>6. k \in 1..t /\ k \in 1..i - 1
    BY <1>13
  <2> QED
    BY <1>9, <2>5, <2>6
<1>14. CASE i \in t + x + 1..t + y
  <2>1. PICK j \in 1..p : i = t + (x + j)
    <3>1. i - t - x \in 1..p /\ i = t + (x + (i - t - x))
      BY <1>7, <1>14
    <3> QED
      BY <3>1
  <2>2. t + j \in 1..t + p /\ S[t + j] = U[i]
    BY <1>11, <2>1, Zenon
  <2>a. PICK l \in 1..t + p : l = t + j
    BY <2>2
  <2>b. S[l] = U[i]
    BY <2>2, <2>a
  <2>c. PICK k \in 1..l - 1 : S[k] = n \/ S[k] = Warning
    BY <1>c, <2>b, Zenon
  <2>3. k \in 1..t + j - 1
    BY <2>a, SMTT(30)
  <2>4. CASE k \in 1..t
    <3>1. k \in 1..i - 1
      BY <1>14, <2>4
    <3> QED
      BY <1>9, <2>c, <2>4, <3>1
  <2>5. CASE k \notin 1..t
    <3>1. PICK q \in 1..p : k = t + q /\ q < j
      <4>1. k - t \in 1..p /\ k = t + (k - t) /\ k - t < j
        BY <2>3, <2>5
      <4> QED
        BY <4>1
    <3>2. U[t + (x + q)] = S[k]
      BY <1>11, <3>1
    <3>3. t + (x + q) \in 1..i - 1
      <4>1. /\ t \in Nat /\ x \in Nat /\ q \in Nat /\ q > 0 /\ j \in Nat
            /\ q < j /\ i = t + (x + j)
        BY <2>1, <3>1
      <4> QED
        BY <4>1, Sooner, Zenon
    <3> QED
      BY <2>c, <3>2, <3>3
  <2> QED
    BY <2>4, <2>5
<1>15. i \in 1..t \/ i \in t + 1..t + x \/ i \in t + x + 1..t + y
  OBVIOUS
<1> QED
  BY <1>12, <1>13, <1>14, <1>15

LEMMA Associated ==
    ASSUME NEW C \in Seq(Any), NEW D \in Seq(Any), NEW K \in Seq(Any),
           NEW A, A = C \o D, NEW G, G = D \o K
    PROVE  A \o K = C \o G
BY Associates

Again(C, X, S, U) ==
    \E Q \in Seq(Any) : S = C \o Q /\ U = C \o (X \o Q) /\ U \in Seq(Any)

(* The parts of what is copied a second time.                              *)
LEMMA Regroups ==
    ASSUME NEW C \in Seq(Any), NEW X \in Seq(Any), NEW P \in Seq(Any), NEW k \in Any,
           NEW D, D = X \o P, NEW B, B = C \o P, NEW A, A = C \o D,
           NEW S, S = Append(B, k), NEW U, U = Append(A, k)
    PROVE  Again(C, X, S, U)
<1>1. D \in Seq(Any) /\ B \in Seq(Any)
  BY JoinIs
<1>2. PICK K \in Seq(Any) : K = <<k>>
  BY Singles
<1>3. A \in Seq(Any)
  BY <1>1, JoinIs
<1>4. S = B \o K /\ U = A \o K /\ U \in Seq(Any)
  BY <1>1, <1>2, <1>3, AppendJoins
<1>5. PICK Q \in Seq(Any) : Q = P \o K
  BY JoinIs
<1>6. S = C \o Q
  BY <1>4, <1>5, Associates, SMTT(30)
<1>7. PICK G : G = D \o K
  OBVIOUS
<1>8. A \o K = C \o G
  <2>1. D \in Seq(Any)
    BY <1>1
  <2> QED
    BY <1>7, <2>1, Associated, SMTT(30)
<1>9. G = X \o Q
  <2>1. D \o K = X \o Q
    BY <1>5, Associated, SMTT(30)
  <2> QED
    BY <1>7, <2>1
<1>10. U = C \o (X \o Q)
  BY <1>4, <1>8, <1>9
<1> QED
  BY <1>4, <1>6, <1>10 DEF Again

(* A second copy of what is there covers no less.                          *)
LEMMA CoverBoth ==
    ASSUME NEW C \in Seq(Any), NEW X \in Seq(Any), NEW S, NEW U, Again(C, X, S, U),
           \A i \in DOMAIN X : \E j \in DOMAIN C : C[j] = X[i],
           NEW L, NEW M, L \subseteq M, Covered(S, L)
    PROVE  Covered(U, M)
<1>1. PICK Q \in Seq(Any) : S = C \o Q /\ U = C \o (X \o Q) /\ U \in Seq(Any)
  BY DEF Again
<1>2. Covered(U, L)
  BY <1>1, CoverAgain
<1> QED
  BY <1>1, <1>2, CoverMore

(* Whether a reset finds the bytes of the early stages.                    *)
Kept == survives /\ (current = "pre" \/ source = "pre")

(* The last byte printed is nowhere but at the end.                        *)
Sole == (source = Nowhere /\ pending # <<>>) \/ (Ahead # <<>> /\ ~Kept)

(* As long as nothing is printed in SMM: everything that is on its way is  *)
(* the whole, and what is copied can be copied again.                      *)
Wholes ==
    smis = 0 =>
        /\ loaded # Nothing => loaded = Position(buf[current])
        /\ Whole(Way, buf["cbmem"].overflow, printed, lost)
        /\ Sole => Once(Way, printed)
        /\ source = "pre" => Halfway(Copied(buf["pre"]), pending, Log("cbmem"),
                                     buf["cbmem"].overflow, printed, lost)

(* The whole in the beginning; then, step by step, it is kept.             *)
LEMMA WholesInit == ConsoleInit => Wholes
<1> SUFFICES ASSUME ConsoleInit PROVE Wholes
  OBVIOUS
<1>1. /\ buf["pre"] = Empty("pre") /\ buf["cbmem"].size = 0 /\ current = "pre"
      /\ pending = <<>> /\ loaded = Nothing /\ source = Nowhere /\ printed = 0
  BY Spaces, EmptyRing DEF ConsoleInit
<1>2. Waiting = <<>> /\ Log("cbmem") = <<>>
  BY <1>1, Spaces, EmptyRing DEF Waiting, Log
<1>3. Way = <<>> /\ Ahead = <<>>
  BY <1>1, <1>2 DEF Way, Ahead
<1>4. Whole(<<>>, buf["cbmem"].overflow, 0, lost)
  <2>1. 1..0 \subseteq lost /\ 0 \in Nat
    OBVIOUS
  <2> QED
    BY <2>1, WholeEmpty
<1> QED
  BY <1>1, <1>3, <1>4 DEF Wholes, Sole, Nowhere

LEMMA WholesPrintByte == Shape /\ Wholes /\ PrintByte => Wholes'
<1> SUFFICES ASSUME Shape, Wholes, PrintByte, smis' = 0
             PROVE  Wholes'
  BY DEF Wholes
<1>1. /\ loaded' = Nothing /\ printed' = printed + 1 /\ printed \in Nat
      /\ current # Nowhere => lost' = lost
      /\ current = Nowhere => lost' = lost \cup {printed + 1} /\ pending' = <<>>
      /\ buf' = buf /\ smis = 0 /\ source = Nowhere /\ source' = Nowhere
  BY DEF PrintByte, Idle, Shape, Loads, ConsoleTypeOK
<1>2. Whole(Way, buf["cbmem"].overflow, printed, lost)
  BY <1>1 DEF Wholes
<1>3. PICK o : o = buf["cbmem"].overflow
  OBVIOUS
<1>4. PICK k \in Nat : k = printed + 1
  BY <1>1
<1>5. CASE current # Nowhere
  <2>1. PICK B : B = Way'
    OBVIOUS
  <2>2. Way \in Seq(Any)
    BY AheadIs
  <2>3. PICK A \in Seq(Any) : A = Way
    BY <2>2
  <2>4. B = Append(A, k)
    BY <1>4, <1>5, <2>1, <2>3, WayPrintByte
  <2>5. Whole(A, o, printed, lost)
    BY <1>2, <1>3, <2>3
  <2>6. Whole(B, o, k, lost) /\ Once(B, k)
    BY <1>1, <1>4, <2>4, <2>5, WholeAppends
  <2> QED
    BY <1>1, <1>3, <1>4, <1>5, <2>1, <2>6 DEF Wholes, Nowhere
<1>6. CASE current = Nowhere
  <2>1. Way' = <<>> /\ Way = <<>> /\ Ahead' = <<>>
    BY <1>6, WayPrintByte
  <2>2. ~o
    BY <1>3, <1>6 DEF Shape, Places
  <2>3. 1..printed \subseteq lost
    BY <1>1, <1>2, <1>3, <2>1, <2>2, WholeEmpty
  <2>4. 1..k \subseteq lost'
    <3>1. \A n \in 1..k : n \in 1..printed \/ n = k
      BY <1>1, <1>4
    <3> QED
      BY <1>1, <1>4, <1>6, <2>3, <3>1
  <2>5. PICK M : M = lost'
    OBVIOUS
  <2>6. Whole(<<>>, o, k, M)
    BY <2>4, <2>5, WholeEmpty
  <2>7. ~Sole'
    BY <1>1, <1>6, <2>1 DEF Sole
  <2> QED
    BY <1>1, <1>3, <1>4, <2>1, <2>5, <2>6, <2>7 DEF Wholes, Nowhere
<1> QED
  BY <1>5, <1>6

(* A step that leaves everything on its way.                               *)
LEMMA WholesSame ==
    ASSUME Wholes, Way' = Way, buf'["cbmem"].overflow = buf["cbmem"].overflow,
           printed' = printed, lost' = lost, smis' = smis, Sole' => Sole,
           loaded' # Nothing => loaded' = Position(buf'[current']),
           smis = 0 /\ source' = "pre" =>
               Halfway(Copied(buf["pre"]), pending, Log("cbmem"), buf["cbmem"].overflow,
                       printed, lost)'
    PROVE  Wholes'
<1> SUFFICES ASSUME smis = 0 PROVE Wholes'
  BY DEF Wholes
<1>1. Whole(Way, buf["cbmem"].overflow, printed, lost) /\ (Sole => Once(Way, printed))
  BY DEF Wholes
<1>2. Whole(Way, buf["cbmem"].overflow, printed, lost)'
  BY <1>1
<1>3. (Sole => Once(Way, printed))'
  BY <1>1
<1> QED
  BY <1>2, <1>3 DEF Wholes

LEMMA WholesTxLoad == Shape /\ Wholes /\ TxLoad => Wholes'
<1> SUFFICES ASSUME Shape, Wholes, TxLoad PROVE Wholes'
  OBVIOUS
<1>1. /\ UNCHANGED <<survives, buf, stage, current, pending, source, printed, smis, resets,
                     lost, cut>>
      /\ loaded' = Position(buf[current])
  BY DEF TxLoad
<1>2. Way' = Way /\ Ahead' = Ahead /\ Log("cbmem")' = Log("cbmem")
  BY <1>1 DEF Way, Ahead, Waiting, Log
<1>3. Sole' <=> Sole
  BY <1>1, <1>2 DEF Sole, Kept
<1>4. smis = 0 /\ source' = "pre" =>
          Halfway(Copied(buf["pre"]), pending, Log("cbmem"), buf["cbmem"].overflow,
                  printed, lost)'
  BY <1>1, <1>2 DEF Wholes
<1> QED
  BY <1>1, <1>2, <1>3, <1>4, WholesSame

LEMMA WholesCbmemReady == Shape /\ Wholes /\ CbmemReady => Wholes'
<1> SUFFICES ASSUME Shape, Wholes, CbmemReady PROVE Wholes'
  OBVIOUS
<1>1. /\ UNCHANGED <<survives, stage, loaded, printed, smis, resets, lost, cut>>
      /\ loaded = Nothing /\ source = Nowhere /\ pending = <<>>
  BY DEF CbmemReady, Idle, Shape, Loads
<1>2. /\ Way' = Way
      /\ buf'["cbmem"].overflow = buf["cbmem"].overflow
      /\ source' = current /\ Copied(buf[source])' = Waiting /\ pending' = Waiting
      /\ Ahead' = Ahead /\ Ahead = Waiting
      /\ current \in {"pre", "static"} /\ current' = "cbmem"
  BY ShapeCbmemReady DEF CbmemReady
<1>3. Sole' => Sole
  BY <1>1, <1>2 DEF Sole, Kept, Nowhere
<1>4. ASSUME smis = 0, source' = "pre"
      PROVE  Halfway(Copied(buf["pre"]), pending, Log("cbmem"), buf["cbmem"].overflow,
                     printed, lost)'
  <2>1. PICK C \in Seq(Any) : C = Waiting /\ C \in Seq(Symbol)
    BY AheadIs
  <2>2. PICK B \in Seq(Any) : B = Log("cbmem")
    BY AheadIs
  <2>3. PICK A : A = B \o C
    OBVIOUS
  <2>4. Way = A
    BY <1>2, <2>1, <2>2, <2>3 DEF Way
  <2>5. PICK m \in Nat : m = printed
    BY AheadIs
  <2>6. Ends(A, m, lost) /\ Below(A, m)
    BY <1>4, <2>4, <2>5 DEF Wholes, Whole
  <2>7. (C = <<>> \/ Ends(C, m, lost)) /\ Below(C, m)
    BY <2>3, <2>6, EndPart
  <2>8. C = <<>> \o C /\ <<>> \in Seq(Symbol) /\ DOMAIN <<>> = {}
    BY <2>1, ConcatEmptySeq
  <2>9. \A T, o : Halfway(C, C, T, o, m, lost)
    <3>1. \A T : \A k \in DOMAIN <<>> : \E j \in DOMAIN T : T[j] = <<>>[k]
      BY <2>8
    <3> QED
      BY <2>7, <2>8, <3>1 DEF Halfway
  <2>10. Copied(buf["pre"])' = C /\ pending' = C
    BY <1>2, <1>4, <2>1
  <2> QED
    BY <1>1, <2>5, <2>9, <2>10
<1> QED
  BY <1>1, <1>2, <1>3, <1>4, WholesSame

LEMMA WholesCbmemFull == Shape /\ Wholes /\ CbmemFull => Wholes'
<1> SUFFICES ASSUME Shape, Wholes, CbmemFull PROVE Wholes'
  OBVIOUS
<1>1. /\ loaded' = Nothing /\ source' = Nowhere /\ pending' = <<>> /\ lost' = 1..printed
      /\ printed' = printed /\ printed \in Nat
  BY DEF CbmemFull, Idle, Shape, Loads, ConsoleTypeOK
<1>2. Way' = <<>> /\ Ahead' = <<>>
  BY ShapeCbmemFull
<1>3. PICK m \in Nat : m = printed
  BY <1>1
<1>4. \A o : Whole(<<>>, o, m, 1..m)
  BY WholeEmpty
<1>5. ~Sole'
  BY <1>1, <1>2 DEF Sole
<1> QED
  BY <1>1, <1>2, <1>3, <1>4, <1>5 DEF Wholes, Nowhere

LEMMA WholesCopyDone == Shape /\ Wholes /\ CopyDone => Wholes'
<1> SUFFICES ASSUME Shape, Wholes, CopyDone PROVE Wholes'
  OBVIOUS
<1>1. /\ UNCHANGED <<printed, smis, lost>>
      /\ loaded' = Nothing /\ source' = Nowhere /\ pending' = <<>>
  BY DEF CopyDone, Shape, Loads
<1>2. Way' = Way /\ Ahead' = <<>> /\ buf'["cbmem"] = buf["cbmem"]
  BY ShapeCopyDone
<1>3. ~Sole'
  BY <1>1, <1>2 DEF Sole
<1> QED
  BY <1>1, <1>2, <1>3, WholesSame DEF Nowhere

LEMMA WholesStartRomstage == Shape /\ Wholes /\ StartRomstage => Wholes'
<1> SUFFICES ASSUME Shape, Wholes, StartRomstage PROVE Wholes'
  OBVIOUS
<1>1. /\ UNCHANGED <<survives, current, printed, smis, lost, source, pending>>
      /\ loaded' = Nothing /\ source' = Nowhere
  BY DEF StartRomstage, Idle, Shape, Loads
<1>2. Way' = Way /\ Ahead' = Ahead /\ buf'["cbmem"] = buf["cbmem"]
  BY ShapeStartRomstage, Spaces DEF SameBuffers
<1>3. Sole' <=> Sole
  BY <1>1, <1>2 DEF Sole, Kept
<1> QED
  BY <1>1, <1>2, <1>3, WholesSame DEF Nowhere

LEMMA WholesStartRamstage == Shape /\ Wholes /\ StartRamstage => Wholes'
<1> SUFFICES ASSUME Shape, Wholes, StartRamstage PROVE Wholes'
  OBVIOUS
<1>1. /\ UNCHANGED <<printed, smis, lost>>
      /\ loaded' = Nothing /\ source' = Nowhere /\ pending' = <<>>
  BY DEF StartRamstage, Idle, Shape, Loads
<1>2. Way' = Way /\ Ahead' = <<>> /\ buf'["cbmem"] = buf["cbmem"]
  BY ShapeStartRamstage
<1>3. ~Sole'
  BY <1>1, <1>2 DEF Sole
<1> QED
  BY <1>1, <1>2, <1>3, WholesSame DEF Nowhere

LEMMA WholesPrintInSmm == Shape /\ PrintInSmm => Wholes'
<1> SUFFICES ASSUME Shape, PrintInSmm PROVE Wholes'
  OBVIOUS
<1>1. smis' = smis + 1 /\ smis \in Nat
  BY DEF PrintInSmm, Shape, ConsoleTypeOK
<1>2. smis' # 0
  BY <1>1
<1> QED
  BY <1>2 DEF Wholes

(* What is seen from where the buffer is, is its log.                      *)
LEMMA ViewIs ==
    ASSUME Shape, current = "cbmem", loaded = Position(buf["cbmem"])
    PROVE  View = Log("cbmem")
<1>1. PICK r : r = buf["cbmem"]
  OBVIOUS
<1>2. r \in Rings(CbmemSize) /\ Log("cbmem") = Contents(r)
  BY <1>1, Spaces, RingIs DEF Shape, Places
<1>3. Seen(r, Position(r)) = r
  BY <1>2 DEF Seen, Position, Rings
<1> QED
  BY <1>1, <1>2, <1>3 DEF View

LEMMA WholesTxStore == Shape /\ Wholes /\ TxStore => Wholes'
<1> SUFFICES ASSUME Shape, Wholes, TxStore, smis = 0
             PROVE  Wholes'
  BY DEF Wholes, TxStore
<1>1. /\ UNCHANGED <<survives, current, source, printed, lost>>
      /\ loaded' = Nothing /\ pending' = Tail(pending)
  BY DEF TxStore
<1>m. PICK m \in Nat : m = printed
  BY AheadIs
<1>2. CASE current = "cbmem"
  <2>1. /\ pending # <<>> /\ loaded # Nothing
        /\ Ahead = pending /\ Ahead' = Tail(pending)
        /\ View \in Seq(Any) /\ Takes(View, Log("cbmem")', loaded.overflow, Head(pending))
        /\ loaded.overflow => buf'["cbmem"].overflow
        /\ buf'["pre"] = buf["pre"] /\ Shape'
    BY <1>2, ShapeTxStoreCbmem
  <2>2. loaded = Position(buf["cbmem"])
    BY <1>2, <2>1 DEF Wholes
  <2>3. PICK V \in Seq(Any) : V = Log("cbmem") /\ V = View
    BY <1>2, <2>1, <2>2, ViewIs
  <2>4. PICK P \in Seq(Symbol) : P = pending /\ P # <<>> /\ P \in Seq(Any)
    BY <2>1, AheadIs
  <2>5. PICK o \in BOOLEAN : o = loaded.overflow /\ o = buf["cbmem"].overflow
    <3>1. loaded \in Positions(CbmemSize)
      BY <1>2, <2>1, Spaces DEF Shape, Loads
    <3>2. loaded.overflow \in BOOLEAN
      BY <3>1 DEF Positions
    <3>3. loaded.overflow = buf["cbmem"].overflow
      BY <2>2 DEF Position
    <3> QED
      BY <3>2, <3>3
  <2>6. PICK q \in BOOLEAN : q = buf'["cbmem"].overflow
    <3>1. buf'["cbmem"].overflow \in BOOLEAN
      BY <2>1, Spaces DEF Shape, ConsoleTypeOK
    <3> QED
      BY <3>1
  <2>7. o => q
    BY <2>1, <2>5, <2>6
  <2>8. PICK T : T = Log("cbmem")'
    OBVIOUS
  <2>9. PICK S : S = V \o P
    OBVIOUS
  <2>10. PICK U : U = T \o Tail(P)
    OBVIOUS
  <2>11. Takes(V, T, o, Head(P))
    BY <2>1, <2>3, <2>4, <2>5, <2>8
  <2>12. Stored(S, U, o)
    BY <2>4, <2>9, <2>10, <2>11, StoreShifts, Zenon
  <2>13. /\ S \in Seq(Any) /\ U \in Seq(Any) /\ U # <<>> /\ (~o => U = S)
         /\ U = S \/ Shifts(S, U)
    BY <2>12 DEF Stored
  <2>14. Way' = U /\ Way = S
    BY <2>1, <2>3, <2>4, <2>8, <2>9, <2>10 DEF Way
  <2>15. Whole(S, o, m, lost)
    BY <1>m, <2>5, <2>14 DEF Wholes
  <2>16. Whole(U, q, m, lost)
    <3>1. q \/ Covered(Append(U, m + 1), lost)
      BY <2>7, <2>13, <2>15 DEF Whole
    <3>2. Ends(U, m, lost) /\ Below(U, m)
      BY <2>13, <2>15, EndShifts DEF Whole
    <3> QED
      BY <3>1, <3>2 DEF Whole
  <2>17. Once(S, m) => Once(U, m)
    BY <2>13, EndShifts
  <2>18. Sole' => Once(U, m)
    <3>1. Sole' => Sole
      BY <1>1, <2>1 DEF Sole, Kept
    <3>2. Sole => Once(S, m)
      BY <1>m, <2>14 DEF Wholes
    <3> QED
      BY <2>17, <3>1, <3>2
  <2>19. ASSUME source' = "pre"
         PROVE  Halfway(Copied(buf["pre"]), pending, Log("cbmem"), buf["cbmem"].overflow,
                        printed, lost)'
    <3>1. PICK C : C = Copied(buf["pre"])
      OBVIOUS
    <3>2. Halfway(C, P, V, o, m, lost)
      BY <1>1, <1>m, <2>3, <2>4, <2>5, <2>19, <3>1 DEF Wholes
    <3>3. PICK Q : Q = Tail(P)
      OBVIOUS
    <3>4. Halfway(C, Q, T, q, m, lost)
      BY <2>4, <2>7, <2>11, <3>2, <3>3, HalfwayStep, Zenon
    <3> QED
      BY <1>1, <1>m, <2>1, <2>4, <2>6, <2>8, <3>1, <3>3, <3>4
  <2> QED
    BY <1>1, <1>m, <2>6, <2>14, <2>16, <2>18, <2>19 DEF Wholes
<1>3. CASE current # "cbmem"
  <2>1. /\ Drops(Way, Way') /\ Ahead' = Waiting' /\ source = Nowhere
        /\ loaded # Nothing /\ pending # <<>> /\ buf'["cbmem"] = buf["cbmem"] /\ Shape'
    BY <1>3, ShapeTxStoreEarly
  <2>2. Way \in Seq(Any)
    BY AheadIs
  <2>3. Way' \in Seq(Any)
    <3>1. Shape'
      BY <2>1
    <3>2. (Way \in Seq(Any))'
      BY <3>1, WayIs, PTL
    <3> QED
      BY <3>2
  <2>4. PICK A \in Seq(Any) : A = Way
    BY <2>2
  <2>5. PICK B \in Seq(Any) : B = Way'
    BY <2>3
  <2>6. PICK o : o = buf["cbmem"].overflow
    OBVIOUS
  <2>7. Sole
    BY <2>1 DEF Sole
  <2>8. Whole(A, o, m, lost) /\ Once(A, m)
    BY <1>m, <2>4, <2>6, <2>7 DEF Wholes
  <2>9. Drops(A, B)
    BY <2>1, <2>4, <2>5
  <2>10. Whole(B, o, m, lost) /\ Once(B, m)
    BY <2>8, <2>9, DropsKeep DEF Whole
  <2> QED
    BY <1>1, <1>m, <2>1, <2>5, <2>6, <2>10 DEF Wholes, Nowhere
<1> QED
  BY <1>2, <1>3

LEMMA WholesReset == Shape /\ Wholes /\ Reset => Wholes'
<1> SUFFICES ASSUME Shape, Wholes, Reset, smis = 0
             PROVE  Wholes'
  BY DEF Wholes, Reset
<1>1. /\ loaded' = Nothing /\ source' = Nowhere /\ current' = "pre" /\ pending' = <<>>
      /\ printed' = printed /\ survives' = survives /\ lost \subseteq lost'
  BY DEF Reset
<1>2. /\ Log("cbmem")' = Log("cbmem") /\ buf'["cbmem"] = buf["cbmem"]
      /\ Ahead' = IF Kept THEN Copied(buf["pre"]) ELSE <<>>
  BY ShapeReset DEF Kept
<1>3. ~Sole'
  BY <1>1, <1>2 DEF Sole, Kept
<1>4. PICK m \in Nat : m = printed
  BY AheadIs
<1>5. PICK o : o = buf["cbmem"].overflow
  OBVIOUS
<1>6. PICK L : L = lost
  OBVIOUS
<1>7. PICK M : M = lost' /\ L \subseteq M
  BY <1>1, <1>6
<1>8. PICK B \in Seq(Any) : B = Way
  BY AheadIs
<1>9. Whole(B, o, m, L) /\ (Sole => Once(B, m))
  BY <1>4, <1>5, <1>6, <1>8 DEF Wholes
<1>10. PICK k \in Nat : k = m + 1
  OBVIOUS
<1>11. (o \/ Covered(Append(B, k), L)) /\ Ends(B, m, L) /\ Below(B, m)
  BY <1>9, <1>10 DEF Whole
<1>c. PICK C \in Seq(Any) : C = Log("cbmem") /\ C \in Seq(Symbol)
  BY AheadIs
<1>12. CASE survives /\ source = "pre"
  <2>1. PICK P \in Seq(Any) : P = pending
    BY AheadIs
  <2>2. PICK D : D = Copied(buf["pre"])
    OBVIOUS
  <2>3. Halfway(D, P, C, o, m, L)
    BY <1>4, <1>5, <1>6, <1>c, <1>12, <2>1, <2>2 DEF Wholes
  <2>4. PICK X \in Seq(Any) :
            /\ D = X \o P
            /\ o \/ \A i \in DOMAIN X : \E j \in DOMAIN C : C[j] = X[i]
    <3>1. \A Y \in Seq(Symbol) : Y \in Seq(Any)
      BY SeqMonotonic, Symbols
    <3> QED
      BY <2>3, <3>1 DEF Halfway
  <2>5. D \in Seq(Any) /\ (D = <<>> \/ Ends(D, m, L)) /\ Below(D, m)
    BY <2>3, <2>4, JoinIs DEF Halfway
  <2>6. B = C \o P
    <3>1. current = "cbmem"
      BY <1>12 DEF Shape, Places, Nowhere
    <3>2. Waiting = <<>>
      BY <3>1 DEF Waiting
    <3>3. Ahead = P
      BY <2>1, <3>2, EmptyIs DEF Ahead
    <3> QED
      BY <1>8, <1>c, <3>3 DEF Way
  <2>7. PICK A \in Seq(Any) : A = C \o D
    BY <2>5, JoinIs
  <2>8. Way' = A
    BY <1>2, <1>12, <1>c, <2>2, <2>7 DEF Way, Kept
  <2>9. Below(A, m)
    BY <1>11, <2>5, <2>6, <2>7, EndPart
  <2>10. Ends(A, m, M)
    <3>1. CASE D = <<>>
      <4>1. A = C
        BY <2>7, <3>1, EmptyIs
      <4>2. P = <<>>
        <5>1. PICK x \in Nat : x = Len(X)
          OBVIOUS
        <5>2. PICK p \in Nat : p = Len(P)
          OBVIOUS
        <5>3. x + p = 0
          <6>1. Len(D) = x + p
            BY <2>4, <5>1, <5>2, JoinIs
          <6>2. Len(D) = 0
            BY <3>1
          <6> QED
            BY <6>1, <6>2
        <5>4. p = 0
          BY <5>3
        <5>5. Len(P) = 0
          BY <5>2, <5>4
        <5> QED
          BY <5>5
      <4>3. B = C
        BY <2>6, <4>2, EmptyIs
      <4> QED
        BY <1>7, <1>11, <4>1, <4>3, EndsMore
    <3>2. CASE D # <<>>
      <4>1. Ends(A, m, L)
        BY <2>5, <2>7, <3>2, EndPart
      <4> QED
        BY <1>7, <4>1, EndsMore
    <3> QED
      BY <3>1, <3>2
  <2>11. o \/ Covered(Append(A, k), M)
    <3>1. ASSUME \A i \in DOMAIN X : \E j \in DOMAIN C : C[j] = X[i],
                 Covered(Append(B, k), L)
          PROVE  Covered(Append(A, k), M)
      <4>1. D = X \o P /\ B = C \o P /\ A = C \o D
        BY <2>4, <2>6, <2>7
      <4>2. k \in Any
        BY Symbols
      <4>3. PICK S : S = Append(B, k)
        OBVIOUS
      <4>4. PICK U : U = Append(A, k)
        OBVIOUS
      <4>5. Again(C, X, S, U)
        BY <4>1, <4>2, <4>3, <4>4, Regroups, ZenonT(60)
      <4>6. Covered(U, M)
        BY <1>7, <3>1, <4>3, <4>5, CoverBoth, ZenonT(60)
      <4> QED
        BY <4>4, <4>6
    <3> QED
      BY <1>11, <2>4, <3>1
  <2>12. Whole(A, o, m, M)
    BY <1>10, <2>9, <2>10, <2>11 DEF Whole
  <2> QED
    BY <1>1, <1>2, <1>3, <1>4, <1>5, <1>7, <2>8, <2>12 DEF Wholes, Nowhere
<1>13. CASE ~(survives /\ source = "pre") /\ ShortReset
  <2>1. pending # <<>> => Once(Way, printed)
    BY <1>4, <1>8, <1>9, <1>13 DEF ShortReset, Sole
  <2>2. /\ Way' \in Seq(Any) /\ Way = Way' \o pending
        /\ pending = <<>> \/ (source = Nowhere /\ pending = <<printed>> /\ printed \in lost')
    BY <1>13, <2>1, ShortParts
  <2>3. PICK A \in Seq(Any) : A = Way'
    BY <2>2
  <2>4. PICK P : P = pending /\ P \in Seq(Any)
    BY AheadIs
  <2>5. B = A \o P
    BY <1>8, <2>2, <2>3, <2>4
  <2>a. P = <<>> \/ P = <<m>>
    BY <1>4, <2>2, <2>4
  <2>b. P = <<m>> => m \in M
    BY <1>4, <1>7, <2>2, <2>4
  <2>6. (P = <<>> \/ P = <<m>>) /\ (P = <<m>> => m \in M)
    BY <2>a, <2>b
  <2>c. Covered(Append(B, k), L) => Covered(Append(A, k), M)
    BY <1>7, <2>5, <2>a, <2>b, PartLost
  <2>d. Below(B, m) => Below(A, m)
    BY <2>4, <2>5, EndPart
  <2>7. /\ Covered(Append(B, k), L) => Covered(Append(A, k), M)
        /\ Below(B, m) => Below(A, m)
    BY <2>c, <2>d
  <2>8. Ends(A, m, M)
    <3>1. CASE P = <<>>
      <4>1. B = A
        BY <2>5, <3>1, EmptyIs
      <4> QED
        BY <1>7, <1>11, <4>1, EndsMore
    <3>2. CASE P = <<m>>
      BY <2>6, <3>2 DEF Ends
    <3> QED
      BY <2>6, <3>1, <3>2
  <2>9. Whole(A, o, m, M)
    BY <1>10, <1>11, <2>7, <2>8 DEF Whole
  <2> QED
    BY <1>1, <1>2, <1>3, <1>4, <1>5, <1>7, <2>3, <2>9 DEF Wholes, Nowhere
<1>14. CASE ~(survives /\ source = "pre") /\ LongReset
  <2>1. Way' = C
    BY <1>14, <1>c, LongParts
  <2>2. PICK A \in Seq(Any) : A = Ahead
    BY AheadIs
  <2>3. B = C \o A
    BY <1>8, <1>c, <2>2 DEF Way
  <2>4. \A i \in 1..m : i \in M \/ \E l \in BytesOf(C) : i <= l
    BY <1>4, <1>7, <1>14, <1>c DEF LongReset
  <2>5. /\ Covered(Append(B, m + 1), L) => Covered(Append(C, m + 1), M)
        /\ Below(B, m) => Below(C, m)
    BY <1>7, <1>c, <2>3, <2>4, RestLost
  <2>6. Ends(C, m, M)
    <3>1. CASE A = <<>>
      <4>1. B = C
        BY <2>3, <3>1, EmptyIs
      <4> QED
        BY <1>7, <1>11, <4>1, EndsMore
    <3>2. CASE A # <<>> /\ m # 0 /\ m \notin M
      <4>1. m \in 1..m
        BY <3>2
      <4>2. PICK l \in BytesOf(C) : m <= l
        BY <2>4, <3>2, <4>1
      <4>3. PICK i \in DOMAIN C : C[i] = l /\ l \in Nat
        BY Symbols DEF BytesOf
      <4>4. C[i] <= m
        BY <1>11, <2>5, <4>3 DEF Below
      <4>5. C[i] = m
        BY <4>2, <4>3, <4>4
      <4>6. PICK c \in Nat : c = Len(C)
        OBVIOUS
      <4>7. PICK a \in Nat : a = Len(A) /\ a > 0
        BY <3>2
      <4>8. Len(B) = c + a /\ DOMAIN B = 1..c + a /\ \A j \in 1..c : B[j] = C[j]
        BY <2>3, <4>6, <4>7, JoinParts
      <4>9. i \in 1..c /\ i \in 1..c + a
        <5>1. i \in 1..c
          BY <4>6
        <5> QED
          BY <5>1
      <4>10. B[i] = m
        BY <4>5, <4>8, <4>9
      <4>11. Once(B, m)
        BY <1>9, <1>14, <2>2, <3>2 DEF Sole, Kept, LongReset
      <4>12. i = c + a
        BY <4>8, <4>9, <4>10, <4>11 DEF Once
      <4> QED
        BY <4>7, <4>9, <4>12
    <3>3. CASE m = 0 \/ m \in M
      BY <3>3 DEF Ends
    <3> QED
      BY <3>1, <3>2, <3>3
  <2>7. Whole(C, o, m, M)
    BY <1>10, <1>11, <2>5, <2>6 DEF Whole
  <2> QED
    BY <1>1, <1>2, <1>3, <1>4, <1>5, <1>7, <2>1, <2>7 DEF Wholes, Nowhere
<1> QED
  BY <1>12, <1>13, <1>14, ResetKinds

(* Every step keeps the whole.                                             *)
LEMMA WholesNext == Shape /\ Wholes /\ [ConsoleNext]_console_vars => Wholes'
<1> SUFFICES ASSUME Shape, Wholes, [ConsoleNext]_console_vars PROVE Wholes'
  OBVIOUS
<1>1. CASE PrintByte
  BY <1>1, WholesPrintByte
<1>2. CASE TxLoad
  BY <1>2, WholesTxLoad
<1>3. CASE TxStore
  BY <1>3, WholesTxStore
<1>4. CASE CbmemReady
  BY <1>4, WholesCbmemReady
<1>5. CASE CbmemFull
  BY <1>5, WholesCbmemFull
<1>6. CASE CopyDone
  BY <1>6, WholesCopyDone
<1>7. CASE StartRomstage
  BY <1>7, WholesStartRomstage
<1>8. CASE StartRamstage
  BY <1>8, WholesStartRamstage
<1>9. CASE PrintInSmm
  BY <1>9, WholesPrintInSmm
<1>10. CASE Reset
  BY <1>10, WholesReset
<1>11. CASE UNCHANGED console_vars
  BY <1>11 DEF Wholes, Sole, Kept, Way, Ahead, Waiting, Log, console_vars
<1> QED
  BY <1>1, <1>2, <1>3, <1>4, <1>5, <1>6, <1>7, <1>8, <1>9, <1>10, <1>11 DEF ConsoleNext

(* Nothing is on its way any more.                                         *)
LEMMA WholesUnlessFlagged == Shape /\ Wholes => WholeUnlessFlagged
<1> SUFFICES ASSUME Shape, Wholes, Idle, current = "cbmem", smis = 0, printed \notin lost,
                    NEW C, C = Log("cbmem")
             PROVE  /\ printed > 0 => printed \in BytesOf(C)
                    /\ ~buf["cbmem"].overflow /\ (\A i \in DOMAIN C : C[i] # Warning) =>
                          1..printed \subseteq BytesOf(C) \cup lost
  BY DEF WholeUnlessFlagged
<1>1. Way = C /\ C \in Seq(Any)
  <2>1. Ahead = <<>>
    BY DEF Ahead, Waiting, Idle
  <2> QED
    BY <2>1, AheadIs, EmptyIs DEF Way
<1>2. PICK m \in Nat : m = printed /\ m <= MaxBytes
  <2>1. printed \in Nat /\ printed <= MaxBytes
    BY BoundAssumption DEF Shape, ConsoleTypeOK
  <2> QED
    BY <2>1
<1>3. Whole(C, buf["cbmem"].overflow, m, lost)
  BY <1>1, <1>2 DEF Wholes
<1>4. 1..m \subseteq Byte
  BY <1>2, BoundAssumption DEF Byte
<1>5. ASSUME m > 0 PROVE m \in BytesOf(C)
  <2>1. C # <<>> /\ C[Len(C)] = m
    BY <1>2, <1>3, <1>5 DEF Whole, Ends
  <2>2. Len(C) \in DOMAIN C
    BY <1>1, <2>1
  <2>3. m \in Byte
    BY <1>4, <1>5
  <2> QED
    BY <2>1, <2>2, <2>3 DEF BytesOf
<1>6. ASSUME ~buf["cbmem"].overflow, \A i \in DOMAIN C : C[i] # Warning
      PROVE  1..m \subseteq BytesOf(C) \cup lost
  <2>1. PICK k \in Nat : k = m + 1 /\ k \in Any
    BY Symbols
  <2>2. PICK c \in Nat : c = Len(C)
    BY <1>1
  <2>3. PICK S : S = Append(C, k)
    OBVIOUS
  <2>4. Covered(S, lost)
    BY <1>3, <1>6, <2>1, <2>3 DEF Whole
  <2>5. /\ DOMAIN S = 1..c + 1 /\ S[c + 1] = k /\ DOMAIN C = 1..c
        /\ \A i \in 1..c : S[i] = C[i]
    BY <1>1, <2>1, <2>2, <2>3
  <2> SUFFICES ASSUME NEW n \in 1..m, n \notin lost PROVE n \in BytesOf(C)
    OBVIOUS
  <2>6. PICK l \in 1..c + 1 : l = c + 1
    OBVIOUS
  <2>7. S[l] = k /\ n \in 1..k - 1
    BY <2>1, <2>5, <2>6
  <2>8. PICK i \in 1..l - 1 : S[i] = n \/ S[i] = Warning
    BY <2>1, <2>4, <2>5, <2>7 DEF Covered
  <2>9. i \in 1..c
    BY <2>6
  <2>10. C[i] = n
    BY <1>6, <2>5, <2>8, <2>9
  <2> QED
    BY <1>4, <2>5, <2>9, <2>10 DEF BytesOf
<1> QED
  BY <1>2, <1>5, <1>6

-----------------------------------------------------------------------------
(* The invariant: the shape of the state, the order and the whole.         *)
ConsoleInvariant == Shape /\ Orders /\ Wholes

(* ConsoleInvariant holds in every state.                                  *)
THEOREM ConsoleInvariantHolds == ConsoleSpec => []ConsoleInvariant
<1>1. ConsoleInit => ConsoleInvariant
  BY ShapeInit, OrdersInit, WholesInit DEF ConsoleInvariant
<1>2. ConsoleInvariant /\ [ConsoleNext]_console_vars => ConsoleInvariant'
  BY ShapeNext, OrdersNext, WholesNext DEF ConsoleInvariant
<1> QED
  BY <1>1, <1>2, PTL DEF ConsoleSpec

(* The buffers, positions and counters have their types.                   *)
THEOREM ConsoleTypeCorrect == ConsoleSpec => []ConsoleTypeOK
<1>1. ConsoleInvariant => ConsoleTypeOK
  BY DEF ConsoleInvariant, Shape
<1> QED
  BY <1>1, ConsoleInvariantHolds, PTL

(* The log in cbmem has the bytes in order and once, and where some are    *)
(* missing a reset took them or the warning says so, unless a reset cut a  *)
(* copy: for every size of the buffers, every number of bytes, of bytes    *)
(* printed in SMM and of resets.                                           *)
THEOREM ConsoleInOrder == ConsoleSpec => []InOrder
<1>1. ConsoleInvariant => InOrder
  BY OrdersInOrder DEF ConsoleInvariant
<1> QED
  BY <1>1, ConsoleInvariantHolds, PTL

(* While nothing was printed in SMM, a log without the overflow flag and   *)
(* without a warning lacks nothing but what the resets took, and it ends   *)
(* with the byte printed last.                                             *)
THEOREM ConsoleWhole == ConsoleSpec => []WholeUnlessFlagged
<1>1. ConsoleInvariant => WholeUnlessFlagged
  BY WholesUnlessFlagged DEF ConsoleInvariant
<1> QED
  BY <1>1, ConsoleInvariantHolds, PTL
=============================================================================
