----------------------------- MODULE TimerQueue -----------------------------
(***************************************************************************)
(* The timer queue of ramstage, src/src/lib/timer_queue.c: an array-based  *)
(* min heap of pointers to the clients' struct timeout_callback, ordered   *)
(* by expiration.  One iteration of each sift loop is one step, so that    *)
(* the loop invariants can be stated and proved for every capacity; the    *)
(* code runs to completion on the boot processor, so no call starts while  *)
(* pc is not "idle".                                                       *)
(*                                                                         *)
(* Clients only schedule a timer that is not tracked, as timer.h (lines    *)
(* 23-26) requires: the only ones, the yields of thread.c, keep it in the  *)
(* stack frame of the thread that sleeps on it.                            *)
(*                                                                         *)
(* Two calls change nothing and are no actions: timers_run() with an empty *)
(* queue or with a head that is not due.                                   *)
(*                                                                         *)
(* A definition whose name starts with Mutant is the definition below it   *)
(* with a bug, which the properties are shown to catch; nothing uses it.   *)
(***************************************************************************)
EXTENDS Integers, FiniteSets

CONSTANTS Timer,         \* struct timeout_callback objects
          NULL,          \* the null pointer
          MaxEntries,    \* MAX_TIMER_QUEUE_ENTRIES, 64 in the code
          TimeModulus,   \* 2^64: mono_time holds a uint64_t
          LongModulus    \* 2^64 or 2^32: the width of long in (long)us

ASSUME NullAssumption == NULL \notin Timer
ASSUME MaxEntriesAssumption == MaxEntries \in Nat \ {0}
ASSUME TimeAssumption == /\ TimeModulus \in Nat \ {0}
                         /\ LongModulus \in Nat \ {0}

VARIABLES queue,         \* the array of the heap
          num_entries,   \* its used prefix
          expiration,    \* tocb->expiration of every timer
          now,           \* what timer_monotonic_get() returns
          pc,            \* "idle", or the sift loop that is running
          index, tocb,   \* the locals of that loop
          ran,           \* the timer whose callback timers_run() called last
          result         \* what timer_sched_callback() returned last

vars == <<queue, num_entries, expiration, now, pc, index, tocb, ran, result>>

Time == 0..TimeModulus - 1
Slot == 0..MaxEntries - 1
Used == 0..num_entries - 1
Tracked == {queue[i] : i \in Used}

Parent(i) == (i - 1) \div 2
Left(i) == 2 * i + 1
Right(i) == 2 * i + 2

TypeOK ==
    /\ queue \in [Slot -> Timer \cup {NULL}]
    /\ num_entries \in 0..MaxEntries
    /\ expiration \in [Timer -> Time]
    /\ now \in Time
    /\ pc \in {"idle", "insert", "remove"}
    /\ index \in Slot
    /\ tocb \in Timer \cup {NULL}
    /\ ran \in Timer \cup {NULL}
    /\ result \in {"ok", "error"}

Init ==
    /\ queue = [i \in Slot |-> NULL]
    /\ num_entries = 0
    /\ expiration = [t \in Timer |-> 0]
    /\ now = 0
    /\ pc = "idle"
    /\ index = 0
    /\ tocb = NULL
    /\ ran = NULL
    /\ result = "ok"

-----------------------------------------------------------------------------
(* The clock counts up and is only valid for the duration of the boot: it  *)
(* does not pass 2^64 microseconds (timer.h, lines 33-40).                 *)
Tick ==
    /\ now + 1 \in Time
    /\ now' = now + 1
    /\ UNCHANGED <<queue, num_entries, expiration, pc, index, tocb, ran, result>>

(* (long)us < 0                                                            *)
NegativeDelay(us) == 2 * (us % LongModulus) >= LongModulus

Expiry(us) == (now + us) % TimeModulus

MutantOverflowed(us) == FALSE
Overflowed(us) == us # 0 /\ ~(now < Expiry(us))

timer_queue_full == num_entries = MaxEntries

SchedNegative(t, us) ==
    /\ pc = "idle" /\ t \notin Tracked
    /\ NegativeDelay(us)
    /\ result' = "error"
    /\ UNCHANGED <<queue, num_entries, expiration, now, pc, index, tocb, ran>>

(* The expiration is stored before the overflow and the full queue are     *)
(* noticed, and stays in the refused structure.                            *)
SchedRefused(t, us) ==
    /\ pc = "idle" /\ t \notin Tracked
    /\ ~NegativeDelay(us)
    /\ Overflowed(us) \/ timer_queue_full
    /\ expiration' = [expiration EXCEPT ![t] = Expiry(us)]
    /\ result' = "error"
    /\ UNCHANGED <<queue, num_entries, now, pc, index, tocb, ran>>

SchedInsert(t, us) ==
    /\ pc = "idle" /\ t \notin Tracked
    /\ ~NegativeDelay(us) /\ ~Overflowed(us)
    /\ ~timer_queue_full
    /\ expiration' = [expiration EXCEPT ![t] = Expiry(us)]
    /\ queue' = [queue EXCEPT ![num_entries] = t]
    /\ num_entries' = num_entries + 1
    /\ index' = num_entries
    /\ tocb' = t
    /\ pc' = "insert"
    /\ result' = "ok"
    /\ UNCHANGED <<now, ran>>

SiftedUp == index # 0 => expiration[queue[Parent(index)]] <= expiration[tocb]

SiftUp ==
    /\ pc = "insert" /\ ~SiftedUp
    /\ queue' = [queue EXCEPT ![Parent(index)] = tocb,
                              ![index] = queue[Parent(index)]]
    /\ index' = Parent(index)
    /\ UNCHANGED <<num_entries, expiration, now, pc, tocb, ran, result>>

InsertDone ==
    /\ pc = "insert" /\ SiftedUp
    /\ pc' = "idle" /\ index' = 0 /\ tocb' = NULL
    /\ UNCHANGED <<queue, num_entries, expiration, now, ran, result>>

-----------------------------------------------------------------------------
(* timers_run(): the head is due and leaves the heap; the deepest entry    *)
(* takes its place.  With one entry, that entry is the head itself.        *)
RemoveHead ==
    /\ pc = "idle"
    /\ num_entries # 0
    /\ expiration[queue[0]] <= now
    /\ ran' = queue[0]
    /\ num_entries' = num_entries - 1
    /\ tocb' = queue[num_entries - 1]
    /\ queue' = [queue EXCEPT ![0] = queue[num_entries - 1]]
    /\ index' = 0
    /\ pc' = "remove"
    /\ UNCHANGED <<expiration, now, result>>

MutantMinChild == Left(index)

(* Of two children the right one is chosen unless the left is smaller.     *)
MinChild ==
    IF /\ Right(index) < num_entries
       /\ ~(expiration[queue[Left(index)]] < expiration[queue[Right(index)]])
    THEN Right(index)
    ELSE Left(index)

SiftedDown == Left(index) < num_entries =>
                 expiration[tocb] <= expiration[queue[MinChild]]

SiftDown ==
    /\ pc = "remove" /\ ~SiftedDown
    /\ queue' = [queue EXCEPT ![MinChild] = tocb, ![index] = queue[MinChild]]
    /\ index' = MinChild
    /\ UNCHANGED <<num_entries, expiration, now, pc, tocb, ran, result>>

(* The callback of `ran' is now called; it may schedule timers.            *)
RemoveDone ==
    /\ pc = "remove" /\ SiftedDown
    /\ pc' = "idle" /\ index' = 0 /\ tocb' = NULL
    /\ UNCHANGED <<queue, num_entries, expiration, now, ran, result>>

Sched(t, us) == SchedNegative(t, us) \/ SchedRefused(t, us) \/ SchedInsert(t, us)

Next ==
    \/ Tick
    \/ \E t \in Timer, us \in Time : Sched(t, us)
    \/ SiftUp \/ InsertDone
    \/ RemoveHead \/ SiftDown \/ RemoveDone

Spec == Init /\ [][Next]_vars

-----------------------------------------------------------------------------
(* The slots that hold a parent and a child in heap order.                 *)
HeapOrdered(i) == expiration[queue[Parent(i)]] <= expiration[queue[i]]

(* No timer is in two slots: the sift loops move entries and neither lose  *)
(* nor copy one, so the number of entries is the number of armed timers.   *)
NoDuplicate ==
    /\ \A i \in Used : queue[i] \in Timer
    /\ \A i, j \in Used : queue[i] = queue[j] => i = j

(* The comment of timer_queue.c, lines 7-8: no armed timer precedes the    *)
(* head, the only entry timers_run() looks at, so a timer that is due      *)
(* never hides behind one that is not.                                     *)
HeadIsFirst ==
    pc = "idle" => \A i \in Used : expiration[queue[0]] <= expiration[queue[i]]

(* Between calls the array is a min heap.  While an entry is sifted only   *)
(* its own slot may be out of order, and its children are in order with    *)
(* its parent; this makes the invariant inductive.                         *)
SiftInv ==
    /\ pc = "idle" => \A i \in Used \ {0} : HeapOrdered(i)
    /\ pc = "insert" =>
         /\ index \in Used /\ queue[index] = tocb
         /\ \A i \in Used \ {0, index} : HeapOrdered(i)
         /\ index # 0 =>
              \A i \in Used \ {0} : Parent(i) = index =>
                 expiration[queue[Parent(index)]] <= expiration[queue[i]]
    /\ pc = "remove" =>
         /\ index = 0 \/ index \in Used
         /\ num_entries # 0 => queue[index] = tocb
         /\ \A i \in Used \ {0} : Parent(i) # index => HeapOrdered(i)
         /\ index # 0 =>
              \A i \in Used \ {0} : Parent(i) = index =>
                 expiration[queue[Parent(index)]] <= expiration[queue[i]]

(* The heap implements the set of timers: due times never wrap around, a   *)
(* timer is refused only for the three documented reasons, each call of    *)
(* timers_run() fires an earliest due timer, and that timer is no longer   *)
(* tracked, so its callback may schedule it again.                         *)
Abstract == INSTANCE TimerSet WITH
    MaxTime <- TimeModulus - 1,
    Delays <- {d \in Time : ~NegativeDelay(d)},
    due <- [t \in Tracked |-> expiration[t]]

ImplementsTimerSet == Abstract!Spec
=============================================================================
