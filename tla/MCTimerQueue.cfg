\* Five timers and four entries: a heap of depth three, and a call can find
\* the queue full.  A long is narrower than the clock, as on 32-bit x86.
SPECIFICATION Spec
CONSTANTS
    Timer = {t1, t2, t3, t4, t5}
    NULL = NULL
    MaxEntries = 4
    TimeModulus = 4
    LongModulus = 3
SYMMETRY TimerSymmetry
CHECK_DEADLOCK FALSE
INVARIANTS HeadIsFirst
PROPERTY ImplementsTimerSet
