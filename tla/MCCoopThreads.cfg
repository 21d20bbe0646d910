SPECIFICATION FairSpec
CONSTANTS
    NumThreads = 3
    Handle = {h1}
    NoHandle = NoHandle
    Mutex = {m}
    MaxDelay = 1
    MaxNesting = 2
INVARIANTS TypeOK OnePlace RunnableChain HandlesTruthful MutualExclusion
PROPERTIES CriticalSection SleepersResume
