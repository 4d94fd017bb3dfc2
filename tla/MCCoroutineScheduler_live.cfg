SPECIFICATION FairSpec
CONSTANTS
    PoolSize = 2
    Batch = 2
    Quantum = 1
    AllocFails = FALSE
    Settings <- Threads
    MaxCreate = 2
    MaxTime = 1
    MaxTimeouts = 2
    MaxQueued = 2
PROPERTIES
    AnswerResumes
    SleeperResumes
    TerminateEnds
