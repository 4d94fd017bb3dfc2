SPECIFICATION Spec
CONSTANTS
    PoolSize = 2
    Batch = 2
    Quantum = 1
    AllocFails = TRUE
    Settings <- AllSettings
    MaxCreate = 3
    MaxTime = 1
    MaxTimeouts = 2
    MaxQueued = 2
INVARIANTS
    CoroutinesAccounted
PROPERTY
    ResumedWhenDue
