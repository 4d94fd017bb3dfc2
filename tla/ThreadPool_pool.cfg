SPECIFICATION LiveSpec
CONSTANTS
    NumWorkers = 2
    Jobs = {j1, j2}
    NoJob = NoJob
    MaxStarts = 2
INVARIANTS
    JobInOnePlace
    
PROPERTIES
    JobRuns
    CallsReturn
