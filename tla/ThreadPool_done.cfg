SPECIFICATION Spec
CONSTANTS
    NumWorkers = 1
    Jobs = {j1, j2}
    NoJob = NoJob
    MaxStarts = 1
PROPERTY TrueMeansDone
