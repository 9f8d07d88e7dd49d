SPECIFICATION Spec
CONSTANTS
    MaxPendingWork = 2
    ThreadCount = 2
    Callers = {listener}
    Jobs = {j1, j2, j3}
    NoJob = NoJob
    NoSlot = NoSlot
    NoThread = NoThread
    Late = {}
INVARIANTS
    EachJobRunOnce
