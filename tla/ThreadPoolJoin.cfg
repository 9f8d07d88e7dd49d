SPECIFICATION FairSpec
CONSTANTS
    MaxPendingWork = 2
    ThreadCount = 2
    Callers = {listener}
    Jobs = {j1, j2, j3}
    NoJob = NoJob
    NoSlot = NoSlot
    NoThread = NoThread
    Late = {"busy"}
INVARIANTS
    TypeOK
    SlotsConserved
    SignalAccounting
    WokenFindsWork
    ExclusiveAccess
PROPERTIES
    ImplementsWorkQueue
    QueuedIsDequeued
    ShutdownReturns
