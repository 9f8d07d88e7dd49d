SPECIFICATION FairSpec
CONSTANTS
    ThreadCount = 2
    Ctxs = {x1, x2}
    NoCtx = NoCtx
    MaxChunks = 1
    Failing = {"worker"}
PROPERTIES
    RequestsEnd
    ShutdownReturns
