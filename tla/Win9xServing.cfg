SPECIFICATION FairSpec
CONSTANTS
    Capacity = 1
    Workers = {w1, w2}
    MaxConns = 2
    Handles = {h1, h2}
    Ctxs = {x1, x2}
    NoCtx = NoCtx
    NoHandle = NoHandle
    MaxChunks = 1
    Failing = {"malloc", "join"}
INVARIANTS
    TypeOK
    ContextPlaced
    OwnConnection
    NoSocketLost
PROPERTIES
    RequestsEnd
    StopEnds
