SPECIFICATION Spec
CONSTANTS
    ThreadCount = 2
    Ctxs = {x1, x2}
    NoCtx = NoCtx
    MaxChunks = 1
    Failing = {"listener", "join", "io", "worker"}
SYMMETRY AnyAddress
INVARIANTS
    TypeOK
    NoOtherLeak
PROPERTIES
    ImplementsExchange
