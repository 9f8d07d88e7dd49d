SPECIFICATION Spec
CONSTANTS
    ThreadCount = 2
    Ctxs = {x1, x2, x3}
    NoCtx = NoCtx
    MaxChunks = 1
    Failing = {"worker"}
SYMMETRY AnyAddress
INVARIANTS
    SingleOwner
    AcceptsBounded
