SPECIFICATION FairSpec
CONSTANTS
    MaxStarts = 3
    MaxNesting = 2
    Users = {"waits", "reenters"}
    Failing = {"pool", "associate", "accept"}
INVARIANTS
    TypeOK
    OneListener
    StopOffered
    NoSocketLeft
PROPERTIES
    OwnSocketOnly
    ServerStops
    GuiReturns
