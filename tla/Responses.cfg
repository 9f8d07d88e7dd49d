SPECIFICATION FairSpec
CONSTANTS
    BufSize = 8
    TailReserve = 2
    IntroLen = 3
    ParentLen = 2
    FooterLen = 2
    RowLens = {1, 2, 6}
    MaxEntries = 4
    FileSizes = {0, 1, 8, 11, 30, 31, 40}
    SizeModulus = 32
INVARIANTS
    TypeOK
    ChunkFits
    EachEntryOnce
    LengthKept
PROPERTIES
    ImplementsDelivery
    EachStepAdvances
