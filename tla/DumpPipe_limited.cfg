SPECIFICATION Spec
CONSTANTS
    BufSize = 4
    PipeCap = 3
    Limit = 12
    TLMax = 13
    MaxSignals = 3
INVARIANTS
    TypeOK
    InOrder
    Conservation
    LimitObeyed
PROPERTIES
    LimitedDumpEnds
    ReaderServed
    ImplementsByteStream
