SPECIFICATION Spec
CONSTANTS
    BufSize = 2
    PipeCap = 4
    Limit = 0
    TLMax = 5
    MaxSignals = 2
PROPERTIES
    NoOrphan
    ReaderServed
