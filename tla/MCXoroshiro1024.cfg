SPECIFICATION Spec
CONSTANTS
    W = 2
    N = 3
    A = 1
    B = 1
    C = 1
    Objects = {o1, o2}
    Seeds <- MCSeeds
    Positions = {0, 1, 2}
    Zero <- MCZero
    Iota <- MCIota
    Step <- MCStep
    Discards = 2
    MaxCalls = 3
INVARIANTS
    TypeOK
    NeverZero
    StreamsApart
PROPERTIES
    ImplementsShiftRegister
