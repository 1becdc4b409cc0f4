SPECIFICATION Spec
CONSTANTS
    W = 128
    Generators <- AllGenerators
    ValuesOf <- SparseValues
    MaxWords = 2
    MaxBits = 9
INVARIANTS
    UnitsAreWords
    NoBitWasted
    EveryBitRandom
    UniformBitsIsLog
