SPECIFICATION Spec
CONSTANTS
    Prngs = {p1, p2}
    Seeds = {"default", "random"}
    SeedLists <- MCShortAndLong
    Reports = 1
    Jobs = 2
    CutStatuses = {"ok", "bad"}
    MaxRuns = 2
    MaxBenchmarks = 2
SYMMETRY Symmetry
INVARIANTS
    TypeOK
    ResultsMatchOutputs
    AllTested
    BenchmarkComplete
PROPERTIES
    OwnResultsOnly
