SPECIFICATION Spec
CONSTANTS
    Prngs = {p1, p2}
    Seeds = {"random"}
    SeedLists <- MCLong
    Reports = 3
    Jobs = 2
    CutStatuses = {"ok", "bad"}
    MaxRuns = 2
    MaxBenchmarks = 1
INVARIANTS
    GoodReachedTlmaxOrCut
PROPERTIES
    EveryRunEnds
