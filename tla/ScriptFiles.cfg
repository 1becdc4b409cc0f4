SPECIFICATION Spec
CONSTANTS
    p1 = p1
    p2 = p2
    Listed <- MCListed
    ShortSeeds <- MCShortSeeds
    UserOptions <- MCUserOptions
    Reports = 2
    MaxRuns = 3
    AtOnce = 1
    Hole = Hole
INVARIANTS
    TypeOK
    RunsWhatWasAsked
    OutputsAreOwn
    FoldingAsPrinted
