SPECIFICATION Spec
CONSTANTS
    p1 = p1
    p2 = p2
    Listed <- MCListed
    ShortSeeds <- MCShortSeeds
    UserOptions <- MCUserOptions
    Reports = 2
    MaxRuns = 2
    AtOnce = 2
    Hole = Hole
INVARIANTS
    AllTestedIfNoneGiven
