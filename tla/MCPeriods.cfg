SPECIFICATION Spec
CONSTANTS
    Prngs <- MCPrngs
    Cyclic <- MCCyclic
    Mixers <- MCMixers
    Seeds <- MCSeeds
    init <- MCinit
    call <- MCnext
    Period <- MCPeriod
    Copies <- MCCopies
INVARIANTS
    FullPeriod
    EveryOutputEquallyOften
    LeavesZeroSeed
    ProductsNotQuadratic
    HalvesToldApart
    PlatformsAgree
