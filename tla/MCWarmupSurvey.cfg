SPECIFICATION Spec
CONSTANT
    next <- MCnext
INVARIANTS
    WarmupIsLongEnough
    SurveysTheObject
