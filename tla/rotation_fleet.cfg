SPECIFICATION Spec
CONSTANTS
    KIDs <- MCKIDs
    Materials <- MCMaterials
    Second = 2
    Skew = 1
    Garbage = Garbage
    Replicas = {1, 2}
    Offset <- OneAhead
    Plan <- LearnPrependDrop
    Wait = 5
    HandlerMax = 1
    StateTTL = 2
    MaxTime = 11
    MaxIssued = 2
INVARIANTS
    TypeOK
    RotationSafe
    DrainedBeforeDrop
    NeverFuture
