SPECIFICATION Spec
CONSTANTS
    KIDs <- MCKIDs
    Materials <- MCMaterials
    Second = 1
    Skew = 1
    Garbage = Garbage
    Replicas = {1, 2}
    Offset <- InStep
    Plan <- PrependDrop
    Wait = 4
    HandlerMax = 1
    StateTTL = 1
    MaxTime = 6
    MaxIssued = 2
INVARIANTS
    RotationSafe
