CONSTANTS
    Branches <- MCBranches
    Templates <- Reverted
    Before = 0
    Runners = {r1, r2}
    NoRef = NoRef
    AutoMerge = TRUE
    Edited = 9
    AnyRef = TRUE
    MaxEdits = 0
    MaxFailures = 1
SPECIFICATION Spec
INVARIANTS
    TypeOK
    OkMeansProcessed
    PushHolds
SYMMETRY AnyRunner
