CONSTANTS
    Branches <- OneBranch
    Templates <- Reverted
    Before = 0
    Runners = {r1}
    NoRef = NoRef
    AutoMerge = TRUE
    Edited = 9
    AnyRef = FALSE
    MaxEdits = 0
    MaxFailures = 0
SPECIFICATION Spec
INVARIANTS
    RevertIsSynced
