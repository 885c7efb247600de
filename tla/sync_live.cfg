CONSTANTS
    Branches <- OneBranch
    Templates <- Reverted
    Before = 0
    Runners = {r1, r2}
    NoRef = NoRef
    AutoMerge = TRUE
    Edited = 9
    AnyRef = FALSE
    MaxEdits = 1
    MaxFailures = 1
SPECIFICATION FairSpec
INVARIANTS
    PushHolds
PROPERTIES
    Converges
