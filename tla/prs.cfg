CONSTANTS
    Args <- MCArgs
    BranchesOf <- MCBranchesOf
    Branches <- MCBranches
    Prefixed <- MCPrefixed
    DevHead = DevHead
    InitialPRs <- MCInitialPRs
    AutoMerge = TRUE
    Reviewers = TRUE
    Commands = {"create", "delete", "update", "open"}
    AllBranches = AllBranches
    MaxFailures = 1
    MaxEvents = 1
SPECIFICATION FairSpec
INVARIANTS
    TypeOK
    NothingForgotten
    OwnRequestsOnce
PROPERTIES
    CommandEnds
CHECK_DEADLOCK FALSE
