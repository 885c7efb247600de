CONSTANTS
    Nightly = Nightly
    NonSemver = {Nightly}
    NoString = NoString
    Packages <- MCPackages
    RepoOf <- MCRepoOf
    Order <- MCOrder
    Detail <- MCDetail
    Path <- MCPath
    Content <- MCContent
    Checksum <- MCContent
    Config <- MCConfig
    Args <- UnknownLast
    Workers = {w1, w2}
    PageSize = 2
    NBlocks = 2
    Now = 5
    Initial <- MCInitial
    UploadsDuringClean = FALSE
    MaxFailures = 2
    Hole = Hole
    NoFile = NoFile
    NoPackage = NoPackage
SPECIFICATION FairSpec
INVARIANTS
    TypeOK
    RemovedAreSaved
    WorkersApart
PROPERTIES
    KeepsPromise
    RunEnds
    EligibleGetSaved
    AllEligibleGo
