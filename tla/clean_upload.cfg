CONSTANTS
    Nightly = Nightly
    NonSemver = {Nightly}
    NoString = NoString
    Packages <- MCPackages
    RepoOf <- MCRepoOf
    Order <- MCOrder
    Detail <- MCDetail
    Path <- MCPath
    Content <- MCContent
    Checksum <- MCContent
    Config <- MCConfig
    Args <- MCArgs
    Workers = {w1, w2}
    PageSize = 1
    NBlocks = 2
    Now = 5
    Initial <- MCInitial
    UploadsDuringClean = TRUE
    MaxFailures = 2
    Hole = Hole
    NoFile = NoFile
    NoPackage = NoPackage
SPECIFICATION Spec
INVARIANTS
    RemovedAreSaved
