CONSTANTS
    NoOrg = NoOrg
    NotString = NotString
    Keys <- MCKeys
    Value <- MCValue
    Orgs <- MCOrgs
    Patterns <- MCPatterns
    Count = 1
    Initial <- MCInitial
    MaxChanges = 1
    MaxFailures = 1
    MaxKills = 1
SPECIFICATION FairSpec
INVARIANTS
    TypeOK
    FlushedIsComplete
    NothingStale
PROPERTIES
    DumpEnds
