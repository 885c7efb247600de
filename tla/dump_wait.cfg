CONSTANTS
    NoOrg = NoOrg
    NotString = NotString
    Keys <- TwoKeys
    Value <- MCValue
    Orgs <- MCOrgs
    Patterns <- OnePattern
    Count = 1
    Initial <- TwoKeys
    MaxChanges = 1
    MaxFailures = 0
    MaxKills = 0
SPECIFICATION Spec
INVARIANTS
    DumpIsComplete
