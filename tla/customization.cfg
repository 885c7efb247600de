CONSTANTS
    Applies = {a1}
    Releases = {r1, r2}
    Platforms = {amd64, arm64}
    Bodies = {"old", "new"}
    Notes = {"note"}
    Want <- MCWant
    Initials <- MCInitials
    MaxPolls = 1
    MaxFailures = 1
    None = None
SYMMETRY MCSymmetry
SPECIFICATION Spec
INVARIANTS
    OnlyStaleReleaseReverts
    RefreshRebuilds
PROPERTY
    AppliesBuildChanges
CHECK_DEADLOCK FALSE
