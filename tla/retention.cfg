\* The clock is bounded, so a repository in which all is published and nothing is
\* selected may rest.
CONSTANTS
    NonSemver = {nightly}
    NoString = NoString
    Versions <- AllVersions
    Configs <- MCConfigs
    InitialTracks <- MCTracks
    MaxNow = 2
SPECIFICATION Spec
INVARIANTS
    TypeOK
    PlanWindow
    PlanIsStable
    PlanPreviewsCleanOnSemver
PROPERTIES
    WindowMovesForward
    CleanLeavesWindow
CHECK_DEADLOCK FALSE
