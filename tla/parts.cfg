\* The parts end.
CONSTANTS
    Kinds = {"layer", "render", "site", "controller", "match", "job", "restore"}
    None = None
    Nil = Nil
    PolicyConfigs <- MCPolicyConfigs
    BranchNames = {"master", "release", "Master", "none"}
    Lower <- MCLower
    PolicyRepos = {"tyk", "pump", "unknown"}
    Files <- MCFiles
    Path <- MCPath
    Walk <- MCWalk
    SubTemplates <- MCSubTemplates
    SubOf <- MCSubOf
    DotD = {"release.yml.d"}
    YamlNames = {"release.yml", "zizmor.yml", "goreleaser.yml"}
    GoreleaserNames = {"goreleaser.yml"}
    ScriptNames = {"test.sh"}
    NotFormatted = {}
    OpDirLen = 1
    FeatureLists <- MCFeatureLists
    MaxBad = 1
    MaxFailures = 1
    Dirs <- MCDirs
    Saved <- MCSaved
    Master <- master
    ProdStem = "prod-variation"
    Jobs = {"ui"}
    RepoNames = {"tyk", "tyk-analytics", "tyk-pump", "tyk-automated-tests"}
    Refs <- MCRefs
    TagLists <- MCTagLists
    ImageRepos <- MCRepos
    Targets <- MCTargets
    Overrides <- MCOverrides
    Registries = {"ecr", "docker.io"}
    CompilerConfigs <- MCCompilerConfigs
    Bases <- MCBases
    MaxLines = 7
    BatchSize = 2
    ChanCap = 2
SPECIFICATION Spec
INVARIANTS
    ConfigUntouched
    Layered
    RenderingFaithful
    SiteFaithful
    TestsFitBuild
    ImagesMatch
    GatesHold
    KeysRestored
PROPERTY
    EveryPartEnds
CHECK_DEADLOCK FALSE
