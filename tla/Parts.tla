------------------------------- MODULE Parts -------------------------------
(***************************************************************************)
(* The parts of the system that run by themselves and share nothing while  *)
(* they do: the layering of the configuration, the rendering of a bundle,  *)
(* the site of test variations, the test controller, the image matching,   *)
(* the restore of a dump and the job that releases the plugin compiler.    *)
(* An execution is one of a part (`part`); the variables of the others     *)
(* have the value None.                                                    *)
(***************************************************************************)
EXTENDS Naturals, Sequences, FiniteSets

CONSTANTS
    Kinds, \* the parts to look at
    None, Nil,
    PolicyConfigs, BranchNames, Lower, PolicyRepos,
    Files, Path, Walk, SubTemplates, SubOf, DotD, YamlNames, GoreleaserNames,
    ScriptNames, NotFormatted, OpDirLen, FeatureLists, MaxBad, MaxFailures,
    Dirs, Saved, Master, ProdStem,
    Jobs, RepoNames, Refs, TagLists,
    ImageRepos, Targets, Overrides, Registries,
    CompilerConfigs, Bases,
    MaxLines, BatchSize, ChanCap

\* What a configuration is decoded to: addresses of builds are those of the heap, none
\* of them that of a copy; only a branch may have a build that is null (mergeBuilds
\* dereferences those of the repo); no build has an architecture twice.
ASSUME PolicyTyped ==
    \A c \in PolicyConfigs :
        /\ Nil \notin DOMAIN c.heap
        /\ \A a \in DOMAIN c.heap : \A i, j \in 1 .. Len(c.heap[a].archs) :
              i # j => c.heap[a].archs[i] # c.heap[a].archs[j]
        /\ \A g \in DOMAIN c.groups : \A r \in DOMAIN c.groups[g].repos :
              LET repo == c.groups[g].repos[r] IN
              /\ \A k \in DOMAIN repo.vals.builds : repo.vals.builds[k] \in DOMAIN c.heap
              /\ \A b \in DOMAIN repo.branches :
                    LET own == repo.branches[b].builds IN
                    /\ \A k \in DOMAIN own : own[k] \in DOMAIN c.heap \union {Nil}
                    /\ \A k \in DOMAIN repo.vals.builds :
                          <<"copy", b, k>> \notin DOMAIN c.heap \union {Nil}

\* The walk of a feature finds files, which have a name; goreleaser's configurations are
\* below a directory (policy/templates/releng/ci/goreleaser).
ASSUME BundleTyped ==
    /\ OpDirLen \in Nat
    /\ \A w \in DOMAIN Walk : Walk[w] \in Seq(Files)
    /\ \A f \in Files : /\ Path[f] \in Seq(STRING) \ {<<>>}
                        /\ Path[f][Len(Path[f])] \in GoreleaserNames => OpDirLen + Len(Path[f]) > 2

\* A list of features has no repeats, and a file is walked once; no file is where another
\* one needs a directory, or has a directory's name.
ASSUME BundleApart ==
    /\ \A l \in FeatureLists : l \in Seq(STRING) /\ \A i, j \in 1 .. Len(l) : l[i] = l[j] => i = j
    /\ \A w, x \in DOMAIN Walk : \A i \in 1 .. Len(Walk[w]) : \A j \in 1 .. Len(Walk[x]) :
          Walk[w][i] = Walk[x][j] => w = x /\ i = j
    /\ SubTemplates \in Seq(Files) /\ None \notin DotD
    /\ \A f \in Files : LET p == Path[f] IN
          /\ p[Len(p)] \notin DotD
          /\ \A g \in Files : Len(p) < Len(Path[g]) => \E i \in 1 .. Len(p) : p[i] # Path[g][i]

\* In a feature the sub-templates are the files below a directory named *.d, and none that
\* is parsed for a template has the template's name (policy/templates).
ASSUME BundleNamed ==
    \A w \in DOMAIN Walk : \A i \in 1 .. Len(Walk[w]) : LET f == Walk[w][i] IN
        /\ SubOf[f] = None <=> \A j \in 1 .. Len(Path[f]) - 1 : Path[f][j] \notin DotD
        /\ SubOf[f] = None =>
              \A g \in Files : SubOf[g] = f \/ (\E j \in 1 .. Len(SubTemplates) : SubTemplates[j] = g) =>
                  Path[g][Len(Path[g])] # Path[f][Len(Path[f])]

\* The YAML files of a directory are decoded to trees: a level is below one that is
\* there, and has a matrix, which may be empty.
ASSUME SiteTyped ==
    /\ \A d \in Dirs : /\ Len(d) \in Nat
                       /\ \A i \in 1 .. Len(d) : d[i].ext \in {"yaml", "yml"} => d[i] \in DOMAIN Saved
    /\ \A f \in DOMAIN Saved : LET t == Saved[f] IN
          /\ <<>> \in DOMAIN t
          /\ \A q \in DOMAIN t :
                /\ q \in Seq(Seq(STRING)) /\ t[q] \in [env : Seq(STRING), lists : Seq(STRING)]
                /\ \A n \in 0 .. Len(q) : SubSeq(q, 1, n) \in DOMAIN t

\* Each repository of the list is one.
ASSUME ReposTyped ==
    /\ ImageRepos \in Seq(Seq(STRING))
    /\ \A i, j \in 1 .. Len(ImageRepos) : ImageRepos[i] = ImageRepos[j] => i = j

\* A trigger that is not set is none; alfa and beta are no repositories.
ASSUME ControllerTyped ==
    /\ None \notin {"is_pr", "is_tag", "is_lts"}
    /\ RepoNames \intersect {"alfa", "beta"} = {}

VARIABLES
    part,
    config, heap, rp, group, branchesTodo,
    features, bad, renderPc, fi, wi, added, tree, agenda, rendered, out, torn, errorYaml,
    renderFailures,
    dir, sitePc, di, frames, v, av, filesTodo, cur, pi, site, siteTorn, siteFailures,
    env, controllerPc, pn, params, versions, matrix, exclude,
    target, override, holds, matchPc, ri, matches, asked, printed,
    cfg, event, source, jobPc, base, vi, si, passed, published,
    lines, next, batch, chan, spc, wrote, rpc

layerVars == <<config, heap, rp, group, branchesTodo>>
renderVars ==
    <<features, bad, renderPc, fi, wi, added, tree, agenda, rendered, out, torn, errorYaml, renderFailures>>
siteVars == <<dir, sitePc, di, frames, v, av, filesTodo, cur, pi, site, siteTorn, siteFailures>>
controllerVars == <<env, controllerPc, pn, params, versions, matrix, exclude>>
matchVars == <<target, override, holds, matchPc, ri, matches, asked, printed>>
jobVars == <<cfg, event, source, jobPc, base, vi, si, passed, published>>
restoreVars == <<lines, next, batch, chan, spc, wrote, rpc>>
vars == <<part, layerVars, renderVars, siteVars, controllerVars, matchVars, jobVars, restoreVars>>

Layer == INSTANCE RepoPolicy WITH
    Configs <- PolicyConfigs, Names <- BranchNames, Repos <- PolicyRepos, Nothing <- None,
    todo <- branchesTodo

Render == INSTANCE Bundle WITH pc <- renderPc, failures <- renderFailures

Site == INSTANCE Variations WITH
    pc <- sitePc, todo <- filesTodo, out <- site, torn <- siteTorn, failures <- siteFailures

\* Two repositories of a tree differ in their key (the names one after the other,
\* variations.go:126), and two YAML files of a directory in their name without its
\* extension and one s.  The code does not check it; the files of config/tui are so.
ASSUME SiteApart ==
    /\ \A f \in DOMAIN Saved : \A p, q \in {r \in DOMAIN Saved[f] : Len(r) = 4} :
          p[4] \o p[2] \o p[3] \o p[1] = q[4] \o q[2] \o q[3] \o q[1] => p = q
    /\ \A d \in Dirs : \A i, j \in {k \in 1 .. Len(d) : d[k].ext \in {"yaml", "yml"}} :
          Site!Tsv(d[i]) = Site!Tsv(d[j]) => d[i] = d[j]

Tests == INSTANCE Controller WITH pc <- controllerPc

Match == INSTANCE ImageMatch WITH Repos <- ImageRepos, pc <- matchPc

Job == INSTANCE CompilerRelease WITH Configs <- CompilerConfigs, pc <- jobPc

Keys == INSTANCE OrgsRestore

-----------------------------------------------------------------------------
Init ==
    /\ part \in Kinds
    /\ IF part = "layer" THEN Layer!Init
       ELSE config = None /\ heap = None /\ rp = None /\ group = None /\ branchesTodo = None
    /\ IF part = "render" THEN Render!Init
       ELSE /\ features = None /\ bad = None /\ renderPc = None /\ fi = None /\ wi = None /\ added = None
            /\ tree = None /\ agenda = None /\ rendered = None /\ out = None /\ torn = None
            /\ errorYaml = None /\ renderFailures = None
    /\ IF part = "site" THEN Site!Init
       ELSE /\ dir = None /\ sitePc = None /\ di = None /\ frames = None /\ v = None /\ av = None
            /\ filesTodo = None /\ cur = None /\ pi = None /\ site = None
            /\ siteTorn = None /\ siteFailures = None
    /\ IF part = "controller" THEN Tests!Init
       ELSE /\ env = None /\ controllerPc = None /\ pn = None /\ params = None
            /\ versions = None /\ matrix = None /\ exclude = None
    /\ IF part = "match" THEN Match!Init
       ELSE /\ target = None /\ override = None /\ holds = None /\ matchPc = None
            /\ ri = None /\ matches = None /\ asked = None /\ printed = None
    /\ IF part = "job" THEN Job!Init
       ELSE /\ cfg = None /\ event = None /\ source = None /\ jobPc = None /\ base = None
            /\ vi = None /\ si = None /\ passed = None /\ published = None
    /\ IF part = "restore" THEN Keys!Init
       ELSE /\ lines = None /\ next = None /\ batch = None /\ chan = None
            /\ spc = None /\ wrote = None /\ rpc = None

LayerNext ==
    /\ part = "layer" /\ Layer!Next
    /\ UNCHANGED <<part, renderVars, siteVars, controllerVars, matchVars, jobVars, restoreVars>>
RenderNext ==
    /\ part = "render" /\ Render!Next
    /\ UNCHANGED <<part, layerVars, siteVars, controllerVars, matchVars, jobVars, restoreVars>>
SiteNext ==
    /\ part = "site" /\ Site!Next
    /\ UNCHANGED <<part, layerVars, renderVars, controllerVars, matchVars, jobVars, restoreVars>>
ControllerNext ==
    /\ part = "controller" /\ Tests!Next
    /\ UNCHANGED <<part, layerVars, renderVars, siteVars, matchVars, jobVars, restoreVars>>
MatchNext ==
    /\ part = "match" /\ Match!Next
    /\ UNCHANGED <<part, layerVars, renderVars, siteVars, controllerVars, jobVars, restoreVars>>
JobNext ==
    /\ part = "job" /\ Job!Next
    /\ UNCHANGED <<part, layerVars, renderVars, siteVars, controllerVars, matchVars, restoreVars>>
RestoreNext ==
    /\ part = "restore" /\ Keys!Next
    /\ UNCHANGED <<part, layerVars, renderVars, siteVars, controllerVars, matchVars, jobVars>>

Next == LayerNext \/ RenderNext \/ SiteNext \/ ControllerNext \/ MatchNext \/ JobNext \/ RestoreNext

\* A process that can proceed does.
Spec == Init /\ [][Next]_vars /\ WF_vars(Next)

-----------------------------------------------------------------------------
(* The properties of the parts *)

\* Whatever branches and repositories were computed, the builds of the configuration
\* are as they were decoded (mergeBuilds copies, policy.go:335).
ConfigUntouched == part = "layer" => Layer!ConfigUntouched

\* The values of a branch are what the levels define for it, in whichever order
\* branches and repositories are computed (GetRepoPolicy, policy.go:286), no build has
\* an architecture twice (policy.go:337), and the branch that is set and the values in
\* use belong together, also after a name that is unknown (SetBranch, policy.go:234).
Layered ==
    part = "layer" => Layer!BranchIndependent /\ Layer!NoDuplicateBuilds /\ Layer!BranchAndValsAgree

\* A rendering without error has made the file of every template once, and no other
\* (Bundle.Render; cmd/policy.go:55), none of them cut short, and its scripts are
\* executable; a file comes from its own template, although templates are known by their
\* base name (bundle.go:220), and of two features that have the same file the later
\* one's remains.
RenderingFaithful ==
    part = "render" => /\ Render!EveryFileOnce /\ Render!OwnContent /\ Render!LaterFeatureWins
                       /\ Render!ScriptsExecutable

\* A page holds what its path inherits from the levels above it, whatever the order in
\* which levels and files are taken (parseVariations, Lookup); a site made without error
\* has a page for every repository of every tree and no other (tui.go:81), its index, and
\* no file cut short by a write that failed; an index that was completed lists the pages
\* there are, which say the same (generateIndex).
SiteFaithful ==
    part = "site" => Site!PagesInherit /\ Site!EveryPathPublished /\ Site!IndexMatchesPages

\* The image that was just built is the one tested, on all gateways (SetVersions,
\* controller.go:117), by a matrix that fits the branch and the event (NewParams,
\* controller.go:142), from which exclusions take no value away and of which a pull
\* request runs a part (SetOutputs, controller.go:55).
TestsFitBuild ==
    part = "controller" => /\ Tests!VersionsUseBuild /\ Tests!TriggerFitsBranch
                           /\ Tests!MatrixKeepsValues /\ Tests!PrRunsAPart

\* An image that is printed is the current one, one the registry has, or master, also
\* when requests fail (GetMatches, checkTagExists); all but the current one come from the
\* registry of the target and have its tag where it exists (ParseImageName, Match).
ImagesMatch == part = "match" => Match!ImagesExist /\ Match!OneRegistry

\* An image is pushed after its full gate and the validation of every architecture it
\* cross-builds for, s390x of EE and FIPS excepted, also when a later step or variant
\* fails (steps of plugin-compiler-ng-build.yml); a job that succeeds has exercised every extra platform
\* with as many variants as configured (GatesExtraPlatforms, tfuncs.go:362), and no step
\* needs a platform that the base of the run lacks (ExtraImagePlatforms).
GatesHold == part = "job" => Job!PushedIsGated /\ Job!ExtraPlatformsGated /\ Job!BaseFitsSteps

\* No key is lost, repeated or reordered between the dump and the caller (streamKeys),
\* which has had every key in the end, those of the last batch included (restore.go:45).
KeysRestored == part = "restore" => Keys!KeysInFlight /\ Keys!AllRestored

\* Every command and job ends: rendering, publishing and matching come to an end with
\* every template, tree and answer, and the two goroutines of the restore never wait for
\* each other for good (restore.go:40).
EveryPartEnds ==
    <>(\/ part = "layer"
       \/ part = "render" /\ renderPc \in {"ok", "error", "panic"}
       \/ part = "site" /\ sitePc \in {"ok", "error"}
       \/ part = "controller" /\ controllerPc = "ok"
       \/ part = "match" /\ matchPc \in {"ok", "error", "panic"}
       \/ part = "job" /\ jobPc \in {"ok", "failed"}
       \/ part = "restore" /\ rpc = "done")
=============================================================================
