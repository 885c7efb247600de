# A TLA+ verification project for gromit

gromit is the release-engineering tool of Tyk: it cleans package repositories,
renders CI templates into product repositories and opens pull requests for them,
and dumps the keys of organisations. This project models the parts of it in which
order, concurrency and failure decide what happens, checks them with TLC on small
instances, and proves the central properties with TLAPS for all instances.

Paths are relative to the root of the repository (`src/`).

## 1. Inventory

| Component | State | Operations | Interacts with | What is hard |
|---|---|---|---|---|
| Package cleaning: `cmd/pkgs.go`, `pkgs/client.go` | packages at packagecloud, files under savedir, a channel, worker goroutines | `AllPackages`, `Clean`, `download`, `delete` | retention policy (filter), packagecloud, disk | deleting while paging, truncated files, crashes, blocked producer |
| Retention policy: `pkgs/filter.go`, `plan.go`, `tracks.go` | `pkgs` and `tracks` sections of the configuration | `MakeFilter`, `Satisfies`, `Validate`, `Anchor`, `MinorSeries`, `DeriveCutoff`, `BuildPlan` | cleaning selects with the filter, `pkgs plan` reports | two classifiers that must agree; a window counted in what was released, which cleaning changes |
| Policy sync: `cmd/policy.go`, `policy/policy.go`, `git.go`, `github.go`, `.github/workflows/release.yml` | branches, `releng/` branches and pull requests at GitHub; a work tree; `syncErr` | `ProcessBranch` (fetch, render, commit, push), `CreatePR`, `getPR`, `EnableAutoMerge` | configuration, templates, GitHub, other runs of itself | runs that overlap and overtake each other, with templates that are not merged; forced pushes, requests that are merged under way, errors of one branch among many |
| Pull request commands: `cmd/prs.go` | none of its own | `CreatePR`, `ClosePR`, `UpdatePrBranch`, `Open` | GitHub | retries, requests done and not answered, one failure among many repositories |
| Configuration layering: `GetRepoPolicy`, `mergeBuilds`, `filterBuildsByFeature`, `SetBranch`, `util/set.go` | `Policies`, `RepoPolicy` | pure functions | sync, gen | which layer wins; sharing between branches |
| Template bundle: `policy/bundle.go`, `validator.go`, `tfuncs.go` | a tree of templates | `Add`, `Render`, `write` | sync, gen | which file is rendered when two features have it; which validator applies; what a failing write leaves |
| Organisation keys: `orgs/keys.go`, `restore.go` | a channel and a file per organisation | `scanKeys`, `filterOrg`, `DumpOrgKeys`, `RestoreKeys` | Redis, disk | a wait group that is added to too late; failing scans |
| Test variations, controller: `policy/variations.go`, `controller.go`, `tui.go` | the saved matrix, the site | `parseVariations`, `Lookup`, `GenerateStatic`, `NewParams`, `SetVersions`, `SetOutputs` | static pages, the test workflow | inheritance between levels in any order, partial sites, triggers that overlap, exclusions |
| Tag matching: `policy/manifests.go`, `policy match` | none | `GetMatches`, `Match` | registries | failing registry |
| Hardened image customization: `dhi/`, the refresh step of `plugin-compiler-ng-build.yml` | the remote manifest, its builds | apply script, `EqualCustomizations`, stamp and wait | Docker Hub, each other | idempotence, a manifest written back from a stale copy, builds of others, a release that is repeated |
| Plugin compiler release: the job of `plugin-compiler-ng-build.yml`, `policy/tfuncs.go` | images published | gates, validation and push of each variant | configuration, registry | which steps a configuration renders, with its defaults; a step that fails after some pushes |
| `env/`, `policy/diff.go`, `jira.go`, most of `tfuncs.go`, `confgen`, `config`, `util`, other commands | none | single calls, formatting, set-up | libraries | nothing a model would add |

What makes each correct: cleaning never removes what it has not saved (where it
must) and gets everything in the end; the policy keeps exactly the documented
window and plan and clean agree; what sync reports a pull request for
is on offer, and repeated runs bring every branch to what the newest templates render; a dump is complete when it says
so; layering and rendering are functions of their inputs with the documented
precedence. `PROJECT.json` lists the hazards line by line.

## 2. Modules

| Module | Models | Role |
|---|---|---|
| `RetentionPolicy` | filter.go, tracks.go, plan.go | operators, no state |
| `Retention` | a repository under the policy | extends `RetentionPolicy` |
| `RetentionProofs` | | theorems about `Retention` |
| `PackageClean` | `pkgs clean` | extends `RetentionPolicy`, implements `PackageStore` |
| `PackageStore` | what `pkgs clean` promises | abstract specification |
| `PackageCleanProofs` | | theorems about `PackageClean` |
| `PolicySync` | `policy sync` under the release workflow | |
| `PolicySyncProofs` | | theorems about `PolicySync` |
| `OrgsDump` | `orgs dump` | |
| `OrgsDumpProofs` | | theorems about `OrgsDump` |
| `OrgsRestore` | `RestoreKeys` and `streamKeys` | |
| `OrgsRestoreProofs` | | theorems about `OrgsRestore` |
| `PrCommands` | `prs createprs, deleteprs, updateprs, openprs` | |
| `PrCommandsProofs` | | theorems about `PrCommands` |
| `RepoPolicy` | `GetRepoPolicy`, `mergeBuilds`, `filterBuildsByFeature`, `SetBranch` | |
| `Ordered` | loops over slices that skip elements | operators: sets of numbers as increasing sequences |
| `Bundle` | `NewBundle`, `Add`, `Render`, `write`, `getValidator` | extends `Ordered` |
| `Variations` | the loading of variations and `GenerateStatic` | extends `Ordered` |
| `Controller` | `policy controller` | |
| `ImageMatch` | `policy match` | |
| `Customization` | the dhi script and the refresh step of a release | |
| `CustomizationProofs` | | theorems about `Customization` |
| `CompilerRelease` | the release job of the plugin compiler | |
| `Parts` | | composes the seven parts that run by themselves |
| `PartsProofs` | | theorems about `Parts` |
| `MCRetention`, `MCPackageClean`, `MCPolicySync`, `MCOrgsDump`, `MCPrCommands`, `MCCustomization`, `MCParts` | | instances for TLC |

Definitions named `X_Something` with the comment "Mutant" are faulty versions of
`X`. Nothing uses them; they stand for the mistakes that the properties would
find, and each property has one that violates it.

### RetentionPolicy and Retention

A semantic version is a record of a series (vMAJOR.MINOR) and a patch rank, so
that comparing, `MajorMinor` and pre-releases behave as in `x/mod/semver`; a
version that does not parse is a separate value. The replacement of `~` by `-` and
the leading `v` are part of what a version is. `Satisfies`, `Validate`, `Anchor`,
`MinorSeries`, `DeriveCutoff` and the steps of `BuildPlan` are one operator each.
The sorted slice of series is a set with the position of its members (`Index`).

`Retention` is a repository in time. `Publish` is a release pipeline, `Tick` the
clock, `BumpFeature` an edit of the tracks that `LoadTracks` validates, `Clean` one
deletion of `pkgs clean`, so that any interrupted clean is a sequence of steps. A
plan changes nothing; it is an operator of the state, and the properties speak
about it. Assumptions, as named ASSUMEs: `NowBound`, `VersionsTyped`, and
`ConfigsTyped` and `TracksTyped` (what decoding the configuration can give).

### PackageClean

State: `remote` (packagecloud), `disk` (savedir), the producer (`prod`, `page`,
`todo`, `more`, `failed`), a program counter, item and file offset for each worker,
`phase`/`cur` for the loop over the arguments and `delete`, the flag of the run
(the operator may run the command with and without it). `deleted` is history.

| Actions | Code |
|---|---|
| `Run`, `BeginRepo`, `UnknownRepo`, `EndRepo` | the loop of `cleanSubCmd` with its two `break`s |
| `FetchPage`, `FetchFails`, `SkipItem`, `SendItem`, `PageDone` | `get` and `AllPackages`; the channel is unbuffered, so a send is a receive |
| `OpenFile`, `CreateFile`, `GetPackage`, `CopyBlock`, `DownloadFails` | `download` |
| `DeleteItem`, `DeleteFails`, `KeepItem`, `WorkerDone` | `delete` and the worker loop of `Clean` |
| `Crash` | the process is killed, or `get` dereferences the response of a failed request |
| `Upload` | a pipeline publishes (external) |

A file is a sequence of blocks, so truncation and partial writes are visible. A
request that the server executes and whose answer is lost is `DeleteItem`, since
the worker goes on either way.

Assumptions, as named ASSUMEs: `ChecksumsKnown` (the listing carries the checksum
of the file), `PathsAgree` (within a repository file names are unique; across
repositories files of the same path are the same file), `ConstantsTyped`,
`NoFileIsNoFile`.

### PolicySync

State at GitHub: `base` (the text of the managed files on each branch), `head`
(the commit on `releng/<branch>`: the text it started from and the text it has),
`pull` (none, open, open with auto-merge). The managed files of a branch are one
text: `Rendered` is the text the templates make of it, with deleted files removed,
and a merge is a three-way merge of that text. Each run has the state of
`syncSubCmd`: `ver` (the templates it was built from), the list of branches and the
position in it, and the fetched `tree`. `syncErr` is no variable: all that `syncSubCmd`
makes of it is what the last branch leaves in it, the argument of `Advance`. `exit`, `seen`,
`pusher` and `offer` are history: how the run ended, the branches it processed, who pushed
last to a releng branch without reporting yet, and the templates reported since.

| Actions | Code |
|---|---|
| `MergeToMain`, `StartRun` | a push to main; its run starts when goreleaser is done, before or after that of another push: there is no concurrency group |
| `Dispatch`, `DispatchOther` | workflow_dispatch at any moment, on main or on another ref, for all branches or one, with pull requests or without |
| `PullRequestRun` | a pull request to gromit whose branch ends in `releng` (release.yml:165): all branches, templates that are not merged, pushed but without pull requests |
| `Fetch`, `Commit`, `Push`, `ProcessFails` | `InitGit` and `ProcessBranch`; what happens in the work tree between fetch and push is one step, since nobody else sees it |
| `GetBranch`, `Create`, `ListPR`, `EditPR`, `EnableAutoMerge`, `CreateFails` | the requests of `CreatePR`, one step each |
| `Advance` (part of the above) | `continue`, the end of the loop and `return syncErr` |
| `Merge`, `Edit`, `Close` | GitHub and developers (external) |

`SetBranch` failing on a branch without policy, rendering and validation errors are
all the error return of `ProcessBranch` (`ProcessFails`). The owner, titles and
bodies of requests are data no property depends on. The workflow's inputs `repo` and
`prefix` are left out: a repository is looked at by itself, and another prefix makes other
head branches. `AnyRef` says whether there are runs of other refs and of pull requests.

### OrgsDump and OrgsRestore

`OrgsDump`: the main goroutine (`main`, `cur`, and the scan: `pat`, `left`, `block`), for
each organisation a buffered channel (`channel`, `closed`), a writer goroutine with
its buffer (`writer`, `buf`) and its file, the counter of the wait group (`wg`), and
a database whose keys come and go. `stable` and `seen` are history. A value is
what `getOrgId` can tell apart: whether it decodes, whether it has an org_id at
the top or under user_data, and whether that is a string.

| Actions | Code |
|---|---|
| `Start`, `SpawnWriter`, `ScanBlock`, `ScanFails`, `SendBlock`, `CloseChan`, `WaitReturns` | `NewRedisClient`, `DumpOrgKeys`, `scanKeys`; a SCAN returns any part of what is left, perhaps nothing |
| `Register` | `wg.Add(1)`, a step of the writer |
| `CreateFile`, `CreateFails`, `FilterBlock`, `MGetFails`, `FlushAndClose`, `FlushFails` | `filterOrg` |
| `Expire`, `Add`, `Kill` | Redis clients and the operator (external) |

`OrgsRestore`: `streamKeys` reads lines into a batch, sends full batches over a
channel of two and the rest at the end; `RestoreKeys` receives them. Its
`writeKeys`, whose body is commented out in the code, is the sequence `wrote`. A
line may not parse (skipped) or be longer than the scanner takes (it ends the
reading).

### PrCommands

The loops over repositories and branches (`ri`, `bi`), one GitHub request per
step, requests that are refused, lost, or done by GitHub although the answer never comes,
and others who close, merge or push at any moment. `accepted` and `unseen` are history: how
many updates GitHub accepted, and how many of these were not answered. A nil pull request that the code dereferences is the status "panic".

| Actions | Code |
|---|---|
| `BeginRepo`, `BeginBranch`, `NextBranch`, `Report` | the loops of `createprs` and `processRepo` |
| `FindHead`, `CreateNew`, `CreateUnanswered`, `CreateExists`, `NothingToMerge`, `EditPR`, `EnableAutoMerge`, `RequestReviewers`, `CreateFails`, `AutoMergeFails` | `CreatePR` |
| `ListPR`, `NoPRs`, `ListFails` | `getPR` and what each caller makes of its answers |
| `ClosePR`, `CloseUnanswered`, `CloseFails`, `UpdateBranch`, `UpdateUnanswered`, `UpdateRefused` | `ClosePR`, `UpdatePrBranch` with its attempts |
| `CloseOrMerge`, `SyncPush` | developers, GitHub, `policy sync` (external) |

### Customization

`remote` and `builds` are Docker's; `apc`/`agot` and `rpc`/`rgot`/`rbefore`/`rpolls` are the
positions and copies of the scripts and the releases. A manifest is a body and a
set of annotations, in which a stamp is the release that made it. Each call of
`docker dhi` is a step: `ApplyList`, `ApplyCreate`, `ApplyGet`, `ApplyCompare`,
`ApplyEdit` for the script, `RefreshBefore`, `RefreshGet`, `RefreshStamp`, `RefreshNew`,
`RefreshWait`, `RefreshCheck` for the release. The stamp is `GITHUB_RUN_ID`, which a re-run
of the workflow keeps: `Rerun` starts a release again with the stamp it had, and `again`, history,
remembers it. That an edit which changes nothing
queues no build is Docker's behaviour as the workflow describes it (external).
Assumptions: `ActorsDistinct`, `ManifestsWritten` (a manifest of the repository has no
stamp), `NoneIsNothing`, `PollsBound`.

### Parts

Layering, rendering, variations, controller, matching, the compiler's job and the
restore neither share state nor run at the same time: each is a function, a
command or a job with inputs of its own. `Parts` instantiates them together; in
an execution one of them (`part`) runs and the variables of the others are `None`,
so one run covers them all and its states are the sum of theirs. `MCParts` gives the
constants their values. Assumptions, as named ASSUMEs: `PolicyTyped` (addresses of
builds are those of the heap, only a branch has a build that is null, no build has an
architecture twice), `BundleTyped` (files have a name, and goreleaser's are in a
directory), `BundleApart` (a feature is listed once, a file is walked once and is not where
another needs a directory), `BundleNamed` (in a feature the sub-templates are the files
below a directory `*.d`, and none has the name of the template it is parsed for),
`SiteTyped` (the YAML files decode to trees), `SiteApart` (two repositories of a tree differ in
their concatenated key, two files in their name without extension), `ReposTyped` (the
list of repositories names each once), `ControllerTyped`. The code checks none of
`BundleApart`, `BundleNamed` and `SiteApart`: they hold of the embedded `policy/templates` and of
`config/tui`, and the theorems about rendering and site need them.

Writes that fail do so at any point: the file is not there, empty, cut short (`torn`), or, for
a script, there without its mode. A file that is cut short is not in `out`, so that what the
properties say of `out` is about files that were written completely, and `torn` says which are
there otherwise.

- `RepoPolicy`: the configuration (`config`), the builds on a heap because they are
  pointers (`heap`), the policy being built (`rp`) and the branches left in the order of
  a Go map (`todo`). `FindRepo`, `UnknownRepo`, `ComputeBranch`, `SetBranch`. The
  reference definition the results are compared with looks at the levels from the
  inside out and knows no heap.
- `Bundle`: `WalkFile`/`NextFeature` build the tree and the parse lists of templates;
  `Descend`, `RenderLeaf`, `LeafRefused`, `WriteFails`, `EndRender` are `Render` and
  `write`, with the mode of scripts and `error.yaml`, where refused text goes. A template is
  known by its base name, as in `text/template`. Any template may be broken: not execute, not be
  YAML, or not satisfy its schema.
- `Variations`: `ParseLevel`/`ParseReturn` with the stack of calls (`frames`), levels in the
  order of a map; `DumpFile`, `WritePath`, `GenerateIndex`, `CopyAssets` publish, and `DumpFails`,
  `WritePathFails`, `SiteFails` leave what the failing write leaves, an index without its end
  included. The directory is empty at first, as that of pages.yml:39 is. Names are sequences of parts, so that concatenated keys behave as strings do.
- `Controller`: `ReadParam` for each variable, `FindLts`, `SetVersions`, `SetOutputs`.
- `ImageMatch`: `ReadConfig`, `Authenticate`, `Ask` per repository, `Override`, `PrintLine`.
- `CompilerRelease`: `ResolveBase`, `BuildBase`, and per variant the `Steps`, of which the
  configuration renders those that `Runs` says: `RunStep`, or `SkipStep` for the others;
  `StepFails` ends the job. Values that a configuration leaves out have the defaults of
  tfuncs.go; one of the configurations leaves out all architectures, as the blocks of
  config.yaml do for release-5.8.

## 3. Runs

| Run | Checks | Result |
|---|---|---|
| `retention` | `TypeOK`, `PlanWindow` (`PlanKeepsWindow`, `LongestWindowWins`), `PlanIsStable`, `PlanPreviewsCleanOnSemver`, `WindowMovesForward`, `CleanLeavesWindow` | hold |
| `clean` | `TypeOK`, `RemovedAreSaved`, `WorkersApart` (`OneWorkerPerFile`, `OneRepoAtATime`), `KeepsPromise`, `RunEnds`, `EligibleGetSaved`, `AllEligibleGo` | hold |
| `clean_upload` | `RemovedAreSaved` | violated |
| `sync` | `TypeOK`, `OkMeansProcessed`, `PushHolds` | hold |
| `sync_live` | `PushHolds`, `Converges` | hold |
| `sync_rollback` | `RevertIsSynced` | violated |
| `sync_overtaken` | `MergedIsSynced` | violated |
| `dump` | `TypeOK`, `FlushedIsComplete`, `NothingStale`, `DumpEnds` | hold |
| `dump_wait` | `DumpIsComplete` | violated |
| `prs` | `TypeOK`, `OwnRequestsOnce` (`OthersUntouched`, `AcceptedOnce`), `NothingForgotten` (`EveryBranchProcessed`, `DeleteClosesAll`), `CommandEnds` | hold |
| `customization` | `OnlyStaleReleaseReverts`, `RefreshRebuilds` (`StampQueuesBuild`, `OneStamp`, `NewestBuildChecked`), `AppliesBuildChanges` | hold |
| `parts` | layering: `ConfigUntouched`, `Layered` (`BranchIndependent`, `NoDuplicateBuilds`, `BranchAndValsAgree`); bundle: `RenderingFaithful` (`EveryFileOnce`, `OwnContent`, `LaterFeatureWins`, `ScriptsExecutable`); site: `SiteFaithful` (`PagesInherit`, `EveryPathPublished`, `IndexMatchesPages`); controller: `TestsFitBuild` (`VersionsUseBuild`, `TriggerFitsBranch`, `MatrixKeepsValues`, `PrRunsAPart`); matching: `ImagesMatch` (`ImagesExist`, `OneRegistry`); compiler: `GatesHold` (`PushedIsGated`, `ExtraPlatformsGated`, `BaseFitsSteps`); restore: `KeysRestored` (`KeysInFlight`, `AllRestored`); all: `EveryPartEnds` | hold |

A property followed by names in parentheses is their conjunction.

Bounds, and why they are enough:

- `retention`: six series, one of them with a pre-release, and a nightly. The longest
  window has depth three below an anchor, so the window can be full with a series left to
  prune and one above the anchor; a shorter list would never leave the clamp. The
  clock has three values: uploaded at the age cutoff, before it, after it. Three tracked
  configurations (one edition; two, whose anchors differ; two with an age cutoff and an
  exception) and two static ones (a version cutoff with an age cutoff and exceptions that need
  not be semantic versions; a cutoff that does not parse). The track starts with the current
  feature in the series of the current LTS and is bumped to the next.
- `clean*`: two workers (a race needs two), two repositories (backed up with a
  version cutoff and an exception; not backed up with an age cutoff) and, in
  `clean`, an unknown one, five packages of which one is published late and listed
  first, pages of one or two so that there are several pages and the page boundary
  falls between selected packages, files of two blocks (one block could not be
  partial), two failures (a crash after a failed request, or two crashed runs).
- `sync*`: two runs at a time, each of which may be started again and again. In `sync`
  two branches, for the error handling between branches, of which a change and its revert
  concern one, so that a run finds one branch changed and one not; runs of other refs and pull
  requests (`AnyRef`); one failure. In `sync_live` one branch, two merges (a change and
  its revert), one failure and one intervention by others; `AnyRef` is off, since `Converges`
  speaks of what happens when runs with other templates have stopped. One run and no failure
  suffice for the two violations.
- `dump*`: two organisations (one channel fills while the other's writer runs), two
  patterns, a channel for one block, values of each kind, one key that comes or
  goes, one failure, one killed run and its repetition.
- `prs`: two known repositories around an unknown one, two branches, requests of
  gromit and of developers for the same bases and heads, one failure and one
  change by others. Two failures of one command add nothing: after the first the
  loop is where it would be without it, or the command has ended.
- `customization`: one script and two releases (two stamps race, and a script comes
  between reading and writing), an image there before, with an annotation, that the
  script has to replace, two platforms, one poll, one failing call or repeated release. The
  releases and the platforms are symmetric.
- `parts`: layering over 288 configurations that give a value, a feature or a build
  at any subset of the levels; five lists of features, with a shared file and with
  two files of one base name; trees of variations with two suites, a branch
  besides master and a level too many; seven forms of branch; four repositories
  with targets with and without registry, tag and credentials; compiler
  configurations with and without architectures, extra platforms and cross builds; dumps
  of up to seven lines, batches of two and a channel for two, so that both fill up and a
  rest remains.

The `retention`, `prs`, `customization` and `parts` runs do not check for deadlock: the
clock is bounded, and a command, script or job ends. All others do.

Fairness. `PackageClean`: goroutines that can proceed do, requests return (bounded
failures aside), and the command is run again when it has ended: retention is a
recurring job, and both properties that rely on it speak of repeated runs.
`RunEnds` uses only the first two; `AllEligibleGo` says itself that it needs
`--delete` again and again. `PolicySync`: runs proceed; a full run with `--pr`
is started again and again, because each merge to gromit's main branch starts one
(strong fairness, since runs for a single branch may take the runner); GitHub
merges a mergeable request that has auto-merge. Runs with other templates than main's
have stopped (`AnyRef` is off): as long as somebody syncs other templates again and again,
nothing can be said of where a branch ends up. Nothing is assumed about requests
without auto-merge or about developers. `OrgsDump`: the main goroutine and the
writers proceed when they can. `PrCommands`: the command goes on, since requests are
answered or fail. `Parts`: a process that can proceed does.

### What the violated properties say

1. `clean_upload`: "removed packages are downloaded before being removed". If a
   package is published during a clean, the listing shifts back, one package goes
   to two workers, the first saves and deletes it, and the second, which had looked
   at the file before, truncates it and cannot download it any more.
2. `sync_rollback`: "Sync will create corrective PRs" after a revert. If the request
   of the bad change is still open, the run for the revert sees an unchanged
   branch and skips it; auto-merge then lands the bad change. `sync_live` shows that
   repeated runs repair this.
3. `sync_overtaken`: a merge "creates or updates PRs in each target repo". Of two merges the
   later may be synced first; the run of the earlier then fetches, forces its older rendering
   over the request of the newer, which auto-merge lands. Both runs report success and
   nothing offers the newest templates until somebody merges or dispatches again.
4. `dump_wait`: "Dumps keys from redis". `wg.Add(1)` is the first statement of the
   writer and not of its parent, so `Wait` may return before a writer has
   registered, and the command ends with a file that is not written.

### Other disagreements met while modelling

What the models say of the code here differs from a comment or a document; no
run is kept for them, and the properties above are stated so that they hold.

| Code | What it does | What is said |
|---|---|---|
| `pkgs/plan.go:130` | a package whose version is not semantic is retained by the plan and removed by the clean once it is too old | plan.go:77: the plan is "a preview of what `pkgs clean` would do today" |
| `.github/workflows/release.yml:165` | a run for a pull request of a `releng` branch forces templates that are not merged over releng/<branch>; if a request from main's templates is open there with auto-merge, it is what GitHub merges | README.md:404: sync runs "when changes are merged to gromit's main branch" |
| `cmd/policy.go:174` | the error of `CreatePR` for a branch that is not the last is overwritten by the next branch (also at line 203) and the command succeeds | cmd/policy.go:127: "a PR will be created with the changes" |
| `orgs/keys.go:148` | a failing SCAN ends the pattern, a failing MGET drops its block, errors of Write and Flush are ignored | cmd/orgs.go:55 |
| `cmd/prs.go:100` | after an error of `CreatePR` the nil request is dereferenced; a branch without `<prefix><branch>` is enough | cmd/prs.go:55: "PRs will be created for the branches with <prefix>" |
| `policy/github.go:180` | `ClosePR` logs the number of a nil request when Edit fails | cmd/prs.go:116 |
| `policy/github.go:210` | an accepted update (202) is returned and printed as a failure | cmd/prs.go:133: "This will fail if there are conflicts" |
| `policy/github.go:203` | an update that GitHub accepted is requested again, up to three times, when the answer is lost | |
| `policy/policy.go:299` | `cgo: false` at an inner level does not override `true` (IgnoreEmpty) | policy.go:25: "override any of the values at upper levels" |
| `policy/policy.go:279` | fields of the repository itself are never taken from the group | policy.go:145: "The group level is applicable for all the repos in that group" |
| `policy/validator.go:50` | the schema for workflows is never applied: the directory is `workflows`, not `workflow`, and paths are shorter than asked for | bundle.go:126 |
| `policy/app/index.html:75` | the link to the dump of a `.yaml` file keeps the extension that the dump's address lacks | tui.go:31 |
| `cmd/policy.go:85` | `IS_LTS` is not among the parameters | cmd/policy.go:84: "having IS_LTS last sets the trigger correctly" |
| `cmd/policy.go:258` | without credentials the nil map of `Matches{}` is written to | cmd/policy.go:255: a warning, and on |
| `cmd/policy.go:260` | a current image whose repository is not in the list is not printed | cmd/policy.go:237: "passed straigth as override image" |
| `dhi/apply-plugin-compiler-customization.sh:68` | two runs that overlap both create a customization, after which every run is an error | dhi/README.md:37 |
| `plugin-compiler-ng-build.yml:189` | a release writes back the manifest it read, undoing an edit in between | manifest.go:59: the stamp "describes nothing about the desired image" |
| `plugin-compiler-ng-build.yml:162` | the run id is the same when a release is repeated, so that the edit may be a no-op, no build is queued and the release only warns | line 120: "stamp the run id into an annotation purely to make the manifest unequal" |
| `plugin-compiler-ng-build.yml:432` | with the default architectures (tfuncs.go:258 to 270; release-5.8 in config.yaml) the images of EE and FIPS cross-build for s390x, which is validated for CE only | build.sh:397: `ee` and `ee-fips` have amd64/arm64 |
| `plugin-compiler-ng-build.yml:212` | builds still in progress after the last poll count as rebuilt | line 211: "Wait for every platform build to settle" |
| `plugin-compiler-ng-build.yml:477` | variants before the one that exercises an extra platform are pushed for it first | line 439: "nothing has been published yet" |

## 4. Proofs

All theorems hold for any finite set of packages and any branches, configurations,
templates, numbers of workers, runners, pages, blocks and failures. The inductive
invariants are defined at the head of each proof module, or of its section in
`PartsProofs`.

`PackageCleanProofs`, under the assumption that nothing is published while the
command runs (`clean_upload` shows it is needed):

- `Invariance`: `Spec => []IndInv`. `RemovedAreSaved` alone is not inductive. `IndInv`
  adds `InFlight` (what is in flight belongs to the repository of the turn and was
  selected), `ListedOnce` (whatever was listed is in front of the next page, so it
  is not listed again and is in one hand at most), `GoneForGood` (a removed package
  is in no hand) and `FilesKnown` (what each worker knows of its file at each step).
  `ListedOnce` rests on the lemma `PositionShrinks`: deleting can only move a package
  forward in the listing, an argument about cardinalities.
- `RemovedAreSavedAlways`, `WorkersDisjoint`, `TypeCorrect`: the invariants of the run
  `clean`.
- `Refinement`: `Spec => KeepsPromise`, the step-by-step simulation of `PackageStore`
  with the mapping `saved <- packages whose file is complete`.

`RetentionProofs`. `TypeCorrect` is inductive as it stands (`LoadTracks` refuses a track
that `Validate` refuses), and the state properties follow from it:

- `PlanPreviewsCleanAlways`: the two classifiers agree, compared condition by condition.
- `PlanWindowAlways` (`PlanKeepsWindow`, `LongestWindowWins`) rests on lemmas about
  `Index`, the position of a series among the released ones. `Index` counts the series
  below; it is strictly monotone and, being an injection between sets of the same
  finite cardinality, takes every value (`IndexOnto`), so that "`depth` positions below
  the anchor" and "`depth` released series in between" are the same
  (`BetweenCount`, `CutoffCounts`).
- `PlanIsStableAlways` uses `CutoffKept` (removing series below the cutoff moves every
  position by the same amount), `WindowMovesForwardAlways` uses `CutoffForward`.
- `CleanLeavesWindowAlways`. Its first statement had a weaker hypothesis, that the series of
  the static cutoff is at most the plan's. The proof failed for a reason: a cutoff of
  v5.3.2 selects v5.3.1, and when that is the only package of its series a retained
  series disappears. The property now says of the packages what it needs, and
  holds in the run and in general.

`PolicySyncProofs`, for any number of runs, overlapping in any order, of any templates,
merged or not: `Invariance`, `TypeCorrect`, `OkMeansProcessedAlways`, `PushHoldsAlways`, without
further hypotheses. The strengthening `Progress` says that a run has processed the
branches before the one it is at, and that one too when it is at its pull request. `PushInv`
follows what was pushed, as long as nobody else is at the branch: releng/<branch> has
it, or it was merged and releng/<branch> deleted (`Pushed`); and from the moment on that CreatePR
has seen or made the request, it is open or the branch has the text (`Requested`). It is what makes
the two lookups of CreatePR safe although auto-merge comes between them and the push. That a
later run may push something else is not excluded but is what ends the claim: which run should
win the code does not say, and `sync_overtaken` shows that the wrong one may.

`OrgsDumpProofs`: `Invariance`, `TypeCorrect`, `FlushedIsCompleteAlways`,
`NothingStaleAlways`, without further hypotheses. The core of `IndInv` is `Accounted`:
until something fails, a key that was there all along is ahead of the scan, in the
block, in the channel of its organisation, in the buffer or in the file.
`SpawnedInTurn` and `ClosedIsScanned` tie writers and channels to the position of the
main goroutine. The counter of the wait group is the cardinality of the registered
writers; that it can be zero while a writer is spawned is what `dump_wait` shows.

`OrgsRestoreProofs`: `Invariance`, `KeysInFlightAlways`, `AllRestoredAlways`, for every
dump, batch size and capacity. Instead of concatenating what was written, the channel
and the batch, which would be a recursion, the invariant says that every good line
read is somewhere (`OnItsWay`), that nothing else is (`OnlyGood`), and that line
numbers increase within and between the three (`InOrder`); increasing numbers mean
that none is repeated. `ReadToTheEnd` says where the reader may have stopped.

`PrCommandsProofs`: `Invariance`, `TypeCorrect`, `OwnRequestsOnceAlways`,
`NothingForgottenAlways`. The invariant is about what lies behind the loops (`Behind`):
such places were processed (`Visited`), hold no open request that was not reported
(`ClosedBehind`), and accepted updates are there (`AcceptedBehind`). `InHand` says that the
request the command holds is gromit's, at the place of the loops. `Few`, of updates, counts those
that were accepted and not answered against the attempts that are left. For
`OwnRequestsOnceAlways` no repository may be named twice (`ArgsDistinct`): an argument
given twice is worked through twice.

`CustomizationProofs`: `Invariance` and `RefreshRebuildsAlways` for any scripts, releases,
platforms, polls and failures; the invariant knows that a release's stamp is nowhere
before it stamps for the first time (`StampFresh`), so that only a repeated one may find its
stamp there, and that a batch somebody stopped waiting for early is
done (`Waited`). `OnlyStaleReleaseRevertsAlways` for scripts that want one manifest
(`OneManifest`): two that want different ones undo each other and should.
`AppliesBuildChangesAlways` for one script among any releases (`OneScript`): two
overlapping scripts may compare before either has edited.

`PartsProofs`. Each part has an invariant of its own under `part = "..."`:

- `ImagesMatchAlways`: `MatchInv` says what the matches found so far are (`Matched`), in
  terms of the repositories asked (`Asked`), and what each printed line is (`Lines`).
- `LayerInvariance`, `ConfigUntouchedAlways`, `LayeredAlways`: `LayerInv` says that a build of
  a computed branch is null, one of the configuration or a copy made for that branch
  (`OwnBuilds`), so computing the next branch cannot change it; and that no build lists
  an architecture twice (`NoDoubles`). `InnermostWins` is the lemma that merging from the
  outside in gives what looking from the inside out finds.
- `TestsFitBuildAlways`: `TestsInv` has one conjunct per stage of the controller. That the
  exclusions leave every value of the matrix is shown by a job for each
  (`JobsLeft`, `MatrixLeft`).
- `KeysRestoredAlways`: from the theorems of `OrgsRestoreProofs`.
- `RenderingFaithfulAlways`: `RenderingInv` says of the tree that every node has a place, and a
  directory only one (`Placed`), that its leaves are the files added, in order
  (`Listed`), and that the templates behind the walk were added once (`AddedOnce`); of
  the traversal that the children of a seen node are seen or on the agenda, in
  order (`Traversed`), and that of the leaves seen the last one with a path is what is
  written there (`Written`). What the recursive search of `Add` finds (`FoundFolders`), and
  that an empty agenda leaves no node out (`AllSeen`), is shown by a least
  counterexample (`SmallestMember`) instead of an induction. `OwnContent` turned out to
  need no disjoint features and is stated without. Only an error leaves a file cut short or a script
  without its mode.
- `SiteFaithfulAlways`: while files are read, the loaded ones are flattened completely
  (`FilesLoaded`) and every repository of the current one is flattened or pending in the
  stack of calls, whose frames hold what they inherit (`Parsing`); while pages are
  written, those there are right (`PagesRight`), those whose turn has come are there
  (`InProgress`), and the index comes last (`IndexLast`). `Whole` says that no file is cut short
  unless there was an error, so that a site without error has all of it. Below are lemmas on `Sorted`
  and `Selected`, by which `removeDuplicates` keeps first occurrences in order.
- `GatesHoldAlways`: `JobInv` says which of the three kinds of steps are behind the job for
  the variant it is at (`StepsDone`) and for what was pushed (`PushedAfter`). The
  hypothesis `CompilerFits` is what the comments of the code demand of a
  configuration: the gate's platform is one of the image's (tfuncs.go:339), `ExtraGateVariant`
  names one variant (tfuncs.go:362), and only architectures are listed that the cross image has
  toolchains for (Dockerfile.base:150). It admits the defaults; what these leave ungated is the
  exception in `PushedIsGated`. The configurations of the run `parts` satisfy it.

The hypotheses of theorems are satisfied by the instances of the runs: `ArgsDistinct` by
`prs`, `OneManifest` and `OneScript` by `customization`, `CompilerFits` by `parts`.

Every invariant and every action property without fairness that a passing run checks is
stated by a theorem. Only model-checked: the liveness properties `RunEnds`,
`EligibleGetSaved`, `AllEligibleGo`, `Converges`, `DumpEnds`, `CommandEnds` and `EveryPartEnds`. They
need fairness, which is out of the prover's reach.

## 5. Not modelled

Left out, and why: `env`, `confgen`, `jira`, `diff`, `util/gpg*`, `statsd`, `secrets`, the
other commands (single calls, formatting or set-up without state); of `tfuncs.go`
what formats text; the MongoDB dump of `orgs dump`, which runs mongodump; the text
of the templates and schemas; the other workflows and the scripts that are
rendered into product repositories, which do not run in gromit. Within the modelled
parts, lifetimes of keys, Redis clusters, byte counts, rate limits, titles and
bodies of requests and the layout of reports are left out.

Hazards without a property: files of one path in two repositories
(`PathsAgree` assumes they are the same), packages without a checksum
(`ChecksumsKnown`), two overlapping runs of the dhi script; and, since the code does what it
should not and a property that holds would have to excuse it, the error of CreatePR that a
later branch overwrites, the keys of a failed SCAN or MGET, and builds in progress that
count as rebuilt. The models have these, and they are listed among the disagreements.
Pages of an earlier generation in a directory that is used again are not modelled: the
workflow generates into one that does not exist before.
