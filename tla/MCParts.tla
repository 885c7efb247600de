------------------------------ MODULE MCParts ------------------------------
(* Small instances of the parts, for TLC. *)
EXTENDS Parts, TLC

-----------------------------------------------------------------------------
(* The configuration *)

Level ==
    [owner |-> None, ports |-> None, text |-> None, cgo |-> "unset",
     tests |-> None, plugin |-> None, features |-> {}, deleted |-> {}, builds |-> <<>>]

Build(feature, archs, environment) ==
    [feature |-> feature, text |-> None, archs |-> archs, flags |-> archs, env |-> environment]

\* A standard build of the repo, one that needs a feature, the branch's version of
\* the first, and a build that only the branch has.
Std == <<"config", "std">>
Fips == <<"config", "fips">>
BranchStd == <<"config", "branchstd">>
Own == <<"config", "own">>
Heap ==
    Std :> Build(None, <<"amd64", "arm64">>, <<"A">>)
        @@ Fips :> Build("fips", <<"amd64">>, <<>>)
        @@ BranchStd :> Build(None, <<"amd64">>, <<"B">>)
        @@ Own :> Build("fips", <<>>, <<"C">>)

RepoBuilds == "std" :> Std @@ "fips" :> Fips
BranchBuildMaps == {<<>>, "std" :> BranchStd, "std" :> Nil @@ "own" :> Own}

Config(g, r, master, lts) ==
    [owner |-> "policy", deleted |-> {"old"}, heap |-> Heap,
     groups |-> "services" :> [vals |-> g, repos |->
         "tyk" :> [vals |-> r, branches |-> "master" :> master @@ "release" :> lts]
             @@ "pump" :> [vals |-> Level, branches |-> "master" :> Level]]]

\* A value given or not at each level, a feature that comes from any of them, and
\* builds of either branch.
MCPolicyConfigs ==
    LET Given(x) == {None, x}
        Maybe(x) == {{}, {x}}
        Group(t, f) == [Level EXCEPT !.text = t, !.plugin = t, !.features = f]
        R(t, f) == [Level EXCEPT !.text = t, !.features = f, !.builds = RepoBuilds,
                                 !.owner = t, !.deleted = f]
        Branch(t, f, bs) == [Level EXCEPT !.text = t, !.plugin = t, !.tests = t,
                                          !.features = f, !.builds = bs]
    IN  {Config(Group(gt, gf), R(rt, {}), Branch(bt, bf, bs), Branch(None, {}, os)) :
             gt \in Given("g"), gf \in Maybe("fips"), rt \in Given("r"), bt \in Given("b"),
             bf \in Maybe("fips"), bs \in BranchBuildMaps, os \in BranchBuildMaps}

\* Viper has turned the names of the configuration to lower case.
MCLower == "master" :> "master" @@ "release" :> "release" @@ "Master" :> "master"
               @@ "none" :> "none"

-----------------------------------------------------------------------------
(* The bundle *)

\* The workflow with a sub-template, two files of one base name, a goreleaser
\* configuration and a script of feature releng; feature `other` has a workflow of its
\* own, feature `overlap` one that releng has.
MCPath ==
    "wf" :> <<".github", "workflows", "release.yml">>
        @@ "sub" :> <<".github", "workflows", "release.yml.d", "jobs.gotmpl">>
        @@ "zizmorwf" :> <<".github", "workflows", "zizmor.yml">>
        @@ "zizmorcfg" :> <<".github", "zizmor.yml">>
        @@ "gorel" :> <<"ci", "goreleaser", "goreleaser.yml">>
        @@ "script" :> <<"ci", "test.sh">>
        @@ "dup" :> <<".github", "workflows", "release.yml">>
        @@ "shared" :> <<"shared.gotmpl">>
MCFiles == DOMAIN MCPath
MCWalk ==
    "releng" :> <<"wf", "sub", "gorel", "script">>
        @@ "zizmor" :> <<"zizmorwf", "zizmorcfg">>
        @@ "overlap" :> <<"dup">>
MCSubTemplates == <<"shared">>
MCSubOf == [f \in MCFiles |-> IF f = "sub" THEN "wf" ELSE None]
MCFeatureLists ==
    {<<"flag">>, <<"releng">>, <<"releng", "zizmor">>, <<"flag", "overlap", "releng">>,
     <<"releng", "flag", "zizmor">>}

-----------------------------------------------------------------------------
(* The variations *)

ProdFile == [stem |-> "prod-variation", s |-> 1, ext |-> "yml"]
TestFile == [stem |-> "test-variation", s |-> 1, ext |-> "yml"]
ReadmeFile == [stem |-> "README", s |-> 0, ext |-> "md"]
YamlFile == [stem |-> "nightly-variation", s |-> 1, ext |-> "yaml"]

MCDirs == {<<ReadmeFile>>, <<YamlFile>>, <<ReadmeFile, ProdFile, TestFile>>}

Mat(e, l) == [env |-> e, lists |-> l]

api == <<"api">>
ui == <<"ui">>
master == <<"master">>
old == <<"release", "5">>
pr == <<"pull">>
push == <<"push">>
tyk == <<"tyk">>
dash == <<"tyk", "analytics">>

\* Two suites, a branch besides master in one of them, environments and lists of
\* their own at different depths, and a value that comes from two levels.
Tree ==
    <<>> :> Mat(<<"e0">>, <<"p0">>)
        @@ <<api>> :> Mat(<<>>, <<"p1", "p0">>)
        @@ <<api, master>> :> Mat(<<"e1">>, <<"p0">>)
        @@ <<api, master, pr>> :> Mat(<<>>, <<>>)
        @@ <<api, master, pr, tyk>> :> Mat(<<"e2">>, <<>>)
        @@ <<api, master, pr, dash>> :> Mat(<<>>, <<"p2">>)
        @@ <<api, master, push>> :> Mat(<<"e0">>, <<>>)
        @@ <<api, master, push, tyk>> :> Mat(<<>>, <<"p1">>)
        @@ <<api, old>> :> Mat(<<"e3">>, <<>>)
        @@ <<api, old, pr>> :> Mat(<<>>, <<>>)
        @@ <<api, old, pr, tyk>> :> Mat(<<>>, <<>>)
        @@ <<ui>> :> Mat(<<"e4">>, <<>>)
        @@ <<ui, master>> :> Mat(<<>>, <<>>)
        @@ <<ui, master, push>> :> Mat(<<>>, <<>>)
        @@ <<ui, master, push, tyk>> :> Mat(<<"e5">>, <<>>)

\* A tree with a level too many.
Deep ==
    <<>> :> Mat(<<"e0">>, <<>>)
        @@ <<api>> :> Mat(<<>>, <<>>)
        @@ <<api, master>> :> Mat(<<>>, <<>>)
        @@ <<api, master, pr>> :> Mat(<<>>, <<"p0">>)
        @@ <<api, master, pr, tyk>> :> Mat(<<"e1">>, <<>>)
        @@ <<api, master, pr, dash>> :> Mat(<<>>, <<"p0">>)
        @@ <<api, master, pr, tyk, ui>> :> Mat(<<"e9">>, <<>>)

MCSaved == ProdFile :> Tree @@ TestFile :> Deep @@ YamlFile :> Deep

-----------------------------------------------------------------------------
(* The controller *)

Release(minor, patch, suffix) ==
    [release |-> TRUE, major |-> 5, minor |-> minor, patch |-> patch, suffix |-> suffix]

\* master, release-5-lts, release-5, release-5.0.3, release-5.8, release-5.8.1 and
\* release-5.0-5.1.
MCRefs ==
    {[release |-> FALSE, major |-> 0, minor |-> None, patch |-> None, suffix |-> None],
     Release(None, None, "lts"), Release(None, None, None), Release(0, 3, None),
     Release(8, None, None), Release(8, 1, None), Release(0, None, "major.1")}

MCTagLists == {<<>>, <<"sha-1", "v5.8.1">>}

-----------------------------------------------------------------------------
(* The images *)

MCRepos == <<<<"tyk-ee">>, <<"tyk-analytics">>, <<"tyk-pump">>, <<"tyk-sink">>>>
Name(parts, tag) == [parts |-> parts, tag |-> tag]
\* Of the registries of the targets, quay has no credentials.
MCTargets ==
    {Name(<<"ecr", "tyk">>, "release-5"), Name(<<"tyk-ee">>, "v5"), Name(<<"ecr", "tyk-pump">>, None),
     Name(<<"quay", "tyk-ee">>, "v5")}

\* A repository of the list, and one that is not.
MCOverrides == {Name(<<"ecr", "tyk-ee">>, "sha-1"), Name(<<"ecr", "tyk">>, "sha-1")}

-----------------------------------------------------------------------------
(* The plugin compiler *)

Variant(name, edition) == [name |-> name, edition |-> edition]

\* config.yaml, for tyk.
Configured ==
    [variants |-> <<Variant("std", None), Variant("ee", None), Variant("fips", None)>>, ngVariants |-> <<>>,
     ceArchs |-> <<"amd64", "arm64", "s390x">>, eeArchs |-> <<"amd64", "arm64">>, fipsArchs |-> <<"amd64", "arm64">>,
     cross |-> "1", imagePlatforms |-> <<"linux/amd64", "linux/arm64">>, gatePlatform |-> "linux/amd64",
     extraGateVariant |-> "ee"]

\* Its branches without a block for the next generation (release-5.8, release-5.8.15):
\* everything but the variants is a default.
Defaults ==
    [Configured EXCEPT !.ceArchs = None, !.eeArchs = None, !.fipsArchs = None, !.cross = None,
                       !.imagePlatforms = None, !.gatePlatform = None, !.extraGateVariant = None]

\* The defaults; without cross toolchains; the first with all variants gated; with an unnamed variant of its own for the next
\* generation, which is the one gated; with only a default platform and defaults for
\* the architectures of FIPS; and with the gate on the other platform.
MCCompilerConfigs ==
    {Configured, Defaults, [Configured EXCEPT !.cross = "0"],
     [Configured EXCEPT !.extraGateVariant = None],
     [Configured EXCEPT !.ngVariants = <<Variant(None, None), Variant("next", "ee")>>, !.extraGateVariant = "std"],
     [Configured EXCEPT !.imagePlatforms = None, !.gatePlatform = None, !.fipsArchs = None],
     [Configured EXCEPT !.gatePlatform = "linux/arm64"]}
MCBases == {{"linux/amd64"}, {"linux/arm64"}, {"linux/amd64", "linux/arm64"}}
=============================================================================
