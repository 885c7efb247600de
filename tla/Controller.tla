----------------------------- MODULE Controller -----------------------------
(***************************************************************************)
(* The test controller (`policy controller`): from the environment of a    *)
(* workflow it decides what triggered the tests, which images they use and *)
(* the rows of the test matrix (src/policy/controller.go,                  *)
(* src/cmd/policy.go).                                                     *)
(*                                                                         *)
(* A branch is a record of the parts that the code's pattern tells apart;  *)
(* an image is a repository and a tag.                                     *)
(***************************************************************************)
EXTENDS Naturals, Sequences, FiniteSets

CONSTANTS
    Jobs,     \* names of test jobs
    RepoNames,\* repositories, without their owner
    Refs,     \* branches
    TagLists, \* the tags that were just built
    None

VARIABLES
    env,      \* the environment
    pc,       \* "params", "lts", "versions", "outputs", "ok"
    pn,       \* index into ParamNames
    params,   \* the parameters
    versions, \* the images as versions.env leaves them
    matrix,   \* from the rows of the matrix to their values
    exclude   \* the combinations left out

vars == <<env, pc, pn, params, versions, matrix, exclude>>

-----------------------------------------------------------------------------
ParamNames == <<"JOB", "REPO", "TAGS", "BASE_REF", "IS_PR", "IS_TAG">>

YesNo == {"yes", "no"}

\* TestOutput sets IS_LTS too.
Envs == [JOB : Jobs, REPO : RepoNames, TAGS : TagLists, BASE_REF : Refs,
         IS_PR : YesNo, IS_TAG : YesNo, IS_LTS : YesNo]

\* Mutant: minor releases count as well.
IsLtsBranch_AnyMinor(r) ==
    r.release /\ r.suffix \in {None, "lts", "major", "major.0"}

\* release-N, release-N.0 or release-N.0.P, and then -lts, -N or -N.0 if anything.
IsLtsBranch(r) ==
    /\ r.release
    /\ r.minor \in {None, 0}
    /\ r.minor = None => r.patch = None
    /\ r.suffix \in {None, "lts", "major", "major.0"}

LtsRepos == {"tyk", "tyk-analytics", "tyk-automated-tests"}

OldPump == "tykio/tyk-pump-docker-pub:v1.8"
NewPump == "$ECR/tyk-pump:master"
OldSink == "tykio/tyk-mdcb-docker:v2.4"
NewSink == "$ECR/tyk-sink:master"

\* The rows that have the name of the job in theirs.
JobRows(cacheDb) == [conf |-> {"sha256", "murmur128"}, db |-> {"mongo7", "postgres15"}, cacheDb |-> cacheDb]

NoMixedVersions == {[pump |-> OldPump, sink |-> NewSink], [pump |-> NewPump, sink |-> OldSink]}

\* Mutant: the database is the same in both.
OneConfPerDb_SameDb == {[db |-> "mongo7", conf |-> "murmur128"], [db |-> "mongo7", conf |-> "sha256"]}

OneConfPerDb == {[db |-> "mongo7", conf |-> "murmur128"], [db |-> "postgres15", conf |-> "sha256"]}

Put(f, a, x) == [b \in DOMAIN f \union {a} |-> IF b = a THEN x ELSE f[b]]

-----------------------------------------------------------------------------
Init ==
    /\ env \in Envs
    /\ pc = "params" /\ pn = 1
    /\ params = [job |-> None, repo |-> None, baseRef |-> None, firstTag |-> None,
                 trigger |-> None, gdTag |-> None]
    /\ versions = <<>> /\ matrix = <<>> /\ exclude = {}

\* The parameters with the next one read.  Of IS_PR and IS_TAG the last that is set
\* is the trigger.
Taken(p) ==
    CASE p = "JOB" -> [params EXCEPT !.job = env.JOB]
      [] p = "REPO" -> [params EXCEPT !.repo = env.REPO]
      [] p = "BASE_REF" -> [params EXCEPT !.baseRef = env.BASE_REF]
      [] p = "TAGS" -> IF env.TAGS = <<>> THEN params ELSE [params EXCEPT !.firstTag = env.TAGS[1]]
      [] p = "IS_PR" -> IF env.IS_PR = "yes" THEN [params EXCEPT !.trigger = "is_pr"] ELSE params
      [] p = "IS_TAG" -> IF env.IS_TAG = "yes" THEN [params EXCEPT !.trigger = "is_tag"] ELSE params

ReadParam ==
    /\ pc = "params" /\ pn <= Len(ParamNames)
    /\ params' = Taken(ParamNames[pn])
    /\ pn' = pn + 1
    /\ UNCHANGED <<env, pc, versions, matrix, exclude>>

\* The tag for the gateway and the dashboard; a branch with long term support
\* overrules the trigger.
FindLts ==
    /\ pc = "params" /\ pn > Len(ParamNames)
    /\ params' = IF params.repo \in LtsRepos /\ IsLtsBranch(params.baseRef)
                 THEN [params EXCEPT !.gdTag = <<"release-lts", params.baseRef.major>>, !.trigger = "is_lts"]
                 ELSE [params EXCEPT !.gdTag = <<"master">>]
    /\ pc' = "versions"
    /\ UNCHANGED <<env, pn, versions, matrix, exclude>>

Defaults(tag) ==
    [r \in {"tyk", "tyk-analytics", "tyk-pump", "tyk-sink"} |->
        IF r \in {"tyk", "tyk-analytics"} THEN tag ELSE <<"master">>]

\* Mutant: alfa and beta come before the override.
SetVersions_Early ==
    LET images == Put(Put(Defaults(params.gdTag), "alfa", params.gdTag), "beta", params.gdTag) IN
    /\ pc = "versions" /\ pc' = "outputs"
    /\ versions' = Put(images, params.repo, params.firstTag)
    /\ UNCHANGED <<env, pn, params, matrix, exclude>>

\* versions.env is a list of assignments: the defaults, the repository's own image,
\* then alfa and beta from what the gateway is by now.
SetVersions ==
    LET images == Put(Defaults(params.gdTag), params.repo, params.firstTag) IN
    /\ pc = "versions" /\ pc' = "outputs"
    /\ versions' = Put(Put(images, "alfa", images["tyk"]), "beta", images["tyk"])
    /\ UNCHANGED <<env, pn, params, matrix, exclude>>

\* What the command passes to SetOutputs.
DefaultRows == Put(Put(JobRows({"redis7"}), "pump", {OldPump, NewPump}), "sink", {OldSink, NewSink})

\* Mutant: a pull request has its own sink but keeps the pumps.
SetOutputs_PrSinkOnly ==
    /\ pc = "outputs" /\ pc' = "ok"
    /\ \/ /\ params.trigger = "is_pr"
          /\ matrix' = [DefaultRows EXCEPT !["sink"] = {NewSink}]
          /\ exclude' = OneConfPerDb
       \/ /\ params.trigger = "is_lts"
          /\ matrix' = [DefaultRows EXCEPT !["cacheDb"] = {"redis6"}]
          /\ exclude' = NoMixedVersions \union OneConfPerDb
       \/ /\ params.trigger \in {None, "is_tag"}
          /\ matrix' = DefaultRows
          /\ exclude' = NoMixedVersions \union OneConfPerDb
    /\ UNCHANGED <<env, pn, params, versions>>

\* The rows that the trigger replaces, and its exclusions.
SetOutputs ==
    /\ pc = "outputs" /\ pc' = "ok"
    /\ \/ /\ params.trigger = "is_pr"
          /\ matrix' = Put(Put(JobRows({"redis7"}), "pump", {NewPump}), "sink", {NewSink})
          /\ exclude' = OneConfPerDb
       \/ /\ params.trigger = "is_lts"
          /\ matrix' = [DefaultRows EXCEPT !["cacheDb"] = {"redis6"}]
          /\ exclude' = NoMixedVersions \union OneConfPerDb
       \/ /\ params.trigger \in {None, "is_tag"}
          /\ matrix' = DefaultRows
          /\ exclude' = NoMixedVersions \union OneConfPerDb
    /\ UNCHANGED <<env, pn, params, versions>>

Next == ReadParam \/ FindLts \/ SetVersions \/ SetOutputs

Spec == Init /\ [][Next]_vars

-----------------------------------------------------------------------------
(* Properties *)

\* The combinations of the matrix without those left out: the jobs that will run.
Combinations(rows, left) ==
    {c \in [conf : rows["conf"], db : rows["db"], cacheDb : rows["cacheDb"],
            pump : rows["pump"], sink : rows["sink"]] :
        \A x \in left : \E r \in DOMAIN x : x[r] # c[r]}

\* The exclusions never take away a value: each configuration, database and version
\* of the matrix is still tested by some job, and no job tests a pump with the sink
\* of another age (controller.go:55, cmd/policy.go:104).
MatrixKeepsValues ==
    pc = "ok" =>
        LET jobs == Combinations(matrix, exclude) IN
        /\ \A r \in DOMAIN matrix : \A x \in matrix[r] : \E c \in jobs : c[r] = x
        /\ \A c \in jobs : c["pump"] = OldPump <=> c["sink"] = OldSink

\* A pull request runs a part of what its branch runs after the merge: every job of
\* is_pr is a job of the default matrix, and there are fewer.
PrRunsAPart ==
    pc = "ok" /\ params.trigger = "is_pr" =>
        LET all == Combinations(DefaultRows, NoMixedVersions \union OneConfPerDb)
            pr == Combinations(matrix, exclude)
        IN  pr \subseteq all /\ pr # all /\ pr # {}

\* "alfa and beta have to come after the override" (controller.go:117): what was just
\* built is what is tested, on all gateways, and the gateway and the dashboard that
\* were not built have one tag, that of the tests.
VersionsUseBuild ==
    pc \in {"outputs", "ok"} /\ env.TAGS # <<>> =>
        /\ versions[env.REPO] = env.TAGS[1]
        /\ versions["alfa"] = versions["tyk"] /\ versions["beta"] = versions["tyk"]
        /\ \A r \in {"tyk", "tyk-analytics"} \ {env.REPO} : versions[r] = params.gdTag

\* The matrix for long term support is taken exactly when the gateway and the dashboard
\* are not those of master, whatever the event was: the two never come from different
\* decisions.  A branch for minor releases, or one that is no release, is tested as the
\* event that it is.  Which release branches have long term support is not said here,
\* beyond that (TestNewParams: release-5.1.12 is master, release-4.0.12 is release-4-lts).
TriggerFitsBranch ==
    pc = "ok" =>
        /\ params.trigger = "is_lts" <=> params.gdTag # <<"master">>
        /\ env.BASE_REF.minor \notin {None, 0} \/ ~env.BASE_REF.release
            => params.trigger = (IF env.IS_TAG = "yes" THEN "is_tag"
                                 ELSE IF env.IS_PR = "yes" THEN "is_pr" ELSE None)
=============================================================================
