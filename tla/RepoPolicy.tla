----------------------------- MODULE RepoPolicy -----------------------------
(***************************************************************************)
(* How the levels of config.yaml (policy, group, repo, branch) become the  *)
(* values a branch is rendered with (src/policy/policy.go: GetRepoPolicy,  *)
(* mergeBuilds, filterBuildsByFeature, SetBranch).                         *)
(*                                                                         *)
(* The decoded configuration is kept for the whole process and its builds  *)
(* are pointers, so what GetRepoPolicy does for one branch or repository   *)
(* may be seen by the next.  Builds therefore live on a heap.  Branches    *)
(* are processed in any order, that of a Go map.                           *)
(*                                                                         *)
(* Fields that are treated alike are one field: `text` stands for the      *)
(* strings that a branch may override, `ports` for those it may not.       *)
(***************************************************************************)
EXTENDS Naturals, Sequences

CONSTANTS
    Configs,  \* the configurations to look at
    Names,    \* the branch names that SetBranch is asked for
    Lower,    \* strings.ToLower of a branch name
    Repos,    \* the repositories asked for
    Nothing,  \* the empty value, as of a field that is not set
    Nil       \* the nil pointer, as of a build that is given as null

VARIABLES
    config,  \* the policy section: [owner, deleted, groups, heap]
    heap,    \* the builds, by address
    rp,      \* the RepoPolicy
    group,   \* the group in which the repository was found
    todo     \* the branches that GetRepoPolicy has not looked at yet

vars == <<config, heap, rp, group, todo>>

-----------------------------------------------------------------------------
\* Copying y over x with IgnoreEmpty.
Over(x, y) == IF y = Nothing THEN x ELSE y

\* In YAML a flag is set or not; decoded it is a bool.
Decoded(flag) == flag = "true"

\* What is copied of a level of the configuration to the values of a branch.  An
\* empty field does not override, nor does false; the plugin compiler's section is
\* copied as a whole.
CopyOver(bv, level) ==
    [text |-> Over(bv.text, level.text), cgo |-> bv.cgo \/ Decoded(level.cgo),
     tests |-> Over(bv.tests, level.tests), plugin |-> Over(bv.plugin, level.plugin)]

Zero == [text |-> Nothing, cgo |-> FALSE, tests |-> Nothing, plugin |-> Nothing]

\* Mutant: mergo appends to lists that are not cleared.
MergeBuild_Appends(old, new) ==
    [feature |-> Over(old.feature, new.feature), text |-> Over(old.text, new.text),
     archs |-> old.archs \o new.archs, flags |-> old.flags \o new.flags,
     env |-> old.env \o new.env]

\* mergo with WithOverride and WithAppendSlice, the architectures and the flags
\* having been cleared where the branch has its own.
MergeBuild(old, new) ==
    [feature |-> Over(old.feature, new.feature), text |-> Over(old.text, new.text),
     archs |-> IF new.archs = <<>> THEN old.archs ELSE new.archs,
     flags |-> IF new.flags = <<>> THEN old.flags ELSE new.flags,
     env |-> old.env \o new.env]

Update(h, g) ==
    [a \in DOMAIN h \union DOMAIN g |-> IF a \in DOMAIN g THEN g[a] ELSE h[a]]

\* The build that the repo's build k becomes on a branch with builds b.
MergedBuild(h, r, b, k) ==
    IF k \in DOMAIN b /\ b[k] # Nil THEN MergeBuild(h[r[k]], h[b[k]]) ELSE h[r[k]]

\* Mutant: the builds of the repo are merged into where they are.
mergeBuilds_Shared(h, r, b, branch) ==
    [heap |-> Update(h, [a \in {r[k] : k \in DOMAIN r} |->
                            MergedBuild(h, r, b, CHOOSE k \in DOMAIN r : r[k] = a)]),
     builds |-> [k \in DOMAIN r \union DOMAIN b |-> IF k \in DOMAIN r THEN r[k] ELSE b[k]]]

\* The builds of the repo are copied and those of the branch merged into the
\* copies; a build that only the branch has is not copied.
mergeBuilds(h, r, b, branch) ==
    LET copy == [k \in DOMAIN r |-> <<"copy", branch, k>>] IN
    [heap |-> Update(h, [a \in {copy[k] : k \in DOMAIN r} |-> MergedBuild(h, r, b, a[3])]),
     builds |-> [k \in DOMAIN r \union DOMAIN b |-> IF k \in DOMAIN r THEN copy[k] ELSE b[k]]]

filterBuildsByFeature(h, builds, features) ==
    LET kept == {k \in DOMAIN builds :
                    builds[k] = Nil \/ h[builds[k]].feature \in features \union {Nothing}}
    IN  [k \in kept |-> builds[k]]

-----------------------------------------------------------------------------
NoPolicy ==
    [name |-> Nothing, owner |-> Nothing, ports |-> Nothing, branches |-> <<>>,
     branch |-> Nothing, branchvals |-> Nothing]

Init ==
    /\ config \in Configs
    /\ heap = config.heap
    /\ rp = NoPolicy
    /\ group = Nothing
    /\ todo = {}

Repo == config.groups[group].repos[rp.name]

\* GetRepoPolicy up to its loop: the elements of the repository itself come from
\* the policy level and the repo level.
FindRepo(r, g) ==
    /\ todo = {}
    /\ r \in DOMAIN config.groups[g].repos
    /\ group' = g
    /\ LET repo == config.groups[g].repos[r] IN
          /\ rp' = [NoPolicy EXCEPT !.name = r, !.owner = Over(config.owner, repo.vals.owner),
                                    !.ports = repo.vals.ports]
          /\ todo' = DOMAIN repo.branches
    /\ UNCHANGED <<config, heap>>

\* The repository is in no group.
UnknownRepo(r) ==
    /\ todo = {}
    /\ \A g \in DOMAIN config.groups : r \notin DOMAIN config.groups[g].repos
    /\ rp' = NoPolicy /\ group' = Nothing
    /\ UNCHANGED <<config, heap, todo>>

\* Mutant: the builds are filtered by the features of the branch alone.
Features_BranchOnly(g, r, b) == b.features

Features(g, r, b) == g.features \union r.features \union b.features

\* One turn of the loop of GetRepoPolicy.
ComputeBranch(b) ==
    LET g == config.groups[group].vals
        r == Repo.vals
        bv == Repo.branches[b]
        features == Features(g, r, bv)
        merged == mergeBuilds(heap, r.builds, bv.builds, b)
        vals == CopyOver(CopyOver(CopyOver(Zero, g), r), bv)
    IN  /\ b \in todo
        /\ todo' = todo \ {b}
        /\ heap' = merged.heap
        /\ rp' = [rp EXCEPT !.branches = Update(@, [x \in {b} |->
                    [vals |-> vals, features |-> features,
                     deleted |-> config.deleted \union g.deleted \union r.deleted
                                     \union bv.deleted,
                     builds |-> filterBuildsByFeature(merged.heap, merged.builds, features)]])]
        /\ UNCHANGED <<config, group>>

\* The branches that SetBranch may take for name n: the branch of that name, else
\* one that differs in case only.
Matches(n) ==
    IF n \in DOMAIN rp.branches THEN {n}
    ELSE {b \in DOMAIN rp.branches : Lower[b] = Lower[n]}

\* Mutant: the branch keeps the name that was asked for.
SetBranch_AsAsked(n) ==
    /\ todo = {} /\ rp.name # Nothing
    /\ \/ \E b \in Matches(n) : rp' = [rp EXCEPT !.branch = n, !.branchvals = rp.branches[b]]
       \/ Matches(n) = {} /\ UNCHANGED rp
    /\ UNCHANGED <<config, heap, group, todo>>

SetBranch(n) ==
    /\ todo = {} /\ rp.name # Nothing
    /\ \/ \E b \in Matches(n) : rp' = [rp EXCEPT !.branch = b, !.branchvals = rp.branches[b]]
       \/ Matches(n) = {} /\ UNCHANGED rp
    /\ UNCHANGED <<config, heap, group, todo>>

Next ==
    \/ \E r \in Repos : UnknownRepo(r) \/ \E g \in DOMAIN config.groups : FindRepo(r, g)
    \/ \E b \in todo : ComputeBranch(b)
    \/ \E n \in Names : SetBranch(n)

Spec == Init /\ [][Next]_vars

-----------------------------------------------------------------------------
(* Properties *)

\* Whatever was computed, for however many repositories and branches, the builds
\* of the configuration are as they were decoded (policy.go:335, 341).
ConfigUntouched == \A a \in DOMAIN config.heap : heap[a] = config.heap[a]

\* The last of the values that is one.
Innermost(values) ==
    LET given == {i \in 1 .. Len(values) : values[i] # Nothing}
    IN  IF given = {} THEN Nothing
        ELSE values[CHOOSE i \in given : \A j \in given : j <= i]

Levels(b) == <<config.groups[group].vals, Repo.vals, Repo.branches[b]>>

\* The values of a branch as its levels l of configuration c define them:
\* the innermost level that gives a value decides, sets are unions, and of the builds
\* that the repo or the branch has those remain whose feature the branch has.
Defined(c, l) ==
    LET Field(f) == Innermost([i \in 1 .. 3 |-> l[i][f]])
        features == UNION {l[i].features : i \in 1 .. 3}
        r == l[2].builds
        own == l[3].builds
        Null(k) == k \notin DOMAIN r /\ own[k] = Nil
        Build(k) ==
            IF k \in DOMAIN r THEN MergedBuild(c.heap, r, own, k)
            ELSE IF own[k] = Nil THEN Nil ELSE c.heap[own[k]]
        On(k) == Null(k) \/ Build(k).feature \in features \union {Nothing}
    IN  [text |-> Field("text"), tests |-> Field("tests"), plugin |-> Field("plugin"),
         features |-> features,
         deleted |-> c.deleted \union UNION {l[i].deleted : i \in 1 .. 3},
         builds |-> [k \in {k \in DOMAIN r \union DOMAIN own : On(k)} |-> Build(k)]]

Computed(b) ==
    LET v == rp.branches[b] IN
    [text |-> v.vals.text, tests |-> v.vals.tests, plugin |-> v.vals.plugin,
     features |-> v.features, deleted |-> v.deleted,
     builds |-> [k \in DOMAIN v.builds |->
                    IF v.builds[k] = Nil THEN Nil ELSE heap[v.builds[k]]]]

\* The values of a branch are what the levels define for it, whichever branches and
\* repositories were computed before it or are computed after it (policy.go:286).
BranchIndependent == \A b \in DOMAIN rp.branches : Computed(b) = Defined(config, Levels(b))

\* Of two architectures or flags that levels give a build, no list has one twice:
\* "to prevent duplicate goreleaser build IDs" (policy.go:337).
NoDuplicateBuilds ==
    \A b \in DOMAIN rp.branches : \A k \in DOMAIN rp.branches[b].builds :
        LET a == rp.branches[b].builds[k] IN
        a # Nil => \A i, j \in 1 .. Len(heap[a].archs) :
                       i # j => heap[a].archs[i] # heap[a].archs[j]

\* The branch that is set is a branch of the repository and its values are those
\* that were computed for it, also after a name that is unknown or differs in case
\* (policy.go:234).
BranchAndValsAgree ==
    rp.branch # Nothing =>
        rp.branch \in DOMAIN rp.branches /\ rp.branchvals = rp.branches[rp.branch]
=============================================================================
