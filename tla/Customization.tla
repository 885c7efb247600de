---------------------------- MODULE Customization ----------------------------
(***************************************************************************)
(* The hardened image customization at Docker: the script that creates or  *)
(* edits it (src/dhi/apply-plugin-compiler-customization.sh with           *)
(* src/dhi/manifest.go), and the step of a release that stamps it so that  *)
(* it is rebuilt (plugin-compiler-ng-build.yml).  Scripts and releases run *)
(* independently of each other; each call to Docker is a step.             *)
(*                                                                         *)
(* A manifest has a body and annotations: None, or a set in which a stamp  *)
(* is a release.  A release that is repeated keeps its stamp, the id of    *)
(* the workflow run.  The builds of a customization are kept newest first. *)
(***************************************************************************)
EXTENDS Naturals, Sequences, FiniteSets

CONSTANTS
    Applies,     \* runs of the script
    Releases,    \* runs of the workflow
    Platforms,   \* what a build builds for
    Bodies,      \* what a manifest says besides its annotations
    Notes,       \* annotations that are no stamp
    Want,        \* from runs of the script to their manifests
    Initials,    \* manifests of the customization in the beginning, None for no customization
    MaxPolls,    \* bound on polls for the end of builds
    MaxFailures, \* bound on failing calls and builds, and on releases that are repeated
    None

\* A manifest as it is written, without a stamp; and one as it may be at Docker.
Written == [body : Bodies, ann : {None} \union SUBSET Notes]
Manifest == [body : Bodies, ann : {None} \union SUBSET (Notes \union Releases)]

ASSUME ActorsDistinct == Applies \intersect Releases = {} /\ Notes \intersect Releases = {}
ASSUME ManifestsWritten == Want \in [Applies -> Written] /\ Initials \subseteq Written \union {None}
ASSUME NoneIsNothing == None \notin Manifest /\ \A A \in SUBSET (Notes \union Releases) : A # None
ASSUME PollsBound == MaxPolls \in Nat

VARIABLES
    remote,   \* the customizations, oldest first
    builds,   \* the builds of the first customization, newest first
    apc,      \* "list", "create", "get", "compare", "edit", "ok", "unchanged", "error"
    agot,     \* the manifest that the script got
    rpc,      \* "before", "get", "stamp", "new", "wait", "check", "rebuilt", "warned"
    rbefore,  \* number of builds the release found at first
    rgot,     \* the manifest that the release got
    rpolls,
    again,    \* history: the releases that were repeated
    failures

vars == <<remote, builds, apc, agot, rpc, rbefore, rgot, rpolls, again, failures>>
avars == <<apc, agot>>
rvars == <<rpc, rbefore, rgot, rpolls, again>>

-----------------------------------------------------------------------------
(* Docker *)

\* A batch of builds, one per platform, by whom it was caused.
Batch(by) == [by |-> by, status |-> [p \in Platforms |-> "IN_PROGRESS"]]

Create(m, by) == remote' = Append(remote, m) /\ builds' = (IF remote = <<>> THEN <<Batch(by)>> ELSE builds)

\* An edit succeeds and does nothing unless the manifest differs.
Edit(m, by) ==
    IF m = remote[1] THEN UNCHANGED <<remote, builds>>
    ELSE remote' = [remote EXCEPT ![1] = m] /\ builds' = <<Batch(by)>> \o builds

\* A build ends.
BuildEnds(i, p, result) ==
    /\ i \in 1 .. Len(builds) /\ builds[i].status[p] = "IN_PROGRESS"
    /\ builds' = [builds EXCEPT ![i].status[p] = result]
    /\ \/ result = "SUCCESS" /\ UNCHANGED failures
       \/ result = "FAILURE" /\ failures < MaxFailures /\ failures' = failures + 1
    /\ UNCHANGED <<remote, avars, rvars>>

-----------------------------------------------------------------------------
\* Mutant: annotations that are empty without the stamp remain.
Normalized_KeepsEmpty(m) ==
    IF m.ann = None THEN m ELSE [m EXCEPT !.ann = m.ann \ Releases]

\* decodeCustomization: without the stamp, and without annotations if none is left.
Normalized(m) ==
    IF m.ann = None \/ m.ann \subseteq Releases THEN [m EXCEPT !.ann = None]
    ELSE [m EXCEPT !.ann = m.ann \ Releases]

EqualCustomizations(left, right) == Normalized(left) = Normalized(right)

\* Mutant: previous stamps stay.
Stamped_Accumulates(m, r) ==
    [m EXCEPT !.ann = {r} \union (IF m.ann = None THEN {} ELSE m.ann)]

\* The manifest with this release's stamp and no other.
Stamped(m, r) ==
    [m EXCEPT !.ann = {r} \union (IF m.ann = None THEN {} ELSE m.ann \ Releases)]

-----------------------------------------------------------------------------
Init ==
    /\ \E m \in Initials : remote = IF m = None THEN <<>> ELSE <<m>>
    /\ builds = <<>>
    /\ apc = [a \in Applies |-> "list"] /\ agot = [a \in Applies |-> None]
    /\ rpc = [r \in Releases |-> "before"] /\ rbefore = [r \in Releases |-> 0]
    /\ rgot = [r \in Releases |-> None] /\ rpolls = [r \in Releases |-> 0]
    /\ again = {} /\ failures = 0

-----------------------------------------------------------------------------
(* apply-plugin-compiler-customization.sh *)

\* More than one customization of the name is an error.
ApplyList(a) ==
    /\ apc[a] = "list"
    /\ apc' = [apc EXCEPT ![a] = IF Len(remote) > 1 THEN "error"
                                 ELSE IF remote = <<>> THEN "create" ELSE "get"]
    /\ UNCHANGED <<remote, builds, agot, rvars, failures>>

ApplyCreate(a) ==
    /\ apc[a] = "create"
    /\ Create(Want[a], a)
    /\ apc' = [apc EXCEPT ![a] = "ok"]
    /\ UNCHANGED <<agot, rvars, failures>>

ApplyGet(a) ==
    /\ apc[a] = "get"
    /\ agot' = [agot EXCEPT ![a] = remote[1]]
    /\ apc' = [apc EXCEPT ![a] = "compare"]
    /\ UNCHANGED <<remote, builds, rvars, failures>>

ApplyCompare(a) ==
    /\ apc[a] = "compare"
    /\ apc' = [apc EXCEPT ![a] = IF EqualCustomizations(Want[a], agot[a]) THEN "unchanged" ELSE "edit"]
    /\ UNCHANGED <<remote, builds, agot, rvars, failures>>

\* Mutant: what is sent is the manifest that was got.
ApplyEdit_SendsRemote(a) ==
    /\ apc[a] = "edit"
    /\ Edit(agot[a], a)
    /\ apc' = [apc EXCEPT ![a] = "ok"]
    /\ UNCHANGED <<agot, rvars, failures>>

ApplyEdit(a) ==
    /\ apc[a] = "edit"
    /\ Edit(Want[a], a)
    /\ apc' = [apc EXCEPT ![a] = "ok"]
    /\ UNCHANGED <<agot, rvars, failures>>

\* A call fails, or the comparison: the script exits.
ApplyFails(a) ==
    /\ apc[a] \in {"list", "create", "get", "compare", "edit"} /\ failures < MaxFailures
    /\ failures' = failures + 1
    /\ apc' = [apc EXCEPT ![a] = "error"]
    /\ UNCHANGED <<remote, builds, agot, rvars>>

Apply(a) ==
    \/ ApplyList(a) \/ ApplyCreate(a) \/ ApplyGet(a) \/ ApplyCompare(a) \/ ApplyEdit(a)

-----------------------------------------------------------------------------
(* Refresh Docker Hardened Images customization *)

RefreshBefore(r) ==
    /\ rpc[r] = "before" /\ remote # <<>>
    /\ rbefore' = [rbefore EXCEPT ![r] = Len(builds)]
    /\ rpc' = [rpc EXCEPT ![r] = "get"]
    /\ UNCHANGED <<remote, builds, avars, rgot, rpolls, again, failures>>

RefreshGet(r) ==
    /\ rpc[r] = "get"
    /\ rgot' = [rgot EXCEPT ![r] = remote[1]]
    /\ rpc' = [rpc EXCEPT ![r] = "stamp"]
    /\ UNCHANGED <<remote, builds, avars, rbefore, rpolls, again, failures>>

\* Mutant: the stamp of another release is kept.
RefreshStamp_Unchanged(r) ==
    /\ rpc[r] = "stamp"
    /\ Edit(IF rgot[r].ann = None THEN Stamped(rgot[r], r) ELSE rgot[r], r)
    /\ rpc' = [rpc EXCEPT ![r] = "new"]
    /\ UNCHANGED <<avars, rbefore, rgot, rpolls, again, failures>>

RefreshStamp(r) ==
    /\ rpc[r] = "stamp"
    /\ Edit(Stamped(rgot[r], r), r)
    /\ rpc' = [rpc EXCEPT ![r] = "new"]
    /\ UNCHANGED <<avars, rbefore, rgot, rpolls, again, failures>>

\* The latest build is not the one from before, or is not yet listed by the last poll.
RefreshNew(r) ==
    /\ rpc[r] = "new"
    /\ \/ Len(builds) # rbefore[r] /\ rpc' = [rpc EXCEPT ![r] = "wait"]
       \/ rpc' = [rpc EXCEPT ![r] = "warned"]
    /\ UNCHANGED <<remote, builds, avars, rbefore, rgot, rpolls, again, failures>>

Pending == \E i \in 1 .. Len(builds) : \E p \in Platforms : builds[i].status[p] = "IN_PROGRESS"

\* Polls until no build of the customization is in progress, or for as long as it takes.
RefreshWait(r) ==
    /\ rpc[r] = "wait"
    /\ IF Pending /\ rpolls[r] < MaxPolls
       THEN rpolls' = [rpolls EXCEPT ![r] = @ + 1] /\ UNCHANGED rpc
       ELSE rpc' = [rpc EXCEPT ![r] = "check"] /\ UNCHANGED rpolls
    /\ UNCHANGED <<remote, builds, avars, rbefore, rgot, again, failures>>

\* Mutant: only the first row of the newest batch is looked at.
RefreshCheck_FirstRow(r) ==
    LET first == CHOOSE p \in Platforms : TRUE IN
    /\ rpc[r] = "check"
    /\ rpc' = [rpc EXCEPT ![r] = IF builds[1].status[first] = "FAILURE" THEN "warned" ELSE "rebuilt"]
    /\ UNCHANGED <<remote, builds, avars, rbefore, rgot, rpolls, again, failures>>

\* The newest batch must have no failure.
RefreshCheck(r) ==
    /\ rpc[r] = "check"
    /\ rpc' = [rpc EXCEPT ![r] =
                  IF \E p \in Platforms : builds[1].status[p] = "FAILURE" THEN "warned" ELSE "rebuilt"]
    /\ UNCHANGED <<remote, builds, avars, rbefore, rgot, rpolls, again, failures>>

\* There is no customization, organisation or command, or a call fails: the step ends
\* red and the release goes on.
RefreshFails(r) ==
    /\ rpc[r] \notin {"rebuilt", "warned"}
    /\ \/ rpc[r] = "before" /\ remote = <<>> /\ UNCHANGED failures
       \/ failures < MaxFailures /\ failures' = failures + 1
    /\ rpc' = [rpc EXCEPT ![r] = "warned"]
    /\ UNCHANGED <<remote, builds, avars, rbefore, rgot, rpolls, again>>

\* The release is repeated: $GITHUB_RUN_ID, its stamp, is the same.
Rerun(r) ==
    /\ rpc[r] \in {"rebuilt", "warned"} /\ failures < MaxFailures
    /\ failures' = failures + 1
    /\ again' = again \union {r}
    /\ rpc' = [rpc EXCEPT ![r] = "before"]
    /\ rpolls' = [rpolls EXCEPT ![r] = 0]
    /\ UNCHANGED <<remote, builds, avars, rbefore, rgot>>

Refresh(r) ==
    \/ RefreshBefore(r) \/ RefreshGet(r) \/ RefreshStamp(r) \/ RefreshNew(r)
    \/ RefreshWait(r) \/ RefreshCheck(r)

Next ==
    \/ \E a \in Applies : Apply(a) \/ ApplyFails(a)
    \/ \E r \in Releases : Refresh(r) \/ RefreshFails(r) \/ Rerun(r)
    \/ \E i \in 1 .. Len(builds), p \in Platforms, result \in {"SUCCESS", "FAILURE"} :
          BuildEnds(i, p, result)

Spec == Init /\ [][Next]_vars

-----------------------------------------------------------------------------
(* Properties *)

Annotations(m) == (IF m.ann = None THEN {} ELSE m.ann) \ Releases

\* Manifests of one image.
SameImage(m, n) == m.body = n.body /\ Annotations(m) = Annotations(n)

\* "edits the existing customization only when its normalized manifest differs"
\* (dhi/README.md:38), and the stamp "must not count as a difference" (manifest.go:60):
\* whatever releases do in between, a build caused by the script is one of another
\* image than before.
AppliesBuildChanges ==
    [][\A a \in Applies :
        Len(builds') > Len(builds) /\ builds'[1].by = a /\ remote # <<>> =>
            ~SameImage(remote[1], remote'[1])]_vars

\* A manifest that the script has put in place, or found there, is undone by nothing
\* but a release that read the one before.
OnlyStaleReleaseReverts ==
    \A a \in Applies :
        apc[a] \in {"ok", "unchanged"} /\ ~SameImage(remote[1], Want[a]) =>
            \E r \in Releases : rgot[r] # None /\ SameImage(rgot[r], remote[1])

\* "edit returns success even when it queues nothing": the stamp makes the manifest
\* differ, so that a release which stamped has a batch of its own since it began; one
\* that was repeated may have found the stamp that an earlier attempt left, with a batch.
StampQueuesBuild ==
    \A r \in Releases :
        rpc[r] \in {"new", "wait", "check", "rebuilt"} =>
            \E i \in 1 .. Len(builds) :
                builds[i].by = r /\ (i <= Len(builds) - rbefore[r] \/ r \in again)

\* "Replace any previous stamp so the file does not accumulate them"
\* (plugin-compiler-ng-build.yml:161).
OneStamp ==
    \A i \in 1 .. Len(remote) : remote[i].ann # None => Cardinality(remote[i].ann \intersect Releases) <= 1

\* A release that waited long enough and whose batch is the newest reports it as
\* rebuilt only if all of its platforms were ("fail on any failure",
\* plugin-compiler-ng-build.yml:211; the rows of a batch, line 219).
NewestBuildChecked ==
    \A r \in Releases :
        rpc[r] = "rebuilt" /\ rpolls[r] < MaxPolls /\ builds[1].by = r =>
            \A p \in Platforms : builds[1].status[p] = "SUCCESS"

\* A release that stamps causes a build, the first time it runs at any rate; it leaves one
\* stamp, and reports a rebuild only if what it could see of its builds succeeded
\* (plugin-compiler-ng-build.yml:154 to 228).
RefreshRebuilds == StampQueuesBuild /\ OneStamp /\ NewestBuildChecked
=============================================================================
