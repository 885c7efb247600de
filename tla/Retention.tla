------------------------------ MODULE Retention ------------------------------
(***************************************************************************)
(* A repository that lives under the policy of RetentionPolicy: packages   *)
(* are published, time passes, the track's current feature is bumped, and  *)
(* `gromit pkgs clean` removes what the repository's filter selects while  *)
(* `gromit pkgs plan` reports what a track would prune.                    *)
(***************************************************************************)
EXTENDS RetentionPolicy

CONSTANTS
    Versions,      \* the versions that may be published
    Configs,       \* the pkgs.<repo> sections the operator may have written
    InitialTracks, \* the tracks sections the operator may have written
    MaxNow         \* bound on the clock

Semver == [series : Nat, patch : Nat]

\* A pkgs.<repo> section: exceptions, versioncutoff, agecutoff, track, editions.
PkgFields == {"exceptions", "versionCutoff", "ageCutoff", "track", "editions"}

\* A track as it is written: any string may stand where a version should.
TrackRecord ==
    LET String == Semver \union NonSemver \union {NoString}
    IN  [ltsMinus1 : String, currentLTS : String, currentFeature : String]

ASSUME NowBound == MaxNow \in Nat
ASSUME VersionsTyped == Versions \subseteq Semver \union NonSemver
ASSUME ConfigsTyped == \A c \in Configs : DOMAIN c = PkgFields
ASSUME TracksTyped == \A trs \in InitialTracks : \A n \in DOMAIN trs : trs[n] \in TrackRecord

VARIABLES
    repo,   \* the packages in the repository
    cfg,    \* its pkgConfig
    tracks, \* the tracks section, from track name to Track
    now     \* the clock

vars == <<repo, cfg, tracks, now>>

-----------------------------------------------------------------------------
(* A repository under the policy *)

Init ==
    /\ repo = {}
    /\ cfg \in Configs
    /\ tracks \in InitialTracks
    /\ \A n \in DOMAIN tracks : Validate(tracks[n])
    /\ now = 0

\* A release pipeline pushes a package (external).  One name, architecture and
\* distribution are considered, so a version is in the repository at most once.
Publish(v) ==
    /\ \A p \in repo : p.version # v
    /\ repo' = repo \union {[version |-> v, created |-> now]}
    /\ UNCHANGED <<cfg, tracks, now>>

Tick ==
    /\ now < MaxNow
    /\ now' = now + 1
    /\ UNCHANGED <<repo, cfg, tracks>>

\* Mutant: the edited tracks are not validated.
BumpFeature_Unvalidated(n, v) ==
    LET bumped == [tracks EXCEPT ![n].currentFeature = v]
    IN  /\ tracks' = bumped
        /\ UNCHANGED <<repo, cfg, now>>

\* The tracks section is edited and loaded again; LoadTracks accepts only a
\* valid one.  current_feature only moves forward.
BumpFeature(n, v) ==
    LET bumped == [tracks EXCEPT ![n].currentFeature = v]
    IN  /\ Older(tracks[n].currentFeature, v)
        /\ Validate(bumped[n])
        /\ tracks' = bumped
        /\ UNCHANGED <<repo, cfg, now>>

\* One deletion of `pkgs clean --delete`.  A run may be interrupted or skip
\* packages (PackageClean has its steps), so deletions come one at a time.
Clean(p) ==
    /\ p \in Selected(cfg, repo, now)
    /\ repo' = repo \ {p}
    /\ UNCHANGED <<cfg, tracks, now>>

Next ==
    \/ \E v \in Versions : Publish(v)
    \/ Tick
    \/ \E n \in DOMAIN tracks, v \in Versions \ NonSemver : BumpFeature(n, v)
    \/ \E p \in repo : Clean(p)

Spec == Init /\ [][Next]_vars

-----------------------------------------------------------------------------
(* Properties *)

Package == [version : Versions, created : 0 .. MaxNow]

\* The repository holds finitely many packages, uploaded up to now, and the track
\* in force always passes Validate, whatever bumps it went through (tracks.go:44).
TypeOK ==
    /\ repo \subseteq Package /\ IsFiniteSet(repo)
    /\ \A p \in repo : p.created <= now
    /\ cfg \in Configs
    /\ \A n \in DOMAIN tracks : tracks[n] \in TrackRecord /\ Validate(tracks[n])
    /\ now \in 0 .. MaxNow

Plannable(c, trs, items) == Tracked(c) /\ ~PlanFails(c, trs, items)

AnchorOf(c, trs) == Anchor(trs[c.track], c.editions)

\* What tracks.go:22 promises, stated without positions and clamping: of the
\* packages that are neither exceptions, nor unparsable, nor too old, BuildPlan
\* prunes exactly those of a series with more than `depth` released series
\* between it (excluded) and the anchor (included).
PlanKeepsWindow ==
    Plannable(cfg, tracks, repo) =>
        LET a == AnchorOf(cfg, tracks)
            series == MinorSeries(repo)
            pruned == Pruned(cfg, tracks, repo, now)
            newer(s) == {t \in series : s < t /\ t <= a.series}
        IN  \A p \in repo :
                /\ p.version \notin cfg.exceptions
                /\ IsValid(p.version)
                /\ ~OlderThanAge(p, cfg.ageCutoff, now)
                => (p \in pruned
                       <=> Cardinality(newer(MajorMinor(p.version))) > a.depth)

\* "With several editions the longest window wins" (tracks.go:68): a package that
\* the plan for a single one of the editions retains is retained by the plan
\* for both, although the two count down from different anchors.
LongestWindowWins ==
    LET only(eds) == [cfg EXCEPT !.editions = eds]
        both == Pruned(only({"ce", "ee"}), tracks, repo, now)
    IN  \A e \in {"ce", "ee"} :
            /\ Plannable(only({e}), tracks, repo)
            /\ Plannable(only({"ce", "ee"}), tracks, repo)
            => both \subseteq Pruned(only({e}), tracks, repo, now)

\* The plan keeps the window of tracks.go:22, the longest one if there are several
\* editions (tracks.go:68).
PlanWindow == PlanKeepsWindow /\ LongestWindowWins

\* The window is counted in released series, so pruning changes what it is
\* counted in.  Without an age cutoff, removing what BuildPlan lists leaves a
\* repository whose plan succeeds, has the same cutoff and lists nothing more.
PlanIsStable ==
    Plannable(cfg, tracks, repo) /\ cfg.ageCutoff = 0 =>
        LET kept == repo \ Pruned(cfg, tracks, repo, now)
        IN  /\ Plannable(cfg, tracks, kept)
            /\ TrackCutoff(cfg, tracks, kept) = TrackCutoff(cfg, tracks, repo)
            /\ Pruned(cfg, tracks, kept, now) = {}

\* A repository without a track: plan and clean select the same packages among
\* those with a semantic version (plan.go:77, cmd/pkgs.go:113).
PlanPreviewsCleanOnSemver ==
    ~Tracked(cfg) =>
        Pruned(cfg, tracks, repo, now)
            = {p \in Selected(cfg, repo, now) : IsValid(p.version)}

WindowFull(c, trs, items) ==
    Index(MinorSeries(items), AnchorOf(c, trs).series) >= AnchorOf(c, trs).depth

\* Publishing a package or bumping the current feature never lowers the cutoff
\* of a window that was full: a series that is being pruned does not come back
\* (DeriveCutoff, tracks.go:113).
WindowMovesForward ==
    [][ /\ repo \subseteq repo'
        /\ Plannable(cfg, tracks, repo) /\ Plannable(cfg, tracks, repo)'
        /\ WindowFull(cfg, tracks, repo)
        => TrackCutoff(cfg, tracks, repo) <= TrackCutoff(cfg, tracks, repo)' ]_vars

\* A tracked repository is still cleaned by its static cutoff (config.yaml:866).
\* As long as no package below that cutoff is of a series the plan retains, a clean
\* neither moves the plan's cutoff nor makes the plan fail.  It is not enough that
\* the cutoff's series is at most the plan's: v5.3.2 selects a lone v5.3.1.
CleanLeavesWindow ==
    [][ /\ repo' \subseteq repo /\ repo' # repo
        /\ Plannable(cfg, tracks, repo)
        /\ cfg.ageCutoff = 0
        /\ IsValid(cfg.versionCutoff)
        /\ \A q \in repo : IsValid(q.version) /\ Older(q.version, cfg.versionCutoff)
                => MajorMinor(q.version) < TrackCutoff(cfg, tracks, repo)
        => /\ Plannable(cfg, tracks, repo)'
           /\ TrackCutoff(cfg, tracks, repo)' = TrackCutoff(cfg, tracks, repo) ]_vars
=============================================================================
