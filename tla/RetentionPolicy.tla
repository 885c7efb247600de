--------------------------- MODULE RetentionPolicy ---------------------------
(***************************************************************************)
(* What the retention policy of a packagecloud repository selects          *)
(* (src/pkgs/filter.go, plan.go, tracks.go), as operators.                 *)
(*                                                                         *)
(* A semantic version is a record [series, patch] ordered                  *)
(* lexicographically: series stands for vMAJOR.MINOR and patch orders the  *)
(* versions of one series, pre-releases first.  A version string that      *)
(* x/mod/semver does not accept is a member of NonSemver.  A package is a  *)
(* record with at least [version, created].                                *)
(***************************************************************************)
EXTENDS Integers, FiniteSets

CONSTANTS
    NonSemver, \* version strings that are not semantic versions
    NoString   \* the empty string: no version, no track

ASSUME NoStringIsNoVersion == NoString \notin NonSemver

-----------------------------------------------------------------------------
(* x/mod/semver *)

IsValid(v) == v \notin NonSemver /\ v # NoString

MajorMinor(v) == v.series

\* semver.Compare(v, w) < 0 for valid v and w.
Older(v, w) ==
    \/ v.series < w.series
    \/ v.series = w.series /\ v.patch < w.patch

\* semver.Canonical: a string that is not a version becomes the empty string.
Canonical(v) == IF IsValid(v) THEN v ELSE NoString

-----------------------------------------------------------------------------
(* filter.go *)

\* Canonical has already mapped every unparsable cutoff to "", so the error
\* return of filter.go:52 is never taken and is not a result here.
MakeFilter(c) ==
    [version    |-> Canonical(c.versionCutoff),
     age        |-> c.ageCutoff,
     exceptions |-> c.exceptions]

OlderThanAge(item, age, t) == age # 0 /\ t - item.created > age

\* Mutant: the cutoff version itself is selected too.
Satisfies_Inclusive(f, item, t) ==
    /\ item.version \notin f.exceptions
    /\ \/ /\ f.version # NoString
          /\ IsValid(item.version)
          /\ ~Older(f.version, item.version)
       \/ OlderThanAge(item, f.age, t)

\* Mutant: a version that is newer than the cutoff is kept whatever its age.
Satisfies_VersionDecides(f, item, t) ==
    /\ item.version \notin f.exceptions
    /\ IF f.version # NoString /\ IsValid(item.version)
       THEN Older(item.version, f.version)
       ELSE OlderThanAge(item, f.age, t)

\* The order of the three conditions is the precedence the config documents.
Satisfies(f, item, t) ==
    /\ item.version \notin f.exceptions
    /\ \/ /\ f.version # NoString
          /\ IsValid(item.version)
          /\ Older(item.version, f.version)
       \/ OlderThanAge(item, f.age, t)

-----------------------------------------------------------------------------
(* tracks.go *)

ceAnchorDepth == 2
eeAnchorDepth == 3

Validate(t) ==
    /\ IsValid(t.currentFeature) /\ IsValid(t.currentLTS) /\ IsValid(t.ltsMinus1)
    /\ Older(t.ltsMinus1, t.currentLTS)
    /\ Older(t.currentLTS, t.currentFeature)

AnchorFails(editions) == editions = {} \/ editions \ {"ce", "ee"} # {}

\* Mutant: "ce" wins.
Anchor_CeWins(t, editions) ==
    IF "ce" \in editions
    THEN [series |-> MajorMinor(t.currentFeature), depth |-> ceAnchorDepth]
    ELSE [series |-> MajorMinor(t.ltsMinus1), depth |-> eeAnchorDepth]

\* Defined when ~AnchorFails(editions): an "ee" anywhere in the list wins.
Anchor(t, editions) ==
    IF "ee" \in editions
    THEN [series |-> MajorMinor(t.ltsMinus1), depth |-> eeAnchorDepth]
    ELSE [series |-> MajorMinor(t.currentFeature), depth |-> ceAnchorDepth]

\* The sorted slice of series is a set here; Index is a member's position.
MinorSeries(items) == {MajorMinor(p.version) : p \in {q \in items : IsValid(q.version)}}

\* Mutant: the series are sorted as strings, so that the two-digit minor that
\* series 6 stands for comes first.
Index_AsStrings(series, s) ==
    Cardinality({t \in series : (t = 6 /\ s # 6) \/ (t < s /\ s # 6)})

Index(series, s) == Cardinality({t \in series : t < s})

\* Mutant: the window is one series short.
DeriveCutoff_OneShort(series, anchor, depth) ==
    LET i == Index(series, anchor) - depth + 1
    IN  CHOOSE s \in series : Index(series, s) = IF i < 0 THEN 0 ELSE i

\* Defined when the anchor is one of the series.
DeriveCutoff(series, anchor, depth) ==
    LET i == Index(series, anchor) - depth
    IN  CHOOSE s \in series : Index(series, s) = IF i < 0 THEN 0 ELSE i

-----------------------------------------------------------------------------
(* plan.go *)

Tracked(c) == c.track # NoString

\* The error returns of BuildPlan: unknown track, bad editions, or an anchor
\* series in which nothing was released.
PlanFails(c, trs, items) ==
    /\ Tracked(c)
    /\ \/ c.track \notin DOMAIN trs
       \/ AnchorFails(c.editions)
       \/ Anchor(trs[c.track], c.editions).series \notin MinorSeries(items)

TrackCutoff(c, trs, items) ==
    LET a == Anchor(trs[c.track], c.editions)
    IN  DeriveCutoff(MinorSeries(items), a.series, a.depth)

\* Mutant: the oldest retained series is pruned.
BelowCutoff_Inclusive(c, trs, items, v) ==
    IF Tracked(c)
    THEN MajorMinor(v) <= TrackCutoff(c, trs, items)
    ELSE /\ Canonical(c.versionCutoff) # NoString
         /\ Older(v, Canonical(c.versionCutoff))

BelowCutoff(c, trs, items, v) ==
    IF Tracked(c)
    THEN MajorMinor(v) < TrackCutoff(c, trs, items)
    ELSE /\ Canonical(c.versionCutoff) # NoString
         /\ Older(v, Canonical(c.versionCutoff))

Protected(c, items) == {p \in items : p.version \in c.exceptions}

PlanNonSemver(c, items) ==
    {p \in items \ Protected(c, items) : ~IsValid(p.version)}

\* The packages BuildPlan lists as prune-eligible, when it does not fail.
Pruned(c, trs, items, t) ==
    {p \in items \ (Protected(c, items) \union PlanNonSemver(c, items)) :
        \/ BelowCutoff(c, trs, items, p.version)
        \/ OlderThanAge(p, c.ageCutoff, t)}

\* The packages `pkgs clean` selects: what AllPackages sends to the workers.
Selected(c, items, t) == {p \in items : Satisfies(MakeFilter(c), p, t)}

=============================================================================
