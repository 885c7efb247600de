---------------------------- MODULE MCRetention ----------------------------
(* Small instances of Retention for TLC. *)
EXTENDS Retention, TLC

V(s, p) == [series |-> s, patch |-> p]

\* Six series, so that a window of three below the previous LTS can be full and
\* still leave a series to prune; one series has a pre-release (patch 0).
SemverVersions == {V(s, 1) : s \in 1 .. 6} \union {V(5, 0)}

AllVersions == SemverVersions \union NonSemver

Config(exceptions, cutoff, age, track, editions) ==
    [exceptions |-> exceptions, versionCutoff |-> cutoff, ageCutoff |-> age,
     track |-> track, editions |-> editions]

\* Tracked configurations, whose static cutoff cleans: each list of editions, and an
\* age cutoff with an exception.
TrackedConfigs ==
    {Config({}, V(2, 1), 0, "gateway", eds) : eds \in {{"ce"}, {"ce", "ee"}}}
    \union {Config({V(1, 1)}, NoString, 1, "gateway", {"ce", "ee"})}

\* Static configurations: a version and an age cutoff, with exceptions that need not be
\* semantic versions, and a cutoff that does not parse.
StaticConfigs ==
    {Config({V(1, 1)} \union NonSemver, V(5, 1), 1, NoString, {})}
    \union {Config({V(5, 0)}, cut, 1, NoString, {}) : cut \in NonSemver}

MCConfigs == TrackedConfigs \union StaticConfigs

Track(ltsMinus1, lts, feature) ==
    "gateway" :> [ltsMinus1 |-> ltsMinus1, currentLTS |-> lts, currentFeature |-> feature]

\* The current feature and the current LTS are of one series; the next feature is not.
MCTracks == {Track(V(5, 0), V(5, 1), V(5, 2))}
=============================================================================
