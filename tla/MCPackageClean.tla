--------------------------- MODULE MCPackageClean ---------------------------
(* Small instances of PackageClean for TLC. *)
EXTENDS PackageClean, TLC

CONSTANT Nightly \* a version that is not semantic

V(s) == [series |-> s, patch |-> 0]

RepoConfig(exceptions, cutoff, age, notBackup) ==
    [exceptions |-> exceptions, versionCutoff |-> cutoff, ageCutoff |-> age,
     notBackup |-> notBackup]

\* A stable repository, backed up, with a version cutoff and an exception, and
\* an unstable one, not backed up, with an age cutoff.
MCConfig ==
    "stable" :> RepoConfig({V(1)}, V(4), 0, FALSE)
        @@ "unstable" :> RepoConfig({}, NoString, 2, TRUE)

\* The packages of the instance.  s0 is an exception, s1 to s3 are older than the
\* cutoff; u1 is too old, whatever its version.
MCPackages == {"s0", "s1", "s2", "s3", "u1"}
MCRepoOf == [p \in MCPackages |-> IF p = "u1" THEN "unstable" ELSE "stable"]
MCOrder == [s3 |-> 1, s1 |-> 2, s0 |-> 3, s2 |-> 4, u1 |-> 1]
MCDetail ==
    [s0 |-> [version |-> V(1), created |-> 0], s1 |-> [version |-> V(2), created |-> 0],
     s2 |-> [version |-> V(3), created |-> 0], s3 |-> [version |-> V(3), created |-> 5],
     u1 |-> [version |-> Nightly, created |-> 1]]
MCPath == [p \in MCPackages |-> p]
MCContent == [p \in MCPackages |-> p]

MCArgs == <<"stable", "unstable">>
UnknownLast == <<"stable", "unstable", "unknown">>

\* s3 is published later and, the newest, is listed first.
MCInitial == MCPackages \ {"s3"}
=============================================================================
