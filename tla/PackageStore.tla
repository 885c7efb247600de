---------------------------- MODULE PackageStore ----------------------------
(***************************************************************************)
(* What `gromit pkgs clean` promises about the repositories and the backup *)
(* directory, whatever fails and however often it is run: only packages    *)
(* the policy selects are removed, a package that has to be saved is saved *)
(* when it is removed, and the copy of a removed package is never lost.    *)
(***************************************************************************)
CONSTANTS
    Packages,  \* every package
    MayRemove, \* those the filter of their repository selects
    MustSave   \* those of repositories that are backed up

VARIABLES
    remote, \* the packages in the repositories
    saved   \* the packages with a complete copy under savedir

vars == <<remote, saved>>

Init == remote \subseteq Packages /\ saved = {}

\* Copies are made and, of packages that are still in their repository, undone.
Save ==
    /\ saved' \subseteq Packages
    /\ saved \ remote \subseteq saved'
    /\ UNCHANGED remote

Remove(p) ==
    /\ p \in remote \intersect MayRemove
    /\ p \in MustSave => p \in saved
    /\ remote' = remote \ {p}
    /\ UNCHANGED saved

Publish(p) ==
    /\ remote' = remote \union {p}
    /\ UNCHANGED saved

Next ==
    \/ Save
    \/ \E p \in Packages : Remove(p) \/ Publish(p)

Spec == Init /\ [][Next]_vars
=============================================================================
