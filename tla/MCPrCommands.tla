---------------------------- MODULE MCPrCommands ----------------------------
(* Small instances of PrCommands for TLC. *)
EXTENDS PrCommands

MCBranches == {"master", "release"}
MCPrefixed == [b \in MCBranches |-> <<"releng", b>>]
MCBranchesOf == [tyk |-> <<"master", "release">>, pump |-> <<"master">>]
MCArgs == <<"tyk", "unknown", "pump">>

PR(r, b, h) == [repo |-> r, base |-> b, head |-> h, open |-> TRUE, auto |-> FALSE]

\* Requests of gromit for two branches, a developer's request for one of them, and
\* one from the head branch of master to another branch.
MCInitialPRs ==
    <<PR("tyk", "master", DevHead),
      PR("tyk", "master", <<"releng", "master">>),
      PR("tyk", "release", <<"releng", "master">>),
      PR("pump", "master", <<"releng", "master">>)>>
=============================================================================
