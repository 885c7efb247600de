----------------------------- MODULE MCOrgsDump -----------------------------
(* Small instances of OrgsDump for TLC. *)
EXTENDS OrgsDump

\* A session of org a, whose root names no organisation; a token of org b; a
\* token of org a that no pattern matches; a value that is not an object.
MCKeys == {"session", "token", "other", "junk"}
MCValue ==
    [session |-> [form |-> "object", userData |-> "object", inner |-> "a", root |-> NoOrg],
     token |-> [form |-> "object", userData |-> "none", inner |-> NoOrg, root |-> "b"],
     other |-> [form |-> "object", userData |-> "none", inner |-> NoOrg, root |-> "a"],
     junk |-> [form |-> "garbage", userData |-> "none", inner |-> NoOrg, root |-> "a"]]

MCOrgs == <<"a", "b">>
MCPatterns == <<{"session", "junk"}, {"token"}>>
MCInitial == {"session", "token", "other"}

\* Two keys, and a pattern that matches both.
TwoKeys == {"session", "token"}
OnePattern == <<TwoKeys>>
=============================================================================
