----------------------------- MODULE ImageMatch -----------------------------
(***************************************************************************)
(* Which images to test with (`policy match <current_tag> <target_tag>`):  *)
(* the registry is asked, repository by repository, for the tag of the     *)
(* target; the image just built replaces the one of its repository         *)
(* (src/cmd/policy.go, src/policy/manifests.go).                           *)
(*                                                                         *)
(* The name of an image is a record of the parts between slashes and the   *)
(* tag, None if there is none.                                             *)
(***************************************************************************)
EXTENDS Naturals, Sequences

CONSTANTS
    Repos,      \* the list of repositories, a sequence
    Targets,    \* names that may be the target
    Overrides,  \* names that may be the current image
    Registries, \* registries for which there are credentials
    None

VARIABLES
    target, override,
    holds,   \* the repositories that have the tag of the target
    pc,      \* "config", "auth", "ask", "override", "print", "ok", "error" or "panic"
    ri,      \* index into Repos
    matches, \* Matches: a map of images, None for the nil map, and a registry
    asked,   \* from repositories to what the registry answered
    printed  \* the lines printed: a repository and an image

vars == <<target, override, holds, pc, ri, matches, asked, printed>>

-----------------------------------------------------------------------------
Put(f, a, x) == [b \in DOMAIN f \union {a} |-> IF b = a THEN x ELSE f[b]]

RepoSet == {Repos[i] : i \in 1 .. Len(Repos)}

\* Mutant: a name without a tag stands for master.
ParseImageName_Master(name) ==
    [registry |-> IF Len(name.parts) = 1 THEN "docker.io" ELSE name.parts[1],
     repo |-> IF Len(name.parts) = 1 THEN name.parts ELSE SubSeq(name.parts, 2, Len(name.parts)),
     tag |-> IF name.tag = None THEN "master" ELSE name.tag]

\* The registry is the part before the first slash, docker.io if there is none.
ParseImageName(name) ==
    [registry |-> IF Len(name.parts) = 1 THEN "docker.io" ELSE name.parts[1],
     repo |-> IF Len(name.parts) = 1 THEN name.parts ELSE SubSeq(name.parts, 2, Len(name.parts)),
     tag |-> IF name.tag = None THEN "latest" ELSE name.tag]

Image(registry, repo, tag) == [parts |-> <<registry>> \o repo, tag |-> tag]

\* What the registry answers to a request for the tag in a repository.
checkTagExists(repo) == {IF repo \in holds THEN "yes" ELSE "no", "failed"}

\* What is said of a repository: its match, or master.
Match(repo) ==
    IF repo \in DOMAIN matches.repos THEN matches.repos[repo]
    ELSE Image(matches.registry, repo, "master")

-----------------------------------------------------------------------------
Init ==
    /\ target \in Targets /\ override \in Overrides
    /\ holds \in SUBSET RepoSet
    /\ pc = "config" /\ ri = 1
    /\ matches = [repos |-> None, registry |-> None]
    /\ asked = <<>> /\ printed = <<>>

ReadConfig ==
    /\ pc = "config" /\ pc' = "auth"
    /\ UNCHANGED <<target, override, holds, ri, matches, asked, printed>>

\* The file with the credentials cannot be read.
ConfigFails ==
    /\ pc = "config" /\ pc' = "error"
    /\ UNCHANGED <<target, override, holds, ri, matches, asked, printed>>

\* GetMatches begins with the credentials for the registry of the target.
Authenticate ==
    /\ pc = "auth" /\ ParseImageName(target).registry \in Registries
    /\ pc' = "ask"
    /\ matches' = [repos |-> <<>>, registry |-> ParseImageName(target).registry]
    /\ UNCHANGED <<target, override, holds, ri, asked, printed>>

\* There are none: GetMatches returns an empty Matches with its error, which is logged.
NoCredentials ==
    /\ pc = "auth" /\ ParseImageName(target).registry \notin Registries
    /\ pc' = "override"
    /\ UNCHANGED <<target, override, holds, ri, matches, asked, printed>>

\* Mutant: only an answer that there is no such tag is taken as that.
Ask_ErrorMatches ==
    LET p == ParseImageName(target) IN
    /\ pc = "ask" /\ ri <= Len(Repos)
    /\ \E answer \in checkTagExists(Repos[ri]) :
          /\ asked' = Put(asked, Repos[ri], answer)
          /\ matches' = IF answer # "no"
                        THEN [matches EXCEPT !.repos = Put(@, Repos[ri], Image(p.registry, Repos[ri], p.tag))]
                        ELSE matches
    /\ ri' = ri + 1
    /\ UNCHANGED <<target, override, holds, pc, printed>>

\* The registry is asked for the tag in the next repository; when that fails the
\* repository is passed over.
Ask ==
    LET p == ParseImageName(target) IN
    /\ pc = "ask" /\ ri <= Len(Repos)
    /\ \E answer \in checkTagExists(Repos[ri]) :
          /\ asked' = Put(asked, Repos[ri], answer)
          /\ matches' = IF answer = "yes"
                        THEN [matches EXCEPT !.repos = Put(@, Repos[ri], Image(p.registry, Repos[ri], p.tag))]
                        ELSE matches
    /\ ri' = ri + 1
    /\ UNCHANGED <<target, override, holds, pc, printed>>

EndAsk ==
    /\ pc = "ask" /\ ri > Len(Repos)
    /\ pc' = "override"
    /\ UNCHANGED <<target, override, holds, ri, matches, asked, printed>>

\* The current image takes the place of its repository's match.  Writing to a nil map
\* is a panic.
Override ==
    /\ pc = "override"
    /\ IF matches.repos = None THEN pc' = "panic" /\ UNCHANGED matches
       ELSE /\ pc' = "print"
            /\ matches' = [matches EXCEPT !.repos = Put(@, ParseImageName(override).repo, override)]
    /\ ri' = 1
    /\ UNCHANGED <<target, override, holds, asked, printed>>

PrintLine ==
    /\ pc = "print" /\ ri <= Len(Repos)
    /\ printed' = Append(printed, [repo |-> Repos[ri], image |-> Match(Repos[ri])])
    /\ ri' = ri + 1
    /\ UNCHANGED <<target, override, holds, pc, matches, asked>>

EndPrint ==
    /\ pc = "print" /\ ri > Len(Repos)
    /\ pc' = "ok"
    /\ UNCHANGED <<target, override, holds, ri, matches, asked, printed>>

Next ==
    \/ ReadConfig \/ ConfigFails \/ Authenticate \/ NoCredentials
    \/ Ask \/ EndAsk \/ Override \/ PrintLine \/ EndPrint

Spec == Init /\ [][Next]_vars

-----------------------------------------------------------------------------
(* Properties *)

\* An image that is printed is the current one, one that the registry has, or master:
\* a request that failed never yields an image that may not be there
\* (checkTagExists, GetMatches).
ImagesExist ==
    \A i \in 1 .. Len(printed) :
        LET l == printed[i] IN
        \/ l.image = override
        \/ l.image.tag = "master"
        \/ asked[l.repo] = "yes" /\ l.repo \in holds

\* All images but the current one come from the registry of the target, and those of
\* repositories that have its tag have that tag; a name without registry or tag stands
\* for docker.io and latest (ParseImageName, Match).
OneRegistry ==
    pc = "ok" => \A i \in 1 .. Len(printed) :
        LET l == printed[i] IN
        l.image # override =>
            /\ l.image.parts[1] = (IF Len(target.parts) = 1 THEN "docker.io" ELSE target.parts[1])
            /\ asked[l.repo] = "yes" => l.image.tag = (IF target.tag = None THEN "latest" ELSE target.tag)
=============================================================================
