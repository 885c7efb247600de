---------------------------- MODULE PartsProofs ----------------------------
(***************************************************************************)
(* Proofs about the parts that run by themselves: image matching, the      *)
(* layering of configurations, the controller, the restore of keys, the    *)
(* job that releases the compiler, the site of test variations and the     *)
(* rendering of templates.                                                 *)
(***************************************************************************)
EXTENDS Parts, Ordered, FiniteSetTheorems, SequenceTheorems, TLAPS

\* A part runs alone: a step is one of its own or leaves its variables alone.
LEMMA MatchSteps ==
    ASSUME [Next]_vars
    PROVE  part' = part /\ (part = "match" => Match!Next \/ UNCHANGED matchVars)
BY DEF Next, vars, LayerNext, RenderNext, SiteNext, ControllerNext, MatchNext, JobNext, RestoreNext

-----------------------------------------------------------------------------
(* Image matching *)

Wanted == Match!ParseImageName(target)

\* The repositories asked so far.
AskedRepos == {ImageRepos[i] : i \in {j \in 1 .. Len(ImageRepos) : matchPc = "ask" => j < ri}}

\* Until there are matches nothing has been asked or printed.
NothingYet ==
    /\ ri \in Nat \ {0}
    /\ matchPc \in {"config", "auth"} => matches.repos = None /\ ri = 1 /\ asked = <<>>
    /\ matchPc \notin {"print", "ok"} => printed = <<>>

\* The registry is asked for every repository once, and says yes of what it holds.
Asked ==
    matchPc \in {"ask", "print", "ok"} \/ (matchPc = "override" /\ matches.repos # None) =>
        /\ DOMAIN matches = {"repos", "registry"} /\ matches.registry = Wanted.registry
        /\ DOMAIN asked = AskedRepos
        /\ \A r \in AskedRepos : asked[r] = "yes" => r \in holds

\* The matches are the repositories of which it said yes, and then the current image.
Matched ==
    /\ matchPc = "ask" \/ (matchPc = "override" /\ matches.repos # None) =>
           /\ DOMAIN matches.repos = {r \in AskedRepos : asked[r] = "yes"}
           /\ \A r \in DOMAIN matches.repos :
                 matches.repos[r] = Match!Image(Wanted.registry, r, Wanted.tag)
    /\ matchPc \in {"print", "ok"} =>
           /\ \A r \in AskedRepos : asked[r] = "yes" => r \in DOMAIN matches.repos
           /\ \A r \in DOMAIN matches.repos :
                 \/ matches.repos[r] = override
                 \/ /\ r \in AskedRepos /\ asked[r] = "yes"
                    /\ matches.repos[r] = Match!Image(Wanted.registry, r, Wanted.tag)

\* A printed line is the current image, the match or master.
Line(l) ==
    /\ l.repo \in AskedRepos
    /\ \/ l.image = override
       \/ asked[l.repo] = "yes" /\ l.image = Match!Image(Wanted.registry, l.repo, Wanted.tag)
       \/ asked[l.repo] # "yes" /\ l.image = Match!Image(Wanted.registry, l.repo, "master")

Images ==
    {override} \union {Match!Image(Wanted.registry, r, t) : r \in Match!RepoSet, t \in {Wanted.tag, "master"}}

Lines ==
    /\ printed \in Seq([repo : Match!RepoSet, image : Images])
    /\ matchPc \in {"print", "ok"} => \A i \in 1 .. Len(printed) : Line(printed[i])

MatchInv == NothingYet /\ Asked /\ Matched /\ Lines

LEMMA MatchInvInit == ASSUME Match!Init PROVE MatchInv
<1>1. NothingYet /\ Asked /\ Matched
  BY DEF Match!Init, NothingYet, Asked, Matched
<1>2. Lines
  BY DEF Match!Init, Lines
<1>3. QED
  BY <1>1, <1>2 DEF MatchInv

\* The steps that change neither what was asked nor what is printed.
LEMMA MatchInvBegin ==
    ASSUME MatchInv, Match!ReadConfig \/ Match!ConfigFails \/ Match!Authenticate \/ Match!NoCredentials
    PROVE  MatchInv'
<1> USE DEF MatchInv, Match!ReadConfig, Match!ConfigFails, Match!Authenticate, Match!NoCredentials
<1>1. NothingYet'
  BY DEF NothingYet
<1>0. ASSUME Match!Authenticate PROVE AskedRepos' = {}
  BY <1>0, ReposTyped DEF AskedRepos, NothingYet
<1>2. Asked'
  <2>1. CASE Match!Authenticate
    <3>1. DOMAIN asked' = {}
      BY <2>1 DEF NothingYet
    <3>2. matches' = [repos |-> <<>>, registry |-> Wanted.registry] /\ Wanted' = Wanted
      BY <2>1 DEF Wanted, Match!ParseImageName
    <3>3. QED
      BY <1>0, <2>1, <3>1, <3>2 DEF Asked
  <2>2. CASE ~Match!Authenticate
    BY <2>2 DEF Asked, NothingYet
  <2>3. QED
    BY <2>1, <2>2
<1>3. Matched'
  BY <1>0 DEF Matched, NothingYet
<1>4. Lines'
  BY DEF Lines, Images, Wanted, Match!ParseImageName, NothingYet
<1>5. QED
  BY <1>1, <1>2, <1>3, <1>4

\* A repository that is asked for was not asked for before, and the answer is final.
LEMMA MatchInvAsk == ASSUME MatchInv, Match!Ask PROVE MatchInv'
<1> DEFINE r == ImageRepos[ri]
<1>1. PICK answer \in Match!checkTagExists(r) :
          /\ asked' = Match!Put(asked, r, answer)
          /\ matches' = IF answer = "yes"
                        THEN [matches EXCEPT !.repos = Match!Put(@, r, Match!Image(Wanted.registry, r, Wanted.tag))]
                        ELSE matches
  BY DEF Match!Ask, Wanted
<1>2. /\ matchPc = "ask" /\ matchPc' = "ask" /\ ri \in 1 .. Len(ImageRepos) /\ ri' = ri + 1
      /\ target' = target /\ override' = override /\ holds' = holds /\ printed' = printed
      /\ Len(ImageRepos) \in Nat
  BY ReposTyped DEF Match!Ask, MatchInv, NothingYet
<1>3. AskedRepos' = AskedRepos \union {r} /\ r \notin AskedRepos
  <2>1. AskedRepos = {ImageRepos[n] : n \in 1 .. ri - 1}
    <3>1. {j \in 1 .. Len(ImageRepos) : matchPc = "ask" => j < ri} = 1 .. ri - 1
      BY <1>2
    <3>2. QED
      BY <3>1 DEF AskedRepos
  <2>2. AskedRepos' = {ImageRepos[n] : n \in 1 .. ri}
    <3>1. {j \in 1 .. Len(ImageRepos) : matchPc' = "ask" => j < ri'} = 1 .. ri
      BY <1>2
    <3>2. QED
      BY <3>1 DEF AskedRepos
  <2>3. 1 .. ri = (1 .. ri - 1) \union {ri} /\ \A n \in 1 .. ri - 1 : n \in 1 .. Len(ImageRepos) /\ n # ri
    BY <1>2
  <2>4. AskedRepos' = AskedRepos \union {r}
    BY <2>1, <2>2, <2>3
  <2>5. r \notin AskedRepos
    BY <1>2, <2>1, <2>3, ReposTyped
  <2>6. QED
    BY <2>4, <2>5
<1>4. Wanted' = Wanted
  BY <1>2 DEF Wanted
<1>5. answer = "yes" => r \in holds
  BY DEF Match!checkTagExists
<1>6. NothingYet'
  BY <1>2 DEF MatchInv, NothingYet
<1>7. /\ DOMAIN matches = {"repos", "registry"} /\ matches.registry = Wanted.registry
      /\ DOMAIN asked = AskedRepos
      /\ \A q \in AskedRepos : asked[q] = "yes" => q \in holds
      /\ DOMAIN matches.repos = {q \in AskedRepos : asked[q] = "yes"}
      /\ \A q \in DOMAIN matches.repos :
            matches.repos[q] = Match!Image(Wanted.registry, q, Wanted.tag)
  BY <1>2 DEF MatchInv, Asked, Matched
<1>8. /\ DOMAIN asked' = AskedRepos' /\ asked'[r] = answer
      /\ \A q \in AskedRepos : q # r /\ asked'[q] = asked[q]
  BY <1>1, <1>3, <1>7 DEF Match!Put
<1>9. /\ DOMAIN matches' = {"repos", "registry"} /\ matches'.registry = Wanted.registry
      /\ matches'.repos = IF answer = "yes"
                          THEN Match!Put(matches.repos, r, Match!Image(Wanted.registry, r, Wanted.tag))
                          ELSE matches.repos
  BY <1>1, <1>7
<1>10. Asked'
  BY <1>2, <1>3, <1>4, <1>5, <1>7, <1>8, <1>9 DEF Asked
<1>11. /\ DOMAIN matches'.repos = {q \in AskedRepos' : asked'[q] = "yes"}
       /\ \A q \in DOMAIN matches'.repos :
             matches'.repos[q] = Match!Image(Wanted.registry, q, Wanted.tag)
  <2>1. CASE answer = "yes"
    <3>1. matches'.repos = Match!Put(matches.repos, r, Match!Image(Wanted.registry, r, Wanted.tag))
      BY <2>1, <1>9
    <3>2. DOMAIN matches'.repos = DOMAIN matches.repos \union {r}
      BY <3>1 DEF Match!Put
    <3>3. \A q \in DOMAIN matches'.repos :
              matches'.repos[q] = IF q = r THEN Match!Image(Wanted.registry, r, Wanted.tag) ELSE matches.repos[q]
      BY <3>1, <3>2 DEF Match!Put
    <3>4. DOMAIN matches'.repos = {q \in AskedRepos' : asked'[q] = "yes"}
      BY <1>3, <1>7, <1>8, <2>1, <3>2
    <3>5. QED
      BY <1>7, <3>2, <3>3, <3>4
  <2>2. CASE answer # "yes"
    BY <2>2, <1>3, <1>7, <1>8, <1>9
  <2>3. QED
    BY <2>1, <2>2
<1>12. Matched'
  BY <1>2, <1>4, <1>11 DEF Matched, Match!Image
<1>13. Lines'
  BY <1>2, <1>4 DEF MatchInv, Lines, Images, Match!Image
<1>14. QED
  BY <1>6, <1>10, <1>12, <1>13 DEF MatchInv

LEMMA MatchInvEndAsk == ASSUME MatchInv, Match!EndAsk PROVE MatchInv'
<1>1. /\ matchPc = "ask" /\ matchPc' = "override" /\ ri > Len(ImageRepos) /\ ri \in Nat /\ Len(ImageRepos) \in Nat
      /\ UNCHANGED <<target, override, holds, ri, matches, asked, printed>>
  BY ReposTyped DEF Match!EndAsk, MatchInv, NothingYet
<1>2. AskedRepos' = AskedRepos /\ Wanted' = Wanted
  BY <1>1 DEF AskedRepos, Wanted
<1>3. NothingYet'
  BY <1>1 DEF MatchInv, NothingYet
<1>4. Asked' /\ Matched'
  BY <1>1, <1>2 DEF MatchInv, Asked, Matched, Match!Image
<1>5. Lines'
  BY <1>1, <1>2 DEF MatchInv, Lines, Images, Match!Image
<1>6. QED
  BY <1>3, <1>4, <1>5 DEF MatchInv

LEMMA MatchInvOverride == ASSUME MatchInv, Match!Override PROVE MatchInv'
<1>1. /\ matchPc = "override" /\ ri' = 1
      /\ UNCHANGED <<target, override, holds, asked, printed>>
  BY DEF Match!Override
<1>2. Wanted' = Wanted /\ printed = <<>>
  BY <1>1 DEF Wanted, MatchInv, NothingYet
<1>3. Images' = Images
  BY <1>1, <1>2 DEF Images, Match!Image
<1>4. Lines'
  BY <1>1, <1>2, <1>3 DEF MatchInv, Lines
<1>5. NothingYet'
  BY <1>1, <1>2 DEF Match!Override, NothingYet
<1>6. Asked' /\ Matched'
  <2>1. CASE matches.repos = None
    BY <2>1 DEF Match!Override, Asked, Matched
  <2>2. CASE matches.repos # None
    <3> DEFINE o == Match!ParseImageName(override).repo
    <3>1. matchPc' = "print" /\ matches' = [matches EXCEPT !.repos = Match!Put(@, o, override)]
      BY <2>2 DEF Match!Override
    <3>2. AskedRepos' = AskedRepos
      BY <1>1, <3>1 DEF AskedRepos
    <3>3. /\ DOMAIN matches = {"repos", "registry"} /\ matches.registry = Wanted.registry
          /\ DOMAIN asked = AskedRepos
          /\ \A q \in AskedRepos : asked[q] = "yes" => q \in holds
          /\ DOMAIN matches.repos = {q \in AskedRepos : asked[q] = "yes"}
          /\ \A q \in DOMAIN matches.repos :
                matches.repos[q] = Match!Image(Wanted.registry, q, Wanted.tag)
      BY <1>1, <2>2 DEF MatchInv, Asked, Matched
    <3> HIDE DEF o
    <3>4. DOMAIN matches' = {"repos", "registry"} /\ matches'.registry = Wanted.registry
          /\ matches'.repos = Match!Put(matches.repos, o, override)
      BY <3>1, <3>3
    <3>5. /\ DOMAIN matches'.repos = DOMAIN matches.repos \union {o}
          /\ \A q \in DOMAIN matches'.repos :
                matches'.repos[q] = IF q = o THEN override ELSE matches.repos[q]
      BY <3>4 DEF Match!Put
    <3>6. Asked'
      BY <1>1, <1>2, <3>1, <3>2, <3>3, <3>4 DEF Asked
    <3>7. Matched'
      BY <1>1, <1>2, <3>1, <3>2, <3>3, <3>5 DEF Matched, Match!Image
    <3>8. QED
      BY <3>6, <3>7
  <2>3. QED
    BY <2>1, <2>2
<1>7. QED
  BY <1>4, <1>5, <1>6 DEF MatchInv

LEMMA MatchInvPrint == ASSUME MatchInv, Match!PrintLine PROVE MatchInv'
<1> DEFINE l == [repo |-> ImageRepos[ri], image |-> Match!Match(ImageRepos[ri])]
<1>1. /\ matchPc = "print" /\ matchPc' = "print" /\ ri \in 1 .. Len(ImageRepos) /\ ri' = ri + 1
      /\ printed' = Append(printed, l)
      /\ UNCHANGED <<target, override, holds, matches, asked>>
  BY ReposTyped DEF Match!PrintLine, MatchInv, NothingYet
<1>2. AskedRepos' = AskedRepos /\ Wanted' = Wanted /\ AskedRepos = Match!RepoSet
  BY <1>1 DEF AskedRepos, Wanted, Match!RepoSet
<1>3. Images' = Images
  BY <1>1, <1>2 DEF Images, Match!Image
<1>4. NothingYet' /\ Asked' /\ Matched'
  BY <1>1, <1>2 DEF MatchInv, NothingYet, Asked, Matched, Match!Image
<1>5. ImageRepos[ri] \in AskedRepos
  BY <1>1 DEF AskedRepos
<1>6. /\ matches.registry = Wanted.registry
      /\ \A q \in AskedRepos : asked[q] = "yes" => q \in DOMAIN matches.repos
      /\ \A q \in DOMAIN matches.repos :
            \/ matches.repos[q] = override
            \/ /\ q \in AskedRepos /\ asked[q] = "yes"
               /\ matches.repos[q] = Match!Image(Wanted.registry, q, Wanted.tag)
  BY <1>1 DEF MatchInv, Asked, Matched
<1>7. Line(l)
  <2>1. CASE ImageRepos[ri] \in DOMAIN matches.repos
    BY <1>5, <1>6, <2>1 DEF Line, Match!Match
  <2>2. CASE ImageRepos[ri] \notin DOMAIN matches.repos
    BY <1>5, <1>6, <2>2 DEF Line, Match!Match
  <2>3. QED
    BY <2>1, <2>2
<1>8. l \in [repo : Match!RepoSet, image : Images]
  BY <1>2, <1>5, <1>7 DEF Line, Images
<1>9. printed \in Seq([repo : Match!RepoSet, image : Images]) /\ \A i \in 1 .. Len(printed) : Line(printed[i])
  BY <1>1 DEF MatchInv, Lines
<1> HIDE DEF l
<1>10. /\ printed' \in Seq([repo : Match!RepoSet, image : Images])
       /\ \A i \in 1 .. Len(printed') : printed'[i] = l \/ \E j \in 1 .. Len(printed) : printed'[i] = printed[j]
  BY <1>1, <1>8, <1>9
<1>11. \A i \in 1 .. Len(printed') : Line(printed'[i])
  BY <1>7, <1>9, <1>10
<1>12. (\A i \in 1 .. Len(printed) : Line(printed[i]))'
  BY <1>1, <1>2, <1>11 DEF Line, Match!Image
<1>13. Lines'
  BY <1>3, <1>10, <1>12 DEF Lines
<1>14. QED
  BY <1>4, <1>13 DEF MatchInv

LEMMA MatchInvEndPrint == ASSUME MatchInv, Match!EndPrint \/ UNCHANGED matchVars PROVE MatchInv'
<1>1. /\ UNCHANGED <<target, override, holds, ri, matches, asked, printed>>
      /\ \/ matchPc = "print" /\ matchPc' = "ok"
         \/ matchPc' = matchPc
  BY DEF Match!EndPrint, matchVars
<1>2. AskedRepos' = AskedRepos /\ Wanted' = Wanted
  BY <1>1 DEF AskedRepos, Wanted
<1>3. Images' = Images
  BY <1>1, <1>2 DEF Images, Match!Image
<1>4. \A x : Line(x) => Line(x)'
  BY <1>1, <1>2 DEF Line, Match!Image
<1>5. NothingYet' /\ Asked' /\ Matched'
  BY <1>1, <1>2 DEF MatchInv, NothingYet, Asked, Matched, Match!Image
<1>6. Lines'
  BY <1>1, <1>3, <1>4 DEF MatchInv, Lines
<1>7. QED
  BY <1>5, <1>6 DEF MatchInv

\* An image that is printed is the current one, one the registry has, or master, also
\* when requests fail (GetMatches, checkTagExists); all but the current one come from
\* the registry of the target and have its tag where it exists (ParseImageName, Match).
THEOREM ImagesMatchAlways == Spec => []ImagesMatch
<1> DEFINE Inv == part = "match" => MatchInv
<1>1. Init => Inv
  BY MatchInvInit DEF Init
<1>2. Inv /\ [Next]_vars => Inv'
  <2> SUFFICES ASSUME part = "match", MatchInv, [Next]_vars PROVE MatchInv'
    BY MatchSteps
  <2>1. CASE Match!Next
    BY <2>1, MatchInvBegin, MatchInvAsk, MatchInvEndAsk, MatchInvOverride, MatchInvPrint, MatchInvEndPrint
       DEF Match!Next
  <2>2. CASE UNCHANGED matchVars
    BY <2>2, MatchInvEndPrint
  <2>3. QED
    BY <2>1, <2>2, MatchSteps
<1>3. MatchInv => Match!ImagesExist /\ Match!OneRegistry
  <2> SUFFICES ASSUME MatchInv PROVE Match!ImagesExist /\ Match!OneRegistry
    OBVIOUS
  <2>1. CASE matchPc \notin {"print", "ok"}
    <3>1. Len(printed) = 0 /\ matchPc # "ok"
      BY <2>1 DEF MatchInv, NothingYet
    <3>2. QED
      BY <3>1 DEF Match!ImagesExist, Match!OneRegistry
  <2>2. CASE matchPc \in {"print", "ok"}
    <3>1. \A q \in AskedRepos : q \in Seq(STRING)
      BY ReposTyped DEF AskedRepos
    <3>2. \A x, q, t : q \in Seq(STRING) => Match!Image(x, q, t).parts[1] = x /\ Match!Image(x, q, t).tag = t
      BY DEF Match!Image
    <3>3. \A i \in 1 .. Len(printed) : Line(printed[i])
      BY <2>2 DEF MatchInv, Lines
    <3>4. \A q \in AskedRepos : asked[q] = "yes" => q \in holds
      BY <2>2 DEF MatchInv, Asked
    <3>5. Match!ImagesExist
      BY <3>1, <3>2, <3>3, <3>4 DEF Match!ImagesExist, Line
    <3>6. Match!OneRegistry
      BY <3>1, <3>2, <3>3 DEF Match!OneRegistry, Line, Wanted, Match!ParseImageName
    <3>7. QED
      BY <3>5, <3>6
  <2>3. QED
    BY <2>1, <2>2
<1>4. Inv => ImagesMatch
  BY <1>3 DEF ImagesMatch
<1>5. QED
  BY <1>1, <1>2, <1>4, PTL DEF Spec

-----------------------------------------------------------------------------
(* Layering *)

LEMMA LayerSteps ==
    ASSUME [Next]_vars
    PROVE  part' = part /\ (part = "layer" => Layer!Next \/ UNCHANGED layerVars)
BY DEF Next, vars, LayerNext, RenderNext, SiteNext, ControllerNext, MatchNext, JobNext, RestoreNext

\* Copying level over level leaves the value of the innermost one that gives any.
LEMMA InnermostWins ==
    ASSUME NEW s, DOMAIN s = 1 .. 3, Len(s) = 3
    PROVE  Layer!Innermost(s) = Layer!Over(Layer!Over(Layer!Over(None, s[1]), s[2]), s[3])
<1> DEFINE given == {i \in 1 .. Len(s) : s[i] # None}
           m == CHOOSE i \in given : \A j \in given : j <= i
<1>1. \A i : i \in given <=> i \in {1, 2, 3} /\ s[i] # None
  OBVIOUS
<1>2. Layer!Innermost(s) = IF given = {} THEN None ELSE s[m]
  BY DEF Layer!Innermost
<1>3. ASSUME NEW i \in given, \A j \in given : j <= i PROVE m = i
  <2>1. m \in given /\ \A j \in given : j <= m
    BY <1>3
  <2>2. m \in Nat /\ i \in Nat /\ m <= i /\ i <= m
    BY <1>1, <1>3, <2>1
  <2>3. QED
    BY <2>2
<1> HIDE DEF given, m
<1>4. CASE s[3] # None
  <2>1. m = 3 /\ given # {}
    BY <1>1, <1>3, <1>4
  <2>2. QED
    BY <1>2, <1>4, <2>1 DEF Layer!Over
<1>5. CASE s[3] = None /\ s[2] # None
  <2>1. m = 2 /\ given # {}
    BY <1>1, <1>3, <1>5
  <2>2. QED
    BY <1>2, <1>5, <2>1 DEF Layer!Over
<1>6. CASE s[3] = None /\ s[2] = None /\ s[1] # None
  <2>1. m = 1 /\ given # {}
    BY <1>1, <1>3, <1>6
  <2>2. QED
    BY <1>2, <1>6, <2>1 DEF Layer!Over
<1>7. CASE s[3] = None /\ s[2] = None /\ s[1] = None
  <2>1. given = {}
    BY <1>1, <1>7
  <2>2. QED
    BY <1>2, <1>7, <2>1 DEF Layer!Over
<1>8. QED
  BY <1>4, <1>5, <1>6, <1>7

LayerTyped ==
    /\ config \in PolicyConfigs
    /\ DOMAIN rp = DOMAIN Layer!NoPolicy
    /\ DOMAIN config.heap \subseteq DOMAIN heap

\* GetRepoPolicy is at a repository of the configuration, or has found none; a branch
\* has been computed or is still to be.
AtRepo ==
    \/ branchesTodo = {} /\ rp = Layer!NoPolicy
    \/ /\ group \in DOMAIN config.groups /\ rp.name \in DOMAIN config.groups[group].repos
       /\ DOMAIN rp.branches \union branchesTodo = DOMAIN Layer!Repo.branches
       /\ DOMAIN rp.branches \intersect branchesTodo = {}

NoDoubles ==
    \A a \in DOMAIN heap : \A i, j \in 1 .. Len(heap[a].archs) :
        i # j => heap[a].archs[i] # heap[a].archs[j]

\* A build of a branch is null, one of the configuration, or the branch's own copy.
OwnBuilds ==
    \A b \in DOMAIN rp.branches : \A k \in DOMAIN rp.branches[b].builds :
        LET a == rp.branches[b].builds[k] IN
        a = Nil \/ (a \in DOMAIN heap /\ (a \in DOMAIN config.heap \/ a = <<"copy", b, k>>))

LayerInv ==
    /\ LayerTyped /\ AtRepo /\ Layer!ConfigUntouched /\ NoDoubles /\ OwnBuilds
    /\ Layer!BranchIndependent /\ Layer!BranchAndValsAgree

LEMMA LayerInvInit == ASSUME Layer!Init PROVE LayerInv
<1>1. LayerTyped /\ AtRepo
  BY DEF Layer!Init, LayerTyped, AtRepo
<1>2. Layer!ConfigUntouched /\ NoDoubles
  <2>1. config \in PolicyConfigs /\ heap = config.heap
    BY DEF Layer!Init
  <2>2. \A a \in DOMAIN config.heap : \A i, j \in 1 .. Len(config.heap[a].archs) :
            i # j => config.heap[a].archs[i] # config.heap[a].archs[j]
    BY <2>1, PolicyTyped, Zenon
  <2>3. Layer!ConfigUntouched
    BY <2>1, Zenon DEF Layer!ConfigUntouched
  <2>4. NoDoubles
    BY <2>1, <2>2 DEF NoDoubles
  <2>5. QED
    BY <2>3, <2>4
<1>3. DOMAIN rp.branches = {} /\ rp.branch = None
  BY DEF Layer!Init, Layer!NoPolicy
<1>4. OwnBuilds /\ Layer!BranchIndependent /\ Layer!BranchAndValsAgree
  BY <1>3 DEF OwnBuilds, Layer!BranchIndependent, Layer!BranchAndValsAgree
<1>5. QED
  BY <1>1, <1>2, <1>4 DEF LayerInv

\* A repository that is looked for begins without branches; the heap is left alone.
LEMMA LayerInvFind ==
    ASSUME LayerInv,
           \/ \E r \in PolicyRepos : Layer!UnknownRepo(r)
           \/ \E r \in PolicyRepos, g \in DOMAIN config.groups : Layer!FindRepo(r, g)
    PROVE  LayerInv'
<1>1. /\ config' = config /\ heap' = heap
      /\ DOMAIN rp' = DOMAIN Layer!NoPolicy /\ DOMAIN rp'.branches = {} /\ rp'.branch = None
  <2>1. CASE \E r \in PolicyRepos : Layer!UnknownRepo(r)
    BY <2>1 DEF Layer!UnknownRepo, Layer!NoPolicy
  <2>2. ASSUME NEW r \in PolicyRepos, NEW g \in DOMAIN config.groups, Layer!FindRepo(r, g)
        PROVE  /\ config' = config /\ heap' = heap
               /\ DOMAIN rp' = DOMAIN Layer!NoPolicy /\ DOMAIN rp'.branches = {} /\ rp'.branch = None
    <3>1. PICK o, p : rp' = [Layer!NoPolicy EXCEPT !.name = r, !.owner = o, !.ports = p]
      BY <2>2 DEF Layer!FindRepo
    <3>2. DOMAIN rp' = DOMAIN Layer!NoPolicy /\ rp'.branches = <<>> /\ rp'.branch = None
      BY <3>1 DEF Layer!NoPolicy
    <3>3. config' = config /\ heap' = heap
      BY <2>2 DEF Layer!FindRepo
    <3>4. QED
      BY <3>2, <3>3
  <2>3. QED
    BY <2>1, <2>2
<1>2. LayerTyped' /\ Layer!ConfigUntouched' /\ NoDoubles'
  BY <1>1 DEF LayerInv, LayerTyped, Layer!ConfigUntouched, NoDoubles
<1>3. OwnBuilds' /\ Layer!BranchIndependent' /\ Layer!BranchAndValsAgree'
  BY <1>1 DEF OwnBuilds, Layer!BranchIndependent, Layer!BranchAndValsAgree
<1>4. AtRepo'
  <2>1. CASE \E r \in PolicyRepos : Layer!UnknownRepo(r)
    BY <2>1 DEF Layer!UnknownRepo, AtRepo
  <2>2. ASSUME NEW r \in PolicyRepos, NEW g \in DOMAIN config.groups, Layer!FindRepo(r, g)
        PROVE  AtRepo'
    <3>1. /\ group' = g /\ rp'.name = r /\ r \in DOMAIN config.groups[g].repos
          /\ branchesTodo' = DOMAIN config.groups[g].repos[r].branches
      BY <2>2 DEF Layer!FindRepo, Layer!NoPolicy
    <3>2. QED
      BY <1>1, <3>1 DEF AtRepo, Layer!Repo
  <2>3. QED
    BY <2>1, <2>2
<1>5. QED
  BY <1>2, <1>3, <1>4 DEF LayerInv

LEMMA LayerInvSetBranch ==
    ASSUME LayerInv, NEW n \in BranchNames, Layer!SetBranch(n)
    PROVE  LayerInv'
<1>1. /\ UNCHANGED <<config, heap, group, branchesTodo>>
      /\ \/ \E b \in Layer!Matches(n) : rp' = [rp EXCEPT !.branch = b, !.branchvals = rp.branches[b]]
         \/ rp' = rp
  BY DEF Layer!SetBranch
<1>2. \A b \in Layer!Matches(n) : b \in DOMAIN rp.branches
  BY DEF Layer!Matches
<1>3. DOMAIN rp = {"name", "owner", "ports", "branches", "branch", "branchvals"}
  BY DEF LayerInv, LayerTyped, Layer!NoPolicy
<1>4. DOMAIN rp' = DOMAIN rp /\ rp'.name = rp.name /\ rp'.branches = rp.branches
  BY <1>1, <1>3
<1>5. Layer!BranchAndValsAgree'
  BY <1>1, <1>2, <1>3 DEF LayerInv, Layer!BranchAndValsAgree
<1>6. LayerTyped' /\ Layer!ConfigUntouched' /\ NoDoubles' /\ OwnBuilds'
  <2>1. LayerTyped'
    BY <1>1, <1>4 DEF LayerInv, LayerTyped, Layer!NoPolicy
  <2>2. Layer!ConfigUntouched' /\ NoDoubles'
    <3>1. Layer!ConfigUntouched /\ NoDoubles /\ config' = config /\ heap' = heap
      BY <1>1 DEF LayerInv
    <3>2. QED
      BY <3>1 DEF Layer!ConfigUntouched, NoDoubles
  <2>3. OwnBuilds'
    BY <1>1, <1>4 DEF LayerInv, OwnBuilds
  <2>4. QED
    BY <2>1, <2>2, <2>3
<1>7. AtRepo'
  <2>1. rp # Layer!NoPolicy
    <3>1. rp.name # None /\ Layer!NoPolicy.name = None
      BY DEF Layer!SetBranch, Layer!NoPolicy
    <3>2. QED
      BY <3>1
  <2>2. QED
    BY <1>1, <1>4, <2>1 DEF LayerInv, AtRepo, Layer!Repo
<1>8. Layer!BranchIndependent'
  <2>1. \A b : Layer!Computed(b)' = Layer!Computed(b)
    BY <1>1, <1>4 DEF Layer!Computed
  <2>2. \A b : Layer!Levels(b)' = Layer!Levels(b)
    BY <1>1, <1>4 DEF Layer!Levels, Layer!Repo
  <2>3. QED
    BY <1>1, <1>4, <2>1, <2>2 DEF LayerInv, Layer!BranchIndependent
<1>9. QED
  BY <1>5, <1>6, <1>7, <1>8 DEF LayerInv

\* What mergeBuilds makes of heap h for a branch: its copies are new, nothing else is
\* written.
LEMMA CopiesOnly ==
    ASSUME NEW h, NEW r, NEW own, NEW b
    PROVE  LET m == Layer!mergeBuilds(h, r, own, b) IN
           /\ DOMAIN m.heap = DOMAIN h \union {<<"copy", b, k>> : k \in DOMAIN r}
           /\ \A a \in DOMAIN h :
                 (\A k \in DOMAIN r : a # <<"copy", b, k>>) => m.heap[a] = h[a]
           /\ \A k \in DOMAIN r : m.heap[<<"copy", b, k>>] = Layer!MergedBuild(h, r, own, k)
           /\ DOMAIN m.builds = DOMAIN r \union DOMAIN own
           /\ \A k \in DOMAIN r : m.builds[k] = <<"copy", b, k>>
           /\ \A k \in DOMAIN own : k \notin DOMAIN r => m.builds[k] = own[k]
<1> DEFINE copy == [k \in DOMAIN r |-> <<"copy", b, k>>]
           C == {copy[k] : k \in DOMAIN r}
           g == [a \in C |-> Layer!MergedBuild(h, r, own, a[3])]
           m == Layer!mergeBuilds(h, r, own, b)
<1>1. m.heap = Layer!Update(h, g)
  BY DEF Layer!mergeBuilds
<1>2. m.builds = [k \in DOMAIN r \union DOMAIN own |-> IF k \in DOMAIN r THEN copy[k] ELSE own[k]]
  BY DEF Layer!mergeBuilds
<1>3. C = {<<"copy", b, k>> : k \in DOMAIN r}
  OBVIOUS
<1>4. \A k \in DOMAIN r : <<"copy", b, k>> \in C /\ g[<<"copy", b, k>>] = Layer!MergedBuild(h, r, own, k)
  <2> SUFFICES ASSUME NEW k \in DOMAIN r
               PROVE  <<"copy", b, k>> \in C /\ g[<<"copy", b, k>>] = Layer!MergedBuild(h, r, own, k)
    OBVIOUS
  <2>1. <<"copy", b, k>> \in C /\ <<"copy", b, k>>[3] = k
    BY <1>3
  <2>2. QED
    BY <2>1
<1>5. DOMAIN g = C
  OBVIOUS
<1> HIDE DEF C, g
<1>6. /\ DOMAIN m.heap = DOMAIN h \union C
      /\ \A a \in DOMAIN h \union C : m.heap[a] = IF a \in C THEN g[a] ELSE h[a]
  BY <1>1, <1>5 DEF Layer!Update
<1>7. QED
  BY <1>2, <1>3, <1>4, <1>6

\* What the loop of GetRepoPolicy works with, as decoded.
LEMMA LevelsTyped ==
    ASSUME LayerInv, NEW b \in branchesTodo
    PROVE  /\ group \in DOMAIN config.groups /\ rp.name \in DOMAIN config.groups[group].repos
           /\ DOMAIN rp.branches \union branchesTodo = DOMAIN Layer!Repo.branches
           /\ DOMAIN rp.branches \intersect branchesTodo = {}
           /\ Nil \notin DOMAIN config.heap
           /\ \A k \in DOMAIN Layer!Repo.vals.builds :
                 /\ Layer!Repo.vals.builds[k] \in DOMAIN config.heap
                 /\ <<"copy", b, k>> \notin DOMAIN config.heap /\ <<"copy", b, k>> # Nil
           /\ \A k \in DOMAIN Layer!Repo.branches[b].builds :
                 Layer!Repo.branches[b].builds[k] \in DOMAIN config.heap \union {Nil}
<1>1. /\ group \in DOMAIN config.groups /\ rp.name \in DOMAIN config.groups[group].repos
      /\ DOMAIN rp.branches \union branchesTodo = DOMAIN Layer!Repo.branches
      /\ DOMAIN rp.branches \intersect branchesTodo = {}
      /\ config \in PolicyConfigs
  BY DEF LayerInv, AtRepo, LayerTyped
<1>2. b \in DOMAIN config.groups[group].repos[rp.name].branches
  BY <1>1 DEF Layer!Repo
<1> DEFINE repo == config.groups[group].repos[rp.name]
<1>3. /\ Nil \notin DOMAIN config.heap
      /\ \A k \in DOMAIN repo.vals.builds : repo.vals.builds[k] \in DOMAIN config.heap
      /\ \A x \in DOMAIN repo.branches :
            /\ \A k \in DOMAIN repo.branches[x].builds :
                  repo.branches[x].builds[k] \in DOMAIN config.heap \union {Nil}
            /\ \A k \in DOMAIN repo.vals.builds : <<"copy", x, k>> \notin DOMAIN config.heap \union {Nil}
  <2>1. /\ Nil \notin DOMAIN config.heap
        /\ \A g \in DOMAIN config.groups : \A r \in DOMAIN config.groups[g].repos :
              LET q == config.groups[g].repos[r] IN
              /\ \A k \in DOMAIN q.vals.builds : q.vals.builds[k] \in DOMAIN config.heap
              /\ \A x \in DOMAIN q.branches :
                    LET own == q.branches[x].builds IN
                    /\ \A k \in DOMAIN own : own[k] \in DOMAIN config.heap \union {Nil}
                    /\ \A k \in DOMAIN q.vals.builds :
                          <<"copy", x, k>> \notin DOMAIN config.heap \union {Nil}
    BY <1>1, PolicyTyped
  <2>2. QED
    BY <1>1, <2>1
<1>4. Layer!Repo = repo
  BY DEF Layer!Repo
<1> HIDE DEF repo
<1>5. QED
  BY <1>1, <1>2, <1>3, <1>4

\* Computing a branch writes copies of its own and so changes neither the configuration
\* nor what was computed for another branch.
LEMMA LayerInvCompute ==
    ASSUME LayerInv, NEW b \in branchesTodo, Layer!ComputeBranch(b)
    PROVE  LayerInv'
<1> DEFINE gv == config.groups[group].vals
           rv == Layer!Repo.vals
           bv == Layer!Repo.branches[b]
           r == rv.builds
           own == bv.builds
           features0 == Layer!Features(gv, rv, bv)
           m == Layer!mergeBuilds(heap, r, own, b)
           filtered == Layer!filterBuildsByFeature(m.heap, m.builds, features0)
           new == [vals |-> Layer!CopyOver(Layer!CopyOver(Layer!CopyOver(Layer!Zero, gv), rv), bv),
                   features |-> features0,
                   deleted |-> config.deleted \union gv.deleted \union rv.deleted \union bv.deleted,
                   builds |-> filtered]
<1>1. /\ branchesTodo' = branchesTodo \ {b} /\ heap' = m.heap /\ config' = config /\ group' = group
      /\ rp' = [rp EXCEPT !.branches = Layer!Update(@, [x \in {b} |-> new])]
  BY DEF Layer!ComputeBranch
<1> HIDE DEF new
<1>2. DOMAIN rp = {"name", "owner", "ports", "branches", "branch", "branchvals"}
  BY DEF LayerInv, LayerTyped, Layer!NoPolicy
<1>3. /\ DOMAIN rp' = DOMAIN rp /\ rp'.name = rp.name
      /\ rp'.branch = rp.branch /\ rp'.branchvals = rp.branchvals
      /\ rp'.branches = Layer!Update(rp.branches, [x \in {b} |-> new])
  BY <1>1, <1>2
<1>4. /\ DOMAIN rp'.branches = DOMAIN rp.branches \union {b}
      /\ rp'.branches[b] = new
      /\ \A x \in DOMAIN rp.branches : x # b => rp'.branches[x] = rp.branches[x]
  BY <1>3 DEF Layer!Update
<1>5. /\ group \in DOMAIN config.groups /\ rp.name \in DOMAIN config.groups[group].repos
      /\ DOMAIN rp.branches \union branchesTodo = DOMAIN Layer!Repo.branches
      /\ DOMAIN rp.branches \intersect branchesTodo = {}
      /\ Nil \notin DOMAIN config.heap
      /\ \A k \in DOMAIN r : r[k] \in DOMAIN config.heap
                                /\ <<"copy", b, k>> \notin DOMAIN config.heap /\ <<"copy", b, k>> # Nil
      /\ \A k \in DOMAIN own : own[k] \in DOMAIN config.heap \union {Nil}
  BY LevelsTyped
<1>6. /\ DOMAIN m.heap = DOMAIN heap \union {<<"copy", b, k>> : k \in DOMAIN r}
      /\ \A a \in DOMAIN heap :
            (\A k \in DOMAIN r : a # <<"copy", b, k>>) => m.heap[a] = heap[a]
      /\ \A k \in DOMAIN r : m.heap[<<"copy", b, k>>] = Layer!MergedBuild(heap, r, own, k)
      /\ DOMAIN m.builds = DOMAIN r \union DOMAIN own
      /\ \A k \in DOMAIN r : m.builds[k] = <<"copy", b, k>>
      /\ \A k \in DOMAIN own : k \notin DOMAIN r => m.builds[k] = own[k]
  BY CopiesOnly
<1>7. Layer!Repo' = Layer!Repo
  BY <1>1, <1>3 DEF Layer!Repo
<1> HIDE DEF gv, rv, bv, r, own, features0, m
<1>8. \A a \in DOMAIN config.heap : a \in DOMAIN heap /\ heap[a] = config.heap[a] /\ m.heap[a] = heap[a]
  BY <1>5, <1>6 DEF LayerInv, LayerTyped, Layer!ConfigUntouched
<1>9. \A k \in DOMAIN r : Layer!MergedBuild(heap, r, own, k) = Layer!MergedBuild(config.heap, r, own, k)
  BY <1>5, <1>8 DEF Layer!MergedBuild
<1>10. LayerTyped' /\ Layer!ConfigUntouched'
  <2>1. DOMAIN config'.heap \subseteq DOMAIN heap'
    BY <1>1, <1>6, <1>8
  <2>2. LayerTyped'
    BY <1>1, <1>3, <2>1 DEF LayerInv, LayerTyped, Layer!NoPolicy
  <2>3. Layer!ConfigUntouched'
    BY <1>1, <1>8 DEF Layer!ConfigUntouched
  <2>4. QED
    BY <2>2, <2>3
<1>11. AtRepo'
  BY <1>1, <1>3, <1>4, <1>5, <1>7 DEF AtRepo
<1>12. Layer!BranchAndValsAgree'
  <2>1. b \notin DOMAIN rp.branches
    BY <1>5
  <2>2. QED
    BY <1>3, <1>4, <2>1 DEF LayerInv, Layer!BranchAndValsAgree
<1> DEFINE Once(s) == \A i, j \in 1 .. Len(s) : i # j => s[i] # s[j]
<1>13. NoDoubles'
  <2>1. \A a \in DOMAIN heap : Once(heap[a].archs)
    BY DEF LayerInv, NoDoubles
  <2>2. ASSUME NEW k \in DOMAIN r PROVE Once(Layer!MergedBuild(heap, r, own, k).archs)
    <3>1. r[k] \in DOMAIN heap /\ (k \in DOMAIN own => own[k] \in DOMAIN heap \union {Nil})
      BY <1>5, <1>8
    <3> HIDE DEF Once
    <3>2. \/ Layer!MergedBuild(heap, r, own, k).archs = heap[r[k]].archs
          \/ k \in DOMAIN own /\ own[k] # Nil /\ Layer!MergedBuild(heap, r, own, k).archs = heap[own[k]].archs
      BY DEF Layer!MergedBuild, Layer!MergeBuild
    <3>3. QED
      BY <2>1, <3>1, <3>2
  <2> HIDE DEF Once
  <2>3. \A a \in DOMAIN m.heap : Once(m.heap[a].archs)
    BY <1>6, <2>1, <2>2
  <2>4. QED
    BY <1>1, <2>3 DEF NoDoubles, Once
<1>14. /\ DOMAIN filtered
            = {k \in DOMAIN m.builds :
                  m.builds[k] = Nil \/ m.heap[m.builds[k]].feature \in features0 \union {None}}
       /\ \A k \in DOMAIN filtered : k \in DOMAIN m.builds /\ filtered[k] = m.builds[k]
  BY DEF Layer!filterBuildsByFeature
<1>15. /\ new.builds = filtered /\ new.features = features0
       /\ new.deleted = config.deleted \union gv.deleted \union rv.deleted \union bv.deleted
       /\ new.vals = Layer!CopyOver(Layer!CopyOver(Layer!CopyOver(Layer!Zero, gv), rv), bv)
  BY DEF new
<1> HIDE DEF filtered
<1>16. \A x \in DOMAIN rp.branches : \A k \in DOMAIN rp.branches[x].builds :
           LET a == rp.branches[x].builds[k] IN a # Nil => a \in DOMAIN m.heap /\ m.heap[a] = heap[a]
  <2> SUFFICES ASSUME NEW x \in DOMAIN rp.branches, NEW k \in DOMAIN rp.branches[x].builds,
                      NEW a, a = rp.branches[x].builds[k], a # Nil
               PROVE  a \in DOMAIN m.heap /\ m.heap[a] = heap[a]
    OBVIOUS
  <2>1. a \in DOMAIN heap /\ (a \in DOMAIN config.heap \/ a = <<"copy", x, k>>)
    BY DEF LayerInv, OwnBuilds
  <2>2. x # b
    BY <1>5
  <2>3. \A n \in DOMAIN r : a # <<"copy", b, n>>
    <3>1. CASE a \in DOMAIN config.heap
      BY <1>5, <3>1
    <3>2. CASE a = <<"copy", x, k>>
      BY <2>2, <3>2
    <3>3. QED
      BY <2>1, <3>1, <3>2
  <2>4. QED
    BY <1>6, <2>1, <2>3
<1>17. OwnBuilds'
  <2> SUFFICES ASSUME NEW x \in DOMAIN rp'.branches, NEW k \in DOMAIN rp'.branches[x].builds,
                      NEW a, a = rp'.branches[x].builds[k], a # Nil
               PROVE  a \in DOMAIN heap' /\ (a \in DOMAIN config'.heap \/ a = <<"copy", x, k>>)
    BY DEF OwnBuilds
  <2>1. CASE x # b
    <3>1. /\ x \in DOMAIN rp.branches /\ rp'.branches[x] = rp.branches[x]
          /\ k \in DOMAIN rp.branches[x].builds /\ a = rp.branches[x].builds[k]
      BY <1>4, <2>1
    <3>2. a \in DOMAIN heap'
      BY <1>1, <1>16, <3>1
    <3>3. QED
      BY <1>1, <3>1, <3>2 DEF LayerInv, OwnBuilds
  <2>2. CASE x = b
    <3>1. k \in DOMAIN m.builds /\ a = m.builds[k]
      BY <1>4, <1>14, <1>15, <2>2
    <3>2. CASE k \in DOMAIN r
      BY <1>1, <1>6, <2>2, <3>1, <3>2
    <3>3. CASE k \notin DOMAIN r
      <4>1. a \in DOMAIN config.heap
        BY <1>5, <1>6, <3>1, <3>3
      <4>2. QED
        BY <1>1, <1>6, <1>8, <4>1
    <3>4. QED
      BY <3>2, <3>3
  <2>3. QED
    BY <2>1, <2>2
<1>18. \A x : Layer!Levels(x)' = Layer!Levels(x)
  BY <1>1, <1>7 DEF Layer!Levels
<1>19. \A x \in DOMAIN rp.branches : Layer!Computed(x)' = Layer!Computed(x)
  <2> SUFFICES ASSUME NEW x \in DOMAIN rp.branches PROVE Layer!Computed(x)' = Layer!Computed(x)
    OBVIOUS
  <2>1. rp'.branches[x] = rp.branches[x]
    BY <1>4, <1>5
  <2>2. \A k \in DOMAIN rp.branches[x].builds :
            rp.branches[x].builds[k] # Nil => heap'[rp.branches[x].builds[k]] = heap[rp.branches[x].builds[k]]
    BY <1>1, <1>16
  <2>3. [k \in DOMAIN rp.branches[x].builds |->
            IF rp.branches[x].builds[k] = Nil THEN Nil ELSE heap'[rp.branches[x].builds[k]]]
        = [k \in DOMAIN rp.branches[x].builds |->
            IF rp.branches[x].builds[k] = Nil THEN Nil ELSE heap[rp.branches[x].builds[k]]]
    BY <2>2
  <2>4. QED
    BY <2>1, <2>3 DEF Layer!Computed
<1>20. Layer!Computed(b)' = Layer!Defined(config, Layer!Levels(b))
  <2> DEFINE l == <<gv, rv, bv>>
             Null(k) == k \notin DOMAIN r /\ own[k] = Nil
             Build(k) ==
                 IF k \in DOMAIN r THEN Layer!MergedBuild(config.heap, r, own, k)
                 ELSE IF own[k] = Nil THEN Nil ELSE config.heap[own[k]]
             On(k) == Null(k) \/ Build(k).feature \in features0 \union {None}
  <2>1. Layer!Levels(b) = l
    BY DEF Layer!Levels, gv, rv, bv
  <2>2. ASSUME NEW f
        PROVE  Layer!Innermost([i \in 1 .. 3 |-> l[i][f]])
                   = Layer!Over(Layer!Over(Layer!Over(None, gv[f]), rv[f]), bv[f])
    <3> DEFINE s == [i \in 1 .. 3 |-> l[i][f]]
    <3>1. DOMAIN s = 1 .. 3 /\ Len(s) = 3 /\ s[1] = gv[f] /\ s[2] = rv[f] /\ s[3] = bv[f]
      OBVIOUS
    <3> HIDE DEF s
    <3>2. Layer!Innermost(s) = Layer!Over(Layer!Over(Layer!Over(None, gv[f]), rv[f]), bv[f])
      BY <3>1, InnermostWins
    <3>3. QED
      BY <3>2 DEF s
  <2>3. /\ new.vals.text = Layer!Over(Layer!Over(Layer!Over(None, gv.text), rv.text), bv.text)
        /\ new.vals.tests = Layer!Over(Layer!Over(Layer!Over(None, gv.tests), rv.tests), bv.tests)
        /\ new.vals.plugin = Layer!Over(Layer!Over(Layer!Over(None, gv.plugin), rv.plugin), bv.plugin)
    BY <1>15 DEF Layer!CopyOver, Layer!Zero
  <2>4. UNION {l[i].features : i \in 1 .. 3} = features0
    <3>1. {l[i].features : i \in 1 .. 3} = {gv.features, rv.features, bv.features}
      OBVIOUS
    <3>2. QED
      BY <3>1 DEF features0, Layer!Features
  <2>5. config.deleted \union UNION {l[i].deleted : i \in 1 .. 3} = new.deleted
    <3>1. {l[i].deleted : i \in 1 .. 3} = {gv.deleted, rv.deleted, bv.deleted}
      OBVIOUS
    <3>2. QED
      BY <1>15, <3>1
  <2>6. ASSUME NEW k \in DOMAIN r \union DOMAIN own
        PROVE  /\ m.builds[k] = Nil <=> Null(k)
               /\ (IF m.builds[k] = Nil THEN Nil ELSE m.heap[m.builds[k]]) = Build(k)
               /\ m.builds[k] # Nil => m.heap[m.builds[k]] = Build(k)
    <3>1. CASE k \in DOMAIN r
      BY <1>5, <1>6, <1>9, <3>1
    <3>2. CASE k \notin DOMAIN r
      BY <1>5, <1>6, <1>8, <3>2
    <3>3. QED
      BY <3>1, <3>2
  <2> HIDE DEF Null, Build
  <2>7. DOMAIN filtered = {k \in DOMAIN r \union DOMAIN own : On(k)}
    <3>1. \A k \in DOMAIN r \union DOMAIN own :
              On(k) <=> m.builds[k] = Nil \/ m.heap[m.builds[k]].feature \in features0 \union {None}
      BY <2>6
    <3>2. QED
      BY <1>6, <1>14, <3>1
  <2>8. [k \in DOMAIN filtered |-> IF filtered[k] = Nil THEN Nil ELSE m.heap[filtered[k]]]
        = [k \in {x \in DOMAIN r \union DOMAIN own : On(x)} |-> Build(k)]
    <3>1. \A k \in DOMAIN filtered :
              (IF filtered[k] = Nil THEN Nil ELSE m.heap[filtered[k]]) = Build(k)
      BY <1>6, <1>14, <2>6
    <3>2. QED
      BY <2>7, <3>1
  <2>9. Layer!Computed(b)' =
            [text |-> new.vals.text, tests |-> new.vals.tests, plugin |-> new.vals.plugin,
             features |-> features0, deleted |-> new.deleted,
             builds |-> [k \in DOMAIN filtered |-> IF filtered[k] = Nil THEN Nil ELSE m.heap[filtered[k]]]]
    <3> DEFINE v0 == rp'.branches[b]
    <3>1. /\ v0.vals = new.vals /\ v0.features = features0 /\ v0.deleted = new.deleted
          /\ v0.builds = filtered /\ heap' = m.heap
      BY <1>1, <1>4, <1>15
    <3>2. Layer!Computed(b)' =
            [text |-> v0.vals.text, tests |-> v0.vals.tests, plugin |-> v0.vals.plugin,
             features |-> v0.features, deleted |-> v0.deleted,
             builds |-> [k \in DOMAIN v0.builds |-> IF v0.builds[k] = Nil THEN Nil ELSE heap'[v0.builds[k]]]]
      BY DEF Layer!Computed
    <3> HIDE DEF v0
    <3>3. QED
      BY <3>1, <3>2
  <2>10. Layer!Defined(config, l) =
            [text |-> Layer!Innermost([i \in 1 .. 3 |-> l[i]["text"]]),
             tests |-> Layer!Innermost([i \in 1 .. 3 |-> l[i]["tests"]]),
             plugin |-> Layer!Innermost([i \in 1 .. 3 |-> l[i]["plugin"]]),
             features |-> features0, deleted |-> new.deleted,
             builds |-> [k \in {x \in DOMAIN r \union DOMAIN own : On(x)} |-> Build(k)]]
    <3>1. l[2].builds = r /\ l[3].builds = own
      BY DEF r, own
    <3>2. QED
      BY <2>4, <2>5, <3>1 DEF Layer!Defined, Null, Build
  <2>11. /\ Layer!Innermost([i \in 1 .. 3 |-> l[i]["text"]]) = new.vals.text
         /\ Layer!Innermost([i \in 1 .. 3 |-> l[i]["tests"]]) = new.vals.tests
         /\ Layer!Innermost([i \in 1 .. 3 |-> l[i]["plugin"]]) = new.vals.plugin
    <3> HIDE DEF l
    <3>1. Layer!Innermost([i \in 1 .. 3 |-> l[i]["text"]]) = new.vals.text
      BY <2>2, <2>3
    <3>2. Layer!Innermost([i \in 1 .. 3 |-> l[i]["tests"]]) = new.vals.tests
      BY <2>2, <2>3
    <3>3. Layer!Innermost([i \in 1 .. 3 |-> l[i]["plugin"]]) = new.vals.plugin
      BY <2>2, <2>3
    <3>4. QED
      BY <3>1, <3>2, <3>3
  <2>12. Layer!Defined(config, l) = Layer!Computed(b)'
    <3> HIDE DEF l
    <3>1. QED
      BY <2>8, <2>9, <2>10, <2>11
  <2>13. QED
    BY <2>1, <2>12
<1>21. Layer!BranchIndependent'
  <2>1. \A x \in DOMAIN rp.branches : Layer!Computed(x) = Layer!Defined(config, Layer!Levels(x))
    BY DEF LayerInv, Layer!BranchIndependent
  <2>2. QED
    BY <1>1, <1>4, <1>18, <1>19, <1>20, <2>1 DEF Layer!BranchIndependent
<1>22. QED
  BY <1>10, <1>11, <1>12, <1>13, <1>17, <1>21 DEF LayerInv

LEMMA LayerInvStutter == ASSUME LayerInv, UNCHANGED layerVars PROVE LayerInv'
<1>1. config' = config /\ heap' = heap /\ rp' = rp /\ group' = group /\ branchesTodo' = branchesTodo
  BY DEF layerVars
<1>2. LayerTyped' /\ AtRepo' /\ OwnBuilds' /\ Layer!BranchAndValsAgree'
  BY <1>1 DEF LayerInv, LayerTyped, AtRepo, OwnBuilds, Layer!Repo, Layer!BranchAndValsAgree
<1>3. Layer!ConfigUntouched' /\ NoDoubles'
  <2>1. Layer!ConfigUntouched /\ NoDoubles
    BY DEF LayerInv
  <2>2. QED
    BY <1>1, <2>1 DEF Layer!ConfigUntouched, NoDoubles
<1>4. Layer!BranchIndependent'
  <2>1. \A b : Layer!Computed(b)' = Layer!Computed(b)
    BY <1>1 DEF Layer!Computed
  <2>2. \A b : Layer!Levels(b)' = Layer!Levels(b)
    BY <1>1 DEF Layer!Levels, Layer!Repo
  <2>3. QED
    BY <1>1, <2>1, <2>2 DEF LayerInv, Layer!BranchIndependent
<1>5. QED
  BY <1>2, <1>3, <1>4 DEF LayerInv

\* The inductive invariant of the layering, for any configurations, repositories and
\* branch names: what GetRepoPolicy writes are copies of its own (policy.go:341).
THEOREM LayerInvariance == Spec => [](part = "layer" => LayerInv)
<1> DEFINE Inv == part = "layer" => LayerInv
<1>1. Init => Inv
  BY LayerInvInit DEF Init
<1>2. Inv /\ [Next]_vars => Inv'
  <2> SUFFICES ASSUME part = "layer", LayerInv, [Next]_vars PROVE LayerInv'
    BY LayerSteps
  <2>1. CASE Layer!Next
    BY <2>1, LayerInvFind, LayerInvCompute, LayerInvSetBranch DEF Layer!Next
  <2>2. CASE UNCHANGED layerVars
    BY <2>2, LayerInvStutter
  <2>3. QED
    BY <2>1, <2>2, LayerSteps
<1>3. QED
  BY <1>1, <1>2, PTL DEF Spec

\* Whatever branches and repositories were computed, the builds of the configuration
\* are as they were decoded (mergeBuilds copies, policy.go:335).
THEOREM ConfigUntouchedAlways == Spec => []ConfigUntouched
<1>1. (part = "layer" => LayerInv) => ConfigUntouched
  BY DEF LayerInv, ConfigUntouched
<1>2. QED
  BY <1>1, LayerInvariance, PTL

\* The values of a branch are what the levels define for it, in whichever order branches
\* and repositories are computed (policy.go:286), no build has an architecture twice
\* (policy.go:337), and the branch that is set and the values in use belong together
\* (SetBranch, policy.go:234).
THEOREM LayeredAlways == Spec => []Layered
<1>1. LayerInv => Layer!NoDuplicateBuilds
  BY DEF LayerInv, OwnBuilds, NoDoubles, Layer!NoDuplicateBuilds
<1>2. (part = "layer" => LayerInv) => Layered
  BY <1>1 DEF LayerInv, Layered
<1>3. QED
  BY <1>2, LayerInvariance, PTL

-----------------------------------------------------------------------------
(* The test controller *)

LEMMA TestsSteps ==
    ASSUME [Next]_vars
    PROVE  part' = part /\ (part = "controller" => Tests!Next \/ UNCHANGED controllerVars)
BY DEF Next, vars, LayerNext, RenderNext, SiteNext, ControllerNext, MatchNext, JobNext, RestoreNext

\* The trigger that the event alone makes.
EventTrigger ==
    IF env.IS_TAG = "yes" THEN "is_tag" ELSE IF env.IS_PR = "yes" THEN "is_pr" ELSE None

Lts == env.REPO \in Tests!LtsRepos /\ Tests!IsLtsBranch(env.BASE_REF)

\* What of the environment has been read.
ParamsRead ==
    /\ env \in Tests!Envs /\ pn \in 1 .. 7
    /\ DOMAIN params = {"job", "repo", "baseRef", "firstTag", "trigger", "gdTag"}
    /\ controllerPc # "params" => pn = 7
    /\ pn > 2 => params.repo = env.REPO
    /\ pn > 3 /\ env.TAGS # <<>> => params.firstTag = env.TAGS[1]
    /\ pn > 4 => params.baseRef = env.BASE_REF

\* The last of IS_PR and IS_TAG that is set counts, and a branch with long term support
\* before both.
Triggered ==
    /\ controllerPc = "params" =>
           params.trigger = IF pn = 7 THEN EventTrigger
                            ELSE IF pn = 6 /\ env.IS_PR = "yes" THEN "is_pr" ELSE None
    /\ controllerPc # "params" =>
           /\ params.trigger = IF Lts THEN "is_lts" ELSE EventTrigger
           /\ params.gdTag = IF Lts THEN <<"release-lts", env.BASE_REF.major>> ELSE <<"master">>

VersionsSet ==
    controllerPc \in {"outputs", "ok"} =>
        LET images == Tests!Put(Tests!Defaults(params.gdTag), params.repo, params.firstTag)
        IN  versions = Tests!Put(Tests!Put(images, "alfa", images["tyk"]), "beta", images["tyk"])

OutputsSet ==
    controllerPc = "ok" =>
        \/ /\ params.trigger = "is_pr"
           /\ matrix = Tests!Put(Tests!Put(Tests!JobRows({"redis7"}), "pump", {Tests!NewPump}),
                                 "sink", {Tests!NewSink})
           /\ exclude = Tests!OneConfPerDb
        \/ /\ params.trigger # "is_pr"
           /\ \/ matrix = Tests!DefaultRows
              \/ matrix = [Tests!DefaultRows EXCEPT !["cacheDb"] = {"redis6"}]
           /\ exclude = Tests!NoMixedVersions \union Tests!OneConfPerDb

TestsInv == ParamsRead /\ Triggered /\ VersionsSet /\ OutputsSet

LEMMA TestsInvInit == ASSUME Tests!Init PROVE TestsInv
BY DEF Tests!Init, TestsInv, ParamsRead, Triggered, VersionsSet, OutputsSet

LEMMA TestsInvRead == ASSUME TestsInv, Tests!ReadParam PROVE TestsInv'
<1>1. /\ controllerPc = "params" /\ controllerPc' = "params" /\ pn \in 1 .. 6 /\ pn' = pn + 1
      /\ params' = Tests!Taken(Tests!ParamNames[pn]) /\ env' = env
  BY DEF Tests!ReadParam, Tests!ParamNames, TestsInv, ParamsRead
<1>2. /\ pn = 1 => Tests!ParamNames[pn] = "JOB"
      /\ pn = 2 => Tests!ParamNames[pn] = "REPO"
      /\ pn = 3 => Tests!ParamNames[pn] = "TAGS"
      /\ pn = 4 => Tests!ParamNames[pn] = "BASE_REF"
      /\ pn = 5 => Tests!ParamNames[pn] = "IS_PR"
      /\ pn = 6 => Tests!ParamNames[pn] = "IS_TAG"
  BY DEF Tests!ParamNames
<1>3. DOMAIN params = {"job", "repo", "baseRef", "firstTag", "trigger", "gdTag"}
  BY DEF TestsInv, ParamsRead
<1>4. pn = 1 \/ pn = 2 \/ pn = 3 \/ pn = 4 \/ pn = 5 \/ pn = 6
  BY <1>1
<1>5. ParamsRead'
  BY <1>1, <1>2, <1>4 DEF TestsInv, ParamsRead, Tests!Taken
<1>6. Triggered'
  BY <1>1, <1>2, <1>3, <1>4 DEF TestsInv, Triggered, EventTrigger, Tests!Taken
<1>7. VersionsSet' /\ OutputsSet'
  BY <1>1 DEF VersionsSet, OutputsSet
<1>8. QED
  BY <1>5, <1>6, <1>7 DEF TestsInv

LEMMA TestsInvLts == ASSUME TestsInv, Tests!FindLts PROVE TestsInv'
<1>1. /\ controllerPc = "params" /\ controllerPc' = "versions" /\ pn = 7 /\ pn' = pn /\ env' = env
      /\ params.repo = env.REPO /\ params.baseRef = env.BASE_REF
      /\ DOMAIN params = {"job", "repo", "baseRef", "firstTag", "trigger", "gdTag"}
      /\ params.trigger = EventTrigger
  BY DEF Tests!FindLts, Tests!ParamNames, TestsInv, ParamsRead, Triggered
<1>2. params' = IF Lts
                THEN [params EXCEPT !.gdTag = <<"release-lts", params.baseRef.major>>, !.trigger = "is_lts"]
                ELSE [params EXCEPT !.gdTag = <<"master">>]
  BY <1>1 DEF Tests!FindLts, Lts
<1>3. Lts' = Lts /\ EventTrigger' = EventTrigger
  BY <1>1 DEF Lts, EventTrigger
<1>4. ParamsRead'
  BY <1>1, <1>2 DEF TestsInv, ParamsRead
<1>5. Triggered'
  BY <1>1, <1>2, <1>3 DEF Triggered
<1>6. VersionsSet' /\ OutputsSet'
  BY <1>1 DEF VersionsSet, OutputsSet
<1>7. QED
  BY <1>4, <1>5, <1>6 DEF TestsInv

LEMMA TestsInvVersions == ASSUME TestsInv, Tests!SetVersions PROVE TestsInv'
<1>1. /\ controllerPc = "versions" /\ controllerPc' = "outputs"
      /\ UNCHANGED <<env, pn, params, matrix, exclude>>
  BY DEF Tests!SetVersions
<1>2. ParamsRead'
  BY <1>1 DEF TestsInv, ParamsRead
<1>3. Triggered'
  BY <1>1 DEF TestsInv, Triggered, EventTrigger, Lts
<1>4. VersionsSet'
  BY <1>1 DEF VersionsSet, Tests!SetVersions
<1>5. OutputsSet'
  BY <1>1 DEF OutputsSet
<1>6. QED
  BY <1>2, <1>3, <1>4, <1>5 DEF TestsInv

LEMMA TestsInvOutputs == ASSUME TestsInv, Tests!SetOutputs PROVE TestsInv'
<1>1. /\ controllerPc = "outputs" /\ controllerPc' = "ok"
      /\ UNCHANGED <<env, pn, params, versions>>
  BY DEF Tests!SetOutputs
<1>2. ParamsRead'
  BY <1>1 DEF TestsInv, ParamsRead
<1>3. Triggered'
  BY <1>1 DEF TestsInv, Triggered, EventTrigger, Lts
<1>4. VersionsSet'
  BY <1>1 DEF TestsInv, VersionsSet
<1>5. OutputsSet'
  <2>1. "is_lts" # "is_pr" /\ "is_tag" # "is_pr" /\ None # "is_pr"
    BY ControllerTyped
  <2>2. QED
    BY <1>1, <2>1 DEF OutputsSet, Tests!SetOutputs
<1>6. QED
  BY <1>2, <1>3, <1>4, <1>5 DEF TestsInv

LEMMA TestsInvStutter == ASSUME TestsInv, UNCHANGED controllerVars PROVE TestsInv'
<1>1. UNCHANGED <<env, controllerPc, pn, params, versions, matrix, exclude>>
  BY DEF controllerVars
<1>2. QED
  BY <1>1 DEF TestsInv, ParamsRead, Triggered, EventTrigger, Lts, VersionsSet, OutputsSet

\* What the exclusions leave.
LEMMA LeftIn ==
    ASSUME NEW c
    PROVE  /\ (\A x \in Tests!OneConfPerDb : \E r \in DOMAIN x : x[r] # c[r])
                <=> ~(c["db"] = "mongo7" /\ c["conf"] = "murmur128") /\ ~(c["db"] = "postgres15" /\ c["conf"] = "sha256")
           /\ (\A x \in Tests!NoMixedVersions : \E r \in DOMAIN x : x[r] # c[r])
                <=> ~(c["pump"] = Tests!OldPump /\ c["sink"] = Tests!NewSink)
                    /\ ~(c["pump"] = Tests!NewPump /\ c["sink"] = Tests!OldSink)
BY DEF Tests!OneConfPerDb, Tests!NoMixedVersions

Job5(conf, db, cache, pump, sink) ==
    [conf |-> conf, db |-> db, cacheDb |-> cache, pump |-> pump, sink |-> sink]
OldJobs(cache) == {Job5("sha256", "mongo7", cache, Tests!OldPump, Tests!OldSink),
                   Job5("murmur128", "postgres15", cache, Tests!OldPump, Tests!OldSink)}
NewJobs(cache) == {Job5("sha256", "mongo7", cache, Tests!NewPump, Tests!NewSink),
                   Job5("murmur128", "postgres15", cache, Tests!NewPump, Tests!NewSink)}

\* The jobs of a matrix with one cache: each database with its configuration, and pump
\* and sink of one age.
LEMMA JobsLeft ==
    ASSUME NEW rows, NEW cache,
           rows["conf"] = {"sha256", "murmur128"}, rows["db"] = {"mongo7", "postgres15"},
           rows["cacheDb"] = {cache}
    PROVE  /\ rows["pump"] = {Tests!OldPump, Tests!NewPump} /\ rows["sink"] = {Tests!OldSink, Tests!NewSink}
              => Tests!Combinations(rows, Tests!NoMixedVersions \union Tests!OneConfPerDb) =
                     OldJobs(cache) \union NewJobs(cache)
           /\ rows["pump"] = {Tests!NewPump} /\ rows["sink"] = {Tests!NewSink}
              => Tests!Combinations(rows, Tests!OneConfPerDb) = NewJobs(cache)
<1> DEFINE All == [conf : rows["conf"], db : rows["db"], cacheDb : rows["cacheDb"],
                   pump : rows["pump"], sink : rows["sink"]]
<1>1. "mongo7" # "postgres15" /\ "sha256" # "murmur128"
      /\ Tests!OldPump # Tests!NewPump /\ Tests!OldSink # Tests!NewSink
  BY DEF Tests!OldPump, Tests!NewPump, Tests!OldSink, Tests!NewSink
<1>2. ASSUME rows["pump"] = {Tests!OldPump, Tests!NewPump}, rows["sink"] = {Tests!OldSink, Tests!NewSink},
             NEW c
      PROVE  c \in Tests!Combinations(rows, Tests!NoMixedVersions \union Tests!OneConfPerDb)
             <=> c \in OldJobs(cache) \union NewJobs(cache)
  <2>1. c \in Tests!Combinations(rows, Tests!NoMixedVersions \union Tests!OneConfPerDb)
        <=> /\ c \in All
            /\ ~(c["db"] = "mongo7" /\ c["conf"] = "murmur128") /\ ~(c["db"] = "postgres15" /\ c["conf"] = "sha256")
            /\ ~(c["pump"] = Tests!OldPump /\ c["sink"] = Tests!NewSink)
            /\ ~(c["pump"] = Tests!NewPump /\ c["sink"] = Tests!OldSink)
    BY LeftIn DEF Tests!Combinations
  <2>2. QED
    BY <2>1, <1>1, <1>2 DEF OldJobs, NewJobs, Job5
<1>3. ASSUME rows["pump"] = {Tests!NewPump}, rows["sink"] = {Tests!NewSink}, NEW c
      PROVE  c \in Tests!Combinations(rows, Tests!OneConfPerDb)
             <=> c \in NewJobs(cache)
  <2>1. c \in Tests!Combinations(rows, Tests!OneConfPerDb)
        <=> /\ c \in All
            /\ ~(c["db"] = "mongo7" /\ c["conf"] = "murmur128") /\ ~(c["db"] = "postgres15" /\ c["conf"] = "sha256")
    BY LeftIn DEF Tests!Combinations
  <2>2. QED
    BY <2>1, <1>1, <1>3 DEF OldJobs, NewJobs, Job5
<1>4. QED
  BY <1>2, <1>3

LEMMA MatrixLeft ==
    ASSUME TestsInv, controllerPc = "ok"
    PROVE  /\ Tests!MatrixKeepsValues
           /\ Tests!PrRunsAPart
<1> DEFINE rows == {"conf", "db", "cacheDb", "pump", "sink"}
           jobs == Tests!Combinations(matrix, exclude)
<1>1. Tests!OldPump # Tests!NewPump /\ Tests!OldSink # Tests!NewSink
  BY DEF Tests!OldPump, Tests!NewPump, Tests!OldSink, Tests!NewSink
<1>2. /\ DOMAIN Tests!DefaultRows = rows
      /\ Tests!DefaultRows["conf"] = {"sha256", "murmur128"} /\ Tests!DefaultRows["db"] = {"mongo7", "postgres15"}
      /\ Tests!DefaultRows["cacheDb"] = {"redis7"}
      /\ Tests!DefaultRows["pump"] = {Tests!OldPump, Tests!NewPump}
      /\ Tests!DefaultRows["sink"] = {Tests!OldSink, Tests!NewSink}
  BY DEF Tests!DefaultRows, Tests!Put, Tests!JobRows
<1>3. Tests!Combinations(Tests!DefaultRows, Tests!NoMixedVersions \union Tests!OneConfPerDb)
        = OldJobs("redis7") \union NewJobs("redis7")
  BY <1>2, JobsLeft
<1>4. CASE params.trigger = "is_pr"
  <2>1. /\ matrix = Tests!Put(Tests!Put(Tests!JobRows({"redis7"}), "pump", {Tests!NewPump}),
                              "sink", {Tests!NewSink})
        /\ exclude = Tests!OneConfPerDb
    BY <1>4 DEF TestsInv, OutputsSet
  <2>2. /\ DOMAIN matrix = rows
        /\ matrix["conf"] = {"sha256", "murmur128"} /\ matrix["db"] = {"mongo7", "postgres15"}
        /\ matrix["cacheDb"] = {"redis7"}
        /\ matrix["pump"] = {Tests!NewPump} /\ matrix["sink"] = {Tests!NewSink}
    BY <2>1 DEF Tests!Put, Tests!JobRows
  <2>3. jobs = NewJobs("redis7")
    BY <2>1, <2>2, JobsLeft
  <2>4. \A r \in DOMAIN matrix : \A x \in matrix[r] : \E c \in jobs : c[r] = x
    BY <2>2, <2>3 DEF OldJobs, NewJobs, Job5
  <2>5. \A c \in jobs : c["pump"] = Tests!OldPump <=> c["sink"] = Tests!OldSink
    BY <1>1, <2>3 DEF OldJobs, NewJobs, Job5
  <2>6. /\ jobs \subseteq OldJobs("redis7") \union NewJobs("redis7") /\ jobs # {}
        /\ Job5("sha256", "mongo7", "redis7", Tests!OldPump, Tests!OldSink) \in OldJobs("redis7") \ jobs
    BY <1>1, <2>3 DEF OldJobs, NewJobs, Job5
  <2>7. QED
    BY <1>3, <2>4, <2>5, <2>6 DEF Tests!MatrixKeepsValues, Tests!PrRunsAPart
<1>5. CASE params.trigger # "is_pr"
  <2>1. PICK cache \in {"redis6", "redis7"} :
           /\ DOMAIN matrix = rows
           /\ matrix["conf"] = {"sha256", "murmur128"} /\ matrix["db"] = {"mongo7", "postgres15"}
           /\ matrix["cacheDb"] = {cache}
           /\ matrix["pump"] = {Tests!OldPump, Tests!NewPump}
           /\ matrix["sink"] = {Tests!OldSink, Tests!NewSink}
           /\ exclude = Tests!NoMixedVersions \union Tests!OneConfPerDb
    BY <1>2, <1>5 DEF TestsInv, OutputsSet
  <2>2. jobs = OldJobs(cache) \union NewJobs(cache)
    BY <2>1, JobsLeft
  <2>3. \A r \in DOMAIN matrix : \A x \in matrix[r] : \E c \in jobs : c[r] = x
    <3> DEFINE old1 == Job5("sha256", "mongo7", cache, Tests!OldPump, Tests!OldSink)
               old2 == Job5("murmur128", "postgres15", cache, Tests!OldPump, Tests!OldSink)
               new1 == Job5("sha256", "mongo7", cache, Tests!NewPump, Tests!NewSink)
    <3>1. old1 \in jobs /\ old2 \in jobs /\ new1 \in jobs
      BY <2>2 DEF OldJobs, NewJobs
    <3>2. /\ old1["conf"] = "sha256" /\ old1["db"] = "mongo7" /\ old1["cacheDb"] = cache
          /\ old1["pump"] = Tests!OldPump /\ old1["sink"] = Tests!OldSink
          /\ old2["conf"] = "murmur128" /\ old2["db"] = "postgres15"
          /\ new1["pump"] = Tests!NewPump /\ new1["sink"] = Tests!NewSink
      BY DEF Job5
    <3> HIDE DEF old1, old2, new1, jobs
    <3>3. QED
      BY <2>1, <3>1, <3>2
  <2>4. \A c \in jobs : c["pump"] = Tests!OldPump <=> c["sink"] = Tests!OldSink
    BY <1>1, <2>2 DEF OldJobs, NewJobs, Job5
  <2>5. QED
    BY <1>5, <2>3, <2>4 DEF Tests!MatrixKeepsValues, Tests!PrRunsAPart
<1>6. QED
  BY <1>4, <1>5

LEMMA VersionsFit ==
    ASSUME TestsInv
    PROVE  Tests!VersionsUseBuild
<1> SUFFICES ASSUME controllerPc \in {"outputs", "ok"}, env.TAGS # <<>>
             PROVE  /\ versions[env.REPO] = env.TAGS[1]
                    /\ versions["alfa"] = versions["tyk"] /\ versions["beta"] = versions["tyk"]
                    /\ \A r \in {"tyk", "tyk-analytics"} \ {env.REPO} : versions[r] = params.gdTag
  BY DEF Tests!VersionsUseBuild
<1> DEFINE images == Tests!Put(Tests!Defaults(params.gdTag), params.repo, params.firstTag)
<1>1. params.repo = env.REPO /\ params.firstTag = env.TAGS[1] /\ env.REPO \in RepoNames
  BY DEF TestsInv, ParamsRead, Tests!Envs
<1>2. env.REPO # "alfa" /\ env.REPO # "beta"
  BY <1>1, ControllerTyped
<1>3. /\ DOMAIN images = {"tyk", "tyk-analytics", "tyk-pump", "tyk-sink", env.REPO}
      /\ images[env.REPO] = env.TAGS[1]
      /\ \A r \in {"tyk", "tyk-analytics"} \ {env.REPO} : images[r] = params.gdTag
  BY <1>1 DEF Tests!Put, Tests!Defaults
<1>4. versions = Tests!Put(Tests!Put(images, "alfa", images["tyk"]), "beta", images["tyk"])
  BY DEF TestsInv, VersionsSet
<1> HIDE DEF images
<1>5. QED
  BY <1>2, <1>3, <1>4 DEF Tests!Put

LEMMA TriggerFits ==
    ASSUME TestsInv
    PROVE  Tests!TriggerFitsBranch
<1> SUFFICES ASSUME controllerPc = "ok"
             PROVE  /\ params.trigger = "is_lts" <=> params.gdTag # <<"master">>
                    /\ env.BASE_REF.minor \notin {None, 0} \/ ~env.BASE_REF.release
                          => params.trigger = EventTrigger
  BY DEF Tests!TriggerFitsBranch, EventTrigger
<1>1. /\ params.trigger = IF Lts THEN "is_lts" ELSE EventTrigger
      /\ params.gdTag = IF Lts THEN <<"release-lts", env.BASE_REF.major>> ELSE <<"master">>
  BY DEF TestsInv, Triggered
<1>2. EventTrigger # "is_lts"
  BY ControllerTyped DEF EventTrigger
<1>3. <<"release-lts", env.BASE_REF.major>> # <<"master">>
  OBVIOUS
<1>4. env.BASE_REF.minor \notin {None, 0} \/ ~env.BASE_REF.release => ~Lts
  BY DEF Lts, Tests!IsLtsBranch
<1>5. QED
  BY <1>1, <1>2, <1>3, <1>4

\* The controller tests what was just built, on all gateways, with the matrix of its
\* branch and event, whichever branches, repositories, tags and jobs there are
\* (NewParams, SetVersions and SetOutputs, controller.go).
THEOREM TestsFitBuildAlways == Spec => []TestsFitBuild
<1> DEFINE Inv == part = "controller" => TestsInv
<1>1. Init => Inv
  BY TestsInvInit DEF Init
<1>2. Inv /\ [Next]_vars => Inv'
  <2> SUFFICES ASSUME TestsInv, [Next]_vars, part' = "controller", part = "controller"
               PROVE  TestsInv'
    BY TestsSteps
  <2>1. Tests!Next \/ UNCHANGED controllerVars
    BY TestsSteps
  <2>2. QED
    BY <2>1, TestsInvRead, TestsInvLts, TestsInvVersions, TestsInvOutputs, TestsInvStutter
       DEF Tests!Next
<1>3. Inv => TestsFitBuild
  <2>1. TestsInv => Tests!MatrixKeepsValues /\ Tests!PrRunsAPart
    BY MatrixLeft DEF Tests!MatrixKeepsValues, Tests!PrRunsAPart
  <2>2. QED
    BY <2>1, VersionsFit, TriggerFits DEF TestsFitBuild
<1>4. QED
  BY <1>1, <1>2, <1>3, PTL DEF Spec

-----------------------------------------------------------------------------
(* The restore of a dump: what OrgsRestoreProofs shows of it holds of the part *)

KeysProofs == INSTANCE OrgsRestoreProofs

LEMMA KeysSteps ==
    ASSUME [Next]_vars
    PROVE  part' = part /\ (part = "restore" => Keys!Next \/ UNCHANGED restoreVars)
BY DEF Next, vars, LayerNext, RenderNext, SiteNext, ControllerNext, MatchNext, JobNext, RestoreNext

LEMMA KeysNext ==
    ASSUME Keys!Next \/ UNCHANGED restoreVars
    PROVE  [KeysProofs!Next]_(KeysProofs!vars)
BY DEF restoreVars, Keys!Next, Keys!Stream, Keys!Restore, Keys!Open, Keys!OpenFails, Keys!ScanLine,
       Keys!SendBatch, Keys!EndScan, Keys!SendRest, Keys!Receive, Keys!RangeEnds,
       KeysProofs!vars, KeysProofs!Next, KeysProofs!Stream, KeysProofs!Restore, KeysProofs!Open,
       KeysProofs!OpenFails, KeysProofs!ScanLine, KeysProofs!SendBatch, KeysProofs!EndScan,
       KeysProofs!SendRest, KeysProofs!Receive, KeysProofs!RangeEnds

\* No key is lost, repeated or reordered between the dump and the caller, which has had
\* every key in the end, for every dump, batch size and capacity of the channel
\* (streamKeys and RestoreKeys, restore.go).
THEOREM KeysRestoredAlways == Spec => []KeysRestored
<1> DEFINE Inv == part = "restore" => KeysProofs!IndInv
<1>1. Init => Inv
  BY KeysProofs!Begin DEF Init, Keys!Init, KeysProofs!Init, Keys!Dumps, KeysProofs!Dumps
<1>2. Inv /\ [Next]_vars => Inv'
  BY KeysSteps, KeysNext, KeysProofs!Steps
<1>3. Inv => KeysRestored
  <2> SUFFICES ASSUME KeysProofs!IndInv PROVE Keys!KeysInFlight /\ Keys!AllRestored
    BY DEF KeysRestored
  <2>1. Keys!AllRestored
    BY KeysProofs!Restored DEF Keys!AllRestored, Keys!Readable, KeysProofs!AllRestored, KeysProofs!Readable
  <2>2. Keys!OnItsWay
    BY DEF KeysProofs!IndInv, KeysProofs!OnItsWay, Keys!OnItsWay, KeysProofs!Has, Keys!Has
  <2>3. Keys!OnlyGood
    BY DEF KeysProofs!IndInv, KeysProofs!OnlyGood, Keys!OnlyGood, KeysProofs!Good, Keys!Good
  <2>4. Keys!InOrder
    BY DEF KeysProofs!IndInv, KeysProofs!InOrder, Keys!InOrder, KeysProofs!Increasing, Keys!Increasing,
           KeysProofs!Before, Keys!Before
  <2>5. QED
    BY <2>1, <2>2, <2>3, <2>4 DEF Keys!KeysInFlight
<1>4. QED
  BY <1>1, <1>2, <1>3, PTL DEF Spec

-----------------------------------------------------------------------------
(* The rendering of a bundle *)

LEMMA RenderSteps ==
    ASSUME [Next]_vars
    PROVE  part' = part /\ (part = "render" => Render!Next \/ UNCHANGED renderVars)
BY DEF Next, vars, LayerNext, RenderNext, SiteNext, ControllerNext, MatchNext, JobNext, RestoreNext

LEMMA SameCardinality == ASSUME NEW S PROVE Render!Cardinality(S) = Cardinality(S)
BY DEF Cardinality, Render!Cardinality

-----------------------------------------------------------------------------
(* The job that releases the plugin compiler *)

LEMMA JobSteps ==
    ASSUME [Next]_vars
    PROVE  part' = part /\ (part = "job" => Job!Next \/ UNCHANGED jobVars)
BY DEF Next, vars, LayerNext, RenderNext, SiteNext, ControllerNext, MatchNext, JobNext, RestoreNext

\* What the code demands of a configuration and does not check: the gate's platform is
\* one of the image's ("It must appear in ImagePlatformsValue", tfuncs.go:339),
\* ExtraGateVariant names one variant ("exactly one variant does", tfuncs.go:362), and
\* the architectures listed are those there are toolchains for ("CROSS=1 -> the -x image:
\* adds the amd64/arm64/s390x cross toolchains", Dockerfile.base:150).
CompilerFits ==
    \A c \in CompilerConfigs :
        LET variants == Job!NextGenVariants(c) IN
        /\ Len(variants) \in Nat /\ Len(Job!ImagePlatformsValue(c)) \in Nat
        /\ Job!GatePlatformValue(c) \in Job!Elements(Job!ImagePlatformsValue(c))
        /\ c.extraGateVariant # None =>
              \E i \in 1 .. Len(variants) : \A j \in 1 .. Len(variants) :
                  Job!GatesExtraPlatforms(c, variants[j]) <=> j = i
        /\ Job!Elements(Job!CEArchsValue(c)) \union Job!Elements(Job!EEArchsValue(c))
              \union Job!Elements(Job!FIPSArchsValue(c)) \subseteq {"amd64", "arm64", "s390x"}

Platforms == Job!ImagePlatformsValue(cfg)
Variants == Job!NextGenVariants(cfg)

LEMMA Joined ==
    ASSUME NEW T, NEW s \in Seq(T), NEW t \in Seq(T)
    PROVE  /\ s \o t \in Seq(T) /\ Len(s) \in Nat /\ Len(t) \in Nat
           /\ Len(s \o t) = Len(s) + Len(t)
           /\ \A i \in 1 .. Len(s) : (s \o t)[i] = s[i]
           /\ \A i \in 1 .. Len(t) : (s \o t)[Len(s) + i] = t[i]
OBVIOUS

LEMMA ThreeParts ==
    ASSUME NEW T, NEW a \in Seq(T), NEW b \in Seq(T), NEW c \in Seq(T)
    PROVE  /\ Len(a) \in Nat /\ Len(b) \in Nat /\ Len(c) \in Nat
           /\ Len(a \o b \o c) = Len(a) + Len(b) + Len(c)
           /\ \A i \in 1 .. Len(a) : (a \o b \o c)[i] = a[i]
           /\ \A i \in 1 .. Len(b) : (a \o b \o c)[Len(a) + i] = b[i]
           /\ \A i \in 1 .. Len(c) : (a \o b \o c)[Len(a) + Len(b) + i] = c[i]
<1> DEFINE m == a \o b
<1>1. m \in Seq(T)
  BY Joined
<1>2. /\ Len(m) = Len(a) + Len(b) /\ Len(a) \in Nat /\ Len(b) \in Nat /\ Len(c) \in Nat
      /\ \A i \in 1 .. Len(a) : m[i] = a[i]
      /\ \A i \in 1 .. Len(b) : m[Len(a) + i] = b[i]
  BY Joined
<1> HIDE DEF m
<1>3. /\ Len(m \o c) = Len(m) + Len(c)
      /\ \A i \in 1 .. Len(m) : (m \o c)[i] = m[i]
      /\ \A i \in 1 .. Len(c) : (m \o c)[Len(m) + i] = c[i]
  BY <1>1, Joined
<1>4. \A i \in 1 .. Len(a) : i \in 1 .. Len(m)
  BY <1>2
<1>5. \A i \in 1 .. Len(b) : Len(a) + i \in 1 .. Len(m)
  BY <1>2
<1>6. QED
  BY <1>2, <1>3, <1>4, <1>5 DEF m

LEMMA StepsOfJob ==
    ASSUME Len(Platforms) \in Nat
    PROVE  /\ Len(Job!Steps) = Len(Platforms) + 5
           /\ Job!Steps[1] = Job!Step("gate", Job!GatePlatformValue(cfg))
           /\ Job!Steps[2] = Job!Step("cross", "arm64") /\ Job!Steps[3] = Job!Step("cross", "s390x")
           /\ \A i \in 1 .. Len(Platforms) : Job!Steps[3 + i] = Job!Step("toolchain", Platforms[i])
           /\ Job!Steps[Len(Platforms) + 4] = Job!Step("push", None)
           /\ Job!Steps[Len(Platforms) + 5] = Job!Step("verify", None)
<1> DEFINE n == Len(Platforms)
           before == <<Job!Step("gate", Job!GatePlatformValue(cfg)), Job!Step("cross", "arm64"),
                       Job!Step("cross", "s390x")>>
           between == [i \in 1 .. n |-> Job!Step("toolchain", Platforms[i])]
           after == <<Job!Step("push", None), Job!Step("verify", None)>>
           All == {before[1], before[2], before[3], after[1], after[2]}
                    \union {Job!Step("toolchain", Platforms[i]) : i \in 1 .. n}
<1>1. Job!Steps = before \o between \o after
  BY DEF Job!Steps, Platforms
<1>2. before \in Seq(All) /\ after \in Seq(All)
  OBVIOUS
<1>3. Len(before) = 3 /\ Len(after) = 2
  OBVIOUS
<1>4. between \in Seq(All)
  <2> HIDE DEF n, before, after
  <2>1. n \in Nat
    BY DEF n
  <2>2. QED
    BY <2>1
<1>5. Len(between) = n /\ \A i \in 1 .. n : between[i] = Job!Step("toolchain", Platforms[i])
  <2> HIDE DEF n, before, after
  <2>1. n \in Nat
    BY DEF n
  <2>2. QED
    BY <2>1
<1>6. /\ before[1] = Job!Step("gate", Job!GatePlatformValue(cfg)) /\ before[2] = Job!Step("cross", "arm64")
      /\ before[3] = Job!Step("cross", "s390x")
      /\ after[1] = Job!Step("push", None) /\ after[2] = Job!Step("verify", None)
  OBVIOUS
<1> HIDE DEF before, between, after, All
<1> DEFINE all == before \o between \o after
<1>7. /\ Len(all) = n + 5
      /\ all[1] = before[1] /\ all[2] = before[2] /\ all[3] = before[3]
      /\ \A i \in 1 .. n : all[3 + i] = between[i]
      /\ all[n + 4] = after[1] /\ all[n + 5] = after[2]
  <2>1. /\ Len(before) \in Nat /\ Len(between) \in Nat /\ Len(after) \in Nat
        /\ Len(all) = Len(before) + Len(between) + Len(after)
        /\ \A i \in 1 .. Len(before) : all[i] = before[i]
        /\ \A i \in 1 .. Len(between) : all[Len(before) + i] = between[i]
        /\ \A i \in 1 .. Len(after) : all[Len(before) + Len(between) + i] = after[i]
    BY <1>2, <1>4, ThreeParts
  <2> HIDE DEF all
  <2>2. n \in Nat
    OBVIOUS
  <2> HIDE DEF n
  <2>3. /\ Len(before) + Len(between) + 1 = n + 4 /\ Len(before) + Len(between) + 2 = n + 5
        /\ Len(before) + Len(between) + Len(after) = n + 5
        /\ \A i \in 1 .. n : i \in 1 .. Len(between) /\ Len(before) + i = 3 + i
        /\ 1 \in 1 .. Len(before) /\ 2 \in 1 .. Len(before) /\ 3 \in 1 .. Len(before)
        /\ 1 \in 1 .. Len(after) /\ 2 \in 1 .. Len(after)
    BY <1>3, <1>5, <2>2
  <2>4. Len(all) = n + 5 /\ all[1] = before[1] /\ all[2] = before[2] /\ all[3] = before[3]
    BY <2>1, <2>3
  <2>5. all[n + 4] = after[1] /\ all[n + 5] = after[2]
    BY <2>1, <2>3
  <2>6. \A i \in 1 .. n : all[3 + i] = between[i]
    BY <2>1, <2>3
  <2>7. QED
    BY <2>4, <2>5, <2>6
<1> HIDE DEF all
<1>8. Job!Steps = all
  BY <1>1 DEF all
<1>9. \A i \in 1 .. n : all[3 + i] = Job!Step("toolchain", Platforms[i])
  BY <1>5, <1>7
<1>10. QED
  BY <1>6, <1>7, <1>8, <1>9

\* The k-th step is behind variant x.
Done(x, k) ==
    Job!Runs(x, Job!Steps[k]) /\ Job!Steps[k].kind # "push"
        => [variant |-> x, step |-> Job!Steps[k]] \in passed

JobTyped ==
    /\ cfg \in CompilerConfigs /\ event \in {"pull_request", "push"}
    /\ vi \in Nat \ {0} /\ si \in Nat \ {0}
    /\ published \in Seq({Variants[j] : j \in 1 .. Len(Variants)})
    /\ jobPc = "variants" =>
          base = IF event = "pull_request" /\ Job!ExtraImagePlatforms(cfg) # {}
                 THEN {Job!GatePlatformValue(cfg)} ELSE Job!Elements(Platforms)
    /\ jobPc = "ok" => vi > Len(Variants)

\* The steps of the variants before this one, and this one's steps so far, have passed.
StepsDone ==
    \A j \in 1 .. Len(Variants), k \in 1 .. Len(Job!Steps) :
        j < vi \/ (j = vi /\ k < si) => Done(Variants[j], k)

\* What was pushed has its gate and its cross builds behind it.
PushedAfter == \A i \in 1 .. Len(published) : \A k \in 1 .. 3 : Done(published[i], k)

\* No step passes that does not run.
OnlyRun == \A x \in passed : Job!Runs(x.variant, x.step)

JobInv == JobTyped /\ StepsDone /\ PushedAfter /\ OnlyRun

LEMMA JobInvInit == ASSUME Job!Init PROVE JobInv
<1>1. /\ cfg \in CompilerConfigs /\ event \in {"pull_request", "push"} /\ vi = 1 /\ si = 1
      /\ published = <<>> /\ passed = {} /\ jobPc = "resolve"
  BY DEF Job!Init
<1>2. published \in Seq({Variants[j] : j \in 1 .. Len(Variants)}) /\ Len(published) = 0
  BY <1>1
<1>3. JobTyped /\ PushedAfter /\ OnlyRun
  BY <1>1, <1>2 DEF JobTyped, PushedAfter, OnlyRun
<1>4. StepsDone
  <2>1. \A j \in 1 .. Len(Variants) : ~(j < 1)
    OBVIOUS
  <2>2. \A k \in 1 .. Len(Job!Steps) : ~(k < 1)
    OBVIOUS
  <2>3. QED
    BY <1>1, <2>1, <2>2 DEF StepsDone
<1>5. QED
  BY <1>3, <1>4 DEF JobInv

\* The configuration and the event stay, and with them the steps.
LEMMA JobFrame ==
    ASSUME cfg' = cfg, event' = event
    PROVE  /\ Variants' = Variants /\ Platforms' = Platforms /\ Job!Steps' = Job!Steps
           /\ \A w, s : Job!Runs(w, s)' = Job!Runs(w, s)
BY DEF Variants, Platforms, Job!Steps, Job!Runs

\* Steps of the job that neither run nor skip a step of a variant.
LEMMA JobInvQuiet ==
    ASSUME JobInv, UNCHANGED <<cfg, event, vi, si, passed, published>>,
           jobPc' = "variants" =>
               base' = IF event = "pull_request" /\ Job!ExtraImagePlatforms(cfg) # {}
                       THEN {Job!GatePlatformValue(cfg)} ELSE Job!Elements(Platforms),
           jobPc' = "ok" => vi > Len(Variants)
    PROVE  JobInv'
<1>1. /\ Variants' = Variants /\ Platforms' = Platforms /\ Job!Steps' = Job!Steps
      /\ \A w, s : Job!Runs(w, s)' = Job!Runs(w, s)
  BY JobFrame
<1>2. JobTyped'
  BY <1>1 DEF JobInv, JobTyped
<1>3. \A w, k : Done(w, k)' = Done(w, k)
  BY <1>1 DEF Done
<1>4. StepsDone'
  BY <1>1, <1>3 DEF JobInv, StepsDone
<1>5. PushedAfter'
  BY <1>3 DEF JobInv, PushedAfter
<1>6. OnlyRun'
  BY <1>1 DEF JobInv, OnlyRun
<1>7. QED
  BY <1>2, <1>4, <1>5, <1>6 DEF JobInv

LEMMA JobLengths ==
    ASSUME CompilerFits, JobInv
    PROVE  Len(Platforms) \in Nat /\ Len(Variants) \in Nat /\ Len(Job!Steps) \in Nat
<1>1. Len(Platforms) \in Nat /\ Len(Variants) \in Nat
  BY DEF CompilerFits, JobInv, JobTyped, Platforms, Variants
<1>2. Len(Job!Steps) = Len(Platforms) + 5
  BY <1>1, StepsOfJob
<1>3. QED
  BY <1>1, <1>2

LEMMA JobInvRun == ASSUME CompilerFits, JobInv, Job!RunStep PROVE JobInv'
<1> DEFINE w == Variants[vi]
           s == Job!Steps[si]
           Later(x, k) == Job!Runs(x, Job!Steps[k]) /\ Job!Steps[k].kind # "push"
                              => [variant |-> x, step |-> Job!Steps[k]] \in passed'
<1>1. /\ UNCHANGED <<cfg, event, jobPc, base, vi>> /\ si' = si + 1
      /\ jobPc = "variants" /\ vi <= Len(Variants) /\ si <= Len(Job!Steps)
      /\ Job!Runs(w, s)
      /\ IF s.kind = "push" THEN published' = Append(published, w) /\ passed' = passed
         ELSE passed' = passed \union {[variant |-> w, step |-> s]} /\ published' = published
  BY DEF Job!RunStep, Job!AtStep, Job!Variant, Job!Current, Variants
<1>2. /\ Variants' = Variants /\ Platforms' = Platforms /\ Job!Steps' = Job!Steps
      /\ \A x, y : Job!Runs(x, y)' = Job!Runs(x, y)
  BY <1>1, JobFrame
<1>3. Len(Platforms) \in Nat /\ Len(Variants) \in Nat /\ Len(Job!Steps) \in Nat
  BY JobLengths
<1>4. vi \in 1 .. Len(Variants) /\ si \in 1 .. Len(Job!Steps)
  BY <1>1, <1>3 DEF JobInv, JobTyped
<1>5. passed \subseteq passed'
  BY <1>1
<1>6. \A x, k : (Done(x, k)' <=> Later(x, k)) /\ (Done(x, k) => Later(x, k))
  BY <1>2, <1>5 DEF Done
<1>7. Later(w, si)
  BY <1>1
<1> HIDE DEF s, Later
<1>8. StepsDone'
  <2> SUFFICES ASSUME NEW j \in 1 .. Len(Variants), NEW k \in 1 .. Len(Job!Steps),
                      j < vi \/ (j = vi /\ k < si + 1)
               PROVE  Later(Variants[j], k)
    BY <1>1, <1>2, <1>6 DEF StepsDone
  <2>1. (j < vi \/ (j = vi /\ k < si)) \/ (j = vi /\ k = si)
    BY <1>3, <1>4
  <2>2. CASE j < vi \/ (j = vi /\ k < si)
    BY <1>6, <2>2 DEF JobInv, StepsDone
  <2>3. CASE j = vi /\ k = si
    BY <1>7, <2>3
  <2>4. QED
    BY <2>1, <2>2, <2>3
<1>9. OnlyRun'
  BY <1>1, <1>2 DEF JobInv, OnlyRun
<1>10. published' \in Seq({Variants[j] : j \in 1 .. Len(Variants)}) /\ PushedAfter'
  <2> DEFINE V == {Variants[j] : j \in 1 .. Len(Variants)}
  <2>1. published \in Seq(V) /\ w \in V
    BY <1>4 DEF JobInv, JobTyped
  <2> HIDE DEF V
  <2>2. CASE s.kind # "push"
    BY <1>1, <1>6, <2>1, <2>2 DEF JobInv, PushedAfter, V
  <2>3. CASE s.kind = "push"
    <3>1. published' = Append(published, w)
      BY <1>1, <2>3
    <3>2. si > 3
      <4>1. /\ Job!Steps[1] = Job!Step("gate", Job!GatePlatformValue(cfg))
            /\ Job!Steps[2] = Job!Step("cross", "arm64") /\ Job!Steps[3] = Job!Step("cross", "s390x")
        BY <1>3, StepsOfJob
      <4>2. si # 1 /\ si # 2 /\ si # 3
        BY <2>3, <4>1 DEF s, Job!Step
      <4>3. QED
        BY <1>4, <4>2
    <3>3. \A k \in 1 .. 3 : Later(w, k)
      <4>1. \A k \in 1 .. 3 : k \in 1 .. Len(Job!Steps) /\ k < si
        BY <1>3, <1>4, <3>2
      <4>2. QED
        BY <1>4, <1>6, <4>1 DEF JobInv, StepsDone
    <3> HIDE DEF w
    <3>4. /\ published' \in Seq(V) /\ Len(published) \in Nat
          /\ \A i \in 1 .. Len(published') : i \in 1 .. Len(published) \/ i = Len(published) + 1
          /\ \A i \in 1 .. Len(published) : published'[i] = published[i]
          /\ published'[Len(published) + 1] = w
      BY <2>1, <3>1
    <3>5. ASSUME NEW i \in 1 .. Len(published'), NEW k \in 1 .. 3
          PROVE  Later(published'[i], k)
      <4>1. CASE i \in 1 .. Len(published)
        BY <1>6, <3>4, <4>1 DEF JobInv, PushedAfter
      <4>2. CASE i = Len(published) + 1
        BY <3>3, <3>4, <4>2
      <4>3. QED
        BY <3>4, <4>1, <4>2
    <3>6. QED
      BY <1>6, <3>4, <3>5 DEF PushedAfter, V
  <2>4. QED
    BY <2>2, <2>3
<1>11. JobTyped'
  BY <1>1, <1>2, <1>10 DEF JobInv, JobTyped
<1>12. QED
  BY <1>8, <1>9, <1>10, <1>11 DEF JobInv

LEMMA JobInvSkip == ASSUME CompilerFits, JobInv, Job!SkipStep PROVE JobInv'
<1>1. /\ UNCHANGED <<cfg, event, jobPc, base, vi, passed, published>> /\ si' = si + 1
      /\ ~Job!Runs(Variants[vi], Job!Steps[si])
  BY DEF Job!SkipStep, Job!Variant, Job!Current, Variants
<1>2. /\ Variants' = Variants /\ Platforms' = Platforms /\ Job!Steps' = Job!Steps
      /\ \A x, y : Job!Runs(x, y)' = Job!Runs(x, y)
  BY <1>1, JobFrame
<1>3. \A x, k : Done(x, k)' = Done(x, k)
  BY <1>1, <1>2 DEF Done
<1>4. Done(Variants[vi], si)
  BY <1>1 DEF Done
<1>5. JobTyped'
  BY <1>1, <1>2 DEF JobInv, JobTyped
<1>6. StepsDone'
  <2> SUFFICES ASSUME NEW j \in 1 .. Len(Variants), NEW k \in 1 .. Len(Job!Steps),
                      j < vi \/ (j = vi /\ k < si + 1)
               PROVE  Done(Variants[j], k)
    BY <1>1, <1>2, <1>3 DEF StepsDone
  <2>1. (j < vi \/ (j = vi /\ k < si)) \/ (j = vi /\ k = si)
    BY JobLengths DEF JobInv, JobTyped
  <2>2. QED
    BY <1>4, <2>1 DEF JobInv, StepsDone
<1>7. PushedAfter' /\ OnlyRun'
  BY <1>1, <1>2, <1>3 DEF JobInv, PushedAfter, OnlyRun
<1>8. QED
  BY <1>5, <1>6, <1>7 DEF JobInv

LEMMA JobInvNextVariant == ASSUME CompilerFits, JobInv, Job!NextVariant PROVE JobInv'
<1>1. /\ UNCHANGED <<cfg, event, jobPc, base, passed, published>> /\ vi' = vi + 1 /\ si' = 1
      /\ si > Len(Job!Steps) /\ jobPc = "variants"
  BY DEF Job!NextVariant
<1>2. /\ Variants' = Variants /\ Platforms' = Platforms /\ Job!Steps' = Job!Steps
      /\ \A x, y : Job!Runs(x, y)' = Job!Runs(x, y)
  BY <1>1, JobFrame
<1>3. \A x, k : Done(x, k)' = Done(x, k)
  BY <1>1, <1>2 DEF Done
<1>4. JobTyped'
  BY <1>1, <1>2 DEF JobInv, JobTyped
<1>5. StepsDone'
  <2> SUFFICES ASSUME NEW j \in 1 .. Len(Variants), NEW k \in 1 .. Len(Job!Steps),
                      j < vi + 1 \/ (j = vi + 1 /\ k < 1)
               PROVE  Done(Variants[j], k)
    BY <1>1, <1>2, <1>3 DEF StepsDone
  <2>1. j < vi \/ (j = vi /\ k < si)
    BY <1>1, JobLengths DEF JobInv, JobTyped
  <2>2. QED
    BY <2>1 DEF JobInv, StepsDone
<1>6. PushedAfter' /\ OnlyRun'
  BY <1>1, <1>2, <1>3 DEF JobInv, PushedAfter, OnlyRun
<1>7. QED
  BY <1>4, <1>5, <1>6 DEF JobInv

LEMMA JobPushed == ASSUME CompilerFits, JobInv PROVE Job!PushedIsGated
<1> SUFFICES ASSUME NEW i \in 1 .. Len(published)
             PROVE  /\ Job!Passed(published[i], "gate", Job!GatePlatformValue(cfg))
                    /\ \A a \in Job!CrossArchs(cfg, published[i]) :
                          \/ a = "s390x" /\ Job!NextGenEdition(published[i]) # "ce"
                          \/ Job!Passed(published[i], "cross", a)
  BY DEF Job!PushedIsGated
<1> DEFINE w == published[i]
<1>1. PICK j \in 1 .. Len(Variants) : w = Variants[j]
  BY DEF JobInv, JobTyped
<1>2. /\ Job!Steps[1] = Job!Step("gate", Job!GatePlatformValue(cfg))
      /\ Job!Steps[2] = Job!Step("cross", "arm64") /\ Job!Steps[3] = Job!Step("cross", "s390x")
  BY JobLengths, StepsOfJob
<1>3. Done(w, 1) /\ Done(w, 2) /\ Done(w, 3)
  BY DEF JobInv, PushedAfter
<1> HIDE DEF w
<1>4. Job!Passed(w, "gate", Job!GatePlatformValue(cfg))
  BY <1>2, <1>3 DEF Done, Job!Runs, Job!Step, Job!Passed
<1>5. ASSUME NEW a \in Job!CrossArchs(cfg, w), ~(a = "s390x" /\ Job!NextGenEdition(w) # "ce")
      PROVE  Job!Passed(w, "cross", a)
  <2>1. Job!CrossValue(cfg) = "1" /\ (a = "arm64" \/ (a = "s390x" /\ Job!NextGenEdition(w) = "ce"))
    <3>1. cfg \in CompilerConfigs
      BY DEF JobInv, JobTyped
    <3>2. /\ Job!CrossValue(cfg) = "1" /\ a # "amd64"
          /\ a \in Job!Elements(Job!CEArchsValue(cfg)) \union Job!Elements(Job!EEArchsValue(cfg))
                     \union Job!Elements(Job!FIPSArchsValue(cfg))
      BY DEF Job!CrossArchs
    <3>3. a \in {"amd64", "arm64", "s390x"}
      BY <3>1, <3>2 DEF CompilerFits
    <3>4. QED
      BY <1>5, <3>2, <3>3
  <2>2. CASE a = "arm64"
    BY <1>2, <1>3, <2>1, <2>2 DEF Done, Job!Runs, Job!Step, Job!Passed
  <2>3. CASE a = "s390x" /\ Job!NextGenEdition(w) = "ce"
    BY <1>2, <1>3, <2>1, <2>3 DEF Done, Job!Runs, Job!Step, Job!Passed
  <2>4. QED
    BY <2>1, <2>2, <2>3
<1>6. QED
  BY <1>4, <1>5 DEF w

LEMMA SameCardinalityJob == ASSUME NEW S PROVE Job!Cardinality(S) = Cardinality(S)
BY DEF Cardinality, Job!Cardinality

LEMMA JobExtra == ASSUME CompilerFits, JobInv PROVE Job!ExtraPlatformsGated
<1> SUFFICES ASSUME jobPc = "ok", event = "push", NEW p \in Job!ExtraImagePlatforms(cfg)
             PROVE  Job!Cardinality({i \in 1 .. Len(Variants) : Job!Passed(Variants[i], "toolchain", p)})
                      = IF cfg.extraGateVariant = None THEN Len(Variants) ELSE 1
  BY DEF Job!ExtraPlatformsGated, Variants
<1> DEFINE G == {i \in 1 .. Len(Variants) : Job!GatesExtraPlatforms(cfg, Variants[i])}
<1>1. Len(Platforms) \in Nat /\ Len(Variants) \in Nat /\ vi > Len(Variants) /\ vi \in Nat
  BY JobLengths DEF JobInv, JobTyped
<1>2. PICK q \in 1 .. Len(Platforms) : p = Platforms[q]
  BY DEF Job!ExtraImagePlatforms, Job!Elements, Platforms
<1>3. Job!Steps[3 + q] = Job!Step("toolchain", p) /\ 3 + q \in 1 .. Len(Job!Steps)
  BY <1>1, <1>2, StepsOfJob
<1>4. \A i \in 1 .. Len(Variants) :
         Job!Runs(Variants[i], Job!Step("toolchain", p)) <=> Job!GatesExtraPlatforms(cfg, Variants[i])
  BY DEF Job!Runs, Job!Step
<1>5. \A i \in 1 .. Len(Variants) :
         Job!Passed(Variants[i], "toolchain", p) => Job!Runs(Variants[i], Job!Step("toolchain", p))
  BY DEF Job!Passed, JobInv, OnlyRun
<1>6. \A i \in 1 .. Len(Variants) :
         Job!Runs(Variants[i], Job!Step("toolchain", p)) => Job!Passed(Variants[i], "toolchain", p)
  <2>1. \A i \in 1 .. Len(Variants) : Done(Variants[i], 3 + q)
    BY <1>1, <1>3 DEF JobInv, StepsDone
  <2>2. Job!Step("toolchain", p).kind # "push"
    BY DEF Job!Step
  <2>3. QED
    BY <1>3, <2>1, <2>2 DEF Done, Job!Passed
<1>7. {i \in 1 .. Len(Variants) : Job!Passed(Variants[i], "toolchain", p)} = G
  BY <1>4, <1>5, <1>6
<1>8. CASE cfg.extraGateVariant = None
  <2>1. G = 1 .. Len(Variants)
    BY <1>8 DEF Job!GatesExtraPlatforms
  <2>2. \A m \in Nat : Cardinality(1 .. m) = m
    BY FS_Interval
  <2>3. QED
    BY <1>1, <1>7, <1>8, <2>1, <2>2, SameCardinalityJob
<1>9. CASE cfg.extraGateVariant # None
  <2>1. PICK i \in 1 .. Len(Variants) : \A j \in 1 .. Len(Variants) :
           Job!GatesExtraPlatforms(cfg, Variants[j]) <=> j = i
    BY <1>9 DEF CompilerFits, JobInv, JobTyped, Variants
  <2>2. G = {i}
    BY <2>1
  <2>3. Cardinality({i}) = 1
    BY FS_Singleton
  <2>4. QED
    BY <1>7, <1>9, <2>2, <2>3, SameCardinalityJob
<1>10. QED
  BY <1>8, <1>9

LEMMA JobBase == ASSUME CompilerFits, JobInv PROVE Job!BaseFitsSteps
<1> SUFFICES ASSUME Job!AtStep, Job!Runs(Job!Variant, Job!Current)
             PROVE  /\ Job!BuiltFor(Job!Current) \subseteq base
                    /\ (\E p \in Job!BuiltFor(Job!Current) : p # "linux/amd64") => Job!ImageNeedsGoTarball(cfg)
  BY DEF Job!BaseFitsSteps
<1> DEFINE gate == Job!GatePlatformValue(cfg)
           images == Job!Elements(Platforms)
           s == Job!Current
<1>1. gate \in images /\ images = Job!Elements(Job!ImagePlatformsValue(cfg))
  BY DEF CompilerFits, JobInv, JobTyped, Platforms
<1>2. /\ Job!ExtraImagePlatforms(cfg) = images \ {gate}
      /\ base = IF event = "pull_request" /\ images \ {gate} # {} THEN {gate} ELSE images
  BY DEF Job!AtStep, JobInv, JobTyped, Job!ExtraImagePlatforms, Platforms
<1>3. s \in {Job!Step("gate", gate), Job!Step("cross", "arm64"), Job!Step("cross", "s390x"),
             Job!Step("push", None), Job!Step("verify", None)}
      \/ s.kind = "toolchain"
  <2>1. Len(Platforms) \in Nat /\ si \in Nat \ {0} /\ si <= Len(Job!Steps) /\ s = Job!Steps[si]
    BY JobLengths DEF JobInv, JobTyped, Job!AtStep, Job!Current
  <2>2. /\ Len(Job!Steps) = Len(Platforms) + 5
        /\ Job!Steps[1] = Job!Step("gate", gate)
        /\ Job!Steps[2] = Job!Step("cross", "arm64") /\ Job!Steps[3] = Job!Step("cross", "s390x")
        /\ \A i \in 1 .. Len(Platforms) : Job!Steps[3 + i] = Job!Step("toolchain", Platforms[i])
        /\ Job!Steps[Len(Platforms) + 4] = Job!Step("push", None)
        /\ Job!Steps[Len(Platforms) + 5] = Job!Step("verify", None)
    BY <2>1, StepsOfJob
  <2>3. \/ si = 1 \/ si = 2 \/ si = 3 \/ si = Len(Platforms) + 4 \/ si = Len(Platforms) + 5
        \/ \E i \in 1 .. Len(Platforms) : si = 3 + i
    <3>1. si \in 1 .. Len(Platforms) + 5
      BY <2>1, <2>2
    <3>2. si > 3 /\ si < Len(Platforms) + 4 => si - 3 \in 1 .. Len(Platforms) /\ si = 3 + (si - 3)
      BY <2>1, <3>1
    <3>3. QED
      BY <2>1, <3>1, <3>2
  <2>4. \A x : Job!Step("toolchain", x).kind = "toolchain"
    BY DEF Job!Step
  <2>5. QED
    BY <2>1, <2>2, <2>3, <2>4
<1>4. Job!BuiltFor(s) \subseteq images /\ (event = "pull_request" => Job!BuiltFor(s) \subseteq {gate})
  <2>1. CASE s.kind = "toolchain"
    BY <1>2, <2>1 DEF Job!Runs, Job!BuiltFor
  <2>2. CASE s \in {Job!Step("push", None), Job!Step("verify", None)}
    BY <1>1, <2>2 DEF Job!Runs, Job!BuiltFor, Job!Step
  <2>3. CASE s \in {Job!Step("gate", gate), Job!Step("cross", "arm64"), Job!Step("cross", "s390x")}
    BY <1>1, <2>3 DEF Job!BuiltFor, Job!Step
  <2>4. QED
    BY <1>3, <2>1, <2>2, <2>3
<1>5. Job!BuiltFor(s) \subseteq base
  BY <1>2, <1>4
<1>6. QED
  BY <1>1, <1>4, <1>5 DEF Job!ImageNeedsGoTarball

\* For every configuration that meets the demands of the code's comments, every set of
\* platforms that the source image has and every failure: an image is pushed after its
\* full gate and the validation of every architecture it cross-builds for, s390x of EE
\* and FIPS excepted (the defaults of tfuncs.go:258 to 270 offer it ungated); a job that
\* succeeds has exercised every extra platform with as many variants as configured, and
\* no step needs a platform that the base lacks (plugin-compiler-ng-build.yml,
\* tfuncs.go:362).
THEOREM GatesHoldAlways ==
    ASSUME CompilerFits
    PROVE  Spec => []GatesHold
<1> DEFINE Inv == part = "job" => JobInv
<1>1. Init => Inv
  BY JobInvInit DEF Init
<1>2. Inv /\ [Next]_vars => Inv'
  <2> SUFFICES ASSUME JobInv, [Next]_vars, part' = "job", part = "job"
               PROVE  JobInv'
    BY JobSteps
  <2>1. Job!Next \/ UNCHANGED jobVars
    BY JobSteps
  <2>2. CASE Job!RunStep \/ Job!SkipStep \/ Job!NextVariant
    BY <2>2, JobInvRun, JobInvSkip, JobInvNextVariant
  <2>3. CASE Job!ResolveBase \/ Job!StepFails
    BY <2>3, JobInvQuiet DEF Job!ResolveBase, Job!StepFails
  <2>4. CASE Job!BuildBase
    BY <2>4, JobInvQuiet DEF Job!BuildBase, Platforms
  <2>5. CASE Job!EndJob
    BY <2>5, JobInvQuiet DEF Job!EndJob, Variants
  <2>6. CASE UNCHANGED jobVars
    BY <2>6, JobInvQuiet DEF jobVars, JobInv, JobTyped
  <2>7. QED
    BY <2>1, <2>2, <2>3, <2>4, <2>5, <2>6 DEF Job!Next
<1>3. Inv => GatesHold
  BY JobPushed, JobExtra, JobBase DEF GatesHold
<1>4. QED
  BY <1>1, <1>2, <1>3, PTL DEF Spec

-----------------------------------------------------------------------------
(* Numbers in order *)

\* Ranks follow the order of the members.
LEMMA RankMonotone ==
    ASSUME NEW S \in SUBSET Nat, IsFiniteSet(S), NEW i \in S, NEW j \in S
    PROVE  /\ Rank(S, i) \in 1 .. Cardinality(S) /\ Cardinality(S) \in Nat
           /\ i < j => Rank(S, i) < Rank(S, j)
<1> DEFINE Upto(k) == {t \in S : t <= k}
<1>1. \A t \in S : t \in Nat
  OBVIOUS
<1>2. ASSUME NEW k \in S
      PROVE  /\ IsFiniteSet(Upto(k)) /\ Cardinality(Upto(k)) \in Nat
             /\ Cardinality(Upto(k)) <= Cardinality(S) /\ Cardinality(Upto(k)) # 0
  <2>1. Upto(k) \in SUBSET S /\ k \in Upto(k)
    BY <1>1
  <2> HIDE DEF Upto
  <2>2. IsFiniteSet(Upto(k)) /\ Cardinality(Upto(k)) <= Cardinality(S)
    BY <2>1, FS_Subset
  <2>3. Cardinality(Upto(k)) \in Nat /\ (Cardinality(Upto(k)) = 0 <=> Upto(k) = {})
    BY <2>2, FS_CardinalityType, FS_EmptySet
  <2>4. QED
    BY <2>1, <2>2, <2>3
<1>3. Cardinality(S) \in Nat
  BY FS_CardinalityType
<1>4. ASSUME i < j PROVE Cardinality(Upto(i)) < Cardinality(Upto(j))
  <2>0. \A t \in S : t <= i => t <= j
    BY <1>1, <1>4
  <2>1. Upto(i) \in SUBSET Upto(j)
    BY <2>0
  <2>2. j \in Upto(j) /\ j \notin Upto(i)
    BY <1>1, <1>4
  <2> HIDE DEF Upto
  <2>3. Cardinality(Upto(i)) <= Cardinality(Upto(j)) /\ (Cardinality(Upto(j)) = Cardinality(Upto(i)) => Upto(j) = Upto(i))
    BY <1>2, <2>1, FS_Subset
  <2>4. QED
    BY <1>2, <2>2, <2>3
<1>5. Rank(S, i) = Cardinality(Upto(i)) /\ Rank(S, j) = Cardinality(Upto(j))
  BY DEF Rank
<1> HIDE DEF Upto
<1>6. QED
  BY <1>2, <1>3, <1>4, <1>5

\* Every number up to the last is a member's rank: ranks are an injection into an
\* interval with as many members.
LEMMA RankOnto ==
    ASSUME NEW S \in SUBSET Nat, IsFiniteSet(S), NEW k \in 1 .. Cardinality(S)
    PROVE  \E i \in S : Rank(S, i) = k
<1> DEFINE n == Cardinality(S)
           f == [i \in S |-> Rank(S, i)]
<1>1. n \in Nat
  BY FS_CardinalityType
<1>2. f \in [S -> 1 .. n]
  BY RankMonotone
<1>3. ASSUME NEW i \in S, NEW j \in S, f[i] = f[j] PROVE i = j
  <2>1. i \in Nat /\ j \in Nat /\ Rank(S, i) \in Nat /\ Rank(S, j) \in Nat /\ Rank(S, i) = Rank(S, j)
    BY <1>3, RankMonotone
  <2>2. ~(i < j) /\ ~(j < i)
    BY <2>1, RankMonotone
  <2>3. QED
    BY <2>1, <2>2
<1>4. f \in Injection(S, 1 .. n)
  BY <1>2, <1>3 DEF Injection, IsInjective
<1>5. IsFiniteSet(1 .. n) /\ Cardinality(1 .. n) = n
  BY <1>1, FS_Interval
<1>6. f \in Surjection(S, 1 .. n)
  BY <1>4, <1>5, FS_Injection
<1>7. QED
  BY <1>6 DEF Surjection

\* Sorted goes through the members of a set, each once, in increasing order.
LEMMA SortedSet ==
    ASSUME NEW S \in SUBSET Nat, IsFiniteSet(S)
    PROVE  /\ Cardinality(S) \in Nat /\ DOMAIN Sorted(S) = 1 .. Cardinality(S)
           /\ Sorted(S) \in Seq(S) /\ Len(Sorted(S)) = Cardinality(S)
           /\ \A k, l \in 1 .. Cardinality(S) : k < l => Sorted(S)[k] < Sorted(S)[l]
           /\ \A i \in S : \E k \in 1 .. Cardinality(S) : Sorted(S)[k] = i
<1> DEFINE n == Cardinality(S)
<1>1. n \in Nat
  BY FS_CardinalityType
<1>2. ASSUME NEW k \in 1 .. n PROVE Sorted(S)[k] \in S /\ Rank(S, Sorted(S)[k]) = k
  <2>1. \E i \in S : Rank(S, i) = k
    BY RankOnto
  <2>2. Sorted(S)[k] = CHOOSE i \in S : Rank(S, i) = k
    BY DEF Sorted
  <2>3. QED
    BY <2>1, <2>2
<1>3. Sorted(S) \in [1 .. n -> S]
  BY <1>2 DEF Sorted
<1>4. Sorted(S) \in Seq(S) /\ Len(Sorted(S)) = n
  BY <1>1, <1>3
<1>5. ASSUME NEW k \in 1 .. n, NEW l \in 1 .. n, k < l PROVE Sorted(S)[k] < Sorted(S)[l]
  <2> DEFINE i == Sorted(S)[k]
             j == Sorted(S)[l]
  <2>1. i \in S /\ j \in S /\ Rank(S, i) = k /\ Rank(S, j) = l
    BY <1>2
  <2> HIDE DEF i, j
  <2>2. i \in Nat /\ j \in Nat /\ (j < i => l < k) /\ (i = j => k = l)
    BY <2>1, RankMonotone
  <2>3. i < j
    BY <1>1, <1>5, <2>2
  <2>4. QED
    BY <2>3 DEF i, j
<1>6. ASSUME NEW i \in S PROVE \E k \in 1 .. n : Sorted(S)[k] = i
  <2>1. Rank(S, i) \in 1 .. n
    BY RankMonotone
  <2> DEFINE j == Sorted(S)[Rank(S, i)]
  <2>2. j \in S /\ Rank(S, j) = Rank(S, i)
    BY <1>2, <2>1
  <2> HIDE DEF j
  <2>3. i \in Nat /\ j \in Nat /\ Rank(S, i) \in Nat
    BY <1>1, <2>1, <2>2
  <2>4. (i < j => Rank(S, i) < Rank(S, j)) /\ (j < i => Rank(S, j) < Rank(S, i))
    BY <2>2, RankMonotone
  <2>5. i = j
    BY <2>2, <2>3, <2>4
  <2>6. QED
    BY <2>1, <2>5 DEF j
<1>7. QED
  BY <1>1, <1>3, <1>4, <1>5, <1>6

\* A set of positions is a finite set of numbers.
LEMMA PositionsFinite ==
    ASSUME NEW n \in Nat, NEW I \in SUBSET (1 .. n)
    PROVE  I \in SUBSET Nat /\ IsFiniteSet(I)
<1>1. IsFiniteSet(1 .. n)
  BY FS_Interval
<1>2. IsFiniteSet(I)
  BY <1>1, FS_Subset
<1>3. QED
  BY <1>2

LEMMA RenderSorted == ASSUME NEW S PROVE Render!Sorted(S) = Sorted(S)
<1>1. \A T : Render!Cardinality(T) = Cardinality(T)
  BY DEF Cardinality, Render!Cardinality
<1>2. \A i : Render!Rank(S, i) = Rank(S, i)
  BY <1>1 DEF Rank, Render!Rank
<1>3. QED
  BY <1>1, <1>2 DEF Sorted, Render!Sorted

LEMMA SiteSelected == ASSUME NEW s, NEW I PROVE Site!Selected(s, I) = Selected(s, I)
<1>1. \A T : Site!Cardinality(T) = Cardinality(T)
  BY DEF Cardinality, Site!Cardinality
<1>2. \A i : Site!Rank(I, i) = Rank(I, i)
  BY <1>1 DEF Rank, Site!Rank
<1>3. Site!Sorted(I) = Sorted(I)
  BY <1>1, <1>2 DEF Sorted, Site!Sorted
<1>4. QED
  BY <1>1, <1>3 DEF Selected, Site!Selected

-----------------------------------------------------------------------------
(* The site of test variations *)

LEMMA SmallestMember ==
    ASSUME NEW S \in SUBSET Nat, IsFiniteSet(S), S # {}
    PROVE  \E i \in S : \A j \in S : i <= j
<1> DEFINE n == Cardinality(S)
<1>1. n \in Nat /\ n # 0
  BY FS_CardinalityType, FS_EmptySet
<1>2. 1 \in 1 .. n
  BY <1>1
<1>3. Sorted(S)[1] \in S
  <2>1. Sorted(S) \in Seq(S) /\ Len(Sorted(S)) = n
    BY SortedSet
  <2>2. QED
    BY <1>2, <2>1
<1>4. ASSUME NEW j \in S PROVE Sorted(S)[1] <= j
  <2>1. PICK k \in 1 .. n : Sorted(S)[k] = j
    BY SortedSet
  <2>2. 1 < k => Sorted(S)[1] < Sorted(S)[k]
    BY <1>2, SortedSet
  <2> HIDE DEF n
  <2>3. k \in Nat /\ (1 < k \/ k = 1)
    BY <1>1
  <2>4. j \in Nat /\ Sorted(S)[1] \in Nat
    BY <1>3
  <2>5. QED
    BY <2>1, <2>2, <2>3, <2>4
<1>5. QED
  BY <1>3, <1>4

\* Where x occurs first in t.
FirstOf(t, x) == CHOOSE i \in 1 .. Len(t) : t[i] = x /\ \A j \in 1 .. i - 1 : t[j] # x

Elements(t) == {t[i] : i \in 1 .. Len(t)}

LEMMA FirstOccurs ==
    ASSUME NEW S, NEW t \in Seq(S), NEW x \in Elements(t)
    PROVE  /\ FirstOf(t, x) \in 1 .. Len(t) /\ t[FirstOf(t, x)] = x
           /\ \A j \in 1 .. Len(t) : t[j] = x => FirstOf(t, x) <= j
<1> DEFINE I == {i \in 1 .. Len(t) : t[i] = x}
<1>1. Len(t) \in Nat /\ I # {} /\ I \in SUBSET (1 .. Len(t))
  BY DEF Elements
<1>2. I \in SUBSET Nat /\ IsFiniteSet(I)
  BY <1>1, PositionsFinite
<1>3. PICK i \in I : \A j \in I : i <= j
  <2> HIDE DEF I
  <2>1. QED
    BY <1>1, <1>2, SmallestMember
<1>4. i \in 1 .. Len(t) /\ t[i] = x /\ \A j \in 1 .. i - 1 : t[j] # x
  BY <1>1, <1>3
<1> DEFINE f == FirstOf(t, x)
<1>5. f \in 1 .. Len(t) /\ t[f] = x /\ \A j \in 1 .. f - 1 : t[j] # x
  BY <1>4 DEF FirstOf
<1> HIDE DEF f
<1>6. ASSUME NEW j \in 1 .. Len(t), t[j] = x PROVE f <= j
  BY <1>1, <1>5, <1>6
<1>7. QED
  BY <1>5, <1>6 DEF f

LEMMA FirstIs ==
    ASSUME NEW S, NEW t \in Seq(S), NEW i \in 1 .. Len(t), \A j \in 1 .. i - 1 : t[j] # t[i]
    PROVE  FirstOf(t, t[i]) = i /\ t[i] \in Elements(t)
<1>1. t[i] \in Elements(t) /\ Len(t) \in Nat
  BY DEF Elements
<1> DEFINE f == FirstOf(t, t[i])
<1>2. f \in 1 .. Len(t) /\ t[f] = t[i] /\ f <= i
  BY <1>1, FirstOccurs
<1> HIDE DEF f
<1>3. f = i
  BY <1>1, <1>2
<1>4. QED
  BY <1>1, <1>3 DEF f

LEMMA Joining ==
    ASSUME NEW S, NEW s \in Seq(S), NEW t \in Seq(S)
    PROVE  /\ s \o t \in Seq(S) /\ Len(s) \in Nat /\ Len(t) \in Nat
           /\ Len(s \o t) = Len(s) + Len(t)
           /\ \A i \in 1 .. Len(s) : (s \o t)[i] = s[i]
           /\ \A i \in 1 .. Len(t) : (s \o t)[Len(s) + i] = t[i]
           /\ Elements(s \o t) = Elements(s) \union Elements(t)
<1>1. /\ s \o t \in Seq(S) /\ Len(s) \in Nat /\ Len(t) \in Nat
      /\ Len(s \o t) = Len(s) + Len(t)
      /\ \A i \in 1 .. Len(s) : (s \o t)[i] = s[i]
      /\ \A i \in 1 .. Len(t) : (s \o t)[Len(s) + i] = t[i]
  OBVIOUS
<1> DEFINE u == s \o t
<1> HIDE DEF u
<1>2. /\ Len(u) = Len(s) + Len(t)
      /\ \A i \in 1 .. Len(s) : u[i] = s[i]
      /\ \A i \in 1 .. Len(t) : u[Len(s) + i] = t[i]
  BY <1>1 DEF u
<1>3. ASSUME NEW i \in 1 .. Len(u) PROVE u[i] \in Elements(s) \union Elements(t)
  <2>1. i \in 1 .. Len(s) \/ (i - Len(s) \in 1 .. Len(t) /\ i = Len(s) + (i - Len(s)))
    BY <1>1, <1>2
  <2>2. QED
    BY <1>2, <2>1 DEF Elements
<1>4. \A i \in 1 .. Len(s) : i \in 1 .. Len(u)
  BY <1>1, <1>2
<1>5. \A i \in 1 .. Len(t) : Len(s) + i \in 1 .. Len(u)
  BY <1>1, <1>2
<1>6. Elements(s) \union Elements(t) \subseteq Elements(u)
  BY <1>2, <1>4, <1>5 DEF Elements
<1>7. Elements(u) = Elements(s) \union Elements(t)
  BY <1>3, <1>6 DEF Elements
<1>8. QED
  BY <1>1, <1>7 DEF u

\* What occurs in s occurs in s \o t first where it does in s; what does not, where it
\* does in t.
LEMMA FirstJoined ==
    ASSUME NEW S, NEW s \in Seq(S), NEW t \in Seq(S), NEW x \in Elements(s) \union Elements(t)
    PROVE  /\ x \in Elements(s) => FirstOf(s \o t, x) = FirstOf(s, x) /\ FirstOf(s, x) \in 1 .. Len(s)
           /\ x \notin Elements(s) => /\ FirstOf(s \o t, x) = Len(s) + FirstOf(t, x)
                                      /\ FirstOf(t, x) \in 1 .. Len(t) /\ t[FirstOf(t, x)] = x
<1> DEFINE u == s \o t
<1>1. /\ u \in Seq(S) /\ Len(s) \in Nat /\ Len(t) \in Nat /\ Len(u) = Len(s) + Len(t)
      /\ \A i \in 1 .. Len(s) : u[i] = s[i]
      /\ \A i \in 1 .. Len(t) : u[Len(s) + i] = t[i]
      /\ Elements(u) = Elements(s) \union Elements(t)
  BY Joining
<1> HIDE DEF u
<1> DEFINE f == FirstOf(u, x)
<1>2. f \in 1 .. Len(u) /\ u[f] = x /\ \A j \in 1 .. Len(u) : u[j] = x => f <= j
  BY <1>1, FirstOccurs
<1> HIDE DEF f
<1>3. ASSUME x \in Elements(s) PROVE f = FirstOf(s, x) /\ FirstOf(s, x) \in 1 .. Len(s)
  <2> DEFINE g == FirstOf(s, x)
  <2>1. g \in 1 .. Len(s) /\ s[g] = x /\ \A j \in 1 .. Len(s) : s[j] = x => g <= j
    BY <1>3, FirstOccurs
  <2> HIDE DEF g
  <2>2. g \in 1 .. Len(u) /\ u[g] = x
    BY <1>1, <2>1
  <2>3. f <= g
    BY <1>2, <2>2
  <2>4. f \in 1 .. Len(s)
    BY <1>1, <1>2, <2>1, <2>3
  <2>5. s[f] = x
    BY <1>1, <1>2, <2>4
  <2>6. g <= f
    BY <2>1, <2>4, <2>5
  <2>7. f = g
    BY <1>1, <2>1, <2>3, <2>4, <2>6
  <2>8. QED
    BY <2>1, <2>7 DEF g
<1>4. ASSUME x \notin Elements(s)
      PROVE  f = Len(s) + FirstOf(t, x) /\ FirstOf(t, x) \in 1 .. Len(t) /\ t[FirstOf(t, x)] = x
  <2> DEFINE g == FirstOf(t, x)
  <2>1. g \in 1 .. Len(t) /\ t[g] = x /\ \A j \in 1 .. Len(t) : t[j] = x => g <= j
    BY <1>4, FirstOccurs
  <2> HIDE DEF g
  <2>2. Len(s) + g \in 1 .. Len(u) /\ u[Len(s) + g] = x
    BY <1>1, <2>1
  <2>3. f <= Len(s) + g
    BY <1>2, <2>2
  <2>4. f \notin 1 .. Len(s)
    BY <1>1, <1>2, <1>4 DEF Elements
  <2>5. f - Len(s) \in 1 .. Len(t) /\ f = Len(s) + (f - Len(s))
    BY <1>1, <1>2, <2>4
  <2>6. t[f - Len(s)] = x
    BY <1>1, <1>2, <2>5
  <2>7. g <= f - Len(s)
    BY <2>1, <2>5, <2>6
  <2>8. f = Len(s) + g
    <3>1. f \in Nat /\ g \in Nat /\ Len(s) \in Nat
      BY <1>1, <1>2, <2>1
    <3>2. QED
      BY <2>3, <2>7, <3>1
  <2>9. QED
    BY <2>1, <2>8 DEF g
<1>5. QED
  BY <1>3, <1>4 DEF f, u

\* Without repeats: the same elements, in the order in which they occur first.
LEMMA InOrderOfFirst ==
    ASSUME NEW s, NEW t
    PROVE  Site!IsWithoutRepeats(s, t) <=>
               /\ Elements(s) = Elements(t)
               /\ \A i, j \in 1 .. Len(s) : i < j => FirstOf(t, s[i]) < FirstOf(t, s[j])
BY DEF Site!IsWithoutRepeats, Elements, FirstOf

\* removeDuplicates keeps every element where it occurs first.
LEMMA DuplicatesRemoved ==
    ASSUME NEW S, NEW s \in Seq(S)
    PROVE  Site!removeDuplicates(s) \in Seq(S) /\ Site!IsWithoutRepeats(Site!removeDuplicates(s), s)
<1> DEFINE I == {i \in 1 .. Len(s) : \A j \in 1 .. i - 1 : s[j] # s[i]}
           n == Cardinality(I)
           r == Site!removeDuplicates(s)
<1>1. Len(s) \in Nat /\ I \in SUBSET (1 .. Len(s))
  OBVIOUS
<1>2. I \in SUBSET Nat /\ IsFiniteSet(I)
  BY <1>1, PositionsFinite
<1>3. r = [k \in 1 .. n |-> s[Sorted(I)[k]]]
  BY SiteSelected DEF Site!removeDuplicates, Selected
<1>4. \A i \in I : FirstOf(s, s[i]) = i /\ i \in 1 .. Len(s)
  BY FirstIs
<1>5. ASSUME NEW i \in 1 .. Len(s) PROVE \E k \in I : s[k] = s[i]
  <2> DEFINE f == FirstOf(s, s[i])
  <2>1. f \in 1 .. Len(s) /\ s[f] = s[i] /\ \A j \in 1 .. Len(s) : s[j] = s[i] => f <= j
    BY FirstOccurs DEF Elements
  <2> HIDE DEF f
  <2>2. \A j \in 1 .. f - 1 : s[j] # s[f]
    BY <1>1, <2>1
  <2>3. QED
    BY <2>1, <2>2
<1> HIDE DEF I, r
<1>6. /\ n \in Nat /\ \A k \in 1 .. n : Sorted(I)[k] \in I
      /\ \A k, l \in 1 .. n : k < l => Sorted(I)[k] < Sorted(I)[l]
      /\ \A i \in I : \E k \in 1 .. n : Sorted(I)[k] = i
  <2>1. /\ n \in Nat /\ Sorted(I) \in Seq(I) /\ Len(Sorted(I)) = n
        /\ \A k, l \in 1 .. n : k < l => Sorted(I)[k] < Sorted(I)[l]
        /\ \A i \in I : \E k \in 1 .. n : Sorted(I)[k] = i
    BY <1>2, SortedSet
  <2>2. QED
    BY <2>1
<1> HIDE DEF n
<1>7. \A k \in 1 .. n : s[Sorted(I)[k]] \in S
  <2>1. \A k \in 1 .. n : Sorted(I)[k] \in 1 .. Len(s)
    BY <1>1, <1>6
  <2>2. \A i \in 1 .. Len(s) : s[i] \in S
    OBVIOUS
  <2>3. QED
    BY <2>1, <2>2
<1>8. r \in [1 .. n -> S] /\ \A k \in 1 .. n : r[k] = s[Sorted(I)[k]]
  BY <1>3, <1>7
<1>9. r \in Seq(S) /\ Len(r) = n
  BY <1>6, <1>8
<1>10. Elements(r) = Elements(s)
  <2>1. \A k \in 1 .. n : r[k] \in Elements(s)
    BY <1>1, <1>6, <1>8 DEF Elements
  <2>2. \A i \in 1 .. Len(s) : \E k \in 1 .. n : r[k] = s[i]
    BY <1>5, <1>6, <1>8
  <2>3. QED
    BY <1>9, <2>1, <2>2 DEF Elements
<1>11. ASSUME NEW i \in 1 .. Len(r), NEW j \in 1 .. Len(r), i < j
       PROVE  FirstOf(s, r[i]) < FirstOf(s, r[j])
  <2>1. FirstOf(s, r[i]) = Sorted(I)[i] /\ FirstOf(s, r[j]) = Sorted(I)[j]
    BY <1>4, <1>6, <1>8, <1>9
  <2>2. QED
    BY <1>6, <1>9, <1>11, <2>1
<1>12. QED
  BY <1>9, <1>10, <1>11, InOrderOfFirst DEF r

\* Lists may be put together level by level: duplicates that were removed above make no
\* difference below.
LEMMA RemovedAbove ==
    ASSUME NEW S, NEW s \in Seq(S), NEW r \in Seq(S), NEW t \in Seq(S), Site!IsWithoutRepeats(r, t)
    PROVE  Site!IsWithoutRepeats(Site!removeDuplicates(s \o r), s \o t)
<1> DEFINE u == s \o r
           w == s \o t
           d == Site!removeDuplicates(u)
<1>1. u \in Seq(S) /\ w \in Seq(S) /\ Len(s) \in Nat /\ Len(r) \in Nat /\ Len(t) \in Nat
  BY Joining
<1>2. Elements(r) = Elements(t) /\ \A i, j \in 1 .. Len(r) : i < j => FirstOf(t, r[i]) < FirstOf(t, r[j])
  BY InOrderOfFirst
<1>3. Elements(u) = Elements(s) \union Elements(r) /\ Elements(w) = Elements(u)
  <2>1. Elements(u) = Elements(s) \union Elements(r) /\ Elements(w) = Elements(s) \union Elements(t)
    BY Joining
  <2>2. QED
    BY <1>2, <2>1
<1>4. ASSUME NEW x \in Elements(u), NEW y \in Elements(u), FirstOf(u, x) < FirstOf(u, y)
      PROVE  FirstOf(w, x) < FirstOf(w, y)
  <2>1. x \in Elements(s) \union Elements(r) /\ y \in Elements(s) \union Elements(r)
    BY <1>3
  <2>2. \A z \in Elements(s) \union Elements(r) :
          /\ z \in Elements(s) => /\ FirstOf(u, z) = FirstOf(s, z) /\ FirstOf(w, z) = FirstOf(s, z)
                                  /\ FirstOf(s, z) \in 1 .. Len(s)
          /\ z \notin Elements(s) => /\ FirstOf(u, z) = Len(s) + FirstOf(r, z)
                                     /\ FirstOf(w, z) = Len(s) + FirstOf(t, z)
                                     /\ FirstOf(r, z) \in 1 .. Len(r) /\ r[FirstOf(r, z)] = z
                                     /\ FirstOf(t, z) \in 1 .. Len(t)
    BY <1>2, FirstJoined
  <2> HIDE DEF u, w
  <2>3. CASE x \in Elements(s) /\ y \in Elements(s)
    BY <1>4, <2>1, <2>2, <2>3
  <2>4. CASE x \in Elements(s) /\ y \notin Elements(s)
    BY <1>1, <2>1, <2>2, <2>4
  <2>5. CASE x \notin Elements(s) /\ y \in Elements(s)
    BY <1>1, <1>4, <2>1, <2>2, <2>5
  <2>6. CASE x \notin Elements(s) /\ y \notin Elements(s)
    <3>1. FirstOf(r, x) < FirstOf(r, y)
      BY <1>1, <1>4, <2>1, <2>2, <2>6
    <3>2. FirstOf(t, x) < FirstOf(t, y)
      BY <1>2, <2>1, <2>2, <2>6, <3>1
    <3>3. QED
      BY <1>1, <2>1, <2>2, <2>6, <3>2
  <2>7. QED
    BY <2>3, <2>4, <2>5, <2>6
<1>5. d \in Seq(S) /\ Site!IsWithoutRepeats(d, u)
  BY <1>1, DuplicatesRemoved
<1> HIDE DEF d, u, w
<1>6. /\ Elements(d) = Elements(u)
      /\ \A i, j \in 1 .. Len(d) : i < j => FirstOf(u, d[i]) < FirstOf(u, d[j])
  BY <1>5, InOrderOfFirst
<1>7. \A i \in 1 .. Len(d) : d[i] \in Elements(u)
  BY <1>6 DEF Elements
<1>8. \A i, j \in 1 .. Len(d) : i < j => FirstOf(w, d[i]) < FirstOf(w, d[j])
  BY <1>4, <1>6, <1>7
<1>9. Site!IsWithoutRepeats(d, w)
  BY <1>3, <1>6, <1>8, InOrderOfFirst
<1>10. QED
  BY <1>9 DEF d, u, w

LEMMA SiteSteps ==
    ASSUME [Next]_vars
    PROVE  part' = part /\ (part = "site" => Site!Next \/ UNCHANGED siteVars)
BY DEF Next, vars, LayerNext, RenderNext, SiteNext, ControllerNext, MatchNext, JobNext, RestoreNext

\* The matrices of the trees, and the paths made of their positions.
MatrixSet == [env : Seq(STRING), lists : Seq(STRING)]
LevelName == Seq(STRING)
PathSet == [testsuite : LevelName, branch : LevelName, trigger : LevelName, repo : LevelName]
PathAt(q) == [testsuite |-> q[1], branch |-> q[2], trigger |-> q[3], repo |-> q[4]]
RepoPositions(f) == {q \in DOMAIN Saved[f] : Len(q) = 4}

\* m is the matrix that position q of the tree of f has from its levels, from the root
\* down.
Inherited(f, q, m) ==
    \E ms \in [0 .. Len(q) -> MatrixSet] :
        /\ ms[0] = Saved[f][<<>>]
        /\ \A n \in 1 .. Len(q) : ms[n] = Site!Inherit(Saved[f][SubSeq(q, 1, n)], ms[n - 1])
        /\ m = ms[Len(q)]

LEMMA Prefixes ==
    ASSUME NEW S, NEW q \in Seq(S), NEW n \in 0 .. Len(q)
    PROVE  /\ SubSeq(q, 1, n) \in Seq(S) /\ Len(SubSeq(q, 1, n)) = n /\ Len(q) \in Nat
           /\ \A i \in 1 .. n : SubSeq(q, 1, n)[i] = q[i]
<1>1. n \in Int /\ n \in Nat /\ Len(q) \in Nat /\ \A i \in 1 .. n : q[i] \in S
  OBVIOUS
<1>2. /\ SubSeq(q, 1, n) \in Seq(S)
      /\ Len(SubSeq(q, 1, n)) = IF 1 <= n THEN n - 1 + 1 ELSE 0
      /\ \A i \in 1 .. n - 1 + 1 : SubSeq(q, 1, n)[i] = q[1 + i - 1]
  BY <1>1, SubSeqProperties
<1>3. n - 1 + 1 = n /\ \A i \in 1 .. n : 1 + i - 1 = i
  BY <1>1
<1>4. QED
  BY <1>1, <1>2, <1>3

LEMMA Appended ==
    ASSUME NEW S, NEW q \in Seq(S), NEW x \in S
    PROVE  /\ Append(q, x) \in Seq(S) /\ Len(q) \in Nat /\ Len(Append(q, x)) = Len(q) + 1
           /\ Append(q, x)[Len(q) + 1] = x
           /\ \A i \in 1 .. Len(q) : Append(q, x)[i] = q[i]
           /\ \A n \in 0 .. Len(q) : SubSeq(Append(q, x), 1, n) = SubSeq(q, 1, n)
           /\ SubSeq(Append(q, x), 1, Len(q) + 1) = Append(q, x)
<1>1. /\ Append(q, x) \in Seq(S) /\ Len(q) \in Nat /\ Len(Append(q, x)) = Len(q) + 1
      /\ Append(q, x)[Len(q) + 1] = x
      /\ \A i \in 1 .. Len(q) : Append(q, x)[i] = q[i]
  OBVIOUS
<1> DEFINE a == Append(q, x)
<1> HIDE DEF a
<1>2. ASSUME NEW n \in 0 .. Len(q) PROVE SubSeq(a, 1, n) = SubSeq(q, 1, n)
  <2>1. n \in 0 .. Len(a) /\ a \in Seq(S)
    BY <1>1 DEF a
  <2>2. /\ SubSeq(a, 1, n) \in Seq(S) /\ Len(SubSeq(a, 1, n)) = n
        /\ \A i \in 1 .. n : SubSeq(a, 1, n)[i] = a[i]
    BY <2>1, Prefixes
  <2>3. /\ SubSeq(q, 1, n) \in Seq(S) /\ Len(SubSeq(q, 1, n)) = n
        /\ \A i \in 1 .. n : SubSeq(q, 1, n)[i] = q[i]
    BY Prefixes
  <2>4. \A i \in 1 .. n : a[i] = q[i]
    BY <1>1 DEF a
  <2>5. QED
    BY <2>2, <2>3, <2>4, SeqEqual
<1>3. SubSeq(a, 1, Len(q) + 1) = a
  BY <1>1, SubSeqFull DEF a
<1>4. QED
  BY <1>1, <1>2, <1>3 DEF a

LEMMA TreeTypes ==
    ASSUME NEW f \in DOMAIN Saved
    PROVE  /\ <<>> \in DOMAIN Saved[f]
           /\ \A q \in DOMAIN Saved[f] :
                 /\ q \in Seq(LevelName) /\ Len(q) \in Nat /\ Saved[f][q] \in MatrixSet
                 /\ \A n \in 0 .. Len(q) : SubSeq(q, 1, n) \in DOMAIN Saved[f]
BY SiteTyped DEF MatrixSet, LevelName

\* The levels below a position.
LEMMA LevelsBelow ==
    ASSUME NEW f \in DOMAIN Saved, NEW q \in DOMAIN Saved[f], NEW level \in Site!Levels(Saved[f], q)
    PROVE  Append(q, level) \in DOMAIN Saved[f] /\ level \in LevelName
<1>1. PICK r \in DOMAIN Saved[f] : Len(r) = Len(q) + 1 /\ SubSeq(r, 1, Len(q)) = q /\ level = r[Len(r)]
  BY DEF Site!Levels
<1>2. /\ q \in Seq(LevelName) /\ r \in Seq(LevelName) /\ Len(q) \in Nat /\ Len(q) \in 0 .. Len(r)
      /\ level \in LevelName
  <2>1. q \in Seq(LevelName) /\ r \in Seq(LevelName) /\ Len(q) \in Nat
    BY TreeTypes
  <2>2. Len(r) \in 1 .. Len(r) /\ Len(q) \in 0 .. Len(r)
    BY <1>1, <2>1
  <2>3. QED
    BY <1>1, <2>1, <2>2
<1>3. \A i \in 1 .. Len(q) : q[i] = r[i]
  BY <1>1, <1>2, Prefixes
<1> DEFINE a == Append(q, level)
<1>4. /\ a \in Seq(LevelName) /\ Len(a) = Len(q) + 1
      /\ a[Len(q) + 1] = level /\ \A i \in 1 .. Len(q) : a[i] = q[i]
  BY <1>2, Appended
<1> HIDE DEF a
<1>5. \A i \in 1 .. Len(a) : a[i] = r[i]
  <2>1. \A i \in 1 .. Len(a) : i \in 1 .. Len(q) \/ i = Len(q) + 1
    BY <1>2, <1>4
  <2>2. QED
    BY <1>1, <1>3, <1>4, <2>1
<1>6. a = r
  BY <1>1, <1>2, <1>4, <1>5, SeqEqual
<1>7. QED
  BY <1>2, <1>6 DEF a

LEMMA InheritTyped ==
    ASSUME NEW own \in MatrixSet, NEW parent \in MatrixSet
    PROVE  Site!Inherit(own, parent) \in MatrixSet
<1>1. own.env \o parent.env \in Seq(STRING) /\ own.lists \o parent.lists \in Seq(STRING)
  BY DEF MatrixSet
<1>2. Site!removeDuplicates(own.lists \o parent.lists) \in Seq(STRING)
  BY <1>1, DuplicatesRemoved
<1>3. QED
  BY <1>1, <1>2 DEF Site!Inherit, MatrixSet

\* The root has its own matrix, and a level below a position inherits from it.
LEMMA InheritedRoot ==
    ASSUME NEW f \in DOMAIN Saved
    PROVE  Inherited(f, <<>>, Saved[f][<<>>]) /\ Saved[f][<<>>] \in MatrixSet
<1>1. Saved[f][<<>>] \in MatrixSet
  BY TreeTypes
<1> DEFINE ms == [n \in 0 .. 0 |-> Saved[f][<<>>]]
<1>2. ms \in [0 .. 0 -> MatrixSet] /\ ms[0] = Saved[f][<<>>]
  BY <1>1
<1> HIDE DEF ms
<1>3. Len(<<>>) = 0 /\ \A n \in 1 .. 0 : FALSE
  OBVIOUS
<1>4. QED
  BY <1>1, <1>2, <1>3 DEF Inherited

LEMMA InheritedLevel ==
    ASSUME NEW f \in DOMAIN Saved, NEW q \in DOMAIN Saved[f], NEW level \in LevelName,
           Append(q, level) \in DOMAIN Saved[f], NEW m, Inherited(f, q, m)
    PROVE  LET own == Site!Inherit(Saved[f][Append(q, level)], m) IN
           Inherited(f, Append(q, level), own) /\ own \in MatrixSet /\ m \in MatrixSet
<1> DEFINE k == Len(q)
           a == Append(q, level)
           own == Site!Inherit(Saved[f][a], m)
<1>1. PICK ms \in [0 .. k -> MatrixSet] :
        /\ ms[0] = Saved[f][<<>>]
        /\ \A n \in 1 .. k : ms[n] = Site!Inherit(Saved[f][SubSeq(q, 1, n)], ms[n - 1])
        /\ m = ms[k]
  BY DEF Inherited
<1>2. q \in Seq(LevelName) /\ k \in Nat
  BY TreeTypes
<1>3. /\ Len(a) = k + 1 /\ SubSeq(a, 1, k + 1) = a
      /\ \A n \in 0 .. k : SubSeq(a, 1, n) = SubSeq(q, 1, n)
  BY <1>2, Appended
<1>4. Saved[f][a] \in MatrixSet /\ m \in MatrixSet
  <2>1. a \in DOMAIN Saved[f]
    OBVIOUS
  <2> HIDE DEF a, k
  <2>2. m \in MatrixSet
    BY <1>1, <1>2
  <2>3. QED
    BY <2>1, <2>2, TreeTypes
<1>5. own \in MatrixSet
  BY <1>4, InheritTyped
<1> HIDE DEF own, a, k
<1> DEFINE mn == [n \in 0 .. k + 1 |-> IF n = k + 1 THEN own ELSE ms[n]]
<1>6. mn \in [0 .. k + 1 -> MatrixSet] /\ mn[0] = Saved[f][<<>>] /\ own = mn[k + 1]
  BY <1>1, <1>2, <1>5
<1>7. ASSUME NEW n \in 1 .. k + 1 PROVE mn[n] = Site!Inherit(Saved[f][SubSeq(a, 1, n)], mn[n - 1])
  <2>1. n \in 1 .. k \/ n = k + 1
    BY <1>2
  <2>2. CASE n \in 1 .. k
    <3>0. n \in 0 .. k + 1 /\ n - 1 \in 0 .. k + 1 /\ n # k + 1 /\ n - 1 # k + 1 /\ n \in 0 .. k
      BY <1>2, <2>2
    <3>1. mn[n] = ms[n] /\ mn[n - 1] = ms[n - 1] /\ SubSeq(a, 1, n) = SubSeq(q, 1, n)
      BY <1>3, <3>0
    <3>2. QED
      BY <1>1, <2>2, <3>1
  <2>3. CASE n = k + 1
    <3>1. mn[n] = own /\ mn[n - 1] = m /\ SubSeq(a, 1, n) = a
      BY <1>1, <1>2, <1>3, <2>3
    <3>2. QED
      BY <3>1 DEF own
  <2>4. QED
    BY <2>1, <2>2, <2>3
<1> HIDE DEF mn
<1>8. Inherited(f, a, own)
  BY <1>3, <1>6, <1>7 DEF Inherited
<1>9. QED
  BY <1>4, <1>5, <1>8 DEF own, a

LEMMA ThreeJoined ==
    ASSUME NEW S, NEW a \in Seq(S), NEW b \in Seq(S), NEW c \in Seq(S)
    PROVE  a \o (b \o c) = (a \o b) \o c /\ b \o c \in Seq(S)
OBVIOUS

FromRight(a, b, c, d, e) == a \o (b \o (c \o (d \o e)))
FromLeft(a, b, c, d, e) == a \o b \o c \o d \o e

LEMMA FiveJoined ==
    ASSUME NEW S
    PROVE  \A a, b, c, d, e \in Seq(S) : FromRight(a, b, c, d, e) = FromLeft(a, b, c, d, e)
<1> DEFINE Cat(x, y) == x \o y
<1>1. \A x, y, z \in Seq(S) : Cat(x, Cat(y, z)) = Cat(Cat(x, y), z) /\ Cat(y, z) \in Seq(S)
  BY ThreeJoined
<1> HIDE DEF Cat
<1>2. \A a, b, c, d, e \in Seq(S) : Cat(a, Cat(b, Cat(c, Cat(d, e)))) = Cat(Cat(Cat(Cat(a, b), c), d), e)
  BY <1>1
<1>3. QED
  BY <1>2 DEF Cat, FromRight, FromLeft

\* Four levels down: the environments from the repository up to the root, and the
\* elements of the lists once each.
LEMMA InheritedRepo ==
    ASSUME NEW f \in DOMAIN Saved, NEW q \in RepoPositions(f), NEW m, Inherited(f, q, m)
    PROVE  /\ m.env = Site!EnvOf(f, PathAt(q))
           /\ Site!IsWithoutRepeats(m.lists, Site!ListsOf(f, PathAt(q)))
<1> DEFINE t(n) == Saved[f][SubSeq(q, 1, n)]
<1>1. q \in Seq(LevelName) /\ Len(q) = 4 /\ q = <<q[1], q[2], q[3], q[4]>>
  BY TreeTypes DEF RepoPositions
<1>2. t(0) \in MatrixSet /\ t(1) \in MatrixSet /\ t(2) \in MatrixSet /\ t(3) \in MatrixSet /\ t(4) \in MatrixSet
  <2>1. \A n \in 0 .. 4 : t(n) \in MatrixSet
    BY <1>1, TreeTypes DEF RepoPositions
  <2>2. QED
    BY <2>1
<1>3. SubSeq(q, 1, 0) = <<>>
  BY <1>1, SubSeqEmpty
<1>4. PICK ms \in [0 .. 4 -> MatrixSet] :
        /\ ms[0] = Saved[f][<<>>]
        /\ \A n \in 1 .. 4 : ms[n] = Site!Inherit(t(n), ms[n - 1])
        /\ m = ms[4]
  BY <1>1 DEF Inherited
<1>5. LET w == Site!OnTheWay(f, PathAt(q)) IN
      w[1] = t(4) /\ w[2] = t(3) /\ w[3] = t(2) /\ w[4] = t(1) /\ w[5] = t(0)
  <2> DEFINE p == PathAt(q)
  <2>1. <<p.testsuite, p.branch, p.trigger, p.repo>> = q
    BY <1>1 DEF PathAt
  <2> HIDE DEF p
  <2>2. Site!OnTheWay(f, p) = [i \in 1 .. 5 |-> t(5 - i)]
    BY <2>1 DEF Site!OnTheWay
  <2> HIDE DEF t
  <2>3. QED
    BY <2>2 DEF p
<1>6. /\ ms[0] = t(0) /\ ms[1] = Site!Inherit(t(1), ms[0]) /\ ms[2] = Site!Inherit(t(2), ms[1])
      /\ ms[3] = Site!Inherit(t(3), ms[2]) /\ ms[4] = Site!Inherit(t(4), ms[3])
  <2>1. 1 \in 1 .. 4 /\ 2 \in 1 .. 4 /\ 3 \in 1 .. 4 /\ 4 \in 1 .. 4 /\ 1 - 1 = 0 /\ 2 - 1 = 1 /\ 3 - 1 = 2 /\ 4 - 1 = 3
    OBVIOUS
  <2>2. t(0) = Saved[f][<<>>]
    BY <1>3
  <2> HIDE DEF t
  <2>3. QED
    BY <1>4, <2>1, <2>2
<1>7. ms[1] \in MatrixSet /\ ms[2] \in MatrixSet /\ ms[3] \in MatrixSet /\ ms[4] \in MatrixSet
  BY <1>4
<1> HIDE DEF t
<1> DEFINE e(n) == t(n).env
           l(n) == t(n).lists
<1>8. /\ e(0) \in Seq(STRING) /\ e(1) \in Seq(STRING) /\ e(2) \in Seq(STRING) /\ e(3) \in Seq(STRING) /\ e(4) \in Seq(STRING)
      /\ l(0) \in Seq(STRING) /\ l(1) \in Seq(STRING) /\ l(2) \in Seq(STRING) /\ l(3) \in Seq(STRING) /\ l(4) \in Seq(STRING)
  BY <1>2 DEF MatrixSet
<1>9. /\ Site!EnvOf(f, PathAt(q)) = e(4) \o e(3) \o e(2) \o e(1) \o e(0)
      /\ Site!ListsOf(f, PathAt(q)) = l(4) \o l(3) \o l(2) \o l(1) \o l(0)
  BY <1>5 DEF Site!EnvOf, Site!ListsOf
<1>11. m.env = Site!EnvOf(f, PathAt(q))
  <2>1. /\ ms[0].env = e(0) /\ ms[1].env = e(1) \o ms[0].env /\ ms[2].env = e(2) \o ms[1].env
        /\ ms[3].env = e(3) \o ms[2].env /\ ms[4].env = e(4) \o ms[3].env
    <3>1. \A x, y : Site!Inherit(x, y).env = x.env \o y.env
      BY DEF Site!Inherit
    <3>2. QED
      BY <1>6, <3>1
  <2> HIDE DEF e
  <2>2. m.env = e(4) \o (e(3) \o (e(2) \o (e(1) \o e(0))))
    BY <1>4, <2>1
  <2>3. FromRight(e(4), e(3), e(2), e(1), e(0)) = FromLeft(e(4), e(3), e(2), e(1), e(0))
    BY SMTT(30), <1>8, FiveJoined DEF e
  <2>4. QED
    BY <1>9, <2>2, <2>3 DEF FromRight, FromLeft, e
<1>12. Site!IsWithoutRepeats(m.lists, Site!ListsOf(f, PathAt(q)))
  <2>1. /\ ms[0].lists = l(0)
        /\ ms[1].lists = Site!removeDuplicates(l(1) \o ms[0].lists)
        /\ ms[2].lists = Site!removeDuplicates(l(2) \o ms[1].lists)
        /\ ms[3].lists = Site!removeDuplicates(l(3) \o ms[2].lists)
        /\ ms[4].lists = Site!removeDuplicates(l(4) \o ms[3].lists)
    BY <1>6 DEF Site!Inherit
  <2>2. ms[1].lists \in Seq(STRING) /\ ms[2].lists \in Seq(STRING) /\ ms[3].lists \in Seq(STRING)
    BY <1>7 DEF MatrixSet
  <2> HIDE DEF l
  <2> DEFINE l1 == l(1) \o l(0)
             l2 == l(2) \o l1
             l3 == l(3) \o l2
  <2>3. l1 \in Seq(STRING) /\ l2 \in Seq(STRING) /\ l3 \in Seq(STRING)
    BY <1>8
  <2>4. Site!IsWithoutRepeats(ms[1].lists, l1)
    BY <2>1, <2>3, DuplicatesRemoved
  <2> HIDE DEF l1
  <2>5. Site!IsWithoutRepeats(ms[2].lists, l2)
    BY <1>8, <2>1, <2>2, <2>3, <2>4, RemovedAbove
  <2> HIDE DEF l2
  <2>6. Site!IsWithoutRepeats(ms[3].lists, l3)
    BY <1>8, <2>1, <2>2, <2>3, <2>5, RemovedAbove
  <2> HIDE DEF l3
  <2>7. Site!IsWithoutRepeats(ms[4].lists, l(4) \o l3)
    BY <1>8, <2>1, <2>2, <2>3, <2>6, RemovedAbove
  <2>8. FromRight(l(4), l(3), l(2), l(1), l(0)) = FromLeft(l(4), l(3), l(2), l(1), l(0))
    BY SMTT(30), <1>8, FiveJoined DEF l
  <2>9. QED
    BY <1>4, <1>9, <2>7, <2>8 DEF FromRight, FromLeft, l, l1, l2, l3
<1>13. QED
  BY <1>11, <1>12

\* The keys of a tree's repositories are apart.
LEMMA RepoKeys ==
    ASSUME NEW f \in DOMAIN Saved
    PROVE  /\ Site!TreePaths(f) = {PathAt(q) : q \in RepoPositions(f)}
           /\ \A q \in RepoPositions(f) : PathAt(q) \in PathSet
           /\ \A q, r \in RepoPositions(f) :
                 Site!KeyOf(PathAt(q)) = Site!KeyOf(PathAt(r)) => q = r
<1>1. Site!TreePaths(f) = {PathAt(q) : q \in RepoPositions(f)}
  BY DEF Site!TreePaths, PathAt, RepoPositions
<1>2. ASSUME NEW q \in RepoPositions(f) PROVE PathAt(q) \in PathSet
  <2>1. q \in Seq(LevelName) /\ Len(q) = 4
    BY TreeTypes DEF RepoPositions
  <2>2. q[1] \in LevelName /\ q[2] \in LevelName /\ q[3] \in LevelName /\ q[4] \in LevelName
    <3>1. \A i \in 1 .. 4 : q[i] \in LevelName
      BY SMTT(30), <2>1
    <3>2. QED
      BY <3>1
  <2>3. QED
    BY <2>2 DEF PathAt, PathSet
<1>3. \A q : Site!KeyOf(PathAt(q)) = q[4] \o q[2] \o q[3] \o q[1]
  BY DEF Site!KeyOf, PathAt, Site!createVariationKey
<1>4. ASSUME NEW q \in RepoPositions(f), NEW r \in RepoPositions(f),
             Site!KeyOf(PathAt(q)) = Site!KeyOf(PathAt(r))
      PROVE  q = r
  <2>1. q[4] \o q[2] \o q[3] \o q[1] = r[4] \o r[2] \o r[3] \o r[1]
    BY <1>3, <1>4
  <2>2. QED
    BY <2>1, SiteApart DEF RepoPositions
<1>5. QED
  BY <1>1, <1>2, <1>4

\* w holds paths of the tree of f and no others, each with what it inherits.
Flattened(f, w) ==
    /\ w.paths \in Seq(PathSet)
    /\ Site!PathsOf(w) \subseteq Site!TreePaths(f)
    /\ DOMAIN w.leaves = {Site!KeyOf(p) : p \in Site!PathsOf(w)}
    /\ \A q \in RepoPositions(f) :
          PathAt(q) \in Site!PathsOf(w) => Inherited(f, q, w.leaves[Site!KeyOf(PathAt(q))])

\* The path agrees with the position as far as that goes.
Fits(path, at) ==
    /\ path \in PathSet
    /\ Len(at) >= 1 => path.testsuite = at[1]
    /\ Len(at) >= 2 => path.branch = at[2]
    /\ Len(at) >= 3 => path.trigger = at[3]
    /\ Len(at) >= 4 => path.repo = at[4]

\* A call of parseVariations is at a position of the tree.
Frame == [at : Seq(LevelName), m : MatrixSet, left : SUBSET LevelName, path : PathSet]

FrameFits(f, fr) ==
    /\ fr.at \in DOMAIN Saved[f] /\ Len(fr.at) <= 4
    /\ fr.left \subseteq Site!Levels(Saved[f], fr.at)
    /\ Inherited(f, fr.at, fr.m)
    /\ Fits(fr.path, fr.at)

\* The call will come to the repository at q.
Pending(fr, q) ==
    /\ Len(fr.at) < 4 /\ SubSeq(q, 1, Len(fr.at)) = fr.at
    /\ q[Len(fr.at) + 1] \in fr.left

\* Every repository of the tree has been flattened or will be.
Parsing(f) ==
    /\ frames \in Seq(Frame) /\ \A i \in 1 .. Len(frames) : FrameFits(f, frames[i])
    /\ Flattened(f, v)
    /\ \A q \in RepoPositions(f) :
          PathAt(q) \in Site!PathsOf(v) \/ \E i \in 1 .. Len(frames) : Pending(frames[i], q)

LEMMA NamedFits ==
    ASSUME NEW at \in Seq(LevelName), Len(at) <= 3, NEW level \in LevelName, NEW path, Fits(path, at)
    PROVE  LET named == Site!Named(path, Len(at), level) IN
           Fits(named, at) /\ Fits(named, Append(at, level))
<1> DEFINE d == Len(at)
           a == Append(at, level)
           named == Site!Named(path, d, level)
<1>1. d \in Nat /\ Len(a) = d + 1 /\ a[d + 1] = level /\ \A i \in 1 .. d : a[i] = at[i]
  BY Appended
<1> HIDE DEF a
<1>2. path \in PathSet
  BY DEF Fits
<1>3. d = 0 \/ d = 1 \/ d = 2 \/ d = 3
  <2>1. d \in Nat /\ d <= 3
    BY <1>1
  <2> HIDE DEF d
  <2>2. QED
    BY <2>1
<1>4. SUFFICES Fits(named, at) /\ Fits(named, a)
  BY DEF a
<1>5. CASE d = 0
  <2>1. named = [path EXCEPT !.testsuite = level]
    BY <1>5 DEF Site!Named, Site!Testsuite, Site!Branch, Site!Trigger, Site!Repo
  <2> HIDE DEF named
  <2>2. QED
    BY <1>1, <1>2, <1>5, <2>1 DEF Fits, PathSet
<1>6. CASE d = 1
  <2>1. named = [path EXCEPT !.branch = level]
    BY <1>6 DEF Site!Named, Site!Testsuite, Site!Branch, Site!Trigger, Site!Repo
  <2> HIDE DEF named
  <2>2. QED
    BY <1>1, <1>2, <1>6, <2>1 DEF Fits, PathSet
<1>7. CASE d = 2
  <2>1. named = [path EXCEPT !.trigger = level]
    BY <1>7 DEF Site!Named, Site!Testsuite, Site!Branch, Site!Trigger, Site!Repo
  <2> HIDE DEF named
  <2>2. QED
    BY <1>1, <1>2, <1>7, <2>1 DEF Fits, PathSet
<1>8. CASE d = 3
  <2>1. named = [path EXCEPT !.repo = level]
    BY <1>8 DEF Site!Named, Site!Testsuite, Site!Branch, Site!Trigger, Site!Repo
  <2> HIDE DEF named
  <2>2. QED
    BY <1>1, <1>2, <1>8, <2>1 DEF Fits, PathSet
<1>9. QED
  BY <1>3, <1>5, <1>6, <1>7, <1>8

\* A call replaced by two.
LEMMA Pushed ==
    ASSUME NEW S, NEW s \in Seq(S), s # <<>>, NEW a \in S, NEW b \in S
    PROVE  /\ <<a, b>> \o Tail(s) \in Seq(S) /\ Len(s) \in Nat /\ Len(<<a, b>> \o Tail(s)) = Len(s) + 1
           /\ (<<a, b>> \o Tail(s))[1] = a /\ (<<a, b>> \o Tail(s))[2] = b
           /\ \A i \in 2 .. Len(s) : (<<a, b>> \o Tail(s))[i + 1] = s[i]
<1> DEFINE t == Tail(s)
           u == <<a, b>>
<1>1. /\ t \in Seq(S) /\ Len(t) = Len(s) - 1 /\ Len(s) \in Nat \ {0}
      /\ \A i \in 1 .. Len(t) : t[i] = s[i + 1]
  BY HeadTailProperties
<1>2. u \in Seq(S) /\ Len(u) = 2 /\ u[1] = a /\ u[2] = b
  OBVIOUS
<1> HIDE DEF t, u
<1>3. /\ (u \o t) \in Seq(S) /\ Len(u \o t) = Len(u) + Len(t)
      /\ \A i \in 1 .. Len(u) : (u \o t)[i] = u[i]
      /\ \A i \in 1 .. Len(t) : (u \o t)[Len(u) + i] = t[i]
  <2>1. u \in Seq(S) /\ t \in Seq(S)
    BY <1>1, <1>2
  <2>2. QED
    BY <2>1, Joining
<1> DEFINE w == u \o t
<1> HIDE DEF w
<1>4. /\ w \in Seq(S) /\ Len(w) = 2 + Len(t) /\ w[1] = a /\ w[2] = b
      /\ \A i \in 1 .. Len(t) : w[2 + i] = t[i]
  BY <1>2, <1>3 DEF w
<1>5. ASSUME NEW i \in 2 .. Len(s) PROVE w[i + 1] = s[i]
  <2>1. i - 1 \in 1 .. Len(t) /\ 2 + (i - 1) = i + 1 /\ (i - 1) + 1 = i
    BY <1>1
  <2>2. QED
    BY <1>1, <1>4, <2>1
<1>6. Len(w) = Len(s) + 1
  BY <1>1, <1>4
<1>7. QED
  BY <1>1, <1>4, <1>5, <1>6 DEF w, u, t

\* On the way to a repository the next name is a level.
LEMMA NextLevel ==
    ASSUME NEW f \in DOMAIN Saved, NEW q \in DOMAIN Saved[f], NEW n \in 0 .. Len(q), n # Len(q)
    PROVE  q[n + 1] \in Site!Levels(Saved[f], SubSeq(q, 1, n))
<1> DEFINE r == SubSeq(q, 1, n + 1)
           p == SubSeq(q, 1, n)
<1>1. q \in Seq(LevelName) /\ Len(q) \in Nat
  BY TreeTypes
<1>2. n \in Nat /\ n + 1 \in 0 .. Len(q) /\ n \in 0 .. n + 1
  BY <1>1
<1>3. r \in DOMAIN Saved[f]
  BY <1>2, TreeTypes
<1>4. r \in Seq(LevelName) /\ Len(r) = n + 1 /\ \A i \in 1 .. n + 1 : r[i] = q[i]
  BY <1>1, <1>2, Prefixes
<1>5. p \in Seq(LevelName) /\ Len(p) = n /\ \A i \in 1 .. n : p[i] = q[i]
  BY <1>1, <1>2, Prefixes
<1> HIDE DEF r, p
<1> DEFINE s == SubSeq(r, 1, n)
<1>6. s \in Seq(LevelName) /\ Len(s) = n /\ \A i \in 1 .. n : s[i] = r[i]
  BY <1>2, <1>4, Prefixes
<1> HIDE DEF s
<1>7. \A i \in 1 .. n : s[i] = p[i]
  <2>1. \A i \in 1 .. n : i \in 1 .. n + 1
    BY <1>2
  <2>2. QED
    BY <1>4, <1>5, <1>6, <2>1
<1>8. s = p
  BY <1>5, <1>6, <1>7, SeqEqual
<1>9. r[Len(r)] = q[n + 1]
  BY <1>2, <1>4
<1>10. q[n + 1] \in Site!Levels(Saved[f], p)
  BY <1>3, <1>4, <1>5, <1>8, <1>9 DEF Site!Levels, s
<1>11. QED
  BY <1>10 DEF p

\* A call at a position, with all the levels below it to come.
LEMMA NewFrame ==
    ASSUME NEW f \in DOMAIN Saved, NEW q \in DOMAIN Saved[f], Len(q) <= 4,
           NEW m, m \in MatrixSet, Inherited(f, q, m), NEW path, Fits(path, q)
    PROVE  LET fr == [at |-> q, m |-> m, left |-> Site!Levels(Saved[f], q), path |-> path] IN
           fr \in Frame /\ FrameFits(f, fr)
<1> DEFINE l == Site!Levels(Saved[f], q)
<1>1. l \in SUBSET LevelName
  BY LevelsBelow
<1> HIDE DEF l
<1>2. q \in Seq(LevelName) /\ path \in PathSet
  BY TreeTypes DEF Fits
<1> DEFINE fr == [at |-> q, m |-> m, left |-> l, path |-> path]
<1>3. fr \in Frame
  BY <1>1, <1>2 DEF Frame
<1>4. FrameFits(f, fr)
  BY DEF FrameFits, l
<1>5. QED
  BY <1>3, <1>4 DEF l

LEMMA RootParsed ==
    ASSUME NEW f \in DOMAIN Saved, dir[di] = f, Site!LoadFile
    PROVE  Parsing(f)'
<1> DEFINE path == [testsuite |-> <<>>, branch |-> <<>>, trigger |-> <<>>, repo |-> <<>>]
           fr == [at |-> <<>>, m |-> Saved[f][<<>>], left |-> Site!Levels(Saved[f], <<>>), path |-> path]
<1>1. frames' = <<fr>> /\ v' = Site!NewVariations
  BY DEF Site!LoadFile
<1>2. <<>> \in DOMAIN Saved[f] /\ Len(<<>>) = 0 /\ <<>> \in LevelName
  BY TreeTypes DEF LevelName
<1>3. Fits(path, <<>>)
  <2>1. path \in PathSet
    BY <1>2 DEF PathSet
  <2> HIDE DEF path
  <2>2. QED
    BY <1>2, <2>1 DEF Fits
<1> HIDE DEF path
<1>4. fr \in Frame /\ FrameFits(f, fr)
  <2>1. Inherited(f, <<>>, Saved[f][<<>>]) /\ Saved[f][<<>>] \in MatrixSet
    BY InheritedRoot
  <2>2. QED
    BY <1>2, <1>3, <2>1, NewFrame
<1>5. Flattened(f, v')
  <2>1. v'.paths = <<>> /\ v'.leaves = <<>> /\ Len(<<>>) = 0
    BY <1>1 DEF Site!NewVariations
  <2>2. Site!PathsOf(v') = {} /\ v'.paths \in Seq(PathSet) /\ DOMAIN v'.leaves = {}
    BY <2>1 DEF Site!PathsOf
  <2>3. QED
    BY <2>2 DEF Flattened
<1>6. ASSUME NEW q \in RepoPositions(f) PROVE Pending(fr, q)
  <2>1. q \in DOMAIN Saved[f] /\ q \in Seq(LevelName) /\ Len(q) = 4 /\ 0 \in 0 .. Len(q) /\ 0 # Len(q)
    BY TreeTypes DEF RepoPositions
  <2>2. SubSeq(q, 1, 0) = <<>>
    BY <2>1, SubSeqEmpty
  <2>3. q[0 + 1] \in Site!Levels(Saved[f], SubSeq(q, 1, 0))
    BY <2>1, NextLevel
  <2>4. fr.at = <<>> /\ Len(fr.at) = 0 /\ fr.left = Site!Levels(Saved[f], <<>>)
    OBVIOUS
  <2> HIDE DEF fr
  <2>5. SubSeq(q, 1, Len(fr.at)) = fr.at /\ q[Len(fr.at) + 1] \in fr.left
    BY <2>2, <2>3, <2>4
  <2>6. QED
    BY <2>4, <2>5 DEF Pending
<1> HIDE DEF fr
<1>7. frames' \in Seq(Frame) /\ Len(frames') = 1 /\ frames'[1] = fr
  BY <1>1, <1>4
<1>8. \A i \in 1 .. Len(frames') : frames'[i] = fr
  BY <1>7
<1>9. 1 \in 1 .. Len(frames')
  BY <1>7
<1>10. QED
  BY <1>4, <1>5, <1>6, <1>7, <1>8, <1>9 DEF Parsing

\* A call that has no levels left, or is at a repository, was to come to none.
LEMMA CallReturned ==
    ASSUME NEW f \in DOMAIN Saved, Parsing(f), Site!ParseReturn
    PROVE  Parsing(f)'
<1>1. /\ frames # <<>> /\ frames' = Tail(frames) /\ v' = v
      /\ frames[1].left = {} \/ Len(frames[1].at) > 3
  BY DEF Site!ParseReturn, Site!Top, Site!Repo
<1>2. frames \in Seq(Frame)
  BY DEF Parsing
<1>3. /\ frames' \in Seq(Frame) /\ Len(frames') = Len(frames) - 1 /\ Len(frames) \in Nat \ {0}
      /\ \A i \in 1 .. Len(frames') : frames'[i] = frames[i + 1]
  BY <1>1, <1>2, HeadTailProperties
<1>4. \A i \in 1 .. Len(frames') : i + 1 \in 1 .. Len(frames)
  BY <1>3
<1>5. \A i \in 1 .. Len(frames') : FrameFits(f, frames'[i])
  BY <1>3, <1>4 DEF Parsing
<1>6. ASSUME NEW q \in RepoPositions(f), NEW i \in 1 .. Len(frames), Pending(frames[i], q)
      PROVE  \E j \in 1 .. Len(frames') : Pending(frames'[j], q)
  <2>1. Len(frames[i].at) \in Nat
    BY TreeTypes DEF Parsing, FrameFits
  <2>2. i # 1
    BY <1>1, <1>6, <2>1 DEF Pending
  <2>3. i - 1 \in 1 .. Len(frames') /\ (i - 1) + 1 = i
    BY <1>3, <2>2
  <2>4. QED
    BY <1>3, <1>6, <2>3
<1>7. QED
  BY <1>1, <1>3, <1>5, <1>6 DEF Parsing

\* A repository is a leaf: its key is that of no other, so that what is there stays.
LEMMA FlattenedMore ==
    ASSUME NEW f \in DOMAIN Saved, NEW w, Flattened(f, w), NEW q \in RepoPositions(f), NEW m, Inherited(f, q, m)
    PROVE  LET x == [leaves |-> Site!Put(w.leaves, Site!KeyOf(PathAt(q)), m),
                     paths |-> Append(w.paths, PathAt(q))] IN
           Flattened(f, x) /\ Site!PathsOf(x) = Site!PathsOf(w) \union {PathAt(q)}
<1> DEFINE p == PathAt(q)
           k == Site!KeyOf(p)
           leaves == Site!Put(w.leaves, k, m)
           paths == Append(w.paths, p)
           x == [leaves |-> leaves, paths |-> paths]
<1>1. p \in PathSet /\ p \in Site!TreePaths(f) /\ w.paths \in Seq(PathSet)
  BY RepoKeys DEF Flattened
<1> HIDE DEF p
<1>2. /\ paths \in Seq(PathSet) /\ Len(w.paths) \in Nat /\ Len(paths) = Len(w.paths) + 1
      /\ paths[Len(w.paths) + 1] = p /\ \A i \in 1 .. Len(w.paths) : paths[i] = w.paths[i]
  BY <1>1, Appended
<1>3. /\ DOMAIN leaves = DOMAIN w.leaves \union {k} /\ leaves[k] = m
      /\ \A a \in DOMAIN w.leaves : a # k => leaves[a] = w.leaves[a]
  BY DEF Site!Put
<1> HIDE DEF leaves, paths
<1>4. Site!PathsOf(x) = Site!PathsOf(w) \union {p}
  <2>1. 1 .. Len(paths) = (1 .. Len(w.paths)) \union {Len(w.paths) + 1}
    BY <1>2
  <2>2. Site!PathsOf(x) = {paths[i] : i \in 1 .. Len(paths)} /\ Site!PathsOf(w) = {w.paths[i] : i \in 1 .. Len(w.paths)}
    BY DEF Site!PathsOf
  <2>3. \A i \in 1 .. Len(paths) : paths[i] \in Site!PathsOf(w) \union {p}
    BY <1>2, <2>1, <2>2
  <2>4. \A i \in 1 .. Len(w.paths) : w.paths[i] \in Site!PathsOf(x)
    BY <1>2, <2>1, <2>2
  <2>5. p \in Site!PathsOf(x)
    BY <1>2, <2>1, <2>2
  <2>6. QED
    BY <2>2, <2>3, <2>4, <2>5
<1>5. x.paths = paths /\ x.leaves = leaves
  OBVIOUS
<1> HIDE DEF x
<1>6. ASSUME NEW r \in RepoPositions(f), PathAt(r) \in Site!PathsOf(x)
      PROVE  Inherited(f, r, x.leaves[Site!KeyOf(PathAt(r))])
  <2>1. CASE r = q
    BY <1>3, <1>5, <2>1 DEF p
  <2>2. CASE r # q
    <3>1. Site!KeyOf(PathAt(r)) # k
      BY <2>2, RepoKeys DEF p
    <3>2. PathAt(r) # p
      BY <3>1
    <3>3. PathAt(r) \in Site!PathsOf(w)
      BY <1>4, <1>6, <3>2
    <3>4. Site!KeyOf(PathAt(r)) \in DOMAIN w.leaves /\ Inherited(f, r, w.leaves[Site!KeyOf(PathAt(r))])
      BY <3>3 DEF Flattened
    <3>5. QED
      BY <1>3, <1>5, <3>1, <3>4
  <2>3. QED
    BY <2>1, <2>2
<1>7. DOMAIN x.leaves = {Site!KeyOf(y) : y \in Site!PathsOf(x)}
  BY <1>3, <1>4, <1>5 DEF Flattened
<1>8. Site!PathsOf(x) \subseteq Site!TreePaths(f) /\ x.paths \in Seq(PathSet)
  BY <1>1, <1>2, <1>4, <1>5 DEF Flattened
<1>9. Flattened(f, x)
  BY <1>6, <1>7, <1>8 DEF Flattened
<1>10. QED
  BY <1>4, <1>9 DEF x, p, leaves, paths

\* A level is parsed: it inherits from the level above, and the repositories below it
\* are left to the new call.
LEMMA LevelParsed ==
    ASSUME NEW f \in DOMAIN Saved, dir[di] = f, Parsing(f), NEW level, Site!ParseLevel(level)
    PROVE  Parsing(f)'
<1> DEFINE top == frames[1]
           d == Len(top.at)
           at == Append(top.at, level)
           m == Site!Inherit(Saved[f][at], top.m)
           path == Site!Named(top.path, d, level)
           a == [at |-> at, m |-> m, left |-> Site!Levels(Saved[f], at), path |-> path]
           b == [top EXCEPT !.left = @ \ {level}, !.path = path]
<1>1. /\ frames # <<>> /\ level \in top.left /\ d <= 3
      /\ v' = IF d = 3
              THEN [leaves |-> Site!Put(v.leaves, Site!KeyOf(path), m), paths |-> Append(v.paths, path)]
              ELSE v
      /\ frames' = <<a, b>> \o Tail(frames)
  BY DEF Site!ParseLevel, Site!Top, Site!Repo
<1>2. frames \in Seq(Frame) /\ Len(frames) \in Nat /\ 1 \in 1 .. Len(frames) /\ top \in Frame
  <2>1. frames \in Seq(Frame)
    BY DEF Parsing
  <2>2. Len(frames) \in Nat \ {0}
    BY <1>1, <2>1, EmptySeq
  <2>3. 1 \in 1 .. Len(frames)
    BY <2>2
  <2>4. QED
    BY <2>1, <2>2, <2>3
<1>3. FrameFits(f, top)
  BY <1>2 DEF Parsing
<1> HIDE DEF top
<1>4. /\ top.at \in DOMAIN Saved[f] /\ top.at \in Seq(LevelName) /\ d \in Nat
      /\ Inherited(f, top.at, top.m) /\ Fits(top.path, top.at)
      /\ at \in DOMAIN Saved[f] /\ level \in LevelName
  <2>1. top.at \in DOMAIN Saved[f] /\ level \in Site!Levels(Saved[f], top.at)
    BY <1>1, <1>3 DEF FrameFits
  <2>2. QED
    BY <1>3, <2>1, LevelsBelow, TreeTypes DEF FrameFits
<1>5. /\ Len(at) = d + 1 /\ at[d + 1] = level /\ \A i \in 1 .. d : at[i] = top.at[i]
  BY <1>4, Appended
<1>6. Inherited(f, at, m) /\ m \in MatrixSet
  BY <1>4, InheritedLevel
<1>7. Fits(path, top.at) /\ Fits(path, at)
  BY <1>1, <1>4, NamedFits
<1> HIDE DEF m, path
<1>8. a \in Frame /\ FrameFits(f, a)
  <2>1. Len(at) <= 4
    BY <1>1, <1>4, <1>5
  <2> HIDE DEF at
  <2>2. QED
    BY <1>4, <1>6, <1>7, <2>1, NewFrame
<1>9. b \in Frame /\ b.at = top.at /\ b.left = top.left \ {level} /\ FrameFits(f, b)
  <2>1. top = [at |-> top.at, m |-> top.m, left |-> top.left, path |-> top.path]
    BY <1>2 DEF Frame
  <2>2. path \in PathSet
    BY <1>7 DEF Fits
  <2>3. b.at = top.at /\ b.m = top.m /\ b.left = top.left \ {level} /\ b.path = path
    BY <2>1
  <2>4. b \in Frame
    BY <1>2, <2>1, <2>2 DEF Frame
  <2> HIDE DEF b
  <2>5. FrameFits(f, b)
    BY <1>3, <1>7, <2>3 DEF FrameFits
  <2>6. QED
    BY <2>3, <2>4, <2>5
<1>10. a.at = at /\ a.left = Site!Levels(Saved[f], at)
  OBVIOUS
<1> HIDE DEF a, b, at
<1>11. /\ frames' \in Seq(Frame) /\ Len(frames') = Len(frames) + 1
       /\ frames'[1] = a /\ frames'[2] = b
       /\ \A i \in 2 .. Len(frames) : frames'[i + 1] = frames[i]
  BY <1>1, <1>2, <1>8, <1>9, Pushed
<1>12. ASSUME NEW i \in 1 .. Len(frames') PROVE FrameFits(f, frames'[i])
  <2>1. i = 1 \/ i = 2 \/ (i - 1 \in 2 .. Len(frames) /\ i = (i - 1) + 1)
    BY <1>2, <1>11
  <2>2. CASE i - 1 \in 2 .. Len(frames) /\ i = (i - 1) + 1
    <3>1. frames'[i] = frames[i - 1] /\ i - 1 \in 1 .. Len(frames)
      BY <1>2, <1>11, <2>2
    <3>2. QED
      BY <3>1 DEF Parsing
  <2>3. QED
    BY <1>8, <1>9, <1>11, <2>1, <2>2
<1>13. ASSUME d = 3 PROVE at \in RepoPositions(f) /\ PathAt(at) = path
  <2>1. Len(at) = 4
    BY <1>5, <1>13
  <2>2. path = [testsuite |-> at[1], branch |-> at[2], trigger |-> at[3], repo |-> at[4]]
    BY <1>7, <2>1 DEF Fits, PathSet
  <2>3. QED
    BY <1>4, <2>1, <2>2 DEF RepoPositions, PathAt
<1>14. /\ Flattened(f, v') /\ Site!PathsOf(v) \subseteq Site!PathsOf(v')
       /\ d = 3 => path \in Site!PathsOf(v')
  <2>1. CASE d = 3
    <3>1. v' = [leaves |-> Site!Put(v.leaves, Site!KeyOf(PathAt(at)), m), paths |-> Append(v.paths, PathAt(at))]
      BY <1>1, <1>13, <2>1
    <3>2. Flattened(f, v') /\ Site!PathsOf(v') = Site!PathsOf(v) \union {PathAt(at)}
      <4>1. Flattened(f, v) /\ at \in RepoPositions(f)
        BY <1>13, <2>1 DEF Parsing
      <4> DEFINE x == [leaves |-> Site!Put(v.leaves, Site!KeyOf(PathAt(at)), m), paths |-> Append(v.paths, PathAt(at))]
      <4>2. Flattened(f, x) /\ Site!PathsOf(x) = Site!PathsOf(v) \union {PathAt(at)}
        BY <1>6, <4>1, FlattenedMore
      <4>3. v' = x
        BY <3>1
      <4> HIDE DEF x
      <4>4. QED
        BY <4>2, <4>3
    <3>3. QED
      BY <1>13, <2>1, <3>2
  <2>2. CASE d # 3
    BY <1>1, <2>2 DEF Parsing
  <2>3. QED
    BY <2>1, <2>2
<1>15. ASSUME NEW q \in RepoPositions(f)
       PROVE  PathAt(q) \in Site!PathsOf(v') \/ \E i \in 1 .. Len(frames') : Pending(frames'[i], q)
  <2>0. q \in DOMAIN Saved[f] /\ q \in Seq(LevelName) /\ Len(q) = 4
    BY TreeTypes DEF RepoPositions
  <2>1. CASE PathAt(q) \in Site!PathsOf(v)
    BY <1>14, <2>1
  <2>2. ASSUME NEW i \in 1 .. Len(frames), Pending(frames[i], q), i # 1
        PROVE  \E j \in 1 .. Len(frames') : Pending(frames'[j], q)
    <3>1. i + 1 \in 1 .. Len(frames') /\ frames'[i + 1] = frames[i]
      BY <1>2, <1>11, <2>2
    <3>2. QED
      BY <2>2, <3>1
  <2>3. ASSUME Pending(top, q)
        PROVE  PathAt(q) \in Site!PathsOf(v') \/ \E j \in 1 .. Len(frames') : Pending(frames'[j], q)
    <3>1. d < 4 /\ SubSeq(q, 1, d) = top.at /\ q[d + 1] \in top.left
      BY <2>3 DEF Pending
    <3>2. 1 \in 1 .. Len(frames') /\ 2 \in 1 .. Len(frames')
      BY <1>2, <1>11
    <3>3. CASE q[d + 1] # level
      <4>1. Pending(b, q)
        BY <1>9, <3>1, <3>3 DEF Pending
      <4>2. QED
        BY <1>11, <3>2, <4>1
    <3>4. CASE q[d + 1] = level
      <4>1. SubSeq(q, 1, d + 1) = at
        <5> DEFINE r == SubSeq(q, 1, d + 1)
        <5>1. d + 1 \in 0 .. Len(q) /\ d \in 0 .. Len(q)
          <6>1. d \in Nat /\ d < 4 /\ Len(q) = 4
            BY <1>4, <2>0, <3>1
          <6> HIDE DEF d
          <6>2. QED
            BY <6>1
        <5>2. r \in Seq(LevelName) /\ Len(r) = d + 1 /\ \A i \in 1 .. d + 1 : r[i] = q[i]
          BY <2>0, <5>1, Prefixes
        <5>3. \A i \in 1 .. d : SubSeq(q, 1, d)[i] = q[i]
          BY <2>0, <5>1, Prefixes
        <5> HIDE DEF r
        <5>4. at \in Seq(LevelName)
          BY <1>4, TreeTypes
        <5>5. ASSUME NEW i \in 1 .. d + 1 PROVE r[i] = at[i]
          <6>1. i \in 1 .. d \/ i = d + 1
            BY <1>4
          <6>2. QED
            BY <1>5, <3>1, <3>4, <5>2, <5>3, <6>1
        <5>6. r = at
          BY <1>5, <5>2, <5>4, <5>5, SeqEqual
        <5>7. QED
          BY <5>6 DEF r
      <4>2. CASE d = 3
        <5>1. q = at
          <6>1. SubSeq(q, 1, Len(q)) = q
            BY <2>0, SubSeqFull
          <6>2. QED
            BY <2>0, <4>1, <4>2, <6>1
        <5>2. QED
          BY <1>13, <1>14, <4>2, <5>1
      <4>3. CASE d # 3
        <5>1. d + 1 \in 0 .. Len(q) /\ d + 1 # Len(q) /\ d + 1 < 4
          <6>1. d \in Nat /\ d <= 3 /\ Len(q) = 4
            BY <1>1, <1>4, <2>0
          <6> HIDE DEF d
          <6>2. QED
            BY <4>3, <6>1
        <5>2. q[(d + 1) + 1] \in Site!Levels(Saved[f], SubSeq(q, 1, d + 1))
          BY <2>0, <5>1, NextLevel
        <5>3. Pending(a, q)
          BY <1>5, <1>10, <4>1, <5>1, <5>2 DEF Pending
        <5>4. QED
          BY <1>11, <3>2, <5>3
      <4>4. QED
        BY <4>2, <4>3
    <3>5. QED
      BY <3>3, <3>4
  <2>4. QED
    BY <2>1, <2>2, <2>3 DEF Parsing, top
<1>16. QED
  BY <1>11, <1>12, <1>14, <1>15 DEF Parsing

\* All of the tree is in w.
Complete(f, w) == Flattened(f, w) /\ Site!PathsOf(w) = Site!TreePaths(f)

Publishing == sitePc \in {"files", "paths", "assets", "ok"}

\* The files before di are loaded, and nothing is published before all are.
FilesLoaded ==
    /\ dir \in Dirs /\ di \in Nat \ {0}
    /\ DOMAIN av \subseteq Site!YamlFiles
    /\ \A f \in DOMAIN av : Complete(f, av[f])
    /\ sitePc \in {"load", "parse"} =>
          \A i \in 1 .. Len(dir) : i < di /\ Site!IsYaml(dir[i]) => dir[i] \in DOMAIN av
    /\ sitePc = "parse" => di <= Len(dir) /\ Site!IsYaml(dir[di]) /\ Parsing(dir[di])
    /\ Publishing => DOMAIN av = Site!YamlFiles

LEMMA YamlSaved == ASSUME dir \in Dirs, NEW f \in Site!YamlFiles PROVE f \in DOMAIN Saved
BY SiteTyped DEF Site!YamlFiles, Site!IsYaml


LEMMA FilesLoadedInit == ASSUME Site!Init PROVE FilesLoaded
<1>1. dir \in Dirs /\ di = 1 /\ av = <<>> /\ sitePc = "load"
  BY DEF Site!Init
<1>2. DOMAIN av = {}
  BY <1>1
<1>3. QED
  BY <1>1, <1>2, SiteTyped DEF FilesLoaded, Publishing

LEMMA FilesLoadedSkip == ASSUME FilesLoaded, Site!SkipFile PROVE FilesLoaded'
<1>1. /\ di' = di + 1 /\ dir' = dir /\ av' = av /\ sitePc = "load" /\ sitePc' = "load"
      /\ ~Site!IsYaml(dir[di])
  BY DEF Site!SkipFile
<1>2. Site!YamlFiles' = Site!YamlFiles
  BY <1>1 DEF Site!YamlFiles
<1>3. \A i \in 1 .. Len(dir) : i < di + 1 /\ Site!IsYaml(dir[i]) => i < di
  BY <1>1, SiteTyped DEF FilesLoaded
<1>4. \A i \in 1 .. Len(dir') : i < di' /\ Site!IsYaml(dir'[i]) => dir'[i] \in DOMAIN av'
  BY <1>1, <1>3 DEF FilesLoaded
<1>5. QED
  BY <1>1, <1>2, <1>4 DEF FilesLoaded, Publishing

LEMMA FilesLoadedParse ==
    ASSUME FilesLoaded, Site!LoadFile \/ Site!ParseReturn \/ \E level : Site!ParseLevel(level)
    PROVE  FilesLoaded'
<1>1. /\ dir' = dir /\ di' = di /\ av' = av /\ sitePc \in {"load", "parse"} /\ sitePc' = "parse"
      /\ di <= Len(dir) /\ Site!IsYaml(dir[di])
  BY DEF Site!LoadFile, Site!ParseReturn, Site!ParseLevel, FilesLoaded
<1>2. Site!YamlFiles' = Site!YamlFiles
  BY <1>1 DEF Site!YamlFiles
<1>3. PICK f : f = dir[di]
  OBVIOUS
<1>4. f \in DOMAIN Saved
  <2>1. di \in 1 .. Len(dir)
    BY <1>1, SiteTyped DEF FilesLoaded
  <2>2. f \in Site!YamlFiles
    BY <1>1, <1>3, <2>1 DEF Site!YamlFiles
  <2>3. QED
    BY <2>2, YamlSaved DEF FilesLoaded
<1>5. Parsing(f)'
  <2>1. CASE Site!LoadFile
    BY <1>3, <1>4, <2>1, RootParsed
  <2>2. CASE Site!ParseReturn
    <3>1. Parsing(f)
      BY <1>3, <2>2 DEF FilesLoaded, Site!ParseReturn
    <3>2. QED
      BY <1>4, <2>2, <3>1, CallReturned
  <2>3. ASSUME NEW level, Site!ParseLevel(level) PROVE Parsing(f)'
    <3>1. Parsing(f)
      BY <1>3, <2>3 DEF FilesLoaded, Site!ParseLevel
    <3>2. QED
      BY <1>3, <1>4, <2>3, <3>1, LevelParsed
  <2>4. QED
    BY <2>1, <2>2, <2>3
<1>6. Parsing(dir[di])'
  <2>1. f = (dir[di])'
    BY <1>1, <1>3
  <2>2. QED
    BY <1>5, <2>1 DEF Parsing
<1>7. QED
  BY <1>1, <1>2, <1>6 DEF FilesLoaded, Publishing

\* Without calls left every repository of the tree has been flattened.
LEMMA FilesLoadedEndFile == ASSUME FilesLoaded, Site!EndFile PROVE FilesLoaded'
<1> DEFINE f == dir[di]
<1>1. /\ dir' = dir /\ di' = di + 1 /\ av' = Site!Put(av, f, v) /\ sitePc = "parse" /\ sitePc' = "load"
      /\ frames = <<>> /\ di <= Len(dir) /\ Site!IsYaml(f) /\ Parsing(f)
  BY DEF Site!EndFile, FilesLoaded
<1>2. Site!YamlFiles' = Site!YamlFiles
  BY <1>1 DEF Site!YamlFiles
<1>3. Len(dir) \in Nat /\ di \in 1 .. Len(dir)
  BY <1>1, SiteTyped DEF FilesLoaded
<1>4. f \in Site!YamlFiles /\ f \in DOMAIN Saved
  <2>1. f \in Site!YamlFiles
    BY <1>1, <1>3 DEF Site!YamlFiles
  <2>2. QED
    BY <2>1, YamlSaved DEF FilesLoaded
<1> HIDE DEF f
<1>5. Complete(f, v)
  <2>1. \A i \in 1 .. Len(frames) : FALSE
    BY <1>1
  <2>2. \A q \in RepoPositions(f) : PathAt(q) \in Site!PathsOf(v)
    BY <1>1, <2>1 DEF Parsing
  <2>3. Site!TreePaths(f) \subseteq Site!PathsOf(v)
    BY <1>4, <2>2, RepoKeys
  <2>4. Flattened(f, v)
    BY <1>1 DEF Parsing
  <2>5. QED
    BY <2>3, <2>4 DEF Complete, Flattened
<1>6. /\ DOMAIN av' = DOMAIN av \union {f} /\ av'[f] = v
      /\ \A g \in DOMAIN av : g # f => av'[g] = av[g]
  <2> DEFINE w == Site!Put(av, f, v)
  <2>1. /\ DOMAIN w = DOMAIN av \union {f} /\ w[f] = v
        /\ \A g \in DOMAIN av : g # f => w[g] = av[g]
    BY DEF Site!Put
  <2>2. av' = w
    BY <1>1
  <2> HIDE DEF w
  <2>3. QED
    BY <2>1, <2>2
<1>7. \A g \in DOMAIN av' : Complete(g, av'[g])
  <2>1. ASSUME NEW g \in DOMAIN av' PROVE Complete(g, av'[g])
    <3>1. CASE g = f
      BY <1>5, <1>6, <3>1
    <3>2. CASE g # f
      <4>1. g \in DOMAIN av /\ av'[g] = av[g]
        BY <1>6, <3>2
      <4>2. QED
        BY <4>1 DEF FilesLoaded
    <3>3. QED
      BY <3>1, <3>2
  <2>2. QED
    BY <2>1
<1>8. \A i \in 1 .. Len(dir') : i < di' /\ Site!IsYaml(dir'[i]) => dir'[i] \in DOMAIN av'
  <2>1. \A i \in 1 .. Len(dir) : i < di + 1 => i < di \/ i = di
    BY <1>3
  <2>2. \A i \in 1 .. Len(dir) : i < di /\ Site!IsYaml(dir[i]) => dir[i] \in DOMAIN av
    BY <1>1 DEF FilesLoaded
  <2>3. QED
    BY <1>1, <1>6, <2>1, <2>2 DEF f
<1>9. DOMAIN av' \subseteq Site!YamlFiles'
  BY <1>2, <1>4, <1>6 DEF FilesLoaded
<1>10. dir' \in Dirs /\ di' \in Nat \ {0}
  BY <1>1 DEF FilesLoaded
<1>11. QED
  BY <1>1, <1>7, <1>8, <1>9, <1>10 DEF FilesLoaded, Publishing

LEMMA FilesLoadedEnd ==
    ASSUME FilesLoaded, Site!EndLoad \/ Site!LoadFails
    PROVE  FilesLoaded'
<1>1. /\ dir' = dir /\ di' = di /\ av' = av
      /\ sitePc' = "error" \/ (sitePc' = "files" /\ sitePc = "load" /\ di > Len(dir))
  BY DEF Site!EndLoad, Site!LoadFails
<1>2. Site!YamlFiles' = Site!YamlFiles
  BY <1>1 DEF Site!YamlFiles
<1>3. ASSUME sitePc' = "files" PROVE DOMAIN av = Site!YamlFiles
  <2>1. \A i \in 1 .. Len(dir) : i < di
    BY <1>1, <1>3, SiteTyped DEF FilesLoaded
  <2>2. \A i \in 1 .. Len(dir) : Site!IsYaml(dir[i]) => dir[i] \in DOMAIN av
    BY <1>1, <1>3, <2>1 DEF FilesLoaded
  <2>3. Site!YamlFiles \subseteq DOMAIN av
    BY <2>2 DEF Site!YamlFiles
  <2>4. QED
    BY <2>3 DEF FilesLoaded
<1>4. QED
  BY <1>1, <1>2, <1>3 DEF FilesLoaded, Publishing

LEMMA FilesLoadedPublish ==
    ASSUME FilesLoaded, Publishing, Publishing' \/ sitePc' = "error", UNCHANGED <<dir, di, av>>
    PROVE  FilesLoaded'
<1>1. Site!YamlFiles' = Site!YamlFiles
  BY DEF Site!YamlFiles
<1>2. QED
  BY <1>1 DEF FilesLoaded, Publishing

LEMMA FilesLoadedStutter ==
    ASSUME FilesLoaded, UNCHANGED siteVars
    PROVE  FilesLoaded'
<1>1. UNCHANGED <<dir, di, av, sitePc, frames, v>> /\ Site!YamlFiles' = Site!YamlFiles
  BY DEF siteVars, Site!YamlFiles
<1>2. Parsing(dir[di])' <=> Parsing(dir[di])
  BY <1>1 DEF Parsing
<1>3. QED
  BY <1>1, <1>2 DEF FilesLoaded, Publishing

Prod == [stem |-> ProdStem, s |-> 0]
Looked(f, p) == Site!Lookup(av[f], p.repo, p.branch, p.trigger, p.testsuite)

\* A page belongs to a file and one of its paths, and holds what is found for it.
PagesRight ==
    /\ \A a \in DOMAIN site : a[1] = "gho" =>
          \E f \in DOMAIN av : \E p \in Site!TreePaths(f) :
              a = <<"gho", Site!Tsv(f), p>> /\ site[a] = Looked(f, p)
    /\ \A a \in DOMAIN site : a[1] = "legacy" =>
          \E f \in DOMAIN av : \E p \in Site!TreePaths(f) : a = <<"legacy", p>> /\ Site!Tsv(f) = Prod

\* The pages of the files that were taken are there, of the current file those up to pi.
Due(f, p) ==
    /\ sitePc \in {"files", "paths"} => f \notin filesTodo
    /\ sitePc = "paths" /\ f = cur => \E i \in 1 .. Len(av[f].paths) : i < pi /\ av[f].paths[i] = p

Published(f, p) ==
    /\ <<"gho", Site!Tsv(f), p>> \in DOMAIN site
    /\ Site!Tsv(f) = Prod => <<"legacy", p>> \in DOMAIN site

InProgress ==
    /\ sitePc \in {"load", "parse"} => site = <<>>
    /\ sitePc \in {"files", "paths"} => filesTodo \subseteq DOMAIN av
    /\ sitePc = "paths" => cur \in DOMAIN av /\ pi \in Nat \ {0}
    /\ Publishing => \A f \in DOMAIN av : \A p \in Site!TreePaths(f) : Due(f, p) => Published(f, p)

IndexLast ==
    <<"index">> \in DOMAIN site => sitePc \in {"assets", "ok", "error"} /\ Site!IndexMatchesPages

\* Two files of the directory have pages of their own.
LEMMA FilesApart ==
    ASSUME FilesLoaded, NEW f \in Site!YamlFiles, NEW g \in Site!YamlFiles, Site!Tsv(f) = Site!Tsv(g)
    PROVE  f = g
<1>1. PICK i \in 1 .. Len(dir) : dir[i] = f /\ dir[i].ext \in {"yaml", "yml"}
  BY DEF Site!YamlFiles, Site!IsYaml
<1>2. PICK j \in 1 .. Len(dir) : dir[j] = g /\ dir[j].ext \in {"yaml", "yml"}
  BY DEF Site!YamlFiles, Site!IsYaml
<1>3. dir \in Dirs
  BY DEF FilesLoaded
<1>4. QED
  BY <1>1, <1>2, <1>3, SiteApart

LEMMA PageHolds ==
    ASSUME FilesLoaded, PagesRight, NEW f \in DOMAIN av, NEW p,
           <<"gho", Site!Tsv(f), p>> \in DOMAIN site
    PROVE  site[<<"gho", Site!Tsv(f), p>>] = Looked(f, p) /\ p \in Site!TreePaths(f)
<1> DEFINE a == <<"gho", Site!Tsv(f), p>>
<1>1. a[1] = "gho" /\ a[2] = Site!Tsv(f) /\ a[3] = p
  OBVIOUS
<1>0. PICK g \in DOMAIN av :
        \E q \in Site!TreePaths(g) : a = <<"gho", Site!Tsv(g), q>> /\ site[a] = Looked(g, q)
  BY <1>1 DEF PagesRight
<1>2. PICK q \in Site!TreePaths(g) : a = <<"gho", Site!Tsv(g), q>> /\ site[a] = Looked(g, q)
  BY <1>0
<1>3. Site!Tsv(f) = Site!Tsv(g) /\ p = q
  BY <1>2
<1>4. f = g
  BY <1>3, FilesApart DEF FilesLoaded
<1>5. QED
  BY <1>2, <1>3, <1>4

\* What is found for a repository of the tree is what it inherits.
LEMMA LookedInherits ==
    ASSUME FilesLoaded, NEW f \in DOMAIN av, NEW q \in RepoPositions(f)
    PROVE  Inherited(f, q, Looked(f, PathAt(q))) /\ PathAt(q) \in Site!TreePaths(f) /\ f \in DOMAIN Saved
<1>1. f \in DOMAIN Saved
  BY YamlSaved DEF FilesLoaded
<1>2. PathAt(q) \in Site!TreePaths(f)
  BY <1>1, RepoKeys
<1>3. Flattened(f, av[f]) /\ PathAt(q) \in Site!PathsOf(av[f])
  BY <1>2 DEF FilesLoaded, Complete
<1>4. Site!KeyOf(PathAt(q)) \in DOMAIN av[f].leaves /\ Inherited(f, q, av[f].leaves[Site!KeyOf(PathAt(q))])
  BY <1>3 DEF Flattened
<1>5. Looked(f, PathAt(q)) = av[f].leaves[Site!KeyOf(PathAt(q))]
  BY <1>4 DEF Looked, Site!Lookup, Site!KeyOf
<1>6. QED
  BY <1>1, <1>2, <1>4, <1>5

\* The places of the first n pages of a path.
PlacesOf(path, n) == {Site!Pages(path)[i] : i \in 1 .. n}

LEMMA PlacesOfPages ==
    ASSUME NEW path, NEW n \in 0 .. Len(Site!Pages(path))
    PROVE  LET places == PlacesOf(path, n) IN
           /\ \A a \in places : a[1] \in {"gho", "field", "legacy"}
           /\ \A a \in places : a[1] = "gho" => a = <<"gho", Site!Tsv(cur), path>>
           /\ \A a \in places : a[1] = "legacy" => a = <<"legacy", path>> /\ Site!Tsv(cur) = Prod
           /\ n = Len(Site!Pages(path)) => /\ <<"gho", Site!Tsv(cur), path>> \in places
                                           /\ Site!Tsv(cur) = Prod => <<"legacy", path>> \in places
<1> DEFINE g == <<"gho", Site!Tsv(cur), path>>
           x == <<"field", Site!Tsv(cur), path>>
           l == <<"legacy", path>>
           s == Site!Pages(path)
           places == PlacesOf(path, n)
<1>1. g[1] = "gho" /\ x[1] = "field" /\ l[1] = "legacy"
  OBVIOUS
<1>2. CASE Site!Tsv(cur) = Prod
  <2>1. s = <<g, x>> \o <<l>>
    BY <1>2 DEF Site!Pages, Prod
  <2> HIDE DEF s, g, x, l
  <2>2. Len(s) = 3 /\ s[1] = g /\ s[2] = x /\ s[3] = l
    BY <2>1
  <2>3. \A i \in 1 .. n : i = 1 \/ i = 2 \/ i = 3
    BY <2>2 DEF s
  <2>4. \A a \in places : a = g \/ a = x \/ a = l
    BY <2>2, <2>3 DEF s, PlacesOf
  <2>5. n = 3 => g \in places /\ l \in places
    BY <2>2 DEF s, PlacesOf
  <2>6. QED
    BY <1>1, <1>2, <2>2, <2>4, <2>5 DEF s, g, l
<1>3. CASE Site!Tsv(cur) # Prod
  <2>1. s = <<g, x>> \o <<>>
    BY <1>3 DEF Site!Pages, Prod
  <2> HIDE DEF s, g, x, l
  <2>2. Len(s) = 2 /\ s[1] = g /\ s[2] = x
    BY <2>1
  <2>3. \A i \in 1 .. n : i = 1 \/ i = 2
    BY <2>2 DEF s
  <2>4. \A a \in places : a = g \/ a = x
    BY <2>2, <2>3 DEF s, PlacesOf
  <2>5. n = 2 => g \in places
    BY <2>2 DEF s, PlacesOf
  <2>6. QED
    BY <1>1, <1>3, <2>2, <2>4, <2>5 DEF s, g
<1>4. QED
  BY <1>2, <1>3

\* More places are written, others are lost.
LEMMA PagesRightMore ==
    ASSUME PagesRight, av' = av, NEW P,
           DOMAIN site' \subseteq DOMAIN site \union P, \A a \in DOMAIN site' : a \notin P => site'[a] = site[a],
           \A a \in P \intersect DOMAIN site' : a[1] = "gho" =>
               \E f \in DOMAIN av : \E p \in Site!TreePaths(f) :
                   a = <<"gho", Site!Tsv(f), p>> /\ site'[a] = Looked(f, p),
           \A a \in P : a[1] = "legacy" =>
               \E f \in DOMAIN av : \E p \in Site!TreePaths(f) : a = <<"legacy", p>> /\ Site!Tsv(f) = Prod
    PROVE  PagesRight'
<1>1. \A f, p : Looked(f, p)' = Looked(f, p)
  BY DEF Looked
<1>2. ASSUME NEW a \in DOMAIN site', a[1] = "gho"
      PROVE  \E f \in DOMAIN av : \E p \in Site!TreePaths(f) :
                 a = <<"gho", Site!Tsv(f), p>> /\ site'[a] = Looked(f, p)
  <2>1. CASE a \in P
    BY <1>2, <2>1
  <2>2. CASE a \notin P
    <3>1. a \in DOMAIN site /\ site'[a] = site[a]
      BY <2>2
    <3>2. QED
      BY <1>2, <3>1 DEF PagesRight
  <2>3. QED
    BY <2>1, <2>2
<1>3. ASSUME NEW a \in DOMAIN site', a[1] = "legacy"
      PROVE  \E f \in DOMAIN av : \E p \in Site!TreePaths(f) : a = <<"legacy", p>> /\ Site!Tsv(f) = Prod
  BY <1>3 DEF PagesRight
<1>4. QED
  BY <1>1, <1>2, <1>3 DEF PagesRight

OutInv == PagesRight /\ InProgress /\ IndexLast

\* Nothing is written before all files are loaded.
LEMMA OutLoading ==
    ASSUME site' = <<>>,
           sitePc' \in {"load", "parse", "error"} \/ (sitePc' = "files" /\ filesTodo' = DOMAIN av')
    PROVE  OutInv'
<1>1. DOMAIN site' = {}
  OBVIOUS
<1>2. PagesRight' /\ IndexLast'
  BY <1>1 DEF PagesRight, IndexLast
<1>3. InProgress'
  BY DEF InProgress, Publishing, Due
<1>4. QED
  BY <1>2, <1>3 DEF OutInv

\* A place that is none of a page.
LEMMA OutElsewhere ==
    ASSUME PagesRight, av' = av, NEW w, w[1] \notin {"gho", "legacy"}, NEW x, site' = Site!Put(site, w, x)
    PROVE  /\ PagesRight' /\ DOMAIN site' = DOMAIN site \union {w} /\ site'[w] = x
           /\ \A a \in DOMAIN site : a # w => site'[a] = site[a]
           /\ \A f, p : Published(f, p) => Published(f, p)'
<1> DEFINE s == Site!Put(site, w, x)
<1>1. /\ DOMAIN s = DOMAIN site \union {w} /\ s[w] = x
      /\ \A a \in DOMAIN site : a # w => s[a] = site[a]
  BY DEF Site!Put
<1>2. site' = s
  OBVIOUS
<1> HIDE DEF s
<1>3. /\ DOMAIN site' = DOMAIN site \union {w} /\ site'[w] = x
      /\ \A a \in DOMAIN site : a # w => site'[a] = site[a]
  BY <1>1, <1>2
<1>4. PagesRight'
  <2> DEFINE P == {w}
  <2>1. /\ DOMAIN site' \subseteq DOMAIN site \union P
        /\ \A a \in DOMAIN site' : a \notin P => site'[a] = site[a]
        /\ \A a \in P : a[1] # "gho" /\ a[1] # "legacy"
    BY <1>3
  <2> HIDE DEF P
  <2>2. QED
    BY <2>1, PagesRightMore
<1>5. QED
  BY <1>3, <1>4 DEF Published

LEMMA OutDump ==
    ASSUME FilesLoaded, OutInv, NEW f \in filesTodo, Site!DumpFile(f)
    PROVE  OutInv'
<1> DEFINE w == <<"dump", Site!Tsv(f)>>
<1>1. /\ sitePc = "files" /\ sitePc' = "paths" /\ filesTodo' = filesTodo \ {f} /\ cur' = f /\ pi' = 1
      /\ av' = av /\ site' = Site!Put(site, w, av[f])
  BY DEF Site!DumpFile
<1>2. w[1] \notin {"gho", "legacy"} /\ w # <<"index">>
  OBVIOUS
<1> HIDE DEF w
<1>3. /\ PagesRight' /\ DOMAIN site' = DOMAIN site \union {w}
      /\ \A g, p : Published(g, p) => Published(g, p)'
  BY <1>1, <1>2, OutElsewhere DEF OutInv
<1>4. IndexLast'
  BY <1>1, <1>2, <1>3 DEF OutInv, IndexLast
<1>5. filesTodo \subseteq DOMAIN av
  BY <1>1 DEF OutInv, InProgress
<1>6. ASSUME NEW g \in DOMAIN av, NEW p \in Site!TreePaths(g), Due(g, p)' PROVE Published(g, p)'
  <2>1. g \notin filesTodo /\ g # f
    <3>1. g \notin filesTodo \ {f} /\ (g = f => \E i \in 1 .. Len(av[g].paths) : i < 1)
      BY <1>1, <1>6 DEF Due
    <3>2. \A i \in 1 .. Len(av[g].paths) : ~(i < 1)
      OBVIOUS
    <3>3. QED
      BY <3>1, <3>2
  <2>2. Due(g, p)
    BY <1>1, <2>1 DEF Due
  <2>3. Published(g, p)
    BY <1>1, <2>2 DEF OutInv, InProgress, Publishing
  <2>4. QED
    BY <1>3, <2>3
<1>7. InProgress'
  <2>1. cur' \in DOMAIN av' /\ pi' \in Nat \ {0} /\ filesTodo' \subseteq DOMAIN av'
    BY <1>1, <1>5
  <2>2. QED
    BY <1>1, <1>6, <2>1 DEF InProgress
<1>8. QED
  BY <1>3, <1>4, <1>7 DEF OutInv

\* o without the places at cut.
Kept(o, cut) == [a \in DOMAIN o \ cut |-> o[a]]

\* The first n pages of the next path are written, and those at cut are not kept.
LEMMA OutPages ==
    ASSUME FilesLoaded, OutInv, sitePc = "paths", pi <= Len(av[cur].paths), av' = av, cur' = cur,
           NEW path, path = av[cur].paths[pi],
           NEW n \in 0 .. Len(Site!Pages(path)), NEW cut, site' = Kept(Site!Written(path, n), cut)
    PROVE  /\ PagesRight' /\ <<"index">> \notin DOMAIN site'
           /\ cut = {} => \A f, p : Published(f, p) => Published(f, p)'
           /\ cut = {} /\ n = Len(Site!Pages(path)) => Published(cur, path)'
<1> DEFINE places == PlacesOf(path, n)
           m == Looked(cur, path)
           o == Site!Written(path, n)
<1>1. o = [a \in DOMAIN site \union places |-> IF a \in places THEN m ELSE site[a]]
  BY DEF Site!Written, Looked, PlacesOf
<1>2. /\ \A a \in places : a[1] \in {"gho", "field", "legacy"}
      /\ \A a \in places : a[1] = "gho" => a = <<"gho", Site!Tsv(cur), path>>
      /\ \A a \in places : a[1] = "legacy" => a = <<"legacy", path>> /\ Site!Tsv(cur) = Prod
      /\ n = Len(Site!Pages(path)) => /\ <<"gho", Site!Tsv(cur), path>> \in places
                                      /\ Site!Tsv(cur) = Prod => <<"legacy", path>> \in places
  BY PlacesOfPages
<1> HIDE DEF places
<1>3. cur \in DOMAIN av /\ path \in Site!TreePaths(cur)
  <2>1. cur \in DOMAIN av /\ pi \in Nat \ {0}
    BY DEF OutInv, InProgress
  <2>2. Len(av[cur].paths) \in Nat /\ Site!PathsOf(av[cur]) = Site!TreePaths(cur)
    BY <2>1 DEF FilesLoaded, Complete, Flattened
  <2>3. pi \in 1 .. Len(av[cur].paths)
    BY <2>1, <2>2
  <2>4. QED
    BY <2>1, <2>2, <2>3 DEF Site!PathsOf
<1> HIDE DEF m, o
<1>4. /\ DOMAIN site' = (DOMAIN site \union places) \ cut
      /\ \A a \in DOMAIN site' : a \notin places => site'[a] = site[a]
      /\ \A a \in DOMAIN site' : a \in places => site'[a] = m
  <2>1. /\ DOMAIN o = DOMAIN site \union places
        /\ \A a \in DOMAIN o : o[a] = IF a \in places THEN m ELSE site[a]
    BY <1>1
  <2>2. site' = [a \in DOMAIN o \ cut |-> o[a]]
    BY DEF o, Kept
  <2>3. DOMAIN site' = DOMAIN o \ cut /\ \A a \in DOMAIN site' : site'[a] = o[a]
    BY <2>2
  <2>4. QED
    BY <2>1, <2>3
<1>5. PagesRight'
  <2>1. \A a \in places \intersect DOMAIN site' : a[1] = "gho" =>
          \E f \in DOMAIN av : \E p \in Site!TreePaths(f) :
              a = <<"gho", Site!Tsv(f), p>> /\ site'[a] = Looked(f, p)
    BY <1>2, <1>3, <1>4 DEF m
  <2>2. \A a \in places : a[1] = "legacy" =>
          \E f \in DOMAIN av : \E p \in Site!TreePaths(f) : a = <<"legacy", p>> /\ Site!Tsv(f) = Prod
    BY <1>2, <1>3
  <2>3. QED
    BY <1>4, <2>1, <2>2, PagesRightMore DEF OutInv
<1>6. <<"index">> \notin DOMAIN site'
  <2>1. <<"index">> \notin DOMAIN site
    BY DEF OutInv, IndexLast
  <2>2. <<"index">>[1] = "index"
    OBVIOUS
  <2>3. <<"index">> \notin places
    BY <1>2, <2>2
  <2>4. QED
    BY <1>4, <2>1, <2>3
<1>7. cut = {} => \A f, p : Published(f, p) => Published(f, p)'
  BY <1>4 DEF Published
<1>8. cut = {} /\ n = Len(Site!Pages(path)) => Published(cur, path)'
  <2>1. SUFFICES ASSUME cut = {}, n = Len(Site!Pages(path))
                 PROVE  /\ <<"gho", Site!Tsv(cur), path>> \in DOMAIN site'
                        /\ Site!Tsv(cur) = Prod => <<"legacy", path>> \in DOMAIN site'
    BY DEF Published
  <2>2. QED
    BY <1>2, <1>4, <2>1
<1>9. QED
  BY <1>5, <1>6, <1>7, <1>8

LEMMA OutPath == ASSUME FilesLoaded, OutInv, Site!WritePath PROVE OutInv'
<1>1. PICK path : path = av[cur].paths[pi]
  OBVIOUS
<1>2. /\ sitePc = "paths" /\ sitePc' = "paths" /\ pi <= Len(av[cur].paths) /\ pi' = pi + 1
      /\ av' = av /\ cur' = cur /\ filesTodo' = filesTodo
      /\ site' = Site!Written(path, Len(Site!Pages(path)))
  BY <1>1 DEF Site!WritePath
<1>3. PICK n : n = Len(Site!Pages(path))
  OBVIOUS
<1>4. n \in 0 .. n
  <2>1. n = 2 \/ n = 3
    BY <1>3 DEF Site!Pages
  <2>2. QED
    BY <2>1
<1>5. /\ PagesRight' /\ <<"index">> \notin DOMAIN site'
      /\ \A f, p : Published(f, p) => Published(f, p)'
      /\ Published(cur, path)'
  <2> DEFINE o == Site!Written(path, n)
  <2>1. o = [a \in DOMAIN o |-> o[a]]
    BY DEF Site!Written
  <2>2. site' = o
    BY <1>2, <1>3
  <2>3. PICK cut : cut = {}
    OBVIOUS
  <2> HIDE DEF o
  <2>4. site' = [a \in DOMAIN o \ cut |-> o[a]]
    <3>1. DOMAIN o \ cut = DOMAIN o
      BY <2>3
    <3>2. QED
      BY <2>1, <2>2, <3>1
  <2>5. site' = Kept(Site!Written(path, n), cut)
    BY <2>4 DEF o, Kept
  <2> HIDE DEF o
  <2>6. n \in 0 .. Len(Site!Pages(path))
    BY <1>3, <1>4
  <2>7. /\ PagesRight' /\ <<"index">> \notin DOMAIN site'
        /\ cut = {} => \A f, p : Published(f, p) => Published(f, p)'
        /\ cut = {} /\ n = Len(Site!Pages(path)) => Published(cur, path)'
    <3>1. /\ FilesLoaded /\ OutInv /\ sitePc = "paths" /\ pi <= Len(av[cur].paths)
          /\ av' = av /\ cur' = cur /\ path = av[cur].paths[pi]
      BY <1>1, <1>2
    <3>2. QED
      BY <2>5, <2>6, <3>1, OutPages
  <2>8. QED
    BY <1>3, <2>3, <2>7
<1>6. cur \in DOMAIN av /\ pi \in Nat \ {0} /\ filesTodo \subseteq DOMAIN av
  BY <1>2 DEF OutInv, InProgress
<1>7. ASSUME NEW f \in DOMAIN av, NEW p \in Site!TreePaths(f), Due(f, p)' PROVE Published(f, p)'
  <2>1. f \notin filesTodo /\ (f = cur => \E i \in 1 .. Len(av[f].paths) : i < pi + 1 /\ av[f].paths[i] = p)
    BY <1>2, <1>7 DEF Due
  <2>2. CASE f = cur /\ p = path
    <3>1. Published(cur, path)' <=> Published(f, p)'
      BY <1>2, <2>2 DEF Published
    <3>2. QED
      BY <1>5, <3>1
  <2>3. CASE ~(f = cur /\ p = path)
    <3>1. f = cur => \E i \in 1 .. Len(av[f].paths) : i < pi /\ av[f].paths[i] = p
      BY <1>1, <1>6, <2>1, <2>3
    <3>2. Due(f, p)
      BY <1>2, <2>1, <3>1 DEF Due
    <3>3. Published(f, p)
      BY <1>2, <3>2 DEF OutInv, InProgress, Publishing
    <3>4. QED
      BY <1>5, <3>3
  <2>4. QED
    BY <2>2, <2>3
<1>8. InProgress'
  <2>1. cur' \in DOMAIN av' /\ pi' \in Nat \ {0} /\ filesTodo' \subseteq DOMAIN av'
    BY <1>2, <1>6
  <2>2. QED
    BY <1>2, <1>7, <2>1 DEF InProgress
<1>9. QED
  BY <1>5, <1>8 DEF OutInv, IndexLast

LEMMA OutPathFails == ASSUME FilesLoaded, OutInv, Site!WritePathFails PROVE OutInv'
<1>1. PICK path : path = av[cur].paths[pi]
  OBVIOUS
<1>2. /\ sitePc = "paths" /\ sitePc' = "error" /\ pi <= Len(av[cur].paths)
      /\ av' = av /\ cur' = cur
      /\ \E n \in 0 .. Len(Site!Pages(path)) - 1 : \E begun \in n .. Len(Site!Pages(path)) :
            Site!Breaks(Site!Written(path, n), {Site!Pages(path)[i] : i \in n + 1 .. begun})
  BY <1>1 DEF Site!WritePathFails, Site!Fail
<1>3. PICK n \in 0 .. Len(Site!Pages(path)) - 1 : \E begun \in n .. Len(Site!Pages(path)) :
            Site!Breaks(Site!Written(path, n), {Site!Pages(path)[i] : i \in n + 1 .. begun})
  BY <1>2
<1>4. n \in 0 .. Len(Site!Pages(path))
  <2>1. Len(Site!Pages(path)) \in Nat
    BY DEF Site!Pages
  <2>2. QED
    BY <2>1
<1>0. PICK cut : site' = Kept(Site!Written(path, n), cut)
  <2>1. PICK begun : Site!Breaks(Site!Written(path, n), {Site!Pages(path)[i] : i \in n + 1 .. begun})
    BY <1>3
  <2>2. PICK cut : cut = {Site!Pages(path)[i] : i \in n + 1 .. begun}
    OBVIOUS
  <2>3. Site!Breaks(Site!Written(path, n), cut)
    BY <2>1, <2>2
  <2>4. QED
    BY <2>3 DEF Site!Breaks, Kept
<1>5. PagesRight' /\ <<"index">> \notin DOMAIN site'
  <2>1. /\ FilesLoaded /\ OutInv /\ sitePc = "paths" /\ pi <= Len(av[cur].paths)
        /\ av' = av /\ cur' = cur /\ path = av[cur].paths[pi]
    BY <1>1, <1>2
  <2>2. QED
    BY <1>0, <1>4, <2>1, OutPages
<1>6. InProgress'
  BY <1>2 DEF InProgress, Publishing
<1>7. QED
  BY <1>5, <1>6 DEF OutInv, IndexLast

\* The paths of a file are those of its tree: all of them have been written.
LEMMA OutEndPaths == ASSUME FilesLoaded, OutInv, Site!EndPaths PROVE OutInv'
<1>1. /\ sitePc = "paths" /\ sitePc' = "files" /\ pi > Len(av[cur].paths)
      /\ UNCHANGED <<dir, av, cur, filesTodo, site>>
  BY DEF Site!EndPaths
<1>2. PagesRight'
  BY <1>1 DEF OutInv, PagesRight, Looked
<1>3. <<"index">> \notin DOMAIN site'
  BY <1>1 DEF OutInv, IndexLast
<1>4. cur \in DOMAIN av /\ pi \in Nat \ {0} /\ filesTodo \subseteq DOMAIN av
  BY <1>1 DEF OutInv, InProgress
<1>5. Len(av[cur].paths) \in Nat /\ Site!PathsOf(av[cur]) = Site!TreePaths(cur)
  BY <1>4 DEF FilesLoaded, Complete, Flattened
<1>6. \A i \in 1 .. Len(av[cur].paths) : i < pi
  BY <1>1, <1>4, <1>5
<1>7. ASSUME NEW f \in DOMAIN av, NEW p \in Site!TreePaths(f), Due(f, p)' PROVE Published(f, p)'
  <2>1. f \notin filesTodo
    BY <1>1, <1>7 DEF Due
  <2>2. f = cur => \E i \in 1 .. Len(av[f].paths) : i < pi /\ av[f].paths[i] = p
    BY <1>5, <1>6 DEF Site!PathsOf
  <2>3. Due(f, p)
    BY <1>1, <2>1, <2>2 DEF Due
  <2>4. Published(f, p)
    BY <1>1, <2>3 DEF OutInv, InProgress, Publishing
  <2>5. QED
    BY <1>1, <2>4 DEF Published
<1>8. InProgress'
  BY <1>1, <1>4, <1>7 DEF InProgress
<1>9. QED
  BY <1>2, <1>3, <1>8 DEF OutInv, IndexLast

\* The accessors list the paths of a file, each once, and each is looked up.
LEMMA RowsOfFile ==
    ASSUME FilesLoaded, NEW f \in DOMAIN av
    PROVE  Site!IndexRows(f) = {[file |-> f, path |-> p, m |-> Looked(f, p)] : p \in Site!TreePaths(f)}
<1> DEFINE w == av[f]
           L == UNION {UNION {UNION {
                    {[testsuite |-> ts, branch |-> b, trigger |-> tr, repo |-> r]
                        : ts \in Site!Testsuites(w, r, b, tr)}
                    : tr \in Site!Triggers(w, r, b)} : b \in Site!Branches(w, r)} : r \in Site!Repos(w)}
<1>1. Site!IndexRows(f) = {[file |-> f, path |-> p, m |-> Looked(f, p)] : p \in L}
  BY DEF Site!IndexRows, Looked
<1>2. w.paths \in Seq(PathSet) /\ Site!PathsOf(w) = Site!TreePaths(f)
  BY DEF FilesLoaded, Complete, Flattened
<1>3. \A p \in Site!PathsOf(w) : p = [testsuite |-> p.testsuite, branch |-> p.branch, trigger |-> p.trigger, repo |-> p.repo]
  <2>1. \A p \in Site!PathsOf(w) : p \in PathSet
    BY <1>2 DEF Site!PathsOf
  <2>2. QED
    BY <2>1 DEF PathSet
<1> HIDE DEF w
<1>4. ASSUME NEW p \in Site!PathsOf(w) PROVE p \in L
  <2>1. /\ p.repo \in Site!Repos(w) /\ p.branch \in Site!Branches(w, p.repo)
        /\ p.trigger \in Site!Triggers(w, p.repo, p.branch)
        /\ p.testsuite \in Site!Testsuites(w, p.repo, p.branch, p.trigger)
    BY DEF Site!Repos, Site!Branches, Site!Triggers, Site!Testsuites
  <2>2. QED
    BY <1>3, <2>1
<1>5. ASSUME NEW p \in L PROVE p \in Site!PathsOf(w)
  <2>1. PICK r \in Site!Repos(w) : p \in UNION {UNION {
                    {[testsuite |-> ts, branch |-> b, trigger |-> tr, repo |-> r]
                        : ts \in Site!Testsuites(w, r, b, tr)}
                    : tr \in Site!Triggers(w, r, b)} : b \in Site!Branches(w, r)}
    BY <1>5
  <2>2. PICK b \in Site!Branches(w, r) : p \in UNION {
                    {[testsuite |-> ts, branch |-> b, trigger |-> tr, repo |-> r]
                        : ts \in Site!Testsuites(w, r, b, tr)}
                    : tr \in Site!Triggers(w, r, b)}
    BY <2>1
  <2>0. PICK tr \in Site!Triggers(w, r, b) :
            \E ts \in Site!Testsuites(w, r, b, tr) : p = [testsuite |-> ts, branch |-> b, trigger |-> tr, repo |-> r]
    BY <2>2
  <2>3. PICK ts \in Site!Testsuites(w, r, b, tr) :
            p = [testsuite |-> ts, branch |-> b, trigger |-> tr, repo |-> r]
    BY <2>0
  <2>4. PICK q \in Site!PathsOf(w) : q.testsuite = ts /\ q.repo = r /\ q.branch = b /\ q.trigger = tr
    BY DEF Site!Testsuites
  <2>5. QED
    BY <1>3, <2>3, <2>4
<1>6. L = Site!TreePaths(f)
  BY <1>2, <1>4, <1>5 DEF w
<1> HIDE DEF L
<1>7. QED
  BY <1>1, <1>6

LEMMA OutIndex == ASSUME FilesLoaded, OutInv, Site!GenerateIndex PROVE OutInv'
<1> DEFINE w == <<"index">>
           rows == UNION {Site!IndexRows(f) : f \in DOMAIN av}
           x == [rows |-> rows, links |-> {Site!DumpLink(f) : f \in DOMAIN av}]
<1>1. /\ sitePc = "files" /\ sitePc' = "assets" /\ filesTodo = {} /\ av' = av /\ dir' = dir
      /\ site' = Site!Put(site, w, x)
  BY DEF Site!GenerateIndex
<1>2. w[1] \notin {"gho", "legacy"} /\ x.rows = rows /\ \A s, p : <<"gho", s, p>> # w
  OBVIOUS
<1> HIDE DEF w, x
<1>3. /\ PagesRight' /\ DOMAIN site' = DOMAIN site \union {w} /\ site'[w] = x
      /\ \A a \in DOMAIN site : a # w => site'[a] = site[a]
      /\ \A f, p : Published(f, p) => Published(f, p)'
  BY <1>1, <1>2, OutElsewhere DEF OutInv
<1>4. \A f \in DOMAIN av : \A p \in Site!TreePaths(f) : Published(f, p)
  BY <1>1 DEF OutInv, InProgress, Publishing, Due
<1>5. InProgress'
  BY <1>1, <1>3, <1>4 DEF InProgress
<1>6. DOMAIN av = Site!YamlFiles /\ Site!YamlFiles' = Site!YamlFiles
  BY <1>1 DEF FilesLoaded, Publishing, Site!YamlFiles
<1>7. ASSUME NEW r \in rows
      PROVE  /\ r.file \in DOMAIN av /\ r.path \in Site!TreePaths(r.file) /\ r.m = Looked(r.file, r.path)
  <2>1. PICK f \in DOMAIN av : r \in Site!IndexRows(f)
    BY <1>7
  <2>2. PICK p \in Site!TreePaths(f) : r = [file |-> f, path |-> p, m |-> Looked(f, p)]
    BY <2>1, RowsOfFile
  <2>3. QED
    BY <2>2
<1>8. ASSUME NEW f \in DOMAIN av, NEW p \in Site!TreePaths(f)
      PROVE  \E r \in rows : r.file = f /\ r.path = p
  <2> DEFINE r == [file |-> f, path |-> p, m |-> Looked(f, p)]
  <2>1. r \in Site!IndexRows(f)
    BY RowsOfFile
  <2>2. r.file = f /\ r.path = p
    OBVIOUS
  <2> HIDE DEF r
  <2>3. QED
    BY <2>1, <2>2
<1> HIDE DEF rows
<1>9. ASSUME NEW r \in rows
      PROVE  /\ <<"gho", Site!Tsv(r.file), r.path>> \in DOMAIN site'
             /\ site'[<<"gho", Site!Tsv(r.file), r.path>>] = r.m
  <2> DEFINE a == <<"gho", Site!Tsv(r.file), r.path>>
  <2>1. a \in DOMAIN site
    BY <1>4, <1>7 DEF Published
  <2>2. site[a] = Looked(r.file, r.path)
    BY <1>7, <2>1, PageHolds DEF OutInv
  <2>3. a # w
    BY <1>2
  <2> HIDE DEF a
  <2>4. a \in DOMAIN site' /\ site'[a] = r.m
    BY <1>3, <1>7, <2>1, <2>2, <2>3
  <2>5. QED
    BY <2>4 DEF a
<1>10. ASSUME NEW f \in Site!YamlFiles
       PROVE  {r.path : r \in {y \in rows : y.file = f}} = Site!TreePaths(f)
  BY <1>6, <1>7, <1>8
<1>11. site'[<<"index">>].rows = rows
  BY <1>2, <1>3 DEF w
<1>12. Site!IndexMatchesPages'
  BY <1>6, <1>9, <1>10, <1>11 DEF Site!IndexMatchesPages
<1>13. QED
  BY <1>1, <1>3, <1>5, <1>12 DEF OutInv, IndexLast

LEMMA OutAssets == ASSUME FilesLoaded, OutInv, Site!CopyAssets PROVE OutInv'
<1> DEFINE w == <<"static">>
<1>1. /\ sitePc = "assets" /\ sitePc' = "ok" /\ av' = av /\ dir' = dir /\ site' = Site!Put(site, w, None)
  BY DEF Site!CopyAssets
<1>2. w[1] \notin {"gho", "legacy"} /\ w # <<"index">> /\ \A s, p : <<"gho", s, p>> # w
  OBVIOUS
<1> HIDE DEF w
<1>3. /\ PagesRight' /\ DOMAIN site' = DOMAIN site \union {w}
      /\ \A a \in DOMAIN site : a # w => site'[a] = site[a]
      /\ \A f, p : Published(f, p) => Published(f, p)'
  BY <1>1, <1>2, OutElsewhere DEF OutInv
<1>4. \A f \in DOMAIN av : \A p \in Site!TreePaths(f) : Published(f, p)
  BY <1>1 DEF OutInv, InProgress, Publishing, Due
<1>5. InProgress'
  BY <1>1, <1>3, <1>4 DEF InProgress
<1>6. ASSUME <<"index">> \in DOMAIN site' PROVE Site!IndexMatchesPages'
  <2>1. <<"index">> \in DOMAIN site /\ site'[<<"index">>] = site[<<"index">>]
    BY <1>2, <1>3, <1>6
  <2>2. Site!IndexMatchesPages
    BY <2>1 DEF OutInv, IndexLast
  <2>3. Site!YamlFiles' = Site!YamlFiles
    BY <1>1 DEF Site!YamlFiles
  <2>4. \A s, p : <<"gho", s, p>> \in DOMAIN site =>
            <<"gho", s, p>> \in DOMAIN site' /\ site'[<<"gho", s, p>>] = site[<<"gho", s, p>>]
    BY <1>2, <1>3
  <2>5. QED
    BY <2>1, <2>2, <2>3, <2>4 DEF Site!IndexMatchesPages
<1>7. QED
  BY <1>1, <1>3, <1>5, <1>6 DEF OutInv, IndexLast

\* A write outside the pages fails: an index that was completed stays, with its pages.
LEMMA OutBreaks ==
    ASSUME OutInv, UNCHANGED <<dir, av>>, sitePc' = "error", sitePc \in {"files", "assets"},
           NEW cut, Site!Breaks(site, cut), \A a \in cut : a[1] # "gho",
           sitePc = "assets" => <<"index">> \notin cut
    PROVE  OutInv'
<1>1. DOMAIN site' = DOMAIN site \ cut /\ \A a \in DOMAIN site' : site'[a] = site[a]
  BY DEF Site!Breaks
<1>2. PagesRight'
  <2>1. PICK P : P = {}
    OBVIOUS
  <2>2. /\ DOMAIN site' \subseteq DOMAIN site \union P /\ \A a \in P : FALSE
    BY <1>1, <2>1
  <2>3. QED
    BY <1>1, <2>2, PagesRightMore DEF OutInv
<1>3. InProgress'
  BY DEF InProgress, Publishing
<1>4. ASSUME <<"index">> \in DOMAIN site' PROVE Site!IndexMatchesPages'
  <2>1. <<"index">> \in DOMAIN site /\ site'[<<"index">>] = site[<<"index">>]
    BY <1>1, <1>4
  <2>2. Site!IndexMatchesPages
    BY <2>1 DEF OutInv, IndexLast
  <2>3. Site!YamlFiles' = Site!YamlFiles
    BY DEF Site!YamlFiles
  <2>4. \A s, p : <<"gho", s, p>> \in DOMAIN site =>
            <<"gho", s, p>> \in DOMAIN site' /\ site'[<<"gho", s, p>>] = site[<<"gho", s, p>>]
    <3>1. \A s, p : <<"gho", s, p>>[1] = "gho"
      OBVIOUS
    <3>2. QED
      BY <1>1, <3>1
  <2>5. QED
    BY <2>1, <2>2, <2>3, <2>4 DEF Site!IndexMatchesPages
<1>5. QED
  BY <1>2, <1>3, <1>4 DEF OutInv, IndexLast

\* Nothing is cut short before an error, and the last files come in order.
Whole ==
    /\ sitePc # "error" => siteTorn = {}
    /\ sitePc \in {"assets", "ok"} => <<"index">> \in DOMAIN site
    /\ sitePc = "ok" => <<"static">> \in DOMAIN site

LEMMA WholeKept == ASSUME Whole, Site!Next \/ UNCHANGED siteVars PROVE Whole'
<1>1. CASE sitePc' = "error"
  BY <1>1 DEF Whole
<1>2. CASE sitePc' # "error"
  <2>1. CASE Site!GenerateIndex
    <3>1. /\ sitePc = "files" /\ sitePc' = "assets" /\ siteTorn' = siteTorn
          /\ <<"index">> \in DOMAIN site'
      BY <2>1 DEF Site!GenerateIndex, Site!Put
    <3>2. QED
      BY <3>1 DEF Whole
  <2>2. CASE Site!CopyAssets
    <3>1. /\ sitePc = "assets" /\ sitePc' = "ok" /\ siteTorn' = siteTorn
          /\ <<"static">> \in DOMAIN site' /\ DOMAIN site \subseteq DOMAIN site'
      BY <2>2 DEF Site!CopyAssets, Site!Put
    <3>2. QED
      BY <3>1 DEF Whole
  <2>3. CASE UNCHANGED siteVars
    BY <2>3 DEF Whole, siteVars
  <2>4. CASE ~(Site!GenerateIndex \/ Site!CopyAssets \/ UNCHANGED siteVars)
    <3>1. siteTorn' = siteTorn /\ sitePc # "error" /\ sitePc' \notin {"assets", "ok"}
      <4>1. CASE Site!SkipFile \/ Site!LoadFile \/ Site!LoadFails \/ Site!EndLoad
        BY <1>2, <4>1 DEF Site!SkipFile, Site!LoadFile, Site!LoadFails, Site!EndLoad
      <4>2. ASSUME NEW level, Site!ParseLevel(level)
            PROVE  siteTorn' = siteTorn /\ sitePc # "error" /\ sitePc' \notin {"assets", "ok"}
        <5>1. sitePc = "parse" /\ sitePc' = sitePc /\ siteTorn' = siteTorn
          BY <4>2 DEF Site!ParseLevel
        <5>2. QED
          BY <5>1
      <4>3. CASE Site!ParseReturn \/ Site!EndFile
        BY <4>3 DEF Site!ParseReturn, Site!EndFile
      <4>4. ASSUME NEW f, Site!DumpFile(f)
            PROVE  siteTorn' = siteTorn /\ sitePc # "error" /\ sitePc' \notin {"assets", "ok"}
        BY <4>4 DEF Site!DumpFile
      <4>5. CASE Site!WritePath \/ Site!EndPaths
        BY <4>5 DEF Site!WritePath, Site!EndPaths
      <4>6. CASE Site!DumpFails \/ Site!WritePathFails \/ Site!SiteFails
        BY <1>2, <4>6 DEF Site!DumpFails, Site!WritePathFails, Site!SiteFails, Site!Fail
      <4>7. QED
        BY <2>4, <4>1, <4>2, <4>3, <4>4, <4>5, <4>6 DEF Site!Next
    <3>2. QED
      BY <3>1 DEF Whole
  <2>5. QED
    BY <2>1, <2>2, <2>3, <2>4
<1>3. QED
  BY <1>1, <1>2

\* A stuttering step.
LEMMA OutQuiet ==
    ASSUME OutInv, UNCHANGED <<dir, av, filesTodo, cur, pi, site>>, sitePc' = sitePc
    PROVE  OutInv'
<1>1. PagesRight'
  BY DEF OutInv, PagesRight, Looked
<1>2. InProgress'
  BY DEF OutInv, InProgress, Publishing, Due, Published
<1>3. IndexLast'
  BY DEF OutInv, IndexLast, Site!IndexMatchesPages, Site!YamlFiles
<1>4. QED
  BY <1>1, <1>2, <1>3 DEF OutInv

LEMMA SiteSafe == ASSUME FilesLoaded, OutInv, Whole
                  PROVE  Site!PagesInherit /\ Site!EveryPathPublished /\ Site!IndexMatchesPages
<1>1. Site!IndexMatchesPages
  BY DEF OutInv, IndexLast, Site!IndexMatchesPages
<1>2. Site!PagesInherit
  <2> SUFFICES ASSUME NEW f \in DOMAIN av, NEW p \in Site!TreePaths(f),
                      <<"gho", Site!Tsv(f), p>> \in DOMAIN site
               PROVE  LET m == site[<<"gho", Site!Tsv(f), p>>] IN
                      m.env = Site!EnvOf(f, p) /\ Site!IsWithoutRepeats(m.lists, Site!ListsOf(f, p))
    BY DEF Site!PagesInherit
  <2>1. f \in DOMAIN Saved
    BY YamlSaved DEF FilesLoaded
  <2>2. PICK q \in RepoPositions(f) : p = PathAt(q)
    BY <2>1, RepoKeys
  <2>3. Inherited(f, q, Looked(f, p))
    BY <2>2, LookedInherits
  <2>4. site[<<"gho", Site!Tsv(f), p>>] = Looked(f, p)
    BY PageHolds DEF OutInv
  <2>5. QED
    BY <2>1, <2>2, <2>3, <2>4, InheritedRepo
<1>3. Site!EveryPathPublished
  <2> SUFFICES ASSUME sitePc = "ok" PROVE Site!EveryPathPublished
    BY DEF Site!EveryPathPublished
  <2>1. \A f \in DOMAIN av : \A p \in Site!TreePaths(f) : Published(f, p)
    BY DEF OutInv, InProgress, Publishing, Due
  <2>2. DOMAIN av = Site!YamlFiles
    BY DEF FilesLoaded, Publishing
  <2>3. \A f \in Site!YamlFiles : \A p \in Site!TreePaths(f) :
            <<"gho", Site!Tsv(f), p>> \in {a \in DOMAIN site : a[1] = "gho"}
    BY <2>1, <2>2 DEF Published
  <2>4. \A f \in Site!YamlFiles : Site!Tsv(f) = Prod => \A p \in Site!TreePaths(f) :
            <<"legacy", p>> \in {a \in DOMAIN site : a[1] = "legacy"}
    <3>1. SUFFICES ASSUME NEW f \in Site!YamlFiles, Site!Tsv(f) = Prod, NEW p \in Site!TreePaths(f)
                   PROVE  <<"legacy", p>> \in {a \in DOMAIN site : a[1] = "legacy"}
      OBVIOUS
    <3>2. Published(f, p)
      BY <2>1, <2>2, <3>1
    <3>3. <<"legacy", p>> \in DOMAIN site
      BY <3>1, <3>2 DEF Published
    <3>4. QED
      BY <3>3
  <2>5. \A a \in {b \in DOMAIN site : b[1] = "gho"} :
            \E f \in Site!YamlFiles : \E p \in Site!TreePaths(f) : a = <<"gho", Site!Tsv(f), p>>
    BY <2>2 DEF OutInv, PagesRight
  <2>6. \A a \in {b \in DOMAIN site : b[1] = "legacy"} :
            \E f \in Site!YamlFiles : Site!Tsv(f) = Prod /\ \E p \in Site!TreePaths(f) : a = <<"legacy", p>>
    BY <2>2 DEF OutInv, PagesRight
  <2>7. {a \in DOMAIN site : a[1] = "gho"} =
            UNION {{<<"gho", Site!Tsv(f), p>> : p \in Site!TreePaths(f)} : f \in Site!YamlFiles}
    BY <2>3, <2>5
  <2>8. {a \in DOMAIN site : a[1] = "legacy"} =
            UNION {{<<"legacy", p>> : p \in Site!TreePaths(f)} :
                     f \in {g \in Site!YamlFiles : Site!Tsv(g) = Prod}}
    BY <2>4, <2>6
  <2>9. siteTorn = {} /\ {<<"index">>, <<"static">>} \subseteq DOMAIN site
    BY DEF Whole
  <2>10. QED
    BY <2>7, <2>8, <2>9 DEF Site!EveryPathPublished, Prod
<1>4. QED
  BY <1>1, <1>2, <1>3

SiteIndInv == FilesLoaded /\ OutInv
SiteInv == SiteIndInv /\ Whole

LEMMA SiteKept ==
    ASSUME SiteIndInv, Site!Next \/ UNCHANGED siteVars
    PROVE  SiteIndInv'
<1>2. FilesLoaded /\ OutInv
  BY DEF SiteIndInv
<1>3. ASSUME sitePc \in {"load", "parse"}, site' = site,
             \/ sitePc' \in {"load", "parse", "error"}
             \/ sitePc' = "files" /\ filesTodo' = DOMAIN av'
      PROVE  OutInv'
  <2>1. site' = <<>>
    BY <1>2, <1>3 DEF OutInv, InProgress
  <2>2. QED
    BY <1>3, <2>1, OutLoading
<1>4. CASE Site!SkipFile
  BY <1>2, <1>3, <1>4, FilesLoadedSkip DEF Site!SkipFile, SiteIndInv
<1>5. CASE Site!LoadFile \/ Site!ParseReturn \/ \E level : Site!ParseLevel(level)
  <2>1. FilesLoaded'
    BY <1>2, <1>5, FilesLoadedParse
  <2>2. sitePc \in {"load", "parse"} /\ site' = site /\ sitePc' \in {"load", "parse", "error"}
    <3>1. CASE Site!LoadFile
      BY <3>1 DEF Site!LoadFile
    <3>2. CASE Site!ParseReturn
      BY <3>2 DEF Site!ParseReturn
    <3>3. ASSUME NEW level, Site!ParseLevel(level)
          PROVE  sitePc \in {"load", "parse"} /\ site' = site /\ sitePc' \in {"load", "parse", "error"}
      <4>1. sitePc = "parse" /\ sitePc' = sitePc /\ site' = site
        BY <3>3 DEF Site!ParseLevel
      <4>2. QED
        BY <4>1
    <3>4. QED
      BY <1>5, <3>1, <3>2, <3>3
  <2>3. QED
    BY <1>3, <2>1, <2>2 DEF SiteIndInv
<1>6. CASE Site!EndFile
  BY <1>2, <1>3, <1>6, FilesLoadedEndFile DEF Site!EndFile, SiteIndInv
<1>7. CASE Site!EndLoad \/ Site!LoadFails
  <2>1. FilesLoaded'
    BY <1>2, <1>7, FilesLoadedEnd
  <2>2. /\ sitePc \in {"load", "parse"} /\ site' = site
        /\ \/ sitePc' \in {"load", "parse", "error"}
           \/ sitePc' = "files" /\ filesTodo' = DOMAIN av'
    BY <1>7 DEF Site!EndLoad, Site!LoadFails
  <2>3. QED
    BY <1>3, <2>1, <2>2 DEF SiteIndInv
<1>8. ASSUME \/ \E f \in filesTodo : Site!DumpFile(f)
             \/ Site!DumpFails \/ Site!WritePath \/ Site!WritePathFails \/ Site!EndPaths
             \/ Site!GenerateIndex \/ Site!CopyAssets \/ Site!SiteFails
      PROVE  SiteIndInv'
  <2>1. Publishing /\ (Publishing' \/ sitePc' = "error") /\ UNCHANGED <<dir, di, av>>
    <3>1. ASSUME NEW f, Site!DumpFile(f)
          PROVE  Publishing /\ (Publishing' \/ sitePc' = "error") /\ UNCHANGED <<dir, di, av>>
      BY <3>1 DEF Publishing, Site!DumpFile
    <3>2. CASE Site!DumpFails \/ Site!WritePathFails \/ Site!SiteFails
      BY <3>2 DEF Publishing, Site!DumpFails, Site!WritePathFails, Site!SiteFails, Site!Fail, Site!Last
    <3>3. CASE Site!WritePath
      BY <3>3 DEF Publishing, Site!WritePath
    <3>4. CASE Site!EndPaths
      BY <3>4 DEF Publishing, Site!EndPaths
    <3>5. CASE Site!GenerateIndex
      BY <3>5 DEF Publishing, Site!GenerateIndex
    <3>6. CASE Site!CopyAssets
      BY <3>6 DEF Publishing, Site!CopyAssets
    <3>7. QED
      BY <1>8, <3>1, <3>2, <3>3, <3>4, <3>5, <3>6
  <2>2. FilesLoaded'
    BY <1>2, <2>1, FilesLoadedPublish
  <2>3. CASE Site!DumpFails \/ Site!SiteFails
    <3>1. UNCHANGED <<dir, av>> /\ sitePc' = "error" /\ sitePc \in {"files", "assets"}
      BY <2>3 DEF Site!DumpFails, Site!SiteFails, Site!Fail, Site!Last
    <3>2. PICK cut : /\ Site!Breaks(site, cut) /\ \A a \in cut : a[1] # "gho"
                     /\ sitePc = "assets" => <<"index">> \notin cut
      <4>1. CASE Site!DumpFails
        <5>1. PICK f \in filesTodo : \E cut \in SUBSET {<<"dump", Site!Tsv(f)>>} : Site!Breaks(site, cut)
          BY <4>1 DEF Site!DumpFails
        <5>2. PICK cut \in SUBSET {<<"dump", Site!Tsv(f)>>} : Site!Breaks(site, cut)
          BY <5>1
        <5>3. sitePc = "files" /\ <<"dump", Site!Tsv(f)>>[1] = "dump"
          BY <4>1 DEF Site!DumpFails
        <5>4. QED
          BY <5>2, <5>3
      <4>2. CASE Site!SiteFails
        <5>1. PICK cut \in SUBSET Site!Last : Site!Breaks(site, cut)
          BY <4>2 DEF Site!SiteFails
        <5>2. /\ Site!Last \subseteq {<<"index">>, <<"static">>}
              /\ sitePc = "assets" => Site!Last = {<<"static">>}
          BY DEF Site!Last
        <5>3. <<"index">>[1] = "index" /\ <<"static">>[1] = "static" /\ <<"index">> # <<"static">>
          OBVIOUS
        <5>4. QED
          BY <5>1, <5>2, <5>3
      <4>3. QED
        BY <2>3, <4>1, <4>2
    <3>3. OutInv'
      BY <1>2, <3>1, <3>2, OutBreaks
    <3>4. QED
      BY <2>2, <3>3 DEF SiteIndInv
  <2>4. CASE ~(Site!DumpFails \/ Site!SiteFails)
    BY <1>2, <1>8, <2>2, <2>4, OutDump, OutPath, OutPathFails, OutEndPaths, OutIndex, OutAssets DEF SiteIndInv
  <2>5. QED
    BY <2>3, <2>4
<1>9. CASE UNCHANGED siteVars
  <2>1. FilesLoaded'
    BY <1>2, <1>9, FilesLoadedStutter
  <2>2. OutInv'
    BY <1>2, <1>9, OutQuiet DEF siteVars
  <2>3. QED
    BY <2>1, <2>2 DEF SiteIndInv
<1>10. QED
  BY <1>4, <1>5, <1>6, <1>7, <1>8, <1>9 DEF Site!Next

\* For every directory, every tree and every order in which levels and files are taken:
\* a page that was written completely holds what its path inherits; a generation without
\* error has left no file cut short, its index, a page for every repository and no other;
\* and an index that was written completely lists the pages there are, also when the
\* assets fail after it (parseVariations, GenerateStatic, generateIndex).  A generation
\* with an error may leave any one of its files empty or cut short, the index included.
THEOREM SiteFaithfulAlways == Spec => []SiteFaithful
<1> DEFINE Inv == part = "site" => SiteInv
<1>1. Init => Inv
  <2> SUFFICES ASSUME Site!Init PROVE SiteInv
    BY DEF Init
  <2>1. FilesLoaded
    BY FilesLoadedInit
  <2>2. site = <<>> /\ sitePc = "load" /\ DOMAIN site = {}
    BY DEF Site!Init
  <2>3. PagesRight /\ InProgress /\ IndexLast
    BY <2>2 DEF PagesRight, InProgress, IndexLast, Publishing
  <2>4. Whole
    BY <2>2 DEF Site!Init, Whole
  <2>5. QED
    BY <2>1, <2>3, <2>4 DEF SiteInv, SiteIndInv, OutInv
<1>2. Inv /\ [Next]_vars => Inv'
  <2> SUFFICES ASSUME SiteInv, [Next]_vars, part' = "site", part = "site"
               PROVE  SiteInv'
    BY SiteSteps
  <2>1. Site!Next \/ UNCHANGED siteVars
    BY SiteSteps
  <2>2. SiteIndInv'
    BY <2>1, SiteKept DEF SiteInv
  <2>3. Whole'
    BY <2>1, WholeKept DEF SiteInv
  <2>4. QED
    BY <2>2, <2>3 DEF SiteInv
<1>3. Inv => SiteFaithful
  BY SiteSafe DEF SiteFaithful, SiteInv, SiteIndInv
<1>4. QED
  BY <1>1, <1>2, <1>3, PTL DEF Spec

-----------------------------------------------------------------------------
(* What a bundle renders *)

Kids(t, n) == {i \in 1 .. Len(t) : t[i].parent = n}
Leaves(t) == {n \in 2 .. Len(t) : Kids(t, n) = {}}
Folders(t) == {n \in 1 .. Len(t) : n = 1 \/ Kids(t, n) # {}}
Name == STRING
PathNames == Seq(Name)
Prefix(path, i) == SubSeq(path, 1, i)
Below(s, x) == Append(s, x)
NodeSet == [name : Name \union {None}, path : PathNames, parses : Seq(Files), parent : Nat]

\* at says where the nodes are: a directory is at one node only, a file at the node's path.
Placed(t, at) ==
    /\ t \in Seq(NodeSet) /\ Len(t) >= 1 /\ t[1] = Render!Root
    /\ at \in [1 .. Len(t) -> PathNames] /\ at[1] = <<>>
    /\ \A n \in 2 .. Len(t) : /\ t[n].parent \in 1 .. n - 1 /\ t[n].name \in Name
                              /\ at[n] = Below(at[t[n].parent], t[n].name)
    /\ \A n \in Leaves(t) : at[n] = t[n].path
    /\ \A n, m \in Folders(t) : at[n] = at[m] => n = m
    /\ \A n \in 1 .. Len(t) : t[n].name \notin DotD

FolderAt(t, at, s) ==
    IF \E m \in Folders(t) : at[m] = s THEN CHOOSE m \in Folders(t) : at[m] = s ELSE 0

LEMMA AppendCancels ==
    ASSUME NEW S, NEW s \in Seq(S), NEW u \in Seq(S), NEW x \in S, NEW y \in S
    PROVE  /\ Append(s, x) = Append(u, y) => s = u /\ x = y
           /\ Append(s, x) # <<>> /\ Append(s, x) \in Seq(S)
<1>1. Append(s, x) # <<>> /\ Append(s, x) \in Seq(S)
  OBVIOUS
<1>2. ASSUME Append(s, x) = Append(u, y) PROVE s = u /\ x = y
  <2>1. Len(s) + 1 = Len(u) + 1 /\ Len(s) \in Nat /\ Len(u) \in Nat
    BY <1>2, Appended
  <2>2. Len(s) = Len(u)
    BY <2>1
  <2>3. x = y
    BY <1>2, <2>2, Appended
  <2>4. \A i \in 1 .. Len(s) : s[i] = u[i]
    BY <1>2, <2>2, Appended
  <2>5. s = u
    BY <2>2, <2>4, SeqEqual
  <2>6. QED
    BY <2>3, <2>5
<1>3. QED
  BY <1>1, <1>2

LEMMA NameAdded ==
    ASSUME NEW s \in PathNames, NEW u \in PathNames, NEW x \in Name, NEW y \in Name
    PROVE  /\ Below(s, x) = Below(u, y) => s = u /\ x = y
           /\ Below(s, x) # <<>> /\ Below(s, x) \in PathNames
BY AppendCancels DEF Below, PathNames

LEMMA PrefixStep ==
    ASSUME NEW path \in PathNames
    PROVE  /\ Len(path) \in Nat /\ Prefix(path, 0) = <<>> /\ Prefix(path, Len(path)) = path
           /\ \A i \in 1 .. Len(path) :
                 /\ Prefix(path, i - 1) \in PathNames /\ path[i] \in Name
                 /\ Prefix(path, i) = Below(Prefix(path, i - 1), path[i])
           /\ \A i \in 0 .. Len(path) : Prefix(path, i) \in PathNames /\ Len(Prefix(path, i)) = i
<1>1. path \in Seq(Name) /\ Len(path) \in Nat
  BY DEF PathNames
<1>2. \A i \in 0 .. Len(path) : /\ Prefix(path, i) \in Seq(Name) /\ Len(Prefix(path, i)) = i
                                /\ \A k \in 1 .. i : Prefix(path, i)[k] = path[k]
  BY <1>1, Prefixes DEF Prefix
<1>3. Prefix(path, 0) = <<>>
  <2>1. 0 \in 0 .. Len(path)
    BY <1>1
  <2>2. Prefix(path, 0) \in Seq(Name) /\ Len(Prefix(path, 0)) = 0
    BY <1>2, <2>1
  <2>3. QED
    BY <2>2
<1>4. Prefix(path, Len(path)) = path
  BY <1>1, SubSeqFull DEF Prefix
<1>5. ASSUME NEW i \in 1 .. Len(path)
      PROVE  /\ Prefix(path, i - 1) \in Seq(Name) /\ path[i] \in Name
             /\ Prefix(path, i) = Below(Prefix(path, i - 1), path[i])
  <2>1. i - 1 \in 0 .. Len(path) /\ i \in 0 .. Len(path) /\ i \in Nat /\ i - 1 + 1 = i
    BY <1>1
  <2>2. path[i] \in Name
    BY <1>1
  <2> DEFINE a == Prefix(path, i - 1)
             b == Below(a, path[i])
             c == Prefix(path, i)
  <2>3. a \in Seq(Name) /\ Len(a) = i - 1 /\ \A k \in 1 .. i - 1 : a[k] = path[k]
    BY <1>2, <2>1
  <2>4. c \in Seq(Name) /\ Len(c) = i /\ \A k \in 1 .. i : c[k] = path[k]
    BY <1>2, <2>1
  <2> HIDE DEF a, c
  <2>5. b \in Seq(Name) /\ Len(b) = i /\ b[i] = path[i] /\ \A k \in 1 .. i - 1 : b[k] = a[k]
    BY <2>1, <2>2, <2>3, Appended DEF Below
  <2> HIDE DEF b
  <2>6. ASSUME NEW k \in 1 .. i PROVE c[k] = b[k]
    <3>1. k = i \/ k \in 1 .. i - 1
      BY <2>1
    <3>2. QED
      BY <2>3, <2>4, <2>5, <3>1
  <2>7. c = b
    BY <2>4, <2>5, <2>6, SeqEqual
  <2>8. QED
    BY <2>2, <2>3, <2>7 DEF a, b, c
<1>6. QED
  BY <1>1, <1>2, <1>3, <1>4, <1>5 DEF PathNames

LEMMA KidsOf == ASSUME NEW n PROVE Render!ChildrenOf(n) = Kids(tree, n)
BY DEF Render!ChildrenOf, Kids

LEMMA ParentFolder ==
    ASSUME NEW t, NEW at, Placed(t, at), NEW m \in 2 .. Len(t)
    PROVE  /\ t[m].parent \in Folders(t) /\ t[m].parent \in 1 .. m - 1 /\ t[m].name \in Name
           /\ m \in Kids(t, t[m].parent) /\ m \in 1 .. Len(t) /\ at[t[m].parent] \in PathNames
           /\ at[m] = Below(at[t[m].parent], t[m].name) /\ at[m] # <<>>
           /\ m \in Folders(t) \/ m \in Leaves(t)
<1>1. /\ t[m].parent \in 1 .. m - 1 /\ t[m].name \in Name /\ Len(t) \in Nat
      /\ at[m] = Below(at[t[m].parent], t[m].name)
  BY DEF Placed
<1>2. m \in 1 .. Len(t) /\ t[m].parent \in 1 .. Len(t)
  BY <1>1
<1>3. m \in Kids(t, t[m].parent)
  BY <1>2 DEF Kids
<1>4. at[t[m].parent] \in PathNames
  BY <1>2 DEF Placed
<1>5. at[m] # <<>>
  BY <1>1, <1>4, NameAdded
<1>6. QED
  BY <1>1, <1>2, <1>3, <1>4, <1>5 DEF Folders, Leaves

\* One step down: the directory of the next name is a child of the one before it.
LEMMA NextFolder ==
    ASSUME NEW at, Placed(tree, at), NEW path \in PathNames, NEW i \in 1 .. Len(path) - 1,
           \A l \in Leaves(tree) : at[l] # Prefix(path, i)
    PROVE  FolderAt(tree, at, Prefix(path, i)) =
               IF FolderAt(tree, at, Prefix(path, i - 1)) = 0 THEN 0
               ELSE Render!FirstChild(FolderAt(tree, at, Prefix(path, i - 1)), path[i])
<1> DEFINE s == Prefix(path, i - 1)
           u == Prefix(path, i)
           x == path[i]
           p == FolderAt(tree, at, s)
           q == FolderAt(tree, at, u)
           same == {c \in Kids(tree, p) : tree[c].name = x}
<1>1. s \in PathNames /\ x \in Name /\ u = Below(s, x)
  <2>1. i \in 1 .. Len(path)
    BY PrefixStep
  <2>2. QED
    BY <2>1, PrefixStep
<1> HIDE DEF s, u, x
<1>2. \A m \in Folders(tree) : m \in Nat \ {0}
  BY DEF Folders
<1>3. ASSUME NEW m \in Folders(tree), at[m] = u
      PROVE  /\ tree[m].parent \in Folders(tree) /\ at[tree[m].parent] = s /\ tree[m].name = x
             /\ m \in Kids(tree, tree[m].parent)
  <2>1. m \in 2 .. Len(tree)
    <3>1. u # <<>>
      BY <1>1, NameAdded
    <3>2. m # 1
      BY <1>3, <3>1 DEF Placed
    <3>3. QED
      BY <3>2 DEF Folders
  <2>2. Below(at[tree[m].parent], tree[m].name) = Below(s, x)
    BY <1>1, <1>3, <2>1, ParentFolder
  <2>3. at[tree[m].parent] \in PathNames /\ tree[m].name \in Name
    BY <2>1, ParentFolder
  <2>4. at[tree[m].parent] = s /\ tree[m].name = x
    <3> HIDE DEF p, q
    <3>1. PICK a, b : a = at[tree[m].parent] /\ b = tree[m].name
      OBVIOUS
    <3>2. a \in PathNames /\ b \in Name /\ Below(a, b) = Below(s, x)
      BY <2>2, <2>3, <3>1
    <3>3. a = s /\ b = x
      BY <1>1, <3>2, NameAdded
    <3>4. QED
      BY <3>1, <3>3
  <2>5. QED
    BY <2>1, <2>4, ParentFolder
<1>4. (\E m \in Folders(tree) : at[m] = s) => p \in Folders(tree) /\ at[p] = s /\ p # 0
  BY <1>2 DEF FolderAt
<1>5. (\E m \in Folders(tree) : at[m] = u) => q \in Folders(tree) /\ at[q] = u
  BY DEF FolderAt
<1>6. ~(\E m \in Folders(tree) : at[m] = s) => p = 0
  BY DEF FolderAt
<1>7. ~(\E m \in Folders(tree) : at[m] = u) => q = 0
  BY DEF FolderAt
<1>8. \A n, m \in Folders(tree) : at[n] = at[m] => n = m
  BY DEF Placed
<1> HIDE DEF p, q
<1>9. CASE p = 0
  <2>1. ~(\E m \in Folders(tree) : at[m] = u)
    BY <1>3, <1>4, <1>9
  <2>2. QED
    BY <1>7, <1>9, <2>1 DEF p, q, s, u, x
<1>10. CASE p # 0
  <2>1. p \in Folders(tree) /\ at[p] = s
    BY <1>4, <1>6, <1>10
  <2>2. ASSUME NEW c \in same PROVE c \in Folders(tree) /\ at[c] = u
    <3>1. c \in 1 .. Len(tree) /\ tree[c].parent = p /\ tree[c].name = x
      BY DEF Kids
    <3>2. tree[1].parent = 0
      BY DEF Placed, Render!Root
    <3>3. c \in 2 .. Len(tree)
      BY <1>10, <3>1, <3>2
    <3>4. at[c] = u
      BY <1>1, <2>1, <3>1, <3>3, ParentFolder
    <3>5. c \notin Leaves(tree)
      BY <3>4 DEF u
    <3>6. QED
      BY <3>3, <3>4, <3>5, ParentFolder
  <2>3. Render!FirstChild(p, x) = IF same = {} THEN 0 ELSE CHOOSE c \in same : \A j \in same : c <= j
    <3>1. Render!ChildrenOf(p) = Kids(tree, p)
      BY KidsOf
    <3>2. QED
      BY <3>1 DEF Render!FirstChild
  <2>4. CASE same = {}
    <3>1. ASSUME NEW m \in Folders(tree), at[m] = u PROVE FALSE
      <4>1. tree[m].parent = p
        BY <1>3, <1>8, <2>1, <3>1
      <4>2. m \in same
        BY <1>3, <3>1, <4>1
      <4>3. QED
        BY <2>4, <4>2
    <3>2. q = 0
      BY <1>7, <3>1
    <3>3. QED
      BY <1>10, <2>3, <2>4, <3>2 DEF p, q, s, u, x
  <2>5. CASE same # {}
    <3>1. q \in Folders(tree) /\ at[q] = u
      BY <1>5, <2>2, <2>5
    <3>2. \A c \in same : c = q
      BY <1>8, <2>2, <3>1
    <3>3. q \in same /\ q \in Nat
      BY <1>2, <2>5, <3>1, <3>2
    <3> HIDE DEF same
    <3>4. q <= q
      BY <3>3
    <3>5. (CHOOSE c \in same : \A j \in same : c <= j) = q
      BY <3>2, <3>3, <3>4
    <3>6. Render!FirstChild(p, x) = q
      BY <2>3, <2>5, <3>5
    <3>7. QED
      BY <1>10, <3>6 DEF p, q, s, u, x
  <2>6. QED
    BY <2>4, <2>5
<1>11. QED
  BY <1>9, <1>10

FoundBy(path, found) ==
    found = [i \in 0 .. Len(path) - 1 |->
                IF i = 0 THEN 1
                ELSE IF found[i - 1] = 0 THEN 0 ELSE Render!FirstChild(found[i - 1], path[i])]

\* What Add's search finds are the directories.
LEMMA FoundFolders ==
    ASSUME NEW at, Placed(tree, at), NEW path \in PathNames, path # <<>>,
           \A l \in Leaves(tree) : \A i \in 1 .. Len(path) - 1 : at[l] # Prefix(path, i)
    PROVE  /\ \E found : FoundBy(path, found)
           /\ \A found : FoundBy(path, found) =>
                 \A i \in 0 .. Len(path) - 1 : found[i] = FolderAt(tree, at, Prefix(path, i))
<1> DEFINE F(i) == FolderAt(tree, at, Prefix(path, i))
           N(i, p) == IF i = 0 THEN 1 ELSE IF p = 0 THEN 0 ELSE Render!FirstChild(p, path[i])
<1>1. Len(path) \in Nat /\ Len(path) >= 1 /\ Prefix(path, 0) = <<>>
  BY PrefixStep DEF PathNames
<1>2. F(0) = 1
  <2>1. 1 \in Folders(tree) /\ at[1] = <<>>
    BY DEF Placed, Folders
  <2>2. \A n, m \in Folders(tree) : at[n] = at[m] => n = m
    BY DEF Placed
  <2>3. QED
    BY <1>1, <2>1, <2>2 DEF FolderAt
<1>3. \A i \in 1 .. Len(path) - 1 : F(i) = N(i, F(i - 1))
  BY NextFolder
<1> HIDE DEF F
<1>4. \E found : FoundBy(path, found)
  <2> DEFINE g == [i \in 0 .. Len(path) - 1 |-> F(i)]
  <2>1. ASSUME NEW i \in 0 .. Len(path) - 1 PROVE g[i] = N(i, g[i - 1])
    <3>1. CASE i = 0
      BY <1>2, <3>1
    <3>2. CASE i # 0
      <4>1. i \in 1 .. Len(path) - 1 /\ i - 1 \in 0 .. Len(path) - 1
        BY <1>1, <3>2
      <4>2. QED
        BY <1>3, <4>1
    <3>3. QED
      BY <3>1, <3>2
  <2>2. g = [i \in 0 .. Len(path) - 1 |-> g[i]]
    OBVIOUS
  <2> HIDE DEF g
  <2>3. g = [i \in 0 .. Len(path) - 1 |-> N(i, g[i - 1])]
    BY <2>1, <2>2
  <2>4. FoundBy(path, g)
    BY <2>3 DEF FoundBy
  <2>5. QED
    BY <2>4
<1>5. ASSUME NEW found, FoundBy(path, found), NEW j \in 0 .. Len(path) - 1, found[j] # F(j)
      PROVE  FALSE
  <2>1. \A i \in 0 .. Len(path) - 1 : found[i] = N(i, found[i - 1])
    BY <1>5 DEF FoundBy
  <2> DEFINE B == {i \in 0 .. Len(path) - 1 : found[i] # F(i)}
  <2>2. j \in B /\ B \in SUBSET Nat /\ B \in SUBSET (0 .. Len(path) - 1)
    BY <1>5
  <2>3. IsFiniteSet(B)
    <3>1. IsFiniteSet(0 .. Len(path) - 1)
      BY <1>1, FS_Interval
    <3>2. QED
      BY <2>2, <3>1, FS_Subset
  <2>4. PICK i \in B : \A k \in B : i <= k
    <3> HIDE DEF B
    <3>1. QED
      BY <2>2, <2>3, SmallestMember
  <2>5. i # 0
    <3>1. 0 \in 0 .. Len(path) - 1
      BY <1>1
    <3>2. found[0] = N(0, found[0 - 1])
      BY <2>1, <3>1
    <3>3. found[0] = F(0)
      BY <1>2, <3>2
    <3>4. QED
      BY <2>4, <3>3
  <2>6. i \in 1 .. Len(path) - 1 /\ i - 1 \in 0 .. Len(path) - 1 /\ i - 1 < i
    BY <1>1, <2>2, <2>4, <2>5
  <2>7. i - 1 \notin B
    BY <2>4, <2>6
  <2>8. found[i - 1] = F(i - 1)
    BY <2>6, <2>7
  <2>9. found[i] = N(i, F(i - 1))
    BY <2>1, <2>4, <2>8
  <2>10. QED
    BY <1>3, <2>4, <2>6, <2>9
<1>6. QED
  BY <1>4, <1>5 DEF F

LEMMA DownClosed ==
    ASSUME NEW n \in Nat, NEW S \in SUBSET (1 .. n), \A i \in S : i = 1 \/ i - 1 \in S
    PROVE  Cardinality(S) \in 0 .. n /\ S = 1 .. Cardinality(S)
<1> DEFINE T == (1 .. n + 1) \ S
<1>1. n + 1 \in T /\ T \in SUBSET (1 .. n + 1) /\ n + 1 \in Nat
  OBVIOUS
<1>2. PICK e \in T : \A j \in T : e <= j
  <2> HIDE DEF T
  <2>1. T \in SUBSET Nat /\ IsFiniteSet(T) /\ T # {}
    BY <1>1, PositionsFinite
  <2>2. QED
    BY <2>1, SmallestMember
<1>3. e \in 1 .. n + 1 /\ e \notin S /\ e \in Nat
  BY <1>1, <1>2
<1>4. ASSUME NEW j \in 1 .. e - 1 PROVE j \in S
  BY <1>2, <1>3
<1>5. ASSUME NEW j \in S, j >= e PROVE FALSE
  <2> DEFINE U == {i \in S : i >= e}
  <2>1. j \in U /\ U \in SUBSET (1 .. n)
    BY <1>5
  <2>2. PICK i \in U : \A k \in U : i <= k
    <3> HIDE DEF U
    <3>1. U \in SUBSET Nat /\ IsFiniteSet(U) /\ U # {}
      BY <2>1, PositionsFinite
    <3>2. QED
      BY <3>1, SmallestMember
  <2>3. i \in S /\ i >= e /\ i \in 1 .. n /\ i # e
    BY <1>3, <2>1, <2>2
  <2>4. i - 1 \in S /\ i - 1 >= e /\ i - 1 < i
    BY <1>3, <2>3
  <2>5. QED
    BY <2>2, <2>3, <2>4
<1>6. S = 1 .. e - 1
  <2>1. ASSUME NEW j \in S PROVE j \in 1 .. e - 1
    BY <1>3, <1>5
  <2>2. QED
    BY <1>4, <2>1
<1>7. e - 1 \in 0 .. n /\ Cardinality(1 .. e - 1) = e - 1
  <2>1. e - 1 \in Nat /\ e - 1 \in 0 .. n
    BY <1>3
  <2>2. \A m \in Nat : Cardinality(1 .. m) = m
    BY FS_Interval
  <2>3. QED
    BY <2>1, <2>2
<1>8. QED
  BY <1>6, <1>7

\* The nodes that Add makes: of the directories that are missing and of the file.
NewNodes(path, parses, d, p, n) ==
    [k \in 1 .. Len(path) - d |->
        [name |-> path[d + k], path |-> path, parses |-> parses,
         parent |-> IF k = 1 THEN p ELSE n + k - 1]]

\* Add makes the nodes that are missing, below the last directory that is there.
LEMMA AddIs ==
    ASSUME NEW at, Placed(tree, at), NEW path \in PathNames, path # <<>>, NEW parses,
           \A l \in Leaves(tree) : \A i \in 1 .. Len(path) - 1 : at[l] # Prefix(path, i)
    PROVE  \E d \in 0 .. Len(path) - 1 : \E p \in Folders(tree) :
               /\ at[p] = Prefix(path, d)
               /\ \A i \in d + 1 .. Len(path) - 1 : \A m \in Folders(tree) : at[m] # Prefix(path, i)
               /\ Render!Add(path, parses) = tree \o NewNodes(path, parses, d, p, Len(tree))
<1> DEFINE n == Len(path)
           found == CHOOSE found : found = [i \in 0 .. n - 1 |->
                        IF i = 0 THEN 1
                        ELSE IF found[i - 1] = 0 THEN 0 ELSE Render!FirstChild(found[i - 1], path[i])]
           dirs == {i \in 1 .. n - 1 : found[i] # 0}
           depth == Render!Cardinality(dirs)
           F(i) == FolderAt(tree, at, Prefix(path, i))
<1>1. Render!Add(path, parses) = tree \o NewNodes(path, parses, depth, found[depth], Len(tree))
  BY DEF Render!Add, NewNodes
<1>2. n \in Nat /\ n >= 1 /\ n - 1 \in Nat
  BY PrefixStep DEF PathNames
<1>3. FoundBy(path, found)
  <2>1. \E f : FoundBy(path, f)
    BY FoundFolders
  <2>2. QED
    BY <2>1 DEF FoundBy
<1> HIDE DEF found
<1>4. \A i \in 0 .. n - 1 : found[i] = F(i)
  BY <1>3, FoundFolders
<1>5. \A i \in 0 .. n - 1 : F(i) # 0 => F(i) \in Folders(tree) /\ at[F(i)] = Prefix(path, i)
  BY DEF FolderAt
<1>6. \A i \in 0 .. n - 1 : F(i) = 0 => \A m \in Folders(tree) : at[m] # Prefix(path, i)
  <2>1. \A m \in Folders(tree) : m # 0
    BY DEF Folders
  <2>2. QED
    BY <2>1 DEF FolderAt
<1>7. ASSUME NEW i \in dirs PROVE i = 1 \/ i - 1 \in dirs
  <2>1. i \in 1 .. n - 1 /\ F(i) # 0
    BY <1>2, <1>4
  <2>2. F(i - 1) # 0
    BY <2>1, NextFolder
  <2>3. CASE i # 1
    <3>1. i - 1 \in 1 .. n - 1 /\ i - 1 \in 0 .. n - 1
      BY <1>2, <2>1, <2>3
    <3>2. QED
      BY <1>4, <2>2, <3>1
  <2>4. QED
    BY <2>3
<1>8. F(0) # 0
  <2>1. 1 \in Folders(tree) /\ at[1] = <<>>
    BY DEF Placed, Folders
  <2>2. Prefix(path, 0) = <<>> /\ 0 \in 0 .. n - 1
    BY <1>2, PrefixStep
  <2>3. QED
    BY <1>6, <2>1, <2>2
<1> HIDE DEF F
<1>9. depth \in 0 .. n - 1 /\ dirs = 1 .. depth
  <2>1. dirs \in SUBSET (1 .. n - 1)
    OBVIOUS
  <2>2. depth = Cardinality(dirs)
    BY SameCardinality
  <2> HIDE DEF dirs, depth
  <2>3. QED
    BY <1>2, <1>7, <2>1, <2>2, DownClosed
<1> HIDE DEF depth
<1>10. F(depth) # 0
  <2>1. depth = 0 \/ depth \in 1 .. depth
    BY <1>2, <1>9
  <2>2. depth \in dirs => F(depth) # 0
    BY <1>4, <1>9
  <2> HIDE DEF dirs
  <2>3. QED
    BY <1>8, <1>9, <2>1, <2>2
<1>11. ASSUME NEW i \in depth + 1 .. n - 1 PROVE \A m \in Folders(tree) : at[m] # Prefix(path, i)
  <2>1. i \notin 1 .. depth /\ i \in 1 .. n - 1 /\ i \in 0 .. n - 1
    BY <1>2, <1>9
  <2>2. F(i) = 0
    BY <1>4, <1>9, <2>1
  <2>3. QED
    BY <1>6, <2>1, <2>2
<1>12. found[depth] \in Folders(tree) /\ at[found[depth]] = Prefix(path, depth)
  BY <1>4, <1>5, <1>9, <1>10
<1>13. QED
  BY <1>1, <1>9, <1>11, <1>12

LEMMA NewNodesAre ==
    ASSUME NEW path \in PathNames, NEW parses \in Seq(Files), NEW d \in 0 .. Len(path) - 1,
           NEW p \in Nat, NEW n \in Nat
    PROVE  LET new == NewNodes(path, parses, d, p, n) IN
           /\ new \in Seq(NodeSet) /\ Len(new) = Len(path) - d /\ Len(new) \in Nat \ {0}
           /\ \A k \in 1 .. Len(new) :
                 /\ new[k].name = path[d + k] /\ new[k].path = path /\ new[k].parses = parses
                 /\ new[k].parent = (IF k = 1 THEN p ELSE n + k - 1)
                 /\ d + k \in 1 .. Len(path) /\ path[d + k] \in Name
<1> DEFINE g == Len(path) - d
           new == NewNodes(path, parses, d, p, n)
           Node(k) == [name |-> path[d + k], path |-> path, parses |-> parses,
                       parent |-> IF k = 1 THEN p ELSE n + k - 1]
<1>1. Len(path) \in Nat /\ \A i \in 1 .. Len(path) : path[i] \in Name
  BY PrefixStep
<1>2. g \in Nat \ {0} /\ d \in Nat
  BY <1>1
<1>3. \A k \in 1 .. g : d + k \in 1 .. Len(path) /\ n + k - 1 \in Nat
  BY <1>1
<1>4. \A k \in 1 .. g : Node(k) \in NodeSet
  BY <1>1, <1>3 DEF NodeSet
<1>5. \A k : /\ Node(k).name = path[d + k] /\ Node(k).path = path /\ Node(k).parses = parses
             /\ Node(k).parent = (IF k = 1 THEN p ELSE n + k - 1)
  OBVIOUS
<1>6. new = [k \in 1 .. g |-> Node(k)]
  BY DEF NewNodes
<1> HIDE DEF new, g, Node
<1>7. new \in [1 .. g -> NodeSet]
  BY <1>4, <1>6
<1>8. new \in Seq(NodeSet) /\ Len(new) = g
  <2> HIDE DEF NodeSet
  <2>1. QED
    BY <1>2, <1>7
<1>9. \A k \in 1 .. g : new[k] = Node(k)
  BY <1>6
<1>10. \A k \in 1 .. Len(new) :
          /\ new[k].name = path[d + k] /\ new[k].path = path /\ new[k].parses = parses
          /\ new[k].parent = (IF k = 1 THEN p ELSE n + k - 1)
  BY <1>5, <1>8, <1>9
<1>11. QED
  BY <1>1, <1>2, <1>3, <1>8, <1>10 DEF new, g

\* Grown(t, u, ...): u is t with the new nodes.
GrownBy(t, u, g, path, parses, d, p) ==
    /\ Len(u) = Len(t) + g /\ g = Len(path) - d /\ g \in Nat \ {0} /\ u \in Seq(NodeSet)
    /\ \A n \in 1 .. Len(t) : u[n] = t[n]
    /\ \A k \in 1 .. g :
          /\ u[Len(t) + k].name = path[d + k] /\ u[Len(t) + k].path = path
          /\ u[Len(t) + k].parses = parses
          /\ u[Len(t) + k].parent = (IF k = 1 THEN p ELSE Len(t) + k - 1)
          /\ d + k \in 1 .. Len(path) /\ path[d + k] \in Name

LEMMA GrownIs ==
    ASSUME NEW t \in Seq(NodeSet), NEW path \in PathNames, NEW parses \in Seq(Files),
           NEW d \in 0 .. Len(path) - 1, NEW p \in Nat
    PROVE  GrownBy(t, t \o NewNodes(path, parses, d, p, Len(t)), Len(path) - d, path, parses, d, p)
<1> DEFINE new == NewNodes(path, parses, d, p, Len(t))
<1>0. Len(t) \in Nat
  OBVIOUS
<1>1. /\ new \in Seq(NodeSet) /\ Len(new) = Len(path) - d /\ Len(new) \in Nat \ {0}
      /\ \A k \in 1 .. Len(new) :
            /\ new[k].name = path[d + k] /\ new[k].path = path /\ new[k].parses = parses
            /\ new[k].parent = (IF k = 1 THEN p ELSE Len(t) + k - 1)
            /\ d + k \in 1 .. Len(path) /\ path[d + k] \in Name
  BY <1>0, NewNodesAre
<1> HIDE DEF new
<1>2. /\ t \o new \in Seq(NodeSet) /\ Len(t \o new) = Len(t) + Len(new)
      /\ \A i \in 1 .. Len(t) : (t \o new)[i] = t[i]
      /\ \A i \in 1 .. Len(new) : (t \o new)[Len(t) + i] = new[i]
  <2>1. new \in Seq(NodeSet)
    BY <1>1
  <2>2. QED
    BY <2>1, Joining
<1> DEFINE u == t \o new
<1> HIDE DEF u
<1>3. /\ u \in Seq(NodeSet) /\ Len(u) = Len(t) + Len(new)
      /\ \A i \in 1 .. Len(t) : u[i] = t[i]
      /\ \A i \in 1 .. Len(new) : u[Len(t) + i] = new[i]
  BY <1>2 DEF u
<1>4. GrownBy(t, u, Len(path) - d, path, parses, d, p)
  BY ZenonT(60), <1>1, <1>3 DEF GrownBy
<1>5. QED
  BY <1>4 DEF u, new

\* The children of the nodes that were there and of those that were made.
LEMMA GrownKids ==
    ASSUME NEW t, NEW at, Placed(t, at), NEW u, NEW g, NEW path, NEW parses, NEW d,
           NEW p \in Folders(t), GrownBy(t, u, g, path, parses, d, p)
    PROVE  /\ Len(t) \in Nat \ {0}
           /\ \A m \in 1 .. Len(t) : /\ Kids(t, m) \subseteq Kids(u, m)
                                     /\ m # p => Kids(u, m) = Kids(t, m)
           /\ \A k \in 1 .. g - 1 : Len(t) + k + 1 \in Kids(u, Len(t) + k)
           /\ Kids(u, Len(u)) = {}
<1>1. /\ Len(t) \in Nat \ {0} /\ g \in Nat \ {0} /\ Len(u) = Len(t) + g /\ p \in 1 .. Len(t)
      /\ \A n \in 1 .. Len(t) : u[n] = t[n]
      /\ \A k \in 1 .. g : u[Len(t) + k].parent = (IF k = 1 THEN p ELSE Len(t) + k - 1)
  BY DEF Placed, GrownBy, Folders
<1>2. \A n \in 1 .. Len(t) : t[n].parent \in 0 .. n - 1
  <2>1. t[1].parent = 0 /\ \A n \in 2 .. Len(t) : t[n].parent \in 1 .. n - 1
    BY DEF Placed, Render!Root
  <2>2. ASSUME NEW n \in 1 .. Len(t) PROVE t[n].parent \in 0 .. n - 1
    <3>1. n = 1 \/ n \in 2 .. Len(t)
      BY <1>1
    <3>2. QED
      BY <2>1, <3>1
  <2>3. QED
    BY <2>2
<1>3. ASSUME NEW n \in 1 .. Len(u), NEW m, u[n].parent = m
      PROVE  \/ n \in Kids(t, m) /\ m \in 0 .. Len(t) - 1
             \/ n = Len(t) + 1 /\ m = p
             \/ n \in Len(t) + 2 .. Len(u) /\ m = n - 1
  <2>1. CASE n <= Len(t)
    BY <1>1, <1>2, <1>3, <2>1 DEF Kids
  <2>2. CASE n > Len(t)
    <3>1. PICK k \in 1 .. g : n = Len(t) + k
      <4>1. n - Len(t) \in 1 .. g /\ n = Len(t) + (n - Len(t))
        BY <1>1, <2>2
      <4>2. QED
        BY <4>1
    <3>2. m = (IF k = 1 THEN p ELSE Len(t) + k - 1)
      BY <1>1, <1>3, <3>1
    <3>3. QED
      BY <1>1, <3>1, <3>2
  <2>3. QED
    BY <1>1, <2>1, <2>2
<1>4. ASSUME NEW m \in 1 .. Len(t) PROVE Kids(t, m) \subseteq Kids(u, m)
  BY <1>1 DEF Kids
<1>5. ASSUME NEW m \in 1 .. Len(t), m # p PROVE Kids(u, m) = Kids(t, m)
  <2>1. ASSUME NEW n \in Kids(u, m) PROVE n \in Kids(t, m)
    <3>1. n \in 1 .. Len(u) /\ u[n].parent = m
      BY DEF Kids
    <3>2. ~(n \in Len(t) + 2 .. Len(u) /\ m = n - 1)
      BY <1>1
    <3>3. QED
      BY <1>3, <1>5, <3>1, <3>2
  <2>2. QED
    BY <1>4, <2>1
<1>6. ASSUME NEW k \in 1 .. g - 1 PROVE Len(t) + k + 1 \in Kids(u, Len(t) + k)
  <2>1. /\ k + 1 \in 1 .. g /\ k + 1 # 1 /\ Len(t) + (k + 1) = Len(t) + k + 1
        /\ Len(t) + (k + 1) - 1 = Len(t) + k /\ Len(t) + k + 1 \in 1 .. Len(u)
    BY <1>1
  <2>2. u[Len(t) + (k + 1)].parent = Len(t) + (k + 1) - 1
    BY <1>1, <2>1
  <2>3. QED
    BY <2>1, <2>2 DEF Kids
<1>7. Kids(u, Len(u)) = {}
  <2>1. ASSUME NEW n \in Kids(u, Len(u)) PROVE FALSE
    <3>1. n \in 1 .. Len(u) /\ u[n].parent = Len(u)
      BY DEF Kids
    <3>2. \/ Len(u) \in 0 .. Len(t) - 1 \/ Len(u) = p \/ Len(u) = n - 1
      BY <1>3, <3>1
    <3>3. QED
      BY <1>1, <3>1, <3>2
  <2>2. QED
    BY <2>1
<1>8. QED
  BY <1>1, <1>4, <1>5, <1>6, <1>7

\* The directories that were missing are folders, the file is a leaf.
LEMMA GrownFolders ==
    ASSUME NEW t, NEW at, Placed(t, at), NEW u, NEW g, NEW path, NEW parses, NEW d,
           NEW p \in Folders(t), GrownBy(t, u, g, path, parses, d, p)
    PROVE  /\ \A n \in Folders(u) : n \in Folders(t) \/ \E k \in 1 .. g - 1 : n = Len(t) + k
           /\ Leaves(u) = Leaves(t) \union {Len(u)} /\ Len(u) \notin 1 .. Len(t)
<1>1. Len(t) \in Nat \ {0} /\ g \in Nat \ {0} /\ Len(u) = Len(t) + g
  BY DEF Placed, GrownBy
<1>2. /\ \A m \in 1 .. Len(t) : Kids(t, m) \subseteq Kids(u, m) /\ (m # p => Kids(u, m) = Kids(t, m))
      /\ \A k \in 1 .. g - 1 : Len(t) + k + 1 \in Kids(u, Len(t) + k)
      /\ Kids(u, Len(u)) = {}
  BY GrownKids
<1>3. ASSUME NEW n \in 1 .. Len(u), n > Len(t), n # Len(u)
      PROVE  (\E k \in 1 .. g - 1 : n = Len(t) + k) /\ Kids(u, n) # {}
  <2>1. n - Len(t) \in 1 .. g - 1 /\ n = Len(t) + (n - Len(t))
    BY <1>1, <1>3
  <2>2. PICK k \in 1 .. g - 1 : n = Len(t) + k
    BY <2>1
  <2>3. QED
    BY <1>2, <2>2
<1>4. ASSUME NEW n \in Folders(u) PROVE n \in Folders(t) \/ \E k \in 1 .. g - 1 : n = Len(t) + k
  <2>1. n \in 1 .. Len(u) /\ (n = 1 \/ Kids(u, n) # {})
    BY DEF Folders
  <2>2. n # Len(u)
    BY <1>1, <1>2, <2>1
  <2>3. CASE n > Len(t)
    BY <1>3, <2>1, <2>2, <2>3
  <2>4. CASE ~(n > Len(t))
    <3>1. n \in 1 .. Len(t)
      BY <1>1, <2>1, <2>4
    <3>2. CASE n = p
      BY <3>2
    <3>3. CASE n # p
      BY <1>2, <2>1, <3>1, <3>3 DEF Folders
    <3>4. QED
      BY <3>2, <3>3
  <2>5. QED
    BY <2>3, <2>4
<1>5. ASSUME NEW n \in Leaves(u) PROVE n \in Leaves(t) \union {Len(u)}
  <2>1. n \in 2 .. Len(u) /\ Kids(u, n) = {}
    BY DEF Leaves
  <2>2. CASE n > Len(t)
    <3>1. n \in 1 .. Len(u)
      BY <2>1
    <3>2. QED
      BY <1>3, <2>1, <2>2, <3>1
  <2>3. CASE ~(n > Len(t))
    <3>1. n \in 2 .. Len(t) /\ n \in 1 .. Len(t)
      BY <1>1, <2>1, <2>3
    <3>2. Kids(t, n) = {}
      BY <1>2, <2>1, <3>1
    <3>3. QED
      BY <3>1, <3>2 DEF Leaves
  <2>4. QED
    BY <2>2, <2>3
<1>6. ASSUME NEW n \in Leaves(t) PROVE n \in Leaves(u)
  <2>1. n \in 2 .. Len(t) /\ Kids(t, n) = {} /\ n \in 1 .. Len(t) /\ n \in 2 .. Len(u) /\ n # 1
    BY <1>1 DEF Leaves
  <2>2. n # p
    BY <2>1 DEF Folders
  <2>3. QED
    BY <1>2, <2>1, <2>2 DEF Leaves
<1>7. Len(u) \in 2 .. Len(u) /\ Len(u) \notin 1 .. Len(t)
  BY <1>1
<1>8. Len(u) \in Leaves(u)
  BY <1>2, <1>7 DEF Leaves
<1>9. QED
  BY <1>4, <1>5, <1>6, <1>7, <1>8

\* With the file's nodes every node still has its place, and no directory has two.
LEMMA GrownPlaced ==
    ASSUME NEW t, NEW at, Placed(t, at), NEW u, NEW g, NEW path \in PathNames, NEW parses,
           NEW d \in 0 .. Len(path) - 1,
           NEW p \in Folders(t), at[p] = Prefix(path, d), GrownBy(t, u, g, path, parses, d, p),
           \A i \in d + 1 .. Len(path) - 1 : \A m \in Folders(t) : at[m] # Prefix(path, i),
           \A i \in 1 .. Len(path) : path[i] \notin DotD
    PROVE  \E b : Placed(u, b)
<1> DEFINE L == Len(t)
           b == [n \in 1 .. Len(u) |-> IF n <= L THEN at[n] ELSE Prefix(path, d + (n - L))]
<1>1. /\ L \in Nat \ {0} /\ g \in Nat \ {0} /\ Len(u) = L + g /\ g = Len(path) - d /\ d \in Nat
      /\ Len(path) \in Nat /\ p \in 1 .. L /\ u \in Seq(NodeSet)
  BY PrefixStep DEF Placed, GrownBy, Folders
<1>2. /\ \A n \in 1 .. L : u[n] = t[n]
      /\ \A k \in 1 .. g :
            /\ u[L + k].name = path[d + k] /\ u[L + k].path = path
            /\ u[L + k].parent = (IF k = 1 THEN p ELSE L + k - 1)
            /\ d + k \in 1 .. Len(path) /\ path[d + k] \in Name
  BY DEF GrownBy
<1>3. /\ DOMAIN b = 1 .. Len(u)
      /\ \A n \in 1 .. L : n \in 1 .. Len(u) /\ b[n] = at[n]
      /\ \A k \in 1 .. g : L + k \in 1 .. Len(u) /\ b[L + k] = Prefix(path, d + k)
  <2>1. ASSUME NEW n \in 1 .. L PROVE n \in 1 .. Len(u) /\ b[n] = at[n]
    BY <1>1
  <2>2. ASSUME NEW k \in 1 .. g PROVE L + k \in 1 .. Len(u) /\ b[L + k] = Prefix(path, d + k)
    <3>1. L + k \in 1 .. Len(u) /\ ~(L + k <= L) /\ (L + k) - L = k
      BY <1>1
    <3>2. QED
      BY <3>1
  <2>3. QED
    BY <2>1, <2>2
<1>4. \A n \in 1 .. Len(u) : n \in 1 .. L \/ \E k \in 1 .. g : n = L + k
  <2>1. ASSUME NEW n \in 1 .. Len(u), n \notin 1 .. L PROVE \E k \in 1 .. g : n = L + k
    <3>1. n - L \in 1 .. g /\ n = L + (n - L)
      BY <1>1, <2>1
    <3>2. QED
      BY <3>1
  <2>2. QED
    BY <2>1
<1>5. b = [n \in 1 .. Len(u) |-> b[n]]
  OBVIOUS
<1> HIDE DEF b
<1>6. b \in [1 .. Len(u) -> PathNames] /\ b[1] = <<>>
  <2>1. at \in [1 .. L -> PathNames] /\ at[1] = <<>> /\ 1 \in 1 .. L
    BY <1>1 DEF Placed
  <2>2. \A k \in 1 .. g : Prefix(path, d + k) \in PathNames
    <3>1. \A k \in 1 .. g : d + k \in 0 .. Len(path)
      BY <1>1
    <3>2. QED
      BY <3>1, PrefixStep
  <2>3. ASSUME NEW n \in 1 .. Len(u) PROVE b[n] \in PathNames
    <3>1. CASE n \in 1 .. L
      BY <1>3, <2>1, <3>1
    <3>2. ASSUME NEW k \in 1 .. g, n = L + k PROVE b[n] \in PathNames
      BY <1>3, <2>2, <3>2
    <3>3. QED
      BY <1>4, <3>1, <3>2
  <2>4. QED
    BY <1>3, <1>5, <2>1, <2>3
<1>7. ASSUME NEW n \in 2 .. Len(u)
      PROVE  /\ u[n].parent \in 1 .. n - 1 /\ u[n].name \in Name
             /\ b[n] = Below(b[u[n].parent], u[n].name)
  <2>1. n \in 1 .. Len(u)
    BY <1>1
  <2>2. CASE n \in 1 .. L
    <3>1. n \in 2 .. L
      BY <1>1, <2>2
    <3>2. /\ t[n].parent \in 1 .. n - 1 /\ t[n].name \in Name
          /\ at[n] = Below(at[t[n].parent], t[n].name)
      BY <3>1 DEF Placed
    <3>3. t[n].parent \in 1 .. L
      BY <1>1, <3>1, <3>2
    <3>4. QED
      BY <1>2, <1>3, <2>2, <3>2, <3>3
  <2>3. ASSUME NEW k \in 1 .. g, n = L + k
        PROVE  /\ u[n].parent \in 1 .. n - 1 /\ u[n].name \in Name
               /\ b[n] = Below(b[u[n].parent], u[n].name)
    <3>1. /\ u[n].name = path[d + k] /\ u[n].parent = (IF k = 1 THEN p ELSE L + k - 1)
          /\ d + k \in 1 .. Len(path) /\ path[d + k] \in Name /\ b[n] = Prefix(path, d + k)
      BY <1>2, <1>3, <2>3
    <3>2. b[n] = Below(Prefix(path, d + k - 1), path[d + k])
      BY SMTT(30), <3>1, PrefixStep
    <3>3. u[n].parent \in 1 .. n - 1 /\ b[u[n].parent] = Prefix(path, d + k - 1)
      <4>1. CASE k = 1
        <5>1. d + k - 1 = d /\ p \in 1 .. n - 1
          BY <1>1, <2>3, <4>1
        <5>2. b[p] = at[p]
          BY <1>1, <1>3
        <5>3. QED
          BY <3>1, <4>1, <5>1, <5>2
      <4>2. CASE k # 1
        <5>1. k - 1 \in 1 .. g /\ L + (k - 1) = L + k - 1 /\ d + (k - 1) = d + k - 1 /\ L + k - 1 \in 1 .. n - 1
          BY <1>1, <2>3, <4>2
        <5>2. b[L + (k - 1)] = Prefix(path, d + (k - 1))
          BY <1>3, <5>1
        <5>3. QED
          BY <3>1, <4>2, <5>1, <5>2
      <4>3. QED
        BY <4>1, <4>2
    <3>4. QED
      BY <3>1, <3>2, <3>3
  <2>4. QED
    BY <1>4, <2>1, <2>2, <2>3
<1>8. ASSUME NEW n \in Leaves(u) PROVE b[n] = u[n].path
  <2>1. n \in Leaves(t) \/ n = Len(u)
    BY GrownFolders
  <2>2. CASE n \in Leaves(t)
    <3>1. n \in 1 .. L /\ at[n] = t[n].path
      BY <1>1, <2>2 DEF Leaves, Placed
    <3>2. QED
      BY <1>2, <1>3, <3>1
  <2>3. CASE n = Len(u)
    <3> HIDE DEF L
    <3>0. n = L + g /\ d + g = Len(path) /\ g \in Nat \ {0}
      <4>1. Len(u) = L + g
        BY <1>1
      <4>2. n = L + g
        BY <2>3, <4>1
      <4>3. g = Len(path) - d /\ d \in Nat /\ Len(path) \in Nat /\ g \in Nat \ {0}
        BY <1>1
      <4>4. d + g = Len(path)
        BY <4>3
      <4>5. QED
        BY <4>2, <4>3, <4>4
    <3>1. g \in 1 .. g
      BY <3>0
    <3>2. b[n] = Prefix(path, Len(path)) /\ u[n].path = path
      BY <1>2, <1>3, <3>0, <3>1
    <3>3. QED
      BY <3>2, PrefixStep
  <2>4. QED
    BY <2>1, <2>2, <2>3
<1>9. ASSUME NEW n \in Folders(u), NEW m \in Folders(u), b[n] = b[m] PROVE n = m
  <2>1. /\ n \in Folders(t) \/ \E k \in 1 .. g - 1 : n = L + k
        /\ m \in Folders(t) \/ \E k \in 1 .. g - 1 : m = L + k
    BY GrownFolders
  <2>2. \A x \in Folders(t) : x \in 1 .. L
    BY DEF Folders
  <2>3. \A k \in 1 .. g - 1 : /\ d + k \in d + 1 .. Len(path) - 1 /\ k \in 1 .. g
                              /\ d + k \in 0 .. Len(path)
    BY <1>1
  <2>4. \A x \in Folders(t) : \A k \in 1 .. g - 1 : b[x] # b[L + k]
    BY <1>3, <2>2, <2>3
  <2>5. \A x, y \in Folders(t) : b[x] = b[y] => x = y
    BY <1>3, <2>2 DEF Placed
  <2>6. \A k, l \in 1 .. g - 1 : b[L + k] = b[L + l] => k = l
    <3>1. \A k \in 1 .. g - 1 : Len(b[L + k]) = d + k
      BY SMTT(30), <1>3, <2>3, PrefixStep
    <3>2. \A k, l \in 1 .. g - 1 : d + k = d + l => k = l
      BY <1>1
    <3>3. QED
      BY <3>1, <3>2
  <2>7. QED
    BY <1>9, <2>1, <2>4, <2>5, <2>6
<1>10. \A n \in 1 .. Len(u) : u[n].name \notin DotD
  <2>1. \A n \in 1 .. L : t[n].name \notin DotD
    BY DEF Placed
  <2>2. \A k \in 1 .. g : u[L + k].name \notin DotD
    BY <1>2
  <2>3. ASSUME NEW n \in 1 .. Len(u) PROVE u[n].name \notin DotD
    <3>1. CASE n \in 1 .. L
      BY <1>2, <2>1, <3>1
    <3>2. ASSUME NEW k \in 1 .. g, n = L + k PROVE u[n].name \notin DotD
      BY <2>2, <3>2
    <3>3. QED
      BY <1>4, <3>1, <3>2
  <2>4. QED
    BY <2>3
<1>11. Len(u) >= 1 /\ u[1] = Render!Root
  BY <1>1, <1>2 DEF Placed
<1>12. Placed(u, b)
  BY <1>1, <1>6, <1>7, <1>8, <1>9, <1>10, <1>11 DEF Placed
<1>13. QED
  BY <1>12

\* The leaves are the nodes of the files that were added, in their order.
Listed(t, files, leaf) ==
    /\ leaf \in [1 .. Len(files) -> Leaves(t)]
    /\ \A n \in Leaves(t) : \E i \in 1 .. Len(files) : leaf[i] = n
    /\ \A i, j \in 1 .. Len(files) : i < j => leaf[i] < leaf[j]
    /\ \A i \in 1 .. Len(files) :
          t[leaf[i]].path = Path[files[i]] /\ Render!Executed(t[leaf[i]].parses) = files[i]

LEMMA GrownListed ==
    ASSUME NEW t, NEW at, Placed(t, at), NEW u, NEW g, NEW f \in Files, NEW parses, NEW d,
           NEW p \in Folders(t), GrownBy(t, u, g, Path[f], parses, d, p), Render!Executed(parses) = f,
           NEW files \in Seq(Files), NEW leaf, Listed(t, files, leaf)
    PROVE  \E more : Listed(u, Append(files, f), more)
<1>1. Append(files, f) \in Seq(Files)
  OBVIOUS
<1> DEFINE N == Len(files)
           fs == Append(files, f)
           more == [i \in 1 .. N + 1 |-> IF i <= N THEN leaf[i] ELSE Len(u)]
<1>2. N \in Nat /\ Len(fs) = N + 1 /\ fs[N + 1] = f /\ \A i \in 1 .. N : fs[i] = files[i]
  OBVIOUS
<1> HIDE DEF fs, N
<1>3. Len(t) \in Nat \ {0} /\ g \in Nat \ {0} /\ Len(u) = Len(t) + g
  BY DEF Placed, GrownBy
<1>4. Leaves(u) = Leaves(t) \union {Len(u)}
  BY GrownFolders
<1>5. /\ DOMAIN more = 1 .. N + 1 /\ more[N + 1] = Len(u)
      /\ \A i \in 1 .. N : i \in 1 .. N + 1 /\ more[i] = leaf[i]
      /\ more = [i \in 1 .. N + 1 |-> more[i]]
  BY <1>2
<1> HIDE DEF more
<1>6. \A i \in 1 .. N + 1 : i \in 1 .. N \/ i = N + 1
  BY <1>2
<1>7. /\ \A i \in 1 .. N : leaf[i] \in Leaves(t)
      /\ \A n \in Leaves(t) : \E i \in 1 .. N : leaf[i] = n
      /\ \A i, j \in 1 .. N : i < j => leaf[i] < leaf[j]
      /\ \A i \in 1 .. N : t[leaf[i]].path = Path[files[i]] /\ Render!Executed(t[leaf[i]].parses) = files[i]
  BY DEF Listed, N
<1>8. more \in [1 .. N + 1 -> Leaves(u)]
  <2>1. \A i \in 1 .. N + 1 : more[i] \in Leaves(u)
    BY <1>4, <1>5, <1>6, <1>7
  <2>2. QED
    BY <1>5, <2>1
<1>9. \A n \in Leaves(u) : \E i \in 1 .. N + 1 : more[i] = n
  <2>1. N + 1 \in 1 .. N + 1
    BY <1>2
  <2>2. QED
    BY <1>4, <1>5, <1>7, <2>1
<1>10. ASSUME NEW i \in 1 .. N + 1, NEW j \in 1 .. N + 1, i < j PROVE more[i] < more[j]
  <2>1. i \in 1 .. N
    BY <1>2, <1>10
  <2>2. CASE j \in 1 .. N
    BY <1>5, <1>7, <1>10, <2>1, <2>2
  <2>3. CASE j = N + 1
    <3>1. leaf[i] \in Leaves(t)
      BY <1>7, <2>1
    <3>2. leaf[i] \in 2 .. Len(t)
      BY <3>1 DEF Leaves
    <3>3. leaf[i] < Len(u)
      BY <1>3, <3>2
    <3>4. QED
      BY <1>5, <2>1, <2>3, <3>3
  <2>4. QED
    BY <1>6, <2>2, <2>3
<1>11. ASSUME NEW i \in 1 .. N + 1
       PROVE  u[more[i]].path = Path[fs[i]] /\ Render!Executed(u[more[i]].parses) = fs[i]
  <2>1. CASE i \in 1 .. N
    <3>1. leaf[i] \in Leaves(t)
      BY <1>7, <2>1
    <3>2. leaf[i] \in 1 .. Len(t)
      BY <1>3, <3>1 DEF Leaves
    <3>3. u[leaf[i]] = t[leaf[i]]
      BY <3>2 DEF GrownBy
    <3>4. QED
      BY ZenonT(60), <1>2, <1>5, <1>7, <2>1, <3>3
  <2>2. CASE i = N + 1
    <3>1. g \in 1 .. g
      BY <1>3
    <3>2. u[Len(t) + g].path = Path[f] /\ u[Len(t) + g].parses = parses
      BY <3>1 DEF GrownBy
    <3>3. QED
      BY <1>2, <1>3, <1>5, <2>2, <3>2
  <2>3. QED
    BY <1>6, <2>1, <2>2
<1>12. Listed(u, fs, more)
  BY <1>2, <1>8, <1>9, <1>10, <1>11 DEF Listed
<1>13. QED
  BY <1>12 DEF fs

LEMMA RenderSelected == ASSUME NEW s, NEW I PROVE Render!Selected(s, I) = Selected(s, I)
<1>1. Render!Cardinality(I) = Cardinality(I)
  BY SameCardinality
<1>2. QED
  BY <1>1, RenderSorted DEF Selected, Render!Selected

LEMMA SelectedFrom ==
    ASSUME NEW S, NEW s \in Seq(S), NEW I \in SUBSET (1 .. Len(s))
    PROVE  Selected(s, I) \in Seq(S) /\ \A k \in 1 .. Len(Selected(s, I)) : \E i \in I : Selected(s, I)[k] = s[i]
<1> DEFINE n == Cardinality(I)
           r == Selected(s, I)
<1>1. Len(s) \in Nat
  OBVIOUS
<1>2. I \in SUBSET Nat /\ IsFiniteSet(I)
  BY <1>1, PositionsFinite
<1>3. n \in Nat /\ \A k \in 1 .. n : Sorted(I)[k] \in I
  <2>1. n \in Nat /\ Sorted(I) \in Seq(I) /\ Len(Sorted(I)) = n
    BY <1>2, SortedSet
  <2> HIDE DEF n
  <2>2. QED
    BY <2>1
<1>4. r = [k \in 1 .. n |-> s[Sorted(I)[k]]]
  BY DEF Selected
<1> HIDE DEF n, r
<1>5. \A i \in I : s[i] \in S
  OBVIOUS
<1>6. r \in [1 .. n -> S] /\ \A k \in 1 .. n : r[k] = s[Sorted(I)[k]]
  BY <1>3, <1>4, <1>5
<1>7. r \in Seq(S) /\ Len(r) = n
  BY <1>3, <1>6
<1>8. QED
  BY <1>3, <1>6, <1>7 DEF r

LEMMA WalkedFile ==
    ASSUME NEW w \in DOMAIN Walk, NEW i \in 1 .. Len(Walk[w]), NEW f, f = Walk[w][i]
    PROVE  /\ SubOf[f] = None <=> \A j \in 1 .. Len(Path[f]) - 1 : Path[f][j] \notin DotD
           /\ SubOf[f] = None =>
                 \A g \in Files : SubOf[g] = f \/ (\E j \in 1 .. Len(SubTemplates) : SubTemplates[j] = g) =>
                     Render!Base(g) # Render!Base(f)
BY BundleNamed DEF Render!Base

\* Of the files that are parsed for a template only the template has its name: it is
\* what is executed.
LEMMA OwnExecuted ==
    ASSUME features[fi] \in DOMAIN Walk, NEW i \in 1 .. Len(Walk[features[fi]]), NEW f,
           f = Walk[features[fi]][i], SubOf[f] = None
    PROVE  Render!ParseList(f) \in Seq(Files) /\ Render!Executed(Render!ParseList(f)) = f
<1> DEFINE walk == Walk[features[fi]]
           I == {j \in 1 .. Len(walk) : SubOf[walk[j]] = f}
           own == Render!Own(f)
           a == <<f>> \o SubTemplates
           l == a \o own
<1>1. walk \in Seq(Files) /\ f \in Files /\ SubTemplates \in Seq(Files)
  BY BundleTyped, BundleApart
<1>2. own = Selected(walk, I)
  BY RenderSelected DEF Render!Own
<1>3. own \in Seq(Files) /\ \A k \in 1 .. Len(own) : \E j \in I : own[k] = walk[j]
  <2> HIDE DEF walk
  <2>1. I \in SUBSET (1 .. Len(walk))
    OBVIOUS
  <2> HIDE DEF I, own
  <2>2. QED
    BY <1>1, <1>2, <2>1, SelectedFrom
<1>4. \A k \in 1 .. Len(own) : own[k] \in Files /\ SubOf[own[k]] = f
  <2> HIDE DEF own
  <2>1. \A j \in I : SubOf[walk[j]] = f
    OBVIOUS
  <2>2. QED
    BY <1>3, <2>1
<1>5. Render!ParseList(f) = l
  BY DEF Render!ParseList
<1> HIDE DEF own, walk
<1>6. <<f>> \in Seq(Files) /\ Len(<<f>>) = 1 /\ <<f>>[1] = f
  BY <1>1
<1>7. /\ a \in Seq(Files) /\ Len(SubTemplates) \in Nat /\ Len(a) = 1 + Len(SubTemplates) /\ a[1] = f
      /\ \A k \in 1 .. Len(SubTemplates) : a[1 + k] = SubTemplates[k]
  BY <1>1, <1>6, Joining
<1> HIDE DEF a
<1>8. /\ l \in Seq(Files) /\ Len(own) \in Nat /\ Len(l) = Len(a) + Len(own) /\ Len(a) \in Nat
      /\ \A k \in 1 .. Len(a) : l[k] = a[k]
      /\ \A k \in 1 .. Len(own) : l[Len(a) + k] = own[k]
  <2>1. a \in Seq(Files) /\ own \in Seq(Files)
    BY <1>3, <1>7
  <2>2. QED
    BY <2>1, Joining
<1> HIDE DEF l
<1>9. ASSUME NEW g \in Files, SubOf[g] = f \/ (\E j \in 1 .. Len(SubTemplates) : SubTemplates[j] = g)
      PROVE  Render!Base(g) # Render!Base(f)
  BY <1>9, WalkedFile
<1>10. ASSUME NEW k \in 2 .. Len(l) PROVE Render!Base(l[k]) # Render!Base(f)
  <2>1. CASE k <= Len(a)
    <3>1. k - 1 \in 1 .. Len(SubTemplates) /\ k = 1 + (k - 1) /\ k \in 1 .. Len(a)
      BY <1>7, <1>8, <2>1
    <3>2. PICK m \in 1 .. Len(SubTemplates) : k = 1 + m
      BY <3>1
    <3>3. l[k] = a[k]
      BY <1>8, <3>1
    <3>4. l[k] = SubTemplates[m]
      BY <1>7, <3>2, <3>3
    <3>5. SubTemplates[m] \in Files
      BY <1>1
    <3>6. QED
      BY <1>9, <3>4, <3>5
  <2>2. CASE k > Len(a)
    <3>1. k - Len(a) \in 1 .. Len(own) /\ k = Len(a) + (k - Len(a))
      BY <1>7, <1>8, <2>2
    <3>2. l[k] = own[k - Len(a)]
      BY <1>8, <3>1
    <3>3. QED
      BY <1>4, <1>9, <3>1, <3>2
  <2>3. QED
    BY <1>7, <1>8, <2>1, <2>2
<1>11. l[1] = f /\ 1 \in 1 .. Len(l) /\ Len(l) \in Nat
  BY <1>7, <1>8
<1> DEFINE same == {k \in 1 .. Len(l) : Render!Base(l[k]) = Render!Base(l[1])}
<1>12. same = {1}
  <2>1. ASSUME NEW k \in 1 .. Len(l), k # 1 PROVE Render!Base(l[k]) # Render!Base(l[1])
    <3>1. k \in 2 .. Len(l)
      BY <1>11, <2>1
    <3>2. QED
      BY <1>10, <1>11, <3>1
  <2>2. QED
    BY <1>11, <2>1
<1>13. Render!Executed(l) = l[CHOOSE k \in same : \A j \in same : j <= k]
  BY DEF Render!Executed
<1> HIDE DEF same
<1>14. (CHOOSE k \in same : \A j \in same : j <= k) = 1
  BY <1>12
<1>15. QED
  BY <1>5, <1>8, <1>11, <1>13, <1>14

\* The files of the walk, and those that are behind it.
InWalk(i, j) == i \in 1 .. Len(features) /\ features[i] \in DOMAIN Walk /\ j \in 1 .. Len(Walk[features[i]])
FileAt(i, j) == Walk[features[i]][j]
Behind(i, j) == i < fi \/ (i = fi /\ j < wi)

\* The templates behind the walk are added, each once.
AddedOnce ==
    /\ \A k \in 1 .. Len(added) :
          SubOf[added[k]] = None /\ \E i, j : InWalk(i, j) /\ Behind(i, j) /\ FileAt(i, j) = added[k]
    /\ \A i, j : InWalk(i, j) /\ Behind(i, j) /\ SubOf[FileAt(i, j)] = None =>
          \E k \in 1 .. Len(added) : added[k] = FileAt(i, j)
    /\ \A k, l \in 1 .. Len(added) : added[k] = added[l] => k = l

TreeBuilt == (\E at : Placed(tree, at)) /\ (\E leaf : Listed(tree, added, leaf))

Collected ==
    /\ features \in FeatureLists /\ fi \in Nat \ {0} /\ wi \in Nat \ {0} /\ added \in Seq(Files)
    /\ TreeBuilt /\ AddedOnce
    /\ renderPc # "walk" => fi > Len(features)

Walked(f) == \E w \in DOMAIN Walk : \E i \in 1 .. Len(Walk[w]) : Walk[w][i] = f

LEMMA PathTyped ==
    ASSUME NEW f \in Files
    PROVE  /\ Path[f] \in PathNames /\ Path[f] # <<>> /\ Len(Path[f]) \in Nat \ {0}
           /\ Walked(f) /\ SubOf[f] = None => \A i \in 1 .. Len(Path[f]) : Path[f][i] \notin DotD
           /\ Walked(f) => ((\E i \in 1 .. Len(Path[f]) - 1 : Path[f][i] \in DotD) <=> SubOf[f] # None)
<1>1. Path[f] \in Seq(STRING) /\ Path[f] # <<>>
  BY BundleTyped
<1>2. Path[f] \in PathNames
  BY <1>1 DEF PathNames, Name
<1>3. Len(Path[f]) \in Nat \ {0}
  BY <1>1
<1>4. /\ Path[f][Len(Path[f])] \notin DotD
      /\ Walked(f) => (SubOf[f] = None <=> \A i \in 1 .. Len(Path[f]) - 1 : Path[f][i] \notin DotD)
  BY BundleApart, WalkedFile DEF Walked
<1>5. \A i \in 1 .. Len(Path[f]) : i = Len(Path[f]) \/ i \in 1 .. Len(Path[f]) - 1
  BY <1>3
<1>6. QED
  BY <1>1, <1>2, <1>3, <1>4, <1>5

LEMMA NoLeafAbove ==
    ASSUME NEW at, Placed(tree, at), NEW leaf, Listed(tree, added, leaf), added \in Seq(Files),
           NEW f \in Files, NEW l \in Leaves(tree), NEW i \in 1 .. Len(Path[f]) - 1
    PROVE  at[l] # Prefix(Path[f], i)
<1>1. PICK k \in 1 .. Len(added) : leaf[k] = l
  BY DEF Listed
<1>2. PICK g \in Files : g = added[k]
  BY <1>1
<1>3. at[l] = Path[g]
  BY <1>1, <1>2 DEF Listed, Placed
<1>4. Path[f] \in Seq(Name) /\ Len(Path[f]) \in Nat /\ i \in 0 .. Len(Path[f]) /\ i < Len(Path[f])
  BY PathTyped DEF PathNames
<1>5. /\ Len(Prefix(Path[f], i)) = i
      /\ \A n \in 1 .. i : Prefix(Path[f], i)[n] = Path[f][n]
  BY <1>4, Prefixes DEF Prefix
<1>6. Len(Path[g]) < Len(Path[f]) => \E n \in 1 .. Len(Path[g]) : Path[g][n] # Path[f][n]
  BY BundleApart
<1>7. QED
  BY <1>3, <1>4, <1>5, <1>6

\* Adding a template to the tree.
LEMMA TreeAdded ==
    ASSUME TreeBuilt, added \in Seq(Files), NEW f \in Files, Walked(f), SubOf[f] = None,
           NEW parses \in Seq(Files), Render!Executed(parses) = f, NEW u, u = Render!Add(Path[f], parses)
    PROVE  (\E b : Placed(u, b)) /\ (\E more : Listed(u, Append(added, f), more))
<1>1. PICK at : Placed(tree, at)
  BY DEF TreeBuilt
<1>2. PICK leaf : Listed(tree, added, leaf)
  BY DEF TreeBuilt
<1>3. PICK t, files, path : t = tree /\ files = added /\ path = Path[f]
  OBVIOUS
<1>4. /\ path \in PathNames /\ path # <<>> /\ Len(path) \in Nat \ {0}
      /\ \A i \in 1 .. Len(path) : path[i] \notin DotD
  BY <1>3, PathTyped
<1>5. \A l \in Leaves(tree) : \A i \in 1 .. Len(path) - 1 : at[l] # Prefix(path, i)
  BY <1>1, <1>2, <1>3, NoLeafAbove
<1>6. PICK d \in 0 .. Len(path) - 1 : \E p \in Folders(tree) :
          /\ at[p] = Prefix(path, d)
          /\ \A i \in d + 1 .. Len(path) - 1 : \A m \in Folders(tree) : at[m] # Prefix(path, i)
          /\ Render!Add(path, parses) = tree \o NewNodes(path, parses, d, p, Len(tree))
  BY <1>1, <1>4, <1>5, AddIs
<1>7. PICK p \in Folders(t) :
          /\ at[p] = Prefix(path, d)
          /\ \A i \in d + 1 .. Len(path) - 1 : \A m \in Folders(t) : at[m] # Prefix(path, i)
          /\ u = t \o NewNodes(path, parses, d, p, Len(t))
  BY <1>3, <1>6
<1>8. Placed(t, at) /\ Listed(t, files, leaf) /\ files \in Seq(Files)
  BY <1>1, <1>2, <1>3
<1>9. t \in Seq(NodeSet) /\ p \in Nat
  BY <1>8 DEF Placed, Folders
<1>10. GrownBy(t, u, Len(path) - d, path, parses, d, p)
  BY <1>4, <1>7, <1>9, GrownIs
<1>11. \E b : Placed(u, b)
  BY <1>4, <1>7, <1>8, <1>10, GrownPlaced
<1>12. \E more : Listed(u, Append(files, f), more)
  BY <1>3, <1>8, <1>10, GrownListed
<1>13. QED
  BY <1>3, <1>11, <1>12

LEMMA CollectedInit == ASSUME Render!Init PROVE Collected
<1>1. /\ features \in FeatureLists /\ fi = 1 /\ wi = 1 /\ added = <<>> /\ tree = <<Render!Root>>
      /\ renderPc = "walk"
  BY DEF Render!Init
<1>2. added \in Seq(Files) /\ Len(added) = 0
  BY <1>1
<1>3. Len(tree) = 1 /\ tree[1] = Render!Root /\ tree \in Seq(NodeSet)
  <2>1. Render!Root \in NodeSet
    <3>1. <<>> \in PathNames /\ <<>> \in Seq(Files)
      BY DEF PathNames
    <3>2. QED
      BY <3>1 DEF Render!Root, NodeSet
  <2>2. QED
    BY <1>1, <2>1
<1>4. Leaves(tree) = {} /\ Folders(tree) = {1}
  BY <1>3 DEF Leaves, Folders
<1>5. Placed(tree, [n \in 1 .. 1 |-> <<>>])
  <2>1. <<>> \in PathNames
    BY DEF PathNames
  <2>2. tree[1].name \notin DotD
    BY <1>3, BundleApart DEF Render!Root
  <2>3. QED
    BY <1>3, <1>4, <2>1, <2>2 DEF Placed
<1>6. Listed(tree, added, [n \in {} |-> 0])
  <2>1. 1 .. Len(added) = {}
    BY <1>2
  <2>2. QED
    BY <1>4, <2>1 DEF Listed
<1>7. AddedOnce
  <2>1. 1 .. Len(added) = {}
    BY <1>2
  <2>2. \A i, j : InWalk(i, j) => ~Behind(i, j)
    BY <1>1 DEF InWalk, Behind
  <2>3. QED
    BY <2>1, <2>2 DEF AddedOnce
<1>8. QED
  BY <1>1, <1>2, <1>5, <1>6, <1>7 DEF Collected, TreeBuilt

LEMMA CollectedWalk == ASSUME Collected, Render!WalkFile PROVE Collected'
<1>1. /\ renderPc = "walk" /\ fi <= Len(features) /\ features[fi] \in DOMAIN Walk
      /\ wi <= Len(Walk[features[fi]]) /\ wi' = wi + 1 /\ UNCHANGED <<features, fi, renderPc>>
      /\ Render!Visit(Walk[features[fi]][wi])
  BY DEF Render!WalkFile
<1>2. /\ features \in FeatureLists /\ fi \in Nat \ {0} /\ wi \in Nat \ {0} /\ added \in Seq(Files)
      /\ TreeBuilt /\ AddedOnce
  BY DEF Collected
<1>3. features \in Seq(STRING) /\ Walk[features[fi]] \in Seq(Files)
  BY <1>1, <1>2, BundleTyped, BundleApart
<1>4. Len(features) \in Nat /\ Len(Walk[features[fi]]) \in Nat
  BY <1>3
<1>5. fi \in 1 .. Len(features) /\ wi \in 1 .. Len(Walk[features[fi]])
  BY <1>1, <1>2, <1>4
<1>6. InWalk(fi, wi)
  BY <1>1, <1>5 DEF InWalk
<1>7. PICK f \in Files : f = FileAt(fi, wi) /\ Walked(f)
  BY <1>1, <1>3, <1>5 DEF FileAt, Walked
<1>8. \A i, j : InWalk(i, j)' = InWalk(i, j) /\ FileAt(i, j)' = FileAt(i, j)
  BY <1>1 DEF InWalk, FileAt
<1>9. \A i, j : InWalk(i, j) => (Behind(i, j)' <=> Behind(i, j) \/ (i = fi /\ j = wi))
  BY <1>1, <1>2 DEF Behind, InWalk
<1>10. ~Behind(fi, wi)
  BY <1>2 DEF Behind
<1>11. wi' \in Nat \ {0}
  BY <1>1, <1>2
<1>12. CASE SubOf[f] # None
  <2>1. UNCHANGED <<tree, added>>
    BY <1>1, <1>7, <1>12, PathTyped DEF Render!Visit, FileAt
  <2>2. TreeBuilt'
    BY <1>2, <2>1 DEF TreeBuilt
  <2>3. AddedOnce'
    <3>1. ASSUME NEW k \in 1 .. Len(added)
          PROVE  SubOf[added[k]] = None /\ \E i, j : InWalk(i, j)' /\ Behind(i, j)' /\ FileAt(i, j)' = added[k]
      BY <1>2, <1>8, <1>9 DEF AddedOnce
    <3>2. ASSUME NEW i, NEW j, InWalk(i, j)', Behind(i, j)', SubOf[FileAt(i, j)'] = None
          PROVE  \E k \in 1 .. Len(added) : added[k] = FileAt(i, j)'
      <4>1. InWalk(i, j) /\ SubOf[FileAt(i, j)] = None /\ FileAt(i, j)' = FileAt(i, j)
        BY <1>8, <3>2
      <4>2. Behind(i, j)
        BY <1>7, <1>9, <1>12, <3>2, <4>1
      <4>3. QED
        BY <1>2, <4>1, <4>2 DEF AddedOnce
    <3>3. QED
      BY <1>2, <2>1, <3>1, <3>2 DEF AddedOnce
  <2>4. QED
    BY <1>1, <1>2, <1>11, <2>1, <2>2, <2>3 DEF Collected
<1>13. CASE SubOf[f] = None
  <2>1. tree' = Render!Add(Path[f], Render!ParseList(f)) /\ added' = Append(added, f)
    BY <1>1, <1>7, <1>13, PathTyped DEF Render!Visit, FileAt
  <2>2. Render!ParseList(f) \in Seq(Files) /\ Render!Executed(Render!ParseList(f)) = f
    BY <1>1, <1>5, <1>7, <1>13, OwnExecuted DEF FileAt
  <2>3. PICK parses, u : parses = Render!ParseList(f) /\ u = tree'
    OBVIOUS
  <2>4. (\E b : Placed(u, b)) /\ (\E more : Listed(u, Append(added, f), more))
    <3>1. parses \in Seq(Files) /\ Render!Executed(parses) = f /\ u = Render!Add(Path[f], parses)
      BY <2>1, <2>2, <2>3
    <3>2. QED
      BY <1>2, <1>7, <1>13, <3>1, TreeAdded
  <2>5. TreeBuilt'
    BY <2>1, <2>3, <2>4 DEF TreeBuilt
  <2>6. PICK n : n = Len(added)
    OBVIOUS
  <2>7. /\ added' \in Seq(Files) /\ n \in Nat /\ Len(added') = n + 1 /\ added'[n + 1] = f
        /\ \A k \in 1 .. n : added'[k] = added[k]
    BY <1>2, <2>1, <2>6
  <2>8. n + 1 \in 1 .. n + 1 /\ \A k \in 1 .. n + 1 : k \in 1 .. n \/ k = n + 1
    BY <2>7
  <2>9. \A k \in 1 .. n : k \in 1 .. n + 1
    BY <2>7
  <2>10. ASSUME NEW k \in 1 .. n PROVE added[k] # f
    <3>1. PICK i, j : InWalk(i, j) /\ Behind(i, j) /\ FileAt(i, j) = added[k]
      BY <1>2, <2>6 DEF AddedOnce
    <3>2. SUFFICES ASSUME FileAt(i, j) = FileAt(fi, wi) PROVE FALSE
      BY <1>7, <3>1
    <3>3. features[i] = features[fi] /\ j = wi
      <4>1. \A w, x \in DOMAIN Walk : \A a \in 1 .. Len(Walk[w]) : \A b \in 1 .. Len(Walk[x]) :
               Walk[w][a] = Walk[x][b] => w = x /\ a = b
        BY BundleApart
      <4>2. QED
        BY <1>6, <3>1, <3>2, <4>1 DEF InWalk, FileAt
    <3>4. i = fi
      BY <1>2, <1>6, <3>1, <3>3, BundleApart DEF InWalk
    <3>5. QED
      BY <1>10, <3>1, <3>3, <3>4
  <2>11. AddedOnce'
    <3>1. ASSUME NEW k \in 1 .. n + 1
          PROVE  SubOf[added'[k]] = None /\ \E i, j : InWalk(i, j)' /\ Behind(i, j)' /\ FileAt(i, j)' = added'[k]
      <4>1. CASE k \in 1 .. n
        <5>1. added'[k] = added[k] /\ k \in 1 .. Len(added)
          BY <2>6, <2>7, <4>1
        <5>2. SubOf[added[k]] = None /\ \E i, j : InWalk(i, j) /\ Behind(i, j) /\ FileAt(i, j) = added[k]
          BY <1>2, <5>1 DEF AddedOnce
        <5>3. QED
          BY <1>8, <1>9, <5>1, <5>2
      <4>2. CASE k = n + 1
        <5>1. PICK i, j : i = fi /\ j = wi
          OBVIOUS
        <5>2. InWalk(i, j)' /\ Behind(i, j)' /\ FileAt(i, j)' = f
          BY <1>6, <1>7, <1>8, <1>9, <5>1
        <5>3. added'[k] = f
          BY <2>7, <4>2
        <5>4. QED
          BY <1>13, <5>2, <5>3
      <4>3. QED
        BY <2>8, <4>1, <4>2
    <3>2. ASSUME NEW i, NEW j, InWalk(i, j)', Behind(i, j)', SubOf[FileAt(i, j)'] = None
          PROVE  \E k \in 1 .. n + 1 : added'[k] = FileAt(i, j)'
      <4>1. InWalk(i, j) /\ SubOf[FileAt(i, j)] = None /\ FileAt(i, j)' = FileAt(i, j)
        BY <1>8, <3>2
      <4>2. CASE Behind(i, j)
        <5>1. PICK k \in 1 .. n : added[k] = FileAt(i, j)
          BY <1>2, <2>6, <4>1, <4>2 DEF AddedOnce
        <5>2. QED
          BY <2>7, <2>9, <4>1, <5>1
      <4>3. CASE i = fi /\ j = wi
        BY <1>7, <2>7, <2>8, <4>1, <4>3
      <4>4. QED
        BY <1>9, <3>2, <4>1, <4>2, <4>3
    <3>3. \A k, l \in 1 .. n + 1 : added'[k] = added'[l] => k = l
      <4>1. \A k, l \in 1 .. n : added[k] = added[l] => k = l
        BY <1>2, <2>6 DEF AddedOnce
      <4>2. QED
        BY <2>7, <2>8, <2>10, <4>1
    <3>4. QED
      BY <2>7, <3>1, <3>2, <3>3 DEF AddedOnce
  <2>12. QED
    BY <1>1, <1>2, <1>11, <2>5, <2>7, <2>11 DEF Collected
<1>14. QED
  BY <1>12, <1>13

\* The next feature, and whatever comes after the walk.
LEMMA CollectedNext ==
    ASSUME Collected, Render!NextFeature
    PROVE  Collected'
<1>1. /\ renderPc = "walk" /\ fi <= Len(features) /\ fi' = fi + 1 /\ wi' = 1
      /\ features[fi] \in DOMAIN Walk => wi > Len(Walk[features[fi]])
      /\ UNCHANGED <<features, tree, added, renderPc>>
  BY DEF Render!NextFeature
<1>2. /\ features \in FeatureLists /\ fi \in Nat \ {0} /\ wi \in Nat \ {0} /\ added \in Seq(Files)
      /\ TreeBuilt /\ AddedOnce
  BY DEF Collected
<1>3. \A i, j : InWalk(i, j)' = InWalk(i, j) /\ FileAt(i, j)' = FileAt(i, j)
  BY <1>1 DEF InWalk, FileAt
<1>4. ASSUME NEW i, NEW j, InWalk(i, j) PROVE Behind(i, j)' <=> Behind(i, j)
  <2>1. i \in Nat /\ j \in Nat \ {0}
    BY <1>4 DEF InWalk
  <2>2. i = fi => j < wi
    <3>1. ASSUME i = fi PROVE j < wi
      <4>1. Len(Walk[features[fi]]) \in Nat /\ j \in 1 .. Len(Walk[features[fi]]) /\ wi > Len(Walk[features[fi]])
        BY <1>1, <1>4, <3>1, BundleTyped DEF InWalk
      <4>2. QED
        BY <1>2, <4>1
    <3>2. QED
      BY <3>1
  <2>3. Behind(i, j)' <=> i < fi + 1
    BY <1>1, <1>2, <2>1 DEF Behind
  <2>4. QED
    BY <1>2, <2>1, <2>2, <2>3 DEF Behind
<1>5. TreeBuilt'
  BY <1>1, <1>2 DEF TreeBuilt
<1>6. AddedOnce'
  <2>1. ASSUME NEW k \in 1 .. Len(added)
        PROVE  SubOf[added[k]] = None /\ \E i, j : InWalk(i, j)' /\ Behind(i, j)' /\ FileAt(i, j)' = added[k]
    BY <1>2, <1>3, <1>4 DEF AddedOnce
  <2>2. ASSUME NEW i, NEW j, InWalk(i, j)', Behind(i, j)', SubOf[FileAt(i, j)'] = None
        PROVE  \E k \in 1 .. Len(added) : added[k] = FileAt(i, j)'
    BY <1>2, <1>3, <1>4, <2>2 DEF AddedOnce
  <2>3. QED
    BY <1>1, <1>2, <2>1, <2>2 DEF AddedOnce
<1>7. fi' \in Nat \ {0}
  BY <1>1, <1>2
<1>8. QED
  BY <1>1, <1>2, <1>5, <1>6, <1>7 DEF Collected

LEMMA CollectedQuiet ==
    ASSUME Collected, UNCHANGED <<features, fi, wi, added, tree>>, renderPc # "walk" => renderPc' # "walk",
           renderPc' # "walk" => renderPc # "walk" \/ fi > Len(features)
    PROVE  Collected'
<1>1. TreeBuilt'
  BY DEF Collected, TreeBuilt
<1>2. AddedOnce'
  BY DEF Collected, AddedOnce, InWalk, FileAt, Behind
<1>3. QED
  BY <1>1, <1>2 DEF Collected

\* After the walk the files that were added are the templates.
LEMMA TemplatesAdded ==
    ASSUME Collected, renderPc # "walk", NEW f
    PROVE  f \in Render!Templates <=> \E k \in 1 .. Len(added) : added[k] = f
<1>1. /\ features \in FeatureLists /\ fi \in Nat \ {0} /\ wi \in Nat \ {0} /\ added \in Seq(Files)
      /\ AddedOnce /\ fi > Len(features)
  BY DEF Collected
<1>2. Len(features) \in Nat
  BY <1>1, BundleApart
<1>3. \A i, j : InWalk(i, j) => Behind(i, j)
  BY <1>1, <1>2 DEF InWalk, Behind
<1>4. Render!InFeature(f) <=> \E i, j : InWalk(i, j) /\ FileAt(i, j) = f
  BY DEF Render!InFeature, InWalk, FileAt
<1>5. ASSUME f \in Render!Templates PROVE \E k \in 1 .. Len(added) : added[k] = f
  <2>1. Render!InFeature(f) /\ SubOf[f] = None
    BY <1>5 DEF Render!Templates
  <2>2. QED
    BY <1>1, <1>3, <1>4, <2>1 DEF AddedOnce
<1>6. ASSUME NEW k \in 1 .. Len(added), added[k] = f PROVE f \in Render!Templates
  <2>1. f \in Files
    BY <1>1, <1>6
  <2>2. SubOf[f] = None /\ \E i, j : InWalk(i, j) /\ FileAt(i, j) = f
    BY <1>1, <1>6 DEF AddedOnce
  <2>3. QED
    BY <1>4, <2>1, <2>2 DEF Render!Templates
<1>7. QED
  BY <1>5, <1>6

Occurs(s, n) == \E i \in 1 .. Len(s) : s[i] = n

\* Render goes through the tree: the children of the nodes seen are seen or on the
\* agenda, on which siblings are in order.
Traversed(ag, t, seen) ==
    /\ seen \in SUBSET (1 .. Len(t)) /\ ag \in Seq(1 .. Len(t))
    /\ \A i, j \in 1 .. Len(ag) : ag[i] = ag[j] => i = j
    /\ \A i \in 1 .. Len(ag) : ag[i] \notin seen
    /\ 1 \in seen \/ Occurs(ag, 1)
    /\ \A n \in 2 .. Len(t) : (n \in seen \/ Occurs(ag, n)) <=> t[n].parent \in seen
    /\ \A i, j \in 1 .. Len(ag) : i < j /\ t[ag[i]].parent = t[ag[j]].parent => ag[i] < ag[j]
    /\ \A m \in seen : \A l \in 1 .. Len(t) : l < m /\ t[l].parent = t[m].parent => l \in seen
    /\ 1 \in seen => Kids(t, 1) # {}

\* ks are the children of n in order.
InOrder(ks, t, n) ==
    /\ ks \in Seq(1 .. Len(t))
    /\ \A k \in 1 .. Len(ks) : ks[k] \in Kids(t, n)
    /\ \A c \in Kids(t, n) : Occurs(ks, c)
    /\ \A k, l \in 1 .. Len(ks) : k < l => ks[k] < ks[l]

LEMMA ChildrenInOrder ==
    ASSUME NEW at, Placed(tree, at), NEW n
    PROVE  InOrder(Render!Children(n), tree, n)
<1> DEFINE S == Kids(tree, n)
<1>1. Len(tree) \in Nat /\ S \in SUBSET (1 .. Len(tree))
  BY DEF Placed, Kids
<1>2. S \in SUBSET Nat /\ IsFiniteSet(S)
  BY <1>1, PositionsFinite
<1>3. Render!Children(n) = Sorted(S)
  BY KidsOf, RenderSorted DEF Render!Children
<1> HIDE DEF S
<1>4. /\ Cardinality(S) \in Nat /\ Sorted(S) \in Seq(S) /\ Len(Sorted(S)) = Cardinality(S)
      /\ \A k, l \in 1 .. Cardinality(S) : k < l => Sorted(S)[k] < Sorted(S)[l]
      /\ \A i \in S : \E k \in 1 .. Cardinality(S) : Sorted(S)[k] = i
  BY <1>2, SortedSet
<1> DEFINE c == Sorted(S)
<1> HIDE DEF c
<1>5. c \in Seq(S) /\ c \in Seq(1 .. Len(tree)) /\ \A k \in 1 .. Len(c) : c[k] \in S
  <2>1. c \in Seq(S)
    BY <1>4 DEF c
  <2>2. PICK T : T = 1 .. Len(tree)
    OBVIOUS
  <2>3. \A k \in 1 .. Len(c) : c[k] \in S
    BY <2>1
  <2>4. c \in Seq(T)
    <3>1. \A k \in 1 .. Len(c) : c[k] \in T
      BY <1>1, <2>2, <2>3
    <3>2. Len(c) \in Nat /\ c = [k \in 1 .. Len(c) |-> c[k]]
      BY <2>1
    <3>3. c \in [1 .. Len(c) -> T]
      BY <3>1, <3>2
    <3>4. QED
      BY <3>2, <3>3
  <2>5. QED
    BY <2>1, <2>2, <2>3, <2>4
<1>6. /\ \A k, l \in 1 .. Len(c) : k < l => c[k] < c[l]
      /\ \A i \in S : \E k \in 1 .. Len(c) : c[k] = i
  BY <1>4 DEF c
<1>7. InOrder(c, tree, n)
  BY <1>5, <1>6 DEF InOrder, S, Occurs
<1>8. QED
  BY <1>3, <1>7 DEF c

\* The node in front is seen and replaced by its children.
LEMMA TraversedStep ==
    ASSUME NEW t, NEW at, Placed(t, at), NEW ag, NEW seen, Traversed(ag, t, seen), ag # <<>>,
           NEW ks, InOrder(ks, t, ag[1]), ag[1] = 1 => Kids(t, 1) # {}
    PROVE  Traversed(ks \o Tail(ag), t, seen \union {ag[1]}) /\ ag[1] \in 1 .. Len(t) /\ ag[1] \notin seen
<1> DEFINE a == ag[1]
           rest == Tail(ag)
           q == ks \o rest
           more == seen \union {a}
<1>1. ag \in Seq(1 .. Len(t)) /\ ks \in Seq(1 .. Len(t)) /\ seen \in SUBSET (1 .. Len(t))
  BY DEF Traversed, InOrder
<1>2. /\ Len(ag) \in Nat \ {0} /\ rest \in Seq(1 .. Len(t)) /\ Len(rest) = Len(ag) - 1 /\ Len(rest) \in Nat
      /\ \A j \in 1 .. Len(rest) : rest[j] = ag[j + 1] /\ j + 1 \in 1 .. Len(ag) /\ j + 1 # 1
      /\ 1 \in 1 .. Len(ag)
  BY <1>1
<1>3. a \in 1 .. Len(t) /\ Len(t) \in Nat
  BY <1>1, <1>2 DEF Placed
<1>4. \A n : Occurs(ag, n) <=> n = a \/ Occurs(rest, n)
  <2>1. ASSUME NEW n, Occurs(ag, n) PROVE n = a \/ Occurs(rest, n)
    <3>1. PICK i \in 1 .. Len(ag) : ag[i] = n
      BY <2>1 DEF Occurs
    <3>2. i = 1 \/ (i - 1 \in 1 .. Len(rest) /\ (i - 1) + 1 = i)
      BY <1>2
    <3>3. QED
      BY <1>2, <3>1, <3>2 DEF Occurs
  <2>2. ASSUME NEW n, Occurs(rest, n) PROVE Occurs(ag, n)
    BY <1>2, <2>2 DEF Occurs
  <2>3. Occurs(ag, a)
    BY <1>2 DEF Occurs
  <2>4. QED
    BY <2>1, <2>2, <2>3
<1> HIDE DEF rest
<1>5. /\ q \in Seq(1 .. Len(t)) /\ Len(ks) \in Nat /\ Len(q) = Len(ks) + Len(rest)
      /\ \A i \in 1 .. Len(ks) : q[i] = ks[i]
      /\ \A j \in 1 .. Len(rest) : q[Len(ks) + j] = rest[j]
  <2>1. rest \in Seq(1 .. Len(t)) /\ ks \in Seq(1 .. Len(t))
    BY <1>1, <1>2
  <2>2. QED
    BY <2>1, Joining
<1> HIDE DEF q
<1>6. \A i \in 1 .. Len(q) : i \in 1 .. Len(ks) \/ \E j \in 1 .. Len(rest) : i = Len(ks) + j
  <2>1. ASSUME NEW i \in 1 .. Len(q), i \notin 1 .. Len(ks) PROVE \E j \in 1 .. Len(rest) : i = Len(ks) + j
    <3>1. i - Len(ks) \in 1 .. Len(rest) /\ i = Len(ks) + (i - Len(ks))
      BY <1>2, <1>5, <2>1
    <3>2. QED
      BY <3>1
  <2>2. QED
    BY <2>1
<1>7. \A n : Occurs(q, n) <=> n \in Kids(t, a) \/ Occurs(rest, n)
  <2>1. ASSUME NEW n, Occurs(q, n) PROVE n \in Kids(t, a) \/ Occurs(rest, n)
    <3>1. PICK i \in 1 .. Len(q) : q[i] = n
      BY <2>1 DEF Occurs
    <3>2. CASE i \in 1 .. Len(ks)
      BY <1>5, <3>1, <3>2 DEF InOrder
    <3>3. ASSUME NEW j \in 1 .. Len(rest), i = Len(ks) + j PROVE Occurs(rest, n)
      BY <1>5, <3>1, <3>3 DEF Occurs
    <3>4. QED
      BY <1>6, <3>2, <3>3
  <2>2. ASSUME NEW n \in Kids(t, a) PROVE Occurs(q, n)
    <3>1. PICK i \in 1 .. Len(ks) : ks[i] = n
      BY DEF InOrder, Occurs
    <3>2. i \in 1 .. Len(q)
      BY <1>2, <1>5
    <3>3. QED
      BY <1>5, <3>1, <3>2 DEF Occurs
  <2>3. ASSUME NEW n, Occurs(rest, n) PROVE Occurs(q, n)
    <3>1. PICK j \in 1 .. Len(rest) : rest[j] = n
      BY <2>3 DEF Occurs
    <3>2. Len(ks) + j \in 1 .. Len(q)
      BY <1>2, <1>5
    <3>3. QED
      BY <1>5, <3>1, <3>2 DEF Occurs
  <2>4. QED
    BY <2>1, <2>2, <2>3
<1>8. a \notin seen /\ \A n : Occurs(rest, n) => n \notin seen /\ n # a /\ n \in 1 .. Len(t)
  <2>1. a \notin seen
    BY <1>2 DEF Traversed
  <2>2. ASSUME NEW j \in 1 .. Len(rest) PROVE rest[j] \notin seen /\ rest[j] # a /\ rest[j] \in 1 .. Len(t)
    <3>1. PICK i \in 1 .. Len(ag) : rest[j] = ag[i] /\ i # 1
      BY <1>2
    <3>2. ag[i] \notin seen /\ (ag[i] = ag[1] => i = 1)
      BY <1>2 DEF Traversed
    <3>3. rest[j] \in 1 .. Len(t)
      BY <1>2
    <3>4. QED
      BY <3>1, <3>2, <3>3
  <2>3. QED
    BY <2>1, <2>2 DEF Occurs
<1>9. /\ t[1].parent = 0 /\ \A n \in 2 .. Len(t) : t[n].parent \in 1 .. n - 1
      /\ \A n \in 1 .. Len(t) : n = 1 \/ n \in 2 .. Len(t)
  BY <1>3 DEF Placed, Render!Root
<1>10. \A n \in Kids(t, a) : n \in 2 .. Len(t) /\ t[n].parent = a /\ n # a
  <2>1. ASSUME NEW n \in Kids(t, a) PROVE n \in 2 .. Len(t) /\ t[n].parent = a /\ n # a
    <3>1. n \in 1 .. Len(t) /\ t[n].parent = a
      BY DEF Kids
    <3>2. n \in 2 .. Len(t)
      BY <1>3, <1>9, <3>1
    <3>3. a \in 1 .. n - 1
      BY <1>9, <3>1, <3>2
    <3>4. QED
      BY <3>1, <3>2, <3>3
  <2>2. QED
    BY <2>1
<1>11. \A n \in 2 .. Len(t) : (n \in seen \/ n = a \/ Occurs(rest, n)) <=> t[n].parent \in seen
  BY <1>4 DEF Traversed
<1>12. \A n \in Kids(t, a) : n \notin seen /\ ~Occurs(rest, n)
  BY <1>8, <1>10, <1>11
<1>13. \A i, j \in 1 .. Len(q) : q[i] = q[j] => i = j
  <2>1. \A k \in 1 .. Len(ks) : ks[k] \in Kids(t, a) /\ ks[k] \in Nat
    BY <1>1 DEF InOrder
  <2>2. \A k, l \in 1 .. Len(ks) : ks[k] = ks[l] => k = l
    <3>1. ASSUME NEW k \in 1 .. Len(ks), NEW l \in 1 .. Len(ks), ks[k] = ks[l] PROVE k = l
      <4>1. ~(k < l) /\ ~(l < k)
        BY <2>1, <3>1 DEF InOrder
      <4>2. QED
        BY <4>1
    <3>2. QED
      BY <3>1
  <2>3. \A k, l \in 1 .. Len(rest) : rest[k] = rest[l] => k = l
    <3>1. ASSUME NEW k \in 1 .. Len(rest), NEW l \in 1 .. Len(rest), rest[k] = rest[l] PROVE k = l
      <4>1. ag[k + 1] = ag[l + 1] /\ k + 1 \in 1 .. Len(ag) /\ l + 1 \in 1 .. Len(ag)
        BY <1>2, <3>1
      <4>2. k + 1 = l + 1
        BY <4>1 DEF Traversed
      <4>3. QED
        BY <4>2
    <3>2. QED
      BY <3>1
  <2>4. \A k \in 1 .. Len(ks) : \A l \in 1 .. Len(rest) : ks[k] # rest[l]
    BY <1>12, <2>1 DEF Occurs
  <2>5. ASSUME NEW i \in 1 .. Len(q), NEW j \in 1 .. Len(q), q[i] = q[j] PROVE i = j
    <3>1. CASE i \in 1 .. Len(ks) /\ j \in 1 .. Len(ks)
      BY <1>5, <2>2, <2>5, <3>1
    <3>2. ASSUME NEW k \in 1 .. Len(rest), i = Len(ks) + k, j \in 1 .. Len(ks) PROVE FALSE
      BY <1>5, <2>4, <2>5, <3>2
    <3>3. ASSUME NEW k \in 1 .. Len(rest), j = Len(ks) + k, i \in 1 .. Len(ks) PROVE FALSE
      BY <1>5, <2>4, <2>5, <3>3
    <3>4. ASSUME NEW k \in 1 .. Len(rest), NEW l \in 1 .. Len(rest), i = Len(ks) + k, j = Len(ks) + l
          PROVE  i = j
      <4>1. rest[k] = rest[l]
        BY <1>5, <2>5, <3>4
      <4>2. QED
        BY <2>3, <3>4, <4>1
    <3>5. QED
      BY <1>6, <3>1, <3>2, <3>3, <3>4
  <2>6. QED
    BY <2>5
<1>14. \A i \in 1 .. Len(q) : q[i] \notin more
  <2>1. \A i \in 1 .. Len(q) : Occurs(q, q[i])
    BY DEF Occurs
  <2>2. \A n : Occurs(q, n) => n \notin more
    BY <1>7, <1>8, <1>10, <1>12
  <2>3. QED
    BY <2>1, <2>2
<1>15. 1 \in more \/ Occurs(q, 1)
  BY <1>4, <1>7 DEF Traversed
<1>16. \A n \in 2 .. Len(t) : (n \in more \/ Occurs(q, n)) <=> t[n].parent \in more
  <2>1. ASSUME NEW n \in 2 .. Len(t) PROVE (n \in more \/ Occurs(q, n)) <=> t[n].parent \in more
    <3>1. n \in Kids(t, a) <=> t[n].parent = a
      BY <1>9 DEF Kids
    <3>2. QED
      BY <1>7, <1>11, <3>1
  <2>2. QED
    BY <2>1
<1>17. \A n : Occurs(rest, n) => t[n].parent # a
  <2>1. ASSUME NEW n, Occurs(rest, n), t[n].parent = a PROVE FALSE
    <3>1. n \in 1 .. Len(t)
      BY <1>8, <2>1
    <3>2. n \in 2 .. Len(t)
      BY <1>3, <1>9, <2>1, <3>1
    <3>3. QED
      BY <1>8, <1>11, <2>1, <3>2
  <2>2. QED
    BY <2>1
<1>18. ASSUME NEW i \in 1 .. Len(q), NEW j \in 1 .. Len(q), i < j, t[q[i]].parent = t[q[j]].parent
       PROVE  q[i] < q[j]
  <2>1. \A k \in 1 .. Len(ks) : t[ks[k]].parent = a
    BY <1>10 DEF InOrder
  <2>2. \A k \in 1 .. Len(rest) : t[rest[k]].parent # a
    BY <1>17 DEF Occurs
  <2>3. CASE i \in 1 .. Len(ks) /\ j \in 1 .. Len(ks)
    BY <1>5, <1>18, <2>3 DEF InOrder
  <2>4. ASSUME NEW k \in 1 .. Len(rest), i = Len(ks) + k, j \in 1 .. Len(ks) PROVE FALSE
    BY <1>5, <1>18, <2>1, <2>2, <2>4
  <2>5. ASSUME NEW k \in 1 .. Len(rest), j = Len(ks) + k, i \in 1 .. Len(ks) PROVE FALSE
    BY ZenonT(60), <1>5, <1>18, <2>1, <2>2, <2>5
  <2>6. ASSUME NEW k \in 1 .. Len(rest), NEW l \in 1 .. Len(rest), i = Len(ks) + k, j = Len(ks) + l
        PROVE  q[i] < q[j]
    <3>1. k + 1 \in 1 .. Len(ag) /\ l + 1 \in 1 .. Len(ag) /\ q[i] = ag[k + 1] /\ q[j] = ag[l + 1]
      BY <1>2, <1>5, <2>6
    <3>2. k + 1 < l + 1
      BY <1>5, <1>18, <2>6
    <3>3. QED
      BY <1>18, <3>1, <3>2 DEF Traversed
  <2>7. QED
    BY <1>6, <2>3, <2>4, <2>5, <2>6
<1>19. ASSUME NEW l \in 1 .. Len(t), l < a, t[l].parent = t[a].parent PROVE l \in seen
  <2>1. a \in 2 .. Len(t)
    BY <1>3, <1>9, <1>19
  <2>2. t[a].parent \in 1 .. a - 1 /\ t[a].parent \in seen
    BY <1>9, <1>11, <2>1
  <2>3. l \in 2 .. Len(t)
    BY <1>3, <1>9, <1>19, <2>2
  <2>4. SUFFICES ASSUME Occurs(rest, l) PROVE FALSE
    BY <1>3, <1>11, <1>19, <2>2, <2>3
  <2>5. PICK j \in 1 .. Len(rest) : rest[j] = l
    BY <2>4 DEF Occurs
  <2>6. j + 1 \in 1 .. Len(ag) /\ ag[j + 1] = l /\ 1 < j + 1
    BY <1>2, <2>5
  <2>7. a < l
    BY <1>2, <1>19, <2>6 DEF Traversed
  <2>8. QED
    BY <1>3, <1>19, <2>7
<1>20. \A m \in more : \A l \in 1 .. Len(t) : l < m /\ t[l].parent = t[m].parent => l \in more
  BY <1>19 DEF Traversed
<1>21. 1 \in more => Kids(t, 1) # {}
  BY DEF Traversed
<1>22. more \in SUBSET (1 .. Len(t))
  BY <1>1, <1>3
<1>23. Traversed(q, t, more)
  <2> HIDE DEF more
  <2>1. QED
    BY <1>5, <1>13, <1>14, <1>15, <1>16, <1>18, <1>20, <1>21, <1>22 DEF Traversed
<1>24. QED
  BY <1>3, <1>8, <1>23 DEF q, rest

\* With an empty agenda all nodes are seen: the first that is not has a parent that is.
LEMMA AllSeen ==
    ASSUME NEW t, NEW at, Placed(t, at), NEW seen, Traversed(<<>>, t, seen)
    PROVE  seen = 1 .. Len(t)
<1>1. Len(t) \in Nat /\ seen \in SUBSET (1 .. Len(t)) /\ \A n : ~Occurs(<<>>, n)
  BY DEF Placed, Traversed, Occurs
<1> DEFINE B == (1 .. Len(t)) \ seen
<1>2. SUFFICES ASSUME B # {} PROVE FALSE
  BY <1>1
<1>3. PICK n \in B : \A m \in B : n <= m
  <2>1. B \in SUBSET (1 .. Len(t))
    OBVIOUS
  <2> HIDE DEF B
  <2>2. B \in SUBSET Nat /\ IsFiniteSet(B)
    BY <1>1, <2>1, PositionsFinite
  <2>3. QED
    BY <1>2, <2>2, SmallestMember
<1>4. n # 1
  BY <1>1, <1>3 DEF Traversed
<1>5. n \in 2 .. Len(t)
  BY <1>1, <1>3, <1>4
<1>6. t[n].parent \in 1 .. n - 1
  BY <1>5 DEF Placed
<1>7. t[n].parent \in seen
  BY <1>1, <1>3, <1>5, <1>6
<1>8. n \in seen
  BY <1>1, <1>5, <1>7 DEF Traversed
<1>9. QED
  BY <1>3, <1>8

\* The files written: those of the leaves seen, the last one with the path.
Written(o, t, seen) ==
    /\ \A p : p \in DOMAIN o <=> \E n \in seen \intersect Leaves(t) : t[n].path = p
    /\ \A p \in DOMAIN o : \E m \in seen \intersect Leaves(t) :
          /\ t[m].path = p /\ o[p].from = Render!Executed(t[m].parses)
          /\ \A l \in seen \intersect Leaves(t) : t[l].path = p => l <= m

\* Leaves with one path are siblings.
LEMMA SamePathSiblings ==
    ASSUME NEW t, NEW at, Placed(t, at), NEW l \in Leaves(t), NEW m \in Leaves(t), t[l].path = t[m].path
    PROVE  t[l].parent = t[m].parent
<1>1. l \in 2 .. Len(t) /\ m \in 2 .. Len(t) /\ at[l] = at[m]
  BY DEF Leaves, Placed
<1>2. PICK a, b, x, y : a = at[t[l].parent] /\ b = at[t[m].parent] /\ x = t[l].name /\ y = t[m].name
  OBVIOUS
<1>3. a \in PathNames /\ b \in PathNames /\ x \in Name /\ y \in Name /\ Below(a, x) = Below(b, y)
  BY <1>1, <1>2, ParentFolder
<1>4. a = b
  BY <1>3, NameAdded
<1>5. t[l].parent \in Folders(t) /\ t[m].parent \in Folders(t)
  BY <1>1, ParentFolder
<1>6. QED
  BY <1>2, <1>4, <1>5 DEF Placed

\* Writing the leaf in front of the agenda.
LEMMA WrittenStep ==
    ASSUME NEW t, NEW at, Placed(t, at), NEW ag, NEW seen, Traversed(ag, t, seen), NEW o, Written(o, t, seen),
           NEW a \in Leaves(t), a \notin seen, NEW o2, NEW path, path = t[a].path,
           DOMAIN o2 = DOMAIN o \union {path}, o2[path].from = Render!Executed(t[a].parses),
           \A p \in DOMAIN o \ {path} : o2[p] = o[p]
    PROVE  Written(o2, t, seen \union {a})
<1> DEFINE S == seen \intersect Leaves(t)
           T == (seen \union {a}) \intersect Leaves(t)
<1>1. T = S \union {a} /\ a \notin S /\ \A n \in T : n \in Nat
  BY DEF Leaves
<1>2. ASSUME NEW l \in S, t[l].path = path PROVE l <= a
  <2>1. l \in 1 .. Len(t) /\ a \in 1 .. Len(t) /\ l \in seen /\ l \in Leaves(t) /\ Len(t) \in Nat
    BY DEF Leaves, Placed
  <2>2. t[l].parent = t[a].parent
    BY <1>2, <2>1, SamePathSiblings
  <2>3. a < l => a \in seen
    BY <2>1, <2>2 DEF Traversed
  <2>4. QED
    BY <2>1, <2>3
<1>3. a <= a
  BY <1>1
<1> HIDE DEF S, T
<1>4. \A p : p \in DOMAIN o <=> \E n \in S : t[n].path = p
  BY DEF Written, S
<1>5. \A p \in DOMAIN o : \E m \in S :
          /\ t[m].path = p /\ o[p].from = Render!Executed(t[m].parses)
          /\ \A l \in S : t[l].path = p => l <= m
  BY DEF Written, S
<1>6. \A p : p \in DOMAIN o2 <=> \E n \in T : t[n].path = p
  BY <1>1, <1>4
<1>7. ASSUME NEW p \in DOMAIN o2
      PROVE  \E m \in T : /\ t[m].path = p /\ o2[p].from = Render!Executed(t[m].parses)
                          /\ \A l \in T : t[l].path = p => l <= m
  <2>1. CASE p = path
    BY <1>1, <1>2, <1>3, <2>1
  <2>2. CASE p # path
    <3>1. p \in DOMAIN o /\ o2[p] = o[p]
      BY <2>2
    <3>2. PICK m \in S : /\ t[m].path = p /\ o[p].from = Render!Executed(t[m].parses)
                         /\ \A l \in S : t[l].path = p => l <= m
      BY <1>5, <3>1
    <3>3. QED
      BY <1>1, <2>2, <3>1, <3>2
  <2>3. QED
    BY <2>1, <2>2
<1>8. QED
  BY <1>6, <1>7 DEF Written, T

\* Every file comes from a leaf with its path.
FromLeaves(o, t) ==
    \A p \in DOMAIN o : \E m \in Leaves(t) : t[m].path = p /\ o[p].from = Render!Executed(t[m].parses)

\* The scripts are executable, and no other files.
ScriptsOf(o) == \A p \in DOMAIN o : o[p].exec <=> p[Len(p)] \in ScriptNames

LEMMA WrittenFrom == ASSUME NEW o, NEW t, NEW seen, Written(o, t, seen) PROVE FromLeaves(o, t)
BY DEF Written, FromLeaves

\* A leaf's path ends in its name.
LEMMA LeafNamed ==
    ASSUME NEW t, NEW at, Placed(t, at), NEW a \in Leaves(t)
    PROVE  t[a].path[Len(t[a].path)] = t[a].name
<1>1. PICK s, x, path : s = at[t[a].parent] /\ x = t[a].name /\ path = t[a].path
  OBVIOUS
<1>2. s \in PathNames /\ x \in Name /\ path = Below(s, x)
  <2>1. a \in 2 .. Len(t) /\ at[a] = t[a].path
    BY DEF Leaves, Placed
  <2>2. t[a].parent \in 1 .. Len(t)
    BY <2>1, ParentFolder DEF Folders
  <2>3. QED
    BY <1>1, <2>1, <2>2 DEF Placed
<1>3. path[Len(path)] = x
  BY <1>2, Appended DEF Below, PathNames
<1>4. QED
  BY <1>1, <1>3

\* What has been rendered so far.
Progress(seen) ==
    /\ renderPc # "error" => Written(out, tree, seen) /\ torn = {} /\ ScriptsOf(out)
    /\ FromLeaves(out, tree)
    /\ renderPc = "walk" => seen = {}
    /\ renderPc \in {"walk", "render", "ok"} =>
          (\E S : rendered \in Seq(S)) /\ Len(rendered) = Cardinality(seen \intersect Leaves(tree))
    /\ renderPc \in {"render", "ok"} => Traversed(agenda, tree, seen)
    /\ renderPc = "ok" => agenda = <<>>

RenderingInv == Collected /\ \E seen : Progress(seen)

LEMMA NothingWritten == ASSUME NEW t PROVE Written(<<>>, t, {})
<1>1. DOMAIN <<>> = {}
  OBVIOUS
<1>2. QED
  BY <1>1 DEF Written

LEMMA NothingRendered ==
    (\E S : <<>> \in Seq(S)) /\ \A t : Len(<<>>) = Cardinality({} \intersect Leaves(t))
<1>1. <<>> \in Seq({}) /\ Len(<<>>) = 0
  OBVIOUS
<1>2. \A t : {} \intersect Leaves(t) = {}
  OBVIOUS
<1>3. Cardinality({}) = 0
  BY FS_EmptySet
<1>4. QED
  BY <1>1, <1>2, <1>3

LEMMA RenderingInit == ASSUME Render!Init PROVE RenderingInv
<1>1. renderPc = "walk" /\ out = <<>> /\ rendered = <<>> /\ torn = {}
  BY DEF Render!Init
<1>2. Written(out, tree, {}) /\ FromLeaves(out, tree) /\ ScriptsOf(out)
  <2>1. Written(out, tree, {}) /\ DOMAIN out = {}
    BY <1>1, NothingWritten
  <2>2. QED
    BY <2>1 DEF FromLeaves, ScriptsOf
<1>3. Progress({})
  BY <1>1, <1>2, NothingRendered DEF Progress
<1>4. QED
  BY <1>3, CollectedInit DEF RenderingInv

LEMMA RenderingWalk ==
    ASSUME RenderingInv, Render!WalkFile \/ Render!NextFeature
    PROVE  RenderingInv'
<1>1. Collected'
  BY CollectedWalk, CollectedNext DEF RenderingInv
<1>2. renderPc = "walk" /\ renderPc' = "walk" /\ UNCHANGED <<out, torn, rendered>>
  BY DEF Render!WalkFile, Render!NextFeature
<1>3. Progress({})
  <2>1. PICK seen : Progress(seen)
    BY DEF RenderingInv
  <2>2. seen = {}
    BY <1>2, <2>1 DEF Progress
  <2>3. QED
    BY <2>1, <2>2
<1>4. Written(out', tree', {}) /\ FromLeaves(out', tree') /\ ScriptsOf(out')
  <2>1. Written(out', tree', {})
    BY <1>2, <1>3 DEF Progress, Written
  <2>2. QED
    BY <1>2, <1>3, <2>1, WrittenFrom DEF Progress
<1>5. \A t : {} \intersect Leaves(t) = {}
  OBVIOUS
<1>6. Progress({})'
  BY <1>2, <1>3, <1>4, <1>5 DEF Progress
<1>7. QED
  BY <1>1, <1>6 DEF RenderingInv

LEMMA RenderingBegin == ASSUME RenderingInv, Render!BeginRender PROVE RenderingInv'
<1>1. /\ renderPc = "walk" /\ fi > Len(features) /\ renderPc' = "render" /\ agenda' = <<1>>
      /\ UNCHANGED <<features, fi, wi, added, tree, rendered, out, torn>>
  BY DEF Render!BeginRender
<1>2. Collected'
  BY <1>1, CollectedQuiet DEF RenderingInv
<1>3. Progress({})
  <2>1. PICK seen : Progress(seen)
    BY DEF RenderingInv
  <2>2. seen = {}
    BY <1>1, <2>1 DEF Progress
  <2>3. QED
    BY <2>1, <2>2
<1>4. PICK at : Placed(tree, at)
  BY DEF RenderingInv, Collected, TreeBuilt
<1>5. Traversed(<<1>>, tree, {})
  <2>1. Len(tree) \in Nat /\ 1 \in 1 .. Len(tree)
    BY <1>4 DEF Placed
  <2>2. PICK ag : ag = <<1>>
    OBVIOUS
  <2>3. ag \in Seq(1 .. Len(tree)) /\ Len(ag) = 1 /\ ag[1] = 1
    BY <2>1, <2>2
  <2>4. \A n : Occurs(ag, n) <=> n = 1
    BY <2>3 DEF Occurs
  <2>5. \A i \in 1 .. Len(ag) : i = 1
    BY <2>3
  <2>6. \A n \in 2 .. Len(tree) : n # 1
    OBVIOUS
  <2>7. QED
    BY <2>2, <2>3, <2>4, <2>5, <2>6 DEF Traversed
<1>6. Progress({})'
  BY <1>1, <1>3, <1>5 DEF Progress
<1>7. QED
  BY <1>2, <1>6 DEF RenderingInv

LEMMA RenderingDescend == ASSUME RenderingInv, Render!Descend PROVE RenderingInv'
<1>1. /\ renderPc = "render" /\ renderPc' = "render" /\ agenda # <<>>
      /\ UNCHANGED <<features, fi, wi, added, tree, rendered, out, torn>>
      /\ Render!Node.name \in DotD \/ Render!ChildrenOf(agenda[1]) # {}
      /\ agenda' = (IF Render!Node.name \in DotD THEN <<>> ELSE Render!Children(agenda[1])) \o Tail(agenda)
  BY DEF Render!Descend, Render!Visiting
<1>2. Collected'
  BY <1>1, CollectedQuiet DEF RenderingInv
<1>3. PICK seen : Progress(seen)
  BY DEF RenderingInv
<1>4. PICK at : Placed(tree, at)
  BY DEF RenderingInv, Collected, TreeBuilt
<1>5. Traversed(agenda, tree, seen)
  BY <1>1, <1>3 DEF Progress
<1>6. PICK t, ag, a : t = tree /\ ag = agenda /\ a = agenda[1]
  OBVIOUS
<1>7. a \in 1 .. Len(tree)
  <2>1. agenda \in Seq(1 .. Len(tree))
    BY <1>5 DEF Traversed
  <2>2. QED
    BY <1>1, <1>6, <2>1
<1>8. Render!Node.name \notin DotD
  BY <1>4, <1>6, <1>7 DEF Placed, Render!Node
<1>9. Kids(tree, a) # {}
  BY <1>1, <1>6, <1>8, KidsOf
<1>10. PICK ks : ks = Render!Children(a)
  OBVIOUS
<1>11. agenda' = ks \o Tail(ag) /\ InOrder(ks, t, ag[1])
  BY <1>1, <1>4, <1>6, <1>8, <1>10, ChildrenInOrder
<1>12. Traversed(ks \o Tail(ag), t, seen \union {ag[1]})
  <2>1. ag # <<>> /\ Placed(t, at) /\ Traversed(ag, t, seen) /\ (ag[1] = 1 => Kids(t, 1) # {})
    BY <1>1, <1>4, <1>5, <1>6, <1>9
  <2>2. QED
    BY <1>11, <2>1, TraversedStep
<1>13. a \notin Leaves(t)
  BY <1>6, <1>9 DEF Leaves
<1>14. (seen \union {a}) \intersect Leaves(t) = seen \intersect Leaves(t)
  BY <1>13
<1>15. Written(out, t, seen \union {a})
  <2>1. Written(out, t, seen)
    BY <1>1, <1>3, <1>6 DEF Progress
  <2>2. PICK V : V = seen \union {a}
    OBVIOUS
  <2>3. V \intersect Leaves(t) = seen \intersect Leaves(t)
    BY <1>14, <2>2
  <2>4. Written(out, t, V)
    BY <2>1, <2>3 DEF Written
  <2>5. QED
    BY <2>2, <2>4
<1>16. FromLeaves(out', tree') /\ ScriptsOf(out') /\ torn' = {} /\ Written(out', tree', seen \union {a})
  <2>1. FromLeaves(out, tree) /\ ScriptsOf(out) /\ torn = {}
    BY <1>1, <1>3 DEF Progress
  <2>2. out' = out /\ tree' = tree /\ torn' = torn
    BY <1>1
  <2>3. PICK o : o = out
    OBVIOUS
  <2>4. FromLeaves(o, t) /\ ScriptsOf(o) /\ Written(o, t, seen \union {a})
    BY <1>6, <1>15, <2>1, <2>3
  <2>5. out' = o /\ tree' = t
    BY <1>6, <2>2, <2>3
  <2>6. QED
    BY <2>1, <2>2, <2>4, <2>5
<1>17. Traversed(agenda', tree', seen \union {a})
  <2>1. agenda' = ks \o Tail(ag) /\ tree' = t /\ ag[1] = a
    BY <1>1, <1>6, <1>11
  <2>2. QED
    BY <1>12, <2>1
<1>18. (\E S : rendered' \in Seq(S)) /\ Len(rendered') = Cardinality((seen \union {a}) \intersect Leaves(tree'))
  <2>1. (\E S : rendered \in Seq(S)) /\ Len(rendered) = Cardinality(seen \intersect Leaves(tree))
    BY <1>1, <1>3 DEF Progress
  <2>2. rendered' = rendered /\ tree' = t /\ tree = t
    BY <1>1, <1>6
  <2>3. QED
    BY <1>14, <2>1, <2>2
<1>19. Progress(seen \union {a})'
  BY <1>1, <1>16, <1>17, <1>18 DEF Progress
<1>20. QED
  BY <1>2, <1>19 DEF RenderingInv

LEMMA RenderingLeaf == ASSUME RenderingInv, Render!RenderLeaf PROVE RenderingInv'
<1>1. PICK t, ag, a, path : t = tree /\ ag = agenda /\ a = agenda[1] /\ path = Render!Node.path
  OBVIOUS
<1>2. /\ renderPc = "render" /\ renderPc' = "render" /\ ag # <<>>
      /\ UNCHANGED <<features, fi, wi, added, tree, torn>>
      /\ Render!ChildrenOf(a) = {} /\ a \in 2 .. Len(t) /\ agenda' = Tail(ag)
      /\ rendered' = Append(rendered, path)
  BY <1>1 DEF Render!RenderLeaf, Render!WritesLeaf, Render!AtLeaf, Render!Visiting
<1>3. out' = [p \in DOMAIN out \union {path} |->
                 IF p = path THEN [from |-> Render!Executed(t[a].parses), exec |-> Render!Node.name \in ScriptNames]
                 ELSE out[p]]
  BY <1>1 DEF Render!RenderLeaf, Render!WithFile, Render!Node
<1>4. /\ DOMAIN out' = DOMAIN out \union {path} /\ out'[path].from = Render!Executed(t[a].parses)
      /\ out'[path].exec = (Render!Node.name \in ScriptNames)
      /\ \A p \in DOMAIN out \ {path} : out'[p] = out[p]
  BY <1>3
<1>5. Collected'
  BY <1>2, CollectedQuiet DEF RenderingInv
<1>6. PICK seen : Progress(seen)
  BY DEF RenderingInv
<1>7. PICK at : Placed(t, at)
  BY <1>1 DEF RenderingInv, Collected, TreeBuilt
<1>8. Traversed(ag, t, seen) /\ Written(out, t, seen) /\ ag[1] = a /\ path = t[a].path
  BY <1>1, <1>2, <1>6 DEF Progress, Render!Node
<1>9. a \in Leaves(t) /\ Kids(t, a) = {}
  BY <1>1, <1>2, KidsOf DEF Leaves
<1>10. Traversed(Tail(ag), t, seen \union {a}) /\ a \notin seen
  <2>1. InOrder(<<>>, t, ag[1])
    BY <1>8, <1>9 DEF InOrder
  <2>2. ag[1] # 1
    BY <1>2, <1>8
  <2>3. Traversed(<<>> \o Tail(ag), t, seen \union {ag[1]}) /\ ag[1] \notin seen
    BY <1>2, <1>7, <1>8, <2>1, <2>2, TraversedStep
  <2>4. <<>> \o Tail(ag) = Tail(ag)
    <3>1. ag \in Seq(1 .. Len(t))
      BY <1>8 DEF Traversed
    <3>2. Tail(ag) \in Seq(1 .. Len(t))
      BY <1>2, <3>1
    <3>3. QED
      BY <3>2
  <2>5. QED
    BY <1>8, <2>3, <2>4
<1>11. PICK o, o2 : o = out /\ o2 = out'
  OBVIOUS
<1>12. Written(o2, t, seen \union {a})
  <2>1. /\ DOMAIN o2 = DOMAIN o \union {path} /\ o2[path].from = Render!Executed(t[a].parses)
        /\ \A p \in DOMAIN o \ {path} : o2[p] = o[p]
    BY <1>4, <1>11
  <2>2. Written(o, t, seen)
    BY <1>8, <1>11
  <2>3. QED
    BY <1>7, <1>8, <1>9, <1>10, <2>1, <2>2, WrittenStep
<1>13. /\ \E S : rendered' \in Seq(S)
       /\ Len(rendered') = Cardinality((seen \union {a}) \intersect Leaves(t))
  <2>1. PICK S : rendered \in Seq(S)
    BY <1>2, <1>6 DEF Progress
  <2>2. Len(rendered) = Cardinality(seen \intersect Leaves(t))
    BY <1>1, <1>2, <1>6 DEF Progress
  <2>3. PICK U : U = S \union {path}
    OBVIOUS
  <2>4. rendered \in Seq(U) /\ path \in U
    BY <2>1, <2>3
  <2>5. rendered' \in Seq(U) /\ Len(rendered') = Len(rendered) + 1
    BY <1>2, <2>4
  <2> DEFINE V == seen \intersect Leaves(t)
  <2>6. (seen \union {a}) \intersect Leaves(t) = V \union {a} /\ a \notin V
    BY <1>9, <1>10
  <2>7. IsFiniteSet(V)
    <3>1. Len(t) \in Nat /\ V \in SUBSET (1 .. Len(t))
      BY <1>7 DEF Leaves, Placed
    <3>2. QED
      BY <3>1, PositionsFinite
  <2> HIDE DEF V
  <2>8. Cardinality(V \union {a}) = Cardinality(V) + 1
    BY <2>6, <2>7, FS_AddElement
  <2>9. QED
    BY <2>2, <2>5, <2>6, <2>8 DEF V
<1>14. ScriptsOf(o2) /\ FromLeaves(o2, t)
  <2>1. path[Len(path)] = Render!Node.name
    BY <1>1, <1>7, <1>8, <1>9, LeafNamed DEF Render!Node
  <2>2. ScriptsOf(out)
    BY <1>2, <1>6 DEF Progress
  <2>3. ASSUME NEW p \in DOMAIN out' PROVE out'[p].exec <=> p[Len(p)] \in ScriptNames
    <3>1. CASE p = path
      BY <1>4, <2>1, <3>1
    <3>2. CASE p # path
      BY <1>4, <2>2, <3>2 DEF ScriptsOf
    <3>3. QED
      BY <3>1, <3>2
  <2>4. QED
    BY <1>11, <1>12, <2>3, WrittenFrom DEF ScriptsOf
<1>15. Progress(seen \union {a})'
  BY <1>1, <1>2, <1>6, <1>10, <1>11, <1>12, <1>13, <1>14 DEF Progress
<1>16. QED
  BY <1>5, <1>15 DEF RenderingInv

\* The ends of Render.
LEMMA RenderingEnds ==
    ASSUME RenderingInv,
           \/ Render!LeafRefused \/ Render!EmptyBundle \/ Render!EndRender
           \/ UNCHANGED renderVars
    PROVE  RenderingInv'
<1>1. UNCHANGED <<features, fi, wi, added, tree, out, torn>>
  BY DEF Render!LeafRefused, Render!EmptyBundle, Render!EndRender, renderVars
<1>2. \/ renderPc = "render" /\ renderPc' \in {"error", "panic"}
      \/ renderPc = "render" /\ renderPc' = "ok" /\ agenda = <<>> /\ UNCHANGED <<agenda, rendered>>
      \/ UNCHANGED <<renderPc, agenda, rendered>>
  BY DEF Render!LeafRefused, Render!EmptyBundle, Render!EndRender, renderVars,
         Render!AtLeaf, Render!Visiting
<1>3. Collected'
  BY <1>1, <1>2, CollectedQuiet DEF RenderingInv
<1>4. PICK seen : Progress(seen)
  BY DEF RenderingInv
<1>5. Progress(seen)'
  BY <1>1, <1>2, <1>4 DEF Progress
<1>6. QED
  BY <1>3, <1>5 DEF RenderingInv

\* A write that fails leaves the file out, cuts it or leaves its mode; the others are
\* what they were.
LEMMA RenderingWriteFails == ASSUME RenderingInv, Render!WriteFails PROVE RenderingInv'
<1>1. PICK t, a, path : t = tree /\ a = agenda[1] /\ path = Render!Node.path
  OBVIOUS
<1>2. /\ renderPc = "render" /\ renderPc' = "error" /\ UNCHANGED <<features, fi, wi, added, tree>>
      /\ Render!ChildrenOf(a) = {} /\ a \in 2 .. Len(t)
  BY <1>1 DEF Render!WriteFails, Render!WritesLeaf, Render!AtLeaf, Render!Visiting
<1>3. Collected'
  BY <1>2, CollectedQuiet DEF RenderingInv
<1>4. PICK seen : Progress(seen)
  BY DEF RenderingInv
<1>5. a \in Leaves(t) /\ path = t[a].path
  <2>1. Kids(t, a) = {}
    BY <1>1, <1>2, KidsOf
  <2>2. QED
    BY <1>1, <1>2, <2>1 DEF Leaves, Render!Node
<1>6. \A p \in DOMAIN out' : \/ p \in DOMAIN out /\ out'[p] = out[p]
                             \/ p = path /\ out'[p].from = Render!Executed(t[a].parses)
  <2>1. \A exec : LET w == Render!WithFile(exec) IN
           \A p \in DOMAIN w : \/ p \in DOMAIN out /\ w[p] = out[p]
                               \/ p = path /\ w[p].from = Render!Executed(t[a].parses)
    BY <1>1 DEF Render!WithFile, Render!Node
  <2>2. CASE Render!TearFile
    BY <2>2 DEF Render!TearFile
  <2>3. CASE out' = Render!WithFile(path \in DOMAIN out /\ out[path].exec)
    BY <2>1, <2>3
  <2>4. CASE out' = out
    BY <2>4
  <2>5. QED
    BY <1>1, <2>2, <2>3, <2>4 DEF Render!WriteFails
<1>7. FromLeaves(out', t)
  BY <1>1, <1>4, <1>5, <1>6 DEF Progress, FromLeaves
<1>8. Progress(seen)'
  BY <1>1, <1>2, <1>7 DEF Progress
<1>9. QED
  BY <1>3, <1>8 DEF RenderingInv

LEMMA LeafFile ==
    ASSUME NEW leaf, Listed(tree, added, leaf), NEW n \in Leaves(tree)
    PROVE  \E i \in 1 .. Len(added) :
               leaf[i] = n /\ tree[n].path = Path[added[i]] /\ Render!Executed(tree[n].parses) = added[i]
BY DEF Listed

\* A file that is written comes from the template with its path.
LEMMA OwnContentKept == ASSUME RenderingInv PROVE Render!OwnContent
<1>1. PICK seen : Progress(seen)
  BY DEF RenderingInv
<1>2. PICK leaf : Listed(tree, added, leaf)
  BY DEF RenderingInv, Collected, TreeBuilt
<1>3. ASSUME NEW p \in DOMAIN out PROVE Path[out[p].from] = p
  <2>1. PICK m \in Leaves(tree) : tree[m].path = p /\ out[p].from = Render!Executed(tree[m].parses)
    BY <1>1 DEF Progress, FromLeaves
  <2>2. QED
    BY <1>2, <2>1, LeafFile
<1>4. QED
  BY <1>3 DEF Render!OwnContent

\* At the end all leaves are seen, and the root has children.
LEMMA SeenAtEnd ==
    ASSUME RenderingInv, renderPc = "ok"
    PROVE  /\ Written(out, tree, 1 .. Len(tree)) /\ Kids(tree, 1) # {}
           /\ Len(rendered) = Cardinality(Leaves(tree)) /\ Len(tree) \in Nat
           /\ (1 .. Len(tree)) \intersect Leaves(tree) = Leaves(tree)
<1>1. PICK seen : Progress(seen)
  BY DEF RenderingInv
<1>2. PICK at : Placed(tree, at)
  BY DEF RenderingInv, Collected, TreeBuilt
<1>3. Traversed(<<>>, tree, seen)
  BY <1>1 DEF Progress
<1>4. PICK t : t = tree
  OBVIOUS
<1>5. seen = 1 .. Len(t)
  BY <1>2, <1>3, <1>4, AllSeen
<1>6. Len(tree) \in Nat /\ Len(tree) >= 1
  BY <1>2 DEF Placed
<1>7. (1 .. Len(tree)) \intersect Leaves(tree) = Leaves(tree)
  BY <1>6 DEF Leaves
<1>8. 1 \in seen
  BY <1>4, <1>5, <1>6
<1>9. Kids(tree, 1) # {}
  BY <1>3, <1>8 DEF Traversed
<1>10. QED
  BY <1>1, <1>4, <1>5, <1>6, <1>7, <1>9 DEF Progress

LEMMA LaterKept == ASSUME RenderingInv PROVE Render!LaterFeatureWins
<1> SUFFICES ASSUME renderPc = "ok", NEW p \in DOMAIN out, NEW f \in Render!Templates, Path[f] = p
             PROVE  \E i, j \in 1 .. Len(added) : added[i] = f /\ added[j] = out[p].from /\ i <= j
  BY DEF Render!LaterFeatureWins
<1>1. PICK leaf : Listed(tree, added, leaf)
  BY DEF RenderingInv, Collected, TreeBuilt
<1>2. PICK i \in 1 .. Len(added) : added[i] = f
  BY TemplatesAdded DEF RenderingInv
<1>3. PICK m \in Leaves(tree) :
         /\ out[p].from = Render!Executed(tree[m].parses)
         /\ \A l \in Leaves(tree) : tree[l].path = p => l <= m
  BY SeenAtEnd DEF Written
<1>4. PICK j \in 1 .. Len(added) : leaf[j] = m /\ Render!Executed(tree[m].parses) = added[j]
  BY <1>1, <1>3, LeafFile
<1>5. leaf[i] \in Leaves(tree) /\ tree[leaf[i]].path = p
  BY <1>1, <1>2 DEF Listed
<1>6. leaf[i] <= leaf[j]
  BY <1>3, <1>4, <1>5
<1>7. j < i => leaf[j] < leaf[i]
  BY <1>1 DEF Listed
<1>8. leaf[i] \in Nat /\ leaf[j] \in Nat
  BY <1>4, <1>5 DEF Leaves
<1>9. i <= j
  BY <1>6, <1>7, <1>8
<1>10. QED
  BY <1>2, <1>3, <1>4, <1>9

\* Count counts the leaves.
LEMMA CountIs == ASSUME Len(tree) \in Nat, Kids(tree, 1) # {} PROVE Render!Count = Cardinality(Leaves(tree))
<1>1. {n \in 1 .. Len(tree) : Render!ChildrenOf(n) = {}} = Leaves(tree)
  <2>1. \A n : Render!ChildrenOf(n) = Kids(tree, n)
    BY KidsOf
  <2>2. \A n \in 1 .. Len(tree) : n # 1 => n \in 2 .. Len(tree)
    OBVIOUS
  <2>3. \A n \in 2 .. Len(tree) : n \in 1 .. Len(tree)
    OBVIOUS
  <2>4. QED
    BY <2>1, <2>2, <2>3 DEF Leaves
<1>2. QED
  BY <1>1, SameCardinality DEF Render!Count

LEMMA EveryFileKept == ASSUME RenderingInv PROVE Render!EveryFileOnce
<1> SUFFICES ASSUME renderPc = "ok", Render!Disjoint
             PROVE  /\ DOMAIN out = {Path[f] : f \in Render!Templates} /\ torn = {}
                    /\ Len(rendered) = Render!Count /\ Render!Cardinality(DOMAIN out) = Render!Count
  BY DEF Render!EveryFileOnce
<1>1. PICK leaf : Listed(tree, added, leaf)
  BY DEF RenderingInv, Collected, TreeBuilt
<1>2. /\ Len(rendered) = Cardinality(Leaves(tree)) /\ Render!Count = Cardinality(Leaves(tree))
      /\ Len(tree) \in Nat
  BY SeenAtEnd, CountIs
<1>3. \A p : p \in DOMAIN out <=> \E n \in Leaves(tree) : tree[n].path = p
  BY SeenAtEnd DEF Written
<1>4. \A f : f \in Render!Templates <=> \E k \in 1 .. Len(added) : added[k] = f
  BY TemplatesAdded DEF RenderingInv
<1>5. DOMAIN out = {Path[f] : f \in Render!Templates}
  <2>1. ASSUME NEW p \in DOMAIN out PROVE \E f \in Render!Templates : p = Path[f]
    <3>1. PICK n \in Leaves(tree) : tree[n].path = p
      BY <1>3
    <3>2. QED
      BY <1>1, <1>4, <3>1, LeafFile
  <2>2. ASSUME NEW f \in Render!Templates PROVE Path[f] \in DOMAIN out
    <3>1. PICK k \in 1 .. Len(added) : added[k] = f
      BY <1>4
    <3>2. leaf[k] \in Leaves(tree) /\ tree[leaf[k]].path = Path[f]
      BY <1>1, <3>1 DEF Listed
    <3>3. QED
      BY <1>3, <3>2
  <2>3. QED
    BY <2>1, <2>2
<1>6. ASSUME NEW n \in Leaves(tree), NEW m \in Leaves(tree), tree[n].path = tree[m].path PROVE n = m
  <2>1. PICK i \in 1 .. Len(added) : leaf[i] = n /\ tree[n].path = Path[added[i]]
    BY <1>1, LeafFile
  <2>2. PICK j \in 1 .. Len(added) : leaf[j] = m /\ tree[m].path = Path[added[j]]
    BY <1>1, LeafFile
  <2>3. added[i] \in Render!Templates /\ added[j] \in Render!Templates
    BY <1>4
  <2>4. added[i] = added[j]
    BY <1>6, <2>1, <2>2, <2>3 DEF Render!Disjoint
  <2>5. i = j
    BY <2>4 DEF RenderingInv, Collected, AddedOnce
  <2>6. QED
    BY <2>1, <2>2, <2>5
<1>7. Cardinality(DOMAIN out) = Cardinality(Leaves(tree))
  <2>1. PICK S, T, t : S = Leaves(tree) /\ T = DOMAIN out /\ t = tree
    OBVIOUS
  <2> DEFINE h == [n \in S |-> t[n].path]
  <2>2. h \in Bijection(S, T)
    <3>1. h \in [S -> T]
      BY <1>3, <2>1
    <3>2. \A n, m \in S : h[n] = h[m] => n = m
      BY <1>6, <2>1
    <3>3. \A p \in T : \E n \in S : h[n] = p
      BY <1>3, <2>1
    <3>4. QED
      BY <3>1, <3>2, <3>3 DEF Bijection, Injection, Surjection, IsInjective
  <2>3. IsFiniteSet(S)
    <3>1. S \in SUBSET (1 .. Len(tree))
      BY <1>2, <2>1 DEF Leaves
    <3>2. PICK k : k = Len(tree)
      OBVIOUS
    <3>3. QED
      BY <1>2, <3>1, <3>2, PositionsFinite
  <2> HIDE DEF h
  <2>4. Cardinality(T) = Cardinality(S)
    BY <2>2, <2>3, FS_Bijection DEF ExistsBijection
  <2>5. QED
    BY <2>1, <2>4
<1>8. torn = {}
  BY DEF RenderingInv, Progress
<1>9. QED
  BY <1>2, <1>5, <1>7, <1>8, SameCardinality

LEMMA ScriptsKept == ASSUME RenderingInv PROVE Render!ScriptsExecutable
BY DEF RenderingInv, Progress, ScriptsOf, Render!ScriptsExecutable

\* A rendering that ends without error has written every template's file once and no
\* other, none of them cut short, each from its own template and the scripts executable,
\* whatever templates or writes may fail; one that fails has no file of another
\* template's; of features that share a file the last one's remains (NewBundle,
\* fsTreeWalk, Add and Render, bundle.go:251, 206, 59, 89).
THEOREM RenderingFaithfulAlways == Spec => []RenderingFaithful
<1> DEFINE Inv == part = "render" => RenderingInv
<1>1. Init => Inv
  BY RenderingInit DEF Init
<1>2. Inv /\ [Next]_vars => Inv'
  <2> SUFFICES ASSUME RenderingInv, [Next]_vars, part' = "render", part = "render"
               PROVE  RenderingInv'
    BY RenderSteps
  <2>1. Render!Next \/ UNCHANGED renderVars
    BY RenderSteps
  <2>2. CASE Render!WalkFile \/ Render!NextFeature
    BY <2>2, RenderingWalk
  <2>3. CASE Render!BeginRender
    BY <2>3, RenderingBegin
  <2>4. CASE Render!Descend
    BY <2>4, RenderingDescend
  <2>5. CASE Render!RenderLeaf
    BY <2>5, RenderingLeaf
  <2>6. CASE \/ Render!LeafRefused \/ Render!EmptyBundle \/ Render!EndRender
             \/ UNCHANGED renderVars
    BY <2>6, RenderingEnds
  <2>7. CASE Render!WriteFails
    BY <2>7, RenderingWriteFails
  <2>8. QED
    BY <2>1, <2>2, <2>3, <2>4, <2>5, <2>6, <2>7 DEF Render!Next
<1>3. Inv => RenderingFaithful
  BY OwnContentKept, LaterKept, EveryFileKept, ScriptsKept DEF RenderingFaithful
<1>4. QED
  BY <1>1, <1>2, <1>3, PTL DEF Spec

=============================================================================
