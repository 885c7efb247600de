------------------------ MODULE CustomizationProofs ------------------------
(* Proofs about Customization, for any number of scripts, releases, platforms *)
(* and manifests.                                                             *)
EXTENDS Customization, FiniteSetTheorems, TLAPS

-----------------------------------------------------------------------------
(* What makes the properties inductive *)

ApplyPlace == {"list", "create", "get", "compare", "edit", "ok", "unchanged", "error"}
RefreshPlace == {"before", "get", "stamp", "new", "wait", "check", "rebuilt", "warned"}
Status == {"IN_PROGRESS", "SUCCESS", "FAILURE"}

TypeOK ==
    /\ remote \in Seq(Manifest)
    /\ builds \in Seq([by : Applies \union Releases, status : [Platforms -> Status]])
    /\ apc \in [Applies -> ApplyPlace] /\ agot \in [Applies -> Manifest \union {None}]
    /\ rpc \in [Releases -> RefreshPlace] /\ rbefore \in [Releases -> Nat]
    /\ rgot \in [Releases -> Manifest \union {None}] /\ rpolls \in [Releases -> Nat]
    /\ again \subseteq Releases /\ failures \in Nat

\* Nobody gets or edits a customization before there is one.
NothingThere ==
    remote = <<>> =>
        /\ builds = <<>>
        /\ \A a \in Applies : apc[a] \in {"list", "create", "error"}
        /\ \A r \in Releases : rpc[r] \in {"before", "warned"}

\* Who compares or stamps has got a manifest.
Got ==
    /\ \A a \in Applies : apc[a] \in {"compare", "edit"} => agot[a] # None
    /\ \A r \in Releases : rpc[r] = "stamp" => rgot[r] # None

\* Until a release stamps for the first time, its stamp is nowhere; where it is, the
\* release has caused a batch.
StampFresh ==
    \A r \in Releases, i \in 1 .. Len(remote) :
        remote[i].ann # None /\ r \in remote[i].ann =>
            /\ rpc[r] \in {"before", "get", "stamp"} => r \in again
            /\ \E j \in 1 .. Len(builds) : builds[j].by = r

Counted == \A r \in Releases : rbefore[r] <= Len(builds)

\* The batch of a release that stopped waiting before its time is done.
Waited ==
    \A r \in Releases : rpc[r] \in {"check", "rebuilt"} /\ rpolls[r] < MaxPolls =>
        \A i \in 1 .. Len(builds) : builds[i].by = r =>
            \A p \in Platforms : builds[i].status[p] # "IN_PROGRESS"

IndInv ==
    TypeOK /\ NothingThere /\ Got /\ StampFresh /\ Counted /\ RefreshRebuilds /\ Waited

OneManifest == \A a, b \in Applies : Want[a] = Want[b]

Stale == \E r \in Releases : rgot[r] # None /\ SameImage(rgot[r], remote[1])

\* A script that wants to create saw nothing there, one that got its own manifest saw
\* that: if neither is there now, a release brought back what it had got.
StaleBehind ==
    \A a \in Applies :
        /\ remote # <<>> /\ ~SameImage(remote[1], Want[a])
        /\ \/ apc[a] \in {"create", "ok", "unchanged"}
           \/ agot[a] # None /\ SameImage(agot[a], Want[a])
        => Stale

OneScript == \A a, b \in Applies : a = b

\* While the only script has not edited, everyone has got the image that is there.
OneImage ==
    \A a \in Applies : apc[a] \in {"list", "get", "compare", "edit"} =>
        /\ agot[a] # None => SameImage(agot[a], remote[1])
        /\ \A r \in Releases : rgot[r] # None => SameImage(rgot[r], remote[1])

EditNeeded == \A a \in Applies : apc[a] = "edit" => ~SameImage(agot[a], Want[a])

-----------------------------------------------------------------------------
(* Manifests *)

\* A written manifest has no stamp.
LEMMA WrittenManifest ==
    ASSUME NEW m \in Written
    PROVE  m \in Manifest /\ (m.ann # None => m.ann \intersect Releases = {})
BY ActorsDistinct DEF Written, Manifest

\* A stamped manifest is of the same image and has the release's stamp and no other.
LEMMA StampedManifest ==
    ASSUME NEW m \in Manifest, NEW r \in Releases
    PROVE  /\ Stamped(m, r) \in Manifest
           /\ Stamped(m, r).ann # None /\ r \in Stamped(m, r).ann
           /\ Stamped(m, r).ann \intersect Releases = {r}
           /\ SameImage(m, Stamped(m, r))
<1> DEFINE A == {r} \union (IF m.ann = None THEN {} ELSE m.ann \ Releases)
<1>1. m.body \in Bodies /\ (m.ann = None \/ m.ann \in SUBSET (Notes \union Releases))
  BY DEF Manifest
<1>2. A \in SUBSET (Notes \union Releases)
  BY <1>1
<1>3. A # None
  <2> HIDE DEF A
  <2> QED
    BY <1>2, NoneIsNothing
<1>4. Stamped(m, r) = [m EXCEPT !.ann = A]
  BY DEF Stamped
<1>5. Stamped(m, r).ann = A /\ Stamped(m, r).body = m.body /\ Stamped(m, r) \in Manifest
  <2> HIDE DEF A
  <2> QED
    BY <1>1, <1>2, <1>4 DEF Manifest
<1>6. A \ Releases = Annotations(m)
  BY DEF Annotations
<1>7. Annotations(Stamped(m, r)) = Annotations(m)
  <2> HIDE DEF A
  <2> QED
    BY <1>3, <1>5, <1>6 DEF Annotations
<1>8. r \in A /\ A \intersect Releases = {r}
  OBVIOUS
<1>9. QED
  <2> HIDE DEF A
  <2> QED
    BY <1>3, <1>5, <1>7, <1>8 DEF SameImage

\* EqualCustomizations (manifest.go) compares images: stamps, and annotations that
\* are empty without them, make no difference.
LEMMA EqualIsSameImage ==
    ASSUME NEW m \in Manifest, NEW n \in Manifest
    PROVE  EqualCustomizations(m, n) <=> SameImage(m, n)
<1>1. ASSUME NEW x \in Manifest
      PROVE  /\ Normalized(x).body = x.body
             /\ Normalized(x).ann = IF Annotations(x) = {} THEN None ELSE Annotations(x)
             /\ Normalized(x) \in Manifest
  <2>1. CASE x.ann = None
    BY <2>1 DEF Normalized, Annotations, Manifest
  <2>2. CASE x.ann # None /\ x.ann \subseteq Releases
    BY <2>2 DEF Normalized, Annotations, Manifest
  <2>3. CASE x.ann # None /\ ~(x.ann \subseteq Releases)
    <3>1. x.ann \ Releases \in SUBSET (Notes \union Releases) /\ x.ann \ Releases # {}
      BY <2>3 DEF Manifest
    <3>2. Normalized(x) = [x EXCEPT !.ann = x.ann \ Releases]
      BY <2>3 DEF Normalized
    <3>3. QED
      BY <2>3, <3>1, <3>2 DEF Annotations, Manifest
  <2>4. QED
    BY <2>1, <2>2, <2>3
<1>2. ASSUME NEW x \in Manifest
      PROVE  Annotations(x) # None
  <2>1. Annotations(x) \in SUBSET (Notes \union Releases)
    BY DEF Annotations, Manifest
  <2>2. QED
    BY <2>1, NoneIsNothing
<1>3. Normalized(m) = Normalized(n)
        <=> Normalized(m).body = Normalized(n).body /\ Normalized(m).ann = Normalized(n).ann
  <2>1. Normalized(m) \in Manifest /\ Normalized(n) \in Manifest
    BY <1>1
  <2>2. QED
    BY <2>1 DEF Manifest
<1>4. Normalized(m).ann = Normalized(n).ann <=> Annotations(m) = Annotations(n)
  BY <1>1, <1>2
<1>5. QED
  BY <1>1, <1>3, <1>4 DEF EqualCustomizations, SameImage

-----------------------------------------------------------------------------
(* Sequences of builds *)

Builds == [by : Applies \union Releases, status : [Platforms -> Status]]

LEMMA BatchType ==
    ASSUME NEW by \in Applies \union Releases
    PROVE  Batch(by) \in Builds /\ Batch(by).by = by
BY DEF Batch, Builds, Status

LEMMA Prepend ==
    ASSUME NEW T, NEW s \in Seq(T), NEW x \in T
    PROVE  /\ <<x>> \o s \in Seq(T)
           /\ Len(<<x>> \o s) = Len(s) + 1
           /\ (<<x>> \o s)[1] = x
           /\ \A i \in 1 .. Len(s) : (<<x>> \o s)[i + 1] = s[i]
           /\ \A j \in 2 .. Len(s) + 1 : (<<x>> \o s)[j] = s[j - 1]
OBVIOUS

-----------------------------------------------------------------------------
(* Who changes what *)

AfterStamp == {"new", "wait", "check", "rebuilt"}
BeforeStamp == {"before", "get", "stamp"}

\* A step leaves a release where it was, or is the release's own.
LEMMA ReleaseStep ==
    ASSUME TypeOK, Next, NEW r \in Releases
    PROVE  \/ /\ rpc'[r] = rpc[r] /\ rbefore'[r] = rbefore[r]
              /\ rgot'[r] = rgot[r] /\ rpolls'[r] = rpolls[r]
           \/ Refresh(r) \/ RefreshFails(r) \/ Rerun(r)
<1>1. ASSUME NEW s \in Releases, Refresh(s) \/ RefreshFails(s) \/ Rerun(s), s # r
      PROVE  /\ rpc'[r] = rpc[r] /\ rbefore'[r] = rbefore[r]
             /\ rgot'[r] = rgot[r] /\ rpolls'[r] = rpolls[r]
  BY <1>1 DEF TypeOK, Refresh, RefreshFails, RefreshBefore, RefreshGet, RefreshStamp, RefreshNew,
              RefreshWait, RefreshCheck, Rerun
<1>2. ASSUME NEW a \in Applies, Apply(a) \/ ApplyFails(a)
      PROVE  UNCHANGED rvars
  BY <1>2 DEF Apply, ApplyFails, ApplyList, ApplyCreate, ApplyGet, ApplyCompare, ApplyEdit
<1>3. ASSUME NEW i, NEW p, NEW result, BuildEnds(i, p, result)
      PROVE  UNCHANGED rvars
  BY <1>3 DEF BuildEnds
<1>4. QED
  BY <1>1, <1>2, <1>3 DEF Next, rvars

\* The same for a script.
LEMMA ScriptStep ==
    ASSUME TypeOK, Next, NEW a \in Applies
    PROVE  \/ apc'[a] = apc[a] /\ agot'[a] = agot[a]
           \/ Apply(a) \/ ApplyFails(a)
<1>1. ASSUME NEW b \in Applies, Apply(b) \/ ApplyFails(b), b # a
      PROVE  apc'[a] = apc[a] /\ agot'[a] = agot[a]
  BY <1>1 DEF TypeOK, Apply, ApplyFails, ApplyList, ApplyCreate, ApplyGet, ApplyCompare, ApplyEdit
<1>2. ASSUME NEW r \in Releases, Refresh(r) \/ RefreshFails(r) \/ Rerun(r)
      PROVE  UNCHANGED avars
  BY <1>2 DEF Refresh, RefreshFails, RefreshBefore, RefreshGet, RefreshStamp, RefreshNew,
              RefreshWait, RefreshCheck, Rerun
<1>3. ASSUME NEW i, NEW p, NEW result, BuildEnds(i, p, result)
      PROVE  UNCHANGED avars
  BY <1>3 DEF BuildEnds
<1>4. QED
  BY <1>1, <1>2, <1>3 DEF Next, avars

\* How a release goes from one place to the next.
LEMMA ReleaseMoves ==
    ASSUME TypeOK, Next, NEW r \in Releases
    PROVE  /\ rpc'[r] \in RefreshPlace
           /\ rbefore'[r] = rbefore[r] \/ rbefore'[r] = Len(builds)
           /\ rgot'[r] = rgot[r] \/ RefreshGet(r)
           /\ rpc'[r] \in BeforeStamp => rpc[r] \in BeforeStamp \/ Rerun(r)
           /\ rpc'[r] = "stamp" /\ rpc[r] # "stamp" => RefreshGet(r)
           /\ rpc'[r] \in AfterStamp =>
                 \/ RefreshStamp(r)
                 \/ rpc[r] \in AfterStamp
           /\ rpc[r] # "before" => rbefore'[r] = rbefore[r]
           /\ rpc'[r] \in {"check", "rebuilt"} =>
                 \/ RefreshWait(r) /\ rpolls'[r] = rpolls[r] /\ ~(Pending /\ rpolls[r] < MaxPolls)
                 \/ rpc[r] \in {"check", "rebuilt"} /\ rpolls'[r] = rpolls[r]
           /\ rpc'[r] = "rebuilt" =>
                 \/ RefreshCheck(r) /\ rpolls'[r] = rpolls[r]
                 \/ rpc[r] = "rebuilt" /\ rpolls'[r] = rpolls[r]
<1>1. rpc[r] \in RefreshPlace /\ rpc \in [Releases -> RefreshPlace]
  BY DEF TypeOK
<1>2. CASE /\ rpc'[r] = rpc[r] /\ rbefore'[r] = rbefore[r]
           /\ rgot'[r] = rgot[r] /\ rpolls'[r] = rpolls[r]
  BY <1>1, <1>2
<1>3. CASE RefreshBefore(r)
  BY <1>1, <1>3 DEF RefreshBefore, RefreshPlace, BeforeStamp, AfterStamp, TypeOK
<1>4. CASE RefreshGet(r)
  BY <1>1, <1>4 DEF RefreshGet, RefreshPlace, BeforeStamp, AfterStamp
<1>5. CASE RefreshStamp(r)
  BY <1>1, <1>5 DEF RefreshStamp, RefreshPlace, BeforeStamp, AfterStamp
<1>6. CASE RefreshNew(r)
  BY <1>1, <1>6 DEF RefreshNew, RefreshPlace, BeforeStamp, AfterStamp
<1>7. CASE RefreshWait(r)
  BY <1>1, <1>7 DEF RefreshWait, RefreshPlace, BeforeStamp, AfterStamp
<1>8. CASE RefreshCheck(r)
  BY <1>1, <1>8 DEF RefreshCheck, RefreshPlace, BeforeStamp, AfterStamp
<1>9. CASE RefreshFails(r)
  BY <1>1, <1>9 DEF RefreshFails, RefreshPlace, BeforeStamp, AfterStamp
<1>10. CASE Rerun(r)
  BY <1>1, <1>10 DEF Rerun, RefreshPlace, BeforeStamp, AfterStamp
<1>11. QED
  BY <1>2, <1>3, <1>4, <1>5, <1>6, <1>7, <1>8, <1>9, <1>10, ReleaseStep DEF Refresh

\* What was repeated stays so.
LEMMA AgainGrows ==
    ASSUME Next
    PROVE  again \subseteq again' /\ \A r \in Releases : Rerun(r) => r \in again'
<1>1. CASE UNCHANGED again
  BY <1>1 DEF Rerun
<1>2. ASSUME NEW r \in Releases, Rerun(r) PROVE again' = again \union {r}
  BY <1>2 DEF Rerun
<1>3. UNCHANGED again \/ \E r \in Releases : Rerun(r)
  BY DEF Next, Apply, ApplyFails, ApplyList, ApplyCreate, ApplyGet, ApplyCompare, ApplyEdit, rvars,
         Refresh, RefreshFails, RefreshBefore, RefreshGet, RefreshStamp, RefreshNew, RefreshWait,
         RefreshCheck, BuildEnds
<1>4. QED
  BY <1>1, <1>2, <1>3

\* The customization at Docker, and its builds, are changed by a script that creates
\* or edits, by a release that stamps, and by the end of a build.
LEMMA DockerStep ==
    ASSUME TypeOK, Next
    PROVE  \/ UNCHANGED <<remote, builds>>
           \/ \E a \in Applies : ApplyCreate(a)
           \/ \E a \in Applies : ApplyEdit(a)
           \/ \E r \in Releases : RefreshStamp(r)
           \/ \E i \in 1 .. Len(builds), p \in Platforms, result \in {"SUCCESS", "FAILURE"} :
                 BuildEnds(i, p, result)
<1>1. ASSUME NEW a \in Applies, Apply(a) \/ ApplyFails(a)
      PROVE  UNCHANGED <<remote, builds>> \/ ApplyCreate(a) \/ ApplyEdit(a)
  BY <1>1 DEF Apply, ApplyFails, ApplyList, ApplyGet, ApplyCompare
<1>2. ASSUME NEW r \in Releases, Refresh(r) \/ RefreshFails(r) \/ Rerun(r)
      PROVE  UNCHANGED <<remote, builds>> \/ RefreshStamp(r)
  BY <1>2 DEF Refresh, RefreshFails, RefreshBefore, RefreshGet, RefreshNew, RefreshWait,
              RefreshCheck, Rerun
<1>3. QED
  BY <1>1, <1>2 DEF Next

\* A release that stamps, stamps the manifest it got.  That makes it differ, and the edit
\* queues a batch, unless an earlier attempt has left the same.
LEMMA StampStep ==
    ASSUME TypeOK, NothingThere, Got, StampFresh, NEW r \in Releases, RefreshStamp(r)
    PROVE  /\ rgot[r] \in Manifest /\ remote # <<>>
           /\ rpc[r] = "stamp" /\ rpc' = [rpc EXCEPT ![r] = "new"]
           /\ remote' = [remote EXCEPT ![1] = Stamped(rgot[r], r)]
           /\ \/ builds' = <<Batch(r)>> \o builds
              \/ /\ UNCHANGED builds /\ r \in again
                 /\ \E j \in 1 .. Len(builds) : builds[j].by = r
<1>1. rpc[r] = "stamp" /\ rpc' = [rpc EXCEPT ![r] = "new"] /\ Edit(Stamped(rgot[r], r), r)
  BY DEF RefreshStamp
<1>2. rgot[r] \in Manifest /\ remote # <<>>
  BY <1>1 DEF TypeOK, Got, NothingThere
<1>3. 1 \in 1 .. Len(remote) /\ remote \in Seq(Manifest)
  BY <1>2 DEF TypeOK
<1>4. CASE Stamped(rgot[r], r) = remote[1]
  <2>1. UNCHANGED <<remote, builds>>
    BY <1>1, <1>4 DEF Edit
  <2>2. remote' = [remote EXCEPT ![1] = Stamped(rgot[r], r)]
    BY <1>3, <1>4, <2>1
  <2>3. remote[1].ann # None /\ r \in remote[1].ann
    BY <1>2, <1>4, StampedManifest
  <2>4. r \in again /\ \E j \in 1 .. Len(builds) : builds[j].by = r
    BY <1>1, <1>3, <2>3 DEF StampFresh
  <2>5. QED
    BY <1>1, <1>2, <2>1, <2>2, <2>4
<1>5. CASE Stamped(rgot[r], r) # remote[1]
  BY <1>1, <1>2, <1>5 DEF Edit
<1>6. QED
  BY <1>4, <1>5

\* A script that edits finds a customization.
LEMMA EditStep ==
    ASSUME TypeOK, NothingThere, NEW a \in Applies, ApplyEdit(a)
    PROVE  /\ remote # <<>> /\ Want[a] \in Manifest /\ Want[a] \in Written
           /\ remote'[1] = Want[a] /\ Len(remote') = Len(remote)
           /\ \A i \in 2 .. Len(remote) : remote'[i] = remote[i]
           /\ remote' \in Seq(Manifest)
           /\ \/ UNCHANGED <<remote, builds>>
              \/ builds' = <<Batch(a)>> \o builds
<1>1. apc[a] = "edit" /\ Edit(Want[a], a)
  BY DEF ApplyEdit
<1>2. remote # <<>>
  BY <1>1 DEF NothingThere
<1>3. Want[a] \in Manifest /\ Want[a] \in Written
  BY ManifestsWritten, WrittenManifest
<1>4. remote \in Seq(Manifest) /\ 1 \in 1 .. Len(remote)
  BY <1>2 DEF TypeOK
<1>5. CASE Want[a] = remote[1]
  BY <1>1, <1>2, <1>3, <1>4, <1>5 DEF Edit
<1>6. CASE Want[a] # remote[1]
  <2>1. remote' = [remote EXCEPT ![1] = Want[a]] /\ builds' = <<Batch(a)>> \o builds
    BY <1>1, <1>6 DEF Edit
  <2>2. QED
    BY <1>2, <1>3, <1>4, <2>1
<1>7. QED
  BY <1>5, <1>6

\* What is at Docker after a step was there, or was written, or was stamped.
LEMMA RemoteStep ==
    ASSUME TypeOK, NothingThere, Got, StampFresh, Next
    PROVE  /\ remote' \in Seq(Manifest) /\ Len(remote') >= Len(remote)
           /\ \A i \in 1 .. Len(remote') :
                 \/ i \in 1 .. Len(remote) /\ remote'[i] = remote[i]
                 \/ remote'[i] \in Written
                 \/ \E r \in Releases : /\ RefreshStamp(r) /\ rgot[r] \in Manifest
                                        /\ remote'[i] = Stamped(rgot[r], r)
<1>1. remote \in Seq(Manifest)
  BY DEF TypeOK
<1>2. CASE UNCHANGED remote
  BY <1>1, <1>2
<1>3. ASSUME NEW a \in Applies, ApplyCreate(a)
      PROVE  /\ remote' \in Seq(Manifest) /\ Len(remote') >= Len(remote)
             /\ \A i \in 1 .. Len(remote') :
                   \/ i \in 1 .. Len(remote) /\ remote'[i] = remote[i]
                   \/ remote'[i] \in Written
  <2>1. remote' = Append(remote, Want[a])
    BY <1>3 DEF ApplyCreate, Create
  <2>2. Want[a] \in Manifest /\ Want[a] \in Written
    BY ManifestsWritten, WrittenManifest
  <2>3. QED
    BY <1>1, <2>1, <2>2
<1>4. ASSUME NEW a \in Applies, ApplyEdit(a)
      PROVE  /\ remote' \in Seq(Manifest) /\ Len(remote') >= Len(remote)
             /\ \A i \in 1 .. Len(remote') :
                   \/ i \in 1 .. Len(remote) /\ remote'[i] = remote[i]
                   \/ remote'[i] \in Written
  <2>1. /\ Want[a] \in Written /\ remote'[1] = Want[a] /\ Len(remote') = Len(remote)
        /\ \A i \in 2 .. Len(remote) : remote'[i] = remote[i]
        /\ remote' \in Seq(Manifest)
    BY <1>4, EditStep
  <2>2. Len(remote) \in Nat
    BY <1>1
  <2>3. \A i \in 1 .. Len(remote) : i = 1 \/ i \in 2 .. Len(remote)
    BY <2>2
  <2>4. QED
    BY <2>1, <2>2, <2>3
<1>5. ASSUME NEW r \in Releases, RefreshStamp(r)
      PROVE  /\ remote' \in Seq(Manifest) /\ Len(remote') >= Len(remote)
             /\ \A i \in 1 .. Len(remote') :
                   \/ i \in 1 .. Len(remote) /\ remote'[i] = remote[i]
                   \/ rgot[r] \in Manifest /\ remote'[i] = Stamped(rgot[r], r)
  <2>1. rgot[r] \in Manifest /\ remote # <<>> /\ remote' = [remote EXCEPT ![1] = Stamped(rgot[r], r)]
    BY <1>5, StampStep
  <2>2. Stamped(rgot[r], r) \in Manifest
    BY <2>1, StampedManifest
  <2>3. QED
    BY <1>1, <2>1, <2>2
<1>6. ASSUME NEW i, NEW p, NEW result, BuildEnds(i, p, result)
      PROVE  UNCHANGED remote
  BY <1>6 DEF BuildEnds
<1>7. QED
  BY <1>2, <1>3, <1>4, <1>5, <1>6, DockerStep

\* Builds only grow at the front, and only who creates, edits or stamps adds to
\* them; a build that has ended stays so.
Queued(by) ==
    /\ by \in Applies \union Releases
    /\ by \in Releases => rpc[by] = "stamp" /\ RefreshStamp(by)
    /\ builds' = <<Batch(by)>> \o builds

Progressed ==
    /\ Len(builds') = Len(builds)
    /\ \A i \in 1 .. Len(builds) :
          /\ builds'[i].by = builds[i].by
          /\ \A p \in Platforms :
                builds[i].status[p] # "IN_PROGRESS" => builds'[i].status[p] = builds[i].status[p]

LEMMA BuildsStep ==
    ASSUME TypeOK, NothingThere, Got, StampFresh, Next
    PROVE  /\ builds' \in Seq(Builds)
           /\ Progressed \/ \E by \in Applies \union Releases : Queued(by)
<1>1. builds \in Seq(Builds)
  BY DEF TypeOK, Builds
<1>2. CASE UNCHANGED builds
  BY <1>1, <1>2 DEF Progressed
<1>3. ASSUME NEW a \in Applies, ApplyCreate(a)
      PROVE  UNCHANGED builds \/ Queued(a)
  <2>1. builds' = IF remote = <<>> THEN <<Batch(a)>> ELSE builds
    BY <1>3 DEF ApplyCreate, Create
  <2>2. remote = <<>> => builds = <<>>
    BY DEF NothingThere
  <2>3. <<Batch(a)>> \o <<>> = <<Batch(a)>>
    OBVIOUS
  <2>4. a \notin Releases
    BY ActorsDistinct
  <2>5. QED
    BY <2>1, <2>2, <2>3, <2>4 DEF Queued
<1>4. ASSUME NEW a \in Applies, ApplyEdit(a)
      PROVE  UNCHANGED builds \/ Queued(a)
  BY <1>4, EditStep, ActorsDistinct DEF Queued
<1>5. ASSUME NEW r \in Releases, RefreshStamp(r)
      PROVE  UNCHANGED builds \/ Queued(r)
  BY <1>5, StampStep DEF Queued
<1>6. ASSUME NEW i \in 1 .. Len(builds), NEW p \in Platforms, NEW result \in {"SUCCESS", "FAILURE"},
             BuildEnds(i, p, result)
      PROVE  builds' \in Seq(Builds) /\ Progressed
  <2>1. builds' = [builds EXCEPT ![i].status[p] = result] /\ builds[i].status[p] = "IN_PROGRESS"
    BY <1>6 DEF BuildEnds
  <2>2. builds[i] \in Builds
    BY <1>1
  <2>3. builds' = [builds EXCEPT ![i] = [builds[i] EXCEPT !.status = [builds[i].status EXCEPT ![p] = result]]]
    BY <2>1
  <2> DEFINE st == [builds[i].status EXCEPT ![p] = result]
             nb == [builds[i] EXCEPT !.status = st]
  <2>4. st \in [Platforms -> Status] /\ \A q \in Platforms : q # p => st[q] = builds[i].status[q]
    BY <2>2 DEF Builds, Status
  <2>5. nb \in Builds /\ nb.by = builds[i].by /\ nb.status = st
    <3> HIDE DEF st
    <3> QED
      BY <2>2, <2>4 DEF Builds
  <2> HIDE DEF st, nb
  <2>6. builds' = [builds EXCEPT ![i] = nb]
    BY <2>3 DEF st, nb
  <2>7. builds' \in Seq(Builds) /\ Len(builds') = Len(builds)
    BY <1>1, <2>5, <2>6
  <2>8. \A j \in 1 .. Len(builds) : builds'[j] = IF j = i THEN nb ELSE builds[j]
    BY <1>1, <2>6
  <2>9. QED
    BY <2>1, <2>4, <2>5, <2>7, <2>8 DEF Progressed
<1>7. ASSUME NEW by \in Applies \union Releases, Queued(by)
      PROVE  builds' \in Seq(Builds)
  BY <1>1, <1>7, BatchType, Prepend DEF Queued
<1>8. QED
  BY <1>2, <1>3, <1>4, <1>5, <1>6, <1>7, DockerStep

\* There are never fewer builds than before.
LEMMA BuildsGrow ==
    ASSUME TypeOK, NothingThere, Got, StampFresh, Next
    PROVE  Len(builds) \in Nat /\ Len(builds') \in Nat /\ Len(builds) <= Len(builds')
<1>1. builds \in Seq(Builds) /\ builds' \in Seq(Builds)
  BY BuildsStep DEF TypeOK, Builds
<1>2. ASSUME NEW by \in Applies \union Releases, Queued(by)
      PROVE  Len(builds') = Len(builds) + 1
  BY <1>1, <1>2, BatchType, Prepend DEF Queued
<1>3. QED
  BY <1>1, <1>2, BuildsStep DEF Progressed

-----------------------------------------------------------------------------
(* The inductive invariant *)

LEMMA TypeStep ==
    ASSUME TypeOK, NothingThere, Got, StampFresh, Next
    PROVE  TypeOK'
<1>1. remote' \in Seq(Manifest) /\ builds' \in Seq(Builds)
  BY RemoteStep, BuildsStep
<1>2. remote # <<>> => remote[1] \in Manifest
  BY DEF TypeOK
<1>3. ASSUME NEW a \in Applies, Apply(a) \/ ApplyFails(a)
      PROVE  /\ apc' \in [Applies -> ApplyPlace] /\ agot' \in [Applies -> Manifest \union {None}]
             /\ UNCHANGED rvars /\ failures' \in Nat
  <2>1. CASE ApplyGet(a)
    <3>1. remote # <<>>
      BY <2>1 DEF ApplyGet, NothingThere
    <3>2. QED
      BY <1>2, <2>1, <3>1 DEF ApplyGet, TypeOK, ApplyPlace
  <2>2. CASE ApplyFails(a)
    BY <2>2 DEF ApplyFails, TypeOK, ApplyPlace
  <2>3. CASE ApplyList(a) \/ ApplyCreate(a) \/ ApplyCompare(a) \/ ApplyEdit(a)
    BY <2>3 DEF ApplyList, ApplyCreate, ApplyCompare, ApplyEdit, TypeOK, ApplyPlace
  <2>4. QED
    BY <1>3, <2>1, <2>2, <2>3 DEF Apply
<1>4. ASSUME NEW r \in Releases, Refresh(r) \/ RefreshFails(r) \/ Rerun(r)
      PROVE  /\ rpc' \in [Releases -> RefreshPlace] /\ rbefore' \in [Releases -> Nat]
             /\ rgot' \in [Releases -> Manifest \union {None}] /\ rpolls' \in [Releases -> Nat]
             /\ UNCHANGED avars /\ failures' \in Nat /\ again' \subseteq Releases
  <2>1. CASE RefreshGet(r)
    <3>1. remote # <<>>
      BY <2>1 DEF RefreshGet, NothingThere
    <3>2. QED
      BY <1>2, <2>1, <3>1 DEF RefreshGet, TypeOK, RefreshPlace
  <2>2. CASE RefreshBefore(r)
    <3>1. Len(builds) \in Nat
      BY DEF TypeOK
    <3>2. QED
      BY <2>2, <3>1 DEF RefreshBefore, TypeOK, RefreshPlace
  <2>3. CASE RefreshWait(r)
    <3>1. rpc' = rpc \/ rpc' = [rpc EXCEPT ![r] = "check"]
      BY <2>3 DEF RefreshWait
    <3>2. rpolls' = rpolls \/ rpolls' = [rpolls EXCEPT ![r] = @ + 1]
      BY <2>3 DEF RefreshWait
    <3>3. rpc' \in [Releases -> RefreshPlace]
      BY <3>1 DEF TypeOK, RefreshPlace
    <3>4. rpolls' \in [Releases -> Nat]
      BY <3>2 DEF TypeOK
    <3>5. UNCHANGED <<avars, rbefore, rgot, again, failures>>
      BY <2>3 DEF RefreshWait
    <3>6. QED
      BY <3>3, <3>4, <3>5 DEF TypeOK
  <2>4. CASE RefreshStamp(r) \/ RefreshNew(r) \/ RefreshCheck(r)
    BY <2>4 DEF RefreshStamp, RefreshNew, RefreshCheck, TypeOK, RefreshPlace
  <2>5. CASE RefreshFails(r)
    BY <2>5 DEF RefreshFails, TypeOK, RefreshPlace
  <2>6. CASE Rerun(r)
    BY <2>6 DEF Rerun, TypeOK, RefreshPlace
  <2>7. QED
    BY <1>4, <2>1, <2>2, <2>3, <2>4, <2>5, <2>6 DEF Refresh
<1>5. ASSUME NEW i, NEW p, NEW result, BuildEnds(i, p, result)
      PROVE  UNCHANGED <<avars, rvars>> /\ failures' \in Nat
  BY <1>5 DEF BuildEnds, TypeOK
<1>6. /\ apc' \in [Applies -> ApplyPlace] /\ agot' \in [Applies -> Manifest \union {None}]
      /\ rpc' \in [Releases -> RefreshPlace] /\ rbefore' \in [Releases -> Nat]
      /\ rgot' \in [Releases -> Manifest \union {None}] /\ rpolls' \in [Releases -> Nat]
      /\ failures' \in Nat /\ again' \subseteq Releases
  <2>1. /\ apc \in [Applies -> ApplyPlace] /\ agot \in [Applies -> Manifest \union {None}]
        /\ rpc \in [Releases -> RefreshPlace] /\ rbefore \in [Releases -> Nat]
        /\ rgot \in [Releases -> Manifest \union {None}] /\ rpolls \in [Releases -> Nat]
        /\ failures \in Nat /\ again \subseteq Releases
    BY DEF TypeOK
  <2>2. QED
    BY <1>3, <1>4, <1>5, <2>1 DEF Next, avars, rvars
<1>7. QED
  BY <1>1, <1>6 DEF TypeOK, Builds

LEMMA NothingThereStep ==
    ASSUME TypeOK, NothingThere, Got, StampFresh, Next
    PROVE  NothingThere'
<1> SUFFICES ASSUME remote' = <<>>
             PROVE  /\ builds' = <<>>
                    /\ \A a \in Applies : apc'[a] \in {"list", "create", "error"}
                    /\ \A r \in Releases : rpc'[r] \in {"before", "warned"}
  BY DEF NothingThere
<1>1. remote = <<>>
  <2>1. Len(remote) = 0
    BY RemoteStep DEF TypeOK
  <2>2. QED
    BY <2>1 DEF TypeOK
<1>2. /\ builds = <<>>
      /\ \A a \in Applies : apc[a] \in {"list", "create", "error"}
      /\ \A r \in Releases : rpc[r] \in {"before", "warned"}
  BY <1>1 DEF NothingThere
<1>3. \A a \in Applies : ~ApplyCreate(a)
  BY <1>1 DEF ApplyCreate, Create
<1>4. builds' = <<>>
  <2>1. \A a \in Applies : ~ApplyEdit(a)
    BY <1>2 DEF ApplyEdit
  <2>2. \A r \in Releases : ~RefreshStamp(r)
    BY <1>2 DEF RefreshStamp
  <2>3. ~(\E i \in 1 .. Len(builds) : TRUE)
    BY <1>2
  <2>4. QED
    BY <1>2, <1>3, <2>1, <2>2, <2>3, DockerStep
<1>5. ASSUME NEW a \in Applies
      PROVE  apc'[a] \in {"list", "create", "error"}
  <2>1. apc[a] \in {"list", "create", "error"} /\ apc \in [Applies -> ApplyPlace]
    BY <1>2 DEF TypeOK
  <2>2. apc'[a] = apc[a] \/ ApplyList(a) \/ ApplyFails(a)
    BY <1>3, <2>1, ScriptStep DEF Apply, ApplyGet, ApplyCompare, ApplyEdit
  <2>3. QED
    BY <1>1, <2>1, <2>2 DEF ApplyList, ApplyFails
<1>6. ASSUME NEW r \in Releases
      PROVE  rpc'[r] \in {"before", "warned"}
  <2>1. rpc[r] \in {"before", "warned"} /\ rpc \in [Releases -> RefreshPlace]
    BY <1>2 DEF TypeOK
  <2>2. rpc'[r] = rpc[r] \/ RefreshFails(r) \/ Rerun(r)
    BY <1>1, <2>1, ReleaseStep DEF Refresh, RefreshBefore, RefreshGet, RefreshStamp, RefreshNew,
                                   RefreshWait, RefreshCheck
  <2>3. QED
    BY <2>1, <2>2 DEF RefreshFails, Rerun
<1>7. QED
  BY <1>4, <1>5, <1>6

LEMMA GotStep ==
    ASSUME TypeOK, NothingThere, Got, Next
    PROVE  Got'
<1>1. remote # <<>> => remote[1] \in Manifest
  BY DEF TypeOK
<1>2. ASSUME NEW a \in Applies, apc'[a] \in {"compare", "edit"}
      PROVE  agot'[a] # None
  <2>1. CASE apc'[a] = apc[a] /\ agot'[a] = agot[a]
    BY <1>2, <2>1 DEF Got
  <2>2. CASE ApplyGet(a)
    <3>1. remote # <<>>
      BY <2>2 DEF ApplyGet, NothingThere
    <3>2. agot'[a] = remote[1]
      BY <2>2 DEF ApplyGet, TypeOK
    <3>3. QED
      BY <1>1, <3>1, <3>2, NoneIsNothing
  <2>3. CASE ApplyCompare(a)
    BY <2>3 DEF ApplyCompare, Got
  <2>4. CASE ApplyList(a) \/ ApplyCreate(a) \/ ApplyEdit(a) \/ ApplyFails(a)
    <3>1. apc'[a] \in {"error", "create", "get", "ok"}
      BY <2>4 DEF ApplyList, ApplyCreate, ApplyEdit, ApplyFails, TypeOK
    <3>2. QED
      BY <1>2, <3>1
  <2>5. QED
    BY <2>1, <2>2, <2>3, <2>4, ScriptStep DEF Apply
<1>3. ASSUME NEW r \in Releases, rpc'[r] = "stamp"
      PROVE  rgot'[r] # None
  <2>1. CASE RefreshGet(r)
    <3>1. remote # <<>>
      BY <2>1 DEF RefreshGet, NothingThere
    <3>2. rgot'[r] = remote[1]
      BY <2>1 DEF RefreshGet, TypeOK
    <3>3. QED
      BY <1>1, <3>1, <3>2, NoneIsNothing
  <2>2. CASE ~RefreshGet(r)
    BY <1>3, <2>2, ReleaseMoves DEF Got
  <2>3. QED
    BY <2>1, <2>2
<1>4. QED
  BY <1>2, <1>3 DEF Got

\* A release that has caused a batch keeps it.
LEMMA BatchStays ==
    ASSUME TypeOK, NothingThere, Got, StampFresh, Next, NEW r \in Releases,
           \E j \in 1 .. Len(builds) : builds[j].by = r
    PROVE  \E j \in 1 .. Len(builds') : builds'[j].by = r
<1>1. builds \in Seq(Builds) /\ Len(builds) \in Nat
  BY BuildsGrow DEF TypeOK, Builds
<1>2. PICK j \in 1 .. Len(builds) : builds[j].by = r
  OBVIOUS
<1>3. CASE Progressed
  BY <1>2, <1>3 DEF Progressed
<1>4. ASSUME NEW by \in Applies \union Releases, Queued(by)
      PROVE  \E k \in 1 .. Len(builds') : builds'[k].by = r
  <2>1. Len(builds') = Len(builds) + 1 /\ builds'[j + 1] = builds[j]
    BY <1>1, <1>2, <1>4, BatchType, Prepend DEF Queued
  <2>2. j + 1 \in 1 .. Len(builds')
    BY <1>1, <2>1
  <2>3. QED
    BY <1>2, <2>1, <2>2
<1>5. QED
  BY <1>3, <1>4, BuildsStep

LEMMA StampFreshStep ==
    ASSUME TypeOK, NothingThere, Got, StampFresh, Next
    PROVE  StampFresh'
<1> SUFFICES ASSUME NEW r \in Releases,
                    NEW i \in 1 .. Len(remote'), remote'[i].ann # None, r \in remote'[i].ann
             PROVE  /\ rpc'[r] \in BeforeStamp => r \in again'
                    /\ \E j \in 1 .. Len(builds') : builds'[j].by = r
  BY DEF StampFresh, BeforeStamp
<1>1. CASE i \in 1 .. Len(remote) /\ remote'[i] = remote[i]
  <2>1. /\ rpc[r] \in BeforeStamp => r \in again
        /\ \E j \in 1 .. Len(builds) : builds[j].by = r
    BY <1>1 DEF StampFresh, BeforeStamp
  <2>2. rpc'[r] \in BeforeStamp => r \in again'
    BY <2>1, ReleaseMoves, AgainGrows
  <2>3. QED
    BY <2>1, <2>2, BatchStays
<1>2. CASE remote'[i] \in Written
  BY <1>2, WrittenManifest
<1>3. ASSUME NEW s \in Releases, RefreshStamp(s), rgot[s] \in Manifest,
             remote'[i] = Stamped(rgot[s], s)
      PROVE  /\ rpc'[r] \in BeforeStamp => r \in again'
             /\ \E j \in 1 .. Len(builds') : builds'[j].by = r
  <2>1. s = r
    BY <1>3, StampedManifest
  <2>2. rpc'[r] = "new"
    BY <1>3, <2>1 DEF RefreshStamp, TypeOK
  <2>3. CASE builds' = <<Batch(r)>> \o builds
    <3>1. builds \in Seq(Builds) /\ Len(builds) \in Nat
      BY BuildsGrow DEF TypeOK, Builds
    <3>2. Len(builds') = Len(builds) + 1 /\ builds'[1].by = r
      BY <2>3, <3>1, BatchType, Prepend
    <3>3. 1 \in 1 .. Len(builds')
      BY <3>1, <3>2
    <3>4. QED
      BY <2>2, <3>2, <3>3 DEF BeforeStamp
  <2>4. CASE UNCHANGED builds /\ \E j \in 1 .. Len(builds) : builds[j].by = r
    BY <2>2, <2>4 DEF BeforeStamp
  <2>5. QED
    BY <1>3, <2>1, <2>3, <2>4, StampStep
<1>4. QED
  BY <1>1, <1>2, <1>3, RemoteStep

LEMMA OneStampStep ==
    ASSUME TypeOK, NothingThere, Got, StampFresh, OneStamp, Next
    PROVE  OneStamp'
<1> SUFFICES ASSUME NEW i \in 1 .. Len(remote'), remote'[i].ann # None
             PROVE  Cardinality(remote'[i].ann \intersect Releases) <= 1
  BY DEF OneStamp
<1>1. CASE i \in 1 .. Len(remote) /\ remote'[i] = remote[i]
  BY <1>1 DEF OneStamp
<1>2. CASE remote'[i] \in Written
  <2>1. remote'[i].ann \intersect Releases = {}
    BY <1>2, WrittenManifest
  <2>2. Cardinality(remote'[i].ann \intersect Releases) = Cardinality({})
    BY <2>1, Zenon
  <2>3. Cardinality(remote'[i].ann \intersect Releases) = 0
    BY <2>2, FS_EmptySet, Zenon
  <2>4. QED
    BY <2>3, SMT
<1>3. ASSUME NEW s \in Releases, rgot[s] \in Manifest, remote'[i] = Stamped(rgot[s], s)
      PROVE  Cardinality(remote'[i].ann \intersect Releases) <= 1
  <2>1. remote'[i].ann \intersect Releases = {s}
    BY <1>3, StampedManifest
  <2>2. Cardinality(remote'[i].ann \intersect Releases) = Cardinality({s})
    BY <2>1, Zenon
  <2>3. Cardinality({s}) = 1
    BY FS_Singleton, Zenon
  <2>4. Cardinality(remote'[i].ann \intersect Releases) = 1
    BY <2>2, <2>3, Zenon
  <2>5. QED
    BY <2>4, SMT
<1>4. QED
  BY <1>1, <1>2, <1>3, RemoteStep

LEMMA CountedStep ==
    ASSUME TypeOK, NothingThere, Got, StampFresh, Counted, Next
    PROVE  Counted'
<1> SUFFICES ASSUME NEW r \in Releases PROVE rbefore'[r] <= Len(builds')
  BY DEF Counted
<1>1. Len(builds) \in Nat /\ Len(builds') \in Nat /\ Len(builds) <= Len(builds')
  BY BuildsGrow
<1>2. rbefore[r] \in Nat /\ rbefore[r] <= Len(builds)
  BY DEF TypeOK, Counted
<1>3. QED
  BY <1>1, <1>2, ReleaseMoves

\* The batch of a release stays within the builds since the release counted them.
LEMMA StampQueuesStep ==
    ASSUME TypeOK, NothingThere, Got, StampFresh, Counted, StampQueuesBuild, Next
    PROVE  StampQueuesBuild'
<1> SUFFICES ASSUME NEW r \in Releases, rpc'[r] \in AfterStamp
             PROVE  \E i \in 1 .. Len(builds') :
                        builds'[i].by = r /\ (i <= Len(builds') - rbefore'[r] \/ r \in again')
  BY DEF StampQueuesBuild, AfterStamp
<1>1. builds \in Seq(Builds) /\ Len(builds) \in Nat /\ rbefore[r] \in Nat /\ rbefore[r] <= Len(builds)
  BY BuildsGrow DEF TypeOK, Builds, Counted
<1>2. CASE RefreshStamp(r)
  <2>1. rbefore'[r] = rbefore[r] /\ again' = again
    BY <1>2 DEF RefreshStamp
  <2>2. CASE builds' = <<Batch(r)>> \o builds
    <3>1. Len(builds') = Len(builds) + 1 /\ builds'[1].by = r
      BY <1>1, <2>2, BatchType, Prepend
    <3>2. 1 \in 1 .. Len(builds') /\ 1 <= Len(builds') - rbefore'[r]
      BY <1>1, <2>1, <3>1
    <3>3. QED
      BY <3>1, <3>2
  <2>3. CASE UNCHANGED builds /\ r \in again /\ \E j \in 1 .. Len(builds) : builds[j].by = r
    BY <2>1, <2>3
  <2>4. QED
    BY <1>2, <2>2, <2>3, StampStep
<1>3. CASE rpc[r] \in AfterStamp
  <2>1. rbefore'[r] = rbefore[r] /\ again \subseteq again'
    BY <1>3, ReleaseMoves, AgainGrows DEF AfterStamp
  <2>2. PICK i \in 1 .. Len(builds) :
            builds[i].by = r /\ (i <= Len(builds) - rbefore[r] \/ r \in again)
    BY <1>3 DEF StampQueuesBuild, AfterStamp
  <2>4. CASE Progressed
    <3>1. builds'[i].by = r /\ Len(builds') = Len(builds)
      BY <2>2, <2>4 DEF Progressed
    <3>2. QED
      BY <2>1, <2>2, <3>1
  <2>5. ASSUME NEW by \in Applies \union Releases, Queued(by)
        PROVE  \E j \in 1 .. Len(builds') :
                   builds'[j].by = r /\ (j <= Len(builds') - rbefore'[r] \/ r \in again')
    <3>1. Len(builds') = Len(builds) + 1 /\ builds'[i + 1] = builds[i]
      BY <1>1, <2>2, <2>5, BatchType, Prepend DEF Queued
    <3>2. /\ i + 1 \in 1 .. Len(builds')
          /\ i <= Len(builds) - rbefore[r] => i + 1 <= Len(builds') - rbefore'[r]
      BY <1>1, <2>1, <3>1
    <3>3. QED
      BY <2>1, <2>2, <3>1, <3>2
  <2>6. QED
    BY <2>4, <2>5, BuildsStep
<1>4. QED
  BY <1>2, <1>3, ReleaseMoves

\* A batch that was done when its release stopped waiting is not reopened, and the
\* release queues no other.
LEMMA WaitedStep ==
    ASSUME TypeOK, NothingThere, Got, StampFresh, Waited, Next
    PROVE  Waited'
<1> SUFFICES ASSUME NEW r \in Releases, rpc'[r] \in {"check", "rebuilt"}, rpolls'[r] < MaxPolls,
                    NEW i \in 1 .. Len(builds'), builds'[i].by = r, NEW p \in Platforms
             PROVE  builds'[i].status[p] # "IN_PROGRESS"
  BY DEF Waited
<1>1. builds \in Seq(Builds) /\ Len(builds) \in Nat
  BY BuildsGrow DEF TypeOK, Builds
<1>2. \A j \in 1 .. Len(builds) : builds[j].by = r =>
          \A q \in Platforms : builds[j].status[q] # "IN_PROGRESS"
  <2>1. CASE ~(Pending /\ rpolls[r] < MaxPolls) /\ rpolls'[r] = rpolls[r]
    BY <2>1 DEF Pending
  <2>2. CASE rpc[r] \in {"check", "rebuilt"} /\ rpolls'[r] = rpolls[r]
    BY <2>2 DEF Waited
  <2>3. QED
    BY <2>1, <2>2, ReleaseMoves
<1>3. CASE Progressed
  <2>1. i \in 1 .. Len(builds) /\ builds[i].by = r
    BY <1>3 DEF Progressed
  <2>2. builds[i].status[p] # "IN_PROGRESS"
    BY <1>2, <2>1
  <2>3. builds'[i].status[p] = builds[i].status[p]
    BY <1>3, <2>1, <2>2 DEF Progressed
  <2>4. QED
    BY <2>2, <2>3
<1>4. ASSUME NEW by \in Applies \union Releases, Queued(by)
      PROVE  builds'[i].status[p] # "IN_PROGRESS"
  <2>1. /\ Len(builds') = Len(builds) + 1 /\ builds'[1].by = by
        /\ \A j \in 2 .. Len(builds) + 1 : builds'[j] = builds[j - 1]
    BY <1>1, <1>4, BatchType, Prepend DEF Queued
  <2>2. by # r
    <3>1. rpc[r] # "stamp"
      BY ReleaseMoves DEF RefreshWait
    <3>2. QED
      BY <1>4, <3>1 DEF Queued
  <2>3. i \in 2 .. Len(builds) + 1 /\ i - 1 \in 1 .. Len(builds)
    BY <1>1, <2>1, <2>2
  <2>4. QED
    BY <1>2, <2>1, <2>3
<1>5. QED
  BY <1>3, <1>4, BuildsStep

\* "rebuilt" is said of a batch of which nothing failed and nothing was in progress.
LEMMA NewestStep ==
    ASSUME TypeOK, NothingThere, Got, StampFresh, Counted, StampQueuesBuild, Waited,
           NewestBuildChecked, Next
    PROVE  NewestBuildChecked'
<1> SUFFICES ASSUME NEW r \in Releases, rpc'[r] = "rebuilt", rpolls'[r] < MaxPolls,
                    builds'[1].by = r, NEW p \in Platforms
             PROVE  builds'[1].status[p] = "SUCCESS"
  BY DEF NewestBuildChecked
<1>1. builds \in Seq(Builds) /\ Len(builds) \in Nat
  BY BuildsGrow DEF TypeOK, Builds
<1>2. rpc[r] \in {"check", "rebuilt"} /\ rpolls'[r] = rpolls[r]
  BY ReleaseMoves DEF RefreshCheck
<1>3. 1 \in 1 .. Len(builds)
  <2>1. PICK i \in 1 .. Len(builds) : builds[i].by = r
    BY <1>2 DEF StampQueuesBuild
  <2>2. QED
    BY <1>1, <2>1
<1>4. CASE RefreshCheck(r)
  <2>1. builds' = builds /\ rpc' = [rpc EXCEPT ![r] =
            IF \E q \in Platforms : builds[1].status[q] = "FAILURE" THEN "warned" ELSE "rebuilt"]
    BY <1>4 DEF RefreshCheck
  <2>2. builds[1].status[p] # "FAILURE"
    BY <2>1 DEF TypeOK
  <2>3. builds[1].status[p] # "IN_PROGRESS"
    BY <1>2, <1>3, <2>1 DEF Waited
  <2>4. builds[1].status[p] \in Status
    <3>1. builds[1] \in Builds
      BY <1>1, <1>3
    <3>2. QED
      BY <3>1 DEF Builds
  <2>5. QED
    BY <2>1, <2>2, <2>3, <2>4 DEF Status
<1>5. CASE rpc[r] = "rebuilt"
  <2>1. CASE Progressed
    <3>1. builds[1].by = r
      BY <1>3, <2>1 DEF Progressed
    <3>2. builds[1].status[p] = "SUCCESS"
      BY <1>2, <1>5, <3>1 DEF NewestBuildChecked
    <3>3. QED
      BY <1>3, <2>1, <3>2 DEF Progressed
  <2>2. ASSUME NEW by \in Applies \union Releases, Queued(by)
        PROVE  FALSE
    <3>1. builds'[1].by = by
      BY <1>1, <2>2, BatchType, Prepend DEF Queued
    <3>2. QED
      BY <1>5, <2>2, <3>1 DEF Queued
  <2>3. QED
    BY <2>1, <2>2, BuildsStep
<1>6. QED
  BY <1>4, <1>5, ReleaseMoves

\* The invariant holds of every behaviour, for any number of scripts and releases.
THEOREM Invariance == Spec => []IndInv
<1>1. Init => IndInv
  <2> SUFFICES ASSUME Init PROVE IndInv
    OBVIOUS
  <2>1. PICK m \in Initials : remote = IF m = None THEN <<>> ELSE <<m>>
    BY DEF Init
  <2>2. m = None \/ m \in Written
    BY ManifestsWritten
  <2>3. remote = <<>> \/ (m \in Written /\ remote = <<m>>)
    BY <2>1, <2>2
  <2>4. \A i \in 1 .. Len(remote) : remote[i] \in Written
    <3>1. CASE remote = <<>>
      BY <3>1
    <3>2. CASE m \in Written /\ remote = <<m>>
      <4>1. Len(remote) = 1 /\ remote[1] = m
        BY <3>2
      <4>2. QED
        BY <3>2, <4>1
    <3>3. QED
      BY <2>3, <3>1, <3>2
  <2>5. remote \in Seq(Manifest)
    <3>1. m \in Written => m \in Manifest
      BY WrittenManifest
    <3>2. CASE remote = <<>>
      BY <3>2
    <3>3. CASE m \in Manifest /\ remote = <<m>>
      BY <3>3
    <3>4. QED
      BY <2>3, <3>1, <3>2, <3>3
  <2>6. \A r \in Releases : rpc[r] = "before" /\ rbefore[r] = 0 /\ rgot[r] = None
    BY DEF Init
  <2>7. \A a \in Applies : apc[a] = "list" /\ agot[a] = None
    BY DEF Init
  <2>8. TypeOK
    BY <2>5 DEF Init, TypeOK, ApplyPlace, RefreshPlace
  <2>9. NothingThere /\ Got /\ Counted /\ Waited
    BY <2>6, <2>7 DEF Init, NothingThere, Got, Counted, Waited
  <2>10. StampFresh
    BY <2>4, WrittenManifest DEF StampFresh
  <2>11. OneStamp
    <3>1. ASSUME NEW i \in 1 .. Len(remote), remote[i].ann # None
          PROVE  Cardinality(remote[i].ann \intersect Releases) <= 1
      <4>1. remote[i].ann \intersect Releases = {}
        BY <2>4, <3>1, WrittenManifest
      <4>2. Cardinality(remote[i].ann \intersect Releases) = Cardinality({})
        BY <4>1, Zenon
      <4>3. QED
        BY <4>2, FS_EmptySet
    <3>2. QED
      BY <3>1 DEF OneStamp
  <2>12. StampQueuesBuild /\ NewestBuildChecked
    BY <2>6 DEF StampQueuesBuild, NewestBuildChecked
  <2>13. QED
    BY <2>8, <2>9, <2>10, <2>11, <2>12 DEF IndInv, RefreshRebuilds
<1>2. IndInv /\ [Next]_vars => IndInv'
  <2> SUFFICES ASSUME IndInv, [Next]_vars PROVE IndInv'
    OBVIOUS
  <2>1. CASE Next
    BY <2>1, TypeStep, NothingThereStep, GotStep, StampFreshStep, OneStampStep, CountedStep,
       StampQueuesStep, WaitedStep, NewestStep DEF IndInv, RefreshRebuilds
  <2>2. CASE UNCHANGED vars
    <3> USE <2>2 DEF vars, IndInv
    <3>1. TypeOK'
      BY DEF TypeOK
    <3>2. NothingThere' /\ Got'
      BY DEF NothingThere, Got
    <3>3. StampFresh' /\ Counted'
      BY DEF StampFresh, Counted
    <3>4. Waited'
      BY DEF Waited
    <3>5. StampQueuesBuild' /\ OneStamp'
      BY DEF RefreshRebuilds, StampQueuesBuild, OneStamp
    <3>6. NewestBuildChecked'
      BY DEF RefreshRebuilds, NewestBuildChecked
    <3>7. QED
      BY <3>1, <3>2, <3>3, <3>4, <3>5, <3>6 DEF RefreshRebuilds
  <2>3. QED
    BY <2>1, <2>2
<1>3. QED
  BY <1>1, <1>2, PTL DEF Spec

\* A release that stamped has a batch of its own, since it began unless it was repeated,
\* whatever scripts and other releases do meanwhile; there is one stamp; and a release
\* that waited long enough reports its newest batch as rebuilt only if it succeeded on
\* every platform (plugin-compiler-ng-build.yml:154 to 228).
THEOREM RefreshRebuildsAlways == Spec => []RefreshRebuilds
<1>1. IndInv => RefreshRebuilds
  BY DEF IndInv
<1>2. QED
  BY <1>1, Invariance, PTL

-----------------------------------------------------------------------------
(* Scripts and releases *)

\* A script and a release that run at once: whoever puts back an older image is a
\* release, also with several scripts of one manifest.
LEMMA StaleBehindStep ==
    ASSUME OneManifest, IndInv, StaleBehind, Next
    PROVE  StaleBehind'
<1> SUFFICES ASSUME NEW a \in Applies, remote' # <<>>, ~SameImage(remote'[1], Want[a]),
                    \/ apc'[a] \in {"create", "ok", "unchanged"}
                    \/ agot'[a] # None /\ SameImage(agot'[a], Want[a])
             PROVE  \E r \in Releases : rgot'[r] # None /\ SameImage(rgot'[r], remote'[1])
  BY DEF StaleBehind, Stale
<1>1. TypeOK /\ NothingThere /\ Got /\ StampFresh
  BY DEF IndInv
<1>2. Want[a] \in Manifest
  BY ManifestsWritten, WrittenManifest
<1>3. SameImage(Want[a], Want[a])
  BY DEF SameImage
<1>4. ASSUME NEW r \in Releases, RefreshStamp(r)
      PROVE  rgot'[r] # None /\ SameImage(rgot'[r], remote'[1])
  <2>1. /\ rgot[r] \in Manifest /\ remote # <<>>
        /\ remote' = [remote EXCEPT ![1] = Stamped(rgot[r], r)]
    BY <1>1, <1>4, StampStep
  <2>2. remote'[1] = Stamped(rgot[r], r)
    BY <1>1, <2>1 DEF TypeOK
  <2>3. rgot'[r] = rgot[r]
    BY <1>4 DEF RefreshStamp
  <2>4. QED
    BY <2>1, <2>2, <2>3, StampedManifest, NoneIsNothing
<1>5. ASSUME NEW r \in Releases, RefreshGet(r)
      PROVE  rgot'[r] # None /\ SameImage(rgot'[r], remote'[1])
  <2>1. rpc[r] = "get" /\ rgot' = [rgot EXCEPT ![r] = remote[1]] /\ remote' = remote
    BY <1>5 DEF RefreshGet
  <2>2. remote # <<>>
    BY <1>1, <2>1 DEF NothingThere
  <2>3. remote[1] \in Manifest
    BY <1>1, <2>2 DEF TypeOK
  <2>4. rgot'[r] = remote'[1] /\ rgot'[r] # None
    BY <1>1, <2>1, <2>3, NoneIsNothing DEF TypeOK
  <2>5. QED
    BY <2>4 DEF SameImage
<1>6. ASSUME NEW b \in Applies, ApplyEdit(b)
      PROVE  FALSE
  <2>1. remote'[1] = Want[b]
    BY <1>1, <1>6, EditStep
  <2>2. Want[b] = Want[a]
    BY DEF OneManifest
  <2>3. QED
    BY <1>3, <2>1, <2>2
<1>7. ASSUME NEW b \in Applies, ApplyCreate(b), remote = <<>>
      PROVE  FALSE
  <2>1. remote' = <<Want[b]>>
    BY <1>7 DEF ApplyCreate, Create
  <2>2. remote'[1] = Want[b]
    BY <2>1
  <2>3. Want[b] = Want[a]
    BY DEF OneManifest
  <2>4. QED
    BY <1>3, <2>2, <2>3
<1>8. CASE /\ remote # <<>> /\ remote'[1] = remote[1]
           /\ \A r \in Releases : ~RefreshGet(r)
  <2>1. \A r \in Releases : rgot'[r] = rgot[r]
    BY <1>1, <1>8, ReleaseMoves
  <2>2. \/ apc[a] \in {"create", "ok", "unchanged"}
        \/ agot[a] # None /\ SameImage(agot[a], Want[a])
    <3>1. CASE apc'[a] = apc[a] /\ agot'[a] = agot[a]
      BY <3>1
    <3>2. CASE ApplyList(a)
      <4>1. apc'[a] \in {"error", "get"} /\ agot'[a] = agot[a]
        BY <1>1, <1>8, <3>2 DEF ApplyList, TypeOK
      <4>2. QED
        BY <4>1
    <3>3. CASE ApplyCreate(a)
      BY <3>3 DEF ApplyCreate
    <3>4. CASE ApplyGet(a)
      <4>1. apc'[a] = "compare" /\ agot'[a] = remote[1]
        BY <1>1, <3>4 DEF ApplyGet, TypeOK
      <4>2. QED
        BY <1>8, <4>1
    <3>5. CASE ApplyCompare(a)
      <4>1. agot'[a] = agot[a] /\ apc[a] = "compare"
            /\ apc'[a] = IF EqualCustomizations(Want[a], agot[a]) THEN "unchanged" ELSE "edit"
        BY <1>1, <3>5 DEF ApplyCompare, TypeOK
      <4>2. agot[a] \in Manifest
        BY <1>1, <4>1 DEF TypeOK, Got
      <4>3. EqualCustomizations(Want[a], agot[a]) => SameImage(agot[a], Want[a])
        BY <1>2, <4>2, EqualIsSameImage DEF SameImage
      <4>4. QED
        BY <4>1, <4>2, <4>3, NoneIsNothing
    <3>6. CASE ApplyFails(a)
      <4>1. apc'[a] = "error" /\ agot'[a] = agot[a]
        BY <1>1, <3>6 DEF ApplyFails, TypeOK
      <4>2. QED
        BY <4>1
    <3>7. QED
      BY <1>1, <1>6, <3>1, <3>2, <3>3, <3>4, <3>5, <3>6, ScriptStep DEF Apply
  <2>3. PICK r \in Releases : rgot[r] # None /\ SameImage(rgot[r], remote[1])
    BY <1>8, <2>2 DEF StaleBehind, Stale
  <2>4. QED
    BY <1>8, <2>1, <2>3
<1>9. \/ remote # <<>> /\ remote'[1] = remote[1]
      \/ \E r \in Releases : RefreshStamp(r)
      \/ \E b \in Applies : ApplyEdit(b)
      \/ \E b \in Applies : ApplyCreate(b) /\ remote = <<>>
  <2>1. ASSUME NEW b \in Applies, ApplyCreate(b), remote # <<>>
        PROVE  remote'[1] = remote[1]
    <3>1. remote' = Append(remote, Want[b])
      BY <2>1 DEF ApplyCreate, Create
    <3>2. QED
      BY <1>1, <2>1, <3>1 DEF TypeOK
  <2>2. ASSUME NEW i, NEW p, NEW result, BuildEnds(i, p, result)
        PROVE  UNCHANGED remote
    BY <2>2 DEF BuildEnds
  <2>3. QED
    BY <1>1, <2>1, <2>2, DockerStep
<1>10. QED
  BY <1>4, <1>5, <1>6, <1>7, <1>8, <1>9

\* When all scripts are of one manifest: once one of them has put it in place, or found
\* it there, only a release that had read an older one can undo it
\* (apply-plugin-compiler-customization.sh:60 to 97).
THEOREM OnlyStaleReleaseRevertsAlways ==
    ASSUME OneManifest
    PROVE  Spec => []OnlyStaleReleaseReverts
<1>1. Init => StaleBehind
  <2>1. Init => \A a \in Applies : apc[a] = "list" /\ agot[a] = None
    BY DEF Init
  <2>2. QED
    BY <2>1 DEF StaleBehind
<1>2. IndInv /\ StaleBehind /\ [Next]_vars => StaleBehind'
  <2>1. IndInv /\ StaleBehind /\ Next => StaleBehind'
    BY StaleBehindStep
  <2>2. StaleBehind /\ UNCHANGED vars => StaleBehind'
    BY DEF vars, StaleBehind, Stale
  <2>3. QED
    BY <2>1, <2>2
<1>3. IndInv /\ StaleBehind => OnlyStaleReleaseReverts
  <2> SUFFICES ASSUME IndInv, StaleBehind, NEW a \in Applies, apc[a] \in {"ok", "unchanged"},
                      ~SameImage(remote[1], Want[a])
               PROVE  Stale
    BY DEF OnlyStaleReleaseReverts, Stale
  <2>1. remote # <<>>
    BY DEF IndInv, NothingThere
  <2>2. QED
    BY <2>1 DEF StaleBehind
<1>4. QED
  BY <1>1, <1>2, <1>3, Invariance, PTL DEF Spec

\* A script that runs alone: until it edits, whatever releases stamp is the image it got.
LEMMA OneImageStep ==
    ASSUME OneScript, IndInv, OneImage, EditNeeded, Next
    PROVE  OneImage' /\ EditNeeded'
<1>1. TypeOK /\ NothingThere /\ Got /\ StampFresh
  BY DEF IndInv
<1>2. ASSUME NEW a \in Applies, apc'[a] \in {"list", "get", "compare", "edit"}
      PROVE  /\ agot'[a] # None => SameImage(agot'[a], remote'[1])
             /\ \A r \in Releases : rgot'[r] # None => SameImage(rgot'[r], remote'[1])
  <2>1. /\ apc[a] \in {"list", "get", "compare", "edit"}
        /\ ~ApplyCreate(a) /\ ~ApplyEdit(a)
        /\ agot'[a] = agot[a] \/ ApplyGet(a)
    <3>1. CASE apc'[a] = apc[a] /\ agot'[a] = agot[a]
      <4>1. ~ApplyCreate(a)
        BY <1>2, <3>1 DEF ApplyCreate
      <4>2. ~ApplyEdit(a)
        BY <1>1, <1>2, <3>1 DEF ApplyEdit, TypeOK
      <4>3. QED
        BY <1>2, <3>1, <4>1, <4>2
    <3>2. CASE ApplyList(a) \/ ApplyGet(a) \/ ApplyCompare(a)
      BY <1>1, <3>2 DEF ApplyList, ApplyGet, ApplyCompare, ApplyCreate, ApplyEdit
    <3>3. CASE ApplyCreate(a) \/ ApplyEdit(a) \/ ApplyFails(a)
      <4>1. apc'[a] \in {"ok", "error"}
        BY <1>1, <3>3 DEF ApplyCreate, ApplyEdit, ApplyFails, TypeOK
      <4>2. QED
        BY <1>2, <4>1
    <3>4. QED
      BY <1>1, <3>1, <3>2, <3>3, ScriptStep DEF Apply
  <2>2. \A b \in Applies : ~ApplyCreate(b) /\ ~ApplyEdit(b)
    BY <2>1 DEF OneScript
  <2>3. /\ agot[a] # None => SameImage(agot[a], remote[1])
        /\ \A r \in Releases : rgot[r] # None => SameImage(rgot[r], remote[1])
    BY <2>1 DEF OneImage
  <2>4. SameImage(remote[1], remote'[1])
    <3>1. CASE remote' = remote
      BY <3>1 DEF SameImage
    <3>2. ASSUME NEW s \in Releases, RefreshStamp(s)
          PROVE  SameImage(remote[1], remote'[1])
      <4>1. /\ rgot[s] \in Manifest /\ remote # <<>>
            /\ remote' = [remote EXCEPT ![1] = Stamped(rgot[s], s)]
        BY <1>1, <3>2, StampStep
      <4>2. remote'[1] = Stamped(rgot[s], s)
        BY <1>1, <4>1 DEF TypeOK
      <4>3. SameImage(rgot[s], remote'[1]) /\ SameImage(rgot[s], remote[1])
        BY <2>3, <4>1, <4>2, StampedManifest, NoneIsNothing
      <4>4. QED
        BY <4>3 DEF SameImage
    <3>3. ASSUME NEW i, NEW p, NEW result, BuildEnds(i, p, result)
          PROVE  remote' = remote
      BY <3>3 DEF BuildEnds
    <3>4. QED
      BY <1>1, <2>2, <3>1, <3>2, <3>3, DockerStep
  <2>5. agot'[a] # None => SameImage(agot'[a], remote'[1])
    <3>1. CASE agot'[a] = agot[a]
      BY <2>3, <2>4, <3>1 DEF SameImage
    <3>2. CASE ApplyGet(a)
      <4>1. agot'[a] = remote[1]
        BY <1>1, <3>2 DEF ApplyGet, TypeOK
      <4>2. QED
        BY <2>4, <4>1
    <3>3. QED
      BY <2>1, <3>1, <3>2
  <2>6. ASSUME NEW r \in Releases, rgot'[r] # None
        PROVE  SameImage(rgot'[r], remote'[1])
    <3>1. CASE rgot'[r] = rgot[r]
      BY <2>3, <2>4, <2>6, <3>1 DEF SameImage
    <3>2. CASE RefreshGet(r)
      <4>1. rgot'[r] = remote[1]
        BY <1>1, <3>2 DEF RefreshGet, TypeOK
      <4>2. QED
        BY <2>4, <4>1
    <3>3. QED
      BY <1>1, <3>1, <3>2, ReleaseMoves
  <2>7. QED
    BY <2>5, <2>6
<1>3. ASSUME NEW a \in Applies, apc'[a] = "edit"
      PROVE  ~SameImage(agot'[a], Want[a])
  <2>1. CASE apc'[a] = apc[a] /\ agot'[a] = agot[a]
    BY <1>3, <2>1 DEF EditNeeded
  <2>2. CASE ApplyCompare(a)
    <3>1. agot'[a] = agot[a] /\ apc[a] = "compare" /\ ~EqualCustomizations(Want[a], agot[a])
      BY <1>1, <1>3, <2>2 DEF ApplyCompare, TypeOK
    <3>2. agot[a] \in Manifest /\ Want[a] \in Manifest
      BY <1>1, <3>1, ManifestsWritten, WrittenManifest DEF TypeOK, Got
    <3>3. ~SameImage(Want[a], agot[a])
      BY <3>1, <3>2, EqualIsSameImage
    <3>4. QED
      BY <3>1, <3>3 DEF SameImage
  <2>3. CASE ApplyList(a) \/ ApplyCreate(a) \/ ApplyGet(a) \/ ApplyEdit(a) \/ ApplyFails(a)
    <3>1. apc'[a] \in {"error", "create", "get", "compare", "ok"}
      BY <1>1, <2>3 DEF ApplyList, ApplyCreate, ApplyGet, ApplyEdit, ApplyFails, TypeOK
    <3>2. QED
      BY <1>3, <3>1
  <2>4. QED
    BY <1>1, <2>1, <2>2, <2>3, ScriptStep DEF Apply
<1>4. QED
  BY <1>2, <1>3 DEF OneImage, EditNeeded

\* A script that runs alone among any number of releases causes a build only of another
\* image than the one that was there: stamps are no difference (manifest.go:60).
THEOREM AppliesBuildChangesAlways ==
    ASSUME OneScript
    PROVE  Spec => AppliesBuildChanges
<1> DEFINE Change == \A a \in Applies :
        Len(builds') > Len(builds) /\ builds'[1].by = a /\ remote # <<>> =>
            ~SameImage(remote[1], remote'[1])
<1>1. Init => OneImage /\ EditNeeded
  <2>1. Init => /\ \A a \in Applies : apc[a] = "list" /\ agot[a] = None
                /\ \A r \in Releases : rgot[r] = None
    BY DEF Init
  <2>2. QED
    BY <2>1 DEF OneImage, EditNeeded
<1>2. IndInv /\ OneImage /\ EditNeeded /\ [Next]_vars => OneImage' /\ EditNeeded'
  <2>1. IndInv /\ OneImage /\ EditNeeded /\ Next => OneImage' /\ EditNeeded'
    BY OneImageStep
  <2>2. OneImage /\ EditNeeded /\ UNCHANGED vars => OneImage' /\ EditNeeded'
    BY DEF vars, OneImage, EditNeeded
  <2>3. QED
    BY <2>1, <2>2
<1>3. IndInv /\ OneImage /\ EditNeeded /\ [Next]_vars => [Change]_vars
  <2> SUFFICES ASSUME IndInv, OneImage, EditNeeded, Next, NEW a \in Applies,
                      Len(builds') > Len(builds), builds'[1].by = a, remote # <<>>
               PROVE  ~SameImage(remote[1], remote'[1])
    OBVIOUS
  <2>1. TypeOK /\ NothingThere /\ Got /\ StampFresh
    BY DEF IndInv
  <2>2. Len(builds) \in Nat /\ builds \in Seq(Builds)
    BY <2>1, BuildsGrow DEF TypeOK, Builds
  <2>3. PICK by \in Applies \union Releases : Queued(by)
    BY <2>1, <2>2, BuildsStep DEF Progressed
  <2>4. by = a
    BY <2>2, <2>3, BatchType, Prepend DEF Queued
  <2>5. \A r \in Releases : ~RefreshStamp(r)
    <3>1. SUFFICES ASSUME NEW r \in Releases, RefreshStamp(r) PROVE FALSE
      OBVIOUS
    <3>2. builds' = <<Batch(r)>> \o builds
      BY <2>1, <2>2, <3>1, StampStep
    <3>3. builds'[1].by = r
      BY <2>2, <3>2, BatchType, Prepend
    <3>4. QED
      BY <3>3, ActorsDistinct
  <2>6. PICK b \in Applies : ApplyEdit(b)
    <3>1. \A b \in Applies : ~ApplyCreate(b)
      BY <2>2 DEF ApplyCreate, Create
    <3>2. ASSUME NEW i, NEW p, NEW result, BuildEnds(i, p, result)
          PROVE  Len(builds') = Len(builds)
      BY <2>2, <3>2 DEF BuildEnds
    <3>3. QED
      BY <2>1, <2>2, <2>5, <3>1, <3>2, DockerStep
  <2>7. b = a /\ apc[a] = "edit" /\ agot[a] # None
    BY <2>1, <2>6 DEF OneScript, ApplyEdit, Got
  <2>8. remote'[1] = Want[a]
    BY <2>1, <2>6, <2>7, EditStep
  <2>9. SameImage(agot[a], remote[1]) /\ ~SameImage(agot[a], Want[a])
    BY <2>7 DEF OneImage, EditNeeded
  <2>10. QED
    BY <2>8, <2>9 DEF SameImage
<1>4. QED
  BY <1>1, <1>2, <1>3, Invariance, PTL DEF Spec, AppliesBuildChanges
=============================================================================
