------------------------- MODULE PackageCleanProofs -------------------------
(***************************************************************************)
(* Proofs about PackageClean for every set of packages, every number of    *)
(* workers, every page size and any number of failures and crashes, as     *)
(* long as nothing is published while the command runs.                    *)
(***************************************************************************)
EXTENDS PackageClean, FiniteSetTheorems, TLAPS

-----------------------------------------------------------------------------
(* The inductive invariant behind the safety properties; it needs that nothing *)
(* is published while the command runs.                                        *)

\* Nothing is in flight outside a turn; what is belongs to the turn's repository,
\* which is known, and a worker's package was selected.
InFlight ==
    /\ phase # "clean" => todo = {} /\ \A w \in Workers : pc[w] = "gone"
    /\ phase = "clean" => Repo \in DOMAIN Config
    /\ \A p \in todo : RepoOf[p] = Repo
    /\ \A w \in Workers : Active(w) =>
           item[w] \in Packages /\ RepoOf[item[w]] = Repo /\ Eligible(item[w])

InHands == {item[w] : w \in {v \in Workers : Active(v)}}

\* Whatever was listed stays in front of the next page, so it is not listed
\* again; no package is in two hands.
ListedOnce ==
    /\ \A p \in todo \union InHands : Position(p) < page * PageSize
    /\ todo \intersect InHands = {}
    /\ \A v, w \in Workers : v # w /\ Active(v) /\ Active(w) => item[v] # item[w]

\* A removed package is nowhere but in `deleted`.
GoneForGood ==
    /\ uploads \intersect (remote \union deleted) = {}
    /\ deleted \intersect (remote \union todo \union InHands) = {}

Prefix(c, n) == [b \in Blocks |-> IF b <= n THEN c ELSE Hole]

\* What a worker knows of its file at each of its steps.
FilesKnown ==
    \A w \in Workers :
        /\ pc[w] \notin {"copy", "delete"} => off[w] = 0
        /\ pc[w] = "create" => ~Saved(item[w])
        /\ pc[w] \in {"get", "copy"} =>
               off[w] < NBlocks /\ disk[Path[item[w]]] = Prefix(Content[item[w]], off[w])
        /\ pc[w] = "delete" /\ ShouldBackup(Repo) => Saved(item[w])

IndInv ==
    TypeOK /\ InFlight /\ ListedOnce /\ GoneForGood /\ FilesKnown /\ RemovedAreSaved

-----------------------------------------------------------------------------
\* The position of a package in the listing is a number, and removing packages
\* never raises it.
LEMMA PositionShrinks ==
    ASSUME TypeOK, remote' \subseteq remote, NEW p \in Packages
    PROVE  /\ Position(p) \in Nat
           /\ Position(p)' \in Nat
           /\ Position(p)' <= Position(p)
<1> DEFINE S == {q \in Listing(RepoOf[p]) : Order[q] < Order[p]}
<1>1. IsFiniteSet(S)
  <2>1. S \subseteq Packages
    BY DEF Listing, TypeOK
  <2> QED BY <2>1, ConstantsTyped, FS_Subset
<1>2. S' \subseteq S
  BY DEF Listing
<1>3. IsFiniteSet(S') /\ Cardinality(S') <= Cardinality(S)
  BY <1>1, <1>2, FS_Subset
<1>4. Cardinality(S) \in Nat /\ Cardinality(S') \in Nat
  BY <1>1, <1>3, FS_CardinalityType
<1> QED BY <1>3, <1>4 DEF Position

\* Within one repository, different packages are saved to different files.
LEMMA OwnFile ==
    ASSUME NEW p \in Packages, NEW q \in Packages, RepoOf[p] = RepoOf[q], p # q
    PROVE  Path[p] # Path[q]
BY PathsAgree

\* The initial state satisfies the inductive invariant.
LEMMA IndInvInit == Init => IndInv
<1> SUFFICES ASSUME Init PROVE IndInv
  OBVIOUS
<1> USE DEF Init
<1>1. TypeOK
  <2>1. remote \subseteq Packages /\ uploads \subseteq Packages /\ deleted \subseteq Packages
    BY ConstantsTyped DEF ConstantsTyped
  <2>2. disk \in [Paths -> Files \union {NoFile}]
    OBVIOUS
  <2>3. failures \in 0 .. MaxFailures /\ cur \in 1 .. Len(Args)
    BY ConstantsTyped DEF ConstantsTyped
  <2>4. pc \in [Workers -> {"recv", "open", "create", "get", "copy", "delete", "gone"}]
    OBVIOUS
  <2>5. item \in [Workers -> Packages \union {NoPackage}]
    OBVIOUS
  <2>6. off \in [Workers -> 0 .. NBlocks]
    BY ConstantsTyped DEF ConstantsTyped
  <2>7. failed \in BOOLEAN /\ more \in BOOLEAN /\ delete \in BOOLEAN
    OBVIOUS
  <2> QED BY <2>1, <2>2, <2>3, <2>4, <2>5, <2>6, <2>7 DEF TypeOK
<1>2. InFlight
  BY DEF InFlight, Active
<1>3. ListedOnce
  BY DEF ListedOnce, InHands, Active
<1>4. GoneForGood
  BY DEF GoneForGood, InHands, Active
<1>5. FilesKnown
  BY DEF FilesKnown
<1>6. RemovedAreSaved
  BY DEF RemovedAreSaved
<1> QED BY <1>1, <1>2, <1>3, <1>4, <1>5, <1>6 DEF IndInv

-----------------------------------------------------------------------------
(* Types *)

\* Handing back a package keeps the workers' types.
LEMMA NextItemTyped ==
    ASSUME TypeOK, NEW w \in Workers, NextItem(w)
    PROVE  /\ pc' \in [Workers -> {"recv", "open", "create", "get", "copy", "delete", "gone"}]
           /\ item' \in [Workers -> Packages \union {NoPackage}]
           /\ off' \in [Workers -> 0 .. NBlocks]
<1>1. NBlocks \in Nat
  BY ConstantsTyped DEF ConstantsTyped
<1> QED BY <1>1 DEF TypeOK, NextItem

\* Every step preserves the type invariant.
LEMMA TypeStep == ASSUME IndInv, Next PROVE TypeOK'
<1>0. TypeOK /\ InFlight /\ FilesKnown
  BY DEF IndInv
<1>a. Len(Args) \in Nat \ {0} /\ NBlocks \in Nat \ {0} /\ MaxFailures \in Nat
  BY ConstantsTyped DEF ConstantsTyped
<1>b. Fail => failures' \in 0 .. MaxFailures
  BY <1>0, <1>a DEF TypeOK, Fail
<1>1. CASE Run
  BY <1>1, <1>0, <1>a DEF Run, TypeOK, store, producer, workers
<1>2. CASE BeginRepo
  BY <1>2, <1>0 DEF BeginRepo, TypeOK, store
<1>3. CASE UnknownRepo
  BY <1>3, <1>0 DEF UnknownRepo, TypeOK, store, producer, workers
<1>4. CASE EndRepo
  <2>1. phase' \in {"idle", "repo"} /\ cur' \in 1 .. Len(Args)
    <3>1. cur \in 1 .. Len(Args)
      BY <1>0 DEF TypeOK
    <3>2. CASE failed \/ cur = Len(Args)
      <4>1. phase' = "idle" /\ cur' = cur
        BY <1>4, <3>2 DEF EndRepo
      <4> QED BY <4>1, <3>1
    <3>3. CASE ~(failed \/ cur = Len(Args))
      <4>1. phase' = "repo" /\ cur' = cur + 1 /\ cur # Len(Args)
        BY <1>4, <3>3 DEF EndRepo
      <4> QED BY <4>1, <3>1, <1>a
    <3> QED BY <3>2, <3>3
  <2>2. /\ prod' \in {"fetch", "send", "closed"} /\ failed' \in BOOLEAN
        /\ more' \in BOOLEAN /\ page' \in Nat /\ todo' \subseteq Packages
    BY <1>4 DEF EndRepo, ProducerGone
  <2>3. UNCHANGED <<store, failures, delete, workers>>
    BY <1>4 DEF EndRepo
  <2> QED BY <1>0, <2>1, <2>2, <2>3 DEF TypeOK, store, workers
<1>5. CASE Crash
  <2>1. phase' = "idle" /\ failures' \in 0 .. MaxFailures
    BY <1>5, <1>b DEF Crash
  <2>2. /\ prod' \in {"fetch", "send", "closed"} /\ failed' \in BOOLEAN
        /\ more' \in BOOLEAN /\ page' \in Nat /\ todo' \subseteq Packages
    BY <1>5 DEF Crash, ProducerGone
  <2>3. /\ pc' \in [Workers -> {"recv", "open", "create", "get", "copy", "delete", "gone"}]
        /\ item' \in [Workers -> Packages \union {NoPackage}]
        /\ off' \in [Workers -> 0 .. NBlocks]
    BY <1>5, <1>a DEF Crash
  <2>4. UNCHANGED <<store, cur, delete>>
    BY <1>5 DEF Crash
  <2> QED BY <1>0, <2>1, <2>2, <2>3, <2>4 DEF TypeOK, store
<1>6. CASE FetchPage
  <2>1. todo' \subseteq Packages /\ more' \in BOOLEAN /\ page' \in Nat
    BY <1>6, <1>0 DEF TypeOK, FetchPage, Page, Listing, HasNext
  <2> QED BY <1>6, <1>0, <2>1 DEF TypeOK, FetchPage, store, workers
<1>7. CASE FetchFails
  BY <1>7, <1>0, <1>b DEF FetchFails, TypeOK, store, workers
<1>8. ASSUME NEW p \in Packages, SkipItem(p) PROVE TypeOK'
  BY <1>8, <1>0 DEF SkipItem, TypeOK, store, workers
<1>9. ASSUME NEW p \in Packages, NEW w \in Workers, SendItem(p, w) PROVE TypeOK'
  BY <1>9, <1>0 DEF SendItem, TypeOK, store
<1>10. CASE PageDone
  BY <1>10, <1>0 DEF PageDone, TypeOK, store, workers
<1>11. ASSUME NEW w \in Workers, OpenFile(w) PROVE TypeOK'
  BY <1>11, <1>0 DEF OpenFile, TypeOK, store, producer
<1>12. ASSUME NEW w \in Workers, CreateFile(w) PROVE TypeOK'
  <2>1. Empty \in Files
    BY DEF Empty, Whole, Files
  <2> QED BY <1>12, <1>0, <2>1 DEF TypeOK, CreateFile, producer
<1>13. ASSUME NEW w \in Workers, GetPackage(w) PROVE TypeOK'
  <2>1. UNCHANGED <<store, failures, phase, cur, delete, producer>>
    BY <1>13 DEF GetPackage
  <2>2. CASE NextItem(w)
    BY <1>0, <2>1, <2>2, NextItemTyped DEF TypeOK, store, producer
  <2>3. CASE pc' = [pc EXCEPT ![w] = "copy"] /\ UNCHANGED <<item, off>>
    BY <1>0, <2>1, <2>3 DEF TypeOK, store, producer
  <2> QED BY <1>13, <2>2, <2>3 DEF GetPackage
<1>14. ASSUME NEW w \in Workers, CopyBlock(w) PROVE TypeOK'
  <2>1. item[w] \in Packages
    BY <1>14, <1>0 DEF CopyBlock, InFlight, Active
  <2>2. off[w] \in 0 .. NBlocks /\ off[w] < NBlocks
    BY <1>14, <1>0 DEF CopyBlock, FilesKnown, TypeOK
  <2>3. off[w] + 1 \in Blocks
    BY <1>a, <2>2 DEF Blocks
  <2>4. disk[Path[item[w]]] = Prefix(Content[item[w]], off[w])
    BY <1>14, <1>0 DEF CopyBlock, FilesKnown
  <2>5. Content[item[w]] \in Contents
    BY <2>1 DEF Contents
  <2>6. disk[Path[item[w]]] \in Files
    BY <2>4, <2>5 DEF Prefix, Files
  <2>7. disk' \in [Paths -> Files \union {NoFile}]
    BY <1>14, <1>0, <2>3, <2>5, <2>6 DEF TypeOK, CopyBlock, Files
  <2>8. off' \in [Workers -> 0 .. NBlocks]
    BY <1>14, <1>0, <1>a, <2>2 DEF TypeOK, CopyBlock
  <2>9. pc' \in [Workers -> {"recv", "open", "create", "get", "copy", "delete", "gone"}]
    BY <1>14, <1>0 DEF TypeOK, CopyBlock
  <2> QED BY <1>14, <1>0, <2>7, <2>8, <2>9 DEF TypeOK, CopyBlock, producer
<1>15. ASSUME NEW w \in Workers, DownloadFails(w) PROVE TypeOK'
  BY <1>15, <1>0, <1>b, NextItemTyped DEF DownloadFails, TypeOK, store, producer
<1>16. ASSUME NEW w \in Workers, DeleteItem(w) PROVE TypeOK'
  BY <1>16, <1>0, NextItemTyped DEF DeleteItem, TypeOK, producer
<1>17. ASSUME NEW w \in Workers, DeleteFails(w) PROVE TypeOK'
  BY <1>17, <1>0, <1>b, NextItemTyped DEF DeleteFails, TypeOK, store, producer
<1>18. ASSUME NEW w \in Workers, KeepItem(w) PROVE TypeOK'
  BY <1>18, <1>0, NextItemTyped DEF KeepItem, TypeOK, store, producer
<1>19. ASSUME NEW w \in Workers, WorkerDone(w) PROVE TypeOK'
  BY <1>19, <1>0 DEF WorkerDone, TypeOK, store, producer
<1>20. ASSUME NEW p \in Packages, Upload(p) PROVE TypeOK'
  BY <1>20, <1>0 DEF Upload, TypeOK, producer, workers
<1> QED
  BY <1>1, <1>2, <1>3, <1>4, <1>5, <1>6, <1>7, <1>8, <1>9, <1>10, <1>11, <1>12,
     <1>13, <1>14, <1>15, <1>16, <1>17, <1>18, <1>19, <1>20
     DEF Next, Loop, Produce, Trouble, Work

-----------------------------------------------------------------------------
(* What is in flight *)

\* A step within a turn that hands out no package: what is in flight afterwards
\* was in flight before, and nothing has appeared in the listing.
HandsShrink ==
    /\ phase = "clean"
    /\ UNCHANGED <<phase, cur, page, uploads>>
    /\ todo' \subseteq todo
    /\ remote' \subseteq remote
    /\ \A v \in Workers : Active(v)' => Active(v) /\ item'[v] = item[v]

\* Nothing is in flight.
Quiet == todo = {} /\ \A w \in Workers : ~Active(w)

\* Such a step preserves InFlight and ListedOnce, since positions only shrink.
LEMMA ShrinkStep == ASSUME IndInv, HandsShrink PROVE InFlight' /\ ListedOnce'
<1>0. TypeOK /\ InFlight /\ ListedOnce
  BY DEF IndInv
<1>1. InFlight'
  BY <1>0 DEF HandsShrink, InFlight, Repo
<1>2. ASSUME NEW p \in Packages, Position(p) < page * PageSize
      PROVE  Position(p)' < page' * PageSize
  <2>1. page \in Nat /\ PageSize \in Nat /\ page' = page
    BY <1>0, ConstantsTyped DEF TypeOK, HandsShrink, ConstantsTyped
  <2>2. page * PageSize \in Nat
    BY <2>1
  <2>3. Position(p) \in Nat /\ Position(p)' \in Nat /\ Position(p)' <= Position(p)
    BY <1>0, PositionShrinks DEF HandsShrink
  <2> QED BY <1>2, <2>1, <2>2, <2>3
<1>3. todo' \subseteq todo /\ InHands' \subseteq InHands
  BY DEF HandsShrink, InHands
<1>4. todo \union InHands \subseteq Packages
  BY <1>0 DEF TypeOK, InFlight, InHands
<1>5. \A p \in todo' \union InHands' : Position(p)' < page' * PageSize
  BY <1>0, <1>2, <1>3, <1>4 DEF ListedOnce
<1>6. todo' \intersect InHands' = {}
  BY <1>0, <1>3 DEF ListedOnce
<1>7. ASSUME NEW v \in Workers, NEW w \in Workers, v # w, Active(v)', Active(w)'
      PROVE  item'[v] # item'[w]
  BY <1>0, <1>7 DEF HandsShrink, ListedOnce
<1> QED BY <1>1, <1>5, <1>6, <1>7 DEF ListedOnce

\* A step after which nothing is in flight establishes the part of the invariant
\* about what is.
LEMMA QuietStep == ASSUME Quiet' PROVE ListedOnce' /\ InHands' = {}
BY DEF Quiet, ListedOnce, InHands

-----------------------------------------------------------------------------

\* A worker that hands its package back is the only one that changes.
LEMMA NextItemShrinks ==
    ASSUME TypeOK, NEW w \in Workers, NextItem(w)
    PROVE  /\ \A v \in Workers : Active(v)' => Active(v) /\ item'[v] = item[v]
           /\ ~Active(w)'
           /\ \A v \in Workers : v # w => pc'[v] = pc[v] /\ item'[v] = item[v] /\ off'[v] = off[v]
BY DEF TypeOK, NextItem, Active

\* The steps that hand out no package.
LEMMA ShrinkingSteps ==
    ASSUME IndInv,
           \/ FetchFails \/ PageDone
           \/ \E p \in Packages : SkipItem(p)
           \/ \E w \in Workers : Work(w) \/ DownloadFails(w) \/ DeleteFails(w)
    PROVE  HandsShrink
<1>0. TypeOK /\ InFlight
  BY DEF IndInv
<1>1. CASE FetchFails \/ PageDone \/ \E p \in Packages : SkipItem(p)
  BY <1>1 DEF FetchFails, PageDone, SkipItem, HandsShrink, workers, store, Active
<1>2. ASSUME NEW w \in Workers, Work(w) \/ DownloadFails(w) \/ DeleteFails(w)
      PROVE  HandsShrink
  <2>1. phase = "clean"
    <3>1. pc[w] # "gone"
      BY <1>2 DEF Work, OpenFile, CreateFile, GetPackage, CopyBlock, DownloadFails,
                  DeleteItem, KeepItem, DeleteFails, WorkerDone
    <3> QED BY <1>0, <3>1 DEF InFlight
  <2>2. UNCHANGED <<phase, cur, page, uploads, todo>> /\ remote' \subseteq remote
    BY <1>2 DEF Work, OpenFile, CreateFile, GetPackage, CopyBlock, DownloadFails,
                DeleteItem, KeepItem, DeleteFails, WorkerDone, store, producer
  <2>3. \A v \in Workers : Active(v)' => Active(v) /\ item'[v] = item[v]
    <3>1. CASE NextItem(w)
      BY <1>0, <3>1, NextItemShrinks
    <3>2. CASE \/ OpenFile(w) \/ CreateFile(w) \/ CopyBlock(w) \/ WorkerDone(w)
               \/ pc[w] = "get" /\ pc' = [pc EXCEPT ![w] = "copy"] /\ item' = item
      BY <1>0, <3>2 DEF TypeOK, Active, OpenFile, CreateFile, CopyBlock, WorkerDone
    <3> QED BY <1>2, <3>1, <3>2 DEF Work, GetPackage, DownloadFails, DeleteItem, KeepItem, DeleteFails
  <2> QED BY <2>1, <2>2, <2>3 DEF HandsShrink
<1> QED BY <1>1, <1>2

\* The steps after which nothing is in flight.
LEMMA QuietSteps ==
    ASSUME IndInv, ~UploadsDuringClean,
           Run \/ Loop \/ Crash \/ \E p \in Packages : Upload(p)
    PROVE  Quiet'
<1>0. TypeOK /\ InFlight
  BY DEF IndInv
<1>1. CASE Run \/ UnknownRepo \/ \E p \in Packages : Upload(p)
  BY <1>0, <1>1 DEF Run, UnknownRepo, Upload, InFlight, Quiet, Active, producer, workers
<1>2. CASE BeginRepo \/ Crash
  BY <1>2 DEF BeginRepo, Crash, ProducerGone, Quiet, Active
<1>3. CASE EndRepo
  BY <1>3 DEF EndRepo, ProducerGone, workers, Quiet, Active
<1> QED BY <1>1, <1>2, <1>3 DEF Loop

\* Every step preserves InFlight and ListedOnce.  A page that is fetched holds
\* packages at or behind position page * PageSize, where nothing in flight is.
LEMMA FlightStep ==
    ASSUME IndInv, TypeOK', Next, ~UploadsDuringClean
    PROVE  InFlight' /\ ListedOnce'
<1>0. TypeOK /\ InFlight /\ ListedOnce
  BY DEF IndInv
<1>1. CASE Run \/ Loop \/ Crash \/ \E p \in Packages : Upload(p)
  <2>1. Quiet'
    BY <1>1, QuietSteps
  <2>2. phase' # "clean" => \A w \in Workers : pc'[w] = "gone"
    BY <1>0, <1>1 DEF InFlight, Run, Loop, BeginRepo, UnknownRepo, EndRepo, Crash, Upload,
                      workers
  <2>3. phase' = "clean" => Repo' \in DOMAIN Config
    BY <1>0, <1>1 DEF InFlight, Run, Loop, BeginRepo, UnknownRepo, EndRepo, Crash, Upload, Repo
  <2>4. InFlight'
    BY <2>1, <2>2, <2>3 DEF InFlight, Quiet
  <2> QED BY <2>1, <2>4, QuietStep
<1>2. CASE \/ FetchFails \/ PageDone \/ \E p \in Packages : SkipItem(p)
           \/ \E w \in Workers : Work(w) \/ DownloadFails(w) \/ DeleteFails(w)
  BY <1>2, ShrinkingSteps, ShrinkStep
<1>3. CASE FetchPage
  <2>1. /\ phase = "clean" /\ UNCHANGED <<remote, phase, cur, pc, item>>
        /\ todo' = Page(Repo, page) /\ page' = page + 1
    BY <1>3 DEF FetchPage, store, workers
  <2>2. InFlight'
    BY <1>0, <2>1 DEF InFlight, Active, Page, Listing, Repo
  <2>3. page \in Nat /\ PageSize \in Nat
    BY <1>0, ConstantsTyped DEF TypeOK, ConstantsTyped
  <2>4. /\ page * PageSize \in Nat
        /\ (page + 1) * PageSize \in Nat
        /\ page * PageSize <= (page + 1) * PageSize
    BY <2>3
  <2>5. InHands' = InHands /\ InHands \subseteq Packages
    BY <1>0, <2>1 DEF InHands, Active, InFlight
  <2>6. \A p \in Packages : Position(p) \in Nat /\ Position(p)' = Position(p)
    BY <1>0, <2>1, PositionShrinks DEF Position, Listing
  <2>7. \A p \in todo' : p \in Packages /\ page * PageSize <= Position(p)
                             /\ Position(p) < (page + 1) * PageSize
    BY <1>0, <2>1 DEF Page, Listing, TypeOK
  <2>8. \A p \in InHands : Position(p) < page * PageSize
    BY <1>0 DEF ListedOnce
  <2>9. \A p \in todo' \union InHands' : Position(p)' < page' * PageSize
    BY <2>1, <2>4, <2>5, <2>6, <2>7, <2>8
  <2>10. todo' \intersect InHands' = {}
    BY <2>4, <2>5, <2>6, <2>7, <2>8
  <2>11. \A v, w \in Workers : v # w /\ Active(v)' /\ Active(w)' => item'[v] # item'[w]
    BY <1>0, <2>1 DEF ListedOnce, Active
  <2> QED BY <2>2, <2>9, <2>10, <2>11 DEF ListedOnce
<1>4. ASSUME NEW p \in Packages, NEW w \in Workers, SendItem(p, w)
      PROVE  InFlight' /\ ListedOnce'
  <2>1. /\ phase = "clean" /\ UNCHANGED <<remote, phase, cur, page>>
        /\ p \in todo /\ Eligible(p) /\ todo' = todo \ {p} /\ pc[w] = "recv"
    BY <1>4 DEF SendItem, store
  <2>2. \A v \in Workers : v # w => pc'[v] = pc[v] /\ item'[v] = item[v]
    BY <1>0, <1>4 DEF SendItem, TypeOK
  <2>3. item'[w] = p
    BY <1>0, <1>4 DEF SendItem, TypeOK
  <2>4. InFlight'
    BY <1>0, <2>1, <2>2, <2>3 DEF InFlight, Active, Repo
  <2>5. InHands' \subseteq InHands \union {p}
    BY <2>2, <2>3 DEF InHands, Active
  <2>6. \A q \in todo \union InHands : Position(q)' < page' * PageSize
    BY <1>0, <2>1 DEF ListedOnce, Position, Listing
  <2>7. \A q \in todo' \union InHands' : Position(q)' < page' * PageSize
    BY <2>1, <2>5, <2>6
  <2>8. todo' \intersect InHands' = {}
    BY <1>0, <2>1, <2>5 DEF ListedOnce
  <2>9. \A u, v \in Workers : u # v /\ Active(u)' /\ Active(v)' => item'[u] # item'[v]
    <3>1. \A v \in Workers : v # w /\ Active(v)' => Active(v) /\ item'[v] \in InHands
      BY <2>2 DEF Active, InHands
    <3>2. p \notin InHands
      BY <1>0, <2>1 DEF ListedOnce
    <3> QED BY <1>0, <2>2, <2>3, <3>1, <3>2 DEF ListedOnce
  <2> QED BY <2>4, <2>7, <2>8, <2>9 DEF ListedOnce
<1> QED BY <1>1, <1>2, <1>3, <1>4 DEF Next, Produce, Trouble

\* Every step preserves GoneForGood.
LEMMA GoneStep ==
    ASSUME IndInv, Next, ~UploadsDuringClean
    PROVE  GoneForGood'
<1>0. TypeOK /\ InFlight /\ ListedOnce /\ GoneForGood
  BY DEF IndInv
<1>1. CASE Run \/ Loop \/ Crash \/ \E p \in Packages : Upload(p)
  <2>1. todo' = {} /\ InHands' = {}
    BY <1>1, QuietSteps, QuietStep DEF Quiet
  <2>2. /\ deleted' = deleted
        /\ \/ UNCHANGED <<remote, uploads>>
           \/ \E p \in uploads : uploads' = uploads \ {p} /\ remote' = remote \union {p}
    BY <1>1 DEF Run, Loop, BeginRepo, UnknownRepo, EndRepo, Crash, Upload, store
  <2> QED BY <1>0, <2>1, <2>2 DEF GoneForGood
<1>2. CASE \/ FetchFails \/ PageDone \/ \E p \in Packages : SkipItem(p)
           \/ \E w \in Workers : Work(w) \/ DownloadFails(w) \/ DeleteFails(w)
  <2>1. HandsShrink
    BY <1>2, ShrinkingSteps
  <2>2. todo' \subseteq todo /\ InHands' \subseteq InHands /\ remote' \subseteq remote
        /\ uploads' = uploads
    BY <2>1 DEF HandsShrink, InHands
  <2>3. CASE deleted' = deleted
    BY <1>0, <2>2, <2>3 DEF GoneForGood
  <2>4. ASSUME NEW w \in Workers, DeleteItem(w) PROVE GoneForGood'
    <3>1. item[w] \in InHands /\ Active(w)
      BY <2>4 DEF DeleteItem, Active, InHands
    <3>2. deleted' \subseteq deleted \union ({item[w]} \intersect remote) /\ item[w] \notin remote'
      BY <2>4 DEF DeleteItem
    <3>3. item[w] \notin todo
      BY <1>0, <3>1 DEF ListedOnce
    <3>4. item[w] \notin InHands'
      <4>1. ~Active(w)' /\ \A v \in Workers : Active(v)' => Active(v) /\ item'[v] = item[v]
        BY <1>0, <2>4, NextItemShrinks DEF DeleteItem
      <4> QED BY <1>0, <3>1, <4>1 DEF InHands, ListedOnce
    <3> QED BY <1>0, <2>2, <3>2, <3>3, <3>4 DEF GoneForGood
  <2> QED BY <1>2, <2>3, <2>4 DEF FetchFails, PageDone, SkipItem, Work, OpenFile, CreateFile,
             GetPackage, CopyBlock, KeepItem, WorkerDone, DownloadFails, DeleteFails, store
<1>3. CASE FetchPage
  <2>1. /\ UNCHANGED <<remote, uploads, deleted>> /\ todo' \subseteq remote /\ InHands' = InHands
    BY <1>3 DEF FetchPage, store, workers, Page, Listing, InHands, Active
  <2> QED BY <1>0, <2>1 DEF GoneForGood
<1>4. ASSUME NEW p \in Packages, NEW w \in Workers, SendItem(p, w)
      PROVE  GoneForGood'
  <2>1. /\ UNCHANGED <<remote, uploads, deleted>> /\ p \in todo /\ todo' \subseteq todo
    BY <1>4 DEF SendItem, store
  <2>2. InHands' \subseteq InHands \union {p}
    BY <1>0, <1>4 DEF SendItem, InHands, Active, TypeOK
  <2> QED BY <1>0, <2>1, <2>2 DEF GoneForGood
<1> QED BY <1>1, <1>2, <1>3, <1>4 DEF Next, Produce, Trouble

-----------------------------------------------------------------------------
(* Files *)

\* A worker writes only to a file that is not complete.
LEMMA WriterNotSaved ==
    ASSUME IndInv, NEW w \in Workers, pc[w] \in {"create", "copy"}
    PROVE  item[w] \in Packages /\ ~Saved(item[w])
<1>0. TypeOK /\ InFlight /\ FilesKnown
  BY DEF IndInv
<1>1. item[w] \in Packages
  BY <1>0 DEF InFlight, Active
<1>2. CASE pc[w] = "copy"
  <2>1. /\ off[w] \in 0 .. NBlocks /\ off[w] < NBlocks
        /\ disk[Path[item[w]]] = Prefix(Content[item[w]], off[w])
    BY <1>0, <1>2 DEF FilesKnown, TypeOK
  <2>2. NBlocks \in Blocks /\ ~(NBlocks <= off[w])
    BY <2>1, ConstantsTyped DEF ConstantsTyped, Blocks
  <2>3. disk[Path[item[w]]][NBlocks] = Hole
    BY <2>1, <2>2 DEF Prefix
  <2>4. Whole(Content[item[w]])[NBlocks] # Hole
    BY <1>1, <2>2, ChecksumsKnown DEF Whole
  <2> QED BY <1>1, <2>3, <2>4 DEF Saved
<1> QED BY <1>0, <1>1, <1>2 DEF FilesKnown

\* So what it writes to is the file of no other worker's package and of no
\* removed package that has to be saved.
LEMMA WriterAlone ==
    ASSUME IndInv, NEW w \in Workers, pc[w] \in {"create", "copy"}
    PROVE  /\ \A v \in Workers : v # w /\ Active(v) => Path[item[v]] # Path[item[w]]
           /\ \A p \in deleted : ShouldBackup(RepoOf[p]) => Path[p] # Path[item[w]]
<1>0. TypeOK /\ InFlight /\ ListedOnce /\ GoneForGood /\ RemovedAreSaved
  BY DEF IndInv
<1>1. Active(w) /\ item[w] \in InHands /\ item[w] \in Packages /\ ~Saved(item[w])
  BY WriterNotSaved DEF Active, InHands
<1>2. ASSUME NEW v \in Workers, v # w, Active(v) PROVE Path[item[v]] # Path[item[w]]
  <2>1. /\ item[v] \in Packages /\ item[v] # item[w]
        /\ RepoOf[item[v]] = RepoOf[item[w]]
    BY <1>0, <1>1, <1>2 DEF InFlight, ListedOnce
  <2> QED BY <1>1, <2>1, OwnFile
<1>3. ASSUME NEW p \in deleted, ShouldBackup(RepoOf[p]), Path[p] = Path[item[w]] PROVE FALSE
  <2>1. p \in Packages /\ p # item[w] /\ Saved(p)
    BY <1>0, <1>1, <1>3 DEF TypeOK, GoneForGood, RemovedAreSaved
  <2>2. Content[p] = Content[item[w]]
    BY <1>1, <1>3, <2>1, PathsAgree
  <2> QED BY <1>1, <1>3, <2>1, <2>2 DEF Saved
<1> QED BY <1>2, <1>3

\* Every step preserves what the workers know of their files.
LEMMA FilesStep ==
    ASSUME IndInv, TypeOK', Next, ~UploadsDuringClean
    PROVE  FilesKnown'
<1>0. TypeOK /\ InFlight /\ FilesKnown
  BY DEF IndInv
<1>a. NBlocks \in Nat \ {0}
  BY ConstantsTyped DEF ConstantsTyped
<1>1. CASE Run \/ Loop \/ Crash \/ \E p \in Packages : Upload(p)
  <2>1. \A w \in Workers : ~Active(w)'
    BY <1>1, QuietSteps DEF Quiet
  <2>2. \A w \in Workers : off'[w] = 0
    <3>1. CASE Crash
      BY <3>1 DEF Crash
    <3>2. CASE ~Crash
      <4>1. off' = off /\ \A w \in Workers : pc[w] = "gone"
        BY <1>0, <1>1, <3>2 DEF Run, Loop, BeginRepo, UnknownRepo, EndRepo, Upload, workers,
                               InFlight
      <4> QED BY <1>0, <4>1 DEF FilesKnown
    <3> QED BY <3>1, <3>2
  <2> QED BY <2>1, <2>2 DEF FilesKnown, Active
<1>2. CASE \/ FetchPage \/ FetchFails \/ PageDone \/ \E p \in Packages : SkipItem(p)
  <2>1. UNCHANGED <<disk, cur, pc, item, off>>
    BY <1>2 DEF FetchPage, FetchFails, PageDone, SkipItem, store, workers
  <2> QED BY <1>0, <2>1 DEF FilesKnown, Saved, Repo
<1>3. ASSUME NEW p \in Packages, NEW w \in Workers, SendItem(p, w) PROVE FilesKnown'
  <2>1. /\ UNCHANGED <<disk, cur, off>> /\ pc[w] = "recv"
        /\ pc'[w] = IF ShouldBackup(Repo) THEN "open" ELSE "delete"
        /\ \A v \in Workers : v # w => pc'[v] = pc[v] /\ item'[v] = item[v]
    BY <1>0, <1>3 DEF SendItem, TypeOK, store
  <2> QED BY <1>0, <2>1 DEF FilesKnown, Saved, Repo
<1>4. ASSUME NEW w \in Workers, NextItem(w), UNCHANGED <<disk, cur>> PROVE FilesKnown'
  <2>1. /\ pc'[w] = "recv" /\ off'[w] = 0
        /\ \A v \in Workers : v # w => pc'[v] = pc[v] /\ item'[v] = item[v] /\ off'[v] = off[v]
    BY <1>0, <1>4 DEF NextItem, TypeOK
  <2> QED BY <1>0, <1>4, <2>1 DEF FilesKnown, Saved, Repo
<1>5. ASSUME NEW w \in Workers, DownloadFails(w) \/ DeleteFails(w) \/ DeleteItem(w) \/ KeepItem(w)
      PROVE  FilesKnown'
  BY <1>4, <1>5 DEF DownloadFails, DeleteFails, DeleteItem, KeepItem, store
<1>6. ASSUME NEW w \in Workers, OpenFile(w) PROVE FilesKnown'
  <2>1. /\ UNCHANGED <<disk, cur, item, off>> /\ pc[w] = "open"
        /\ pc'[w] = IF SumMatches(item[w]) THEN "delete" ELSE "create"
        /\ \A v \in Workers : v # w => pc'[v] = pc[v]
    BY <1>0, <1>6 DEF OpenFile, TypeOK, store
  <2>2. item[w] \in Packages
    BY <1>0, <2>1 DEF InFlight, Active
  <2>3. SumMatches(item[w]) <=> Saved(item[w])
    <3>1. Whole(Content[item[w]]) \in Files
      BY <2>2 DEF Whole, Files, Contents
    <3>2. NoFile \notin Files
      BY NoFileIsNoFile DEF Files, Blocks, Contents
    <3> QED BY <2>2, <3>1, <3>2, ChecksumsKnown DEF SumMatches, Saved
  <2> QED BY <1>0, <2>1, <2>3 DEF FilesKnown, Saved, Repo
<1>7. ASSUME NEW w \in Workers, WorkerDone(w) PROVE FilesKnown'
  BY <1>0, <1>7 DEF WorkerDone, TypeOK, store, FilesKnown, Saved, Repo
<1>8. ASSUME NEW w \in Workers, CreateFile(w) PROVE FilesKnown'
  <2>1. /\ UNCHANGED <<cur, item, off>> /\ pc[w] = "create" /\ pc'[w] = "get"
        /\ \A v \in Workers : v # w => pc'[v] = pc[v]
        /\ disk' = [disk EXCEPT ![Path[item[w]]] = Empty]
    BY <1>0, <1>8 DEF CreateFile, TypeOK
  <2>2. /\ Path[item[w]] \in Paths
        /\ \A v \in Workers : v # w /\ Active(v) => Path[item[v]] # Path[item[w]]
    BY <2>1, WriterNotSaved, WriterAlone DEF Paths
  <2>3. off[w] = 0 /\ disk'[Path[item[w]]] = Prefix(Content[item[w]], 0)
    <3>1. Empty = Prefix(Content[item[w]], 0)
      BY DEF Empty, Whole, Prefix, Blocks
    <3> QED BY <1>0, <2>1, <2>2, <3>1 DEF FilesKnown, TypeOK
  <2>4. \A v \in Workers : v # w /\ Active(v) => disk'[Path[item[v]]] = disk[Path[item[v]]]
    BY <1>0, <2>1, <2>2 DEF TypeOK
  <2> QED BY <1>0, <1>a, <2>1, <2>3, <2>4 DEF FilesKnown, Saved, Repo, Active
<1>9. ASSUME NEW w \in Workers, GetPackage(w) PROVE FilesKnown'
  <2>1. CASE NextItem(w)
    BY <1>4, <1>9, <2>1 DEF GetPackage, store
  <2>2. CASE pc' = [pc EXCEPT ![w] = "copy"] /\ UNCHANGED <<item, off>>
    <3>1. /\ UNCHANGED <<disk, cur, item, off>> /\ pc[w] = "get" /\ pc'[w] = "copy"
          /\ \A v \in Workers : v # w => pc'[v] = pc[v]
      BY <1>0, <1>9, <2>2 DEF GetPackage, TypeOK, store
    <3> QED BY <1>0, <3>1 DEF FilesKnown, Saved, Repo
  <2> QED BY <1>9, <2>1, <2>2 DEF GetPackage
<1>10. ASSUME NEW w \in Workers, CopyBlock(w) PROVE FilesKnown'
  <2> DEFINE c == Content[item[w]]
             n == off[w] + 1
  <2>1. /\ UNCHANGED <<cur, item>> /\ pc[w] = "copy" /\ off'[w] = n
        /\ pc'[w] = IF n = NBlocks THEN "delete" ELSE "copy"
        /\ \A v \in Workers : v # w => pc'[v] = pc[v] /\ off'[v] = off[v]
        /\ disk' = [disk EXCEPT ![Path[item[w]]][n] = c]
    BY <1>0, <1>10 DEF CopyBlock, TypeOK
  <2>2. /\ Path[item[w]] \in Paths
        /\ \A v \in Workers : v # w /\ Active(v) => Path[item[v]] # Path[item[w]]
    BY <2>1, WriterNotSaved, WriterAlone DEF Paths
  <2>3. off[w] \in 0 .. NBlocks /\ off[w] < NBlocks /\ disk[Path[item[w]]] = Prefix(c, off[w])
    BY <1>0, <2>1 DEF FilesKnown, TypeOK
  <2>4. n \in Blocks
    BY <1>a, <2>3 DEF Blocks
  <2>5. disk'[Path[item[w]]] = Prefix(c, n)
    <3>1. disk'[Path[item[w]]] = [Prefix(c, off[w]) EXCEPT ![n] = c]
      BY <1>0, <2>1, <2>2, <2>3 DEF TypeOK
    <3>2. [Prefix(c, off[w]) EXCEPT ![n] = c] = Prefix(c, n)
      BY <1>a, <2>3, <2>4 DEF Prefix, Blocks
    <3> QED BY <3>1, <3>2
  <2>6. n = NBlocks => disk'[Path[item[w]]] = Whole(c)
    BY <1>a, <2>5 DEF Prefix, Whole, Blocks
  <2>7. \A v \in Workers : v # w /\ Active(v) => disk'[Path[item[v]]] = disk[Path[item[v]]]
    BY <1>0, <2>1, <2>2 DEF TypeOK
  <2>8. n # NBlocks => n < NBlocks
    BY <1>a, <2>3
  <2> QED BY <1>0, <2>1, <2>5, <2>6, <2>7, <2>8 DEF FilesKnown, Saved, Repo, Active
<1> QED
  BY <1>1, <1>2, <1>3, <1>5, <1>6, <1>7, <1>8, <1>9, <1>10 DEF Next, Produce, Trouble, Work

\* Every step preserves that removed packages are saved: the files of removed
\* packages are not written to, and a package is removed once its file is
\* complete.
LEMMA RemovedStep ==
    ASSUME IndInv, Next, ~UploadsDuringClean
    PROVE  RemovedAreSaved'
<1>0. TypeOK /\ InFlight /\ FilesKnown /\ RemovedAreSaved
  BY DEF IndInv
<1>1. CASE UNCHANGED <<disk, deleted>>
  BY <1>0, <1>1 DEF RemovedAreSaved, Saved
<1>2. ASSUME NEW w \in Workers, CreateFile(w) \/ CopyBlock(w) PROVE RemovedAreSaved'
  <2>1. deleted' = deleted /\ pc[w] \in {"create", "copy"}
    BY <1>2 DEF CreateFile, CopyBlock
  <2>2. \A p \in deleted : ShouldBackup(RepoOf[p]) => Path[p] # Path[item[w]]
    BY <2>1, WriterAlone
  <2>3. \A p \in deleted : Path[p] # Path[item[w]] => disk'[Path[p]] = disk[Path[p]]
    <3>1. \A p \in deleted : Path[p] \in Paths
      BY <1>0 DEF TypeOK, Paths
    <3> QED BY <1>0, <1>2, <3>1 DEF CreateFile, CopyBlock, TypeOK
  <2> QED BY <1>0, <2>1, <2>2, <2>3 DEF RemovedAreSaved, Saved
<1>3. ASSUME NEW w \in Workers, DeleteItem(w) PROVE RemovedAreSaved'
  <2>1. disk' = disk /\ deleted' \subseteq deleted \union {item[w]} /\ pc[w] = "delete"
    BY <1>3 DEF DeleteItem
  <2>2. RepoOf[item[w]] = Repo
    BY <1>0, <2>1 DEF InFlight, Active
  <2>3. ShouldBackup(RepoOf[item[w]]) => Saved(item[w])
    BY <1>0, <2>1, <2>2 DEF FilesKnown
  <2> QED BY <1>0, <2>1, <2>3 DEF RemovedAreSaved, Saved
<1> QED
  BY <1>1, <1>2, <1>3 DEF Next, Run, Loop, BeginRepo, UnknownRepo, EndRepo, Crash, Produce,
     Trouble, FetchPage, FetchFails, SkipItem, SendItem, PageDone, Work, OpenFile, GetPackage,
     KeepItem, WorkerDone, DownloadFails, DeleteFails, Upload, store

-----------------------------------------------------------------------------
(* The theorems *)

\* The invariant holds in every reachable state, if nothing is published while
\* the command runs.
THEOREM Invariance ==
    ASSUME ~UploadsDuringClean
    PROVE  Spec => []IndInv
<1>1. Init => IndInv
  BY IndInvInit
<1>2. IndInv /\ [Next]_vars => IndInv'
  <2> SUFFICES ASSUME IndInv, [Next]_vars PROVE IndInv'
    OBVIOUS
  <2>1. CASE Next
    <3>1. TypeOK'
      BY <2>1, TypeStep
    <3> QED BY <2>1, <3>1, FlightStep, GoneStep, FilesStep, RemovedStep DEF IndInv
  <2>2. CASE UNCHANGED vars
    <3> USE <2>2 DEF vars, store, producer, workers
    <3>1. TypeOK'
      BY DEF IndInv, TypeOK
    <3>2. InFlight'
      BY DEF IndInv, InFlight, Active, Repo
    <3>3. ListedOnce'
      BY DEF IndInv, ListedOnce, InHands, Active, Position, Listing
    <3>4. GoneForGood'
      BY DEF IndInv, GoneForGood, InHands, Active
    <3>5. FilesKnown'
      BY DEF IndInv, FilesKnown, Saved, Repo
    <3>6. RemovedAreSaved'
      BY DEF IndInv, RemovedAreSaved, Saved
    <3> QED BY <3>1, <3>2, <3>3, <3>4, <3>5, <3>6 DEF IndInv
  <2> QED BY <2>1, <2>2
<1> QED BY <1>1, <1>2, PTL DEF Spec

\* cmd/pkgs.go:62 for every instance: whatever fails, and however often the command
\* is killed and run again, a removed package of a repository that is backed up
\* has a complete copy under savedir.
THEOREM RemovedAreSavedAlways ==
    ASSUME ~UploadsDuringClean
    PROVE  Spec => [](TypeOK /\ RemovedAreSaved)
<1>1. IndInv => TypeOK /\ RemovedAreSaved
  BY DEF IndInv
<1> QED BY <1>1, Invariance, PTL

\* Every package in flight is one of the repository's and every offset of a copy stays
\* within its file (client.go:103, client.go:160).
THEOREM TypeCorrect ==
    ASSUME ~UploadsDuringClean
    PROVE  Spec => []TypeOK
<1>1. IndInv => TypeOK
  BY DEF IndInv
<1>2. QED
  BY <1>1, Invariance, PTL

\* No package, and no file, is ever in the hands of two workers, and all of them
\* belong to the repository of the turn, whatever the listing does.
THEOREM WorkersDisjoint ==
    ASSUME ~UploadsDuringClean
    PROVE  Spec => []WorkersApart
<1>1. IndInv => OneWorkerPerFile
  <2> SUFFICES ASSUME IndInv, NEW v \in Workers, NEW w \in Workers, v # w,
                      Active(v), Active(w)
               PROVE  Path[item[v]] # Path[item[w]]
    BY DEF OneWorkerPerFile
  <2>1. /\ item[v] \in Packages /\ item[w] \in Packages /\ item[v] # item[w]
        /\ RepoOf[item[v]] = RepoOf[item[w]]
    BY DEF IndInv, InFlight, ListedOnce
  <2> QED BY <2>1, OwnFile
<1>2. IndInv => OneRepoAtATime
  BY DEF IndInv, InFlight, OneRepoAtATime, Active
<1>3. IndInv => WorkersApart
  BY <1>1, <1>2 DEF WorkersApart
<1> QED BY <1>3, Invariance, PTL

\* The command implements PackageStore.
THEOREM Refinement ==
    ASSUME ~UploadsDuringClean
    PROVE  Spec => KeepsPromise
<1> DEFINE saved == {p \in Packages : Saved(p)}
           mayRemove == {p \in Packages : RepoOf[p] \in DOMAIN Config /\ Eligible(p)}
           mustSave == {p \in Packages : ShouldBackup(RepoOf[p])}
<1>1. Init => Store!Init
  <2> SUFFICES ASSUME Init PROVE Store!Init
    OBVIOUS
  <2>1. remote \subseteq Packages
    BY ConstantsTyped DEF Init, ConstantsTyped
  <2>2. ASSUME NEW p \in Packages PROVE ~Saved(p)
    <3>1. disk[Path[p]] = NoFile
      BY DEF Init, Paths
    <3>2. Whole(Content[p]) # NoFile
      BY NoFileIsNoFile DEF Whole, Blocks
    <3> QED BY <3>1, <3>2 DEF Saved
  <2> QED BY <2>1, <2>2 DEF Store!Init
<1>2. IndInv /\ [Next]_vars => [Store!Next]_(Store!vars)
  <2> SUFFICES ASSUME IndInv, [Next]_vars PROVE [Store!Next]_(Store!vars)
    OBVIOUS
  <2>0. TypeOK /\ InFlight /\ FilesKnown
    BY DEF IndInv
  <2>1. CASE UNCHANGED <<remote, disk>>
    BY <2>1 DEF Store!vars, Saved
  <2>2. ASSUME NEW p \in Packages, Upload(p) PROVE Store!Next
    BY <2>2 DEF Upload, Store!Next, Store!Publish, Saved
  <2>3. ASSUME NEW w \in Workers, CreateFile(w) \/ CopyBlock(w) PROVE Store!Next
    <3>1. remote' = remote /\ pc[w] \in {"create", "copy"}
      BY <2>3 DEF CreateFile, CopyBlock
    <3>2. item[w] \in Packages /\ ~Saved(item[w])
      BY <3>1, WriterNotSaved
    <3>3. ASSUME NEW p \in Packages, Saved(p) PROVE Saved(p)'
      <4>1. Path[p] # Path[item[w]]
        BY <3>2, <3>3, PathsAgree DEF Saved
      <4>2. disk'[Path[p]] = disk[Path[p]]
        <5>1. Path[p] \in Paths
          BY DEF Paths
        <5> QED BY <2>0, <2>3, <4>1, <5>1 DEF CreateFile, CopyBlock, TypeOK
      <4> QED BY <3>3, <4>2 DEF Saved
    <3>4. saved' \subseteq Packages /\ saved \ remote \subseteq saved'
      BY <3>3
    <3> QED BY <3>1, <3>4 DEF Store!Next, Store!Save
  <2>4. ASSUME NEW w \in Workers, DeleteItem(w) PROVE [Store!Next]_(Store!vars)
    <3>1. remote' = remote \ {item[w]} /\ disk' = disk /\ pc[w] = "delete"
      BY <2>4 DEF DeleteItem
    <3>2. saved' = saved
      BY <3>1 DEF Saved
    <3>3. CASE item[w] \notin remote
      <4>1. remote' = remote
        BY <3>1, <3>3
      <4> QED BY <3>2, <4>1 DEF Store!vars
    <3>4. CASE item[w] \in remote
      <4>1. /\ item[w] \in Packages /\ RepoOf[item[w]] = Repo /\ Eligible(item[w])
            /\ Repo \in DOMAIN Config
        BY <2>0, <3>1 DEF InFlight, Active
      <4>2. item[w] \in mayRemove
        BY <4>1
      <4>3. item[w] \in mustSave => item[w] \in saved
        BY <2>0, <3>1, <4>1 DEF FilesKnown
      <4>4. Store!Remove(item[w])
        BY <3>1, <3>2, <3>4, <4>2, <4>3 DEF Store!Remove
      <4> QED BY <4>1, <4>4 DEF Store!Next
    <3> QED BY <3>3, <3>4
  <2> QED
    BY <2>1, <2>2, <2>3, <2>4 DEF Next, Run, Loop, BeginRepo, UnknownRepo, EndRepo, Crash,
       Produce, Trouble, FetchPage, FetchFails, SkipItem, SendItem, PageDone, Work, OpenFile,
       GetPackage, KeepItem, WorkerDone, DownloadFails, DeleteFails, Upload, store, vars
<1> QED BY <1>1, <1>2, Invariance, PTL DEF Spec, KeepsPromise, Store!Spec
=============================================================================
