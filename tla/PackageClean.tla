---------------------------- MODULE PackageClean ----------------------------
(***************************************************************************)
(* `gromit pkgs clean <repo>...` (src/cmd/pkgs.go, src/pkgs/client.go).    *)
(*                                                                         *)
(* For each repository in turn a producer goroutine (AllPackages) pages    *)
(* through the listing and sends the packages that satisfy the filter over *)
(* an unbuffered channel to the workers (Clean), which save each package   *)
(* under savedir and then delete it.  Deleting shifts the listing under    *)
(* the producer.  A request may fail, the process may die at any moment    *)
(* (get dereferences a nil response when the network fails), and the       *)
(* command is run again.                                                   *)
(*                                                                         *)
(* A file is a sequence of NBlocks blocks, each a hole or a block of some  *)
(* content, so that truncation, partial and interleaved writes are seen.   *)
(***************************************************************************)
EXTENDS RetentionPolicy, Sequences

CONSTANTS
    Packages,     \* every package that is, or will be, in some repository
    RepoOf,       \* the repository of a package
    Order,        \* where packagecloud lists a package
    Detail,       \* its version and creation time
    Path,         \* savedir/name/distro/filename
    Content,      \* what is downloaded
    Checksum,     \* Sha256Sum of its PackageDetail: its content's or NoString
    Config,       \* the pkgs section, from known repositories to pkgConfig
    Args,         \* the repositories on the command line
    Workers,      \* --concurrency of them
    PageSize,     \* packages per page of the listing
    NBlocks,      \* blocks per file
    Now,          \* time.Now(): a run is short against the age cutoffs
    Initial,      \* the packages in the repositories at first
    UploadsDuringClean, \* may a pipeline publish while the command runs?
    MaxFailures,  \* bound on failed requests, writes and crashes
    Hole,         \* what an unwritten block holds
    NoFile,       \* the state of a path without a file
    NoPackage     \* the item of a worker that has none

ASSUME ConstantsTyped ==
    /\ IsFiniteSet(Packages) /\ NoPackage \notin Packages
    /\ Order \in [Packages -> Nat]
    /\ Initial \subseteq Packages
    /\ Len(Args) \in Nat \ {0} /\ DOMAIN Args = 1 .. Len(Args)
    /\ UploadsDuringClean \in BOOLEAN
    /\ PageSize \in Nat \ {0} /\ NBlocks \in Nat \ {0} /\ MaxFailures \in Nat

\* The listing carries the checksum of what DownloadURL serves.
ASSUME ChecksumsKnown ==
    \A p \in Packages : Checksum[p] = Content[p] /\ Content[p] \notin {NoString, Hole}

\* Two packages of one repository are saved to different files (packagecloud
\* rejects a file name it has); packages of different repositories that are
\* saved to the same file are the same file.
ASSUME PathsAgree ==
    \A p, q \in Packages : p # q /\ Path[p] = Path[q] =>
        RepoOf[p] # RepoOf[q] /\ Content[p] = Content[q]

ASSUME NoFileIsNoFile == NoFile \notin [1 .. NBlocks -> {Content[p] : p \in Packages} \union {Hole}]

VARIABLES
    remote,   \* the packages in the repositories
    uploads,  \* the packages that are still to be published
    disk,     \* the files under savedir
    deleted,  \* history: the packages the command removed
    failures, \* number of failures so far
    phase,    \* "idle": no process, "repo": top of the loop over args, "clean"
    cur,      \* index into Args
    delete,   \* the --delete flag of the run
    prod,     \* the producer: "fetch", "send" or "closed"
    failed,   \* it returned an error
    page,     \* pages it has fetched
    todo,     \* packages of the last page it has not looked at
    more,     \* the last page had a next link
    pc,       \* the workers: "recv", "open", "create", "get", "copy",
              \* "delete" (at `if cc.Delete`) or "gone"
    item,     \* the package a worker has in hand
    off       \* how much of it was written

store == <<remote, uploads, disk, deleted>>
producer == <<prod, failed, page, todo, more>>
workers == <<pc, item, off>>
vars == <<store, failures, phase, cur, delete, producer, workers>>

-----------------------------------------------------------------------------
Paths == {Path[p] : p \in Packages}
Contents == {Content[p] : p \in Packages}
Blocks == 1 .. NBlocks
Files == [Blocks -> Contents \union {Hole}]

Repo == Args[cur]

\* A repository that is not in the config is backed up.
ShouldBackup(r) == r \notin DOMAIN Config \/ ~Config[r].notBackup

Eligible(p) == Satisfies(MakeFilter(Config[RepoOf[p]]), Detail[p], Now)

Whole(c) == [b \in Blocks |-> c]
Empty == Whole(Hole)

\* Mutant: a file that is there is taken to be complete.
SumMatches_FileExists(p) == disk[Path[p]] # NoFile

\* Does the file's checksum equal the item's?  No file has checksum "".
SumMatches(p) ==
    IF disk[Path[p]] = NoFile
    THEN Checksum[p] = NoString
    ELSE Checksum[p] # NoString /\ disk[Path[p]] = Whole(Checksum[p])

(* The listing of a repository, external: packages.json in a fixed order, *)
(* PageSize a page, the next link naming a page by its number.            *)
Listing(r) == {p \in remote : RepoOf[p] = r}

Position(p) == Cardinality({q \in Listing(RepoOf[p]) : Order[q] < Order[p]})

\* Mutant: a page begins with the last package of the page before it.
Page_Overlapping(r, k) ==
    {p \in Listing(r) : k * PageSize - 1 <= Position(p) /\ Position(p) < (k + 1) * PageSize}

\* Mutant: pages are counted from one.
Page_FromOne(r, k) ==
    {p \in Listing(r) :
        (k + 1) * PageSize <= Position(p) /\ Position(p) < (k + 2) * PageSize}

Page(r, k) ==
    {p \in Listing(r) : k * PageSize <= Position(p) /\ Position(p) < (k + 1) * PageSize}

HasNext(r, k) == Cardinality(Listing(r)) > (k + 1) * PageSize

\* A failure takes one of the MaxFailures.
Fail == failures < MaxFailures /\ failures' = failures + 1

-----------------------------------------------------------------------------
(* The command *)

Init ==
    /\ remote = Initial
    /\ uploads = Packages \ Initial
    /\ disk = [f \in Paths |-> NoFile]
    /\ deleted = {}
    /\ failures = 0
    /\ phase = "idle" /\ cur = 1 /\ delete = FALSE
    /\ prod = "closed" /\ failed = FALSE /\ page = 0 /\ todo = {} /\ more = FALSE
    /\ pc = [w \in Workers |-> "gone"]
    /\ item = [w \in Workers |-> NoPackage]
    /\ off = [w \in Workers |-> 0]

\* The operator starts the command, for the first time or again.
Run ==
    /\ phase = "idle"
    /\ phase' = "repo" /\ cur' = 1 /\ delete' \in BOOLEAN
    /\ UNCHANGED <<store, failures, producer, workers>>

\* The top of the loop over args.  MakeFilter fails for an unknown repository,
\* which breaks the loop; otherwise AllPackages and Clean start their goroutines.
BeginRepo ==
    /\ phase = "repo" /\ Repo \in DOMAIN Config
    /\ phase' = "clean"
    /\ prod' = "fetch" /\ failed' = FALSE /\ page' = 0 /\ todo' = {} /\ more' = FALSE
    /\ pc' = [w \in Workers |-> "recv"]
    /\ UNCHANGED <<store, failures, cur, delete, item, off>>

UnknownRepo ==
    /\ phase = "repo" /\ Repo \notin DOMAIN Config
    /\ phase' = "idle"
    /\ UNCHANGED <<store, failures, cur, delete, producer, workers>>

\* The producer's variables, once it has returned and nobody reads them.
ProducerGone ==
    prod' = "closed" /\ failed' = FALSE /\ page' = 0 /\ todo' = {} /\ more' = FALSE

\* Mutant: the loop goes on without waiting for the workers.
EndRepo_NoWait ==
    /\ phase = "clean"
    /\ prod = "closed"
    /\ IF failed \/ cur = Len(Args)
       THEN phase' = "idle" /\ UNCHANGED cur
       ELSE phase' = "repo" /\ cur' = cur + 1
    /\ ProducerGone
    /\ UNCHANGED <<store, failures, delete, workers>>

\* pkgs.Wait of Clean, then that of AllPackages, whose error breaks the loop.
EndRepo ==
    /\ phase = "clean"
    /\ \A w \in Workers : pc[w] = "gone"
    /\ prod = "closed"
    /\ IF failed \/ cur = Len(Args)
       THEN phase' = "idle" /\ UNCHANGED cur
       ELSE phase' = "repo" /\ cur' = cur + 1
    /\ ProducerGone
    /\ UNCHANGED <<store, failures, delete, workers>>

\* The process dies: killed, or by the nil dereference in get.
Crash ==
    /\ phase # "idle"
    /\ Fail
    /\ phase' = "idle"
    /\ ProducerGone
    /\ pc' = [w \in Workers |-> "gone"]
    /\ item' = [w \in Workers |-> NoPackage]
    /\ off' = [w \in Workers |-> 0]
    /\ UNCHANGED <<store, cur, delete>>

-----------------------------------------------------------------------------
(* AllPackages *)

\* Mutant: the next link is not followed.
FetchPage_SamePage ==
    /\ phase = "clean" /\ prod = "fetch"
    /\ todo' = Page(Repo, page)
    /\ more' = HasNext(Repo, page)
    /\ prod' = "send"
    /\ UNCHANGED <<store, failures, phase, cur, delete, failed, page, workers>>

FetchPage ==
    /\ phase = "clean" /\ prod = "fetch"
    /\ todo' = Page(Repo, page)
    /\ more' = HasNext(Repo, page)
    /\ page' = page + 1
    /\ prod' = "send"
    /\ UNCHANGED <<store, failures, phase, cur, delete, failed, workers>>

\* The status is not 200 or the body is not JSON.
FetchFails ==
    /\ phase = "clean" /\ prod = "fetch"
    /\ Fail
    /\ prod' = "closed" /\ failed' = TRUE
    /\ UNCHANGED <<store, phase, cur, delete, page, todo, more, workers>>

IsFirst(p) == \A q \in todo : Order[p] <= Order[q]

SkipItem(p) ==
    /\ phase = "clean" /\ prod = "send"
    /\ p \in todo /\ IsFirst(p) /\ ~Eligible(p)
    /\ todo' = todo \ {p}
    /\ UNCHANGED <<store, failures, phase, cur, delete, prod, failed, page, more, workers>>

\* Worker w is done with the package it has in hand and with its copy of it.
NextItem(w) ==
    /\ pc' = [pc EXCEPT ![w] = "recv"]
    /\ item' = [item EXCEPT ![w] = NoPackage]
    /\ off' = [off EXCEPT ![w] = 0]

\* Mutant: the package is deleted without being saved.
SendItem_DeleteFirst(p, w) ==
    /\ phase = "clean" /\ prod = "send"
    /\ p \in todo /\ IsFirst(p) /\ Eligible(p)
    /\ pc[w] = "recv"
    /\ todo' = todo \ {p}
    /\ item' = [item EXCEPT ![w] = p]
    /\ pc' = [pc EXCEPT ![w] = "delete"]
    /\ UNCHANGED <<store, failures, phase, cur, delete, prod, failed, page, more, off>>

\* The channel is unbuffered: the send and a worker's receive are one step.
SendItem(p, w) ==
    /\ phase = "clean" /\ prod = "send"
    /\ p \in todo /\ IsFirst(p) /\ Eligible(p)
    /\ pc[w] = "recv"
    /\ todo' = todo \ {p}
    /\ item' = [item EXCEPT ![w] = p]
    /\ pc' = [pc EXCEPT ![w] = IF ShouldBackup(Repo) THEN "open" ELSE "delete"]
    /\ UNCHANGED <<store, failures, phase, cur, delete, prod, failed, page, more, off>>

PageDone ==
    /\ phase = "clean" /\ prod = "send" /\ todo = {}
    /\ prod' = IF more THEN "fetch" ELSE "closed"
    /\ UNCHANGED <<store, failures, phase, cur, delete, failed, page, todo, more, workers>>

-----------------------------------------------------------------------------
(* Clean's workers: download *)

\* MkdirAll, OpenRoot, Open and the checksum of what is there.
OpenFile(w) ==
    /\ pc[w] = "open"
    /\ pc' = [pc EXCEPT ![w] = IF SumMatches(item[w]) THEN "delete" ELSE "create"]
    /\ UNCHANGED <<store, failures, phase, cur, delete, producer, item, off>>

\* Create truncates the file that is there.
CreateFile(w) ==
    /\ pc[w] = "create"
    /\ disk' = [disk EXCEPT ![Path[item[w]]] = Empty]
    /\ pc' = [pc EXCEPT ![w] = "get"]
    /\ UNCHANGED <<remote, uploads, deleted, failures, phase, cur, delete, producer, item, off>>

\* http.Get; for a package that is gone the status is bad and download returns.
GetPackage(w) ==
    /\ pc[w] = "get"
    /\ \/ /\ item[w] \in remote
          /\ pc' = [pc EXCEPT ![w] = "copy"]
          /\ UNCHANGED <<item, off>>
       \/ /\ item[w] \notin remote
          /\ NextItem(w)
    /\ UNCHANGED <<store, failures, phase, cur, delete, producer>>

\* Mutant: the end of the file is noticed one block late.
CopyBlock_OneMore(w) ==
    /\ pc[w] = "copy"
    /\ disk' = [disk EXCEPT ![Path[item[w]]][off[w] + 1] = Content[item[w]]]
    /\ off' = [off EXCEPT ![w] = @ + 1]
    /\ pc' = [pc EXCEPT ![w] = IF off[w] = NBlocks THEN "delete" ELSE "copy"]
    /\ UNCHANGED <<remote, uploads, deleted, failures, phase, cur, delete, producer, item>>

\* io.Copy writes the next block at this worker's own offset.
CopyBlock(w) ==
    /\ pc[w] = "copy"
    /\ disk' = [disk EXCEPT ![Path[item[w]]][off[w] + 1] = Content[item[w]]]
    /\ off' = [off EXCEPT ![w] = @ + 1]
    /\ pc' = [pc EXCEPT ![w] = IF off[w] + 1 = NBlocks THEN "delete" ELSE "copy"]
    /\ UNCHANGED <<remote, uploads, deleted, failures, phase, cur, delete, producer, item>>

\* Mutant: the error is logged and the package deleted all the same.
DownloadFails_Deletes(w) ==
    /\ pc[w] \in {"open", "create", "get", "copy"}
    /\ Fail
    /\ pc' = [pc EXCEPT ![w] = "delete"]
    /\ UNCHANGED <<store, phase, cur, delete, producer, item, off>>

\* Any of the above returns an error: the worker logs it and continues with the
\* next package, leaving the file as it is.
DownloadFails(w) ==
    /\ pc[w] \in {"open", "create", "get", "copy"}
    /\ Fail
    /\ NextItem(w)
    /\ UNCHANGED <<store, phase, cur, delete, producer>>

-----------------------------------------------------------------------------
(* Clean's workers: delete and the end of the channel *)

\* The server removes the package.  Whether the answer is 200, is lost or, for a
\* package that is already gone, 404, the worker goes on to the next.
DeleteItem(w) ==
    /\ pc[w] = "delete" /\ delete
    /\ remote' = remote \ {item[w]}
    /\ deleted' = deleted \union ({item[w]} \intersect remote)
    /\ NextItem(w)
    /\ UNCHANGED <<uploads, disk, failures, phase, cur, delete, producer>>

\* The request does not reach the server or is refused.
DeleteFails(w) ==
    /\ pc[w] = "delete" /\ delete
    /\ Fail
    /\ NextItem(w)
    /\ UNCHANGED <<store, phase, cur, delete, producer>>

\* Without --delete the package stays.
KeepItem(w) ==
    /\ pc[w] = "delete" /\ ~delete
    /\ NextItem(w)
    /\ UNCHANGED <<store, failures, phase, cur, delete, producer>>

\* range ends when the channel is closed.
WorkerDone(w) ==
    /\ pc[w] = "recv" /\ prod = "closed"
    /\ pc' = [pc EXCEPT ![w] = "gone"]
    /\ UNCHANGED <<store, failures, phase, cur, delete, producer, item, off>>

-----------------------------------------------------------------------------
\* External: a release pipeline publishes a package.
Upload(p) ==
    /\ p \in uploads
    /\ UploadsDuringClean \/ phase = "idle"
    /\ uploads' = uploads \ {p}
    /\ remote' = remote \union {p}
    /\ UNCHANGED <<disk, deleted, failures, phase, cur, delete, producer, workers>>

Produce ==
    \/ FetchPage
    \/ \E p \in Packages : SkipItem(p)
    \/ \E p \in Packages, w \in Workers : SendItem(p, w)
    \/ PageDone

Work(w) ==
    \/ OpenFile(w) \/ CreateFile(w) \/ GetPackage(w) \/ CopyBlock(w)
    \/ DeleteItem(w) \/ KeepItem(w) \/ WorkerDone(w)

Loop == BeginRepo \/ UnknownRepo \/ EndRepo

Trouble ==
    \/ Crash \/ FetchFails
    \/ \E w \in Workers : DownloadFails(w) \/ DeleteFails(w)

Next ==
    \/ Run \/ Loop \/ Produce \/ Trouble
    \/ \E w \in Workers : Work(w)
    \/ \E p \in Packages : Upload(p)

Spec == Init /\ [][Next]_vars

\* Goroutines that can proceed do, requests return, and the command is run again
\* whenever it has ended.
Fairness ==
    /\ WF_vars(Run) /\ WF_vars(Loop) /\ WF_vars(Produce)
    /\ \A w \in Workers : WF_vars(Work(w))

FairSpec == Spec /\ Fairness

-----------------------------------------------------------------------------
(* Properties *)

Active(w) == pc[w] \notin {"recv", "gone"}

TypeOK ==
    /\ remote \subseteq Packages
    /\ uploads \subseteq Packages
    /\ deleted \subseteq Packages
    /\ disk \in [Paths -> Files \union {NoFile}]
    /\ failures \in 0 .. MaxFailures
    /\ phase \in {"idle", "repo", "clean"}
    /\ cur \in 1 .. Len(Args) /\ delete \in BOOLEAN
    /\ prod \in {"fetch", "send", "closed"}
    /\ failed \in BOOLEAN /\ more \in BOOLEAN
    /\ page \in Nat
    /\ todo \subseteq Packages
    /\ pc \in [Workers -> {"recv", "open", "create", "get", "copy", "delete", "gone"}]
    /\ item \in [Workers -> Packages \union {NoPackage}]
    /\ off \in [Workers -> 0 .. NBlocks]

\* "The removed packages are downloaded before being removed" (cmd/pkgs.go:62): of
\* every package the command removed from a repository that is backed up there
\* is a complete file under savedir, now and not only when it was removed.
Saved(p) == disk[Path[p]] = Whole(Content[p])
RemovedAreSaved == \A p \in deleted : ShouldBackup(RepoOf[p]) => Saved(p)

\* No two workers have packages in hand that are saved to the same file: the
\* shifting listing never yields a package twice in a run (client.go:121).
OneWorkerPerFile ==
    \A v, w \in Workers : v # w /\ Active(v) /\ Active(w) => Path[item[v]] # Path[item[w]]

\* "Each repo is processed sequentially" (cmd/pkgs.go:63): whatever is in flight,
\* with the producer or with a worker, belongs to the repository of this turn.
OneRepoAtATime ==
    /\ \A p \in todo : RepoOf[p] = Repo
    /\ \A w \in Workers : Active(w) => phase = "clean" /\ RepoOf[item[w]] = Repo

\* The workers keep out of each other's way: one worker per file, one repository at a
\* time (client.go:121, cmd/pkgs.go:63).
WorkersApart == OneWorkerPerFile /\ OneRepoAtATime

\* The abstract specification, and that every step of the command is one of its
\* steps: only selected packages go, saved first where they have to be, and no
\* copy of a package that is gone is ever truncated (client.go:141, 216).
Store == INSTANCE PackageStore WITH
    MayRemove <- {p \in Packages : RepoOf[p] \in DOMAIN Config /\ Eligible(p)},
    MustSave <- {p \in Packages : ShouldBackup(RepoOf[p])},
    saved <- {p \in Packages : Saved(p)}

KeepsPromise == Store!Spec

-----------------------------------------------------------------------------
(* Liveness *)

\* A run ends: no failing request makes a worker leave its loop, which would
\* leave the producer blocked on its send for ever (client.go:227, 124).
RunEnds == (phase # "idle") ~> (phase = "idle")

\* The packages the loop over args gets to: no unknown repository precedes theirs.
InReach(p) ==
    \E i \in 1 .. Len(Args) :
        Args[i] = RepoOf[p] /\ \A j \in 1 .. i : Args[j] \in DOMAIN Config

\* Runs repeated until none fails, with or without --delete, save every selected package of a repository
\* that is backed up, although earlier runs were killed in the middle of a
\* download and left a truncated file behind (client.go:160).
EligibleGetSaved ==
    <>[](\A p \in Packages :
            InReach(p) /\ Eligible(p) /\ ShouldBackup(RepoOf[p]) /\ p \notin uploads
                => Saved(p))

\* Deleting shifts the listing, so one run may pass packages by; runs repeated
\* until none fails leave no package that the filter selects, if --delete is given
\* again and again.
AllEligibleGo ==
    []<>(phase # "idle" /\ delete) =>
    <>[](\A p \in Packages : InReach(p) /\ Eligible(p) => p \notin remote)
=============================================================================
