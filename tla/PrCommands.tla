----------------------------- MODULE PrCommands -----------------------------
(***************************************************************************)
(* `gromit prs createprs|deleteprs|updateprs|openprs <repo>...`            *)
(* (src/cmd/prs.go, src/policy/github.go).                                 *)
(*                                                                         *)
(* One command works through the branches of the given repositories, one   *)
(* GitHub request after the other, while developers, GitHub's auto-merge   *)
(* and `policy sync` change the same pull requests.  A request is refused  *)
(* (an answer that is an error) or lost (no answer at all), and one that   *)
(* has no answer may have done its work.                                   *)
(***************************************************************************)
EXTENDS Naturals, Sequences

CONSTANTS
    Args,        \* the repositories on the command line
    BranchesOf,  \* from known repositories to GetAllBranches
    Branches,    \* every branch
    Prefixed,    \* Prefix + branch, a head branch
    DevHead,     \* a developer's own head branch
    InitialPRs,  \* the pull requests that exist at first
    AutoMerge,   \* --auto
    Reviewers,   \* are there --reviewers?
    Commands,    \* the subcommands to look at
    AllBranches, \* --branch is not given
    MaxFailures, \* bound on requests that fail for no other reason
    MaxEvents    \* bound on what others do meanwhile

Repos == {Args[i] : i \in 1 .. Len(Args)} \union DOMAIN BranchesOf
Heads == {Prefixed[b] : b \in Branches} \union {DevHead}
Places == [repo : DOMAIN BranchesOf, base : Branches]
PullRequests == [repo : Repos, base : Branches, head : Heads, open : BOOLEAN, auto : BOOLEAN]

ASSUME PrConstants ==
    /\ Len(Args) \in Nat \ {0}
    /\ \A b, c \in Branches : b # c => Prefixed[b] # Prefixed[c]
    /\ DevHead \notin {Prefixed[b] : b \in Branches} /\ AllBranches \notin Branches
    /\ AutoMerge \in BOOLEAN /\ Reviewers \in BOOLEAN
    /\ MaxFailures \in Nat /\ MaxEvents \in Nat

\* Every repository has branches; they are the keys of a map, so none comes twice.
ASSUME BranchLists ==
    \A r \in DOMAIN BranchesOf :
        /\ Len(BranchesOf[r]) \in Nat \ {0}
        /\ \A i \in 1 .. Len(BranchesOf[r]) : BranchesOf[r][i] \in Branches
        /\ \A i, j \in 1 .. Len(BranchesOf[r]) : BranchesOf[r][i] = BranchesOf[r][j] => i = j

\* Two requests from one branch to another are not open at a time.
SameBranches(p, q) == p.repo = q.repo /\ p.base = q.base /\ p.head = q.head
OneOpen(s) ==
    \A m, n \in 1 .. Len(s) : s[m].open /\ s[n].open /\ SameBranches(s[m], s[n]) => m = n

ASSUME InitialRequests == InitialPRs \in Seq(PullRequests) /\ OneOpen(InitialPRs)

VARIABLES
    prs,       \* the pull requests, by number
    head,      \* <prefix><branch>: "none", "same" (nothing to merge) or "ahead"
    cmd,       \* the subcommand
    only,      \* --branch
    pc,        \* where the command is; "over" when it has ended
    ri, bi,    \* the indices of the two loops
    num,       \* the pull request in hand
    attempts,  \* of UpdatePrBranch
    status,    \* "running", "ok", "error" or "panic"
    reported,  \* the places the command printed a failure for
    tried,     \* history: the places that were processed
    touched,   \* history: the pull requests the command changed
    accepted,  \* history: number of updates GitHub accepted, by pull request
    unseen,    \* history: those of them whose answer was lost
    atStart,   \* history: the pull requests open at the beginning
    failures, events \* what was used of the bounds

github == <<prs, head>>
progress == <<pc, ri, bi, status>>
updates == <<accepted, unseen>>
history == <<tried, touched, updates, atStart>>
vars == <<github, cmd, only, progress, num, attempts, reported, history, failures, events>>

-----------------------------------------------------------------------------
Repo == Args[ri]
Known == Repo \in DOMAIN BranchesOf
List == IF only = AllBranches THEN BranchesOf[Repo] ELSE <<only>>
Base == List[bi]
Place == [repo |-> Repo, base |-> Base]

\* Mutant: the requests are looked up by their base branch alone.
getPR_AnyHead == {n \in 1 .. Len(prs) :
    prs[n].open /\ prs[n].repo = Repo /\ prs[n].base = Base}

\* The open requests from <prefix><branch> to the branch; GitHub allows one.
getPR == {n \in 1 .. Len(prs) :
    /\ prs[n].open /\ prs[n].repo = Repo /\ prs[n].base = Base
    /\ prs[n].head = Prefixed[Base]}

\* Is n a request this command is about?
Managed(n) ==
    /\ \E i \in 1 .. Len(Args) : Args[i] = prs[n].repo
    /\ prs[n].head = Prefixed[prs[n].base]
    /\ \/ only = prs[n].base
       \/ /\ only = AllBranches /\ prs[n].repo \in DOMAIN BranchesOf
          /\ \E i \in 1 .. Len(BranchesOf[prs[n].repo]) : BranchesOf[prs[n].repo][i] = prs[n].base

Init ==
    /\ prs = InitialPRs
    /\ head \in [Places -> {"none", "same", "ahead"}]
    /\ \A n \in 1 .. Len(prs) : prs[n].head = Prefixed[prs[n].base] =>
           head[[repo |-> prs[n].repo, base |-> prs[n].base]] = "ahead"
    /\ cmd \in Commands
    /\ only \in Branches \union {AllBranches}
    /\ pc = "repo" /\ ri = 1 /\ bi = 1
    /\ num = 0 /\ attempts = 0
    /\ status = "running"
    /\ reported = {} /\ tried = {} /\ touched = {}
    /\ accepted = [n \in 1 .. Len(InitialPRs) |-> 0] /\ unseen = accepted
    /\ atStart = {n \in 1 .. Len(InitialPRs) : InitialPRs[n].open}
    /\ failures = 0 /\ events = 0

Fail == failures < MaxFailures /\ failures' = failures + 1 /\ UNCHANGED events

-----------------------------------------------------------------------------
(* The loops *)

End(how) == pc' = "over" /\ status' = how /\ UNCHANGED <<ri, bi>>

\* On to the next argument.
NextRepo ==
    \/ ri < Len(Args) /\ pc' = "repo" /\ ri' = ri + 1 /\ bi' = 1 /\ UNCHANGED status
    \/ ri = Len(Args) /\ End("ok")

\* Mutant: the loop runs one past the last branch.
NextBranch_OneMore ==
    \/ bi <= Len(List) /\ pc' = "branch" /\ bi' = bi + 1 /\ UNCHANGED <<ri, status>>
    \/ bi > Len(List) /\ NextRepo

\* On to the next branch.
NextBranch ==
    \/ bi < Len(List) /\ pc' = "branch" /\ bi' = bi + 1 /\ UNCHANGED <<ri, status>>
    \/ bi = Len(List) /\ NextRepo

\* Mutant: after a failure the remaining branches of the repository are skipped.
Report_NextRepo == reported' = reported \union {Place} /\ NextRepo

\* A failure is printed and the loop goes on.
Report == reported' = reported \union {Place} /\ NextBranch

\* GetRepoPolicy.  For an unknown repository createprs returns an error, the
\* others print one.
BeginRepo ==
    /\ pc = "repo"
    /\ \/ Known /\ pc' = "branch" /\ UNCHANGED <<ri, bi, status>>
       \/ ~Known /\ cmd = "create" /\ End("error")
       \/ ~Known /\ cmd # "create" /\ NextRepo
    /\ UNCHANGED <<github, cmd, only, num, attempts, reported, history, failures, events>>

BeginBranch ==
    /\ pc = "branch"
    /\ pc' = IF cmd = "create" THEN "getbranch" ELSE "list"
    /\ tried' = tried \union {Place}
    /\ UNCHANGED <<github, cmd, only, ri, bi, status, num, attempts, reported, touched, updates,
                   atStart, failures, events>>

-----------------------------------------------------------------------------
(* CreatePR.  Whenever it returns an error its pull request is nil, and *)
(* createprs dereferences it.                                           *)

\* GetBranch.
FindHead ==
    /\ pc = "getbranch"
    /\ \/ head[Place] # "none" /\ pc' = "create" /\ UNCHANGED <<ri, bi, status>>
       \/ head[Place] = "none" /\ End("panic")
    /\ UNCHANGED <<github, cmd, only, num, attempts, reported, history, failures, events>>

\* PullRequests.Create: a new request, or the answer that there is one, or a
\* refusal since there is nothing to merge.
Created ==
    /\ pc = "create" /\ getPR = {} /\ head[Place] = "ahead"
    /\ prs' = Append(prs, [repo |-> Repo, base |-> Base, head |-> Prefixed[Base],
                           open |-> TRUE, auto |-> FALSE])
    /\ accepted' = Append(accepted, 0) /\ unseen' = Append(unseen, 0)
    /\ touched' = touched \union {Len(prs) + 1}
    /\ UNCHANGED <<head, cmd, only, attempts, reported, tried, atStart>>

CreateNew ==
    /\ Created
    /\ num' = Len(prs) + 1
    /\ pc' = "auto"
    /\ UNCHANGED <<ri, bi, status, failures, events>>

\* GitHub has created it but the answer is lost: another error than that there is one.
CreateUnanswered ==
    /\ Created
    /\ Fail
    /\ End("panic")
    /\ UNCHANGED num

CreateExists ==
    /\ pc = "create" /\ getPR # {}
    /\ pc' = "list"
    /\ UNCHANGED <<github, cmd, only, ri, bi, status, num, attempts, reported, history,
                   failures, events>>

NothingToMerge ==
    /\ pc = "create" /\ getPR = {} /\ head[Place] # "ahead"
    /\ End("panic")
    /\ UNCHANGED <<github, cmd, only, num, attempts, reported, history, failures, events>>

\* Edit sets title and body.
EditPR ==
    /\ pc = "edit"
    /\ touched' = touched \union {num}
    /\ \/ pc' = "auto" /\ UNCHANGED <<ri, bi, status, failures, events>>
       \/ Fail /\ End("panic")  \* the answer is lost
    /\ UNCHANGED <<github, cmd, only, num, attempts, reported, tried, updates, atStart>>

\* EnableAutoMerge; its error is logged, as it is for a request that is closed or when
\* the answer is lost.
EnableAutoMerge ==
    /\ pc = "auto"
    /\ prs' = [prs EXCEPT ![num].auto = @ \/ (AutoMerge /\ prs[num].open)]
    /\ pc' = "review"
    /\ UNCHANGED <<head, cmd, only, ri, bi, status, num, attempts, reported, history,
                   failures, events>>

AutoMergeFails ==
    /\ pc = "auto" /\ AutoMerge
    /\ Fail
    /\ pc' = "review"
    /\ UNCHANGED <<github, cmd, only, ri, bi, status, num, attempts, reported, history>>

\* RequestReviewers; a refusal is logged.
RequestReviewers ==
    /\ pc = "review"
    /\ NextBranch
    /\ UNCHANGED <<github, cmd, only, num, attempts, reported, history, failures, events>>

\* Any other request of CreatePR is refused or lost, or that for reviewers is lost.
CreateFails ==
    /\ \/ pc \in {"getbranch", "create", "edit"}
       \/ pc = "list" /\ cmd = "create"
       \/ pc = "review" /\ Reviewers
    /\ Fail
    /\ End("panic")
    /\ UNCHANGED <<github, cmd, only, num, attempts, reported, history>>

-----------------------------------------------------------------------------
(* getPR, which all commands share *)

ListPR ==
    /\ pc = "list"
    /\ \E n \in getPR :
          /\ num' = n
          /\ \/ cmd = "create" /\ pc' = "edit" /\ UNCHANGED <<ri, bi, status, attempts>>
             \/ cmd = "delete" /\ pc' = "close" /\ UNCHANGED <<ri, bi, status, attempts>>
             \/ cmd = "update" /\ pc' = "update" /\ attempts' = 3 /\ UNCHANGED <<ri, bi, status>>
             \/ cmd = "open" /\ NextBranch /\ UNCHANGED attempts
    /\ UNCHANGED <<github, cmd, only, reported, history, failures, events>>

\* No such request (any more): fine for deleteprs and updateprs.
NoPRs ==
    /\ pc = "list" /\ getPR = {}
    /\ \/ cmd = "create" /\ End("panic") /\ UNCHANGED reported
       \/ cmd \in {"delete", "update"} /\ NextBranch /\ UNCHANGED reported
       \/ cmd = "open" /\ Report
    /\ UNCHANGED <<github, cmd, only, num, attempts, history, failures, events>>

\* Mutant: any error is taken for NoPRs.
ListFails_NoPRs ==
    /\ pc = "list" /\ cmd # "create"
    /\ Fail
    /\ NextBranch
    /\ UNCHANGED <<github, cmd, only, num, attempts, reported, history>>

ListFails ==
    /\ pc = "list" /\ cmd # "create"
    /\ Fail
    /\ Report
    /\ UNCHANGED <<github, cmd, only, num, attempts, history>>

-----------------------------------------------------------------------------
(* ClosePR and UpdatePrBranch *)

Closed ==
    /\ pc = "close"
    /\ prs' = [prs EXCEPT ![num].open = FALSE]
    /\ touched' = touched \union {num}
    /\ UNCHANGED <<head, cmd, only, num, attempts, reported, tried, updates, atStart>>

ClosePR ==
    /\ Closed
    /\ NextBranch
    /\ UNCHANGED <<failures, events>>

\* With an error, Edit returns no pull request, whose number is then logged: GitHub has
\* closed the request and the answer is lost, or it has not.
CloseUnanswered ==
    /\ Closed
    /\ Fail
    /\ End("panic")

CloseFails ==
    /\ pc = "close"
    /\ Fail
    /\ End("panic")
    /\ UNCHANGED <<github, cmd, only, num, attempts, reported, history>>

\* Mutant: what was accepted is tried again.
UpdateBranch_AgainIfAccepted ==
    /\ pc = "update" /\ prs[num].open
    /\ accepted' = [accepted EXCEPT ![num] = @ + 1]
    /\ touched' = touched \union {num}
    /\ \/ attempts > 0 /\ attempts' = attempts - 1 /\ UNCHANGED <<progress, reported>>
       \/ attempts = 0 /\ Report /\ UNCHANGED attempts
    /\ UNCHANGED <<github, cmd, only, num, tried, unseen, atStart, failures, events>>

\* GitHub answers 202, which the library returns as an AcceptedError: there is no
\* second attempt, and the error is what UpdatePrBranch returns.
UpdateBranch ==
    /\ pc = "update" /\ prs[num].open
    /\ accepted' = [accepted EXCEPT ![num] = @ + 1]
    /\ touched' = touched \union {num}
    /\ Report
    /\ UNCHANGED <<github, cmd, only, num, attempts, tried, unseen, atStart, failures, events>>

\* Any other error: three more attempts, two seconds apart.
Again ==
    \/ attempts > 0 /\ attempts' = attempts - 1 /\ UNCHANGED <<progress, reported>>
    \/ attempts = 0 /\ Report /\ UNCHANGED attempts

\* Mutant: the attempts are not counted.
UpdateRefused_Forever ==
    /\ pc = "update"
    /\ UNCHANGED vars

\* GitHub refuses: there are conflicts, nothing to update, or the request is closed; or
\* it never got the update.
UpdateRefused ==
    /\ pc = "update"
    /\ Again
    /\ UNCHANGED <<github, cmd, only, num, history, failures, events>>

\* GitHub accepts, but the answer is lost; an update that it has accepted is then
\* requested again.
UpdateUnanswered ==
    /\ pc = "update" /\ prs[num].open
    /\ accepted' = [accepted EXCEPT ![num] = @ + 1]
    /\ unseen' = [unseen EXCEPT ![num] = @ + 1]
    /\ touched' = touched \union {num}
    /\ Again
    /\ UNCHANGED <<github, cmd, only, num, tried, atStart, failures, events>>

-----------------------------------------------------------------------------
(* External: developers, GitHub and other runs of gromit *)

Event == pc # "over" /\ events < MaxEvents /\ events' = events + 1 /\ UNCHANGED failures

\* A request is closed, or merged; GitHub may delete the head branch of a merged one.
CloseOrMerge(n) ==
    /\ Event
    /\ prs[n].open
    /\ prs' = [prs EXCEPT ![n].open = FALSE]
    /\ \/ UNCHANGED head
       \/ /\ prs[n].head = Prefixed[prs[n].base]
          /\ \E h \in {"none", "same"} :
                head' = [head EXCEPT ![[repo |-> prs[n].repo, base |-> prs[n].base]] = h]
    /\ UNCHANGED <<cmd, only, progress, num, attempts, reported, history>>

\* policy sync pushes a head branch.
SyncPush(p) ==
    /\ Event
    /\ head[p] # "ahead"
    /\ head' = [head EXCEPT ![p] = "ahead"]
    /\ UNCHANGED <<prs, cmd, only, progress, num, attempts, reported, history>>

CreateSteps ==
    \/ FindHead \/ CreateNew \/ CreateExists \/ NothingToMerge \/ EditPR
    \/ EnableAutoMerge \/ RequestReviewers

Step ==
    \/ BeginRepo \/ BeginBranch \/ CreateSteps \/ ListPR \/ NoPRs
    \/ ClosePR \/ UpdateBranch \/ UpdateRefused

Trouble ==
    \/ CreateFails \/ CreateUnanswered \/ AutoMergeFails \/ ListFails
    \/ CloseFails \/ CloseUnanswered \/ UpdateUnanswered

Next ==
    \/ Step \/ Trouble
    \/ \E n \in 1 .. Len(prs) : CloseOrMerge(n)
    \/ \E p \in Places : SyncPush(p)

Spec == Init /\ [][Next]_vars

\* The command goes on; requests are answered or time out.
FairSpec == Spec /\ WF_vars(Step)

-----------------------------------------------------------------------------
(* Properties *)

TypeOK ==
    /\ prs \in Seq(PullRequests) /\ only \in Branches \union {AllBranches}
    /\ head \in [Places -> {"none", "same", "ahead"}]
    /\ pc \in {"repo", "branch", "getbranch", "create", "list", "edit", "auto", "review",
               "close", "update", "over"}
    /\ ri \in 1 .. Len(Args) /\ bi \in Nat \ {0}
    /\ pc \notin {"repo", "over"} => Known /\ bi <= Len(List)
    /\ num \in 0 .. Len(prs) /\ attempts \in 0 .. 3
    /\ status \in {"running", "ok", "error", "panic"}
    /\ (pc = "over") = (status # "running")
    /\ tried \subseteq Places /\ reported \subseteq tried
    /\ touched \subseteq 1 .. Len(prs) /\ atStart \subseteq 1 .. Len(prs)
    /\ accepted \in Seq(Nat) /\ Len(accepted) = Len(prs)
    /\ unseen \in Seq(Nat) /\ Len(unseen) = Len(prs)
    /\ failures \in 0 .. MaxFailures /\ events \in 0 .. MaxEvents

\* The commands change releng requests of the given repositories only, never one
\* that a developer made for the same branch (github.go:149).
OthersUntouched == \A n \in touched : Managed(n)

\* When deleteprs ends without dying, every releng request that was open when it began is
\* closed, whatever others did meanwhile, or a failure was printed for its branch.
DeleteClosesAll ==
    cmd = "delete" /\ status = "ok" =>
        \A n \in atStart :
            Managed(n) /\ prs[n].repo \in DOMAIN BranchesOf /\ prs[n].open =>
                [repo |-> prs[n].repo, base |-> prs[n].base] \in reported

\* The retry loop requests an update that GitHub has accepted again only when the answer
\* to it was lost, and GitHub accepts no more than four in all (github.go:204).
AcceptedOnce ==
    \A n \in 1 .. Len(accepted) : accepted[n] <= 1 + unseen[n] /\ accepted[n] <= 4

\* Every command ends, whatever GitHub answers (github.go:208).
CommandEnds == <>(pc = "over")

\* The places a command has to process.
Requested ==
    {p \in Places : /\ \E i \in 1 .. Len(Args) : Args[i] = p.repo
                    /\ p.repo \in DOMAIN BranchesOf
                    /\ \/ only = p.base
                       \/ /\ only = AllBranches
                          /\ \E i \in 1 .. Len(BranchesOf[p.repo]) : BranchesOf[p.repo][i] = p.base}

\* "PRs will be created for the branches with <prefix>" (cmd/prs.go:55) and "For each
\* of the supplied repos, PRs will be closed without merging" (cmd/prs.go:116): a
\* command that ends normally has processed every branch of every known repository,
\* although requests failed and others closed some of them meanwhile.
EveryBranchProcessed == status = "ok" => Requested \subseteq tried

\* No branch is forgotten: a command that ends normally has been to every one, and
\* deleteprs leaves no request open without a word (cmd/prs.go:116, 174).
NothingForgotten == EveryBranchProcessed /\ DeleteClosesAll

\* What is changed is gromit's, and what GitHub has answered it accepted is not asked for
\* again (github.go:149, 204).
OwnRequestsOnce == OthersUntouched /\ AcceptedOnce

=============================================================================
