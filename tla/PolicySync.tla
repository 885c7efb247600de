----------------------------- MODULE PolicySync -----------------------------
(***************************************************************************)
(* `gromit policy sync <repo>` (src/cmd/policy.go, src/policy/policy.go,   *)
(* git.go, github.go) as the release workflow runs it.                     *)
(*                                                                         *)
(* Every merge to gromit's main branch starts a run, and so does every     *)
(* push to a pull request of a branch named *releng, with templates that   *)
(* are not merged yet; others are started by hand, from any ref.  Nothing  *)
(* keeps two runs apart or in order.                                       *)
(*                                                                         *)
(* A run takes the managed branches of a repository in turn:               *)
(* it fetches the branch, renders the templates over it, commits, forces   *)
(* the commit to releng/<branch> and creates or updates a pull request,    *)
(* which GitHub merges by itself once its checks pass.                     *)
(*                                                                         *)
(* What the templates make of a branch is a number: the managed files are  *)
(* one piece of text, and a merge is a three-way merge of that text.       *)
(***************************************************************************)
EXTENDS Naturals, Sequences

CONSTANTS
    Branches,    \* the branches with a policy, sorted (GetAllBranches)
    Templates,   \* what the n-th state of gromit's main renders, by branch
    Before,      \* the text of every branch at first
    Runners,     \* the runs that may overlap
    NoRef,       \* a ref that does not exist
    AutoMerge,   \* the --auto flag
    Edited,      \* what a developer of the repository makes of the text
    AnyRef,      \* are there runs with other templates than those of gromit's main?
    MaxEdits,    \* bound on interventions by developers
    MaxFailures  \* bound on failed requests and crashes

BranchSet == {Branches[n] : n \in 1 .. Len(Branches)}

\* The branches are the keys of a map.
ASSUME BranchesTyped ==
    /\ Len(Branches) \in Nat \ {0} /\ AutoMerge \in BOOLEAN /\ AnyRef \in BOOLEAN
    /\ \A m, n \in 1 .. Len(Branches) : Branches[m] = Branches[n] => m = n
ASSUME TemplatesTyped ==
    /\ Len(Templates) \in Nat
    /\ \A n \in 1 .. Len(Templates) : Templates[n] \in [BranchSet -> Nat]
    /\ Before \in Nat /\ Edited \in Nat
ASSUME BoundsTyped == MaxEdits \in Nat /\ MaxFailures \in Nat
ASSUME NoRefIsNoRef == NoRef \notin [from : Nat, to : Nat] /\ NoRef \notin Runners

VARIABLES
    main,     \* the state of gromit's main branch
    queue,    \* the merges whose run has not started
    base,     \* GitHub: the text on each branch
    head,     \* GitHub: releng/<branch>, the commit [from, to] or NoRef
    pull,     \* GitHub: its pull request, "none", "open" or "auto"
    pusher,   \* history: the run that has pushed to releng/<branch> and not reported a
              \* pull request yet, NoRef when somebody else was at the branch since
    offer,    \* history: the templates that a run reported a pull request for, 0 when
              \* somebody was at the branch since
    edits, failures,
    pc,       \* "idle", "fetch", "commit", "push", "branch", "create", "list",
              \* "edit" or "auto"
    ver,      \* the templates of the run
    list,     \* the branches it takes
    withPr,   \* the --pr flag
    i,        \* index into list
    tree,     \* the text it fetched, until that is pushed
    exit,     \* how the last run ended, "none" before that
    seen      \* history: branches it has processed

github == <<base, head, pull>>
history == <<pusher, offer>>
run == <<pc, ver, list, withPr, i, tree, exit, seen>>
vars == <<main, queue, github, history, edits, failures, run>>

-----------------------------------------------------------------------------
Branch(r) == list[r][i[r]]

\* NewBundle, Render, removeDeletedFiles: the text of the branch, whatever it was.
Rendered(r) == Templates[ver[r]][Branch(r)]

Lists == {Branches} \union {<<b>> : b \in BranchSet}

Fail == failures < MaxFailures /\ failures' = failures + 1

Init ==
    /\ main = 0 /\ queue = {}
    /\ base = [b \in BranchSet |-> Before]
    /\ head = [b \in BranchSet |-> NoRef]
    /\ pull = [b \in BranchSet |-> "none"]
    /\ pusher = [b \in BranchSet |-> NoRef]
    /\ offer = [b \in BranchSet |-> 0]
    /\ edits = 0 /\ failures = 0
    /\ pc = [r \in Runners |-> "idle"]
    /\ ver = [r \in Runners |-> 0]
    /\ list = [r \in Runners |-> Branches]
    /\ withPr = [r \in Runners |-> FALSE]
    /\ i = [r \in Runners |-> 1]
    /\ tree = [r \in Runners |-> Before]
    /\ exit = [r \in Runners |-> "none"]
    /\ seen = [r \in Runners |-> {}]

-----------------------------------------------------------------------------
(* The release workflow *)

\* A pull request is merged to gromit's main branch.
MergeToMain ==
    /\ main < Len(Templates)
    /\ main' = main + 1
    /\ queue' = queue \union {main + 1}
    /\ UNCHANGED <<github, history, edits, failures, run>>

\* `policy sync` starts: the flags are read and the branches listed.
Begin(r, v, l, p) ==
    /\ pc[r] = "idle"
    /\ pc' = [pc EXCEPT ![r] = "fetch"]
    /\ ver' = [ver EXCEPT ![r] = v]
    /\ list' = [list EXCEPT ![r] = l]
    /\ withPr' = [withPr EXCEPT ![r] = p]
    /\ i' = [i EXCEPT ![r] = 1]
    /\ exit' = [exit EXCEPT ![r] = "none"]
    /\ seen' = [seen EXCEPT ![r] = {}]
    /\ UNCHANGED <<main, github, history, edits, failures, tree>>

\* A push to main starts a run for all branches, with pull requests, once its job
\* goreleaser has built the command: not always in the order of the pushes.
StartRun(r) ==
    \E v \in queue :
        /\ queue' = queue \ {v}
        /\ Begin(r, v, Branches, TRUE)

\* workflow_dispatch on main: all branches or one, with a pull request or without.
Dispatch(r, l, p) ==
    /\ main > 0
    /\ Begin(r, main, l, p)
    /\ UNCHANGED queue

\* The same on another ref, or the command by hand in any checkout of gromit.
DispatchOther(r, v, l, p) ==
    /\ AnyRef /\ v # main
    /\ Begin(r, v, l, p)
    /\ UNCHANGED queue

\* A push to an open pull request whose branch is named *releng starts a run for all
\* branches with what it would merge, without pull requests.
PullRequestRun(r, v) ==
    /\ AnyRef /\ main < v
    /\ Begin(r, v, Branches, FALSE)
    /\ UNCHANGED queue

-----------------------------------------------------------------------------
(* The loop of syncSubCmd *)

\* The command returns, or dies, and what it knew is gone.
Finish(r, how) ==
    /\ pc' = [pc EXCEPT ![r] = "idle"]
    /\ exit' = [exit EXCEPT ![r] = how]
    /\ withPr' = [withPr EXCEPT ![r] = FALSE]
    /\ i' = [i EXCEPT ![r] = 1]
    /\ tree' = [tree EXCEPT ![r] = Before]

\* Mutant: the loop does not end with the last branch.
Advance_OneMore(r, e) ==
    IF i[r] <= Len(list[r])
    THEN /\ i' = [i EXCEPT ![r] = @ + 1]
         /\ pc' = [pc EXCEPT ![r] = "fetch"]
         /\ UNCHANGED <<withPr, tree, exit>>
    ELSE Finish(r, IF e THEN "failed" ELSE "ok")

\* The next branch, or the end of the loop and the return of syncErr; e tells whether
\* this branch has left an error in it, whatever the branches before had.
Advance(r, e) ==
    IF i[r] < Len(list[r])
    THEN /\ i' = [i EXCEPT ![r] = @ + 1]
         /\ pc' = [pc EXCEPT ![r] = "fetch"]
         /\ UNCHANGED <<withPr, tree, exit>>
    ELSE Finish(r, IF e THEN "failed" ELSE "ok")

\* Somebody is at the branch: what was reported of it no longer counts.
Disturb(b, who) ==
    /\ pusher' = [pusher EXCEPT ![b] = who]
    /\ offer' = [offer EXCEPT ![b] = 0]

\* The run reports a pull request for what it pushed.
Report(r) ==
    IF pusher[Branch(r)] = r
    THEN /\ pusher' = [pusher EXCEPT ![Branch(r)] = NoRef]
         /\ offer' = [offer EXCEPT ![Branch(r)] = ver[r]]
    ELSE UNCHANGED history

\* ProcessBranch: FetchBranch; local changes are lost.
Fetch(r) ==
    /\ pc[r] = "fetch"
    /\ tree' = [tree EXCEPT ![r] = base[Branch(r)]]
    /\ pc' = [pc EXCEPT ![r] = "commit"]
    /\ UNCHANGED <<main, queue, github, history, edits, failures,
                   ver, list, withPr, i, exit, seen>>

\* ProcessBranch: SetBranch to Commit, all in the work tree.  Without changes
\* there is no commit and the branch is skipped.
Commit(r) ==
    /\ pc[r] = "commit"
    /\ \/ /\ Rendered(r) # tree[r]
          /\ pc' = [pc EXCEPT ![r] = "push"]
          /\ UNCHANGED <<withPr, i, tree, exit, seen>>
       \/ /\ Rendered(r) = tree[r]
          /\ seen' = [seen EXCEPT ![r] = @ \union {Branch(r)}]
          /\ Advance(r, FALSE)
    /\ UNCHANGED <<main, queue, github, history, edits, failures, ver, list>>

\* Mutant: the refspec has no "+", so a releng branch is not overwritten.
Push_NotForced(r) ==
    /\ pc[r] = "push"
    /\ IF head[Branch(r)] = NoRef
       THEN /\ head' = [head EXCEPT ![Branch(r)] = [from |-> tree[r], to |-> Rendered(r)]]
            /\ seen' = [seen EXCEPT ![r] = @ \union {Branch(r)}]
            /\ Disturb(Branch(r), r)
            /\ pc' = [pc EXCEPT ![r] = "branch"]
            /\ UNCHANGED <<withPr, i, tree, exit>>
       ELSE /\ Finish(r, "failed")
            /\ UNCHANGED <<head, seen, history>>
    /\ UNCHANGED <<main, queue, base, pull, edits, failures, ver, list>>

\* Mutant: a releng branch that has a pull request is left as it is.
Push_KeepsOpen(r) ==
    /\ pc[r] = "push"
    /\ head' = IF pull[Branch(r)] # "none" THEN head
               ELSE [head EXCEPT ![Branch(r)] = [from |-> tree[r], to |-> Rendered(r)]]
    /\ seen' = [seen EXCEPT ![r] = @ \union {Branch(r)}]
    /\ Disturb(Branch(r), IF withPr[r] THEN r ELSE NoRef)
    /\ \/ /\ withPr[r]
          /\ pc' = [pc EXCEPT ![r] = "branch"]
          /\ tree' = [tree EXCEPT ![r] = Before]
          /\ UNCHANGED <<withPr, i, exit>>
       \/ /\ ~withPr[r]
          /\ Advance(r, FALSE)
    /\ UNCHANGED <<main, queue, base, pull, edits, failures, ver, list>>

\* ProcessBranch: Push to releng/<branch>, whatever is there.  An open pull request
\* shows the new commit at once.
Push(r) ==
    /\ pc[r] = "push"
    /\ head' = [head EXCEPT ![Branch(r)] = [from |-> tree[r], to |-> Rendered(r)]]
    /\ seen' = [seen EXCEPT ![r] = @ \union {Branch(r)}]
    /\ Disturb(Branch(r), IF withPr[r] THEN r ELSE NoRef)
    /\ \/ /\ withPr[r]
          /\ pc' = [pc EXCEPT ![r] = "branch"]
          /\ tree' = [tree EXCEPT ![r] = Before]
          /\ UNCHANGED <<withPr, i, exit>>
       \/ /\ ~withPr[r]
          /\ Advance(r, FALSE)
    /\ UNCHANGED <<main, queue, base, pull, edits, failures, ver, list>>

\* Mutant: the loop goes on with the next branch.
ProcessFails_Continues(r) ==
    /\ pc[r] \in {"fetch", "commit", "push"}
    /\ Fail
    /\ Advance(r, TRUE)
    /\ UNCHANGED <<main, queue, github, history, edits, ver, list, seen>>

\* The run ends before its time; what it did is of no further interest.
Abort(r) ==
    /\ Finish(r, "failed")
    /\ ver' = [ver EXCEPT ![r] = 0]
    /\ seen' = [seen EXCEPT ![r] = {}]

\* InitGit or any step of ProcessBranch returns an error: the remaining branches
\* are not processed and the error is returned.
ProcessFails(r) ==
    /\ pc[r] \in {"fetch", "commit", "push"}
    /\ Fail
    /\ Abort(r)
    /\ UNCHANGED <<main, queue, github, history, edits, list>>

\* The process dies.
Crash(r) ==
    /\ pc[r] # "idle"
    /\ Fail
    /\ Abort(r)
    /\ UNCHANGED <<main, queue, github, history, edits, list>>

-----------------------------------------------------------------------------
(* CreatePR *)

\* CreatePR returns an error: it is printed, kept in syncErr, which the next branch
\* overwrites, and the loop goes on.
NoPR(r) == Advance(r, TRUE)

Continue(r, step) ==
    /\ pc' = [pc EXCEPT ![r] = step]
    /\ UNCHANGED <<withPr, i, tree, exit>>

\* The branch may be gone already: an open pull request with auto-merge that the
\* push updated may have been merged and its branch deleted.
GetBranch(r) ==
    /\ pc[r] = "branch"
    /\ \/ head[Branch(r)] # NoRef /\ Continue(r, "create")
       \/ head[Branch(r)] = NoRef /\ NoPR(r)
    /\ UNCHANGED <<main, queue, github, history, edits, failures, ver, list, seen>>

Create(r) ==
    LET b == Branch(r)
    IN  /\ pc[r] = "create"
        /\ \/ /\ pull[b] # "none"
              /\ Continue(r, "list")
              /\ UNCHANGED pull
           \/ /\ pull[b] = "none" /\ head[b] # NoRef
              /\ pull' = [pull EXCEPT ![b] = "open"]
              /\ Continue(r, "auto")
           \/ /\ head[b] = NoRef
              /\ NoPR(r)
              /\ UNCHANGED pull
        /\ UNCHANGED <<main, queue, base, head, history, edits, failures, ver, list, seen>>

\* getPR; the request that existed may have been merged or closed since.
ListPR(r) ==
    /\ pc[r] = "list"
    /\ \/ pull[Branch(r)] # "none" /\ Continue(r, "edit")
       \/ pull[Branch(r)] = "none" /\ NoPR(r)
    /\ UNCHANGED <<main, queue, github, history, edits, failures, ver, list, seen>>

\* Title and body are updated; GitHub may refuse that for a request which is no
\* longer open.
EditPR(r) ==
    /\ pc[r] = "edit"
    /\ \/ Continue(r, "auto")
       \/ pull[Branch(r)] = "none" /\ NoPR(r)
    /\ UNCHANGED <<main, queue, github, history, edits, failures, ver, list, seen>>

\* EnableAutoMerge, when asked for; its error is only logged.
EnableAutoMerge(r) ==
    LET b == Branch(r)
    IN  /\ pc[r] = "auto"
        /\ \/ /\ AutoMerge /\ pull[b] # "none"
              /\ pull' = [pull EXCEPT ![b] = "auto"]
              /\ UNCHANGED failures
           \/ /\ ~AutoMerge \/ pull[b] = "none"
              /\ UNCHANGED <<pull, failures>>
           \/ /\ AutoMerge /\ Fail
              /\ UNCHANGED pull
        /\ Report(r)
        /\ Advance(r, FALSE)
        /\ UNCHANGED <<main, queue, base, head, edits, ver, list, seen>>

\* A request of CreatePR fails.
CreateFails(r) ==
    /\ pc[r] \in {"branch", "create", "list", "edit"}
    /\ Fail
    /\ NoPR(r)
    /\ UNCHANGED <<main, queue, github, history, edits, ver, list, seen>>

-----------------------------------------------------------------------------
(* GitHub and the developers of the repository, external *)

\* A three-way merge: only one side changed the text.
Mergeable(b) == base[b] \in {head[b].from, head[b].to}

\* The pull request is squashed into its branch; releng/<branch> may be deleted.
Merge(b) ==
    /\ pull[b] # "none"
    /\ Mergeable(b)
    /\ base' = [base EXCEPT ![b] = head[b].to]
    /\ pull' = [pull EXCEPT ![b] = "none"]
    /\ head' \in {head, [head EXCEPT ![b] = NoRef]}
    /\ UNCHANGED <<main, queue, history, edits, failures, run>>

Intervene(b) ==
    /\ edits < MaxEdits
    /\ edits' = edits + 1
    /\ Disturb(b, NoRef)
    /\ UNCHANGED <<main, queue, head, failures, run>>

\* A developer changes the managed files.
Edit(b) ==
    /\ Intervene(b)
    /\ base' = [base EXCEPT ![b] = Edited]
    /\ UNCHANGED pull

\* A developer, or `prs deleteprs`, closes the pull request.
Close(b) ==
    /\ pull[b] # "none"
    /\ Intervene(b)
    /\ pull' = [pull EXCEPT ![b] = "none"]
    /\ UNCHANGED base

-----------------------------------------------------------------------------
Step(r) ==
    \/ StartRun(r) \/ Fetch(r) \/ Commit(r) \/ Push(r)
    \/ GetBranch(r) \/ Create(r) \/ ListPR(r) \/ EditPR(r) \/ EnableAutoMerge(r)

Next ==
    \/ MergeToMain
    \/ \E r \in Runners :
          \/ Step(r)
          \/ \E l \in Lists, p \in BOOLEAN :
                \/ Dispatch(r, l, p)
                \/ \E v \in 1 .. Len(Templates) : DispatchOther(r, v, l, p)
          \/ \E v \in 1 .. Len(Templates) : PullRequestRun(r, v)
          \/ ProcessFails(r) \/ CreateFails(r) \/ Crash(r)
    \/ \E b \in BranchSet : Merge(b) \/ Edit(b) \/ Close(b)

Spec == Init /\ [][Next]_vars

\* Runs proceed, full runs with --pr are started again and again (every merge to
\* gromit's main starts one), and GitHub merges what it was told to auto-merge.
Fairness ==
    /\ \A r \in Runners : WF_vars(Step(r)) /\ SF_vars(Dispatch(r, Branches, TRUE))
    /\ \A b \in BranchSet : WF_vars(pull[b] = "auto" /\ Merge(b))

FairSpec == Spec /\ Fairness

-----------------------------------------------------------------------------
(* Properties *)

Texts == {Before, Edited} \union {Templates[n][b] : n \in 1 .. Len(Templates), b \in BranchSet}

TypeOK ==
    /\ main \in 0 .. Len(Templates)
    /\ queue \subseteq 1 .. main
    /\ base \in [BranchSet -> Texts]
    /\ head \in [BranchSet -> [from : Texts, to : Texts] \union {NoRef}]
    /\ pull \in [BranchSet -> {"none", "open", "auto"}]
    /\ \A b \in BranchSet : pull[b] # "none" => head[b] # NoRef
    /\ pusher \in [BranchSet -> Runners \union {NoRef}]
    /\ offer \in [BranchSet -> 0 .. Len(Templates)]
    /\ edits \in 0 .. MaxEdits /\ failures \in 0 .. MaxFailures
    /\ pc \in [Runners -> {"idle", "fetch", "commit", "push", "branch", "create", "list",
                           "edit", "auto"}]
    /\ ver \in [Runners -> 0 .. Len(Templates)]
    /\ \A r \in Runners : pc[r] # "idle" => ver[r] # 0
    /\ list \in [Runners -> Lists]
    /\ withPr \in [Runners -> BOOLEAN]
    /\ i \in [Runners -> Nat \ {0}]
    /\ \A r \in Runners : i[r] <= Len(list[r])
    /\ tree \in [Runners -> Texts]
    /\ exit \in [Runners -> {"none", "ok", "failed"}]
    /\ seen \in [Runners -> SUBSET BranchSet]

\* A run that reports success has processed every branch it was asked to: no
\* failure of fetch, render, commit or push is passed over (cmd/policy.go:180).
OkMeansProcessed ==
    \A r \in Runners : exit[r] = "ok" => \A n \in 1 .. Len(list[r]) : list[r][n] \in seen[r]

\* What a run has pushed and reported a pull request for is on the branch or on offer
\* for it: neither auto-merge between the push and CreatePR (github.go:107), nor a
\* request that an earlier or overlapping run left behind, nor such a run's own CreatePR
\* takes it away; only a later push to releng/<branch> (git.go:206), a change of the
\* branch or the closing of the request ends that.
PushHolds ==
    \A b \in BranchSet : offer[b] # 0 =>
        LET text == Templates[offer[b]][b]
        IN  base[b] = text \/ (pull[b] # "none" /\ head[b].to = text)

Target(b) == Templates[main][b]
InSync(b) == base[b] = Target(b) \/ (pull[b] # "none" /\ head[b].to = Target(b))

\* Every merge has had its run, none is under way and nobody has intervened.
AtRest ==
    /\ main > 0 /\ queue = {} /\ edits = 0
    /\ \A r \in Runners : pc[r] = "idle"

\* "Sync will create corrective PRs" after a revert (README.md:446): when the last run
\* was one of the newest templates and reports success, every branch has what they
\* render, or a pull request for it.
RevertIsSynced ==
    (AtRest /\ \A r \in Runners : exit[r] = "ok" /\ ver[r] = main) => \A b \in BranchSet : InSync(b)

\* "When changes are merged to gromit's main branch, the `policy sync` command runs
\* automatically.  This generates output for every repo and branch, and creates or
\* updates PRs in each target repo." (README.md:404): when the runs of all merges report
\* success, every branch has what the newest templates render, or a request for it.
MergedIsSynced ==
    (AtRest /\ failures = 0 /\ \A r \in Runners : exit[r] = "ok") => \A b \in BranchSet : InSync(b)

\* Whatever was reverted, edited by hand, closed, killed or overtaken: once that
\* stops, every branch ends up with what the newest templates render.
Converges == <>[](\A b \in BranchSet : main > 0 => base[b] = Target(b))

=============================================================================
