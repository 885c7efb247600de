-------------------------- MODULE PolicySyncProofs --------------------------
(* Proofs about PolicySync, for every set of branches, templates and runners. *)
EXTENDS PolicySync, TLAPS

-----------------------------------------------------------------------------
(* The inductive invariant *)

\* What makes OkMeansProcessed inductive: a run has processed the branches before
\* the one it is at and, when it is at its pull request, that one too.
Progress ==
    \A r \in Runners :
        /\ pc[r] # "idle" =>
               exit[r] = "none" /\ \A n \in 1 .. Len(list[r]) : n < i[r] => list[r][n] \in seen[r]
        /\ pc[r] \in {"branch", "create", "list", "edit", "auto"} => Branch(r) \in seen[r]

\* What makes PushHolds inductive: from the push on, releng/<branch> has the text or is
\* merged and deleted, for whoever pushed last; and once CreatePR has seen or made the
\* request, it is open unless the branch has the text.
Pushed(b, text) == IF head[b] = NoRef THEN base[b] = text ELSE head[b].to = text
Requested(b, text) == base[b] = text \/ pull[b] # "none"

PushInv ==
    /\ \A r \in Runners :
          pc[r] \in {"branch", "create", "list", "edit", "auto"} /\ pusher[Branch(r)] = r =>
              /\ Pushed(Branch(r), Rendered(r))
              /\ pc[r] \in {"edit", "auto"} => Requested(Branch(r), Rendered(r))
    /\ \A b \in BranchSet : offer[b] # 0 =>
          Pushed(b, Templates[offer[b]][b]) /\ Requested(b, Templates[offer[b]][b])

IndInv == TypeOK /\ Progress /\ OkMeansProcessed /\ PushInv

-----------------------------------------------------------------------------
\* The lists a run may be given are not empty and name managed branches.
LEMMA ListsTyped ==
    ASSUME NEW l \in Lists
    PROVE  /\ Len(l) \in Nat \ {0} /\ \A n \in 1 .. Len(l) : l[n] \in BranchSet
           /\ \A m, n \in 1 .. Len(l) : l[m] = l[n] => m = n
<1>1. CASE l = Branches
  BY <1>1, BranchesTyped DEF BranchesTyped, BranchSet
<1>2. ASSUME NEW b \in BranchSet, l = <<b>>
      PROVE  /\ Len(l) \in Nat \ {0} /\ \A n \in 1 .. Len(l) : l[n] \in BranchSet
             /\ \A m, n \in 1 .. Len(l) : l[m] = l[n] => m = n
  BY <1>2
<1>3. QED
  BY <1>1, <1>2 DEF Lists

\* The branch a run is at, what it renders, and the texts they have.
LEMMA BranchTyped ==
    ASSUME TypeOK, NEW r \in Runners
    PROVE  /\ Branch(r) \in BranchSet
           /\ Len(list[r]) \in Nat \ {0}
           /\ i[r] \in 1 .. Len(list[r])
           /\ list[r][i[r]] = Branch(r)
           /\ \A n \in 1 .. Len(list[r]) : list[r][n] \in BranchSet
<1>1. list[r] \in Lists /\ i[r] \in 1 .. Len(list[r])
  BY DEF TypeOK
<1>2. Len(list[r]) \in Nat \ {0} /\ \A n \in 1 .. Len(list[r]) : list[r][n] \in BranchSet
  BY <1>1, ListsTyped
<1>3. QED
  BY <1>1, <1>2 DEF Branch

\* Texts are numbers.
LEMMA TextsAreNumbers == Texts \subseteq Nat
BY TemplatesTyped DEF TemplatesTyped, Texts

LEMMA RenderedTyped ==
    ASSUME TypeOK, NEW r \in Runners, pc[r] # "idle"
    PROVE  Rendered(r) \in Texts
<1>1. ver[r] \in 1 .. Len(Templates)
  BY TemplatesTyped DEF TypeOK, TemplatesTyped
<1>2. QED
  BY <1>1, BranchTyped DEF Rendered, Texts

-----------------------------------------------------------------------------
LEMMA IndInvInit == Init => IndInv
<1> SUFFICES ASSUME Init PROVE IndInv
  OBVIOUS
<1>1. Branches \in Lists
  BY DEF Lists
<1>0. 1 \in 1 .. Len(Branches)
  BY BranchesTyped DEF BranchesTyped
<1> USE DEF Init
<1>2. TypeOK
  BY <1>0, <1>1, TemplatesTyped, BoundsTyped DEF TypeOK, TemplatesTyped, BoundsTyped, Texts
<1>3. Progress /\ OkMeansProcessed /\ PushInv
  BY DEF Progress, OkMeansProcessed, PushInv
<1>4. QED
  BY <1>2, <1>3 DEF IndInv

-----------------------------------------------------------------------------
Steps == {"idle", "fetch", "commit", "push", "branch", "create", "list", "edit", "auto"}

\* The part of TypeOK about where the runs are.
FlowOK ==
    /\ pc \in [Runners -> Steps]
    /\ withPr \in [Runners -> BOOLEAN]
    /\ i \in [Runners -> Nat \ {0}]
    /\ \A q \in Runners : i[q] <= Len(list[q])
    /\ tree \in [Runners -> Texts]
    /\ exit \in [Runners -> {"none", "ok", "failed"}]

\* What Finish and Advance do to it, and that they are steps of r alone.
Alone(r) == \A q \in Runners : q # r =>
    pc'[q] = pc[q] /\ i'[q] = i[q] /\ exit'[q] = exit[q]

LEMMA FinishTyped ==
    ASSUME TypeOK, NEW r \in Runners, NEW how \in {"ok", "failed"}, Finish(r, how), UNCHANGED list
    PROVE  FlowOK' /\ Alone(r) /\ pc'[r] = "idle" /\ exit'[r] = how
<1>1. Len(list[r]) \in Nat \ {0}
  BY BranchTyped
<1>2. Before \in Texts
  BY DEF Texts
<1>3. withPr' \in [Runners -> BOOLEAN]
  BY Zenon DEF TypeOK, Finish
<1>4. i' \in [Runners -> Nat \ {0}] /\ \A q \in Runners : i'[q] <= Len(list'[q])
  BY <1>1 DEF TypeOK, Finish
<1>5. tree' \in [Runners -> Texts]
  BY <1>2 DEF TypeOK, Finish
<1>6. pc' \in [Runners -> Steps] /\ exit' \in [Runners -> {"none", "ok", "failed"}]
  BY DEF TypeOK, Finish, Steps
<1>7. Alone(r) /\ pc'[r] = "idle" /\ exit'[r] = how
  BY DEF TypeOK, Finish, Alone
<1>8. QED
  BY <1>3, <1>4, <1>5, <1>6, <1>7 DEF FlowOK

LEMMA AdvanceTyped ==
    ASSUME TypeOK, NEW r \in Runners, NEW e \in BOOLEAN, Advance(r, e), UNCHANGED list
    PROVE  /\ FlowOK' /\ Alone(r) /\ pc'[r] \in {"idle", "fetch"}
           /\ pc'[r] = "fetch" => i'[r] = i[r] + 1 /\ exit'[r] = exit[r]
           /\ pc'[r] = "idle" => i[r] = Len(list[r]) /\ exit'[r] = IF e THEN "failed" ELSE "ok"
<1>1. Len(list[r]) \in Nat \ {0} /\ i[r] \in 1 .. Len(list[r])
  BY BranchTyped
<1>2. CASE i[r] < Len(list[r])
  <2>1. /\ i' = [i EXCEPT ![r] = i[r] + 1] /\ pc' = [pc EXCEPT ![r] = "fetch"]
        /\ UNCHANGED <<withPr, tree, exit>>
    BY <1>2 DEF Advance
  <2>2. i[r] + 1 \in Nat \ {0} /\ i[r] + 1 <= Len(list[r])
    BY <1>1, <1>2
  <2>3. i' \in [Runners -> Nat \ {0}] /\ \A q \in Runners : i'[q] <= Len(list'[q])
    BY <2>1, <2>2 DEF TypeOK
  <2>4. QED
    BY <2>1, <2>3 DEF TypeOK, FlowOK, Alone, Steps
<1>3. CASE ~(i[r] < Len(list[r]))
  <2>1. Finish(r, IF e THEN "failed" ELSE "ok") /\ i[r] = Len(list[r])
    BY <1>1, <1>3 DEF Advance
  <2>2. (IF e THEN "failed" ELSE "ok") \in {"ok", "failed"}
    OBVIOUS
  <2>3. QED
    BY <2>1, <2>2, FinishTyped
<1>4. QED
  BY <1>2, <1>3

LEMMA AbortTyped ==
    ASSUME TypeOK, NEW r \in Runners, Abort(r), UNCHANGED list
    PROVE  /\ FlowOK' /\ Alone(r) /\ pc'[r] = "idle" /\ exit'[r] = "failed"
           /\ ver' \in [Runners -> 0 .. Len(Templates)]
           /\ \A q \in Runners : q # r => ver'[q] = ver[q]
           /\ seen' \in [Runners -> SUBSET BranchSet]
           /\ \A q \in Runners : q # r => seen'[q] = seen[q]
<1>1. FlowOK' /\ Alone(r) /\ pc'[r] = "idle" /\ exit'[r] = "failed"
  BY FinishTyped DEF Abort
<1>2. ver' \in [Runners -> 0 .. Len(Templates)] /\ \A q \in Runners : q # r => ver'[q] = ver[q]
  BY TemplatesTyped DEF TypeOK, Abort, TemplatesTyped
<1>3. /\ seen' \in [Runners -> SUBSET BranchSet]
      /\ \A q \in Runners : q # r => seen'[q] = seen[q]
  BY DEF TypeOK, Abort
<1>4. QED
  BY <1>1, <1>2, <1>3

LEMMA NoPRTyped ==
    ASSUME TypeOK, NEW r \in Runners, NoPR(r), UNCHANGED list
    PROVE  FlowOK' /\ Alone(r) /\ pc'[r] \in {"idle", "fetch"}
BY AdvanceTyped DEF NoPR

LEMMA ContinueTyped ==
    ASSUME TypeOK, NEW r \in Runners, NEW step \in Steps, pc' = [pc EXCEPT ![r] = step],
           UNCHANGED <<withPr, i, exit, list>>, tree' \in [Runners -> Texts]
    PROVE  FlowOK' /\ Alone(r) /\ pc'[r] = step
BY DEF TypeOK, FlowOK, Alone, Steps

\* A step of run r that leaves the others alone.
OthersUnchanged(r) ==
    \A q \in Runners : q # r =>
        /\ pc'[q] = pc[q] /\ ver'[q] = ver[q] /\ list'[q] = list[q] /\ i'[q] = i[q]
        /\ exit'[q] = exit[q] /\ seen'[q] = seen[q]

LEMMA OthersKeepProgress ==
    ASSUME IndInv, NEW r \in Runners, OthersUnchanged(r),
           pc'[r] # "idle" =>
               exit'[r] = "none"
               /\ \A n \in 1 .. Len(list'[r]) : n < i'[r] => list'[r][n] \in seen'[r],
           pc'[r] \in {"branch", "create", "list", "edit", "auto"} => Branch(r)' \in seen'[r],
           exit'[r] = "ok" => \A n \in 1 .. Len(list'[r]) : list'[r][n] \in seen'[r]
    PROVE  Progress' /\ OkMeansProcessed'
BY DEF IndInv, Progress, OkMeansProcessed, OthersUnchanged, Branch

\* Once the branch a run is at has been processed, Advance keeps the invariant.
LEMMA AdvanceProgress ==
    ASSUME IndInv, NEW r \in Runners, NEW e \in BOOLEAN, Advance(r, e), pc[r] # "idle",
           UNCHANGED <<ver, list>>, seen' \in [Runners -> SUBSET BranchSet],
           \A q \in Runners : seen[q] \subseteq seen'[q] /\ (q # r => seen'[q] = seen[q]),
           Branch(r) \in seen'[r]
    PROVE  Progress' /\ OkMeansProcessed'
<1>0. TypeOK /\ Progress
  BY DEF IndInv
<1>a. /\ Alone(r) /\ pc'[r] \in {"idle", "fetch"}
      /\ pc'[r] = "fetch" => i'[r] = i[r] + 1 /\ exit'[r] = exit[r]
      /\ pc'[r] = "idle" => i[r] = Len(list[r]) /\ exit'[r] = IF e THEN "failed" ELSE "ok"
  BY <1>0, AdvanceTyped
<1>b. /\ Len(list[r]) \in Nat \ {0} /\ i[r] \in 1 .. Len(list[r]) /\ list[r][i[r]] = Branch(r)
  BY <1>0, BranchTyped
<1>1. OthersUnchanged(r)
  BY <1>a DEF OthersUnchanged, Alone
<1>2. exit[r] = "none" /\ \A n \in 1 .. Len(list[r]) : n <= i[r] => list[r][n] \in seen'[r]
  <2>1. exit[r] = "none" /\ \A n \in 1 .. Len(list[r]) : n < i[r] => list[r][n] \in seen[r]
    BY <1>0 DEF Progress
  <2>2. QED
    BY <2>1, <1>b
<1>3. pc'[r] # "idle" =>
          exit'[r] = "none"
          /\ \A n \in 1 .. Len(list'[r]) : n < i'[r] => list'[r][n] \in seen'[r]
  BY <1>a, <1>b, <1>2
<1>4. exit'[r] = "ok" => \A n \in 1 .. Len(list'[r]) : list'[r][n] \in seen'[r]
  BY <1>a, <1>b, <1>2
<1>5. QED
  BY <1>1, <1>3, <1>4, <1>a, OthersKeepProgress

-----------------------------------------------------------------------------
(* Types *)

\* The part of TypeOK that is not FlowOK, but for the runs' templates and lists.
GithubOK ==
    /\ main \in 0 .. Len(Templates)
    /\ queue \subseteq 1 .. main
    /\ base \in [BranchSet -> Texts]
    /\ head \in [BranchSet -> [from : Texts, to : Texts] \union {NoRef}]
    /\ pull \in [BranchSet -> {"none", "open", "auto"}]
    /\ \A b \in BranchSet : pull[b] # "none" => head[b] # NoRef
    /\ pusher \in [BranchSet -> Runners \union {NoRef}]
    /\ offer \in [BranchSet -> 0 .. Len(Templates)]
    /\ edits \in 0 .. MaxEdits /\ failures \in 0 .. MaxFailures

RunOK ==
    /\ ver \in [Runners -> 0 .. Len(Templates)]
    /\ \A r \in Runners : pc[r] # "idle" => ver[r] # 0
    /\ list \in [Runners -> Lists]
    /\ seen \in [Runners -> SUBSET BranchSet]

LEMMA TypeParts == TypeOK <=> GithubOK /\ FlowOK /\ RunOK
BY DEF TypeOK, GithubOK, FlowOK, RunOK, Steps

LEMMA TypePartsNext == TypeOK' <=> GithubOK' /\ FlowOK' /\ RunOK'
BY DEF TypeOK, GithubOK, FlowOK, RunOK, Steps

LEMMA FailTyped == ASSUME TypeOK, Fail PROVE failures' \in 0 .. MaxFailures
BY BoundsTyped DEF TypeOK, Fail, BoundsTyped

LEMMA DisturbTyped ==
    ASSUME TypeOK, NEW b \in BranchSet, NEW who \in Runners \union {NoRef}, Disturb(b, who)
    PROVE  /\ pusher' \in [BranchSet -> Runners \union {NoRef}]
           /\ offer' \in [BranchSet -> 0 .. Len(Templates)]
BY TemplatesTyped DEF TypeOK, Disturb, TemplatesTyped

LEMMA BeginTyped ==
    ASSUME TypeOK, NEW r \in Runners, NEW v \in 1 .. Len(Templates), NEW l \in Lists,
           NEW p \in BOOLEAN, Begin(r, v, l, p), queue' \subseteq queue
    PROVE  TypeOK'
<1>1. Len(l) \in Nat \ {0}
  BY ListsTyped
<1>2. withPr' \in [Runners -> BOOLEAN]
  BY Zenon DEF Begin, TypeOK
<1>3. i' \in [Runners -> Nat \ {0}] /\ \A q \in Runners : i'[q] <= Len(list'[q])
  BY <1>1 DEF Begin, TypeOK
<1>4. FlowOK'
  BY <1>2, <1>3 DEF Begin, TypeOK, FlowOK, Steps
<1>5. RunOK'
  BY TemplatesTyped DEF Begin, TypeOK, RunOK, TemplatesTyped
<1>6. GithubOK'
  BY DEF Begin, TypeOK, GithubOK, github, history
<1>7. QED
  BY <1>4, <1>5, <1>6, TypePartsNext

\* A step of a run that keeps its templates and list, and forgets nothing.
LEMMA RunOKKept ==
    ASSUME TypeOK, NEW r \in Runners, pc[r] # "idle", Alone(r), UNCHANGED <<ver, list>>,
           seen' \in [Runners -> SUBSET BranchSet]
    PROVE  RunOK'
BY DEF TypeOK, RunOK, Alone

LEMMA SeenTyped ==
    ASSUME TypeOK, NEW r \in Runners, seen' = [seen EXCEPT ![r] = @ \union {Branch(r)}]
    PROVE  seen' \in [Runners -> SUBSET BranchSet]
BY BranchTyped DEF TypeOK

\* The type invariant is kept by every step.
LEMMA TypeStep == ASSUME TypeOK, Next PROVE TypeOK'
<1>0. GithubOK /\ FlowOK /\ RunOK /\ MaxEdits \in Nat /\ Len(Templates) \in Nat
  BY TypeParts, BoundsTyped, TemplatesTyped DEF BoundsTyped, TemplatesTyped
<1>1. CASE MergeToMain
  <2>1. GithubOK'
    BY <1>0, <1>1 DEF MergeToMain, GithubOK, github, history
  <2>2. FlowOK' /\ RunOK'
    BY <1>0, <1>1 DEF MergeToMain, FlowOK, RunOK, run
  <2>3. QED
    BY <2>1, <2>2, TypePartsNext
<1>2. ASSUME NEW r \in Runners, StartRun(r)
      PROVE  TypeOK'
  <2>1. PICK v \in queue : queue' = queue \ {v} /\ Begin(r, v, Branches, TRUE)
    BY <1>2 DEF StartRun
  <2>2. v \in 1 .. Len(Templates) /\ Branches \in Lists
    <3>1. v \in 1 .. main /\ main \in 0 .. Len(Templates)
      BY <1>0 DEF GithubOK
    <3>2. v \in 1 .. Len(Templates)
      BY <1>0, <3>1
    <3>3. QED
      BY <3>2 DEF Lists
  <2>3. QED
    BY <2>1, <2>2, BeginTyped
<1>3. ASSUME NEW r \in Runners, NEW l \in Lists, NEW p \in BOOLEAN, Dispatch(r, l, p)
      PROVE  TypeOK'
  <2>1. main \in 1 .. Len(Templates) /\ Begin(r, main, l, p) /\ queue' = queue
    BY <1>0, <1>3 DEF Dispatch, GithubOK
  <2>2. QED
    BY <2>1, BeginTyped
<1>4. ASSUME NEW r \in Runners, NEW v \in 1 .. Len(Templates), NEW l \in Lists, NEW p \in BOOLEAN,
             DispatchOther(r, v, l, p)
      PROVE  TypeOK'
  BY <1>4, BeginTyped DEF DispatchOther
<1>5. ASSUME NEW r \in Runners, NEW v \in 1 .. Len(Templates), PullRequestRun(r, v)
      PROVE  TypeOK'
  <2>1. Branches \in Lists /\ FALSE \in BOOLEAN
    BY DEF Lists
  <2>2. QED
    BY <1>5, <2>1, BeginTyped DEF PullRequestRun
<1>6. ASSUME NEW r \in Runners, Fetch(r)
      PROVE  TypeOK'
  <2>1. tree' \in [Runners -> Texts]
    BY <1>6, BranchTyped DEF Fetch, TypeOK
  <2>2. FlowOK' /\ Alone(r)
    BY <1>6, <2>1, ContinueTyped DEF Fetch, Steps
  <2>3. RunOK'
    BY <1>6, <2>2, RunOKKept DEF Fetch, TypeOK
  <2>4. GithubOK'
    BY <1>0, <1>6 DEF Fetch, GithubOK, github, history
  <2>5. QED
    BY <2>2, <2>3, <2>4, TypePartsNext
<1>7. ASSUME NEW r \in Runners, Commit(r)
      PROVE  TypeOK'
  <2>1. GithubOK' /\ pc[r] # "idle" /\ UNCHANGED <<ver, list>>
    BY <1>0, <1>7 DEF Commit, GithubOK, github, history
  <2>2. CASE Rendered(r) # tree[r]
    <3>1. pc' = [pc EXCEPT ![r] = "push"] /\ UNCHANGED <<withPr, i, tree, exit, seen>>
      BY <1>7, <2>2 DEF Commit
    <3>2. FlowOK' /\ Alone(r)
      BY <1>0, <2>1, <3>1, ContinueTyped DEF FlowOK, Steps
    <3>3. RunOK'
      BY <1>0, <2>1, <3>1, <3>2, RunOKKept DEF RunOK
    <3>4. QED
      BY <2>1, <3>2, <3>3, TypePartsNext
  <2>3. CASE Rendered(r) = tree[r]
    <3>1. seen' = [seen EXCEPT ![r] = @ \union {Branch(r)}] /\ Advance(r, FALSE)
      BY <1>7, <2>3 DEF Commit
    <3>2. FlowOK' /\ Alone(r)
      BY <2>1, <3>1, AdvanceTyped
    <3>3. RunOK'
      BY <1>0, <2>1, <3>1, <3>2, RunOKKept, SeenTyped DEF RunOK
    <3>4. QED
      BY <2>1, <3>2, <3>3, TypePartsNext
  <2>4. QED
    BY <2>2, <2>3
<1>8. ASSUME NEW r \in Runners, Push(r)
      PROVE  TypeOK'
  <2>0. Branch(r) \in BranchSet /\ pc[r] # "idle"
    BY <1>8, BranchTyped DEF Push
  <2>1. [from |-> tree[r], to |-> Rendered(r)] \in [from : Texts, to : Texts]
    BY <2>0, RenderedTyped DEF TypeOK
  <2>2. [from |-> tree[r], to |-> Rendered(r)] # NoRef
    BY <2>1, NoRefIsNoRef, TextsAreNumbers DEF NoRefIsNoRef
  <2>3. /\ head' \in [BranchSet -> [from : Texts, to : Texts] \union {NoRef}]
        /\ \A b \in BranchSet : pull'[b] # "none" => head'[b] # NoRef
    BY <1>8, <2>0, <2>1, <2>2 DEF Push, TypeOK
  <2>4. /\ pusher' \in [BranchSet -> Runners \union {NoRef}]
        /\ offer' \in [BranchSet -> 0 .. Len(Templates)]
    BY <1>8, <2>0, DisturbTyped DEF Push
  <2>5. GithubOK'
    BY <1>0, <1>8, <2>3, <2>4 DEF Push, GithubOK
  <2>6. FlowOK' /\ Alone(r)
    <3>1. CASE withPr[r]
      <4>1. /\ pc' = [pc EXCEPT ![r] = "branch"] /\ tree' = [tree EXCEPT ![r] = Before]
            /\ UNCHANGED <<withPr, i, exit, list>>
        BY <1>8, <3>1 DEF Push
      <4>2. tree' \in [Runners -> Texts]
        BY <4>1 DEF TypeOK, Texts
      <4>3. QED
        BY <4>1, <4>2, ContinueTyped DEF Steps
    <3>2. CASE ~withPr[r]
      BY <1>8, <3>2, AdvanceTyped DEF Push
    <3>3. QED
      BY <3>1, <3>2
  <2>7. RunOK'
    BY <1>0, <1>8, <2>0, <2>6, RunOKKept, SeenTyped DEF Push, RunOK
  <2>8. QED
    BY <2>5, <2>6, <2>7, TypePartsNext
<1>9. ASSUME NEW r \in Runners, ProcessFails(r) \/ Crash(r)
      PROVE  TypeOK'
  <2>1. Abort(r) /\ Fail /\ pc[r] # "idle" /\ UNCHANGED <<main, queue, github, history, edits, list>>
    BY <1>9 DEF ProcessFails, Crash
  <2>2. GithubOK'
    BY <1>0, <2>1, FailTyped DEF GithubOK, github, history
  <2>3. FlowOK' /\ RunOK'
    <3>1. /\ FlowOK' /\ Alone(r) /\ pc'[r] = "idle"
          /\ ver' \in [Runners -> 0 .. Len(Templates)]
          /\ \A q \in Runners : q # r => ver'[q] = ver[q]
          /\ seen' \in [Runners -> SUBSET BranchSet]
      BY <2>1, AbortTyped
    <3>2. QED
      BY <1>0, <2>1, <3>1 DEF RunOK, Alone
  <2>4. QED
    BY <2>2, <2>3, TypePartsNext
<1>10. ASSUME NEW r \in Runners,
              GetBranch(r) \/ Create(r) \/ ListPR(r) \/ EditPR(r) \/ CreateFails(r)
       PROVE  TypeOK'
  <2>0. Branch(r) \in BranchSet
    BY BranchTyped
  <2>1. /\ pc[r] # "idle"
        /\ UNCHANGED <<main, queue, base, head, history, edits, ver, list, seen>>
    BY <1>10 DEF GetBranch, Create, ListPR, EditPR, CreateFails, github
  <2>2. /\ pull' \in [BranchSet -> {"none", "open", "auto"}]
        /\ \A b \in BranchSet : pull'[b] # "none" => head'[b] # NoRef
    <3>1. CASE Create(r)
      BY <2>0, <3>1 DEF Create, TypeOK
    <3>2. CASE GetBranch(r) \/ ListPR(r) \/ EditPR(r) \/ CreateFails(r)
      <4>1. pull' = pull
        BY <3>2 DEF GetBranch, ListPR, EditPR, CreateFails, github
      <4>2. QED
        BY <2>1, <4>1 DEF TypeOK
    <3>3. QED
      BY <1>10, <3>1, <3>2
  <2>3. failures' \in 0 .. MaxFailures
    BY <1>0, <1>10, FailTyped DEF GetBranch, Create, ListPR, EditPR, CreateFails, GithubOK
  <2>4. GithubOK'
    BY <1>0, <2>1, <2>2, <2>3 DEF GithubOK, history
  <2>5. NoPR(r) \/ \E step \in {"create", "list", "edit", "auto"} : Continue(r, step)
    BY <1>10 DEF GetBranch, Create, ListPR, EditPR, CreateFails
  <2>6. FlowOK' /\ Alone(r)
    <3>1. CASE NoPR(r)
      BY <2>1, <3>1, NoPRTyped
    <3>2. ASSUME NEW step \in {"create", "list", "edit", "auto"}, Continue(r, step)
          PROVE  FlowOK' /\ Alone(r)
      BY <1>0, <2>1, <3>2, ContinueTyped DEF Continue, Steps, FlowOK, RunOK
    <3>3. QED
      BY <2>5, <3>1, <3>2
  <2>7. RunOK'
    BY <1>0, <2>1, <2>6, RunOKKept DEF RunOK
  <2>8. QED
    BY <2>4, <2>6, <2>7, TypePartsNext
<1>11. ASSUME NEW r \in Runners, EnableAutoMerge(r)
       PROVE  TypeOK'
  <2>0. Branch(r) \in BranchSet
    BY BranchTyped
  <2>1. /\ pc[r] # "idle" /\ Advance(r, FALSE)
        /\ UNCHANGED <<main, queue, base, head, edits, ver, list, seen>>
    BY <1>11 DEF EnableAutoMerge
  <2>2. /\ pull' \in [BranchSet -> {"none", "open", "auto"}]
        /\ \A b \in BranchSet : pull'[b] # "none" => head'[b] # NoRef
    BY <1>11, <2>0 DEF EnableAutoMerge, TypeOK
  <2>3. failures' \in 0 .. MaxFailures
    BY <1>0, <1>11, FailTyped DEF EnableAutoMerge, GithubOK
  <2>4. /\ pusher' \in [BranchSet -> Runners \union {NoRef}]
        /\ offer' \in [BranchSet -> 0 .. Len(Templates)]
    BY <1>0, <1>11, <2>0 DEF EnableAutoMerge, Report, GithubOK, RunOK, history
  <2>5. GithubOK'
    BY <1>0, <2>1, <2>2, <2>3, <2>4 DEF GithubOK
  <2>6. FlowOK' /\ Alone(r)
    BY <2>1, AdvanceTyped
  <2>7. RunOK'
    BY <1>0, <2>1, <2>6, RunOKKept DEF RunOK
  <2>8. QED
    BY <2>5, <2>6, <2>7, TypePartsNext
<1>12. ASSUME NEW b \in BranchSet, Merge(b) \/ Edit(b) \/ Close(b)
       PROVE  TypeOK'
  <2>1. FlowOK' /\ RunOK'
    BY <1>0, <1>12 DEF Merge, Edit, Close, Intervene, FlowOK, RunOK, run
  <2>2. GithubOK'
    <3>1. CASE Merge(b)
      <4>1. head[b].to \in Texts
        BY <1>0, <3>1 DEF Merge, GithubOK
      <4>2. QED
        BY <1>0, <3>1, <4>1 DEF Merge, GithubOK, history
    <3>2. CASE Edit(b) \/ Close(b)
      <4>1. Disturb(b, NoRef) /\ UNCHANGED <<main, queue, head, failures>>
        BY <3>2 DEF Edit, Close, Intervene
      <4>2. /\ pusher' \in [BranchSet -> Runners \union {NoRef}]
            /\ offer' \in [BranchSet -> 0 .. Len(Templates)]
        BY <4>1, DisturbTyped
      <4>3. edits' \in 0 .. MaxEdits
        BY <1>0, <3>2 DEF Edit, Close, Intervene, GithubOK
      <4>4. /\ base' \in [BranchSet -> Texts] /\ pull' \in [BranchSet -> {"none", "open", "auto"}]
            /\ \A c \in BranchSet : pull'[c] # "none" => head'[c] # NoRef
        <5>1. Edited \in Texts
          BY DEF Texts
        <5>2. CASE Edit(b)
          BY <1>0, <4>1, <5>1, <5>2 DEF Edit, GithubOK
        <5>3. CASE Close(b)
          BY <1>0, <4>1, <5>3 DEF Close, GithubOK
        <5>4. QED
          BY <3>2, <5>2, <5>3
      <4>5. QED
        BY <1>0, <4>1, <4>2, <4>3, <4>4 DEF GithubOK
    <3>3. QED
      BY <1>12, <3>1, <3>2
  <2>3. QED
    BY <2>1, <2>2, TypePartsNext
<1>13. QED
  BY <1>1, <1>2, <1>3, <1>4, <1>5, <1>6, <1>7, <1>8, <1>9, <1>10, <1>11, <1>12 DEF Next, Step

-----------------------------------------------------------------------------
(* The progress of the runs *)

LEMMA ProgressStep ==
    ASSUME IndInv, TypeOK', Next
    PROVE  Progress' /\ OkMeansProcessed'
<1>0. TypeOK /\ Progress /\ OkMeansProcessed
  BY DEF IndInv
<1>1. CASE \/ MergeToMain
           \/ \E b \in BranchSet : Merge(b) \/ Edit(b) \/ Close(b)
  <2>1. UNCHANGED run
    BY <1>1 DEF MergeToMain, Merge, Edit, Close, Intervene
  <2>2. QED
    BY <1>0, <2>1 DEF Progress, OkMeansProcessed, Branch, run
<1>2. ASSUME NEW r \in Runners, NEW v, NEW l, NEW p, Begin(r, v, l, p)
      PROVE  Progress' /\ OkMeansProcessed'
  <2>1. OthersUnchanged(r)
    BY <1>0, <1>2 DEF Begin, OthersUnchanged, TypeOK
  <2>2. pc'[r] = "fetch" /\ exit'[r] = "none" /\ i'[r] = 1
    BY <1>0, <1>2 DEF Begin, TypeOK
  <2>3. \A n \in 1 .. Len(list'[r]) : ~(n < i'[r])
    BY <2>2
  <2>4. QED
    BY <2>1, <2>2, <2>3, OthersKeepProgress
<1>3. ASSUME NEW r \in Runners,
             \/ StartRun(r)
             \/ \E l \in Lists, p \in BOOLEAN :
                   Dispatch(r, l, p) \/ \E v \in 1 .. Len(Templates) : DispatchOther(r, v, l, p)
             \/ \E v \in 1 .. Len(Templates) : PullRequestRun(r, v)
      PROVE  Progress' /\ OkMeansProcessed'
  <2>1. \E v, l, p : Begin(r, v, l, p)
    BY <1>3, Zenon DEF StartRun, Dispatch, DispatchOther, PullRequestRun
  <2>2. QED
    BY <1>2, <2>1
<1>4. ASSUME NEW r \in Runners, ProcessFails(r) \/ Crash(r)
      PROVE  Progress' /\ OkMeansProcessed'
  <2>1. Abort(r) /\ UNCHANGED list
    BY <1>4 DEF ProcessFails, Crash
  <2>2. OthersUnchanged(r) /\ pc'[r] = "idle" /\ exit'[r] = "failed"
    BY <1>0, <2>1, AbortTyped DEF OthersUnchanged, Alone
  <2>3. QED
    BY <2>2, OthersKeepProgress
<1>5. ASSUME NEW r \in Runners, NEW step, pc[r] # "idle",
             pc' = [pc EXCEPT ![r] = step], UNCHANGED <<ver, list, i, exit>>,
             \A q \in Runners : seen[q] \subseteq seen'[q] /\ (q # r => seen'[q] = seen[q]),
             step \in {"branch", "create", "list", "edit", "auto"} => Branch(r) \in seen'[r]
      PROVE  Progress' /\ OkMeansProcessed'
  <2>1. OthersUnchanged(r)
    BY <1>0, <1>5 DEF OthersUnchanged, TypeOK
  <2>2. pc'[r] = step
    BY <1>0, <1>5 DEF TypeOK
  <2>3. exit'[r] = "none" /\ \A n \in 1 .. Len(list'[r]) : n < i'[r] => list'[r][n] \in seen'[r]
    BY <1>0, <1>5 DEF Progress
  <2>4. Branch(r)' = Branch(r)
    BY <1>5 DEF Branch
  <2>5. QED
    BY <1>5, <2>1, <2>2, <2>3, <2>4, OthersKeepProgress
<1>6. ASSUME NEW r \in Runners, Fetch(r)
      PROVE  Progress' /\ OkMeansProcessed'
  BY <1>6, <1>5 DEF Fetch
<1>7. ASSUME NEW r \in Runners, UNCHANGED <<ver, list>>, pc[r] # "idle",
             seen' = [seen EXCEPT ![r] = @ \union {Branch(r)}]
      PROVE  /\ Branch(r) \in seen'[r]
             /\ seen' \in [Runners -> SUBSET BranchSet]
             /\ \A q \in Runners : seen[q] \subseteq seen'[q] /\ (q # r => seen'[q] = seen[q])
  BY <1>0, <1>7 DEF TypeOK
<1>8. ASSUME NEW r \in Runners, Commit(r)
      PROVE  Progress' /\ OkMeansProcessed'
  <2>1. CASE Rendered(r) # tree[r]
    <3>1. /\ pc[r] # "idle" /\ pc' = [pc EXCEPT ![r] = "push"]
          /\ UNCHANGED <<ver, list, i, exit, seen>>
      BY <1>8, <2>1 DEF Commit
    <3>2. QED
      BY <3>1, <1>5
  <2>2. CASE Rendered(r) = tree[r]
    <3>1. /\ pc[r] # "idle" /\ Advance(r, FALSE) /\ UNCHANGED <<ver, list>>
          /\ seen' = [seen EXCEPT ![r] = @ \union {Branch(r)}]
      BY <1>8, <2>2 DEF Commit
    <3>2. QED
      BY <3>1, <1>7, AdvanceProgress
  <2>3. QED
    BY <2>1, <2>2
<1>9. ASSUME NEW r \in Runners, Push(r)
      PROVE  Progress' /\ OkMeansProcessed'
  <2>1. /\ pc[r] # "idle" /\ UNCHANGED <<ver, list>>
        /\ seen' = [seen EXCEPT ![r] = @ \union {Branch(r)}]
    BY <1>9 DEF Push
  <2>2. CASE withPr[r]
    <3>1. pc' = [pc EXCEPT ![r] = "branch"] /\ UNCHANGED <<i, exit>>
      BY <1>9, <2>2 DEF Push
    <3>2. QED
      BY <2>1, <3>1, <1>5, <1>7
  <2>3. CASE ~withPr[r]
    <3>1. Advance(r, FALSE)
      BY <1>9, <2>3 DEF Push
    <3>2. QED
      BY <2>1, <3>1, <1>7, AdvanceProgress
  <2>4. QED
    BY <2>2, <2>3
<1>10. ASSUME NEW r \in Runners,
              GetBranch(r) \/ Create(r) \/ ListPR(r) \/ EditPR(r) \/ EnableAutoMerge(r)
              \/ CreateFails(r)
       PROVE  Progress' /\ OkMeansProcessed'
  <2>1. /\ pc[r] \in {"branch", "create", "list", "edit", "auto"}
        /\ UNCHANGED <<ver, list, seen>>
    BY <1>10 DEF GetBranch, Create, ListPR, EditPR, EnableAutoMerge, CreateFails
  <2>2. Branch(r) \in seen'[r] /\ seen' \in [Runners -> SUBSET BranchSet]
    BY <1>0, <2>1 DEF Progress, TypeOK
  <2>3. \/ Advance(r, TRUE) \/ Advance(r, FALSE)
        \/ \E step \in {"create", "list", "edit", "auto"} : Continue(r, step)
    BY <1>10 DEF GetBranch, Create, ListPR, EditPR, EnableAutoMerge, CreateFails, NoPR
  <2>4. CASE Advance(r, TRUE) \/ Advance(r, FALSE)
    BY <2>1, <2>2, <2>4, AdvanceProgress
  <2>5. CASE \E step \in {"create", "list", "edit", "auto"} : Continue(r, step)
    <3>1. PICK step \in {"create", "list", "edit", "auto"} : Continue(r, step)
      BY <2>5
    <3>2. QED
      BY <2>1, <2>2, <3>1, <1>5 DEF Continue
  <2>6. QED
    BY <2>3, <2>4, <2>5
<1>11. QED
  BY <1>1, <1>3, <1>4, <1>6, <1>8, <1>9, <1>10 DEF Next, Step

-----------------------------------------------------------------------------
(* What is pushed and reported holds *)

Creating == {"branch", "create", "list", "edit", "auto"}

\* The run at r, and what was reported of b.
Held(r) ==
    pc[r] \in Creating /\ pusher[Branch(r)] = r =>
        /\ Pushed(Branch(r), Rendered(r))
        /\ pc[r] \in {"edit", "auto"} => Requested(Branch(r), Rendered(r))
Kept(b) ==
    offer[b] # 0 => Pushed(b, Templates[offer[b]][b]) /\ Requested(b, Templates[offer[b]][b])

LEMMA PushInvParts ==
    /\ PushInv <=> (\A r \in Runners : Held(r)) /\ (\A b \in BranchSet : Kept(b))
    /\ PushInv' <=> (\A r \in Runners : Held(r)') /\ (\A b \in BranchSet : Kept(b)')
BY DEF PushInv, Held, Kept, Creating

\* Nothing on GitHub changes but that requests may be opened.
Quiet ==
    /\ UNCHANGED <<base, head, history>>
    /\ \A b \in BranchSet : pull[b] # "none" => pull'[b] # "none"

\* A run that is within CreatePR has been there before, with the same branch, and takes
\* the last two steps only with a request.
Within(r) ==
    pc'[r] \in Creating =>
        /\ pc[r] \in Creating
        /\ ver'[r] = ver[r] /\ list'[r] = list[r] /\ i'[r] = i[r]
        /\ pc'[r] \in {"edit", "auto"} =>
               pc[r] \in {"edit", "auto"} \/ pull'[Branch(r)] # "none"

LEMMA QuietStep ==
    ASSUME TypeOK, PushInv, Quiet, \A r \in Runners : Within(r)
    PROVE  PushInv'
<1>1. ASSUME NEW b \in BranchSet PROVE Kept(b)'
  BY <1>1, PushInvParts DEF Quiet, Kept, Pushed, Requested, history
<1>2. ASSUME NEW r \in Runners PROVE Held(r)'
  <2>1. SUFFICES ASSUME pc'[r] \in Creating, pusher'[Branch(r)'] = r
                 PROVE  /\ Pushed(Branch(r), Rendered(r))'
                        /\ pc'[r] \in {"edit", "auto"} => Requested(Branch(r), Rendered(r))'
    BY DEF Held
  <2>2. Within(r) /\ Branch(r)' = Branch(r) /\ Rendered(r)' = Rendered(r) /\ pc[r] \in Creating
    BY <2>1 DEF Within, Branch, Rendered
  <2>3. Held(r) /\ Branch(r) \in BranchSet /\ pusher[Branch(r)] = r
    BY <2>1, <2>2, PushInvParts, BranchTyped DEF Quiet, history
  <2>4. Pushed(Branch(r), Rendered(r))'
    BY <2>2, <2>3 DEF Quiet, Held, Pushed
  <2>5. ASSUME pc'[r] \in {"edit", "auto"} PROVE Requested(Branch(r), Rendered(r))'
    BY <2>1, <2>2, <2>3, <2>5 DEF Quiet, Held, Within, Requested
  <2>6. QED
    BY <2>4, <2>5
<1>3. QED
  BY <1>1, <1>2, PushInvParts

\* A run that is not touched stays as it is.
LEMMA WithinSame ==
    ASSUME NEW r \in Runners, UNCHANGED <<pc, ver, list, i>>
    PROVE  Within(r)
BY DEF Within

\* Somebody is at branch c, and the others are as they were.
LEMMA DisturbStep ==
    ASSUME TypeOK, PushInv, NEW c \in BranchSet, NEW who \in Runners \union {NoRef}, Disturb(c, who),
           \A b \in BranchSet : b # c => base'[b] = base[b] /\ head'[b] = head[b] /\ pull'[b] = pull[b],
           \A q \in Runners : q # who =>
               pc'[q] = pc[q] /\ ver'[q] = ver[q] /\ list'[q] = list[q] /\ i'[q] = i[q],
           who \in Runners => Held(who)'
    PROVE  PushInv'
<1>0. /\ \A b \in BranchSet : b # c => pusher'[b] = pusher[b] /\ offer'[b] = offer[b]
      /\ pusher'[c] = who /\ offer'[c] = 0
  BY DEF Disturb, TypeOK
<1>1. ASSUME NEW b \in BranchSet PROVE Kept(b)'
  BY <1>0, <1>1, PushInvParts DEF Kept, Pushed, Requested
<1>2. ASSUME NEW q \in Runners PROVE Held(q)'
  <2>1. CASE q = who
    BY <2>1
  <2>2. CASE q # who
    <3>1. Branch(q)' = Branch(q) /\ Rendered(q)' = Rendered(q) /\ pc'[q] = pc[q]
      BY <2>2 DEF Branch, Rendered
    <3>2. Branch(q) \in BranchSet /\ Held(q)
      BY PushInvParts, BranchTyped
    <3>3. CASE Branch(q) = c
      BY <1>0, <2>2, <3>1, <3>3 DEF Held
    <3>4. CASE Branch(q) # c
      BY <1>0, <3>1, <3>2, <3>4 DEF Held, Pushed, Requested
    <3>5. QED
      BY <3>3, <3>4
  <2>3. QED
    BY <2>1, <2>2
<1>3. QED
  BY <1>1, <1>2, PushInvParts

LEMMA PushStep ==
    ASSUME TypeOK, TypeOK', PushInv, Next
    PROVE  PushInv'
<1>1. CASE MergeToMain
  <2>1. Quiet /\ UNCHANGED <<pc, ver, list, i>>
    BY <1>1 DEF MergeToMain, Quiet, github, run
  <2>2. QED
    BY <2>1, QuietStep, WithinSame
<1>2. ASSUME NEW r \in Runners, NEW v, NEW l, NEW p, Begin(r, v, l, p)
      PROVE  PushInv'
  <2>1. Quiet
    BY <1>2 DEF Begin, Quiet, github
  <2>2. ASSUME NEW q \in Runners PROVE Within(q)
    BY <1>2, <2>2 DEF Begin, Within, TypeOK, Creating
  <2>3. QED
    BY <2>1, <2>2, QuietStep
<1>3. ASSUME NEW r \in Runners,
             \/ StartRun(r)
             \/ \E l \in Lists, p \in BOOLEAN :
                   Dispatch(r, l, p) \/ \E v \in 1 .. Len(Templates) : DispatchOther(r, v, l, p)
             \/ \E v \in 1 .. Len(Templates) : PullRequestRun(r, v)
      PROVE  PushInv'
  <2>1. \E v, l, p : Begin(r, v, l, p)
    BY <1>3, Zenon DEF StartRun, Dispatch, DispatchOther, PullRequestRun
  <2>2. QED
    BY <1>2, <2>1
<1>4. ASSUME NEW r \in Runners, Alone(r), UNCHANGED list, \A q \in Runners : q # r => ver'[q] = ver[q]
      PROVE  \A q \in Runners : q # r => Within(q)
  BY <1>4 DEF Alone, Within
<1>5. ASSUME NEW r \in Runners, Fetch(r) \/ Commit(r) \/ ProcessFails(r) \/ Crash(r)
      PROVE  PushInv'
  <2>1. Quiet
    BY <1>5 DEF Fetch, Commit, ProcessFails, Crash, Quiet, github
  <2>2. /\ pc'[r] \notin Creating /\ Alone(r) /\ UNCHANGED list
        /\ \A q \in Runners : q # r => ver'[q] = ver[q]
    <3>1. CASE Fetch(r) \/ (Commit(r) /\ Rendered(r) # tree[r])
      <4>1. pc' = [pc EXCEPT ![r] = "commit"] \/ pc' = [pc EXCEPT ![r] = "push"]
        BY <3>1 DEF Fetch, Commit
      <4>2. UNCHANGED <<i, exit, list, ver>>
        BY <3>1 DEF Fetch, Commit
      <4>3. pc'[r] \in {"commit", "push"} /\ \A q \in Runners : q # r => pc'[q] = pc[q]
        BY <4>1 DEF TypeOK
      <4>4. QED
        BY <4>2, <4>3 DEF Alone, Creating
    <3>2. CASE Commit(r) /\ Rendered(r) = tree[r]
      BY <3>2, AdvanceTyped DEF Commit, Creating
    <3>3. CASE ProcessFails(r) \/ Crash(r)
      BY <3>3, AbortTyped DEF ProcessFails, Crash, Creating
    <3>4. QED
      BY <1>5, <3>1, <3>2, <3>3
  <2>3. Within(r)
    BY <2>2 DEF Within
  <2>4. QED
    BY <1>4, <2>1, <2>2, <2>3, QuietStep
<1>6. ASSUME NEW r \in Runners, Push(r)
      PROVE  PushInv'
  <2>0. Branch(r) \in BranchSet /\ pc[r] = "push" /\ UNCHANGED <<base, pull, ver, list>>
    BY <1>6, BranchTyped DEF Push
  <2>1. head' = [head EXCEPT ![Branch(r)] = [from |-> tree[r], to |-> Rendered(r)]]
    BY <1>6 DEF Push
  <2>2. [from |-> tree[r], to |-> Rendered(r)] # NoRef
    <3>1. [from |-> tree[r], to |-> Rendered(r)] \in [from : Texts, to : Texts]
      BY <2>0, RenderedTyped DEF TypeOK
    <3>2. QED
      BY <3>1, NoRefIsNoRef, TextsAreNumbers DEF NoRefIsNoRef
  <2>3. /\ head'[Branch(r)] # NoRef /\ head'[Branch(r)].to = Rendered(r)
        /\ \A b \in BranchSet : b # Branch(r) => head'[b] = head[b]
    BY <2>0, <2>1, <2>2 DEF TypeOK
  <2>4. CASE withPr[r]
    <3>1. /\ pc' = [pc EXCEPT ![r] = "branch"] /\ UNCHANGED i /\ Disturb(Branch(r), r)
      BY <1>6, <2>4 DEF Push
    <3>2. pc'[r] = "branch" /\ \A q \in Runners : q # r => pc'[q] = pc[q]
      BY <3>1 DEF TypeOK
    <3>3. Branch(r)' = Branch(r) /\ Rendered(r)' = Rendered(r)
      BY <2>0, <3>1 DEF Branch, Rendered
    <3>4. Held(r)'
      BY <2>3, <3>2, <3>3 DEF Held, Pushed
    <3>5. QED
      BY <2>0, <2>3, <3>1, <3>2, <3>4, DisturbStep
  <2>5. CASE ~withPr[r]
    <3>1. Advance(r, FALSE) /\ Disturb(Branch(r), NoRef)
      BY <1>6, <2>5 DEF Push
    <3>2. pc'[r] \in {"idle", "fetch"} /\ Alone(r)
      BY <2>0, <3>1, AdvanceTyped
    <3>3. ASSUME NEW b \in BranchSet PROVE Kept(b)'
      <4>1. /\ b # Branch(r) => offer'[b] = offer[b] /\ head'[b] = head[b]
            /\ b = Branch(r) => offer'[b] = 0
        BY <2>0, <2>3, <3>1 DEF Disturb, TypeOK
      <4>2. QED
        BY <2>0, <3>3, <4>1, PushInvParts DEF Kept, Pushed, Requested
    <3>4. ASSUME NEW q \in Runners PROVE Held(q)'
      <4>1. CASE q = r
        BY <3>2, <4>1 DEF Held, Creating
      <4>2. CASE q # r
        <5>1. Branch(q)' = Branch(q) /\ Rendered(q)' = Rendered(q) /\ pc'[q] = pc[q]
          BY <2>0, <3>2, <4>2 DEF Branch, Rendered, Alone
        <5>2. Branch(q) \in BranchSet /\ Held(q) /\ q # NoRef
          BY PushInvParts, BranchTyped, NoRefIsNoRef DEF NoRefIsNoRef
        <5>3. CASE Branch(q) = Branch(r)
          BY <2>0, <3>1, <5>1, <5>2, <5>3 DEF Held, Disturb, TypeOK
        <5>4. CASE Branch(q) # Branch(r)
          <6>1. pusher'[Branch(q)] = pusher[Branch(q)] /\ head'[Branch(q)] = head[Branch(q)]
            BY <2>0, <2>3, <3>1, <5>2, <5>4 DEF Disturb, TypeOK
          <6>2. QED
            BY <2>0, <5>1, <5>2, <6>1 DEF Held, Pushed, Requested
        <5>5. QED
          BY <5>3, <5>4
      <4>3. QED
        BY <4>1, <4>2
    <3>5. QED
      BY <3>3, <3>4, PushInvParts
  <2>6. QED
    BY <2>4, <2>5
<1>7. ASSUME NEW r \in Runners,
             GetBranch(r) \/ Create(r) \/ ListPR(r) \/ EditPR(r) \/ CreateFails(r)
      PROVE  PushInv'
  <2>0. Branch(r) \in BranchSet
    BY BranchTyped
  <2>1. pc[r] \in Creating /\ UNCHANGED <<base, head, history, ver, list>>
    BY <1>7 DEF GetBranch, Create, ListPR, EditPR, CreateFails, github, Creating
  <2>2. Quiet
    <3>1. CASE Create(r)
      BY <2>0, <2>1, <3>1 DEF Create, Quiet, TypeOK
    <3>2. CASE GetBranch(r) \/ ListPR(r) \/ EditPR(r) \/ CreateFails(r)
      BY <2>1, <3>2 DEF GetBranch, ListPR, EditPR, CreateFails, Quiet, github
    <3>3. QED
      BY <1>7, <3>1, <3>2
  <2>3. ASSUME NoPR(r) PROVE Within(r) /\ Alone(r)
    BY <2>1, <2>3, NoPRTyped DEF Within, Creating
  <2>4. ASSUME NEW step \in {"create", "list", "edit", "auto"}, Continue(r, step),
               step \in {"edit", "auto"} => pc[r] = "edit" \/ pull'[Branch(r)] # "none"
        PROVE  Within(r) /\ Alone(r)
    <3>1. pc'[r] = step /\ Alone(r) /\ UNCHANGED i
      BY <2>4 DEF Continue, Alone, TypeOK
    <3>2. QED
      BY <2>1, <2>4, <3>1 DEF Within
  <2>5. Within(r) /\ Alone(r)
    <3>1. CASE GetBranch(r) \/ CreateFails(r)
      BY <2>3, <2>4, <3>1 DEF GetBranch, CreateFails
    <3>2. CASE Create(r)
      <4>1. CASE NoPR(r)
        BY <2>3, <4>1
      <4>2. CASE Continue(r, "list")
        BY <2>4, <4>2
      <4>3. CASE pull' = [pull EXCEPT ![Branch(r)] = "open"] /\ Continue(r, "auto")
        BY <2>0, <2>4, <4>3 DEF TypeOK
      <4>4. QED
        BY <3>2, <4>1, <4>2, <4>3 DEF Create
    <3>3. CASE ListPR(r)
      BY <2>3, <2>4, <3>3 DEF ListPR, github
    <3>4. CASE EditPR(r)
      BY <2>3, <2>4, <3>4 DEF EditPR
    <3>5. QED
      BY <1>7, <3>1, <3>2, <3>3, <3>4
  <2>6. QED
    BY <1>4, <2>1, <2>2, <2>5, QuietStep
<1>8. ASSUME NEW r \in Runners, EnableAutoMerge(r)
      PROVE  PushInv'
  <2>0. Branch(r) \in BranchSet /\ Held(r) /\ pc[r] = "auto"
    BY <1>8, BranchTyped, PushInvParts DEF EnableAutoMerge
  <2>1. /\ Advance(r, FALSE) /\ Report(r) /\ UNCHANGED <<base, head, ver, list>>
        /\ \A b \in BranchSet : pull[b] # "none" => pull'[b] # "none"
    BY <1>8, <2>0 DEF EnableAutoMerge, TypeOK
  <2>2. pc'[r] \in {"idle", "fetch"} /\ Alone(r)
    BY <2>1, AdvanceTyped
  <2>3. ASSUME NEW b \in BranchSet PROVE Kept(b)'
    <3>1. CASE offer'[b] = offer[b]
      BY <2>1, <2>3, <3>1, PushInvParts DEF Kept, Pushed, Requested
    <3>2. CASE offer'[b] # offer[b]
      <4>1. pusher[Branch(r)] = r /\ b = Branch(r) /\ offer'[b] = ver[r]
        BY <2>0, <2>1, <2>3, <3>2 DEF Report, history, TypeOK
      <4>2. Templates[offer'[b]][b] = Rendered(r)
        BY <4>1 DEF Rendered
      <4>3. Pushed(b, Rendered(r)) /\ Requested(b, Rendered(r))
        BY <2>0, <4>1 DEF Held, Creating
      <4>4. QED
        BY <2>1, <2>3, <4>2, <4>3 DEF Kept, Pushed, Requested
    <3>3. QED
      BY <3>1, <3>2
  <2>4. ASSUME NEW q \in Runners PROVE Held(q)'
    <3>1. CASE q = r
      BY <2>2, <3>1 DEF Held, Creating
    <3>2. CASE q # r
      <4>1. Branch(q)' = Branch(q) /\ Rendered(q)' = Rendered(q) /\ pc'[q] = pc[q]
        BY <2>1, <2>2, <3>2 DEF Branch, Rendered, Alone
      <4>2. Branch(q) \in BranchSet /\ Held(q) /\ q # NoRef
        BY PushInvParts, BranchTyped, NoRefIsNoRef DEF NoRefIsNoRef
      <4>3. pusher'[Branch(q)] = q => pusher[Branch(q)] = q
        <5>1. pusher' = pusher \/ pusher' = [pusher EXCEPT ![Branch(r)] = NoRef]
          BY <2>1 DEF Report, history
        <5>2. \A b \in BranchSet : pusher'[b] \in {pusher[b], NoRef}
          BY <2>0, <5>1 DEF TypeOK
        <5>3. QED
          BY <4>2, <5>2
      <4>4. QED
        BY <2>1, <4>1, <4>2, <4>3 DEF Held, Pushed, Requested
    <3>3. QED
      BY <3>1, <3>2
  <2>5. QED
    BY <2>3, <2>4, PushInvParts
<1>9. ASSUME NEW c \in BranchSet, Merge(c)
      PROVE  PushInv'
  <2>1. /\ pull[c] # "none" /\ head[c] # NoRef /\ base' = [base EXCEPT ![c] = head[c].to]
        /\ pull' = [pull EXCEPT ![c] = "none"] /\ head' \in {head, [head EXCEPT ![c] = NoRef]}
        /\ UNCHANGED <<history, pc, ver, list, i>>
    BY <1>9 DEF Merge, TypeOK, run
  <2>2. /\ base'[c] = head[c].to
        /\ \A b \in BranchSet : b # c => base'[b] = base[b] /\ head'[b] = head[b] /\ pull'[b] = pull[b]
        /\ head'[c] \in {head[c], NoRef}
    BY <2>1 DEF TypeOK
  <2>3. ASSUME NEW b \in BranchSet, NEW text, Pushed(b, text)
        PROVE  Pushed(b, text)' /\ (Requested(b, text) => Requested(b, text)')
    <3>1. CASE b = c
      BY <2>1, <2>2, <2>3, <3>1 DEF Pushed, Requested
    <3>2. CASE b # c
      BY <2>2, <2>3, <3>2 DEF Pushed, Requested
    <3>3. QED
      BY <3>1, <3>2
  <2>4. ASSUME NEW b \in BranchSet PROVE Kept(b)'
    <3>1. Kept(b) /\ offer' = offer
      BY <2>1, <2>4, PushInvParts DEF history
    <3>2. QED
      BY <2>3, <2>4, <3>1 DEF Kept
  <2>5. ASSUME NEW r \in Runners PROVE Held(r)'
    <3>1. Branch(r)' = Branch(r) /\ Rendered(r)' = Rendered(r) /\ UNCHANGED <<pc, pusher>>
      BY <2>1 DEF Branch, Rendered, history
    <3>2. Branch(r) \in BranchSet /\ Held(r)
      BY PushInvParts, BranchTyped
    <3>3. QED
      BY <2>3, <3>1, <3>2 DEF Held
  <2>6. QED
    BY <2>4, <2>5, PushInvParts
<1>10. ASSUME NEW c \in BranchSet, Edit(c) \/ Close(c)
       PROVE  PushInv'
  <2>1. Disturb(c, NoRef) /\ UNCHANGED <<head, pc, ver, list, i>>
    BY <1>10 DEF Edit, Close, Intervene, run
  <2>2. \A b \in BranchSet : b # c => base'[b] = base[b] /\ pull'[b] = pull[b]
    BY <1>10 DEF Edit, Close, TypeOK
  <2>3. NoRef \in Runners \union {NoRef} /\ NoRef \notin Runners
    BY NoRefIsNoRef DEF NoRefIsNoRef
  <2>4. QED
    BY <2>1, <2>2, <2>3, DisturbStep
<1>11. QED
  BY <1>1, <1>3, <1>5, <1>6, <1>7, <1>8, <1>9, <1>10 DEF Next, Step

-----------------------------------------------------------------------------
\* The inductive invariant holds in every reachable state of any number of
\* overlapping runs of `policy sync` (cmd/policy.go:159, policy.go:366).
THEOREM Invariance == Spec => []IndInv
<1>1. Init => IndInv
  BY IndInvInit
<1>2. IndInv /\ [Next]_vars => IndInv'
  <2> SUFFICES ASSUME IndInv, [Next]_vars PROVE IndInv'
    OBVIOUS
  <2>1. CASE Next
    <3>1. TypeOK'
      BY <2>1, TypeStep DEF IndInv
    <3>2. Progress' /\ OkMeansProcessed' /\ PushInv'
      BY <2>1, <3>1, ProgressStep, PushStep DEF IndInv
    <3>3. QED
      BY <3>1, <3>2 DEF IndInv
  <2>2. CASE UNCHANGED vars
    BY <2>2 DEF IndInv, TypeOK, Progress, OkMeansProcessed, PushInv, Pushed, Requested, Branch,
                Rendered, vars, github, history, run
  <2>3. QED
    BY <2>1, <2>2
<1>3. QED
  BY <1>1, <1>2, PTL DEF Spec

\* A run that reports success has processed every branch it was asked to, for any
\* branches, templates, runners and failures (cmd/policy.go:180).
THEOREM OkMeansProcessedAlways == Spec => []OkMeansProcessed
<1>1. IndInv => OkMeansProcessed
  BY DEF IndInv
<1>2. QED
  BY <1>1, Invariance, PTL

\* An open pull request always has its releng branch, although a merge may delete it and
\* overlapping runs force it (git.go:206), and every index stays within its list
\* (cmd/policy.go:159).
THEOREM TypeCorrect == Spec => []TypeOK
<1>1. IndInv => TypeOK
  BY DEF IndInv
<1>2. QED
  BY <1>1, Invariance, PTL

\* What a run has pushed and reported a pull request for is on the branch or on offer for
\* it until somebody is at the branch: whatever the number and order of the runs, the
\* templates they have, merged or not, and the failures (git.go:206, github.go:107).
THEOREM PushHoldsAlways == Spec => []PushHolds
<1>1. IndInv => PushHolds
  <2> SUFFICES ASSUME IndInv, NEW b \in BranchSet, offer[b] # 0
               PROVE  LET text == Templates[offer[b]][b]
                      IN  base[b] = text \/ (pull[b] # "none" /\ head[b].to = text)
    BY DEF PushHolds
  <2>1. Pushed(b, Templates[offer[b]][b]) /\ Requested(b, Templates[offer[b]][b])
    BY DEF IndInv, PushInv
  <2>2. pull[b] # "none" => head[b] # NoRef
    BY DEF IndInv, TypeOK
  <2>3. QED
    BY <2>1, <2>2 DEF Pushed, Requested
<1>2. QED
  BY <1>1, Invariance, PTL
=============================================================================
