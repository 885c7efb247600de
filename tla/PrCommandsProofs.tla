-------------------------- MODULE PrCommandsProofs --------------------------
(***************************************************************************)
(* For any repositories, branches and pull requests, and any number of     *)
(* failures and of changes by others: the `prs` commands change nobody     *)
(* else's requests, ask again for an accepted update only when the answer  *)
(* was lost, and forget no branch.                                         *)
(***************************************************************************)
EXTENDS PrCommands, SequenceTheorems, TLAPS

-----------------------------------------------------------------------------
(* What makes the two invariants inductive *)

\* No argument is given twice; an update is requested again for one that is.
ArgsDistinct == \A i, j \in 1 .. Len(Args) : Args[i] = Args[j] => i = j

\* The branches of the i-th argument.
ListOf(i) == IF only = AllBranches THEN BranchesOf[Args[i]] ELSE <<only>>

\* The loops are past the j-th branch of the i-th argument.
Passed(i, j) == i < ri \/ (i = ri /\ j < bi) \/ status = "ok"

\* The loops are past place p, once at least.
Behind(p) ==
    /\ p.repo \in DOMAIN BranchesOf
    /\ \E i \in 1 .. Len(Args) :
          /\ Args[i] = p.repo
          /\ \E j \in 1 .. Len(ListOf(i)) : ListOf(i)[j] = p.base /\ Passed(i, j)

PlaceOf(n) == [repo |-> prs[n].repo, base |-> prs[n].base]

\* Request n is one that getPR may find at place p.
Ours(n, p) == PlaceOf(n) = p /\ prs[n].head = Prefixed[p.base]

\* The request in hand is for the place the loops are at, and the only open one
\* there when it is about to be closed.
InHand ==
    /\ pc \in {"edit", "auto", "close", "update"} => num \in 1 .. Len(prs) /\ Ours(num, Place)
    /\ pc = "close" => \A n \in 1 .. Len(prs) : prs[n].open /\ Ours(n, Place) => n = num

\* The place the loops are at, and every one before it, was processed.
Visited ==
    /\ pc = "repo" => bi = 1
    /\ pc \notin {"repo", "branch", "over"} => Place \in tried
    /\ \A p \in Places : Behind(p) => p \in tried

\* Only createprs takes the steps of CreatePR.
CreateSeparate == pc \in {"getbranch", "create", "edit", "auto", "review"} => cmd = "create"

\* deleteprs leaves nothing open behind the loops but what it reported.
ClosedBehind ==
    cmd = "delete" =>
        \A n \in atStart :
            prs[n].open /\ Ours(n, PlaceOf(n)) /\ Behind(PlaceOf(n)) => PlaceOf(n) \in reported

\* One accepted update at most was answered, and a request that has had one is behind
\* the loops, or it is in hand: no answer to it was seen and the attempts are counted.
Few(n) == unseen[n] <= accepted[n] /\ accepted[n] <= 1 + unseen[n] /\ accepted[n] <= 4
AcceptedBehind ==
    /\ \A n \in 1 .. Len(accepted) :
          /\ Few(n)
          /\ accepted[n] # 0 /\ status = "running" =>
                 Behind(PlaceOf(n)) \/ (pc = "update" /\ num = n)
    /\ pc = "update" => accepted[num] = unseen[num] /\ accepted[num] + attempts <= 3

IndInv ==
    /\ TypeOK /\ OneOpen(prs) /\ InHand /\ Visited /\ CreateSeparate
    /\ ClosedBehind /\ OthersUntouched
    /\ (ArgsDistinct => AcceptedBehind)

-----------------------------------------------------------------------------
\* A known repository has branches, each of them once, and --branch is one.
LEMMA ListTyped ==
    ASSUME TypeOK, Known
    PROVE  /\ Len(List) \in Nat \ {0}
           /\ \A j \in 1 .. Len(List) : List[j] \in Branches
           /\ \A j, k \in 1 .. Len(List) : List[j] = List[k] => j = k
<1>1. CASE only = AllBranches
  BY <1>1, BranchLists DEF BranchLists, List, Known
<1>2. CASE only # AllBranches
  <2>1. List = <<only>> /\ only \in Branches
    BY <1>2 DEF List, TypeOK
  <2>2. Len(List) = 1 /\ List[1] = only
    BY <2>1
  <2>3. QED
    BY <2>1, <2>2
<1>3. QED
  BY <1>1, <1>2

\* The place the loops are at.
LEMMA PlaceTyped ==
    ASSUME TypeOK, pc \notin {"repo", "over"}
    PROVE  /\ Known /\ ri \in 1 .. Len(Args) /\ bi \in 1 .. Len(List)
           /\ Base \in Branches /\ Repo \in Repos
           /\ Place \in Places /\ Place.repo = Repo /\ Place.base = Base
           /\ Prefixed[Base] \in Heads
           /\ status = "running"
<1>1. Known /\ ri \in 1 .. Len(Args) /\ bi \in Nat \ {0} /\ bi <= Len(List) /\ status = "running"
  BY DEF TypeOK
<1>2. bi \in 1 .. Len(List) /\ Base \in Branches
  BY <1>1, ListTyped DEF Base
<1>3. QED
  BY <1>1, <1>2 DEF Known, Repos, Repo, Place, Places, Heads

\* The two loops, as far as types go.
LoopOK ==
    /\ pc \in {"repo", "branch", "getbranch", "create", "list", "edit", "auto", "review",
               "close", "update", "over"}
    /\ ri \in 1 .. Len(Args) /\ bi \in Nat \ {0}
    /\ pc \notin {"repo", "over"} => Known /\ bi <= Len(List)
    /\ status \in {"running", "ok", "error", "panic"}
    /\ (pc = "over") = (status # "running")

\* NextRepo leaves the loops in order.
LEMMA NextRepoTyped ==
    ASSUME TypeOK, status = "running", NextRepo
    PROVE  LoopOK' /\ pc' \in {"repo", "over"} /\ (pc' = "repo" => bi' = 1)
<1>0. Len(Args) \in Nat \ {0} /\ ri \in 1 .. Len(Args) /\ bi \in Nat \ {0}
  BY PrConstants DEF PrConstants, TypeOK
<1>1. CASE ri < Len(Args) /\ pc' = "repo" /\ ri' = ri + 1 /\ bi' = 1 /\ UNCHANGED status
  BY <1>0, <1>1 DEF LoopOK
<1>2. CASE ri = Len(Args) /\ End("ok")
  BY <1>0, <1>2 DEF LoopOK, End
<1>3. QED
  BY <1>1, <1>2 DEF NextRepo

\* So does NextBranch.
LEMMA NextBranchTyped ==
    ASSUME TypeOK, pc \notin {"repo", "over"}, NextBranch, UNCHANGED only
    PROVE  LoopOK' /\ pc' \in {"repo", "branch", "over"} /\ (pc' = "repo" => bi' = 1)
<1>0. Known /\ ri \in 1 .. Len(Args) /\ bi \in Nat \ {0} /\ status = "running"
  BY DEF TypeOK
<1>1. CASE bi < Len(List) /\ pc' = "branch" /\ bi' = bi + 1 /\ UNCHANGED <<ri, status>>
  <2>1. Known' /\ List' = List
    BY <1>0, <1>1 DEF Known, List, Repo
  <2>2. bi + 1 <= Len(List)
    BY <1>0, <1>1, ListTyped
  <2>3. QED
    BY <1>0, <1>1, <2>1, <2>2 DEF LoopOK
<1>2. CASE bi = Len(List) /\ NextRepo
  BY <1>0, <1>2, NextRepoTyped
<1>3. QED
  BY <1>1, <1>2 DEF NextBranch

\* The command stops, or stays where it is.
LEMMA EndTyped ==
    ASSUME TypeOK, NEW how \in {"ok", "error", "panic"}, End(how)
    PROVE  LoopOK' /\ pc' = "over"
BY DEF TypeOK, LoopOK, End

LEMMA StayTyped ==
    ASSUME TypeOK, pc \notin {"repo", "over"}, UNCHANGED <<ri, bi, status, only>>,
           pc' \in {"branch", "getbranch", "create", "list", "edit", "auto", "review", "close",
                    "update"}
    PROVE  LoopOK'
<1>1. Known /\ Known' = Known /\ List' = List
  BY DEF TypeOK, Known, List, Repo
<1>2. QED
  BY <1>1 DEF TypeOK, LoopOK

-----------------------------------------------------------------------------
\* The list of the i-th argument when that is known.
LEMMA ListOfTyped ==
    ASSUME TypeOK, NEW i \in 1 .. Len(Args), Args[i] \in DOMAIN BranchesOf
    PROVE  Len(ListOf(i)) \in Nat
BY BranchLists DEF BranchLists, ListOf, TypeOK

\* A step of the loops over the branches puts the current place behind them, and
\* no other.
LEMMA NextBranchBehind ==
    ASSUME TypeOK, pc \notin {"repo", "over"}, NextBranch, UNCHANGED only, NEW p \in Places
    PROVE  Behind(p)' <=> (Behind(p) \/ p = Place)
<1>0. /\ Known /\ ri \in 1 .. Len(Args) /\ bi \in 1 .. Len(List) /\ status = "running"
      /\ Len(List) \in Nat /\ Len(Args) \in Nat
  BY PlaceTyped, ListTyped, PrConstants DEF PrConstants
<1>1. List = ListOf(ri) /\ \A i : ListOf(i)' = ListOf(i)
  BY DEF List, ListOf, Repo
<1>2. ASSUME NEW i \in 1 .. Len(Args), Args[i] \in DOMAIN BranchesOf,
             NEW j \in 1 .. Len(ListOf(i))
      PROVE  Passed(i, j)' <=> (Passed(i, j) \/ (i = ri /\ j = bi))
  <2>0. Len(ListOf(i)) \in Nat
    BY <1>2, ListOfTyped
  <2>1. CASE bi < Len(List) /\ bi' = bi + 1 /\ UNCHANGED <<ri, status>>
    BY <1>0, <2>0, <2>1 DEF Passed
  <2>2. CASE bi = Len(List) /\ ri < Len(Args) /\ ri' = ri + 1 /\ bi' = 1 /\ UNCHANGED status
    <3>1. i = ri => j <= bi
      BY <1>0, <1>1, <2>0, <2>2
    <3>2. QED
      BY <1>0, <2>0, <2>2, <3>1 DEF Passed
  <2>3. CASE bi = Len(List) /\ ri = Len(Args) /\ status' = "ok"
    <3>1. i = ri => j <= bi
      BY <1>0, <1>1, <2>0, <2>3
    <3>2. QED
      BY <1>0, <2>0, <2>3, <3>1 DEF Passed
  <2>4. QED
    BY <2>1, <2>2, <2>3 DEF NextBranch, NextRepo, End
<1>3. ASSUME Behind(p) PROVE Behind(p)'
  BY <1>1, <1>2, <1>3 DEF Behind
<1>4. ASSUME p = Place PROVE Behind(p)'
  <2>1. PICK i \in 1 .. Len(Args) : i = ri
    BY <1>0
  <2>2. PICK j \in 1 .. Len(ListOf(i)) : j = bi
    BY <1>0, <1>1, <2>1
  <2>3. p.repo = Args[i] /\ p.base = ListOf(i)[j] /\ p.repo \in DOMAIN BranchesOf
    BY <1>0, <1>1, <1>4, <2>1, <2>2 DEF Place, Repo, Base, Known
  <2>4. Passed(i, j)'
    BY <1>2, <2>1, <2>2, <2>3
  <2>5. QED
    BY <1>1, <2>3, <2>4 DEF Behind
<1>5. ASSUME Behind(p)' PROVE Behind(p) \/ p = Place
  <2>1. PICK i \in 1 .. Len(Args) :
            /\ Args[i] = p.repo /\ p.repo \in DOMAIN BranchesOf
            /\ \E j \in 1 .. Len(ListOf(i)) : ListOf(i)[j] = p.base /\ Passed(i, j)'
    BY <1>1, <1>5 DEF Behind
  <2>2. PICK j \in 1 .. Len(ListOf(i)) : ListOf(i)[j] = p.base /\ Passed(i, j)'
    BY <2>1
  <2>3. CASE Passed(i, j)
    BY <2>1, <2>2, <2>3 DEF Behind
  <2>4. CASE i = ri /\ j = bi
    BY <1>1, <2>1, <2>2, <2>4 DEF Place, Places, Repo, Base
  <2>5. QED
    BY <1>2, <2>1, <2>2, <2>3, <2>4
<1>6. QED
  BY <1>3, <1>4, <1>5

\* A step over an unknown repository puts nothing behind the loops.
LEMMA NextRepoBehind ==
    ASSUME TypeOK, status = "running", ~Known, NextRepo, UNCHANGED only, NEW p
    PROVE  Behind(p)' <=> Behind(p)
<1>0. ri \in 1 .. Len(Args) /\ Len(Args) \in Nat
  BY PrConstants DEF PrConstants, TypeOK
<1>1. \A i : ListOf(i)' = ListOf(i)
  BY DEF ListOf
<1>2. ASSUME NEW i \in 1 .. Len(Args), Args[i] \in DOMAIN BranchesOf,
             NEW j \in 1 .. Len(ListOf(i))
      PROVE  Passed(i, j)' <=> Passed(i, j)
  <2>1. i # ri /\ Len(ListOf(i)) \in Nat
    BY <1>2, ListOfTyped DEF Known, Repo
  <2>2. CASE ri < Len(Args) /\ ri' = ri + 1 /\ bi' = 1 /\ UNCHANGED status
    BY <1>0, <2>1, <2>2 DEF Passed
  <2>3. CASE ri = Len(Args) /\ status' = "ok"
    BY <1>0, <2>1, <2>3 DEF Passed
  <2>4. QED
    BY <2>2, <2>3 DEF NextRepo, End
<1>3. QED
  BY <1>1, <1>2 DEF Behind

\* The other steps leave the loops where they are.
LEMMA StayBehind ==
    ASSUME UNCHANGED <<ri, bi, only>>, (status' = "ok") <=> (status = "ok"), NEW p
    PROVE  Behind(p)' <=> Behind(p)
BY DEF Behind, ListOf, Passed

-----------------------------------------------------------------------------
\* Which steps change what.
LEMMA FrameStep ==
    ASSUME Next
    PROVE  /\ UNCHANGED <<cmd, only, atStart>>
           /\ \/ UNCHANGED prs
              \/ Created \/ EnableAutoMerge \/ Closed \/ \E n \in 1 .. Len(prs) : CloseOrMerge(n)
           /\ \/ UNCHANGED head
              \/ \E n \in 1 .. Len(prs) : CloseOrMerge(n)
              \/ \E p \in Places : SyncPush(p)
           /\ UNCHANGED num \/ CreateNew \/ ListPR
           /\ UNCHANGED attempts \/ ListPR \/ (pc = "update" /\ Again)
           /\ UNCHANGED tried \/ BeginBranch
           /\ UNCHANGED reported \/ (pc \in {"list", "update"} /\ Report)
           /\ UNCHANGED touched \/ Created \/ EditPR \/ Closed \/ UpdateBranch \/ UpdateUnanswered
           /\ UNCHANGED updates \/ Created \/ UpdateBranch \/ UpdateUnanswered
           /\ (UNCHANGED failures \/ Fail) /\ (UNCHANGED events \/ Event)
<1> USE DEF Next, Step, CreateSteps, Trouble, BeginRepo, BeginBranch, FindHead, CreateNew,
            CreateExists, NothingToMerge, EditPR, EnableAutoMerge, RequestReviewers, ListPR,
            NoPRs, ClosePR, UpdateBranch, UpdateRefused, CreateFails, AutoMergeFails, ListFails,
            CloseFails, CloseOrMerge, SyncPush, github, history, CreateUnanswered,
            CloseUnanswered, UpdateUnanswered
<1>1. UNCHANGED <<cmd, only, atStart>>
  BY DEF Created, Closed
<1>2. \/ UNCHANGED prs
      \/ Created \/ EnableAutoMerge \/ Closed \/ \E n \in 1 .. Len(prs) : CloseOrMerge(n)
  OBVIOUS
<1>3. \/ UNCHANGED head
      \/ \E n \in 1 .. Len(prs) : CloseOrMerge(n)
      \/ \E p \in Places : SyncPush(p)
  BY DEF Created, Closed
<1>4. UNCHANGED num \/ CreateNew \/ ListPR
  BY DEF Closed
<1>5. UNCHANGED attempts \/ ListPR \/ (pc = "update" /\ Again)
  BY DEF Created, Closed
<1>6. UNCHANGED tried \/ BeginBranch
  BY DEF Created, Closed
<1>7. UNCHANGED reported \/ (pc \in {"list", "update"} /\ Report)
  BY DEF Again, Created, Closed
<1>8. UNCHANGED touched \/ Created \/ EditPR \/ Closed \/ UpdateBranch \/ UpdateUnanswered
  OBVIOUS
<1>9. UNCHANGED updates \/ Created \/ UpdateBranch \/ UpdateUnanswered
  BY DEF updates, Closed
<1>10. (UNCHANGED failures \/ Fail) /\ (UNCHANGED events \/ Event)
  BY DEF Fail, Event
<1>11. QED
  BY <1>1, <1>2, <1>3, <1>4, <1>5, <1>6, <1>7, <1>8, <1>9, <1>10

\* How the steps move the loops.
Stays ==
    /\ UNCHANGED <<ri, bi>> /\ (status' = "ok" <=> status = "ok")
    /\ pc' \notin {"repo", "branch", "over"} => pc \notin {"repo", "branch", "over"} \/ BeginBranch

LEMMA LoopStep ==
    ASSUME TypeOK, pc = "repo" => bi = 1, Next
    PROVE  /\ LoopOK' /\ (pc' = "repo" => bi' = 1)
           /\ \/ pc \notin {"repo", "branch", "over"} /\ NextBranch /\ pc' \in {"repo", "branch", "over"}
              \/ ~Known /\ status = "running" /\ NextRepo /\ pc' \in {"repo", "over"}
              \/ Stays
<1>0. UNCHANGED only
  BY FrameStep
<1> DEFINE Moved == pc \notin {"repo", "branch", "over"} /\ NextBranch
           Skipped == ~Known /\ status = "running" /\ NextRepo
           Ended == \E how \in {"error", "panic"} : End(how) /\ pc # "over"
           Stayed == /\ pc \notin {"repo", "over"} /\ UNCHANGED <<ri, bi, status>>
                     /\ pc' \in {"getbranch", "create", "list", "edit", "auto", "review", "close", "update"}
                     /\ (pc = "branch" => BeginBranch)
           Begun == pc = "repo" /\ Known /\ pc' = "branch" /\ UNCHANGED <<ri, bi, status>>
<1>1. Moved \/ Skipped \/ Ended \/ Stayed \/ Begun \/ UNCHANGED progress
  <2>1. CASE BeginRepo
    BY <2>1 DEF BeginRepo, TypeOK
  <2>2. CASE BeginBranch
    BY <2>2 DEF BeginBranch
  <2>3. CASE CreateSteps
    BY <2>3 DEF CreateSteps, FindHead, CreateNew, Created, CreateExists, NothingToMerge, EditPR,
                EnableAutoMerge, RequestReviewers
  <2>4. CASE ListPR \/ NoPRs
    BY <2>4 DEF ListPR, NoPRs, Report
  <2>5. CASE ClosePR \/ UpdateBranch \/ UpdateRefused
    BY <2>5 DEF ClosePR, Closed, UpdateBranch, UpdateRefused, Again, Report
  <2>6. CASE Trouble
    BY <2>6 DEF Trouble, CreateFails, CreateUnanswered, Created, AutoMergeFails, ListFails,
                CloseFails, CloseUnanswered, Closed, UpdateUnanswered, Again, Report
  <2>7. CASE (\E n \in 1 .. Len(prs) : CloseOrMerge(n)) \/ (\E p \in Places : SyncPush(p))
    BY <2>7 DEF CloseOrMerge, SyncPush
  <2>8. QED
    BY <2>1, <2>2, <2>3, <2>4, <2>5, <2>6, <2>7 DEF Next, Step
<1>2. CASE Moved
  BY <1>0, <1>2, NextBranchTyped
<1>3. CASE Skipped
  BY <1>3, NextRepoTyped
<1>4. CASE Ended
  <2>1. LoopOK' /\ pc' = "over"
    BY <1>4, EndTyped
  <2>2. Stays
    BY <1>4 DEF End, Stays, TypeOK
  <2>3. QED
    BY <2>1, <2>2
<1>5. CASE Stayed
  BY <1>0, <1>5, StayTyped DEF Stays
<1>6. CASE Begun
  <2>1. Known' /\ List' = List /\ bi = 1 /\ 1 <= Len(List)
    BY <1>0, <1>6, ListTyped DEF Known, List, Repo
  <2>2. QED
    BY <1>6, <2>1 DEF LoopOK, TypeOK, Stays
<1>7. CASE UNCHANGED progress
  BY <1>0, <1>7 DEF progress, Stays, LoopOK, TypeOK, Known, List, Repo
<1>8. QED
  BY <1>1, <1>2, <1>3, <1>4, <1>5, <1>6, <1>7

-----------------------------------------------------------------------------
\* A request keeps its branches, and is not opened again.
Kept ==
    /\ Len(prs) <= Len(prs')
    /\ \A n \in 1 .. Len(prs) : SameBranches(prs'[n], prs[n]) /\ (prs'[n].open => prs[n].open)

\* A request that is changed in place.
LEMMA ReplaceStep ==
    ASSUME TypeOK, OneOpen(prs), NEW n \in 1 .. Len(prs), NEW q \in PullRequests,
           SameBranches(q, prs[n]), q.open => prs[n].open, prs' = [prs EXCEPT ![n] = q]
    PROVE  prs' \in Seq(PullRequests) /\ Len(prs') = Len(prs) /\ Kept /\ OneOpen(prs')
<1>0. prs \in Seq(PullRequests) /\ Len(prs) \in Nat
  BY LenProperties DEF TypeOK
<1>1. /\ prs' \in Seq(PullRequests) /\ Len(prs') = Len(prs)
      /\ \A j \in 1 .. Len(prs) : prs'[j] = IF j = n THEN q ELSE prs[j]
  BY <1>0, ExceptSeq
<1>2. Kept
  BY <1>0, <1>1 DEF Kept, SameBranches
<1>3. OneOpen(prs')
  BY <1>1, <1>2 DEF Kept, OneOpen, SameBranches
<1>4. QED
  BY <1>1, <1>2, <1>3

LEMMA PrsStep ==
    ASSUME TypeOK, InHand, OneOpen(prs), Next
    PROVE  /\ prs' \in Seq(PullRequests) /\ Kept /\ OneOpen(prs')
           /\ Len(prs') = Len(prs) \/ Created
<1>0. prs \in Seq(PullRequests) /\ Len(prs) \in Nat /\ AutoMerge \in BOOLEAN
  BY LenProperties, PrConstants DEF TypeOK, PrConstants
<1>e. \A n \in 1 .. Len(prs) : prs[n] \in PullRequests
  BY <1>0, ElementOfSeq
<1>1. CASE UNCHANGED prs
  BY <1>0, <1>1 DEF Kept, OneOpen, SameBranches
<1>2. CASE Created
  <2> DEFINE q == [repo |-> Repo, base |-> Base, head |-> Prefixed[Base], open |-> TRUE, auto |-> FALSE]
  <2>1. pc = "create" /\ getPR = {} /\ prs' = Append(prs, q)
    BY <1>2 DEF Created
  <2>2. q \in PullRequests
    BY <2>1, PlaceTyped DEF PullRequests
  <2>3. /\ prs' \in Seq(PullRequests) /\ Len(prs') = Len(prs) + 1
        /\ \A n \in 1 .. Len(prs) : prs'[n] = prs[n]
        /\ prs'[Len(prs) + 1] = q
    BY <1>0, <2>1, <2>2, AppendProperties
  <2>4. Kept
    BY <1>0, <2>3 DEF Kept, SameBranches
  <2>5. \A n \in 1 .. Len(prs) : ~(prs[n].open /\ SameBranches(prs[n], q))
    BY <2>1 DEF getPR, SameBranches
  <2>6. ASSUME NEW m \in 1 .. Len(prs'), NEW n \in 1 .. Len(prs'),
               prs'[m].open, prs'[n].open, SameBranches(prs'[m], prs'[n])
        PROVE  m = n
    <3>1. CASE m \in 1 .. Len(prs) /\ n \in 1 .. Len(prs)
      BY <2>3, <2>6, <3>1 DEF OneOpen
    <3>2. CASE m = Len(prs) + 1 /\ n # m
      <4>1. n \in 1 .. Len(prs) /\ prs'[m] = q /\ prs'[n] = prs[n]
        BY <1>0, <2>3, <3>2
      <4>2. QED
        BY <2>5, <2>6, <4>1 DEF SameBranches
    <3>3. CASE n = Len(prs) + 1 /\ n # m
      <4>1. m \in 1 .. Len(prs) /\ prs'[n] = q /\ prs'[m] = prs[m]
        BY <1>0, <2>3, <3>3
      <4>2. QED
        BY <2>5, <2>6, <4>1 DEF SameBranches
    <3>4. QED
      BY <1>0, <2>3, <3>1, <3>2, <3>3
  <2>7. QED
    BY <1>2, <2>3, <2>4, <2>6 DEF OneOpen
<1>3. CASE EnableAutoMerge
  <2> DEFINE q == [prs[num] EXCEPT !.auto = @ \/ (AutoMerge /\ prs[num].open)]
  <2>1. num \in 1 .. Len(prs) /\ prs' = [prs EXCEPT ![num] = q]
    BY <1>3 DEF EnableAutoMerge, InHand
  <2>2. q \in PullRequests /\ SameBranches(q, prs[num]) /\ q.open = prs[num].open
    BY <1>e, <2>1 DEF PullRequests, SameBranches
  <2>3. QED
    BY <2>1, <2>2, ReplaceStep
<1>4. ASSUME NEW n \in 1 .. Len(prs), prs' = [prs EXCEPT ![n].open = FALSE]
      PROVE  prs' \in Seq(PullRequests) /\ Len(prs') = Len(prs) /\ Kept /\ OneOpen(prs')
  <2> DEFINE q == [prs[n] EXCEPT !.open = FALSE]
  <2>1. prs' = [prs EXCEPT ![n] = q]
    BY <1>4
  <2>2. q \in PullRequests /\ SameBranches(q, prs[n]) /\ ~q.open
    BY <1>e DEF PullRequests, SameBranches
  <2>3. QED
    BY <2>1, <2>2, ReplaceStep
<1>5. CASE Closed
  BY <1>4, <1>5 DEF Closed, InHand
<1>6. CASE \E n \in 1 .. Len(prs) : CloseOrMerge(n)
  BY <1>4, <1>6 DEF CloseOrMerge
<1>7. QED
  BY <1>1, <1>2, <1>3, <1>5, <1>6, FrameStep

\* What a step leaves of where a request belongs.
LEMMA PlacesKept ==
    ASSUME Kept, NEW n \in 1 .. Len(prs), NEW p
    PROVE  PlaceOf(n)' = PlaceOf(n) /\ (Ours(n, p)' <=> Ours(n, p))
BY DEF Kept, SameBranches, PlaceOf, Ours

-----------------------------------------------------------------------------
LEMMA TypeStep == ASSUME IndInv, Next PROVE TypeOK'
<1>0. TypeOK /\ InHand /\ Visited /\ OneOpen(prs)
  BY DEF IndInv
<1>a. /\ prs \in Seq(PullRequests) /\ Len(prs) \in Nat /\ MaxFailures \in Nat /\ MaxEvents \in Nat
      /\ accepted \in Seq(Nat) /\ Len(accepted) = Len(prs)
      /\ unseen \in Seq(Nat) /\ Len(unseen) = Len(prs)
  BY <1>0, LenProperties, PrConstants DEF TypeOK, PrConstants
<1>1. /\ prs' \in Seq(PullRequests) /\ Len(prs) <= Len(prs')
      /\ Len(prs') = Len(prs) \/ Created
  BY <1>0, PrsStep DEF Kept
<1>l. Len(prs') \in Nat
  BY <1>1, LenProperties
<1>2. LoopOK' /\ UNCHANGED <<only, atStart>>
  BY <1>0, LoopStep, FrameStep DEF Visited
<1>3. head' \in [Places -> {"none", "same", "ahead"}]
  BY <1>0, FrameStep DEF TypeOK, CloseOrMerge, SyncPush
<1>c. Created => Len(prs') = Len(prs) + 1 /\ touched' = touched \union {Len(prs')}
  BY <1>a, AppendProperties DEF Created
<1>h. pc \in {"edit", "close", "update"} => num \in 1 .. Len(prs)
  BY <1>0 DEF InHand
<1>4. num' \in 0 .. Len(prs')
  <2>1. ListPR => num' \in 1 .. Len(prs)
    BY DEF ListPR, getPR
  <2>2. num \in 0 .. Len(prs)
    BY <1>0 DEF TypeOK
  <2>3. CreateNew => num' = Len(prs')
    BY <1>a, <1>c DEF CreateNew
  <2>4. QED
    BY <1>a, <1>1, <1>l, <1>c, <2>1, <2>2, <2>3, FrameStep
<1>5. attempts' \in 0 .. 3
  <2>1. attempts \in 0 .. 3
    BY <1>0 DEF TypeOK
  <2>2. ListPR => attempts' \in {attempts, 3}
    BY DEF ListPR
  <2>3. Again => attempts' = attempts \/ (attempts > 0 /\ attempts' = attempts - 1)
    BY DEF Again
  <2>4. QED
    BY <2>1, <2>2, <2>3, FrameStep
<1>6. tried \subseteq tried' /\ tried' \subseteq Places
  <2>1. BeginBranch => Place \in Places /\ tried' = tried \union {Place}
    BY <1>0, PlaceTyped DEF BeginBranch
  <2>2. tried \subseteq Places
    BY <1>0 DEF TypeOK
  <2>3. QED
    BY <2>1, <2>2, FrameStep
<1>7. reported' \subseteq tried'
  <2>1. pc \in {"list", "update"} /\ Report => Place \in tried /\ reported' = reported \union {Place}
    BY <1>0 DEF Report, Visited
  <2>2. reported \subseteq tried
    BY <1>0 DEF TypeOK
  <2>3. QED
    BY <1>6, <2>1, <2>2, FrameStep
<1>8. touched' \subseteq 1 .. Len(prs')
  <2>1. touched \subseteq 1 .. Len(prs)
    BY <1>0 DEF TypeOK
  <2>3. EditPR \/ Closed \/ UpdateBranch \/ UpdateUnanswered =>
            num \in 1 .. Len(prs) /\ touched' = touched \union {num}
    BY <1>h DEF EditPR, Closed, UpdateBranch, UpdateUnanswered
  <2>4. touched' \subseteq touched \union 1 .. Len(prs) \union {Len(prs')}
    BY <1>c, <2>1, <2>3, FrameStep
  <2>5. 1 .. Len(prs) \subseteq 1 .. Len(prs')
    BY <1>a, <1>1, <1>l
  <2>6. Created => Len(prs') \in 1 .. Len(prs')
    BY <1>a, <1>c, <1>l
  <2>7. CASE Created
    BY <2>1, <2>4, <2>5, <2>6, <2>7
  <2>8. CASE ~Created
    BY <2>1, <2>3, <2>5, <2>8, FrameStep
  <2>9. QED
    BY <2>7, <2>8
<1>9. atStart' \subseteq 1 .. Len(prs')
  BY <1>0, <1>a, <1>1, <1>l, <1>2 DEF TypeOK
<1>10. /\ accepted' \in Seq(Nat) /\ Len(accepted') = Len(prs')
       /\ unseen' \in Seq(Nat) /\ Len(unseen') = Len(prs')
  <2>1. CASE Created
    <3>1. accepted' = Append(accepted, 0) /\ unseen' = Append(unseen, 0)
      BY <2>1 DEF Created
    <3>2. QED
      BY <1>a, <1>c, <2>1, <3>1, AppendProperties
  <2>2. ASSUME NEW s \in Seq(Nat), Len(s) = Len(prs), NEW t, t = [s EXCEPT ![num] = s[num] + 1],
               num \in 1 .. Len(prs)
        PROVE  t \in Seq(Nat) /\ Len(t) = Len(prs)
    <3>1. s[num] + 1 \in Nat
      BY <2>2, ElementOfSeq
    <3>2. QED
      BY <2>2, <3>1, ExceptSeq
  <2>3. CASE UpdateBranch \/ UpdateUnanswered
    <3>1. /\ num \in 1 .. Len(prs) /\ accepted' = [accepted EXCEPT ![num] = accepted[num] + 1]
          /\ UNCHANGED unseen \/ unseen' = [unseen EXCEPT ![num] = unseen[num] + 1]
          /\ ~Created
      BY <1>h, <2>3 DEF UpdateBranch, UpdateUnanswered, Created
    <3>2. QED
      BY <1>a, <1>1, <2>2, <3>1
  <2>4. CASE UNCHANGED updates /\ ~Created
    BY <1>a, <1>1, <2>4 DEF updates
  <2>5. QED
    BY <2>1, <2>3, <2>4, FrameStep
<1>11. failures' \in 0 .. MaxFailures /\ events' \in 0 .. MaxEvents
  <2>1. failures \in 0 .. MaxFailures /\ events \in 0 .. MaxEvents
    BY <1>0 DEF TypeOK
  <2>2. QED
    BY <1>a, <2>1, FrameStep DEF Fail, Event
<1>12. only' \in Branches \union {AllBranches}
  BY <1>0, <1>2 DEF TypeOK
<1>13. QED
  BY <1>1, <1>2, <1>3, <1>4, <1>5, <1>6, <1>7, <1>8, <1>9, <1>10, <1>11, <1>12 DEF TypeOK, LoopOK

-----------------------------------------------------------------------------
\* The place does not change while a request is in hand.
LEMMA PlaceStays ==
    ASSUME Stays, UNCHANGED only
    PROVE  Repo' = Repo /\ Base' = Base /\ Place' = Place
BY DEF Stays, Repo, Base, List, Place

\* Where a step that goes on with a request comes from.
LEMMA HandStep ==
    ASSUME TypeOK, pc = "repo" => bi = 1, Next, pc' \notin {"repo", "branch", "over"}
    PROVE  Place' = Place /\ (pc \notin {"repo", "branch", "over"} \/ BeginBranch)
<1>1. Stays /\ UNCHANGED only
  BY LoopStep, FrameStep
<1>2. QED
  BY <1>1, PlaceStays DEF Stays

LEMMA InHandStep == ASSUME IndInv, Next PROVE InHand'
<1>0. TypeOK /\ InHand /\ Visited /\ OneOpen(prs)
  BY DEF IndInv
<1>1. Kept /\ Len(prs) \in Nat /\ prs' \in Seq(PullRequests) /\ Len(prs') \in Nat
  BY <1>0, PrsStep, LenProperties DEF TypeOK
<1>2. SUFFICES ASSUME pc' \in {"edit", "auto", "close", "update"} PROVE InHand'
  BY DEF InHand
<1>3. Place' = Place
  BY <1>0, <1>2, HandStep DEF Visited
<1>4. CASE CreateNew
  <2> DEFINE q == [repo |-> Repo, base |-> Base, head |-> Prefixed[Base], open |-> TRUE, auto |-> FALSE]
  <2>1. pc' = "auto" /\ num' = Len(prs) + 1 /\ prs' = Append(prs, q)
    BY <1>4 DEF CreateNew, Created
  <2>2. num' \in 1 .. Len(prs') /\ prs'[num'] = q
    BY <1>0, <1>1, <2>1, AppendProperties DEF TypeOK
  <2>3. Ours(num, Place)'
    BY <1>3, <2>2 DEF Ours, PlaceOf, Place
  <2>4. QED
    BY <2>1, <2>2, <2>3 DEF InHand
<1>5. CASE ListPR
  <2>1. num' \in getPR /\ UNCHANGED prs
    BY <1>5 DEF ListPR, github
  <2>2. num' \in 1 .. Len(prs') /\ Ours(num, Place)' /\ prs'[num'].open
    BY <1>3, <2>1 DEF getPR, Ours, PlaceOf, Place
  <2>3. \A n \in 1 .. Len(prs') : prs'[n].open /\ Ours(n, Place)' => n = num'
    BY <1>0, <2>1, <2>2 DEF Ours, PlaceOf, OneOpen, SameBranches
  <2>4. QED
    BY <2>2, <2>3 DEF InHand
<1>6. CASE ~CreateNew /\ ~ListPR
  <2>0. ~Created
    BY <1>2, <1>6 DEF Next, Step, CreateSteps, Trouble, BeginRepo, BeginBranch, FindHead, Created,
       CreateExists, NothingToMerge, EditPR, EnableAutoMerge, RequestReviewers, NoPRs, ClosePR,
       Closed, UpdateBranch, UpdateRefused, CreateFails, CreateUnanswered, AutoMergeFails,
       ListFails, CloseFails, CloseUnanswered, UpdateUnanswered, CloseOrMerge, SyncPush, progress,
       End
  <2>1. num' = num /\ Len(prs') = Len(prs)
    BY <1>0, <1>6, <2>0, FrameStep, PrsStep
  <2>2. pc' = pc \/ (pc = "edit" /\ pc' = "auto")
    BY <1>2, <1>6 DEF Next, Step, CreateSteps, Trouble, BeginRepo, BeginBranch, FindHead,
       CreateExists, NothingToMerge, EditPR, EnableAutoMerge, RequestReviewers, NoPRs, ClosePR,
       UpdateBranch, UpdateRefused, Again, CreateFails, CreateUnanswered, AutoMergeFails,
       ListFails, CloseFails, CloseUnanswered, UpdateUnanswered, CloseOrMerge, SyncPush, progress,
       Report, NextBranch, NextRepo, End
  <2>3. num \in 1 .. Len(prs) /\ Ours(num, Place)
    BY <1>0, <1>2, <2>2 DEF InHand
  <2>4. num' \in 1 .. Len(prs') /\ Ours(num, Place)'
    BY <1>1, <1>3, <2>1, <2>3 DEF Kept, SameBranches, Ours, PlaceOf
  <2>5. pc' = "close" => \A n \in 1 .. Len(prs') : prs'[n].open /\ Ours(n, Place)' => n = num'
    <3>1. SUFFICES ASSUME pc' = "close", NEW n \in 1 .. Len(prs), prs'[n].open, Ours(n, Place)'
                   PROVE  n = num
      BY <2>1
    <3>2. prs[n].open /\ Ours(n, Place) /\ pc = "close"
      BY <1>1, <1>3, <2>2, <3>1 DEF Kept, SameBranches, Ours, PlaceOf
    <3>3. QED
      BY <1>0, <3>2 DEF InHand
  <2>6. QED
    BY <2>4, <2>5 DEF InHand
<1>7. QED
  BY <1>4, <1>5, <1>6

-----------------------------------------------------------------------------
LEMMA VisitedStep == ASSUME IndInv, Next PROVE Visited'
<1>0. TypeOK /\ Visited /\ (pc = "repo" => bi = 1) /\ UNCHANGED only
  BY FrameStep DEF IndInv, Visited
<1>1. tried \subseteq tried' /\ (BeginBranch => Place \in tried')
  BY FrameStep DEF BeginBranch
<1>2. pc' = "repo" => bi' = 1
  BY <1>0, LoopStep
<1>3. ASSUME pc' \notin {"repo", "branch", "over"} PROVE Place' \in tried'
  BY <1>0, <1>1, <1>3, HandStep DEF Visited
<1>4. ASSUME NEW p \in Places, Behind(p)' PROVE p \in tried'
  <2>1. CASE pc \notin {"repo", "branch", "over"} /\ NextBranch
    <3>1. Behind(p) \/ p = Place
      BY <1>0, <1>4, <2>1, NextBranchBehind
    <3>2. QED
      BY <1>0, <1>1, <2>1, <3>1 DEF Visited
  <2>2. CASE ~Known /\ status = "running" /\ NextRepo
    BY <1>0, <1>1, <1>4, <2>2, NextRepoBehind DEF Visited
  <2>3. CASE Stays
    BY <1>0, <1>1, <1>4, <2>3, StayBehind DEF Visited, Stays
  <2>4. QED
    BY <1>0, <2>1, <2>2, <2>3, LoopStep
<1>5. QED
  BY <1>2, <1>3, <1>4 DEF Visited

-----------------------------------------------------------------------------
LEMMA CreateSeparateStep == ASSUME IndInv, Next PROVE CreateSeparate'
<1> USE DEF CreateSeparate
<1>0. CreateSeparate
  BY DEF IndInv
<1>1. CASE BeginRepo \/ BeginBranch
  BY <1>0, <1>1 DEF BeginRepo, BeginBranch, NextRepo, End
<1>2. CASE CreateSteps
  BY <1>0, <1>2 DEF CreateSteps, FindHead, CreateNew, Created, CreateExists, NothingToMerge, EditPR,
     EnableAutoMerge, RequestReviewers, NextBranch, NextRepo, End
<1>3. CASE ListPR \/ NoPRs \/ ClosePR \/ UpdateBranch \/ UpdateRefused
  BY <1>0, <1>3 DEF ListPR, NoPRs, ClosePR, Closed, UpdateBranch, UpdateRefused, Again, Report,
     NextBranch, NextRepo, End, progress
<1>4. CASE Trouble
  BY <1>0, <1>4 DEF Trouble, CreateFails, CreateUnanswered, AutoMergeFails, ListFails, CloseFails,
     CloseUnanswered, UpdateUnanswered, Created, Closed, Again, Report, NextBranch, NextRepo, End,
     progress
<1>5. CASE (\E n \in 1 .. Len(prs) : CloseOrMerge(n)) \/ (\E p \in Places : SyncPush(p))
  BY <1>0, <1>5 DEF CloseOrMerge, SyncPush, progress
<1>6. QED
  BY <1>1, <1>2, <1>3, <1>4, <1>5 DEF Next, Step

\* How a command that deletes leaves a branch.
LEMMA DeleteMoves ==
    ASSUME IndInv, Next, cmd = "delete", pc \notin {"repo", "branch", "over"}, NextBranch
    PROVE  NoPRs \/ ClosePR \/ Report
<1>0. CreateSeparate
  BY DEF IndInv
<1>1. pc' \in {"repo", "branch"} \/ (pc' = "over" /\ status' = "ok")
  BY DEF NextBranch, NextRepo, End
<1>2. CASE CreateSteps \/ BeginRepo \/ BeginBranch
  BY <1>0, <1>1, <1>2 DEF CreateSeparate, CreateSteps, BeginRepo, BeginBranch, FindHead,
     CreateNew, CreateExists, NothingToMerge, EditPR, EnableAutoMerge, RequestReviewers
<1>3. CASE ListPR
  BY <1>1, <1>3 DEF ListPR
<1>4. CASE UpdateBranch \/ UpdateRefused
  BY <1>1, <1>4 DEF UpdateBranch, UpdateRefused, Again, progress
<1>5. CASE Trouble
  BY <1>0, <1>1, <1>5 DEF CreateSeparate, Trouble, CreateFails, CreateUnanswered, AutoMergeFails,
     ListFails, CloseFails, CloseUnanswered, UpdateUnanswered, Again, progress, End
<1>6. CASE (\E n \in 1 .. Len(prs) : CloseOrMerge(n)) \/ (\E p \in Places : SyncPush(p))
  BY <1>1, <1>6 DEF CloseOrMerge, SyncPush, progress
<1>7. QED
  BY <1>2, <1>3, <1>4, <1>5, <1>6 DEF Next, Step

LEMMA ClosedStep == ASSUME IndInv, Next PROVE ClosedBehind'
<1>0. TypeOK /\ InHand /\ Visited /\ ClosedBehind /\ OneOpen(prs)
  BY DEF IndInv
<1>1. Kept /\ UNCHANGED <<cmd, only, atStart>> /\ atStart \subseteq 1 .. Len(prs)
  BY <1>0, PrsStep, FrameStep DEF TypeOK
<1>2. SUFFICES ASSUME cmd = "delete", NEW n \in atStart, prs'[n].open,
                      Ours(n, PlaceOf(n))', Behind(PlaceOf(n))'
               PROVE  PlaceOf(n)' \in reported'
  BY <1>1 DEF ClosedBehind
<1>3. n \in 1 .. Len(prs) /\ prs[n] \in PullRequests
  BY <1>0, <1>1, ElementOfSeq DEF TypeOK
<1>4. PlaceOf(n)' = PlaceOf(n) /\ prs[n].open
  BY <1>1, <1>2, <1>3, PlacesKept DEF Kept
<1>5. PICK p \in Places : p = PlaceOf(n)
  BY <1>2, <1>3, <1>4 DEF PlaceOf, Places, PullRequests, Behind
<1>6. Ours(n, p) /\ Behind(p)'
  <2>1. Ours(n, p)'
    BY <1>2, <1>4, <1>5
  <2>2. Behind(p)'
    BY <1>2, <1>4, <1>5 DEF Behind
  <2>3. QED
    BY <1>1, <1>3, <2>1, <2>2, PlacesKept
<1>7. reported \subseteq reported'
  BY FrameStep DEF Report
<1>8. CASE Behind(p)
  BY <1>0, <1>2, <1>4, <1>5, <1>6, <1>7, <1>8 DEF ClosedBehind
<1>9. CASE ~Behind(p)
  <2>1. pc \notin {"repo", "branch", "over"} /\ NextBranch
    <3>1. CASE ~Known /\ status = "running" /\ NextRepo
      BY <1>0, <1>1, <1>6, <1>9, <3>1, NextRepoBehind
    <3>2. CASE Stays
      BY <1>1, <1>6, <1>9, <3>2, StayBehind DEF Stays
    <3>3. QED
      BY <1>0, <3>1, <3>2, LoopStep DEF Visited
  <2>2. p = Place
    BY <1>0, <1>1, <1>6, <1>9, <2>1, NextBranchBehind
  <2>3. CASE NoPRs
    <3>1. n \in getPR
      BY <1>3, <1>4, <1>6, <2>2 DEF getPR, Ours, PlaceOf, Place
    <3>2. QED
      BY <2>3, <3>1 DEF NoPRs
  <2>4. CASE ClosePR
    <3>1. n = num
      BY <1>0, <1>3, <1>4, <1>6, <2>2, <2>4 DEF ClosePR, Closed, InHand
    <3>2. prs' = [prs EXCEPT ![num].open = FALSE] /\ prs \in Seq(PullRequests)
      BY <1>0, <2>4 DEF ClosePR, Closed, TypeOK
    <3>3. prs'[num].open = FALSE
      BY <1>3, <3>1, <3>2 DEF PullRequests
    <3>4. QED
      BY <1>2, <3>1, <3>3
  <2>5. CASE Report
    BY <1>4, <1>5, <2>2, <2>5 DEF Report
  <2>6. QED
    BY <1>2, <2>1, <2>3, <2>4, <2>5, DeleteMoves
<1>10. QED
  BY <1>8, <1>9

-----------------------------------------------------------------------------
\* The command is about the place the loops are at.
LEMMA PlaceManaged ==
    ASSUME TypeOK, pc \notin {"repo", "over"}
    PROVE  /\ \E i \in 1 .. Len(Args) : Args[i] = Repo
           /\ \/ only = Base
              \/ /\ only = AllBranches /\ Repo \in DOMAIN BranchesOf
                 /\ \E i \in 1 .. Len(BranchesOf[Repo]) : BranchesOf[Repo][i] = Base
<1>1. Known /\ ri \in 1 .. Len(Args) /\ bi \in 1 .. Len(List)
  BY PlaceTyped
<1>2. CASE only = AllBranches
  BY <1>1, <1>2 DEF List, Known, Repo, Base
<1>3. CASE only # AllBranches
  <2>1. List = <<only>> /\ bi \in 1 .. 1
    BY <1>1, <1>3 DEF List
  <2>2. Base = only
    BY <2>1 DEF Base
  <2>3. QED
    BY <1>1, <2>2 DEF Repo
<1>4. QED
  BY <1>2, <1>3

LEMMA OthersStep == ASSUME IndInv, TypeOK', InHand', Next PROVE OthersUntouched'
<1>0. TypeOK /\ InHand /\ Visited /\ OthersUntouched /\ OneOpen(prs)
  BY DEF IndInv
<1>1. Kept /\ UNCHANGED only
  BY <1>0, PrsStep, FrameStep
<1>2. ASSUME NEW n \in 1 .. Len(prs), Managed(n) PROVE Managed(n)'
  BY <1>1, <1>2 DEF Kept, SameBranches, Managed
<1>3. \A n \in touched : Managed(n)'
  BY <1>0, <1>2 DEF OthersUntouched, TypeOK
<1>4. CASE Created
  <2> DEFINE q == [repo |-> Repo, base |-> Base, head |-> Prefixed[Base], open |-> TRUE, auto |-> FALSE]
             n == Len(prs) + 1
  <2>1. pc = "create" /\ touched' = touched \union {n} /\ prs' = Append(prs, q)
    BY <1>4 DEF Created
  <2>2. prs'[n] = q
    BY <1>0, <2>1, AppendProperties DEF TypeOK
  <2>3. prs'[n].repo = Repo /\ prs'[n].base = Base /\ prs'[n].head = Prefixed[Base]
    BY <2>2
  <2>4. ASSUME NEW m, m = n PROVE Managed(m)'
    BY <1>0, <1>1, <2>1, <2>3, <2>4, PlaceManaged DEF Managed
  <2>5. QED
    BY <1>3, <2>1, <2>4 DEF OthersUntouched
<1>5. CASE EditPR \/ Closed \/ UpdateBranch \/ UpdateUnanswered
  <2>1. pc \in {"edit", "close", "update"} /\ touched' = touched \union {num}
    BY <1>5 DEF EditPR, Closed, UpdateBranch, UpdateUnanswered
  <2>2. num \in 1 .. Len(prs) /\ Managed(num)
    BY <1>0, <2>1, PlaceManaged DEF InHand, Ours, PlaceOf, Place, Managed
  <2>3. PICK n \in 1 .. Len(prs) : n = num
    BY <2>2
  <2>4. Managed(n)'
    BY <1>2, <2>2, <2>3
  <2>5. QED
    BY <1>3, <2>1, <2>3, <2>4 DEF OthersUntouched
<1>6. QED
  BY <1>3, <1>4, <1>5, FrameStep DEF OthersUntouched

-----------------------------------------------------------------------------
\* The loops have not been at the current place before when no argument is given
\* twice.
LEMMA PlaceIsNew ==
    ASSUME TypeOK, ArgsDistinct, pc \notin {"repo", "over"}
    PROVE  ~Behind(Place)
<1>0. /\ Known /\ ri \in 1 .. Len(Args) /\ bi \in 1 .. Len(List) /\ status = "running"
      /\ Len(List) \in Nat /\ Len(Args) \in Nat
  BY PlaceTyped, ListTyped, PrConstants DEF PrConstants
<1>1. SUFFICES ASSUME Behind(Place) PROVE FALSE
  OBVIOUS
<1>2. PICK i \in 1 .. Len(Args) :
          /\ Args[i] = Repo
          /\ \E j \in 1 .. Len(ListOf(i)) : ListOf(i)[j] = Base /\ Passed(i, j)
  BY <1>1 DEF Behind, Place
<1>3. i = ri /\ ListOf(i) = List
  BY <1>0, <1>2 DEF ArgsDistinct, Repo, ListOf, List
<1>4. PICK j \in 1 .. Len(List) : List[j] = Base /\ Passed(i, j)
  BY <1>2, <1>3
<1>5. j = bi
  BY <1>0, <1>4, ListTyped DEF Base
<1>6. QED
  BY <1>0, <1>3, <1>4, <1>5 DEF Passed

\* How the command leaves an update, and how it gets to one.
LEMMA UpdateLeft ==
    ASSUME Next, pc = "update"
    PROVE  \/ UNCHANGED <<progress, num, attempts>>
           \/ Again /\ UNCHANGED num
           \/ NextBranch
BY DEF Next, Step, CreateSteps, Trouble, BeginRepo, BeginBranch, FindHead, CreateNew, Created,
   CreateExists, NothingToMerge, EditPR, EnableAutoMerge, RequestReviewers, ListPR, NoPRs, ClosePR,
   Closed, UpdateBranch, UpdateRefused, CreateFails, CreateUnanswered, AutoMergeFails, ListFails,
   CloseFails, CloseUnanswered, UpdateUnanswered, CloseOrMerge, SyncPush, Report

LEMMA UpdateReached ==
    ASSUME TypeOK, Next, pc # "update", pc' = "update"
    PROVE  pc = "list" /\ num' \in getPR /\ attempts' = 3 /\ UNCHANGED updates
<1>1. ListPR
  BY DEF Next, Step, CreateSteps, Trouble, BeginRepo, BeginBranch, FindHead, CreateNew, Created,
     CreateExists, NothingToMerge, EditPR, EnableAutoMerge, RequestReviewers, NoPRs, ClosePR,
     Closed, UpdateBranch, UpdateRefused, CreateFails, CreateUnanswered, AutoMergeFails, ListFails,
     CloseFails, CloseUnanswered, UpdateUnanswered, CloseOrMerge, SyncPush, Report, NextBranch,
     NextRepo, End, progress
<1>2. QED
  BY <1>1 DEF ListPR, NextBranch, NextRepo, End, history

LEMMA AcceptedStep ==
    ASSUME IndInv, Next, ArgsDistinct
    PROVE  AcceptedBehind'
<1>0. TypeOK /\ InHand /\ Visited /\ AcceptedBehind /\ OneOpen(prs)
  BY DEF IndInv
<1>1. /\ Kept /\ UNCHANGED only /\ Len(accepted) = Len(prs) /\ Len(unseen) = Len(prs)
      /\ accepted \in Seq(Nat) /\ unseen \in Seq(Nat)
  BY <1>0, PrsStep, FrameStep DEF TypeOK
<1>l. Len(prs) \in Nat /\ attempts \in 0 .. 3
  BY <1>0, LenProperties DEF TypeOK
<1>n. \A n \in 1 .. Len(prs) : accepted[n] \in Nat /\ unseen[n] \in Nat
  BY <1>1, ElementOfSeq
<1>b. ASSUME NEW n \in 1 .. Len(accepted), Behind(PlaceOf(n)), status = "running"
      PROVE  Behind(PlaceOf(n))'
  <2>1. prs[n] \in PullRequests /\ PlaceOf(n)' = PlaceOf(n)
    BY <1>0, <1>1, ElementOfSeq, PlacesKept DEF TypeOK
  <2>2. PICK p \in Places : p = PlaceOf(n)
    BY <1>b, <2>1 DEF PlaceOf, Places, PullRequests, Behind
  <2>3. Behind(p)
    BY <1>b, <2>2
  <2>4. Behind(p)'
    <3>1. CASE pc \notin {"repo", "branch", "over"} /\ NextBranch
      BY <1>0, <1>1, <2>3, <3>1, NextBranchBehind
    <3>2. CASE ~Known /\ status = "running" /\ NextRepo
      BY <1>0, <1>1, <2>3, <3>2, NextRepoBehind
    <3>3. CASE Stays
      BY <1>1, <2>3, <3>3, StayBehind DEF Stays
    <3>4. QED
      BY <1>0, <3>1, <3>2, <3>3, LoopStep DEF Visited
  <2>5. QED
    BY <2>1, <2>2, <2>4 DEF Behind
<1>r. status' = "running" => status = "running"
  <2>1. CASE pc = "over"
    BY <1>0, <2>1 DEF Next, Step, CreateSteps, Trouble, BeginRepo, BeginBranch, FindHead,
       CreateNew, Created, CreateExists, NothingToMerge, EditPR, EnableAutoMerge,
       RequestReviewers, ListPR, NoPRs, ClosePR, Closed, UpdateBranch, UpdateRefused, CreateFails,
       CreateUnanswered, AutoMergeFails, ListFails, CloseFails, CloseUnanswered,
       UpdateUnanswered, CloseOrMerge, SyncPush, Event
  <2>2. CASE pc # "over"
    BY <1>0, <2>2 DEF TypeOK
  <2>3. QED
    BY <2>1, <2>2
<1>h. pc = "update" => /\ num \in 1 .. Len(prs) /\ PlaceOf(num) = Place /\ Place \in Places
                       /\ accepted[num] = unseen[num] /\ accepted[num] + attempts <= 3
  BY <1>0, PlaceTyped DEF InHand, Ours, AcceptedBehind
<1>x. ASSUME pc = "update", NextBranch PROVE Behind(PlaceOf(num))' \/ num' # num
  <2>1. PICK m \in 1 .. Len(prs), p \in Places : m = num /\ p = Place
    BY <1>h, <1>x
  <2>2. Behind(p)'
    BY <1>0, <1>1, <1>x, <2>1, NextBranchBehind
  <2>3. PlaceOf(m)' = p
    BY <1>1, <1>h, <1>x, <2>1, PlacesKept
  <2>4. QED
    BY <2>1, <2>2, <2>3 DEF Behind
<1>y. pc = "update" => num' = num
  BY FrameStep DEF CreateNew, Created, ListPR
\* A request that has had an update stays behind the loops or in hand.
<1>2. ASSUME NEW n \in 1 .. Len(prs), accepted[n] # 0 \/ (pc = "update" /\ num = n),
             status' = "running"
      PROVE  Behind(PlaceOf(n))' \/ (pc' = "update" /\ num' = n)
  <2>1. CASE Behind(PlaceOf(n))
    BY <1>1, <1>b, <1>r, <1>2, <2>1
  <2>2. CASE pc = "update" /\ num = n
    BY <1>x, <1>y, <2>2, UpdateLeft DEF Again, Report, progress
  <2>3. QED
    BY <1>0, <1>1, <1>r, <1>2, <2>1, <2>2 DEF AcceptedBehind
\* No update of the request that the command gets to was accepted yet.
<1>3. ASSUME pc # "update", pc' = "update"
      PROVE  accepted'[num'] = unseen'[num'] /\ accepted'[num'] + attempts' <= 3
  <2>1. /\ pc = "list" /\ num' \in getPR /\ attempts' = 3
        /\ accepted' = accepted /\ unseen' = unseen
    BY <1>0, <1>3, UpdateReached DEF updates
  <2>2. PICK m \in 1 .. Len(prs) : m = num' /\ PlaceOf(m) = Place
    BY <2>1 DEF getPR, PlaceOf, Place
  <2>3. ~Behind(PlaceOf(m)) /\ status = "running"
    BY <1>0, <2>1, <2>2, PlaceIsNew, PlaceTyped
  <2>4. accepted[m] = 0 /\ unseen[m] = 0
    BY <1>0, <1>1, <1>n, <2>1, <2>3 DEF AcceptedBehind, Few
  <2>5. QED
    BY <2>1, <2>2, <2>4
<1>4. CASE UNCHANGED updates
  <2>1. accepted' = accepted /\ unseen' = unseen
    BY <1>4 DEF updates
  <2>2. ASSUME pc = "update", pc' = "update"
        PROVE  accepted'[num'] = unseen'[num'] /\ accepted'[num'] + attempts' <= 3
    <3>1. attempts' \in 0 .. attempts
      BY <1>l, <2>2, UpdateLeft, FrameStep DEF Again, ListPR
    <3>2. QED
      BY <1>h, <1>l, <1>n, <1>y, <2>1, <2>2, <3>1
  <2>3. QED
    BY <1>0, <1>1, <1>2, <1>3, <2>1, <2>2 DEF AcceptedBehind, Few
<1>5. CASE Created
  <2>1. accepted' = Append(accepted, 0) /\ unseen' = Append(unseen, 0) /\ pc = "create"
    BY <1>5 DEF Created
  <2>2. /\ Len(accepted') = Len(prs) + 1
        /\ accepted'[Len(prs) + 1] = 0 /\ unseen'[Len(prs) + 1] = 0
        /\ \A n \in 1 .. Len(prs) : accepted'[n] = accepted[n] /\ unseen'[n] = unseen[n]
    BY <1>1, <1>l, <2>1, AppendProperties
  <2>3. ASSUME NEW n \in 1 .. Len(accepted')
        PROVE  Few(n)' /\ (accepted'[n] # 0 /\ status' = "running" =>
                                Behind(PlaceOf(n))' \/ (pc' = "update" /\ num' = n))
    <3>1. CASE n \in 1 .. Len(prs)
      BY <1>0, <1>1, <1>2, <2>2, <3>1 DEF AcceptedBehind, Few
    <3>2. CASE n = Len(prs) + 1
      BY <2>2, <3>2 DEF Few
    <3>3. QED
      BY <1>l, <2>2, <3>1, <3>2
  <2>4. QED
    BY <1>3, <2>1, <2>3 DEF AcceptedBehind
<1>6. CASE UpdateBranch \/ UpdateUnanswered
  <2>1. /\ pc = "update" /\ accepted' = [accepted EXCEPT ![num] = accepted[num] + 1]
        /\ unseen' = unseen \/ unseen' = [unseen EXCEPT ![num] = unseen[num] + 1]
    BY <1>6 DEF UpdateBranch, UpdateUnanswered
  <2>2. /\ Len(accepted') = Len(prs) /\ accepted'[num] = accepted[num] + 1
        /\ unseen'[num] \in {unseen[num], unseen[num] + 1}
        /\ \A n \in 1 .. Len(prs) : n # num => accepted'[n] = accepted[n] /\ unseen'[n] = unseen[n]
    BY <1>1, <1>h, <2>1
  <2>3. ASSUME NEW n \in 1 .. Len(accepted') PROVE Few(n)'
    <3>1. CASE n = num
      BY <1>h, <1>l, <1>n, <2>1, <2>2, <3>1 DEF Few
    <3>2. CASE n # num
      BY <1>0, <1>1, <2>2, <3>2 DEF AcceptedBehind, Few
    <3>3. QED
      BY <3>1, <3>2
  <2>4. ASSUME pc' = "update"
        PROVE  accepted'[num'] = unseen'[num'] /\ accepted'[num'] + attempts' <= 3
    <3>1. UpdateUnanswered /\ attempts > 0 /\ attempts' = attempts - 1
      BY <1>6, <2>4 DEF UpdateBranch, UpdateUnanswered, Again, Report, NextBranch, NextRepo, End
    <3>2. unseen'[num] = unseen[num] + 1
      BY <1>1, <1>h, <2>1, <3>1 DEF UpdateUnanswered
    <3>3. QED
      BY <1>h, <1>l, <1>n, <1>y, <2>1, <2>2, <3>1, <3>2
  <2>5. QED
    BY <1>0, <1>1, <1>2, <2>1, <2>2, <2>3, <2>4 DEF AcceptedBehind
<1>7. QED
  BY <1>4, <1>5, <1>6, FrameStep

-----------------------------------------------------------------------------
LEMMA IndInvInit == Init => IndInv
<1> SUFFICES ASSUME Init PROVE IndInv
  OBVIOUS
<1>0. /\ prs \in Seq(PullRequests) /\ OneOpen(prs) /\ Len(prs) \in Nat
      /\ Len(Args) \in Nat \ {0} /\ MaxFailures \in Nat /\ MaxEvents \in Nat
  BY InitialRequests, PrConstants, LenProperties DEF Init, InitialRequests, PrConstants
<1>1. /\ accepted \in Seq(Nat) /\ Len(accepted) = Len(prs) /\ unseen = accepted
      /\ \A n \in 1 .. Len(accepted) : accepted[n] = 0
  BY <1>0 DEF Init
<1>2. TypeOK
  BY <1>0, <1>1 DEF Init, TypeOK
<1>3. ASSUME NEW p PROVE ~Behind(p)
  <2>1. SUFFICES ASSUME NEW i \in 1 .. Len(Args), Args[i] \in DOMAIN BranchesOf,
                        NEW j \in 1 .. Len(ListOf(i))
                 PROVE  ~Passed(i, j)
    BY DEF Behind
  <2>2. Len(ListOf(i)) \in Nat
    BY <1>2, <2>1, ListOfTyped
  <2>3. QED
    BY <1>0, <2>2 DEF Passed, Init
<1>4. InHand /\ CreateSeparate /\ OthersUntouched
  BY DEF Init, InHand, CreateSeparate, OthersUntouched
<1>5. Visited /\ ClosedBehind
  BY <1>3 DEF Init, Visited, ClosedBehind
<1>6. AcceptedBehind
  BY <1>1 DEF AcceptedBehind, Few, Init
<1>7. QED
  BY <1>0, <1>2, <1>4, <1>5, <1>6 DEF IndInv

LEMMA IndInvStep == IndInv /\ [Next]_vars => IndInv'
<1> SUFFICES ASSUME IndInv, [Next]_vars PROVE IndInv'
  OBVIOUS
<1>1. CASE Next
  <2>1. TypeOK' /\ InHand' /\ Visited' /\ CreateSeparate' /\ ClosedBehind'
    BY <1>1, TypeStep, InHandStep, VisitedStep, CreateSeparateStep, ClosedStep
  <2>2. OneOpen(prs)'
    BY <1>1, PrsStep DEF IndInv
  <2>3. OthersUntouched'
    BY <1>1, <2>1, OthersStep
  <2>4. (ArgsDistinct => AcceptedBehind)'
    BY <1>1, AcceptedStep DEF ArgsDistinct
  <2>5. QED
    BY <2>1, <2>2, <2>3, <2>4 DEF IndInv
<1>2. CASE UNCHANGED vars
  <2> USE DEF vars, github, progress, history, updates
  <2>1. TypeOK' /\ OneOpen(prs)' /\ CreateSeparate'
    BY <1>2 DEF IndInv, TypeOK, Known, List, Repo, OneOpen, CreateSeparate
  <2>2. \A n : Managed(n)' <=> Managed(n)
    BY <1>2 DEF Managed
  <2>3. \A p : Behind(p)' <=> Behind(p)
    BY <1>2 DEF Behind, ListOf, Passed
  <2>4. \A n : PlaceOf(n)' = PlaceOf(n) /\ \A p : Ours(n, p)' <=> Ours(n, p)
    BY <1>2 DEF PlaceOf, Ours
  <2>5. Place' = Place
    BY <1>2 DEF Place, Repo, Base, List
  <2>6. InHand'
    BY <1>2, <2>4, <2>5 DEF IndInv, InHand
  <2>7. Visited'
    BY <1>2, <2>3, <2>5 DEF IndInv, Visited
  <2>8. ClosedBehind' /\ AcceptedBehind' = AcceptedBehind /\ OthersUntouched'
    BY <1>2, <2>2, <2>3, <2>4 DEF IndInv, ClosedBehind, AcceptedBehind, Few, OthersUntouched
  <2>9. QED
    BY <2>1, <2>6, <2>7, <2>8 DEF IndInv, ArgsDistinct
<1>3. QED
  BY <1>1, <1>2

\* The inductive invariant of the `prs` commands (cmd/prs.go, github.go).
THEOREM Invariance == Spec => []IndInv
<1>1. QED
  BY IndInvInit, IndInvStep, PTL DEF Spec

\* The loops stay within the arguments and the branches, and the attempts at an update
\* are counted down (github.go:204).
THEOREM TypeCorrect == Spec => []TypeOK
<1>1. IndInv => TypeOK
  BY DEF IndInv
<1>2. QED
  BY <1>1, Invariance, PTL

\* Nobody else's request is changed, and an update that GitHub accepted is asked for again
\* only when the answer was lost, four times at most in all, however many requests fail
\* and whatever others do (github.go:149, 204).  An argument that is given twice is worked
\* through twice.
THEOREM OwnRequestsOnceAlways ==
    ASSUME ArgsDistinct
    PROVE  Spec => []OwnRequestsOnce
<1>1. IndInv => OwnRequestsOnce
  BY DEF IndInv, OwnRequestsOnce, AcceptedBehind, Few, AcceptedOnce
<1>2. QED
  BY <1>1, Invariance, PTL

\* When the command has ended normally, the loops are past every place asked for.
LEMMA OkBehind ==
    ASSUME TypeOK, status = "ok", NEW p \in Places,
           \E i \in 1 .. Len(Args) : Args[i] = p.repo,
           \/ only = p.base
           \/ /\ only = AllBranches
              /\ \E i \in 1 .. Len(BranchesOf[p.repo]) : BranchesOf[p.repo][i] = p.base
    PROVE  Behind(p)
<1>1. PICK i \in 1 .. Len(Args) : Args[i] = p.repo
  OBVIOUS
<1>2. p.repo \in DOMAIN BranchesOf /\ p.base \in Branches
  BY DEF Places
<1>3. \E j \in 1 .. Len(ListOf(i)) : ListOf(i)[j] = p.base
  <2>1. CASE only = p.base
    <3>1. only # AllBranches
      BY <1>2, <2>1, PrConstants DEF PrConstants
    <3>2. ListOf(i) = <<only>>
      BY <3>1 DEF ListOf
    <3>3. QED
      BY <2>1, <3>2
  <2>2. CASE only = AllBranches
    BY <1>1, <1>2, <2>2, PrConstants DEF ListOf, PrConstants
  <2>3. QED
    BY <2>1, <2>2
<1>4. QED
  BY <1>1, <1>2, <1>3 DEF Behind, Passed

\* A command that ends normally has been to every branch of every known repository, and
\* deleteprs leaves none of the requests that it found open without a word, whatever
\* fails and whatever others close meanwhile (cmd/prs.go:116, 174).
THEOREM NothingForgottenAlways == Spec => []NothingForgotten
<1>1. IndInv => NothingForgotten
  <2> SUFFICES ASSUME IndInv PROVE NothingForgotten
    OBVIOUS
  <2>0. TypeOK /\ Visited /\ ClosedBehind
    BY DEF IndInv
  <2>1. EveryBranchProcessed
    <3>1. SUFFICES ASSUME status = "ok", NEW p \in Requested PROVE p \in tried
      BY DEF EveryBranchProcessed
    <3>2. p \in Places /\ Behind(p)
      BY <2>0, <3>1, OkBehind DEF Requested
    <3>3. QED
      BY <2>0, <3>2 DEF Visited
  <2>2. DeleteClosesAll
    <3>1. SUFFICES ASSUME cmd = "delete", status = "ok", NEW n \in atStart, Managed(n),
                          prs[n].repo \in DOMAIN BranchesOf, prs[n].open
                   PROVE  PlaceOf(n) \in reported
      BY DEF DeleteClosesAll, PlaceOf
    <3>2. prs[n] \in PullRequests
      BY <2>0, ElementOfSeq DEF TypeOK
    <3>3. PlaceOf(n) \in Places /\ PlaceOf(n).repo = prs[n].repo /\ PlaceOf(n).base = prs[n].base
      BY <3>1, <3>2 DEF PlaceOf, Places, PullRequests
    <3>4. Behind(PlaceOf(n))
      BY <2>0, <3>1, <3>3, OkBehind DEF Managed
    <3>5. Ours(n, PlaceOf(n))
      BY <3>1, <3>3 DEF Managed, Ours
    <3>6. QED
      BY <2>0, <3>1, <3>4, <3>5 DEF ClosedBehind
  <2>3. QED
    BY <2>1, <2>2 DEF NothingForgotten
<1>2. QED
  BY <1>1, Invariance, PTL
=============================================================================
