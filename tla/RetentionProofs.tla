--------------------------- MODULE RetentionProofs ---------------------------
(* Proofs about Retention, for every repository, configuration and track. *)
EXTENDS Retention, FiniteSetTheorems, TLAPS

-----------------------------------------------------------------------------
(* The sorted series of tracks.go:92: Index is a member's position in them *)

\* A position is a number.
LEMMA IndexType ==
    ASSUME NEW S \in SUBSET Int, IsFiniteSet(S), NEW s \in Int
    PROVE  /\ IsFiniteSet({t \in S : t < s})
           /\ Index(S, s) \in Nat
<1>1. {t \in S : t < s} \in SUBSET S
  OBVIOUS
<1>2. IsFiniteSet({t \in S : t < s})
  BY <1>1, FS_Subset
<1>3. QED
  BY <1>2, FS_CardinalityType DEF Index

\* Positions follow the order of the series.
LEMMA IndexMonotone ==
    ASSUME NEW S \in SUBSET Int, IsFiniteSet(S), NEW a \in S, NEW b \in Int, a < b
    PROVE  Index(S, a) < Index(S, b)
<1> DEFINE A == {t \in S : t < a}
           B == {t \in S : t < b}
<1>1. A \in SUBSET B /\ a \in B /\ a \notin A
  <2>1. \A t \in S : t \in Int
    OBVIOUS
  <2>2. \A t \in S : t < a => t < b
    BY <2>1
  <2>3. a \in Int /\ ~(a < a)
    OBVIOUS
  <2>4. QED
    BY <2>2, <2>3
<1>2. IsFiniteSet(B) /\ Index(S, a) \in Nat /\ Index(S, b) \in Nat
  BY IndexType
<1>3. Cardinality(A) <= Cardinality(B) /\ (Cardinality(B) = Cardinality(A) => B = A)
  BY <1>1, <1>2, FS_Subset
<1>4. B # A
  BY <1>1
<1>5. Index(S, a) = Cardinality(A) /\ Index(S, b) = Cardinality(B)
  BY DEF Index
<1>6. QED
  BY <1>2, <1>3, <1>4, <1>5

\* So two series are in the order of their positions.
LEMMA IndexOrder ==
    ASSUME NEW S \in SUBSET Int, IsFiniteSet(S), NEW a \in S, NEW b \in S
    PROVE  /\ a < b <=> Index(S, a) < Index(S, b)
           /\ a = b <=> Index(S, a) = Index(S, b)
           /\ a <= b <=> Index(S, a) <= Index(S, b)
<1>1. a \in Int /\ b \in Int /\ Index(S, a) \in Nat /\ Index(S, b) \in Nat
  BY IndexType
<1>2. a < b => Index(S, a) < Index(S, b)
  BY <1>1, IndexMonotone
<1>3. b < a => Index(S, b) < Index(S, a)
  BY <1>1, IndexMonotone
<1>4. QED
  BY <1>1, <1>2, <1>3

\* Every position up to the last is a series': the positions are an injection of
\* the series into an interval with as many members.
LEMMA IndexOnto ==
    ASSUME NEW S \in SUBSET Int, IsFiniteSet(S), NEW i \in 0 .. Cardinality(S) - 1
    PROVE  \E s \in S : Index(S, s) = i
<1> DEFINE n == Cardinality(S)
           f == [s \in S |-> Index(S, s)]
<1>1. n \in Nat
  BY FS_CardinalityType
<1>2. ASSUME NEW s \in S PROVE Index(S, s) \in 0 .. n - 1
  <2>1. {t \in S : t < s} \in SUBSET S /\ {t \in S : t < s} # S
    OBVIOUS
  <2>2. Index(S, s) <= n /\ Index(S, s) # n
    BY <2>1, FS_Subset DEF Index
  <2>3. Index(S, s) \in Nat
    BY IndexType
  <2>4. QED
    BY <1>1, <2>2, <2>3
<1>3. f \in [S -> 0 .. n - 1]
  BY <1>2
<1>4. \A s, t \in S : f[s] = f[t] => s = t
  BY IndexOrder
<1>5. f \in Injection(S, 0 .. n - 1)
  BY <1>3, <1>4 DEF Injection, IsInjective
<1>6. IsFiniteSet(0 .. n - 1) /\ Cardinality(0 .. n - 1) = n
  BY <1>1, FS_Interval
<1>7. f \in Surjection(S, 0 .. n - 1)
  BY <1>5, <1>6, FS_Injection
<1>8. QED
  BY <1>7 DEF Surjection

\* Between two series there are as many as their positions say.
LEMMA BetweenCount ==
    ASSUME NEW S \in SUBSET Int, IsFiniteSet(S), NEW s \in S, NEW a \in S, s <= a
    PROVE  Cardinality({t \in S : s < t /\ t <= a}) = Index(S, a) - Index(S, s)
<1> DEFINE A == {t \in S : t < s}
           B == {t \in S : t < a}
           D == {t \in S : s <= t /\ t < a}
           W == {t \in S : s < t /\ t <= a}
<1>0. \A t \in S : t \in Int
  OBVIOUS
<1>1. Index(S, s) \in Nat /\ Index(S, a) \in Nat /\ IsFiniteSet(A) /\ IsFiniteSet(B)
  BY IndexType
<1>2. CASE s = a
  <2>1. \A t \in S : ~(s < t /\ t <= a)
    BY <1>0, <1>2
  <2>2. W = {}
    BY <2>1
  <2>3. Cardinality(W) = 0
    BY <2>2, FS_EmptySet
  <2>4. QED
    BY <1>1, <1>2, <2>3
<1>3. CASE s < a
  <2>1. D = B \ A /\ B \cap A = A
    <3>1. \A t \in S : (t < s => t < a) /\ (s <= t <=> ~(t < s))
      BY <1>0, <1>3
    <3>2. QED
      BY <3>1
  <2>2. IsFiniteSet(D) /\ Cardinality(D) = Index(S, a) - Index(S, s)
    <3>1. IsFiniteSet(B \ A) /\ Cardinality(B \ A) = Cardinality(B) - Cardinality(B \cap A)
      BY <1>1, FS_Difference, Zenon
    <3>2. Cardinality(B) = Index(S, a) /\ Cardinality(B \cap A) = Index(S, s)
      <4>1. Cardinality(A) = Index(S, s) /\ Cardinality(B) = Index(S, a)
        BY DEF Index
      <4>2. QED
        BY <2>1, <4>1, Zenon
    <3>3. QED
      BY <2>1, <3>1, <3>2, Zenon
  <2>3. IsFiniteSet(D \ {s}) /\ Cardinality(D \ {s}) = Cardinality(D) - 1
    <3>1. s \in D
      BY <1>3
    <3>2. QED
      BY <2>2, <3>1, FS_RemoveElement
  <2>4. W = (D \ {s}) \union {a} /\ a \notin D \ {s}
    <3>1. \A t \in S : s < t /\ t <= a <=> (s <= t /\ t < a /\ t # s) \/ t = a
      BY <1>0, <1>3
    <3>2. ~(a < a)
      BY <1>0
    <3>3. QED
      BY <3>1, <3>2
  <2>5. Cardinality(W) = Cardinality(D \ {s}) + 1
    BY <2>3, <2>4, FS_AddElement
  <2>6. QED
    BY <1>1, <2>2, <2>3, <2>5
<1>4. QED
  BY <1>2, <1>3

-----------------------------------------------------------------------------
(* The cutoff of tracks.go:113 *)

\* The cutoff is one of the series, `depth` positions below the anchor, or the
\* oldest when there are not so many.
LEMMA CutoffPosition ==
    ASSUME NEW S \in SUBSET Int, IsFiniteSet(S), NEW a \in S, NEW d \in Nat
    PROVE  /\ DeriveCutoff(S, a, d) \in S
           /\ Index(S, DeriveCutoff(S, a, d))
                = IF Index(S, a) - d < 0 THEN 0 ELSE Index(S, a) - d
           /\ DeriveCutoff(S, a, d) <= a
<1> DEFINE i == IF Index(S, a) - d < 0 THEN 0 ELSE Index(S, a) - d
           c == DeriveCutoff(S, a, d)
<1>1. Index(S, a) \in Nat /\ Cardinality(S) \in Nat
  BY IndexType, FS_CardinalityType
<1>2. Index(S, a) < Cardinality(S)
  <2>1. {t \in S : t < a} \in SUBSET S /\ {t \in S : t < a} # S
    OBVIOUS
  <2>2. QED
    BY <1>1, <2>1, FS_Subset DEF Index
<1>3. i \in 0 .. Cardinality(S) - 1
  BY <1>1, <1>2
<1>4. \E s \in S : Index(S, s) = i
  <2> HIDE DEF i
  <2> QED
    BY <1>3, IndexOnto
<1>5. c = CHOOSE s \in S : Index(S, s) = i
  BY DEF DeriveCutoff
<1>6. c \in S /\ Index(S, c) = i
  <2> HIDE DEF i, c
  <2> QED
    BY <1>4, <1>5
<1>7. Index(S, c) <= Index(S, a)
  BY <1>1, <1>6
<1>8. c <= a
  <2> HIDE DEF i, c
  <2> QED
    BY <1>6, <1>7, IndexOrder
<1>9. QED
  BY <1>6, <1>8

\* The window counted: a series is below the cutoff exactly if more than `depth`
\* series lie above it up to the anchor (tracks.go:22).
LEMMA CutoffCounts ==
    ASSUME NEW S \in SUBSET Int, IsFiniteSet(S), NEW a \in S, NEW d \in Nat, NEW s \in S
    PROVE  s < DeriveCutoff(S, a, d)
               <=> Cardinality({t \in S : s < t /\ t <= a}) > d
<1> DEFINE c == DeriveCutoff(S, a, d)
           w == {t \in S : s < t /\ t <= a}
<1>1. /\ c \in S /\ c <= a
      /\ Index(S, c) = IF Index(S, a) - d < 0 THEN 0 ELSE Index(S, a) - d
  BY CutoffPosition
<1> HIDE DEF c
<1>2. s < c <=> Index(S, s) < Index(S, c)
  BY <1>1, IndexOrder
<1>3. Index(S, s) \in Nat /\ Index(S, a) \in Nat
  BY IndexType
<1>4. CASE s <= a
  <2>1. Cardinality(w) = Index(S, a) - Index(S, s)
    BY <1>4, BetweenCount
  <2>2. QED
    BY <1>1, <1>2, <1>3, <2>1 DEF c
<1>5. CASE a < s
  <2>1. w = {}
    <3>1. \A t \in S : t \in Int
      OBVIOUS
    <3>2. \A t \in S : ~(s < t /\ t <= a)
      BY <1>5, <3>1
    <3>3. QED
      BY <3>2
  <2>2. Cardinality(w) = 0
    BY <2>1, FS_EmptySet
  <2>3. ~(s < c)
    BY <1>1, <1>5
  <2>4. QED
    BY <2>2, <2>3 DEF c
<1>6. QED
  BY <1>4, <1>5

\* Removing series below the cutoff does not move it.
LEMMA CutoffKept ==
    ASSUME NEW S \in SUBSET Int, IsFiniteSet(S), NEW a \in S, NEW d \in Nat,
           NEW K \in SUBSET S,
           \A s \in S : DeriveCutoff(S, a, d) <= s => s \in K
    PROVE  a \in K /\ DeriveCutoff(K, a, d) = DeriveCutoff(S, a, d)
<1> DEFINE c == DeriveCutoff(S, a, d)
           e == DeriveCutoff(K, a, d)
<1>1. /\ c \in S /\ c <= a
      /\ Index(S, c) = IF Index(S, a) - d < 0 THEN 0 ELSE Index(S, a) - d
  BY CutoffPosition
<1>2. \A t \in S : t \in Int /\ (c <= t => t \in K)
  OBVIOUS
<1>3. c \in K /\ a \in K
  <2> HIDE DEF c
  <2>1. c <= c
    BY <1>1, <1>2
  <2>2. QED
    BY <1>1, <1>2, <2>1
<1>4. K \in SUBSET Int /\ IsFiniteSet(K)
  BY FS_Subset
<1>5. /\ e \in K
      /\ Index(K, e) = IF Index(K, a) - d < 0 THEN 0 ELSE Index(K, a) - d
  BY <1>3, <1>4, CutoffPosition
<1>6. {t \in S : c < t /\ t <= a} = {t \in K : c < t /\ t <= a}
  <2> HIDE DEF c
  <2>1. \A t \in S : c < t => t \in K
    BY <1>1, <1>2
  <2>2. QED
    BY <2>1
<1> HIDE DEF c, e
<1>7. Index(S, a) - Index(S, c) = Index(K, a) - Index(K, c)
  BY <1>1, <1>3, <1>4, <1>6, BetweenCount
<1>8. Index(K, c) <= Index(S, c)
  <2>1. {t \in K : t < c} \in SUBSET {t \in S : t < c}
    OBVIOUS
  <2>2. IsFiniteSet({t \in S : t < c})
    BY <1>1, IndexType
  <2>3. QED
    BY <2>1, <2>2, FS_Subset DEF Index
<1>9. /\ Index(S, a) \in Nat /\ Index(S, c) \in Nat
      /\ Index(K, a) \in Nat /\ Index(K, c) \in Nat
  BY <1>1, <1>3, <1>4, IndexType
<1>10. Index(K, e) = Index(K, c)
  BY <1>1, <1>5, <1>7, <1>8, <1>9
<1>11. e = c
  BY <1>3, <1>4, <1>5, <1>10, IndexOrder
<1>12. QED
  BY <1>3, <1>11 DEF c, e

\* A full window moves only forward: more released series, or a newer anchor, do
\* not lower the cutoff.
LEMMA CutoffForward ==
    ASSUME NEW S \in SUBSET Int, NEW T \in SUBSET Int, IsFiniteSet(T), S \subseteq T,
           NEW a \in S, NEW b \in T, a <= b, NEW d \in Nat, Index(S, a) >= d
    PROVE  DeriveCutoff(S, a, d) <= DeriveCutoff(T, b, d)
<1> DEFINE c == DeriveCutoff(S, a, d)
           e == DeriveCutoff(T, b, d)
<1>1. IsFiniteSet(S)
  BY FS_Subset
<1>2. /\ c \in S /\ c <= a
      /\ Index(S, c) = IF Index(S, a) - d < 0 THEN 0 ELSE Index(S, a) - d
  BY <1>1, CutoffPosition
<1>3. /\ e \in T
      /\ Index(T, e) = IF Index(T, b) - d < 0 THEN 0 ELSE Index(T, b) - d
  BY CutoffPosition
<1> HIDE DEF c, e
<1>4. c \in T /\ a \in T
  BY <1>2
<1>5. /\ Index(S, a) \in Nat /\ Index(S, c) \in Nat
      /\ Index(T, a) \in Nat /\ Index(T, b) \in Nat /\ Index(T, c) \in Nat
  BY <1>1, <1>2, <1>4, IndexType
<1>6. Index(S, a) - Index(S, c) <= Index(T, a) - Index(T, c)
  <2>1. {t \in S : c < t /\ t <= a} \in SUBSET {t \in T : c < t /\ t <= a}
    OBVIOUS
  <2>2. IsFiniteSet({t \in T : c < t /\ t <= a})
    <3>1. {t \in T : c < t /\ t <= a} \in SUBSET T
      OBVIOUS
    <3>2. QED
      BY <3>1, FS_Subset
  <2>3. Cardinality({t \in S : c < t /\ t <= a}) <= Cardinality({t \in T : c < t /\ t <= a})
    BY <2>1, <2>2, FS_Subset
  <2>4. Cardinality({t \in S : c < t /\ t <= a}) = Index(S, a) - Index(S, c)
    BY <1>1, <1>2, BetweenCount
  <2>5. Cardinality({t \in T : c < t /\ t <= a}) = Index(T, a) - Index(T, c)
    BY <1>2, <1>4, BetweenCount
  <2>6. QED
    BY <2>3, <2>4, <2>5
<1>7. Index(T, a) <= Index(T, b)
  BY <1>4, IndexOrder
<1>8. Index(T, c) <= Index(T, e)
  BY <1>2, <1>3, <1>5, <1>6, <1>7
<1>9. c <= e
  BY <1>3, <1>4, <1>8, IndexOrder
<1>10. QED
  BY <1>9 DEF c, e

-----------------------------------------------------------------------------
(* The plan without a track *)

\* The two classifications of the code agree on one package: BuildPlan's and
\* Filter.Satisfies', when there is no track and the version is semantic.
LEMMA SameVerdict ==
    ASSUME NEW c, NEW trs, NEW items, NEW t, NEW p \in items,
           ~Tracked(c), IsValid(p.version)
    PROVE  p \in Pruned(c, trs, items, t) <=> Satisfies(MakeFilter(c), p, t)
<1>1. p \notin PlanNonSemver(c, items)
  BY DEF PlanNonSemver
<1>2. p \in Protected(c, items) <=> p.version \in MakeFilter(c).exceptions
  BY DEF Protected, MakeFilter
<1>3. BelowCutoff(c, trs, items, p.version)
        <=> MakeFilter(c).version # NoString /\ Older(p.version, MakeFilter(c).version)
  BY DEF BelowCutoff, MakeFilter
<1>4. OlderThanAge(p, c.ageCutoff, t) <=> OlderThanAge(p, MakeFilter(c).age, t)
  BY DEF MakeFilter
<1>5. p \in Pruned(c, trs, items, t)
        <=> /\ p \notin Protected(c, items)
            /\ BelowCutoff(c, trs, items, p.version) \/ OlderThanAge(p, c.ageCutoff, t)
  BY <1>1 DEF Pruned
<1>6. QED
  BY <1>2, <1>3, <1>4, <1>5 DEF Satisfies

\* For every repository without a track, whatever its cutoffs, exceptions and
\* packages, plan and clean select the same packages among those with a semantic
\* version (plan.go:77, filter.go:76).
THEOREM PlanPreviewsCleanAlways == Spec => []PlanPreviewsCleanOnSemver
<1>1. PlanPreviewsCleanOnSemver
  <2> SUFFICES ASSUME ~Tracked(cfg)
               PROVE  Pruned(cfg, tracks, repo, now)
                          = {p \in Selected(cfg, repo, now) : IsValid(p.version)}
    BY DEF PlanPreviewsCleanOnSemver
  <2>1. \A p \in Pruned(cfg, tracks, repo, now) : p \in repo /\ IsValid(p.version)
    BY DEF Pruned, PlanNonSemver
  <2>2. \A p \in Selected(cfg, repo, now) : p \in repo
    BY DEF Selected
  <2>3. \A p \in repo : p \in Selected(cfg, repo, now) <=> Satisfies(MakeFilter(cfg), p, now)
    BY DEF Selected
  <2>4. \A p \in repo : IsValid(p.version) =>
            (p \in Pruned(cfg, tracks, repo, now) <=> Satisfies(MakeFilter(cfg), p, now))
    BY SameVerdict
  <2>5. QED
    BY <2>1, <2>2, <2>3, <2>4
<1>2. QED
  BY <1>1, PTL

-----------------------------------------------------------------------------
(* The state is well formed *)

\* The packages are well formed and the track in force passes Validate, however
\* often it is bumped (tracks.go:30, 44).
THEOREM TypeCorrect == Spec => []TypeOK
<1>1. Init => TypeOK
  BY NowBound, TracksTyped, FS_EmptySet DEF Init, TypeOK
<1>2. TypeOK /\ [Next]_vars => TypeOK'
  <2> SUFFICES ASSUME TypeOK, [Next]_vars PROVE TypeOK'
    OBVIOUS
  <2>1. ASSUME NEW v \in Versions, Publish(v)
        PROVE  TypeOK'
    <3>1. [version |-> v, created |-> now] \in Package
      BY DEF TypeOK, Package
    <3>2. IsFiniteSet(repo')
      BY <2>1, FS_AddElement DEF Publish, TypeOK
    <3>3. repo' \subseteq Package /\ \A p \in repo' : p.created <= now
      BY <2>1, <3>1, NowBound DEF Publish, TypeOK
    <3>4. QED
      BY <2>1, <3>2, <3>3 DEF Publish, TypeOK
  <2>2. CASE Tick
    <3>1. \A p \in repo : p.created <= now + 1
      BY NowBound DEF TypeOK, Package
    <3>2. now + 1 \in 0 .. MaxNow
      BY <2>2, NowBound DEF Tick, TypeOK
    <3>3. QED
      BY <2>2, <3>1, <3>2 DEF Tick, TypeOK
  <2>3. ASSUME NEW n \in DOMAIN tracks, NEW v \in Versions \ NonSemver, BumpFeature(n, v)
        PROVE  TypeOK'
    <3>1. DOMAIN tracks' = DOMAIN tracks /\ \A k \in DOMAIN tracks : k # n => tracks'[k] = tracks[k]
      BY <2>3 DEF BumpFeature
    <3>2. Validate(tracks'[n])
      BY <2>3 DEF BumpFeature
    <3>3. tracks'[n] \in TrackRecord
      <4>1. v \in Semver /\ tracks[n] \in TrackRecord
        BY VersionsTyped DEF TypeOK
      <4>2. tracks'[n] = [tracks[n] EXCEPT !.currentFeature = v]
        BY <2>3 DEF BumpFeature
      <4>3. QED
        BY <4>1, <4>2 DEF TrackRecord
    <3>4. \A k \in DOMAIN tracks' : tracks'[k] \in TrackRecord /\ Validate(tracks'[k])
      BY <3>1, <3>2, <3>3 DEF TypeOK
    <3>5. QED
      BY <2>3, <3>4 DEF BumpFeature, TypeOK
  <2>4. ASSUME NEW p \in repo, Clean(p)
        PROVE  TypeOK'
    <3>1. IsFiniteSet(repo')
      BY <2>4, FS_RemoveElement DEF Clean, TypeOK
    <3>2. QED
      BY <2>4, <3>1 DEF Clean, TypeOK
  <2>5. CASE UNCHANGED vars
    BY <2>5 DEF vars, TypeOK
  <2>6. QED
    BY <2>1, <2>2, <2>3, <2>4, <2>5 DEF Next
<1>3. QED
  BY <1>1, <1>2, PTL DEF Spec

-----------------------------------------------------------------------------
(* The plan of a tracked repository *)

\* The series of a repository are finitely many numbers, one for each package
\* with a semantic version.
LEMMA SeriesOf ==
    ASSUME NEW items \in SUBSET Package, IsFiniteSet(items)
    PROVE  /\ MinorSeries(items) \in SUBSET Int /\ IsFiniteSet(MinorSeries(items))
           /\ \A p \in items : IsValid(p.version) =>
                  MajorMinor(p.version) \in Int /\ MajorMinor(p.version) \in MinorSeries(items)
           /\ \A s \in MinorSeries(items) :
                  \E p \in items : IsValid(p.version) /\ MajorMinor(p.version) = s
<1> DEFINE P == {q \in items : IsValid(q.version)}
           f == [p \in P |-> MajorMinor(p.version)]
<1>1. MinorSeries(items) = {MajorMinor(p.version) : p \in P}
  BY DEF MinorSeries
<1>2. \A p \in P : MajorMinor(p.version) \in Int
  <2>1. \A p \in P : p.version \in Semver
    BY VersionsTyped DEF Package, IsValid
  <2>2. QED
    BY <2>1 DEF Semver, MajorMinor
<1>3. IsFiniteSet(MinorSeries(items))
  <2>1. P \in SUBSET items
    OBVIOUS
  <2>2. IsFiniteSet(P)
    BY <2>1, FS_Subset
  <2>3. f \in Surjection(P, MinorSeries(items))
    BY <1>1 DEF Surjection
  <2>4. QED
    BY <2>2, <2>3, FS_Surjection
<1>4. QED
  BY <1>1, <1>2, <1>3

\* A plan that does not fail has its anchor among the released series, and its
\* cutoff too, at or below the anchor.
LEMMA PlanCutoff ==
    ASSUME NEW c, NEW trs, NEW items \in SUBSET Package, IsFiniteSet(items),
           Plannable(c, trs, items)
    PROVE  /\ AnchorOf(c, trs).series \in MinorSeries(items)
           /\ AnchorOf(c, trs).depth \in Nat
           /\ TrackCutoff(c, trs, items)
                = DeriveCutoff(MinorSeries(items), AnchorOf(c, trs).series, AnchorOf(c, trs).depth)
           /\ TrackCutoff(c, trs, items) \in MinorSeries(items)
           /\ TrackCutoff(c, trs, items) <= AnchorOf(c, trs).series
<1>1. AnchorOf(c, trs).series \in MinorSeries(items)
  BY DEF Plannable, PlanFails, AnchorOf
<1>2. AnchorOf(c, trs).depth \in Nat
  BY DEF AnchorOf, Anchor, ceAnchorDepth, eeAnchorDepth
<1>3. TrackCutoff(c, trs, items)
        = DeriveCutoff(MinorSeries(items), AnchorOf(c, trs).series, AnchorOf(c, trs).depth)
  BY DEF TrackCutoff, AnchorOf
<1>4. MinorSeries(items) \in SUBSET Int /\ IsFiniteSet(MinorSeries(items))
  BY SeriesOf
<1>5. QED
  BY <1>1, <1>2, <1>3, <1>4, CutoffPosition

\* What the plan of a tracked repository lists (plan.go:77).
LEMMA PrunedByTrack ==
    ASSUME NEW c, NEW trs, NEW items, NEW t, NEW p \in items, Tracked(c)
    PROVE  p \in Pruned(c, trs, items, t)
             <=> /\ p.version \notin c.exceptions
                 /\ IsValid(p.version)
                 /\ \/ MajorMinor(p.version) < TrackCutoff(c, trs, items)
                    \/ OlderThanAge(p, c.ageCutoff, t)
BY DEF Pruned, Protected, PlanNonSemver, BelowCutoff

\* A repository that keeps every series from the cutoff on keeps its plan: it
\* does not fail and has the same cutoff.
LEMMA SameCutoff ==
    ASSUME NEW c, NEW trs, NEW items \in SUBSET Package, IsFiniteSet(items),
           Plannable(c, trs, items),
           NEW kept \in SUBSET items,
           \A p \in items : /\ IsValid(p.version)
                            /\ TrackCutoff(c, trs, items) <= MajorMinor(p.version)
                            => p \in kept
    PROVE  Plannable(c, trs, kept) /\ TrackCutoff(c, trs, kept) = TrackCutoff(c, trs, items)
<1> DEFINE S == MinorSeries(items)
           K == MinorSeries(kept)
           a == AnchorOf(c, trs).series
           d == AnchorOf(c, trs).depth
<1>1. kept \in SUBSET Package /\ IsFiniteSet(kept)
  BY FS_Subset
<1>2. /\ S \in SUBSET Int /\ IsFiniteSet(S)
      /\ \A s \in S : \E p \in items : IsValid(p.version) /\ MajorMinor(p.version) = s
  BY SeriesOf
<1>3. K \in SUBSET S
  BY DEF MinorSeries
<1>4. a \in S /\ d \in Nat /\ TrackCutoff(c, trs, items) = DeriveCutoff(S, a, d)
  BY PlanCutoff
<1>5. \A p \in kept : IsValid(p.version) => MajorMinor(p.version) \in K
  BY <1>1, SeriesOf
<1>6. ASSUME NEW s \in S, DeriveCutoff(S, a, d) <= s
      PROVE  s \in K
  <2>1. PICK p \in items : IsValid(p.version) /\ MajorMinor(p.version) = s
    BY <1>2
  <2>2. p \in kept
    BY <1>4, <1>6, <2>1
  <2>3. QED
    BY <1>5, <2>1, <2>2
<1> HIDE DEF S, K, a, d
<1>7. a \in K /\ DeriveCutoff(K, a, d) = DeriveCutoff(S, a, d)
  BY <1>2, <1>3, <1>4, <1>6, CutoffKept
<1>8. Plannable(c, trs, kept)
  BY <1>7 DEF Plannable, PlanFails, AnchorOf, K, a
<1>9. TrackCutoff(c, trs, kept) = DeriveCutoff(K, a, d)
  BY DEF TrackCutoff, AnchorOf, K, a, d
<1>10. QED
  BY <1>4, <1>7, <1>8, <1>9

\* The plan prunes exactly the packages with more than `depth` released series
\* between them and the anchor, whatever was released and skipped (tracks.go:22, 113).
LEMMA WindowCounted == TypeOK => PlanKeepsWindow
<1> SUFFICES ASSUME TypeOK, Plannable(cfg, tracks, repo), NEW p \in repo,
                    p.version \notin cfg.exceptions, IsValid(p.version),
                    ~OlderThanAge(p, cfg.ageCutoff, now)
             PROVE  p \in Pruned(cfg, tracks, repo, now)
                      <=> Cardinality({t \in MinorSeries(repo) :
                                         /\ MajorMinor(p.version) < t
                                         /\ t <= AnchorOf(cfg, tracks).series})
                              > AnchorOf(cfg, tracks).depth
  BY DEF PlanKeepsWindow
<1> DEFINE S == MinorSeries(repo)
           a == AnchorOf(cfg, tracks).series
           d == AnchorOf(cfg, tracks).depth
           m == MajorMinor(p.version)
<1>1. repo \in SUBSET Package /\ IsFiniteSet(repo)
  BY DEF TypeOK
<1>2. S \in SUBSET Int /\ IsFiniteSet(S) /\ m \in S
  BY <1>1, SeriesOf
<1>3. a \in S /\ d \in Nat /\ TrackCutoff(cfg, tracks, repo) = DeriveCutoff(S, a, d)
  BY <1>1, PlanCutoff
<1>4. p \in Pruned(cfg, tracks, repo, now) <=> m < TrackCutoff(cfg, tracks, repo)
  BY PrunedByTrack DEF Plannable
<1> HIDE DEF S, a, d, m
<1>5. m < DeriveCutoff(S, a, d) <=> Cardinality({t \in S : m < t /\ t <= a}) > d
  BY <1>2, <1>3, CutoffCounts
<1>6. QED
  BY <1>3, <1>4, <1>5 DEF S, a, d, m

\* A valid track's previous LTS is of no later series than its current feature.
LEMMA AnchorsOrdered ==
    ASSUME NEW t \in TrackRecord, Validate(t)
    PROVE  MajorMinor(t.ltsMinus1) <= MajorMinor(t.currentFeature)
<1>1. t.ltsMinus1 \in Semver /\ t.currentLTS \in Semver /\ t.currentFeature \in Semver
  BY DEF TrackRecord, Validate, IsValid
<1>2. Older(t.ltsMinus1, t.currentLTS) /\ Older(t.currentLTS, t.currentFeature)
  BY DEF Validate
<1>3. QED
  BY <1>1, <1>2 DEF Older, MajorMinor, Semver

\* The window of both editions is the longer one: three below the previous LTS
\* reaches at least as far down as two below the current feature (tracks.go:68).
LEMMA LongerWindow == TypeOK => LongestWindowWins
<1> DEFINE only(eds) == [cfg EXCEPT !.editions = eds]
           both == only({"ce", "ee"})
<1> SUFFICES ASSUME TypeOK, NEW e \in {"ce", "ee"},
                    Plannable(only({e}), tracks, repo), Plannable(both, tracks, repo)
             PROVE  Pruned(both, tracks, repo, now) \subseteq Pruned(only({e}), tracks, repo, now)
  BY DEF LongestWindowWins
<1> DEFINE one == only({e})
           S == MinorSeries(repo)
<1>1. repo \in SUBSET Package /\ IsFiniteSet(repo)
  BY DEF TypeOK
<1>2. S \in SUBSET Int /\ IsFiniteSet(S)
      /\ \A p \in repo : IsValid(p.version) => MajorMinor(p.version) \in Int
  BY <1>1, SeriesOf
<1>3. /\ one.editions = {e} /\ both.editions = {"ce", "ee"}
      /\ one.track = cfg.track /\ both.track = cfg.track
      /\ one.exceptions = cfg.exceptions /\ both.exceptions = cfg.exceptions
      /\ one.ageCutoff = cfg.ageCutoff /\ both.ageCutoff = cfg.ageCutoff
  BY ConfigsTyped DEF TypeOK, PkgFields
<1> HIDE DEF one, both
<1>4. Tracked(one) /\ Tracked(both) /\ cfg.track \in DOMAIN tracks
  BY <1>3 DEF Plannable, PlanFails, one, both
<1> DEFINE l == MajorMinor(tracks[cfg.track].ltsMinus1)
           f == MajorMinor(tracks[cfg.track].currentFeature)
<1>5. /\ l \in S
      /\ TrackCutoff(both, tracks, repo) = DeriveCutoff(S, l, 3)
  <2>1. AnchorOf(both, tracks) = [series |-> l, depth |-> 3]
    BY <1>3 DEF AnchorOf, Anchor, eeAnchorDepth
  <2>2. QED
    BY <1>1, <2>1, PlanCutoff DEF both
<1>6. TrackCutoff(both, tracks, repo) <= TrackCutoff(one, tracks, repo)
  <2>1. CASE e = "ee"
    <3>1. AnchorOf(one, tracks) = [series |-> l, depth |-> 3]
      BY <1>3, <2>1 DEF AnchorOf, Anchor, eeAnchorDepth
    <3>2. TrackCutoff(one, tracks, repo) = DeriveCutoff(S, l, 3)
      BY <1>1, <3>1, PlanCutoff DEF one
    <3>3. DeriveCutoff(S, l, 3) \in Int
      BY <1>2, <1>5, CutoffPosition
    <3>4. QED
      BY <1>5, <3>2, <3>3
  <2>2. CASE e = "ce"
    <3>1. AnchorOf(one, tracks) = [series |-> f, depth |-> 2]
      BY <1>3, <2>2 DEF AnchorOf, Anchor, ceAnchorDepth
    <3>2. f \in S /\ TrackCutoff(one, tracks, repo) = DeriveCutoff(S, f, 2)
      BY <1>1, <3>1, PlanCutoff DEF one
    <3>3. l <= f
      BY <1>4, AnchorsOrdered DEF TypeOK
    <3> HIDE DEF S, l, f
    <3>4. Index(S, l) <= Index(S, f)
      BY <1>2, <1>5, <3>2, <3>3, IndexOrder
    <3>5. Index(S, l) \in Nat /\ Index(S, f) \in Nat
      BY <1>2, <1>5, <3>2, IndexType
    <3>6. /\ DeriveCutoff(S, l, 3) \in S
          /\ Index(S, DeriveCutoff(S, l, 3))
               = IF Index(S, l) - 3 < 0 THEN 0 ELSE Index(S, l) - 3
      BY <1>2, <1>5, CutoffPosition
    <3>7. /\ DeriveCutoff(S, f, 2) \in S
          /\ Index(S, DeriveCutoff(S, f, 2))
               = IF Index(S, f) - 2 < 0 THEN 0 ELSE Index(S, f) - 2
      BY <1>2, <3>2, CutoffPosition
    <3>8. Index(S, DeriveCutoff(S, l, 3)) <= Index(S, DeriveCutoff(S, f, 2))
      BY <3>4, <3>5, <3>6, <3>7
    <3>9. QED
      BY <1>2, <1>5, <3>2, <3>6, <3>7, <3>8, IndexOrder
  <2>3. QED
    BY <2>1, <2>2
<1>7. TrackCutoff(both, tracks, repo) \in Int /\ TrackCutoff(one, tracks, repo) \in Int
  BY <1>1, <1>2, PlanCutoff DEF one, both
<1>8. ASSUME NEW p \in Pruned(both, tracks, repo, now)
      PROVE  p \in Pruned(one, tracks, repo, now)
  <2>1. p \in repo
    BY DEF Pruned
  <2>2. /\ p.version \notin cfg.exceptions /\ IsValid(p.version)
        /\ \/ MajorMinor(p.version) < TrackCutoff(both, tracks, repo)
           \/ OlderThanAge(p, cfg.ageCutoff, now)
    BY <1>3, <1>4, <2>1, PrunedByTrack
  <2>3. MajorMinor(p.version) \in Int
    BY <1>2, <2>1, <2>2
  <2>4. \/ MajorMinor(p.version) < TrackCutoff(one, tracks, repo)
        \/ OlderThanAge(p, cfg.ageCutoff, now)
    BY <1>6, <1>7, <2>2, <2>3
  <2>5. QED
    BY <1>3, <1>4, <2>1, <2>2, <2>4, PrunedByTrack
<1>9. QED
  BY <1>8 DEF one, both

\* For every repository, config and track: what the plan keeps is the window that
\* tracks.go:22 describes, and the longest one of several editions (tracks.go:68).
THEOREM PlanWindowAlways == Spec => []PlanWindow
<1>1. TypeOK => PlanWindow
  BY WindowCounted, LongerWindow DEF PlanWindow
<1>2. QED
  BY <1>1, TypeCorrect, PTL

\* Removing all that a plan lists leaves a repository with the same plan cutoff and
\* nothing left to prune, however many series the removal takes away (plan.go:77).
THEOREM PlanIsStableAlways == Spec => []PlanIsStable
<1>1. TypeOK => PlanIsStable
  <2> SUFFICES ASSUME TypeOK, Plannable(cfg, tracks, repo), cfg.ageCutoff = 0
               PROVE  LET kept == repo \ Pruned(cfg, tracks, repo, now)
                      IN  /\ Plannable(cfg, tracks, kept)
                          /\ TrackCutoff(cfg, tracks, kept) = TrackCutoff(cfg, tracks, repo)
                          /\ Pruned(cfg, tracks, kept, now) = {}
    BY DEF PlanIsStable
  <2> DEFINE kept == repo \ Pruned(cfg, tracks, repo, now)
             k == TrackCutoff(cfg, tracks, repo)
  <2>1. repo \in SUBSET Package /\ IsFiniteSet(repo) /\ kept \in SUBSET repo
    BY DEF TypeOK
  <2>2. Tracked(cfg)
    BY DEF Plannable
  <2>3. k \in Int /\ \A p \in repo : IsValid(p.version) => MajorMinor(p.version) \in Int
    BY <2>1, SeriesOf, PlanCutoff
  <2>4. \A p \in repo : ~OlderThanAge(p, cfg.ageCutoff, now)
    BY DEF OlderThanAge
  <2>5. \A p \in repo : p \in Pruned(cfg, tracks, repo, now)
            <=> p.version \notin cfg.exceptions /\ IsValid(p.version) /\ MajorMinor(p.version) < k
    BY <2>2, <2>4, PrunedByTrack
  <2>6. \A p \in repo : IsValid(p.version) /\ k <= MajorMinor(p.version) => p \in kept
    <3> HIDE DEF k
    <3> QED
      BY <2>3, <2>5
  <2>7. Plannable(cfg, tracks, kept) /\ TrackCutoff(cfg, tracks, kept) = k
    <3> HIDE DEF kept
    <3> QED
      BY <2>1, <2>6, SameCutoff
  <2>8. ASSUME NEW p \in Pruned(cfg, tracks, kept, now)
        PROVE  FALSE
    <3>1. p \in kept
      BY DEF Pruned
    <3>2. p.version \notin cfg.exceptions /\ IsValid(p.version) /\ MajorMinor(p.version) < k
      <4> HIDE DEF kept
      <4> QED
        BY <2>1, <2>2, <2>4, <2>7, <3>1, PrunedByTrack
    <3>3. QED
      BY <2>5, <3>1, <3>2
  <2>9. QED
    BY <2>7, <2>8
<1>2. QED
  BY <1>1, TypeCorrect, PTL

-----------------------------------------------------------------------------
(* The plan over time *)

\* The config does not change, and the anchor of a repository's track never moves
\* to an older series: only current_feature is edited, and only forward.
LEMMA AnchorForward ==
    ASSUME TypeOK, [Next]_vars, Plannable(cfg, tracks, repo)
    PROVE  /\ cfg' = cfg
           /\ AnchorOf(cfg, tracks').depth = AnchorOf(cfg, tracks).depth
           /\ AnchorOf(cfg, tracks).series <= AnchorOf(cfg, tracks').series
<1>1. cfg' = cfg
  BY DEF Next, Publish, Tick, BumpFeature, Clean, vars
<1>2. AnchorOf(cfg, tracks').depth = AnchorOf(cfg, tracks).depth
  BY DEF AnchorOf, Anchor
<1>3. AnchorOf(cfg, tracks).series \in Int
  <2>1. repo \in SUBSET Package /\ IsFiniteSet(repo)
    BY DEF TypeOK
  <2>2. QED
    BY <2>1, SeriesOf, PlanCutoff
<1>4. CASE tracks' = tracks
  BY <1>1, <1>2, <1>3, <1>4
<1>5. ASSUME NEW n \in DOMAIN tracks, NEW v \in Versions \ NonSemver, BumpFeature(n, v)
      PROVE  AnchorOf(cfg, tracks).series <= AnchorOf(cfg, tracks').series
  <2>1. tracks' = [tracks EXCEPT ![n].currentFeature = v] /\ Older(tracks[n].currentFeature, v)
    BY <1>5 DEF BumpFeature
  <2>2. cfg.track \in DOMAIN tracks
    BY DEF Plannable, PlanFails
  <2>3. v \in Semver
    BY VersionsTyped
  <2>4. tracks[n] \in TrackRecord /\ Validate(tracks[n])
    BY DEF TypeOK
  <2>5. tracks[n].currentFeature \in Semver
    BY <2>4 DEF TrackRecord, Validate, IsValid
  <2>6. MajorMinor(tracks[n].currentFeature) <= MajorMinor(v)
    BY <2>1, <2>3, <2>5 DEF Older, MajorMinor, Semver
  <2>7. CASE cfg.track = n
    <3>1. tracks'[n] = [tracks[n] EXCEPT !.currentFeature = v]
      BY <2>1
    <3>2. tracks'[n].ltsMinus1 = tracks[n].ltsMinus1 /\ tracks'[n].currentFeature = v
      BY <2>4, <3>1 DEF TrackRecord
    <3>3. QED
      BY <1>3, <2>6, <2>7, <3>2 DEF AnchorOf, Anchor
  <2>8. CASE cfg.track # n
    <3>1. tracks'[cfg.track] = tracks[cfg.track]
      BY <2>1, <2>2, <2>8
    <3>2. QED
      BY <1>3, <3>1 DEF AnchorOf
  <2>9. QED
    BY <2>7, <2>8
<1>6. tracks' = tracks \/ \E n \in DOMAIN tracks, v \in Versions \ NonSemver : BumpFeature(n, v)
  BY DEF Next, Publish, Tick, Clean, vars
<1>7. QED
  BY <1>1, <1>2, <1>4, <1>5, <1>6

\* However many packages are published and however the current feature is bumped,
\* the cutoff of a full window never goes back (DeriveCutoff, tracks.go:113).
THEOREM WindowMovesForwardAlways == Spec => WindowMovesForward
<1> DEFINE Forward ==
        /\ repo \subseteq repo'
        /\ Plannable(cfg, tracks, repo) /\ Plannable(cfg, tracks, repo)'
        /\ WindowFull(cfg, tracks, repo)
        => TrackCutoff(cfg, tracks, repo) <= TrackCutoff(cfg, tracks, repo)'
<1>1. TypeOK /\ TypeOK' /\ [Next]_vars => [Forward]_vars
  <2> SUFFICES ASSUME TypeOK, TypeOK', [Next]_vars, repo \subseteq repo',
                      Plannable(cfg, tracks, repo), Plannable(cfg', tracks', repo'),
                      WindowFull(cfg, tracks, repo)
               PROVE  TrackCutoff(cfg, tracks, repo) <= TrackCutoff(cfg', tracks', repo')
    OBVIOUS
  <2> DEFINE S == MinorSeries(repo)
             T == MinorSeries(repo')
             a == AnchorOf(cfg, tracks).series
             b == AnchorOf(cfg, tracks').series
             d == AnchorOf(cfg, tracks).depth
  <2>1. cfg' = cfg /\ AnchorOf(cfg, tracks').depth = d /\ a <= b
    BY AnchorForward
  <2>2. /\ repo \in SUBSET Package /\ IsFiniteSet(repo)
        /\ repo' \in SUBSET Package /\ IsFiniteSet(repo')
    BY DEF TypeOK
  <2>3. S \in SUBSET Int /\ T \in SUBSET Int /\ IsFiniteSet(T)
    BY <2>2, SeriesOf
  <2>4. S \subseteq T
    BY DEF MinorSeries
  <2>5. a \in S /\ d \in Nat /\ TrackCutoff(cfg, tracks, repo) = DeriveCutoff(S, a, d)
    BY <2>2, PlanCutoff
  <2>6. b \in T /\ TrackCutoff(cfg', tracks', repo') = DeriveCutoff(T, b, d)
    BY <2>1, <2>2, PlanCutoff
  <2>7. Index(S, a) >= d
    BY DEF WindowFull
  <2> HIDE DEF S, T, a, b, d
  <2>8. QED
    BY <2>1, <2>3, <2>4, <2>5, <2>6, <2>7, CutoffForward
<1>2. QED
  BY <1>1, TypeCorrect, PTL DEF Spec, WindowMovesForward

\* A clean that takes no package of a series the plan retains leaves the plan's
\* cutoff where it was and never makes the plan fail (filter.go:76, plan.go:77).
THEOREM CleanLeavesWindowAlways == Spec => CleanLeavesWindow
<1> DEFINE Harmless ==
        /\ repo' \subseteq repo /\ repo' # repo
        /\ Plannable(cfg, tracks, repo)
        /\ cfg.ageCutoff = 0
        /\ IsValid(cfg.versionCutoff)
        /\ \A q \in repo : IsValid(q.version) /\ Older(q.version, cfg.versionCutoff)
                => MajorMinor(q.version) < TrackCutoff(cfg, tracks, repo)
        => /\ Plannable(cfg, tracks, repo)'
           /\ TrackCutoff(cfg, tracks, repo)' = TrackCutoff(cfg, tracks, repo)
<1>1. TypeOK /\ [Next]_vars => [Harmless]_vars
  <2> SUFFICES ASSUME TypeOK, [Next]_vars, repo' \subseteq repo, repo' # repo,
                      Plannable(cfg, tracks, repo), cfg.ageCutoff = 0,
                      IsValid(cfg.versionCutoff),
                      \A q \in repo : IsValid(q.version) /\ Older(q.version, cfg.versionCutoff)
                          => MajorMinor(q.version) < TrackCutoff(cfg, tracks, repo)
               PROVE  /\ Plannable(cfg', tracks', repo')
                      /\ TrackCutoff(cfg', tracks', repo') = TrackCutoff(cfg, tracks, repo)
    OBVIOUS
  <2>1. PICK p \in repo : Clean(p)
    BY DEF Next, Publish, Tick, BumpFeature, vars
  <2>2. repo' = repo \ {p} /\ cfg' = cfg /\ tracks' = tracks /\ p \in Selected(cfg, repo, now)
    BY <2>1 DEF Clean
  <2>3. IsValid(p.version) /\ Older(p.version, cfg.versionCutoff)
    BY <2>2 DEF Selected, Satisfies, MakeFilter, Canonical, OlderThanAge
  <2>4. repo \in SUBSET Package /\ IsFiniteSet(repo) /\ repo' \in SUBSET repo
    BY DEF TypeOK
  <2>5. /\ TrackCutoff(cfg, tracks, repo) \in Int
        /\ \A q \in repo : IsValid(q.version) => MajorMinor(q.version) \in Int
    BY <2>4, SeriesOf, PlanCutoff
  <2>6. ~(TrackCutoff(cfg, tracks, repo) <= MajorMinor(p.version))
    BY <2>3, <2>5
  <2>7. \A q \in repo : /\ IsValid(q.version)
                         /\ TrackCutoff(cfg, tracks, repo) <= MajorMinor(q.version)
                         => q \in repo'
    BY <2>2, <2>6
  <2>8. QED
    BY <2>2, <2>4, <2>7, SameCutoff
<1>2. QED
  BY <1>1, TypeCorrect, PTL DEF Spec, CleanLeavesWindow
=============================================================================
