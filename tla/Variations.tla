----------------------------- MODULE Variations -----------------------------
(***************************************************************************)
(* The test variations: every YAML file of a directory is a tree of        *)
(* matrices, test suite above branch above trigger above repository, in    *)
(* which a level inherits from those above it.  The trees are flattened    *)
(* (src/policy/variations.go) and published as a static site               *)
(* (src/policy/tui.go, src/policy/app/index.html).                         *)
(*                                                                         *)
(* A name is a sequence of parts, so that concatenating names does what it *)
(* does to strings.  A file name is a record of its stem, the number of s  *)
(* the stem is followed by and its extension.  A matrix has the list of    *)
(* environments, which may repeat, and one list that stands for those that *)
(* may not (pump, sink and the two of distros).                            *)
(***************************************************************************)
EXTENDS Naturals, Sequences, FiniteSets, Ordered

CONSTANTS
    Dirs,        \* directories; each is its files, in the order of their names
    Saved,       \* from YAML files to trees; a tree maps positions to matrices
    Master,      \* the name "master"
    ProdStem,    \* "prod-variation"
    MaxFailures, \* bound on files that cannot be loaded and writes that fail
    None

VARIABLES
    dir,     \* the directory
    pc,      \* "load", "parse", "files", "paths", "index", "assets", "ok" or "error"
    di,      \* index into dir
    frames,  \* the calls of parseVariations, the innermost first
    v,       \* the variations of the file that is being loaded or published
    av,      \* from the files that are loaded to their variations
    todo,    \* the files still to be published
    cur,     \* the file that is being published
    pi,      \* index into the paths of that file
    out,     \* from the places of the files written completely to what is in them
    torn,    \* the places where a write began and failed
    failures

vars == <<dir, pc, di, frames, v, av, todo, cur, pi, out, torn, failures>>

-----------------------------------------------------------------------------
IsYaml(f) == f.ext \in {"yaml", "yml"}

\* Depth of the levels.
Testsuite == 0
Branch == 1
Trigger == 2
Repo == 3

NewVariations == [leaves |-> <<>>, paths |-> <<>>]

\* f with the value x at a.
Put(f, a, x) == [b \in DOMAIN f \union {a} |-> IF b = a THEN x ELSE f[b]]

removeDuplicates(s) == Selected(s, {i \in 1 .. Len(s) : \A j \in 1 .. i - 1 : s[j] # s[i]})

\* Mutant: the trigger is not part of the key.
createVariationKey_NoTrigger(repo, branch, trigger, testsuite) == repo \o branch \o testsuite

createVariationKey(repo, branch, trigger, testsuite) == repo \o branch \o trigger \o testsuite

KeyOf(path) == createVariationKey(path.repo, path.branch, path.trigger, path.testsuite)

\* The matrix of a level below one whose matrix is parent.
Inherit(own, parent) ==
    [env |-> own.env \o parent.env, lists |-> removeDuplicates(own.lists \o parent.lists)]

Zero == [env |-> <<>>, lists |-> <<>>]

\* What is not known is taken from master, which need not be there either.
Lookup(w, repo, branch, trigger, testsuite) ==
    LET key == createVariationKey(repo, branch, trigger, testsuite)
        fallback == createVariationKey(repo, Master, trigger, testsuite)
    IN  IF key \in DOMAIN w.leaves THEN w.leaves[key]
        ELSE IF fallback \in DOMAIN w.leaves THEN w.leaves[fallback]
        ELSE Zero

PathsOf(w) == {w.paths[i] : i \in 1 .. Len(w.paths)}

Repos(w) == {p.repo : p \in PathsOf(w)}

Branches(w, repo) == {p.branch : p \in {q \in PathsOf(w) : q.repo = repo}}

Triggers(w, repo, branch) ==
    {p.trigger : p \in {q \in PathsOf(w) : q.repo = repo /\ q.branch = branch}}

\* Mutant: the suites of all the triggers.
Testsuites_AnyTrigger(w, repo, branch, trigger) ==
    {p.testsuite : p \in {q \in PathsOf(w) : q.repo = repo /\ q.branch = branch}}

Testsuites(w, repo, branch, trigger) ==
    {p.testsuite : p \in {q \in PathsOf(w) :
        q.repo = repo /\ q.branch = branch /\ q.trigger = trigger}}

\* The name of the file without .yaml or .yml and then without one s.
Tsv(f) == [stem |-> f.stem, s |-> IF f.s > 0 THEN f.s - 1 ELSE 0]

\* The page that the index links to: of the extensions only .yml is taken off, and
\* only what then ends in an s loses it.
DumpLink(f) == IF f.ext = "yml" THEN Tsv(f) ELSE f

\* What the index says: the rows in the order of the accessors, each looked up again.
IndexRows(f) ==
    LET w == av[f] IN
    {[file |-> f, path |-> p, m |-> Lookup(w, p.repo, p.branch, p.trigger, p.testsuite)] :
        p \in UNION {UNION {UNION {
                {[testsuite |-> ts, branch |-> b, trigger |-> tr, repo |-> r]
                    : ts \in Testsuites(w, r, b, tr)}
                : tr \in Triggers(w, r, b)} : b \in Branches(w, r)} : r \in Repos(w)}}

-----------------------------------------------------------------------------
\* The site is made in a directory that is empty (.github/workflows/pages.yml:39).
Init ==
    /\ dir \in Dirs
    /\ pc = "load" /\ di = 1 /\ frames = <<>>
    /\ v = NewVariations /\ av = <<>>
    /\ todo = {} /\ cur = None /\ pi = 1
    /\ out = <<>> /\ torn = {}
    /\ failures = 0

-----------------------------------------------------------------------------
(* loadAllVariations *)

\* The levels below position p of tree t.
Levels(t, p) ==
    {q[Len(q)] : q \in {q \in DOMAIN t : Len(q) = Len(p) + 1 /\ SubSeq(q, 1, Len(p)) = p}}

SkipFile ==
    /\ pc = "load" /\ di <= Len(dir) /\ ~IsYaml(dir[di])
    /\ di' = di + 1
    /\ UNCHANGED <<dir, pc, frames, v, av, todo, cur, pi, out, torn, failures>>

\* loadVariation: the file is read and parseVariations is called on its root.
LoadFile ==
    LET t == Saved[dir[di]] IN
    /\ pc = "load" /\ di <= Len(dir) /\ IsYaml(dir[di])
    /\ pc' = "parse" /\ v' = NewVariations
    /\ frames' = <<[at |-> <<>>, m |-> t[<<>>], left |-> Levels(t, <<>>),
                    path |-> [testsuite |-> <<>>, branch |-> <<>>, trigger |-> <<>>, repo |-> <<>>]]>>
    /\ UNCHANGED <<dir, di, av, todo, cur, pi, out, torn, failures>>

\* A file that cannot be read or is no YAML: nothing is published.
LoadFails ==
    /\ pc = "load" /\ di <= Len(dir) /\ IsYaml(dir[di]) /\ failures < MaxFailures
    /\ pc' = "error" /\ failures' = failures + 1
    /\ UNCHANGED <<dir, di, frames, v, av, todo, cur, pi, out, torn>>

\* All files are loaded; a directory without YAML files is an error.
EndLoad ==
    /\ pc = "load" /\ di > Len(dir)
    /\ IF av = <<>> THEN pc' = "error" /\ UNCHANGED todo
                    ELSE pc' = "files" /\ todo' = DOMAIN av
    /\ UNCHANGED <<dir, di, frames, v, av, cur, pi, out, torn, failures>>

-----------------------------------------------------------------------------
(* parseVariations: the innermost call takes the next level, in any order *)

Top == frames[1]

\* The path with the name of the level at this depth.
Named(path, depth, level) ==
    CASE depth = Testsuite -> [path EXCEPT !.testsuite = level]
      [] depth = Branch -> [path EXCEPT !.branch = level]
      [] depth = Trigger -> [path EXCEPT !.trigger = level]
      [] depth = Repo -> [path EXCEPT !.repo = level]

\* A level of the tree: it inherits, a repository is a leaf, and the levels below it
\* are parsed in a call of their own, with a copy of the path.
ParseLevel(level) ==
    LET depth == Len(Top.at)
        at == Append(Top.at, level)
        m == Inherit(Saved[dir[di]][at], Top.m)
        path == Named(Top.path, depth, level)
    IN  /\ pc = "parse" /\ frames # <<>> /\ level \in Top.left /\ depth <= Repo
        /\ v' = IF depth = Repo
                THEN [leaves |-> Put(v.leaves, KeyOf(path), m), paths |-> Append(v.paths, path)]
                ELSE v
        /\ frames' = <<[at |-> at, m |-> m, left |-> Levels(Saved[dir[di]], at), path |-> path],
                       [Top EXCEPT !.left = @ \ {level}, !.path = path]>> \o Tail(frames)
        /\ UNCHANGED <<dir, pc, di, av, todo, cur, pi, out, torn, failures>>

\* Mutant: a level too deep ends the whole parse.
ParseReturn_All ==
    /\ pc = "parse" /\ frames # <<>>
    /\ Top.left = {} \/ Len(Top.at) > Repo
    /\ frames' = IF Top.left = {} THEN Tail(frames) ELSE <<>>
    /\ UNCHANGED <<dir, pc, di, v, av, todo, cur, pi, out, torn, failures>>

\* A call returns when its levels are done, or at once below a repository.
ParseReturn ==
    /\ pc = "parse" /\ frames # <<>>
    /\ Top.left = {} \/ Len(Top.at) > Repo
    /\ frames' = Tail(frames)
    /\ UNCHANGED <<dir, pc, di, v, av, todo, cur, pi, out, torn, failures>>

EndFile ==
    /\ pc = "parse" /\ frames = <<>>
    /\ av' = Put(av, dir[di], v)
    /\ pc' = "load" /\ di' = di + 1
    /\ UNCHANGED <<dir, frames, v, todo, cur, pi, out, torn, failures>>

-----------------------------------------------------------------------------
(* GenerateStatic: the files in any order *)

Fail ==
    /\ failures < MaxFailures /\ failures' = failures + 1
    /\ pc' = "error"
    /\ UNCHANGED <<dir, di, frames, v, av, todo, cur, pi>>

\* The variations of the next file are dumped.
DumpFile(f) ==
    /\ pc = "files" /\ f \in todo
    /\ pc' = "paths" /\ todo' = todo \ {f} /\ cur' = f /\ pi' = 1
    /\ out' = Put(out, <<"dump", Tsv(f)>>, av[f])
    /\ UNCHANGED <<dir, di, frames, v, av, torn, failures>>

\* After the writes of o one fails: the files at cut are there, empty or cut short.
Breaks(o, cut) ==
    /\ out' = [a \in DOMAIN o \ cut |-> o[a]]
    /\ torn' = torn \union cut

DumpFails ==
    /\ pc = "files"
    /\ Fail
    /\ \E f \in todo : \E cut \in SUBSET {<<"dump", Tsv(f)>>} : Breaks(out, cut)

\* The pages for a path: the matrix, its fields, and for production the old address.
Pages(path) ==
    <<<<"gho", Tsv(cur), path>>, <<"field", Tsv(cur), path>>>>
        \o IF Tsv(cur) = [stem |-> ProdStem, s |-> 0] THEN <<<<"legacy", path>>>> ELSE <<>>

Written(path, n) ==
    LET places == {Pages(path)[i] : i \in 1 .. n}
        m == Lookup(av[cur], path.repo, path.branch, path.trigger, path.testsuite)
    IN  [a \in DOMAIN out \union places |-> IF a \in places THEN m ELSE out[a]]

WritePath ==
    LET path == av[cur].paths[pi] IN
    /\ pc = "paths" /\ pi <= Len(av[cur].paths)
    /\ out' = Written(path, Len(Pages(path)))
    /\ pi' = pi + 1
    /\ UNCHANGED <<dir, pc, di, frames, v, av, todo, cur, torn, failures>>

\* A page cannot be written; those before it are.  The fields are written one after the
\* other, each to its own pages and then to its old address: when one fails, both may
\* be begun.
WritePathFails ==
    LET path == av[cur].paths[pi] IN
    /\ pc = "paths" /\ pi <= Len(av[cur].paths)
    /\ Fail
    /\ \E n \in 0 .. Len(Pages(path)) - 1 : \E begun \in n .. Len(Pages(path)) :
          /\ n = 0 => begun <= 1
          /\ Breaks(Written(path, n), {Pages(path)[i] : i \in n + 1 .. begun})

EndPaths ==
    /\ pc = "paths" /\ pi > Len(av[cur].paths)
    /\ pc' = "files"
    /\ UNCHANGED <<dir, di, frames, v, av, todo, cur, pi, out, torn, failures>>

GenerateIndex ==
    /\ pc = "files" /\ todo = {}
    /\ out' = Put(out, <<"index">>, [rows |-> UNION {IndexRows(f) : f \in DOMAIN av},
                                     links |-> {DumpLink(f) : f \in DOMAIN av}])
    /\ pc' = "assets"
    /\ UNCHANGED <<dir, di, frames, v, av, todo, cur, pi, torn, failures>>

CopyAssets ==
    /\ pc = "assets"
    /\ out' = Put(out, <<"static">>, None)
    /\ pc' = "ok"
    /\ UNCHANGED <<dir, di, frames, v, av, todo, cur, pi, torn, failures>>

\* What is written last: the index, then the assets.
Last == IF pc = "files" /\ todo = {} THEN {<<"index">>} ELSE IF pc = "assets" THEN {<<"static">>} ELSE {}

\* Mutant: the error of the index is not returned.
SiteFails_Dropped ==
    /\ Last # {} /\ failures < MaxFailures /\ failures' = failures + 1
    /\ pc' = IF pc = "files" THEN "assets" ELSE "error"
    /\ \E cut \in SUBSET Last : Breaks(out, cut)
    /\ UNCHANGED <<dir, di, frames, v, av, todo, cur, pi>>

\* The index or an asset cannot be written, or not to its end (the template is executed
\* into the file that was created).
SiteFails ==
    /\ Last # {}
    /\ Fail
    /\ \E cut \in SUBSET Last : Breaks(out, cut)

Next ==
    \/ SkipFile \/ LoadFile \/ LoadFails \/ EndLoad
    \/ (pc = "parse" /\ frames # <<>> /\ \E level \in Top.left : ParseLevel(level))
    \/ ParseReturn \/ EndFile
    \/ (\E f \in todo : DumpFile(f))
    \/ DumpFails \/ WritePath \/ WritePathFails \/ EndPaths
    \/ GenerateIndex \/ CopyAssets \/ SiteFails

Spec == Init /\ [][Next]_vars

-----------------------------------------------------------------------------
(* Properties *)

YamlFiles == {f \in {dir[i] : i \in 1 .. Len(dir)} : IsYaml(f)}

\* The paths that a file has, from its tree.
TreePaths(f) ==
    {[testsuite |-> q[1], branch |-> q[2], trigger |-> q[3], repo |-> q[4]]
        : q \in {q \in DOMAIN Saved[f] : Len(q) = 4}}

\* What a path inherits, from the tree: the matrices on the way up to the root.
OnTheWay(f, p) ==
    LET at == <<p.testsuite, p.branch, p.trigger, p.repo>> IN
    [i \in 1 .. 5 |-> Saved[f][SubSeq(at, 1, 5 - i)]]

EnvOf(f, p) ==
    LET w == OnTheWay(f, p) IN w[1].env \o w[2].env \o w[3].env \o w[4].env \o w[5].env

ListsOf(f, p) ==
    LET w == OnTheWay(f, p) IN w[1].lists \o w[2].lists \o w[3].lists \o w[4].lists \o w[5].lists

\* s has the elements of t once each, in the order in which they first occur in t.
IsWithoutRepeats(s, t) ==
    /\ {s[i] : i \in 1 .. Len(s)} = {t[i] : i \in 1 .. Len(t)}
    /\ LET First(x) == CHOOSE i \in 1 .. Len(t) : t[i] = x /\ \A j \in 1 .. i - 1 : t[j] # x
       IN  \A i, j \in 1 .. Len(s) : i < j => First(s[i]) < First(s[j])

\* Whatever the order in which the levels and the files are taken, a page for a path
\* holds what that path inherits: its own environments first and those of the root
\* last ("this set up will be used in all executions below", config/tui/prod-variations.yml:1),
\* and no value of a list twice (parseVariations, Lookup, GenerateStatic).
PagesInherit ==
    \A f \in DOMAIN av : \A p \in TreePaths(f) :
        LET a == <<"gho", Tsv(f), p>> IN
        a \in DOMAIN out =>
            out[a].env = EnvOf(f, p) /\ IsWithoutRepeats(out[a].lists, ListsOf(f, p))

\* Without error a page is made for every repository of every tree and for nothing else,
\* the old addresses are those of production alone (tui.go:81), the index and the assets
\* are there, and no file is cut short: only such a site is deployed (pages.yml:42-49).
EveryPathPublished ==
    pc = "ok" =>
        /\ torn = {} /\ {<<"index">>, <<"static">>} \subseteq DOMAIN out
        /\ {a \in DOMAIN out : a[1] = "gho"} =
               UNION {{<<"gho", Tsv(f), p>> : p \in TreePaths(f)} : f \in YamlFiles}
        /\ {a \in DOMAIN out : a[1] = "legacy"} =
               UNION {{<<"legacy", p>> : p \in TreePaths(f)} :
                        f \in {g \in YamlFiles : Tsv(g) = [stem |-> ProdStem, s |-> 0]}}

\* An index that was completed comes with all pages, also when a later write fails: each
\* of its rows is a page with the same matrix, and each page of a file is a row
\* (generateIndex after the loop of GenerateStatic; the accessors Repos to Testsuites).
IndexMatchesPages ==
    <<"index">> \in DOMAIN out =>
        LET rows == out[<<"index">>].rows IN
        /\ \A r \in rows : /\ <<"gho", Tsv(r.file), r.path>> \in DOMAIN out
                           /\ out[<<"gho", Tsv(r.file), r.path>>] = r.m
        /\ \A f \in YamlFiles : {r.path : r \in {x \in rows : x.file = f}} = TreePaths(f)
=============================================================================
