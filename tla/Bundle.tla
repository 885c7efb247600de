------------------------------- MODULE Bundle -------------------------------
(***************************************************************************)
(* The templates of a branch's features are collected into a tree          *)
(* (NewBundle, fsTreeWalk, Add), and the tree is rendered into a directory *)
(* (Render, write), each file validated and formatted before it is         *)
(* written (src/policy/bundle.go, src/policy/validator.go).                *)
(*                                                                         *)
(* A template file is an identifier; Path gives its place below its        *)
(* feature, a sequence of names.  What a file renders to is the identifier *)
(* of the template that is executed.                                       *)
(***************************************************************************)
EXTENDS Naturals, Sequences, FiniteSets, Ordered

CONSTANTS
    Files,        \* the template files
    Path,         \* their paths, without templates/<feature>
    Walk,         \* from features with a directory to its files, as WalkDir visits them
    SubTemplates, \* the files in templates/subtemplates
    SubOf,        \* for a file in <template>.d the template, else None
    DotD,         \* the names that end in .d
    YamlNames,    \* the names that end in .yml or .yaml
    GoreleaserNames, \* the names that match goreleaser(-el7)?.yml
    ScriptNames,  \* the names that end in .sh
    NotFormatted, \* the files that skipYamlfmt names
    OpDirLen,     \* number of components of the output directory's path
    FeatureLists, \* the sets of features to look at, each as a sorted sequence
    MaxBad,       \* bound on templates that do not render properly
    MaxFailures,  \* bound on failing writes
    None

VARIABLES
    features, \* the features of the bundle
    bad,      \* templates that do not execute or render to something invalid, and how
    pc,       \* "walk", "render", "ok", "error" or "panic"
    fi,       \* index into features
    wi,       \* index into the walk of the feature
    added,    \* the files that were added, in order
    tree,     \* the nodes; children are ordered as in this sequence
    agenda,   \* the nodes still to be visited by Render
    rendered, \* the paths rendered so far
    out,      \* the files written completely in the output directory
    torn,     \* the files that were created or cut, and not written completely
    errorYaml, \* the template whose output is in error.yaml, or None
    failures

vars == <<features, bad, pc, fi, wi, added, tree, agenda, rendered, out, torn, errorYaml, failures>>

-----------------------------------------------------------------------------
Base(f) == Path[f][Len(Path[f])]

Root == [name |-> None, path |-> <<>>, parses |-> <<>>, parent |-> 0]

ChildrenOf(n) == {i \in 1 .. Len(tree) : tree[i].parent = n}

\* The children in order.
Children(n) == Sorted(ChildrenOf(n))

FirstChild(n, name) ==
    LET same == {i \in ChildrenOf(n) : tree[i].name = name}
    IN  IF same = {} THEN 0 ELSE CHOOSE i \in same : \A j \in same : i <= j

\* The tree with the file added: the nodes of its directories are looked for, from
\* the root down, and those that are not there are made, with the file's own node.
Add(path, parses) ==
    LET n == Len(path)
        found[i \in 0 .. n - 1] ==
            IF i = 0 THEN 1
            ELSE IF found[i - 1] = 0 THEN 0 ELSE FirstChild(found[i - 1], path[i])
        depth == Cardinality({i \in 1 .. n - 1 : found[i] # 0})
    IN  tree \o [k \in 1 .. n - depth |->
                    [name |-> path[depth + k], path |-> path, parses |-> parses,
                     parent |-> IF k = 1 THEN found[depth] ELSE Len(tree) + k - 1]]

\* The files in <template>.d, in the order of their names.
Own(f) ==
    LET walk == Walk[features[fi]] IN Selected(walk, {i \in 1 .. Len(walk) : SubOf[walk[i]] = f})

\* Mutant: the list of files to parse grows during the walk.
ParseList_Grows(f) == <<f>> \o SubTemplates \o added \o Own(f)

\* The files parsed for template f.
ParseList(f) == <<f>> \o SubTemplates \o Own(f)

\* What executing a template yields: of the files parsed under its name the last.
Executed(parses) ==
    LET same == {i \in 1 .. Len(parses) : Base(parses[i]) = Base(parses[1])}
    IN  parses[CHOOSE i \in same : \A j \in same : j <= i]

\* The validator for a file.  Its path begins with that of the output directory.
getValidator(path) ==
    LET n == OpDirLen + Len(path) - 1
        At(i) == IF i <= Len(path) /\ i > 0 THEN path[i] ELSE None
    IN  IF n > 3 /\ At(Len(path) - 1) = "workflow" /\ At(Len(path) - 2) = ".github" THEN "GHA"
        ELSE IF n > 1 /\ At(Len(path)) \in GoreleaserNames THEN "GORELEASER"
        ELSE "UNKNOWN"

\* Does write get as far as the file?  A file with a validator has to parse and to
\* satisfy the schema, a YAML file has to be formatted.
Accepted(path, how) ==
    /\ getValidator(path) # "UNKNOWN" => how = "good"
    /\ path[Len(path)] \in YamlNames /\ path \notin NotFormatted => how # "notyaml"

How(f) == IF f \in DOMAIN bad THEN bad[f] ELSE "good"

-----------------------------------------------------------------------------
Init ==
    /\ features \in FeatureLists
    /\ \E S \in SUBSET Files : Cardinality(S) <= MaxBad /\ bad \in [S -> {"fails", "notyaml", "invalid"}]
    /\ pc = "walk" /\ fi = 1 /\ wi = 1 /\ added = <<>>
    /\ tree = <<Root>>
    /\ agenda = <<>> /\ rendered = <<>> /\ out = <<>>
    /\ torn = {} /\ errorYaml = None
    /\ failures = 0

\* Mutant: the walk goes into the directories of sub-templates.
Visit_SubTemplates(f) ==
    tree' = Add(Path[f], ParseList(f)) /\ added' = Append(added, f)

\* fsTreeWalk does not go into a directory whose name ends in .d.
Visit(f) ==
    IF \E i \in 1 .. Len(Path[f]) - 1 : Path[f][i] \in DotD
    THEN UNCHANGED <<tree, added>>
    ELSE tree' = Add(Path[f], ParseList(f)) /\ added' = Append(added, f)

\* The next file of the feature.
WalkFile ==
    /\ pc = "walk" /\ fi <= Len(features)
    /\ features[fi] \in DOMAIN Walk /\ wi <= Len(Walk[features[fi]])
    /\ Visit(Walk[features[fi]][wi])
    /\ wi' = wi + 1
    /\ UNCHANGED <<features, bad, pc, fi, agenda, rendered, out, torn, errorYaml, failures>>

\* The next feature; one that has no directory has no files.
NextFeature ==
    /\ pc = "walk" /\ fi <= Len(features)
    /\ features[fi] \in DOMAIN Walk => wi > Len(Walk[features[fi]])
    /\ fi' = fi + 1 /\ wi' = 1
    /\ UNCHANGED <<features, bad, pc, added, tree, agenda, rendered, out, torn, errorYaml, failures>>

BeginRender ==
    /\ pc = "walk" /\ fi > Len(features)
    /\ pc' = "render" /\ agenda' = <<1>>
    /\ UNCHANGED <<features, bad, fi, wi, added, tree, rendered, out, torn, errorYaml, failures>>

-----------------------------------------------------------------------------
(* Render: depth first, the node in front of the agenda *)

Node == tree[agenda[1]]

Visiting == pc = "render" /\ agenda # <<>>

\* Mutant: the children are visited from the last to the first.
Descend_Backwards ==
    LET c == Children(agenda[1]) IN
    /\ Visiting /\ (Node.name \in DotD \/ ChildrenOf(agenda[1]) # {})
    /\ agenda' = [i \in 1 .. Len(c) |-> c[Len(c) + 1 - i]] \o Tail(agenda)
    /\ UNCHANGED <<features, bad, pc, fi, wi, added, tree, rendered, out, torn, errorYaml, failures>>

\* A node whose name ends in .d is left out, one with children is replaced by them.
Descend ==
    /\ Visiting /\ (Node.name \in DotD \/ ChildrenOf(agenda[1]) # {})
    /\ agenda' = (IF Node.name \in DotD THEN <<>> ELSE Children(agenda[1])) \o Tail(agenda)
    /\ UNCHANGED <<features, bad, pc, fi, wi, added, tree, rendered, out, torn, errorYaml, failures>>

\* The node is a file: it has no children and is not the root.
AtLeaf == Visiting /\ Node.name \notin DotD /\ ChildrenOf(agenda[1]) = {} /\ agenda[1] \in 2 .. Len(tree)

\* The node's template executes and its output is accepted.
WritesLeaf ==
    LET how == How(Executed(Node.parses))
    IN  AtLeaf /\ how # "fails" /\ Accepted(Node.path, how)

\* The output directory with the node's file.
WithFile(exec) ==
    [p \in DOMAIN out \union {Node.path} |->
        IF p = Node.path THEN [from |-> Executed(Node.parses), exec |-> exec] ELSE out[p]]

\* Mutant: scripts are not made executable.
RenderLeaf_NoChmod ==
    /\ WritesLeaf
    /\ out' = WithFile(FALSE)
    /\ rendered' = Append(rendered, Node.path)
    /\ agenda' = Tail(agenda)
    /\ UNCHANGED <<features, bad, pc, fi, wi, added, tree, torn, errorYaml, failures>>

\* Execute, write and, for a script, chmod.
RenderLeaf ==
    /\ WritesLeaf
    /\ out' = WithFile(Node.name \in ScriptNames)
    /\ rendered' = Append(rendered, Node.path)
    /\ agenda' = Tail(agenda)
    /\ UNCHANGED <<features, bad, pc, fi, wi, added, tree, torn, errorYaml, failures>>

\* The template does not execute, or its output is refused and written to error.yaml,
\* in the working directory, an error of which is ignored: Render returns.
LeafRefused ==
    LET from == Executed(Node.parses) IN
    /\ AtLeaf
    /\ \/ How(from) = "fails" /\ UNCHANGED errorYaml
       \/ How(from) # "fails" /\ ~Accepted(Node.path, How(from)) /\ errorYaml' \in {from, errorYaml}
    /\ pc' = "error" /\ agenda' = <<>> /\ rendered' = <<>>
    /\ UNCHANGED <<features, bad, fi, wi, added, tree, out, torn, failures>>

\* The file's path is in the output directory, cut, and not written to its end.
TearFile ==
    /\ torn' = torn \union {Node.path}
    /\ out' = [p \in DOMAIN out \ {Node.path} |-> out[p]]

\* Mutant: the error of the write is dropped.
WriteFails_Dropped ==
    /\ WritesLeaf /\ failures < MaxFailures
    /\ failures' = failures + 1
    /\ TearFile
    /\ rendered' = Append(rendered, Node.path)
    /\ agenda' = Tail(agenda)
    /\ UNCHANGED <<features, bad, pc, fi, wi, added, tree, errorYaml>>

\* A directory or the file cannot be made, the file is made and not written to its end,
\* or the mode of a script, which is that of the file before, cannot be set.
WriteFails ==
    /\ WritesLeaf /\ failures < MaxFailures
    /\ failures' = failures + 1
    /\ \/ UNCHANGED <<out, torn>>
       \/ TearFile
       \/ /\ Node.name \in ScriptNames /\ UNCHANGED torn
          /\ out' = WithFile(Node.path \in DOMAIN out /\ out[Node.path].exec)
    /\ pc' = "error" /\ agenda' = <<>> /\ rendered' = <<>>
    /\ UNCHANGED <<features, bad, fi, wi, added, tree, errorYaml>>

\* A bundle without files consists of the root, which has no template to execute.
EmptyBundle ==
    /\ pc = "render" /\ agenda = <<1>> /\ ChildrenOf(1) = {}
    /\ pc' = "panic" /\ agenda' = <<>>
    /\ UNCHANGED <<features, bad, fi, wi, added, tree, rendered, out, torn, errorYaml, failures>>

EndRender ==
    /\ pc = "render" /\ agenda = <<>>
    /\ pc' = "ok"
    /\ UNCHANGED <<features, bad, fi, wi, added, tree, agenda, rendered, out, torn, errorYaml, failures>>

Next ==
    \/ WalkFile \/ NextFeature \/ BeginRender
    \/ Descend \/ RenderLeaf \/ LeafRefused \/ WriteFails \/ EmptyBundle \/ EndRender

Spec == Init /\ [][Next]_vars

-----------------------------------------------------------------------------
(* Properties *)

InFeature(f) == \E i \in 1 .. Len(features) :
    features[i] \in DOMAIN Walk /\ \E j \in 1 .. Len(Walk[features[i]]) : Walk[features[i]][j] = f

\* The files that a template below the features is for: all but sub-templates.
Templates == {f \in Files : InFeature(f) /\ SubOf[f] = None}

\* Count: the leaves of the tree.
Count == Cardinality({n \in 1 .. Len(tree) : ChildrenOf(n) = {}})

\* No two features have the same file ("Rendering the same file from different
\* templates is _not_ supported", cmd/policy.go:57).
Disjoint == \A f, g \in Templates : f # g => Path[f] # Path[g]

\* "A template is a top-level file which will be rendered with the same path as it is
\* embedded as" (cmd/policy.go:55), and bundle_test.go expects Count files: a
\* rendering without error has made every file once, and no other.
EveryFileOnce ==
    pc = "ok" /\ Disjoint =>
        /\ DOMAIN out = {Path[f] : f \in Templates} /\ torn = {}
        /\ Len(rendered) = Count /\ Cardinality(DOMAIN out) = Count

\* A file is rendered from its own template, although templates in different
\* directories have the same base name, by which the library knows them
\* (bundle.go:220; TestFsTreeWalkBasenameCollision), even when features share files.
OwnContent == \A p \in DOMAIN out : Path[out[p].from] = p

\* When features share a file, the later feature's template is what remains.
LaterFeatureWins ==
    pc = "ok" => \A p \in DOMAIN out : \A f \in Templates : Path[f] = p =>
        \E i, j \in 1 .. Len(added) : added[i] = f /\ added[j] = out[p].from /\ i <= j

\* "Make all *.sh files executable" (bundle.go:114), and no other: of a rendering without
\* error, also when a file is written more than once.
ScriptsExecutable ==
    pc = "ok" => \A p \in DOMAIN out : out[p].exec <=> p[Len(p)] \in ScriptNames
=============================================================================
