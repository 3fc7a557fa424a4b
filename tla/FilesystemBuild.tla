--------------------------- MODULE FilesystemBuild ---------------------------
(***************************************************************************)
(* InitialiseFilesystem: repositories and buckets are listed, worker       *)
(* goroutines list the objects of the buckets and grow a tree, and the     *)
(* tree is laid out as the array of nodes that the C callbacks search.     *)
(* The jobs of the workers and what the GUI is told are those of BuildPool.*)
(*                                                                         *)
(* The tree is a function from paths, sequences of the names shown, to     *)
(* nodes.  A name of an object, a bucket or a directory is a record        *)
(* [stem, c4gh]; a name shown also has the mark that makes it unique: the  *)
(* first digits of a hash, which stand here for what was hashed.  Stems    *)
(* have no dots, so that the mark of a file and of a directory come at the *)
(* same place.                                                             *)
(***************************************************************************)
EXTENDS BuildPool, Sequences, SequencesExt

CONSTANTS
    Stems,          \* the names of storage without .c4gh, in strcmp's order
    Clean,          \* removeInvalidChars: [stems -> stems]
    Strip,          \* the name of a dataset without its scheme
    Storages,       \* what storage may hold: see MCFilesystemBuild
    Project,        \* the name of the project, a stem
    NoMark, NoOwner, NoNode

FilesystemBuildAssumption ==
    /\ \A s \in ToSet(Stems) : {Clean[s], Strip[s]} \subseteq ToSet(Stems)
    /\ Project \in ToSet(Stems)
    /\ \A s \in Storages : DOMAIN s = Repositories
ASSUME FilesystemBuildAssumption

VARIABLES
    storage,        \* [repositories -> buckets and objects], never changes
    tree,           \* the goNodes, by the path they are shown at
    array           \* fi.nodes, fi.headers: [nodes, count, headers]

vars == <<storage, tree, array, pool>>

-----------------------------------------------------------------------------
(* The tree *)

Name(stem) == [stem |-> stem, c4gh |-> FALSE]
Meta(name) == [name |-> name, size |-> 0, time |-> 0, owner |-> NoOwner]

newGoNode(meta, isDir) ==
    [name |-> meta.name, size |-> meta.size, time |-> meta.time,
     owner |-> meta.owner, dir |-> isDir]

\* The tree with a node at a path, in place of what was there.
Put(t, path, node) ==
    (path :> node) @@ Restrict(t, {p \in DOMAIN t : ~IsPrefix(path, p)})

SafeName(name, isDir) ==
    [stem |-> Clean[name.stem], c4gh |-> isDir /\ name.c4gh, mark |-> NoMark]

\* mutant: nodes of one name are not told apart
makeNode_NoMark(t, prnt, meta, isDir) ==
    LET path == Append(prnt, SafeName(meta.name, isDir))
    IN  [tree |-> Put(t, path, newGoNode(meta, isDir)), at |-> path]

\* Returns the tree with the node, and the path it is shown at.  Of two
\* siblings with one name a file gives way to a directory, otherwise the
\* newcomer to the older.
makeNode(t, prnt, meta, isDir) ==
    LET name == SafeName(meta.name, isDir)
        path == Append(prnt, name)
        marked(orig) == Append(prnt, [name EXCEPT !.mark = orig])
        node == newGoNode(meta, isDir)
    IN  IF path \notin DOMAIN t
        THEN [tree |-> Put(t, path, node), at |-> path]
        ELSE IF isDir /\ ~t[path].dir
        THEN [tree |-> Put(Put(t, marked(t[path].name), t[path]), path, node),
              at |-> path]
        ELSE [tree |-> Put(t, marked(meta.name), node),
              at |-> marked(meta.name)]

\* The objects of meta below prnt: files first, then one directory for each
\* first part of a longer key, in the order of the map, and what is in it.
RECURSIVE createLevel(_, _, _, _)
createLevel(t, prnt, meta, order) ==
    LET file(u, m) ==
            IF Len(m.key) > 1 THEN u
            ELSE makeNode(u, prnt,
                    [name |-> m.key[1], size |-> m.size, time |-> m.time,
                     owner |-> m.owner], FALSE).tree
        below(d) == SelectSeq(meta, LAMBDA m : Len(m.key) > 1 /\ m.key[1] = d)
        directory(u, d) ==
            LET made == makeNode(u, prnt, Meta(d), TRUE)
            IN  createLevel(made.tree, made.at,
                    [i \in DOMAIN below(d) |->
                        [below(d)[i] EXCEPT !.key = Tail(@)]], order)
    IN  FoldLeft(directory, FoldLeft(file, t, meta),
                 SelectSeq(order, LAMBDA d : below(d) # <<>>))

\* Buckets that hold segments go to the end, by exchanges.
RECURSIVE separateSegmentBuckets(_, _, _)
separateSegmentBuckets(buckets, i, lastIdx) ==
    IF i > lastIdx
    THEN <<SubSeq(buckets, 1, lastIdx),
           SubSeq(buckets, lastIdx + 1, Len(buckets))>>
    ELSE IF ~buckets[i].segments
    THEN separateSegmentBuckets(buckets, i + 1, lastIdx)
    ELSE LET last == Max({j \in i..lastIdx : j = i \/ ~buckets[j].segments})
         IN  separateSegmentBuckets(
                [buckets EXCEPT ![i] = buckets[last], ![last] = buckets[i]],
                i + 1, last - 1)

\* The size of an object is the size of its segments, whose keys have two
\* more parts.
getObjectSizesFromSegments(segments, key) ==
    LET size(n, m) ==
            IF SubSeq(m.key, 1, Max({Len(m.key) - 2, 0})) = key
            THEN n + m.size ELSE n
    IN  FoldLeft(size, 0, segments)

-----------------------------------------------------------------------------
(* The array of nodes, indexed from 0 as in C *)

Children(t, path) ==
    {p \in DOMAIN t : Len(p) = Len(path) + 1 /\ IsPrefix(path, p)}

Rank(name) == 2 * SelectInSeq(Stems, LAMBDA s : s = name.stem)
              + (IF name.c4gh THEN 1 ELSE 0)

\* compare_nodes; a mark comes after the stem.
Less(a, b) ==
    LET bare(n) == Rank([stem |-> n.stem, c4gh |-> n.c4gh])
        mark(n) == IF n.mark = NoMark THEN 0 ELSE Rank(n.mark)
    IN  bare(a) < bare(b) \/ (bare(a) = bare(b) /\ mark(a) < mark(b))

\* mutant: compares the other way round than bsearch does
sort_node_children_Descending(names) == Reverse(SetToSortSeq(names, Less))

sort_node_children(names) == SetToSortSeq(names, Less)

numberOfNodes(t) == Cardinality(DOMAIN t)

goNodeToC(node, name, prnt) ==
    [name |-> name, orig |-> node.name, size |-> node.size,
     time |-> node.time, dir |-> node.dir, ino |-> 0, parent |-> prnt,
     children |-> NoNode, chld_count |-> 0]

\* Puts the children of the node at prntIdx next to each other, sorted, then
\* what is below them; sizes add up and the latest time wins.
RECURSIVE addNodeChildrenToC(_, _, _, _)
addNodeChildrenToC(a, t, prnt, prntIdx) ==
    LET names == sort_node_children({Last(p) : p \in Children(t, prnt)})
        startIdx == a.count
        added == startIdx .. startIdx + Len(names) - 1
        path(i) == Append(prnt, names[i - startIdx + 1])
        placed ==
            [a EXCEPT !.count = @ + Len(names),
             !.nodes = [i \in added |->
                    [goNodeToC(t[path(i)], Last(path(i)), prntIdx)
                        EXCEPT !.ino = i]]
                @@ (prntIdx :> [@[prntIdx] EXCEPT !.children = startIdx,
                                                  !.chld_count = Len(names)])
                @@ @]
        descend(b, n) ==
            LET i == startIdx + n - 1
                c == IF Children(t, path(i)) # {}
                     THEN addNodeChildrenToC(b, t, path(i), i)
                     ELSE IF t[path(i)].owner # NoOwner
                     THEN [b EXCEPT !.headers = @ @@ (i :> t[path(i)].owner)]
                     ELSE b
            IN  [c EXCEPT !.nodes[prntIdx].size = @ + c.nodes[i].size,
                          !.nodes[prntIdx].time = Max({@, c.nodes[i].time})]
    IN  FoldLeftDomain(descend, placed, names)

\* nodeSlice[0] is the root; the rest is not initialised until it is placed.
NodeArray(t) ==
    addNodeChildrenToC(
        [nodes |-> [i \in 0 .. numberOfNodes(t) - 1 |->
            IF i = 0 THEN goNodeToC(t[<<>>], NoNode, NoNode) ELSE NoNode],
         count |-> 1, headers |-> << >>], t, <<>>, 0)

RECURSIVE bsearch(_, _, _, _)
bsearch(nodes, first, n, name) ==
    LET mid == first + n \div 2
    IN  IF n = 0 THEN NoNode
        ELSE IF nodes[mid].name = name THEN mid
        ELSE IF Less(name, nodes[mid].name)
        THEN bsearch(nodes, first, n \div 2, name)
        ELSE bsearch(nodes, mid + 1, n - n \div 2 - 1, name)

search_node(a, path) ==
    LET step(i, name) ==
            IF i = NoNode THEN NoNode
            ELSE bsearch(a.nodes, a.nodes[i].children, a.nodes[i].chld_count,
                         name)
    IN  IF a.count = 0 THEN NoNode ELSE FoldLeft(step, 0, path)

\* The original names from the root to a node: what storage is asked for.
RECURSIVE getNodePathNames(_, _)
getNodePathNames(a, i) ==
    IF i = NoNode THEN <<>>
    ELSE Append(getNodePathNames(a, a.nodes[i].parent), a.nodes[i].orig)

-----------------------------------------------------------------------------
(* InitialiseFilesystem *)

Root == << >> :> newGoNode(Meta(Name("")), TRUE)

\* The buckets listed, those shared with the project at the end.
GetBuckets(rep) ==
    {storage[rep].own \o storage[rep].shared}
        \cup IF rep = "SD-Connect" /\ "noBuckets" \in Events
             THEN {storage[rep].own} ELSE {}

Init ==
    /\ storage \in Storages
    /\ tree = Root
    /\ array = NoNode
    /\ PoolInit

Folder(rep) == makeNode(tree, <<>>, Meta(Name(rep)), TRUE)

ListingFails(rep) ==
    /\ NothingListed(rep)
    /\ "noBuckets" \in Events \/ <<>> \in GetBuckets(rep)
    /\ tree' = Folder(rep).tree
    /\ UNCHANGED <<storage, array>>

\* The project of SD Connect is a directory and a row of the page; every
\* dataset of SD Apply is a row of its own.
ListBuckets(rep) ==
    /\ pc = "repositories" /\ rep \in todo
    /\ todo' = todo \ {rep}
    /\ \E listed \in GetBuckets(rep) \ {<<>>} :
        LET separated == separateSegmentBuckets(listed, 1, Len(listed))
            connect == rep = "SD-Connect"
            project == IF ~connect THEN Folder(rep)
                       ELSE makeNode(Folder(rep).tree, Folder(rep).at,
                                     Meta(Name(Project)), TRUE)
            gui == IF ~connect THEN Gui
                   ELSE trackProjectProgress(Gui,
                            <<rep, SafeName(Name(Project), TRUE)>>,
                            Len(separated[1]))
            bucket(s, b) ==
                LET shown == IF connect THEN b.stem ELSE Strip[b.stem]
                    made == makeNode(s.tree, project.at,
                                [Meta(Name(shown)) EXCEPT !.owner = b.owner],
                                TRUE)
                IN  [tree |-> [made.tree EXCEPT ![made.at].name = Name(b.stem)],
                     gui |-> IF connect THEN s.gui
                             ELSE trackProjectProgress(s.gui,
                                    <<rep, Last(made.at)>>, 1)]
            made == FoldLeft(bucket, [tree |-> project.tree, gui |-> gui],
                             separated[1])
            segmented(p) == \E b \in ToSet(separated[2]) :
                Last(p) = [stem |-> b.stem, c4gh |-> FALSE, mark |-> NoMark]
        IN  /\ tree' = [p \in DOMAIN made.tree |->
                IF p \in Children(made.tree, project.at) /\ segmented(p)
                THEN [made.tree[p] EXCEPT !.name = Name(Last(p).stem)]
                ELSE made.tree[p]]
            /\ prog' = made.gui.prog
            /\ page' = made.gui.page
            /\ jobs' = jobs \cup
                {[repository |-> rep, at |-> p, segmented |-> segmented(p)] :
                    p \in Children(made.tree, project.at)}
    /\ UNCHANGED <<storage, array, pc, busy, skipped, ended, pending>>

\* Keys that end in a slash stand for empty directories.
Listed(rep, stem) ==
    SelectSeq(storage[rep].objects[stem], LAMBDA m : Last(m.key).stem # "")

\* mutant: a size in the listing does not count
Sized_Always(m, segments) ==
    [m EXCEPT !.size = getObjectSizesFromSegments(segments, m.key)]

Sized(m, segments) ==
    IF m.size # 0 THEN m
    ELSE [m EXCEPT !.size = getObjectSizesFromSegments(segments, m.key)]

FillBucket(w) ==
    LET j == busy[w]
        node == tree[j.at]
        listed == Listed(j.repository, node.name.stem)
        all == storage[j.repository].segments[node.name.stem]
    IN  /\ busy[w] # Idle
        /\ \E segments \in {IF j.segmented THEN all ELSE <<>>}
                \cup IF "noSegments" \in Events THEN {<<>>} ELSE {},
             order \in SetToSeqs(UNION {ToSet(Front(m.key)) :
                                        m \in ToSet(listed)}) :
            LET meta == [i \in DOMAIN listed |->
                            Sized([key |-> listed[i].key,
                                   size |-> listed[i].size,
                                   time |-> listed[i].time,
                                   owner |-> node.owner], segments)]
            IN  tree' = createLevel(tree, j.at, meta, order)
        /\ ReportJob(w)
        /\ UNCHANGED <<storage, array>>

\* wg.Wait, and the array is built.
Finish ==
    /\ AllDone
    /\ array' = NodeArray(tree)
    /\ UNCHANGED <<storage, tree>>

\* UpdateFilesystem has fi.mu.
Rebuild ==
    /\ StartAgain
    /\ tree' = Root
    /\ array' = NoNode
    /\ UNCHANGED storage

Next ==
    \/ \E rep \in Repositories : ListingFails(rep) \/ ListBuckets(rep)
    \/ \E w \in Workers : FillBucket(w)
    \/ Finish \/ Rebuild
    \/ /\ \/ StartWorkers \/ RequestUpdate \/ DeleteProjects
          \/ \E w \in Workers : TakeJob(w) \/ SkipJob(w)
       /\ UNCHANGED <<storage, tree, array>>

\* Requests end, so every goroutine goes on; nobody has to ask for an update.
\* What each of them has to do is told apart by the variable it changes.
Fairness ==
    /\ \A rep \in Repositories :
        WF_todo(rep \in todo /\ pc = "repositories" /\ todo' = todo \ {rep})
    /\ WF_pool(StartWorkers)
    /\ \A w \in Workers :
        /\ WF_pool(TakeJob(w))
        /\ WF_busy(busy[w] # Idle /\ busy' = [busy EXCEPT ![w] = Idle])
    /\ WF_pool(AllDone)
    /\ WF_pool(DeleteProjects) /\ WF_pool(StartAgain)

Spec == Init /\ [][Next]_vars
FairSpec == Spec /\ Fairness

-----------------------------------------------------------------------------
(* Properties *)

SafePath(stems) == [i \in DOMAIN stems |-> SafeName(Name(stems[i]), TRUE)]

Buckets(rep) ==
    Children(tree, SafePath(IF rep = "SD-Connect" THEN <<rep, Project>>
                            ELSE <<rep>>))

Skipped == {j.at : j \in skipped}

\* The objects listed in the buckets that could be listed, each with the path
\* of its bucket.
Shown ==
    UNION {UNION {{<<p, m>> : m \in ToSet(Listed(rep, tree[p].name.stem))} :
                  p \in Buckets(rep) \ Skipped} : rep \in DOMAIN storage}

\* Every object of every bucket that was listed is a file of its own whose
\* names up to the root are, in storage, the bucket and the key of that
\* object (getNodePathNames, with which data and headers are asked for);
\* there are no other files.  Of the project's own buckets and of the datasets
\* none is missing; of the buckets shared with it the listing may have failed.
ObjectsAreFiles ==
    pc = "done" =>
        LET files == {i \in DOMAIN array.nodes : ~array.nodes[i].dir}
            key(o) == [i \in 1 .. Len(o[1]) + 1 |->
                        IF i = 1 THEN Name("")
                        ELSE tree[SubSeq(o[1], 1, i - 1)].name] \o o[2].key
        IN  /\ {getNodePathNames(array, i) : i \in files}
                    = {key(o) : o \in Shown}
            /\ Cardinality(files) = Cardinality(Shown)
            /\ \A rep \in DOMAIN storage : Buckets(rep) # {} =>
                LET buckets == IF rep = "SD-Connect" THEN storage[rep].own
                               ELSE storage[rep].shared
                IN  {b.stem : b \in {c \in ToSet(buckets) : ~c.segments}}
                        \subseteq {tree[p].name.stem : p \in Buckets(rep)}

\* The array holds the whole tree and nothing else: each path is found by
\* search_node at the index that is its st_ino, from where read and readdir
\* take it again, and nothing allocated is left uninitialised.
NodesAreFound ==
    pc = "done" =>
        /\ array.count = numberOfNodes(tree)
        /\ {search_node(array, p) : p \in DOMAIN tree} = DOMAIN array.nodes
        /\ \A p \in DOMAIN tree :
            LET n == array.nodes[search_node(array, p)]
            IN  /\ n.ino = search_node(array, p)
                /\ n.orig = tree[p].name /\ n.dir = tree[p].dir

\* A directory has the size of all files below it and the time of the latest;
\* a file has the size listed, or else that of its segments if they could be
\* listed; and the owner of a shared bucket is known for each of its files.
TreeSizesAddUp ==
    pc = "done" =>
        LET node(p) == array.nodes[search_node(array, p)]
            below(p) == {q \in DOMAIN tree : IsPrefix(p, q) /\ ~tree[q].dir}
        IN  /\ \A p \in DOMAIN tree : tree[p].dir =>
                /\ node(p).size =
                     MapThenSumSet(LAMBDA q : node(q).size, below(p))
                /\ node(p).time = Max({0} \cup {node(q).time : q \in below(p)})
            /\ \A o \in Shown : \E q \in below(o[1]) :
                LET m == o[2]
                    bucket == tree[o[1]]
                IN  /\ tree[q].name = Last(m.key)
                    /\ node(q).size \in IF m.size # 0 THEN {m.size}
                        ELSE {0, getObjectSizesFromSegments(
                                    storage["SD-Connect"].segments
                                        [bucket.name.stem], m.key)}
                    /\ bucket.owner # NoOwner =>
                        array.headers[node(q).ino] = bucket.owner

\* A build that was begun ends, whatever fails in it.
BuildEnds == pc = "repositories" ~> pc = "done"
=============================================================================
