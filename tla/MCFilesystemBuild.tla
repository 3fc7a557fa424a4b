------------------------- MODULE MCFilesystemBuild -------------------------
(***************************************************************************)
(* Instances of FilesystemBuild for TLC: one bucket of SD Connect with     *)
(* every small set of keys, beside a shared bucket and datasets.           *)
(***************************************************************************)
EXTENDS FilesystemBuild

\* "a?" is shown as "a_".  "" ends a key that stands for a directory.
StemOrder == <<"", "SD-Apply", "SD-Connect", "a?", "a_", "b", "d", "p",
               "x:d", "y:d">>
CleanStem == [s \in ToSet(StemOrder) |-> IF s = "a?" THEN "a_" ELSE s]
StripStem ==
    [s \in ToSet(StemOrder) |-> IF s \in {"x:d", "y:d"} THEN "d" ELSE s]

Bucket(stem, segments, owner) ==
    [stem |-> stem, segments |-> segments, owner |-> owner]

Plain(s) == Name(s)
C4gh(s) == [stem |-> s, c4gh |-> TRUE]

Keys == {<<Plain("a?")>>, <<Plain("a_")>>, <<C4gh("a_")>>,
         <<Plain("a?"), Plain("b")>>, <<Plain("a_"), Plain("b")>>,
         <<Plain("a_"), C4gh("b")>>, <<Plain("a_"), Plain("b"), Plain("b")>>,
         <<Plain("a_"), Plain("")>>}

\* Keys of four parts: an object that is <<a_, b>> and its segments.
Segment(n) == [key |-> <<Plain("a_"), Plain("b"), Plain("d"), Plain("p")>>,
               size |-> n, time |-> 0]

\* Objects of which one has no size of its own.
Object(key) ==
    [key |-> key, time |-> Len(key),
     size |-> IF key = <<Plain("a_"), Plain("b")>> THEN 0 ELSE 3 * Len(key)]

\* A file whose directory has its name, while another directory is shown
\* under that name too: makeNode may then use a mark twice.
MarkUsedTwice(keys) ==
    \E f, g, h \in keys :
        /\ Len(f) = 1 /\ Len(g) > 1 /\ Len(h) > 1
        /\ f[1] = g[1] /\ g[1] # h[1] /\ Clean[g[1].stem] = Clean[h[1].stem]

Listings(max) ==
    {[i \in DOMAIN s |-> Object(s[i])] :
        s \in {SetToSeq(k) :
                  k \in {k \in UNION {kSubset(n, Keys) : n \in 0..max} :
                            ~MarkUsedTwice(k)}}}

\* The datasets of the project, in some order.  When three have one name
\* without their schemes, makeNode gives the third the mark of the second.
DatasetStems == {"d", "x:d", "y:d"}

NoThreeAlike(stems) ==
    \A s \in stems :
        Cardinality({t \in stems : StripStem[t] = StripStem[s]}) < 3

Datasets ==
    UNION {{[i \in DOMAIN s |-> Bucket(s[i], FALSE, "fega")] :
                s \in SetToSeqs(stems)} :
           stems \in {d \in SUBSET DatasetStems \ {{}} : NoThreeAlike(d)}}

Storage(listing, own, datasets) ==
    [r \in {"SD-Connect", "SD-Apply"} |->
        IF r = "SD-Connect"
        THEN [own |-> own, shared |-> <<Bucket("p", FALSE, "q")>>,
              objects |-> [s \in {"b", "p"} |->
                IF s = "b" THEN listing ELSE <<Object(<<C4gh("a?")>>)>>],
              segments |-> [s \in {"b", "p"} |->
                IF s = "b" THEN <<Segment(1), Segment(4)>> ELSE <<>>]]
        ELSE [own |-> <<>>, shared |-> datasets,
              objects |-> [s \in DatasetStems |-> <<Object(<<Plain("b")>>)>>],
              segments |-> [s \in DatasetStems |-> <<>>]]]

SomeStorages ==
    {Storage(l, <<Bucket("b", TRUE, NoOwner), Bucket("b", FALSE, NoOwner)>>,
             <<Bucket("d", FALSE, "fega")>>) : l \in Listings(3)}
    \cup {Storage(l, <<Bucket("b", FALSE, NoOwner)>>, d) :
           l \in Listings(1), d \in Datasets}

Failures == {"noBuckets", "noObjects", "noSegments", "panics"}
=============================================================================
