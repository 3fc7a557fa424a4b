------------------------------ MODULE WalkDirs ------------------------------
(***************************************************************************)
(* airlock.WalkDirs: one goroutine for each selected path walks the files  *)
(* under it and hands them to a collector over an unbuffered channel.  The *)
(* first error cancels the context of the other walkers.                   *)
(*                                                                         *)
(* What a walk meets is a sequence of entries: files, each with the object *)
(* it is to become, what is neither a file nor a directory that can be     *)
(* read (Skipped), and what cannot be read (Unreadable).                   *)
(***************************************************************************)
EXTENDS Naturals, Sequences, FiniteSets, SequencesExt

CONSTANTS
    Walkers,    \* the indices of the selection
    Packets,    \* what can be found: records of a file and its object
    Skipped, Unreadable,
    MaxEntries  \* bound on the entries under a selected path

Entries == Packets \cup {Skipped, Unreadable}
Objects == {p.object : p \in Packets}

ASSUME WalkAssumption ==
    /\ MaxEntries \in Nat
    /\ Skipped \notin Packets \cup {Unreadable} /\ Unreadable \notin Packets

VARIABLES
    walk,       \* the entries each walker meets, in its order
    current,    \* currentObjects: those selected before
    next,       \* the index of the entry each walker is at
    walker,     \* "walking", "sending", "done" or "error"
    cancelled,  \* the errgroup's context is cancelled
    collector,  \* "receiving", "waiting" on wait, or "done"
    found,      \* files and objects, which are appended to together
    main,       \* WalkDirs: "group", "closed", "collected" or "returned"
    result      \* "none", "ok" or "error"

input == <<walk, current>>
vars == <<walk, current, next, walker, cancelled, collector, found, main,
          result>>

TypeOK ==
    /\ walk \in [Walkers -> BoundedSeq(Entries, MaxEntries)]
    /\ current \subseteq Objects
    /\ next \in [Walkers -> 1 .. MaxEntries + 1]
    /\ walker \in [Walkers -> {"walking", "sending", "done", "error"}]
    /\ cancelled \in BOOLEAN
    /\ collector \in {"receiving", "waiting", "done"}
    /\ found \in Seq(Packets)
    /\ main \in {"group", "closed", "collected", "returned"}
    /\ result \in {"none", "ok", "error"}

Init ==
    /\ walk \in [Walkers -> BoundedSeq(Entries, MaxEntries)]
    /\ current \in SUBSET Objects
    /\ next = [w \in Walkers |-> 1]
    /\ walker = [w \in Walkers |-> "walking"]
    /\ cancelled = FALSE
    /\ collector = "receiving"
    /\ found = <<>>
    /\ main = "group"
    /\ result = "none"

-----------------------------------------------------------------------------
(* A walker *)

Entry(w) == walk[w][next[w]]

\* The walker is at an entry that is not handled yet.
Visiting(w) == walker[w] = "walking" /\ next[w] <= Len(walk[w])

Advance(w) == next' = [next EXCEPT ![w] = @ + 1]

\* The function given to g.Go ends; the first error cancels the others.
Ends(w, state) ==
    /\ walker' = [walker EXCEPT ![w] = state]
    /\ cancelled' = (cancelled \/ state = "error")
    /\ UNCHANGED <<input, next, collector, found, main, result>>

Skip(w) ==
    /\ Visiting(w) /\ Entry(w) = Skipped
    /\ Advance(w)
    /\ UNCHANGED <<input, walker, cancelled, collector, found, main, result>>

CannotRead(w) ==
    /\ Visiting(w) /\ Entry(w) = Unreadable
    /\ Ends(w, "error")

\* mutant: objects that were selected before are not looked for
Clashes_Never(p) == FALSE

Clashes(p) == p.object \in current

Reject(w) ==
    /\ Visiting(w) /\ Entry(w) \in Packets /\ Clashes(Entry(w))
    /\ Ends(w, "error")

\* The walker comes to the select.
Offer(w) ==
    /\ Visiting(w) /\ Entry(w) \in Packets /\ ~Clashes(Entry(w))
    /\ walker' = [walker EXCEPT ![w] = "sending"]
    /\ UNCHANGED <<input, next, cancelled, collector, found, main, result>>

\* mutant: a file that waits for the collector may be passed over
Send_Drops(w) ==
    /\ walker[w] = "sending" /\ collector = "receiving"
    /\ found' \in {found, Append(found, Entry(w))}
    /\ walker' = [walker EXCEPT ![w] = "walking"]
    /\ Advance(w)
    /\ UNCHANGED <<input, cancelled, collector, main, result>>

\* filesChan <- packet, and both appends of the collector.
Send(w) ==
    /\ walker[w] = "sending" /\ collector = "receiving"
    /\ found' = Append(found, Entry(w))
    /\ walker' = [walker EXCEPT ![w] = "walking"]
    /\ Advance(w)
    /\ UNCHANGED <<input, cancelled, collector, main, result>>

\* <-ctx.Done().  A select that can do both does either.
GiveUp(w) ==
    /\ walker[w] = "sending" /\ cancelled
    /\ Ends(w, "error")

EndOfWalk(w) ==
    /\ walker[w] = "walking" /\ next[w] > Len(walk[w])
    /\ Ends(w, "done")

-----------------------------------------------------------------------------
(* The collector, and WalkDirs itself *)

\* mutant: the channel is not closed
ChannelEnds_Never == FALSE /\ collector' = "waiting"

\* range filesChan ends once the channel is closed.
ChannelEnds ==
    /\ collector = "receiving" /\ main \in {"closed", "collected"}
    /\ collector' = "waiting"
    /\ UNCHANGED <<input, next, walker, cancelled, found, main, result>>

\* mutant: one walker that has ended is enough
GroupEnded_One == \E w \in Walkers : walker[w] \in {"done", "error"}

\* g.Wait returns.
GroupEnded == \A w \in Walkers : walker[w] \in {"done", "error"}

GroupFails ==
    /\ main = "group" /\ GroupEnded
    /\ \E w \in Walkers : walker[w] = "error"
    /\ main' = "returned"
    /\ result' = "error"
    /\ UNCHANGED <<input, next, walker, cancelled, collector, found>>

CloseChannel ==
    /\ main = "group" /\ GroupEnded
    /\ \A w \in Walkers : walker[w] # "error"
    /\ main' = "closed"
    /\ UNCHANGED <<input, next, walker, cancelled, collector, found, result>>

\* wait <- nil meets <-wait.
Collected ==
    /\ main = "closed" /\ collector = "waiting"
    /\ main' = "collected"
    /\ collector' = "done"
    /\ UNCHANGED <<input, next, walker, cancelled, found, result>>

\* mutant: neighbours are compared before the objects are sorted
Unique_Unsorted(s) ==
    \A i \in 1 .. Len(s) - 1 : s[i].object # s[i + 1].object

\* Clone, Sort and Compact: no object comes twice.
Unique(s) == \A i, j \in 1 .. Len(s) : s[i].object = s[j].object => i = j

Return ==
    /\ main = "collected"
    /\ main' = "returned"
    /\ result' = IF Unique(found) THEN "ok" ELSE "error"
    /\ UNCHANGED <<input, next, walker, cancelled, collector, found>>

-----------------------------------------------------------------------------
Walker(w) == \/ Skip(w) \/ CannotRead(w) \/ Reject(w) \/ Offer(w) \/ Send(w)
             \/ GiveUp(w) \/ EndOfWalk(w)

Main == GroupFails \/ CloseChannel \/ Collected \/ Return

Next == Main \/ ChannelEnds \/ \E w \in Walkers : Walker(w)

Spec == Init /\ [][Next]_vars

\* Every goroutine that can go on does.
FairSpec ==
    /\ Spec
    /\ WF_vars(Main) /\ WF_vars(ChannelEnds)
    /\ \A w \in Walkers : WF_vars(Walker(w))

-----------------------------------------------------------------------------
(* Properties *)

\* The files under the selection, with the walk they were met in.
Selected == UNION {{<<w, i>> : i \in {i \in DOMAIN walk[w] :
                                        walk[w][i] \in Packets}} :
                   w \in Walkers}

At(s) == walk[s[1]][s[2]]

\* What a set can be built of: all can be read, and no two files, selected
\* now or before, become one object.
Exportable ==
    /\ \A w \in Walkers : Unreadable \notin ToSet(walk[w])
    /\ \A s \in Selected : At(s).object \notin current
    /\ \A s, t \in Selected : At(s).object = At(t).object => s = t

\* Whichever walker is first, the answer depends on the selection alone: a set
\* when it can be built, then with each file once beside its own object, and
\* an error otherwise.
AnswerIsTrue ==
    main = "returned" =>
        /\ result = "ok" <=> Exportable
        /\ result = "ok" => /\ ToSet(found) = {At(s) : s \in Selected}
                            /\ Len(found) = Cardinality(Selected)

\* No walker waits for ever for the collector, nor WalkDirs for either.
WalkReturns == <>(main = "returned")

\* When there is a set, nothing is left that could still change it.
NothingLeftRunning ==
    result = "ok" => /\ collector = "done"
                     /\ \A w \in Walkers : walker[w] = "done"

\* The types, and what a set was made from.
WalkInv == TypeOK /\ NothingLeftRunning
=============================================================================
