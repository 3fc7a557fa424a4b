------------------------------ MODULE NodeTable ------------------------------
(***************************************************************************)
(* The array of nodes between the FUSE thread, which takes no lock, and    *)
(* UpdateFilesystem, which frees the array and builds another one.         *)
(*                                                                         *)
(* FUSE refers to nodes in three ways: by path (search_node), by the index *)
(* that s3_open and s3_opendir leave in fi->fh, and by the pointer a       *)
(* request holds until it returns.  A request is two steps, between which  *)
(* the array may be freed: it sees that there are nodes, and it is done    *)
(* with them.  FilesOpen looks at one descriptor after the other and walks *)
(* the array in the same way, as GetNodeChildren does.  An update is to    *)
(* come only when FilesOpen has found nothing in use.  faults records what *)
(* went wrong and events what may happen; the code has neither.            *)
(***************************************************************************)
EXTENDS Naturals, FiniteSets, Functions

CONSTANTS
    Files, Dirs,    \* the paths of the filesystem
    Handles,        \* file descriptors of the processes that use the mount
    Updaters,       \* goroutines that may update, or list a directory
    Indices,        \* indices of the array
    None

Names == Files \cup Dirs

\* Coincidences that the code has no answer to.
Events ==
    {"slowOpen",        \* FilesOpen is called while s3_open or s3_opendir has
                        \* not returned
     "lateOpen",        \* one of them is called from then until the array is
                        \* freed
     "unreadDirectory", \* FilesOpen looks at a directory whose position is 0
     "midSearch",       \* the array is freed while s3_getattr, FilesOpen or
                        \* GetNodeChildren is in it
     "earlyCount",      \* the array is used between its count being set and
                        \* its nodes
     "fuserFails",      \* fuser does not run: FilesOpen says that nothing is
                        \* in use
     "buildPanics"}     \* a build panics; the GUI goes on

OpenHandles == [name : Names, fh : Indices, read : BOOLEAN]

\* A request in the array; s3_open is in "header" while it asks for one.
Requests == [op : {"getattr", "open", "header", "opendir", "read", "readdir"},
             handle : Handles \cup {None}, name : Names,
             fh : Indices \cup {None}, array : {"whole", "bare", "freed"}]

ASSUME NodeTableAssumption ==
    /\ Files \cap Dirs = {}
    /\ None \notin Handles \cup Updaters \cup Indices
    /\ None \notin OpenHandles \cup Requests

VARIABLES
    count,      \* fi.nodes.count: 0, 1 when just set, or all nodes
    at,         \* the index of each path in the array
    childless,  \* the directories without children
    handle,     \* what each descriptor is open on, or None
    fuse,       \* the request that is in the array, or None
    update,     \* where each updater is
    looks,      \* the descriptors that its FilesOpen has not looked at
    lock,       \* the updater that has fi.mu, or None
    events,     \* the coincidences that may happen in this behaviour
    faults      \* uses of what is not there, or not what it was

vars == <<count, at, childless, handle, fuse, update, looks, lock, events,
          faults>>

\* Arrays that can be built: any of the paths, each at an index of its own.
Arrays == UNION {{a \in [P -> Indices] : \A p, q \in P : a[p] = a[q] => p = q} :
                 P \in SUBSET Names}

Faults == {"freed", "uninitialised", "other"}

\* A request has the arguments that it needs: a descriptor is not closed while
\* it is read from.
RequestFits ==
    fuse # None =>
        /\ fuse.op # "getattr" => fuse.handle \in Handles
        /\ fuse.op = "header" => fuse.fh \in Indices
        /\ fuse.op \in {"read", "readdir"} => handle[fuse.handle] # None

Places == {"idle", "listing",               \* nothing, GetNodeChildren
           "asking", "walking", "checked",  \* FilesOpen, in search_node, after
           "freed", "counted", "built"}     \* UpdateFilesystem

TypeOK ==
    /\ count \in {"none", "one", "all"}
    /\ at \in Arrays
    /\ childless \subseteq Dirs
    /\ handle \in [Handles -> OpenHandles \cup {None}]
    /\ fuse \in Requests \cup {None}
    /\ RequestFits
    /\ update \in [Updaters -> Places]
    /\ looks \in [Updaters -> SUBSET Handles]
    /\ lock \in Updaters \cup {None}
    /\ events \subseteq Events
    /\ faults \subseteq Faults

Init ==
    /\ count = "all"
    /\ at \in Arrays
    /\ childless \in SUBSET Dirs
    /\ handle = [h \in Handles |-> None]
    /\ fuse = None
    /\ update = [u \in Updaters |-> "idle"]
    /\ looks = [u \in Updaters |-> {}]
    /\ lock = None
    /\ events \in SUBSET Events
    /\ faults = {}

\* An update has called FilesOpen, and the array is not freed yet.
Pending == \E u \in Updaters : update[u] \in {"asking", "walking", "checked"}

\* s3_open or s3_opendir has not returned.
Opening == fuse # None /\ fuse.op \in {"open", "header", "opendir"}

-----------------------------------------------------------------------------
(* FUSE requests.  There is one thread: fuse = None when it can take one.   *)

\* The check of the count, which says that there are nodes; a request that
\* sees a count of 0 fails and changes nothing.
SeesNodes == count = "all" \/ (count = "one" /\ "earlyCount" \in events)

Begins(op, h, name, fh) ==
    /\ fuse = None
    /\ SeesNodes
    /\ fuse' = [op |-> op, handle |-> h, name |-> name, fh |-> fh,
                array |-> IF count = "all" THEN "whole" ELSE "bare"]
    /\ UNCHANGED <<count, at, childless, handle, update, looks, lock, events>>

Uninitialised ==
    faults' = IF count = "one" THEN faults \cup {"uninitialised"} ELSE faults

BeginGetattr(name) == Begins("getattr", None, name, None) /\ Uninitialised

BeginOpen(op, h, name) ==
    /\ "lateOpen" \in events \/ ~Pending
    /\ handle[h] = None
    /\ Begins(op, h, name, None)
    /\ Uninitialised

\* nodes + fi->fh.
FromHandle(op, h) ==
    /\ Begins(op, h, handle[h].name, handle[h].fh)
    /\ faults' = IF count = "one" THEN faults \cup {"uninitialised"}
                 ELSE IF handle[h].name \in DOMAIN at
                         /\ at[handle[h].name] = handle[h].fh
                 THEN faults
                 ELSE faults \cup {"other"}

BeginRead(h) ==
    handle[h] # None /\ handle[h].name \in Files /\ FromHandle("read", h)

BeginReaddir(h) ==
    handle[h] # None /\ handle[h].name \in Dirs /\ FromHandle("readdir", h)

\* What search_node returns; in an array that is not there, anything.
Search ==
    IF fuse.array # "whole" THEN Indices \cup {None}
    ELSE IF fuse.name \in DOMAIN at THEN {at[fuse.name]} ELSE {None}

Opened(h, name, fh) ==
    handle' = [handle EXCEPT ![h] = [name |-> name, fh |-> fh, read |-> FALSE]]

Returns ==
    /\ fuse' = None
    /\ UNCHANGED <<count, at, childless, update, looks, lock, events, faults>>

\* A request that opens nothing: s3_open also fails on a file whose header
\* could not be had.
Fails ==
    /\ fuse # None
    /\ \/ fuse.op \in {"getattr", "open"}
       \/ fuse.op = "opendir" /\ None \in Search
    /\ Returns
    /\ UNCHANGED handle

\* s3_open of a file whose header was asked for, and s3_opendir.
OpenKnown ==
    /\ fuse # None /\ fuse.op \in {"open", "opendir"}
    /\ \E fh \in Search \ {None} : Opened(fuse.handle, fuse.name, fh)
    /\ Returns

\* s3_open of a file whose header is asked for: the node stays in use.
OpenFirst ==
    /\ fuse # None /\ fuse.op = "open"
    /\ \E fh \in Search \ {None} :
        fuse' = [fuse EXCEPT !.op = "header", !.fh = fh]
    /\ UNCHANGED <<count, at, childless, handle, update, looks, lock, events,
                   faults>>

\* CheckHeaderExistence has its answer and has changed the node.
OpenReturns ==
    /\ fuse # None /\ fuse.op = "header"
    /\ Opened(fuse.handle, fuse.name, fuse.fh)
    /\ Returns

\* An answer to readdir moves the position of the descriptor.
ReadReturns ==
    /\ fuse # None /\ fuse.op \in {"read", "readdir"}
    /\ handle' = IF fuse.op = "read" THEN handle
                 ELSE [handle EXCEPT ![fuse.handle].read = TRUE]
    /\ Returns

\* lseek or rewinddir: the position is 0 again.
Rewind(h) ==
    /\ handle[h] # None /\ handle[h].name \in Dirs
    /\ fuse # None => fuse.handle # h
    /\ handle' = [handle EXCEPT ![h].read = FALSE]
    /\ UNCHANGED <<count, at, childless, fuse, update, looks, lock, events,
                   faults>>

Release(h) ==
    /\ handle[h] # None
    /\ fuse # None => fuse.handle # h
    /\ handle' = [handle EXCEPT ![h] = None]
    /\ UNCHANGED <<count, at, childless, fuse, update, looks, lock, events,
                   faults>>

-----------------------------------------------------------------------------
(* Updates *)

Goes(u, from, to) == update[u] = from /\ update' = [update EXCEPT ![u] = to]

\* fuser lists the processes whose descriptors are looked at.
FilesOpen(u) ==
    /\ Goes(u, "idle", "asking")
    /\ "slowOpen" \in events \/ ~Opening
    /\ looks' = [looks EXCEPT ![u] = Handles]
    /\ UNCHANGED <<count, at, childless, handle, fuse, lock, events, faults>>

FuserFails(u) ==
    /\ "fuserFails" \in events
    /\ Goes(u, "idle", "checked")
    /\ "slowOpen" \in events \/ ~Opening
    /\ UNCHANGED <<count, at, childless, handle, fuse, looks, lock, events,
                   faults>>

\* searchNode of FilesOpen or of GetNodeChildren.
BeginWalk(u) ==
    /\ \/ Goes(u, "asking", "walking") /\ looks[u] # {}
       \/ Goes(u, "idle", "listing")
    /\ SeesNodes
    /\ Uninitialised
    /\ UNCHANGED <<count, at, childless, handle, fuse, looks, lock, events>>

Listed(u) ==
    /\ Goes(u, "listing", "idle")
    /\ UNCHANGED <<count, at, childless, handle, fuse, looks, lock, events,
                   faults>>

\* mutant: a directory never stops an update
checkPID_IgnoresDirectories(h) ==
    /\ handle[h] # None
    /\ count = "all" /\ handle[h].name \in DOMAIN at
    /\ handle[h].name \in Files

\* A descriptor is in use when it is open on a node without children, which a
\* file is, or when its position is not 0.
checkPID(h) ==
    /\ handle[h] # None
    /\ count = "all" /\ handle[h].name \in DOMAIN at
    /\ handle[h].name \in Files \cup childless \/ handle[h].read

\* The answer about one descriptor: the first in use ends FilesOpen, and there
\* is no update, nor is there if the answer cannot be had.  Without a walk, what
\* is open is not found.
Look(u, h) ==
    /\ \/ update[u] = "walking"
       \/ update[u] = "asking" /\ (count = "none" \/ handle[h] = None)
    /\ h \in looks[u]
    /\ "unreadDirectory" \in events
        \/ (handle[h] # None => handle[h].name \in Files \/ handle[h].read)
    /\ \/ /\ update' = [update EXCEPT ![u] = "idle"]
          /\ looks' = [looks EXCEPT ![u] = {}]
       \/ /\ ~checkPID(h)
          /\ update' = [update EXCEPT ![u] = "asking"]
          /\ looks' = [looks EXCEPT ![u] = @ \ {h}]
    /\ UNCHANGED <<count, at, childless, handle, fuse, lock, events, faults>>

\* The answer of FilesOpen is all that is known of FUSE from here on.
NothingOpen(u) ==
    /\ looks[u] = {}
    /\ Goes(u, "asking", "checked")
    /\ UNCHANGED <<count, at, childless, handle, fuse, looks, lock, events,
                   faults>>

\* s3_getattr, FilesOpen or GetNodeChildren is in the array.
MidSearch == \/ fuse # None /\ fuse.op = "getattr"
             \/ \E w \in Updaters : update[w] \in {"walking", "listing"}

\* The array is gone for whoever is in it.
Freed ==
    /\ count' = "none"
    /\ fuse' = IF fuse = None THEN None ELSE [fuse EXCEPT !.array = "freed"]
    /\ faults' = IF fuse # None \/ MidSearch THEN faults \cup {"freed"}
                 ELSE faults

\* mutant: the updater does not wait for the lock
FreeNodes_NoLock(u) ==
    /\ Goes(u, "checked", "freed")
    /\ "midSearch" \in events \/ ~MidSearch
    /\ lock' = u
    /\ Freed
    /\ UNCHANGED <<at, childless, handle, looks, events>>

\* fi.mu.Lock and freeNodes.
FreeNodes(u) ==
    /\ Goes(u, "checked", "freed")
    /\ lock = None
    /\ "midSearch" \in events \/ ~MidSearch
    /\ lock' = u
    /\ Freed
    /\ UNCHANGED <<at, childless, handle, looks, events>>

\* A panic while the storage is listed is recovered from in the GUI, and the
\* deferred Unlock leaves an empty filesystem.
BuildPanics(u) ==
    /\ "buildPanics" \in events
    /\ Goes(u, "freed", "idle")
    /\ lock' = None
    /\ UNCHANGED <<count, at, childless, handle, fuse, looks, events, faults>>

\* fi.nodes.nodes is allocated and fi.nodes.count is set to 1, for the root.
SetCount(u) ==
    /\ Goes(u, "freed", "counted")
    /\ count' = "one"
    /\ UNCHANGED <<at, childless, handle, fuse, looks, lock, events, faults>>

\* addNodeChildrenToC; storage may have changed in any way since.
Fill(u) ==
    /\ Goes(u, "counted", "built")
    /\ count' = "all"
    /\ at' \in Arrays
    /\ childless' \in SUBSET Dirs
    /\ UNCHANGED <<handle, fuse, looks, lock, events, faults>>

Unlock(u) ==
    /\ Goes(u, "built", "idle")
    /\ lock' = None
    /\ UNCHANGED <<count, at, childless, handle, fuse, looks, events, faults>>

Request(h) ==
    \/ \E name \in Files : BeginOpen("open", h, name)
    \/ \E name \in Dirs : BeginOpen("opendir", h, name)
    \/ BeginRead(h) \/ BeginReaddir(h)
    \/ Rewind(h) \/ Release(h)

Answer == Fails \/ OpenKnown \/ OpenFirst \/ OpenReturns \/ ReadReturns

Update(u) ==
    \/ FilesOpen(u) \/ FuserFails(u) \/ BeginWalk(u) \/ Listed(u)
    \/ \E h \in Handles : Look(u, h)
    \/ NothingOpen(u) \/ FreeNodes(u) \/ BuildPanics(u)
    \/ SetCount(u) \/ Fill(u) \/ Unlock(u)

Next == \/ \E h \in Handles : Request(h)
        \/ \E name \in Names : BeginGetattr(name)
        \/ Answer
        \/ \E u \in Updaters : Update(u)

Spec == Init /\ [][Next]_vars

-----------------------------------------------------------------------------
(* Properties *)

\* The coincidences after which something may be open that an update does not
\* know of.
Unseen == {"slowOpen", "lateOpen", "unreadDirectory", "earlyCount",
           "fuserFails"}

\* What each coincidence can lead to.
Leads == [slowOpen |-> {"freed", "other"},
          lateOpen |-> {"freed", "other"},
          unreadDirectory |-> {"freed", "other"},
          fuserFails |-> {"freed", "other"},
          earlyCount |-> {"uninitialised", "freed", "other"},
          midSearch |-> {"freed"},
          buildPanics |-> {}]

\* No request, and no walk of the program itself, is in an array that is freed
\* or not written yet, and none uses another node than that of the path it was
\* opened with, unless one of the coincidences that lead to it may happen.
FaultsHaveCauses == faults \subseteq UNION {Leads[e] : e \in events}

\* Each request is in the array that is there, or that was.
RequestAgrees ==
    fuse # None =>
        /\ fuse.array = "whole" => count = "all"
        /\ fuse.array = "bare" => "earlyCount" \in events
        /\ fuse.op = "header" /\ fuse.array = "whole" =>
            fuse.name \in DOMAIN at /\ at[fuse.name] = fuse.fh

\* What is being opened is in the array, which no update is to free.
OpeningAgrees == Opening => fuse.array # "freed" /\ ~Pending

\* What is open is where the array has it, and nothing is that a FilesOpen has
\* passed, until the new array is there.
HandlesAgree ==
    /\ \A h \in Handles : handle[h] # None =>
        /\ count = "all" /\ handle[h].name \in DOMAIN at
        /\ at[handle[h].name] = handle[h].fh
        /\ \A u \in Updaters :
            /\ update[u] \in {"asking", "walking"} => h \in looks[u]
            /\ update[u] # "checked"

\* The holder of fi.mu, and nobody else, is between the steps of an update, and
\* outside of them the array is whole, unless a build has panicked.
LockAgrees ==
    /\ \A u \in Updaters :
        /\ lock = u <=> update[u] \in {"freed", "counted", "built"}
        /\ update[u] = "freed" => count = "none"
        /\ update[u] = "counted" => count = "one"
        /\ update[u] = "built" => count = "all"
    /\ count = "one" => \E u \in Updaters : update[u] = "counted"
    /\ count = "none" /\ "buildPanics" \notin events =>
        \E u \in Updaters : update[u] = "freed"

\* The inductive invariant: which parts hold depends on what may happen.
TableInv ==
    /\ LockAgrees
    /\ RequestAgrees
    /\ events \cap {"slowOpen", "lateOpen"} = {} => OpeningAgrees
    /\ events \cap Unseen = {} => HandlesAgree

\* The changelog (CHANGELOG.md:586): "Update will not occur if there are files
\* in use".  It does while s3_open waits for the network.
NoUpdateInUse ==
    (\E u \in Updaters : update[u] = "freed") =>
        /\ ~Opening
        /\ \A h \in Handles : handle[h] # None => handle[h].name \in Dirs
=============================================================================
