--------------------------- MODULE NodeTableProofs ---------------------------
(***************************************************************************)
(* For any files, directories, descriptors, updaters and array: requests   *)
(* go wrong only through the coincidences named in NodeTable.              *)
(***************************************************************************)
EXTENDS NodeTable, TLAPS

\* An array gives every path that it has one of the indices.
LEMMA ArrayIndices ==
    ASSUME NEW a \in Arrays, NEW p \in DOMAIN a
    PROVE  a[p] \in Indices
BY DEF Arrays

\* search_node returns an index or nothing.
LEMMA SearchType ==
    ASSUME TypeOK, fuse # None
    PROVE  Search \subseteq Indices \cup {None}
BY ArrayIndices DEF TypeOK, Search

\* The descriptors keep their type when one of them is opened.
LEMMA OpenedType ==
    ASSUME TypeOK, NEW h \in Handles, NEW name \in Names, NEW fh \in Indices,
           Opened(h, name, fh)
    PROVE  handle' \in [Handles -> OpenHandles \cup {None}]
BY DEF TypeOK, Opened, OpenHandles

\* The request that begins has the type of one.
LEMMA BeginsType ==
    ASSUME TypeOK,
           NEW op \in {"getattr", "open", "opendir", "read", "readdir"},
           NEW h \in Handles \cup {None}, NEW name \in Names,
           NEW fh \in Indices \cup {None},
           op # "getattr" => h \in Handles,
           op \in {"read", "readdir"} => handle[h] # None,
           Begins(op, h, name, fh), faults' \subseteq Faults
    PROVE  TypeOK'
<1>1. fuse' \in Requests
  BY DEF Begins, Requests
<1>2. RequestFits'
  BY DEF Begins, RequestFits
<1> QED BY <1>1, <1>2 DEF Begins, TypeOK

\* What an answer leaves of the request.
LEMMA ReturnsType ==
    ASSUME TypeOK, Returns, handle' \in [Handles -> OpenHandles \cup {None}]
    PROVE  TypeOK'
BY DEF TypeOK, Returns, RequestFits

\* An update leaves a request with its arguments.
LEMMA FitsKept ==
    ASSUME fuse \in Requests \cup {None}, RequestFits, UNCHANGED handle,
           UNCHANGED fuse \/ Freed
    PROVE  RequestFits'
BY DEF RequestFits, Freed, Requests

\* The updaters keep their type whatever they do.
LEMMA GoesType ==
    ASSUME TypeOK, NEW u \in Updaters, NEW from, NEW to \in Places,
           Goes(u, from, to)
    PROVE  update' \in [Updaters -> Places]
BY DEF TypeOK, Goes

\* The variables always have their types.
THEOREM TypeCorrect == Spec => []TypeOK
<1>1. Init => TypeOK
  BY DEF Init, TypeOK, Events, Faults, Places, RequestFits
<1>2. TypeOK /\ [Next]_vars => TypeOK'
  <2> SUFFICES ASSUME TypeOK, [Next]_vars PROVE TypeOK'
    OBVIOUS
  <2>1. Uninitialised => faults' \subseteq Faults
    BY DEF Uninitialised, TypeOK, Faults
  <2>2. ASSUME NEW h \in Handles, Request(h) PROVE TypeOK'
    <3>1. ASSUME NEW op \in {"open", "opendir"}, NEW name \in Names,
                 BeginOpen(op, h, name)
          PROVE  TypeOK'
      BY <2>1, <3>1, BeginsType DEF BeginOpen
    <3>2. ASSUME NEW op \in {"read", "readdir"}, handle[h] # None,
                 FromHandle(op, h)
          PROVE  TypeOK'
      <4>1. handle[h] \in OpenHandles
        BY <3>2 DEF TypeOK
      <4>2. handle[h].name \in Names /\ handle[h].fh \in Indices
        BY <4>1 DEF OpenHandles
      <4>3. faults' \subseteq Faults
        BY <3>2 DEF FromHandle, TypeOK, Faults
      <4> QED BY <3>2, <4>2, <4>3, BeginsType DEF FromHandle
    <3>3. CASE Rewind(h)
      <4>1. handle' \in [Handles -> OpenHandles \cup {None}]
        BY <3>3 DEF Rewind, TypeOK, OpenHandles
      <4>2. RequestFits'
        BY <3>3 DEF Rewind, TypeOK, RequestFits
      <4> QED BY <3>3, <4>1, <4>2 DEF Rewind, TypeOK
    <3>4. CASE Release(h)
      BY <3>4 DEF Release, TypeOK, RequestFits
    <3> QED BY <2>2, <3>1, <3>2, <3>3, <3>4
            DEF Request, Names, BeginRead, BeginReaddir
  <2>3. ASSUME NEW name \in Names, BeginGetattr(name) PROVE TypeOK'
    BY <2>1, <2>3, BeginsType DEF BeginGetattr
  <2>4. CASE Answer
    <3>1. fuse # None => fuse \in Requests
      BY DEF TypeOK
    <3>2. CASE Fails
      BY <3>2, ReturnsType DEF Fails, TypeOK
    <3>3. CASE OpenKnown
      <4>1. fuse.handle \in Handles /\ fuse.name \in Names
        BY <3>1, <3>3 DEF OpenKnown, Requests, TypeOK, RequestFits
      <4>2. PICK fh \in Search \ {None} :
              Opened(fuse.handle, fuse.name, fh)
        BY <3>3 DEF OpenKnown
      <4>3. fh \in Indices
        BY <3>3, <4>2, SearchType DEF OpenKnown
      <4> QED BY <3>3, <4>1, <4>2, <4>3, OpenedType, ReturnsType DEF OpenKnown
    <3>4. CASE OpenFirst
      <4>1. fuse' \in Requests /\ fuse'.fh \in Indices
        BY <3>1, <3>4, SearchType DEF OpenFirst, Requests
      <4>2. fuse'.handle = fuse.handle /\ fuse'.op = "header"
        BY <3>1, <3>4 DEF OpenFirst, Requests
      <4>3. RequestFits'
        BY <3>4, <4>1, <4>2 DEF OpenFirst, TypeOK, RequestFits
      <4> QED BY <3>4, <4>1, <4>3 DEF OpenFirst, TypeOK
    <3>5. CASE OpenReturns
      <4>1. /\ fuse.handle \in Handles
            /\ fuse.name \in Names
            /\ fuse.fh \in Indices
        BY <3>1, <3>5 DEF OpenReturns, Requests, TypeOK, RequestFits
      <4> QED BY <3>5, <4>1, OpenedType, ReturnsType DEF OpenReturns
    <3>6. CASE ReadReturns
      <4>1. fuse.handle \in Handles /\ handle[fuse.handle] \in OpenHandles
        BY <3>6 DEF ReadReturns, TypeOK, RequestFits
      <4>2. handle' \in [Handles -> OpenHandles \cup {None}]
        BY <3>6, <4>1 DEF ReadReturns, OpenHandles, TypeOK
      <4> QED BY <3>6, <4>2, ReturnsType DEF ReadReturns
    <3> QED BY <2>4, <3>2, <3>3, <3>4, <3>5, <3>6 DEF Answer
  <2>5. ASSUME NEW u \in Updaters, Update(u) PROVE TypeOK'
    <3>1. RequestFits'
      BY <2>5, FitsKept
      DEF TypeOK, Update, FilesOpen, FuserFails, Listed, NothingOpen,
          BeginWalk, Look, FreeNodes, BuildPanics, SetCount, Unlock, Fill
    <3> USE <3>1, GoesType DEF TypeOK, Places
    <3>2. CASE FilesOpen(u)
      BY <3>2 DEF FilesOpen
    <3>3. CASE FuserFails(u) \/ Listed(u) \/ NothingOpen(u)
      BY <3>3 DEF FuserFails, Listed, NothingOpen
    <3>4. CASE BeginWalk(u)
      BY <2>1, <3>4 DEF BeginWalk
    <3>5. ASSUME NEW h \in Handles, Look(u, h) PROVE TypeOK'
      BY <3>5 DEF Look
    <3>6. CASE FreeNodes(u)
      <4>1. fuse' \in Requests \cup {None}
        BY <3>6 DEF FreeNodes, Freed, Requests
      <4>2. faults' \subseteq Faults
        BY <3>6 DEF FreeNodes, Freed, Faults
      <4> QED BY <3>6, <4>1, <4>2 DEF FreeNodes, Freed
    <3>7. CASE BuildPanics(u) \/ SetCount(u) \/ Unlock(u)
      BY <3>7 DEF BuildPanics, SetCount, Unlock
    <3>8. CASE Fill(u)
      BY <3>8 DEF Fill
    <3> QED BY <2>5, <3>2, <3>3, <3>4, <3>5, <3>6, <3>7, <3>8 DEF Update
  <2>6. CASE UNCHANGED vars
    BY <2>6 DEF vars, TypeOK, RequestFits
  <2> QED BY <2>2, <2>3, <2>4, <2>5, <2>6 DEF Next
<1> QED BY <1>1, <1>2, PTL DEF Spec
-----------------------------------------------------------------------------
(* The inductive invariant.  Unless lateOpen may happen, nothing is opened  *)
(* while an update has begun; FilesOpen finds whatever is open, unless      *)
(* another coincidence may happen.                                          *)

LEMMA LockStep ==
    ASSUME TypeOK, LockAgrees, [Next]_vars
    PROVE  LockAgrees'
<1> USE DEF LockAgrees
<1>1. CASE UNCHANGED <<count, update, lock, events>>
  BY <1>1
<1>2. ASSUME NEW u \in Updaters, Update(u) PROVE LockAgrees'
  <2> USE NodeTableAssumption DEF TypeOK, Goes
  <2>1. CASE FilesOpen(u)
    BY <2>1 DEF FilesOpen
  <2>2. CASE FuserFails(u)
    BY <2>2 DEF FuserFails
  <2>3. CASE BeginWalk(u)
    BY <2>3 DEF BeginWalk
  <2>4. CASE Listed(u)
    BY <2>4 DEF Listed
  <2>5. ASSUME NEW h \in Handles, Look(u, h) PROVE LockAgrees'
    BY <2>5 DEF Look
  <2>6. CASE NothingOpen(u)
    BY <2>6 DEF NothingOpen
  <2>7. CASE FreeNodes(u)
    BY <2>7 DEF FreeNodes, Freed
  <2>8. CASE BuildPanics(u)
    BY <2>8 DEF BuildPanics
  <2>9. CASE SetCount(u)
    BY <2>9 DEF SetCount
  <2>10. CASE Fill(u)
    BY <2>10 DEF Fill
  <2>11. CASE Unlock(u)
    BY <2>11 DEF Unlock
  <2> QED BY <1>2, <2>1, <2>2, <2>3, <2>4, <2>5, <2>6, <2>7, <2>8, <2>9,
             <2>10, <2>11 DEF Update
<1>3. ASSUME NEW h \in Handles, Request(h) PROVE LockAgrees'
  BY <1>1, <1>3 DEF Request, BeginOpen, BeginRead, BeginReaddir, FromHandle,
                    Begins, Rewind, Release
<1>4. ASSUME NEW name \in Names, BeginGetattr(name) PROVE LockAgrees'
  BY <1>1, <1>4 DEF BeginGetattr, Begins
<1>5. CASE Answer
  BY <1>1, <1>5 DEF Answer, Fails, OpenKnown, OpenFirst, OpenReturns,
                    ReadReturns, Returns
<1>6. CASE UNCHANGED vars
  BY <1>1, <1>6 DEF vars
<1> QED BY <1>2, <1>3, <1>4, <1>5, <1>6 DEF Next

LEMMA EventsFixed ==
    ASSUME [Next]_vars
    PROVE  events' = events
BY DEF Next, vars, Request, BeginOpen, BeginRead, BeginReaddir, FromHandle,
       Begins, Rewind, Release, BeginGetattr, Answer, Fails, OpenKnown,
       OpenFirst, OpenReturns, ReadReturns, Returns, Update, FilesOpen,
       FuserFails, BeginWalk, Listed, Look, NothingOpen, FreeNodes,
       BuildPanics, SetCount, Fill, Unlock

\* What a request that begins is in.
LEMMA BeginsFuse ==
    ASSUME NEW op, NEW h, NEW name, NEW fh, Begins(op, h, name, fh)
    PROVE  /\ fuse' # None => fuse'.op = op /\ fuse'.handle = h
           /\ fuse'.array \in {"whole", "bare"}
           /\ fuse'.array = "whole" => count = "all"
           /\ fuse'.array = "bare" => "earlyCount" \in events
           /\ UNCHANGED <<count, at, handle, update, looks, events>>
BY DEF Begins, SeesNodes

LEMMA RequestStep ==
    ASSUME TypeOK, LockAgrees, RequestAgrees, [Next]_vars
    PROVE  RequestAgrees'
<1> USE DEF RequestAgrees
<1>1. ASSUME NEW op \in {"getattr", "open", "opendir", "read", "readdir"},
             NEW h, NEW name, NEW fh, Begins(op, h, name, fh)
      PROVE  RequestAgrees'
  BY <1>1, BeginsFuse
<1>2. CASE UNCHANGED <<count, at, fuse, events>>
  BY <1>2
<1>3. ASSUME NEW h \in Handles, Request(h) PROVE RequestAgrees'
  BY <1>1, <1>2, <1>3 DEF Request, BeginOpen, BeginRead, BeginReaddir,
                          FromHandle, Rewind, Release
<1>4. ASSUME NEW name \in Names, BeginGetattr(name) PROVE RequestAgrees'
  BY <1>1, <1>4 DEF BeginGetattr
<1>5. CASE Answer
  <2>1. CASE OpenFirst
    <3>1. fuse \in Requests
      BY <2>1 DEF OpenFirst, TypeOK
    <3>2. PICK fh \in Search \ {None} :
            fuse' = [fuse EXCEPT !.op = "header", !.fh = fh]
      BY <2>1 DEF OpenFirst
    <3>3. /\ fuse'.array = fuse.array
          /\ fuse'.name = fuse.name
          /\ fuse'.fh = fh
      BY <3>1, <3>2 DEF Requests
    <3>4. fuse.array = "whole" => fuse.name \in DOMAIN at /\ at[fuse.name] = fh
      BY <3>2 DEF Search
    <3> QED BY <2>1, <3>3, <3>4 DEF OpenFirst
  <2>2. CASE fuse' = None
    BY <2>2
  <2> QED BY <1>5, <2>1, <2>2 DEF Answer, Fails, OpenKnown, OpenReturns,
                                  ReadReturns, Returns
<1>6. ASSUME NEW u \in Updaters, Update(u) PROVE RequestAgrees'
  <2>1. CASE FreeNodes(u)
    <3>1. fuse # None => fuse \in Requests
      BY DEF TypeOK
    <3> QED BY <2>1, <3>1 DEF FreeNodes, Freed, Requests
  <2>2. CASE SetCount(u) \/ Fill(u)
    <3>1. count # "all" /\ UNCHANGED <<fuse, events>>
      BY <2>2 DEF SetCount, Fill, Goes, LockAgrees
    <3> QED BY <3>1
  <2> QED BY <1>2, <1>6, <2>1, <2>2
          DEF Update, FilesOpen, FuserFails, BeginWalk, Listed, Look,
              NothingOpen, BuildPanics, Unlock
<1>7. CASE UNCHANGED vars
  BY <1>2, <1>7 DEF vars
<1> QED BY <1>3, <1>4, <1>5, <1>6, <1>7 DEF Next

LEMMA OpeningStep ==
    ASSUME TypeOK, OpeningAgrees, [Next]_vars,
           events \cap {"slowOpen", "lateOpen"} = {}
    PROVE  OpeningAgrees'
<1> USE DEF OpeningAgrees
<1>1. CASE UNCHANGED <<fuse, update>>
  BY <1>1 DEF Opening, Pending
<1>2. CASE ~Opening'
  BY <1>2
<1>3. ASSUME NEW h \in Handles, Request(h) PROVE OpeningAgrees'
  <2>1. ASSUME NEW op \in {"open", "opendir"}, NEW name, BeginOpen(op, h, name)
        PROVE  OpeningAgrees'
    BY <2>1, BeginsFuse DEF BeginOpen, Pending
  <2>2. ASSUME NEW op \in {"read", "readdir"}, FromHandle(op, h)
        PROVE  OpeningAgrees'
    BY <2>2, BeginsFuse DEF FromHandle, Opening
  <2> QED BY <1>1, <1>3, <2>1, <2>2
          DEF Request, BeginRead, BeginReaddir, Rewind, Release
<1>4. ASSUME NEW name \in Names, BeginGetattr(name) PROVE OpeningAgrees'
  BY <1>4, BeginsFuse DEF BeginGetattr, Opening
<1>5. CASE Answer
  <2>1. CASE OpenFirst
    <3>1. Opening /\ UNCHANGED update
      BY <2>1 DEF OpenFirst, Opening
    <3>2. fuse'.array = fuse.array
      BY <2>1 DEF OpenFirst, TypeOK, Requests
    <3> QED BY <3>1, <3>2 DEF Pending
  <2> QED BY <1>2, <1>5, <2>1
          DEF Answer, Fails, OpenKnown, OpenReturns, ReadReturns, Returns,
              Opening
<1>6. ASSUME NEW u \in Updaters, Update(u) PROVE OpeningAgrees'
  <2> USE DEF TypeOK, Opening, Pending, Goes
  <2>1. CASE FilesOpen(u)
    BY <2>1 DEF FilesOpen
  <2>2. CASE FuserFails(u)
    BY <2>2 DEF FuserFails
  <2>3. CASE BeginWalk(u)
    BY <2>3 DEF BeginWalk
  <2>4. CASE Listed(u)
    BY <2>4 DEF Listed
  <2>5. ASSUME NEW h \in Handles, Look(u, h) PROVE OpeningAgrees'
    BY <2>5 DEF Look
  <2>6. CASE NothingOpen(u)
    BY <2>6 DEF NothingOpen
  <2>7. CASE FreeNodes(u)
    <3>1. Pending /\ ~Opening
      BY <2>7 DEF FreeNodes
    <3>2. fuse' # None => fuse'.op = fuse.op /\ fuse # None
      BY <2>7 DEF FreeNodes, Freed, Requests
    <3> QED BY <3>1, <3>2
  <2>8. CASE BuildPanics(u)
    BY <2>8 DEF BuildPanics
  <2>9. CASE SetCount(u)
    BY <2>9 DEF SetCount
  <2>10. CASE Fill(u)
    BY <2>10 DEF Fill
  <2>11. CASE Unlock(u)
    BY <2>11 DEF Unlock
  <2> QED BY <1>6, <2>1, <2>2, <2>3, <2>4, <2>5, <2>6, <2>7, <2>8, <2>9,
             <2>10, <2>11 DEF Update
<1>7. CASE UNCHANGED vars
  BY <1>1, <1>7 DEF vars
<1> QED BY <1>3, <1>4, <1>5, <1>6, <1>7 DEF Next
\* A descriptor is opened where the array has its path.
LEMMA OpenedAgrees ==
    ASSUME TypeOK, HandlesAgree, ~Pending, count = "all",
           NEW h \in Handles, NEW name \in DOMAIN at,
           Opened(h, name, at[name]), UNCHANGED <<count, at, update, looks>>
    PROVE  HandlesAgree'
<1>1. ASSUME NEW g \in Handles, handle'[g] # None
      PROVE  /\ handle'[g].name \in DOMAIN at
             /\ at[handle'[g].name] = handle'[g].fh
  BY <1>1 DEF Opened, TypeOK, HandlesAgree
<1> QED BY <1>1 DEF HandlesAgree, Pending

\* Descriptors that are closed, or whose position moves, stay where they were.
LEMMA MovedAgrees ==
    ASSUME HandlesAgree, UNCHANGED <<count, at, update, looks>>,
           \A g \in Handles : handle'[g] # None =>
               /\ handle[g] # None
               /\ handle'[g].name = handle[g].name
               /\ handle'[g].fh = handle[g].fh
    PROVE  HandlesAgree'
BY DEF HandlesAgree

LEMMA HandlesStep ==
    ASSUME TypeOK, LockAgrees, RequestAgrees, OpeningAgrees, HandlesAgree,
           [Next]_vars, events \cap Unseen = {}
    PROVE  HandlesAgree'
<1>1. CASE UNCHANGED <<count, at, handle, update, looks>>
  BY <1>1 DEF HandlesAgree
<1>2. ASSUME NEW h \in Handles, Request(h) PROVE HandlesAgree'
  <2>1. CASE Rewind(h)
    BY <2>1, MovedAgrees DEF Rewind, TypeOK, OpenHandles
  <2>2. CASE Release(h)
    BY <2>2, MovedAgrees DEF Release, TypeOK
  <2> QED BY <1>1, <1>2, <2>1, <2>2
          DEF Request, BeginOpen, BeginRead, BeginReaddir, FromHandle, Begins
<1>3. ASSUME NEW name \in Names, BeginGetattr(name) PROVE HandlesAgree'
  BY <1>1, <1>3 DEF BeginGetattr, Begins
<1>4. CASE Answer
  <2>1. ASSUME Opening
        PROVE  ~Pending /\ fuse.array = "whole" /\ count = "all"
    <3>1. fuse \in Requests
      BY <2>1 DEF Opening, TypeOK
    <3>2. fuse.array # "bare"
      BY <2>1 DEF RequestAgrees, Opening, Unseen
    <3> QED BY <2>1, <3>1, <3>2
            DEF OpeningAgrees, RequestAgrees, Opening, Requests
  <2>2. CASE OpenKnown
    <3>1. Opening /\ fuse.handle \in Handles
      BY <2>2 DEF OpenKnown, Opening, TypeOK, RequestFits
    <3>2. /\ fuse.name \in DOMAIN at
          /\ Opened(fuse.handle, fuse.name, at[fuse.name])
      BY <2>1, <2>2, <3>1 DEF OpenKnown, Search
    <3> QED BY <2>1, <2>2, <3>1, <3>2, OpenedAgrees DEF OpenKnown, Returns
  <2>3. CASE OpenReturns
    <3>1. Opening /\ fuse.handle \in Handles
      BY <2>3 DEF OpenReturns, Opening, TypeOK, RequestFits
    <3>2. /\ fuse.name \in DOMAIN at
          /\ Opened(fuse.handle, fuse.name, at[fuse.name])
      BY <2>1, <2>3, <3>1 DEF OpenReturns, RequestAgrees
    <3> QED BY <2>1, <2>3, <3>1, <3>2, OpenedAgrees DEF OpenReturns, Returns
  <2>4. CASE ReadReturns
    <3>1. fuse.handle \in Handles /\ handle[fuse.handle] # None
      BY <2>4 DEF ReadReturns, TypeOK, RequestFits
    <3> QED BY <2>4, <3>1, MovedAgrees
            DEF ReadReturns, Returns, TypeOK, OpenHandles
  <2> QED BY <1>1, <1>4, <2>2, <2>3, <2>4
          DEF Answer, Fails, OpenFirst, Returns
<1>5. ASSUME NEW u \in Updaters, Update(u) PROVE HandlesAgree'
  <2> USE DEF HandlesAgree, TypeOK, Goes
  <2>1. CASE FilesOpen(u)
    BY <2>1 DEF FilesOpen
  <2>2. ~FuserFails(u)
    BY DEF FuserFails, Unseen
  <2>3. CASE BeginWalk(u)
    BY <2>3 DEF BeginWalk
  <2>4. CASE Listed(u)
    BY <2>4 DEF Listed
  <2>5. ASSUME NEW h \in Handles, Look(u, h) PROVE HandlesAgree'
    <3>1. ~checkPID(h) => handle[h] = None
      BY <2>5 DEF Look, checkPID, Unseen
    <3> QED BY <2>5, <3>1 DEF Look
  <2>6. CASE NothingOpen(u)
    BY <2>6 DEF NothingOpen
  <2>7. CASE FreeNodes(u)
    BY <2>7 DEF FreeNodes, Freed
  <2>8. CASE BuildPanics(u)
    BY <2>8 DEF BuildPanics
  <2>9. CASE SetCount(u)
    BY <2>9 DEF SetCount, LockAgrees
  <2>10. CASE Fill(u)
    BY <2>10 DEF Fill, LockAgrees
  <2>11. CASE Unlock(u)
    BY <2>11 DEF Unlock
  <2> QED BY <1>5, <2>1, <2>2, <2>3, <2>4, <2>5, <2>6, <2>7, <2>8, <2>9,
             <2>10, <2>11 DEF Update
<1>6. CASE UNCHANGED vars
  BY <1>1, <1>6 DEF vars
<1> QED BY <1>2, <1>3, <1>4, <1>5, <1>6 DEF Next

\* What is open is where the array has it, as far as the coincidences allow,
\* whatever storage holds and whenever updates are asked for.
THEOREM TableInvariant == Spec => []TableInv
<1>1. Init => TableInv
  <2> SUFFICES ASSUME Init PROVE TableInv
    OBVIOUS
  <2>1. LockAgrees
    BY NodeTableAssumption DEF Init, LockAgrees
  <2>2. RequestAgrees /\ OpeningAgrees /\ HandlesAgree
    BY DEF Init, RequestAgrees, OpeningAgrees, Opening, HandlesAgree
  <2> QED BY <2>1, <2>2 DEF TableInv
<1>2. TypeOK /\ TableInv /\ [Next]_vars => TableInv'
  <2> SUFFICES ASSUME TypeOK, TableInv, [Next]_vars PROVE TableInv'
    OBVIOUS
  <2>1. LockAgrees'
    BY LockStep DEF TableInv
  <2>2. RequestAgrees'
    BY RequestStep DEF TableInv
  <2>3. events \cap {"slowOpen", "lateOpen"} = {} => OpeningAgrees'
    BY OpeningStep DEF TableInv
  <2>4. events \cap Unseen = {} => HandlesAgree'
    <3>1. events \cap Unseen = {} => events \cap {"slowOpen", "lateOpen"} = {}
      BY DEF Unseen
    <3> QED BY <3>1, HandlesStep DEF TableInv
  <2> QED BY <2>1, <2>2, <2>3, <2>4, EventsFixed DEF TableInv
<1> QED BY <1>1, <1>2, TypeCorrect, PTL DEF Spec

-----------------------------------------------------------------------------
(* What requests may meet. *)

\* What may happen leads to what has gone wrong.
LEMMA CausesOf ==
    ASSUME TypeOK
    PROVE  FaultsHaveCauses <=>
            /\ "freed" \in faults =>
                events \cap (Unseen \cup {"midSearch"}) # {}
            /\ "other" \in faults => events \cap Unseen # {}
            /\ "uninitialised" \in faults => "earlyCount" \in events
BY DEF TypeOK, FaultsHaveCauses, Leads, Faults, Events, Unseen

\* Whoever sees that there are nodes does so early or in a whole array.
LEMMA EarlyCauses ==
    ASSUME TypeOK, FaultsHaveCauses, SeesNodes, Uninitialised, events' = events
    PROVE  FaultsHaveCauses'
BY DEF SeesNodes, Uninitialised, FaultsHaveCauses, Leads, TypeOK, Events

\* The index in a descriptor is that of its path.
LEMMA FromHandleCauses ==
    ASSUME TypeOK, TableInv, FaultsHaveCauses,
           NEW op \in {"read", "readdir"}, NEW h \in Handles,
           handle[h] # None, FromHandle(op, h), TypeOK', events' = events
    PROVE  FaultsHaveCauses'
<1>1. CASE Uninitialised
  BY <1>1, EarlyCauses DEF FromHandle, Begins
<1>2. CASE ~Uninitialised
  <2>1. events \cap Unseen # {} /\ faults' = faults \cup {"other"}
    BY <1>2 DEF FromHandle, Uninitialised, TableInv, HandlesAgree
  <2> QED BY <2>1, CausesOf DEF FaultsHaveCauses, Leads, TypeOK, Events, Unseen
<1> QED BY <1>1, <1>2

\* Nobody is in the array that is freed.
LEMMA FreedCauses ==
    ASSUME TypeOK, TableInv, FaultsHaveCauses, NEW u \in Updaters,
           FreeNodes(u), events' = events
    PROVE  FaultsHaveCauses'
<1>1. CASE events \cap (Unseen \cup {"midSearch"}) # {}
  BY <1>1 DEF FreeNodes, Freed, FaultsHaveCauses, Leads, TypeOK, Events, Unseen
<1>2. CASE events \cap (Unseen \cup {"midSearch"}) = {}
  <2>1. ~MidSearch
    BY <1>2 DEF FreeNodes
  <2>2. OpeningAgrees /\ HandlesAgree
    BY <1>2 DEF TableInv, Unseen
  <2>3. update[u] = "checked"
    BY DEF FreeNodes, Goes
  <2>4. fuse = None
    <3> SUFFICES ASSUME fuse # None PROVE FALSE
      OBVIOUS
    <3>1. ~Opening
      BY <2>2, <2>3 DEF OpeningAgrees, Pending
    <3>2. fuse.op \in {"read", "readdir"}
      BY <2>1, <3>1 DEF MidSearch, Opening, TypeOK, Requests
    <3>3. fuse.handle \in Handles /\ handle[fuse.handle] # None
      BY <3>2 DEF TypeOK, RequestFits
    <3> QED BY <2>2, <2>3, <3>3 DEF HandlesAgree
  <2> QED BY <2>1, <2>4 DEF FreeNodes, Freed, FaultsHaveCauses
<1> QED BY <1>1, <1>2

\* Requests and walks only go wrong through a coincidence that leads there.
THEOREM RequestsUseTheirNodes == Spec => []FaultsHaveCauses
<1>1. Init => FaultsHaveCauses
  BY DEF Init, FaultsHaveCauses
<1>2. TypeOK /\ TypeOK' /\ TableInv /\ FaultsHaveCauses /\ [Next]_vars
        => FaultsHaveCauses'
  <2> SUFFICES ASSUME TypeOK, TypeOK', TableInv, FaultsHaveCauses, [Next]_vars
               PROVE  FaultsHaveCauses'
    OBVIOUS
  <2>1. events' = events
    BY EventsFixed
  <2>2. CASE UNCHANGED faults
    BY <2>1, <2>2 DEF FaultsHaveCauses
  <2>3. ASSUME NEW h \in Handles, Request(h) PROVE FaultsHaveCauses'
    <3>1. ASSUME NEW op, NEW name, BeginOpen(op, h, name)
          PROVE  FaultsHaveCauses'
      BY <2>1, <3>1, EarlyCauses DEF BeginOpen, Begins
    <3>2. CASE BeginRead(h) \/ BeginReaddir(h)
      BY <2>1, <3>2, FromHandleCauses DEF BeginRead, BeginReaddir
    <3>3. CASE Rewind(h) \/ Release(h)
      BY <2>2, <3>3 DEF Rewind, Release
    <3> QED BY <2>3, <3>1, <3>2, <3>3 DEF Request
  <2>4. ASSUME NEW name \in Names, BeginGetattr(name) PROVE FaultsHaveCauses'
    BY <2>1, <2>4, EarlyCauses DEF BeginGetattr, Begins
  <2>5. CASE Answer
    BY <2>2, <2>5 DEF Answer, Fails, OpenKnown, OpenFirst, OpenReturns,
                      ReadReturns, Returns
  <2>6. ASSUME NEW u \in Updaters, Update(u) PROVE FaultsHaveCauses'
    <3>1. CASE BeginWalk(u)
      BY <2>1, <3>1, EarlyCauses DEF BeginWalk
    <3>2. CASE FreeNodes(u)
      BY <2>1, <3>2, FreedCauses
    <3>3. CASE UNCHANGED faults
      BY <2>2, <3>3
    <3> QED BY <2>6, <3>1, <3>2, <3>3
            DEF Update, FilesOpen, FuserFails, Listed, Look, NothingOpen,
                BuildPanics, SetCount, Fill, Unlock
  <2>7. CASE UNCHANGED vars
    BY <2>2, <2>7 DEF vars
  <2> QED BY <2>3, <2>4, <2>5, <2>6, <2>7 DEF Next
<1> QED BY <1>1, <1>2, TypeCorrect, TableInvariant, PTL DEF Spec
=============================================================================
