--------------------------- MODULE WalkDirsProofs ---------------------------
(* That the answer of WalkDirs is the selection's alone, for any number of   *)
(* walkers and entries, whichever of the goroutines is first.                *)
EXTENDS WalkDirs, FiniteSetTheorems, TLAPS

-----------------------------------------------------------------------------
(* The inductive invariant *)

\* What no set can be built of, whoever meets it first.
Refused(w, i) ==
    \/ walk[w][i] = Unreadable
    \/ walk[w][i] \in Packets /\ Clashes(walk[w][i])

\* Each walker is at a place of its walk, and nothing it passed is refused.
PlacesFit ==
    \A w \in Walkers :
        /\ next[w] <= Len(walk[w]) + 1
        /\ \A i \in 1 .. next[w] - 1 : ~Refused(w, i)
        /\ walker[w] = "sending" => /\ next[w] <= Len(walk[w])
                                    /\ Entry(w) \in Packets
                                    /\ ~Refused(w, next[w])
        /\ walker[w] = "done" => next[w] = Len(walk[w]) + 1

\* A walker that gives up does so because of an entry, be it another's.
ErrorsAreDue ==
    cancelled \/ (\E w \in Walkers : walker[w] = "error") =>
        \E w \in Walkers : \E i \in DOMAIN walk[w] : Refused(w, i)

\* The files that have been handed over, with the walk they were met in.
Sent == {s \in Walkers \X (1 .. MaxEntries) :
            s[2] < next[s[1]] /\ At(s) \in Packets}

\* f tells which of them each entry of found is; each of them is there once.
IsOrigin(f) ==
    /\ f \in [1 .. Len(found) -> Sent]
    /\ \A s \in Sent : \E k \in 1 .. Len(found) : f[k] = s
    /\ \A j, k \in 1 .. Len(found) : f[j] = f[k] => j = k
    /\ \A k \in 1 .. Len(found) : found[k] = At(f[k])

FoundIsSent == \E f \in [1 .. Len(found) -> Sent] : IsOrigin(f)

AllDone == \A w \in Walkers : walker[w] = "done"

\* What WalkDirs waited for at each of its places.
MainFits ==
    /\ main = "group" => result = "none"
    /\ main # "group" => GroupEnded
    /\ main \in {"closed", "collected"} => AllDone /\ result = "none"
    /\ main = "collected" => collector = "done"
    /\ main = "returned" =>
        \/ /\ result = "ok" /\ AllDone /\ collector = "done"
           /\ Unique(found)
        \/ /\ result = "error"
           /\ \/ \E w \in Walkers : walker[w] = "error"
              \/ AllDone /\ ~Unique(found)

IInv == /\ TypeOK /\ PlacesFit /\ ErrorsAreDue /\ FoundIsSent /\ MainFits

-----------------------------------------------------------------------------
(* The shape of the state *)

(* What a walker meets is a sequence of bounded length.                      *)
LEMMA WalkShape ==
  ASSUME TypeOK, NEW w \in Walkers
  PROVE  /\ walk[w] \in Seq(Entries)
         /\ Len(walk[w]) \in 0 .. MaxEntries
         /\ DOMAIN walk[w] = 1 .. Len(walk[w])
<1>1. walk[w] \in BoundedSeq(Entries, MaxEntries)
  BY DEF TypeOK
<1>2. PICK m \in 0 .. MaxEntries : walk[w] \in [1 .. m -> Entries]
  BY <1>1 DEF BoundedSeq, SeqOf
<1>3. QED
  BY <1>2, WalkAssumption DEF WalkAssumption

(* What a walker visits is an entry of its walk.                             *)
LEMMA EntryType ==
  ASSUME TypeOK, NEW w \in Walkers, next[w] <= Len(walk[w])
  PROVE  /\ next[w] \in 1 .. MaxEntries /\ next[w] \in DOMAIN walk[w]
         /\ Entry(w) \in Entries
         /\ next[w] + 1 \in 1 .. MaxEntries + 1
<1>1. next[w] \in 1 .. MaxEntries + 1 /\ MaxEntries \in Nat
  BY WalkAssumption DEF TypeOK, WalkAssumption
<1>2. QED
  BY <1>1, WalkShape DEF Entry

(* The selection and what was selected before stay as they are.              *)
LEMMA InputStays ==
  ASSUME [Next]_vars
  PROVE  UNCHANGED <<walk, current>>
<1>1. CASE \E w \in Walkers : Walker(w)
  BY <1>1
  DEF Walker, Skip, CannotRead, Reject, Offer, Send, GiveUp, EndOfWalk, Ends,
      input
<1>2. CASE Main \/ ChannelEnds \/ UNCHANGED vars
  BY <1>2
  DEF Main, GroupFails, CloseChannel, Collected, Return, ChannelEnds, input,
      vars
<1>3. QED
  BY <1>1, <1>2 DEF Next

(* Every walker is somewhere, and what the collector has are files.          *)
LEMMA StepType ==
  ASSUME TypeOK, PlacesFit, [Next]_vars
  PROVE  TypeOK'
<1>0. UNCHANGED <<walk, current>>
  BY InputStays
<1>1. ASSUME NEW w \in Walkers, Skip(w)
      PROVE  TypeOK'
  <2>1. next[w] + 1 \in 1 .. MaxEntries + 1
    BY <1>1, EntryType DEF Skip, Visiting
  <2>2. next' \in [Walkers -> 1 .. MaxEntries + 1]
    BY <1>1, <2>1 DEF Skip, Advance, TypeOK
  <2>3. QED
    BY <1>0, <1>1, <2>2 DEF Skip, TypeOK
<1>2. ASSUME NEW w \in Walkers, NEW state \in {"done", "error"}, Ends(w, state)
      PROVE  TypeOK'
  BY <1>0, <1>2 DEF Ends, TypeOK
<1>3. ASSUME NEW w \in Walkers, Offer(w)
      PROVE  TypeOK'
  BY <1>0, <1>3 DEF Offer, TypeOK
<1>4. ASSUME NEW w \in Walkers, Send(w)
      PROVE  TypeOK'
  <2>1. next[w] <= Len(walk[w]) /\ Entry(w) \in Packets
    BY <1>4 DEF Send, PlacesFit
  <2>2. next[w] + 1 \in 1 .. MaxEntries + 1
    BY <2>1, EntryType
  <2>3. next' \in [Walkers -> 1 .. MaxEntries + 1]
    BY <1>4, <2>2 DEF Send, Advance, TypeOK
  <2>4. found' \in Seq(Packets)
    BY <1>4, <2>1 DEF Send, TypeOK
  <2>5. walker' \in [Walkers -> {"walking", "sending", "done", "error"}]
    BY <1>4 DEF Send, TypeOK
  <2>6. QED
    BY <1>0, <1>4, <2>3, <2>4, <2>5 DEF Send, TypeOK
<1>5. CASE \E w \in Walkers : Walker(w)
  BY <1>1, <1>2, <1>3, <1>4, <1>5
  DEF Walker, CannotRead, Reject, GiveUp, EndOfWalk
<1>6. CASE Main
  BY <1>0, <1>6
  DEF Main, GroupFails, CloseChannel, Collected, Return, TypeOK
<1>7. CASE ChannelEnds \/ UNCHANGED vars
  BY <1>0, <1>7 DEF ChannelEnds, vars, TypeOK
<1>8. QED
  BY <1>5, <1>6, <1>7 DEF Next

-----------------------------------------------------------------------------
(* The invariant, part by part *)

(* Advancing moves one walker by one entry.                                  *)
LEMMA AdvanceValue ==
  ASSUME TypeOK, NEW w \in Walkers, Advance(w)
  PROVE  \A v \in Walkers : next'[v] = IF v = w THEN next[v] + 1 ELSE next[v]
  BY DEF TypeOK, Advance

(* A refused entry is never passed: the walk ends there.                     *)
LEMMA StepPlaces ==
  ASSUME TypeOK, PlacesFit, [Next]_vars
  PROVE  PlacesFit'
<1> USE DEF PlacesFit, Refused, Clashes, Entry
<1>0. UNCHANGED <<walk, current>>
  BY InputStays
<1>a. \A w \in Walkers : next[w] \in Nat \ {0} /\ Len(walk[w]) \in Nat
  BY WalkShape, WalkAssumption DEF TypeOK, WalkAssumption
<1>1. ASSUME NEW w \in Walkers, Skip(w)
      PROVE  PlacesFit'
  <2>1. /\ UNCHANGED walker
        /\ walker[w] = "walking" /\ next[w] <= Len(walk[w])
        /\ \A v \in Walkers :
                next'[v] = IF v = w THEN next[v] + 1 ELSE next[v]
    BY <1>1, AdvanceValue DEF Skip, Visiting
  <2>2. ~Refused(w, next[w])
    BY <1>1, WalkAssumption DEF Skip, WalkAssumption
  <2>3. QED
    BY <1>0, <1>a, <2>1, <2>2
<1>2. ASSUME NEW w \in Walkers, CannotRead(w) \/ Reject(w) \/ GiveUp(w)
      PROVE  PlacesFit'
  BY <1>0, <1>2 DEF CannotRead, Reject, GiveUp, Ends, TypeOK
<1>3. ASSUME NEW w \in Walkers, EndOfWalk(w)
      PROVE  PlacesFit'
  BY <1>0, <1>a, <1>3 DEF EndOfWalk, Ends, TypeOK
<1>4. ASSUME NEW w \in Walkers, Offer(w)
      PROVE  PlacesFit'
  <2>1. /\ next[w] <= Len(walk[w]) /\ Entry(w) \in Packets
        /\ ~Refused(w, next[w])
    BY <1>4, WalkAssumption DEF Offer, Visiting, WalkAssumption
  <2>2. QED
    BY <1>0, <1>4, <2>1 DEF Offer, TypeOK
<1>5. ASSUME NEW w \in Walkers, Send(w)
      PROVE  PlacesFit'
  <2>1. /\ walker[w] = "sending"
        /\ \A v \in Walkers : walker'[v] = IF v = w THEN "walking"
                                                    ELSE walker[v]
        /\ \A v \in Walkers :
                next'[v] = IF v = w THEN next[v] + 1 ELSE next[v]
    BY <1>5, AdvanceValue DEF Send, TypeOK
  <2>2. next[w] <= Len(walk[w]) /\ ~Refused(w, next[w])
    BY <2>1
  <2>3. QED
    BY <1>0, <1>a, <2>1, <2>2
<1>6. CASE \E w \in Walkers : Walker(w)
  BY <1>1, <1>2, <1>3, <1>4, <1>5, <1>6 DEF Walker
<1>7. CASE Main \/ ChannelEnds \/ UNCHANGED vars
  BY <1>0, <1>7
  DEF Main, GroupFails, CloseChannel, Collected, Return, ChannelEnds, vars
<1>8. QED
  BY <1>6, <1>7 DEF Next

(* The first error is of an entry, and every later one follows it.           *)
LEMMA StepErrors ==
  ASSUME TypeOK, ErrorsAreDue, [Next]_vars
  PROVE  ErrorsAreDue'
<1> DEFINE Due == \E w \in Walkers : \E i \in DOMAIN walk[w] : Refused(w, i)
<1>0. UNCHANGED <<walk, current>>
  BY InputStays
<1>a. Due' <=> Due
  BY <1>0 DEF Refused, Clashes
<1>1. ASSUME NEW w \in Walkers, CannotRead(w) \/ Reject(w)
      PROVE  Due
  <2>1. next[w] \in DOMAIN walk[w]
    BY <1>1, EntryType DEF CannotRead, Reject, Visiting
  <2>2. Refused(w, next[w])
    BY <1>1 DEF CannotRead, Reject, Refused, Entry
  <2>3. QED
    BY <2>1, <2>2
<1>2. ASSUME NEW w \in Walkers, GiveUp(w)
      PROVE  Due
  BY <1>2 DEF GiveUp, ErrorsAreDue
<1>3. ASSUME NEW w \in Walkers, Skip(w) \/ Offer(w) \/ Send(w) \/ EndOfWalk(w)
      PROVE  ErrorsAreDue'
  <2>1. cancelled' = cancelled
    BY <1>3 DEF Skip, Offer, Send, EndOfWalk, Ends, TypeOK
  <2>2. \A v \in Walkers : walker'[v] = "error" => walker[v] = "error"
    BY <1>3 DEF Skip, Offer, Send, EndOfWalk, Ends, TypeOK
  <2>3. QED
    BY <1>a, <2>1, <2>2 DEF ErrorsAreDue
<1>4. CASE \E w \in Walkers : Walker(w)
  BY <1>a, <1>1, <1>2, <1>3, <1>4 DEF Walker, ErrorsAreDue
<1>5. CASE Main \/ ChannelEnds \/ UNCHANGED vars
  <2>1. UNCHANGED <<cancelled, walker>>
    BY <1>5
    DEF Main, GroupFails, CloseChannel, Collected, Return, ChannelEnds, vars
  <2>2. QED
    BY <1>a, <2>1 DEF ErrorsAreDue
<1>6. QED
  BY <1>4, <1>5 DEF Next

(* Once the group has ended no walker runs.                                  *)
LEMMA WalkersRest ==
  ASSUME GroupEnded, NEW w \in Walkers, Walker(w)
  PROVE  FALSE
  BY DEF GroupEnded, Walker, Skip, CannotRead, Reject, Offer, Send, GiveUp,
         EndOfWalk, Visiting

(* WalkDirs answers only what it waited for.                                 *)
LEMMA StepMain ==
  ASSUME TypeOK, MainFits, [Next]_vars
  PROVE  MainFits'
<1>1. CASE \E w \in Walkers : Walker(w)
  <2>1. main = "group" /\ result = "none"
    BY <1>1, WalkersRest DEF MainFits
  <2>2. UNCHANGED <<main, result>>
    BY <1>1
    DEF Walker, Skip, CannotRead, Reject, Offer, Send, GiveUp, EndOfWalk, Ends
  <2>3. QED
    BY <2>1, <2>2 DEF MainFits
<1>2. CASE GroupFails
  BY <1>2 DEF GroupFails, MainFits, GroupEnded
<1>3. CASE CloseChannel
  BY <1>3 DEF CloseChannel, MainFits, GroupEnded, AllDone
<1>4. CASE Collected
  BY <1>4 DEF Collected, MainFits, GroupEnded, AllDone
<1>5. CASE Return
  <2>1. AllDone /\ GroupEnded /\ collector = "done"
    BY <1>5 DEF Return, MainFits
  <2>2. UNCHANGED <<walker, collector, found>>
    BY <1>5 DEF Return
  <2>3. Unique(found)' <=> Unique(found)
    BY <2>2 DEF Unique
  <2>4. main' = "returned" /\ result' = IF Unique(found) THEN "ok" ELSE "error"
    BY <1>5 DEF Return
  <2>5. AllDone' /\ GroupEnded'
    BY <2>1, <2>2 DEF AllDone, GroupEnded
  <2>6. QED
    BY <2>1, <2>2, <2>3, <2>4, <2>5 DEF MainFits
<1>6. CASE ChannelEnds
  <2>1. main = "closed"
    BY <1>6 DEF ChannelEnds, MainFits
  <2>2. QED
    BY <1>6, <2>1 DEF ChannelEnds, MainFits, GroupEnded, AllDone
<1>7. CASE UNCHANGED vars
  BY <1>7 DEF vars, MainFits, GroupEnded, AllDone, Unique
<1>8. QED
  BY <1>1, <1>2, <1>3, <1>4, <1>5, <1>6, <1>7 DEF Next, Main

(* What a walker hands over is one more entry that was not there before.     *)
LEMMA StepFound ==
  ASSUME TypeOK, PlacesFit, FoundIsSent, [Next]_vars
  PROVE  FoundIsSent'
<1>0. UNCHANGED <<walk, current>>
  BY InputStays
<1>1. ASSUME UNCHANGED <<next, found>>
      PROVE  FoundIsSent'
  BY <1>0, <1>1 DEF FoundIsSent, IsOrigin, Sent, At
<1>2. ASSUME NEW w \in Walkers, Skip(w)
      PROVE  FoundIsSent'
  <2>1. \A v \in Walkers : next'[v] = IF v = w THEN next[v] + 1 ELSE next[v]
    BY <1>2, AdvanceValue DEF Skip
  <2>2. \A v \in Walkers : next[v] \in Nat
    BY DEF TypeOK
  <2>3. walk[w][next[w]] \notin Packets
    BY <1>2, WalkAssumption DEF Skip, Entry, WalkAssumption
  <2>4. Sent' = Sent
    <3>1. ASSUME NEW s \in Walkers \X (1 .. MaxEntries)
          PROVE  s \in Sent' <=> s \in Sent
      <4>1. s[1] \in Walkers /\ s[2] \in Nat /\ At(s)' = At(s)
        BY <1>0, WalkAssumption DEF At, WalkAssumption
      <4>2. s[1] = w /\ s[2] = next[w] => At(s) \notin Packets
        BY <2>3 DEF At
      <4>3. QED
        BY <2>1, <2>2, <4>1, <4>2 DEF Sent
    <3>2. QED
      BY <3>1 DEF Sent
  <2>5. found' = found
    BY <1>2 DEF Skip
  <2>6. QED
    BY <1>0, <2>4, <2>5 DEF FoundIsSent, IsOrigin, At
<1>3. ASSUME NEW w \in Walkers, Send(w)
      PROVE  FoundIsSent'
  <2> DEFINE last == <<w, next[w]>>
             n == Len(found)
  <2>1. \A v \in Walkers : next'[v] = IF v = w THEN next[v] + 1 ELSE next[v]
    BY <1>3, AdvanceValue DEF Send
  <2>2. /\ next[w] <= Len(walk[w]) /\ Entry(w) \in Packets
        /\ next[w] \in 1 .. MaxEntries
    BY <1>3, EntryType DEF Send, PlacesFit
  <2>3. \A v \in Walkers : next[v] \in Nat
    BY DEF TypeOK
  <2>4. Sent' = Sent \cup {last} /\ last \notin Sent
    <3>1. last \in Walkers \X (1 .. MaxEntries) /\ At(last) \in Packets
      BY <2>2 DEF At, Entry
    <3>2. ASSUME NEW s \in Walkers \X (1 .. MaxEntries)
          PROVE  s \in Sent' <=> s \in Sent \/ s = last
      <4>1. s[1] \in Walkers /\ s[2] \in Nat /\ At(s)' = At(s)
        BY <1>0, WalkAssumption DEF At, WalkAssumption
      <4>2. s = last <=> s[1] = w /\ s[2] = next[w]
        OBVIOUS
      <4>3. QED
        BY <2>1, <2>3, <3>1, <4>1, <4>2 DEF Sent
    <3>3. last \notin Sent
      BY <2>3 DEF Sent
    <3>4. QED
      BY <3>1, <3>2, <3>3 DEF Sent
  <2>5. PICK f \in [1 .. n -> Sent] : IsOrigin(f)
    BY DEF FoundIsSent
  <2>6. /\ n \in Nat /\ Len(found') = n + 1
        /\ \A k \in 1 .. n : found'[k] = found[k]
        /\ found'[n + 1] = Entry(w)
    <3>1. found \in Seq(Packets) /\ found' = Append(found, Entry(w))
      BY <1>3 DEF Send, TypeOK
    <3>2. QED
      BY <2>2, <3>1
  <2>a. PICK g : g = [k \in 1 .. n + 1 |-> IF k <= n THEN f[k] ELSE last]
    OBVIOUS
  <2>7. g \in [1 .. Len(found') -> Sent']
    BY <2>4, <2>5, <2>6, <2>a
  <2>8. ASSUME NEW s \in Sent'
        PROVE  \E k \in 1 .. Len(found') : g[k] = s
    <3>1. CASE s = last
      BY <2>6, <3>1, <2>a
    <3>2. CASE s \in Sent
      <4>1. PICK k \in 1 .. n : f[k] = s
        BY <2>5, <3>2 DEF IsOrigin
      <4>2. k \in 1 .. n + 1 /\ g[k] = s
        BY <2>6, <4>1, <2>a
      <4>3. QED
        BY <2>6, <4>2
    <3>3. QED
      BY <2>4, <3>1, <3>2
  <2>9. ASSUME NEW j \in 1 .. Len(found'), NEW k \in 1 .. Len(found'),
               g[j] = g[k]
        PROVE  j = k
    <3>1. \A i \in 1 .. n : f[i] \in Sent
      BY <2>5
    <3>2. j <= n <=> k <= n
      BY <2>4, <2>6, <2>9, <3>1, <2>a
    <3>3. CASE j <= n
      BY <2>5, <2>6, <2>9, <3>2, <3>3, <2>a DEF IsOrigin
    <3>4. CASE ~(j <= n)
      BY <2>6, <3>2, <3>4, <2>a
    <3>5. QED
      BY <3>3, <3>4
  <2>10. ASSUME NEW k \in 1 .. Len(found')
         PROVE  found'[k] = At(g[k])'
    <3>1. CASE k <= n
      <4>1. k \in 1 .. n /\ g[k] = f[k]
        BY <2>6, <3>1, <2>a
      <4>2. found[k] = At(f[k])
        BY <2>5, <4>1 DEF IsOrigin
      <4>3. QED
        BY <1>0, <2>6, <4>1, <4>2 DEF At
    <3>2. CASE ~(k <= n)
      <4>1. k = n + 1 /\ g[k] = last
        BY <2>6, <3>2, <2>a
      <4>2. QED
        BY <1>0, <2>6, <4>1 DEF At, Entry
    <3>3. QED
      BY <3>1, <3>2
  <2>11. IsOrigin(g)'
    BY <2>7, <2>8, <2>9, <2>10 DEF IsOrigin
  <2>12. QED
    BY <2>7, <2>11 DEF FoundIsSent
<1>4. CASE \E w \in Walkers : Walker(w)
  BY <1>1, <1>2, <1>3, <1>4
  DEF Walker, CannotRead, Reject, Offer, GiveUp, EndOfWalk, Ends
<1>5. CASE Main \/ ChannelEnds \/ UNCHANGED vars
  BY <1>1, <1>5
  DEF Main, GroupFails, CloseChannel, Collected, Return, ChannelEnds, vars
<1>6. QED
  BY <1>4, <1>5 DEF Next

-----------------------------------------------------------------------------
(* The theorems *)

(* At the start nobody has met anything.                                     *)
LEMMA InitInv == Init => IInv
<1> SUFFICES ASSUME Init
             PROVE  IInv
  OBVIOUS
<1>1. TypeOK
  <2>1. next \in [Walkers -> 1 .. MaxEntries + 1]
    BY WalkAssumption DEF Init, WalkAssumption
  <2>2. found \in Seq(Packets)
    BY DEF Init
  <2>3. QED
    BY <2>1, <2>2 DEF Init, TypeOK
<1>2. PlacesFit
  BY <1>1, WalkShape DEF Init, PlacesFit
<1>3. ErrorsAreDue /\ MainFits
  BY DEF Init, ErrorsAreDue, MainFits
<1>4. FoundIsSent
  <2>1. Sent = {}
    BY WalkAssumption DEF Init, Sent, WalkAssumption
  <2>2. Len(found) = 0
    BY DEF Init
  <2>3. PICK f : f = [k \in 1 .. 0 |-> k]
    OBVIOUS
  <2>4. f \in [1 .. Len(found) -> Sent]
    BY <2>1, <2>2, <2>3
  <2>5. IsOrigin(f)
    BY <2>1, <2>2, <2>4 DEF IsOrigin
  <2>6. QED
    BY <2>4, <2>5 DEF FoundIsSent
<1>5. QED
  BY <1>1, <1>2, <1>3, <1>4 DEF IInv

(* The invariant holds in every behaviour.                                   *)
THEOREM Inductive == Spec => []IInv
<1>1. IInv /\ [Next]_vars => IInv'
  BY StepType, StepPlaces, StepErrors, StepFound, StepMain DEF IInv
<1>2. QED
  BY InitInv, <1>1, PTL DEF Spec

(* When there is a set, no goroutine is left that could still change it.     *)
THEOREM WalkInvariant == Spec => []WalkInv
<1>1. IInv => WalkInv
  BY DEF IInv, MainFits, AllDone, WalkInv, NothingLeftRunning, TypeOK
<1>2. QED
  BY Inductive, <1>1, PTL

(* The selection, entry by entry.                                            *)
LEMMA SelectedIs ==
  ASSUME TypeOK
  PROVE  Selected = {s \in Walkers \X (1 .. MaxEntries) :
                        s[2] <= Len(walk[s[1]]) /\ At(s) \in Packets}
<1> DEFINE S == {s \in Walkers \X (1 .. MaxEntries) :
                    s[2] <= Len(walk[s[1]]) /\ At(s) \in Packets}
<1>1. ASSUME NEW s \in Selected
      PROVE  s \in S
  <2>1. PICK w \in Walkers :
            \E i \in DOMAIN walk[w] : s = <<w, i>> /\ walk[w][i] \in Packets
    BY DEF Selected
  <2>2. PICK i \in DOMAIN walk[w] : s = <<w, i>> /\ walk[w][i] \in Packets
    BY <2>1
  <2>3. i \in 1 .. MaxEntries /\ i <= Len(walk[w])
    BY WalkShape, WalkAssumption DEF WalkAssumption
  <2>4. QED
    BY <2>2, <2>3 DEF At
<1>2. ASSUME NEW s \in S
      PROVE  s \in Selected
  <2>1. PICK w \in Walkers, i \in 1 .. MaxEntries : s = <<w, i>>
    OBVIOUS
  <2>2. i \in DOMAIN walk[w] /\ walk[w][i] \in Packets
    BY <2>1, WalkShape DEF At
  <2>3. QED
    BY <2>1, <2>2 DEF Selected
<1>3. QED
  BY <1>1, <1>2

(* Once every walker is done, all of the selection has been handed over and  *)
(* none of it was refused.                                                   *)
LEMMA AllSent ==
  ASSUME TypeOK, PlacesFit, AllDone
  PROVE  /\ Sent = Selected
         /\ \A w \in Walkers : \A i \in DOMAIN walk[w] : ~Refused(w, i)
<1>1. \A w \in Walkers : next[w] = Len(walk[w]) + 1 /\ Len(walk[w]) \in Nat
  BY WalkShape, WalkAssumption DEF PlacesFit, AllDone, WalkAssumption
<1>2. \A w \in Walkers : \A i \in DOMAIN walk[w] : ~Refused(w, i)
  BY <1>1, WalkShape DEF PlacesFit
<1>3. \A s \in Walkers \X (1 .. MaxEntries) :
        s[2] < next[s[1]] <=> s[2] <= Len(walk[s[1]])
  BY <1>1
<1>4. QED
  BY <1>2, <1>3, SelectedIs DEF Sent

(* Whichever walker is first, there is a set if and only if the selection    *)
(* can become one, and it has each file once: for any selection.             *)
THEOREM Answer == Spec => []AnswerIsTrue
<1>1. IInv => AnswerIsTrue
  <2> SUFFICES ASSUME IInv, main = "returned"
               PROVE  /\ result = "ok" <=> Exportable
                      /\ result = "ok" =>
                            /\ ToSet(found) = {At(s) : s \in Selected}
                            /\ Len(found) = Cardinality(Selected)
    BY DEF AnswerIsTrue
  <2>0. TypeOK /\ PlacesFit /\ ErrorsAreDue /\ FoundIsSent /\ MainFits
    BY DEF IInv
  <2>1. PICK f \in [1 .. Len(found) -> Sent] : IsOrigin(f)
    BY <2>0 DEF FoundIsSent
  <2>2. found \in Seq(Packets) /\ DOMAIN found = 1 .. Len(found)
        /\ Len(found) \in Nat
    BY <2>0 DEF TypeOK
  <2>3. CASE result = "ok" /\ AllDone /\ Unique(found)
    <3>1. /\ Sent = Selected
          /\ \A w \in Walkers : \A i \in DOMAIN walk[w] : ~Refused(w, i)
      BY <2>0, <2>3, AllSent
    <3>2. \A w \in Walkers : Unreadable \notin ToSet(walk[w])
      BY <3>1 DEF ToSet, Refused
    <3>3. \A s \in Selected : At(s).object \notin current
      <4>1. ASSUME NEW s \in Selected
            PROVE  At(s).object \notin current
        <5>1. PICK w \in Walkers : \E i \in DOMAIN walk[w] :
                  s = <<w, i>> /\ walk[w][i] \in Packets
          BY DEF Selected
        <5>2. QED
          BY <3>1, <5>1 DEF At, Refused, Clashes
      <4>2. QED
        BY <4>1
    <3>4. \A s, t \in Selected : At(s).object = At(t).object => s = t
      <4>1. ASSUME NEW s \in Selected, NEW t \in Selected,
                   At(s).object = At(t).object
            PROVE  s = t
        <5>1. PICK j \in 1 .. Len(found), k \in 1 .. Len(found) :
                  f[j] = s /\ f[k] = t
          BY <2>1, <3>1 DEF IsOrigin
        <5>2. found[j].object = found[k].object
          BY <2>1, <4>1, <5>1 DEF IsOrigin
        <5>3. QED
          BY <2>3, <5>1, <5>2 DEF Unique
      <4>2. QED
        BY <4>1
    <3>5. ToSet(found) = {At(s) : s \in Selected}
      <4>1. ASSUME NEW k \in 1 .. Len(found)
            PROVE  found[k] \in {At(s) : s \in Selected}
        BY <2>1, <3>1 DEF IsOrigin
      <4>2. ASSUME NEW s \in Selected
            PROVE  \E k \in 1 .. Len(found) : found[k] = At(s)
        BY <2>1, <3>1 DEF IsOrigin
      <4>3. QED
        BY <2>2, <4>1, <4>2 DEF ToSet
    <3>6. Len(found) = Cardinality(Selected)
      <4>1. f \in Bijection(1 .. Len(found), Selected)
        BY <2>1, <3>1
        DEF IsOrigin, Bijection, Injection, IsInjective, Surjection
      <4>2. ExistsBijection(1 .. Len(found), Selected)
        BY <4>1 DEF ExistsBijection
      <4>3. \A n \in Nat : IsFiniteSet(1 .. n) /\ Cardinality(1 .. n) = n
        BY FS_Interval
      <4>4. QED
        BY <2>2, <4>2, <4>3, FS_Bijection
    <3>7. QED
      BY <2>3, <3>2, <3>3, <3>4, <3>5, <3>6 DEF Exportable
  <2>4. CASE result = "error" /\ \E w \in Walkers : walker[w] = "error"
    <3>a. PICK w \in Walkers : \E i \in DOMAIN walk[w] : Refused(w, i)
      BY <2>0, <2>4 DEF ErrorsAreDue
    <3>1. PICK i \in DOMAIN walk[w] : Refused(w, i)
      BY <3>a
    <3>2. CASE walk[w][i] = Unreadable
      BY <2>4, <3>2 DEF Exportable, ToSet
    <3>3. CASE walk[w][i] \in Packets /\ Clashes(walk[w][i])
      <4>1. <<w, i>> \in Selected
        BY <3>3 DEF Selected
      <4>2. QED
        BY <2>4, <3>3, <4>1 DEF Exportable, At, Clashes
    <3>4. QED
      BY <3>1, <3>2, <3>3 DEF Refused
  <2>5. CASE result = "error" /\ AllDone /\ ~Unique(found)
    <3>1. PICK j \in 1 .. Len(found), k \in 1 .. Len(found) :
              found[j].object = found[k].object /\ j # k
      BY <2>5 DEF Unique
    <3>2. /\ f[j] \in Selected /\ f[k] \in Selected /\ f[j] # f[k]
          /\ found[j] = At(f[j]) /\ found[k] = At(f[k])
      BY <2>0, <2>1, <2>5, <3>1, AllSent DEF IsOrigin
    <3>3. QED
      BY <2>5, <3>1, <3>2 DEF Exportable
  <2>6. QED
    BY <2>0, <2>3, <2>4, <2>5 DEF MainFits
<1>2. QED
  BY Inductive, <1>1, PTL

=============================================================================
