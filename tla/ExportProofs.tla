---------------------------- MODULE ExportProofs ----------------------------
(* What the export page and the export command keep in Export, for any set  *)
(* of buckets and objects and any combination of events.                    *)
EXTENDS Export, TLAPS

-----------------------------------------------------------------------------
(* The inductive invariant *)

\* A bucket that the project does not have has nothing in it.
StoredFits == \A b \in Buckets \ owned : stored[b] = {}

\* Where the command runs, the page does not.
CliFits ==
    cli # "off" => /\ page = 0 /\ emails = 0 /\ adds = {}
                   /\ export # NoExport => cli = "upload"

\* As long as the user waits for the page, the bucket is settled before it is
\* left and everything on the later pages is about that bucket.
Orderly == events \cap {"hasty", "lateAnswer", "doubleContinue"} = {}

PageFits ==
    Orderly /\ cli = "off" =>
        /\ page <= 4 /\ emails <= 1
        /\ emails > 0 => page = 1
        /\ emails > 0 \/ page \in {2, 3, 4} => Settled
        /\ adds # {} => page = 2
        /\ \A a \in adds : a.bucket = bucket
        /\ page \in {0, 1} => set.items = <<>>
        /\ set.items # <<>> => set.bucket = bucket
        /\ export # NoExport <=> page = 3

\* When files are added one after the other, what is looked up is looked for
\* in the whole list.
RunsFit ==
    "doubleAdd" \notin events =>
        /\ \A a, b \in adds : a = b
        /\ \A a \in adds :
            /\ ObjectsOf(set.items) \subseteq a.current
            /\ a.stage = "check" => a.objects \cap a.current = {}
        /\ ~Twice

\* With none of the events that lead to objects being overwritten, what the
\* page believes of a settled bucket is what the project has.
Careful ==
    events \cap {"hasty", "reordered", "lateAnswer", "doubleContinue",
                 "createdInVain", "othersWrite"} = {}

BucketIsKnown ==
    Careful /\ cli = "off" =>
        /\ heads # <<>> => heads[Len(heads)] = bucket
        /\ ~timer => bucket = query
        /\ emails > 0 \/ page \in {2, 3, 4} => valid
        /\ Settled /\ valid => bucket \in Mine \cup Free
        /\ /\ Settled /\ valid /\ page # 4
           /\ export # NoExport => ~export.created
           => unique = IF bucket \in owned THEN "no" ELSE "yes"
        /\ export # NoExport => /\ export.bucket = bucket
                                /\ export.created => export.stage = "upload"

\* An object that the user has agreed to overwrite or need not be asked about.
Agreed(b, o) == o \notin stored[b] \/ <<b, o>> \in confirmed \cup own

OverwritesAgreed ==
    Careful =>
        /\ cli = "off" =>
            \A item \in Listed(set.items) :
                item.exists \/ Agreed(bucket, item.object)
        /\ export # NoExport =>
            \A o \in export.objects : Agreed(export.bucket, o)

\* Each fault has its own cause.
CausesFit ==
    /\ Orderly => "misdirected" \notin faults
    /\ "doubleAdd" \notin events => "twice" \notin faults
    /\ Careful => "overwritten" \notin faults

IInv == /\ TypeOK /\ StoredFits /\ CliFits /\ PageFits /\ RunsFit
        /\ BucketIsKnown /\ OverwritesAgreed /\ CausesFit

-----------------------------------------------------------------------------
(* Sequences *)

(* What is left when a sequence loses an element.                           *)
LEMMA RemoveAtType ==
  ASSUME NEW S, NEW s \in Seq(S), NEW i \in DOMAIN s
  PROVE  RemoveAt(s, i) \in Seq(S)
<1>1. i \in 1 .. Len(s)
  OBVIOUS
<1>2. SubSeq(s, 1, i - 1) \in Seq(S) /\ SubSeq(s, i + 1, Len(s)) \in Seq(S)
  BY <1>1
<1>3. QED
  BY <1>2 DEF RemoveAt

(* The first element gone, the last is still the last.                      *)
LEMMA RemoveFirstValue ==
  ASSUME NEW S, NEW s \in Seq(S), s # <<>>
  PROVE  /\ Len(RemoveAt(s, 1)) = Len(s) - 1
         /\ RemoveAt(s, 1) # <<>> =>
                RemoveAt(s, 1)[Len(RemoveAt(s, 1))] = s[Len(s)]
<1> DEFINE a == SubSeq(s, 1, 0)
           b == SubSeq(s, 2, Len(s))
<1>1. \A x \in Seq(S) : Len(x) = 0 => x = <<>>
  OBVIOUS
<1>2. Len(s) \in Nat /\ Len(s) >= 1
  BY <1>1
<1>3. a \in Seq(S) /\ Len(a) = 0
  BY <1>2
<1>4. b \in Seq(S)
  BY <1>2
<1>5. Len(b) = Len(s) - 1
  BY <1>2
<1>6. \A j \in 1 .. Len(b) : b[j] = s[j + 1]
  BY <1>2, <1>5
<1>7. a = <<>>
  BY <1>1, <1>3
<1>8. RemoveAt(s, 1) = b
  BY <1>4, <1>7 DEF RemoveAt
<1>9. QED
  BY <1>2, <1>4, <1>8, <1>5, <1>6

(* A sequence that something was appended to is not empty.                  *)
LEMMA AppendNotEmpty ==
  ASSUME NEW S, NEW s \in Seq(S), NEW x \in S
  PROVE  Append(s, x) # <<>>
<1>1. Len(Append(s, x)) = Len(s) + 1 /\ Len(s) \in Nat /\ Len(<<>>) = 0
  OBVIOUS
<1>2. Len(Append(s, x)) # Len(<<>>)
  BY <1>1
<1>3. QED
  BY <1>2, Zenon

(* What Push adds to a list.                                                *)
LEMMA ListedAppend ==
  ASSUME NEW items \in Seq(SUBSET Items), NEW found \in SUBSET Items
  PROVE  /\ Append(items, found) \in Seq(SUBSET Items)
         /\ Listed(Append(items, found)) = Listed(items) \cup found
         /\ ObjectsOf(Append(items, found)) =
                ObjectsOf(items) \cup {item.object : item \in found}
<1> DEFINE new == Append(items, found)
<1>1. /\ new \in Seq(SUBSET Items) /\ Len(new) = Len(items) + 1
      /\ new[Len(items) + 1] = found
      /\ \A i \in 1 .. Len(items) : new[i] = items[i]
  OBVIOUS
<1>2. DOMAIN new = DOMAIN items \cup {Len(items) + 1}
  BY <1>1
<1>3. Listed(new) = Listed(items) \cup found
  BY <1>1, <1>2 DEF Listed
<1>4. ObjectsOf(new) = ObjectsOf(items) \cup {item.object : item \in found}
  BY <1>3 DEF ObjectsOf
<1>5. QED
  BY <1>1, <1>3, <1>4

(* What Push adds: each object, flagged if it exists.                       *)
LEMMA FoundValue ==
  ASSUME NEW objects \in SUBSET Objects, NEW existing
  PROVE  \A item \in {[object |-> o, exists |-> o \in existing] :
                       o \in objects} :
            /\ item \in Items
            /\ item.object \in objects
            /\ item.exists \/ item.object \notin existing
<1>1. ASSUME NEW o \in objects, o \in existing
      PROVE  [object |-> o, exists |-> o \in existing] =
                [object |-> o, exists |-> TRUE]
  BY <1>1
<1>2. ASSUME NEW o \in objects, o \notin existing
      PROVE  [object |-> o, exists |-> o \in existing] =
                [object |-> o, exists |-> FALSE]
  <2>1. (o \in existing) = FALSE
    BY <1>2
  <2>2. QED
    BY <2>1, Zenon
<1>3. ASSUME NEW o \in objects, o \in existing
      PROVE  LET item == [object |-> o, exists |-> TRUE]
             IN  item \in Items /\ item.object \in objects /\ item.exists
  BY <1>3 DEF Items
<1>4. ASSUME NEW o \in objects, o \notin existing
      PROVE  LET item == [object |-> o, exists |-> FALSE]
             IN  item \in Items /\ item.object \in objects
                 /\ item.object \notin existing
  BY <1>4 DEF Items
<1>5. QED
  BY <1>1, <1>2, <1>3, <1>4

(* The objects of a list are objects.                                       *)
LEMMA ListedType ==
  ASSUME NEW items \in Seq(SUBSET Items)
  PROVE  Listed(items) \subseteq Items /\ ObjectsOf(items) \subseteq Objects
<1>1. Listed(items) \subseteq Items
  BY DEF Listed
<1>2. QED
  BY <1>1 DEF ObjectsOf, Items

-----------------------------------------------------------------------------
(* The types *)

(* The bounds on what the user does are numbers.                            *)
LEMMA BoundsType == MaxTyped \in Nat /\ MaxAdds \in Nat
BY ExportAssumption

(* An empty list, as the page starts with.                                  *)
LEMMA EmptyType ==
  /\ EmptySet \in [bucket : Names, items : Seq(SUBSET Items)]
  /\ EmptySet.bucket = "" /\ EmptySet.items = <<>>
  /\ "" \in Names
<1>1. "" \in Names
  BY DEF Names
<1>2. <<>> \in Seq(SUBSET Items)
  OBVIOUS
<1>3. QED
  BY <1>1, <1>2 DEF EmptySet

(* An export that runs has a bucket and objects.                            *)
LEMMA ExportType ==
  ASSUME TypeOK
  PROVE  /\ export.stage = "none" <=> export = NoExport
         /\ export # NoExport => export \in Exports
  BY DEF TypeOK, Exports, NoExport

(* A function on the places of a list is a list.                            *)
LEMMA MapType ==
  ASSUME NEW S, NEW T, NEW s \in Seq(S), NEW t \in [DOMAIN s -> T]
  PROVE  t \in Seq(T)
<1>1. Len(s) \in Nat /\ DOMAIN s = 1 .. Len(s)
  OBVIOUS
<1>2. QED
  BY <1>1

(* Page 1 and the timer.                                                    *)
LEMMA TypePage1 ==
  ASSUME TypeOK, Page1
  PROVE  TypeOK'
<1> USE DEF TypeOK, asked, chosen, storage, history
<1>1. CASE ExportPossible
  BY <1>1 DEF ExportPossible
<1>2. CASE Debounced
  <2>1. CASE query = ""
    BY <1>2, <2>1 DEF Debounced
  <2>2. CASE query # ""
    <3>1. query \in Buckets
      BY <2>2 DEF Names
    <3>2. heads \in Seq(Buckets) /\ heads' = Append(heads, query)
      BY <1>2, <2>2 DEF Debounced
    <3>3. heads' \in Seq(Buckets)
      BY ONLY <3>1, <3>2
    <3>4. QED
      BY <1>2, <2>2, <3>3 DEF Debounced
  <2>3. QED
    BY <2>1, <2>2
<1>3. CASE Continue
  BY <1>3 DEF Continue
<1>4. ASSUME NEW name \in Names, Type(name)
      PROVE  TypeOK'
  BY <1>4, BoundsType DEF Type
<1>5. ASSUME NEW i \in DOMAIN heads, HeadReturns(i)
      PROVE  TypeOK'
  <2>1. heads' \in Seq(Buckets)
    BY <1>5, RemoveAtType DEF HeadReturns
  <2>2. unique' \in {"yes", "no", "unknown"} /\ valid' \in BOOLEAN
    BY <1>5 DEF HeadReturns, BucketExists
  <2>3. QED
    BY <1>5, <2>1, <2>2 DEF HeadReturns
<1>6. ASSUME NEW ok \in BOOLEAN, EmailReturns(ok)
      PROVE  TypeOK'
  BY <1>6 DEF EmailReturns
<1>7. QED
  BY <1>1, <1>2, <1>3, <1>4, <1>5, <1>6 DEF Page1

(* What the calls of page 2 leave.                                          *)
LEMMA TypeAnswers ==
  ASSUME TypeOK, NEW a \in adds, WalkReturns(a) \/ CheckReturns(a)
  PROVE  TypeOK'
<1> USE DEF TypeOK, asked, chosen, storage, history
<1>1. a \in Adds
  OBVIOUS
<1>2. adds' \subseteq Adds
  BY <1>1 DEF WalkReturns, CheckReturns, GoOn, Adds
<1>3. ASSUME NEW existing, Push(a, existing)
      PROVE  set' \in [bucket : Names, items : Seq(SUBSET Items)]
  <2> DEFINE found == {[object |-> o, exists |-> o \in existing] :
                       o \in a.objects}
  <2>0. a.objects \in SUBSET Objects
    BY <1>1 DEF Adds
  <2>1. found \in SUBSET Items
    BY <2>0, FoundValue
  <2>2. Append(set.items, found) \in Seq(SUBSET Items)
    BY <2>1, ListedAppend
  <2>3. QED
    BY <1>1, <1>3, <2>2 DEF Push, Adds
<1>4. set' = set \/ \E existing : Push(a, existing)
  BY DEF WalkReturns, CheckReturns
<1>5. set' \in [bucket : Names, items : Seq(SUBSET Items)]
  BY <1>3, <1>4
<1>6. QED
  BY <1>2, <1>5 DEF WalkReturns, CheckReturns

(* The other steps of page 2, and those that start anew.                    *)
LEMMA TypePage2 ==
  ASSUME TypeOK, Page2 \/ NewExport
  PROVE  TypeOK'
<1> USE DEF TypeOK, asked, chosen, storage, history
<1>1. ASSUME NEW objects \in SUBSET Objects \ {{}}, AddFiles(objects)
      PROVE  TypeOK'
  <2>1. ObjectsOf(set.items) \subseteq Objects
    BY ListedType
  <2>2. added \in 0 .. MaxAdds /\ added + 1 \in 0 .. MaxAdds
    BY <1>1, BoundsType DEF AddFiles
  <2>3. adds' \subseteq Adds
    BY <1>1, <2>1, <2>2 DEF AddFiles, Adds
  <2>4. QED
    BY <1>1, <2>2, <2>3 DEF AddFiles
<1>2. CASE \E a \in adds : WalkReturns(a) \/ CheckReturns(a)
  BY <1>2, TypeAnswers
<1>3. ASSUME NEW i \in DOMAIN set.items, NEW o \in Objects,
             RemoveItem(i, o)
      PROVE  TypeOK'
  BY <1>3 DEF RemoveItem
<1>4. CASE Overwrite
  <2> DEFINE agreed == [i \in DOMAIN set.items |->
                         {[object |-> item.object, exists |-> FALSE] :
                             item \in set.items[i]}]
  <2>1. agreed \in [DOMAIN set.items -> SUBSET Items]
    <3>1. \A i \in DOMAIN set.items : set.items[i] \subseteq Items
      OBVIOUS
    <3>2. \A item \in Items :
            [object |-> item.object, exists |-> FALSE] \in Items
      BY DEF Items
    <3>3. QED
      BY <3>1, <3>2
  <2>2. agreed \in Seq(SUBSET Items)
    BY <2>1, MapType
  <2>3. Flagged \subseteq Items
    BY ListedType DEF Flagged
  <2>4. confirmed' \subseteq Names \X Objects
    BY <1>4, <2>3 DEF Overwrite, Items
  <2>5. QED
    BY <1>4, <2>2, <2>4 DEF Overwrite
<1>5. CASE Discard
  <2> DEFINE kept == [i \in DOMAIN set.items |->
                         {item \in set.items[i] : ~item.exists}]
  <2>1. kept \in [DOMAIN set.items -> SUBSET Items]
    OBVIOUS
  <2>2. kept \in Seq(SUBSET Items)
    BY <2>1, MapType
  <2>3. QED
    BY <1>5, <2>2 DEF Discard
<1>6. CASE Cancel
  <2>1. set' \in [bucket : Names, items : Seq(SUBSET Items)]
    BY <1>6, EmptyType DEF Cancel
  <2>2. confirmed' \subseteq Names \X Objects
        /\ own' \subseteq Buckets \X Objects
    BY <1>6 DEF Cancel
  <2>3. bucket' \in Names /\ query' \in Names
    BY <1>6, EmptyType DEF Cancel
  <2>4. QED
    BY <1>6, <2>1, <2>2, <2>3 DEF Cancel
<1>7. CASE ExportFiles
  <2>1. ObjectsOf(set.items) \subseteq Objects
    BY ListedType
  <2>2. set.bucket \in Names
    OBVIOUS
  <2>3. export' \in Exports
    BY <1>7, <2>1, <2>2 DEF ExportFiles, Exports
  <2>4. faults' \subseteq {"overwritten", "misdirected", "twice"}
    BY <1>7 DEF ExportFiles
  <2>5. page' \in 0 .. 5
    BY <1>7 DEF ExportFiles
  <2>6. QED
    BY <1>7, <2>3, <2>4, <2>5 DEF ExportFiles
<1>8. CASE NewExport
  <2>1. set' \in [bucket : Names, items : Seq(SUBSET Items)]
    BY <1>8, EmptyType DEF NewExport
  <2>2. confirmed' \subseteq Names \X Objects
        /\ own' \subseteq Buckets \X Objects
    BY <1>8 DEF NewExport
  <2>3. bucket' \in Names /\ query' \in Names
    BY <1>8, EmptyType DEF NewExport
  <2>4. timer' \in BOOLEAN
    BY <1>8, Zenon DEF NewExport
  <2>5. /\ page' = 1 /\ unique' = "unknown"
        /\ UNCHANGED <<events, findata, storage, valid, heads, typed, emails,
                       adds, added, export, cli, faults>>
    BY <1>8, Zenon DEF NewExport
  <2>6. QED
    BY <2>1, <2>2, <2>3, <2>4, <2>5
<1>9. QED
  BY <1>1, <1>2, <1>3, <1>4, <1>5, <1>6, <1>7, <1>8 DEF Page2
(* The backend and the other writers.                                       *)
LEMMA TypeBackend ==
  ASSUME TypeOK,
         Backend \/ \E name \in Mine \cup Free, o \in Objects :
                        OthersWrite(name, o)
  PROVE  TypeOK'
<1> USE DEF TypeOK, asked, chosen, storage, history
<1>0. NoExport \notin Exports
  BY DEF NoExport, Exports
<1>1. CASE CreateBucket
  <2>1. export \in Exports /\ export.bucket \in Names
        /\ export.objects \subseteq Objects
    BY <1>1, ExportType DEF CreateBucket, Exports, NoExport
  <2>2. export' \in {NoExport} \cup Exports
    <3>1. [stage |-> "upload", created |-> TRUE, bucket |-> export.bucket,
           objects |-> export.objects] \in Exports
      BY <2>1 DEF Exports
    <3>2. QED
      BY <1>1, <3>1 DEF CreateBucket, Answer
  <2>3. page' \in 0 .. 5 /\ cli' \in {"off", "setup", "walk", "validate",
                                      "check", "ask", "upload", "end"}
    BY <1>1 DEF CreateBucket, Answer
  <2>4. owned' \subseteq Mine \cup Free
    BY <1>1 DEF CreateBucket
  <2>5. QED
    BY <1>1, <2>2, <2>3, <2>4 DEF CreateBucket
<1>2. ASSUME NEW put \in SUBSET Objects, Upload(put)
      PROVE  TypeOK'
  <2>1. export \in Exports
    BY <1>2, ExportType DEF Upload, NoExport
  <2>2. put # {} => export.bucket \in Buckets
    BY <1>2 DEF Upload, Buckets
  <2>3. stored' \in [Buckets -> SUBSET Objects]
    BY <1>2 DEF Upload
  <2>4. own' \subseteq Buckets \X Objects
    BY <1>2, <2>2 DEF Upload
  <2>5. export' = NoExport /\ page' \in 0 .. 5
        /\ cli' \in {"off", "setup", "walk", "validate",
                     "check", "ask", "upload", "end"}
    BY <1>2 DEF Upload, Answer
  <2>6. faults' \subseteq {"overwritten", "misdirected", "twice"}
    BY <1>2 DEF Upload
  <2>7. QED
    BY <1>2, <2>3, <2>4, <2>5, <2>6 DEF Upload
<1>3. ASSUME NEW name \in Mine \cup Free, NEW o \in Objects,
             OthersWrite(name, o)
      PROVE  TypeOK'
  BY <1>3 DEF OthersWrite
<1>4. QED
  BY <1>1, <1>2, <1>3 DEF Backend

(* The command line.                                                        *)
LEMMA TypeCommandLine ==
  ASSUME TypeOK, CommandLine
  PROVE  TypeOK'
<1> USE DEF TypeOK, asked, chosen, storage, history
<1>0. ObjectsOf(set.items) \subseteq Objects /\ set.bucket \in Names
  BY ListedType
<1>1. ASSUME CliUpload
      PROVE  export' \in Exports
  BY <1>0, <1>1 DEF CliUpload, Exports
<1>2. CASE exportSetup
  BY <1>2 DEF exportSetup, Cli
<1>3. ASSUME NEW name \in Names, NEW objects \in SUBSET Objects,
             CliWalkDirs(name, objects)
      PROVE  TypeOK'
  <2> DEFINE found == [object : objects, exists : {FALSE}]
  <2>1. found \in SUBSET Items
    BY DEF Items
  <2>2. <<found>> \in Seq(SUBSET Items)
    <3>1. \A x \in SUBSET Items : <<x>> \in Seq(SUBSET Items)
      OBVIOUS
    <3>2. QED
      BY <2>1, <3>1
  <2>3. set' \in [bucket : Names, items : Seq(SUBSET Items)]
    BY <1>3, <2>2 DEF CliWalkDirs
  <2>4. QED
    BY <1>3, <2>3 DEF CliWalkDirs, Cli
<1>4. ASSUME NEW override \in BOOLEAN, CliBucketExists(override)
      PROVE  TypeOK'
  <2>1. confirmed' \subseteq Names \X Objects
    BY <1>0, <1>4 DEF CliBucketExists
  <2>2. export' \in {NoExport} \cup Exports
    BY <1>1, <1>4 DEF CliBucketExists
  <2>3. QED
    BY <1>4, <2>1, <2>2 DEF CliBucketExists, Cli
<1>5. CASE CliCreateBucket
  BY <1>1, <1>5 DEF CliCreateBucket, Cli
<1>6. CASE CliRejectBucket
  BY <1>6 DEF CliRejectBucket, Cli
<1>7. CASE CliCheck \/ CliCheckFails
  BY <1>1, <1>7 DEF CliCheck, CliCheckFails, Cli
<1>8. CASE CliYes
  BY <1>0, <1>1, <1>8 DEF CliYes, Cli
<1>9. CASE CliNo
  BY <1>9 DEF CliNo, Cli
<1>10. QED
  BY <1>2, <1>3, <1>4, <1>5, <1>6, <1>7, <1>8, <1>9 DEF CommandLine

(* Every step keeps the types.                                              *)
LEMMA TypeStep ==
  ASSUME TypeOK, [Next]_vars
  PROVE  TypeOK'
<1>1. CASE UNCHANGED vars
  BY <1>1 DEF vars, TypeOK, asked, chosen, storage, history
<1>2. CASE Next
  BY <1>2, TypePage1, TypePage2, TypeBackend, TypeCommandLine DEF Next
<1>3. QED
  BY <1>1, <1>2

-----------------------------------------------------------------------------
(* What no step does *)

(* The events are chosen at the start, the page and the command are two     *)
(* programs, and a bucket stays the project's.                              *)
LEMMA Frame ==
  ASSUME [Next]_vars
  PROVE  /\ events' = events
         /\ cli' = "off" <=> cli = "off"
         /\ owned \subseteq owned'
<1> USE DEF asked, chosen, storage, history
<1>1. CASE UNCHANGED vars
  BY <1>1 DEF vars
<1>2. CASE Page1
  BY <1>2 DEF Page1, ExportPossible, Debounced, Continue, Type, HeadReturns,
     EmailReturns
<1>3. CASE Page2 \/ NewExport
  BY <1>3 DEF Page2, AddFiles, WalkReturns, CheckReturns, RemoveItem,
     Overwrite, Discard, Cancel, ExportFiles, NewExport
<1>4. CASE CreateBucket
  BY <1>4 DEF CreateBucket, Answer
<1>5. CASE \E put \in SUBSET Objects : Upload(put)
  BY <1>5 DEF Upload, Answer
<1>6. CASE \E name \in Mine \cup Free, o \in Objects : OthersWrite(name, o)
  BY <1>6 DEF OthersWrite
<1>7. CASE CommandLine
  BY <1>7 DEF CommandLine, exportSetup, CliWalkDirs, CliBucketExists,
     CliCreateBucket, CliRejectBucket, CliCheck, CliCheckFails, CliYes,
     CliNo, Cli
<1>8. QED
  BY <1>1, <1>2, <1>3, <1>4, <1>5, <1>6, <1>7 DEF Next, Backend

(* Objects are stored by Upload and by others only.                         *)
LEMMA StoredFrame ==
  ASSUME [Next]_vars
  PROVE  \/ stored' = stored
         \/ \E put \in SUBSET Objects : Upload(put)
         \/ \E name \in Mine \cup Free, o \in Objects : OthersWrite(name, o)
<1> USE DEF storage
<1>1. CASE UNCHANGED vars
  BY <1>1 DEF vars
<1>2. CASE Page1
  BY <1>2 DEF Page1, ExportPossible, Debounced, Continue, Type, HeadReturns,
     EmailReturns
<1>3. CASE Page2 \/ NewExport
  BY <1>3 DEF Page2, AddFiles, WalkReturns, CheckReturns, RemoveItem,
     Overwrite, Discard, Cancel, ExportFiles, NewExport
<1>4. CASE CreateBucket
  BY <1>4 DEF CreateBucket
<1>5. CASE CommandLine
  BY <1>5 DEF CommandLine, exportSetup, CliWalkDirs, CliBucketExists,
     CliCreateBucket, CliRejectBucket, CliCheck, CliCheckFails, CliYes,
     CliNo
<1>6. QED
  BY <1>1, <1>2, <1>3, <1>4, <1>5 DEF Next, Backend

(* And they go to buckets that the project has.                             *)
LEMMA StoredStep ==
  ASSUME TypeOK, StoredFits, [Next]_vars
  PROVE  StoredFits'
<1>1. \A b \in Buckets : stored'[b] = stored[b] \/ b \in owned
  <2>1. CASE stored' = stored
    BY <2>1
  <2>2. ASSUME NEW put \in SUBSET Objects, Upload(put)
        PROVE  \A b \in Buckets : stored'[b] = stored[b] \/ b \in owned
    BY <2>2 DEF Upload, TypeOK
  <2>3. ASSUME NEW name \in Mine \cup Free, NEW o \in Objects,
               OthersWrite(name, o)
        PROVE  \A b \in Buckets : stored'[b] = stored[b] \/ b \in owned
    BY <2>3 DEF OthersWrite, TypeOK
  <2>4. QED
    BY <2>1, <2>2, <2>3, StoredFrame
<1>2. QED
  BY <1>1, Frame DEF StoredFits

(* The command leaves the page alone.                                       *)
LEMMA CliStep ==
  ASSUME TypeOK, CliFits, [Next]_vars
  PROVE  CliFits'
<1> USE DEF CliFits, asked, chosen, storage, history
<1>1. SUFFICES ASSUME cli' # "off"
               PROVE  CliFits'
  BY DEF CliFits
<1>2. cli # "off" /\ page = 0 /\ emails = 0 /\ adds = {}
  BY <1>1, Frame
<1>3. CASE UNCHANGED vars
  BY <1>3 DEF vars
<1>4. CASE Page1
  <2>1. ~ExportPossible /\ ~Continue /\ \A ok \in BOOLEAN : ~EmailReturns(ok)
    BY <1>2 DEF ExportPossible, Continue, OnPage, EmailReturns
  <2>2. page' = page /\ emails' = emails /\ adds' = adds /\ cli' = cli
        /\ export' = export
    BY <1>4, <2>1 DEF Page1, Debounced, Type, HeadReturns
  <2>3. QED
    BY <1>2, <2>2
<1>5. CASE Page2 \/ NewExport
  BY <1>2, <1>5 DEF Page2, AddFiles, WalkReturns, CheckReturns, RemoveItem,
     Overwrite, Discard, Cancel, ExportFiles, NewExport, OnPage
<1>6. CASE CreateBucket
  BY <1>2, <1>6 DEF CreateBucket, Answer, NoExport
<1>7. ASSUME NEW put \in SUBSET Objects, Upload(put)
      PROVE  CliFits'
  BY <1>2, <1>7 DEF Upload, Answer, NoExport
<1>8. CASE \E name \in Mine \cup Free, o \in Objects : OthersWrite(name, o)
  BY <1>2, <1>8 DEF OthersWrite
<1>9. CASE CommandLine
  BY <1>2, <1>9 DEF CommandLine, exportSetup, CliWalkDirs, CliBucketExists,
     CliCreateBucket, CliRejectBucket, CliCheck, CliCheckFails, CliYes,
     CliNo, Cli
<1>10. QED
  BY <1>3, <1>4, <1>5, <1>6, <1>7, <1>8, <1>9 DEF Next, Backend

(* Where the page runs, the command does not.                               *)
LEMMA NoCommand ==
  ASSUME cli = "off"
  PROVE  ~CommandLine
BY DEF CommandLine, exportSetup, CliWalkDirs, CliBucketExists,
   CliCreateBucket, CliRejectBucket, CliCheck, CliCheckFails, CliYes, CliNo,
   Cli

-----------------------------------------------------------------------------
(* The later pages are about the bucket that page 1 has settled *)

(* What PageFits says of the page.                                          *)
PageOrder ==
    /\ page <= 4 /\ emails <= 1
    /\ emails > 0 => page = 1
    /\ emails > 0 \/ page \in {2, 3, 4} => Settled
    /\ adds # {} => page = 2
    /\ export # NoExport <=> page = 3

PageBucket ==
    /\ \A a \in adds : a.bucket = bucket
    /\ page \in {0, 1} => set.items = <<>>
    /\ set.items # <<>> => set.bucket = bucket

(* PageFits is about the order of the pages and about their bucket.         *)
LEMMA PageParts == PageFits <=> (Orderly /\ cli = "off" =>
                                    PageOrder /\ PageBucket)
BY DEF PageFits, PageOrder, PageBucket

(* The pages come one after the other.                                      *)
LEMMA PageOrderStep ==
  ASSUME TypeOK, Orderly, cli = "off", PageOrder, PageBucket, [Next]_vars
  PROVE  PageOrder'
<1> USE DEF PageOrder, Settled, asked, chosen, storage, history
<1>0. page \in Nat /\ emails \in Nat
  BY DEF TypeOK
<1>1. CASE UNCHANGED vars
  BY <1>1 DEF vars
<1>2. CASE ExportPossible
  BY <1>0, <1>2 DEF ExportPossible
<1>3. CASE Debounced
  BY <1>0, <1>3 DEF Debounced
<1>4. CASE Continue
  BY <1>0, <1>4 DEF Continue, OnPage, Orderly
<1>5. ASSUME NEW name \in Names, Type(name)
      PROVE  PageOrder'
  BY <1>0, <1>5 DEF Type, OnPage, Orderly
<1>6. ASSUME NEW i \in DOMAIN heads, HeadReturns(i)
      PROVE  PageOrder'
  BY <1>0, <1>6 DEF HeadReturns
<1>7. ASSUME NEW ok \in BOOLEAN, EmailReturns(ok)
      PROVE  PageOrder'
  BY <1>0, <1>7 DEF EmailReturns
<1>8. ASSUME NEW objects \in SUBSET Objects \ {{}}, AddFiles(objects)
      PROVE  PageOrder'
  BY <1>8 DEF AddFiles, OnPage
<1>9. ASSUME NEW a \in adds, WalkReturns(a) \/ CheckReturns(a)
      PROVE  PageOrder'
  BY <1>9 DEF WalkReturns, CheckReturns, GoOn
<1>10. ASSUME NEW i \in DOMAIN set.items, NEW o \in Objects,
              RemoveItem(i, o)
       PROVE  PageOrder'
  BY <1>10 DEF RemoveItem
<1>11. CASE Overwrite \/ Discard
  BY <1>11 DEF Overwrite, Discard
<1>12. CASE Cancel
  BY <1>0, <1>12 DEF Cancel, OnPage, Answered, Orderly
<1>13. CASE ExportFiles
  BY <1>0, <1>13 DEF ExportFiles, OnPage, Answered, Orderly, NoExport
<1>14. CASE NewExport
  <2>1. page = 4 /\ adds = {}
    BY <1>14 DEF NewExport, OnPage, Answered, Orderly
  <2>2. page' = 1 /\ emails' = emails /\ adds' = adds /\ export' = export
    BY <1>14, Zenon DEF NewExport
  <2>3. ~(emails > 0) /\ export = NoExport
    BY <1>0, <2>1
  <2>4. QED
    BY <1>0, <2>1, <2>2, <2>3
<1>15. CASE CreateBucket
  BY <1>0, <1>15 DEF CreateBucket, Answer, NoExport
<1>16. ASSUME NEW put \in SUBSET Objects, Upload(put)
       PROVE  PageOrder'
  BY <1>0, <1>16 DEF Upload, Answer, NoExport
<1>17. CASE \E name \in Mine \cup Free, o \in Objects : OthersWrite(name, o)
  BY <1>17 DEF OthersWrite
<1>18. QED
  BY <1>1, <1>2, <1>3, <1>4, <1>5, <1>6, <1>7, <1>8, <1>9, <1>10, <1>11,
     <1>12, <1>13, <1>14, <1>15, <1>16, <1>17, NoCommand
     DEF Next, Page1, Page2, Backend

(* The bucket changes only where there is nothing about the old one.        *)
LEMMA PageBucketStep ==
  ASSUME TypeOK, Orderly, cli = "off", PageOrder, PageBucket, [Next]_vars
  PROVE  PageBucket'
<1> USE DEF PageBucket, asked, chosen, storage, history
<1>0. page \in Nat /\ emails \in Nat
  BY DEF TypeOK
<1>1. CASE UNCHANGED vars
  BY <1>1 DEF vars
<1>2. CASE ExportPossible
  BY <1>0, <1>2 DEF ExportPossible
<1>3. CASE Debounced
  <2>1. page \in {0, 1} /\ adds = {}
    <3>1. ~Settled
      BY <1>3 DEF Debounced, Settled
    <3>2. page \in 0 .. 5
      BY DEF TypeOK
    <3>3. QED
      BY <3>1, <3>2 DEF PageOrder
  <2>2. QED
    BY <1>3, <2>1 DEF Debounced
<1>4. CASE Continue
  BY <1>0, <1>4 DEF Continue, OnPage
<1>5. ASSUME NEW name \in Names, Type(name)
      PROVE  PageBucket'
  BY <1>0, <1>5 DEF Type
<1>6. ASSUME NEW i \in DOMAIN heads, HeadReturns(i)
      PROVE  PageBucket'
  BY <1>0, <1>6 DEF HeadReturns
<1>7. ASSUME NEW ok \in BOOLEAN, EmailReturns(ok)
      PROVE  PageBucket'
  BY <1>0, <1>7 DEF EmailReturns, PageOrder
<1>8. ASSUME NEW objects \in SUBSET Objects \ {{}}, AddFiles(objects)
      PROVE  PageBucket'
  BY <1>8 DEF AddFiles, OnPage
<1>9. ASSUME NEW a \in adds, WalkReturns(a) \/ CheckReturns(a)
      PROVE  PageBucket'
  <2>1. page = 2 /\ page' = page /\ bucket' = bucket /\ a.bucket = bucket
    BY <1>9 DEF WalkReturns, CheckReturns, PageOrder
  <2>2. \A b \in adds' : b.bucket = bucket
    BY <1>9, <2>1 DEF WalkReturns, CheckReturns, GoOn
  <2>3. set' = set \/ set'.bucket = bucket
    BY <1>9, <2>1 DEF WalkReturns, CheckReturns, Push
  <2>4. QED
    BY <2>1, <2>2, <2>3
<1>10. ASSUME NEW i \in DOMAIN set.items, NEW o \in Objects,
              RemoveItem(i, o)
       PROVE  PageBucket'
  <2>1. set.items # <<>>
    OBVIOUS
  <2>2. QED
    BY <1>10, <2>1 DEF RemoveItem, OnPage
<1>11. CASE Overwrite \/ Discard
  <2>1. set.items # <<>>
    BY <1>11 DEF Overwrite, Discard, Asking, Listed
  <2>2. QED
    BY <1>11, <2>1 DEF Overwrite, Discard
<1>12. CASE Cancel
  BY <1>0, <1>12 DEF Cancel, OnPage, EmptySet
<1>13. CASE ExportFiles
  BY <1>0, <1>13 DEF ExportFiles
<1>14. CASE NewExport
  <2>1. adds = {}
    BY <1>14 DEF NewExport, Answered, Orderly
  <2>2. adds' = {} /\ set'.items = <<>>
    BY <1>14, <2>1 DEF NewExport, EmptySet
  <2>3. QED
    BY <2>2
<1>15. CASE CreateBucket
  BY <1>0, <1>15 DEF CreateBucket, Answer, PageOrder, NoExport
<1>16. ASSUME NEW put \in SUBSET Objects, Upload(put)
       PROVE  PageBucket'
  BY <1>0, <1>16 DEF Upload, Answer, PageOrder, NoExport
<1>17. CASE \E name \in Mine \cup Free, o \in Objects : OthersWrite(name, o)
  BY <1>17 DEF OthersWrite
<1>18. QED
  BY <1>1, <1>2, <1>3, <1>4, <1>5, <1>6, <1>7, <1>8, <1>9, <1>10, <1>11,
     <1>12, <1>13, <1>14, <1>15, <1>16, <1>17, NoCommand
     DEF Next, Page1, Page2, Backend

(* Both together.                                                           *)
LEMMA PageStep ==
  ASSUME TypeOK, PageFits, [Next]_vars
  PROVE  PageFits'
<1>1. (Orderly /\ cli = "off")' => Orderly /\ cli = "off"
  BY Frame DEF Orderly
<1>2. Orderly /\ cli = "off" => PageOrder /\ PageBucket
  BY PageParts
<1>3. (Orderly /\ cli = "off")' => (PageOrder /\ PageBucket)'
  BY <1>1, <1>2, PageOrderStep, PageBucketStep
<1>4. QED
  BY <1>3, PageParts DEF PageFits, PageOrder, PageBucket

-----------------------------------------------------------------------------
(* One object is not in the list twice *)

(* A list that loses items, or flags, has no object twice if it had none.   *)
LEMMA ListShrinks ==
  ASSUME DOMAIN set'.items = DOMAIN set.items,
         \A i \in DOMAIN set.items : \A x \in set'.items[i] :
            \E y \in set.items[i] : y.object = x.object
  PROVE  /\ ObjectsOf(set'.items) \subseteq ObjectsOf(set.items)
         /\ ~Twice => ~Twice'
<1>1. ObjectsOf(set'.items) \subseteq ObjectsOf(set.items)
  BY DEF ObjectsOf, Listed
<1>2. ~Twice => ~Twice'
  BY DEF Twice
<1>3. QED
  BY <1>1, <1>2

(* What the three steps do that make the list shorter.                      *)
LEMMA ListShrinksStep ==
  ASSUME \/ Overwrite \/ Discard
         \/ \E i \in DOMAIN set.items, o \in Objects : RemoveItem(i, o)
  PROVE  /\ ObjectsOf(set'.items) \subseteq ObjectsOf(set.items)
         /\ ~Twice => ~Twice'
         /\ adds' = adds
<1>1. CASE Overwrite
  BY <1>1, ListShrinks DEF Overwrite
<1>2. CASE Discard
  BY <1>2, ListShrinks DEF Discard
<1>3. ASSUME NEW i \in DOMAIN set.items, NEW o \in Objects, RemoveItem(i, o)
      PROVE  /\ ObjectsOf(set'.items) \subseteq ObjectsOf(set.items)
             /\ ~Twice => ~Twice'
             /\ adds' = adds
  BY <1>3, ListShrinks DEF RemoveItem
<1>4. QED
  BY <1>1, <1>2, <1>3

(* What was looked up in the whole list is not in it.                       *)
LEMMA PushStep ==
  ASSUME TypeOK, ~Twice, NEW a \in adds, NEW existing, Push(a, existing),
         a.objects \cap ObjectsOf(set.items) = {}
  PROVE  ~Twice'
<1> DEFINE found == {[object |-> o, exists |-> o \in existing] :
                     o \in a.objects}
<1>1. set.items \in Seq(SUBSET Items) /\ set'.items = Append(set.items, found)
  BY DEF Push, TypeOK
<1>2. \A x \in found : x.object \in a.objects
  OBVIOUS
<1>3. /\ DOMAIN set'.items = 1 .. Len(set.items) + 1
      /\ set'.items[Len(set.items) + 1] = found
      /\ \A i \in 1 .. Len(set.items) : set'.items[i] = set.items[i]
      /\ DOMAIN set.items = 1 .. Len(set.items) /\ Len(set.items) \in Nat
  BY <1>1
<1>4. \A i \in DOMAIN set.items : \A x \in set.items[i] :
        x.object \in ObjectsOf(set.items)
  BY DEF ObjectsOf, Listed
<1> HIDE DEF found
<1>5. ASSUME NEW i \in DOMAIN set'.items, NEW j \in DOMAIN set'.items, i < j,
             NEW x \in set'.items[i], NEW y \in set'.items[j],
             x.object = y.object
      PROVE  FALSE
  <2>1. i \in DOMAIN set.items /\ set'.items[i] = set.items[i]
    BY <1>3, <1>5
  <2>2. CASE j \in DOMAIN set.items
    BY <1>3, <1>5, <2>1, <2>2 DEF Twice
  <2>3. CASE j = Len(set.items) + 1
    BY <1>2, <1>3, <1>4, <1>5, <2>1, <2>3
  <2>4. QED
    BY <1>3, <1>5, <2>2, <2>3
<1>6. \A i, j \in DOMAIN set'.items : i # j => i < j \/ j < i
  BY <1>3
<1>7. QED
  BY <1>5, <1>6 DEF Twice

(* What RunsFit says of the calls.                                          *)
Runs ==
    /\ \A a, b \in adds : a = b
    /\ \A a \in adds :
        /\ ObjectsOf(set.items) \subseteq a.current
        /\ a.stage = "check" => a.objects \cap a.current = {}
    /\ ~Twice

(* No step has an object looked for that is checked or added already.       *)
LEMMA RunsStep ==
  ASSUME TypeOK, CliFits, "doubleAdd" \notin events, Runs, [Next]_vars
  PROVE  Runs'
<1> USE DEF asked, chosen, storage, history
<1>0. ASSUME set' = set, adds' = adds
      PROVE  Runs'
  BY <1>0 DEF Runs, Twice
<1>1. CASE UNCHANGED vars
  BY <1>0, <1>1 DEF vars
<1>2. CASE Page1
  BY <1>0, <1>2 DEF Page1, ExportPossible, Debounced, Continue, Type,
     HeadReturns, EmailReturns
<1>3. ASSUME NEW objects \in SUBSET Objects \ {{}}, AddFiles(objects)
      PROVE  Runs'
  BY <1>3 DEF AddFiles, Runs, Twice
<1>4. ASSUME NEW a \in adds, WalkReturns(a) \/ CheckReturns(a)
      PROVE  Runs'
  <2>1. /\ adds = {a} /\ ~Twice
        /\ ObjectsOf(set.items) \subseteq a.current
        /\ a.stage = "check" => a.objects \cap a.current = {}
    BY <1>4 DEF Runs
  <2>2. CASE set' = set /\ adds' = adds \ {a}
    BY <2>1, <2>2 DEF Runs, Twice
  <2>3. CASE set' = set /\ a.objects \cap a.current = {} /\ GoOn(a)
    <3>1. \A b \in adds' :
            b = [nth |-> a.nth, bucket |-> a.bucket, objects |-> a.objects,
                 current |-> a.current, stage |-> "check"]
      BY <2>1, <2>3 DEF GoOn
    <3>2. \A b, c \in adds' : b = c
      BY <3>1
    <3>3. \A b \in adds' : b.objects = a.objects /\ b.current = a.current
      BY <3>1
    <3>4. ~Twice'
      BY <2>1, <2>3 DEF Twice
    <3>5. QED
      BY <2>1, <2>3, <3>2, <3>3, <3>4 DEF Runs
  <2>4. ASSUME NEW existing, Push(a, existing), adds' = adds \ {a},
               a.objects \cap a.current = {}
        PROVE  Runs'
    <3>1. adds' = {}
      BY <2>1, <2>4
    <3>2. ~Twice'
      BY <2>1, <2>4, PushStep
    <3>3. QED
      BY <3>1, <3>2 DEF Runs
  <2>5. CASE WalkReturns(a)
    BY <2>2, <2>3, <2>4, <2>5 DEF WalkReturns
  <2>6. CASE CheckReturns(a)
    BY <2>1, <2>2, <2>4, <2>6 DEF CheckReturns
  <2>7. QED
    BY <1>4, <2>5, <2>6
<1>5. CASE \/ Overwrite \/ Discard
           \/ \E i \in DOMAIN set.items, o \in Objects : RemoveItem(i, o)
  BY <1>5, ListShrinksStep DEF Runs
<1>6. ASSUME set'.items = <<>>, adds' = adds
      PROVE  Runs'
  BY <1>6 DEF Runs, Twice, ObjectsOf, Listed
<1>7. CASE Cancel \/ NewExport
  <2>1. set' = EmptySet /\ adds' = adds
    BY <1>7, Zenon DEF Cancel, NewExport
  <2>2. QED
    BY <1>6, <2>1 DEF EmptySet
<1>8. CASE ExportFiles
  BY <1>0, <1>8 DEF ExportFiles
<1>9. CASE Backend \/ \E name \in Mine \cup Free, o \in Objects :
                        OthersWrite(name, o)
  BY <1>0, <1>9 DEF Backend, CreateBucket, Upload, OthersWrite
<1>10. ASSUME NEW name \in Names, NEW objects \in SUBSET Objects,
              CliWalkDirs(name, objects)
       PROVE  Runs'
  <2>1. adds' = {}
    BY <1>10 DEF CliWalkDirs, Cli, CliFits
  <2>2. ~Twice'
    BY <1>10 DEF CliWalkDirs, Twice
  <2>3. QED
    BY <2>1, <2>2 DEF Runs
<1>11. CASE \/ exportSetup \/ CliCreateBucket \/ CliRejectBucket \/ CliCheck
            \/ CliCheckFails \/ CliYes \/ CliNo
            \/ \E override \in BOOLEAN : CliBucketExists(override)
  BY <1>0, <1>11 DEF exportSetup, CliBucketExists, CliCreateBucket,
     CliRejectBucket, CliCheck, CliCheckFails, CliYes, CliNo, Cli
<1>12. QED
  BY <1>1, <1>2, <1>3, <1>4, <1>5, <1>7, <1>8, <1>9, <1>10, <1>11
     DEF Next, Page2, CommandLine

(* RunsFit is Runs where no button is pressed twice.                        *)
LEMMA RunsFitStep ==
  ASSUME TypeOK, CliFits, RunsFit, [Next]_vars
  PROVE  RunsFit'
BY RunsStep, Frame DEF RunsFit, Runs

-----------------------------------------------------------------------------
(* What the page believes of the bucket *)

(* What BucketIsKnown says of a page that is used with care.                *)
Believed ==
    /\ heads # <<>> => heads[Len(heads)] = bucket
    /\ ~timer => bucket = query
    /\ emails > 0 \/ page \in {2, 3, 4} => valid
    /\ Settled /\ valid => bucket \in Mine \cup Free

UniqueFits == unique = IF bucket \in owned THEN "no" ELSE "yes"

Unique ==
    /\ Settled /\ valid /\ page # 4 /\ (export # NoExport => ~export.created)
        => UniqueFits
    /\ export # NoExport => /\ export.bucket = bucket
                            /\ export.created => export.stage = "upload"

(* BucketIsKnown is what the page believes and the bucket it found.         *)
LEMMA KnownParts == BucketIsKnown <=> (Careful /\ cli = "off" =>
                                          Believed /\ Unique)
BY DEF BucketIsKnown, Believed, Unique, UniqueFits

(* The answer on the last bucket is the one that counts.                    *)
LEMMA AnswerStep ==
  ASSUME TypeOK, Careful, PageOrder, Believed,
         NEW i \in DOMAIN heads, HeadReturns(i)
  PROVE  /\ Believed'
         /\ Settled' /\ valid' => UniqueFits'
<1> USE DEF Careful
<1>1. /\ i = 1 /\ heads # <<>> /\ heads \in Seq(Buckets)
      /\ heads' = RemoveAt(heads, 1)
      /\ bucket' = bucket /\ timer' = timer /\ query' = query
      /\ page' = page /\ emails' = emails /\ owned' = owned
  BY DEF HeadReturns, TypeOK, storage
<1>2. /\ Len(heads') = Len(heads) - 1
      /\ heads' # <<>> => heads'[Len(heads')] = heads[Len(heads)]
      /\ heads' \in Seq(Buckets)
  BY <1>1, RemoveFirstValue, RemoveAtType
<1>3. heads' = <<>> => heads[1] = bucket /\ bucket \in Buckets
  BY <1>1, <1>2 DEF Believed
<1>4. ~(emails > 0) /\ page \notin {2, 3, 4}
  BY <1>1 DEF PageOrder, Settled
<1>5. \/ valid' = FALSE
      \/ BucketExists(heads[1])
  BY <1>1 DEF HeadReturns
<1>6. heads' = <<>> /\ valid' => bucket \in Mine \cup Free /\ UniqueFits'
  BY <1>1, <1>3, <1>5 DEF BucketExists, Buckets, UniqueFits
<1>7. heads' # <<>> => heads'[Len(heads')] = bucket'
  BY <1>1, <1>2 DEF Believed
<1>8. ~timer' => bucket' = query'
  BY <1>1 DEF Believed
<1>9. Settled' /\ valid' => bucket' \in Mine \cup Free /\ UniqueFits'
  BY <1>1, <1>6 DEF Settled
<1>10. QED
  BY <1>1, <1>4, <1>7, <1>8, <1>9 DEF Believed

(* A page used with care keeps believing only what was answered.            *)
LEMMA BelievedStep ==
  ASSUME TypeOK, Careful, cli = "off", PageOrder, Believed, [Next]_vars
  PROVE  Believed'
<1> USE DEF Careful, Believed, Settled, asked, chosen, storage, history
<1>0. page \in Nat /\ emails \in Nat
  BY DEF TypeOK
<1>1. CASE UNCHANGED vars
  BY <1>1 DEF vars
<1>2. CASE ExportPossible
  BY <1>0, <1>2 DEF ExportPossible
<1>3. CASE Debounced
  <2>1. ~(emails > 0) /\ page \notin {2, 3, 4}
    BY <1>3 DEF Debounced, PageOrder
  <2>2. /\ bucket' = query /\ query' = query /\ timer' = FALSE
        /\ emails' = emails /\ page' = page
    BY <1>3 DEF Debounced
  <2>3. CASE query = ""
    BY <1>3, <2>1, <2>2, <2>3 DEF Debounced
  <2>4. CASE query # ""
    <3>1. query \in Buckets /\ heads \in Seq(Buckets)
      BY <2>4 DEF TypeOK, Names
    <3>2. heads' = Append(heads, query)
      BY <1>3, <2>4 DEF Debounced
    <3>3. heads' # <<>> /\ heads'[Len(heads')] = query
      BY ONLY <3>1, <3>2
    <3>4. QED
      BY <2>1, <2>2, <3>3
  <2>5. QED
    BY <2>3, <2>4
<1>4. CASE Continue
  BY <1>0, <1>4 DEF Continue, OnPage
<1>5. ASSUME NEW name \in Names, Type(name)
      PROVE  Believed'
  BY <1>0, <1>5 DEF Type, OnPage
<1>6. ASSUME NEW i \in DOMAIN heads, HeadReturns(i)
      PROVE  Believed'
  BY <1>6, AnswerStep
<1>7. ASSUME NEW ok \in BOOLEAN, EmailReturns(ok)
      PROVE  Believed'
  BY <1>0, <1>7 DEF EmailReturns
<1>8. CASE NewExport
  <2>0. page = 4
    BY <1>8 DEF NewExport, OnPage
  <2>1. /\ ~timer /\ heads = <<>> /\ valid /\ ~(emails > 0)
        /\ query \in Mine \cup Free
    BY <1>0, <2>0 DEF PageOrder
  <2>2. query # ""
    BY <2>1, ExportAssumption DEF Buckets
  <2>3. timer'
    BY <1>8, <2>2, Zenon DEF NewExport
  <2>4. page' = 1 /\ heads' = heads /\ emails' = emails
    BY <1>8, Zenon DEF NewExport
  <2>5. QED
    BY <2>1, <2>3, <2>4
<1>9. ASSUME UNCHANGED <<asked, emails>>, page' = page \/ page' \in {1}
      PROVE  Believed'
  BY <1>9
<1>10. ASSUME NEW objects \in SUBSET Objects \ {{}}, AddFiles(objects)
       PROVE  Believed'
  BY <1>9, <1>10 DEF AddFiles
<1>11. ASSUME NEW a \in adds, WalkReturns(a) \/ CheckReturns(a)
       PROVE  Believed'
  BY <1>9, <1>11 DEF WalkReturns, CheckReturns
<1>12. CASE \/ Overwrite \/ Discard
            \/ \E i \in DOMAIN set.items, o \in Objects : RemoveItem(i, o)
  BY <1>9, <1>12 DEF Overwrite, Discard, RemoveItem
<1>13. CASE Cancel
  BY <1>9, <1>13 DEF Cancel
<1>14. CASE ExportFiles
  BY <1>14 DEF ExportFiles, OnPage
<1>15. CASE Backend
  <2>0. export.stage \in {"create", "upload"}
    BY <1>15 DEF Backend, CreateBucket, Upload
  <2>1. export # NoExport
    BY <2>0 DEF NoExport
  <2>2. page = 3
    BY <2>1 DEF PageOrder
  <2>3. UNCHANGED <<asked, emails>>
    BY <1>15 DEF Backend, CreateBucket, Upload
  <2>4. QED
    BY <2>2, <2>3
<1>16. CASE \E name \in Mine \cup Free, o \in Objects : OthersWrite(name, o)
  BY <1>9, <1>16 DEF OthersWrite
<1>17. QED
  BY <1>1, <1>2, <1>3, <1>4, <1>5, <1>6, <1>7, <1>8, <1>10, <1>11, <1>12,
     <1>13, <1>14, <1>15, <1>16, NoCommand DEF Next, Page1, Page2

(* Whether the bucket is to be created is known until that is done.         *)
LEMMA UniqueStep ==
  ASSUME TypeOK, Careful, cli = "off", PageOrder, PageBucket, Believed,
         Unique, [Next]_vars
  PROVE  Unique'
<1> USE DEF Careful, asked, chosen, storage, history
<1>1. ASSUME UNCHANGED <<owned, timer, heads, bucket, unique, valid>>,
             export' = export, page' # 4 => page # 4
      PROVE  Unique'
  BY <1>1 DEF Unique, UniqueFits, Settled
<1>2. CASE UNCHANGED vars
  BY <1>1, <1>2 DEF vars
<1>3. CASE ExportPossible
  BY <1>1, <1>3 DEF ExportPossible
<1>4. CASE Debounced
  <2>1. ~Settled
    BY <1>4 DEF Debounced, Settled
  <2>2. export' = NoExport
    BY <1>4, <2>1 DEF Debounced, PageOrder
  <2>3. ~(Settled' /\ valid')
    <3>1. /\ heads \in Seq(Buckets)
          /\ query # "" => query \in Buckets
      BY DEF TypeOK, Names
    <3>2. query # "" => Append(heads, query) # <<>>
      BY <3>1, AppendNotEmpty
    <3>3. QED
      BY <1>4, <3>2 DEF Debounced, Settled
  <2>4. QED
    BY <2>2, <2>3 DEF Unique
<1>5. CASE Continue
  BY <1>1, <1>5 DEF Continue, OnPage
<1>6. ASSUME NEW name \in Names, Type(name)
      PROVE  Unique'
  <2>1. timer' /\ page = 1 /\ export' = export
    BY <1>6 DEF Type, OnPage
  <2>2. export' = NoExport
    BY <2>1 DEF PageOrder
  <2>3. QED
    BY <2>1, <2>2 DEF Unique, Settled
<1>7. ASSUME NEW i \in DOMAIN heads, HeadReturns(i)
      PROVE  Unique'
  <2>1. ~Settled /\ export' = export
    BY <1>7 DEF HeadReturns, Settled
  <2>2. export' = NoExport
    BY <2>1 DEF PageOrder
  <2>3. QED
    BY <1>7, <2>2, AnswerStep DEF Unique
<1>8. ASSUME NEW ok \in BOOLEAN, EmailReturns(ok)
      PROVE  Unique'
  BY <1>1, <1>8 DEF EmailReturns, PageOrder
<1>9. ASSUME NEW objects \in SUBSET Objects \ {{}}, AddFiles(objects)
      PROVE  Unique'
  BY <1>1, <1>9 DEF AddFiles
<1>10. ASSUME NEW a \in adds, WalkReturns(a) \/ CheckReturns(a)
       PROVE  Unique'
  BY <1>1, <1>10 DEF WalkReturns, CheckReturns
<1>11. CASE \/ Overwrite \/ Discard
            \/ \E i \in DOMAIN set.items, o \in Objects : RemoveItem(i, o)
  BY <1>1, <1>11 DEF Overwrite, Discard, RemoveItem
<1>12. CASE Cancel
  BY <1>1, <1>12 DEF Cancel, OnPage
<1>13. CASE ExportFiles
  <2>1. /\ page = 2 /\ ObjectsOf(set.items) # {} /\ export = NoExport
        /\ UNCHANGED <<owned, bucket, timer, heads, valid, unique>>
    BY <1>13 DEF ExportFiles, OnPage
  <2>2. set.bucket = bucket
    BY <2>1 DEF PageBucket, ObjectsOf, Listed
  <2>3. export'.created = FALSE /\ export'.bucket = bucket
    BY <1>13, <2>2 DEF ExportFiles
  <2>4. QED
    BY <2>1, <2>3 DEF Unique, UniqueFits, Settled
<1>14. CASE NewExport
  <2>0. page = 4
    BY <1>14 DEF NewExport, OnPage
  <2>1. ~timer /\ heads = <<>> /\ valid /\ export = NoExport
    BY <2>0 DEF PageOrder, Believed, Settled
  <2>2. query # ""
    BY <2>1, ExportAssumption DEF Believed, Settled, Buckets
  <2>3. timer'
    BY <1>14, <2>2, Zenon DEF NewExport
  <2>4. export' = NoExport
    BY <1>14, <2>1, Zenon DEF NewExport
  <2>5. QED
    BY <2>3, <2>4 DEF Unique, Settled
<1>15. CASE CreateBucket
  <2>1. export # NoExport /\ ~export.created
    BY <1>15 DEF CreateBucket, NoExport, Unique
  <2>2. page = 3 /\ export.bucket = bucket
    BY <2>1 DEF PageOrder, Unique
  <2>3. UNCHANGED asked
    BY <1>15 DEF CreateBucket
  <2>4. \/ /\ export' = [stage |-> "upload", created |-> TRUE,
                         bucket |-> export.bucket, objects |-> export.objects]
           /\ page' = page
        \/ export' = NoExport /\ owned' = owned /\ page' # 4
    BY <1>15 DEF CreateBucket, Answer
  <2>5. CASE export' = NoExport /\ owned' = owned /\ page' # 4
    BY <2>1, <2>2, <2>3, <2>5 DEF Unique, UniqueFits, Settled
  <2>6. CASE export' = [stage |-> "upload", created |-> TRUE,
                        bucket |-> export.bucket, objects |-> export.objects]
    <3>1. export'.created /\ export'.stage = "upload"
          /\ export'.bucket = export.bucket /\ export' # NoExport
      BY <2>6 DEF NoExport
    <3>2. QED
      BY <2>2, <2>3, <3>1 DEF Unique
  <2>7. QED
    BY <2>4, <2>5, <2>6
<1>16. ASSUME NEW put \in SUBSET Objects, Upload(put)
       PROVE  Unique'
  <2>1. export # NoExport /\ export' = NoExport
    BY <1>16 DEF Upload, NoExport, Answer
  <2>2. page = 3
    BY <2>1 DEF PageOrder
  <2>3. UNCHANGED <<owned, timer, heads, bucket, unique, valid>>
    BY <1>16 DEF Upload
  <2>4. page' # 4 => ~export.created
    BY <1>16, <2>2 DEF Upload, Answer
  <2>5. QED
    BY <2>1, <2>2, <2>3, <2>4 DEF Unique, UniqueFits, Settled
<1>17. CASE \E name \in Mine \cup Free, o \in Objects : OthersWrite(name, o)
  BY <1>17 DEF OthersWrite
<1>18. QED
  BY <1>2, <1>3, <1>4, <1>5, <1>6, <1>7, <1>8, <1>9, <1>10, <1>11, <1>12,
     <1>13, <1>14, <1>15, <1>16, <1>17, NoCommand
     DEF Next, Page1, Page2, Backend

(* Both together.                                                           *)
LEMMA KnownStep ==
  ASSUME TypeOK, PageFits, BucketIsKnown, [Next]_vars
  PROVE  BucketIsKnown'
<1>1. (Careful /\ cli = "off")' => Careful /\ cli = "off"
  BY Frame DEF Careful
<1>2. Careful /\ cli = "off" =>
        PageOrder /\ PageBucket /\ Believed /\ Unique
  BY PageParts, KnownParts DEF Careful, Orderly
<1>3. (Careful /\ cli = "off")' => (Believed /\ Unique)'
  BY <1>1, <1>2, BelievedStep, UniqueStep
<1>4. QED
  BY <1>3 DEF BucketIsKnown, Believed, Unique, UniqueFits

-----------------------------------------------------------------------------
(* What is overwritten has been agreed to *)

(* What the exports of a set store is theirs to overwrite.                  *)
LEMMA AgreedStep ==
  ASSUME TypeOK, NEW put \in SUBSET Objects, Upload(put),
         NEW b \in Buckets, NEW o, Agreed(b, o)
  PROVE  Agreed(b, o)'
<1>1. CASE o \in stored[b]
  BY <1>1 DEF Agreed, Upload
<1>2. CASE o \notin stored[b]
  <2>1. stored'[b] = IF b = export.bucket THEN stored[b] \cup put
                     ELSE stored[b]
    BY DEF Upload
  <2>2. CASE b = export.bucket /\ o \in put
    BY <2>2 DEF Agreed, Upload
  <2>3. CASE ~(b = export.bucket /\ o \in put)
    BY <1>2, <2>1, <2>3 DEF Agreed
  <2>4. QED
    BY <2>2, <2>3
<1>3. QED
  BY <1>1, <1>2

ListAgreed ==
    \A item \in Listed(set.items) : item.exists \/ Agreed(bucket, item.object)

ExportAgreed ==
    export # NoExport => \A o \in export.objects : Agreed(export.bucket, o)

(* Whatever is pushed was looked up in the bucket, or the bucket is not     *)
(* there yet.                                                               *)
LEMMA PushAgreed ==
  ASSUME TypeOK, StoredFits, Careful, PageOrder, PageBucket, Believed, Unique,
         ListAgreed, NEW a \in adds, WalkReturns(a) \/ CheckReturns(a)
  PROVE  ListAgreed'
<1>1. /\ page = 2 /\ Settled /\ valid /\ export = NoExport
      /\ a.bucket = bucket
  BY DEF PageOrder, PageBucket, Believed
<1>2. /\ bucket \in Mine \cup Free
      /\ UniqueFits
  BY <1>1 DEF Believed, Unique
<1>3. UNCHANGED <<bucket, stored, confirmed, own>>
  BY DEF WalkReturns, CheckReturns, storage, asked, history
<1>4. CASE set' = set
  BY <1>3, <1>4 DEF ListAgreed, Agreed
<1>5. ASSUME NEW existing, Push(a, existing),
             stored[bucket] \subseteq existing
      PROVE  ListAgreed'
  <2> DEFINE found == {[object |-> o, exists |-> o \in existing] :
                       o \in a.objects}
  <2>0. a.objects \in SUBSET Objects
    BY DEF TypeOK, Adds
  <2>1. found \in SUBSET Items
    BY <2>0, FoundValue
  <2>2. set'.items = Append(set.items, found)
    BY <1>5 DEF Push
  <2>3. set.items \in Seq(SUBSET Items)
    BY DEF TypeOK
  <2>4. \A item \in found : item.exists \/ item.object \notin existing
    BY <2>0, FoundValue
  <2> HIDE DEF found
  <2>5. Listed(set'.items) = Listed(set.items) \cup found
    BY <2>1, <2>2, <2>3, ListedAppend
  <2>6. \A item \in found : item.exists \/ Agreed(bucket, item.object)'
    BY <1>3, <1>5, <2>4 DEF Agreed
  <2>7. \A item \in Listed(set.items) :
            item.exists \/ Agreed(bucket, item.object)'
    BY <1>3 DEF ListAgreed, Agreed
  <2>8. QED
    BY <1>3, <2>5, <2>6, <2>7 DEF ListAgreed, Agreed
<1>6. CASE WalkReturns(a)
  <2>1. set' = set \/ (unique = "yes" /\ Push(a, {}))
    BY <1>6 DEF WalkReturns
  <2>2. unique = "yes" => stored[bucket] \subseteq {}
    BY <1>2 DEF StoredFits, UniqueFits, Buckets
  <2>3. QED
    BY <1>4, <1>5, <2>1, <2>2
<1>7. CASE CheckReturns(a)
  <2>1. set' = set \/ Push(a, stored[bucket])
    BY <1>1, <1>7 DEF CheckReturns, Existing
  <2>2. QED
    BY <1>4, <1>5, <2>1
<1>8. QED
  BY <1>6, <1>7

(* Agreeing to overwrite what the list shows is agreeing for the bucket.    *)
LEMMA OverwriteAgreed ==
  ASSUME ListAgreed, Overwrite
  PROVE  ListAgreed'
<1>1. /\ bucket' = bucket /\ stored' = stored /\ own' = own
      /\ confirmed' = confirmed \cup
                        ({bucket} \X {item.object : item \in Flagged})
  BY DEF Overwrite, asked, storage
<1>2. \A o : Agreed(bucket, o) => Agreed(bucket, o)'
  BY <1>1 DEF Agreed
<1>3. \A item \in Flagged : Agreed(bucket, item.object)'
  BY <1>1 DEF Agreed
<1>4. \A item \in Listed(set.items) : Agreed(bucket, item.object)'
  BY <1>2, <1>3 DEF ListAgreed, Flagged
<1>5. \A item \in Listed(set'.items) :
        \E old \in Listed(set.items) : item.object = old.object
  BY DEF Overwrite, Listed
<1>6. QED
  BY <1>1, <1>4, <1>5 DEF ListAgreed, Agreed

(* A list that only loses items stays agreed to.                            *)
LEMMA LessAgreed ==
  ASSUME ListAgreed,
         Discard \/ \E i \in DOMAIN set.items, o \in Objects :
                        RemoveItem(i, o)
  PROVE  ListAgreed'
<1>1. UNCHANGED <<bucket, stored, confirmed, own>>
  BY DEF Discard, RemoveItem, asked, storage, history
<1>2. Listed(set'.items) \subseteq Listed(set.items)
  BY DEF Discard, RemoveItem, Listed
<1>3. QED
  BY <1>1, <1>2 DEF ListAgreed, Agreed

(* OverwritesAgreed is about the list of the page and about the export.     *)
LEMMA AgreedParts ==
  OverwritesAgreed <=> (Careful => /\ cli = "off" => ListAgreed
                                   /\ ExportAgreed)
BY DEF OverwritesAgreed, ListAgreed, ExportAgreed

(* The list of the page.                                                    *)
LEMMA ListAgreedStep ==
  ASSUME TypeOK, StoredFits, Careful, cli = "off", PageOrder, PageBucket,
         Believed, Unique, ListAgreed, [Next]_vars
  PROVE  ListAgreed'
<1> USE DEF asked, chosen, storage, history
<1>1. ASSUME set' = set, bucket' = bucket, stored' = stored,
             confirmed' = confirmed, own' = own
      PROVE  ListAgreed'
  BY <1>1 DEF ListAgreed, Agreed
<1>2. ASSUME set'.items = <<>>
      PROVE  ListAgreed'
  BY <1>2 DEF ListAgreed, Listed
<1>3. CASE UNCHANGED vars
  BY <1>1, <1>3 DEF vars
<1>4. CASE ExportPossible
  BY <1>1, <1>4 DEF ExportPossible
<1>5. CASE Debounced
  <2>1. page \in {0, 1}
    <3>1. ~Settled /\ page \in 0 .. 5
      BY <1>5 DEF Debounced, Settled, TypeOK
    <3>2. QED
      BY <3>1 DEF PageOrder
  <2>2. set' = set /\ set.items = <<>>
    BY <1>5, <2>1 DEF Debounced, PageBucket
  <2>3. QED
    BY <1>2, <2>2
<1>6. CASE Continue
  BY <1>1, <1>6 DEF Continue
<1>7. CASE \/ \E name \in Names : Type(name)
           \/ \E i \in DOMAIN heads : HeadReturns(i)
           \/ \E ok \in BOOLEAN : EmailReturns(ok)
  BY <1>1, <1>7 DEF Type, HeadReturns, EmailReturns
<1>8. CASE \E objects \in SUBSET Objects \ {{}} : AddFiles(objects)
  BY <1>1, <1>8 DEF AddFiles
<1>9. CASE \E a \in adds : WalkReturns(a) \/ CheckReturns(a)
  BY <1>9, PushAgreed
<1>10. CASE \/ Discard
            \/ \E i \in DOMAIN set.items, o \in Objects : RemoveItem(i, o)
  BY <1>10, LessAgreed
<1>11. CASE Overwrite
  BY <1>11, OverwriteAgreed
<1>12. CASE Cancel \/ NewExport
  <2>1. set' = EmptySet
    BY <1>12, Zenon DEF Cancel, NewExport
  <2>2. QED
    BY <1>2, <2>1 DEF EmptySet
<1>13. CASE ExportFiles
  BY <1>1, <1>13 DEF ExportFiles
<1>14. CASE CreateBucket
  BY <1>1, <1>14 DEF CreateBucket
<1>15. ASSUME NEW put \in SUBSET Objects, Upload(put)
       PROVE  ListAgreed'
  <2>1. export.stage = "upload"
    BY <1>15 DEF Upload
  <2>2. page = 3
    BY <2>1 DEF NoExport, PageOrder
  <2>3. bucket \in Buckets
    BY <2>2 DEF PageOrder, Believed, Buckets
  <2>4. set' = set /\ bucket' = bucket
    BY <1>15 DEF Upload
  <2>5. PICK b \in Buckets : b = bucket
    BY <2>3
  <2>6. \A o : Agreed(b, o) => Agreed(b, o)'
    BY <1>15, AgreedStep
  <2>7. \A item \in Listed(set.items) : item.exists \/ Agreed(b, item.object)'
    BY <2>5, <2>6 DEF ListAgreed, Agreed
  <2>8. QED
    BY <2>4, <2>5, <2>7 DEF ListAgreed, Agreed
<1>16. CASE \E name \in Mine \cup Free, o \in Objects : OthersWrite(name, o)
  BY <1>16 DEF OthersWrite, Careful
<1>17. QED
  BY <1>3, <1>4, <1>5, <1>6, <1>7, <1>8, <1>9, <1>10, <1>11, <1>12, <1>13,
     <1>14, <1>15, <1>16, NoCommand DEF Next, Page1, Page2, Backend

(* The export of the page, or the command's.                                *)
LEMMA ExportAgreedStep ==
  ASSUME TypeOK, StoredFits, CliFits, Careful, [Next]_vars,
         cli = "off" => PageOrder /\ PageBucket /\ ListAgreed,
         ExportAgreed
  PROVE  ExportAgreed'
<1> USE DEF asked, chosen, storage, history
<1>0. ASSUME export' = NoExport
      PROVE  ExportAgreed'
  BY <1>0 DEF ExportAgreed
<1>1. ASSUME export' = export, stored' = stored,
             confirmed \subseteq confirmed', own' = own
      PROVE  ExportAgreed'
  BY <1>1 DEF ExportAgreed, Agreed
<1>2. CASE UNCHANGED vars
  BY <1>1, <1>2 DEF vars
<1>3. CASE Page1
  BY <1>1, <1>3 DEF Page1, ExportPossible, Debounced, Continue, Type,
     HeadReturns, EmailReturns
<1>4. CASE \/ \E objects \in SUBSET Objects \ {{}} : AddFiles(objects)
           \/ \E a \in adds : WalkReturns(a) \/ CheckReturns(a)
           \/ \E i \in DOMAIN set.items, o \in Objects : RemoveItem(i, o)
           \/ Discard
  BY <1>1, <1>4 DEF AddFiles, WalkReturns, CheckReturns, RemoveItem, Discard
<1>5. CASE Overwrite
  BY <1>1, <1>5 DEF Overwrite
<1>6. CASE Cancel \/ NewExport
  <2>1. page \in {2, 4} /\ export' = export
    BY <1>6, Zenon DEF Cancel, NewExport, OnPage
  <2>2. cli = "off"
    BY <2>1 DEF CliFits
  <2>3. export' = NoExport
    BY <2>1, <2>2 DEF PageOrder
  <2>4. QED
    BY <1>0, <2>3
<1>7. CASE ExportFiles
  <2>1. /\ page = 2 /\ ~Asking /\ ObjectsOf(set.items) # {}
        /\ UNCHANGED <<stored, confirmed, own>>
        /\ export'.bucket = set.bucket
        /\ export'.objects = ObjectsOf(set.items)
    BY <1>7 DEF ExportFiles, OnPage
  <2>2. cli = "off"
    BY <2>1 DEF CliFits
  <2>3. set.bucket = bucket
    BY <2>1, <2>2 DEF PageBucket, ObjectsOf, Listed
  <2>4. \A item \in Listed(set.items) : Agreed(bucket, item.object)
    BY <2>1, <2>2 DEF ListAgreed, Asking
  <2>5. \A o \in ObjectsOf(set.items) : Agreed(bucket, o)
    BY <2>4 DEF ObjectsOf
  <2>6. QED
    BY <2>1, <2>3, <2>5 DEF ExportAgreed, Agreed
<1>8. CASE CreateBucket
  <2>1. export # NoExport
    BY <1>8 DEF CreateBucket, NoExport
  <2>2. /\ UNCHANGED <<stored, confirmed, own>>
        /\ \/ export' = NoExport
           \/ export'.bucket = export.bucket /\ export'.objects = export.objects
    BY <1>8 DEF CreateBucket, Answer
  <2>3. QED
    BY <1>0, <2>1, <2>2 DEF ExportAgreed, Agreed
<1>9. ASSUME NEW put \in SUBSET Objects, Upload(put)
      PROVE  ExportAgreed'
  BY <1>0, <1>9 DEF Upload, Answer
<1>10. CASE \E name \in Mine \cup Free, o \in Objects : OthersWrite(name, o)
  BY <1>10 DEF OthersWrite, Careful
<1>11. ASSUME CliUpload, stored' = stored, own' = own,
              confirmed \subseteq confirmed',
              \A o \in ObjectsOf(set.items) :
                o \notin stored[set.bucket]
                \/ <<set.bucket, o>> \in confirmed'
       PROVE  ExportAgreed'
  <2>1. export'.bucket = set.bucket /\ export'.objects = ObjectsOf(set.items)
    BY <1>11 DEF CliUpload
  <2>2. QED
    BY <1>11, <2>1 DEF ExportAgreed, Agreed
<1>12. ASSUME NEW override \in BOOLEAN, CliBucketExists(override)
       PROVE  ExportAgreed'
  <2>1. CASE override
    <3>1. /\ CliUpload /\ stored' = stored /\ own' = own
          /\ confirmed' = confirmed
                            \cup ({set.bucket} \X ObjectsOf(set.items))
      BY <1>12, <2>1 DEF CliBucketExists, Cli
    <3>2. \A o \in ObjectsOf(set.items) : <<set.bucket, o>> \in confirmed'
      BY <3>1
    <3>3. QED
      BY <1>11, <3>1, <3>2
  <2>2. CASE ~override
    BY <1>1, <1>12, <2>2 DEF CliBucketExists, Cli
  <2>3. QED
    BY <2>1, <2>2
<1>13. CASE CliCreateBucket
  <2>1. stored[set.bucket] = {}
    BY <1>13, ExportAssumption DEF CliCreateBucket, StoredFits, Buckets
  <2>2. CliUpload /\ UNCHANGED <<stored, confirmed, own>>
    BY <1>13 DEF CliCreateBucket, Cli
  <2>3. QED
    BY <1>11, <2>1, <2>2
<1>14. CASE CliCheck
  <2>1. stored' = stored /\ own' = own /\ confirmed' = confirmed
    BY <1>14 DEF CliCheck, Cli
  <2>2. CASE ObjectsOf(set.items) \cap stored[set.bucket] = {}
    <3>1. CliUpload
      BY <1>14, <2>2 DEF CliCheck, Existing
    <3>2. QED
      BY <1>11, <2>1, <2>2, <3>1
  <2>3. CASE ObjectsOf(set.items) \cap stored[set.bucket] # {}
    BY <1>1, <1>14, <2>1, <2>3 DEF CliCheck, Existing
  <2>4. QED
    BY <2>2, <2>3
<1>15. CASE CliYes
  <2>1. /\ CliUpload /\ stored' = stored /\ own' = own
        /\ confirmed' = confirmed \cup
                ({set.bucket} \X (ObjectsOf(set.items)
                                    \cap stored[set.bucket]))
    BY <1>15 DEF CliYes, Cli, Existing
  <2>2. \A o \in ObjectsOf(set.items) :
            o \notin stored[set.bucket] \/ <<set.bucket, o>> \in confirmed'
    BY <2>1
  <2>3. QED
    BY <1>11, <2>1, <2>2
<1>16. CASE \/ exportSetup \/ CliRejectBucket \/ CliCheckFails \/ CliNo
            \/ \E name \in Names, objects \in SUBSET Objects :
                    CliWalkDirs(name, objects)
  BY <1>1, <1>16 DEF exportSetup, CliRejectBucket, CliCheckFails, CliNo,
     CliWalkDirs, Cli
<1>17. QED
  BY <1>2, <1>3, <1>4, <1>5, <1>6, <1>7, <1>8, <1>9, <1>10, <1>12, <1>13,
     <1>14, <1>15, <1>16 DEF Next, Page2, Backend, CommandLine

(* Both together.                                                           *)
LEMMA OverwritesStep ==
  ASSUME TypeOK, StoredFits, CliFits, PageFits, BucketIsKnown,
         OverwritesAgreed, [Next]_vars
  PROVE  OverwritesAgreed'
<1>1. Careful' => Careful
  BY Frame DEF Careful
<1>2. Careful /\ cli = "off" =>
        PageOrder /\ PageBucket /\ Believed /\ Unique /\ ListAgreed
  BY PageParts, KnownParts, AgreedParts DEF Careful, Orderly
<1>3. Careful => ExportAgreed
  BY AgreedParts
<1>4. Careful' /\ cli' = "off" => ListAgreed'
  BY <1>1, <1>2, Frame, ListAgreedStep
<1>5. Careful' => ExportAgreed'
  BY <1>1, <1>2, <1>3, ExportAgreedStep
<1>6. QED
  BY <1>4, <1>5 DEF OverwritesAgreed, ListAgreed, ExportAgreed

-----------------------------------------------------------------------------
(* The causes of the faults *)

(* The page makes two of the faults, Upload the third.                      *)
LEMMA FaultFrame ==
  ASSUME [Next]_vars
  PROVE  faults' = faults \/ ExportFiles
            \/ \E put \in SUBSET Objects : Upload(put)
<1> USE DEF history
<1>1. CASE UNCHANGED vars
  BY <1>1 DEF vars
<1>2. CASE Page1
  BY <1>2 DEF Page1, ExportPossible, Debounced, Continue, Type, HeadReturns,
     EmailReturns
<1>3. CASE Page2 \/ NewExport
  BY <1>3 DEF Page2, AddFiles, WalkReturns, CheckReturns, RemoveItem,
     Overwrite, Discard, Cancel, NewExport
<1>4. CASE CreateBucket
  BY <1>4 DEF CreateBucket
<1>5. CASE \E name \in Mine \cup Free, o \in Objects : OthersWrite(name, o)
  BY <1>5 DEF OthersWrite
<1>6. CASE CommandLine
  BY <1>6 DEF CommandLine, exportSetup, CliWalkDirs, CliBucketExists,
     CliCreateBucket, CliRejectBucket, CliCheck, CliCheckFails, CliYes,
     CliNo, Cli
<1>7. QED
  BY <1>1, <1>2, <1>3, <1>4, <1>5, <1>6 DEF Next, Backend

(* Only the events that CausesFit names lead to what is noted in faults.    *)
LEMMA CausesStep ==
  ASSUME IInv, [Next]_vars
  PROVE  CausesFit'
<1> USE DEF IInv
<1>1. events' = events
  BY Frame
<1>2. CASE faults' = faults
  BY <1>1, <1>2 DEF CausesFit, Orderly, Careful
<1>3. CASE ExportFiles
  <2>1. page = 2 /\ ObjectsOf(set.items) # {}
    BY <1>3 DEF ExportFiles, OnPage
  <2>2. cli = "off"
    BY <2>1 DEF CliFits
  <2>3. Orderly => set.bucket = bucket
    BY <2>1, <2>2, PageParts DEF PageBucket, ObjectsOf, Listed
  <2>4. "doubleAdd" \notin events => ~Twice
    BY DEF RunsFit
  <2>5. faults' = faults
            \cup (IF set.bucket # bucket THEN {"misdirected"} ELSE {})
            \cup (IF Twice THEN {"twice"} ELSE {})
    BY <1>3 DEF ExportFiles
  <2>6. QED
    BY <1>1, <2>3, <2>4, <2>5 DEF CausesFit, Orderly, Careful
<1>4. ASSUME NEW put \in SUBSET Objects, Upload(put)
      PROVE  CausesFit'
  <2>1. export # NoExport /\ put \subseteq export.objects
    BY <1>4 DEF Upload, NoExport
  <2>2. Careful => \A o \in put : Agreed(export.bucket, o)
    BY <2>1, AgreedParts DEF ExportAgreed
  <2>3. Careful => faults' = faults
    BY <1>4, <2>2 DEF Upload, Agreed
  <2>4. faults' \subseteq faults \cup {"overwritten"}
    BY <1>4 DEF Upload
  <2>5. QED
    BY <1>1, <2>3, <2>4 DEF CausesFit, Orderly, Careful
<1>5. QED
  BY <1>2, <1>3, <1>4, FaultFrame

-----------------------------------------------------------------------------
(* The theorems *)

(* IInv holds where the page or the command starts.                         *)
LEMMA InitIInv ==
  ASSUME Init
  PROVE  IInv
<1>1. /\ events \subseteq Events /\ findata \in BOOLEAN /\ owned = Mine
      /\ page = 0 /\ ~timer /\ timer \in BOOLEAN
      /\ bucket = query /\ query \in Names
      /\ unique = "unknown" /\ ~valid /\ valid \in BOOLEAN /\ heads = <<>>
      /\ typed = 0 /\ emails = 0 /\ adds = {} /\ added = 0
      /\ export = NoExport /\ cli \in {"off", "setup"}
      /\ confirmed = {} /\ own = {} /\ faults = {}
  BY Zenon DEF Init, Names
<1>2. set.items = <<>> /\ Listed(set.items) = {}
  <2>1. set.items = <<>>
    BY EmptyType, Zenon DEF Init
  <2>2. Listed(<<>>) = {}
    BY DEF Listed
  <2>3. QED
    BY <2>1, <2>2
<1>3. /\ stored \in [Buckets -> SUBSET Objects]
      /\ \A b \in Free \cup Others : stored[b] = {}
  BY DEF Init
<1>4. TypeOK
  <2>1. set \in [bucket : Names, items : Seq(SUBSET Items)]
    BY EmptyType DEF Init
  <2>2. <<>> \in Seq(Buckets)
    OBVIOUS
  <2>3. typed \in 0 .. MaxTyped /\ added \in 0 .. MaxAdds
    BY <1>1, BoundsType
  <2>4. QED
    BY <1>1, <1>3, <2>1, <2>2, <2>3 DEF TypeOK
<1>5. StoredFits
  BY <1>1, <1>3 DEF StoredFits, Buckets
<1>6. CliFits /\ PageFits
  BY <1>1, <1>2 DEF CliFits, PageFits
<1>7. RunsFit
  BY <1>1, <1>2 DEF RunsFit, Twice
<1>8. BucketIsKnown
  BY <1>1 DEF BucketIsKnown
<1>9. OverwritesAgreed
  BY <1>1, <1>2 DEF OverwritesAgreed
<1>10. CausesFit
  BY <1>1 DEF CausesFit
<1>11. QED
  BY <1>4, <1>5, <1>6, <1>7, <1>8, <1>9, <1>10 DEF IInv

(* The page and the command keep the inductive invariant, whatever of the   *)
(* events may happen in their behaviour.                                    *)
THEOREM Inductive == Spec => []IInv
<1>1. Init => IInv
  BY InitIInv
<1>2. IInv /\ [Next]_vars => IInv'
  <2> SUFFICES ASSUME IInv, [Next]_vars
               PROVE  IInv'
    OBVIOUS
  <2>1. TypeOK' /\ StoredFits' /\ CliFits'
    BY TypeStep, StoredStep, CliStep DEF IInv
  <2>2. PageFits' /\ RunsFit' /\ BucketIsKnown'
    BY PageStep, RunsFitStep, KnownStep DEF IInv
  <2>3. OverwritesAgreed' /\ CausesFit'
    BY OverwritesStep, CausesStep DEF IInv
  <2>4. QED
    BY <2>1, <2>2, <2>3 DEF IInv
<1>3. QED
  BY <1>1, <1>2, PTL DEF Spec

(* Whatever goes wrong with an export (an object is overwritten that the    *)
(* user was not asked about, a set goes to another bucket than the page     *)
(* shows, an object is uploaded twice at once) has an event as its cause    *)
(* that may lead to it: Push and ExportFiles of ExportPage.vue and the      *)
(* checks before exportHandler's upload are enough for a user who waits.    *)
THEOREM Causes == Spec => []FaultsHaveCauses
<1>1. ASSUME IInv
      PROVE  FaultsHaveCauses
  <2> USE <1>1 DEF IInv
  <2>1. ASSUME NEW fault \in faults
        PROVE  \E e \in events : fault \in Leads[e]
    <3>1. events \subseteq Events
          /\ fault \in {"overwritten", "misdirected", "twice"}
      BY DEF TypeOK
    <3>2. CASE fault = "misdirected"
      BY <2>1, <3>2 DEF CausesFit, Orderly, Leads
    <3>3. CASE fault = "twice"
      BY <2>1, <3>3 DEF CausesFit, Leads
    <3>4. CASE fault = "overwritten"
      BY <2>1, <3>4 DEF CausesFit, Careful, Leads
    <3>5. QED
      BY <3>1, <3>2, <3>3, <3>4
  <2>2. QED
    BY <2>1 DEF FaultsHaveCauses
<1>2. QED
  BY <1>1, Inductive, PTL

(* With none of the events, the list of the files belongs to the bucket     *)
(* that the page shows, and whatever of it that bucket holds has been asked *)
(* about or is the user's to overwrite.                                     *)
THEOREM ExportInvariant == Spec => []ExportInv
<1>1. ASSUME IInv
      PROVE  ListIsChecked
  <2> USE <1>1 DEF IInv
  <2>1. SUFFICES ASSUME page = 2, cli = "off", events = {},
                        ObjectsOf(set.items) # {}
                 PROVE  /\ set.bucket = bucket
                        /\ unique = "yes" => stored[bucket] = {}
                        /\ ListAgreed
    BY DEF ListIsChecked, ListAgreed, Agreed
  <2>2. Orderly /\ Careful
    BY <2>1 DEF Orderly, Careful
  <2>3. PageOrder /\ PageBucket /\ Believed /\ Unique /\ ListAgreed
    BY <2>1, <2>2, PageParts, KnownParts, AgreedParts
  <2>4. set.bucket = bucket
    BY <2>1, <2>3 DEF PageBucket, ObjectsOf, Listed
  <2>5. export = NoExport /\ Settled /\ valid
    BY <2>1, <2>3 DEF PageOrder, Believed
  <2>6. bucket \in Mine \cup Free /\ UniqueFits
    BY <2>1, <2>3, <2>5 DEF Believed, Unique
  <2>7. unique = "yes" => stored[bucket] = {}
    BY <2>6 DEF UniqueFits, StoredFits, Buckets
  <2>8. QED
    BY <2>3, <2>4, <2>7
<1>2. IInv => ExportInv
  BY <1>1 DEF ExportInv, IInv
<1>3. QED
  BY <1>2, Inductive, PTL
=============================================================================
