------------------------------- MODULE Export -------------------------------
(***************************************************************************)
(* What happens before airlock.Upload: the export page of the GUI, whose   *)
(* handlers run one at a time but wait for calls of the backend, and the   *)
(* export command of the CLI, which does one thing after another.          *)
(*                                                                         *)
(* The page is written for a user who does one thing at a time.  events    *)
(* says what else may happen in a behaviour, faults records what went      *)
(* wrong; the code has neither.  Names that no bucket can have are "".     *)
(*                                                                         *)
(* The list of objects is kept as the sequence of what each call of        *)
(* WalkDirs has found: one call finds an object once, and the order within *)
(* it makes no difference.                                                 *)
(***************************************************************************)
EXTENDS Naturals, Sequences, FiniteSets, SequencesExt

CONSTANTS
    Mine, Free, Others, \* buckets: the project's, nobody's, other projects'
    Objects,            \* names of objects
    MaxTyped, MaxAdds   \* bounds on what a user types and adds

Buckets == Mine \cup Free \cup Others
Names == Buckets \cup {""}

Events ==
    {"hasty",           \* the user goes on before the bucket is looked up
     "reordered",       \* the answers on two buckets come in another order
     "doubleAdd",       \* files are added while others are looked up
     "lateAnswer",      \* and when the set is exported or given up
     "doubleContinue",  \* "Continue" is pressed twice
     "createdInVain",   \* an export fails after it has created its bucket
     "othersWrite"}     \* others write to the project's buckets

ASSUME ExportAssumption ==
    /\ Mine \cap Free = {} /\ Mine \cap Others = {} /\ Free \cap Others = {}
    /\ "" \notin Buckets
    /\ MaxTyped \in Nat /\ MaxAdds \in Nat

VARIABLES
    events,     \* what may happen in this behaviour
    findata,    \* api.FindataUpload(): an email address is asked for
    owned,      \* the project's buckets
    stored,     \* the objects in each bucket
    page,       \* pageIdx
    query,      \* bucketQuery
    timer,      \* debounceTimer is set
    bucket,     \* selectedBucket, which the page shows
    unique,     \* uniqueBucket: "yes", "no" or undefined, "unknown"
    valid,      \* all of validationHelperData say "success"
    heads,      \* buckets that BucketExists was asked for
    emails,     \* calls of ValidateEmail
    adds,       \* calls of WalkDirs and then CheckObjectExistences
    set,        \* selectedSet
    export,     \* the call of ExportFiles, or of Upload in the CLI
    cli,        \* where exportHandler is
    typed, added,   \* how often the user has typed and added
    confirmed,  \* what the user agreed to overwrite: bucket and object
    own,        \* what the exports of this set have written
    faults      \* what went wrong

asked == <<query, timer, bucket, unique, valid, heads, typed>>
chosen == <<adds, set, added>>
storage == <<owned, stored>>
history == <<confirmed, own, faults>>
vars == <<events, findata, storage, page, asked, emails, chosen, export, cli,
          history>>

Items == [object : Objects, exists : BOOLEAN]
Adds == [nth : 0 .. MaxAdds, bucket : Names, objects : SUBSET Objects,
         current : SUBSET Objects, stage : {"walk", "check"}]
Exports == [stage : {"create", "upload"}, created : BOOLEAN, bucket : Names,
            objects : SUBSET Objects]

EmptySet == [bucket |-> "", items |-> <<>>]
NoExport == [stage |-> "none"]

TypeOK ==
    /\ events \subseteq Events
    /\ findata \in BOOLEAN
    /\ owned \subseteq Mine \cup Free
    /\ stored \in [Buckets -> SUBSET Objects]
    /\ page \in 0 .. 5
    /\ query \in Names /\ bucket \in Names
    /\ timer \in BOOLEAN /\ valid \in BOOLEAN
    /\ unique \in {"yes", "no", "unknown"}
    /\ heads \in Seq(Buckets)
    /\ emails \in 0 .. 2
    /\ adds \subseteq Adds
    /\ set \in [bucket : Names, items : Seq(SUBSET Items)]
    /\ export \in {NoExport} \cup Exports
    /\ cli \in {"off", "setup", "walk", "validate", "check", "ask", "upload",
                "end"}
    /\ typed \in 0 .. MaxTyped /\ added \in 0 .. MaxAdds
    /\ confirmed \subseteq Names \X Objects
    /\ own \subseteq Buckets \X Objects
    /\ faults \subseteq {"overwritten", "misdirected", "twice"}

Init ==
    /\ events \in SUBSET Events
    /\ findata \in BOOLEAN
    /\ owned = Mine
    /\ stored \in {s \in [Buckets -> SUBSET Objects] :
                    \A b \in Free \cup Others : s[b] = {}}
    /\ page = 0
    /\ query = "" /\ timer = FALSE /\ bucket = "" /\ unique = "unknown"
    /\ valid = FALSE /\ heads = <<>> /\ typed = 0
    /\ emails = 0
    /\ adds = {} /\ set = EmptySet /\ added = 0
    /\ export = NoExport
    /\ cli \in {"off", "setup"}
    /\ confirmed = {} /\ own = {} /\ faults = {}

Listed(items) == UNION {items[i] : i \in DOMAIN items}
ObjectsOf(items) == {item.object : item \in Listed(items)}

\* The modal that asks about overwriting covers every page.
Asking == \E item \in Listed(set.items) : item.exists

OnPage(number) == page = number /\ ~Asking

-----------------------------------------------------------------------------
(* Page 1: the bucket *)

ExportPossible ==
    /\ cli = "off" /\ page = 0
    /\ page' = 1
    /\ UNCHANGED <<events, findata, storage, asked, emails, chosen, export,
                   cli, history>>

\* The watch on bucketQuery (re)starts the timer.
Type(name) ==
    /\ OnPage(1) /\ typed < MaxTyped /\ name # query
    /\ emails = 0 \/ "hasty" \in events
    /\ query' = name
    /\ timer' = TRUE
    /\ typed' = typed + 1
    /\ UNCHANGED <<events, findata, storage, page, bucket, unique, valid,
                   heads, emails, chosen, export, cli, history>>

\* The timer fires: a name that can be a bucket's is looked up, and until the
\* answer the page knows what it knew.  Any other name has its answer at once,
\* before those that are still to come.
Debounced ==
    /\ timer
    /\ timer' = FALSE
    /\ bucket' = query
    /\ IF query = ""
       THEN /\ heads = <<>> \/ "reordered" \in events
            /\ valid' = FALSE
            /\ UNCHANGED heads
       ELSE heads' = Append(heads, query) /\ UNCHANGED valid
    /\ UNCHANGED <<events, findata, storage, page, query, unique, emails,
                   typed, chosen, export, cli, history>>

\* mutant: the answer is kept for names that were found only
BucketExists_KeepsUnique(name) ==
    /\ unique' = IF unique = "unknown" THEN "yes" ELSE unique
    /\ valid' = TRUE

\* Found, not found, or an error: it is another project's.
BucketExists(name) ==
    IF name \in Others THEN valid' = FALSE /\ UNCHANGED unique
    ELSE valid' = TRUE /\ unique' = IF name \in owned THEN "no" ELSE "yes"

HeadReturns(i) ==
    /\ i \in DOMAIN heads
    /\ i = 1 \/ "reordered" \in events
    /\ heads' = RemoveAt(heads, i)
    /\ \/ BucketExists(heads[i])
       \/ valid' = FALSE /\ UNCHANGED unique
    /\ UNCHANGED <<events, findata, storage, page, query, timer, bucket,
                   emails, typed, chosen, export, cli, history>>

Settled == ~timer /\ heads = <<>>

\* toFileSelectionPage.
Continue ==
    /\ OnPage(1) /\ valid
    /\ Settled \/ "hasty" \in events
    /\ emails = 0 \/ "doubleContinue" \in events
    /\ IF findata
         THEN emails < 2 /\ emails' = emails + 1 /\ UNCHANGED page
         ELSE page' = 2 /\ UNCHANGED emails
    /\ UNCHANGED <<events, findata, storage, asked, chosen, export, cli,
                   history>>

\* ValidateEmail answers; pageIdx is increased wherever it is by now.
EmailReturns(ok) ==
    /\ emails > 0 /\ page < 5
    /\ emails' = emails - 1
    /\ page' = IF ok THEN page + 1 ELSE page
    /\ UNCHANGED <<events, findata, storage, asked, chosen, export, cli,
                   history>>

-----------------------------------------------------------------------------
(* Page 2: the files *)

\* Nothing that was added is still looked up.
Answered == adds = {} \/ "lateAnswer" \in events

AddFiles(objects) ==
    /\ OnPage(2) /\ added < MaxAdds
    /\ adds = {} \/ "doubleAdd" \in events
    /\ adds' = adds \cup {[nth |-> added, bucket |-> bucket,
                           objects |-> objects,
                           current |-> ObjectsOf(set.items),
                           stage |-> "walk"]}
    /\ added' = added + 1
    /\ UNCHANGED <<events, findata, storage, page, asked, emails, set, export,
                   cli, history>>

Push(a, existing) ==
    set' = [bucket |-> a.bucket,
            items |-> Append(set.items, {[object |-> o,
                                          exists |-> o \in existing] :
                                         o \in a.objects})]

\* CheckObjectExistences is called.
GoOn(a) ==
    adds' = (adds \ {a}) \cup
                {[nth |-> a.nth, bucket |-> a.bucket, objects |-> a.objects,
                  current |-> a.current, stage |-> "check"]}

\* mutant: objects that are in the list are added again
WalkReturns_NoClash(a) ==
    /\ a \in adds /\ a.stage = "walk"
    /\ IF unique = "yes" THEN Push(a, {}) /\ adds' = adds \ {a}
                         ELSE GoOn(a) /\ UNCHANGED set
    /\ UNCHANGED <<events, findata, storage, page, asked, emails, added,
                   export, cli, history>>

\* WalkDirs fails, as it does when an object is in the list that it was given,
\* or what it found goes on: at once if the bucket is to be created.
WalkReturns(a) ==
    /\ a \in adds /\ a.stage = "walk"
    /\ \/ adds' = adds \ {a} /\ UNCHANGED set
       \/ /\ a.objects \cap a.current = {}
          /\ IF unique = "yes" THEN Push(a, {}) /\ adds' = adds \ {a}
                               ELSE GoOn(a) /\ UNCHANGED set
    /\ UNCHANGED <<events, findata, storage, page, asked, emails, added,
                   export, cli, history>>

\* CheckObjectExistences: the objects of the bucket, which are listed sorted.
Existing(name) == stored[name]

CheckReturns(a) ==
    /\ a \in adds /\ a.stage = "check"
    /\ \/ UNCHANGED set
       \/ a.bucket \in owned /\ Push(a, Existing(a.bucket))
    /\ adds' = adds \ {a}
    /\ UNCHANGED <<events, findata, storage, page, asked, emails, added,
                   export, cli, history>>

Flagged == {item \in Listed(set.items) : item.exists}

\* "Overwrite and continue", of what the list shows.
Overwrite ==
    /\ Asking
    /\ confirmed' = confirmed \cup
                        ({bucket} \X {item.object : item \in Flagged})
    /\ set' = [bucket |-> set.bucket,
               items |-> [i \in DOMAIN set.items |->
                            {[object |-> item.object, exists |-> FALSE] :
                             item \in set.items[i]}]]
    /\ UNCHANGED <<events, findata, storage, page, asked, emails, adds, added,
                   export, cli, own, faults>>

\* deleteExisting.
Discard ==
    /\ Asking
    /\ set' = [bucket |-> set.bucket,
               items |-> [i \in DOMAIN set.items |->
                            {item \in set.items[i] : ~item.exists}]]
    /\ UNCHANGED <<events, findata, storage, page, asked, emails, adds, added,
                   export, cli, history>>

\* "Remove from list": the first entry with that object.
RemoveItem(i, o) ==
    /\ OnPage(2) /\ i \in DOMAIN set.items
    /\ \E item \in set.items[i] : item.object = o
    /\ \A j \in 1 .. i - 1 : \A item \in set.items[j] : item.object # o
    /\ set' = [bucket |-> set.bucket,
               items |-> [set.items EXCEPT
                            ![i] = {item \in @ : item.object # o}]]
    /\ UNCHANGED <<events, findata, storage, page, asked, emails, adds, added,
                   export, cli, history>>

\* "Cancel" and clearSet.
Cancel ==
    /\ OnPage(2) /\ Answered
    /\ page' = 1
    /\ set' = EmptySet
    /\ own' = {} /\ confirmed' = {}
    /\ UNCHANGED <<events, findata, storage, asked, emails, adds, added,
                   export, cli, faults>>

\* Two calls of WalkDirs have found one object.
Twice ==
    \E i, j \in DOMAIN set.items :
        /\ i # j
        /\ \E a \in set.items[i], b \in set.items[j] : a.object = b.object

\* "Export": the set is sent to the backend as it is now.
ExportFiles ==
    /\ OnPage(2) /\ Answered /\ ObjectsOf(set.items) # {}
    /\ export = NoExport
    /\ page' = 3
    /\ export' = [stage |-> IF unique = "yes" THEN "create" ELSE "upload",
                  created |-> FALSE, bucket |-> set.bucket,
                  objects |-> ObjectsOf(set.items)]
    /\ faults' = faults
        \cup (IF set.bucket # bucket THEN {"misdirected"} ELSE {})
        \cup (IF Twice THEN {"twice"} ELSE {})
    /\ UNCHANGED <<events, findata, storage, asked, emails, chosen, cli,
                   confirmed, own>>

-----------------------------------------------------------------------------
(* The backend, and what the page makes of its answer *)

\* mutant: a failed export is not caught
Answer_NoCatch(ok) ==
    /\ export' = NoExport
    /\ IF cli = "upload" THEN cli' = "end" /\ UNCHANGED page
       ELSE page' = (IF ok THEN 4 ELSE page) /\ UNCHANGED cli

Answer(ok) ==
    /\ export' = NoExport
    /\ IF cli = "upload" THEN cli' = "end" /\ UNCHANGED page
       ELSE page' = (IF ok THEN 4 ELSE 2) /\ UNCHANGED cli

\* CreateBucket: what the project has may be accepted or refused, and waiting
\* for the new bucket may fail.
CreateBucket ==
    /\ export.stage = "create"
    /\ \/ /\ export.bucket \in Mine \cup Free
          /\ owned' = owned \cup {export.bucket}
          /\ \/ /\ export' = [stage |-> "upload", created |-> TRUE,
                               bucket |-> export.bucket,
                               objects |-> export.objects]
                /\ UNCHANGED <<page, cli>>
             \/ "createdInVain" \in events /\ Answer(FALSE)
       \/ Answer(FALSE) /\ UNCHANGED owned
    /\ UNCHANGED <<events, findata, stored, asked, emails, chosen, history>>

\* airlock.Upload stores some of the objects; nil means all of them.
Upload(put) ==
    /\ export.stage = "upload"
    /\ put \subseteq export.objects
    /\ put # {} => export.bucket \in owned
    /\ stored' = [b \in Buckets |-> IF b = export.bucket THEN stored[b] \cup put
                                    ELSE stored[b]]
    /\ own' = own \cup ({export.bucket} \X put)
    /\ faults' = IF \E o \in put :
                        /\ o \in stored[export.bucket]
                        /\ <<export.bucket, o>> \notin confirmed \cup own
                 THEN faults \cup {"overwritten"} ELSE faults
    /\ \/ put = export.objects /\ Answer(TRUE)
       \/ /\ export.created => "createdInVain" \in events
          /\ Answer(FALSE)
    /\ UNCHANGED <<events, findata, owned, asked, emails, chosen, confirmed>>

\* "New Export" and reset, which sets off the watch on bucketQuery.
NewExport ==
    /\ OnPage(4) /\ Answered
    /\ page' = 1
    /\ query' = "" /\ timer' = (timer \/ query # "")
    /\ bucket' = "" /\ unique' = "unknown"
    /\ set' = EmptySet /\ own' = {} /\ confirmed' = {}
    /\ UNCHANGED <<events, findata, storage, valid, heads, typed, emails,
                   adds, added, export, cli, faults>>

OthersWrite(name, o) ==
    /\ "othersWrite" \in events
    /\ name \in owned
    /\ stored' = [stored EXCEPT ![name] = @ \cup {o}]
    /\ UNCHANGED <<events, findata, owned, page, asked, emails, chosen, export,
                   cli, history>>

-----------------------------------------------------------------------------
(* The command line: exportSetup and exportHandler *)

Cli(from, to) ==
    /\ cli = from /\ cli' \in to
    /\ UNCHANGED <<events, findata, page, asked, emails, adds, added, own,
                   faults>>

\* Arguments, the right to export, and with Findata an address and a number.
exportSetup ==
    /\ Cli("setup", {"walk", "end"})
    /\ UNCHANGED <<storage, set, export, confirmed>>

CliWalkDirs(name, objects) ==
    /\ Cli("walk", {"validate", "end"})
    /\ set' = [bucket |-> name,
               items |-> <<[object : objects, exists : {FALSE}]>>]
    /\ UNCHANGED <<storage, export, confirmed>>

CliUpload ==
    export' = [stage |-> "upload", created |-> FALSE, bucket |-> set.bucket,
               objects |-> ObjectsOf(set.items)]

\* ValidateBucket when the bucket is there; -override leaves out the check.
CliBucketExists(override) ==
    /\ set.bucket \in owned
    /\ IF override
       THEN /\ Cli("validate", {"upload"})
            /\ CliUpload
            /\ confirmed' = confirmed
                              \cup ({set.bucket} \X ObjectsOf(set.items))
       ELSE Cli("validate", {"check"}) /\ UNCHANGED <<export, confirmed>>
    /\ UNCHANGED <<storage, set>>

\* ValidateBucket when it is not: it is created, and not checked.
CliCreateBucket ==
    /\ set.bucket \in Free \ owned
    /\ owned' = owned \cup {set.bucket}
    /\ Cli("validate", {"upload"})
    /\ CliUpload
    /\ UNCHANGED <<stored, set, confirmed>>

\* The name is no bucket's or another project's, or a request fails.
CliRejectBucket ==
    /\ Cli("validate", {"end"})
    /\ owned' \in {owned, owned \cup ({set.bucket} \cap Free)}
    /\ UNCHANGED <<stored, set, export, confirmed>>

CliCheck ==
    /\ cli = "check"
    /\ IF ObjectsOf(set.items) \cap Existing(set.bucket) # {}
       THEN Cli("check", {"ask"}) /\ UNCHANGED export
       ELSE Cli("check", {"upload"}) /\ CliUpload
    /\ UNCHANGED <<storage, set, confirmed>>

CliCheckFails ==
    /\ Cli("check", {"end"})
    /\ UNCHANGED <<storage, set, export, confirmed>>

\* "y"; any other answer than "n" and the end of input is asked for again.
CliYes ==
    /\ Cli("ask", {"upload"})
    /\ CliUpload
    /\ confirmed' = confirmed \cup
        ({set.bucket} \X (ObjectsOf(set.items) \cap Existing(set.bucket)))
    /\ UNCHANGED <<storage, set>>

CliNo ==
    /\ Cli("ask", {"end"})
    /\ UNCHANGED <<storage, set, export, confirmed>>

-----------------------------------------------------------------------------
Page1 == \/ ExportPossible \/ Debounced \/ Continue
         \/ \E name \in Names : Type(name)
         \/ \E i \in DOMAIN heads : HeadReturns(i)
         \/ \E ok \in BOOLEAN : EmailReturns(ok)

Page2 == \/ \E objects \in SUBSET Objects \ {{}} : AddFiles(objects)
         \/ \E a \in adds : WalkReturns(a) \/ CheckReturns(a)
         \/ \E i \in DOMAIN set.items, o \in Objects : RemoveItem(i, o)
         \/ Overwrite \/ Discard \/ Cancel \/ ExportFiles

Backend == CreateBucket \/ \E put \in SUBSET Objects : Upload(put)

CommandLine ==
    \/ exportSetup
    \/ \E name \in Names, objects \in SUBSET Objects :
        CliWalkDirs(name, objects)
    \/ \E override \in BOOLEAN : CliBucketExists(override)
    \/ CliCreateBucket \/ CliRejectBucket
    \/ CliCheck \/ CliCheckFails \/ CliYes \/ CliNo

Next == \/ Page1 \/ Page2 \/ NewExport \/ Backend \/ CommandLine
        \/ \E name \in Mine \cup Free, o \in Objects : OthersWrite(name, o)

Spec == Init /\ [][Next]_vars

\* The backend answers.
Fairness == WF_vars(Backend)

FairSpec == Spec /\ Fairness

-----------------------------------------------------------------------------
(* Properties *)

\* What each event can lead to.
Leads == [hasty |-> {"overwritten", "misdirected"},
          reordered |-> {"overwritten"},
          doubleAdd |-> {"twice"},
          lateAnswer |-> {"overwritten", "misdirected"},
          doubleContinue |-> {"overwritten", "misdirected"},
          createdInVain |-> {"overwritten"},
          othersWrite |-> {"overwritten"}]

\* No object is overwritten without being asked about, no set goes to another
\* bucket than the page shows, and no object is uploaded by two goroutines at
\* once, unless an event that leads there may happen.
FaultsHaveCauses == faults \subseteq UNION {Leads[e] : e \in events}

\* With none of these events the list on page 2 belongs to the bucket shown:
\* whatever in it the bucket holds is asked about, or was agreed to, or comes
\* from an earlier try, and only a bucket without objects is to be created.
ListIsChecked ==
    page = 2 /\ cli = "off" /\ events = {} /\ ObjectsOf(set.items) # {} =>
        /\ set.bucket = bucket
        /\ unique = "yes" => stored[bucket] \subseteq {o \in Objects :
                                            <<bucket, o>> \in own}
        /\ \A item \in Listed(set.items) :
            \/ item.exists
            \/ item.object \notin stored[bucket]
            \/ <<bucket, item.object>> \in confirmed \cup own

\* The types and the list.
ExportInv == TypeOK /\ ListIsChecked

\* ExportPage.vue:37, of uniqueBucket: "true if user is allowed to create the
\* bucket, false if they already own it".  It stays true when an export has
\* created the bucket and then failed.
UniqueIsTrue == page = 2 /\ unique = "yes" => bucket \notin owned

\* The page that asks for patience is left again.
ProgressPageEnds ==
    page = 3 /\ "doubleContinue" \notin events ~> page # 3
=============================================================================
