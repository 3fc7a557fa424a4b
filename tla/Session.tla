------------------------------ MODULE Session -------------------------------
(***************************************************************************)
(* A session of the CLI, from the profile to the end of the program: the   *)
(* login, and the keys that files opened in the mount whitelist in Vault   *)
(* and that Ctrl+C is to delete.  Each request is one call of makeRequest, *)
(* httpRetry attempts under one deadline.  libfuse runs on the main thread *)
(* (-s), the handler of signals on another.                                *)
(*                                                                         *)
(* events says what may happen in a behaviour; the code has no such thing. *)
(***************************************************************************)
EXTENDS Naturals, FiniteSets

CONSTANTS
    Projects,   \* the owners of files, the user's own project among them
    httpRetry   \* attempts of a request

ASSUME SessionAssumption == httpRetry \in Nat \ {0}

Events ==
    {"requestLost",         \* a request does not reach the server in time
     "answerLost",          \* a request is carried out, its answer is lost
     "delayed",             \* it is carried out after the attempt was given up
     "errors",              \* the server answers with an error
     "openWhileDeleting",   \* a file is being opened while keys are deleted
     "openBeforeUnmount",   \* one is opened after that, before fusermount3
     "unmountedOutside"}    \* fusermount3 is run by somebody else

VARIABLES
    events,     \* what may happen in this behaviour
    vault,      \* the projects in which Vault has the key whitelisted
    late,       \* requests of which the attempt was given up, to come yet
    request,    \* the call of makeRequest of each thread
    stage,      \* where main is
    access,     \* userProfile.S3Access
    variable,   \* CSC_PASSWORD, "" when it is not set
    password,   \* ai.password
    whitelistedProjects,
    main,       \* where GetFileHeader is
    opening,    \* the owner of the file that is being opened
    old,        \* whitelistedProjects as append has read it
    busy,       \* a file of the mount is open
    signals,    \* where UnmountFilesystem is
    todo,       \* the projects left to DeleteWhitelistedKeys
    faults      \* what went wrong

network == <<vault, late>>
login == <<access, variable, password>>
fuse == <<main, opening, old, busy>>
unmount == <<signals, todo>>
vars == <<events, network, request, stage, login, whitelistedProjects, fuse,
          unmount, faults>>

None == "none"
NoRequest == [op |-> None]
Passwords == {"", "right", "wrong"}
Threads == {"main", "signals"}
Requests == [op : {"profile", "password", "whitelist", "header", "delete"},
             project : Projects \cup {None},
             count : 0 .. httpRetry,
             expired : BOOLEAN,
             reply : {None, "ok", "unauthorized", "error"}]

TypeOK ==
    /\ events \subseteq Events
    /\ vault \subseteq Projects
    /\ late \subseteq {"whitelist", "delete"} \X Projects
    /\ request \in [Threads -> {NoRequest} \cup Requests]
    /\ stage \in {"profile", "login", "mounted", "unmounted", "ended"}
    /\ access \in BOOLEAN /\ variable \in Passwords /\ password \in Passwords
    /\ whitelistedProjects \subseteq Projects
    /\ main \in {"idle", "whitelist", "append", "header"}
    /\ opening \in Projects \cup {None}
    /\ old \subseteq Projects /\ todo \subseteq Projects
    /\ busy \in BOOLEAN
    /\ signals \in {"idle", "delete", "unmount"}
    /\ faults \subseteq {"refused", "crashed"}

Init ==
    /\ events \in SUBSET Events
    /\ vault = {} /\ late = {}
    /\ request = [t \in Threads |-> NoRequest]
    /\ stage = "profile"
    /\ access \in BOOLEAN /\ variable \in Passwords /\ password = ""
    /\ whitelistedProjects = {}
    /\ main = "idle" /\ opening = None /\ old = {} /\ busy = FALSE
    /\ signals = "idle" /\ todo = {}
    /\ faults = {}

-----------------------------------------------------------------------------
(* makeRequest *)

Send(t, op, project) ==
    request' = [request EXCEPT ![t] =
                    [op |-> op, project |-> project, count |-> 0,
                     expired |-> FALSE, reply |-> None]]

Waits(t) == stage # "ended" /\ request[t] # NoRequest /\ request[t].reply = None

Replied(t, op) ==
    request[t] # NoRequest /\ request[t].op = op /\ request[t].reply # None

Done(t) == request' = [request EXCEPT ![t] = NoRequest]

\* mutant: the attempts are not counted
Retry_Uncounted(t) ==
    UNCHANGED request

\* client.Do failed.
Retry(t) ==
    request' = [request EXCEPT
        ![t].count = @ + 1,
        ![t].reply = IF request[t].count + 1 >= httpRetry THEN "error"
                                                          ELSE None]

\* What the server does for a request.
CarryOut(op, project) ==
    vault' = CASE op = "whitelist" -> vault \cup {project}
               [] op = "delete" -> vault \ {project}
               [] OTHER -> vault

Reply(r) ==
    CASE r.op = "password" /\ password = "wrong" -> "unauthorized"
      [] r.op = "header" /\ r.project \notin vault -> "error"
      [] OTHER -> "ok"

Answered(t) ==
    /\ Waits(t) /\ ~request[t].expired
    /\ LET r == request[t]
       IN  /\ CarryOut(r.op, r.project)
           /\ request' = [request EXCEPT ![t].reply = Reply(r)]
           /\ faults' = IF r.op = "header" /\ r.project \notin vault
                        THEN faults \cup {"refused"} ELSE faults
    /\ UNCHANGED <<events, late, stage, login, whitelistedProjects, fuse,
                   unmount>>

\* A status of 400 or more is an answer: it is not tried again.
AnsweredWithError(t) ==
    /\ Waits(t) /\ ~request[t].expired
    /\ "errors" \in events
    /\ request' = [request EXCEPT ![t].reply = "error"]
    /\ UNCHANGED <<events, network, stage, login, whitelistedProjects, fuse,
                   unmount, faults>>

AnswerLost(t) ==
    /\ Waits(t) /\ ~request[t].expired
    /\ "answerLost" \in events
    /\ CarryOut(request[t].op, request[t].project)
    /\ Retry(t)
    /\ UNCHANGED <<events, late, stage, login, whitelistedProjects, fuse,
                   unmount, faults>>

Delayed(t) ==
    /\ Waits(t) /\ ~request[t].expired
    /\ "delayed" \in events
    /\ request[t].op \in {"whitelist", "delete"}
    /\ late' = late \cup {<<request[t].op, request[t].project>>}
    /\ Retry(t)
    /\ UNCHANGED <<events, vault, stage, login, whitelistedProjects, fuse,
                   unmount, faults>>

\* Past the deadline every attempt fails at once.
RequestLost(t) ==
    /\ Waits(t)
    /\ "requestLost" \in events
    /\ Retry(t)
    /\ UNCHANGED <<events, network, stage, login, whitelistedProjects, fuse,
                   unmount, faults>>

\* The deadline, which the attempts share, passes.
Expires(t) ==
    /\ Waits(t) /\ ~request[t].expired
    /\ "requestLost" \in events
    /\ request' = [request EXCEPT ![t].expired = TRUE]
    /\ UNCHANGED <<events, network, stage, login, whitelistedProjects, fuse,
                   unmount, faults>>

Attempt(t) ==
    \/ Answered(t) \/ AnsweredWithError(t) \/ AnswerLost(t) \/ Delayed(t)
    \/ RequestLost(t) \/ Expires(t)

\* A request that was given up reaches the server after all.
Arrives ==
    \E l \in late :
        /\ CarryOut(l[1], l[2])
        /\ late' = late \ {l}
        /\ UNCHANGED <<events, request, stage, login, whitelistedProjects,
                       fuse, unmount, faults>>

-----------------------------------------------------------------------------
(* Logging in *)

GetProfile ==
    /\ stage = "profile"
    /\ \/ /\ request["main"] = NoRequest
          /\ Send("main", "profile", None)
          /\ UNCHANGED stage
       \/ /\ Replied("main", "profile")
          /\ Done("main")
          /\ stage' = IF request["main"].reply = "error" THEN "ended"
                      ELSE IF access THEN "mounted" ELSE "login"
    /\ UNCHANGED <<events, network, login, whitelistedProjects, fuse, unmount,
                   faults>>

\* The password is asked for unless it is in the environment.
AskForPassword ==
    /\ stage = "login" /\ request["main"] = NoRequest
    /\ password' \in IF variable = "" THEN {"right", "wrong"} ELSE {variable}
    /\ Send("main", "password", None)
    /\ UNCHANGED <<events, network, stage, access, variable,
                   whitelistedProjects, fuse, unmount, faults>>

\* mutant: every answer lets the user in
Authenticate_StatusIgnored ==
    /\ stage = "login" /\ Replied("main", "password")
    /\ Done("main")
    /\ stage' = IF request["main"].reply = "error" THEN "ended" ELSE "mounted"
    /\ UNCHANGED <<events, network, login, whitelistedProjects, fuse, unmount,
                   faults>>

\* Only a password that was typed and is wrong is asked for again.
Authenticate ==
    /\ stage = "login" /\ Replied("main", "password")
    /\ Done("main")
    /\ LET reply == request["main"].reply
       IN  /\ password' = IF reply = "ok" THEN password ELSE ""
           /\ stage' = CASE reply = "ok" -> "mounted"
                         [] reply = "unauthorized" /\ variable = "" -> "login"
                         [] OTHER -> "ended"
    /\ UNCHANGED <<events, network, access, variable, whitelistedProjects,
                   fuse, unmount, faults>>

InterruptLogin ==
    /\ stage = "login" /\ variable = ""
    /\ stage' = "ended"
    /\ UNCHANGED <<events, network, request, login, whitelistedProjects, fuse,
                   unmount, faults>>

-----------------------------------------------------------------------------
(* Opening a file: GetFileHeader *)

Open(project) ==
    /\ stage = "mounted" /\ main = "idle"
    /\ signals = "delete" => "openWhileDeleting" \in events
    /\ signals = "unmount" => "openBeforeUnmount" \in events
    /\ opening' = project
    /\ main' = IF project \in whitelistedProjects THEN "header"
                                                  ELSE "whitelist"
    /\ Send("main", main', project)
    /\ UNCHANGED <<events, network, stage, login, whitelistedProjects, old,
                   busy, unmount, faults>>

\* s3_open succeeds although the header was not had.
OpenReturns ==
    /\ main' = "idle" /\ opening' = None /\ old' = {}
    /\ busy' = TRUE
    /\ Done("main")

Whitelisted ==
    /\ main = "whitelist" /\ Replied("main", "whitelist")
    /\ IF request["main"].reply = "ok"
       THEN /\ main' = "append"
            /\ old' = whitelistedProjects
            /\ Done("main")
            /\ UNCHANGED <<opening, busy>>
       ELSE OpenReturns
    /\ UNCHANGED <<events, network, stage, login, whitelistedProjects,
                   unmount, faults>>

\* append writes what it has read before.
AppendProject ==
    /\ stage # "ended" /\ main = "append"
    /\ whitelistedProjects' = old \cup {opening}
    /\ main' = "header"
    /\ old' = {}
    /\ Send("main", "header", opening)
    /\ UNCHANGED <<events, network, stage, login, opening, busy, unmount,
                   faults>>

HeaderReturned ==
    /\ main = "header" /\ Replied("main", "header")
    /\ OpenReturns
    /\ UNCHANGED <<events, network, stage, login, whitelistedProjects,
                   unmount, faults>>

Close ==
    /\ stage = "mounted" /\ busy
    /\ busy' = FALSE
    /\ UNCHANGED <<events, network, request, stage, login,
                   whitelistedProjects, main, opening, old, unmount, faults>>

-----------------------------------------------------------------------------
(* Ctrl+C: UnmountFilesystem *)

\* range reads the slice once.
Interrupt ==
    /\ stage = "mounted" /\ signals = "idle"
    /\ main # "idle" => "openWhileDeleting" \in events
    /\ signals' = "delete"
    /\ todo' = whitelistedProjects
    /\ UNCHANGED <<events, network, request, stage, login,
                   whitelistedProjects, fuse, faults>>

DeleteKey(project) ==
    /\ stage # "ended" /\ signals = "delete" /\ request["signals"] = NoRequest
    /\ project \in todo
    /\ Send("signals", "delete", project)
    /\ UNCHANGED <<events, network, stage, login, whitelistedProjects, fuse,
                   unmount, faults>>

\* A key that could not be deleted is logged and forgotten.
KeyDeleted ==
    /\ Replied("signals", "delete")
    /\ todo' = todo \ {request["signals"].project}
    /\ Done("signals")
    /\ UNCHANGED <<events, network, stage, login, whitelistedProjects, fuse,
                   signals, faults>>

AllDeleted ==
    signals = "delete" /\ todo = {} /\ request["signals"] = NoRequest

\* mutant: the list is kept
ForgetProjects_Kept ==
    /\ stage # "ended" /\ AllDeleted
    /\ signals' = "unmount"
    /\ UNCHANGED <<events, network, request, stage, login,
                   whitelistedProjects, fuse, todo, faults>>

ForgetProjects ==
    /\ stage # "ended" /\ AllDeleted
    /\ whitelistedProjects' = {}
    /\ signals' = "unmount"
    /\ UNCHANGED <<events, network, request, stage, login, fuse, todo, faults>>

\* The list is read or replaced while append writes it: its words may be
\* those of two lists, and the program crashes.
TornList ==
    /\ stage = "mounted" /\ main = "append"
    /\ "openWhileDeleting" \in events
    /\ signals = "idle" \/ AllDeleted
    /\ stage' = "ended"
    /\ faults' = faults \cup {"crashed"}
    /\ UNCHANGED <<events, network, request, login, whitelistedProjects, fuse,
                   unmount>>

\* fusermount3 refuses while the mount is used.
InUse == busy \/ main # "idle"

Unmount ==
    /\ stage # "ended" /\ signals = "unmount"
    /\ signals' = "idle"
    /\ stage' = IF stage = "mounted" /\ ~InUse THEN "unmounted" ELSE stage
    /\ UNCHANGED <<events, network, request, login, whitelistedProjects, fuse,
                   todo, faults>>

ExternalUnmount ==
    /\ stage = "mounted" /\ ~InUse
    /\ "unmountedOutside" \in events
    /\ stage' = "unmounted"
    /\ UNCHANGED <<events, network, request, login, whitelistedProjects, fuse,
                   unmount, faults>>

\* s3_destroy waits for the lock that the keys are deleted under.
ProgramEnds ==
    /\ stage = "unmounted" /\ signals # "delete"
    /\ stage' = "ended"
    /\ UNCHANGED <<events, network, request, login, whitelistedProjects, fuse,
                   unmount, faults>>

-----------------------------------------------------------------------------

Main ==
    \/ GetProfile \/ Authenticate \/ Whitelisted \/ AppendProject
    \/ HeaderReturned \/ ProgramEnds

Signals ==
    \/ \E project \in Projects : DeleteKey(project)
    \/ KeyDeleted \/ ForgetProjects \/ Unmount

User ==
    \/ AskForPassword \/ InterruptLogin \/ Close \/ Interrupt
    \/ \E project \in Projects : Open(project)

Next ==
    \/ \E t \in Threads : Attempt(t)
    \/ Main \/ Signals \/ User
    \/ Arrives \/ TornList \/ ExternalUnmount

Spec == Init /\ [][Next]_vars

\* The threads run; a request is answered or its deadline passes, after which
\* its attempts fail.  Nothing makes the user act or a late request arrive.
Fairness ==
    /\ WF_vars(Main) /\ WF_vars(Signals)
    /\ \A t \in Threads : WF_vars(Attempt(t))

FairSpec == Spec /\ Fairness

-----------------------------------------------------------------------------
(* Properties *)

\* The mount is there only for a user whom the profile or the password let in,
\* and no request carries a password that was refused.
LoggedIn ==
    /\ stage \in {"mounted", "unmounted"} => access \/ password = "right"
    /\ password = "wrong" => \/ stage = "ended"
                             \/ request["main"] # NoRequest

\* While nobody opens or deletes and none of these events can happen, the
\* program knows exactly the keys that are in Vault.
KeysAreKnown ==
    events = {} /\ main = "idle" /\ signals = "idle"
        => whitelistedProjects = vault

SessionInv == TypeOK /\ LoggedIn /\ KeysAreKnown

Leads ==
    [e \in Events |->
        CASE e = "openWhileDeleting" -> {"leaked", "refused", "crashed"}
          [] e = "delayed" -> {"leaked", "refused"}
          [] OTHER -> {"leaked"}]

Leaked == IF stage = "ended" /\ vault # {} THEN {"leaked"} ELSE {}

\* CHANGELOG.md:224: keys are valid until Data Gateway is shut down.  No key
\* outlives the program, no open file is refused its header for a key that was
\* deleted, and the list is not torn, unless an event that leads there may
\* happen.
FaultsHaveCauses ==
    faults \cup Leaked \subseteq UNION {Leads[e] : e \in events}

\* Whatever the network does, an open returns, which would block the whole
\* mount (-s), and so does Ctrl+C.
CallsReturn ==
    /\ main # "idle" ~> main = "idle" \/ stage = "ended"
    /\ signals # "idle" ~> signals = "idle" \/ stage = "ended"
=============================================================================
