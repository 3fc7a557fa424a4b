---------------------------- MODULE SessionProofs ----------------------------
(* What a session of the CLI keeps in Session, for any set of projects and  *)
(* any number of attempts.                                                  *)
EXTENDS Session, TLAPS

-----------------------------------------------------------------------------
(* The inductive invariant *)

\* Each thread has the request of the place it is at, with attempts left as
\* long as there is no reply.
RequestsFit ==
    /\ \A t \in Threads :
        request[t].op # None /\ request[t].reply = None
            => request[t].count < httpRetry
    /\ \/ request["main"].op = None
       \/ request["main"].op = "profile" /\ main = "idle" /\ stage = "profile"
       \/ /\ request["main"].op = "password"
          /\ main = "idle" /\ stage \in {"login", "ended"}
       \/ request["main"].op = main
    /\ main # "idle" => opening \in Projects
    /\ main \in {"whitelist", "header"} =>
        /\ stage = "mounted"
        /\ request["main"].op = main /\ request["main"].project = opening
    /\ main = "append" => stage \in {"mounted", "ended"}
    /\ request["signals"].op \in {None, "delete"}
    /\ request["signals"].op = "delete" =>
        signals = "delete" /\ request["signals"].project \in todo

\* The password that a request carries, and who is let in.
PasswordFits ==
    /\ stage = "profile" => password = ""
    /\ stage = "login" =>
        IF request["main"].op = None
        THEN password = ""
        ELSE /\ password # ""
             /\ request["main"].reply = "ok" => password = "right"
    /\ stage \in {"mounted", "unmounted"} =>
        password # "wrong" /\ (access \/ password = "right")

\* Unless keys are deleted while a file is opened or requests come late, Vault
\* has the keys the program believes it to have.
BelievedKeysExist ==
    events \cap {"openWhileDeleting", "delayed"} = {} =>
        /\ late = {}
        /\ main # "idle" => signals # "delete"
        /\ signals # "delete" => whitelistedProjects \subseteq vault
        /\ main \in {"append", "header"} => opening \in vault
        /\ main = "whitelist" /\ request["main"].reply = "ok"
            => opening \in vault
        /\ main = "append" => old \subseteq vault
        /\ "refused" \notin faults

CrashHasCause ==
    "crashed" \in faults => "openWhileDeleting" \in events

\* Where opening a file or deleting the keys is, what Vault has is known.
KeysAccountedFor ==
    events = {} =>
        /\ \A t \in Threads : request[t].op \notin {None, "password"}
                                => request[t].reply \in {None, "ok"}
        /\ main # "idle" => signals = "idle"
        /\ stage # "mounted" =>
            vault = {} /\ whitelistedProjects = {} /\ signals = "idle"
        /\ signals = "idle" =>
            vault = IF \/ main = "append"
                       \/ main = "whitelist" /\ request["main"].reply = "ok"
                    THEN whitelistedProjects \cup {opening}
                    ELSE whitelistedProjects
        /\ main = "append" => old = whitelistedProjects
        /\ signals = "delete" =>
            vault = IF /\ request["signals"].op = "delete"
                       /\ request["signals"].reply = "ok"
                    THEN todo \ {request["signals"].project}
                    ELSE todo
        /\ signals = "unmount" => vault = {} /\ whitelistedProjects = {}

IInv == /\ TypeOK /\ RequestsFit /\ PasswordFits
        /\ BelievedKeysExist /\ CrashHasCause /\ KeysAccountedFor

-----------------------------------------------------------------------------
(* What the steps of makeRequest do to the requests *)

RequestsType == request \in [Threads -> {NoRequest} \cup Requests]

(* Every field of a request has its type, and only NoRequest has no reply   *)
(* field: the two are told apart by op.                                     *)
LEMMA RequestFields ==
  ASSUME RequestsType, NEW t \in Threads
  PROVE  /\ request[t] = NoRequest <=> request[t].op = None
         /\ request[t] # NoRequest => request[t] \in Requests
  BY DEF RequestsType, Requests, NoRequest, None

(* Done takes the request of one thread away.                               *)
LEMMA DoneValue ==
  ASSUME RequestsType, NEW t \in Threads, Done(t)
  PROVE  /\ RequestsType'
         /\ request'[t] = NoRequest
         /\ \A u \in Threads \ {t} : request'[u] = request[u]
  BY DEF RequestsType, Done

(* A failed attempt is counted, and the last one answers with an error.     *)
LEMMA RetryValue ==
  ASSUME RequestsType, SessionAssumption, NEW t \in Threads,
         request[t] # NoRequest, request[t].reply = None,
         request[t].count < httpRetry, Retry(t)
  PROVE  /\ RequestsType'
         /\ request'[t].op = request[t].op
         /\ request'[t].project = request[t].project
         /\ request'[t].reply \in {None, "error"}
         /\ request'[t].reply = None => request'[t].count < httpRetry
         /\ \A u \in Threads \ {t} : request'[u] = request[u]
<1>1. request[t] \in Requests
  BY RequestFields
<1>2. /\ request[t].count + 1 \in 0 .. httpRetry
      /\ ~(request[t].count + 1 >= httpRetry)
            => request[t].count + 1 < httpRetry
  BY <1>1 DEF Requests, SessionAssumption
<1>3. RequestsType'
  BY <1>1, <1>2 DEF Retry, RequestsType, Requests
<1>4. /\ request'[t].op = request[t].op
      /\ request'[t].project = request[t].project
      /\ request'[t].count = request[t].count + 1
      /\ request'[t].reply = IF request[t].count + 1 >= httpRetry
                             THEN "error" ELSE None
  BY <1>1 DEF Retry, RequestsType, Requests
<1>5. \A u \in Threads \ {t} : request'[u] = request[u]
  BY DEF Retry, RequestsType
<1>6. QED
  BY <1>2, <1>3, <1>4, <1>5 DEF None

(* An answer sets the reply and nothing else.                               *)
LEMMA ReplyValue ==
  ASSUME RequestsType, NEW t \in Threads, request[t] # NoRequest,
         NEW reply \in {"ok", "unauthorized", "error"},
         request' = [request EXCEPT ![t].reply = reply]
  PROVE  /\ RequestsType'
         /\ request'[t].op = request[t].op
         /\ request'[t].project = request[t].project
         /\ request'[t].reply = reply
         /\ \A u \in Threads \ {t} : request'[u] = request[u]
<1>1. request[t] \in Requests
  BY RequestFields
<1>2. RequestsType'
  BY <1>1 DEF RequestsType, Requests
<1>3. QED
  BY <1>1, <1>2 DEF RequestsType, Requests

(* When the deadline passes, neither the call nor its reply changes.        *)
LEMMA ExpiresValue ==
  ASSUME RequestsType, NEW t \in Threads, request[t] # NoRequest,
         request' = [request EXCEPT ![t].expired = TRUE]
  PROVE  /\ RequestsType'
         /\ request'[t].op = request[t].op
         /\ request'[t].project = request[t].project
         /\ request'[t].count = request[t].count
         /\ request'[t].reply = request[t].reply
         /\ \A u \in Threads \ {t} : request'[u] = request[u]
<1>1. request[t] \in Requests
  BY RequestFields
<1>2. RequestsType'
  BY <1>1 DEF RequestsType, Requests
<1>3. QED
  BY <1>1, <1>2 DEF RequestsType, Requests

(* What every attempt does to the call of its thread: the call is the same, *)
(* and unless there is a reply there are attempts left.                     *)
LEMMA AttemptValue ==
  ASSUME TypeOK, RequestsFit, NEW t \in Threads, Attempt(t)
  PROVE  /\ RequestsType'
         /\ stage # "ended"
         /\ request[t].op # None /\ request[t].reply = None
         /\ request'[t].op = request[t].op
         /\ request'[t].project = request[t].project
         /\ request'[t].reply = None => request'[t].count < httpRetry
         /\ \/ request'[t].reply \in {None, "error"}
            \/ Answered(t) /\ request'[t].reply = Reply(request[t])
         /\ \A u \in Threads \ {t} : request'[u] = request[u]
         /\ UNCHANGED <<events, stage, login, whitelistedProjects, fuse,
                        unmount>>
<1>1. RequestsType
  BY DEF TypeOK, RequestsType
<1>2. /\ stage # "ended" /\ request[t] # NoRequest /\ request[t].reply = None
      /\ request[t].op # None /\ request[t].count < httpRetry
  BY <1>1, RequestFields
  DEF RequestsFit, Attempt, Answered, AnsweredWithError, AnswerLost, Delayed,
      RequestLost, Expires, Waits
<1>3. CASE Answered(t)
  <2>1. Reply(request[t]) \in {"ok", "unauthorized", "error"}
    BY DEF Reply
  <2>2. request' = [request EXCEPT ![t].reply = Reply(request[t])]
    BY <1>3 DEF Answered
  <2>3. QED
    BY <1>1, <1>2, <1>3, <2>1, <2>2, ReplyValue DEF Answered, None
<1>4. CASE AnsweredWithError(t)
  BY <1>1, <1>2, <1>4, ReplyValue DEF AnsweredWithError, None
<1>5. CASE AnswerLost(t)
  BY <1>1, <1>2, <1>5, RetryValue, SessionAssumption DEF AnswerLost
<1>6. CASE Delayed(t)
  BY <1>1, <1>2, <1>6, RetryValue, SessionAssumption DEF Delayed
<1>7. CASE RequestLost(t)
  BY <1>1, <1>2, <1>7, RetryValue, SessionAssumption DEF RequestLost
<1>8. CASE Expires(t)
  BY <1>1, <1>2, <1>8, ExpiresValue DEF Expires
<1>9. QED
  BY <1>3, <1>4, <1>5, <1>6, <1>7, <1>8 DEF Attempt

(* A request about keys is about a project: of the file that is being       *)
(* opened, or of a key that is left to delete.                              *)
LEMMA ProjectFits ==
  ASSUME TypeOK, RequestsFit, NEW t \in Threads,
         request[t].op \in {"whitelist", "header", "delete"}
  PROVE  request[t].project \in Projects
<1>1. CASE t = "main"
  BY <1>1 DEF TypeOK, RequestsFit, None
<1>2. CASE t = "signals"
  BY <1>2 DEF TypeOK, RequestsFit, None
<1>3. QED
  BY <1>1, <1>2 DEF Threads

(* Vault whitelists keys of projects only.                                  *)
LEMMA CarryOutType ==
  ASSUME TypeOK, NEW op, NEW project,
         op \in {"whitelist", "delete"} => project \in Projects,
         CarryOut(op, project)
  PROVE  vault' \subseteq Projects
  BY DEF CarryOut, TypeOK

-----------------------------------------------------------------------------
(* The invariant, part by part *)

(* No attempt disturbs a type, or what main and signals wait for.           *)
LEMMA AttemptFits ==
  ASSUME TypeOK, RequestsFit, NEW t \in Threads, Attempt(t)
  PROVE  TypeOK' /\ RequestsFit'
<1>1. /\ RequestsType'
      /\ stage # "ended"
      /\ request[t].op # None /\ request[t].reply = None
      /\ request'[t].op = request[t].op
      /\ request'[t].project = request[t].project
      /\ request'[t].reply = None => request'[t].count < httpRetry
      /\ \A u \in Threads \ {t} : request'[u] = request[u]
      /\ UNCHANGED <<events, stage, login, whitelistedProjects, fuse, unmount>>
  BY AttemptValue
<1>2. request[t].op \in {"whitelist", "delete"}
          => request[t].project \in Projects
  BY ProjectFits
<1>3. vault' \subseteq Projects
  <2>1. CASE UNCHANGED vault
    BY <2>1 DEF TypeOK
  <2>2. CASE CarryOut(request[t].op, request[t].project)
    BY <1>2, <2>2, CarryOutType
  <2>3. QED
    BY <2>1, <2>2
    DEF Attempt, Answered, AnsweredWithError, AnswerLost, Delayed,
        RequestLost, Expires, network
<1>4. late' \subseteq {"whitelist", "delete"} \X Projects
  <2>1. CASE UNCHANGED late
    BY <2>1 DEF TypeOK
  <2>2. CASE Delayed(t)
    BY <1>2, <2>2 DEF TypeOK, Delayed
  <2>3. QED
    BY <2>1, <2>2
    DEF Attempt, Answered, AnsweredWithError, AnswerLost, Delayed,
        RequestLost, Expires, network
<1>5. faults' \subseteq {"refused", "crashed"}
  BY DEF TypeOK, Attempt, Answered, AnsweredWithError, AnswerLost, Delayed,
         RequestLost, Expires
<1>6. TypeOK'
  BY <1>1, <1>3, <1>4, <1>5
  DEF TypeOK, RequestsType, login, fuse, unmount
<1>7. RequestsFit'
  <2>1. \A u \in Threads : /\ request'[u].op = request[u].op
                           /\ request'[u].project = request[u].project
    BY <1>1
  <2>2. \A u \in Threads :
          request'[u].op # None /\ request'[u].reply = None
              => request'[u].count < httpRetry
    BY <1>1 DEF RequestsFit
  <2>3. QED
    BY <1>1, <2>1, <2>2 DEF RequestsFit, Threads, fuse, unmount
<1>8. QED
  BY <1>6, <1>7

(* The requests of the login are not about a project.                       *)
LEMMA NothingAsked ==
  ASSUME SessionAssumption
  PROVE  /\ 0 < httpRetry
         /\ \A op \in {"profile", "password"} :
                [op |-> op, project |-> None, count |-> 0,
                 expired |-> FALSE, reply |-> None] \in Requests
  BY DEF Requests, SessionAssumption

(* Nor does any other step.                                                 *)
LEMMA StepFits ==
  ASSUME TypeOK, RequestsFit, SessionAssumption, [Next]_vars
  PROVE  TypeOK' /\ RequestsFit'
<1>0. RequestsType
  BY DEF TypeOK, RequestsType
<1>a. /\ "main" \in Threads /\ "signals" \in Threads
      /\ \A t \in Threads : request[t] = NoRequest <=> request[t].op = None
      /\ NoRequest.op = None
  BY <1>0, RequestFields DEF Threads, NoRequest
<1>1. CASE \E t \in Threads : Attempt(t)
  BY <1>1, AttemptFits
<1>2. CASE Arrives
  <2>1. PICK l \in late : CarryOut(l[1], l[2]) /\ late' = late \ {l}
    BY <1>2 DEF Arrives
  <2>2. l \in {"whitelist", "delete"} \X Projects
    BY DEF TypeOK
  <2>3. vault' \subseteq Projects
    BY <2>1, <2>2, CarryOutType
  <2>4. QED
    BY <1>2, <2>1, <2>3
    DEF Arrives, TypeOK, RequestsFit, RequestsType, None, Threads, NoRequest,
        login, fuse, unmount
<1>3. CASE GetProfile
  <2>1. CASE request["main"] = NoRequest
    <3>0. Send("main", "profile", None)
      BY <1>3, <2>1 DEF GetProfile, Replied
    <3>1. /\ RequestsType'
          /\ request'["main"].op = "profile" /\ request'["main"].project = None
          /\ request'["main"].count < httpRetry /\ request'["main"].reply = None
          /\ request'["signals"] = request["signals"]
      BY <1>0, <3>0, NothingAsked DEF Threads, Send, RequestsType
    <3>2. QED
      BY <1>0, <1>a, <1>3, <2>1, <3>1
      DEF GetProfile, Replied, TypeOK, RequestsFit, RequestsType, None,
          Threads, NoRequest, network, login, fuse, unmount
  <2>2. CASE request["main"] # NoRequest
    BY <1>0, <1>a, <1>3, <2>2, DoneValue
    DEF GetProfile, Replied, TypeOK, RequestsFit, RequestsType, None,
        Threads, NoRequest, network, login, fuse, unmount
  <2>3. QED
    BY <1>3, <2>1, <2>2 DEF GetProfile
<1>4. CASE AskForPassword
  <2>1. /\ RequestsType'
        /\ request'["main"].op = "password" /\ request'["main"].project = None
        /\ request'["main"].count < httpRetry /\ request'["main"].reply = None
        /\ request'["signals"] = request["signals"]
    BY <1>0, <1>4, NothingAsked
    DEF AskForPassword, Threads, Send, RequestsType
  <2>2. QED
    BY <1>0, <1>a, <1>4, <2>1
    DEF AskForPassword, Passwords, TypeOK, RequestsFit, RequestsType, None,
        Threads, NoRequest, network, login, fuse, unmount
<1>5. CASE Authenticate
  BY <1>0, <1>a, <1>5, DoneValue
  DEF Authenticate, Replied, Passwords, TypeOK, RequestsFit, RequestsType,
      None, Threads, NoRequest, network, login, fuse, unmount
<1>6. CASE InterruptLogin
  BY <1>0, <1>a, <1>6
  DEF InterruptLogin, TypeOK, RequestsFit, RequestsType, None, Threads,
      NoRequest, network, login, fuse, unmount
<1>7. CASE Close
  BY <1>0, <1>a, <1>7
  DEF Close, TypeOK, RequestsFit, RequestsType, None, Threads, NoRequest,
      network, login, fuse, unmount
<1>8. CASE Interrupt
  BY <1>0, <1>a, <1>8
  DEF Interrupt, TypeOK, RequestsFit, RequestsType, None, Threads, NoRequest,
      network, login, fuse, unmount
<1>9. CASE \E project \in Projects : Open(project)
  <2>1. PICK project \in Projects : Open(project)
    BY <1>9
  <2>2. /\ RequestsType'
        /\ request'["main"].op = main' /\ request'["main"].project = project
        /\ request'["main"].count < httpRetry /\ request'["main"].reply = None
        /\ request'["signals"] = request["signals"]
    BY <1>0, <2>1
    DEF Open, Threads, Send, RequestsType, SessionAssumption, Requests,
        NoRequest
  <2>3. QED
    BY <1>0, <1>a, <2>1, <2>2
    DEF Open, TypeOK, RequestsFit, RequestsType, None, Threads,
        NoRequest, network, login, fuse, unmount
<1>10. CASE Whitelisted
  BY <1>0, <1>a, <1>10, DoneValue
  DEF Whitelisted, Replied, OpenReturns, TypeOK, RequestsFit, RequestsType,
      None, Threads, NoRequest, network, login, fuse, unmount
<1>11. CASE AppendProject
  <2>1. /\ RequestsType'
        /\ request'["main"].op = "header" /\ request'["main"].project = opening
        /\ request'["main"].count < httpRetry /\ request'["main"].reply = None
        /\ request'["signals"] = request["signals"]
    BY <1>0, <1>11
    DEF AppendProject, RequestsFit, Threads, Send, RequestsType,
        SessionAssumption, Requests, NoRequest
  <2>2. QED
    BY <1>0, <1>a, <1>11, <2>1
    DEF AppendProject, TypeOK, RequestsFit, RequestsType, None, Threads,
        NoRequest, network, login, fuse, unmount
<1>12. CASE HeaderReturned
  BY <1>0, <1>a, <1>12, DoneValue
  DEF HeaderReturned, Replied, OpenReturns, TypeOK, RequestsFit, RequestsType,
      None, Threads, NoRequest, network, login, fuse, unmount
<1>13. CASE \E project \in Projects : DeleteKey(project)
  <2>1. PICK project \in Projects : DeleteKey(project)
    BY <1>13
  <2>2. /\ RequestsType'
        /\ request'["signals"].op = "delete"
        /\ request'["signals"].project = project
        /\ request'["signals"].count < httpRetry
        /\ request'["signals"].reply = None
        /\ request'["main"] = request["main"]
    BY <1>0, <2>1
    DEF DeleteKey, Threads, Send, RequestsType, SessionAssumption, Requests,
        NoRequest
  <2>3. QED
    BY <1>0, <1>a, <2>1, <2>2
    DEF DeleteKey, TypeOK, RequestsFit, RequestsType, None, Threads,
        NoRequest, network, login, fuse, unmount
<1>14. CASE KeyDeleted
  BY <1>0, <1>a, <1>14, DoneValue
  DEF KeyDeleted, Replied, TypeOK, RequestsFit, RequestsType, None, Threads,
      NoRequest, network, login, fuse, unmount
<1>15. CASE ForgetProjects
  BY <1>0, <1>a, <1>15
  DEF ForgetProjects, AllDeleted, TypeOK, RequestsFit, RequestsType, None,
      Threads, NoRequest, network, login, fuse, unmount
<1>16. CASE TornList
  BY <1>0, <1>a, <1>16
  DEF TornList, AllDeleted, TypeOK, RequestsFit, RequestsType, None, Threads,
      NoRequest, network, login, fuse, unmount
<1>17. CASE Unmount
  BY <1>0, <1>a, <1>17
  DEF Unmount, InUse, TypeOK, RequestsFit, RequestsType, None, Threads,
      NoRequest, network, login, fuse, unmount
<1>18. CASE ExternalUnmount
  BY <1>0, <1>a, <1>18
  DEF ExternalUnmount, InUse, TypeOK, RequestsFit, RequestsType, None,
      Threads, NoRequest, network, login, fuse, unmount
<1>19. CASE ProgramEnds
  BY <1>0, <1>a, <1>19
  DEF ProgramEnds, TypeOK, RequestsFit, RequestsType, None, Threads, NoRequest,
      network, login, fuse, unmount
<1>20. CASE UNCHANGED vars
  BY <1>0, <1>a, <1>20
  DEF vars, TypeOK, RequestsFit, RequestsType, None, Threads, NoRequest,
      network, login, fuse, unmount
<1>21. QED
  BY <1>1, <1>2, <1>3, <1>4, <1>5, <1>6, <1>7, <1>8, <1>9, <1>10, <1>11,
     <1>12, <1>13, <1>14, <1>15, <1>16, <1>17, <1>18, <1>19, <1>20
  DEF Next, Main, Signals, User

(* The password of a request is the one that was typed or is set, and only  *)
(* the right one is answered with ok.                                       *)
LEMMA StepPassword ==
  ASSUME TypeOK, RequestsFit, PasswordFits, SessionAssumption, [Next]_vars
  PROVE  PasswordFits'
<1>0. /\ RequestsType
      /\ "main" \in Threads /\ "signals" \in Threads
      /\ request["main"] = NoRequest <=> request["main"].op = None
      /\ NoRequest.op = None
  BY RequestFields DEF TypeOK, RequestsType, Threads, NoRequest
<1>1. CASE \E t \in Threads : Attempt(t)
  <2>1. PICK t \in Threads : Attempt(t)
    BY <1>1
  <2>2. /\ stage # "ended"
        /\ request[t].op # None /\ request[t].reply = None
        /\ request'[t].op = request[t].op
        /\ \A u \in Threads \ {t} : request'[u] = request[u]
        /\ UNCHANGED <<stage, access, variable, password>>
    BY <2>1, AttemptValue DEF login
  <2>3. CASE t = "signals"
    BY <2>2, <2>3, <1>0 DEF PasswordFits
  <2>4. CASE t = "main"
    <3>1. SUFFICES ASSUME stage = "login", request'["main"].reply = "ok"
                   PROVE  password = "right"
      BY <2>2, <2>4, <3>1 DEF PasswordFits
    <3>2. request["main"].op = "password"
      <4>1. request["main"].op \notin {"idle", "append"}
        BY <1>0, <2>2, <2>4, RequestFields DEF Requests, NoRequest
      <4>2. QED
        BY <2>2, <2>4, <3>1, <4>1 DEF RequestsFit, TypeOK
    <3>3. request'["main"].reply \in {Reply(request["main"]), "error", None}
      BY <2>1, <2>4, AttemptValue
    <3>4. password # "wrong"
      BY <3>1, <3>2, <3>3 DEF Reply, None
    <3>5. QED
      BY <3>1, <3>2, <3>4 DEF PasswordFits, TypeOK, Passwords, None
  <2>5. QED
    BY <2>3, <2>4 DEF Threads
<1>2. CASE GetProfile
  BY <1>0, <1>2
  DEF GetProfile, Replied, PasswordFits, Done, RequestsType, login, None
<1>3. CASE AskForPassword
  <2>1. /\ request'["main"].op = "password" /\ request'["main"].reply = None
        /\ password' # ""
        /\ stage' = "login"
    BY <1>0, <1>3, NothingAsked
    DEF AskForPassword, Send, RequestsType, TypeOK, Passwords
  <2>2. QED
    BY <2>1 DEF PasswordFits, None
<1>4. CASE Authenticate
  BY <1>0, <1>4
  DEF Authenticate, Replied, PasswordFits, Done, RequestsType, TypeOK,
      Passwords, None
<1>5. CASE \/ InterruptLogin \/ Close \/ Interrupt \/ ForgetProjects
           \/ TornList \/ Arrives
  BY <1>5
  DEF InterruptLogin, Close, Interrupt, ForgetProjects, TornList, Arrives,
      PasswordFits, login
<1>6. CASE Unmount \/ ExternalUnmount \/ ProgramEnds \/ UNCHANGED vars
  BY <1>6
  DEF Unmount, ExternalUnmount, ProgramEnds, vars, PasswordFits, login
<1>7. CASE \E project \in Projects : Open(project) \/ DeleteKey(project)
  <2>1. PICK project \in Projects : Open(project) \/ DeleteKey(project)
    BY <1>7
  <2>2. CASE Open(project)
    BY <2>2 DEF Open, PasswordFits, login
  <2>3. CASE DeleteKey(project)
    BY <1>0, <2>3 DEF DeleteKey, Send, RequestsType, PasswordFits, login
  <2>4. QED
    BY <2>1, <2>2, <2>3
<1>8. CASE Whitelisted \/ AppendProject \/ HeaderReturned
  BY <1>8
  DEF Whitelisted, AppendProject, HeaderReturned, RequestsFit, PasswordFits,
      login
<1>9. CASE KeyDeleted
  BY <1>0, <1>9 DEF KeyDeleted, Done, RequestsType, PasswordFits, login
<1>10. QED
  BY <1>1, <1>2, <1>3, <1>4, <1>5, <1>6, <1>7, <1>8, <1>9
  DEF Next, Main, Signals, User

(* Only the opening of a file that the deletion of the keys meets crashes.  *)
LEMMA StepCrash ==
  ASSUME CrashHasCause, [Next]_vars
  PROVE  CrashHasCause'
<1>1. CASE \E t \in Threads : Attempt(t)
  BY <1>1
  DEF Attempt, Answered, AnsweredWithError, AnswerLost, Delayed, RequestLost,
      Expires, CrashHasCause
<1>2. CASE Main
  BY <1>2
  DEF Main, GetProfile, Authenticate, Whitelisted, AppendProject,
      HeaderReturned, ProgramEnds, CrashHasCause
<1>3. CASE Signals
  BY <1>3
  DEF Signals, DeleteKey, KeyDeleted, ForgetProjects, Unmount, CrashHasCause
<1>4. CASE User
  BY <1>4
  DEF User, AskForPassword, InterruptLogin, Close, Interrupt, Open,
      CrashHasCause
<1>5. CASE Arrives \/ TornList \/ ExternalUnmount \/ UNCHANGED vars
  BY <1>5 DEF Arrives, TornList, ExternalUnmount, vars, CrashHasCause
<1>6. QED
  BY <1>1, <1>2, <1>3, <1>4, <1>5 DEF Next

(* What may happen in a behaviour is settled at its start.                  *)
LEMMA EventsStay ==
  ASSUME [Next]_vars
  PROVE  events' = events
  BY DEF Next, Main, Signals, User, Attempt, vars, Answered,
         AnsweredWithError, AnswerLost, Delayed, RequestLost, Expires,
         Arrives, GetProfile, AskForPassword, Authenticate, InterruptLogin,
         Open, Whitelisted, AppendProject, HeaderReturned, Close, Interrupt,
         DeleteKey, KeyDeleted, ForgetProjects, TornList, Unmount,
         ExternalUnmount, ProgramEnds

(* Keys that the program believes to be in Vault are there, as long as      *)
(* nothing that runs beside it or comes late takes them away.               *)
LEMMA StepBelieved ==
  ASSUME TypeOK, RequestsFit, BelievedKeysExist, [Next]_vars
  PROVE  BelievedKeysExist'
<1>0. /\ RequestsType
      /\ "main" \in Threads /\ "signals" \in Threads
      /\ request["main"] = NoRequest <=> request["main"].op = None
      /\ request["signals"] = NoRequest <=> request["signals"].op = None
  BY RequestFields DEF TypeOK, RequestsType, Threads
<1>a. events' = events
  BY EventsStay
<1> SUFFICES ASSUME events \cap {"openWhileDeleting", "delayed"} = {}
             PROVE  BelievedKeysExist'
  BY <1>a DEF BelievedKeysExist
<1> DEFINE Believed ==
        /\ late = {}
        /\ main # "idle" => signals # "delete"
        /\ signals # "delete" => whitelistedProjects \subseteq vault
        /\ main \in {"append", "header"} => opening \in vault
        /\ main = "whitelist" /\ request["main"].reply = "ok"
            => opening \in vault
        /\ main = "append" => old \subseteq vault
        /\ "refused" \notin faults
<1>b. Believed
  BY DEF BelievedKeysExist
<1> SUFFICES Believed'
  BY <1>a DEF BelievedKeysExist
<1>1. CASE \E t \in Threads : Attempt(t)
  <2>1. PICK t \in Threads : Attempt(t)
    BY <1>1
  <2>2. /\ request[t].op # None /\ request[t].reply = None
        /\ \A u \in Threads \ {t} : request'[u] = request[u]
        /\ UNCHANGED <<whitelistedProjects, main, opening, old, signals>>
    BY <2>1, AttemptValue DEF fuse, unmount
  <2>3. UNCHANGED late
    BY <2>1
    DEF Attempt, Answered, AnsweredWithError, AnswerLost, Delayed,
        RequestLost, Expires, network
  <2>4. \/ UNCHANGED vault
        \/ CarryOut(request[t].op, request[t].project)
    BY <2>1
    DEF Attempt, Answered, AnsweredWithError, AnswerLost, Delayed,
        RequestLost, Expires, network
  <2>5. CASE t = "signals"
    <3>1. request[t].op = "delete" /\ signals = "delete" /\ main = "idle"
      BY <2>2, <2>5, <1>b DEF RequestsFit
    <3>2. UNCHANGED faults
      BY <2>1, <3>1
      DEF Attempt, Answered, AnsweredWithError, AnswerLost, Delayed,
          RequestLost, Expires
    <3>3. QED
      BY <1>b, <2>2, <2>3, <3>1, <3>2
  <2>6. CASE t = "main"
    <3>1. request[t].op # "delete"
      BY <2>6 DEF RequestsFit, TypeOK, None
    <3>2. /\ request[t].op \in {"whitelist", "header"}
                => main = request[t].op /\ request[t].project = opening
          /\ main = "whitelist" => request[t].op = "whitelist"
      BY <2>6 DEF RequestsFit, None
    <3>3. vault \subseteq vault'
      BY <2>4, <3>1 DEF CarryOut
    <3>4. UNCHANGED faults
      BY <1>b, <2>1, <3>2
      DEF Attempt, Answered, AnsweredWithError, AnswerLost, Delayed,
          RequestLost, Expires
    <3>5. ASSUME main = "whitelist", request'[t].reply = "ok"
          PROVE  opening \in vault'
      <4>1. CASE Answered(t)
        BY <3>2, <3>5, <4>1 DEF Answered, CarryOut
      <4>2. CASE ~ Answered(t)
        BY <2>1, <3>5, <4>2, AttemptValue DEF None
      <4>3. QED
        BY <4>1, <4>2
    <3>6. QED
      BY <1>b, <2>2, <2>3, <2>6, <3>3, <3>4, <3>5
  <2>7. QED
    BY <2>5, <2>6 DEF Threads
<1>2. CASE \/ GetProfile \/ AskForPassword \/ Authenticate \/ InterruptLogin
  <2>1. main = "idle"
    BY <1>2
    DEF GetProfile, AskForPassword, Authenticate, InterruptLogin, RequestsFit,
        TypeOK
  <2>2. UNCHANGED <<network, whitelistedProjects, fuse, unmount, faults>>
    BY <1>2 DEF GetProfile, AskForPassword, Authenticate, InterruptLogin
  <2>3. QED
    BY <1>b, <2>1, <2>2 DEF network, fuse, unmount
<1>3. CASE \E project \in Projects : Open(project)
  <2>1. PICK project \in Projects : Open(project)
    BY <1>3
  <2>2. main' = "whitelist" => request'["main"].reply = None
    BY <1>0, <2>1 DEF Open, Send, RequestsType
  <2>3. QED
    BY <1>b, <2>1, <2>2 DEF Open, network, unmount, None
<1>4. CASE Whitelisted
  BY <1>b, <1>4
  DEF Whitelisted, OpenReturns, Replied, RequestsFit, network, unmount
<1>5. CASE AppendProject
  BY <1>b, <1>5 DEF AppendProject, network, unmount
<1>6. CASE HeaderReturned \/ Close
  BY <1>b, <1>6 DEF HeaderReturned, OpenReturns, Close, network, unmount
<1>7. CASE Interrupt
  BY <1>b, <1>7 DEF Interrupt, network, fuse
<1>8. CASE \E project \in Projects : DeleteKey(project)
  <2>1. PICK project \in Projects : DeleteKey(project)
    BY <1>8
  <2>2. request'["main"] = request["main"]
    BY <1>0, <2>1 DEF DeleteKey, Send, RequestsType
  <2>3. QED
    BY <1>b, <2>1, <2>2 DEF DeleteKey, network, fuse, unmount
<1>9. CASE KeyDeleted
  <2>1. request'["main"] = request["main"]
    BY <1>0, <1>9 DEF KeyDeleted, Done, RequestsType
  <2>2. QED
    BY <1>b, <1>9, <2>1 DEF KeyDeleted, network, fuse
<1>10. CASE ForgetProjects
  BY <1>b, <1>10 DEF ForgetProjects, AllDeleted, network, fuse
<1>11. CASE Unmount
  BY <1>b, <1>11 DEF Unmount, network, fuse
<1>12. CASE ExternalUnmount \/ ProgramEnds \/ UNCHANGED vars
  BY <1>b, <1>12
  DEF ExternalUnmount, ProgramEnds, vars, network, fuse, unmount
<1>13. CASE Arrives \/ TornList
  BY <1>b, <1>13 DEF Arrives, TornList
<1>14. QED
  BY <1>1, <1>2, <1>3, <1>4, <1>5, <1>6, <1>7, <1>8, <1>9, <1>10, <1>11,
     <1>12, <1>13
  DEF Next, Main, Signals, User

(* When nothing goes wrong, the keys in Vault are known at every step of an *)
(* open and of the deletion.                                                *)
LEMMA StepAccounted ==
  ASSUME TypeOK, RequestsFit, BelievedKeysExist, KeysAccountedFor, [Next]_vars
  PROVE  KeysAccountedFor'
<1>0. /\ RequestsType
      /\ "main" \in Threads /\ "signals" \in Threads
      /\ request["main"] = NoRequest <=> request["main"].op = None
      /\ request["signals"] = NoRequest <=> request["signals"].op = None
      /\ NoRequest.op = None
  BY RequestFields DEF TypeOK, RequestsType, Threads, NoRequest
<1>a. events' = events
  BY EventsStay
<1> SUFFICES ASSUME events = {}
             PROVE  KeysAccountedFor'
  BY <1>a DEF KeysAccountedFor
<1> DEFINE Accounted ==
        /\ \A t \in Threads : request[t].op \notin {None, "password"}
                                => request[t].reply \in {None, "ok"}
        /\ main # "idle" => signals = "idle"
        /\ stage # "mounted" =>
            vault = {} /\ whitelistedProjects = {} /\ signals = "idle"
        /\ signals = "idle" =>
            vault = IF \/ main = "append"
                       \/ main = "whitelist" /\ request["main"].reply = "ok"
                    THEN whitelistedProjects \cup {opening}
                    ELSE whitelistedProjects
        /\ main = "append" => old = whitelistedProjects
        /\ signals = "delete" =>
            vault = IF /\ request["signals"].op = "delete"
                       /\ request["signals"].reply = "ok"
                    THEN todo \ {request["signals"].project}
                    ELSE todo
        /\ signals = "unmount" => vault = {} /\ whitelistedProjects = {}
<1>b. Accounted
  BY DEF KeysAccountedFor
<1> SUFFICES Accounted'
  BY <1>a DEF KeysAccountedFor
<1>c. late = {} /\ (main = "header" => opening \in vault)
  BY DEF BelievedKeysExist
<1>1. CASE \E t \in Threads : Attempt(t)
  <2>1. PICK t \in Threads : Attempt(t)
    BY <1>1
  <2>2. Answered(t)
    BY <2>1
    DEF Attempt, AnsweredWithError, AnswerLost, Delayed, RequestLost, Expires
  <2>3. /\ request[t].op # None /\ request[t].reply = None
        /\ request'[t].op = request[t].op
        /\ request'[t].project = request[t].project
        /\ \A u \in Threads \ {t} : request'[u] = request[u]
        /\ UNCHANGED <<stage, whitelistedProjects, main, opening, old,
                       signals, todo>>
    BY <2>1, AttemptValue DEF fuse, unmount
  <2>4. /\ CarryOut(request[t].op, request[t].project)
        /\ request'[t].reply = Reply(request[t])
    <3>1. request[t] \in Requests
      BY <1>0, <2>3, RequestFields DEF NoRequest
    <3>2. QED
      BY <1>0, <2>2, <3>1 DEF Answered, RequestsType, Requests
  <2>5. CASE t = "signals"
    <3>1. /\ request[t].op = "delete" /\ signals = "delete"
          /\ request[t].project \in todo
      BY <2>3, <2>5 DEF RequestsFit
    <3>2. main = "idle" /\ stage = "mounted"
      BY <1>b, <3>1
    <3>3. request'[t].reply = "ok"
      BY <2>4, <3>1 DEF Reply
    <3>4. vault' = vault \ {request[t].project}
      BY <2>4, <3>1 DEF CarryOut
    <3>5. vault = todo
      BY <1>b, <2>3, <2>5, <3>1 DEF None
    <3>6. QED
      BY <1>b, <2>3, <2>5, <3>1, <3>2, <3>3, <3>4, <3>5 DEF Threads
  <2>6. CASE t = "main"
    <3>1. request[t].op # "delete"
      BY <2>6 DEF RequestsFit, TypeOK, None
    <3>2. /\ request[t].op \in {"whitelist", "header"}
                => main = request[t].op /\ request[t].project = opening
          /\ main \in {"whitelist", "header"} => /\ request[t].op = main
                                                 /\ stage = "mounted"
      BY <2>6 DEF RequestsFit, None
    <3>3. request[t].op # "password" => request'[t].reply = "ok"
      BY <1>c, <2>4, <3>2 DEF Reply
    <3>4. CASE main = "whitelist"
      <4>1. request'[t].reply = "ok"
        BY <2>4, <3>2, <3>4 DEF Reply
      <4>2. vault' = vault \cup {opening}
        BY <2>4, <3>2, <3>4 DEF CarryOut
      <4>3. vault = whitelistedProjects /\ stage = "mounted"
        BY <1>b, <2>3, <2>6, <3>2, <3>4 DEF None
      <4>4. QED
        BY <1>b, <2>3, <2>6, <3>3, <3>4, <4>1, <4>2, <4>3 DEF Threads
    <3>5. CASE main # "whitelist"
      <4>1. vault' = vault
        BY <2>4, <3>1, <3>2, <3>5 DEF CarryOut
      <4>2. QED
        BY <1>b, <2>3, <2>6, <3>3, <3>5, <4>1 DEF Threads
    <3>6. QED
      BY <3>4, <3>5
  <2>7. QED
    BY <2>5, <2>6 DEF Threads
<1>2. CASE GetProfile \/ AskForPassword \/ Authenticate \/ InterruptLogin
  <2>1. /\ main = "idle" /\ signals = "idle" /\ stage # "mounted"
        /\ request["signals"].op = None
    BY <1>2, <1>b
    DEF GetProfile, AskForPassword, Authenticate, InterruptLogin, RequestsFit,
        TypeOK, None
  <2>2. UNCHANGED <<network, whitelistedProjects, fuse, unmount>>
    BY <1>2 DEF GetProfile, AskForPassword, Authenticate, InterruptLogin
  <2>3. /\ request'["signals"] = request["signals"]
        /\ request'["main"].op \notin {None, "password"}
              => request'["main"].reply \in {None, "ok"}
    <3>1. CASE GetProfile
      BY <1>0, <3>1 DEF GetProfile, Send, Done, RequestsType, None
    <3>2. CASE AskForPassword
      BY <1>0, <3>2 DEF AskForPassword, Send, RequestsType, None
    <3>3. CASE Authenticate
      BY <1>0, <3>3 DEF Authenticate, Done, RequestsType, None
    <3>4. CASE InterruptLogin
      BY <1>0, <1>b, <3>4 DEF InterruptLogin
    <3>5. QED
      BY <1>2, <3>1, <3>2, <3>3, <3>4
  <2>4. QED
    BY <1>b, <2>1, <2>2, <2>3 DEF network, fuse, unmount, Threads
<1>3. CASE \E project \in Projects : Open(project)
  <2>1. PICK project \in Projects : Open(project)
    BY <1>3
  <2>2. /\ request'["main"].reply = None
        /\ request'["signals"] = request["signals"]
    BY <1>0, <2>1 DEF Open, Send, RequestsType
  <2>3. main = "idle" /\ signals = "idle" /\ stage = "mounted"
    BY <2>1 DEF Open, TypeOK
  <2>4. QED
    BY <1>b, <2>1, <2>2, <2>3 DEF Open, network, unmount, None, Threads
<1>4. CASE Whitelisted
  <2>1. /\ main = "whitelist" /\ request["main"].op = "whitelist"
        /\ request["main"].reply # None
    BY <1>4 DEF Whitelisted, Replied
  <2>2. signals = "idle" /\ stage = "mounted"
    BY <1>b, <2>1 DEF RequestsFit
  <2>3. /\ request'["main"].op = None
        /\ request'["signals"] = request["signals"]
    BY <1>0, <1>4 DEF Whitelisted, OpenReturns, Done, RequestsType
  <2>4. CASE request["main"].reply = "ok"
    BY <1>b, <1>4, <2>1, <2>2, <2>3, <2>4
    DEF Whitelisted, network, unmount, Threads
  <2>5. CASE request["main"].reply # "ok"
    BY <1>b, <1>4, <2>1, <2>2, <2>3, <2>5
    DEF Whitelisted, OpenReturns, network, unmount, Threads
  <2>6. QED
    BY <2>4, <2>5
<1>5. CASE AppendProject
  <2>1. /\ request'["main"].reply = None
        /\ request'["signals"] = request["signals"]
    BY <1>0, <1>5 DEF AppendProject, Send, RequestsType
  <2>2. QED
    BY <1>b, <1>5, <2>1
    DEF AppendProject, network, unmount, None, Threads
<1>6. CASE HeaderReturned
  <2>1. /\ request'["main"].op = None
        /\ request'["signals"] = request["signals"]
    BY <1>0, <1>6 DEF HeaderReturned, OpenReturns, Done, RequestsType
  <2>2. QED
    BY <1>b, <1>6, <2>1
    DEF HeaderReturned, OpenReturns, network, unmount, Threads
<1>7. CASE Close
  BY <1>b, <1>7 DEF Close, network, unmount
<1>8. CASE Interrupt
  <2>1. request["signals"].op # "delete"
    BY <1>8 DEF Interrupt, RequestsFit
  <2>2. QED
    BY <1>b, <1>8, <2>1 DEF Interrupt, network, fuse
<1>9. CASE \E project \in Projects : DeleteKey(project)
  <2>1. PICK project \in Projects : DeleteKey(project)
    BY <1>9
  <2>2. /\ request'["signals"].reply = None
        /\ request'["main"] = request["main"]
    BY <1>0, <2>1 DEF DeleteKey, Send, RequestsType
  <2>3. request["signals"].op = None /\ signals = "delete"
    BY <1>0, <2>1 DEF DeleteKey
  <2>4. QED
    BY <1>b, <2>1, <2>2, <2>3
    DEF DeleteKey, network, fuse, unmount, None, Threads
<1>10. CASE KeyDeleted
  <2>1. /\ request'["signals"].op = None
        /\ request'["main"] = request["main"]
    BY <1>0, <1>10 DEF KeyDeleted, Done, RequestsType
  <2>2. /\ signals = "delete" /\ request["signals"].op = "delete"
        /\ request["signals"].reply # None
    BY <1>10 DEF KeyDeleted, Replied, RequestsFit
  <2>3. request["signals"].reply = "ok"
    <3>1. request["signals"].op \notin {None, "password"}
      BY <2>2 DEF None
    <3>2. request["signals"].reply \in {None, "ok"}
      BY <1>0, <1>b, <3>1
    <3>3. QED
      BY <2>2, <3>2
  <2>4. QED
    BY <1>b, <1>10, <2>1, <2>2, <2>3
    DEF KeyDeleted, network, fuse, Threads, None
<1>11. CASE ForgetProjects
  BY <1>0, <1>b, <1>11 DEF ForgetProjects, AllDeleted, network, fuse, None
<1>12. CASE Unmount
  BY <1>b, <1>12 DEF Unmount, InUse, network, fuse
<1>13. CASE ExternalUnmount \/ ProgramEnds
  BY <1>b, <1>13
  DEF ExternalUnmount, ProgramEnds, network, fuse, unmount
<1>14. CASE Arrives \/ TornList \/ UNCHANGED vars
  BY <1>b, <1>c, <1>14
  DEF Arrives, TornList, vars, network, fuse, unmount
<1>15. QED
  BY <1>1, <1>2, <1>3, <1>4, <1>5, <1>6, <1>7, <1>8, <1>9, <1>10, <1>11,
     <1>12, <1>13, <1>14
  DEF Next, Main, Signals, User

-----------------------------------------------------------------------------
(* The theorems *)

(* The CLI starts with nothing asked for and nothing whitelisted.           *)
LEMMA InitInv == Init => IInv
<1> SUFFICES ASSUME Init
             PROVE  IInv
  OBVIOUS
<1>1. TypeOK
  BY DEF Init, TypeOK, Passwords
<1>2. \A t \in Threads : request[t].op = None
  BY DEF Init, NoRequest
<1>3. RequestsFit /\ PasswordFits
  BY <1>2 DEF Init, RequestsFit, PasswordFits, Threads, None
<1>4. BelievedKeysExist /\ CrashHasCause /\ KeysAccountedFor
  BY <1>2 DEF Init, BelievedKeysExist, CrashHasCause, KeysAccountedFor
<1>5. QED
  BY <1>1, <1>3, <1>4 DEF IInv

(* The invariant holds in every session.                                    *)
THEOREM Inductive == Spec => []IInv
<1>1. IInv /\ [Next]_vars => IInv'
  BY StepFits, StepPassword, StepBelieved, StepCrash, StepAccounted,
     SessionAssumption
  DEF IInv
<1>2. QED
  BY InitInv, <1>1, PTL DEF Spec

(* The mount is there only for a user whom the profile or the password let  *)
(* in; no request carries a refused password; and while nothing goes wrong  *)
(* and nobody opens a file or deletes keys, whitelistedProjects is what is  *)
(* in Vault.                                                                *)
THEOREM SessionInvariant == Spec => []SessionInv
<1>1. IInv => SessionInv
  <2> SUFFICES ASSUME IInv
               PROVE  SessionInv
    OBVIOUS
  <2>1. "main" \in Threads /\ NoRequest.op = None
    BY DEF Threads, NoRequest
  <2>2. LoggedIn
    BY <2>1 DEF IInv, TypeOK, PasswordFits, LoggedIn
  <2>3. KeysAreKnown
    BY DEF IInv, KeysAccountedFor, KeysAreKnown
  <2>4. QED
    BY <2>2, <2>3 DEF IInv, SessionInv
<1>2. QED
  BY Inductive, <1>1, PTL

(* No key outlives the program, no open is refused its header, and the list *)
(* is not torn, unless an event that leads there may happen: for any        *)
(* projects, any number of attempts and any combination of events.          *)
THEOREM Causes == Spec => []FaultsHaveCauses
<1>1. IInv => FaultsHaveCauses
  <2> SUFFICES ASSUME IInv
               PROVE  FaultsHaveCauses
    OBVIOUS
  <2> DEFINE Led == UNION {Leads[e] : e \in events}
  <2>1. /\ events \subseteq Events
        /\ faults \subseteq {"refused", "crashed"}
    BY DEF IInv, TypeOK
  <2>2. \A e \in events : Leads[e] \subseteq Led
    OBVIOUS
  <2>3. "crashed" \in faults => "crashed" \in Led
    <3>1. "crashed" \in faults => "openWhileDeleting" \in events
      BY DEF IInv, CrashHasCause
    <3>2. "crashed" \in Leads["openWhileDeleting"]
      BY DEF Leads, Events
    <3>3. QED
      BY <2>2, <3>1, <3>2
  <2>4. "refused" \in faults => "refused" \in Led
    <3>1. "refused" \in faults
              => "openWhileDeleting" \in events \/ "delayed" \in events
      BY DEF IInv, BelievedKeysExist
    <3>2. /\ "refused" \in Leads["openWhileDeleting"]
          /\ "refused" \in Leads["delayed"]
      BY DEF Leads, Events
    <3>3. QED
      BY <2>2, <3>1, <3>2
  <2>5. Leaked # {} => "leaked" \in Led
    <3>1. Leaked # {} => events # {}
      BY DEF IInv, KeysAccountedFor, Leaked
    <3>2. \A e \in events : "leaked" \in Leads[e]
      BY <2>1 DEF Leads, Events
    <3>3. QED
      BY <2>2, <3>1, <3>2
  <2>6. Leaked \subseteq {"leaked"}
    BY DEF Leaked
  <2>7. QED
    BY <2>1, <2>3, <2>4, <2>5, <2>6 DEF FaultsHaveCauses
<1>2. QED
  BY Inductive, <1>1, PTL

=============================================================================
