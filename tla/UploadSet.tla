------------------------------ MODULE UploadSet ------------------------------
(***************************************************************************)
(* What airlock.Upload promises whoever calls it, without its goroutines,  *)
(* channels and pipes: each object is stored at most once, after its       *)
(* header, then gets one outcome and is left alone; the answer is nil only *)
(* when all of them succeeded, and nothing changes after it.               *)
(***************************************************************************)
EXTENDS Naturals

CONSTANTS
    Objects,    \* the objects of the set
    Findata     \* BOOLEAN: each of them goes to CESSNA too

VARIABLES
    answer,     \* of Upload: "none" yet, "ok" or "error"
    outcome,    \* of each object: "none" yet, "ok", "failed" or "skipped"
    object,     \* in SD Connect: "absent", "old", "part" or "full"
    header,     \* the header of this upload is in Vault
    mirror      \* the object is complete in CESSNA

vars == <<answer, outcome, object, header, mirror>>

Init ==
    /\ answer = "none"
    /\ outcome = [o \in Objects |-> "none"]
    /\ object \in [Objects -> {"absent", "old"}]
    /\ header = [o \in Objects |-> FALSE]
    /\ mirror = [o \in Objects |-> FALSE]

\* The upload of o is under way.
Pending(o) == answer = "none" /\ outcome[o] = "none"

PutHeader(o) ==
    /\ Pending(o) /\ ~header[o]
    /\ header' = [header EXCEPT ![o] = TRUE]
    /\ UNCHANGED <<answer, outcome, object, mirror>>

\* Only a project without a mirror may get a truncated object.
Store(o) ==
    /\ Pending(o) /\ header[o]
    /\ object[o] \in {"absent", "old"}
    /\ \E part \in {"full"} \cup (IF Findata THEN {} ELSE {"part"}) :
        object' = [object EXCEPT ![o] = part]
    /\ UNCHANGED <<answer, outcome, header, mirror>>

\* Only what failed without a mirror is deleted.
Delete(o) ==
    /\ Pending(o) /\ ~Findata
    /\ object' = [object EXCEPT ![o] = "absent"]
    /\ UNCHANGED <<answer, outcome, header, mirror>>

Mirror(o) ==
    /\ Pending(o) /\ Findata
    /\ mirror' = [mirror EXCEPT ![o] = TRUE]
    /\ UNCHANGED <<answer, outcome, object, header>>

Succeed(o) ==
    /\ Pending(o)
    /\ object[o] = "full" /\ header[o] /\ mirror[o] = Findata
    /\ outcome' = [outcome EXCEPT ![o] = "ok"]
    /\ UNCHANGED <<answer, object, header, mirror>>

Fail(o) ==
    /\ Pending(o)
    /\ outcome' = [outcome EXCEPT ![o] = "failed"]
    /\ UNCHANGED <<answer, object, header, mirror>>

\* Nothing of o was touched, and another object answers for that.
Skip(o) ==
    /\ Pending(o)
    /\ object[o] \in {"absent", "old"} /\ ~header[o] /\ ~mirror[o]
    /\ \E other \in Objects : outcome[other] = "failed"
    /\ outcome' = [outcome EXCEPT ![o] = "skipped"]
    /\ UNCHANGED <<answer, object, header, mirror>>

Answer ==
    /\ answer = "none"
    /\ \A o \in Objects : outcome[o] # "none"
    /\ answer' = IF \A o \in Objects : outcome[o] = "ok" THEN "ok" ELSE "error"
    /\ UNCHANGED <<outcome, object, header, mirror>>

\* The upload does not begin.
Refuse ==
    /\ answer = "none"
    /\ \A o \in Objects : outcome[o] = "none" /\ ~header[o] /\ ~mirror[o]
    /\ answer' = "error"
    /\ UNCHANGED <<outcome, object, header, mirror>>

Upload(o) == \/ PutHeader(o) \/ Store(o) \/ Delete(o) \/ Mirror(o)
             \/ Succeed(o) \/ Fail(o) \/ Skip(o)

Next == Answer \/ Refuse \/ \E o \in Objects : Upload(o)

Spec == Init /\ [][Next]_vars
=============================================================================
