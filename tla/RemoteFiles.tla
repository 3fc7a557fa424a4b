----------------------------- MODULE RemoteFiles -----------------------------
(***************************************************************************)
(* What the mount promises the readers of a bucket, without headers, sizes,*)
(* chunks and a cache: what a read is given is one upload of the file, and *)
(* one that was in storage at some time since the file was last refreshed. *)
(***************************************************************************)
CONSTANTS
    Files,     \* the files of the bucket
    Versions,  \* the uploads that may be made of a file
    None       \* no version: the file is not in storage

VARIABLES
    stored,     \* the version of each file in storage
    fresh,      \* those in storage since the file's last refresh began
    refreshed,  \* the files that are being refreshed
    since,      \* the versions in storage since that began
    answer      \* what a read is given: the file, and what its bytes are of

vars == <<stored, fresh, refreshed, since, answer>>

NoAnswer == <<>>
NoRefresh == [f \in Files |-> {}]

Init ==
    /\ stored \in [Files -> Versions]
    /\ fresh = [f \in Files |-> {stored[f]}]
    /\ refreshed = {} /\ since = NoRefresh
    /\ answer = NoAnswer

\* Other users upload and delete files at any time.
Put(f, v) ==
    /\ stored' = [stored EXCEPT ![f] = v]
    /\ fresh' = [fresh EXCEPT ![f] = @ \cup {v}]
    /\ since' = [since EXCEPT ![f] = IF @ = {} THEN @ ELSE @ \cup {v}]
    /\ UNCHANGED <<refreshed, answer>>

Answer(f) ==
    /\ answer = NoAnswer
    /\ \E v \in fresh[f] \ {None} : answer' = <<f, {v}>>
    /\ UNCHANGED <<stored, fresh, refreshed, since>>

Return ==
    /\ answer' = NoAnswer
    /\ UNCHANGED <<stored, fresh, refreshed, since>>

BeginRefresh ==
    /\ since = NoRefresh
    /\ refreshed' \subseteq Files
    /\ since' = [f \in Files |-> {stored[f]}]
    /\ UNCHANGED <<stored, fresh, answer>>

\* No read is under way when a refresh ends.
EndRefresh ==
    /\ answer = NoAnswer
    /\ fresh' = [f \in Files |-> IF f \in refreshed THEN since[f] ELSE fresh[f]]
    /\ refreshed' = {} /\ since' = NoRefresh
    /\ UNCHANGED <<stored, answer>>

\* All of the files are listed anew.
Update ==
    /\ answer = NoAnswer
    /\ fresh' = [f \in Files |-> {stored[f]}]
    /\ UNCHANGED <<stored, refreshed, since, answer>>

Next ==
    \/ Return \/ EndRefresh \/ Update \/ BeginRefresh
    \/ \E f \in Files : Answer(f) \/ \E v \in Versions \cup {None} : Put(f, v)

Spec == Init /\ [][Next]_vars
=============================================================================
