---------------------------- MODULE AirlockUpload ----------------------------
(***************************************************************************)
(* airlock.Upload: a set of files is encrypted and streamed to SD Connect, *)
(* at most Routines of them at a time, and in a Findata project each one   *)
(* also goes unencrypted to CESSNA.                                        *)
(*                                                                         *)
(* Three goroutines work on one object: main (UploadObject, which in a     *)
(* Findata project runs uploadFindata itself), the writer (encrypt, or the *)
(* TeeReader of uploadFindata) and the uploader (uploadAllas). They meet   *)
(* at an io.Pipe, where a Write returns only when it has been read, and at *)
(* the buffered channels errc1 and errc2.                                  *)
(*                                                                         *)
(* The stream of a file is its header and Blocks encrypted blocks. The     *)
(* last block stays in the buffer of the Crypt4GHWriter until Close.       *)
(***************************************************************************)
EXTENDS Naturals, FiniteSets

CONSTANTS
    Objects,   \* the objects of the UploadSet
    Routines,  \* numRoutines: how many are uploaded at the same time
    Blocks,    \* encrypted blocks of a file
    Findata,   \* BOOLEAN: api.FindataUpload()
    Events     \* what may fail, see AllEvents

AllEvents == {"keyFails",     \* GetPublicKey
              "detailsFail",  \* the file cannot be opened, or is too large
              "fileFails",    \* a Read of the file, or NewCrypt4GHWriter
              "headerFails",  \* PostHeader
              "allasFails",   \* the upload to SD Connect
              "findataFails", \* the upload to CESSNA
              "deleteFails"}  \* DeleteObject

ASSUME UploadAssumption ==
    /\ IsFiniteSet(Objects)
    /\ Routines \in Nat \ {0}
    /\ Blocks \in Nat \ {0}
    /\ Findata \in BOOLEAN
    /\ Events \subseteq AllEvents

VARIABLES
    group,      \* Upload: fetching the key, running its goroutines, returned
    cancelled,  \* the errgroup's context is cancelled
    main,       \* UploadObject of each object
    writer,     \* the goroutine that encrypts it
    uploader,   \* the goroutine in uploadAllas
    pipe,       \* the write end: "open", "eof", or "error" (CloseWithError);
                \* the read end is closed exactly when the uploader is done
    sent,       \* encrypted blocks that went through the pipe
    errc1,      \* what uploadAllas sent to main: "none" yet, "nil" or "error"
    errc2,      \* what encrypt sent to main
    findataErr, \* what uploadFindata returned
    result,     \* what UploadObject returned
    allas,      \* the object in SD Connect; "old" is there before the upload
    vault,      \* the header in Vault is that of this upload
    cessna      \* the object is complete in CESSNA

procs == <<group, main, writer, uploader>>
errors == <<errc1, errc2, findataErr>>
stores == <<allas, vault, cessna>>
vars == <<group, cancelled, main, writer, uploader, pipe, sent,
          errc1, errc2, findataErr, result, allas, vault, cessna>>

Errors == {"none", "nil", "error"}

TypeOK ==
    /\ group \in {"key", "run", "ok", "error"}
    /\ cancelled \in BOOLEAN
    /\ main \in [Objects -> {"queued", "start", "stream", "err2", "delete",
                             "err1", "returned"}]
    /\ writer \in [Objects -> {"off", "header", "copy", "flush", "done"}]
    /\ uploader \in [Objects -> {"off", "header", "post", "body", "commit",
                                 "done"}]
    /\ pipe \in [Objects -> {"open", "eof", "error"}]
    /\ sent \in [Objects -> 0 .. Blocks]
    /\ errc1 \in [Objects -> Errors]
    /\ errc2 \in [Objects -> Errors]
    /\ findataErr \in [Objects -> Errors]
    /\ result \in [Objects -> {"none", "ok", "failed", "skipped"}]
    /\ allas \in [Objects -> {"absent", "old", "part", "full"}]
    /\ vault \in [Objects -> BOOLEAN]
    /\ cessna \in [Objects -> BOOLEAN]

Init ==
    /\ group = "key"
    /\ cancelled = FALSE
    /\ main = [o \in Objects |-> "queued"]
    /\ writer = [o \in Objects |-> "off"]
    /\ uploader = [o \in Objects |-> "off"]
    /\ pipe = [o \in Objects |-> "open"]
    /\ sent = [o \in Objects |-> 0]
    /\ errc1 = [o \in Objects |-> "none"]
    /\ errc2 = [o \in Objects |-> "none"]
    /\ findataErr = [o \in Objects |-> "none"]
    /\ result = [o \in Objects |-> "none"]
    /\ allas \in [Objects -> {"absent", "old"}]
    /\ vault = [o \in Objects |-> FALSE]
    /\ cessna = [o \in Objects |-> FALSE]

-----------------------------------------------------------------------------
(* Upload *)

GetPublicKey ==
    /\ group = "key"
    /\ group' \in {"run"} \cup (IF "keyFails" \in Events THEN {"error"} ELSE {})
    /\ UNCHANGED <<cancelled, main, writer, uploader, pipe, sent, errors,
                   result, stores>>

Running == {o \in Objects : main[o] \notin {"queued", "returned"}}

(* g.Go: blocks while Routines goroutines are running. The order of the     *)
(* files in the set makes no difference.                                    *)
Go(o) ==
    /\ group = "run"
    /\ main[o] = "queued"
    /\ Cardinality(Running) < Routines
    /\ main' = [main EXCEPT ![o] = "start"]
    /\ UNCHANGED <<group, cancelled, writer, uploader, pipe, sent, errors,
                   result, stores>>

Wait ==
    /\ group = "run"
    /\ \A o \in Objects : main[o] = "returned"
    /\ group' = IF \E o \in Objects : result[o] = "failed" THEN "error"
                ELSE "ok"
    /\ UNCHANGED <<cancelled, main, writer, uploader, pipe, sent, errors,
                   result, stores>>

-----------------------------------------------------------------------------
(* UploadObject *)

(* The first error makes the errgroup cancel the context of the others.     *)
Return(o, res) ==
    /\ main' = [main EXCEPT ![o] = "returned"]
    /\ result' = [result EXCEPT ![o] = res]
    /\ cancelled' = (cancelled \/ res = "failed")

SkipObject(o) ==
    /\ main[o] = "start"
    /\ cancelled
    /\ Return(o, "skipped")
    /\ UNCHANGED <<group, writer, uploader, pipe, sent, errors, stores>>

\* mutant: an unreadable file is passed over like a cancelled one
RejectFile_Skips(o) ==
    /\ main[o] = "start"
    /\ ~cancelled
    /\ "detailsFail" \in Events
    /\ Return(o, "skipped")
    /\ UNCHANGED <<group, writer, uploader, pipe, sent, errors, stores>>

RejectFile(o) ==
    /\ main[o] = "start"
    /\ ~cancelled
    /\ "detailsFail" \in Events
    /\ Return(o, "failed")
    /\ UNCHANGED <<group, writer, uploader, pipe, sent, errors, stores>>

\* mutant: nobody sends to errc2 in a Findata project
StartStreaming_SilentErrc2(o) ==
    /\ main[o] = "start"
    /\ ~cancelled
    /\ main' = [main EXCEPT ![o] = IF Findata THEN "stream" ELSE "err2"]
    /\ writer' = [writer EXCEPT ![o] = "header"]
    /\ uploader' = [uploader EXCEPT ![o] = "header"]
    /\ UNCHANGED <<group, cancelled, pipe, sent, errors, result, stores>>

(* In a Findata project nil is put in errc2 at once.                        *)
StartStreaming(o) ==
    /\ main[o] = "start"
    /\ ~cancelled
    /\ main' = [main EXCEPT ![o] = IF Findata THEN "stream" ELSE "err2"]
    /\ writer' = [writer EXCEPT ![o] = "header"]
    /\ uploader' = [uploader EXCEPT ![o] = "header"]
    /\ errc2' = [errc2 EXCEPT ![o] = IF Findata THEN "nil" ELSE "none"]
    /\ UNCHANGED <<group, cancelled, pipe, sent, errc1, findataErr, result,
                   stores>>

ReceiveErrc2(o) ==
    /\ main[o] = "err2"
    /\ errc2[o] # "none"
    /\ main' = [main EXCEPT ![o] = IF errc2[o] = "error" THEN "delete"
                                                              ELSE "err1"]
    /\ UNCHANGED <<group, cancelled, writer, uploader, pipe, sent, errors,
                   result, stores>>

(* A failed DeleteObject is only warned about.                              *)
DeleteObject(o) ==
    /\ main[o] = "delete"
    /\ main' = [main EXCEPT ![o] = "err1"]
    /\ \/ allas' = [allas EXCEPT ![o] = "absent"]
       \/ "deleteFails" \in Events /\ UNCHANGED allas
    /\ UNCHANGED <<group, cancelled, writer, uploader, pipe, sent, errors,
                   result, vault, cessna>>

\* mutant: a failed encryption is returned without waiting for uploadAllas
ReceiveErrc1_DoesNotWait(o) ==
    /\ main[o] = "err1"
    /\ errc1[o] # "none" \/ errc2[o] = "error"
    /\ Return(o, IF "error" \in {errc1[o], errc2[o], findataErr[o]}
                   THEN "failed" ELSE "ok")
    /\ UNCHANGED <<group, writer, uploader, pipe, sent, errors, stores>>

ReceiveErrc1(o) ==
    /\ main[o] = "err1"
    /\ errc1[o] # "none"
    /\ Return(o, IF "error" \in {errc1[o], errc2[o], findataErr[o]}
                   THEN "failed" ELSE "ok")
    /\ UNCHANGED <<group, writer, uploader, pipe, sent, errors, stores>>

-----------------------------------------------------------------------------
(* The writer: encrypt, or uploadFindata on the goroutine of main           *)

\* mutant: the error of io.Copy is not reported
WriterEnds_SwallowsError(o, e) ==
    /\ writer' = [writer EXCEPT ![o] = "done"]
    /\ pipe' = [pipe EXCEPT ![o] = "eof"]
    /\ errc2' = [errc2 EXCEPT ![o] = "nil"]
    /\ UNCHANGED <<main, findataErr>>

\* mutant: uploadFindata closes the pipe with Close
WriterEnds_PlainClose(o, e) ==
    /\ writer' = [writer EXCEPT ![o] = "done"]
    /\ pipe' = [pipe EXCEPT ![o] = "eof"]
    /\ findataErr' = [findataErr EXCEPT ![o] = e]
    /\ main' = [main EXCEPT ![o] = "err2"]
    /\ UNCHANGED errc2

(* encrypt closes the pipe without an error whatever happened; uploadFindata*)
(* hands its error on to the reader.                                        *)
WriterEnds(o, e) ==
    /\ writer' = [writer EXCEPT ![o] = "done"]
    /\ IF Findata
         THEN /\ pipe' = [pipe EXCEPT ![o] = IF e = "nil" THEN "eof"
                                             ELSE "error"]
              /\ findataErr' = [findataErr EXCEPT ![o] = e]
              /\ main' = [main EXCEPT ![o] = "err2"]
              /\ UNCHANGED errc2
         ELSE /\ pipe' = [pipe EXCEPT ![o] = "eof"]
              /\ errc2' = [errc2 EXCEPT ![o] = e]
              /\ UNCHANGED <<main, findataErr>>

\* mutant: pr.Close is not called
ReaderClosed_Never(o) == FALSE

(* The pipe's read end is closed when uploadAllas has returned.             *)
ReaderClosed(o) == uploader[o] = "done"

(* A Write fails when the read end is closed; a Read of the file may fail,  *)
(* and with it NewCrypt4GHWriter or the request to CESSNA; a request is     *)
(* given up when the context is cancelled.                                  *)
WriterFails(o) ==
    /\ \/ writer[o] \in {"header", "copy"} /\ ReaderClosed(o)
       \/ writer[o] \in {"header", "copy"} /\ "fileFails" \in Events
       \/ /\ writer[o] = "copy" /\ Findata
          /\ "findataFails" \in Events \/ cancelled
    /\ WriterEnds(o, "error")
    /\ UNCHANGED <<group, cancelled, uploader, sent, errc1, result, stores>>

(* The header goes through the pipe to c4ghHeaders.ReadHeader.              *)
PassHeader(o) ==
    /\ writer[o] = "header"
    /\ uploader[o] = "header"
    /\ writer' = [writer EXCEPT ![o] = "copy"]
    /\ uploader' = [uploader EXCEPT ![o] = "post"]
    /\ UNCHANGED <<group, cancelled, main, pipe, sent, errors, result, stores>>

(* io.Copy, or the reads CESSNA's upload makes of the TeeReader.            *)
PassBlock(o) ==
    /\ writer[o] = "copy"
    /\ uploader[o] = "body"
    /\ sent[o] < Blocks - 1
    /\ sent' = [sent EXCEPT ![o] = @ + 1]
    /\ UNCHANGED <<procs, cancelled, pipe, errors, result, stores>>

(* The end of the file; CESSNA has then got all of it.                      *)
CopyEnds(o) ==
    /\ writer[o] = "copy"
    /\ sent[o] = Blocks - 1
    /\ writer' = [writer EXCEPT ![o] = "flush"]
    /\ cessna' = [cessna EXCEPT ![o] = Findata]
    /\ UNCHANGED <<group, cancelled, main, uploader, pipe, sent, errors,
                   result, allas, vault>>

(* c4ghWriter.Close, whose error is not looked at.                          *)
FlushAndClose(o) ==
    /\ writer[o] = "flush"
    /\ \/ /\ uploader[o] = "body"
          /\ sent' = [sent EXCEPT ![o] = @ + 1]
       \/ ReaderClosed(o) /\ UNCHANGED sent
    /\ WriterEnds(o, "nil")
    /\ UNCHANGED <<group, cancelled, uploader, errc1, result, stores>>

-----------------------------------------------------------------------------
(* uploadAllas *)

UploaderEnds(o, e) ==
    /\ uploader' = [uploader EXCEPT ![o] = "done"]
    /\ errc1' = [errc1 EXCEPT ![o] = e]
    /\ UNCHANGED <<errc2, findataErr>>

(* The pipe ends before the header, or with an error in the body.           *)
PipeFails(o) ==
    /\ \/ uploader[o] = "header" /\ pipe[o] # "open"
       \/ uploader[o] = "body" /\ pipe[o] = "error"
    /\ UploaderEnds(o, "error")
    /\ UNCHANGED <<group, cancelled, main, writer, pipe, sent, result, stores>>

PostHeader(o) ==
    /\ uploader[o] = "post"
    /\ uploader' = [uploader EXCEPT ![o] = "body"]
    /\ vault' = [vault EXCEPT ![o] = TRUE]
    /\ UNCHANGED <<group, cancelled, main, writer, pipe, sent, errors, result,
                   allas, cessna>>

\* mutant: the body is uploaded although its header is not in Vault
PostHeaderFails_Ignored(o) ==
    /\ uploader[o] = "post"
    /\ "headerFails" \in Events
    /\ uploader' = [uploader EXCEPT ![o] = "body"]
    /\ UNCHANGED <<group, cancelled, main, writer, pipe, sent, errors,
                   result, stores>>

PostHeaderFails(o) ==
    /\ uploader[o] = "post"
    /\ "headerFails" \in Events
    /\ UploaderEnds(o, "error")
    /\ UNCHANGED <<group, cancelled, main, writer, pipe, sent, result, stores>>

BodyEnds(o) ==
    /\ uploader[o] = "body"
    /\ pipe[o] = "eof"
    /\ uploader' = [uploader EXCEPT ![o] = "commit"]
    /\ UNCHANGED <<group, cancelled, main, writer, pipe, sent, errors,
                   result, stores>>

Stored(o) == allas' = [allas EXCEPT ![o] = IF sent[o] = Blocks THEN "full"
                                                               ELSE "part"]

(* PutObject or CompleteMultipartUpload: the object appears all at once.    *)
Commit(o) ==
    /\ uploader[o] = "commit"
    /\ Stored(o)
    /\ UploaderEnds(o, "nil")
    /\ UNCHANGED <<group, cancelled, main, writer, pipe, sent, result, vault,
                   cessna>>

(* A request fails, or is given up with the context. The last one may have  *)
(* been carried out all the same.                                           *)
AllasFails(o) ==
    /\ uploader[o] \in {"body", "commit"}
    /\ "allasFails" \in Events \/ cancelled
    /\ \/ uploader[o] = "commit" /\ Stored(o)
       \/ UNCHANGED allas
    /\ UploaderEnds(o, "error")
    /\ UNCHANGED <<group, cancelled, main, writer, pipe, sent, result, vault,
                   cessna>>

-----------------------------------------------------------------------------
Main(o) == \/ SkipObject(o) \/ RejectFile(o) \/ StartStreaming(o)
           \/ ReceiveErrc2(o) \/ DeleteObject(o) \/ ReceiveErrc1(o)

Writer(o) == \/ WriterFails(o) \/ PassHeader(o) \/ PassBlock(o)
             \/ CopyEnds(o) \/ FlushAndClose(o)

Uploader(o) == \/ PipeFails(o) \/ PostHeader(o) \/ PostHeaderFails(o)
               \/ BodyEnds(o) \/ Commit(o) \/ AllasFails(o)

Group == GetPublicKey \/ Wait \/ \E o \in Objects : Go(o)

Next == Group \/ \E o \in Objects : Main(o) \/ Writer(o) \/ Uploader(o)

Spec == Init /\ [][Next]_vars

(* Every goroutine that can go on does, and every request is answered or    *)
(* times out.                                                               *)
Fairness ==
    /\ WF_vars(Group)
    /\ \A o \in Objects :
         WF_vars(Main(o)) /\ WF_vars(Writer(o)) /\ WF_vars(Uploader(o))

FairSpec == Spec /\ Fairness

-----------------------------------------------------------------------------
(* Properties *)

(* Where the three goroutines of one object can be, what they have put in   *)
(* the channels by then, and what that says of the stream. main cannot be   *)
(* past errc2 before the writer is done, nor the pipe closed.               *)
GoroutinesAgree(o) ==
    /\ main[o] \in {"queued", "start"} => writer[o] = "off"
    /\ main[o] \in {"stream", "err2", "delete", "err1"} => writer[o] # "off"
    /\ result[o] = "none" <=> main[o] # "returned"
    /\ main[o] = "returned" /\ result[o] # "skipped" /\ writer[o] # "off" =>
         uploader[o] = "done" /\ writer[o] = "done"
    /\ result[o] = "skipped" => writer[o] = "off"
    /\ main[o] \in {"stream", "delete"} => (main[o] = "stream" <=> Findata)
    /\ main[o] = "stream" => writer[o] # "done"
    /\ main[o] \in {"err2", "delete", "err1"} /\ Findata => writer[o] = "done"
    /\ main[o] = "delete" => errc2[o] = "error"
    /\ main[o] = "err1" => errc2[o] # "none"
    /\ writer[o] = "off" <=> uploader[o] = "off"
    /\ writer[o] = "header" => uploader[o] \in {"header", "done"}
    /\ uploader[o] = "header" => writer[o] \in {"header", "done"}

ChannelsAgree(o) ==
    /\ pipe[o] # "open" <=> writer[o] = "done"
    /\ errc1[o] # "none" <=> uploader[o] = "done"
    /\ IF Findata
         THEN /\ errc2[o] # "error"
              /\ findataErr[o] # "none" <=> writer[o] = "done"
              /\ pipe[o] = "error" <=> findataErr[o] = "error"
         ELSE /\ findataErr[o] = "none"
              /\ errc2[o] # "none" <=> writer[o] = "done"
              /\ pipe[o] # "error"

\* The writer came to its end without an error.
Encrypted(o) == /\ writer[o] = "done"
                /\ "error" \notin {errc2[o], findataErr[o]}

StreamAgrees(o) ==
    /\ writer[o] \in {"off", "header"} => sent[o] = 0
    /\ writer[o] = "copy" => sent[o] < Blocks
    /\ writer[o] = "flush" => sent[o] = Blocks - 1
    /\ writer[o] = "flush" \/ Encrypted(o) => cessna[o] = Findata
    /\ Encrypted(o) => sent[o] = Blocks \/ errc1[o] = "error"
    /\ uploader[o] \in {"body", "commit"} => vault[o]
    /\ uploader[o] = "commit" \/ errc1[o] = "nil" =>
         vault[o] /\ pipe[o] = "eof"
    /\ allas[o] \in {"part", "full"} => vault[o]
    /\ errc1[o] = "nil" /\ errc2[o] # "error" =>
         allas[o] = IF sent[o] = Blocks THEN "full" ELSE "part"
    /\ Findata => allas[o] # "part"
    /\ uploader[o] # "done" => allas[o] \in {"absent", "old"}
    /\ uploader[o] \in {"off", "header", "post"} => ~vault[o]
    /\ cessna[o] => Findata /\ writer[o] # "off"
    /\ result[o] = "ok" => Encrypted(o) /\ errc1[o] = "nil"

GroupAgrees ==
    /\ cancelled <=> \E o \in Objects : result[o] = "failed"
    /\ \A o \in Objects : result[o] = "skipped" => cancelled
    /\ group = "ok" =>
         \A o \in Objects : main[o] = "returned" /\ result[o] # "failed"
    /\ group = "key" => \A o \in Objects : main[o] = "queued"
    /\ group = "error" =>
         \/ \A o \in Objects : main[o] = "queued"
         \/ \A o \in Objects : main[o] = "returned"

(* The inductive invariant behind the properties below: at every point of   *)
(* the stream the goroutines, their channels and what is in storage agree.  *)
UploadInv ==
    /\ GroupAgrees
    /\ \A o \in Objects :
         GoroutinesAgree(o) /\ ChannelsAgree(o) /\ StreamAgrees(o)

(* UploadObject returns nil only when the whole object is in SD Connect     *)
(* under its own header, and in CESSNA too where that is wanted, although   *)
(* the error of Close is dropped and encrypt never closes with an error.    *)
OkMeansStored ==
    \A o \in Objects : result[o] = "ok" =>
      allas[o] = "full" /\ vault[o] /\ (Findata => cessna[o])

(* Upload returns nil only when every object was uploaded: an object that   *)
(* is skipped without an error has another one's error to answer for it.    *)
UploadOkMeansAll == group = "ok" => \A o \in Objects : result[o] = "ok"

(* Who sees the new object finds its header in Vault.                       *)
HeaderFirst == \A o \in Objects : allas[o] \in {"part", "full"} => vault[o]

(* uploadFindata's CloseWithError keeps a truncated object out of SD        *)
(* Connect.                                                                 *)
FindataNeverTruncates == Findata => \A o \in Objects : allas[o] # "part"

(* A returned UploadObject leaves no goroutine behind that could still      *)
(* change what is in storage, whichever of the two ended first.             *)
NothingLeftRunning ==
    \A o \in Objects : main[o] = "returned" =>
      {writer[o], uploader[o]} \in {{"off"}, {"done"}}

(* Whatever fails and whenever the context is cancelled, neither side of    *)
(* the pipe waits for the other for ever and Upload returns.                *)
UploadReturns == <>(group \in {"ok", "error"})

(* Upload is an UploadSet: its goroutines, channels and pipes only show as  *)
(* steps of the abstract upload, or not at all.                             *)
Set == INSTANCE UploadSet WITH
         answer <- IF group \in {"key", "run"} THEN "none" ELSE group,
         outcome <- result,
         object <- allas,
         header <- vault,
         mirror <- cessna

ImplementsUploadSet == Set!Spec

(* airlock_test.go: when the file could not be read to its end, the object  *)
(* is deleted. A returned UploadObject leaves no truncated object behind.   *)
TruncatedIsDeleted ==
    \A o \in Objects : result[o] = "failed" => allas[o] # "part"
=============================================================================
