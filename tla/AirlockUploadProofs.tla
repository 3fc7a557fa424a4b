------------------------- MODULE AirlockUploadProofs -------------------------
(* What airlock.Upload guarantees for any set of objects, any number of     *)
(* routines and blocks, in both kinds of projects, whatever fails.          *)
EXTENDS AirlockUpload, TLAPS

LEMMA InitialTypes == Init => TypeOK
<1> SUFFICES ASSUME Init PROVE TypeOK
  OBVIOUS
<1>1. sent \in [Objects -> 0 .. Blocks]
  BY UploadAssumption DEF Init
<1>2. allas \in [Objects -> {"absent", "old", "part", "full"}]
  BY DEF Init
<1>3. QED
  BY <1>1, <1>2 DEF Init, TypeOK, Errors

LEMMA WriterEndsTypes ==
  ASSUME TypeOK, NEW o \in Objects, NEW e \in {"nil", "error"},
         WriterEnds(o, e)
  PROVE  /\ writer' \in [Objects -> {"off", "header", "copy", "flush", "done"}]
         /\ pipe' \in [Objects -> {"open", "eof", "error"}]
         /\ errc2' \in [Objects -> Errors]
         /\ findataErr' \in [Objects -> Errors]
         /\ main' \in [Objects -> {"queued", "start", "stream", "err2",
                                   "delete", "err1", "returned"}]
  BY DEF TypeOK, Errors, WriterEnds

LEMMA UploaderEndsTypes ==
  ASSUME TypeOK, NEW o \in Objects, NEW e \in {"nil", "error"},
         UploaderEnds(o, e)
  PROVE  /\ uploader' \in [Objects -> {"off", "header", "post", "body",
                                       "commit", "done"}]
         /\ errc1' \in [Objects -> Errors]
         /\ errc2' \in [Objects -> Errors]
         /\ findataErr' \in [Objects -> Errors]
  BY DEF TypeOK, Errors, UploaderEnds

(* Types are kept by every step. That Close writes the last block and not   *)
(* one more is the only part that is not local to the step.                 *)
LEMMA TypesKept == TypeOK /\ UploadInv /\ [Next]_vars => TypeOK'
<1> SUFFICES ASSUME TypeOK, UploadInv, [Next]_vars
             PROVE  TypeOK'
  OBVIOUS
<1> USE UploadAssumption DEF TypeOK, Errors, stores, errors
<1>1. CASE Group
  BY <1>1 DEF Group, GetPublicKey, Wait, Go
<1>2. ASSUME NEW o \in Objects, Main(o)
      PROVE  TypeOK'
  <2>1. CASE SkipObject(o) \/ RejectFile(o) \/ ReceiveErrc1(o)
    <3>1. PICK res \in {"ok", "failed", "skipped"} : Return(o, res)
      BY <2>1 DEF SkipObject, RejectFile, ReceiveErrc1
    <3>2. QED
      BY <2>1, <3>1 DEF SkipObject, RejectFile, ReceiveErrc1, Return
  <2>2. CASE StartStreaming(o)
    BY <2>2 DEF StartStreaming
  <2>3. CASE ReceiveErrc2(o) \/ DeleteObject(o)
    BY <2>3 DEF ReceiveErrc2, DeleteObject
  <2>4. QED
    BY <1>2, <2>1, <2>2, <2>3 DEF Main
<1>3. ASSUME NEW o \in Objects, Writer(o)
      PROVE  TypeOK'
  <2>1. CASE WriterFails(o)
    BY <2>1, WriterEndsTypes DEF WriterFails
  <2>2. CASE PassHeader(o) \/ CopyEnds(o)
    BY <2>2 DEF PassHeader, CopyEnds
  <2>3. CASE PassBlock(o)
    <3>1. sent[o] + 1 \in 0 .. Blocks
      BY <2>3 DEF PassBlock
    <3>2. QED
      BY <2>3, <3>1 DEF PassBlock, procs
  <2>4. CASE FlushAndClose(o)
    <3>1. sent[o] + 1 \in 0 .. Blocks
      BY <2>4 DEF FlushAndClose, UploadInv, StreamAgrees
    <3>2. sent' \in [Objects -> 0 .. Blocks]
      BY <2>4, <3>1 DEF FlushAndClose
    <3>3. QED
      BY <2>4, <3>2, WriterEndsTypes DEF FlushAndClose
  <2>5. QED
    BY <1>3, <2>1, <2>2, <2>3, <2>4 DEF Writer
<1>4. ASSUME NEW o \in Objects, Uploader(o)
      PROVE  TypeOK'
  <2>1. CASE PipeFails(o) \/ PostHeaderFails(o)
    BY <2>1, UploaderEndsTypes DEF PipeFails, PostHeaderFails
  <2>2. CASE Commit(o) \/ AllasFails(o)
    <3>1. allas' \in [Objects -> {"absent", "old", "part", "full"}]
      BY <2>2 DEF Commit, AllasFails, Stored
    <3>2. QED
      BY <2>2, <3>1, UploaderEndsTypes DEF Commit, AllasFails
  <2>3. CASE PostHeader(o)
    BY <2>3 DEF PostHeader
  <2>4. CASE BodyEnds(o)
    BY <2>4 DEF BodyEnds
  <2>5. QED
    BY <1>4, <2>1, <2>2, <2>3, <2>4 DEF Uploader
<1>5. CASE UNCHANGED vars
  BY <1>5 DEF vars
<1>6. QED
  BY <1>1, <1>2, <1>3, <1>4, <1>5 DEF Next

-----------------------------------------------------------------------------
ObjectInv(o) == GoroutinesAgree(o) /\ ChannelsAgree(o) /\ StreamAgrees(o)

\* Nothing of the upload of o changes.
Unmoved(o) ==
    /\ main'[o] = main[o] /\ writer'[o] = writer[o]
    /\ uploader'[o] = uploader[o] /\ pipe'[o] = pipe[o]
    /\ sent'[o] = sent[o] /\ result'[o] = result[o]
    /\ errc1'[o] = errc1[o] /\ errc2'[o] = errc2[o]
    /\ findataErr'[o] = findataErr[o] /\ allas'[o] = allas[o]
    /\ vault'[o] = vault[o] /\ cessna'[o] = cessna[o]

LEMMA UnmovedKeeps ==
  ASSUME NEW o \in Objects, ObjectInv(o), Unmoved(o)
  PROVE  ObjectInv(o)'
<1>1. GoroutinesAgree(o)'
  BY DEF ObjectInv, Unmoved, GoroutinesAgree
<1>2. ChannelsAgree(o)'
  BY DEF ObjectInv, Unmoved, ChannelsAgree
<1>3. StreamAgrees(o)'
  BY DEF ObjectInv, Unmoved, StreamAgrees, Encrypted
<1>4. QED
  BY <1>1, <1>2, <1>3 DEF ObjectInv

(* The goroutines of one object do not touch another one.                   *)
LEMMA Elsewhere ==
  ASSUME TypeOK, NEW o \in Objects, Main(o) \/ Writer(o) \/ Uploader(o)
  PROVE  \A p \in Objects \ {o} : Unmoved(p)
<1> SUFFICES ASSUME NEW p \in Objects \ {o}
             PROVE  Unmoved(p)
  OBVIOUS
<1> USE DEF Unmoved, stores, errors
<1>1. CASE Main(o)
  BY <1>1 DEF Main, SkipObject, RejectFile, StartStreaming, ReceiveErrc2,
              DeleteObject, ReceiveErrc1, Return, TypeOK
<1>2. CASE Writer(o)
  BY <1>2 DEF Writer, WriterFails, PassHeader, PassBlock, CopyEnds,
              FlushAndClose, WriterEnds, procs, TypeOK
<1>3. CASE Uploader(o)
  BY <1>3 DEF Uploader, PipeFails, PostHeader, PostHeaderFails, BodyEnds,
              Commit, AllasFails, Stored, UploaderEnds, TypeOK
<1>4. QED
  BY <1>1, <1>2, <1>3

(* What each goroutine does to its own object.                              *)
LEMMA MainKeeps ==
  ASSUME TypeOK, NEW o \in Objects, ObjectInv(o), Main(o)
  PROVE  ObjectInv(o)'
<1> USE DEF TypeOK, Errors, ObjectInv, stores, errors
<1>1. CASE SkipObject(o) \/ RejectFile(o)
  <2>1. GoroutinesAgree(o)'
    BY <1>1 DEF SkipObject, RejectFile, Return, GoroutinesAgree
  <2>2. ChannelsAgree(o)'
    BY <1>1 DEF SkipObject, RejectFile, ChannelsAgree
  <2>3. StreamAgrees(o)'
    BY <1>1 DEF SkipObject, RejectFile, Return, StreamAgrees, Encrypted
  <2>4. QED
    BY <2>1, <2>2, <2>3
<1>2. CASE StartStreaming(o)
  <2>1. GoroutinesAgree(o)'
    BY <1>2, UploadAssumption DEF StartStreaming, GoroutinesAgree
  <2>2. ChannelsAgree(o)'
    BY <1>2 DEF StartStreaming, GoroutinesAgree, ChannelsAgree
  <2>3. StreamAgrees(o)'
    BY <1>2 DEF StartStreaming, GoroutinesAgree, ChannelsAgree, StreamAgrees,
                Encrypted
  <2>4. QED
    BY <2>1, <2>2, <2>3
<1>3. CASE ReceiveErrc2(o) \/ DeleteObject(o)
  <2>1. GoroutinesAgree(o)'
    BY <1>3 DEF ReceiveErrc2, DeleteObject, GoroutinesAgree, ChannelsAgree
  <2>2. ChannelsAgree(o)'
    BY <1>3 DEF ReceiveErrc2, DeleteObject, ChannelsAgree
  <2>3. StreamAgrees(o)'
    BY <1>3 DEF ReceiveErrc2, DeleteObject, GoroutinesAgree, StreamAgrees,
                Encrypted
  <2>4. QED
    BY <2>1, <2>2, <2>3
<1>4. CASE ReceiveErrc1(o)
  <2>1. GoroutinesAgree(o)'
    BY <1>4 DEF ReceiveErrc1, Return, GoroutinesAgree, ChannelsAgree
  <2>2. ChannelsAgree(o)'
    BY <1>4 DEF ReceiveErrc1, ChannelsAgree
  <2>3. StreamAgrees(o)'
    BY <1>4 DEF ReceiveErrc1, Return, GoroutinesAgree, ChannelsAgree,
                StreamAgrees, Encrypted
  <2>4. QED
    BY <2>1, <2>2, <2>3
<1>5. QED
  BY <1>1, <1>2, <1>3, <1>4 DEF Main

LEMMA WriterKeeps ==
  ASSUME TypeOK, NEW o \in Objects, ObjectInv(o), Writer(o)
  PROVE  ObjectInv(o)'
<1> USE DEF TypeOK, Errors, ObjectInv, stores, errors
<1>1. CASE WriterFails(o)
  <2>1. GoroutinesAgree(o)'
    BY <1>1, UploadAssumption DEF WriterFails, WriterEnds, GoroutinesAgree
  <2>2. ChannelsAgree(o)'
    BY <1>1 DEF WriterFails, WriterEnds, GoroutinesAgree, ChannelsAgree
  <2>3. StreamAgrees(o)'
    BY <1>1 DEF WriterFails, WriterEnds, GoroutinesAgree, ChannelsAgree,
                StreamAgrees, Encrypted
  <2>4. QED
    BY <2>1, <2>2, <2>3
<1>2. CASE PassHeader(o) \/ PassBlock(o) \/ CopyEnds(o)
  <2>1. GoroutinesAgree(o)'
    BY <1>2 DEF PassHeader, PassBlock, CopyEnds, procs, GoroutinesAgree
  <2>2. ChannelsAgree(o)'
    BY <1>2 DEF PassHeader, PassBlock, CopyEnds, procs, ChannelsAgree
  <2>3. StreamAgrees(o)'
    BY <1>2, UploadAssumption
    DEF PassHeader, PassBlock, CopyEnds, procs, GoroutinesAgree,
        ChannelsAgree, StreamAgrees, Encrypted
  <2>4. QED
    BY <2>1, <2>2, <2>3
<1>3. CASE FlushAndClose(o)
  <2>1. GoroutinesAgree(o)'
    <3>1. /\ writer[o] = "flush" /\ WriterEnds(o, "nil")
          /\ UNCHANGED <<uploader, result>>
      BY <1>3 DEF FlushAndClose
    <3>2. CASE Findata
      BY <3>1, <3>2 DEF WriterEnds, GoroutinesAgree
    <3>3. CASE ~Findata
      <4>1. /\ writer'[o] = "done" /\ UNCHANGED <<main, uploader, result>>
            /\ errc2'[o] = "nil" /\ main[o] \in {"err2", "delete", "err1"}
            /\ main[o] \in {"delete", "err1"} => errc2[o] # "none"
        BY <3>1, <3>3 DEF WriterEnds, GoroutinesAgree
      <4>2. errc2[o] = "none"
        BY <3>1, <3>3 DEF ChannelsAgree
      <4>3. QED
        BY <3>1, <3>3, <4>1, <4>2 DEF GoroutinesAgree
    <3>4. QED
      BY <3>2, <3>3
  <2>2. ChannelsAgree(o)'
    BY <1>3 DEF FlushAndClose, WriterEnds, GoroutinesAgree, ChannelsAgree
  <2>3. StreamAgrees(o)'
    BY <1>3, UploadAssumption
    DEF FlushAndClose, WriterEnds, ReaderClosed, GoroutinesAgree,
        ChannelsAgree, StreamAgrees, Encrypted
  <2>4. QED
    BY <2>1, <2>2, <2>3
<1>4. QED
  BY <1>1, <1>2, <1>3 DEF Writer

LEMMA UploaderKeeps ==
  ASSUME TypeOK, NEW o \in Objects, ObjectInv(o), Uploader(o)
  PROVE  ObjectInv(o)'
<1> USE DEF TypeOK, Errors, ObjectInv, stores, errors
<1>1. CASE PipeFails(o) \/ PostHeaderFails(o)
  <2>1. GoroutinesAgree(o)'
    BY <1>1 DEF PipeFails, PostHeaderFails, UploaderEnds, GoroutinesAgree,
                ChannelsAgree
  <2>2. ChannelsAgree(o)'
    BY <1>1 DEF PipeFails, PostHeaderFails, UploaderEnds, ChannelsAgree
  <2>3. StreamAgrees(o)'
    BY <1>1 DEF PipeFails, PostHeaderFails, UploaderEnds, GoroutinesAgree,
                StreamAgrees, Encrypted
  <2>4. QED
    BY <2>1, <2>2, <2>3
<1>2. CASE PostHeader(o) \/ BodyEnds(o)
  <2>1. GoroutinesAgree(o)'
    BY <1>2 DEF PostHeader, BodyEnds, GoroutinesAgree
  <2>2. ChannelsAgree(o)'
    BY <1>2 DEF PostHeader, BodyEnds, ChannelsAgree
  <2>3. StreamAgrees(o)'
    BY <1>2 DEF PostHeader, BodyEnds, ChannelsAgree, StreamAgrees, Encrypted
  <2>4. QED
    BY <2>1, <2>2, <2>3
<1>3. CASE Commit(o) \/ AllasFails(o)
  <2>1. GoroutinesAgree(o)'
    BY <1>3 DEF Commit, AllasFails, UploaderEnds, GoroutinesAgree
  <2>2. ChannelsAgree(o)'
    BY <1>3 DEF Commit, AllasFails, UploaderEnds, ChannelsAgree
  <2>3. StreamAgrees(o)'
    BY <1>3 DEF Commit, AllasFails, Stored, UploaderEnds, GoroutinesAgree,
                ChannelsAgree, StreamAgrees, Encrypted
  <2>4. QED
    BY <2>1, <2>2, <2>3
<1>4. QED
  BY <1>1, <1>2, <1>3 DEF Uploader

(* Only Upload and main touch the group, and only main returns a result.    *)
LEMMA GroupKeeps ==
  ASSUME TypeOK, UploadInv, [Next]_vars
  PROVE  GroupAgrees'
<1> USE DEF TypeOK, UploadInv, GroupAgrees, stores, errors
<1>1. CASE Group
  <2>1. CASE GetPublicKey
    BY <2>1 DEF GetPublicKey
  <2>2. CASE Wait
    BY <2>2 DEF Wait
  <2>3. ASSUME NEW o \in Objects, Go(o)
        PROVE  GroupAgrees'
    BY <2>3 DEF Go
  <2>4. QED
    BY <1>1, <2>1, <2>2, <2>3 DEF Group
<1>2. ASSUME NEW o \in Objects, Main(o)
      PROVE  GroupAgrees'
  <2>1. group = "run" /\ group' = group /\ result[o] = "none"
    BY <1>2 DEF Main, SkipObject, RejectFile, StartStreaming, ReceiveErrc2,
                DeleteObject, ReceiveErrc1, Return, GoroutinesAgree
  <2>2. CASE SkipObject(o) \/ RejectFile(o) \/ ReceiveErrc1(o)
    <3>1. PICK res \in {"ok", "failed", "skipped"} :
            Return(o, res) /\ (res = "skipped" => cancelled)
      BY <2>2 DEF SkipObject, RejectFile, ReceiveErrc1
    <3>2. \A p \in Objects : result'[p] = IF p = o THEN res ELSE result[p]
      BY <3>1 DEF Return
    <3> HIDE DEF TypeOK, UploadInv
    <3>3. cancelled' <=> \E p \in Objects : result'[p] = "failed"
      <4>1. cancelled <=> \E p \in Objects : result[p] = "failed"
        BY DEF UploadInv
      <4>2. cancelled' <=> cancelled \/ res = "failed"
        BY <3>1 DEF Return, TypeOK
      <4>3. QED
        BY <2>1, <3>2, <4>1, <4>2
    <3>4. \A p \in Objects : result'[p] = "skipped" => cancelled'
      BY <3>1, <3>2 DEF Return, UploadInv
    <3>5. QED
      BY <2>1, <3>3, <3>4
  <2>3. CASE StartStreaming(o) \/ ReceiveErrc2(o) \/ DeleteObject(o)
    BY <2>1, <2>3 DEF StartStreaming, ReceiveErrc2, DeleteObject
  <2>4. QED
    BY <1>2, <2>2, <2>3 DEF Main
<1>3. ASSUME NEW o \in Objects, Writer(o)
      PROVE  GroupAgrees'
  <2>1. group = "run" /\ UNCHANGED <<group, cancelled, result>>
    BY <1>3 DEF Writer, WriterFails, PassHeader, PassBlock, CopyEnds,
                FlushAndClose, GoroutinesAgree, procs
  <2>2. QED
    BY <2>1
<1>4. ASSUME NEW o \in Objects, Uploader(o)
      PROVE  GroupAgrees'
  BY <1>4 DEF Uploader, PipeFails, PostHeader, PostHeaderFails, BodyEnds,
              Commit, AllasFails
<1>5. CASE UNCHANGED vars
  BY <1>5 DEF vars
<1>6. QED
  BY <1>1, <1>2, <1>3, <1>4, <1>5 DEF Next

(* Goroutines, channels, stream and storage agree in every state.           *)
THEOREM StreamsAgree == Spec => [](TypeOK /\ UploadInv)
<1>1. Init => UploadInv
  BY DEF Init, UploadInv, GroupAgrees, GoroutinesAgree, ChannelsAgree,
         StreamAgrees, Encrypted
<1>2. TypeOK /\ UploadInv /\ [Next]_vars => UploadInv'
  <2> SUFFICES ASSUME TypeOK, UploadInv, [Next]_vars
               PROVE  UploadInv'
    OBVIOUS
  <2>1. \A p \in Objects : ObjectInv(p)
    BY DEF UploadInv, ObjectInv
  <2>2. SUFFICES \A p \in Objects : ObjectInv(p)'
    BY GroupKeeps DEF UploadInv, ObjectInv
  <2>3. CASE Group
    <3>1. ASSUME NEW p \in Objects
          PROVE  Unmoved(p) \/ Go(p)
      BY <2>3 DEF Group, GetPublicKey, Wait, Go, Unmoved, TypeOK, stores, errors
    <3>2. ASSUME NEW p \in Objects, Go(p)
          PROVE  ObjectInv(p)'
      BY <2>1, <3>2 DEF Go, ObjectInv, GoroutinesAgree, ChannelsAgree,
                        StreamAgrees, Encrypted, TypeOK, stores, errors
    <3>3. QED
      BY <2>1, <3>1, <3>2, UnmovedKeeps
  <2>4. ASSUME NEW o \in Objects, Main(o) \/ Writer(o) \/ Uploader(o)
        PROVE  \A p \in Objects : ObjectInv(p)'
    <3>1. ObjectInv(o)'
      BY <2>1, <2>4, MainKeeps, WriterKeeps, UploaderKeeps
    <3>2. QED
      BY <2>1, <2>4, <3>1, Elsewhere, UnmovedKeeps
  <2>5. CASE UNCHANGED vars
    BY <2>1, <2>5, UnmovedKeeps DEF vars, Unmoved
  <2>6. QED
    BY <2>3, <2>4, <2>5 DEF Next
<1>3. QED
  BY <1>1, <1>2, InitialTypes, TypesKept, PTL DEF Spec

(* No more blocks go through a pipe than the file has, and all variables    *)
(* keep their types.                                                        *)
THEOREM TypeCorrect == Spec => []TypeOK
  BY StreamsAgree, PTL

(* nil means stored: UploadObject cannot return nil for an object that is   *)
(* truncated, without its header, or missing from CESSNA.                   *)
THEOREM NilMeansStored == Spec => []OkMeansStored
<1>1. TypeOK /\ UploadInv => OkMeansStored
  BY DEF TypeOK, UploadInv, StreamAgrees, Encrypted, OkMeansStored
<1>2. QED
  BY <1>1, StreamsAgree, PTL

(* Upload answers nil only for a complete set.                              *)
THEOREM NilMeansAll == Spec => []UploadOkMeansAll
<1>1. TypeOK /\ UploadInv => UploadOkMeansAll
  BY DEF TypeOK, UploadInv, GroupAgrees, GoroutinesAgree, UploadOkMeansAll
<1>2. QED
  BY <1>1, StreamsAgree, PTL

(* The header of an upload is in Vault before its object can be seen.       *)
THEOREM HeaderBeforeObject == Spec => []HeaderFirst
<1>1. UploadInv => HeaderFirst
  BY DEF UploadInv, StreamAgrees, HeaderFirst
<1>2. QED
  BY <1>1, StreamsAgree, PTL

(* In a Findata project no truncated object reaches SD Connect.             *)
THEOREM FindataIsWhole == Spec => []FindataNeverTruncates
<1>1. UploadInv => FindataNeverTruncates
  BY DEF UploadInv, StreamAgrees, FindataNeverTruncates
<1>2. QED
  BY <1>1, StreamsAgree, PTL

(* When UploadObject returns, its goroutines have ended.                    *)
THEOREM GoroutinesEnd == Spec => []NothingLeftRunning
<1>1. TypeOK /\ UploadInv => NothingLeftRunning
  BY DEF TypeOK, UploadInv, GoroutinesAgree, NothingLeftRunning
<1>2. QED
  BY <1>1, StreamsAgree, PTL
-----------------------------------------------------------------------------
(* Upload is an UploadSet.                                                  *)

\* A goroutine that still runs works for an upload without an answer.
LEMMA Active ==
  ASSUME TypeOK, UploadInv, NEW o \in Objects,
         \/ main[o] \notin {"queued", "returned"}
         \/ writer[o] \notin {"off", "done"}
         \/ uploader[o] \notin {"off", "done"}
  PROVE  group = "run" /\ result[o] = "none"
BY DEF TypeOK, UploadInv, GroupAgrees, GoroutinesAgree

LEMMA PendingWhileRunning ==
  ASSUME NEW o \in Objects, group = "run", result[o] = "none"
  PROVE  Set!Pending(o)
BY DEF Set!Pending

LEMMA StutterOf ==
  ASSUME UNCHANGED <<group, result, allas, vault, cessna>>
  PROVE  UNCHANGED Set!vars
BY DEF Set!vars

LEMMA GroupSimulates ==
  ASSUME TypeOK, UploadInv, Group
  PROVE  [Set!Next]_(Set!vars)
<1> USE DEF stores, errors
<1>1. CASE GetPublicKey
  <2>1. CASE group' = "run"
    BY <1>1, <2>1 DEF GetPublicKey, Set!vars
  <2>2. CASE group' = "error"
    <3>1. \A o \in Objects : result[o] = "none" /\ ~vault[o] /\ ~cessna[o]
      BY <1>1 DEF GetPublicKey, UploadInv, GroupAgrees, GoroutinesAgree,
                  StreamAgrees
    <3>2. Set!Refuse
      BY <1>1, <2>2, <3>1 DEF GetPublicKey, Set!Refuse
    <3>3. QED
      BY <3>2 DEF Set!Next
  <2>3. QED
    BY <1>1, <2>1, <2>2 DEF GetPublicKey
<1>2. CASE Wait
  <2>1. \A o \in Objects : result[o] # "none"
    BY <1>2 DEF Wait, UploadInv, GoroutinesAgree
  <2>2. (\E o \in Objects : result[o] = "failed")
          <=> ~\A o \in Objects : result[o] = "ok"
    BY <2>1 DEF UploadInv, GroupAgrees, TypeOK
  <2>3. Set!Answer
    BY <1>2, <2>1, <2>2 DEF Wait, Set!Answer
  <2>4. QED
    BY <2>3 DEF Set!Next
<1>3. ASSUME NEW o \in Objects, Go(o)
      PROVE  [Set!Next]_(Set!vars)
  BY <1>3, StutterOf DEF Go
<1>4. QED
  BY <1>1, <1>2, <1>3 DEF Group

LEMMA MainSimulates ==
  ASSUME TypeOK, UploadInv, UploadInv', NEW o \in Objects, Main(o)
  PROVE  [Set!Next]_(Set!vars)
<1> USE DEF stores, errors
<1>1. group = "run" /\ result[o] = "none" /\ group' = group
  BY Active DEF Main, SkipObject, RejectFile, StartStreaming, ReceiveErrc2,
                DeleteObject, ReceiveErrc1
<1>2. Set!Pending(o)
  BY <1>1, PendingWhileRunning
<1>3. CASE SkipObject(o)
  <2>1. /\ allas[o] \in {"absent", "old"} /\ ~vault[o] /\ ~cessna[o]
        /\ \E other \in Objects : result[other] = "failed"
    BY <1>3 DEF SkipObject, UploadInv, GroupAgrees, GoroutinesAgree,
                StreamAgrees
  <2>2. Set!Skip(o)
    BY <1>1, <1>2, <1>3, <2>1 DEF SkipObject, Return, Set!Skip
  <2>3. QED
    BY <2>2 DEF Set!Next, Set!Upload
<1>4. CASE RejectFile(o)
  <2>1. Set!Fail(o)
    BY <1>1, <1>2, <1>4 DEF RejectFile, Return, Set!Fail
  <2>2. QED
    BY <2>1 DEF Set!Next, Set!Upload
<1>5. CASE ReceiveErrc1(o)
  <2>1. PICK res \in {"ok", "failed"} : Return(o, res)
    BY <1>5 DEF ReceiveErrc1
  <2>2. CASE res = "failed"
    <3>1. Set!Fail(o)
      BY <1>1, <1>2, <1>5, <2>1, <2>2 DEF ReceiveErrc1, Return, Set!Fail
    <3>2. QED
      BY <3>1 DEF Set!Next, Set!Upload
  <2>3. CASE res = "ok"
    <3>1. result'[o] = "ok"
      BY <2>1, <2>3 DEF Return, TypeOK
    <3>2. Encrypted(o)' /\ errc1'[o] = "nil" /\ StreamAgrees(o)'
      BY <3>1 DEF UploadInv, StreamAgrees
    <3>3. allas'[o] = "full" /\ vault'[o] /\ cessna'[o] = Findata
      BY <3>2 DEF StreamAgrees, Encrypted
    <3>4. allas[o] = "full" /\ vault[o] /\ cessna[o] = Findata
      BY <1>5, <3>3 DEF ReceiveErrc1
    <3>5. Set!Succeed(o)
      BY <1>1, <1>2, <1>5, <2>1, <2>3, <3>4
      DEF ReceiveErrc1, Return, Set!Succeed
    <3>6. QED
      BY <3>5 DEF Set!Next, Set!Upload
  <2>4. QED
    BY <2>2, <2>3
<1>6. CASE DeleteObject(o)
  <2>1. ~Findata
    BY <1>6 DEF DeleteObject, UploadInv, GoroutinesAgree
  <2>2. CASE UNCHANGED allas
    BY <1>6, <2>2, StutterOf DEF DeleteObject
  <2>3. CASE allas' = [allas EXCEPT ![o] = "absent"]
    <3>1. Set!Delete(o)
      BY <1>1, <1>2, <1>6, <2>1, <2>3 DEF DeleteObject, Set!Delete
    <3>2. QED
      BY <3>1 DEF Set!Next, Set!Upload
  <2>4. QED
    BY <1>6, <2>2, <2>3 DEF DeleteObject
<1>7. CASE StartStreaming(o) \/ ReceiveErrc2(o)
  BY <1>7, StutterOf DEF StartStreaming, ReceiveErrc2
<1>8. QED
  BY <1>3, <1>4, <1>5, <1>6, <1>7 DEF Main

LEMMA WriterSimulates ==
  ASSUME TypeOK, UploadInv, NEW o \in Objects, Writer(o)
  PROVE  [Set!Next]_(Set!vars)
<1> USE DEF stores, errors
<1>1. CASE CopyEnds(o)
  <2>1. group = "run" /\ result[o] = "none"
    BY <1>1, Active DEF CopyEnds
  <2>2. CASE Findata
    <3>1. Set!Mirror(o)
      BY <1>1, <2>1, <2>2, PendingWhileRunning
      DEF CopyEnds, Set!Mirror, UploadAssumption
    <3>2. QED
      BY <3>1 DEF Set!Next, Set!Upload
  <2>3. CASE ~Findata
    <3>1. cessna[o] = FALSE /\ Findata = FALSE
      BY <2>3, UploadAssumption DEF UploadInv, StreamAgrees, TypeOK
    <3>2. cessna' = cessna
      BY <1>1, <3>1 DEF CopyEnds, TypeOK
    <3>3. QED
      BY <1>1, <3>2, StutterOf DEF CopyEnds
  <2>4. QED
    BY <2>2, <2>3
<1>2. CASE WriterFails(o) \/ PassHeader(o) \/ PassBlock(o) \/ FlushAndClose(o)
  BY <1>2, StutterOf DEF WriterFails, PassHeader, PassBlock, FlushAndClose,
                         procs
<1>3. QED
  BY <1>1, <1>2 DEF Writer

LEMMA UploaderSimulates ==
  ASSUME TypeOK, UploadInv, UploadInv', NEW o \in Objects, Uploader(o)
  PROVE  [Set!Next]_(Set!vars)
<1> USE DEF stores, errors
<1>1. group = "run" /\ result[o] = "none"
  BY Active DEF Uploader, PipeFails, PostHeader, PostHeaderFails, BodyEnds,
                Commit, AllasFails
<1>2. Set!Pending(o)
  BY <1>1, PendingWhileRunning
<1>3. CASE PostHeader(o)
  <2>1. ~vault[o]
    BY <1>3 DEF PostHeader, UploadInv, StreamAgrees
  <2>2. Set!PutHeader(o)
    BY <1>1, <1>2, <1>3, <2>1 DEF PostHeader, Set!PutHeader
  <2>3. QED
    BY <2>2 DEF Set!Next, Set!Upload
<1>4. CASE (Commit(o) \/ AllasFails(o)) /\ Stored(o) /\ uploader[o] = "commit"
  <2>1. allas[o] \in {"absent", "old"} /\ vault[o]
    BY <1>4 DEF UploadInv, StreamAgrees
  <2>2. Findata => allas'[o] # "part"
    BY DEF UploadInv, StreamAgrees
  <2>3. PICK part \in {"full", "part"} :
          allas' = [allas EXCEPT ![o] = part]
    BY <1>4 DEF Stored
  <2>4. part \in {"full"} \cup (IF Findata THEN {} ELSE {"part"})
    BY <2>2, <2>3 DEF TypeOK
  <2>5. Set!Store(o)
    BY <1>1, <1>2, <1>4, <2>1, <2>3, <2>4 DEF Commit, AllasFails, Set!Store
  <2>6. QED
    BY <2>5 DEF Set!Next, Set!Upload
<1>5. CASE AllasFails(o) /\ UNCHANGED allas
  BY <1>5, StutterOf DEF AllasFails
<1>6. CASE PipeFails(o) \/ PostHeaderFails(o) \/ BodyEnds(o)
  BY <1>6, StutterOf DEF PipeFails, PostHeaderFails, BodyEnds
<1>7. QED
  BY <1>3, <1>4, <1>5, <1>6 DEF Uploader, Commit, AllasFails

(* The goroutines of Upload, whatever fails and in whatever order they run, *)
(* only do what UploadSet promises: each step is one of its steps, or none  *)
(* that a caller can see.                                                   *)
THEOREM UploadIsUploadSet == Spec => ImplementsUploadSet
<1>1. Init => Set!Init
  BY DEF Init, Set!Init
<1>2. TypeOK /\ UploadInv /\ UploadInv' /\ [Next]_vars
        => [Set!Next]_(Set!vars)
  <2> SUFFICES ASSUME TypeOK, UploadInv, UploadInv', [Next]_vars
               PROVE  [Set!Next]_(Set!vars)
    OBVIOUS
  <2>1. CASE UNCHANGED vars
    BY <2>1, StutterOf DEF vars
  <2>2. QED
    BY <2>1, GroupSimulates, MainSimulates, WriterSimulates,
       UploaderSimulates DEF Next
<1>3. QED
  BY <1>1, <1>2, StreamsAgree, PTL DEF Spec, ImplementsUploadSet, Set!Spec
=============================================================================
