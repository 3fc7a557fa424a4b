----------------------------- MODULE FileAccess -----------------------------
(***************************************************************************)
(* Opening, reading and clearing the files of one SD Connect bucket, or of *)
(* one SD Apply dataset, of a mounted Data Gateway.                        *)
(*                                                                         *)
(* Two threads of the program meet here without a lock: the FUSE thread,   *)
(* which serves one request at a time (libfuse -s), and the goroutine that *)
(* executes user commands.  Outside the program other users replace and    *)
(* delete the objects and their headers.  A version stands for one upload  *)
(* of a file: its bytes, and the only header that decrypts them.           *)
(*                                                                         *)
(* A step is what a thread does between two network calls; memory accesses *)
(* with no network call between them are one step.  Where the threads run  *)
(* at once (Overlap) the code promises less: clearing a directory,         *)
(* adjusting the sizes above a file and reading both may then mix.         *)
(***************************************************************************)
EXTENDS Crypt4GHSizes, Sequences, FiniteSetsExt

CONSTANTS
    Repository,  \* "SD-Connect" or "SD-Apply"
    Files,       \* the files of the bucket
    Shared,      \* those whose header is in another project's part of Vault
    Segmented,   \* those uploaded in segments: a listing says their size is 0
    Versions,    \* the uploads that may be made of a file
    PlainSize,   \* [Versions -> Nat]: bytes of the file that was encrypted
    HeaderSize,  \* [Versions -> Nat]: bytes of header in the object; 0 if the
                 \* header was put in Vault
    MaxSize,     \* bytes of the largest object that storage takes
    ReadSize,    \* bytes FUSE asks for in one read
    Overlap,     \* FALSE: commands are only given while FUSE is quiet
    Rewritten,   \* bound: the files that other users replace and delete
    Events,      \* the environment events that may happen, see AllEvents
    None         \* no version: not in storage, not in Vault, not in the cache

AllEvents == {"write",         \* other users put and delete objects
              "vaultFails",    \* a request to Vault fails
              "storageFails",  \* reading data or header of an object fails
              "segmentsFail",  \* listing the bucket of segments fails
              "evict"}         \* the cache drops a chunk (TTL, capacity)

ASSUME AccessAssumption ==
    /\ Repository \in {"SD-Connect", "SD-Apply"}
    /\ Shared \cup Segmented \cup Rewritten \subseteq Files
    /\ IsFiniteSet(Files)
    /\ None \notin Versions
    /\ PlainSize \in [Versions -> Nat] /\ HeaderSize \in [Versions -> Nat]
    /\ MaxSize \in Nat
    /\ \A v \in Versions :
         HeaderSize[v] + CalculateEncryptedSize(PlainSize[v]) <= MaxSize
    /\ ReadSize \in 1 .. ChunkSize
    /\ Overlap \in BOOLEAN
    /\ Events \subseteq AllEvents

VARIABLES
    obj,      \* the version of each file in storage
    vault,    \* the version whose header Vault holds for each file
    node,     \* stat.st_size and offset of each file's node
    headers,  \* fi.headers: the header value loaded and the owner known
    cache,    \* downloadCache: the chunk of which version, of which length
    dirSize,  \* stat.st_size of the directory of the bucket
    opened,   \* the files with an open handle
    fuse,     \* the FUSE thread and the request it serves
    clear,    \* the command goroutine and the ClearPath it executes
    allowed,  \* the versions a read may return: those in storage since the
              \* last time the file was cleared (not a variable of the code)
    status    \* "running" or "crashed"

storage == <<obj, vault>>
vars == <<obj, vault, node, headers, cache, dirSize, opened, fuse, clear,
          allowed, status>>

Stored == Versions \cup {None}
Chunks == 0 .. MaxSize \div ChunkSize
NoHeader == [value |-> None, owner |-> FALSE]
NoChunk == [version |-> None, length |-> 0]

StoredSize(v) == IF v = None THEN 0
                 ELSE HeaderSize[v] + CalculateEncryptedSize(PlainSize[v])

FuseIdle == [pc |-> "idle", file |-> None, header |-> NoHeader, offset |-> 0,
             size |-> 0, pieces |-> <<>>, got |-> <<>>, fetched |-> None,
             result |-> "none", floor |-> {}]
ClearIdle == [pc |-> "idle", target |-> {},
              listing |-> [f \in Files |-> 0], found |-> {},
              since |-> [f \in Files |-> {}]]

SumSizes(nd) == MapThenSumSet(LAMBDA f : nd[f].size, Files)

Headers == [value : Stored, owner : BOOLEAN]
ReadPieces == [chunk : Nat, from : Nat, to : Nat]
FuseStates ==
    [pc : {"idle", "header", "reencrypt", "chunk", "store", "answer"},
     file : Files \cup {None}, header : Headers, offset : Int, size : Int,
     pieces : Seq(ReadPieces), got : Seq(Stored), fetched : Stored,
     result : {"none", "data", "empty", "denied", "error"},
     floor : SUBSET Stored]
ClearStates ==
    [pc : {"idle", "listed"}, target : SUBSET Files,
     listing : [Files -> Nat], found : SUBSET Files,
     since : [Files -> SUBSET Stored]]

TypeOK ==
    /\ obj \in [Files -> Stored] /\ vault \in [Files -> Stored]
    /\ node \in [Files -> [size : Int, offset : Nat \cup {-1, -2}]]
    /\ \A f \in Files : node[f].size > -MacSize
    /\ headers \in [Files -> Headers]
    /\ cache \in [Files -> [Chunks -> [version : Stored, length : Nat]]]
    /\ opened \subseteq Files
    /\ fuse \in FuseStates /\ clear \in ClearStates
    /\ allowed \in [Files -> SUBSET Stored]
    /\ status \in {"running", "crashed"}

(* InitialiseFilesystem has listed the bucket.                              *)
FreshNode(f) == [size |-> StoredSize(obj[f]), offset |-> -1]
FreshHeader(f) == [value |-> None, owner |-> f \in Shared]

Init ==
    /\ obj \in [Files -> Versions]
    /\ vault = [f \in Files |-> IF HeaderSize[obj[f]] = 0 THEN obj[f] ELSE None]
    /\ node = [f \in Files |-> FreshNode(f)]
    /\ headers = [f \in Files |-> FreshHeader(f)]
    /\ cache = [f \in Files |-> [c \in Chunks |-> NoChunk]]
    /\ dirSize = SumSizes(node)
    /\ opened = {}
    /\ fuse = FuseIdle
    /\ clear = ClearIdle
    /\ allowed = [f \in Files |-> {obj[f]}]
    /\ status = "running"

FuseMayStart == /\ status = "running"
                /\ fuse.pc = "idle"
                /\ Overlap \/ clear.pc = "idle"
CommandMayStart == /\ status = "running"
                   /\ clear.pc = "idle"
                   /\ Overlap \/ fuse.pc = "idle"
FuseAt(label) == status = "running" /\ fuse.pc = label

-----------------------------------------------------------------------------
(* s3_open and CheckHeaderExistence                                         *)

(* The first open marks the node as fetched before it fetches the header.   *)
OpenFirst(f) ==
    /\ FuseMayStart
    /\ node[f].offset = -1
    /\ node' = [node EXCEPT ![f].offset = 0]
    /\ fuse' = [FuseIdle EXCEPT !.pc = "header", !.file = f,
                                !.header = headers[f]]
    /\ UNCHANGED <<storage, headers, cache, dirSize, opened, clear, allowed,
                   status>>

(* Later opens only need the node to be there; -2 is answered with ENOENT.  *)
OpenAgain(f) ==
    /\ FuseMayStart
    /\ node[f].offset >= 0
    /\ opened' = opened \cup {f}
    /\ UNCHANGED <<storage, node, headers, cache, dirSize, fuse, clear,
                   allowed, status>>

(* s3_open succeeds whatever CheckHeaderExistence did.                      *)
OpenReturns == /\ opened' = opened \cup {fuse.file}
               /\ fuse' = FuseIdle

\* mutant: updateParentSizes is not called
KeepHeader_NoParents(v, offset) ==
    LET f        == fuse.file
        bodySize == node[f].size - offset
    IN  /\ OpenReturns
        /\ headers' = [headers EXCEPT
                         ![f] = IF bodySize < 0 THEN NoHeader
                                ELSE [fuse.header EXCEPT !.value = v]]
        /\ node' = [node EXCEPT ![f] =
                      [size   |-> IF bodySize < 0 THEN @.size
                                  ELSE calculateDecryptedSize(bodySize),
                       offset |-> offset]]
        /\ UNCHANGED dirSize

(* The tail of CheckHeaderExistence: the header is kept, and the size turns *)
(* from that of the encrypted object into that of the file.                 *)
KeepHeader(v, offset) ==
    LET f        == fuse.file
        bodySize == node[f].size - offset
        newSize  == calculateDecryptedSize(bodySize)
    IN  /\ OpenReturns
        /\ IF bodySize < 0
             THEN /\ headers' = [headers EXCEPT ![f] = NoHeader]
                  /\ node' = [node EXCEPT ![f].offset = offset]
                  /\ UNCHANGED dirSize
             ELSE /\ headers' = [headers EXCEPT
                                   ![f] = [fuse.header EXCEPT !.value = v]]
                  /\ node' = [node EXCEPT ![f] = [size |-> newSize,
                                                  offset |-> offset]]
                  /\ dirSize' = dirSize + newSize - node[f].size

(* GetFileHeader: a file of another project is found only by its owner.     *)
HeaderInVault(f) == vault[f] # None /\ (f \in Shared => fuse.header.owner)

GetFileHeader ==
    /\ FuseAt("header")
    /\ \/ /\ HeaderInVault(fuse.file)
          /\ KeepHeader(vault[fuse.file], node[fuse.file].offset)
       \/ /\ ~HeaderInVault(fuse.file)
          /\ IF Repository # "SD-Connect"
               THEN OpenReturns
               ELSE fuse' = [fuse EXCEPT !.pc = "reencrypt"] /\ UNCHANGED opened
          /\ UNCHANGED <<node, headers, dirSize>>
       \/ /\ "vaultFails" \in Events
          /\ OpenReturns
          /\ UNCHANGED <<node, headers, dirSize>>
    /\ UNCHANGED <<storage, cache, clear, allowed, status>>

HeaderInObject(v) == v # None /\ HeaderSize[v] > 0

(* GetReencryptedHeader: the header at the start of the object, if any.     *)
GetReencryptedHeader ==
    /\ FuseAt("reencrypt")
    /\ LET v == obj[fuse.file]
       IN  \/ /\ HeaderInObject(v)
              /\ KeepHeader(v, HeaderSize[v])
           \/ /\ ~HeaderInObject(v) \/ "storageFails" \in Events
              /\ OpenReturns
              /\ UNCHANGED <<node, headers, dirSize>>
    /\ UNCHANGED <<storage, cache, clear, allowed, status>>

Release(f) ==
    /\ FuseMayStart
    /\ f \in opened
    /\ opened' = opened \ {f}
    /\ UNCHANGED <<storage, node, headers, cache, dirSize, fuse, clear,
                   allowed, status>>

-----------------------------------------------------------------------------
(* s3_read and DownloadData                                                 *)

Answer(r) == fuse' = [fuse EXCEPT !.pc = "answer", !.result = r]

(* Header, offset and size are read once, before the first chunk.           *)
Read(f, start) ==
    /\ FuseMayStart
    /\ f \in opened
    /\ LET request == [FuseIdle EXCEPT !.file = f, !.header = headers[f],
                          !.offset = node[f].offset, !.size = node[f].size,
                          !.floor = allowed[f]]
       IN  fuse' = CASE headers[f].value = None ->
                          [request EXCEPT !.pc = "answer", !.result = "denied"]
                     [] headers[f].value # None /\ start >= node[f].size ->
                          [request EXCEPT !.pc = "answer", !.result = "empty"]
                     [] OTHER ->
                          [request EXCEPT !.pc = "chunk",
                             !.pieces = Pieces(start, start + ReadSize,
                                               node[f].size)]
    /\ UNCHANGED <<storage, node, headers, cache, dirSize, opened, clear,
                   allowed, status>>

Current == Head(fuse.pieces)
Cached == cache[fuse.file][Current.chunk]

(* A piece of version v is in the buffer; go on to the next one.            *)
Take(v) == [fuse EXCEPT
              !.got = Append(@, v), !.pieces = Tail(@), !.fetched = None,
              !.pc = IF Len(fuse.pieces) = 1 THEN "answer" ELSE "chunk",
              !.result = IF Len(fuse.pieces) = 1 THEN "data" ELSE "none"]

(* A slice past the end of the cached chunk panics in the FUSE thread.      *)
ChunkFromCache ==
    /\ FuseAt("chunk")
    /\ Cached # NoChunk
    /\ IF Current.to - Current.chunk * ChunkSize <= Cached.length
         THEN fuse' = Take(Cached.version) /\ UNCHANGED status
         ELSE status' = "crashed" /\ UNCHANGED fuse
    /\ UNCHANGED <<storage, node, headers, cache, dirSize, opened, clear,
                   allowed>>

(* Decryption is authenticated: only with the version's own header, read    *)
(* from the right place and to the end of a block, does it give data, and   *)
(* io.ReadFull wants all of the chunk.                                      *)
Decrypts(v, chunk) ==
    LET range == ChunkRange(chunk, fuse.offset, fuse.size)
        end   == Least(range.to, StoredSize(v))
    IN  /\ v # None
        /\ fuse.header.value = v
        /\ fuse.offset = HeaderSize[v]
        /\ end = StoredSize(v) \/ (end - fuse.offset) % CipherBlockSize = 0
        /\ ChunkLength(chunk, fuse.size)
             <= calculateDecryptedSize(end - range.from)

FetchChunk ==
    /\ FuseAt("chunk")
    /\ Cached = NoChunk
    /\ \/ /\ Decrypts(obj[fuse.file], Current.chunk)
          /\ fuse' = [fuse EXCEPT !.pc = "store", !.fetched = obj[fuse.file]]
       \/ /\ \/ ~Decrypts(obj[fuse.file], Current.chunk)
             \/ "storageFails" \in Events
          /\ Answer("error")
    /\ UNCHANGED <<storage, node, headers, cache, dirSize, opened, clear,
                   allowed, status>>

(* The chunk is cached under the file's name, whatever happened meanwhile.  *)
StoreChunk ==
    /\ FuseAt("store")
    /\ cache' = [cache EXCEPT ![fuse.file][Current.chunk] =
                   [version |-> fuse.fetched,
                    length |-> ChunkLength(Current.chunk, fuse.size)]]
    /\ fuse' = Take(fuse.fetched)
    /\ UNCHANGED <<storage, node, headers, dirSize, opened, clear, allowed,
                   status>>

ReadReturns ==
    /\ FuseAt("answer")
    /\ fuse' = FuseIdle
    /\ UNCHANGED <<storage, node, headers, cache, dirSize, opened, clear,
                   allowed, status>>

-----------------------------------------------------------------------------
(* ClearPath and UpdateFilesystem                                           *)

(* The two listings, GetObjects and getObjectSizesFromSegments. A failed    *)
(* GetObjects leaves everything as it is; without the segments a segmented  *)
(* object seems to be empty.                                                *)
ListForClear(target) ==
    /\ CommandMayStart
    /\ Repository = "SD-Connect"
    /\ \E unknown \in {{}} \cup (IF "segmentsFail" \in Events THEN {Segmented}
                                                             ELSE {}) :
         clear' = [pc |-> "listed", target |-> target,
                   listing |-> [f \in Files |-> IF f \in unknown THEN 0
                                                ELSE StoredSize(obj[f])],
                   found |-> {f \in target : obj[f] # None},
                   since |-> [f \in Files |-> {obj[f]}]]
    /\ UNCHANGED <<storage, node, headers, cache, dirSize, opened, fuse,
                   allowed, status>>

\* What ClearNodes does to the nodes and the headers of the path.
Cleared(f) == [size   |-> IF f \in clear.found THEN clear.listing[f] ELSE 0,
               offset |-> IF f \in clear.found THEN -1 ELSE -2]
Clearing(old, new) ==
    [f \in Files |-> IF f \in clear.target THEN new[f] ELSE old[f]]

\* kept[f] are the chunks of f that stay in the cache.
ClearNodesBut(kept) ==
    /\ status = "running" /\ clear.pc = "listed"
    /\ node' = Clearing(node, [f \in Files |-> Cleared(f)])
    /\ cache' = Clearing(cache, [f \in Files |-> [c \in Chunks |->
                   IF c \in kept[f] THEN cache[f][c] ELSE NoChunk]])
    /\ headers' = Clearing(headers, [f \in Files |-> NoHeader])
    /\ allowed' = Clearing(allowed, clear.since)
    /\ dirSize' = dirSize + SumSizes(node') - SumSizes(node)
    /\ clear' = ClearIdle
    /\ UNCHANGED <<storage, opened, fuse, status>>

\* mutant: the download cache is left alone
ClearNodes_KeepsCache == ClearNodesBut([f \in Files |-> Chunks])

\* mutant: only the first chunk of a file is deleted from the cache
ClearNodes_FirstChunk == ClearNodesBut([f \in Files |-> Chunks \ {0}])

(* clearNode on every file of the path, and updateParentSizes. The header   *)
(* is forgotten with its owner: GetObjects does not return owners. Only the *)
(* chunks that start below the node's present size are deleted.             *)
ClearNodes ==
    ClearNodesBut([f \in Files |->
                       {c \in Chunks : c * ChunkSize >= node[f].size}])

\* mutant: ClearCache is not called
UpdateFilesystem_KeepsCache ==
    /\ CommandMayStart
    /\ opened = {} /\ fuse.pc = "idle"
    /\ \A f \in Files : obj[f] # None
    /\ node' = [f \in Files |-> FreshNode(f)]
    /\ headers' = [f \in Files |-> FreshHeader(f)]
    /\ dirSize' = SumSizes(node')
    /\ allowed' = [f \in Files |-> {obj[f]}]
    /\ UNCHANGED <<storage, cache, opened, fuse, clear, status>>

(* applyCommand's update, as one step, when it finds the same files again.  *)
UpdateFilesystem ==
    /\ CommandMayStart
    /\ opened = {} /\ fuse.pc = "idle"
    /\ \A f \in Files : obj[f] # None
    /\ node' = [f \in Files |-> FreshNode(f)]
    /\ headers' = [f \in Files |-> FreshHeader(f)]
    /\ cache' = [f \in Files |-> [c \in Chunks |-> NoChunk]]
    /\ dirSize' = SumSizes(node')
    /\ allowed' = [f \in Files |-> {obj[f]}]
    /\ UNCHANGED <<storage, opened, fuse, clear, status>>

-----------------------------------------------------------------------------
(* The world outside *)

Seen(f, v) ==
    /\ allowed' = [allowed EXCEPT ![f] = @ \cup {v}]
    /\ clear' = [clear EXCEPT !.since[f] = IF clear.pc = "idle" THEN @
                                           ELSE @ \cup {v}]
    /\ fuse' = [fuse EXCEPT !.floor = IF fuse.file = f /\ fuse.pieces # <<>>
                                        THEN @ \cup {v} ELSE @]

(* An upload by another gateway posts the header first.                     *)
PutHeader(f, v) ==
    /\ status = "running" /\ "write" \in Events /\ f \in Rewritten
    /\ HeaderSize[v] = 0
    /\ vault' = [vault EXCEPT ![f] = v]
    /\ UNCHANGED <<obj, node, headers, cache, dirSize, opened, fuse, clear,
                   allowed, status>>

PutObject(f, v) ==
    /\ status = "running" /\ "write" \in Events /\ f \in Rewritten
    /\ v # obj[f]
    /\ obj' = [obj EXCEPT ![f] = v]
    /\ Seen(f, v)
    /\ UNCHANGED <<vault, node, headers, cache, dirSize, opened, status>>

Evict(f, c) ==
    /\ status = "running" /\ "evict" \in Events
    /\ cache[f][c] # NoChunk
    /\ cache' = [cache EXCEPT ![f][c] = NoChunk]
    /\ UNCHANGED <<storage, node, headers, dirSize, opened, fuse, clear,
                   allowed, status>>

-----------------------------------------------------------------------------
Next ==
    \/ \E f \in Files : OpenFirst(f) \/ OpenAgain(f) \/ Release(f)
    \/ GetFileHeader \/ GetReencryptedHeader
    \/ \E f \in Files : \E start \in 0 .. node[f].size : Read(f, start)
    \/ ChunkFromCache \/ FetchChunk \/ StoreChunk \/ ReadReturns
    \/ \E f \in Files : ListForClear({f})
    \/ ListForClear(Files)
    \/ ClearNodes \/ UpdateFilesystem
    \/ \E f \in Files, v \in Versions : PutHeader(f, v)
    \/ \E f \in Files, v \in Stored : PutObject(f, v)
    \/ \E f \in Files, c \in Chunks : Evict(f, c)

Spec == Init /\ [][Next]_vars
-----------------------------------------------------------------------------
(* Properties *)

(* No read slices a chunk past its end, which would panic the FUSE thread   *)
(* and take the mount down, and one that is answered is answered with bytes *)
(* of one version of the file: chunks of the cache and chunks fetched now   *)
(* are never mixed across an upload.                                        *)
ReadsOneVersion ==
    /\ status = "running"
    /\ fuse.result = "data" =>
         \A i, j \in DOMAIN fuse.got : fuse.got[i] = fuse.got[j]

(* README, on clear: the new content is read from the storage. A read that  *)
(* starts after ClearPath has returned gives no version of the file that    *)
(* was replaced before ClearPath was called.                                *)
FreshAfterClear ==
    fuse.result = "data" =>
      \A i \in DOMAIN fuse.got : fuse.got[i] \in fuse.floor

(* While commands are only given when FUSE is quiet, headers, nodes, chunks *)
(* and the cache only show as steps of RemoteFiles, or not at all: what a   *)
(* read is given, it could have been given at once.                         *)
Remote == INSTANCE RemoteFiles WITH
            stored <- obj, fresh <- allowed,
            refreshed <- clear.target, since <- clear.since,
            answer <- IF fuse.result = "data"
                      THEN <<fuse.file, {fuse.got[i] : i \in DOMAIN fuse.got}>>
                      ELSE <<>>

ImplementsRemoteFiles == Remote!Spec

(* Every cached chunk of a file whose header is loaded is as long as the    *)
(* file's size says, so no read slices past its end.                        *)
CacheMatchesSize ==
    \A f \in Files, c \in Chunks :
      headers[f].value # None /\ cache[f][c] # NoChunk
        => cache[f][c].length = ChunkLength(c, node[f].size)

(* While commands are only given when FUSE is quiet, the directory's size   *)
(* is the sum of its files' sizes, through every sequence of opens, which   *)
(* shrink files to their plain size, and clears; and what an open           *)
(* calculates is never below zero by a tag or more, also when the listing   *)
(* is not of the object that is opened.                                     *)
SizesAddUp == /\ dirSize = SumSizes(node)
              /\ \A f \in Files : node[f].size > -MacSize

(* helpers.h: an offset of -1 says the header has not been fetched, one     *)
(* that is not negative is the offset of the body in the object. Once the   *)
(* header was looked for and is there to be found, an opened file has it.   *)
OffsetMeansHeader ==
    fuse.pc = "idle" =>
      \A f \in Files : node[f].offset >= 0 => headers[f].value # None

(* actions_test.go: clearing a shared bucket keeps the owner of its files,  *)
(* without which their headers are not found.                               *)
OwnerKept == \A f \in Shared : headers[f].owner

(* A file that was opened and whose header is to be found in Vault is not   *)
(* refused to its reader.                                                   *)
NeverDenied == fuse.result # "denied"
=============================================================================
