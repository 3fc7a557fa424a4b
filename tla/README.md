# Data Gateway in TLA+

TLA+ models of the Data Gateway (`sda-filesystem`), the TLC runs that check
them, and the TLAPS proofs about them. Paths below are relative to the root of
the repository.

The Data Gateway mounts the objects of SD Connect (S3) and SD Apply as a FUSE
filesystem, decrypts them while they are read, and exports files, encrypted,
to SD Connect. Go holds the logic, C the FUSE callbacks; a CLI and a Wails GUI
drive it.

## Inventory

| Part | State | Operations | Interacts with |
|---|---|---|---|
| Mount life cycle (`internal/filesystem`, `cmd/cli/import.go`, `cmd/gui/app.go`) | `fi.mu`, `fi.nodes`, `a.mounted`, `preventQuit`, the kernel's mount | mount, `s3_init`, update, unmount, `s3_destroy`, SIGINT, Quit, close | libfuse (callbacks on the mounting thread), fusermount3, Vault |
| File access (`actions.go`, `enabled.c`, `s3.go`, `vault.go`) | node size and offset, `fi.headers`, `downloadCache` | open, read, `clear`, update | Vault, S3, the command goroutine, other users of the bucket |
| Node array and handles (`enabled.c`, `helpers.c`) | `nodes`, `count`, `fi->fh` | `search_node`, opendir, readdir, `free_nodes`, `FilesOpen` | update |
| Tree building (`filesystem.go`) | the Go tree, then the C array | `makeNode`, `createLevel`, `addNodeChildrenToC` | workers, S3 listings |
| Worker pool and progress (`createObjects`, `projects.go`) | the job channel, `ph.prog` | one job per bucket | GUI events |
| Airlock upload (`internal/airlock`) | pipes, `errc1`, `errc2`, the errgroup's context | `Upload`, `UploadObject`, `encrypt`, `uploadAllas`, `uploadFindata` | Vault, SD Connect, CESSNA |
| Selection of files (`WalkDirs`) | the channel of found files, the errgroup's context | walk, collect, reject clashes | the file system, the export page |
| Export page and command (`ExportPage.vue`, `export.go`, `ValidateBucket`, `CheckObjectExistences`) | the bucket chosen, `uniqueBucket`, the list of files | choose a bucket, add files, confirm, export | the user, `WalkDirs`, `Upload`, S3 |
| Vault client (`vault.go`) | `whitelistedProjects` | get header, whitelist, delete keys, post header | FUSE thread, unmount |
| HTTP client and login (`api.go`, `cmd/cli/main.go`) | token, password, endpoints | `makeRequest`, `GetProfile`, `Authenticate`, `Setup` | KrakenD |
| Crypt4GH arithmetic (`s3.go`, `actions.go`) | none | sizes, chunks, ranges | file access, upload |
| Logs, front end pages, certificates, development tools | | | presentation and set-up |

What is hard in it:

- **Concurrency.** The FUSE thread takes no lock; commands, signals, the GUI
  and the upload goroutines run beside it. `fi.mu` is locked and unlocked in
  different functions, and twice on behalf of a C callback.
- **Other people's storage.** Objects and headers are replaced, deleted and
  re-uploaded while they are listed, opened and cached.
- **Failure.** Every request to Vault, S3 and CESSNA can fail, be carried out
  without an answer or after it was given up, and most failures are only logged.
- **Stale answers.** The export page waits for the back end in several handlers
  at once, and what they answer is about what was on the page before.
- **Order.** Errors cross two channels and a pipe; keys are deleted, then the
  mount; the header is posted, then the object.
- **Arithmetic** at block, chunk and file boundaries.

What makes each part correct is stated as properties in the modules; the
hazards they answer to are in `PROJECT.json`, each at its line.

## Modules

| Module | What it is |
|---|---|
| `MountLifecycle` | the goroutines of mount, update, unmount and the front ends over `fi.mu` |
| `MCMountLifecycle` | its TLC instances (`MountLifecycle_*.cfg`) |
| `MountLifecycleProofs` | theorems for any number of updates and unmounts |
| `Crypt4GHSizes` | sizes, chunks and ranges as operators |
| `MCCrypt4GHSizes` | enumeration of sizes and reads |
| `RemoteFiles` | what the mount promises readers: the abstract specification of `FileAccess` |
| `FileAccess` | opening, reading and clearing the files of a bucket; uses `Crypt4GHSizes`, implements `RemoteFiles` |
| `MCFileAccess` | its TLC instances |
| `FileAccessProofs` | theorems about `Crypt4GHSizes`, for every block size, chunk size and file size, and about `FileAccess`, for any files, uploads and sizes, the refinement among them |
| `Session` | the profile, the login, and whitelisted keys between opens and Ctrl+C, over `makeRequest` |
| `MCSession` | its TLC instance |
| `SessionProofs` | theorems for any projects, numbers of attempts and events |
| `BuildPool` | the jobs, workers and progress of `InitialiseFilesystem`, whatever is in the buckets |
| `BuildPoolProofs` | theorems for any number of repositories, buckets, workers and updates |
| `FilesystemBuild` | all of `InitialiseFilesystem`: `BuildPool` with the tree, the node array and `search_node`; implements `PoolSpec` |
| `MCFilesystemBuild` | small storages whose names clash |
| `NodeTable` | the node array between FUSE requests, descriptors and updates |
| `MCNodeTable` | its TLC instances |
| `NodeTableProofs` | theorems for any number of paths, descriptors and updates |
| `UploadSet` | what `Upload` promises its callers: the abstract specification of `AirlockUpload` |
| `AirlockUpload` | the upload of a set of files; implements `UploadSet` |
| `MCAirlockUpload` | its TLC instances |
| `AirlockUploadProofs` | theorems for any set of objects, both kinds of projects and every failure, the refinement among them |
| `WalkDirs` | the walkers and the collector that select files |
| `MCWalkDirs` | small selections |
| `WalkDirsProofs` | theorems for any number of walkers and entries |
| `Export` | the export page and the export command, from the bucket to the end of the upload |
| `MCExport` | its TLC instances |
| `ExportProofs` | theorems for any buckets, objects, bounds on the user and events |

`MountLifecycle`, `NodeTable` and `FilesystemBuild` look at an update from three
sides: who may begin one and how the lock is handed on; what it does to
requests and descriptors that refer to nodes; what it builds. `MountLifecycle`
takes a build as one step and a FUSE request as `busy`; `NodeTable` takes the
array as an injection of paths into indices, which `NodesAreFound` of
`FilesystemBuild` justifies, and `FilesystemBuild` takes `fi.mu` as held, which
`LockInv` of `MountLifecycle` justifies. `Export` takes `WalkDirs` and `Upload`
as calls that answer once: `AnswerIsTrue` of `WalkDirs` and `UploadSet` say with
what. `FileAccess` takes `GetFileHeader` as a call that may fail; `Session` says
when.

Definitions whose comment begins with "mutant:" are not part of the model: each
is a plausible mistake in the definition named in front of the underscore, and
`PROJECT.json` says which property notices it.

### MountLifecycle

`pc` says where each goroutine is: the mounter (which becomes the FUSE thread),
the updates, the unmounts. An action is the code between two points at which
another goroutine can tell the difference: taking `fi.mu`, a call of a
callback, a network call, a change of the kernel's mount. `lock` and `readers`
are the RWMutex; it does not know who unlocks it, which the code relies on
(`GetFilesystem` unlocks what `MountFilesystem` locked). `tree` is the node
array, `listener` the goroutine behind `<-wait`, `busy` that a process has
something of the mount open, `keys` that Vault has a whitelisted key.
`FilesOpen` is the guard of `UpdateRequest`: it is checked before the lock is
taken and never again.

`Events` switches on what the environment may do. The runs leave out the events
whose effect is a disagreement with the documentation (below).

*Fairness.* Each goroutine is weakly fair. Taking `fi.mu` is strongly fair:
`sync.RWMutex` blocks new readers when a writer waits, lets waiting readers in
at Unlock, and hands its inner mutex to a waiter that was passed over for 1 ms.
Users are not fair: nobody has to close a file or give a command.

### Crypt4GHSizes

`CalculateEncryptedSize`, `calculateDecryptedSize`, the split of a read into
chunks (`DownloadData`) and the range of the object that holds a chunk
(`getDataChunk`), with the block size, the MAC size and the number of blocks in
a chunk as constants. `math.Ceil` of a float quotient is modelled as exact: a
float64 holds every size below 2^53 and S3 objects end at 5 TiB.

### FileAccess

The FUSE thread (`fuse`) and the command goroutine (`clear`) over the nodes,
`fi.headers` and the cache. A step is what a thread does between two network
calls. A *version* stands for one upload of a file: decryption is authenticated,
so data comes out only when header, offset and object belong together
(`Decrypts`). `allowed` is not a variable of the code: it records which versions
a read may still return, and is what `FreshAfterClear` is stated with.
The names of the path are abstracted to the set of files they select. An
access to a Go map or to a node is one step, and so is what a thread does to
several of them between two network calls: `ClearNodes` clears all files of the
path, `KeepHeader` adjusts a node and the sizes above it. With `Overlap` the
code keeps none of this together. That two accesses coincide (a fatal error of
the Go runtime for a map) is not modelled, and nothing is claimed of sizes
that two threads adjust at once: `SizesAddUp` is stated for `Overlap = FALSE`.

`Overlap = FALSE` lets commands be given only while FUSE serves no request and
FUSE start only while no command runs. What holds then is checked by the
passing run; what is lost without it is shown by `FileAccess_stale_cache`. In the
code nothing keeps commands and requests apart. With overlap `ReadsOneVersion` fails for the same reason: the chunk that comes back
is mixed with fresh ones, or is sliced past its end. `Rewritten` names the files
that others replace and delete. `MaxSize` is the largest object that storage
takes (5 TiB in S3); the chunks that the cache may be asked for follow from it.

`RemoteFiles` leaves out headers, sizes, chunks and the cache: a read is given
one upload of the file, one that was stored since the last refresh began. The
mapping `Remote` takes `obj` for what is stored, `allowed` for what is fresh, the
target of a command for what is being refreshed, and for the answer the set of the
versions that its pieces are of, which there has one member. A read that fails
has no answer there. So `ImplementsRemoteFiles` says at once what
`ReadsOneVersion` and `FreshAfterClear` say of single states, and that what may
be read changes only as the abstract specification lets it.

### AirlockUpload

Three goroutines for each object: `main` (`UploadObject`), `writer` (`encrypt`,
or the tee of `uploadFindata`, which `main` runs itself) and `uploader`
(`uploadAllas`). The pipe is a rendezvous (`PassHeader`, `PassBlock`,
`FlushAndClose`), as `io.Pipe` is. The read end is closed when `uploadAllas`
has returned. A failed request may have been carried out (`AllasFails`). The
errgroup's context is `cancelled`; it reaches the uploads to S3 and CESSNA but
not the requests to Vault.

*Fairness.* Each goroutine is weakly fair. Requests end: `makeRequest` has a
deadline and the S3 client the time-outs of its transport.

`UploadSet` leaves out goroutines, channels and pipes: each object is stored at
most once and after its header, gets one outcome and is left alone; only a
project without a mirror may get a truncated object or lose one; the answer is
nil only when all succeeded, and nothing changes after it. The refinement
mapping `Set` in `AirlockUpload` takes the errgroup's state for the answer,
`result` for the outcomes and storage as it is; everything else stutters.

### Session

The main thread logs in and then serves FUSE (`-s`); the handler of signals runs
beside it. `request` holds each thread's call of `makeRequest`. An attempt may be
answered, answered with an error status (not tried again), lost on the way there
or back, or carried out late (`Arrives`); the deadline (`Expires`) lets the
attempts that are left fail at once. `vault` is what the requests are about,
`whitelistedProjects` what the program believes. `append` is two steps, the
read (`Whitelisted`) and the write (`AppendProject`), because `ForgetProjects`
may come in between; that the words of the slice are torn is `TornList`.

*Fairness.* The two threads run. A pending request takes some step, because of
its deadline. Users need not act and late requests need not arrive.

### Events and faults

`Session`, `NodeTable` and `Export` describe code that has no answer to certain
coincidences. `events`, chosen at the start of a behaviour, says which of them
may happen in it; `faults` records what went wrong. `FaultsHaveCauses` says that
a fault happens only in a behaviour with an event that leads there (`Leads`): in
one without events nothing goes wrong, and each event does only the harm named.
Every pair of an event and a fault in the `Leads` of `Session` and of
`NodeTable` was seen to happen with that event alone, so the tables claim no
more than there is. The events are not excuses: those that contradict the
documentation are listed under Other disagreements.

### FilesystemBuild

`tree` is the Go tree as a function from paths to nodes, a path being the names
shown. Names are `[stem, c4gh]` with a mark for the digits of the hash that
`makeNode` appends; what is hashed stands for the hash, so that six digits never
collide. `NodeArray` lays the tree out with the children of a node side by side in the
order of `compare_nodes`, and `search_node` looks a path up in it by binary
search, as the C code does.

`BuildPool` has the variables and actions that do not depend on what is in the
buckets, and `FilesystemBuild` is built from these actions. Workers take jobs from
the channel in any order and each may fail, or end by a panic, which the GUI
recovers from (`ended`); when all have ended the jobs left in the channel are
lost. A panic halfway through `createLevel`, which leaves half a bucket in the
tree, is not modelled, nor is one of the CLI, which ends the process. `prog` is
the map of `ProjectHandler`, `page` what the access page has been told.
`Announce` is the listing of one repository as seen from there: new jobs, each
counted once in the row of its project. That `ListBuckets` and `FillBucket` do
this whatever the names in the buckets are, and where at most two buckets or
datasets of a repository are shown alike, is the property `PoolSpec` of the run.
With three alike it fails (Other disagreements), and `NoThreeAlike` of
`MCFilesystemBuild` leaves such storages out.

*Fairness.* The build and its workers run; listings answer or fail.

### NodeTable

`count` and the nodes are set at different times: between `SetCount` and
`Fill` the root is said to be there and nothing is. A FUSE request finds a node
by path, or by the index in its descriptor, or by the pointer that `s3_open`
holds over the network. No lock keeps it and `free_nodes` apart, so a request is
two steps: the first sees a count that is not 0 (`BeginGetattr`, `BeginOpen`,
`BeginRead`, `BeginReaddir`), the second is done with the array (`Fails`,
`OpenKnown`, `OpenReturns`, `ReadReturns`); `OpenFirst`, the request for a
header, comes between. `fuse` holds the request, and whether the array it is in
is whole, bare (counted and not written) or freed. The walks of `FilesOpen` and
of `GetNodeChildren` are two steps in the same way (`BeginWalk`, then `Look` or
`Listed`). `FreeNodes` may come between the two steps of any of them, and is a
fault when it does: what a walk reads afterwards is freed, at whichever of its
memory accesses. The several writes of `free_nodes` need no steps of their own
then: a request that begins among them sees a count of 0, as it does after them.

`FilesOpen` looks at one descriptor after the other (`Look`), in any order, and
the first in use ends it: one that is open on a file or on a directory without
children, or whose position is not 0. `Rewind` sets the position back. A build
that panics in the GUI gives `fi.mu` back with nothing built (`BuildPanics`);
`checkPanic` recovers before the deferred `Unlock`. No fairness: the module has
safety properties only.

### WalkDirs

What a walk meets is a sequence of entries. `found` is appended to by the
collector, which receives from an unbuffered channel; the first error cancels
the context of the others; an error returns without closing the channel.

*Fairness.* All goroutines run.

### Export

The handlers of the page run one at a time but wait for calls of the back end,
which answer in any order where the events allow it. `bucket`, `unique` and
`set` are the refs of the page, `confirmed` records what the user agreed to
overwrite and `own` what this export has written: neither is in the code. The
list of `set` is a sequence with one set of items for each call of `WalkDirs`:
within a call no object occurs twice (`AnswerIsTrue` of `WalkDirs`) and the order
of its objects decides nothing, while between calls an object may be listed
twice (`Twice`) and "Remove from list" takes the first. The export command does the same things in sequence and asks on the terminal.

*Fairness.* The back end answers.

## Runs

| Run | Shows | Bounds |
|---|---|---|
| `MountLifecycle_cli` | array used by one at a time and whole when unlocked; Ctrl+C ends the process; updates complete | 1 update goroutine (applyCommand is one), 1 unmount (the SIGINT loop is one) |
| `MountLifecycle_gui` | who holds `fi.mu`; nothing rebuilt after destroy; no close over a mount; Quit answers | 2 updates, 2 Quits: Wails runs each call in a goroutine, two suffice for every pair |
| `Crypt4GHSizes` | round trip, reads, ranges | files of 1 to 34 bytes with blocks of 4 and chunks of 8: every position relative to two block and chunk boundaries |
| `FileAccess_quiet` | one version, fresh, no slice past a chunk, directory size is a sum and no size below minus a MAC, implements `RemoteFiles` | 2 files, one shared, one that others rewrite; 3 versions (two lengths of the second chunk, one header in the object), chunks of one block, all failures, clear of a file and of the bucket; the uploads have 2, 4 and 3 bytes, so that chunks are short, full, and missing; a MAC of 2 bytes and a header of 3, so that an open can calculate a size of -1 |
| `AirlockUpload_allas` | nil means stored, header first, nothing left running, Upload returns, implements `UploadSet` | 3 objects, 2 routines, 2 blocks (one through Write, one through Close) |
| `AirlockUpload_findata` | no truncated object, Upload returns | 2 objects, 2 routines, 2 blocks |
| `Session` | login; keys known, and deleted with the program; no open refused; opens and Ctrl+C return | 2 projects, 2 attempts of a request (first and last), any two events at once; `CSC_PASSWORD` fixed where it is not read |
| `FilesystemBuild` | every object a file under one name, every node found, sizes and progress true, implements `PoolSpec`, the build ends | 2 workers; up to 3 of 8 keys that clash as files, directories, invalid characters and `.c4gh`, a bucket with segments, a shared bucket, and up to 2 of 3 datasets that are shown alike; every listing may fail and every worker panic |
| `NodeTable` | requests and walks use their own, whole nodes unless an event | a file and a directory, 2 descriptors, 2 updates, 2 indices besides the root, each of which may be renamed (symmetry); at most one event in a behaviour, so that each fault is put down to one. Any set of events is proved |
| `WalkDirs` | the answer depends on the selection alone; a set is final; it returns | 2 walkers of up to 2 entries of 5 kinds, any files selected before |
| `Export` | nothing overwritten, misdirected or doubled unless an event; the list is checked; the progress page is left | 3 buckets (own, free, another project's), 2 objects, 2 names typed, 2 additions, at most one event in a behaviour |

None of the models counts without bound: versions, chunks, blocks, entries and
attempts are finite sets, and `MaxTyped` and `MaxAdds` bound what a user does.
Deadlock is not checked where the program may stop (the process ends, the upload
returns, no request is made). The type invariants of `MountLifecycle`,
`NodeTable`, `AirlockUpload` and `FileAccess` are proved and are not in the runs
again, nor is `ImplementsUploadSet` in `AirlockUpload_findata`.

One run ends in a violation, which shows where the code does not do what its
documentation says; `PROJECT.json` quotes the sentence.

| Run | What happens |
|---|---|
| `FileAccess_stale_cache` | a read in flight puts an old chunk back after `clear` |

### Other disagreements

Met in the same models and reproduced while they were written, but without a
run of their own. Each names the property and the events or constants that
break it.

Mount and update:

- After `fusermount -u` elsewhere, Quit hangs on the read lock of `s3_destroy`
  (`QuitSettles` with `"externalUnmount"` in `Events`, GUI).
- Quit before fuse is ready closes the window and leaves the mount, although
  `CHANGELOG.md:113` says the GUI cannot be closed before unmounting succeeds
  (`ClosedMeansUnmounted` with `"earlyQuit"`, GUI).
- A failed `fuse_main` leaves `fi.mu` locked and Quit hangs (`QuitSettles` with
  `"mountFailure"`, GUI).
- Ctrl+C before the lock exists is lost: the CLI goes on to mount
  (`InterruptEndsProcess` with `"earlyInterrupt"`, CLI).
- The ready signal of `InitialiseFilesystem` is sent in a `select` with a
  `default`; without a receiver it is dropped and the CLI never reads a command
  (`ReadyIsAnnounced`, CLI, no events).
- `CHANGELOG.md:224` has whitelisted keys be valid until Data Gateway is shut
  down. They outlive it when a file is opened between their deletion and the
  unmount (`ShutDownRevokesKeys` of `MountLifecycle`), and in each of the ways
  that `Leads` of `Session` has under `"leaked"`.
- `CHANGELOG.md:586` says there is no update while files are in use. There is
  one while `s3_open` waits for the network (`NoUpdateInUse` of `NodeTable` under
  `SlowOpenSpec`).
- `CHANGELOG.md:138` says that the array is protected from being accessed when it
  is uninitialized. The check of the count does that until `filesystem.go:239`
  sets it to 1; from there until the nodes are written, a request walks what
  `malloc` returned ("uninitialised" in `FaultsHaveCauses` of `NodeTable`, event
  "earlyCount").
- `helpers.c:39` sets the count to 0 first "in case someone tries to access nodes
  when freeing memory", and `enabled.c:63` checks it "just in case function is
  called during update". This keeps out who comes later, and not who has already
  seen the count: a `getattr` needs no descriptor, so `FilesOpen` does not know of
  it, and the array is freed while it searches ("freed" in `FaultsHaveCauses`,
  event "midSearch").

File access:

- One failed request to Vault makes a file unreadable until it is cleared,
  although `helpers.h:20` says that an offset of -1 means that the header has not
  been fetched (`OffsetMeansHeader` of `FileAccess` with `"vaultFails"`).
- `clear` forgets the owner of shared files, which `actions_test.go:563` and
  `:593` expect to be kept (`OwnerKept` with a file in `Shared`).
- `clear` takes the header away from files that are open; reads through the old
  handle are then refused (`NeverDenied`).
- `clear /` names the root, whose path has one element; `actions.go:296` takes
  the second.

The tree and its progress:

- A file `a?` disappears when directories `a?` and `a_` exist as well: the mark
  that makes it unique was given to the directory before
  (`filesystem.go:471-498`; `MarkUsedTwice` of `MCFilesystemBuild` leaves such
  listings out, without it `ObjectsAreFiles` fails).
- Of three datasets that have one name without their schemes (`d`, `x:d`, `y:d`),
  the second and the third get the same mark, as the name that is hashed has lost
  the scheme already (`filesystem.go:184-195`, `:472`). The third replaces the
  second, and the page counts a bucket that is never done (`ObjectsAreFiles`,
  `PoolInv` and `PoolSpec` of `FilesystemBuild` without `NoThreeAlike`).
- An object `a//b` is listed in a directory without a name that no path leads to.
- A bucket whose listing fails is never counted, so the progress never reaches
  the end; a project that has only buckets of segments stays at 0 %.
- Two updates that overlap mix their counts on the page (`PoolInv` with
  `"update"` in `Events`).
- With no repository chosen, `filesystem.go:317` indexes an empty list.

Upload and export:

- When the file cannot be read to its end, the delete may overtake the upload and
  the truncated object stays, although `airlock_test.go:1247-1248` calls an object
  that was not deleted an error (`TruncatedIsDeleted` of `AirlockUpload`).
- `ExportPage.vue:37` says `uniqueBucket` is true if the user may create the
  bucket; it stays true after an export that created it and failed
  (`UniqueIsTrue` of `Export` under `CreatedInVainSpec`). Files added then are not
  compared with what is stored.
- In a Findata project, "Continue" pressed twice while the email address is
  checked skips the page of files: page 3 says that an export is running and
  there is none (`ProgressPageEnds` without its exception).
- The collector of `WalkDirs` is left waiting when a walk fails; nothing reads
  what it has, so only its memory is lost.
- `scanForViruses` overwrites the error of a failed write with the result of the
  next (`api.go:586-604`) and may report a scan of a part as one of the whole.

## Proofs

`MountLifecycleProofs` proves, for any sets of updates and unmounts and any
events (with the exceptions stated in the theorems):

- `TypeCorrect`;
- `LockDiscipline`: `LockInv` is an invariant when no SIGINT comes before
  `fi.mu` is set up. It says for each program counter how the lock is held:
  the mounter holds it from `build` until `s3_init`, an update and an unmount
  while they work, `s3_destroy` as a reader from then on, and before the mount
  nobody is near it. `ExclusiveTree` alone is not inductive: that two
  goroutines are not both in the array follows only from each of them holding
  the lock, and `MountResetMutex` keeps it only because nobody can hold it yet
  (`QuietBeforeMount`). The early SIGINT breaks exactly that conjunct;
- `TreeIsExclusive` and `DestroyedForGood` follow from it, the second because
  the read lock of `s3_destroy` keeps every writer out;
- `UnlockedTreeIsBuilt` adds `TreeWhole`, in the CLI or without panics;
- `NoMountLeftBehind` states `ClosedMeansUnmounted` when Quit does not come before
  fuse is ready. `KernelInv` adds where the mounter is while the kernel has the
  mount, that a Quit about to close finds it gone and the mounter past the point
  where it mounts, and that `preventQuit` is set from `InitFuse` on.

`AirlockUploadProofs` proves, from `UploadAssumption` only, all safety
properties of the upload: `NilMeansStored`, `NilMeansAll`,
`HeaderBeforeObject`, `FindataIsWhole`, `GoroutinesEnd` and `TypeCorrect`. None
of them is inductive: that `nil` from `uploadAllas` means a whole object
depends on what the writer had sent when the pipe was closed, on what it put in
its channel, and on `main` not being past that channel. `UploadInv`
(`StreamsAgree`) states this agreement for each object (`GoroutinesAgree`,
`ChannelsAgree`, `StreamAgrees`) and for the errgroup (`GroupAgrees`). A step of
one object leaves the others alone (`Elsewhere`, `UnmovedKeeps`), so each action
is looked at for its own object only (`MainKeeps`, `WriterKeeps`,
`UploaderKeeps`). `TypeOK` and `UploadInv` are proved together: that `Close`
writes the last block and not one more is part of `StreamAgrees`.

`UploadIsUploadSet` proves that `AirlockUpload` implements `UploadSet`. The
initial states agree; a step of the errgroup, of `main`, of the writer and of
the uploader is a step of `UploadSet` or leaves its variables alone
(`GroupSimulates`, `MainSimulates`, `WriterSimulates`, `UploaderSimulates`).
`UploadInv` gives what the abstract guards ask for: that a step of an object
still under way finds it without an outcome, that what is reported as uploaded
is stored, and that an object skipped was not touched.

`NodeTableProofs` proves for any sets of paths, descriptors, updates, indices and
events: `TypeCorrect`; `TableInvariant`, which says how the lock, the array, the
request and the descriptors agree at each step of an update, in parts that need
fewer events each (`LockAgrees` and `RequestAgrees` always, `OpeningAgrees` unless
a file is being opened unseen, `HandlesAgree` unless one of the events in `Unseen`
may happen); and from it `RequestsUseTheirNodes`, that is `FaultsHaveCauses`.
`FaultsHaveCauses` is not inductive: that a request finds its node rests on every
update having found no descriptor open, looking at one after the other, and on
none having been opened since. That what an open finds is in use before its
descriptor is there is `OpeningAgrees`.

`SessionProofs` proves, for any projects, any number of attempts and any set of
events, `SessionInvariant` and `Causes` (`SessionInv` and `FaultsHaveCauses`). At
rest `whitelistedProjects` is what is in Vault; that is not inductive, as a
request is carried out before its answer is read and the list is read before it
is written. `KeysAccountedFor` says what Vault has at each step in between, for
a behaviour without events; `BelievedKeysExist` says the weaker thing that is
left when other events may happen, and is what "refused" rests on.
`RequestsFit` ties each request to the place of its thread and `PasswordFits` to
the password it carries. The steps of `makeRequest` are looked at once, for all
requests (`RetryValue`, `AttemptValue`).

`WalkDirsProofs` proves `Answer` and `WalkInvariant`. That the answer is the
selection's alone rests on two facts about what is under way: an error is due to
an entry that no set can be built of (`ErrorsAreDue`), and what has been collected
is what was handed over, each once (`FoundIsSent`). The second says that there
is a bijection between the places of `found` and the places of the walks that
were passed, so a collision of names is found if and only if there is one in
the selection, in whatever order the walkers ran.

`ExportProofs` proves `Causes` and `ExportInvariant`, for the page and for the
command. The invariant is a conjunction of parts that need fewer events each:
`PageFits` (`Orderly`: the user waits) says that everything on the later pages
is about the bucket shown; `RunsFit` (without "doubleAdd") that what is looked up
was compared with the whole list, so no object is in it twice; `BucketIsKnown`
and `OverwritesAgreed` (`Careful`) that `uniqueBucket` is right once the lookups
have settled, and that every object listed is absent, flagged, agreed to or
written by this export. Each fault is excluded by one of them (`CausesFit`), so
the table `Leads` is a theorem and not only what TLC saw with one event at a
time.

`FileAccessProofs` begins with the arithmetic: the round trip of sizes, that reads
are covered, and that the range requested for a chunk decrypts to it
(`SizesRoundTripAlways`, `ReadsAlwaysCovered`, `RangesAlwaysHoldChunks`), for every
block, MAC, chunk and header size. Integer division is reduced to `DivBounds` and
`DivUnique`, and the multiplication is kept out of the solvers by naming
products. The properties of the run `Crypt4GHSizes` are the same operators
(`RoundTrip`, `PiecesCoverRead`, `RangeHoldsChunk`) over the numbers TLC
enumerates.

Of `FileAccess` it proves `Types` for every value of `Overlap`, in the grain of the
model: commands may come between the steps of a request. It says among others
that a request never asks for a chunk outside `Chunks`. It rests on
`TypesInv`: a node has a size that some version gives it, and a request asks for
what is in the size that it saw, which need not be the size that the node has
now.

Under `~Overlap`, `DirectoryAddsUp` says that the size of the directory is the sum
of the sizes of its files. (The steps of the model keep the sum with `Overlap`
too, but only because adjusting the sizes above a file is one of them; of the
code, whose threads then adjust sizes at once, this would say nothing.) The
sum is a fold over a finite set, about which the library has no theorem; `SumChanges`, how
the sum changes with one of its terms, is proved by induction over the subsets
of `Files`. The induction is stated without a parameter that is an operator, over
the set of subsets for which a fact holds (`LeastSubset`, `SubsetInduction`), from
the well-foundedness of the strict subset order.

`OneVersion`, `Fresh`, `CachedLength` and `ReadsAreRemote` are proved under
`~Overlap` as well: commands are given while FUSE is quiet. Under the constants
of `FileAccess_stale_cache` they are false without that hypothesis (the run shows
it for `FreshAfterClear`). The invariant
`Fits` says that a cached chunk was decrypted with the header that the file has
now, is of an upload that may be read, and is cut to the size of the node
(`CacheFits`); that a request under way saw what is still true (`OpenFits`,
`ReadFits`); and that what is in storage may be read (`StoredIsAllowed`). That no
read slices past a chunk needs the theorems about the arithmetic.

`ReadsAreRemote` proves that `FileAccess` implements `RemoteFiles`. A step of an
open shows nothing (`OpenShown`), a step of a read shows an answer only when it
was the last piece (`TakeShown`, `ReadShown`), a command is `BeginRefresh` and
`EndRefresh` or `Update` (`CommandShown`), and what others do is `Put`
(`WorldShown`). The guard of `Answer`, that the version is fresh, is
`CachedIsFresh`: the last piece was just cut from a chunk that `CacheFits` is
about, and all pieces are of that version.

`BuildPoolProofs` proves `PoolTypes` for every set of events, and `Progress`, that is
`PoolInv`, without "update": an update asked for during a build breaks it (Other
disagreements). `ProgressIsTrue` is not inductive. That the page's two counters
differ by the buckets that are left needs that each job is in one place and is
taken out of it once (`JobsFit`; workers that a panic ended take none, and the
last of them leaves the rest undone), that the counter was negative before the
workers started (`PageFits`), and that nothing is left of the build before when
the next one begins (`PhasesFit`). That a row is full when none of its buckets is
left needs the count of each project (`CountsFit`), and that a project is
announced with all its buckets at once, in the one repository it belongs to
(`ProjectsFit`). That a percentage below 100 stays below it after rounding is
`Quotient`.

Model-checked only:

- every liveness property: `UpdateCompletes`, `InterruptEndsProcess`,
  `QuitSettles`, `UploadReturns`, `BuildEnds`, `WalkReturns`, `ProgressPageEnds` and
  `CallsReturn`. The prover has neither fairness nor ENABLED;
- `ObjectsAreFiles`, `NodesAreFound` and `TreeSizesAddUp` of `FilesystemBuild`, and that it
  implements `PoolSpec`: the Go tree and the layout of the array are recursive
  over data whose depth is not known beforehand, and the model writes them as
  RECURSIVE operators, of which the prover knows nothing. What the proofs about
  the pool take from there is the guard of `Announce`.

## Plan

Done: the components of the inventory, their safety properties as theorems
except for the three above, and the refinements of `UploadSet` and `RemoteFiles`.
What is left, in this order:

1. `search_node` and `sort_node_children` as recursive functions over a bounded
   depth in a module of their own, so that `NodesAreFound` can be proved of an
   array in the order of `compare_nodes`.
2. What a reader is promised when commands overlap with requests: `RemoteFiles`
   with a read that may be given what was stored when it began, and the change
   to `getDataChunk` that would keep that promise.
3. The loop of `userInput`, if the CLI is ever driven by something else than a
   terminal.

## Not modelled

- `userInput`'s loop and the parsing of flags: text in, one command out. At the
  end of stdin the loop sends its last command again; stdin is a terminal.
- Paths given to `clear`, beyond the files they select.
- Logging, dialogs, presentation in the front end, the choice of a mount point:
  output and pure I/O, which decide nothing that is modelled.
- `Setup`: environment, certificates and endpoints, read once before anything
  else runs.
- Signing and contexts of the S3 client, and its own retries: a request to S3
  succeeds, fails, or fails after it was carried out.
- `scanForViruses`: a goroutine for each chunk, after the chunk was returned,
  that shares nothing.
- The development containers.
