--------------------------- MODULE MountLifecycle ---------------------------
(***************************************************************************)
(* The life of one mount of the Data Gateway: MountFilesystem, the update  *)
(* and unmount commands, the s3_init and s3_destroy callbacks libfuse      *)
(* makes on the mounting thread, and the CLI and GUI front ends that issue *)
(* the commands.  Everything meets at fi.mu, the RWMutex that is the only  *)
(* protection of the node array shared by Go and C.                        *)
(*                                                                         *)
(* An action is one atomic piece of a goroutine: what it does between two  *)
(* points where another goroutine can run and tell the difference.         *)
(***************************************************************************)
EXTENDS FiniteSets

CONSTANTS
    Mode,       \* "cli" or "gui": which front end drives the filesystem
    Mounter,    \* the goroutine in MountFilesystem; it becomes the FUSE thread
    Updaters,   \* the goroutines that may be inside UpdateFilesystem
    Quitters,   \* the goroutines that may be inside UnmountFilesystem
    NoProc,     \* the holder of an unlocked fi.mu
    Events      \* the environment events that may happen, see AllEvents

AllEvents == {"open",            \* a user process opens files in the mount
              "buildPanic",      \* InitialiseFilesystem or a worker panics
              "mountFailure",    \* fuse_main fails before s3_init
              "externalUnmount", \* fusermount -u issued outside the program
              "vaultFailure",    \* the DELETE of a whitelisted key fails
              "earlyQuit",       \* Quit is clicked before fuse is ready
              "earlyInterrupt"}  \* SIGINT arrives before fi.mu is set up

Procs == {Mounter} \cup Updaters \cup Quitters

ASSUME ConfigAssumption ==
    /\ Mode \in {"cli", "gui"}
    /\ Events \subseteq AllEvents
    /\ Mounter \notin Updaters \cup Quitters
    /\ Updaters \cap Quitters = {}
    /\ NoProc \notin Procs

VARIABLES
    pc,          \* where each goroutine is
    lock,        \* the writer holding fi.mu, or NoProc
    readers,     \* the goroutines holding a read lock of fi.mu
    tree,        \* fi.nodes: "empty" (count 0), "partial", or "built"
    listener,    \* the goroutine at <-wait: when "ready", a.mounted is true
                 \* (GUI) and applyCommand runs (CLI)
    kernel,      \* the kernel has the filesystem mounted
    busy,        \* some process has a file or directory of the mount open
    keys,        \* the vault holds a whitelisted key of this session
    preventQuit, \* App.preventQuit
    status       \* "running", or how the process ended

vars == <<pc, lock, readers, tree, listener, kernel, busy, keys,
          preventQuit, status>>

MounterLabels == {"idle", "reset", "lock", "build", "fuse", "init", "serve",
                  "destroy", "free", "returned"}
UpdaterLabels == {"idle", "lock", "free", "build", "unlock"}
QuitterLabels == {"idle", "lock", "keys", "unlock", "unmount", "close"}

Labels(p) == IF p = Mounter THEN MounterLabels
             ELSE IF p \in Updaters THEN UpdaterLabels
             ELSE QuitterLabels

PcTypeOK == /\ pc \in [Procs -> UNION {Labels(p) : p \in Procs}]
            /\ \A p \in Procs : pc[p] \in Labels(p)

TypeOK ==
    /\ PcTypeOK
    /\ lock \in Procs \cup {NoProc}
    /\ readers \subseteq {Mounter}
    /\ tree \in {"empty", "partial", "built"}
    /\ listener \in {"starting", "waiting", "ready"}
    /\ kernel \in BOOLEAN
    /\ busy \in BOOLEAN
    /\ keys \in BOOLEAN
    /\ preventQuit \in BOOLEAN
    /\ status \in {"running", "closed", "returned", "crashed"}

(* importHandler has registered SIGINT and started the listener before it  *)
(* calls MountFilesystem; the GUI waits for InitFuse.                       *)
Init ==
    /\ pc = [p \in Procs |->
               IF p = Mounter /\ Mode = "cli" THEN "reset" ELSE "idle"]
    /\ lock = NoProc
    /\ readers = {}
    /\ tree = "empty"
    /\ listener = "starting"
    /\ kernel = FALSE
    /\ busy = FALSE
    /\ keys = FALSE
    /\ preventQuit = FALSE
    /\ status = "running"

Running == status = "running"

Goto(p, label) == pc' = [pc EXCEPT ![p] = label]

-----------------------------------------------------------------------------
(* sync.RWMutex. The lock does not know who unlocks it.                     *)

CanLock == lock = NoProc /\ readers = {}

CanRLock == lock = NoProc

(* Unlock of an unlocked RWMutex is a fatal error of the Go runtime.        *)
Unlock ==
    IF lock = NoProc
      THEN status' = "crashed" /\ UNCHANGED lock
      ELSE lock' = NoProc /\ UNCHANGED status

-----------------------------------------------------------------------------
(* InitialiseFilesystem, called with fi.mu write-locked by p.               *)

(* The node array is complete; ready is offered without blocking, so the   *)
(* signal is lost unless the listener is already receiving.                *)
BuildTree ==
    /\ tree' = "built"
    /\ listener' = IF listener = "waiting" THEN "ready" ELSE listener

(* checkPanic recovers only when the GUI has installed its signal bridge;  *)
(* the CLI dies with the mount point still in the kernel.                  *)
BuildPanics(p, next) ==
    /\ "buildPanic" \in Events
    /\ tree' \in {"empty", "partial"}
    /\ IF Mode = "gui"
         THEN Goto(p, next) /\ UNCHANGED status
         ELSE status' = "crashed" /\ UNCHANGED pc
    /\ UNCHANGED <<lock, readers, listener, kernel, busy, keys, preventQuit>>

-----------------------------------------------------------------------------
(* MountFilesystem and, on the same thread, fuse_main with its callbacks.   *)

(* App.InitFuse *)
InitFuse ==
    /\ Running
    /\ Mode = "gui"
    /\ pc[Mounter] = "idle"
    /\ preventQuit' = TRUE
    /\ Goto(Mounter, "reset")
    /\ UNCHANGED <<lock, readers, tree, listener, kernel, busy, keys, status>>

(* The goroutine InitFuse and importHandler start reaches its receive.      *)
Listen ==
    /\ Running
    /\ pc[Mounter] # "idle"
    /\ listener = "starting"
    /\ listener' = "waiting"
    /\ UNCHANGED <<pc, lock, readers, tree, kernel, busy, keys, preventQuit,
                   status>>

(* fi.mu = sync.RWMutex{}: whatever state the mutex had is forgotten.       *)
MountResetMutex ==
    /\ Running
    /\ pc[Mounter] = "reset"
    /\ lock' = NoProc
    /\ readers' = {}
    /\ Goto(Mounter, "lock")
    /\ UNCHANGED <<tree, listener, kernel, busy, keys, preventQuit, status>>

MountLock ==
    /\ Running
    /\ pc[Mounter] = "lock"
    /\ CanLock
    /\ lock' = Mounter
    /\ Goto(Mounter, "build")
    /\ UNCHANGED <<readers, tree, listener, kernel, busy, keys, preventQuit,
                   status>>

MountBuild ==
    /\ Running
    /\ pc[Mounter] = "build"
    /\ \/ /\ BuildTree
          /\ Goto(Mounter, "fuse")
          /\ UNCHANGED <<lock, readers, kernel, busy, keys, preventQuit,
                         status>>
       \/ BuildPanics(Mounter, "fuse")

(* fuse_main mounts, then waits for FUSE_INIT; a failed mount returns with *)
(* fi.mu still locked, since only GetFilesystem unlocks it.                *)
FuseMount ==
    /\ Running
    /\ pc[Mounter] = "fuse"
    /\ \/ kernel' = TRUE /\ Goto(Mounter, "init")
       \/ /\ "mountFailure" \in Events
          /\ Goto(Mounter, "returned")
          /\ UNCHANGED kernel
    /\ UNCHANGED <<lock, readers, tree, listener, busy, keys, preventQuit,
                   status>>

\* mutant: s3_init does not unlock fi.mu
FuseInit_KeepsLock ==
    /\ Running
    /\ pc[Mounter] = "init"
    /\ kernel
    /\ Goto(Mounter, "serve")
    /\ UNCHANGED <<lock, readers, tree, listener, kernel, busy, keys,
                   preventQuit, status>>

(* s3_init, through GetFilesystem *)
FuseInit ==
    /\ Running
    /\ pc[Mounter] = "init"
    /\ kernel
    /\ Unlock
    /\ Goto(Mounter, "serve")
    /\ UNCHANGED <<readers, tree, listener, kernel, busy, keys, preventQuit>>

(* The FUSE loop ends when the kernel has dropped the mount. libfuse calls *)
(* destroy only for a session that was initialised.                        *)
FuseLoopEnds ==
    /\ Running
    /\ pc[Mounter] \in {"init", "serve"}
    /\ ~kernel
    /\ Goto(Mounter, IF pc[Mounter] = "serve" THEN "destroy" ELSE "returned")
    /\ UNCHANGED <<lock, readers, tree, listener, kernel, busy, keys,
                   preventQuit, status>>

\* mutant: s3_destroy does not wait for the lock
DestroyWaitForLock_NoWait ==
    /\ Running
    /\ pc[Mounter] = "destroy"
    /\ readers' = readers \cup {Mounter}
    /\ Goto(Mounter, "free")
    /\ UNCHANGED <<lock, tree, listener, kernel, busy, keys, preventQuit,
                   status>>

(* s3_destroy: WaitForLock takes a read lock nothing ever releases          *)
DestroyWaitForLock ==
    /\ Running
    /\ pc[Mounter] = "destroy"
    /\ CanRLock
    /\ readers' = readers \cup {Mounter}
    /\ Goto(Mounter, "free")
    /\ UNCHANGED <<lock, tree, listener, kernel, busy, keys, preventQuit,
                   status>>

\* mutant: s3_destroy releases its read lock
DestroyFreeNodes_Releases ==
    /\ Running
    /\ pc[Mounter] = "free"
    /\ tree' = "empty"
    /\ readers' = {}
    /\ Goto(Mounter, "returned")
    /\ UNCHANGED <<lock, listener, kernel, busy, keys, preventQuit, status>>

DestroyFreeNodes ==
    /\ Running
    /\ pc[Mounter] = "free"
    /\ tree' = "empty"
    /\ Goto(Mounter, "returned")
    /\ UNCHANGED <<lock, readers, listener, kernel, busy, keys, preventQuit,
                   status>>

(* importHandler returns the status of MountFilesystem and main exits; in   *)
(* the GUI the goroutine just ends.                                         *)
MainReturns ==
    /\ Running
    /\ Mode = "cli"
    /\ pc[Mounter] = "returned"
    /\ status' = "returned"
    /\ UNCHANGED <<pc, lock, readers, tree, listener, kernel, busy, keys,
                   preventQuit>>

-----------------------------------------------------------------------------
(* UpdateFilesystem: applyCommand in the CLI, AccessPage.vue's update and   *)
(* UpdateFuse in the GUI, both after FilesOpen. fuser fails on a directory  *)
(* that is not a mount point, and FilesOpen then says no file is open.      *)
UpdateRequest(u) ==
    /\ Running
    /\ listener = "ready"
    /\ pc[u] = "idle"
    /\ ~(kernel /\ busy)
    /\ Goto(u, "lock")
    /\ UNCHANGED <<lock, readers, tree, listener, kernel, busy, keys,
                   preventQuit, status>>

UpdateLock(u) ==
    /\ Running
    /\ pc[u] = "lock"
    /\ CanLock
    /\ lock' = u
    /\ Goto(u, "free")
    /\ UNCHANGED <<readers, tree, listener, kernel, busy, keys, preventQuit,
                   status>>

\* mutant: the update lets go of the lock before it rebuilds
UpdateFreeNodes_Unlocks(u) ==
    /\ Running
    /\ pc[u] = "free"
    /\ tree' = "empty"
    /\ lock' = NoProc
    /\ Goto(u, "build")
    /\ UNCHANGED <<readers, listener, kernel, busy, keys, preventQuit, status>>

(* freeNodes, and the cache is cleared                                      *)
UpdateFreeNodes(u) ==
    /\ Running
    /\ pc[u] = "free"
    /\ tree' = "empty"
    /\ Goto(u, "build")
    /\ UNCHANGED <<lock, readers, listener, kernel, busy, keys, preventQuit,
                   status>>

UpdateBuild(u) ==
    /\ Running
    /\ pc[u] = "build"
    /\ \/ /\ BuildTree
          /\ Goto(u, "unlock")
          /\ UNCHANGED <<lock, readers, kernel, busy, keys, preventQuit,
                         status>>
       \/ BuildPanics(u, "unlock")

\* mutant: the deferred Unlock is missing
UpdateUnlock_Forgotten(u) ==
    /\ Running
    /\ pc[u] = "unlock"
    /\ Goto(u, "idle")
    /\ UNCHANGED <<lock, readers, tree, listener, kernel, busy, keys,
                   preventQuit, status>>

UpdateUnlock(u) ==
    /\ Running
    /\ pc[u] = "unlock"
    /\ Unlock
    /\ Goto(u, "idle")
    /\ UNCHANGED <<readers, tree, listener, kernel, busy, keys, preventQuit>>

-----------------------------------------------------------------------------
(* UnmountFilesystem: the SIGINT goroutine of importHandler, App.Quit.      *)

(* SIGINT is caught from signal.Notify on, before fi.mu is (re)initialised. *)
Interrupt(q) ==
    /\ Running
    /\ Mode = "cli"
    /\ pc[q] = "idle"
    /\ pc[Mounter] \in {"idle", "reset", "lock"} => "earlyInterrupt" \in Events
    /\ Goto(q, "lock")
    /\ UNCHANGED <<lock, readers, tree, listener, kernel, busy, keys,
                   preventQuit, status>>

(* App.Quit unmounts only if a.mounted, which the listener sets.            *)
Quit(q) ==
    /\ Running
    /\ Mode = "gui"
    /\ pc[q] = "idle"
    /\ IF listener = "ready"
         THEN Goto(q, "lock") /\ UNCHANGED <<preventQuit, status>>
         ELSE /\ pc[Mounter] = "idle" \/ "earlyQuit" \in Events
              /\ preventQuit' = FALSE
              /\ status' = "closed"
              /\ UNCHANGED pc
    /\ UNCHANGED <<lock, readers, tree, listener, kernel, busy, keys>>

UnmountLock(q) ==
    /\ Running
    /\ pc[q] = "lock"
    /\ CanLock
    /\ lock' = q
    /\ Goto(q, "keys")
    /\ UNCHANGED <<readers, tree, listener, kernel, busy, keys, preventQuit,
                   status>>

(* DeleteWhitelistedKeys only warns about a DELETE that failed.             *)
UnmountDeleteKeys(q) ==
    /\ Running
    /\ pc[q] = "keys"
    /\ keys' \in {FALSE} \cup (IF "vaultFailure" \in Events THEN {keys} ELSE {})
    /\ Goto(q, "unlock")
    /\ UNCHANGED <<lock, readers, tree, listener, kernel, busy, preventQuit,
                   status>>

\* mutant: fi.mu stays locked while fusermount runs
UnmountUnlock_Forgotten(q) ==
    /\ Running
    /\ pc[q] = "unlock"
    /\ Goto(q, "unmount")
    /\ UNCHANGED <<lock, readers, tree, listener, kernel, busy, keys,
                   preventQuit, status>>

UnmountUnlock(q) ==
    /\ Running
    /\ pc[q] = "unlock"
    /\ Unlock
    /\ Goto(q, "unmount")
    /\ UNCHANGED <<readers, tree, listener, kernel, busy, keys, preventQuit>>

\* mutant: App.Quit does not look at the error of UnmountFilesystem
UnmountRun_IgnoresError(q) ==
    /\ Running
    /\ pc[q] = "unmount"
    /\ kernel' = (kernel /\ busy)
    /\ Goto(q, IF Mode = "gui" THEN "close" ELSE "idle")
    /\ UNCHANGED <<lock, readers, tree, listener, busy, keys, preventQuit,
                   status>>

(* fusermount3 -u refuses a busy mount, and fails when nothing is mounted;  *)
(* on an error both front ends give up until the next request.              *)
UnmountRun(q) ==
    /\ Running
    /\ pc[q] = "unmount"
    /\ IF kernel /\ ~busy
         THEN /\ kernel' = FALSE
              /\ Goto(q, IF Mode = "gui" THEN "close" ELSE "idle")
         ELSE Goto(q, "idle") /\ UNCHANGED kernel
    /\ UNCHANGED <<lock, readers, tree, listener, busy, keys, preventQuit,
                   status>>

(* The tail of App.Quit: preventQuit is dropped and Wails closes.           *)
QuitClose(q) ==
    /\ Running
    /\ pc[q] = "close"
    /\ preventQuit' = FALSE
    /\ status' = "closed"
    /\ UNCHANGED <<pc, lock, readers, tree, listener, kernel, busy, keys>>

(* The window's own close button, through beforeClose.                      *)
CloseWindow ==
    /\ Running
    /\ Mode = "gui"
    /\ ~preventQuit
    /\ status' = "closed"
    /\ UNCHANGED <<pc, lock, readers, tree, listener, kernel, busy, keys,
                   preventQuit>>

-----------------------------------------------------------------------------
(* The users of the mount. The FUSE thread takes no lock, so a file can be  *)
(* opened at any time; opening one may whitelist this session's key.        *)
ServeOpen ==
    /\ Running
    /\ "open" \in Events
    /\ pc[Mounter] = "serve"
    /\ kernel
    /\ busy' = TRUE
    /\ keys' \in {keys, TRUE}
    /\ UNCHANGED <<pc, lock, readers, tree, listener, kernel, preventQuit,
                   status>>

Release ==
    /\ Running
    /\ busy
    /\ busy' = FALSE
    /\ UNCHANGED <<pc, lock, readers, tree, listener, kernel, keys,
                   preventQuit, status>>

ExternalUnmount ==
    /\ Running
    /\ "externalUnmount" \in Events
    /\ pc[Mounter] = "serve"
    /\ kernel /\ ~busy
    /\ kernel' = FALSE
    /\ UNCHANGED <<pc, lock, readers, tree, listener, busy, keys, preventQuit,
                   status>>

-----------------------------------------------------------------------------
Mounting ==
    \/ MountResetMutex \/ MountLock \/ MountBuild
    \/ FuseMount \/ FuseInit \/ FuseLoopEnds
    \/ DestroyWaitForLock \/ DestroyFreeNodes \/ MainReturns

Updating(u) == UpdateLock(u) \/ UpdateFreeNodes(u) \/ UpdateBuild(u)
               \/ UpdateUnlock(u)

Unmounting(q) == UnmountLock(q) \/ UnmountDeleteKeys(q) \/ UnmountUnlock(q)
                 \/ UnmountRun(q) \/ QuitClose(q)

Environment ==
    \/ InitFuse \/ CloseWindow \/ ServeOpen \/ Release \/ ExternalUnmount
    \/ \E u \in Updaters : UpdateRequest(u)
    \/ \E q \in Quitters : Interrupt(q) \/ Quit(q)

Next ==
    \/ Mounting
    \/ Listen
    \/ \E u \in Updaters : Updating(u)
    \/ \E q \in Quitters : Unmounting(q)
    \/ Environment

Spec == Init /\ [][Next]_vars

(* The scheduler runs every goroutine that can run. sync.RWMutex does not   *)
(* starve a waiter: a blocked Lock keeps new readers out, Unlock lets the   *)
(* readers in that were waiting, and its internal mutex hands over to a     *)
(* waiter after 1 ms. Users owe nothing: nobody has to close a file or ask  *)
(* for anything.                                                            *)
Fairness ==
    /\ WF_vars(Mounting) /\ WF_vars(Listen)
    /\ SF_vars(MountLock) /\ SF_vars(DestroyWaitForLock)
    /\ \A u \in Updaters :
         WF_vars(Updating(u)) /\ SF_vars(UpdateLock(u))
    /\ \A q \in Quitters :
         WF_vars(Unmounting(q)) /\ SF_vars(UnmountLock(q))

FairSpec == Spec /\ Fairness

-----------------------------------------------------------------------------
(* Properties *)

(* The goroutines that may be writing the node array or the list of keys:   *)
(* the mount until s3_init, an update, s3_destroy, DeleteWhitelistedKeys.   *)
InTree(p) ==
    \/ p = Mounter /\ pc[p] \in {"build", "fuse", "init", "free"}
    \/ p \in Updaters /\ pc[p] \in {"free", "build", "unlock"}
    \/ p \in Quitters /\ pc[p] \in {"keys", "unlock"}

(* How fi.mu is held at each point of each goroutine, as long as nobody     *)
(* interrupts the program before fi.mu is set up. It is what makes          *)
(* ExclusiveTree inductive.                                                 *)
MountHolds == pc[Mounter] \in {"build", "fuse", "init"} => lock = Mounter

UpdateHolds ==
    \A u \in Updaters : pc[u] \in {"free", "build", "unlock"} => lock = u

UnmountHolds ==
    \A q \in Quitters : pc[q] \in {"keys", "unlock"} => lock = q

DestroyHolds ==
    /\ pc[Mounter] = "free" => Mounter \in readers
    /\ pc[Mounter] = "returned" => lock = Mounter \/ Mounter \in readers

ReadersExcludeWriter == readers # {} => lock = NoProc

\* until MountFilesystem holds the new mutex nobody else is near it
QuietBeforeMount ==
    pc[Mounter] \in {"idle", "reset", "lock"} =>
      /\ listener # "ready"
      /\ \A p \in Updaters \cup Quitters : pc[p] = "idle"

LockInv ==
    /\ MountHolds /\ UpdateHolds /\ UnmountHolds /\ DestroyHolds
    /\ ReadersExcludeWriter /\ QuietBeforeMount

(* From the end of the first build the array is whole, except inside an     *)
(* update that has freed it.                                                *)
TreeWhole ==
    pc[Mounter] \in {"fuse", "init", "serve", "destroy"}
      => tree = "built" \/ \E u \in Updaters : pc[u] = "build"

(* The node array is never freed, rebuilt or handed to libfuse by two       *)
(* goroutines at once, and the whitelisted keys are not deleted while the   *)
(* array is in flux.                                                        *)
ExclusiveTree == \A p, q \in Procs : InTree(p) /\ InTree(q) => p = q

(* When fi.mu is free while the mount is being served, the array is whole:  *)
(* whoever frees it rebuilds it before letting go of the lock.              *)
UnlockedTreeBuilt ==
    Running /\ lock = NoProc /\ pc[Mounter] \in {"serve", "destroy"}
      => tree = "built"

(* After s3_destroy has freed the array no command builds a new one that    *)
(* nothing would free; this is what the read lock that is never released    *)
(* is for.                                                                  *)
DestroyIsFinal == [][pc[Mounter] = "returned" => tree' = tree]_vars

(* CHANGELOG: the GUI cannot be closed before unmounting succeeds. Neither  *)
(* Quit nor the window's close button ends the program with the mount       *)
(* point still in the kernel.                                               *)
ClosedMeansUnmounted == status = "closed" => ~kernel

(* CHANGELOG: whitelisted keys are valid until Data Gateway is shut down.   *)
(* Unless Vault refused to delete one, no key outlives the program.         *)
ShutDownRevokesKeys == status = "closed" => ~keys

(* A call of Quit comes to an end: the window closes, or the user is told   *)
(* that unmounting failed and may try again.                                *)
QuitSettles ==
    \A q \in Quitters : pc[q] = "lock" ~> (pc[q] = "idle" \/ status = "closed")

(* Ctrl+C ends the CLI unless somebody is using the mount.                  *)
InterruptEndsProcess ==
    \A q \in Quitters : pc[q] = "lock" ~> (status # "running" \/ busy)

(* An update that was accepted finishes, unless the program ends first.     *)
UpdateCompletes ==
    \A u \in Updaters : pc[u] = "lock" ~> (pc[u] = "idle" \/ status # "running")

(* A served mount is eventually announced: the GUI shows it as ready and    *)
(* the CLI starts to take commands.                                         *)
ReadyIsAnnounced ==
    pc[Mounter] = "serve" ~> (listener = "ready" \/ status # "running")
=============================================================================
