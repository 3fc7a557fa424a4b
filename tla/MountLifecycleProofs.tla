------------------------ MODULE MountLifecycleProofs ------------------------
(* What fi.mu guarantees in MountLifecycle, for any number of goroutines.   *)
EXTENDS MountLifecycle, TLAPS

(* Goto moves one goroutine and leaves the others where they are.           *)
LEMMA GotoValue ==
  ASSUME PcTypeOK, NEW p \in Procs, NEW label, Goto(p, label)
  PROVE  \A r \in Procs : pc'[r] = IF r = p THEN label ELSE pc[r]
  BY DEF PcTypeOK, Goto

(* A goroutine that moves to one of its own labels keeps pc well typed.     *)
LEMMA GotoType ==
  ASSUME PcTypeOK, NEW p \in Procs, NEW label \in Labels(p), Goto(p, label)
  PROVE  PcTypeOK'
<1>1. \A r \in Procs : pc'[r] = IF r = p THEN label ELSE pc[r]
  BY GotoValue
<1>2. \A r \in Procs : pc'[r] \in Labels(r)
  BY <1>1 DEF PcTypeOK
<1>3. pc' \in [Procs -> UNION {Labels(r) : r \in Procs}]
  BY DEF PcTypeOK, Goto
<1>4. QED
  BY <1>2, <1>3 DEF PcTypeOK

LEMMA PcUnchanged == ASSUME PcTypeOK, UNCHANGED pc PROVE PcTypeOK'
  BY DEF PcTypeOK

(* The labels of each kind of goroutine.                                    *)
LEMMA LabelsOf ==
  /\ Mounter \in Procs /\ Labels(Mounter) = MounterLabels
  /\ \A u \in Updaters : u \in Procs /\ Labels(u) = UpdaterLabels
  /\ \A q \in Quitters : q \in Procs /\ Labels(q) = QuitterLabels
  BY ConfigAssumption DEF Procs, Labels

(* Every variable keeps its type, in both front ends and whatever happens.  *)
THEOREM TypeCorrect == Spec => []TypeOK
<1>1. Init => TypeOK
  <2>1. Init => \A p \in Procs : pc[p] \in Labels(p)
    BY ConfigAssumption
    DEF Init, Procs, Labels, MounterLabels, UpdaterLabels, QuitterLabels
  <2>2. Init => PcTypeOK
    BY <2>1 DEF Init, PcTypeOK
  <2>3. QED
    BY <2>2 DEF Init, TypeOK, Procs
<1>2. TypeOK /\ [Next]_vars => TypeOK'
  <2> SUFFICES ASSUME TypeOK, [Next]_vars
               PROVE  TypeOK'
    OBVIOUS
  <2> USE LabelsOf, GotoType, PcUnchanged
      DEF TypeOK, MounterLabels, UpdaterLabels, QuitterLabels
  <2>1. CASE Mounting
    <3>1. CASE MountResetMutex \/ MountLock
      BY <3>1 DEF MountResetMutex, MountLock
    <3>2. CASE FuseMount
      BY <3>2 DEF FuseMount
    <3>3. CASE FuseLoopEnds
      BY <3>3 DEF FuseLoopEnds
    <3>4. CASE MountBuild
      BY <3>4 DEF MountBuild, BuildTree, BuildPanics
    <3>5. CASE FuseInit
      BY <3>5 DEF FuseInit, Unlock
    <3>6. CASE DestroyWaitForLock \/ DestroyFreeNodes \/ MainReturns
      BY <3>6 DEF DestroyWaitForLock, DestroyFreeNodes, MainReturns
    <3>7. QED
      BY <2>1, <3>1, <3>2, <3>3, <3>4, <3>5, <3>6 DEF Mounting
  <2>2. CASE Listen
    BY <2>2 DEF Listen
  <2>3. ASSUME NEW u \in Updaters, Updating(u)
        PROVE  TypeOK'
    <3>1. CASE UpdateLock(u) \/ UpdateFreeNodes(u)
      BY <3>1 DEF UpdateLock, UpdateFreeNodes
    <3>2. CASE UpdateBuild(u)
      BY <3>2 DEF UpdateBuild, BuildTree, BuildPanics
    <3>3. CASE UpdateUnlock(u)
      BY <3>3 DEF UpdateUnlock, Unlock
    <3>4. QED
      BY <2>3, <3>1, <3>2, <3>3 DEF Updating
  <2>4. ASSUME NEW q \in Quitters, Unmounting(q)
        PROVE  TypeOK'
    <3>1. CASE UnmountLock(q) \/ UnmountDeleteKeys(q)
      BY <3>1 DEF UnmountLock, UnmountDeleteKeys
    <3>2. CASE UnmountUnlock(q)
      BY <3>2 DEF UnmountUnlock, Unlock
    <3>3. CASE UnmountRun(q) \/ QuitClose(q)
      BY <3>3 DEF UnmountRun, QuitClose
    <3>4. QED
      BY <2>4, <3>1, <3>2, <3>3 DEF Unmounting
  <2>5. CASE Environment
    <3>1. CASE InitFuse \/ CloseWindow
      BY <3>1 DEF InitFuse, CloseWindow
    <3>2. CASE ServeOpen \/ Release \/ ExternalUnmount
      BY <3>2 DEF ServeOpen, Release, ExternalUnmount
    <3>3. ASSUME NEW u \in Updaters, UpdateRequest(u)
          PROVE  TypeOK'
      BY <3>3 DEF UpdateRequest
    <3>4. ASSUME NEW q \in Quitters, Interrupt(q)
          PROVE  TypeOK'
      BY <3>4 DEF Interrupt
    <3>5. ASSUME NEW q \in Quitters, Quit(q)
          PROVE  TypeOK'
      <4>1. CASE listener = "ready"
        BY <3>5, <4>1 DEF Quit
      <4>2. CASE listener # "ready"
        BY <3>5, <4>2 DEF Quit
      <4>3. QED
        BY <4>1, <4>2
    <3>6. QED
      BY <2>5, <3>1, <3>2, <3>3, <3>4, <3>5 DEF Environment
  <2>6. CASE UNCHANGED vars
    BY <2>6 DEF vars, PcTypeOK
  <2>7. QED
    BY <2>1, <2>2, <2>3, <2>4, <2>5, <2>6 DEF Next
<1>3. QED
  BY <1>1, <1>2, PTL DEF Spec

-----------------------------------------------------------------------------
(* Mounter, the updaters and the quitters are all goroutines, none of them  *)
(* plays two roles, and NoProc is none of them.                             *)
LEMMA Roles ==
  /\ Mounter \in Procs /\ Updaters \subseteq Procs /\ Quitters \subseteq Procs
  /\ NoProc \notin Procs
  /\ Mounter \notin Updaters /\ Mounter \notin Quitters
  /\ Updaters \cap Quitters = {}
  BY ConfigAssumption DEF Procs

(* LockInv is inductive: the mutex is held exactly where the code between   *)
(* its Lock and Unlock is, and s3_destroy keeps its read lock for good.     *)
LEMMA LockInvStep ==
  ASSUME "earlyInterrupt" \notin Events, TypeOK, LockInv, [Next]_vars
  PROVE  LockInv'
<1> USE Roles, GotoValue
    DEF TypeOK, LockInv, MountHolds, UpdateHolds, UnmountHolds, DestroyHolds,
        ReadersExcludeWriter, QuietBeforeMount
<1>1. CASE Mounting
  <2>1. CASE MountResetMutex
    BY <2>1 DEF MountResetMutex
  <2>2. CASE MountLock
    BY <2>2 DEF MountLock, CanLock
  <2>3. CASE MountBuild
    BY <2>3 DEF MountBuild, BuildTree, BuildPanics
  <2>4. CASE FuseMount
    BY <2>4 DEF FuseMount
  <2>5. CASE FuseInit
    BY <2>5 DEF FuseInit, Unlock
  <2>6. CASE FuseLoopEnds
    BY <2>6 DEF FuseLoopEnds
  <2>7. CASE DestroyWaitForLock
    BY <2>7 DEF DestroyWaitForLock, CanRLock
  <2>8. CASE DestroyFreeNodes
    BY <2>8 DEF DestroyFreeNodes
  <2>9. CASE MainReturns
    BY <2>9 DEF MainReturns
  <2>10. QED
    BY <1>1, <2>1, <2>2, <2>3, <2>4, <2>5, <2>6, <2>7, <2>8, <2>9 DEF Mounting
<1>2. CASE Listen
  BY <1>2 DEF Listen
<1>3. ASSUME NEW u \in Updaters, Updating(u)
      PROVE  LockInv'
  <2>1. CASE UpdateLock(u)
    BY <2>1 DEF UpdateLock, CanLock
  <2>2. CASE UpdateFreeNodes(u)
    BY <2>2 DEF UpdateFreeNodes
  <2>3. CASE UpdateBuild(u)
    BY <2>3 DEF UpdateBuild, BuildTree, BuildPanics
  <2>4. CASE UpdateUnlock(u)
    BY <2>4 DEF UpdateUnlock, Unlock
  <2>5. QED
    BY <1>3, <2>1, <2>2, <2>3, <2>4 DEF Updating
<1>4. ASSUME NEW q \in Quitters, Unmounting(q)
      PROVE  LockInv'
  <2>1. CASE UnmountLock(q)
    BY <2>1 DEF UnmountLock, CanLock
  <2>2. CASE UnmountDeleteKeys(q)
    BY <2>2 DEF UnmountDeleteKeys
  <2>3. CASE UnmountUnlock(q)
    BY <2>3 DEF UnmountUnlock, Unlock
  <2>4. CASE UnmountRun(q)
    BY <2>4 DEF UnmountRun
  <2>5. CASE QuitClose(q)
    BY <2>5 DEF QuitClose
  <2>6. QED
    BY <1>4, <2>1, <2>2, <2>3, <2>4, <2>5 DEF Unmounting
<1>5. CASE Environment
  <2>1. CASE InitFuse
    BY <2>1 DEF InitFuse
  <2>2. CASE CloseWindow \/ ServeOpen \/ Release \/ ExternalUnmount
    BY <2>2 DEF CloseWindow, ServeOpen, Release, ExternalUnmount
  <2>3. ASSUME NEW u \in Updaters, UpdateRequest(u)
        PROVE  LockInv'
    BY <2>3 DEF UpdateRequest
  <2>4. ASSUME NEW q \in Quitters, Interrupt(q)
        PROVE  LockInv'
    BY <2>4, ConfigAssumption DEF Interrupt
  <2>5. ASSUME NEW q \in Quitters, Quit(q)
        PROVE  LockInv'
    <3>1. CASE listener = "ready"
      BY <2>5, <3>1 DEF Quit
    <3>2. CASE listener # "ready"
      BY <2>5, <3>2 DEF Quit
    <3>3. QED
      BY <3>1, <3>2
  <2>6. QED
    BY <1>5, <2>1, <2>2, <2>3, <2>4, <2>5 DEF Environment
<1>6. CASE UNCHANGED vars
  BY <1>6 DEF vars
<1>7. QED
  BY <1>1, <1>2, <1>3, <1>4, <1>5, <1>6 DEF Next

(* Provided no SIGINT arrives before MountFilesystem has set up fi.mu, the  *)
(* mutex is held at exactly the points LockInv names.                       *)
THEOREM LockDiscipline ==
  ASSUME "earlyInterrupt" \notin Events
  PROVE  Spec => []LockInv
<1>1. Init => LockInv
  BY Roles
  DEF Init, LockInv, MountHolds, UpdateHolds, UnmountHolds, DestroyHolds,
      ReadersExcludeWriter, QuietBeforeMount
<1>2. TypeOK /\ LockInv /\ [Next]_vars => LockInv'
  BY LockInvStep
<1>3. QED
  BY <1>1, <1>2, TypeCorrect, PTL DEF Spec

(* Under the same proviso no two goroutines are ever inside the node array  *)
(* (or the list of whitelisted keys) at once.                               *)
THEOREM TreeIsExclusive ==
  ASSUME "earlyInterrupt" \notin Events
  PROVE  Spec => []ExclusiveTree
<1>1. LockInv => ExclusiveTree
  <2> SUFFICES ASSUME LockInv, NEW p \in Procs, NEW q \in Procs,
                      InTree(p), InTree(q)
               PROVE  p = q
    BY DEF ExclusiveTree
  <2>1. \A r \in Procs :
          InTree(r) => lock = r \/ (r = Mounter /\ readers # {})
    BY DEF InTree, LockInv, MountHolds, UpdateHolds, UnmountHolds,
           DestroyHolds
  <2>2. readers # {} => lock \notin Procs
    BY Roles DEF LockInv, ReadersExcludeWriter
  <2>3. QED
    BY <2>1, <2>2
<1>2. QED
  BY <1>1, LockDiscipline, PTL

(* Under the same proviso nothing touches the node array after s3_destroy   *)
(* has freed it and MountFilesystem has returned.                           *)
THEOREM DestroyedForGood ==
  ASSUME "earlyInterrupt" \notin Events
  PROVE  Spec => DestroyIsFinal
<1>1. TypeOK /\ LockInv /\ [Next]_vars
        => [pc[Mounter] = "returned" => tree' = tree]_vars
  <2> SUFFICES ASSUME TypeOK, LockInv, Next, pc[Mounter] = "returned"
               PROVE  tree' = tree
    BY DEF vars
  <2>1. \A u \in Updaters : pc[u] \notin {"free", "build"}
    BY Roles
    DEF TypeOK, LockInv, UpdateHolds, DestroyHolds, ReadersExcludeWriter
  <2>2. CASE Mounting
    BY <2>2
    DEF Mounting, MountResetMutex, MountLock, MountBuild, FuseMount, FuseInit,
        FuseLoopEnds, DestroyWaitForLock, DestroyFreeNodes, MainReturns
  <2>3. CASE Listen
    BY <2>3 DEF Listen
  <2>4. ASSUME NEW u \in Updaters, Updating(u)
        PROVE  tree' = tree
    BY <2>1, <2>4
    DEF Updating, UpdateLock, UpdateFreeNodes, UpdateBuild, UpdateUnlock
  <2>5. ASSUME NEW q \in Quitters, Unmounting(q)
        PROVE  tree' = tree
    BY <2>5
    DEF Unmounting, UnmountLock, UnmountDeleteKeys, UnmountUnlock, UnmountRun,
        QuitClose
  <2>6. CASE Environment
    BY <2>6
    DEF Environment, InitFuse, CloseWindow, ServeOpen, Release,
        ExternalUnmount, UpdateRequest, Interrupt, Quit
  <2>7. QED
    BY <2>2, <2>3, <2>4, <2>5, <2>6 DEF Next
<1>2. QED
  BY <1>1, TypeCorrect, LockDiscipline, PTL DEF Spec, DestroyIsFinal

(* In the CLI, and in a GUI whose builds do not panic, the array is whole   *)
(* whenever fi.mu is free while the mount is served.                        *)
THEOREM UnlockedTreeIsBuilt ==
  ASSUME "earlyInterrupt" \notin Events,
         Mode = "cli" \/ "buildPanic" \notin Events
  PROVE  Spec => []UnlockedTreeBuilt
<1>1. Init => TreeWhole
  BY Roles DEF Init, TreeWhole
<1>2. TypeOK /\ TreeWhole /\ [Next]_vars => TreeWhole'
  <2> SUFFICES ASSUME TypeOK, TreeWhole, [Next]_vars
               PROVE  TreeWhole'
    OBVIOUS
  <2> USE Roles, GotoValue, ConfigAssumption DEF TypeOK, TreeWhole
  <2>1. CASE Mounting
    <3>1. CASE MountResetMutex \/ MountLock \/ DestroyFreeNodes
      BY <3>1 DEF MountResetMutex, MountLock, DestroyFreeNodes
    <3>2. CASE MountBuild
      BY <3>2 DEF MountBuild, BuildTree, BuildPanics
    <3>3. CASE FuseMount
      BY <3>3 DEF FuseMount
    <3>4. CASE FuseInit \/ FuseLoopEnds
      BY <3>4 DEF FuseInit, FuseLoopEnds
    <3>5. CASE DestroyWaitForLock \/ MainReturns
      BY <3>5 DEF DestroyWaitForLock, MainReturns
    <3>6. QED
      BY <2>1, <3>1, <3>2, <3>3, <3>4, <3>5 DEF Mounting
  <2>2. CASE Listen
    BY <2>2 DEF Listen
  <2>3. ASSUME NEW u \in Updaters, Updating(u)
        PROVE  TreeWhole'
    <3>1. CASE UpdateLock(u) \/ UpdateFreeNodes(u)
      BY <3>1 DEF UpdateLock, UpdateFreeNodes
    <3>2. CASE UpdateBuild(u)
      BY <3>2 DEF UpdateBuild, BuildTree, BuildPanics
    <3>3. CASE UpdateUnlock(u)
      BY <3>3 DEF UpdateUnlock
    <3>4. QED
      BY <2>3, <3>1, <3>2, <3>3 DEF Updating
  <2>4. ASSUME NEW q \in Quitters, Unmounting(q)
        PROVE  TreeWhole'
    BY <2>4
    DEF Unmounting, UnmountLock, UnmountDeleteKeys, UnmountUnlock, UnmountRun,
        QuitClose
  <2>5. CASE Environment
    BY <2>5
    DEF Environment, InitFuse, CloseWindow, ServeOpen, Release,
        ExternalUnmount, UpdateRequest, Interrupt, Quit
  <2>6. CASE UNCHANGED vars
    BY <2>6 DEF vars
  <2>7. QED
    BY <2>1, <2>2, <2>3, <2>4, <2>5, <2>6 DEF Next
<1>3. LockInv /\ TreeWhole => UnlockedTreeBuilt
  BY Roles DEF LockInv, UpdateHolds, TreeWhole, UnlockedTreeBuilt
<1>4. QED
  BY <1>1, <1>2, <1>3, TypeCorrect, LockDiscipline, PTL DEF Spec

-----------------------------------------------------------------------------
(* Where the mount point is in the kernel, from which point on nothing      *)
(* mounts it again, and what keeps the window of the GUI open.              *)

BeforeMount == {"idle", "reset", "lock", "build", "fuse"}

KernelInv ==
    /\ kernel => pc[Mounter] \in {"init", "serve"}
    /\ \A q \in Quitters : pc[q] = "close" =>
         Mode = "gui" /\ ~kernel /\ pc[Mounter] \notin BeforeMount
    /\ Mode = "gui" /\ pc[Mounter] # "idle" /\ status = "running"
         => preventQuit
    /\ ClosedMeansUnmounted

(* KernelInv is inductive.                                                  *)
LEMMA KernelInvStep ==
  ASSUME "earlyQuit" \notin Events, TypeOK, KernelInv, [Next]_vars
  PROVE  KernelInv'
<1> USE Roles, GotoValue
    DEF TypeOK, KernelInv, BeforeMount, ClosedMeansUnmounted, Running
<1>1. CASE Mounting
  <2>1. CASE MountResetMutex \/ MountLock
    BY <2>1 DEF MountResetMutex, MountLock
  <2>2. CASE MountBuild
    BY <2>2 DEF MountBuild, BuildTree, BuildPanics
  <2>3. CASE FuseMount
    BY <2>3 DEF FuseMount
  <2>4. CASE FuseInit
    BY <2>4 DEF FuseInit, Unlock
  <2>5. CASE FuseLoopEnds
    BY <2>5 DEF FuseLoopEnds
  <2>6. CASE DestroyWaitForLock \/ DestroyFreeNodes
    BY <2>6 DEF DestroyWaitForLock, DestroyFreeNodes
  <2>7. CASE MainReturns
    BY <2>7 DEF MainReturns
  <2>8. QED
    BY <1>1, <2>1, <2>2, <2>3, <2>4, <2>5, <2>6, <2>7 DEF Mounting
<1>2. CASE Listen
  BY <1>2 DEF Listen
<1>3. ASSUME NEW u \in Updaters, Updating(u)
      PROVE  KernelInv'
  <2>1. CASE UpdateLock(u) \/ UpdateFreeNodes(u)
    BY <2>1 DEF UpdateLock, UpdateFreeNodes
  <2>2. CASE UpdateBuild(u)
    BY <2>2 DEF UpdateBuild, BuildTree, BuildPanics
  <2>3. CASE UpdateUnlock(u)
    BY <2>3 DEF UpdateUnlock, Unlock
  <2>4. QED
    BY <1>3, <2>1, <2>2, <2>3 DEF Updating
<1>4. ASSUME NEW q \in Quitters, Unmounting(q)
      PROVE  KernelInv'
  <2>1. CASE UnmountLock(q)
    BY <2>1 DEF UnmountLock
  <2>2. CASE UnmountDeleteKeys(q)
    <3>1. Goto(q, "unlock") /\ UNCHANGED <<kernel, preventQuit, status>>
      BY <2>2 DEF UnmountDeleteKeys
    <3>2. QED
      BY <3>1
  <2>3. CASE UnmountUnlock(q)
    BY <2>3 DEF UnmountUnlock, Unlock
  <2>4. CASE UnmountRun(q)
    BY <2>4 DEF UnmountRun
  <2>5. CASE QuitClose(q)
    BY <2>5 DEF QuitClose
  <2>6. QED
    BY <1>4, <2>1, <2>2, <2>3, <2>4, <2>5 DEF Unmounting
<1>5. CASE Environment
  <2>1. CASE InitFuse
    BY <2>1 DEF InitFuse
  <2>2. CASE CloseWindow
    BY <2>2 DEF CloseWindow
  <2>3. CASE ServeOpen \/ Release \/ ExternalUnmount
    <3>1. CASE ServeOpen
      <4>1. UNCHANGED <<pc, kernel, preventQuit, status>>
        BY <3>1 DEF ServeOpen
      <4>2. QED
        BY <4>1
    <3>2. CASE Release
      BY <3>2 DEF Release
    <3>3. CASE ExternalUnmount
      BY <3>3 DEF ExternalUnmount
    <3>4. QED
      BY <2>3, <3>1, <3>2, <3>3
  <2>4. ASSUME NEW u \in Updaters, UpdateRequest(u)
        PROVE  KernelInv'
    BY <2>4 DEF UpdateRequest
  <2>5. ASSUME NEW q \in Quitters, Interrupt(q) \/ Quit(q)
        PROVE  KernelInv'
    BY <2>5 DEF Interrupt, Quit
  <2>6. QED
    BY <1>5, <2>1, <2>2, <2>3, <2>4, <2>5 DEF Environment
<1>6. CASE UNCHANGED vars
  BY <1>6 DEF vars
<1>7. QED
  BY <1>1, <1>2, <1>3, <1>4, <1>5, <1>6 DEF Next

(* App.Quit and beforeClose: however often and however early the user       *)
(* quits, the window is not closed with the mount point still in the        *)
(* kernel, provided Quit is not called between InitFuse and the ready       *)
(* signal.                                                                  *)
THEOREM NoMountLeftBehind ==
  ASSUME "earlyQuit" \notin Events
  PROVE  Spec => []ClosedMeansUnmounted
<1>1. Init => KernelInv
  BY Roles DEF Init, KernelInv, ClosedMeansUnmounted
<1>2. TypeOK /\ KernelInv /\ [Next]_vars => KernelInv'
  BY KernelInvStep
<1>3. KernelInv => ClosedMeansUnmounted
  BY DEF KernelInv
<1>4. QED
  BY <1>1, <1>2, <1>3, TypeCorrect, PTL DEF Spec
=============================================================================
