----------------------------- MODULE VmLifecycle -----------------------------
(***************************************************************************)
(* The managed VM (vm_windows.go, vm_managed_windows.go, vm_process.go,    *)
(* vm_lifecycle.go, vm_runtime_acquire*.go, vm_guard.go, vm_lock_windows.go *)
(* vm_job_windows.go, vm_account.go): engines on one PC that share         *)
(* root.disk, vm\state.json, the private account input, the runtime        *)
(* directory and the named mutex.  In each engine calls of the GUI run     *)
(* beside workers and the goroutine that waits for QEMU; any write may     *)
(* fail, an engine may die and the power may go between any two steps.     *)
(***************************************************************************)
EXTENDS VmContracts

CONSTANTS
    Engines,
    Installers,    \* the engines whose user sets up a VM, forces it and closes the app
    Removers,      \* the engines asked for a native install or an uninstall
    Archives,      \* the runtime archives a release may serve
    Logs,          \* what the builder may have written when it exits
    Sizes,         \* free bytes a preparation may find
    Metadata,      \* the helper protocol of the runtime
    DiskSize,      \* of the standard profile, each disk
    ReadsMayFail,  \* may reading state.json fail?
    MaxCrashes, MaxRemovals

ASSUME LifecycleAssumption ==
    /\ Installers \subseteq Engines /\ Removers \subseteq Engines
    /\ DiskSize \in Nat /\ ReadsMayFail \in BOOLEAN
    /\ {MaxCrashes, MaxRemovals} \subseteq Nat

\* A zip entry's name is split at the slashes into components.
ASSUME PathsAssumption ==
    \A a \in Archives : \A i \in DOMAIN a.files :
      a.files[i].path \in Seq([text : STRING, case : STRING, legal : BOOLEAN])

Slots  == {1, 2}
Phases == {"preparing", "ready", "starting", "running", "stopping", "stopped",
           "needs_recovery", "failed"}
Launchable == {"ready", "stopped"}

VARIABLES
    lock,     \* {} or the engine that owns the image mutex
    disk,     \* root.disk: "none", "blank", "dirty", "clean", "native"
    file,     \* the phase vm\state.json records, or "none"
    account,  \* is a private account input on disk?
    staging,  \* is a .runtime-download-* or .qemu-stage-* directory left?
    runtime,  \* the qemu directory: {} or its tree
    up,       \* is the engine running?
    job,      \* its operations under way: [kind, pc, id, phase, cut]
    vmCancel, \* App.vmCancel and vmPrepareDone: the worker they belong to, 0 for nil
    proc,     \* its QEMU: "none", "suspended", "builder", "desktop", exited "clean" or "gone"
    sess,     \* App.vmSession: [pc, phase, forced]
    force,    \* a ForceStopVM under way: "no", "join", "kill"
    close,    \* its shutdownVM: "no", "join", "stop", "wait", "dead", "exit"
    orphans,  \* engines that died before their QEMU, which Windows is stopping
    crashes, removals

shared == <<lock, disk, file, account, staging, runtime>>
engine == <<up, job, vmCancel, proc, sess, force, close>>
vars == <<shared, engine, orphans, crashes, removals>>

Free == [kind |-> "none", pc |-> "idle", id |-> FALSE, phase |-> "none", cut |-> FALSE]
NoSession == [pc |-> "none", phase |-> "none", forced |-> FALSE]

Init ==
    /\ lock = {} /\ disk = "none" /\ file = "none"
    /\ account = FALSE /\ staging = FALSE /\ runtime = {}
    /\ up = [e \in Engines |-> TRUE]
    /\ job = [e \in Engines |-> [t \in Slots |-> Free]]
    /\ vmCancel = [e \in Engines |-> 0]
    /\ proc = [e \in Engines |-> "none"]
    /\ sess = [e \in Engines |-> NoSession]
    /\ force = [e \in Engines |-> "no"] /\ close = [e \in Engines |-> "no"]
    /\ orphans = {} /\ crashes = 0 /\ removals = 0

-----------------------------------------------------------------------------
(* Locks, files and processes *)

Holder(e) == lock = {e}
acquireVMLock(e) == lock = {} /\ lock' = {e}
release(e) == lock' = lock \ {e}

Writers == {e \in Engines : proc[e] \in {"builder", "desktop"}} \union orphans

\* Nobody has root.disk open: an exclusive handle would be granted.
verifyVMDiskReleased == Writers = {}

\* Temporary file, then rename: the record is the new one or, on an error, the old one.
writeVMState(phase) == file' \in {file, phase}
Wrote(phase) == file' = phase
NotWritten   == file' = file

\* A removal may fail and leave the file.
removeVMAccountInputs(done) == account' = (account /\ ~done)
cleanupVMRuntimeStaging(done) == staging' = (staging /\ ~done)

At(e, t, kinds, pc) == up[e] /\ job[e][t].kind \in kinds /\ job[e][t].pc = pc
Goto(e, t, pc) == job' = [job EXCEPT ![e][t].pc = pc]
Admit(e, t, kind, pc) == job' = [job EXCEPT ![e][t] = [Free EXCEPT !.kind = kind, !.pc = pc]]
Leave(e, t) == job' = [job EXCEPT ![e][t] = Free]

\* A call can start: the engine is up and not closing, its slot t is the next free
\* one, and beside it run at most workers.
Callable(e, t) ==
    /\ up[e] /\ close[e] = "no" /\ force[e] = "no"
    /\ job[e][t] = Free
    /\ \A s \in Slots \ {t} :
         /\ job[e][s].kind \in {"none", "prepare", "runtime", "native"}
         /\ s < t => job[e][s] # Free

engineRest == <<up, vmCancel, proc, sess, force, close, orphans, crashes, removals>>

-----------------------------------------------------------------------------
(* The runtime: InstallVMRuntime and acquireVMRuntime *)

InstallVMRuntime(e, t) ==
    /\ e \in Installers /\ Callable(e, t) /\ acquireVMLock(e) /\ runtime = {}
    /\ cleanupVMRuntimeStaging(TRUE)
    /\ Admit(e, t, "runtime", "download")
    /\ vmCancel' = [vmCancel EXCEPT ![e] = t]
    /\ UNCHANGED <<disk, file, account, runtime, up, proc, sess, force, close, orphans,
                   crashes, removals>>

\* The download has its own directory, removed on every return if Windows allows it.
downloadVMRuntime(e, t) ==
    /\ At(e, t, {"runtime"}, "download")
    /\ \/ ~job[e][t].cut /\ staging' = TRUE /\ Goto(e, t, "install")
       \/ staging' \in {staging, TRUE} /\ Goto(e, t, "clear")
    /\ UNCHANGED <<lock, disk, file, account, runtime, engineRest>>

acquireVMRuntime(e, t) ==
    /\ At(e, t, {"runtime"}, "install")
    /\ \/ /\ ~job[e][t].cut
          /\ \E a \in Archives : runtime' = Install(a, a.expected)
       \/ UNCHANGED runtime
    /\ staging' \in BOOLEAN
    /\ Goto(e, t, "clear")
    /\ UNCHANGED <<lock, disk, file, account, engineRest>>

\* The runtime worker's deferred calls: first vmCancel, then the lock, then done.
runtimeReturns(e, t) ==
    /\ At(e, t, {"runtime"}, "clear")
    /\ vmCancel' = [vmCancel EXCEPT ![e] = 0]
    /\ Goto(e, t, "close")
    /\ UNCHANGED <<shared, up, proc, sess, force, close, orphans, crashes, removals>>

\* Who waits for a worker's done channel, by slot; close(done) wakes exactly them.
JoinOn == <<"join1", "join2">>
Woken(f, e, t, next) == [f EXCEPT ![e] = IF @ = JoinOn[t] THEN next ELSE @]

runtimeCloses(e, t) ==
    /\ At(e, t, {"runtime"}, "close")
    /\ release(e) /\ Leave(e, t)
    /\ force' = Woken(force, e, t, "kill") /\ close' = Woken(close, e, t, "stop")
    /\ UNCHANGED <<disk, file, account, staging, runtime, up, vmCancel, proc, sess, orphans,
                   crashes, removals>>

-----------------------------------------------------------------------------
(* What the user is shown *)

\* A session of this engine answers for itself, even long after it ended.
ViewedPhase(e) ==
    IF sess[e].pc # "none" THEN sess[e].phase
    ELSE IF file \in {"running", "starting", "stopping", "preparing"} /\ vmCancel[e] = 0
         THEN "needs_recovery" ELSE file

\* GetVMState sweeps what a crash left, if it gets the lock; it holds it no longer.
Sweep(e) ==
    IF sess[e].pc = "none" /\ vmCancel[e] = 0 /\ lock = {}
    THEN \E inputs, dirs \in BOOLEAN :
           /\ dirs => inputs
           /\ removeVMAccountInputs(inputs) /\ cleanupVMRuntimeStaging(dirs)
    ELSE UNCHANGED <<account, staging>>

GetVMState(e) ==
    /\ up[e] /\ close[e] = "no"
    /\ Sweep(e)
    /\ UNCHANGED <<lock, disk, file, runtime, engine, orphans, crashes, removals>>

\* The tree is authenticated before anything in it runs.
vmRuntimeCapability ==
    \E tree \in runtime : verifyVMRuntime(tree)

-----------------------------------------------------------------------------
(* PrepareVM: admission, and the worker's steps up to the builder *)

currentMinimums == parseVMStorageMinimums(Metadata)

GetFreshVMCapability ==
    vmRuntimeCapability
    /\ \E m \in currentMinimums : requiredFree(defaultVMStoragePlan(DiskSize), m) # {}

PrepareVM(e, t) ==
    /\ e \in Installers /\ Callable(e, t) /\ GetFreshVMCapability
    /\ lock = {}
    /\ \E removed \in BOOLEAN :
         /\ removeVMAccountInputs(removed)
         /\ IF removed /\ disk = "none" /\ file = "none"
            THEN /\ lock' = {e}
                 /\ Admit(e, t, "prepare", "record")
                 /\ vmCancel' = [vmCancel EXCEPT ![e] = t]
            ELSE UNCHANGED <<lock, job, vmCancel>>
    /\ UNCHANGED <<disk, file, staging, runtime, up, proc, sess, force, close, orphans,
                   crashes, removals>>

prepareRest == <<lock, staging, runtime, engineRest>>

recordPreparing(e, t) ==
    /\ At(e, t, {"prepare"}, "record")
    /\ \/ Wrote("preparing") /\ Goto(e, t, "resolve")
       \/ NotWritten /\ Goto(e, t, "error")
    /\ UNCHANGED <<prepareRest, disk, account>>

\* The registry names a digest; a profile is chosen for exactly that image and runtime.
resolveVMImage(e, t) ==
    /\ At(e, t, {"prepare"}, "resolve")
    /\ \/ /\ ~job[e][t].cut
          /\ \E m \in currentMinimums :
               selectVMStorageProfile("", [immutable |-> TRUE], "manifest", m, {},
                                      defaultVMStoragePlan(DiskSize)) # {}
          /\ Goto(e, t, "create")
       \/ Goto(e, t, "error")
    /\ UNCHANGED <<prepareRest, disk, file, account>>

\* O_EXCL: an existing disk is never truncated.  The scratch disk may fail after it.
createVMImageFiles(e, t) ==
    /\ At(e, t, {"prepare"}, "create")
    /\ \/ /\ \E m \in currentMinimums, n \in Sizes : admit(defaultVMStoragePlan(DiskSize), m, n)
          /\ disk = "none" /\ disk' = "blank"
          /\ \E pc \in {"account", "error"} : Goto(e, t, pc)
       \/ UNCHANGED disk /\ Goto(e, t, "error")
    /\ UNCHANGED <<prepareRest, file, account>>

writeVMAccountInput(e, t) ==
    /\ At(e, t, {"prepare"}, "account")
    /\ \/ account' = TRUE /\ Goto(e, t, "spawn")
       \/ account' \in {account, TRUE} /\ Goto(e, t, "error")
    /\ UNCHANGED <<prepareRest, disk, file>>

-----------------------------------------------------------------------------
(* Processes: created suspended, given to a job, then resumed *)

Spawn(e) == proc' = [proc EXCEPT ![e] = "suspended"]

\* From here on the guest may write.
ownVMProcess(e, program) ==
    /\ proc' = [proc EXCEPT ![e] = program]
    /\ disk' = "dirty"

\* Kill, then Wait: the process is gone when the call returns.
Killed(e) == proc' = [proc EXCEPT ![e] = "none"]

buildRest == <<lock, file, staging, runtime, up, vmCancel, sess, force, close, orphans,
               crashes, removals>>

\* runBuilderVM returns: the account input is removed last, if Windows allows it.
startBuilder(e, t) ==
    /\ At(e, t, {"prepare"}, "spawn")
    /\ \/ ~job[e][t].cut /\ Spawn(e) /\ Goto(e, t, "own") /\ UNCHANGED account
       \/ account' \in {FALSE, account} /\ Goto(e, t, "error") /\ UNCHANGED proc
    /\ UNCHANGED <<buildRest, disk>>

ownBuilder(e, t) ==
    /\ At(e, t, {"prepare"}, "own")
    /\ \/ ownVMProcess(e, "builder") /\ Goto(e, t, "build") /\ UNCHANGED account
       \/ Killed(e) /\ account' \in {FALSE, account} /\ Goto(e, t, "error") /\ UNCHANGED disk
    /\ UNCHANGED buildRest

\* The builder finishes the disk and says so, fails, or is stopped: by a cancel, by
\* the two hours, or by guardVMFreeSpace when Windows needs the room.
BuilderExits(e) ==
    /\ proc[e] = "builder"
    /\ \/ disk' = "clean" /\ proc' = [proc EXCEPT ![e] = "clean"]
       \/ UNCHANGED disk /\ proc' = [proc EXCEPT ![e] = "gone"]
    /\ UNCHANGED <<buildRest, job, account>>

\* The builder says success after a receipt of its run exactly if the disk is complete;
\* other lines may stand around the two.
Honest(log, complete) ==
    complete <=> \E i, j \in DOMAIN log : j < i /\ log[j] = "result" /\ log[i] = "success"

\* Mutant: a receipt is enough.
ProvenAnyway(j, proven, removed) ==
    [j EXCEPT !.id = proven, !.phase = IF proven THEN "ready" ELSE "preparing",
              !.pc = IF proven THEN "ready" ELSE "error"]

\* DiskID is known from the receipt on, even if the account input then cannot be removed.
Built(j, proven, removed) ==
    [j EXCEPT !.id = proven, !.phase = IF proven /\ removed THEN "ready" ELSE "preparing",
              !.pc = IF proven /\ removed THEN "ready" ELSE "error"]

runBuilderVM(e, t) ==
    /\ At(e, t, {"prepare"}, "build") /\ proc[e] \in {"clean", "gone"}
    /\ Killed(e)
    /\ \E log \in Logs, removed \in BOOLEAN :
         /\ Honest(log, proc[e] = "clean")
         /\ removeVMAccountInputs(removed)
         /\ job' = [job EXCEPT ![e][t] =
                      Built(@, ~@.cut /\ verifyVMBuilderReceipt(log), removed)]
    /\ UNCHANGED <<buildRest, disk>>

recordReady(e, t) ==
    /\ At(e, t, {"prepare"}, "ready")
    /\ \/ Wrote("ready") /\ Goto(e, t, IF job[e][t].cut THEN "error" ELSE "launch")
       \/ NotWritten /\ Goto(e, t, "error")
    /\ UNCHANGED <<prepareRest, disk, account>>

\* The end of the context kills the builder: a cancel, or two hours at the latest.
CutBuilder(e, t) ==
    /\ At(e, t, {"prepare"}, "build") /\ proc[e] = "builder"
    /\ proc' = [proc EXCEPT ![e] = "gone"]
    /\ job' = [job EXCEPT ![e][t].cut = TRUE]
    /\ UNCHANGED <<buildRest, disk, account>>

\* The record a failed preparation leaves: "failed" before there was a disk identity;
\* else what is recorded, so that a recovery verdict of the launch is kept.
\* If the record cannot be read, it is what the worker has in memory.
FailureRecord(j) ==
    IF ~j.id THEN {"failed"}
    ELSE {IF file = "starting" THEN "needs_recovery" ELSE file}
         \union (IF ReadsMayFail THEN {j.phase} ELSE {})

\* The worker releases the image here, and only later clears vmCancel, whosever it is then.
prepareFails(e, t) ==
    /\ At(e, t, {"prepare"}, "error")
    /\ \E phase \in FailureRecord(job[e][t]) : writeVMState(phase)
    /\ release(e) /\ Goto(e, t, "leave")
    /\ UNCHANGED <<disk, account, staging, runtime, engineRest>>

\* Mutant: the worker returns without closing its done channel.
LeaveUnsaid(e, t) ==
    /\ At(e, t, {"prepare"}, "leave")
    /\ vmCancel' = [vmCancel EXCEPT ![e] = 0]
    /\ Leave(e, t)
    /\ UNCHANGED <<shared, up, proc, sess, force, close, orphans, crashes, removals>>

prepareReturns(e, t) ==
    /\ At(e, t, {"prepare"}, "leave")
    /\ vmCancel' = [vmCancel EXCEPT ![e] = 0]
    /\ Leave(e, t)
    /\ force' = Woken(force, e, t, "kill") /\ close' = Woken(close, e, t, "stop")
    /\ UNCHANGED <<shared, up, proc, sess, orphans, crashes, removals>>

-----------------------------------------------------------------------------
(* BootInVM *)

\* GetVMCapability, before the lock: what it saw may be old when the lock is there.
BootInVM(e, t) ==
    /\ Callable(e, t)
    /\ ViewedPhase(e) \in Launchable /\ vmRuntimeCapability
    /\ Sweep(e)
    /\ Admit(e, t, "boot", "lock")
    /\ UNCHANGED <<lock, disk, file, runtime, engineRest>>

\* Another engine's GetVMState may hold the lock for a moment: it can always be refused.
bootLocks(e, t) ==
    /\ At(e, t, {"boot"}, "lock")
    /\ \/ acquireVMLock(e) /\ removeVMAccountInputs(TRUE) /\ Goto(e, t, "launch")
       \/ UNCHANGED <<lock, account>> /\ Leave(e, t)
    /\ UNCHANGED <<disk, file, staging, runtime, engineRest>>

-----------------------------------------------------------------------------
(* launchManagedDesktop, for either caller *)

Launching == {"prepare", "boot"}

\* BootInVM gives the image back at once, the preparation records its failure first.
LaunchFails(e, t) ==
    IF job[e][t].kind = "boot" THEN Leave(e, t) /\ release(e)
                               ELSE Goto(e, t, "error") /\ UNCHANGED lock

\* Mutant: any record will do, if the disk has the recorded identity.
AllowAnyPhase(phase) == disk \in {"clean", "dirty"}

vmLaunchAllowed(phase) == phase \in Launchable /\ disk \in {"clean", "dirty"}

\* BootInVM reads the record again under the lock; the worker has its own.
LaunchPhase(j) == IF j.kind = "boot" THEN file ELSE j.phase

\* "starting" is recorded before there is a process: a crash from here on is an interruption.
launchManagedDesktop(e, t) ==
    /\ At(e, t, Launching, "launch")
    /\ \/ /\ vmLaunchAllowed(LaunchPhase(job[e][t])) /\ verifyVMDiskReleased
          /\ Wrote("starting") /\ Goto(e, t, "start") /\ UNCHANGED lock
       \/ NotWritten /\ LaunchFails(e, t)
    /\ UNCHANGED <<disk, account, staging, runtime, engineRest>>

startRest == <<account, staging, runtime, up, vmCancel, force, close, orphans,
               crashes, removals>>

startManagedVM(e, t) ==
    /\ At(e, t, Launching, "start")
    /\ \/ Spawn(e) /\ Goto(e, t, "adopt") /\ UNCHANGED lock
       \/ UNCHANGED proc /\ LaunchFails(e, t)
    /\ UNCHANGED <<startRest, disk, file, sess>>

\* Without ownership or control the process is killed and recovery recorded.
adoptDesktop(e, t) ==
    /\ At(e, t, Launching, "adopt")
    /\ \/ ownVMProcess(e, "desktop") /\ Goto(e, t, "control") /\ UNCHANGED <<file, lock>>
       \/ Killed(e) /\ writeVMState("needs_recovery") /\ LaunchFails(e, t) /\ UNCHANGED disk
    /\ UNCHANGED <<startRest, sess>>

connectControl(e, t) ==
    /\ At(e, t, Launching, "control")
    /\ \/ proc[e] = "desktop" /\ Goto(e, t, "publish") /\ UNCHANGED <<proc, file, lock>>
       \/ Killed(e) /\ writeVMState("needs_recovery") /\ LaunchFails(e, t)
    /\ UNCHANGED <<startRest, disk, sess>>

publishRunning(e, t) ==
    /\ At(e, t, Launching, "publish")
    /\ \/ /\ Wrote("running")
          /\ sess' = [sess EXCEPT ![e] = [pc |-> "live", phase |-> "running", forced |-> FALSE]]
          /\ IF job[e][t].kind = "boot" THEN Leave(e, t) ELSE Goto(e, t, "leave")
          /\ UNCHANGED <<proc, lock>>
       \/ NotWritten /\ Killed(e) /\ LaunchFails(e, t) /\ UNCHANGED sess
    /\ UNCHANGED <<startRest, disk>>

\* The guest powers off and QEMU exits with 0, or the process dies in any other way.
GuestExits(e) ==
    /\ proc[e] = "desktop"
    /\ \/ disk' = "clean" /\ proc' = [proc EXCEPT ![e] = "clean"]
       \/ UNCHANGED disk /\ proc' = [proc EXCEPT ![e] = "gone"]
    /\ UNCHANGED <<startRest, lock, file, sess, job>>

-----------------------------------------------------------------------------
(* The session: wait, stop and force *)

\* Mutant: the process ended, so the VM stopped.
ExitIsStop(e) == {"stopped"}

\* Stopped needs an exit with 0, the guest's own SHUTDOWN event, and no force.
StopVerdict(e) ==
    {"needs_recovery"}
      \union (IF proc[e] = "clean" /\ ~sess[e].forced THEN {"stopped"} ELSE {})

\* If the verdict cannot be recorded, it is not one.
wait(e) ==
    /\ up[e] /\ sess[e].pc = "live" /\ proc[e] \in {"clean", "gone"}
    /\ Killed(e)
    /\ \E phase \in StopVerdict(e), written \in BOOLEAN :
         /\ file' = IF written THEN phase ELSE file
         /\ sess' = [sess EXCEPT ![e].pc = "release",
                                 ![e].phase = IF written THEN phase ELSE "needs_recovery"]
    /\ UNCHANGED <<startRest, lock, disk, job>>

\* done is closed: a shutdownVM that waits for this session goes on.
waitReturns(e) ==
    /\ up[e] /\ sess[e].pc = "release"
    /\ release(e)
    /\ sess' = [sess EXCEPT ![e].pc = "done", ![e].forced = FALSE]
    /\ close' = [close EXCEPT ![e] = IF @ \in {"wait", "dead"} THEN "exit" ELSE @]
    /\ UNCHANGED <<disk, file, account, staging, runtime, up, job, vmCancel, proc, force,
                   orphans, crashes, removals>>

\* "stopping" is recorded, then the guest is asked; a failed write asks nothing.
stop(e, asked) ==
    /\ sess[e].pc = "live"
    /\ sess' = [sess EXCEPT ![e].phase = "stopping"]
    /\ IF asked THEN Wrote("stopping") ELSE NotWritten

StopVM(e) ==
    /\ up[e] /\ close[e] = "no"
    /\ \E asked \in BOOLEAN : stop(e, asked)
    /\ UNCHANGED <<lock, disk, account, staging, runtime, up, job, vmCancel, proc, force,
                   close, orphans, crashes, removals>>

\* A process that already exited keeps its exit; the session is marked all the same.
Forced(e) ==
    IF sess[e].pc = "live"
    THEN /\ sess' = [sess EXCEPT ![e].forced = TRUE]
         /\ proc' = [proc EXCEPT ![e] = IF @ = "desktop" THEN "gone" ELSE @]
    ELSE UNCHANGED <<sess, proc>>

Cancelled(e) == job' = [job EXCEPT ![e][vmCancel[e]].cut = TRUE]

ForceStopVM(e) ==
    /\ e \in Installers /\ up[e] /\ close[e] = "no" /\ force[e] = "no"
    /\ IF vmCancel[e] # 0
       THEN Cancelled(e) /\ force' = [force EXCEPT ![e] = JoinOn[vmCancel[e]]] /\ UNCHANGED <<sess, proc>>
       ELSE sess[e].pc # "none" /\ Forced(e) /\ UNCHANGED <<job, force>>
    /\ UNCHANGED <<shared, up, vmCancel, close, orphans, crashes, removals>>

\* The worker is gone; a session it left behind is forced too.
forceJoined(e) ==
    /\ up[e] /\ force[e] = "kill"
    /\ Forced(e)
    /\ force' = [force EXCEPT ![e] = "no"]
    /\ UNCHANGED <<shared, up, job, vmCancel, close, orphans, crashes, removals>>

-----------------------------------------------------------------------------
(* The engine closes *)

closeRest == <<up, vmCancel, force, orphans, crashes, removals>>
Closes(e, pc) == close' = [close EXCEPT ![e] = pc]

shutdownVM(e) ==
    /\ e \in Installers /\ up[e] /\ close[e] = "no"
    /\ IF vmCancel[e] # 0 THEN Cancelled(e) /\ Closes(e, JoinOn[vmCancel[e]])
       ELSE UNCHANGED job /\ Closes(e, IF sess[e].pc = "live" THEN "stop" ELSE "exit")
    /\ UNCHANGED <<shared, proc, sess, closeRest>>

\* Ask, wait up to 90 seconds, then force; a request that fails is forced at once.
closeStops(e) ==
    /\ up[e] /\ close[e] = "stop"
    /\ \/ sess[e].pc # "live" /\ Closes(e, "exit") /\ UNCHANGED <<sess, file>>
       \/ \E asked \in BOOLEAN : stop(e, asked) /\ Closes(e, "wait")
    /\ UNCHANGED <<lock, disk, account, staging, runtime, job, proc, closeRest>>

closeForces(e) ==
    /\ up[e] /\ close[e] = "wait"
    /\ Forced(e) /\ Closes(e, "dead")
    /\ UNCHANGED <<shared, job, closeRest>>

\* Windows abandons the mutex of a dead engine: the next wait gets it.
Abandon(dead) == lock' = lock \ dead

\* A process that is not yet in the job stays suspended for ever; one in the job
\* is stopped by Windows, but not before the mutex is free.
Die(dead) ==
    /\ Abandon(dead)
    /\ up' = [e \in Engines |-> up[e] /\ e \notin dead]
    /\ job' = [e \in Engines |-> IF e \in dead THEN [t \in Slots |-> Free] ELSE job[e]]
    /\ vmCancel' = [e \in Engines |-> IF e \in dead THEN 0 ELSE vmCancel[e]]
    /\ proc' = [e \in Engines |-> IF e \in dead THEN "none" ELSE proc[e]]
    /\ sess' = [e \in Engines |-> IF e \in dead THEN NoSession ELSE sess[e]]
    /\ force' = [e \in Engines |-> IF e \in dead THEN "no" ELSE force[e]]
    /\ close' = [e \in Engines |-> IF e \in dead THEN "no" ELSE close[e]]
    /\ UNCHANGED <<disk, file, account, staging, runtime, removals>>

Left(e) == {e} \intersect (Writers \ orphans)

EngineExits(e) ==
    /\ up[e] /\ close[e] = "exit"
    /\ Die({e})
    /\ orphans' = orphans \union Left(e)
    /\ UNCHANGED crashes

EngineCrashes(e) ==
    /\ up[e] /\ crashes < MaxCrashes
    /\ Die({e})
    /\ orphans' = orphans \union Left(e)
    /\ crashes' = crashes + 1

PowerCut ==
    /\ crashes < MaxCrashes
    /\ Die(Engines)
    /\ orphans' = {} /\ crashes' = crashes + 1

EngineStarts(e) ==
    /\ ~up[e]
    /\ up' = [up EXCEPT ![e] = TRUE]
    /\ UNCHANGED <<shared, job, vmCancel, proc, sess, force, close, orphans, crashes, removals>>

OrphanStops(e) ==
    /\ e \in orphans
    /\ orphans' = orphans \ {e}
    /\ UNCHANGED <<shared, engine, crashes, removals>>

-----------------------------------------------------------------------------
(* Native operations on the same disk *)

\* Mutant: only the lock and the open handles count.
LeaseOnLockAlone(e) == acquireVMLock(e) /\ verifyVMDiskReleased

acquireNativeInstallLease(e) ==
    acquireVMLock(e) /\ file = "none" /\ verifyVMDiskReleased

\* An install only ever creates the disk.
NativeInstall(e, t) ==
    /\ e \in Removers /\ Callable(e, t) /\ acquireNativeInstallLease(e) /\ disk = "none"
    /\ Admit(e, t, "native", "deploy")
    /\ UNCHANGED <<disk, file, account, staging, runtime, engineRest>>

createRootDisk(e, t) ==
    /\ At(e, t, {"native"}, "deploy")
    /\ disk' \in {disk, "native"}
    /\ release(e) /\ Leave(e, t)
    /\ UNCHANGED <<file, account, staging, runtime, engineRest>>

Uninstall(e, t) ==
    /\ e \in Removers /\ Callable(e, t) /\ removals < MaxRemovals
    /\ acquireVMLock(e) /\ verifyVMDiskReleased
    /\ Admit(e, t, "uninstall", "remove")
    /\ removals' = removals + 1
    /\ UNCHANGED <<disk, file, account, staging, runtime, up, vmCancel, proc, sess, force,
                   close, orphans, crashes>>

\* RemoveAll of the disks, then of the folder, each as far as Windows allows; or, if
\* the user keeps the disk, nothing of the VM.
RemoveFolder(e, t) ==
    /\ At(e, t, {"uninstall"}, "remove")
    /\ disk' \in {disk, "none"}
    /\ \/ UNCHANGED <<file, account, staging, runtime>>
       \/ file' = "none" /\ account' = FALSE /\ staging' = FALSE /\ runtime' = {}
    /\ release(e) /\ Leave(e, t)
    /\ UNCHANGED engineRest

-----------------------------------------------------------------------------

\* What an engine's own goroutines do next, without a call from outside.
Step(e, t) ==
    \/ downloadVMRuntime(e, t) \/ acquireVMRuntime(e, t) \/ runtimeReturns(e, t)
    \/ runtimeCloses(e, t)
    \/ recordPreparing(e, t) \/ resolveVMImage(e, t) \/ createVMImageFiles(e, t)
    \/ writeVMAccountInput(e, t) \/ startBuilder(e, t) \/ ownBuilder(e, t)
    \/ runBuilderVM(e, t) \/ CutBuilder(e, t) \/ recordReady(e, t)
    \/ prepareFails(e, t) \/ prepareReturns(e, t)
    \/ bootLocks(e, t) \/ launchManagedDesktop(e, t) \/ startManagedVM(e, t)
    \/ adoptDesktop(e, t) \/ connectControl(e, t) \/ publishRunning(e, t)
    \/ createRootDisk(e, t) \/ RemoveFolder(e, t)

Call(e, t) ==
    \/ InstallVMRuntime(e, t) \/ PrepareVM(e, t) \/ BootInVM(e, t)
    \/ NativeInstall(e, t) \/ Uninstall(e, t)

Closing(e) ==
    \/ closeStops(e) \/ closeForces(e) \/ EngineExits(e)

Next ==
    \/ \E e \in Engines, t \in Slots : Call(e, t) \/ Step(e, t)
    \/ \E e \in Engines :
         \/ GetVMState(e) \/ StopVM(e) \/ ForceStopVM(e) \/ forceJoined(e) \/ shutdownVM(e)
         \/ BuilderExits(e) \/ GuestExits(e) \/ wait(e) \/ waitReturns(e)
         \/ Closing(e) \/ EngineCrashes(e) \/ EngineStarts(e) \/ OrphanStops(e)
    \/ PowerCut

Spec == Init /\ [][Next]_vars

-----------------------------------------------------------------------------
(* Properties *)

\* Types; a dead engine owns nothing, and at most one process is being stopped.
TypeOK ==
    /\ \E e \in Engines : lock \subseteq {e} /\ (Holder(e) => up[e])
    /\ disk \in {"none", "blank", "dirty", "clean", "native"}
    /\ file \in Phases \union {"none"}
    /\ {account, staging} \subseteq BOOLEAN
    /\ Cardinality(runtime) <= 1
    /\ vmCancel \in [Engines -> Slots \union {0}]
    /\ proc \in [Engines -> {"none", "suspended", "builder", "desktop", "clean", "gone"}]
    /\ sess \in [Engines -> [pc : {"none", "live", "release", "done"},
                             phase : Phases \union {"none"}, forced : BOOLEAN]]
    /\ force \in [Engines -> {"no", "kill"} \union {JoinOn[t] : t \in Slots}]
    /\ close \in [Engines -> {"no", "stop", "wait", "dead", "exit"} \union {JoinOn[t] : t \in Slots}]
    /\ Cardinality(orphans) <= 1
    /\ crashes \in 0 .. MaxCrashes /\ removals \in 0 .. MaxRemovals

\* vm\state.json says ready or stopped only while the file system of root.disk is
\* complete and closed and no process has it open: after a kill, a crash of the
\* engine, a power cut or a record that could not be written, no later launch
\* starts from an interrupted file system (docs/managed-vm.md, "Restart").
LaunchableIsClean ==
    file \in Launchable /\ disk \notin {"none", "native"} => disk = "clean" /\ Writers = {}

\* While a desktop runs no private account input is left on the disk, whatever a
\* crashed preparation left behind and whichever removal failed.
CredentialsGone == \A e \in Engines : proc[e] = "desktop" => ~account

\* A disk deployed natively and a VM record never meet: a native install does not
\* adopt a managed disk, and a preparation does not adopt a native one.
NativeApart == disk = "native" => file = "none"

\* A published runtime passes the check of every later start.  Setup never replaces
\* an existing directory, so a tree that fails it could never be used or repaired.
RuntimeIsUsable == \A tree \in runtime : verifyVMRuntime(tree)

\* Who holds the image: a launch from the record "starting" on, a preparation from
\* the disk's creation on, a session until its verdict.
Holding(e) ==
    \/ sess[e].pc = "live"
    \/ \E t \in Slots :
         \/ job[e][t].kind \in Launching
            /\ job[e][t].pc \in {"start", "adopt", "control", "publish"}
         \/ job[e][t].kind = "prepare"
            /\ job[e][t].pc \in {"account", "spawn", "own", "build", "ready", "error"}

Stage ==
    IF disk = "none" THEN "absent"
    ELSE IF disk = "native" THEN "native"
    ELSE IF file \in Launchable THEN "offered"
    ELSE IF \E e \in Engines : Holding(e) THEN "held" ELSE "unfit"

Image == INSTANCE LinuxImage WITH
    Users <- Engines, stage <- Stage, sound <- (disk = "clean"), users <- Writers

\* The engines together keep LinuxImage's promise: one holder and one writer at a
\* time, and an image that was not closed is never offered or opened again.
ImagePromise == Image!Spec

\* Whoever waits for a worker waits for one that was cancelled and has not returned:
\* closing the app and ForceStopVM never join a done channel nobody will close, in
\* whatever order two preparations, their failures and the calls overlap.
JoinsAreAnswered ==
    \A e \in Engines, t \in Slots :
      JoinOn[t] \in {force[e], close[e]} =>
        job[e][t].kind \in {"prepare", "runtime"} /\ job[e][t].cut
=============================================================================
