------------------------- MODULE VmLifecycleProofs -------------------------
(***************************************************************************)
(* The properties of the vm run for any number of engines, archives, logs, *)
(* crashes and removals.  The argument is one of ownership: whoever is at  *)
(* a step between taking and giving back the image mutex has it alone, so  *)
(* what that step knows of root.disk, state.json and its own QEMU stays    *)
(* true until it takes the next one.                                       *)
(***************************************************************************)
EXTENDS VmLifecycle, TLAPS

\* state.json can always be read: the condition of the vm run.
Readable == ReadsMayFail = FALSE

Kinds == {"none", "runtime", "prepare", "boot", "native", "uninstall"}

Labels == {"idle", "download", "install", "clear", "close", "record", "resolve", "create",
           "account", "spawn", "own", "build", "ready", "error", "leave", "launch", "start",
           "adopt", "control", "publish", "lock", "deploy", "remove"}
Words == Phases \union {"none"}

\* The steps of each operation.
Fits(k, p) ==
    \/ k = "none" /\ p = "idle"
    \/ k = "runtime" /\ p \in {"download", "install", "clear", "close"}
    \/ k = "prepare" /\ p \in {"record", "resolve", "create", "account", "spawn", "own",
                               "build", "ready", "error", "leave"}
    \/ k \in Launching /\ p \in {"launch", "start", "adopt", "control", "publish"}
    \/ k = "boot" /\ p = "lock"
    \/ k = "native" /\ p = "deploy"
    \/ k = "uninstall" /\ p = "remove"

Job == {j \in [kind : Kinds, pc : Labels, id : BOOLEAN, phase : Words, cut : BOOLEAN] :
          Fits(j.kind, j.pc)}
Jobs == [Engines -> [Slots -> Job]]

Sessions == [Engines -> [pc : {"none", "live", "release", "done"}, phase : Words,
                         forced : BOOLEAN]]

Types ==
    /\ job \in Jobs
    /\ proc \in [Engines -> {"none", "suspended", "builder", "desktop", "clean", "gone"}]
    /\ sess \in Sessions
    /\ vmCancel \in [Engines -> Slots \union {0}]
    /\ force \in [Engines -> {"no", "kill", "join1", "join2"}]
    /\ close \in [Engines -> {"no", "stop", "wait", "dead", "exit", "join1", "join2"}]

\* The steps between taking the image mutex and giving it back.
Claim(j) == j.kind # "none" /\ j.pc \notin {"lock", "leave"}
Attached(e) == sess[e].pc \in {"live", "release"}

Ownership ==
    /\ \A e \in Engines : Attached(e) => lock = {e}
    /\ \A e \in Engines, t \in Slots : Claim(job[e][t]) => lock = {e} /\ ~Attached(e)
    /\ \A e \in Engines, s, t \in Slots : Claim(job[e][s]) /\ Claim(job[e][t]) => s = t

\* What an operation at j knows of the disk, the record and the engine's QEMU.
Knows(e, j) ==
    /\ j.pc \in {"record", "deploy"} => file = "none" /\ disk = "none"
    /\ j.pc \in {"resolve", "create"} => file = "preparing" /\ disk = "none"
    /\ j.pc \in {"account", "spawn", "own"} => file = "preparing" /\ disk = "blank"
    /\ j.pc \in {"build", "ready"} => file = "preparing"
    /\ j.pc \in {"ready", "start", "adopt"} => disk = "clean"
    /\ j.kind = "prepare" /\ j.pc = "launch" => file = "ready" /\ disk = "clean"
    /\ j.kind = "prepare" /\ j.pc \in {"ready", "launch"} => j.phase = "ready"
    /\ j.kind = "prepare" /\ j.pc \in {"ready", "launch", "start", "adopt", "control", "publish"}
         => j.id
    /\ j.pc \in {"start", "adopt", "control", "publish"} => file = "starting"
    /\ j.pc = "error" => disk # "native" /\ (j.id \/ file \in {"none", "preparing"})
    /\ j.pc = "remove" => orphans = {}
    /\ j.pc \in {"ready", "launch", "start", "adopt", "control", "publish"} => ~account
    /\ j.pc \in {"own", "adopt"} => proc[e] = "suspended"
    /\ j.pc = "build" => proc[e] \in {"builder", "clean", "gone"}
    /\ j.pc \in {"control", "publish"} => proc[e] \in {"desktop", "clean", "gone"}
    /\ Claim(j) /\ j.pc \notin {"own", "build", "adopt", "control", "publish"}
         => proc[e] = "none"

\* What a session knows, until its verdict and then until it lets go.
Follows(e) ==
    /\ sess[e].pc = "live" => /\ file \in {"running", "stopping"} /\ ~account
                              /\ proc[e] \in {"desktop", "clean", "gone"}
    /\ sess[e].pc = "release" => proc[e] = "none"

\* Whose a process is, and what it says of the disk.
Runs(e) ==
    /\ proc[e] # "none" => lock = {e}
    /\ proc[e] \in {"builder", "desktop", "gone"} => disk = "dirty"
    /\ proc[e] = "clean" => disk = "clean"
    /\ proc[e] \in {"builder", "desktop"} => orphans = {} /\ file # "none"
    /\ proc[e] = "desktop" => ~account

\* What everybody may rely on.
Shared ==
    /\ orphans # {} => disk = "dirty" /\ file \notin Launchable \union {"none"}
    /\ \A x, y \in orphans : x = y
    /\ orphans \subseteq Engines
    /\ file \in Launchable /\ disk \notin {"none", "native"} => disk = "clean"
    /\ NativeApart

OwnerInv ==
    /\ Ownership
    /\ \A e \in Engines : Follows(e) /\ Runs(e)
    /\ \A e \in Engines, t \in Slots : Knows(e, job[e][t])
    /\ Shared

\* A worker's entry in vmCancel goes before the worker does.
Cancels ==
    \A e \in Engines, t \in Slots :
      vmCancel[e] = t => job[e][t].kind \in {"prepare", "runtime"} /\ job[e][t].pc # "close"

\* What one engine does outside its operations.
Alone(e) ==
    \/ GetVMState(e) \/ StopVM(e) \/ ForceStopVM(e) \/ forceJoined(e) \/ shutdownVM(e)
    \/ BuilderExits(e) \/ GuestExits(e) \/ wait(e) \/ waitReturns(e) \/ EngineCrashes(e)
    \/ EngineStarts(e) \/ OrphanStops(e)

-----------------------------------------------------------------------------
(* Types *)


\* The operation in slot t of engine e is now k, at step p; nothing else moved.
Turn(e, t, k, p) ==
    /\ job'[e][t].kind = k /\ job'[e][t].pc = p
    /\ \A x \in Engines, s \in Slots : x # e \/ s # t => job'[x][s] = job[x][s]

\* ... and the operation has what it had.
Keeps(e, t) ==
    /\ job'[e][t].id = job[e][t].id /\ job'[e][t].phase = job[e][t].phase
    /\ job'[e][t].cut = job[e][t].cut

\* A slot is replaced by another job.
LEMMA JobUpdate ==
    ASSUME job \in Jobs, NEW e \in Engines, NEW t \in Slots, NEW j \in Job,
           job' = [job EXCEPT ![e] = [job[e] EXCEPT ![t] = j]]
    PROVE  job' \in Jobs /\ job'[e][t] = j /\ Turn(e, t, j.kind, j.pc)
<1> USE DEF Jobs
<1>1. job[e] \in [Slots -> Job]
  OBVIOUS
<1>2. [job[e] EXCEPT ![t] = j] \in [Slots -> Job]
  BY <1>1
<1>3. job' \in Jobs /\ job'[e] = [job[e] EXCEPT ![t] = j]
  BY <1>2
<1>4. \A x \in Engines : x # e => job'[x] = job[x]
  OBVIOUS
<1>5. \A s \in Slots : job'[e][s] = IF s = t THEN j ELSE job[e][s]
  BY <1>1, <1>3
<1> QED BY <1>3, <1>4, <1>5 DEF Turn

\* The steps of the operations are labels.
LEMMA FitsTypes == \A k, p : Fits(k, p) => k \in Kinds /\ p \in Labels
  BY DEF Fits, Kinds, Labels, Launching

\* A step inside an operation keeps what the operation is and knows.
LEMMA GotoTurns ==
    ASSUME job \in Jobs, NEW e \in Engines, NEW t \in Slots, NEW p,
           Fits(job[e][t].kind, p), Goto(e, t, p)
    PROVE  job' \in Jobs /\ Turn(e, t, job[e][t].kind, p) /\ Keeps(e, t)
<1> DEFINE j == [job[e][t] EXCEPT !.pc = p]
<1>1. job[e][t] \in Job
  BY DEF Jobs
<1>2. /\ j \in Job /\ j.kind = job[e][t].kind /\ j.pc = p
      /\ j.id = job[e][t].id /\ j.phase = job[e][t].phase /\ j.cut = job[e][t].cut
  BY <1>1, FitsTypes DEF Job
<1>3. job' = [job EXCEPT ![e] = [job[e] EXCEPT ![t] = j]]
  BY DEF Goto
<1> HIDE DEF j
<1>4. job' \in Jobs /\ job'[e][t] = j /\ Turn(e, t, j.kind, j.pc)
  BY <1>2, <1>3, JobUpdate
<1> QED BY <1>2, <1>4 DEF Keeps

\* An idle slot is a job.
LEMMA FreeJob == Free \in Job /\ Free.kind = "none" /\ Free.pc = "idle"
<1>1. Free \in [kind : Kinds, pc : Labels, id : BOOLEAN, phase : Words, cut : BOOLEAN]
  BY DEF Free, Kinds, Labels, Words
<1>2. Free.kind = "none" /\ Free.pc = "idle"
  BY DEF Free
<1> QED BY <1>1, <1>2 DEF Job, Fits

\* A call takes its slot.
LEMMA AdmitTurns ==
    ASSUME job \in Jobs, NEW e \in Engines, NEW t \in Slots, NEW k,
           NEW p, Fits(k, p), Admit(e, t, k, p)
    PROVE  job' \in Jobs /\ Turn(e, t, k, p)
<1> DEFINE j == [Free EXCEPT !.kind = k, !.pc = p]
<1>2. j \in Job /\ j.kind = k /\ j.pc = p
  BY FreeJob, FitsTypes DEF Job
<1>3. job' = [job EXCEPT ![e] = [job[e] EXCEPT ![t] = j]]
  BY DEF Admit
<1> HIDE DEF j
<1>4. job' \in Jobs /\ job'[e][t] = j /\ Turn(e, t, j.kind, j.pc)
  BY <1>2, <1>3, JobUpdate
<1> QED BY <1>2, <1>4

\* An operation gives its slot back.
LEMMA LeaveTurns ==
    ASSUME job \in Jobs, NEW e \in Engines, NEW t \in Slots, Leave(e, t)
    PROVE  job' \in Jobs /\ Turn(e, t, "none", "idle")
<1>2. job' = [job EXCEPT ![e] = [job[e] EXCEPT ![t] = Free]]
  BY DEF Leave
<1>3. job' \in Jobs /\ Turn(e, t, Free.kind, Free.pc)
  BY FreeJob, <1>2, JobUpdate
<1> QED BY FreeJob, <1>3

\* A cut worker stays where it is.
LEMMA CutTurns ==
    ASSUME job \in Jobs, NEW e \in Engines, NEW t \in Slots,
           job' = [job EXCEPT ![e][t].cut = TRUE]
    PROVE  /\ job' \in Jobs /\ Turn(e, t, job[e][t].kind, job[e][t].pc)
           /\ job'[e][t] = [job[e][t] EXCEPT !.cut = TRUE]
<1> DEFINE j == [job[e][t] EXCEPT !.cut = TRUE]
<1>1. job[e][t] \in Job
  BY DEF Jobs
<1>2. j \in Job /\ j.kind = job[e][t].kind /\ j.pc = job[e][t].pc
  BY <1>1 DEF Job
<1>3. job' = [job EXCEPT ![e] = [job[e] EXCEPT ![t] = j]]
  OBVIOUS
<1> HIDE DEF j
<1>4. job' \in Jobs /\ job'[e][t] = j /\ Turn(e, t, j.kind, j.pc)
  BY <1>2, <1>3, JobUpdate
<1> QED BY <1>2, <1>4 DEF j

\* A cancel marks one worker and moves nobody.
LEMMA CancelledTurns ==
    ASSUME Types, NEW e \in Engines, vmCancel[e] # 0, Cancelled(e)
    PROVE  /\ job' \in Jobs /\ vmCancel[e] \in Slots
           /\ job'[e][vmCancel[e]] = [job[e][vmCancel[e]] EXCEPT !.cut = TRUE]
           /\ Turn(e, vmCancel[e], job[e][vmCancel[e]].kind, job[e][vmCancel[e]].pc)
<1>1. vmCancel[e] \in Slots /\ job \in Jobs
  BY DEF Types, Slots
<1>2. job' = [job EXCEPT ![e][vmCancel[e]].cut = TRUE]
  BY DEF Cancelled
<1> QED BY <1>1, <1>2, CutTurns

\* A dead engine has no operation under way.
LEMMA DieTurns ==
    ASSUME job \in Jobs, NEW dead, Die(dead)
    PROVE  /\ job' \in Jobs
           /\ \A e \in Engines, t \in Slots :
                job'[e][t] = IF e \in dead THEN Free ELSE job[e][t]
<1>1. job' = [e \in Engines |-> IF e \in dead THEN [t \in Slots |-> Free] ELSE job[e]]
  BY DEF Die
<1>2. [t \in Slots |-> Free] \in [Slots -> Job]
  BY FreeJob
<1>3. job' \in Jobs
  BY <1>1, <1>2 DEF Jobs
<1> QED BY <1>1, <1>3

\* The end of the builder: on to the record, or to the failure.
LEMMA BuiltTurns ==
    ASSUME job \in Jobs, NEW e \in Engines, NEW t \in Slots, job[e][t].kind = "prepare",
           NEW proven \in BOOLEAN, NEW removed \in BOOLEAN,
           job' = [job EXCEPT ![e][t] = Built(job[e][t], proven, removed)]
    PROVE  /\ job' \in Jobs
           /\ Turn(e, t, "prepare", IF proven /\ removed THEN "ready" ELSE "error")
           /\ proven /\ removed => job'[e][t].phase = "ready"
           /\ job'[e][t].id = proven
           /\ job'[e][t].cut = job[e][t].cut
<1> DEFINE ph == IF proven /\ removed THEN "ready" ELSE "preparing"
           pc == IF proven /\ removed THEN "ready" ELSE "error"
           j == [job[e][t] EXCEPT !.id = proven, !.phase = ph, !.pc = pc]
<1>1. job[e][t] \in Job
  BY DEF Jobs
<1>2. ph \in Words /\ Fits("prepare", pc)
  BY DEF Words, Phases, Fits
<1>3. job' = [job EXCEPT ![e] = [job[e] EXCEPT ![t] = j]]
  BY DEF Built
<1> HIDE DEF ph, pc
<1>4. /\ j \in Job /\ j.kind = "prepare" /\ j.pc = pc
      /\ j.id = proven /\ j.phase = ph /\ j.cut = job[e][t].cut
  BY <1>1, <1>2, FitsTypes DEF Job
<1> HIDE DEF j
<1>5. job' \in Jobs /\ job'[e][t] = j /\ Turn(e, t, j.kind, j.pc)
  BY <1>4, <1>3, JobUpdate
<1> QED BY <1>4, <1>5 DEF ph, pc

\* Every action keeps the slots in their types.
LEMMA JobsStep == Types /\ [Next]_vars => job' \in Jobs
<1> SUFFICES ASSUME Types, [Next]_vars PROVE job' \in Jobs
  OBVIOUS
<1>0. job \in Jobs /\ \A e \in Engines, s \in Slots : job[e][s] \in Job
  BY DEF Types, Jobs
<1> USE <1>0 DEF Fits, Launching
<1>1. ASSUME NEW e \in Engines, NEW t \in Slots, Call(e, t) PROVE job' \in Jobs
  <2>1. CASE InstallVMRuntime(e, t)
    BY <2>1, AdmitTurns DEF InstallVMRuntime, acquireVMLock, cleanupVMRuntimeStaging,
         Callable
  <2>2. CASE PrepareVM(e, t)
    BY <2>2, AdmitTurns DEF PrepareVM, removeVMAccountInputs, Callable
  <2>3. CASE BootInVM(e, t)
    BY <2>3, AdmitTurns DEF BootInVM, Callable, engineRest, Sweep,
         removeVMAccountInputs, cleanupVMRuntimeStaging
  <2>4. CASE NativeInstall(e, t)
    BY <2>4, AdmitTurns DEF NativeInstall, Callable, engineRest,
         acquireNativeInstallLease, acquireVMLock
  <2>5. CASE Uninstall(e, t)
    BY <2>5, AdmitTurns DEF Uninstall, acquireVMLock, Callable
  <2> QED
    BY <1>1, <2>1, <2>2, <2>3, <2>4, <2>5 DEF Call
<1>2. ASSUME NEW e \in Engines, NEW t \in Slots, Step(e, t) PROVE job' \in Jobs
  <2>1. CASE downloadVMRuntime(e, t)
    BY <2>1, GotoTurns DEF downloadVMRuntime, At, engineRest
  <2>2. CASE acquireVMRuntime(e, t)
    BY <2>2, GotoTurns DEF acquireVMRuntime, At, engineRest
  <2>3. CASE runtimeReturns(e, t)
    BY <2>3, GotoTurns DEF runtimeReturns, shared, At
  <2>4. CASE runtimeCloses(e, t)
    BY <2>4, LeaveTurns DEF runtimeCloses, release, At, Woken, stop, Wrote
  <2>5. CASE recordPreparing(e, t)
    BY <2>5, GotoTurns DEF recordPreparing, Wrote, At, prepareRest, engineRest
  <2>6. CASE resolveVMImage(e, t)
    BY <2>6, GotoTurns DEF resolveVMImage, At, prepareRest, engineRest
  <2>7. CASE createVMImageFiles(e, t)
    BY <2>7, GotoTurns DEF createVMImageFiles, At, prepareRest, engineRest
  <2>8. CASE writeVMAccountInput(e, t)
    BY <2>8, GotoTurns DEF writeVMAccountInput, At, prepareRest, engineRest
  <2>9. CASE startBuilder(e, t)
    BY <2>9, GotoTurns DEF startBuilder, At, Spawn, buildRest
  <2>10. CASE ownBuilder(e, t)
    BY <2>10, GotoTurns DEF ownBuilder, At, ownVMProcess, Killed, buildRest
  <2>11. CASE runBuilderVM(e, t)
    <3>1. PICK proven \in BOOLEAN, removed \in BOOLEAN :
               /\ job[e][t].kind = "prepare"
               /\ job' = [job EXCEPT ![e][t] = Built(job[e][t], proven, removed)]
      BY <2>11, Zenon DEF runBuilderVM, At
    <3> QED BY <3>1, BuiltTurns
  <2>12. CASE CutBuilder(e, t)
    BY <2>12, CutTurns DEF CutBuilder, At, buildRest
  <2>13. CASE recordReady(e, t)
    BY <2>13, GotoTurns DEF recordReady, Wrote, At, prepareRest, engineRest
  <2>14. CASE prepareFails(e, t)
    BY <2>14, GotoTurns DEF prepareFails, release, writeVMState, At, engineRest,
         FailureRecord
  <2>15. CASE prepareReturns(e, t)
    BY <2>15, LeaveTurns DEF prepareReturns, shared, At, Woken, stop, Wrote
  <2>16. CASE bootLocks(e, t)
    BY <2>16, GotoTurns, LeaveTurns DEF bootLocks, acquireVMLock, removeVMAccountInputs,
         At, engineRest
  <2>17. CASE launchManagedDesktop(e, t)
    BY <2>17, GotoTurns, LeaveTurns DEF launchManagedDesktop, Wrote, At, engineRest,
         Launching, LaunchFails, vmLaunchAllowed, LaunchPhase, release
  <2>18. CASE startManagedVM(e, t)
    BY <2>18, GotoTurns, LeaveTurns DEF startManagedVM, At, Spawn, Launching,
         LaunchFails, startRest, release
  <2>19. CASE adoptDesktop(e, t)
    BY <2>19, GotoTurns, LeaveTurns DEF adoptDesktop, writeVMState, At, ownVMProcess,
         Killed, Launching, LaunchFails, startRest, release
  <2>20. CASE connectControl(e, t)
    BY <2>20, GotoTurns, LeaveTurns DEF connectControl, writeVMState, At, Killed,
         Launching, LaunchFails, startRest, release
  <2>21. CASE publishRunning(e, t)
    BY <2>21, GotoTurns, LeaveTurns DEF publishRunning, Wrote, At, Killed, Launching,
         LaunchFails, startRest, release
  <2>22. CASE createRootDisk(e, t)
    BY <2>22, LeaveTurns DEF createRootDisk, release, At, engineRest
  <2>23. CASE RemoveFolder(e, t)
    BY <2>23, LeaveTurns DEF RemoveFolder, release, At, engineRest
  <2> QED
    BY <1>2, <2>1, <2>2, <2>3, <2>4, <2>5, <2>6, <2>7, <2>8, <2>9, <2>10, <2>11,
       <2>12, <2>13, <2>14, <2>15, <2>16, <2>17, <2>18, <2>19, <2>20, <2>21, <2>22,
       <2>23 DEF Step
<1>3. ASSUME NEW e \in Engines, Closing(e) PROVE job' \in Jobs
  <2>1. CASE closeStops(e)
    BY <2>1 DEF closeStops, stop, closeRest, Closes, Wrote
  <2>2. CASE closeForces(e)
    BY <2>2 DEF closeForces, shared, Forced, closeRest, Closes
  <2>3. CASE EngineExits(e)
    BY <2>3, DieTurns DEF EngineExits
  <2> QED
    BY <1>3, <2>1, <2>2, <2>3 DEF Closing
<1>4. ASSUME NEW e \in Engines, Alone(e) PROVE job' \in Jobs
  <2>1. CASE GetVMState(e)
    BY <2>1 DEF GetVMState, engine, Sweep, removeVMAccountInputs,
         cleanupVMRuntimeStaging
  <2>2. CASE StopVM(e)
    BY <2>2 DEF StopVM, stop, Wrote
  <2>3. CASE ForceStopVM(e)
    BY <2>3, CancelledTurns DEF ForceStopVM, shared, Forced
  <2>4. CASE forceJoined(e)
    BY <2>4 DEF forceJoined, shared, Forced
  <2>5. CASE shutdownVM(e)
    BY <2>5, CancelledTurns DEF shutdownVM, shared, stop, closeRest, Closes, Wrote
  <2>6. CASE BuilderExits(e)
    BY <2>6 DEF BuilderExits, buildRest
  <2>7. CASE GuestExits(e)
    BY <2>7 DEF GuestExits, startRest
  <2>8. CASE wait(e)
    BY <2>8 DEF wait, release, Killed, startRest, StopVerdict
  <2>9. CASE waitReturns(e)
    BY <2>9 DEF waitReturns, release
  <2>10. CASE EngineCrashes(e)
    BY <2>10, DieTurns DEF EngineCrashes
  <2>11. CASE EngineStarts(e)
    BY <2>11 DEF EngineStarts, shared
  <2>12. CASE OrphanStops(e)
    BY <2>12 DEF OrphanStops, shared, engine
  <2> QED
    BY <1>4, <2>1, <2>2, <2>3, <2>4, <2>5, <2>6, <2>7, <2>8, <2>9, <2>10, <2>11, <2>12
       DEF Alone
<1>5. CASE PowerCut
  BY <1>5, DieTurns DEF PowerCut
<1>6. CASE UNCHANGED vars
  BY <1>6 DEF vars, shared, engine
<1> QED BY <1>1, <1>2, <1>3, <1>4, <1>5, <1>6 DEF Next, Alone

\* StopVM and a closing engine change what a session shows, not where it is.
LEMMA StopSession ==
    ASSUME sess \in Sessions, NEW e \in Engines, NEW asked, stop(e, asked)
    PROVE  sess' \in Sessions /\ \A x \in Engines : sess'[x].pc = sess[x].pc
<1>1. sess' = [sess EXCEPT ![e] = [sess[e] EXCEPT !.phase = "stopping"]]
  BY DEF stop
<1>2. [sess[e] EXCEPT !.phase = "stopping"] \in [pc : {"none", "live", "release", "done"},
                                                 phase : Words, forced : BOOLEAN]
  BY DEF Sessions, Words, Phases
<1> QED BY <1>1, <1>2 DEF Sessions

\* A force marks the session and ends its desktop.
LEMMA ForcedSession ==
    ASSUME Types, NEW e \in Engines, Forced(e)
    PROVE  /\ sess' \in Sessions /\ \A x \in Engines : sess'[x].pc = sess[x].pc
           /\ proc' = IF sess[e].pc = "live" /\ proc[e] = "desktop"
                      THEN [proc EXCEPT ![e] = "gone"] ELSE proc
<1>1. CASE sess[e].pc = "live"
  <2>1. sess' = [sess EXCEPT ![e] = [sess[e] EXCEPT !.forced = TRUE]]
    BY <1>1 DEF Forced
  <2>2. [sess[e] EXCEPT !.forced = TRUE] \in [pc : {"none", "live", "release", "done"},
                                              phase : Words, forced : BOOLEAN]
    BY DEF Sessions, Types
  <2>3. sess' \in Sessions /\ \A x \in Engines : sess'[x].pc = sess[x].pc
    BY <2>1, <2>2 DEF Sessions, Types
  <2>4. proc' = IF proc[e] = "desktop" THEN [proc EXCEPT ![e] = "gone"] ELSE proc
    BY <1>1 DEF Forced, Types
  <2> QED BY <1>1, <2>3, <2>4
<1>2. CASE sess[e].pc # "live"
  BY <1>2 DEF Forced, Types
<1> QED BY <1>1, <1>2

\* The verdict of wait, however it is worded.
LEMMA WaitSession ==
    ASSUME sess \in Sessions, NEW e \in Engines, wait(e)
    PROVE  /\ sess' \in Sessions /\ sess'[e].pc = "release"
           /\ \A x \in Engines : x # e => sess'[x] = sess[x]
<1>1. PICK phase \in StopVerdict(e), written \in BOOLEAN :
        sess' = [sess EXCEPT ![e].pc = "release",
                             ![e].phase = IF written THEN phase ELSE "needs_recovery"]
  BY DEF wait
<1> DEFINE ph == IF written THEN phase ELSE "needs_recovery"
           s == [sess[e] EXCEPT !.pc = "release", !.phase = ph]
<1>2. ph \in Words
  BY DEF StopVerdict, Words, Phases
<1> HIDE DEF ph
<1>3. s \in [pc : {"none", "live", "release", "done"}, phase : Words, forced : BOOLEAN]
        /\ s.pc = "release"
  BY <1>2 DEF Sessions
<1>4. sess' = [sess EXCEPT ![e] = s]
  BY <1>1 DEF Sessions, ph
<1> HIDE DEF s
<1> QED BY <1>3, <1>4 DEF Sessions

\* A launch publishes its session.
LEMMA PublishSession ==
    ASSUME sess \in Sessions, NEW e \in Engines,
           sess' = [sess EXCEPT ![e] = [pc |-> "live", phase |-> "running", forced |-> FALSE]]
    PROVE  /\ sess' \in Sessions /\ sess'[e].pc = "live"
           /\ \A x \in Engines : x # e => sess'[x] = sess[x]
<1>1. [pc |-> "live", phase |-> "running", forced |-> FALSE]
        \in [pc : {"none", "live", "release", "done"}, phase : Words, forced : BOOLEAN]
  BY DEF Words, Phases
<1> QED BY <1>1 DEF Sessions

\* A session ends.
LEMMA ReleaseSession ==
    ASSUME sess \in Sessions, NEW e \in Engines,
           sess' = [sess EXCEPT ![e].pc = "done", ![e].forced = FALSE]
    PROVE  /\ sess' \in Sessions /\ sess'[e].pc = "done"
           /\ \A x \in Engines : x # e => sess'[x] = sess[x]
<1> DEFINE s == [sess[e] EXCEPT !.pc = "done", !.forced = FALSE]
<1>1. s \in [pc : {"none", "live", "release", "done"}, phase : Words, forced : BOOLEAN]
        /\ s.pc = "done"
  BY DEF Sessions
<1>2. sess' = [sess EXCEPT ![e] = s]
  BY DEF Sessions
<1> HIDE DEF s
<1> QED BY <1>1, <1>2 DEF Sessions

\* The dead have no session.
LEMMA DieSession ==
    ASSUME sess \in Sessions, NEW dead, Die(dead)
    PROVE  /\ sess' \in Sessions
           /\ \A e \in Engines : sess'[e] = IF e \in dead THEN NoSession ELSE sess[e]
<1>1. NoSession \in [pc : {"none", "live", "release", "done"}, phase : Words,
                     forced : BOOLEAN]
  BY DEF NoSession, Words
<1>2. sess' = [e \in Engines |-> IF e \in dead THEN NoSession ELSE sess[e]]
  BY DEF Die
<1> QED BY <1>1, <1>2 DEF Sessions

\* Every action keeps the sessions in their types.
LEMMA SessionsStep == Types /\ [Next]_vars => sess' \in Sessions
<1> SUFFICES ASSUME Types, [Next]_vars PROVE sess' \in Sessions
  OBVIOUS
<1>0. sess \in Sessions
  BY DEF Types
<1> USE <1>0
<1>1. ASSUME NEW e \in Engines, NEW t \in Slots, Call(e, t) PROVE sess' \in Sessions
  <2>1. CASE InstallVMRuntime(e, t)
    BY <2>1 DEF InstallVMRuntime, acquireVMLock, cleanupVMRuntimeStaging, Callable
  <2>2. CASE PrepareVM(e, t)
    BY <2>2 DEF PrepareVM, removeVMAccountInputs, Callable
  <2>3. CASE BootInVM(e, t)
    BY <2>3 DEF BootInVM, Callable, engineRest
  <2>4. CASE NativeInstall(e, t)
    BY <2>4 DEF NativeInstall, Callable, engineRest, acquireNativeInstallLease,
         acquireVMLock
  <2>5. CASE Uninstall(e, t)
    BY <2>5 DEF Uninstall, acquireVMLock, Callable
  <2> QED
    BY <1>1, <2>1, <2>2, <2>3, <2>4, <2>5 DEF Call
<1>2. ASSUME NEW e \in Engines, NEW t \in Slots, Step(e, t) PROVE sess' \in Sessions
  <2>1. CASE downloadVMRuntime(e, t)
    BY <2>1 DEF downloadVMRuntime, engineRest
  <2>2. CASE acquireVMRuntime(e, t)
    BY <2>2 DEF acquireVMRuntime, engineRest
  <2>3. CASE runtimeReturns(e, t)
    BY <2>3 DEF runtimeReturns, shared
  <2>4. CASE runtimeCloses(e, t)
    BY <2>4 DEF runtimeCloses, release, Woken
  <2>5. CASE recordPreparing(e, t)
    BY <2>5 DEF recordPreparing, Wrote, prepareRest, engineRest
  <2>6. CASE resolveVMImage(e, t)
    BY <2>6 DEF resolveVMImage, prepareRest, engineRest
  <2>7. CASE createVMImageFiles(e, t)
    BY <2>7 DEF createVMImageFiles, prepareRest, engineRest
  <2>8. CASE writeVMAccountInput(e, t)
    BY <2>8 DEF writeVMAccountInput, prepareRest, engineRest
  <2>9. CASE startBuilder(e, t)
    BY <2>9 DEF startBuilder, Spawn, buildRest
  <2>10. CASE ownBuilder(e, t)
    BY <2>10 DEF ownBuilder, ownVMProcess, Killed, buildRest
  <2>11. CASE runBuilderVM(e, t)
    BY <2>11 DEF runBuilderVM, removeVMAccountInputs, Killed, buildRest
  <2>12. CASE CutBuilder(e, t)
    BY <2>12 DEF CutBuilder, buildRest
  <2>13. CASE recordReady(e, t)
    BY <2>13 DEF recordReady, Wrote, prepareRest, engineRest
  <2>14. CASE prepareFails(e, t)
    BY <2>14 DEF prepareFails, release, writeVMState, engineRest
  <2>15. CASE prepareReturns(e, t)
    BY <2>15 DEF prepareReturns, shared, Woken
  <2>16. CASE bootLocks(e, t)
    BY <2>16 DEF bootLocks, acquireVMLock, removeVMAccountInputs, engineRest
  <2>17. CASE launchManagedDesktop(e, t)
    BY <2>17 DEF launchManagedDesktop, Wrote, engineRest, Launching, vmLaunchAllowed,
         LaunchPhase
  <2>18. CASE startManagedVM(e, t)
    BY <2>18 DEF startManagedVM, Spawn, Launching, startRest
  <2>19. CASE adoptDesktop(e, t)
    BY <2>19 DEF adoptDesktop, writeVMState, ownVMProcess, Killed, Launching, startRest
  <2>20. CASE connectControl(e, t)
    BY <2>20 DEF connectControl, writeVMState, Killed, Launching, startRest
  <2>21. CASE publishRunning(e, t)
    BY <2>21, PublishSession DEF publishRunning, Wrote, Killed, Launching, startRest
  <2>22. CASE createRootDisk(e, t)
    BY <2>22 DEF createRootDisk, release, engineRest
  <2>23. CASE RemoveFolder(e, t)
    BY <2>23 DEF RemoveFolder, release, engineRest
  <2> QED
    BY <1>2, <2>1, <2>2, <2>3, <2>4, <2>5, <2>6, <2>7, <2>8, <2>9, <2>10, <2>11,
       <2>12, <2>13, <2>14, <2>15, <2>16, <2>17, <2>18, <2>19, <2>20, <2>21, <2>22,
       <2>23 DEF Step
<1>3. ASSUME NEW e \in Engines, Closing(e) PROVE sess' \in Sessions
  <2>1. CASE closeStops(e)
    BY <2>1, StopSession DEF closeStops, closeRest, Closes
  <2>2. CASE closeForces(e)
    BY <2>2, ForcedSession DEF closeForces, shared, closeRest, Closes
  <2>3. CASE EngineExits(e)
    BY <2>3, DieSession DEF EngineExits, Left
  <2> QED
    BY <1>3, <2>1, <2>2, <2>3 DEF Closing
<1>4. ASSUME NEW e \in Engines, Alone(e) PROVE sess' \in Sessions
  <2>1. CASE GetVMState(e)
    BY <2>1 DEF GetVMState, engine
  <2>2. CASE StopVM(e)
    BY <2>2, StopSession DEF StopVM
  <2>3. CASE ForceStopVM(e)
    BY <2>3, ForcedSession DEF ForceStopVM, shared
  <2>4. CASE forceJoined(e)
    BY <2>4, ForcedSession DEF forceJoined, shared
  <2>5. CASE shutdownVM(e)
    BY <2>5 DEF shutdownVM, shared, closeRest, Closes
  <2>6. CASE BuilderExits(e)
    BY <2>6 DEF BuilderExits, buildRest
  <2>7. CASE GuestExits(e)
    BY <2>7 DEF GuestExits, startRest
  <2>8. CASE wait(e)
    BY <2>8, WaitSession DEF wait, release, Killed, startRest
  <2>9. CASE waitReturns(e)
    BY <2>9, ReleaseSession DEF waitReturns, release
  <2>10. CASE EngineCrashes(e)
    BY <2>10, DieSession DEF EngineCrashes, Left
  <2>11. CASE EngineStarts(e)
    BY <2>11 DEF EngineStarts, shared
  <2>12. CASE OrphanStops(e)
    BY <2>12 DEF OrphanStops, shared, engine
  <2> QED
    BY <1>4, <2>1, <2>2, <2>3, <2>4, <2>5, <2>6, <2>7, <2>8, <2>9, <2>10, <2>11, <2>12
       DEF Alone
<1>5. CASE PowerCut
  BY <1>5, DieSession DEF PowerCut
<1>6. CASE UNCHANGED vars
  BY <1>6 DEF vars, shared, engine
<1> QED BY <1>1, <1>2, <1>3, <1>4, <1>5, <1>6 DEF Next, Alone

\* Every action keeps the types.
LEMMA TypesStep == Types /\ [Next]_vars => Types'
<1> SUFFICES ASSUME Types, [Next]_vars PROVE Types'
  OBVIOUS
<1>0. job' \in Jobs /\ sess' \in Sessions
  BY JobsStep, SessionsStep
<1> USE <1>0 DEF Types, Slots, JoinOn
<1>1. ASSUME NEW e \in Engines, NEW t \in Slots, Call(e, t) PROVE Types'
  <2>1. CASE InstallVMRuntime(e, t)
    BY <2>1 DEF InstallVMRuntime, acquireVMLock, cleanupVMRuntimeStaging, Callable
  <2>2. CASE PrepareVM(e, t)
    BY <2>2 DEF PrepareVM, removeVMAccountInputs, Callable
  <2>3. CASE BootInVM(e, t)
    BY <2>3 DEF BootInVM, Callable, engineRest
  <2>4. CASE NativeInstall(e, t)
    BY <2>4 DEF NativeInstall, Callable, engineRest, acquireNativeInstallLease,
         acquireVMLock
  <2>5. CASE Uninstall(e, t)
    BY <2>5 DEF Uninstall, acquireVMLock, Callable
  <2> QED
    BY <1>1, <2>1, <2>2, <2>3, <2>4, <2>5 DEF Call
<1>2. ASSUME NEW e \in Engines, NEW t \in Slots, Step(e, t) PROVE Types'
  <2>1. CASE downloadVMRuntime(e, t)
    BY <2>1 DEF downloadVMRuntime, engineRest
  <2>2. CASE acquireVMRuntime(e, t)
    BY <2>2 DEF acquireVMRuntime, engineRest
  <2>3. CASE runtimeReturns(e, t)
    BY <2>3 DEF runtimeReturns, shared
  <2>4. CASE runtimeCloses(e, t)
    BY <2>4 DEF runtimeCloses, release, Woken, stop, Wrote
  <2>5. CASE recordPreparing(e, t)
    BY <2>5 DEF recordPreparing, Wrote, prepareRest, engineRest
  <2>6. CASE resolveVMImage(e, t)
    BY <2>6 DEF resolveVMImage, prepareRest, engineRest
  <2>7. CASE createVMImageFiles(e, t)
    BY <2>7 DEF createVMImageFiles, prepareRest, engineRest
  <2>8. CASE writeVMAccountInput(e, t)
    BY <2>8 DEF writeVMAccountInput, prepareRest, engineRest
  <2>9. CASE startBuilder(e, t)
    BY <2>9 DEF startBuilder, Spawn, buildRest
  <2>10. CASE ownBuilder(e, t)
    BY <2>10 DEF ownBuilder, ownVMProcess, Killed, buildRest
  <2>11. CASE runBuilderVM(e, t)
    BY <2>11 DEF runBuilderVM, removeVMAccountInputs, Killed, buildRest
  <2>12. CASE CutBuilder(e, t)
    BY <2>12 DEF CutBuilder, buildRest
  <2>13. CASE recordReady(e, t)
    BY <2>13 DEF recordReady, Wrote, prepareRest, engineRest
  <2>14. CASE prepareFails(e, t)
    BY <2>14 DEF prepareFails, release, writeVMState, engineRest
  <2>15. CASE prepareReturns(e, t)
    BY <2>15 DEF prepareReturns, shared, Woken, stop, Wrote
  <2>16. CASE bootLocks(e, t)
    BY <2>16 DEF bootLocks, acquireVMLock, removeVMAccountInputs, engineRest
  <2>17. CASE launchManagedDesktop(e, t)
    BY <2>17 DEF launchManagedDesktop, Wrote, engineRest, Launching, vmLaunchAllowed,
         LaunchPhase
  <2>18. CASE startManagedVM(e, t)
    BY <2>18 DEF startManagedVM, Spawn, Launching, startRest
  <2>19. CASE adoptDesktop(e, t)
    BY <2>19 DEF adoptDesktop, writeVMState, ownVMProcess, Killed, Launching, startRest
  <2>20. CASE connectControl(e, t)
    BY <2>20 DEF connectControl, writeVMState, Killed, Launching, startRest
  <2>21. CASE publishRunning(e, t)
    BY <2>21 DEF publishRunning, Wrote, Killed, Launching, startRest
  <2>22. CASE createRootDisk(e, t)
    BY <2>22 DEF createRootDisk, release, engineRest
  <2>23. CASE RemoveFolder(e, t)
    BY <2>23 DEF RemoveFolder, release, engineRest
  <2> QED
    BY <1>2, <2>1, <2>2, <2>3, <2>4, <2>5, <2>6, <2>7, <2>8, <2>9, <2>10, <2>11,
       <2>12, <2>13, <2>14, <2>15, <2>16, <2>17, <2>18, <2>19, <2>20, <2>21, <2>22,
       <2>23 DEF Step
<1>3. ASSUME NEW e \in Engines, Closing(e) PROVE Types'
  <2>1. CASE closeStops(e)
    BY <2>1 DEF closeStops, stop, closeRest, Closes, Wrote
  <2>2. CASE closeForces(e)
    BY <2>2 DEF closeForces, shared, Forced, closeRest, Closes
  <2>3. CASE EngineExits(e)
    BY <2>3 DEF EngineExits, Die, Left, Abandon
  <2> QED
    BY <1>3, <2>1, <2>2, <2>3 DEF Closing
<1>4. ASSUME NEW e \in Engines, Alone(e) PROVE Types'
  <2>1. CASE GetVMState(e)
    BY <2>1 DEF GetVMState, engine
  <2>2. CASE StopVM(e)
    BY <2>2 DEF StopVM, stop, Wrote
  <2>3. CASE ForceStopVM(e)
    BY <2>3 DEF ForceStopVM, shared, Forced
  <2>4. CASE forceJoined(e)
    BY <2>4 DEF forceJoined, shared, Forced
  <2>5. CASE shutdownVM(e)
    BY <2>5 DEF shutdownVM, shared, stop, closeRest, Closes, Wrote
  <2>6. CASE BuilderExits(e)
    BY <2>6 DEF BuilderExits, buildRest
  <2>7. CASE GuestExits(e)
    BY <2>7 DEF GuestExits, startRest
  <2>8. CASE wait(e)
    BY <2>8 DEF wait, release, Killed, startRest
  <2>9. CASE waitReturns(e)
    BY <2>9 DEF waitReturns, release
  <2>10. CASE EngineCrashes(e)
    BY <2>10 DEF EngineCrashes, Die, Left, Abandon
  <2>11. CASE EngineStarts(e)
    BY <2>11 DEF EngineStarts, shared
  <2>12. CASE OrphanStops(e)
    BY <2>12 DEF OrphanStops, shared, engine
  <2> QED
    BY <1>4, <2>1, <2>2, <2>3, <2>4, <2>5, <2>6, <2>7, <2>8, <2>9, <2>10, <2>11, <2>12
       DEF Alone
<1>5. CASE PowerCut
  BY <1>5 DEF PowerCut, Die, Abandon
<1>6. CASE UNCHANGED vars
  BY <1>6 DEF vars, shared, engine
<1> QED BY <1>1, <1>2, <1>3, <1>4, <1>5, <1>6 DEF Next, Alone

-----------------------------------------------------------------------------
(* Ownership: what an owner does concerns nobody else *)

\* A step of whoever owns the image, or may take it: what it must establish.
Act(e, t) ==
    /\ Claim(job[e][t]) \/ Attached(e) \/ lock = {}
    /\ \A x \in Engines, s \in Slots : x # e \/ s # t => job'[x][s] = job[x][s]
    /\ \A x \in Engines : x # e => sess'[x].pc = sess[x].pc /\ proc'[x] = proc[x]
    /\ Claim(job'[e][t]) => lock' = {e} /\ ~Attached(e)'
    /\ Attached(e)' => lock' = {e}
    /\ Knows(e, job[e][t])' /\ Follows(e)' /\ Runs(e)' /\ Shared'

\* Whoever owns the image, or takes it, is alone with it: what it establishes
\* for itself and for everybody is the whole invariant.
LEMMA Actor ==
    ASSUME Types, Types', OwnerInv, NEW e \in Engines, NEW t \in Slots, Act(e, t)
    PROVE  OwnerInv'
<1>0. /\ \A x \in Engines, s \in Slots : job[x][s] \in Job /\ job'[x][s] \in Job
  BY DEF Types, Jobs
<1>1. \A x \in Engines, s \in Slots : x # e \/ s # t => ~Claim(job[x][s])
  BY DEF Act, OwnerInv, Ownership
<1>2. \A x \in Engines : x # e => ~Attached(x)
  BY DEF Act, OwnerInv, Ownership
<1>3. \A x \in Engines, s \in Slots : x # e \/ s # t => ~Claim(job'[x][s])
  BY <1>1 DEF Act
<1>4. \A x \in Engines : x # e => ~Attached(x)' /\ proc'[x] = "none"
  BY <1>2 DEF Act, Attached, OwnerInv, Ownership, Runs
<1>5. Ownership'
  BY <1>3, <1>4 DEF Act, Ownership
<1>6. \A x \in Engines : Follows(x)' /\ Runs(x)'
  BY <1>4 DEF Act, Follows, Runs, Attached
<1>7. \A x \in Engines, s \in Slots : Knows(x, job[x][s])'
  <2> SUFFICES ASSUME NEW x \in Engines, NEW s \in Slots, x # e \/ s # t
               PROVE  Knows(x, job[x][s])'
    BY DEF Act
  <2>1. job'[x][s] \in Job /\ ~Claim(job'[x][s])
    BY <1>0, <1>3
  <2> QED BY <2>1 DEF Job, Fits, Claim, Knows, Launching
<1> QED BY <1>5, <1>6, <1>7 DEF Act, OwnerInv

\* A step that moves only operations without the image.
Passive ==
    /\ \A x \in Engines, s \in Slots :
         \/ ~Claim(job'[x][s])
         \/ /\ job'[x][s].kind = job[x][s].kind /\ job'[x][s].pc = job[x][s].pc
            /\ job'[x][s].id = job[x][s].id /\ job'[x][s].phase = job[x][s].phase
    /\ \A x \in Engines : sess'[x].pc = sess[x].pc /\ proc'[x] = proc[x]
    /\ lock' = lock /\ disk' = disk /\ file' = file
    /\ orphans' \subseteq orphans
    /\ account' => account

\* ... keeps what the owner knows.
LEMMA Bystander ==
    ASSUME Types, Types', OwnerInv, Passive
    PROVE  OwnerInv'
<1>0. /\ \A x \in Engines, s \in Slots : job[x][s] \in Job /\ job'[x][s] \in Job
  BY DEF Types, Jobs
<1>1. \A x \in Engines, s \in Slots : Claim(job'[x][s]) => Claim(job[x][s])
  BY DEF Passive, Claim
<1>2. \A x \in Engines : Attached(x)' <=> Attached(x)
  BY DEF Passive, Attached
<1>3. Ownership'
  BY <1>1, <1>2 DEF Passive, OwnerInv, Ownership
<1>4. \A x \in Engines : Follows(x)' /\ Runs(x)'
  BY DEF Passive, OwnerInv, Follows, Runs
<1>5. Shared'
  BY DEF Passive, OwnerInv, Shared, NativeApart
<1>6. ASSUME NEW x \in Engines, NEW s \in Slots PROVE Knows(x, job[x][s])'
  <2>1. CASE ~Claim(job'[x][s])
    BY <1>0, <2>1 DEF Job, Fits, Claim, Knows, Launching
  <2>2. CASE Claim(job'[x][s])
    <3>1. /\ job'[x][s].kind = job[x][s].kind /\ job'[x][s].pc = job[x][s].pc
          /\ job'[x][s].id = job[x][s].id /\ job'[x][s].phase = job[x][s].phase
      BY <2>2 DEF Passive
    <3>2. Knows(x, job[x][s])
      BY DEF OwnerInv
    <3> QED BY <3>1, <3>2 DEF Passive, Knows, Claim
  <2> QED BY <2>1, <2>2
<1> QED BY <1>3, <1>4, <1>5, <1>6 DEF OwnerInv

\* A launch that fails: BootInVM gives the image back, a preparation keeps it.
Failed(e, t) ==
    \/ job[e][t].kind = "boot" /\ Turn(e, t, "none", "idle") /\ lock' = lock \ {e}
    \/ /\ job[e][t].kind = "prepare" /\ Turn(e, t, "prepare", "error") /\ Keeps(e, t)
       /\ lock' = lock

\* LaunchFails is one or the other.
LEMMA LaunchFailsTurns ==
    ASSUME job \in Jobs, NEW e \in Engines, NEW t \in Slots, job[e][t].kind \in Launching,
           LaunchFails(e, t)
    PROVE  Failed(e, t)
  BY GotoTurns, LeaveTurns DEF LaunchFails, Launching, release, Failed, Fits

\* A cancel leaves the image alone.
LEMMA CancelledOwner ==
    ASSUME Types, Types', OwnerInv, NEW e \in Engines, vmCancel[e] # 0, Cancelled(e),
           UNCHANGED <<shared, proc, sess, orphans>>
    PROVE  OwnerInv'
<1>0. \A x \in Engines, s \in Slots : job[x][s] \in Job
  BY DEF Types, Jobs
<1>1. /\ vmCancel[e] \in Slots
      /\ job'[e][vmCancel[e]] = [job[e][vmCancel[e]] EXCEPT !.cut = TRUE]
      /\ Turn(e, vmCancel[e], job[e][vmCancel[e]].kind, job[e][vmCancel[e]].pc)
  BY CancelledTurns
<1>2. Passive
  BY <1>0, <1>1 DEF Passive, Turn, shared, Job
<1> QED BY <1>2, Bystander

\* A force ends a desktop, which leaves the disk as it is.
LEMMA ForcedOwner ==
    ASSUME Types, Types', OwnerInv, NEW e \in Engines, Forced(e),
           UNCHANGED <<shared, job, orphans>>
    PROVE  OwnerInv'
<1>1. /\ \A x \in Engines : sess'[x].pc = sess[x].pc
      /\ proc' = IF sess[e].pc = "live" /\ proc[e] = "desktop"
                 THEN [proc EXCEPT ![e] = "gone"] ELSE proc
  BY ForcedSession
<1>2. CASE proc' = proc
  <2>1. Passive
    BY <1>1, <1>2 DEF Passive, shared
  <2> QED BY <2>1, Bystander
<1>3. CASE proc' # proc
  <2>1. /\ Attached(e) /\ sess[e].pc = "live" /\ proc[e] = "desktop" /\ proc'[e] = "gone"
        /\ \A x \in Engines : x # e => proc'[x] = proc[x]
    BY <1>1, <1>3 DEF Attached, Types
  <2>2. /\ Follows(e) /\ Runs(e) /\ Shared /\ Knows(e, job[e][1])
        /\ lock = {e} /\ ~Claim(job[e][1])
    BY <2>1 DEF OwnerInv, Ownership, Slots
  <2>3. Act(e, 1)
    BY <1>1, <2>1, <2>2 DEF Act, Attached, Claim, Follows, Runs, Shared, NativeApart,
       Knows, Launchable, shared
  <2> QED BY <2>3, Actor DEF Slots
<1> QED BY <1>2, <1>3

\* QEMU ends on its own: with a complete disk, or with what it had written.
LEMMA ExitOwner ==
    ASSUME Types, Types', OwnerInv, NEW e \in Engines, proc[e] \in {"builder", "desktop"},
           \/ disk' = "clean" /\ proc' = [proc EXCEPT ![e] = "clean"]
           \/ disk' = disk /\ proc' = [proc EXCEPT ![e] = "gone"],
           UNCHANGED <<lock, file, account, job, sess, orphans>>
    PROVE  OwnerInv'
<1>0. \A x \in Engines, s \in Slots : job[x][s] \in Job /\ job'[x][s] = job[x][s]
  BY DEF Types, Jobs
<1>1. /\ lock = {e} /\ disk = "dirty" /\ orphans = {}
      /\ proc'[e] \in {"clean", "gone"}
      /\ proc'[e] = "clean" => disk' = "clean"
      /\ proc'[e] = "gone" => disk' = "dirty"
      /\ \A x \in Engines : x # e => proc'[x] = "none" /\ proc[x] = "none"
  <2>1. /\ lock = {e} /\ disk = "dirty" /\ orphans = {}
        /\ \A x \in Engines : x # e => proc[x] = "none"
    BY DEF OwnerInv, Runs
  <2>2. \A x \in Engines : x # e => proc'[x] = proc[x]
    BY DEF Types
  <2>3. \/ disk' = "clean" /\ proc'[e] = "clean"
        \/ disk' = disk /\ proc'[e] = "gone"
    BY DEF Types
  <2> QED BY <2>1, <2>2, <2>3
<1>2. Ownership'
  BY DEF OwnerInv, Ownership, Attached
<1>3. \A x \in Engines : Follows(x)' /\ Runs(x)'
  BY <1>1 DEF OwnerInv, Follows, Runs
<1>4. Shared'
  BY <1>1 DEF OwnerInv, Shared, NativeApart
<1>5. ASSUME NEW x \in Engines, NEW s \in Slots PROVE Knows(x, job[x][s])'
  <2>1. CASE ~Claim(job[x][s])
    BY <1>0, <2>1 DEF Job, Fits, Claim, Knows, Launching
  <2>2. CASE Claim(job[x][s])
    <3>1. x = e /\ Knows(e, job[e][s])
      BY <1>1, <2>2 DEF OwnerInv, Ownership
    <3> QED BY <1>0, <1>1, <2>2, <3>1 DEF Knows, Claim
  <2> QED BY <2>1, <2>2
<1> QED BY <1>2, <1>3, <1>4, <1>5 DEF OwnerInv

\* An engine dies; if its QEMU was writing, Windows has yet to stop it.
LEMMA DieOwner ==
    ASSUME Types, Types', OwnerInv, NEW e \in Engines, Die({e}),
           orphans' = orphans \union Left(e)
    PROVE  OwnerInv'
<1>0. \A x \in Engines, s \in Slots : job[x][s] \in Job
  BY DEF Types, Jobs
<1>1. /\ proc'[e] = "none" /\ sess'[e] = NoSession
      /\ \A x \in Engines : x # e => proc'[x] = proc[x] /\ sess'[x] = sess[x]
      /\ lock' = lock \ {e} /\ UNCHANGED <<disk, file, account>>
  BY DieSession DEF Die, Types, Abandon
<1>2. \A x \in Engines, s \in Slots : job'[x][s] = IF x = e THEN Free ELSE job[x][s]
  BY DieTurns DEF Types
<1>3. Left(e) # {} => /\ lock = {e} /\ orphans = {} /\ disk = "dirty" /\ Left(e) = {e}
                      /\ file \notin Launchable \union {"none"}
  BY DEF Left, Writers, OwnerInv, Runs, Shared
<1>4. \A x \in Engines : Attached(x)' => x # e /\ Attached(x)
  BY <1>1 DEF Attached, NoSession
<1>5. \A x \in Engines, s \in Slots : Claim(job'[x][s]) => x # e /\ Claim(job[x][s])
  BY <1>2, FreeJob DEF Claim
<1>6. Ownership'
  BY <1>1, <1>4, <1>5 DEF OwnerInv, Ownership
<1>7. \A x \in Engines : Follows(x)' /\ Runs(x)'
  BY <1>1, <1>3 DEF OwnerInv, Follows, Runs, NoSession
<1>8. Shared'
  BY <1>1, <1>3 DEF OwnerInv, Shared, NativeApart
<1>9. ASSUME NEW x \in Engines, NEW s \in Slots PROVE Knows(x, job[x][s])'
  <2>1. CASE ~Claim(job'[x][s])
    <3>1. job'[x][s] \in Job
      BY DEF Types, Jobs
    <3> QED BY <2>1, <3>1 DEF Job, Fits, Claim, Knows, Launching
  <2>2. CASE Claim(job'[x][s])
    <3>1. x # e /\ lock = {x} /\ Knows(x, job[x][s]) /\ job'[x][s] = job[x][s]
      BY <1>2, <1>5, <2>2 DEF OwnerInv, Ownership
    <3>2. orphans' = orphans
      BY <1>3, <3>1
    <3> QED BY <1>1, <3>1, <3>2 DEF Knows, Claim
  <2> QED BY <2>1, <2>2
<1> QED BY <1>6, <1>7, <1>8, <1>9 DEF OwnerInv

\* Every action keeps the invariant.
LEMMA OwnerStep == Readable /\ Types /\ OwnerInv /\ [Next]_vars => OwnerInv'
<1> SUFFICES ASSUME Readable, Types, OwnerInv, [Next]_vars PROVE OwnerInv'
  OBVIOUS
<1>0. /\ Types' /\ job \in Jobs /\ job' \in Jobs /\ sess \in Sessions
      /\ proc \in [Engines -> {"none", "suspended", "builder", "desktop", "clean", "gone"}]
  BY TypesStep DEF Types
<1>a. ASSUME NEW e \in Engines
      PROVE  /\ Follows(e) /\ Runs(e) /\ Shared
             /\ Attached(e) => lock = {e}
             /\ \A t \in Slots : /\ Knows(e, job[e][t])
                                 /\ Claim(job[e][t]) => lock = {e} /\ ~Attached(e)
  BY DEF OwnerInv, Ownership
<1> USE <1>0 DEF Act, Knows, Follows, Runs, Shared, NativeApart, Claim,
    Attached, Launchable
<1>1. ASSUME NEW e \in Engines, NEW t \in Slots, Call(e, t) PROVE OwnerInv'
  <2>0. /\ Follows(e) /\ Runs(e) /\ Shared /\ Knows(e, job[e][t])
        /\ Attached(e) => lock = {e}
        /\ Claim(job[e][t]) => lock = {e} /\ ~Attached(e)
    BY <1>a
  <2>1. CASE InstallVMRuntime(e, t)
    <3>1. Turn(e, t, "runtime", "download")
      BY <2>1, AdmitTurns DEF InstallVMRuntime, Fits, Launching
    <3>2. Act(e, t)
      BY <2>1, <2>0, <3>1 DEF InstallVMRuntime, acquireVMLock, Turn
    <3> QED BY <3>2, Actor
  <2>2. CASE PrepareVM(e, t)
    <3>1. account' => account
      BY <2>2, Zenon DEF PrepareVM, removeVMAccountInputs
    <3>2. CASE lock' = lock /\ job' = job
      <4>1. Passive
        BY <2>2, <3>1, <3>2 DEF PrepareVM, Passive
      <4> QED BY <4>1, Bystander
    <3>3. CASE lock' = {e} /\ disk = "none" /\ file = "none" /\ Admit(e, t, "prepare", "record")
      <4>1. Turn(e, t, "prepare", "record")
        BY <3>3, AdmitTurns DEF Fits
      <4>2. Act(e, t)
        BY <2>2, <2>0, <3>1, <3>3, <4>1 DEF PrepareVM, Turn
      <4> QED BY <4>2, Actor
    <3> QED BY <2>2, <3>2, <3>3, Zenon DEF PrepareVM
  <2>3. CASE BootInVM(e, t)
    <3>1. account' => account
      BY <2>3, Zenon DEF BootInVM, Sweep, removeVMAccountInputs
    <3>2. Turn(e, t, "boot", "lock")
      BY <2>3, AdmitTurns DEF BootInVM, Fits
    <3>3. Passive
      BY <2>3, <3>1, <3>2 DEF BootInVM, engineRest, Passive, Turn
    <3> QED BY <3>3, Bystander
  <2>4. CASE NativeInstall(e, t)
    <3>1. Turn(e, t, "native", "deploy")
      BY <2>4, AdmitTurns DEF NativeInstall, Fits, Launching
    <3>2. Act(e, t)
      BY <2>4, <2>0, <3>1 DEF NativeInstall, acquireNativeInstallLease, acquireVMLock,
         engineRest, Turn
    <3> QED BY <3>2, Actor
  <2>5. CASE Uninstall(e, t)
    <3>1. Turn(e, t, "uninstall", "remove")
      BY <2>5, AdmitTurns DEF Uninstall, Fits, Launching
    <3>2. Act(e, t)
      BY <2>5, <2>0, <3>1 DEF Uninstall, acquireVMLock, verifyVMDiskReleased, Writers,
         Turn
    <3> QED BY <3>2, Actor
  <2> QED
    BY <1>1, <2>1, <2>2, <2>3, <2>4, <2>5 DEF Call
<1>2. ASSUME NEW e \in Engines, NEW t \in Slots, Step(e, t) PROVE OwnerInv'
  <2>0. /\ Follows(e) /\ Runs(e) /\ Shared /\ Knows(e, job[e][t])
        /\ Attached(e) => lock = {e}
        /\ Claim(job[e][t]) => lock = {e} /\ ~Attached(e)
    BY <1>a
  <2>1. CASE downloadVMRuntime(e, t)
    <3>1. \E p \in {"install", "clear"} : Turn(e, t, "runtime", p)
      BY <2>1, GotoTurns DEF downloadVMRuntime, At, Fits, Launching
    <3>2. Act(e, t)
      BY <2>1, <2>0, <3>1 DEF downloadVMRuntime, At, engineRest, Turn
    <3> QED BY <3>2, Actor
  <2>2. CASE acquireVMRuntime(e, t)
    <3>1. Turn(e, t, "runtime", "clear")
      BY <2>2, GotoTurns DEF acquireVMRuntime, At, Fits, Launching
    <3>2. Act(e, t)
      BY <2>2, <2>0, <3>1 DEF acquireVMRuntime, At, engineRest, Turn
    <3> QED BY <3>2, Actor
  <2>3. CASE runtimeReturns(e, t)
    <3>1. Turn(e, t, "runtime", "close")
      BY <2>3, GotoTurns DEF runtimeReturns, At, Fits, Launching
    <3>2. Act(e, t)
      BY <2>3, <2>0, <3>1 DEF runtimeReturns, At, shared, Turn
    <3> QED BY <3>2, Actor
  <2>4. CASE runtimeCloses(e, t)
    <3>1. Turn(e, t, "none", "idle")
      BY <2>4, LeaveTurns DEF runtimeCloses, At, Fits, Launching, Wrote
    <3>2. Act(e, t)
      BY <2>4, <2>0, <3>1 DEF runtimeCloses, At, release, Turn
    <3> QED BY <3>2, Actor
  <2>5. CASE recordPreparing(e, t)
    <3>1. /\ Keeps(e, t)
            /\ \/ file' = "preparing" /\ Turn(e, t, "prepare", "resolve")
               \/ file' = file /\ Turn(e, t, "prepare", "error")
      BY <2>5, GotoTurns DEF recordPreparing, At, Fits, Launching, Wrote, NotWritten
    <3>2. Act(e, t)
      BY <2>5, <2>0, <3>1 DEF recordPreparing, At, prepareRest, engineRest, Turn, Keeps
    <3> QED BY <3>2, Actor
  <2>6. CASE resolveVMImage(e, t)
    <3>1. /\ Keeps(e, t)
            /\ \E p \in {"create", "error"} : Turn(e, t, "prepare", p)
      BY <2>6, GotoTurns DEF resolveVMImage, At, Fits, Launching
    <3>2. Act(e, t)
      BY <2>6, <2>0, <3>1 DEF resolveVMImage, At, prepareRest, engineRest, Turn, Keeps
    <3> QED BY <3>2, Actor
  <2>7. CASE createVMImageFiles(e, t)
    <3>1. /\ Keeps(e, t)
            /\ \/ disk' = "blank" /\ \E p \in {"account", "error"} : Turn(e, t, "prepare", p)
               \/ disk' = disk /\ Turn(e, t, "prepare", "error")
      BY <2>7, GotoTurns DEF createVMImageFiles, At, Fits, Launching
    <3>2. Act(e, t)
      BY <2>7, <2>0, <3>1 DEF createVMImageFiles, At, prepareRest, engineRest, Turn,
         Keeps
    <3> QED BY <3>2, Actor
  <2>8. CASE writeVMAccountInput(e, t)
    <3>1. /\ Keeps(e, t)
            /\ \E p \in {"spawn", "error"} : Turn(e, t, "prepare", p)
      BY <2>8, GotoTurns DEF writeVMAccountInput, At, Fits, Launching
    <3>2. Act(e, t)
      BY <2>8, <2>0, <3>1 DEF writeVMAccountInput, At, prepareRest, engineRest, Turn,
         Keeps
    <3> QED BY <3>2, Actor
  <2>9. CASE startBuilder(e, t)
    <3>1. /\ Keeps(e, t)
            /\ \/ proc' = [proc EXCEPT ![e] = "suspended"] /\ Turn(e, t, "prepare", "own")
               \/ proc' = proc /\ Turn(e, t, "prepare", "error")
      BY <2>9, GotoTurns DEF startBuilder, At, Fits, Launching, Spawn
    <3>2. Act(e, t)
      BY <2>9, <2>0, <3>1 DEF startBuilder, At, buildRest, Turn, Keeps
    <3> QED BY <3>2, Actor
  <2>10. CASE ownBuilder(e, t)
    <3>1. /\ Keeps(e, t)
            /\ \/ /\ proc' = [proc EXCEPT ![e] = "builder"] /\ disk' = "dirty"
                  /\ Turn(e, t, "prepare", "build")
               \/ /\ proc' = [proc EXCEPT ![e] = "none"] /\ disk' = disk
                  /\ Turn(e, t, "prepare", "error")
      BY <2>10, GotoTurns DEF ownBuilder, At, Fits, Launching, Killed, ownVMProcess
    <3>2. Act(e, t)
      BY <2>10, <2>0, <3>1 DEF ownBuilder, At, buildRest, Turn, Keeps
    <3> QED BY <3>2, Actor
  <2>11. CASE runBuilderVM(e, t)
    <3>1. PICK log \in Logs, removed \in BOOLEAN :
            /\ Honest(log, proc[e] = "clean") /\ removeVMAccountInputs(removed)
            /\ job' = [job EXCEPT ![e][t] =
                         Built(job[e][t], ~job[e][t].cut /\ verifyVMBuilderReceipt(log), removed)]
      BY <2>11 DEF runBuilderVM
    <3> DEFINE proven == ~job[e][t].cut /\ verifyVMBuilderReceipt(log)
    <3>2. proven => proc[e] = "clean"
      BY <3>1 DEF verifyVMBuilderReceipt, Honest
    <3>3. removed => ~account'
      BY <3>1, Zenon DEF removeVMAccountInputs
    <3>4. job[e][t].kind = "prepare" /\ job[e][t].pc = "build"
      BY <2>11, Zenon DEF runBuilderVM, At
    <3>5. proven \in BOOLEAN /\ job' = [job EXCEPT ![e][t] = Built(job[e][t], proven, removed)]
      BY <3>1
    <3> HIDE DEF proven
    <3>6. /\ Turn(e, t, "prepare", IF proven /\ removed THEN "ready" ELSE "error")
          /\ proven /\ removed => job'[e][t].phase = "ready"
          /\ job'[e][t].id = proven
      BY <3>4, <3>5, BuiltTurns
    <3>7. proven => job'[e][t].id
      BY <3>6, Zenon
    <3>8. Act(e, t)
      BY <2>11, <2>0, <3>2, <3>3, <3>4, <3>6, <3>7 DEF runBuilderVM, Killed, buildRest, Turn
    <3> QED BY <3>8, Actor
  <2>12. CASE CutBuilder(e, t)
    <3>1. /\ job[e][t].kind = "prepare" /\ job[e][t].pc = "build"
          /\ job'[e][t] = [job[e][t] EXCEPT !.cut = TRUE]
          /\ Turn(e, t, "prepare", "build")
      BY <2>12, CutTurns DEF CutBuilder, At
    <3>2. Act(e, t)
      BY <2>12, <2>0, <3>1 DEF CutBuilder, buildRest, Turn
    <3> QED BY <3>2, Actor
  <2>13. CASE recordReady(e, t)
    <3>1. /\ Keeps(e, t)
            /\ \/ /\ file' = "ready"
                  /\ \E p \in {"launch", "error"} : Turn(e, t, "prepare", p)
               \/ file' = file /\ Turn(e, t, "prepare", "error")
      BY <2>13, GotoTurns DEF recordReady, At, Fits, Launching, Wrote, NotWritten
    <3>2. Act(e, t)
      BY <2>13, <2>0, <3>1 DEF recordReady, At, prepareRest, engineRest, Turn, Keeps
    <3> QED BY <3>2, Actor
  <2>14. CASE prepareFails(e, t)
    <3>1. Turn(e, t, "prepare", "leave")
      BY <2>14, GotoTurns DEF prepareFails, At, Fits, Launching
    <3>2. Act(e, t)
      BY <2>14, <2>0, <3>1 DEF prepareFails, At, release, writeVMState, FailureRecord,
         Readable, engineRest, Turn
    <3> QED BY <3>2, Actor
  <2>15. CASE prepareReturns(e, t)
    <3>1. Turn(e, t, "none", "idle")
      BY <2>15, LeaveTurns DEF prepareReturns
    <3>2. Passive
      BY <2>15, <3>1 DEF prepareReturns, shared, Passive, Turn
    <3> QED BY <3>2, Bystander
  <2>16. CASE bootLocks(e, t)
    <3>1. CASE acquireVMLock(e) /\ removeVMAccountInputs(TRUE) /\ Goto(e, t, "launch")
      <4>1. Turn(e, t, "boot", "launch") /\ job[e][t].pc = "lock"
        BY <2>16, <3>1, GotoTurns DEF bootLocks, At, Fits, Launching
      <4>2. ~account'
        BY <3>1, Zenon DEF removeVMAccountInputs
      <4>3. Act(e, t)
        BY <2>16, <2>0, <3>1, <4>1, <4>2 DEF bootLocks, acquireVMLock, engineRest, Turn
      <4> QED BY <4>3, Actor
    <3>2. CASE UNCHANGED <<lock, account>> /\ Leave(e, t)
      <4>1. Turn(e, t, "none", "idle")
        BY <3>2, LeaveTurns
      <4>2. Passive
        BY <2>16, <3>2, <4>1 DEF bootLocks, engineRest, Passive, Turn
      <4> QED BY <4>2, Bystander
    <3> QED BY <2>16, <3>1, <3>2 DEF bootLocks
  <2>17. CASE launchManagedDesktop(e, t)
    <3>1. /\ job[e][t].kind \in Launching /\ job[e][t].pc = "launch"
          /\ \/ /\ vmLaunchAllowed(LaunchPhase(job[e][t])) /\ verifyVMDiskReleased
                /\ file' = "starting" /\ lock' = lock
                /\ Turn(e, t, job[e][t].kind, "start") /\ Keeps(e, t)
             \/ file' = file /\ Failed(e, t)
      BY <2>17, GotoTurns, LaunchFailsTurns DEF launchManagedDesktop, At, Fits, Launching,
         Wrote, NotWritten
    <3>2. Act(e, t)
      BY <2>17, <2>0, <3>1 DEF launchManagedDesktop, engineRest, vmLaunchAllowed,
         LaunchPhase, Launching, Failed, Turn, Keeps
    <3> QED BY <3>2, Actor
  <2>18. CASE startManagedVM(e, t)
    <3>1. /\ job[e][t].kind \in Launching /\ job[e][t].pc = "start"
          /\ \/ /\ proc' = [proc EXCEPT ![e] = "suspended"] /\ lock' = lock
                /\ Turn(e, t, job[e][t].kind, "adopt") /\ Keeps(e, t)
             \/ proc' = proc /\ Failed(e, t)
      BY <2>18, GotoTurns, LaunchFailsTurns DEF startManagedVM, At, Fits, Launching, Spawn
    <3>2. Act(e, t)
      BY <2>18, <2>0, <3>1 DEF startManagedVM, startRest, Launching, Failed, Turn, Keeps
    <3> QED BY <3>2, Actor
  <2>19. CASE adoptDesktop(e, t)
    <3>1. /\ job[e][t].kind \in Launching /\ job[e][t].pc = "adopt"
          /\ \/ /\ proc' = [proc EXCEPT ![e] = "desktop"] /\ disk' = "dirty"
                /\ file' = file /\ lock' = lock
                /\ Turn(e, t, job[e][t].kind, "control") /\ Keeps(e, t)
             \/ /\ proc' = [proc EXCEPT ![e] = "none"] /\ disk' = disk
                /\ file' \in {file, "needs_recovery"}
                /\ Failed(e, t)
      BY <2>19, GotoTurns, LaunchFailsTurns DEF adoptDesktop, At, Fits, Launching,
         ownVMProcess, Killed,
         writeVMState
    <3>2. Act(e, t)
      BY <2>19, <2>0, <3>1 DEF adoptDesktop, startRest, Launching, Failed, Turn, Keeps
    <3> QED BY <3>2, Actor
  <2>20. CASE connectControl(e, t)
    <3>1. /\ job[e][t].kind \in Launching /\ job[e][t].pc = "control"
          /\ \/ /\ proc' = proc /\ file' = file /\ lock' = lock
                /\ Turn(e, t, job[e][t].kind, "publish") /\ Keeps(e, t)
             \/ /\ proc' = [proc EXCEPT ![e] = "none"]
                /\ file' \in {file, "needs_recovery"}
                /\ Failed(e, t)
      BY <2>20, GotoTurns, LaunchFailsTurns DEF connectControl, At, Fits, Launching, Killed,
         writeVMState
    <3>2. Act(e, t)
      BY <2>20, <2>0, <3>1 DEF connectControl, startRest, Launching, Failed, Turn, Keeps
    <3> QED BY <3>2, Actor
  <2>21. CASE publishRunning(e, t)
    <3>1. /\ job[e][t].kind \in Launching /\ job[e][t].pc = "publish"
          /\ \/ /\ file' = "running" /\ proc' = proc /\ lock' = lock
                /\ sess' = [sess EXCEPT ![e] = [pc |-> "live", phase |-> "running", forced |-> FALSE]]
                /\ \/ Turn(e, t, "none", "idle")
                   \/ Turn(e, t, "prepare", "leave")
             \/ /\ file' = file /\ proc' = [proc EXCEPT ![e] = "none"] /\ sess' = sess
                /\ Failed(e, t)
      BY <2>21, GotoTurns, LeaveTurns, LaunchFailsTurns DEF publishRunning, At, Fits,
         Launching,
         Wrote, NotWritten, Killed
    <3>2. CASE sess' = sess /\ Failed(e, t)
      <4>1. Act(e, t)
        BY <2>21, <2>0, <3>1, <3>2 DEF publishRunning, startRest, Launching, Failed, Turn,
           Keeps
      <4> QED BY <4>1, Actor
    <3>3. CASE ~(sess' = sess /\ Failed(e, t))
      <4>1. sess'[e].pc = "live" /\ \A x \in Engines : x # e => sess'[x] = sess[x]
        BY <3>1, <3>3, PublishSession
      <4>2. Act(e, t)
        BY <2>21, <2>0, <3>1, <3>3, <4>1 DEF publishRunning, startRest, Launching, Turn
      <4> QED BY <4>2, Actor
    <3> QED BY <3>2, <3>3
  <2>22. CASE createRootDisk(e, t)
    <3>1. Turn(e, t, "none", "idle")
      BY <2>22, LeaveTurns DEF createRootDisk, At, Fits, Launching
    <3>2. Act(e, t)
      BY <2>22, <2>0, <3>1 DEF createRootDisk, At, release, engineRest, Turn
    <3> QED BY <3>2, Actor
  <2>23. CASE RemoveFolder(e, t)
    <3>1. Turn(e, t, "none", "idle")
      BY <2>23, LeaveTurns DEF RemoveFolder, At, Fits, Launching
    <3>2. Act(e, t)
      BY <2>23, <2>0, <3>1 DEF RemoveFolder, At, release, engineRest, Turn
    <3> QED BY <3>2, Actor
  <2> QED
    BY <1>2, <2>1, <2>2, <2>3, <2>4, <2>5, <2>6, <2>7, <2>8, <2>9, <2>10, <2>11,
       <2>12, <2>13, <2>14, <2>15, <2>16, <2>17, <2>18, <2>19, <2>20, <2>21, <2>22,
       <2>23 DEF Step
<1>3. ASSUME NEW e \in Engines, Closing(e) PROVE OwnerInv'
  <2>0. /\ Follows(e) /\ Runs(e) /\ Shared /\ \A t \in Slots : Knows(e, job[e][t])
        /\ Attached(e) => lock = {e}
        /\ \A t \in Slots : Claim(job[e][t]) => lock = {e} /\ ~Attached(e)
    BY <1>a
  <2>1. CASE closeStops(e)
    <3>1. CASE UNCHANGED <<sess, file>>
      <4>1. Passive
        BY <2>1, <3>1 DEF closeStops, closeRest, Passive
      <4> QED BY <4>1, Bystander
    <3>2. CASE \E asked \in BOOLEAN : stop(e, asked)
      <4>1. PICK asked \in BOOLEAN : stop(e, asked)
        BY <3>2
      <4>2. \A x \in Engines : sess'[x].pc = sess[x].pc
        BY <4>1, StopSession
      <4>3. Act(e, 1)
        BY <2>1, <2>0, <4>1, <4>2 DEF closeStops, closeRest, stop, Wrote, NotWritten, Slots
      <4> QED BY <4>3, Actor DEF Slots
    <3> QED BY <2>1, <3>1, <3>2 DEF closeStops
  <2>2. CASE closeForces(e)
    BY <2>2, ForcedOwner DEF closeForces, closeRest, shared
  <2>3. CASE EngineExits(e)
    BY <2>3, DieOwner DEF EngineExits
  <2> QED
    BY <1>3, <2>1, <2>2, <2>3 DEF Closing
<1>4. ASSUME NEW e \in Engines, Alone(e) PROVE OwnerInv'
  <2>0. /\ Follows(e) /\ Runs(e) /\ Shared /\ \A t \in Slots : Knows(e, job[e][t])
        /\ Attached(e) => lock = {e}
        /\ \A t \in Slots : Claim(job[e][t]) => lock = {e} /\ ~Attached(e)
    BY <1>a
  <2>1. CASE GetVMState(e)
    <3>1. account' => account
      BY <2>1, Zenon DEF GetVMState, Sweep, removeVMAccountInputs
    <3>2. Passive
      BY <2>1, <3>1 DEF GetVMState, engine, Passive
    <3> QED BY <3>2, Bystander
  <2>2. CASE StopVM(e)
    <3>1. PICK asked \in BOOLEAN : stop(e, asked)
      BY <2>2 DEF StopVM
    <3>2. \A x \in Engines : sess'[x].pc = sess[x].pc
      BY <3>1, StopSession
    <3>3. Act(e, 1)
      BY <2>2, <2>0, <3>1, <3>2 DEF StopVM, stop, Wrote, NotWritten, Slots
    <3> QED BY <3>3, Actor DEF Slots
  <2>3. CASE ForceStopVM(e)
    <3>1. CASE vmCancel[e] # 0
      BY <2>3, <3>1, CancelledOwner DEF ForceStopVM, shared
    <3>2. CASE vmCancel[e] = 0
      BY <2>3, <3>2, ForcedOwner DEF ForceStopVM, shared
    <3> QED BY <3>1, <3>2
  <2>4. CASE forceJoined(e)
    BY <2>4, ForcedOwner DEF forceJoined, shared
  <2>5. CASE shutdownVM(e)
    <3>1. CASE vmCancel[e] # 0
      BY <2>5, <3>1, CancelledOwner DEF shutdownVM, closeRest, shared
    <3>2. CASE vmCancel[e] = 0
      <4>1. Passive
        BY <2>5, <3>2 DEF shutdownVM, closeRest, shared, Passive
      <4> QED BY <4>1, Bystander
    <3> QED BY <3>1, <3>2
  <2>6. CASE BuilderExits(e)
    BY <2>6, ExitOwner DEF BuilderExits, buildRest
  <2>7. CASE GuestExits(e)
    BY <2>7, ExitOwner DEF GuestExits, startRest
  <2>8. CASE wait(e)
    <3>1. /\ sess'[e].pc = "release" /\ \A x \in Engines : x # e => sess'[x] = sess[x]
      BY <2>8, WaitSession
    <3>2. /\ proc[e] \in {"clean", "gone"}
          /\ file' \in {file, "needs_recovery"} \union (IF proc[e] = "clean" THEN {"stopped"} ELSE {})
      BY <2>8 DEF wait, StopVerdict
    <3>3. Act(e, 1)
      BY <2>8, <2>0, <3>1, <3>2 DEF wait, startRest, Killed, Slots
    <3> QED BY <3>3, Actor DEF Slots
  <2>9. CASE waitReturns(e)
    <3>1. sess'[e].pc = "done" /\ \A x \in Engines : x # e => sess'[x] = sess[x]
      BY <2>9, ReleaseSession DEF waitReturns
    <3>2. Act(e, 1)
      BY <2>9, <2>0, <3>1 DEF waitReturns, release, Slots
    <3> QED BY <3>2, Actor DEF Slots
  <2>10. CASE EngineCrashes(e)
    BY <2>10, DieOwner DEF EngineCrashes
  <2>11. CASE EngineStarts(e)
    <3>1. Passive
      BY <2>11 DEF EngineStarts, shared, Passive
    <3> QED BY <3>1, Bystander
  <2>12. CASE OrphanStops(e)
    <3>1. Passive
      BY <2>12 DEF OrphanStops, shared, engine, Passive
    <3> QED BY <3>1, Bystander
  <2> QED
    BY <1>4, <2>1, <2>2, <2>3, <2>4, <2>5, <2>6, <2>7, <2>8, <2>9, <2>10, <2>11, <2>12
       DEF Alone
<1>5. CASE PowerCut
  <2>1. \A x \in Engines : proc'[x] = "none" /\ sess'[x].pc = "none"
    BY <1>5, DieSession DEF PowerCut, Die, NoSession
  <2>2. \A x \in Engines, s \in Slots : job'[x][s] = Free
    BY <1>5, DieTurns DEF PowerCut
  <2>3. orphans' = {} /\ disk' = disk /\ file' = file
    BY <1>5 DEF PowerCut, Die
  <2>4. \A x \in Engines, s \in Slots : Knows(x, job[x][s])'
    BY <2>2, FreeJob
  <2>5. Shared'
    BY <1>a, <2>3 DEF OwnerInv
  <2> QED BY <2>1, <2>2, <2>4, <2>5, FreeJob DEF OwnerInv, Ownership
<1>6. CASE UNCHANGED vars
  <2>1. Passive
    BY <1>6 DEF vars, shared, engine, Passive
  <2> QED BY <2>1, Bystander
<1> QED BY <1>1, <1>2, <1>3, <1>4, <1>5, <1>6 DEF Next, Alone

-----------------------------------------------------------------------------
(* Joins *)

\* The two done channels are told apart.
LEMMA Joins == Slots = {1, 2} /\ JoinOn[1] = "join1" /\ JoinOn[2] = "join2"
  BY DEF Slots, JoinOn

\* A step that a worker, or somebody who is none, takes on its way.
Goes(e, t) ==
    /\ \A x \in Engines, s \in Slots : x # e \/ s # t => job'[x][s] = job[x][s]
    /\ job[e][t].kind \in {"prepare", "runtime"} =>
         /\ job'[e][t].kind = job[e][t].kind /\ job'[e][t].pc # "close"
         /\ job[e][t].cut => job'[e][t].cut
    /\ UNCHANGED <<vmCancel, force, close>>

\* ... leaves whoever joins it with a worker to wait for.
LEMMA GoesOn ==
    ASSUME Cancels, JoinsAreAnswered, NEW e \in Engines, NEW t \in Slots, Goes(e, t)
    PROVE  Cancels' /\ JoinsAreAnswered'
<1>1. Cancels'
  BY DEF Goes, Cancels
<1>2. JoinsAreAnswered'
  BY DEF Goes, JoinsAreAnswered
<1> QED BY <1>1, <1>2

\* The dead join nobody.
LEMMA DieJoins ==
    ASSUME Types, Cancels, JoinsAreAnswered, NEW dead, Die(dead)
    PROVE  Cancels' /\ JoinsAreAnswered'
<1>1. \A x \in Engines, s \in Slots : job'[x][s] = IF x \in dead THEN Free ELSE job[x][s]
  BY DieTurns DEF Types
<1>2. \A x \in Engines : /\ vmCancel'[x] = IF x \in dead THEN 0 ELSE vmCancel[x]
                         /\ force'[x] = IF x \in dead THEN "no" ELSE force[x]
                         /\ close'[x] = IF x \in dead THEN "no" ELSE close[x]
  BY DEF Die
<1>3. Cancels'
  BY <1>1, <1>2, Joins DEF Cancels
<1>4. JoinsAreAnswered'
  BY <1>1, <1>2, Joins DEF JoinsAreAnswered
<1> QED BY <1>3, <1>4

\* Every action keeps the joins answered.
LEMMA JoinStep ==
    Types /\ Cancels /\ JoinsAreAnswered /\ [Next]_vars => Cancels' /\ JoinsAreAnswered'
<1> SUFFICES ASSUME Types, Cancels, JoinsAreAnswered, [Next]_vars
             PROVE  Cancels' /\ JoinsAreAnswered'
  OBVIOUS
<1>0. /\ job \in Jobs /\ vmCancel \in [Engines -> Slots \union {0}]
      /\ force \in [Engines -> {"no", "kill", "join1", "join2"}]
      /\ close \in [Engines -> {"no", "stop", "wait", "dead", "exit", "join1", "join2"}]
  BY DEF Types
<1> USE <1>0 DEF Goes
<1>1. ASSUME NEW e \in Engines, NEW t \in Slots, Call(e, t) PROVE Cancels' /\ JoinsAreAnswered'
  <2>1. CASE InstallVMRuntime(e, t)
    <3>1. Turn(e, t, "runtime", "download") /\ job[e][t] = Free
      BY <2>1, AdmitTurns DEF InstallVMRuntime, Fits, Callable
    <3> QED BY <2>1, <3>1, FreeJob DEF InstallVMRuntime, Turn, Cancels, JoinsAreAnswered
  <2>2. CASE PrepareVM(e, t)
    <3>1. CASE UNCHANGED <<job, vmCancel>>
      BY <2>2, <3>1 DEF PrepareVM, Cancels, JoinsAreAnswered
    <3>2. CASE Admit(e, t, "prepare", "record") /\ vmCancel' = [vmCancel EXCEPT ![e] = t]
      <4>1. Turn(e, t, "prepare", "record") /\ job[e][t] = Free
        BY <2>2, <3>2, AdmitTurns DEF PrepareVM, Fits, Callable
      <4> QED BY <2>2, <3>2, <4>1, FreeJob DEF PrepareVM, Turn, Cancels, JoinsAreAnswered
    <3> QED BY <2>2, <3>1, <3>2 DEF PrepareVM
  <2>3. CASE BootInVM(e, t)
    <3>1. Turn(e, t, "boot", "lock") /\ job[e][t] = Free
      BY <2>3, AdmitTurns DEF BootInVM, Fits, Callable
    <3>2. Goes(e, t)
      BY <2>3, <3>1, FreeJob DEF BootInVM, engineRest, Turn
    <3> QED BY <3>2, GoesOn
  <2>4. CASE NativeInstall(e, t)
    <3>1. Turn(e, t, "native", "deploy") /\ job[e][t] = Free
      BY <2>4, AdmitTurns DEF NativeInstall, Fits, Callable
    <3>2. Goes(e, t)
      BY <2>4, <3>1, FreeJob DEF NativeInstall, engineRest, Turn
    <3> QED BY <3>2, GoesOn
  <2>5. CASE Uninstall(e, t)
    <3>1. Turn(e, t, "uninstall", "remove") /\ job[e][t] = Free
      BY <2>5, AdmitTurns DEF Uninstall, Fits, Callable
    <3>2. Goes(e, t)
      BY <2>5, <3>1, FreeJob DEF Uninstall, Turn
    <3> QED BY <3>2, GoesOn
  <2> QED
    BY <1>1, <2>1, <2>2, <2>3, <2>4, <2>5 DEF Call
<1>2. ASSUME NEW e \in Engines, NEW t \in Slots, Step(e, t) PROVE Cancels' /\ JoinsAreAnswered'
  <2>1. CASE downloadVMRuntime(e, t)
    <3>1. /\ job[e][t].kind = "runtime" /\ Keeps(e, t)
          /\ \/ Turn(e, t, "runtime", "install")
             \/ Turn(e, t, "runtime", "clear")
      BY <2>1, GotoTurns DEF downloadVMRuntime, At, Fits, Launching
    <3>2. UNCHANGED <<vmCancel, force, close>>
      BY <2>1 DEF downloadVMRuntime, engineRest
    <3>3. Goes(e, t)
      BY <3>1, <3>2 DEF Turn, Keeps
    <3> QED BY <3>3, GoesOn
  <2>2. CASE acquireVMRuntime(e, t)
    <3>1. /\ job[e][t].kind = "runtime" /\ Keeps(e, t)
          /\ \/ Turn(e, t, "runtime", "clear")
      BY <2>2, GotoTurns DEF acquireVMRuntime, At, Fits, Launching
    <3>2. UNCHANGED <<vmCancel, force, close>>
      BY <2>2 DEF acquireVMRuntime, engineRest
    <3>3. Goes(e, t)
      BY <3>1, <3>2 DEF Turn, Keeps
    <3> QED BY <3>3, GoesOn
  <2>3. CASE runtimeReturns(e, t)
    <3>1. Turn(e, t, "runtime", "close") /\ Keeps(e, t) /\ job[e][t].kind = "runtime"
      BY <2>3, GotoTurns DEF runtimeReturns, At, Fits
    <3>2. /\ vmCancel'[e] = 0 /\ \A x \in Engines : x # e => vmCancel'[x] = vmCancel[x]
          /\ UNCHANGED <<force, close>>
      BY <2>3 DEF runtimeReturns
    <3>3. Cancels'
      BY <3>1, <3>2 DEF Turn, Cancels, Slots
    <3>4. JoinsAreAnswered'
      BY <3>1, <3>2 DEF Turn, Keeps, JoinsAreAnswered
    <3> QED BY <3>3, <3>4
  <2>4. CASE runtimeCloses(e, t)
    <3>1. Turn(e, t, "none", "idle")
      BY <2>4, LeaveTurns DEF runtimeCloses
    <3> QED BY <2>4, <3>1, Joins DEF runtimeCloses, At, Woken, Turn, Cancels, JoinsAreAnswered
  <2>5. CASE recordPreparing(e, t)
    <3>1. /\ job[e][t].kind = "prepare" /\ Keeps(e, t)
          /\ \/ Turn(e, t, "prepare", "resolve")
             \/ Turn(e, t, "prepare", "error")
      BY <2>5, GotoTurns DEF recordPreparing, At, Fits, Launching
    <3>2. UNCHANGED <<vmCancel, force, close>>
      BY <2>5 DEF recordPreparing, engineRest, prepareRest
    <3>3. Goes(e, t)
      BY <3>1, <3>2 DEF Turn, Keeps
    <3> QED BY <3>3, GoesOn
  <2>6. CASE resolveVMImage(e, t)
    <3>1. /\ job[e][t].kind = "prepare" /\ Keeps(e, t)
          /\ \/ Turn(e, t, "prepare", "create")
             \/ Turn(e, t, "prepare", "error")
      BY <2>6, GotoTurns DEF resolveVMImage, At, Fits, Launching
    <3>2. UNCHANGED <<vmCancel, force, close>>
      BY <2>6 DEF resolveVMImage, engineRest, prepareRest
    <3>3. Goes(e, t)
      BY <3>1, <3>2 DEF Turn, Keeps
    <3> QED BY <3>3, GoesOn
  <2>7. CASE createVMImageFiles(e, t)
    <3>1. /\ job[e][t].kind = "prepare" /\ Keeps(e, t)
          /\ \/ Turn(e, t, "prepare", "account")
             \/ Turn(e, t, "prepare", "error")
      BY <2>7, GotoTurns DEF createVMImageFiles, At, Fits, Launching
    <3>2. UNCHANGED <<vmCancel, force, close>>
      BY <2>7 DEF createVMImageFiles, engineRest, prepareRest
    <3>3. Goes(e, t)
      BY <3>1, <3>2 DEF Turn, Keeps
    <3> QED BY <3>3, GoesOn
  <2>8. CASE writeVMAccountInput(e, t)
    <3>1. /\ job[e][t].kind = "prepare" /\ Keeps(e, t)
          /\ \/ Turn(e, t, "prepare", "spawn")
             \/ Turn(e, t, "prepare", "error")
      BY <2>8, GotoTurns DEF writeVMAccountInput, At, Fits, Launching
    <3>2. UNCHANGED <<vmCancel, force, close>>
      BY <2>8 DEF writeVMAccountInput, engineRest, prepareRest
    <3>3. Goes(e, t)
      BY <3>1, <3>2 DEF Turn, Keeps
    <3> QED BY <3>3, GoesOn
  <2>9. CASE startBuilder(e, t)
    <3>1. /\ job[e][t].kind = "prepare" /\ Keeps(e, t)
          /\ \/ Turn(e, t, "prepare", "own")
             \/ Turn(e, t, "prepare", "error")
      BY <2>9, GotoTurns DEF startBuilder, At, Fits, Launching
    <3>2. UNCHANGED <<vmCancel, force, close>>
      BY <2>9 DEF startBuilder, buildRest
    <3>3. Goes(e, t)
      BY <3>1, <3>2 DEF Turn, Keeps
    <3> QED BY <3>3, GoesOn
  <2>10. CASE ownBuilder(e, t)
    <3>1. /\ job[e][t].kind = "prepare" /\ Keeps(e, t)
          /\ \/ Turn(e, t, "prepare", "build")
             \/ Turn(e, t, "prepare", "error")
      BY <2>10, GotoTurns DEF ownBuilder, At, Fits, Launching
    <3>2. UNCHANGED <<vmCancel, force, close>>
      BY <2>10 DEF ownBuilder, buildRest
    <3>3. Goes(e, t)
      BY <3>1, <3>2 DEF Turn, Keeps
    <3> QED BY <3>3, GoesOn
  <2>11. CASE runBuilderVM(e, t)
    <3>1. PICK proven \in BOOLEAN, removed \in BOOLEAN :
               /\ job[e][t].kind = "prepare"
               /\ job' = [job EXCEPT ![e][t] = Built(job[e][t], proven, removed)]
      BY <2>11, Zenon DEF runBuilderVM, At
    <3>2. /\ Turn(e, t, "prepare", IF proven /\ removed THEN "ready" ELSE "error")
          /\ job'[e][t].cut = job[e][t].cut
      BY <3>1, BuiltTurns
    <3>3. Goes(e, t)
      BY <2>11, <3>1, <3>2 DEF runBuilderVM, buildRest, Turn
    <3> QED BY <3>3, GoesOn
  <2>12. CASE CutBuilder(e, t)
    <3>1. /\ job[e][t].kind = "prepare" /\ job[e][t].pc = "build"
          /\ job'[e][t] = [job[e][t] EXCEPT !.cut = TRUE] /\ Turn(e, t, "prepare", "build")
      <4>1. job[e][t].kind = "prepare" /\ job[e][t].pc = "build"
        BY <2>12 DEF CutBuilder, At
      <4>2. job' = [job EXCEPT ![e][t].cut = TRUE]
        BY <2>12 DEF CutBuilder
      <4> QED BY <4>1, <4>2, CutTurns
    <3>a. job[e][t] \in Job
      BY DEF Jobs
    <3>2. job'[e][t].cut
      BY <3>1, <3>a DEF Job
    <3>3. Goes(e, t)
      BY <2>12, <3>1, <3>2 DEF CutBuilder, buildRest, Turn
    <3> QED BY <3>3, GoesOn
  <2>13. CASE recordReady(e, t)
    <3>1. /\ job[e][t].kind = "prepare" /\ Keeps(e, t)
          /\ \/ Turn(e, t, "prepare", "launch")
             \/ Turn(e, t, "prepare", "error")
      BY <2>13, GotoTurns DEF recordReady, At, Fits, Launching
    <3>2. UNCHANGED <<vmCancel, force, close>>
      BY <2>13 DEF recordReady, engineRest, prepareRest
    <3>3. Goes(e, t)
      BY <3>1, <3>2 DEF Turn, Keeps
    <3> QED BY <3>3, GoesOn
  <2>14. CASE prepareFails(e, t)
    <3>1. /\ job[e][t].kind = "prepare" /\ Keeps(e, t)
          /\ \/ Turn(e, t, "prepare", "leave")
      BY <2>14, GotoTurns DEF prepareFails, At, Fits, Launching
    <3>2. UNCHANGED <<vmCancel, force, close>>
      BY <2>14 DEF prepareFails, engineRest
    <3>3. Goes(e, t)
      BY <3>1, <3>2 DEF Turn, Keeps
    <3> QED BY <3>3, GoesOn
  <2>15. CASE prepareReturns(e, t)
    <3>1. Turn(e, t, "none", "idle")
      BY <2>15, LeaveTurns DEF prepareReturns
    <3> QED BY <2>15, <3>1, Joins DEF prepareReturns, At, Woken, Turn, Cancels, JoinsAreAnswered
  <2>16. CASE bootLocks(e, t)
    <3>1. /\ job[e][t].kind = "boot" /\ UNCHANGED <<vmCancel, force, close>>
          /\ (Turn(e, t, "boot", "launch") \/ Turn(e, t, "none", "idle"))
      BY <2>16, GotoTurns, LeaveTurns DEF bootLocks, At, Fits, Launching, engineRest
    <3>2. Goes(e, t)
      BY <3>1 DEF Turn
    <3> QED BY <3>2, GoesOn
  <2>17. CASE launchManagedDesktop(e, t)
    <3>1. Goes(e, t)
      BY <2>17, GotoTurns, LaunchFailsTurns DEF launchManagedDesktop, At, Fits, Launching,
         engineRest, Failed, Turn, Keeps
    <3> QED BY <3>1, GoesOn
  <2>18. CASE startManagedVM(e, t)
    <3>1. Goes(e, t)
      BY <2>18, GotoTurns, LaunchFailsTurns DEF startManagedVM, At, Fits, Launching,
         startRest, Failed, Turn, Keeps
    <3> QED BY <3>1, GoesOn
  <2>19. CASE adoptDesktop(e, t)
    <3>1. Goes(e, t)
      BY <2>19, GotoTurns, LaunchFailsTurns DEF adoptDesktop, At, Fits, Launching,
         startRest, Failed, Turn, Keeps
    <3> QED BY <3>1, GoesOn
  <2>20. CASE connectControl(e, t)
    <3>1. Goes(e, t)
      BY <2>20, GotoTurns, LaunchFailsTurns DEF connectControl, At, Fits, Launching,
         startRest, Failed, Turn, Keeps
    <3> QED BY <3>1, GoesOn
  <2>21. CASE publishRunning(e, t)
    <3>1. Goes(e, t)
      BY <2>21, GotoTurns, LeaveTurns, LaunchFailsTurns DEF publishRunning, At, Fits,
         Launching, startRest, Failed, Turn, Keeps
    <3> QED BY <3>1, GoesOn
  <2>22. CASE createRootDisk(e, t)
    <3>1. Goes(e, t)
      BY <2>22, LeaveTurns DEF createRootDisk, At, Fits, Launching, engineRest, Turn,
         Keeps
    <3> QED BY <3>1, GoesOn
  <2>23. CASE RemoveFolder(e, t)
    <3>1. Goes(e, t)
      BY <2>23, LeaveTurns DEF RemoveFolder, At, Fits, Launching, engineRest, Turn, Keeps
    <3> QED BY <3>1, GoesOn
  <2> QED
    BY <1>2, <2>1, <2>2, <2>3, <2>4, <2>5, <2>6, <2>7, <2>8, <2>9, <2>10, <2>11,
       <2>12, <2>13, <2>14, <2>15, <2>16, <2>17, <2>18, <2>19, <2>20, <2>21, <2>22,
       <2>23 DEF Step
<1>3. ASSUME NEW e \in Engines, Closing(e) PROVE Cancels' /\ JoinsAreAnswered'
  <2>1. CASE closeStops(e)
    BY <2>1, Joins DEF closeStops, closeRest, Closes, Cancels, JoinsAreAnswered
  <2>2. CASE closeForces(e)
    BY <2>2, Joins DEF closeForces, closeRest, Closes, Cancels, JoinsAreAnswered
  <2>3. CASE EngineExits(e)
    BY <2>3, DieJoins DEF EngineExits
  <2> QED
    BY <1>3, <2>1, <2>2, <2>3 DEF Closing
<1>4. ASSUME NEW e \in Engines, Alone(e) PROVE Cancels' /\ JoinsAreAnswered'
  <2>1. CASE GetVMState(e)
    BY <2>1, Joins DEF GetVMState, engine, Cancels, JoinsAreAnswered
  <2>2. CASE StopVM(e)
    BY <2>2, Joins DEF StopVM, Cancels, JoinsAreAnswered
  <2>3. CASE ForceStopVM(e)
    <3>1. CASE vmCancel[e] = 0
      BY <2>3, <3>1, Joins DEF ForceStopVM, Cancels, JoinsAreAnswered
    <3>2. CASE vmCancel[e] # 0
      <4>1. /\ vmCancel[e] \in Slots
            /\ job'[e][vmCancel[e]] = [job[e][vmCancel[e]] EXCEPT !.cut = TRUE]
            /\ Turn(e, vmCancel[e], job[e][vmCancel[e]].kind, job[e][vmCancel[e]].pc)
        BY <2>3, <3>2, CancelledTurns DEF ForceStopVM
      <4>2. job'[e][vmCancel[e]].cut
        BY <4>1 DEF Jobs, Job
      <4>a. \A x \in Engines, u \in Slots :
               /\ job'[x][u].kind = job[x][u].kind /\ job'[x][u].pc = job[x][u].pc
               /\ job[x][u].cut => job'[x][u].cut
        BY <4>1, <4>2 DEF Turn
      <4>b. /\ UNCHANGED <<vmCancel, close>> /\ force'[e] = JoinOn[vmCancel[e]]
            /\ \A x \in Engines : x # e => force'[x] = force[x]
        BY <2>3, <3>2 DEF ForceStopVM
      <4>3. Cancels'
        BY <4>a, <4>b DEF Cancels
      <4>4. JoinsAreAnswered'
        <5>1. job[e][vmCancel[e]].kind \in {"prepare", "runtime"}
          BY <4>1 DEF Cancels
        <5>2. \A u \in Slots : JoinOn[u] = JoinOn[vmCancel[e]] => u = vmCancel[e]
          BY <4>1, Joins
        <5>3. ASSUME NEW x \in Engines, NEW u \in Slots, JoinOn[u] \in {force'[x], close'[x]}
              PROVE  job'[x][u].kind \in {"prepare", "runtime"} /\ job'[x][u].cut
          <6>1. CASE JoinOn[u] \in {force[x], close[x]}
            BY <4>a, <6>1 DEF JoinsAreAnswered
          <6>2. CASE JoinOn[u] \notin {force[x], close[x]}
            <7>1. x = e /\ u = vmCancel[e]
              BY <4>b, <5>2, <5>3, <6>2
            <7> QED BY <4>2, <4>a, <5>1, <7>1
          <6> QED BY <6>1, <6>2
        <5> QED BY <5>3 DEF JoinsAreAnswered
      <4> QED BY <4>3, <4>4
    <3> QED BY <3>1, <3>2
  <2>4. CASE forceJoined(e)
    BY <2>4, Joins DEF forceJoined, Cancels, JoinsAreAnswered
  <2>5. CASE shutdownVM(e)
    <3>1. CASE vmCancel[e] = 0
      BY <2>5, <3>1, Joins DEF shutdownVM, closeRest, Closes, Cancels, JoinsAreAnswered
    <3>2. CASE vmCancel[e] # 0
      <4>1. /\ vmCancel[e] \in Slots
            /\ job'[e][vmCancel[e]] = [job[e][vmCancel[e]] EXCEPT !.cut = TRUE]
            /\ Turn(e, vmCancel[e], job[e][vmCancel[e]].kind, job[e][vmCancel[e]].pc)
        BY <2>5, <3>2, CancelledTurns DEF shutdownVM
      <4>2. job'[e][vmCancel[e]].cut
        BY <4>1 DEF Jobs, Job
      <4>a. \A x \in Engines, u \in Slots :
               /\ job'[x][u].kind = job[x][u].kind /\ job'[x][u].pc = job[x][u].pc
               /\ job[x][u].cut => job'[x][u].cut
        BY <4>1, <4>2 DEF Turn
      <4>b. /\ UNCHANGED <<vmCancel, force>> /\ close'[e] = JoinOn[vmCancel[e]]
            /\ \A x \in Engines : x # e => close'[x] = close[x]
        BY <2>5, <3>2 DEF shutdownVM, closeRest, Closes
      <4>3. Cancels'
        BY <4>a, <4>b DEF Cancels
      <4>4. JoinsAreAnswered'
        <5>1. job[e][vmCancel[e]].kind \in {"prepare", "runtime"}
          BY <4>1 DEF Cancels
        <5>2. \A u \in Slots : JoinOn[u] = JoinOn[vmCancel[e]] => u = vmCancel[e]
          BY <4>1, Joins
        <5>3. ASSUME NEW x \in Engines, NEW u \in Slots, JoinOn[u] \in {force'[x], close'[x]}
              PROVE  job'[x][u].kind \in {"prepare", "runtime"} /\ job'[x][u].cut
          <6>1. CASE JoinOn[u] \in {force[x], close[x]}
            BY <4>a, <6>1 DEF JoinsAreAnswered
          <6>2. CASE JoinOn[u] \notin {force[x], close[x]}
            <7>1. x = e /\ u = vmCancel[e]
              BY <4>b, <5>2, <5>3, <6>2
            <7> QED BY <4>2, <4>a, <5>1, <7>1
          <6> QED BY <6>1, <6>2
        <5> QED BY <5>3 DEF JoinsAreAnswered
      <4> QED BY <4>3, <4>4
    <3> QED BY <3>1, <3>2
  <2>6. CASE BuilderExits(e)
    BY <2>6, Joins DEF BuilderExits, buildRest, Cancels, JoinsAreAnswered
  <2>7. CASE GuestExits(e)
    BY <2>7, Joins DEF GuestExits, startRest, Cancels, JoinsAreAnswered
  <2>8. CASE wait(e)
    BY <2>8, Joins DEF wait, startRest, Cancels, JoinsAreAnswered
  <2>9. CASE waitReturns(e)
    BY <2>9, Joins DEF waitReturns, Cancels, JoinsAreAnswered
  <2>10. CASE EngineCrashes(e)
    BY <2>10, DieJoins DEF EngineCrashes
  <2>11. CASE EngineStarts(e)
    BY <2>11, Joins DEF EngineStarts, Cancels, JoinsAreAnswered
  <2>12. CASE OrphanStops(e)
    BY <2>12, Joins DEF OrphanStops, engine, Cancels, JoinsAreAnswered
  <2> QED
    BY <1>4, <2>1, <2>2, <2>3, <2>4, <2>5, <2>6, <2>7, <2>8, <2>9, <2>10, <2>11, <2>12
       DEF Alone
<1>5. CASE PowerCut
  BY <1>5, DieJoins DEF PowerCut
<1>6. CASE UNCHANGED vars
  BY <1>6 DEF vars, engine, Cancels, JoinsAreAnswered
<1> QED BY <1>1, <1>2, <1>3, <1>4, <1>5, <1>6 DEF Next, Alone

-----------------------------------------------------------------------------
(* The runtime *)

\* A path is one of its own prefixes, unless it is empty.
LEMMA WholePath ==
    ASSUME NEW S, NEW p \in Seq(S), p # <<>> PROVE p \in Prefixes(p)
<1>1. Len(p) \in DOMAIN p
  OBVIOUS
<1>2. SubSeq(p, 1, Len(p)) = p
  OBVIOUS
<1> QED BY <1>1, <1>2 DEF Prefixes

\* Windows tells the extracted files apart.
LEMMA NamesApart ==
    ASSUME NEW a \in Archives, inspect(a.files),
           NEW i \in DOMAIN a.files, NEW j \in DOMAIN a.files,
           folded(a.files[i].path) = folded(a.files[j].path)
    PROVE  a.files[i].path = a.files[j].path
<1> DEFINE S == [text : STRING, case : STRING, legal : BOOLEAN]
           p == a.files[i].path
           q == a.files[j].path
<1>1. p \in Seq(S) /\ q \in Seq(S)
  BY PathsAssumption
<1> HIDE DEF S
<1>2. DOMAIN p = DOMAIN q
  BY DEF folded
<1>3. CASE p = <<>>
  <2>1. DOMAIN p = {}
    BY <1>3
  <2>2. DOMAIN q = 1 .. Len(q) /\ Len(q) \in Nat
    BY <1>1
  <2>3. Len(q) = 0
    <3>1. 1 \notin 1 .. Len(q)
      BY <1>2, <2>1, <2>2
    <3> QED BY <2>2, <3>1
  <2> QED BY <1>1, <1>3, <2>3
<1>4. CASE p # <<>>
  <2>1. q # <<>>
    BY <1>1, <1>2, <1>4
  <2>2. p \in Prefixes(p) /\ q \in Prefixes(q)
    BY <1>1, <1>4, <2>1, WholePath
  <2> DEFINE all == UNION {Prefixes(r) : r \in {a.files[k].path : k \in DOMAIN a.files}}
  <2>3. \A u, v \in all : folded(u) = folded(v) => u = v
    BY Zenon DEF inspect
  <2>4. p \in all /\ q \in all
    BY <2>2
  <2> QED BY <2>3, <2>4
<1> QED BY <1>3, <1>4

\* The tree an archive becomes passes the check of a start.
LEMMA InstallVerifies ==
    ASSUME NEW a \in Archives, NEW expected, NEW tree \in Install(a, expected)
    PROVE  verifyVMRuntime(tree)
<1> DEFINE rec(i) == [path |-> a.files[i].path, hash |-> a.files[i].hash]
<1>1. /\ inspect(a.files)
      /\ tree = [manifest |-> a.manifest, files |-> {rec(i) : i \in DOMAIN a.files}]
      /\ \E sums \in Verify(a.manifest) :
           /\ DOMAIN sums = {a.files[i].path : i \in DOMAIN a.files}
           /\ \A i \in DOMAIN a.files :
                extract(a.files[i], Signed(a.manifest, sums, a.files[i].path))
  BY Zenon DEF Install
<1>2. PICK sums \in Verify(a.manifest) :
        /\ DOMAIN sums = {a.files[i].path : i \in DOMAIN a.files}
        /\ \A i \in DOMAIN a.files :
             extract(a.files[i], Signed(a.manifest, sums, a.files[i].path))
  BY <1>1
<1>3. tree.manifest = a.manifest /\ tree.files = {rec(i) : i \in DOMAIN a.files}
  BY <1>1
<1>4. \A i \in DOMAIN a.files :
        /\ rec(i).path = a.files[i].path
        /\ rec(i).hash = Signed(a.manifest, sums, a.files[i].path)
        /\ rec(i) = [path |-> rec(i).path, hash |-> rec(i).hash]
  BY <1>2 DEF extract
<1> HIDE DEF rec
<1>5. \A f, g \in tree.files : folded(f.path) = folded(g.path) => f = g
  <2> SUFFICES ASSUME NEW f \in tree.files, NEW g \in tree.files,
                      folded(f.path) = folded(g.path)
               PROVE  f = g
    OBVIOUS
  <2>1. PICK i \in DOMAIN a.files : f = rec(i)
    BY <1>3
  <2>2. PICK j \in DOMAIN a.files : g = rec(j)
    BY <1>3
  <2>3. a.files[i].path = a.files[j].path
    BY <1>1, <1>4, <2>1, <2>2, NamesApart
  <2> QED BY <1>4, <2>1, <2>2, <2>3
<1>6. \A f \in tree.files :
        f.path \in DOMAIN sums /\ f.hash = Signed(tree.manifest, sums, f.path)
  BY <1>2, <1>3, <1>4
<1>7. \A p \in DOMAIN sums : \E f \in tree.files : f.path = p
  BY <1>2, <1>3, <1>4
<1> QED BY <1>2, <1>3, <1>5, <1>6, <1>7 DEF verifyVMRuntime

\* What a step may do to the runtime directory.
Trees ==
    \/ runtime' = runtime
    \/ runtime' = {}
    \/ \E a \in Archives : runtime' = Install(a, a.expected)

\* Only setup fills it and only an uninstall empties it.
LEMMA TreesStep == [Next]_vars => Trees
<1> SUFFICES ASSUME [Next]_vars PROVE Trees
  OBVIOUS
<1> USE DEF Trees
<1>1. ASSUME NEW e \in Engines, NEW t \in Slots, Call(e, t) PROVE Trees
  <2>1. CASE InstallVMRuntime(e, t)
    BY <2>1 DEF InstallVMRuntime
  <2>2. CASE PrepareVM(e, t)
    BY <2>2 DEF PrepareVM
  <2>3. CASE BootInVM(e, t)
    BY <2>3 DEF BootInVM, engineRest
  <2>4. CASE NativeInstall(e, t)
    BY <2>4 DEF NativeInstall, engineRest
  <2>5. CASE Uninstall(e, t)
    BY <2>5 DEF Uninstall
  <2> QED
    BY <1>1, <2>1, <2>2, <2>3, <2>4, <2>5 DEF Call
<1>2. ASSUME NEW e \in Engines, NEW t \in Slots, Step(e, t) PROVE Trees
  <2>1. CASE downloadVMRuntime(e, t)
    BY <2>1 DEF downloadVMRuntime, engineRest
  <2>2. CASE acquireVMRuntime(e, t)
    BY <2>2 DEF acquireVMRuntime, engineRest
  <2>3. CASE runtimeReturns(e, t)
    BY <2>3 DEF runtimeReturns, shared
  <2>4. CASE runtimeCloses(e, t)
    BY <2>4 DEF runtimeCloses
  <2>5. CASE recordPreparing(e, t)
    BY <2>5 DEF recordPreparing, prepareRest, engineRest
  <2>6. CASE resolveVMImage(e, t)
    BY <2>6 DEF resolveVMImage, prepareRest, engineRest
  <2>7. CASE createVMImageFiles(e, t)
    BY <2>7 DEF createVMImageFiles, prepareRest, engineRest
  <2>8. CASE writeVMAccountInput(e, t)
    BY <2>8 DEF writeVMAccountInput, prepareRest, engineRest
  <2>9. CASE startBuilder(e, t)
    BY <2>9 DEF startBuilder, buildRest
  <2>10. CASE ownBuilder(e, t)
    BY <2>10 DEF ownBuilder, buildRest
  <2>11. CASE runBuilderVM(e, t)
    BY <2>11 DEF runBuilderVM, buildRest
  <2>12. CASE CutBuilder(e, t)
    BY <2>12 DEF CutBuilder, buildRest
  <2>13. CASE recordReady(e, t)
    BY <2>13 DEF recordReady, prepareRest, engineRest
  <2>14. CASE prepareFails(e, t)
    BY <2>14 DEF prepareFails, engineRest
  <2>15. CASE prepareReturns(e, t)
    BY <2>15 DEF prepareReturns, shared
  <2>16. CASE bootLocks(e, t)
    BY <2>16 DEF bootLocks, engineRest
  <2>17. CASE launchManagedDesktop(e, t)
    BY <2>17 DEF launchManagedDesktop, engineRest
  <2>18. CASE startManagedVM(e, t)
    BY <2>18 DEF startManagedVM, startRest
  <2>19. CASE adoptDesktop(e, t)
    BY <2>19 DEF adoptDesktop, startRest
  <2>20. CASE connectControl(e, t)
    BY <2>20 DEF connectControl, startRest
  <2>21. CASE publishRunning(e, t)
    BY <2>21 DEF publishRunning, startRest
  <2>22. CASE createRootDisk(e, t)
    BY <2>22 DEF createRootDisk, engineRest
  <2>23. CASE RemoveFolder(e, t)
    BY <2>23 DEF RemoveFolder, engineRest
  <2> QED
    BY <1>2, <2>1, <2>2, <2>3, <2>4, <2>5, <2>6, <2>7, <2>8, <2>9, <2>10, <2>11,
       <2>12, <2>13, <2>14, <2>15, <2>16, <2>17, <2>18, <2>19, <2>20, <2>21, <2>22,
       <2>23 DEF Step
<1>3. ASSUME NEW e \in Engines, Closing(e) PROVE Trees
  <2>1. CASE closeStops(e)
    BY <2>1 DEF closeStops, closeRest
  <2>2. CASE closeForces(e)
    BY <2>2 DEF closeForces, shared, closeRest
  <2>3. CASE EngineExits(e)
    BY <2>3 DEF EngineExits, Die
  <2> QED
    BY <1>3, <2>1, <2>2, <2>3 DEF Closing
<1>4. ASSUME NEW e \in Engines, Alone(e) PROVE Trees
  <2>1. CASE GetVMState(e)
    BY <2>1 DEF GetVMState
  <2>2. CASE StopVM(e)
    BY <2>2 DEF StopVM
  <2>3. CASE ForceStopVM(e)
    BY <2>3 DEF ForceStopVM, shared
  <2>4. CASE forceJoined(e)
    BY <2>4 DEF forceJoined, shared
  <2>5. CASE shutdownVM(e)
    BY <2>5 DEF shutdownVM, shared, closeRest
  <2>6. CASE BuilderExits(e)
    BY <2>6 DEF BuilderExits, buildRest
  <2>7. CASE GuestExits(e)
    BY <2>7 DEF GuestExits, startRest
  <2>8. CASE wait(e)
    BY <2>8 DEF wait, startRest
  <2>9. CASE waitReturns(e)
    BY <2>9 DEF waitReturns
  <2>10. CASE EngineCrashes(e)
    BY <2>10 DEF EngineCrashes, Die
  <2>11. CASE EngineStarts(e)
    BY <2>11 DEF EngineStarts, shared
  <2>12. CASE OrphanStops(e)
    BY <2>12 DEF OrphanStops, shared
  <2> QED
    BY <1>4, <2>1, <2>2, <2>3, <2>4, <2>5, <2>6, <2>7, <2>8, <2>9, <2>10, <2>11, <2>12
       DEF Alone
<1>5. CASE PowerCut
  BY <1>5 DEF PowerCut, Die
<1>6. CASE UNCHANGED vars
  BY <1>6 DEF vars, shared
<1> QED BY <1>1, <1>2, <1>3, <1>4, <1>5, <1>6 DEF Next, Alone

\* Every action keeps what the directory holds usable.
LEMMA RuntimeStep == RuntimeIsUsable /\ [Next]_vars => RuntimeIsUsable'
  BY TreesStep, InstallVerifies DEF Trees, RuntimeIsUsable

-----------------------------------------------------------------------------
(* What LinuxImage sees *)

Held == \E e \in Engines : Holding(e)

\* The steps of an operation that hold the image.
HoldsAt(j) ==
    \/ j.kind \in Launching /\ j.pc \in {"start", "adopt", "control", "publish"}
    \/ j.kind = "prepare" /\ j.pc \in {"account", "spawn", "own", "build", "ready", "error"}

\* The holder and the writers, as the owner of the mutex knows them.
HeldFacts ==
    /\ \A e \in Engines, t \in Slots : Claim(job[e][t]) => (Held <=> HoldsAt(job[e][t]))
    /\ \A e \in Engines : Attached(e) => (Held <=> sess[e].pc = "live")
    /\ lock = {} => ~Held /\ Writers = orphans
    /\ \A e \in Engines : Holding(e) => lock = {e}
    /\ \A e \in Engines : lock = {e} =>
         Writers = orphans \union (IF proc[e] \in {"builder", "desktop"} THEN {e} ELSE {})
    /\ \A x, y \in Writers : x = y
    /\ Writers \subseteq Engines
    /\ disk \notin {"dirty"} => Writers = {}

\* The invariant says who holds the image and who has it open.
LEMMA HeldByOwner == Types /\ OwnerInv => HeldFacts
<1> SUFFICES ASSUME Types, OwnerInv PROVE HeldFacts
  OBVIOUS
<1>0. \A x \in Engines, s \in Slots : job[x][s] \in Job
  BY DEF Types, Jobs
<1>1. \A x \in Engines : Holding(x) <=>
        sess[x].pc = "live" \/ \E s \in Slots : HoldsAt(job[x][s])
  BY DEF Holding, HoldsAt
<1>2. \A x \in Engines, s \in Slots : HoldsAt(job[x][s]) => Claim(job[x][s])
  BY DEF HoldsAt, Claim, Launching
<1>3. \A x \in Engines : Holding(x) => lock = {x}
  BY <1>1, <1>2 DEF OwnerInv, Ownership, Attached
<1>4. ASSUME NEW e \in Engines, NEW t \in Slots, Claim(job[e][t])
      PROVE  Held <=> HoldsAt(job[e][t])
  <2>1. lock = {e} /\ ~Attached(e) /\ \A s \in Slots : s # t => ~Claim(job[e][s])
    BY <1>4 DEF OwnerInv, Ownership
  <2>2. Holding(e) <=> HoldsAt(job[e][t])
    BY <1>1, <1>2, <2>1 DEF Attached
  <2> QED BY <1>3, <2>1, <2>2 DEF Held
<1>5. ASSUME NEW e \in Engines, Attached(e) PROVE Held <=> sess[e].pc = "live"
  <2>1. lock = {e} /\ \A s \in Slots : ~Claim(job[e][s])
    BY <1>5 DEF OwnerInv, Ownership
  <2> QED BY <1>1, <1>2, <1>3, <2>1 DEF Held
<1>6. \A x \in Engines : proc[x] # "none" => lock = {x}
  BY DEF OwnerInv, Runs
<1>7. \A e \in Engines : lock = {e} =>
        Writers = orphans \union (IF proc[e] \in {"builder", "desktop"} THEN {e} ELSE {})
  BY <1>6 DEF Writers
<1>8. lock = {} => ~Held /\ Writers = orphans
  BY <1>3, <1>6 DEF Writers, Held
<1>9. \A x \in Engines : proc[x] \in {"builder", "desktop"} => orphans = {} /\ disk = "dirty"
  BY DEF OwnerInv, Runs
<1>10. /\ \A x, y \in orphans : x = y
       /\ orphans \subseteq Engines
       /\ orphans # {} => disk = "dirty"
  BY DEF OwnerInv, Shared
<1>11. \A x, y \in Writers : x = y
  BY <1>6, <1>9, <1>10 DEF Writers
<1>12. Writers \subseteq Engines /\ (disk \notin {"dirty"} => Writers = {})
  BY <1>9, <1>10 DEF Writers
<1> QED BY <1>3, <1>4, <1>5, <1>7, <1>8, <1>11, <1>12 DEF HeldFacts

\* Whatever changes neither the sessions' nor the operations' places changes no holder.
LEMMA HeldSame ==
    ASSUME \A x \in Engines : sess'[x].pc = sess[x].pc,
           \A x \in Engines, s \in Slots : HoldsAt(job'[x][s]) <=> HoldsAt(job[x][s])
    PROVE  Held' <=> Held
<1>1. \A x \in Engines : Holding(x) <=>
        sess[x].pc = "live" \/ \E s \in Slots : HoldsAt(job[x][s])
  BY DEF Holding, HoldsAt
<1>2. \A x \in Engines : Holding(x)' <=>
        sess'[x].pc = "live" \/ \E s \in Slots : HoldsAt(job'[x][s])
  BY DEF Holding, HoldsAt
<1>3. Held' <=> \E x \in Engines : Holding(x)'
  BY DEF Held
<1> QED BY <1>1, <1>2, <1>3 DEF Held

\* The stages of the image, before and after a step.
LEMMA Stages ==
    /\ Stage = IF disk = "none" THEN "absent"
               ELSE IF disk = "native" THEN "native"
               ELSE IF file \in Launchable THEN "offered"
               ELSE IF Held THEN "held" ELSE "unfit"
    /\ Stage' = IF disk' = "none" THEN "absent"
                ELSE IF disk' = "native" THEN "native"
                ELSE IF file' \in Launchable THEN "offered"
                ELSE IF Held' THEN "held" ELSE "unfit"
  BY DEF Stage, Held

\* LinuxImage's steps, in terms of the mapping.
Stutters == Stage' = Stage /\ (disk' = "clean" <=> disk = "clean") /\ Writers' = Writers
Creates  == Stage = "absent" /\ Stage' \in {"held", "native"} /\ disk' # "clean"
            /\ Writers' = Writers
Takes    == Stage = "offered" /\ disk = "clean" /\ Writers = {} /\ Stage' = "held"
            /\ disk' = "clean" /\ Writers' = {}
Opens(p) == Stage = "held" /\ Writers = {} /\ Writers' = {p} /\ disk' # "clean"
            /\ Stage' = "held"
Leaves(p) == p \in Writers /\ Writers' = Writers \ {p} /\ Stage' = Stage
Offers   == Stage = "held" /\ disk = "clean" /\ Writers = {} /\ Stage' = "offered"
            /\ disk' = "clean" /\ Writers' = {}
Drops    == Stage = "held" /\ Stage' = "unfit" /\ Writers' \subseteq Writers
            /\ (disk' = "clean" <=> disk = "clean")
Removes  == Stage # "held" /\ Writers = {} /\ Writers' = {}
            /\ \/ Stage' = "absent" /\ disk' # "clean"
               \/ Stage = "offered" /\ Stage' = "unfit" /\ (disk' = "clean" <=> disk = "clean")

Mapped ==
    \/ Stutters \/ Creates \/ Takes \/ Offers \/ Drops \/ Removes
    \/ \E p \in Engines : Opens(p) \/ Leaves(p)

\* They are LinuxImage's steps under the mapping of VmLifecycle.
LEMMA MappedStep == Mapped => [Image!Next]_(Image!vars)
<1>1. Stutters => UNCHANGED Image!vars
  BY Zenon DEF Stutters, Image!vars
<1>2. Creates => Image!Create
  BY Zenon DEF Creates, Image!Create
<1>3. Takes => Image!Take
  BY Zenon DEF Takes, Image!Take
<1>4. \A p \in Engines : Opens(p) => Image!Open(p)
  BY Zenon DEF Opens, Image!Open
<1>5. \A p \in Engines : Leaves(p) => Image!Leave(p)
  BY Zenon DEF Leaves, Image!Leave
<1>6. Offers => Image!Offer
  BY Zenon DEF Offers, Image!Offer
<1>7. Drops => Image!Drop
  <2> SUFFICES ASSUME Drops PROVE Image!Drop
    OBVIOUS
  <2>1. Writers \ Writers' \in SUBSET Writers /\ Writers' = Writers \ (Writers \ Writers')
    BY DEF Drops
  <2>2. \E left \in SUBSET Writers : Writers' = Writers \ left
    BY <2>1
  <2> QED BY <2>2, Zenon DEF Drops, Image!Drop
<1>8. Removes => Image!Remove
  BY Zenon DEF Removes, Image!Remove
<1> QED BY <1>1, <1>2, <1>3, <1>4, <1>5, <1>6, <1>7, <1>8, Zenon DEF Mapped, Image!Next

\* A step that LinuxImage does not see.
Quiet ==
    /\ UNCHANGED <<disk, file, proc, orphans>>
    /\ \A x \in Engines : sess'[x].pc = sess[x].pc
    /\ \A x \in Engines, s \in Slots : HoldsAt(job'[x][s]) <=> HoldsAt(job[x][s])

\* It changes none of the mapped variables.
LEMMA QuietMapped == ASSUME Quiet PROVE Mapped
<1>1. Held' <=> Held
  BY HeldSame DEF Quiet
<1>2. Stutters
  BY <1>1, Stages DEF Quiet, Writers, Stutters
<1> QED BY <1>2 DEF Mapped

\* An idle slot holds nothing.
LEMMA FreeHolds == ~HoldsAt(Free)
  BY FreeJob DEF HoldsAt, Launching

\* A cancel is not seen.
LEMMA CancelledMapped ==
    ASSUME Types, NEW e \in Engines, vmCancel[e] # 0, Cancelled(e),
           UNCHANGED <<shared, proc, sess, orphans>>
    PROVE  Mapped
<1>1. /\ vmCancel[e] \in Slots
      /\ Turn(e, vmCancel[e], job[e][vmCancel[e]].kind, job[e][vmCancel[e]].pc)
  BY CancelledTurns DEF Types
<1>2. Quiet
  BY <1>1 DEF Quiet, shared, Turn, HoldsAt
<1> QED BY <1>2, QuietMapped

\* A request to stop leaves the session its image.
LEMMA StopMapped ==
    ASSUME Types, Types', OwnerInv, OwnerInv', NEW e \in Engines,
           \E asked \in BOOLEAN : stop(e, asked),
           UNCHANGED <<lock, disk, job, proc, orphans>>
    PROVE  Mapped
<1>1. PICK asked \in BOOLEAN : stop(e, asked)
  OBVIOUS
<1>2. sess[e].pc = "live" /\ \A x \in Engines : sess'[x].pc = sess[x].pc
  BY <1>1, StopSession DEF stop, Types
<1>3. Held' <=> Held
  BY <1>2, HeldSame
<1>4. file \in {"running", "stopping"} /\ file' \in {"running", "stopping"}
  BY <1>2 DEF OwnerInv, Follows
<1>5. Stutters
  BY <1>3, <1>4, Stages DEF Stutters, Writers, Launchable
<1> QED BY <1>5 DEF Mapped

\* Whoever ends a QEMU that has the image open leaves it.
LEMMA ExitMapped ==
    ASSUME Types, OwnerInv, NEW e \in Engines, proc[e] \in {"builder", "desktop"},
           \/ disk' = "clean" /\ proc' = [proc EXCEPT ![e] = "clean"]
           \/ disk' = disk /\ proc' = [proc EXCEPT ![e] = "gone"],
           UNCHANGED <<file, job, orphans>>,
           \A x \in Engines : sess'[x].pc = sess[x].pc
    PROVE  Mapped
<1>1. disk = "dirty" /\ orphans = {}
  BY DEF OwnerInv, Runs
<1>2. Held' <=> Held
  BY HeldSame
<1>3. e \in Writers /\ Writers' = Writers \ {e}
  BY <1>1 DEF Writers, Types
<1>4. Leaves(e)
  BY <1>1, <1>2, <1>3, Stages DEF Leaves
<1> QED BY <1>4 DEF Mapped

\* A force leaves the image, or nothing happens to it.
LEMMA ForcedMapped ==
    ASSUME Types, OwnerInv, NEW e \in Engines, Forced(e),
           UNCHANGED <<shared, job, orphans>>
    PROVE  Mapped
<1>1. /\ \A x \in Engines : sess'[x].pc = sess[x].pc
      /\ proc' = IF sess[e].pc = "live" /\ proc[e] = "desktop"
                 THEN [proc EXCEPT ![e] = "gone"] ELSE proc
  BY ForcedSession DEF Types
<1>2. CASE sess[e].pc = "live" /\ proc[e] = "desktop"
  BY <1>1, <1>2, ExitMapped DEF shared
<1>3. CASE ~(sess[e].pc = "live" /\ proc[e] = "desktop")
  <2>1. Quiet
    BY <1>1, <1>3 DEF Quiet, shared
  <2> QED BY <2>1, QuietMapped
<1> QED BY <1>2, <1>3

\* A dying engine drops what it holds; its QEMU still has the image open.
LEMMA DieMapped ==
    ASSUME Types, Types', OwnerInv, OwnerInv', NEW e \in Engines, Die({e}),
           orphans' = orphans \union Left(e)
    PROVE  Mapped
<1>0. HeldFacts /\ HeldFacts'
  BY HeldByOwner, PTL
<1>1. /\ proc'[e] = "none" /\ sess'[e] = NoSession
      /\ \A x \in Engines : x # e => proc'[x] = proc[x] /\ sess'[x] = sess[x]
      /\ lock' = lock \ {e} /\ UNCHANGED <<disk, file>>
  BY DieSession DEF Die, Types, Abandon
<1>2. \A x \in Engines, s \in Slots : job'[x][s] = IF x = e THEN Free ELSE job[x][s]
  BY DieTurns DEF Types
<1>3. Writers' = Writers
  BY <1>1 DEF Writers, Left
<1>4. \A x \in Engines : Holding(x)' <=> x # e /\ Holding(x)
  <2>1. ~Holding(e)'
    BY <1>1, <1>2, FreeJob DEF Holding, NoSession, Launching
  <2>2. \A x \in Engines : x # e => (Holding(x)' <=> Holding(x))
    BY <1>1, <1>2 DEF Holding
  <2> QED BY <2>1, <2>2
<1>5. Held' <=> Held /\ ~Holding(e)
  <2>1. Held' <=> \E x \in Engines : Holding(x)'
    BY DEF Held
  <2>2. \A x \in Engines : Holding(x) => lock = {x}
    BY <1>0 DEF HeldFacts
  <2> QED BY <1>4, <2>1, <2>2 DEF Held
<1>6. Stutters \/ Drops
  BY <1>1, <1>3, <1>5, Stages DEF Stutters, Drops
<1> QED BY <1>6 DEF Mapped

\* Every action is a step of LinuxImage or none.
LEMMA MappedNext ==
    ASSUME Readable, Types, Types', OwnerInv, OwnerInv', [Next]_vars PROVE Mapped
<1>0. HeldFacts /\ HeldFacts'
  BY HeldByOwner, PTL
<1>a. /\ job \in Jobs /\ job' \in Jobs /\ sess \in Sessions
      /\ proc \in [Engines -> {"none", "suspended", "builder", "desktop", "clean", "gone"}]
  BY DEF Types
<1>b. ASSUME NEW e \in Engines
      PROVE  /\ Follows(e) /\ Runs(e) /\ Shared
             /\ \A t \in Slots : Knows(e, job[e][t])
  BY DEF OwnerInv
<1>c. ASSUME NEW e \in Engines, NEW t \in Slots, Claim(job[e][t])
      PROVE  /\ lock = {e} /\ ~Attached(e) /\ (Held <=> HoldsAt(job[e][t]))
             /\ Writers = orphans \union (IF proc[e] \in {"builder", "desktop"} THEN {e} ELSE {})
  BY <1>0, <1>c DEF HeldFacts, OwnerInv, Ownership
<1>d. ASSUME NEW e \in Engines, NEW t \in Slots, Claim(job'[e][t])
      PROVE  /\ lock' = {e} /\ (Held' <=> HoldsAt(job'[e][t]))
             /\ Writers' = orphans' \union
                           (IF proc'[e] \in {"builder", "desktop"} THEN {e} ELSE {})
  BY <1>0, <1>d DEF HeldFacts, OwnerInv, Ownership, Claim, HoldsAt
<1>e. ASSUME NEW e \in Engines
      PROVE  /\ Attached(e) =>
                  /\ lock = {e} /\ (Held <=> sess[e].pc = "live")
                  /\ Writers = orphans \union
                               (IF proc[e] \in {"builder", "desktop"} THEN {e} ELSE {})
             /\ sess'[e].pc \in {"live", "release"} =>
                  /\ lock' = {e} /\ (Held' <=> sess'[e].pc = "live")
                  /\ Writers' = orphans' \union
                                (IF proc'[e] \in {"builder", "desktop"} THEN {e} ELSE {})
  BY <1>0 DEF HeldFacts, OwnerInv, Ownership, Attached
<1>f. /\ disk # "dirty" => Writers = {}
      /\ disk' # "dirty" => Writers' = {}
      /\ lock' = {} => ~Held' /\ Writers' = orphans'
  BY <1>0 DEF HeldFacts
<1> USE <1>a DEF Stutters, Creates, Takes, Opens, Leaves, Offers, Drops, Removes, Quiet,
    HoldsAt, Knows, Follows, Runs, Shared, NativeApart, Claim, Attached, Launchable
<1>1. ASSUME NEW e \in Engines, NEW t \in Slots, Call(e, t) PROVE Mapped
  <2>0. Follows(e) /\ Runs(e) /\ Shared /\ Knows(e, job[e][t])
    BY <1>b
  <2>a. /\ Claim(job[e][t]) =>
             /\ lock = {e} /\ ~Attached(e) /\ (Held <=> HoldsAt(job[e][t]))
             /\ Writers = orphans \union
                          (IF proc[e] \in {"builder", "desktop"} THEN {e} ELSE {})
        /\ Claim(job'[e][t]) =>
             /\ lock' = {e} /\ (Held' <=> HoldsAt(job'[e][t]))
             /\ Writers' = orphans' \union
                           (IF proc'[e] \in {"builder", "desktop"} THEN {e} ELSE {})
        /\ sess'[e].pc \in {"live", "release"} =>
             /\ Held' <=> sess'[e].pc = "live"
             /\ Writers' = orphans' \union
                           (IF proc'[e] \in {"builder", "desktop"} THEN {e} ELSE {})
        /\ lock' = {} => ~Held' /\ Writers' = orphans'
        /\ disk # "dirty" => Writers = {}
        /\ disk' # "dirty" => Writers' = {}
    BY <1>c, <1>d, <1>e, <1>f
  <2>1. CASE InstallVMRuntime(e, t)
    <3>1. Turn(e, t, "runtime", "download")
      BY <2>1, AdmitTurns DEF InstallVMRuntime, Fits, Launching
    <3>2. Quiet
      BY <2>1, <3>1, FreeHolds DEF InstallVMRuntime, Callable, Turn
    <3> QED BY <3>2, QuietMapped
  <2>2. CASE PrepareVM(e, t)
    <3>1. CASE lock' = lock /\ job' = job
      <4>1. Quiet
        BY <2>2, <3>1 DEF PrepareVM
      <4> QED BY <4>1, QuietMapped
    <3>2. CASE Admit(e, t, "prepare", "record")
      <4>1. Turn(e, t, "prepare", "record")
        BY <3>2, AdmitTurns DEF Fits
      <4>2. Quiet
        BY <2>2, <4>1, FreeHolds DEF PrepareVM, Callable, Turn
      <4> QED BY <4>2, QuietMapped
    <3> QED BY <2>2, <3>1, <3>2, Zenon DEF PrepareVM
  <2>3. CASE BootInVM(e, t)
    <3>1. Turn(e, t, "boot", "lock")
      BY <2>3, AdmitTurns DEF BootInVM, Fits
    <3>2. Quiet
      BY <2>3, <3>1, FreeHolds DEF BootInVM, Callable, engineRest, Turn
    <3> QED BY <3>2, QuietMapped
  <2>4. CASE NativeInstall(e, t)
    <3>1. Turn(e, t, "native", "deploy")
      BY <2>4, AdmitTurns DEF NativeInstall, Fits, Launching
    <3>2. Quiet
      BY <2>4, <3>1, FreeHolds DEF NativeInstall, Callable, engineRest, Turn
    <3> QED BY <3>2, QuietMapped
  <2>5. CASE Uninstall(e, t)
    <3>1. Turn(e, t, "uninstall", "remove")
      BY <2>5, AdmitTurns DEF Uninstall, Fits, Launching
    <3>2. Quiet
      BY <2>5, <3>1, FreeHolds DEF Uninstall, Callable, Turn
    <3> QED BY <3>2, QuietMapped
  <2> QED
    BY <1>1, <2>1, <2>2, <2>3, <2>4, <2>5 DEF Call
<1>2. ASSUME NEW e \in Engines, NEW t \in Slots, Step(e, t) PROVE Mapped
  <2>0. Follows(e) /\ Runs(e) /\ Shared /\ Knows(e, job[e][t])
    BY <1>b
  <2>a. /\ Claim(job[e][t]) =>
             /\ lock = {e} /\ ~Attached(e) /\ (Held <=> HoldsAt(job[e][t]))
             /\ Writers = orphans \union
                          (IF proc[e] \in {"builder", "desktop"} THEN {e} ELSE {})
        /\ Claim(job'[e][t]) =>
             /\ lock' = {e} /\ (Held' <=> HoldsAt(job'[e][t]))
             /\ Writers' = orphans' \union
                           (IF proc'[e] \in {"builder", "desktop"} THEN {e} ELSE {})
        /\ sess'[e].pc \in {"live", "release"} =>
             /\ Held' <=> sess'[e].pc = "live"
             /\ Writers' = orphans' \union
                           (IF proc'[e] \in {"builder", "desktop"} THEN {e} ELSE {})
        /\ lock' = {} => ~Held' /\ Writers' = orphans'
        /\ disk # "dirty" => Writers = {}
        /\ disk' # "dirty" => Writers' = {}
    BY <1>c, <1>d, <1>e, <1>f
  <2>1. CASE downloadVMRuntime(e, t)
    <3>1. \E p \in {"install", "clear"} : Turn(e, t, "runtime", p)
      BY <2>1, GotoTurns DEF downloadVMRuntime, At, Fits, Launching
    <3>2. Quiet
      BY <2>1, <3>1 DEF downloadVMRuntime, At, engineRest, Turn
    <3> QED BY <3>2, QuietMapped
  <2>2. CASE acquireVMRuntime(e, t)
    <3>1. Turn(e, t, "runtime", "clear")
      BY <2>2, GotoTurns DEF acquireVMRuntime, At, Fits, Launching
    <3>2. Quiet
      BY <2>2, <3>1 DEF acquireVMRuntime, At, engineRest, Turn
    <3> QED BY <3>2, QuietMapped
  <2>3. CASE runtimeReturns(e, t)
    <3>1. Turn(e, t, "runtime", "close")
      BY <2>3, GotoTurns DEF runtimeReturns, At, Fits, Launching
    <3>2. Quiet
      BY <2>3, <3>1 DEF runtimeReturns, At, shared, Turn
    <3> QED BY <3>2, QuietMapped
  <2>4. CASE runtimeCloses(e, t)
    <3>1. Turn(e, t, "none", "idle")
      BY <2>4, LeaveTurns DEF runtimeCloses, At, Fits, Launching, Wrote
    <3>2. Quiet
      BY <2>4, <3>1, FreeHolds DEF runtimeCloses, At, Turn
    <3> QED BY <3>2, QuietMapped
  <2>5. CASE recordPreparing(e, t)
    <3>1. /\ Keeps(e, t)
          /\ \/ file' = "preparing" /\ Turn(e, t, "prepare", "resolve")
             \/ file' = file /\ Turn(e, t, "prepare", "error")
      BY <2>5, GotoTurns DEF recordPreparing, At, Fits, Launching, Wrote, NotWritten
    <3>2. disk = "none" /\ disk' = "none" /\ UNCHANGED <<proc, orphans>>
      BY <2>5, <2>0, <3>1 DEF recordPreparing, At, prepareRest, engineRest, Turn, Keeps
    <3>4. Writers' = Writers
      BY <2>a, <3>2 DEF Writers
    <3>5. Stutters
      BY <3>2, <3>4, Stages
    <3> QED BY <3>5 DEF Mapped
  <2>6. CASE resolveVMImage(e, t)
    <3>1. /\ Keeps(e, t)
          /\ \E p \in {"create", "error"} : Turn(e, t, "prepare", p)
      BY <2>6, GotoTurns DEF resolveVMImage, At, Fits, Launching
    <3>2. disk = "none" /\ disk' = "none" /\ UNCHANGED <<proc, orphans>>
      BY <2>6, <2>0, <3>1 DEF resolveVMImage, At, prepareRest, engineRest, Turn, Keeps
    <3>4. Writers' = Writers
      BY <2>a, <3>2 DEF Writers
    <3>5. Stutters
      BY <3>2, <3>4, Stages
    <3> QED BY <3>5 DEF Mapped
  <2>7. CASE createVMImageFiles(e, t)
    <3>1. /\ Keeps(e, t)
          /\ \/ disk' = "blank" /\ \E p \in {"account", "error"} : Turn(e, t, "prepare", p)
             \/ disk' = disk /\ Turn(e, t, "prepare", "error")
      BY <2>7, GotoTurns DEF createVMImageFiles, At, Fits, Launching
    <3>2. /\ disk = "none" /\ UNCHANGED <<proc, orphans>>
          /\ \/ disk' = "none"
             \/ disk' = "blank" /\ file' = "preparing" /\ job'[e][t].kind = "prepare"
                /\ job'[e][t].pc \in {"account", "error"}
      BY <2>7, <2>0, <3>1 DEF createVMImageFiles, At, prepareRest, engineRest, Turn,
         Keeps
    <3>3. disk' # "none" => Held'
      BY <2>7, <2>a, <3>1, <3>2 DEF createVMImageFiles, At, Turn
    <3>4. Writers' = Writers
      BY <2>a, <3>2, <3>3 DEF Writers
    <3>5. Stutters \/ Creates
      BY <3>2, <3>3, <3>4, Stages
    <3> QED BY <3>5 DEF Mapped
  <2>8. CASE writeVMAccountInput(e, t)
    <3>1. /\ Keeps(e, t)
          /\ \E p \in {"spawn", "error"} : Turn(e, t, "prepare", p)
      BY <2>8, GotoTurns DEF writeVMAccountInput, At, Fits, Launching
    <3>2. Quiet
      BY <2>8, <3>1 DEF writeVMAccountInput, At, prepareRest, engineRest, Turn
    <3> QED BY <3>2, QuietMapped
  <2>9. CASE startBuilder(e, t)
    <3>1. /\ Keeps(e, t)
          /\ \/ proc' = [proc EXCEPT ![e] = "suspended"] /\ Turn(e, t, "prepare", "own")
             \/ proc' = proc /\ Turn(e, t, "prepare", "error")
      BY <2>9, GotoTurns DEF startBuilder, At, Fits, Launching, Spawn
    <3>2. disk = "blank" /\ UNCHANGED <<disk, file>>
      BY <2>9, <2>0, <3>1 DEF startBuilder, At, buildRest, Turn, Keeps
    <3>3. Held /\ Held'
      BY <2>9, <2>a, <3>1, <3>2 DEF startBuilder, At, Turn
    <3>4. Writers = {} /\ Writers' = {}
      BY <2>a, <3>2, <3>3
    <3>5. Stutters
      BY <3>2, <3>3, <3>4, Stages
    <3> QED BY <3>5 DEF Mapped
  <2>10. CASE ownBuilder(e, t)
    <3>1. /\ Keeps(e, t)
          /\ \/ /\ proc' = [proc EXCEPT ![e] = "builder"] /\ disk' = "dirty"
                /\ Turn(e, t, "prepare", "build")
             \/ /\ proc' = [proc EXCEPT ![e] = "none"] /\ disk' = disk
                /\ Turn(e, t, "prepare", "error")
      BY <2>10, GotoTurns DEF ownBuilder, At, Fits, Launching, Killed, ownVMProcess
    <3>2. /\ disk = "blank" /\ file = "preparing" /\ UNCHANGED <<file, lock, orphans>>
          /\ \/ disk' = disk
             \/ disk' = "dirty" /\ proc'[e] = "builder"
      BY <2>10, <2>0, <3>1 DEF ownBuilder, At, buildRest, Turn, Keeps
    <3>3. /\ lock = {e} /\ lock' = {e} /\ Held /\ Held'
          /\ Claim(job[e][t]) /\ Claim(job'[e][t])
      BY <2>10, <2>a, <3>1, <3>2 DEF ownBuilder, At, Turn
    <3>4. /\ Writers = {} /\ orphans = {}
          /\ disk' = disk => Writers' = {}
          /\ disk' # disk => Writers' = {e}
      BY <2>a, <3>2, <3>3
    <3>5. Stutters \/ Opens(e)
      BY <3>2, <3>3, <3>4, Stages
    <3> QED BY <3>5 DEF Mapped
  <2>11. CASE runBuilderVM(e, t)
    <3>1. PICK proven \in BOOLEAN, removed \in BOOLEAN :
               job' = [job EXCEPT ![e][t] = Built(job[e][t], proven, removed)]
      BY <2>11, Zenon DEF runBuilderVM, At
    <3>2. /\ job[e][t].kind = "prepare" /\ job[e][t].pc = "build"
          /\ proc[e] \in {"clean", "gone"} /\ proc'[e] = "none"
          /\ UNCHANGED <<lock, disk, file, orphans>>
      BY <2>11 DEF runBuilderVM, At, Killed, buildRest
    <3>3. Turn(e, t, "prepare", IF proven /\ removed THEN "ready" ELSE "error")
      BY <3>1, <3>2, BuiltTurns
    <3>4. Held /\ Held' /\ Writers = orphans /\ Writers' = orphans'
      BY <2>a, <3>2, <3>3 DEF Turn
    <3>5. Stutters
      BY <3>2, <3>4, Stages
    <3> QED BY <3>5 DEF Mapped
  <2>12. CASE CutBuilder(e, t)
    <3>1. /\ job[e][t].kind = "prepare" /\ job[e][t].pc = "build"
          /\ job' = [job EXCEPT ![e][t].cut = TRUE]
          /\ proc[e] = "builder" /\ proc'[e] = "gone"
          /\ UNCHANGED <<lock, disk, file, orphans>>
      BY <2>12 DEF CutBuilder, At, buildRest
    <3>2. Turn(e, t, "prepare", "build")
      BY <3>1, CutTurns
    <3>3. Held /\ Held' /\ orphans = {} /\ Writers = {e} /\ Writers' = {}
      BY <2>0, <2>a, <3>1, <3>2 DEF Turn
    <3>4. Leaves(e)
      BY <3>1, <3>3, Stages
    <3> QED BY <3>4 DEF Mapped
  <2>13. CASE recordReady(e, t)
    <3>1. /\ Keeps(e, t)
          /\ \/ /\ file' = "ready"
                /\ \E p \in {"launch", "error"} : Turn(e, t, "prepare", p)
             \/ file' = file /\ Turn(e, t, "prepare", "error")
      BY <2>13, GotoTurns DEF recordReady, At, Fits, Launching, Wrote, NotWritten
    <3>2. disk = "clean" /\ disk' = "clean" /\ file = "preparing" /\ Held
      BY <2>13, <2>0, <2>a DEF recordReady, At, prepareRest, engineRest
    <3>3. Writers = {} /\ Writers' = {}
      BY <2>a, <3>2
    <3>4. CASE file' = "ready"
      <4>1. Offers
        BY <3>2, <3>3, <3>4, Stages
      <4> QED BY <4>1 DEF Mapped
    <3>5. CASE file' = file /\ Turn(e, t, "prepare", "error")
      <4>1. Held'
        BY <2>a, <3>5 DEF Turn
      <4>2. Stutters
        BY <3>2, <3>3, <3>5, <4>1, Stages
      <4> QED BY <4>2 DEF Mapped
    <3> QED BY <3>1, <3>4, <3>5
  <2>14. CASE prepareFails(e, t)
    <3>1. Turn(e, t, "prepare", "leave")
      BY <2>14, GotoTurns DEF prepareFails, At, Fits, Launching
    <3>2. /\ disk # "native" /\ UNCHANGED <<disk, proc, orphans>> /\ lock' = lock \ {e}
          /\ file \in Launchable => file' = file
          /\ file \notin Launchable => file' \notin Launchable
      BY <2>14, <2>0, <3>1 DEF prepareFails, At, engineRest, release, writeVMState,
         FailureRecord, Readable, Turn
    <3>3. Held /\ ~Held'
      BY <2>14, <2>a, <3>1, <3>2 DEF prepareFails, At, Turn
    <3>4. Writers' = Writers
      BY <2>a, <3>2, <3>3 DEF Writers
    <3>5. Stutters \/ Drops
      BY <3>2, <3>3, <3>4, Stages
    <3> QED BY <3>5 DEF Mapped
  <2>15. CASE prepareReturns(e, t)
    <3>1. Turn(e, t, "none", "idle")
      BY <2>15, LeaveTurns DEF prepareReturns
    <3>2. Quiet
      BY <2>15, <3>1 DEF prepareReturns, At, shared, Turn
    <3> QED BY <3>2, QuietMapped
  <2>16. CASE bootLocks(e, t)
    <3>1. Turn(e, t, "boot", "launch") \/ Turn(e, t, "none", "idle")
      BY <2>16, GotoTurns, LeaveTurns DEF bootLocks, At, Fits, Launching
    <3>2. Quiet
      BY <2>16, <3>1 DEF bootLocks, At, engineRest, Turn
    <3> QED BY <3>2, QuietMapped
  <2>17. CASE launchManagedDesktop(e, t)
    <3>1. /\ job[e][t].kind \in Launching /\ job[e][t].pc = "launch"
          /\ \/ /\ vmLaunchAllowed(LaunchPhase(job[e][t])) /\ verifyVMDiskReleased
                /\ file' = "starting" /\ lock' = lock
                /\ Turn(e, t, job[e][t].kind, "start") /\ Keeps(e, t)
             \/ file' = file /\ Failed(e, t)
      BY <2>17, GotoTurns, LaunchFailsTurns DEF launchManagedDesktop, At, Fits, Launching,
         Wrote, NotWritten
    <3>2. /\ UNCHANGED <<disk, proc, orphans>>
          /\ \/ /\ file \in Launchable /\ disk \in {"clean", "dirty"} /\ file' = "starting"
                /\ HoldsAt(job'[e][t]) /\ Claim(job'[e][t])
             \/ /\ file' = file /\ job[e][t].kind = "prepare" /\ file = "ready" /\ disk = "clean"
             \/ /\ file' = file /\ job[e][t].kind = "boot" /\ lock' = lock \ {e}
      BY <2>17, <2>0, <3>1 DEF launchManagedDesktop, engineRest, vmLaunchAllowed, LaunchPhase,
         Launching, Failed, Turn
    <3>3. Claim(job[e][t]) /\ ~HoldsAt(job[e][t])
      BY <3>1 DEF Launching
    <3>4. /\ Writers' = Writers
          /\ disk = "clean" => Writers = {}
          /\ file \in Launchable /\ disk \in {"clean", "dirty"} => disk = "clean"
      BY <2>0, <2>a, <3>2 DEF Writers
    <3>5. lock = {e} /\ ~Held /\ (lock' = {} => ~Held')
      BY <2>a, <3>3
    <3>6. \/ /\ file \in Launchable /\ disk \in {"clean", "dirty"} /\ file' = "starting" /\ Held'
          \/ file' = file /\ file = "ready" /\ disk = "clean"
          \/ file' = file /\ ~Held'
      BY <2>a, <3>2, <3>5
    <3>7. Stutters \/ Takes
      BY <3>2, <3>4, <3>5, <3>6, Stages
    <3> QED BY <3>7 DEF Mapped
  <2>18. CASE startManagedVM(e, t)
    <3>1. /\ job[e][t].kind \in Launching /\ job[e][t].pc = "start"
          /\ \/ /\ proc' = [proc EXCEPT ![e] = "suspended"] /\ lock' = lock
                /\ Turn(e, t, job[e][t].kind, "adopt") /\ Keeps(e, t)
             \/ proc' = proc /\ Failed(e, t)
      BY <2>18, GotoTurns, LaunchFailsTurns DEF startManagedVM, At, Fits, Launching, Spawn
    <3>2. /\ disk = "clean" /\ file = "starting" /\ UNCHANGED <<disk, file>>
      BY <2>18, <2>0, <3>1 DEF startManagedVM, At, startRest, Launching, Turn, Keeps
    <3>3. Held
      BY <2>18, <2>a, <3>1, <3>2 DEF startManagedVM, At, Turn, Launching
    <3>4. Writers = {} /\ Writers' = {}
      BY <2>a, <3>2, <3>3
    <3>5. Stutters \/ Drops
      BY <3>2, <3>3, <3>4, Stages
    <3> QED BY <3>5 DEF Mapped
  <2>19. CASE adoptDesktop(e, t)
    <3>1. /\ job[e][t].kind \in Launching /\ job[e][t].pc = "adopt"
          /\ \/ /\ proc' = [proc EXCEPT ![e] = "desktop"] /\ disk' = "dirty"
                /\ file' = file /\ lock' = lock
                /\ Turn(e, t, job[e][t].kind, "control") /\ Keeps(e, t)
             \/ /\ proc' = [proc EXCEPT ![e] = "none"] /\ disk' = disk
                /\ file' \in {file, "needs_recovery"}
                /\ Failed(e, t)
      BY <2>19, GotoTurns, LaunchFailsTurns DEF adoptDesktop, At, Fits, Launching,
         ownVMProcess, Killed,
         writeVMState
    <3>2. /\ disk = "clean" /\ file = "starting" /\ UNCHANGED orphans
          /\ \/ /\ disk' = "dirty" /\ file' = "starting" /\ proc'[e] = "desktop"
                /\ HoldsAt(job'[e][t]) /\ Claim(job'[e][t])
             \/ disk' = "clean" /\ file' \in {"starting", "needs_recovery"}
      BY <2>19, <2>0, <3>1 DEF adoptDesktop, At, startRest, Launching, Turn, Keeps
    <3>3. /\ lock = {e} /\ Held /\ Claim(job[e][t])
          /\ disk' = "dirty" => lock' = {e} /\ Held' /\ Claim(job'[e][t])
      BY <2>19, <2>a, <3>1, <3>2 DEF adoptDesktop, At, Turn, Launching
    <3>4. /\ Writers = {} /\ orphans = {}
          /\ disk' = "clean" => Writers' = {}
          /\ disk' = "dirty" => Writers' = {e}
      BY <2>a, <3>2, <3>3
    <3>5. Stutters \/ Opens(e) \/ Drops
      BY <3>2, <3>3, <3>4, Stages
    <3> QED BY <3>5 DEF Mapped
  <2>20. CASE connectControl(e, t)
    <3>1. /\ job[e][t].kind \in Launching /\ job[e][t].pc = "control"
          /\ \/ /\ proc' = proc /\ file' = file /\ lock' = lock
                /\ Turn(e, t, job[e][t].kind, "publish") /\ Keeps(e, t)
             \/ /\ proc' = [proc EXCEPT ![e] = "none"]
                /\ file' \in {file, "needs_recovery"}
                /\ Failed(e, t)
      BY <2>20, GotoTurns, LaunchFailsTurns DEF connectControl, At, Fits, Launching, Killed,
         writeVMState
    <3>2. /\ disk \in {"clean", "dirty"} /\ file = "starting" /\ UNCHANGED <<disk, orphans>>
          /\ proc[e] \in {"builder", "desktop"} => orphans = {}
          /\ HoldsAt(job[e][t]) /\ Claim(job[e][t])
      BY <2>20, <2>0, <3>1 DEF connectControl, startRest, Launching
    <3>3. CASE proc' = proc /\ file' = file /\ HoldsAt(job'[e][t]) /\ Claim(job'[e][t])
      <4>1. Held /\ Held' /\ Writers' = Writers
        BY <2>a, <3>2, <3>3 DEF Writers
      <4>2. Stutters
        BY <3>2, <3>3, <4>1, Stages
      <4> QED BY <4>2 DEF Mapped
    <3>4. CASE Failed(e, t) /\ file' \in {file, "needs_recovery"}
               /\ proc' = [proc EXCEPT ![e] = "none"]
      <4>1. /\ proc'[e] = "none" /\ file' \in {"starting", "needs_recovery"}
            /\ Claim(job'[e][t]) \/ lock' = lock \ {e}
        BY <3>1, <3>2, <3>4 DEF Launching, Failed, Turn
      <4>a. /\ Held /\ lock = {e}
            /\ Writers = orphans \union (IF proc[e] \in {"builder", "desktop"} THEN {e} ELSE {})
        BY <2>a, <3>2
      <4>b. Writers' = orphans'
        BY <2>a, <4>1, <4>a
      <4>2. Held /\ (Writers' = Writers \/ (e \in Writers /\ Writers' = Writers \ {e}))
        <5>1. CASE proc[e] \in {"builder", "desktop"}
          <6>1. Writers = {e} /\ Writers' = {}
            BY <3>2, <4>a, <4>b, <5>1
          <6> QED BY <4>a, <6>1
        <5>2. CASE proc[e] \notin {"builder", "desktop"}
          <6>1. Writers = orphans
            BY <4>a, <5>2
          <6>2. Writers' = Writers
            BY <3>2, <4>b, <6>1
          <6> QED BY <4>a, <6>2
        <5> QED BY <5>1, <5>2
      <4>3. Stutters \/ Leaves(e) \/ Drops
        BY <3>2, <4>1, <4>2, Stages
      <4> QED BY <4>3 DEF Mapped
    <3> QED BY <3>1, <3>3, <3>4 DEF Launching, Turn
  <2>21. CASE publishRunning(e, t)
    <3>1. /\ job[e][t].kind \in Launching /\ job[e][t].pc = "publish"
          /\ \/ /\ file' = "running" /\ proc' = proc /\ lock' = lock
                /\ sess' = [sess EXCEPT ![e] = [pc |-> "live", phase |-> "running", forced |-> FALSE]]
                /\ \/ Turn(e, t, "none", "idle")
                   \/ Turn(e, t, "prepare", "leave")
             \/ /\ file' = file /\ proc' = [proc EXCEPT ![e] = "none"] /\ sess' = sess
                /\ Failed(e, t)
      BY <2>21, GotoTurns, LeaveTurns, LaunchFailsTurns DEF publishRunning, At, Fits,
         Launching,
         Wrote, NotWritten, Killed
    <3>2. /\ disk \in {"clean", "dirty"} /\ file = "starting" /\ UNCHANGED <<disk, orphans>>
          /\ proc[e] \in {"builder", "desktop"} => orphans = {}
          /\ HoldsAt(job[e][t]) /\ Claim(job[e][t])
      BY <2>21, <2>0, <3>1 DEF publishRunning, startRest, Launching
    <3>3. CASE ~(sess' = sess /\ Failed(e, t))
      <4>1. sess'[e].pc = "live" /\ file' = "running" /\ proc' = proc
        BY <3>1, <3>3, PublishSession
      <4>2. Held /\ Held' /\ Writers' = Writers
        BY <2>a, <3>2, <4>1 DEF Writers
      <4>3. Stutters
        BY <3>2, <4>1, <4>2, Stages
      <4> QED BY <4>3 DEF Mapped
    <3>4. CASE Failed(e, t) /\ file' = file /\ proc' = [proc EXCEPT ![e] = "none"]
      <4>1. /\ proc'[e] = "none" /\ file' \in {"starting", "needs_recovery"}
            /\ Claim(job'[e][t]) \/ lock' = lock \ {e}
        BY <3>1, <3>2, <3>4 DEF Launching, Failed, Turn
      <4>a. /\ Held /\ lock = {e}
            /\ Writers = orphans \union (IF proc[e] \in {"builder", "desktop"} THEN {e} ELSE {})
        BY <2>a, <3>2
      <4>b. Writers' = orphans'
        BY <2>a, <4>1, <4>a
      <4>2. Held /\ (Writers' = Writers \/ (e \in Writers /\ Writers' = Writers \ {e}))
        <5>1. CASE proc[e] \in {"builder", "desktop"}
          <6>1. Writers = {e} /\ Writers' = {}
            BY <3>2, <4>a, <4>b, <5>1
          <6> QED BY <4>a, <6>1
        <5>2. CASE proc[e] \notin {"builder", "desktop"}
          <6>1. Writers = orphans
            BY <4>a, <5>2
          <6>2. Writers' = Writers
            BY <3>2, <4>b, <6>1
          <6> QED BY <4>a, <6>2
        <5> QED BY <5>1, <5>2
      <4>3. Stutters \/ Leaves(e) \/ Drops
        BY <3>2, <4>1, <4>2, Stages
      <4> QED BY <4>3 DEF Mapped
    <3>5. Failed(e, t) /\ sess' = sess => file' = file /\ proc' = [proc EXCEPT ![e] = "none"]
      <4>1. ~Attached(e)
        BY <2>a, <3>2
      <4> QED BY <3>1, <4>1, PublishSession
    <3> QED BY <3>3, <3>4, <3>5
  <2>22. CASE createRootDisk(e, t)
    <3>1. Turn(e, t, "none", "idle")
      BY <2>22, LeaveTurns DEF createRootDisk, At, Fits, Launching
    <3>2. disk = "none" /\ disk' \in {"none", "native"} /\ UNCHANGED <<proc, orphans>>
      BY <2>22, <2>0, <3>1 DEF createRootDisk, At, engineRest, Turn
    <3>4. Writers' = Writers
      BY <2>a, <3>2 DEF Writers
    <3>5. Stutters \/ Creates
      BY <3>2, <3>4, Stages
    <3> QED BY <3>5 DEF Mapped
  <2>23. CASE RemoveFolder(e, t)
    <3>1. Turn(e, t, "none", "idle")
      BY <2>23, LeaveTurns DEF RemoveFolder, At, Fits, Launching
    <3>2. /\ disk' \in {disk, "none"} /\ file' \in {file, "none"} /\ lock' = lock \ {e}
          /\ proc[e] = "none" /\ orphans = {} /\ orphans' = {}
      BY <2>23, <2>0, <3>1 DEF RemoveFolder, At, engineRest, release, Turn
    <3>3. lock = {e} /\ lock' = {} /\ ~Held /\ ~Held' /\ Claim(job[e][t])
      BY <2>23, <2>a, <3>1, <3>2 DEF RemoveFolder, At, Turn
    <3>4. Writers = {} /\ Writers' = {}
      BY <2>a, <3>2, <3>3
    <3>5. Stutters \/ Removes
      BY <3>2, <3>3, <3>4, Stages
    <3> QED BY <3>5 DEF Mapped
  <2> QED
    BY <1>2, <2>1, <2>2, <2>3, <2>4, <2>5, <2>6, <2>7, <2>8, <2>9, <2>10, <2>11,
       <2>12, <2>13, <2>14, <2>15, <2>16, <2>17, <2>18, <2>19, <2>20, <2>21, <2>22,
       <2>23 DEF Step
<1>3. ASSUME NEW e \in Engines, Closing(e) PROVE Mapped
  <2>0. Follows(e) /\ Runs(e) /\ Shared
    BY <1>b
  <2>a. /\ Attached(e) =>
             /\ lock = {e} /\ (Held <=> sess[e].pc = "live")
             /\ Writers = orphans \union
                          (IF proc[e] \in {"builder", "desktop"} THEN {e} ELSE {})
        /\ sess'[e].pc \in {"live", "release"} =>
             /\ lock' = {e} /\ (Held' <=> sess'[e].pc = "live")
             /\ Writers' = orphans' \union
                           (IF proc'[e] \in {"builder", "desktop"} THEN {e} ELSE {})
        /\ lock' = {} => ~Held' /\ Writers' = orphans'
        /\ disk # "dirty" => Writers = {}
        /\ disk' # "dirty" => Writers' = {}
    BY <1>e, <1>f
  <2>1. CASE closeStops(e)
    <3>1. UNCHANGED <<lock, disk, job, proc, orphans>>
      BY <2>1 DEF closeStops, closeRest
    <3>2. CASE UNCHANGED <<sess, file>>
      <4>1. Quiet
        BY <3>1, <3>2
      <4> QED BY <4>1, QuietMapped
    <3>3. CASE \E asked \in BOOLEAN : stop(e, asked)
      BY <3>1, <3>3, StopMapped
    <3> QED BY <2>1, <3>2, <3>3 DEF closeStops
  <2>2. CASE closeForces(e)
    BY <2>2, ForcedMapped DEF closeForces, closeRest, shared
  <2>3. CASE EngineExits(e)
    BY <2>3, DieMapped DEF EngineExits
  <2> QED
    BY <1>3, <2>1, <2>2, <2>3 DEF Closing
<1>4. ASSUME NEW e \in Engines, Alone(e) PROVE Mapped
  <2>0. Follows(e) /\ Runs(e) /\ Shared
    BY <1>b
  <2>a. /\ Attached(e) =>
             /\ lock = {e} /\ (Held <=> sess[e].pc = "live")
             /\ Writers = orphans \union
                          (IF proc[e] \in {"builder", "desktop"} THEN {e} ELSE {})
        /\ sess'[e].pc \in {"live", "release"} =>
             /\ lock' = {e} /\ (Held' <=> sess'[e].pc = "live")
             /\ Writers' = orphans' \union
                           (IF proc'[e] \in {"builder", "desktop"} THEN {e} ELSE {})
        /\ lock' = {} => ~Held' /\ Writers' = orphans'
        /\ disk # "dirty" => Writers = {}
        /\ disk' # "dirty" => Writers' = {}
    BY <1>e, <1>f
  <2>1. CASE GetVMState(e)
    <3>1. Quiet
      BY <2>1 DEF GetVMState, engine
    <3> QED BY <3>1, QuietMapped
  <2>2. CASE StopVM(e)
    <3>1. PICK asked \in BOOLEAN : stop(e, asked)
      BY <2>2 DEF StopVM
    <3>2. UNCHANGED <<lock, disk, job, proc, orphans>>
      BY <2>2 DEF StopVM
    <3> QED BY <3>1, <3>2, StopMapped
  <2>3. CASE ForceStopVM(e)
    <3>1. CASE vmCancel[e] # 0
      BY <2>3, <3>1, CancelledMapped DEF ForceStopVM, shared
    <3>2. CASE vmCancel[e] = 0
      BY <2>3, <3>2, ForcedMapped DEF ForceStopVM, shared
    <3> QED BY <3>1, <3>2
  <2>4. CASE forceJoined(e)
    BY <2>4, ForcedMapped DEF forceJoined, shared
  <2>5. CASE shutdownVM(e)
    <3>1. CASE vmCancel[e] # 0
      BY <2>5, <3>1, CancelledMapped DEF shutdownVM, closeRest, shared
    <3>2. CASE vmCancel[e] = 0
      <4>1. Quiet
        BY <2>5, <3>2 DEF shutdownVM, closeRest, shared
      <4> QED BY <4>1, QuietMapped
    <3> QED BY <3>1, <3>2
  <2>6. CASE BuilderExits(e)
    BY <2>6, ExitMapped DEF BuilderExits, buildRest
  <2>7. CASE GuestExits(e)
    BY <2>7, ExitMapped DEF GuestExits, startRest
  <2>8. CASE wait(e)
    <3>1. sess'[e].pc = "release"
      BY <2>8, WaitSession
    <3>2. /\ sess[e].pc = "live" /\ proc[e] \in {"clean", "gone"}
          /\ proc' = [proc EXCEPT ![e] = "none"] /\ UNCHANGED <<lock, disk, orphans>>
          /\ file' \in {file, "needs_recovery"} \union (IF proc[e] = "clean" THEN {"stopped"} ELSE {})
      BY <2>8 DEF wait, StopVerdict, Killed, startRest
    <3>3. /\ disk \in {"clean", "dirty"} /\ file \in {"running", "stopping"} /\ proc'[e] = "none"
          /\ proc[e] = "clean" => disk = "clean"
      BY <2>0, <3>2
    <3>4. Held /\ ~Held' /\ Writers = orphans /\ Writers' = orphans /\ (disk = "clean" => Writers = {})
      BY <2>a, <3>1, <3>2, <3>3
    <3>5. Drops \/ Offers
      BY <3>2, <3>3, <3>4, Stages
    <3> QED BY <3>5 DEF Mapped
  <2>9. CASE waitReturns(e)
    <3>1. sess[e].pc = "release" /\ lock' = lock \ {e} /\ UNCHANGED <<disk, file, proc, orphans>>
      BY <2>9 DEF waitReturns, release
    <3>2. lock = {e} /\ lock' = {} /\ ~Held /\ ~Held'
      BY <2>a, <3>1
    <3>3. Stutters
      BY <3>1, <3>2, Stages DEF Writers
    <3> QED BY <3>3 DEF Mapped
  <2>10. CASE EngineCrashes(e)
    BY <2>10, DieMapped DEF EngineCrashes
  <2>11. CASE EngineStarts(e)
    <3>1. Quiet
      BY <2>11 DEF EngineStarts, shared
    <3> QED BY <3>1, QuietMapped
  <2>12. CASE OrphanStops(e)
    <3>1. e \in Writers /\ Writers' = Writers \ {e}
      <4>1. \A x \in Engines : proc[x] \notin {"builder", "desktop"}
        BY <2>12, <1>b DEF OrphanStops
      <4> QED BY <2>12, <4>1 DEF OrphanStops, engine, Writers
    <3>2. Held' <=> Held
      BY <2>12, HeldSame DEF OrphanStops, engine
    <3>3. Leaves(e)
      BY <2>12, <3>1, <3>2, Stages DEF OrphanStops, shared
    <3> QED BY <3>3 DEF Mapped
  <2> QED
    BY <1>4, <2>1, <2>2, <2>3, <2>4, <2>5, <2>6, <2>7, <2>8, <2>9, <2>10, <2>11, <2>12
       DEF Alone
<1>5. CASE PowerCut
  <2>1. \A x \in Engines : proc'[x] = "none" /\ sess'[x].pc = "none"
    BY <1>5, DieSession DEF PowerCut, Die, NoSession
  <2>2. \A x \in Engines, s \in Slots : job'[x][s] = Free
    BY <1>5, DieTurns DEF PowerCut
  <2>3. orphans' = {} /\ disk' = disk /\ file' = file
    BY <1>5 DEF PowerCut, Die
  <2>4. Writers' = {}
    BY <2>1, <2>3 DEF Writers
  <2>5. ~Held'
    BY <2>1, <2>2, FreeHolds DEF Held, Holding, HoldsAt
  <2>6. CASE Stage = "held"
    <3>1. Drops
      BY <2>3, <2>4, <2>5, <2>6, Stages
    <3> QED BY <3>1 DEF Mapped
  <2>7. CASE Stage # "held" /\ Writers = {}
    <3>1. Stutters
      BY <2>3, <2>4, <2>5, <2>7, Stages
    <3> QED BY <3>1 DEF Mapped
  <2>8. CASE Stage # "held" /\ Writers # {}
    <3>1. PICK p \in Engines : p \in Writers
      BY <1>0, <2>8 DEF HeldFacts
    <3>2. Writers \ {p} = {}
      BY <1>0, <3>1 DEF HeldFacts
    <3>3. Leaves(p)
      BY <2>3, <2>4, <2>5, <2>8, <3>1, <3>2, Stages
    <3> QED BY <3>3 DEF Mapped
  <2> QED BY <2>6, <2>7, <2>8
<1>6. CASE UNCHANGED vars
  <2>1. Quiet
    BY <1>6 DEF vars, shared, engine
  <2> QED BY <2>1, QuietMapped
<1> QED BY <1>1, <1>2, <1>3, <1>4, <1>5, <1>6 DEF Next, Alone

-----------------------------------------------------------------------------
(* Theorems *)

\* The first state.
LEMMA Starts ==
    Init => Types /\ OwnerInv /\ Cancels /\ JoinsAreAnswered /\ RuntimeIsUsable /\ Image!Init
<1> SUFFICES ASSUME Init
             PROVE  /\ Types /\ OwnerInv /\ Cancels /\ JoinsAreAnswered /\ RuntimeIsUsable
                    /\ Image!Init
  OBVIOUS
<1>1. /\ \A x \in Engines, s \in Slots : job[x][s] = Free
      /\ \A x \in Engines : /\ sess[x].pc = "none" /\ proc[x] = "none" /\ vmCancel[x] = 0
                            /\ force[x] = "no" /\ close[x] = "no"
  BY DEF Init, NoSession
<1>2. Types
  <2>1. job \in Jobs
    BY FreeJob DEF Init, Jobs
  <2>2. NoSession \in [pc : {"none", "live", "release", "done"}, phase : Words,
                       forced : BOOLEAN]
    BY DEF NoSession, Words
  <2>3. sess \in Sessions
    BY <2>2 DEF Init, Sessions
  <2> QED BY <2>1, <2>3 DEF Init, Types
<1>3. OwnerInv
  <2>1. Ownership
    BY <1>1, FreeJob DEF Ownership, Attached, Claim
  <2>2. \A e \in Engines : Follows(e) /\ Runs(e)
    BY <1>1 DEF Follows, Runs
  <2>3. \A e \in Engines, s \in Slots : Knows(e, job[e][s])
    BY <1>1, FreeJob DEF Knows, Claim
  <2>4. Shared
    BY DEF Init, Shared, NativeApart, Launchable
  <2> QED BY <2>1, <2>2, <2>3, <2>4 DEF OwnerInv
<1>4. Cancels
  BY <1>1 DEF Cancels, Slots
<1>5. JoinsAreAnswered
  BY <1>1, Joins DEF JoinsAreAnswered
<1>6. RuntimeIsUsable
  BY DEF Init, RuntimeIsUsable
<1>7. Image!Init
  <2>1. Writers = {}
    BY <1>1 DEF Init, Writers
  <2>2. Stage = "absent" /\ disk # "clean"
    BY Stages DEF Init
  <2> QED BY <2>1, <2>2, Zenon DEF Image!Init
<1> QED BY <1>2, <1>3, <1>4, <1>5, <1>6, <1>7

\* The types, and the joins: nobody ever waits for a done channel that no worker is
\* left to close, whether or not state.json can be read.
THEOREM JoinsStayAnswered == Spec => []JoinsAreAnswered
<1>1. Init => Types /\ Cancels /\ JoinsAreAnswered
  BY Starts
<1>2. Types /\ Cancels /\ JoinsAreAnswered /\ [Next]_vars =>
        Types' /\ Cancels' /\ JoinsAreAnswered'
  BY TypesStep, JoinStep
<1> QED BY <1>1, <1>2, PTL DEF Spec

\* Every tree that setup publishes in the runtime directory passes the check that
\* each later start makes of it.
THEOREM RuntimeStaysUsable == Spec => []RuntimeIsUsable
  BY Starts, RuntimeStep, PTL DEF Spec

\* The inductive invariant of the image's ownership.
THEOREM OwnershipHolds == ASSUME Readable PROVE Spec => [](Types /\ OwnerInv)
<1>1. Types /\ OwnerInv /\ [Next]_vars => Types' /\ OwnerInv'
  BY TypesStep, OwnerStep
<1> QED BY <1>1, Starts, PTL DEF Spec

\* While state.json can be read, a record that says ready or stopped is about a
\* complete and closed file system that nobody has open.
THEOREM LaunchableStaysClean == ASSUME Readable PROVE Spec => []LaunchableIsClean
<1>1. Types /\ OwnerInv => LaunchableIsClean
  <2> SUFFICES ASSUME Types, OwnerInv PROVE LaunchableIsClean
    OBVIOUS
  <2>1. HeldFacts /\ Shared
    BY HeldByOwner DEF OwnerInv
  <2> QED BY <2>1 DEF HeldFacts, Shared, LaunchableIsClean
<1> QED BY <1>1, OwnershipHolds, PTL

\* No account input is on the disk while a desktop runs.
THEOREM CredentialsStayGone == ASSUME Readable PROVE Spec => []CredentialsGone
<1>1. OwnerInv => CredentialsGone
  BY DEF OwnerInv, Runs, CredentialsGone
<1> QED BY <1>1, OwnershipHolds, PTL

\* A native disk and a VM record never meet.
THEOREM NativeStaysApart == ASSUME Readable PROVE Spec => []NativeApart
<1>1. OwnerInv => NativeApart
  BY DEF OwnerInv, Shared
<1> QED BY <1>1, OwnershipHolds, PTL

\* The engines together implement LinuxImage: every step of theirs is one of its
\* steps, or leaves the stage, the soundness and the users of the image alone.
THEOREM ImageIsKept == ASSUME Readable PROVE Spec => ImagePromise
<1>1. Init => Image!Init
  BY Starts
<1>2. Types /\ OwnerInv /\ Types' /\ OwnerInv' /\ [Next]_vars => [Image!Next]_(Image!vars)
  BY MappedNext, MappedStep
<1> QED BY <1>1, <1>2, OwnershipHolds, PTL DEF Spec, ImagePromise, Image!Spec
=============================================================================
