# wootc: TLA+ models, model checking and proofs

wootc installs a Linux system beside Windows without a USB stick: a Windows
program stages a deployer on the EFI system partition (ESP), makes one firmware
boot entry, arms it for exactly one start, and restarts. The deployer writes
Linux into `C:\wootc\disks\root.disk`, stages the loader of the installed system
and arms one more start. If anything stops on the way, the next Windows start
has to find out how far it got and leave the machine bootable.

The same engine also serves a native shell over a pipe (plans that a person
confirms), and runs the Linux of `root.disk` in a managed virtual machine.

This directory models the parts of that program where the order of steps,
failing calls, power cuts and concurrent processes decide about correctness.

## Contents

| file | what it is |
| --- | --- |
| `BootTxn.tla` | the boot-chain transaction, its journal and records, and everybody who acts on them |
| `BootTxnHistory.tla` | the same with a history variable: the entries that really booted |
| `BootTxnProofs.tla` | lemmas, type correctness and the safety properties of the runs `safety`, `recovery` and `live` |
| `InstallAttempt.tla` | install attempts with their journal, the app's worker, classification and resume |
| `InstallAttemptProofs.tla` | its type correctness and the proofs of the five properties of the `records` run |
| `EspOwnership.tla` | who owns which file on the ESP: guards, claims, staging, the deployer's claims, cleanup |
| `EspOwnershipProofs.tla`, `EspOwnershipSafety.tla` | its type correctness, and the proofs of its safety properties |
| `Admission.tla` | what the engine accepts: decoders, install gate, space, the three kinds of plan |
| `NativeSession.tla` | one engine process serving one client: requests, grants, workers, events, exit |
| `NativeSessionProofs.tla` | proofs of the six invariants of the `session` run |
| `ConfigurationSnapshot.tla` | abstract: an observation is the PC at one instant, or a refusal |
| `ConfigurationRead.tla` | the observation step by step; implements `ConfigurationSnapshot` |
| `ConfigurationReadProofs.tla` | no helper survives, and the refinement of `ConfigurationSnapshot` |
| `LinuxImage.tla` | abstract: who may hold, open and offer `root.disk` as a VM image |
| `VmContracts.tla` | the evidence the VM accepts: archives, builder receipts, capacities |
| `VmLifecycle.tla` | engines that share a VM image, with crashes; implements `LinuxImage` |
| `VmLifecycleProofs.tla` | proofs of the six properties of the `vm` run, the refinement of `LinuxImage` among them |
| `VmControl.tla` | QMP client, operation gate, stop, force and display of a running VM |
| `VmControlProofs.tla` | proofs of the four invariants of the `control` run, and of what sums over finite sets obey |
| `MC*.tla` | symmetry sets and instances for TLC |
| `*.cfg` | one configuration per run |
| `PROJECT.json` | components, runs, mutants, source map, findings, hazards, theorems |

`tlc -config BootTxn_safety.cfg MCBootTxn` runs a check, `tlapm BootTxnProofs.tla`
checks proofs.

## Inventory

State and operations of each component; the last column says what makes it
correct and where it is stated.

| component | source (under `src/app` unless named) | state | operations | correct when |
| --- | --- | --- | --- | --- |
| boot-chain transaction | `boot_txn.go`, `installer_esp.go` | firmware store, boot order, one-shot; `boot-txn.json` | begin, build entry, arm, sweep, roll back | inert until arming; committed only when observed; rolled back only when observed clean; other products untouched |
| startup recovery | `recovery.go`, `recovery_windows.go` | `armed.json`, `deployer-started.json`, `recovery-verdict.json`, two scheduled tasks | decide keep / mark committed / roll back, verdict table | every interrupted transaction is closed; a chain that booted is kept, one that did not is not |
| TryAgain, BootIntoLinux | `recovery_windows.go`, `installer_windows.go` | the same | re-arm the recorded entry | no foreign one-shot is lost |
| boot repair, restore | `boot_repair.go`, `boot_repair_windows.go` | the same | rebuild the chain; take wootc out of the order | refuses what it cannot attribute; never leaves half a chain armed |
| uninstall | `installer_windows.go`, `esp_cleanup.go` | everything above and `C:\wootc` | remove tasks, entry, ESP files, records, disk | leaves no unguarded entry; deletes `root.disk` only on request |
| install engine and journal | `install_engine.go`, `install_journal.go`, `state.go`, `root_disk_creation.go` | `journal.json`, `state.json`, `root.disk` | prepare, run steps, cancel, fail, finish | a stopped attempt never leaves an armed one-shot |
| install recovery | `install_recovery.go`, `status_install_recovery.go` | reads all records | classify, prepare a resume | what it says of the last attempt is true; never deletes someone's Linux |
| app worker | `app.go` | one worker, one cancel function | start, cancel, close | one attempt at a time |
| deployer, installed Linux | `src/payload/deployer/deploy.sh` | ESP, `state.json`, marker, one-shot | start, deploy, fail, re-arm, first boot | every exit is visible to Windows |
| ESP staging and ownership | `esp_ownership.go`, `esp_cleanup.go`, `installer_esp.go`, `src/payload/migration/wootc-esp-own` | the files of the ESP, the manifest of claims, its temporary file | guard, claim, stage, clean up | other systems' files are kept; wootc's own are recognised after any interruption; a cleanup that succeeds is complete |
| native install session, maintenance, VM plans | `native_install_session.go`, `native_install_plan.go`, `native_maintenance.go`, `native_vm.go`, `native_install_authorization_windows.go` | prepared, confirmed, started; one grant of each kind | prepare, grant, confirm, run | only the plan that was shown runs, once, while its facts still hold |
| JSON-RPC server and peer | `serve.go`, `native_serve_windows.go`, `native_handshake.go`, `native_peer_windows.go`, `native_pipe_windows.go` | the request served, the shared writer, the client process | handshake, read, dispatch, emit, stop | a dead or deaf client cannot keep the engine alive; it leaves nothing running |
| configuration observation | `native_configuration*.go`, `native_storage*_windows.go` | two looks at every fact, the helper process and its job | start helper, ask twice, read, compare, close | the answer is one instant; no helper survives; it always ends |
| install admission and space | `install_space.go`, `secureboot.go`, `app.go`, `status_location.go` | none | gate, arithmetic, selection | what passes on Windows does not fail in the deployer for want of room |
| VM lifecycle | `vm_windows.go`, `vm_managed_windows.go`, `vm_lifecycle.go`, `vm_lock_windows.go`, `vm_guard.go`, `vm_account.go` | `vm\state.json`, `root.disk`, mutex, account input, QEMU, session | prepare, launch, stop, force, close, lease, uninstall | one user of the image; an interrupted image is never started; credentials do not stay |
| VM runtime and builder | `vm_runtime*.go`, `internal/runtimebundle`, `vm_builder_result.go`, `vm_storage_*.go` | the runtime directory | inspect, install, verify | what setup publishes, a start accepts |
| VM control and display | `vm_qmp.go`, `vm_display.go`, `vm_process.go` | QMP reader, operation gate, captures, used directives | request, stop, force, observe, wait | answers reach their request; keys are typed once; every call returns |
| VM guest ancestry | `vm_guest_ancestry.go`, `vm_guest_pipe_windows.go` | none | check a guest's root device | not connected to a VM yet |
| partition receipts | `partition_receipt*.go` | receipt file | write, verify, clear | no detached or foreign volume is written |
| first-boot evidence | `firstboot_evidence.go`, `boot_evidence.go` | evidence file | bind, verify | "healthy" only with evidence of this install |
| bundle, OCI pull | `bundle.go`, `ocipull.go`, `artifact_manifest.go` | cache of verified pieces | fetch, verify, resume | a piece is used only verified |
| hardware probes | `hardware*.go`, `oci_hardware.go` | none | probe, classify | read-only |
| headless CLI, migration, branding, frontend, `src/shell`, `src/platform`, `src/packaging`, `src/tools` | | | | presentation, packaging and copying; no protocol of their own |

Interaction: the pipeline calls the transaction and records each step in
`journal.json`; the transaction writes `boot-txn.json`, `bcd-guid.txt`,
`armed.json`; the firmware reads the one-shot, the deployer writes `state.json`
and `deployer-started.json`; startup recovery and the classification at relaunch
read all of them. No lock is held across these files: consistency rests on the
order of writes, and that is what the models check.

The native shell starts an elevated engine that talks to it over one pipe; its
session runs the same pipeline, maintenance operations and VM as the app. The
VM, a native install and an uninstall exclude each other by a named mutex, by
`vm\state.json` and by the handles on `root.disk`; a running VM is controlled
over QEMU's standard streams by whoever holds the session's operation gate.

## BootTxn: the boot-chain transaction

State: the firmware (`store`, `order`, `bootseq`), the loader on the ESP
(`esp`), the files of `C:\wootc` (`journal`, `guidFile`, `armedFile`, `state`,
`started`, `verdict`, `tasks`, `disk`) and the one process that runs (`machine`,
`pc`, its loop counters and the `BootTxn` value in memory).

Each bcdedit command, each journal or record write, each Task Scheduler call is
one action, so a power cut (`PowerCut`) falls between any two. A call can fail
in the ways the code distinguishes: bcdedit writes with and without effect
(`BcdWrites`), unreadable listings, refused writes, refused task calls, a missing
or rewritten ESP, and, for `os.WriteFile`, a file torn by the cut.

| actions | code |
| --- | --- |
| `RegisterTasks` ... `SavePrepared` | `configureBCD`, `beginBootChainTxn`, `buildBootEntry` |
| `SweepLook`, `SweepCommand` | `sweepWootcEntries`, shared by build, rollback, uninstall and restore |
| `ArmBootChain` ... `SaveCommitted` | `armBootChain`, `armBootChainTxn` |
| `SaveRollingBack` ... `WriteEndState` | `rollbackBootChainTxn`, `disarmOneShot`, the end of the pipeline |
| `StartupUnreadable` ... `StartupJudge` | `runRecoverStartup`, `recoverBootTxnAtStartup`, `EvaluateRecovery` |
| `StartRepair`, `VerifyRepair`, `StartRestore`, `RestoreEnds` | `repairBootFromArmed`, `planBootRepair`, `restoreWindowsBoot` |
| `StartTryAgain`, `RetryTasks`, `RetryOneShot`, `ArmPersistedGuid` | `tryAgainFromArmed`, `armOneShotFromPersistedGUID` |
| `StartUninstall` ... `RemoveState` | `uninstallWith` |
| `Firmware...`, `Deployer...`, `LinuxRuns`, `ForeignOneShot`, `EspRewritten` | the world, as far as the Windows side can tell |

Abstractions: a GUID is a model value; an entry is absent, copied or pathed;
a place in the permanent order is out, behind or ahead of Windows; the contents
of the ESP are one value; the two recovery tasks, always registered and removed
together, are one Boolean. The startup task runs before any user operation.

## InstallAttempt: attempts, records and relaunch

State: the five records a relaunch reads, who made `root.disk` and whether the
deployer has written to it, what is changed outside `C:\wootc`, the app process
and its worker, and of the boot chain, whose protocol is BootTxn's, whether there
is an entry, whether the one-shot points to it and whether `boot-txn.json` is still
`open`, short of committed and not rolled back. Two history variables, which no
guard reads, serve the properties: `asked` (the user has asked for this chain
again) and `vouched` (since Windows started the chain was armed or judged by
startup recovery, and nobody has taken it out since).
`Recoverers` are processes that prepare a resume: the app's bridge and the
command line. They observe in one step and delete in another.

`Classify` is `classifyInstall` with the texts left out; `PhaseTwoCause` and
`PhaseOne` are its two halves. `StartupRollback`, `StartupVerdict`, `StartDeployer`
and `DeployerEnds` stand for the corresponding parts of BootTxn in one step each; the
startup task may also be missing (`StartWindows`), because a stop, an uninstall or a
repair whose registration failed has unregistered it.

`RollBack` is `rollbackBootChain`, which a stop (`DisarmOneShot`), startup recovery
and an uninstall call. With `"boot"` in `Faults` it may end unconfirmed: part or all of
the chain is left and the transaction stays open. `disarmOneShot` then returns early,
with `armed.json` in place, and `Run` goes on to write `staged` or `failed` and to
journal `cancelled` or `failed`; startup recovery keeps its records and retries at the
next start; an uninstall goes on (`"removal"` in `Faults`).

The user's boot commands act on the same chain. `TryAgain` and `RepairBoot` arm it and
clear the marker and the verdict; `RepairStops` is a repair that fails or dies at any
of its calls, with every state of the chain that can leave; `BootIntoLinux` sets the
one-shot alone; `RestoreWindowsBoot`, which the command line runs beside the app, takes
it out and leaves `armed.json` and the journal alone. Left out: a boot store that
`planBootRepair` refuses (unreadable, or another product is next), the last three
writes of `TryAgain` and a repair one by one (BootTxn cuts between them), and boot
commands of a second process while an install or a repair runs.

`prepareResumeAt` looks at the records and removes the disk without a lock, so an
attempt of another process may start in between. The constant `Overtaking` lets it;
the `records` run and the theorems exclude it (see the known disagreements).

## EspOwnership: the files of the EFI system partition

State: whose bytes are at each path (`file`; "torn" is a file wootc truncated
and did not finish), the manifest with whoever rendered it, the temporary file
it is written through, the app's processes, and the deployer with the commands
it has left. A file-system call that changes something is one action.

| actions | code |
| --- | --- |
| `CheckMarker`, `GuardFile`, `GuardEnds` | the checks D1, D1b, D1c and D3 of `setupSignedChain`, `setupSystemdBoot`, `guardESPDestinations` |
| `StageFile`, `Persist`, `SyncTmp`, `Rename`, `RenameFails`, `PersistGivesUp` | `recordESPOwnership`, `persistManifest` with renames that fail or only say so |
| `WriteFile`, `FillFile`, `SkipOptional` | `stageESPFile`, `copyFile`, the config writes |
| `StartUninstall`, `RemoveFile`, `CleanupEnds`, `CleanupFails` | `espCleanupClaims`, `cleanupESPOwnedFilesWithRemove`; the files go in any order |
| `StartDeployer`, `Deployer...` | the ESP part of `deploy.sh`: its three branches as lists of commands |

Abstractions: one name per path, so spelling, case and symbolic links are left
out; the systems that may be on the ESP beforehand are the sets `ForeignSets`,
and no system is installed later. `centos/cfg` stands for the config directory
of any vendor but Fedora and Red Hat.

The passing run excludes five conditions, each a constant, under which TLC finds
a property violated:

| condition | what fails |
| --- | --- |
| `SmallWritesTear = TRUE` | `NoSelfLockout`: an empty `grub.cfg` after a cut has neither marker nor claim |
| `Switching = TRUE` | `NoSelfLockout`: a temporary manifest left by a killed install is renamed by the next one, which claims something else; `ForeignKept`, if a lone foreign loader is in `EFI\systemd` |
| `Legacy = TRUE` | `NoSelfLockout`: an interrupted cleanup removes the marker first, the only evidence without a manifest |
| two processes | `CleanupIsComplete`, `NoSelfLockout`: the manifest is read and written without a lock |
| other vendors | `ClaimsAreRemovable`: the `vendor` run |

## Admission and NativeSession: one engine, one client

`Admission` has no state: each operator is a decision of the engine over what it
observed, a refusal is the empty set and an answer a singleton. It holds the
strict decoders, the scenario gate and Secure Boot chain check, the arithmetic of
`install_space.go` beside that of the deployer's scratch check, the choice of the
one installation, and the admissions of the three kinds of plan.

`NativeSession` is the process around it: the server thread, install workers, the
VM worker, the watcher of the client process, and the writer that they share.

| actions | code |
| --- | --- |
| `Startup` (peer, pipe, handshake, selection), `Receive`, `Answered`, `EndOfInput` | `native_serve_windows.go`, `native_handshake.go`, the loop of `serve.go` |
| `Dispatch`: one action per group of methods | the tables of `serve.go`, with what each purpose refuses |
| `PrepareNative...`, `prepareNativeInstallAuthorization`, `ConfirmNative...`, `ObserveAgain`, `confirm` | the grant and confirmation of the three kinds of plan |
| `WriteLine`, `emit`, `StopWriter` | `synchronizedWriter`, events, its `stop` that takes no lock |
| `RunEnds`, `WorkerReturns`, `stopInstall`, `shutdownVM` | the install worker of `app.go` and what the exit waits for |
| `ClientStops`, `WorldChanges`, `GuestEnds` | the client that stops reading, leaves or dies; the PC; the guest |

Abstractions: a message is its shape, its members and its value; a fingerprint of
facts is the facts; the PC is one record that changes as a whole. A configuration
is read in one step here; `ConfigurationRead` justifies that. `did` and `since`
are history variables.

## ConfigurationRead: twenty steps that look like one

One thread looks at the selection, the volumes (through a PowerShell helper in a
job of its own, which it asks twice), NTFS serials and the files of each
installer root, then at all of it again, and compares. In between the PC changes,
the helper answers, babbles, hangs, exits or leaves children, the two deadlines
pass, and the engine may die.

It implements `ConfigurationSnapshot` under the mapping `phase <- Phase, snap <-
mid`: the snapshot is taken between the two passes over the roots. The step that
needs an argument is `Return`: two equal looks at a cell, one before and one after
that instant, mean that the cell had this value at it. This rests on the assumption
that an identity (a volume's GUID or serial, the bytes and file index of a root's
file) does not come back within one observation; a cell is therefore a pair of
identity and value, and each change makes a new identity.

## VmContracts, LinuxImage, VmLifecycle: who has root.disk

State: the mutex, `root.disk`, `vm\state.json`, the private account input, what a
setup left behind and the runtime directory, which all engines share; per engine
its operations under way, `vmCancel`, its QEMU, its session, and a force stop or
shutdown in progress.

| actions | code |
| --- | --- |
| runtime setup | `installVMRuntime`, `runtimebundle.Install`, staging and its clean-up |
| preparation: claim, create, account, spawn, build, receipt, ready, error path | `PrepareVM` and the builder (`vm_windows.go`, `vm_account.go`, `vm_builder_result.go`) |
| launch: verify, start, adopt into the job, control, publish | `BootInVM`, `startManagedVM` |
| session end | `wait` of `vm_process.go`, the verdict on the image |
| stop, force, close | `StopVM`, `ForceStopVM`, `shutdownVM` with their joins on the done channel |
| native lease, uninstall | `vm_guard.go`, `uninstallWith` |
| `EngineCrashes`, `OrphanStops`, `PowerCut` | Windows abandons the mutex before it has stopped QEMU |

`VmContracts` are the decisions these actions take over evidence, for archives
and builder logs that are right or wrong in one of the ways the code refuses.
Hashes and signatures are values; a path is a sequence of components with a case.

The engines implement `LinuxImage` (`Users <- Engines, stage <- Stage, sound <-
(disk = "clean"), users <- Writers`): one holder takes the image, one process has
it open, and it is offered again only while its holder knows that it was closed.
`Stage` is computed from the disk, the record and who is at work, so that a record
without a holder, or two holders, has no abstract step.

## VmControl: a running VM and its callers

Calls of `StopVM`, `ForceStopVM` and `observeVMDisplay` queue for the operation
gate (a channel of capacity one, served in order); under it a request is
registered, written and waits for its reply. Any wait may run out of time at any
moment. QEMU and its guest are the environment: they answer in order, late,
wrongly or never, QEMU exits in any way, and a write to it may block for ever
(`written` is not fair).

| actions | code |
| --- | --- |
| `request`, `written`, `AfterFunc` and the waits | `qmpClient.request` (`vm_qmp.go`), whose close of the pipe unblocks the writer |
| `Reader` | the read loop: greeting, events, replies by identifier, end of the stream |
| `Waiter` | `vmSession.wait`: exit, the drained reader, the verdict |
| stop, force | `vm_process.go` |
| display | `vm_display.go`: status, mice, keys by single-use directive, captures in a budget |
| `Greet`, `Serve`, `GuestPowersOff`, `QemuExits`, `Misspeak` | QEMU |

The client's write gate is not modelled: all writers hold the operation gate or
come before it exists. `typed`, `kept` and `spoiled` are history variables.

## Runs

All bounds are constants. `MaxFaults` bounds failing calls, `MaxCuts` power cuts
(and crashes of the app), `MaxRuns` attempts.

| run | bounds | result |
| --- | --- | --- |
| `safety` | 3 GUIDs, all operations, clone positions and faults, 2 faults, 2 cuts; 912 000 states | `TypeOK`, `RolledBackIsClean`, `CommitIsProven`, `ForeignOneShotKept` hold |
| `recovery` | 3 GUIDs, all but repair, clone never ahead, no failing bcdedit write, 2 faults, 3 cuts; 1 420 000 states | `InertUntilArming`, `StartedDeploymentKept`, `MarkedBecauseBooted` hold |
| `live` | 2 GUIDs, install, restore, TryAgain, BootIntoLinux, 2 faults, 2 cuts; 95 000 states | `OpenTxnIsGuarded`, `OpenTxnCloses` hold |
| `records` | 2 recoverers, 3 attempts, none overtaking a recoverer, 2 failing steps, rollbacks or repairs, 2 cuts; 1 366 000 states | the five properties of InstallAttempt hold |
| `esp` | one process, three boot chains, five kinds of neighbours, 3 operations, 1 fault, 2 cuts; 689 000 states | `TypeOK`, `ForeignKept`, `NoSelfLockout`, `CleanupIsComplete`, `ClaimsAreRemovable` hold |
| `session` | 3 purposes, 4 states of the PC, 1 change, 1 event, 2 install workers, 2 or 3 requests of 5 to 13; 561 000 states | `ConsentedOnly`, `OnePurpose`, `RestartIsEarned`, `OneWorker`, `PreflightCoversDeployer`, `ExitIsClean`, `EngineEnds` hold |
| `snapshot` | 2 volumes, 2 installer roots, 2 contents, 1 change; 851 000 states | `NoHelperSurvives`, `ObservationEnds` and the refinement `OneInstant` hold |
| `vm` | 2 engines, one that sets up and closes, one asked for a native install or an uninstall; 2 operations each, 1 crash or power cut, 1 removal, every write may fail; 630 000 states | `LaunchableIsClean`, `CredentialsGone`, `NativeApart`, `RuntimeIsUsable`, `JoinsAreAnswered` and the refinement `ImagePromise` hold |
| `control` | 2 calls of any kind, 2 sessions, 1 wrong line, captures of size 1 and 2 under a count and a byte limit of 2, one capture left from before; 534 000 states | `OwnAnswer`, `KeysOnce`, `CapturesFit`, `CleanStopIsSeen`, `CallsReturn` hold |
| `repair` | two GUIDs, one cut | `MarkedBecauseBooted` fails: the old marker is taken for the new entry |
| `vendor` | one install, one deployment of another vendor's image | `ClaimsAreRemovable` fails: the cleanup refuses the deployer's claim |
| `reread` | as `vm`, and `state.json` may be unreadable | `LaunchableIsClean` fails: the stale state in memory is written over the recovery record |

Why the bounds are enough: three GUIDs give a recorded entry, a half-made one
and a fresh one; two faults let a sweep fail twice (its loop has two
iterations) or a build fail and its rollback fail; two cuts interrupt an
operation and then its recovery, three also the recovery of that; two attempts
let the records of one be read during the other, and the third meets what both left; three operations on the ESP
are an interrupted one, its repetition, and the deployment, uninstall or install
that depends on both. They do not reach one case: with six, a temporary manifest
survives an uninstall, an install and a deployment before it is taken for a new one
(see the known disagreements). What holds for any number of operations without such a
file is proved. In a session, prepare, confirm and restart are three
requests, and one change of the PC can fall before, between or after them; the
second install worker is the one a too early `StartInstall` would make. One change
is what two looks at each fact have to notice, and the two roots and volumes let it
fall on a cell already read and on one still to be read. Two engines are a holder
and a rival; one crash leaves every half-made state, and the rival or the restarted
engine meets it. Two calls are one that gives up and one that might get its reply,
and the second session meets what the first has left in the capture directory.

The conditions that separate a passing run from a violation (`repair`, other
vendors, an unreadable `state.json`) are the findings, and those listed below.

`vm` checks no liveness: with every write failing at will its graph is too large
for it, and the part that could wait for ever is stated as the invariant
`JoinsAreAnswered`, what a call on a running VM does as `CallsReturn` of `control`.
`TypeOK` of the modules without theorems documents the state; runs are spent on the
other properties.

`recovery` leaves failing bcdedit writes out because a build whose sweep had no
effect journals `creating-entry` while the old one-shot is still set.

Every property of a passing run has a mutant: a one-definition change a
plausible bug would make, after which TLC reports the property violated.

### Fairness

`FairSpec` assumes weak fairness of the running program and of the firmware
(a process that runs goes on, a machine that is off is switched on) and strong
fairness of `Restart`: user operations may disable it again and again, but a
machine is restarted now and then. No fairness is assumed of user operations,
faults or cuts; both are bounded. `OpenTxnCloses` needs the restart because only
the startup task retries a rollback.

`NativeSession`: weak fairness of each thread of the engine (Go schedules it; steps
of the pipeline and its clean-up end); none of the client, which need not read, send
or close. `EngineEnds` is therefore about a client that is gone, or has closed its
end while the engine waits for a request.

`ConfigurationRead`: weak fairness of the observing thread, of the goroutine that
closes the pipes and of the deadlines; none of the helper. `VmControl`: weak fairness
of each call, the reader and the waiter; none of QEMU and its guest, not even that
QEMU reads its input. Timeouts are real in the code (10 s to 15 s) and end every wait.

## Proofs

BootTxn, for every set of GUIDs, every subset of the operations, clone positions and
faults, and all bounds (`ConstantsAssumption` only says that the special values
differ and the sets are of the right kind):

| theorem | statement |
| --- | --- |
| `TypeCorrect` | `Spec => []TypeOK` |
| `RollbackCleans` | `Spec => []RolledBackIsClean` |
| `CommitProven` | `Spec => CommitIsProven` |
| `ForeignKept` | `Spec => ForeignOneShotKept` |
| `InertBeforeArming`, `StartedIsKept` | `Steady` implies `Spec => []InertUntilArming`, `StartedDeploymentKept` |
| `MarksOnlyBooted` | `Steady` implies `HSpec => MarkedBecauseBooted` |
| `OpenIsGuarded` | `Supervised` implies `Spec => []OpenTxnIsGuarded` |

`Steady` is what the `recovery` run excludes: failing bcdedit writes, torn records,
firmware that puts the clone ahead of Windows, and repair. `InertUntilArming` needs all
four; TLC finds a counterexample when any of them is dropped (see the known
disagreements). `Supervised` says that the user neither repairs nor uninstalls; every
call may fail and every write be torn. The bounds of the runs are gone: any number of
entries, faults, cuts, and installs after uninstalls.

EspOwnership, for any number of processes, every choice of chains, vendors and
neighbours, with or without legacy installs and torn small files, and all bounds
(the assumptions say that EFI\wootc and the entries named after the product are
nobody else's):

| theorem | statement |
| --- | --- |
| `EspTypeCorrect` | `Spec => []TypeOK` |
| `ForeignFilesKept` | `LoaderWithConf` implies `Spec => ForeignKept` |
| `ClaimsStayRemovable` | `KnownVendors` implies `Spec => []ClaimsAreRemovable` |
| `CleanupStaysComplete` | `Sole` implies `Spec /\ []NoLeftover => []CleanupIsComplete` |
| `NobodyIsLockedOut` | `Sole` and `LoaderWithConf` imply `Spec /\ []NoLeftover => []NoSelfLockout` |

`LoaderWithConf` says that a neighbour with files in EFI\systemd also has a
`loader.conf`, as systemd-boot's installer leaves it. It is needed: a marker in
`fedora\grub.cfg` lets every destination pass the guard, those in EFI\systemd too,
and without it TLC finds a lone `systemd-bootx64.efi` overwritten when a later
install chooses the other chain. The neighbours of the `esp` run satisfy it.

`KnownVendors` says that the images deployed are of vendors whose config directory the
cleanup knows; the run `vendor` shows what happens otherwise. `Sole` says that there is
one process, no installation from before the manifest, and no small file torn by a
power cut. `NoLeftover` says that a temporary manifest exists only while a process is
about to rename it, that is, none is left by a process that died. Each is needed: the
first three are the conditions the `esp` run excludes, and `persistManifest` takes a
temporary file it finds for its own (`esp_ownership.go:273`), which loses claims when
its content is older than the manifest (see the known disagreements). Processes may
still die everywhere else, between claim and copy, in the middle of a copy or of an
uninstall, renames may fail or only say so, and the user may change the boot chain from
one install to the next (`Switching` is arbitrary).

Inductive invariants of BootTxn, all checked with TLC on the `safety` instance
first:

- `TypeInv` adds `EntryKnown` to `TypeOK`: where the code uses a GUID as an
  entry, it has one. Without it `SetOneShot` could add the empty GUID.
- `CleanInv`: `rolled-back`, and the control point before it, imply no entry;
  `/copy` and `/set path` run only under journal phases that are not
  `rolled-back`. The second half is what makes the first inductive.
- `CommitInv`: from `onEntry` on the records name the entry of the transaction
  (`RecordsNamed`); inside begin and arm the tasks are registered, because every
  step that removes them runs under another stage (`BuildGuarded`); the commit
  point is reached under `arming`, with the chain verified by the step before
  (`CommitReady`). `AtCommit` shows that nobody else can journal `committed` there.
- `ClearSparesForeign`: a pending command that clears the whole one-shot implies
  that no foreign entry is in it. The lemmas on `Without` and `AddFirst` say that
  `/remove` and `/addfirst` keep every other element.

The next two were checked with TLC on the `recovery` and the `live` instance:

- `InertInv`. `Entries`: the entry with the loader's path is the journaled one; a
  pending sweep, with a listing or without, is going to delete it; and while the
  transaction is inert it is not in the one-shot, the tasks are registered, and
  somebody is about to roll it back or to go on with it (`Handled`), so that no
  command of the user's finds it. `Unused`: an install starts without evidence of an
  earlier deployer, because it refuses an existing `root.disk` and an uninstall removes
  the evidence before the disk. `Setting` says who runs at which control point.
  `MarkInv` adds the history: evidence under `arming` is of the journaled entry.
- `GuardInv`: the steps that unregister the tasks come after a confirmed rollback, or
  after the verdict of a closed transaction.

`SafeInv` of EspOwnership, which makes `ForeignKept` inductive although guards and
writes are many steps apart and other processes run in between:

- `OursAlone`, `ClaimsOurs`: nothing in wootc's own namespace, in the manifest, in
  its temporary file or in what a process has read from them is foreign;
- `MarkerSpeaks`, `LoaderSpeaks`: a marked `fedora\grub.cfg` (seen now or earlier
  by a process, or while the deployer runs) has no foreign binaries beside it, and
  a `loader.conf` that is not foreign no foreign EFI\systemd;
- `GuardAhead`: during the guard a foreign destination is still in the list ahead;
  `StageOurs`: after it, nothing left to stage is foreign;
- `PlanAsks`: a command of the deployer on a foreign file comes right after the
  claim that will refuse it (only the vendor's `grub.cfg` is such a file).

`ForeignStep` shows that such a state's steps neither change nor create a foreign
file; each other part then only has to look at its own variables.

`Ruled`, for `ClaimsAreRemovable`: no list of claims, on disk, in the temporary file, in
what a process has read or in the deployer's plan, names another vendor's directory.

`Tracked`, for `CleanupIsComplete` and, with `SafeInv`, for `NoSelfLockout`:

- `Attributed`: a file of wootc's that only a claim attributes to it (`ByClaim`) is in
  the manifest, and no config is torn; with `Attributable`, every file of wootc's is
  therefore in the list a cleanup starts from;
- `PlaceOf`: what a process has read of the manifest covers it while it merges and
  renames, the file it writes is claimed by then, and during an uninstall what is left
  of wootc's is in its list;
- `PlanClaims`: the deployer's plan claims a file before it writes it;
- `Turns`: Windows and the deployer take turns, which is why the claims read do not
  become stale.

`RefusalStep` then shows that whoever is refused has met a file that is neither claimed
nor marked, hence another system's, and such a file stays.

InstallAttempt, for any number of recoverers, attempts, faults and cuts:

| theorem | statement |
| --- | --- |
| `TypeCorrect` | `Spec => []TypeOK` |
| `LinuxDiskIsKept` | `Dependable` implies `Spec => LinuxDiskKept` |
| `ResumableIsUntouched`, `StopsFailClosed`, `ReadyIsArmed`, `InProgress` | `Dependable` implies `Spec => []BootUntouchedIfResumable`, `[]StopFailsClosed`, `[]AwaitingRestartIsArmed`, `[]InProgressIsReal` |

`Dependable` says that journal writes land and that an uninstall takes the boot chain
away (neither `"journal"` nor `"removal"` is in `Faults`) and that no attempt overtakes a
recoverer; without any of the three TLC finds counterexamples, listed under the known
disagreements. Steps, rollbacks and repairs may fail and the power may go anywhere.
`StopFailsClosed` is what the code has when it cannot disarm: the chain a stop leaves
is known to `boot-txn.json` and, once it can start the deployer, to `armed.json`.
`AwaitingRestartIsArmed` is about sessions of Windows that are `vouched` for: a restore
or a failed repair ends that, and the next verdict of startup recovery brings it back,
which is why the stale "Ready to restart" does not outlive the next judged start. The
invariant `SafeInv` ties the records to the machine, so that a classification, a pure
function of the records, can be judged by it: `Processes` (whose attempt runs),
`Recorder` (the journal is at most one step behind the worker), `Holds` and `Stops`
(what is changed outside the folder while a step runs, and that a stop leaves only a
`Guarded` chain),
`Known` (what the armed and started records imply), `Discards` (a recoverer that is
about to delete has seen records which still hold) and `Ready`. `PhaseOneCauses` and
`StepTable` read the classification and the step table once for all of them.

VmLifecycle, for any number of engines, archives, builder logs, crashes and removals:

| theorem | statement |
| --- | --- |
| `JoinsStayAnswered` | `Spec => []JoinsAreAnswered` |
| `RuntimeStaysUsable` | `Spec => []RuntimeIsUsable` |
| `OwnershipHolds` | `Readable` implies `Spec => [](Types /\ OwnerInv)` |
| `LaunchableStaysClean`, `CredentialsStayGone`, `NativeStaysApart` | `Readable` implies `Spec => []LaunchableIsClean`, `[]CredentialsGone`, `[]NativeApart` |
| `ImageIsKept` | `Readable` implies `Spec => ImagePromise` |

`Readable` (`ReadsMayFail = FALSE`) is the condition that separates `vm` from `reread`.
The argument is one of ownership:

- `Ownership`: every step between taking and giving back the mutex, and every session
  until it lets go, has the mutex, and no other operation of the engine has it too;
- `Knows`: what each such step knows of the disk, the record, the account input and
  its own QEMU; `Follows` the same for a session, `Runs` for a process;
- `Shared`: what holds for those without the mutex, above all that a QEMU whose
  engine died keeps the disk dirty and the record unlaunchable.

`Actor` shows once that whoever owns the mutex, or takes it, is alone: if its own part
of the invariant holds after its step, the whole of it does. `Bystander` covers the
steps that touch nothing shared. Each action then is one local step. For the joins,
`Cancels` says that a worker's entry in `vmCancel` goes before the worker does. For the
runtime, `InstallVerifies` proves from the definitions of `Install` and
`verifyVMRuntime` that whatever the one accepts passes the other; `PathsAssumption`
says that the paths in an archive are sequences of components. The refinement maps
each action to one of LinuxImage's (`Mapped`); `HeldFacts` computes the holder and the
writers of the abstract image from the invariant. `Types` here holds the types of the
per-engine variables only.

NativeSession, for every set of requests, greetings and states of the PC, any number
of changes, events and workers:

| theorem | statement |
| --- | --- |
| `OnlyWithConsent`, `OnePurposeOnly`, `RestartStaysEarned`, `OneWorkerOnly`, `CleanExit` | `Spec => []ConsentedOnly`, `[]OnePurpose`, `[]RestartIsEarned`, `[]OneWorker`, `[]ExitIsClean` |
| `PreflightIsEnough` | `Measured` implies `Spec => []PreflightCoversDeployer` |

The properties speak of what has run, the code guards what may run; `IInv` follows
every permission on its way. An intent is in at most one place, an authority, the
confirmation being served, or the history (`OneIntent`), and so is the one plan of an
install session (`OnePlan`); a session that turned to the VM has given its plan up
(`VMOnly`). `Observed`: when a confirmed plan runs, its facts are those of an
observation made since the confirmation arrived, although the PC may have changed
since. `OneSlot` ties a running worker to `Running`, `ByPlace` the workers and the VM to
the place of the server thread, from which the exit follows. `Quiet` collects the
actions that touch none of this.

`Measured` says that the plans a client may send have a disk size, and that the size of
the image is known (the registry answers, or the bundle is staged) or is within the
default that `install_space.go` falls back to. The second half is needed: for a larger
image of unknown size Windows asks for less scratch than the deployer. The rest is
arithmetic: `NeedGrows` shows that a larger image never needs less scratch and none less
than the floor, and from it that the room the gate asks for covers the disk together
with what the deployer takes. The requests and states of the `session` run satisfy
`Measured`.

ConfigurationRead, for any volumes, roots, contents and number of changes:

| theorem | statement |
| --- | --- |
| `NoHelperIsLeft` | `Spec => []NoHelperSurvives` |
| `AnswersOneInstant` | `Spec => OneInstant` |

`Later(x, y)` orders looks at one cell: a newer identity, or the very same content; two
looks that are later than each other are equal. `Looks` puts every first look before
the snapshot `mid` and every second one after it, `FirstLooks` and `SecondLooks` say by
place what has been looked at, and what was compared and found equal. A first look, the
snapshot and an equal second look are then the same, which makes the answer of
`SelectLast` one instant's. Each action is mapped to `Change`, `Take`, `Return`,
`Refuse` or a stutter of `ConfigurationSnapshot` in `StepsOfPromise`. `Contained`: whatever runs is
in an open job, and the observation ends only after the job was closed, or its owner
died and the system closed it.

VmControl, for any number of calls, sessions, requests and broken lines, and any budget:

| theorem | statement |
| --- | --- |
| `AnswersAreOwn`, `KeysOnlyOnce`, `CleanStopsAreSeen` | `Spec => []OwnAnswer`, `[]KeysOnce`, `[]CleanStopIsSeen` |
| `CapturesStayInBudget` | `Spec => []CapturesFit` |

A command is followed from the call that registers it over QEMU's input and output to
the reader. `Ids`: its identifier is new, and whoever has it, or finds it on a command
or an answer, is the call that asked; a reply is handed to nobody else, however late.
`Keys` and `Distinct`: the batch of a directive is typed, on the way or with one caller,
and the directive is consumed before it is sent. `Awaited`: until the stream is spoiled
somebody waits for every command on the way, so every answer has a receiver and the
reader does not stop at one it does not expect. `Stream` and `Verdict` follow from it:
the shutdown of the guest is read before the end of the stream, and the waiter, which
waits for the reader, decides after that. The lemmas `QuitStep`, `GoStep`,
`RegisterStep` and the like each treat one effect on this bookkeeping (a call gives up,
moves on, registers a request); an action then is one effect, shown in `StepKeeps` and
`NextKeeps`.

`CapturesFit` bounds what is kept, and is not inductive: a capture of the last session
may still keep its frame while the new session takes one, and each is held against the
room it was given when its directory was made. The invariant `CapInv` bounds what is
kept *or may still be* (`Promised`): it fits, but for one frame at most, and that one
fits with its whole room in place of its size (`Budget`). A capture opens only when no
directory is empty and all of them fit (`captureBudget`), so the new one is that one
frame and every older one is already counted at its size; QEMU writes a frame only into
an empty directory, and once (`Owned`, `Dumps`). A capture that is left behind, because
Windows refused to delete it, is promised to nobody but keeps counting against the next.
`ControlAssumption` says for this that captures of earlier sessions are finitely many,
fit the limits and have other directories than those of this run's calls (each call
makes a new one), and that a frame has a natural number of bytes. The sums are those of
`MapThenSumSet`; that they exist, do not depend on the order, and grow with the set
(`SumIsRecursion`, `SumAgrees`, `SumAdds`, `SumGrows`, `SumOfOnes`) is shown by
induction over the subsets of a finite set (`AllSubsets`), which is stated with a set of
subsets in place of a predicate and rests on the well-foundedness of the naturals.

Model-checked only: the liveness properties `OpenTxnCloses`, `EngineEnds`,
`ObservationEnds` and `CallsReturn`, which are out of the prover's reach.

## Findings

Three disagreements between the code and its own comments and documents have a run:
`repair`, `vendor` and `reread`; `findings` in PROJECT.json quotes both sides.

### Known disagreements without a run

The passing runs exclude these conditions, each by a constant. Changing it makes TLC
report the property:

| change | what fails | code and what it says |
| --- | --- | --- |
| `BootTxn_live`: `"torn"` in `Faults` | `OpenTxnCloses` | `armed.json` is written in place (`helpers.go:27`; `recovery.go:81` says atomically); a torn one stops `runRecoverStartup` before it looks at the journal |
| `BootTxn_recovery`: `"ahead"` in `CopyPlaces` | `InertUntilArming` | the clone gets the loader's path before it leaves the boot order (`boot_txn.go:436`; 37-38 says inert until arming) |
| `BootTxn_recovery`: `"cmd"` in `Faults`, `MaxFaults = 3` | `InertUntilArming` | `sweepWootcEntries` does not look at its commands' results, and `buildBootEntry` forgets the GUID and journals "creating-entry" over an entry that is still in the one-shot (`boot_txn.go:411-420`) |
| `BootTxn_recovery`: `"torn"` in `Faults` | `InertUntilArming` | the startup task stops at a torn `armed.json`, and BootIntoLinux arms the entry it has not rolled back (`recovery.go:81` says atomically) |
| `BootTxn_recovery`: `"repair"` in `Ops` | `InertUntilArming` | a repair journals "begun" while the entry it replaces is still armed (`boot_txn.go:36-38` knows only installs) |
| `BootTxn_live`: `"uninstall"` in `Ops` | `OpenTxnIsGuarded` | `uninstallWith` unregisters the tasks before the rollback they retry (`installer_windows.go:446`; `installer_esp.go:642` says the tasks stay) |
| `EspOwnership_esp`: `MaxRuns = 6`, one chain and no neighbours | `CleanupIsComplete` | a `wootc-owned.txt.tmp` left by an install that died is renamed over the manifest by a later one, although the deployer has claimed more since; the next uninstall reports success and leaves `entries/wootc` (`esp_ownership.go:273`) |
| `InstallAttempt_records`: `"journal"` in `Faults` | `BootUntouchedIfResumable`, `InProgressIsReal` | a journal write that fails is only reported (`install_journal.go:119`; 16-17 says it is written before the pipeline moves on) |
| `InstallAttempt_records`: `Overtaking = TRUE` | `LinuxDiskKept`, `BootUntouchedIfResumable`, `StopFailsClosed` | `prepareResumeAt` acts on what it observed although a new attempt may have begun since (`install_recovery.go:490`) |
| `InstallAttempt_records`: `"removal"` in `Faults` | `BootUntouchedIfResumable`, `StopFailsClosed` | an uninstall ignores a rollback it cannot confirm and removes the records; the next attempt is journalled over the chain that is left (`installer_windows.go:458`; `installer_esp.go:642` says the journal stays) |
| `InstallAttempt_records`: check `OneShotTurnedOff` | itself | an unconfirmed rollback leaves the one-shot armed while `Run` journals cancelled or failed (`installer_esp.go:648`; `install_engine.go:263-268` says a stop must disarm it, and the message of `install_recovery.go:260-264` that it was turned off) |
| `InstallAttempt_records`: check `ReadyWheneverSaid` | itself | after a restore, a failed repair, or a rollback of a repair at startup that is not confirmed, `armed.json` and the armed journal say "Ready to restart" with nothing armed (`boot_repair.go:587-606`; `install_recovery.go:206-210`) |
| `InstallAttempt_records`: check `NothingOutsideChanged` | itself | Fast Startup is off before the message says that nothing outside the folder changed (`install_recovery.go:285`) |

## Not modelled

Partitioning and image writing in the deployer, the trust checks of executables
and state files, BitLocker and hardware probes, user data migration, the user
interfaces, packaging and tests. Two Windows processes acting on the boot store
at the same time (the startup task and the app) are not modelled either; nothing
in the code locks them against each other. Of the VM: the guest ancestry check,
which no VM command line connects yet; durations (a force stop behind two stops of a
silent QEMU gives up after 15 s although the guest runs; the model only knows that
it returns); a `TerminateProcess` that fails; and the moment at which NTFS makes the
rename of `state.json` durable. Bundle and OCI pulls are sequential downloads into
temporary names, checked by digest before a rename; partition receipts are one file
around one operation.

## Plan

1. BootTxn with its proofs, InstallAttempt, EspOwnership: done.
2. NativeSession with Admission, ConfigurationRead and VmLifecycle with their
   refinements, VmControl: done.
3. Proofs of all safety properties of the passing runs, and of the two refinements:
   done.
4. A composition of BootTxn and InstallAttempt: InstallAttempt's boot chain as a
   refinement mapping of BootTxn's firmware and journal.
5. Partition receipts, `BundlePull`, and the self-healing sync `wootc-esp-sync`.
