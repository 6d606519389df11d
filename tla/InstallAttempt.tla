--------------------------- MODULE InstallAttempt ---------------------------
(***************************************************************************)
(* One install attempt after another, as the user meets them: the pipeline *)
(* of app/install_engine.go with its journal (install_journal.go), the app *)
(* that runs it in a worker (app.go), and the recovery that classifies     *)
(* what an attempt left behind and clears the way for the next one         *)
(* (install_recovery.go).                                                  *)
(*                                                                         *)
(* The boot chain, whose protocol is module BootTxn, is two variables      *)
(* here; the deployer, startup recovery and the user's three boot commands *)
(* (recovery_windows.go, boot_repair.go) act on it in whole steps.         *)
(***************************************************************************)
EXTENDS Naturals, Sequences

CONSTANTS
    Recoverers,  \* processes that may prepare a resume (the app, the CLI)
    Overtaking,  \* may an attempt start between a recoverer's look and its removal?
    Faults,      \* the kinds of call that may fail
    MaxRuns,     \* bound: install attempts
    MaxFaults,   \* bound: failing calls
    MaxCuts      \* bound: crashes of the app and power cuts

FaultKinds == {"step",      \* a pipeline step returns an error
               "journal",   \* a write of journal.json fails
               "boot",      \* a boot change or its rollback fails or is not confirmed
               "removal"}   \* ... in an uninstall, which goes on all the same

ASSUME ConstantsAssumption ==
    /\ Overtaking \in BOOLEAN
    /\ Faults \subseteq FaultKinds
    /\ MaxRuns \in Nat /\ MaxFaults \in Nat /\ MaxCuts \in Nat

\* productionInstallSteps, with the steps that change the same thing joined.
Steps == <<"windows", "room", "download", "esp", "bcd", "settings", "finish">>
StepNo(name) == CHOOSE i \in DOMAIN Steps : Steps[i] = name

\* InstallJournal: the attempt, how it ended, the step that runs (0: none)
\* and the number of steps that finished.
Journals == [attempt: 0..MaxRuns,
             outcome: {"absent", "running", "cancelled", "failed", "armed"},
             cur: 0..Len(Steps), done: 0..Len(Steps)]
NoJournal == [attempt |-> 0, outcome |-> "absent", cur |-> 0, done |-> 0]

VARIABLES
    journal,    \* journal.json
    state,      \* state.json
    armed,      \* armed.json exists
    started,    \* deployer-started.json exists
    verdict,    \* recovery-verdict.json exists
    diskBy,     \* the attempt that made root.disk, 0 when there is none
    linux,      \* the deployer has written to root.disk
    changed,    \* what is changed outside C:\wootc
    chain,      \* the boot entry: none, there, or armed for one start
    open,       \* boot-txn.json is short of committed, and not rolled back
    asked,      \* history: the user has asked for this chain again
    vouched,    \* history: since Windows started the chain was armed or judged
                \* by startup recovery, and nobody has taken it out since
    machine,    \* who runs: windows, deployer, or nobody (off)
    pending,    \* the startup recovery task has not run since Windows started
    app,        \* the installer process is open
    owner,      \* ... and it is the process that wrote journal.json
    pc, step,   \* the worker and its pipeline step
    rollback,   \* Run's variable armed: from here on a stop must disarm
    cancelled,  \* the worker's context is cancelled
    why,        \* how the worker is ending
    mem,        \* the journal recorder's copy
    rec,        \* what each recoverer is about to do
    runs, faults, cuts

recVars == <<journal, state, armed, started, verdict>>
bootVars == <<chain, open, asked, vouched>>
sysVars == <<diskBy, linux, changed, bootVars>>
workVars == <<pc, step, rollback, cancelled, why, mem>>
vars == <<recVars, sysVars, machine, pending, app, owner, workVars, rec, runs,
          faults, cuts>>

WorkerPCs == {"prepare", "select", "run", "record", "finish", "disarm", "state",
              "end"}

Flags ==
    /\ armed \in BOOLEAN /\ started \in BOOLEAN /\ verdict \in BOOLEAN
    /\ linux \in BOOLEAN /\ pending \in BOOLEAN /\ app \in BOOLEAN
    /\ owner \in BOOLEAN /\ rollback \in BOOLEAN /\ cancelled \in BOOLEAN
    /\ open \in BOOLEAN /\ asked \in BOOLEAN /\ vouched \in BOOLEAN

Chains == {"none", "entry", "armed"}

TypeOK ==
    /\ Flags
    /\ journal \in Journals /\ mem \in Journals
    /\ state \in {"none", "staged", "armed", "deploying", "deployed", "healthy",
                  "failed"}
    /\ diskBy \in 0..MaxRuns
    /\ changed \subseteq {"power", "esp"}
    /\ chain \in Chains
    /\ machine \in {"windows", "deployer", "off"}
    /\ pc \in WorkerPCs \union {"none", "uninstall"}
    /\ step \in 1..Len(Steps)
    /\ why \in {"none", "cancelled", "failed", "armed"}
    /\ rec \in [Recoverers -> {"idle", "discard"}]
    /\ runs \in 0..MaxRuns /\ faults \in 0..MaxFaults /\ cuts \in 0..MaxCuts

Init ==
    /\ journal = NoJournal /\ mem = NoJournal
    /\ state = "none" /\ armed = FALSE /\ started = FALSE /\ verdict = FALSE
    /\ diskBy = 0 /\ linux = FALSE /\ changed = {} /\ chain = "none"
    /\ open = FALSE /\ asked = FALSE /\ vouched = FALSE
    /\ machine = "windows" /\ pending = FALSE /\ app = FALSE /\ owner = FALSE
    /\ pc = "none" /\ step = 1 /\ rollback = FALSE /\ cancelled = FALSE
    /\ why = "none"
    /\ rec = [r \in Recoverers |-> "idle"]
    /\ runs = 0 /\ faults = 0 /\ cuts = 0

-----------------------------------------------------------------------------
(* install_recovery.go *)

BootSteps == {StepNo("esp"), StepNo("bcd")}

\* Mutant: only the step that was running tells whether the boot chain was
\* touched.
TouchedNow(j) == j.cur \in BootSteps

\* bootChainTouched
BootChainTouched(j) == \E s \in BootSteps : j.cur = s \/ j.done >= s

RootDiskStepReached(j) == j.cur = StepNo("room") \/ j.done >= StepNo("room")

\* partialRootDiskOwned
PartialRootDiskOwned ==
    /\ journal.outcome # "absent" /\ diskBy # 0 /\ ~started /\ ~armed
    /\ RootDiskStepReached(journal)
    /\ state \notin {"deploying", "deployed", "healthy"}
    /\ diskBy >= journal.attempt

\* A healthy word stands only with first-boot evidence (verifiedLifecycleAt).
VerifiedStates == IF state = "healthy" THEN {"healthy", "deployed"} ELSE {state}

Verdict(class, cause, resume) == [class |-> class, cause |-> cause, resume |-> resume]

\* Mutant: the verdict of startup recovery is not looked at.
CauseWithoutVerdict(ls) ==
    IF ls \in {"healthy", "deployed"} THEN ls
    ELSE IF ls = "deploying" THEN "deployer-interrupted"
    ELSE IF ls = "failed" /\ started THEN "deployer-failed"
    ELSE IF journal.outcome = "armed" \/ (journal.outcome = "absent" /\ ls = "armed")
         THEN "awaiting-restart"
    ELSE "none"

\* classifyInstall for the phases after the restart, and for a Phase 1 that
\* finished.  "none" passes the decision on.
PhaseTwoCause(ls) ==
    IF ls \in {"healthy", "deployed"} THEN ls
    ELSE IF ls = "deploying" THEN "deployer-interrupted"
    ELSE IF ls = "failed" /\ started THEN "deployer-failed"
    ELSE IF \/ journal.outcome = "armed"
            \/ journal.outcome = "absent" /\ ls = "armed"
         THEN IF verdict /\ ~started THEN "never-booted" ELSE "awaiting-restart"
    ELSE "none"

\* Mutant: a record that says running is believed while any process is open.
OwnerUpWhenOpen == app

\* observeInstallAt: the process that wrote the journal is alive.
OwnerUp == owner

\* classifyInstall for a Phase 1 that did not finish, classifyWithoutJournal.
PhaseOne ==
    IF journal.outcome = "absent"
    THEN IF state \in {"failed", "staged"}
         THEN Verdict("failed", "no-journal", diskBy = 0 /\ ~armed)
         ELSE Verdict("none", "none", FALSE)
    ELSE IF journal.outcome = "running" /\ OwnerUp
    THEN Verdict("in-progress", "none", FALSE)
    ELSE LET cause == IF journal.outcome = "running" THEN "interrupted"
                      ELSE IF journal.outcome = "cancelled" THEN "cancelled"
                      ELSE "step-failed"
         IN  IF BootChainTouched(journal)
             THEN Verdict("needs-repair", cause, FALSE)
             ELSE Verdict(IF cause = "step-failed" THEN "failed" ELSE "resumable",
                          cause, diskBy = 0 \/ PartialRootDiskOwned)

\* classifyInstall
Classify(ls) ==
    LET c == PhaseTwoCause(ls) IN
    IF c \in {"healthy", "deployed", "awaiting-restart"} THEN Verdict("complete", c, FALSE)
    ELSE IF c = "deployer-failed" THEN Verdict("failed", c, FALSE)
    ELSE IF c \in {"deployer-interrupted", "never-booted"}
         THEN Verdict("resumable", c, FALSE)
    ELSE PhaseOne

-----------------------------------------------------------------------------
(* The worker: installEngine.Run *)

Works(kind, ok) ==
    \/ ok /\ faults' = faults
    \/ /\ ~ok
       /\ kind \in Faults /\ faults < MaxFaults
       /\ faults' = faults + 1

\* installJournalRecorder.flush is best effort: the run goes on without it.
Flush(j) ==
    /\ mem' = j
    /\ \E ok \in BOOLEAN :
          /\ Works("journal", ok)
          /\ journal' = IF ok THEN j ELSE journal
          /\ owner' = (ok \/ owner)

Worker(l) == machine = "windows" /\ app /\ pc = l

OpenApp ==
    /\ machine = "windows" /\ ~app
    /\ app' = TRUE /\ owner' = FALSE
    /\ UNCHANGED <<recVars, sysVars, machine, pending, workVars, rec, runs, faults,
                   cuts>>

\* startInstallWorker: the slot is free once the last worker has returned.
StartInstall ==
    /\ Worker("none") /\ runs < MaxRuns
    /\ pc' = "prepare" /\ cancelled' = FALSE
    /\ UNCHANGED <<recVars, sysVars, machine, pending, app, owner, step, rollback,
                   why, mem, rec, runs, faults, cuts>>

\* CancelInstall, or the app's shutdown.
CancelInstall ==
    /\ machine = "windows" /\ app /\ pc \in WorkerPCs /\ ~cancelled
    /\ cancelled' = TRUE
    /\ UNCHANGED <<recVars, sysVars, machine, pending, app, owner, pc, step,
                   rollback, why, mem, rec, runs, faults, cuts>>

\* prepare: an existing root.disk refuses the run before its journal starts.
PrepareRefused ==
    /\ Worker("prepare") /\ diskBy # 0
    /\ pc' = "none"
    /\ UNCHANGED <<recVars, sysVars, machine, pending, app, owner, step, rollback,
                   cancelled, why, mem, rec, runs, faults, cuts>>

Prepare ==
    /\ Worker("prepare") /\ diskBy = 0
    /\ Overtaking \/ \A r \in Recoverers : rec[r] = "idle"
    /\ runs' = runs + 1
    /\ Flush([attempt |-> runs', outcome |-> "running", cur |-> 0, done |-> 0])
    /\ pc' = "select" /\ step' = 1 /\ rollback' = FALSE /\ why' = "none"
    /\ UNCHANGED <<state, armed, started, verdict, sysVars, machine, pending, app,
                   cancelled, rec, cuts>>

\* Where a stop goes first.
StopAt == IF rollback THEN "disarm" ELSE "state"

CancelSeen ==
    /\ Worker("select") /\ cancelled
    /\ why' = "cancelled" /\ pc' = StopAt
    /\ UNCHANGED <<recVars, sysVars, machine, pending, app, owner, step, rollback,
                   cancelled, mem, rec, runs, faults, cuts>>

StepStarts ==
    /\ Worker("select") /\ ~cancelled
    /\ Flush([mem EXCEPT !.cur = step])
    /\ pc' = "run" /\ rollback' = (rollback \/ Steps[step] = "bcd")
    /\ UNCHANGED <<state, armed, started, verdict, sysVars, machine, pending, app,
                   step, cancelled, why, rec, runs, cuts>>

\* What the steps change; the other steps only fill C:\wootc.
Effect(s) ==
    /\ changed' = changed \union (IF s = "windows" THEN {"power"}
                                  ELSE IF s = "esp" THEN {"esp"} ELSE {})
    /\ diskBy' = IF s = "room" THEN mem.attempt ELSE diskBy
    /\ armed' = (armed \/ s = "bcd")
    /\ chain' = IF s = "bcd" THEN "entry" ELSE IF s = "finish" THEN "armed" ELSE chain
    /\ open' = IF s = "bcd" THEN TRUE ELSE IF s = "finish" THEN FALSE ELSE open
    /\ vouched' = (vouched \/ s = "finish")
    /\ asked' = asked

\* What root disk creation and armBootChain refuse to start from: a disk that
\* is there, and a boot transaction or a record that is not.
CanRun(s) ==
    /\ s = "room" => diskBy = 0
    /\ s = "finish" => open /\ armed

StepRuns ==
    /\ Worker("run")
    /\ CanRun(Steps[step]) /\ Effect(Steps[step])
    /\ pc' = "record"
    /\ UNCHANGED <<journal, state, started, verdict, linux, machine, pending, app,
                   owner, step, rollback, cancelled, why, mem, rec, runs, faults,
                   cuts>>

StepRecorded ==
    /\ Worker("record")
    /\ Flush([mem EXCEPT !.cur = 0, !.done = step])
    /\ IF step = Len(Steps) THEN pc' = "finish" /\ step' = step
                            ELSE pc' = "select" /\ step' = step + 1
    /\ UNCHANGED <<state, armed, started, verdict, sysVars, machine, pending, app,
                   rollback, cancelled, why, rec, runs, cuts>>

\* A step returns an error, with or without having done its work, the boot
\* step also with an entry it has not recorded: on its own, because of what
\* it finds, or, in the downloads, because the context was cancelled.
StepFails ==
    /\ Worker("run")
    /\ \/ Works("step", FALSE)
       \/ /\ (Steps[step] = "download" /\ cancelled) \/ ~CanRun(Steps[step])
          /\ faults' = faults
    /\ \/ UNCHANGED <<changed, diskBy, armed, bootVars>>
       \/ CanRun(Steps[step]) /\ Effect(Steps[step])
       \/ /\ Steps[step] = "bcd" /\ chain' = "entry" /\ open' = TRUE
          /\ UNCHANGED <<changed, diskBy, armed, asked, vouched>>
    /\ why' = "failed" /\ pc' = StopAt
    /\ UNCHANGED <<journal, state, started, verdict, linux, machine, pending, app,
                   owner, step, rollback, cancelled, mem, rec, runs, cuts>>

\* finishInstallPipeline
FinishPipeline ==
    /\ Worker("finish")
    /\ IF cancelled THEN why' = "cancelled" /\ pc' = StopAt /\ state' = state
                    ELSE why' = "armed" /\ pc' = "end" /\ state' = "armed"
    /\ UNCHANGED <<journal, armed, started, verdict, sysVars, machine, pending, app,
                   owner, step, rollback, cancelled, mem, rec, runs, faults, cuts>>

\* What rollbackBootChainTxn may leave when it cannot confirm the rollback: it
\* deletes the entry and the one-shot by commands of their own and may also
\* fail to read what it deleted.
Left == {chain, "none"} \union (IF chain = "armed" THEN {"entry"} ELSE {})

\* Mutant: an unconfirmed rollback is journalled as rolled back.
RollBackTrusted(ok) ==
    IF ok THEN chain' = "none" /\ open' = FALSE /\ asked' = FALSE
          ELSE chain' \in Left /\ open' = FALSE /\ asked' = asked

\* rollbackBootChain
RollBack(ok) ==
    IF ok THEN chain' = "none" /\ open' = FALSE /\ asked' = FALSE
          ELSE chain' \in Left /\ open' = TRUE /\ asked' = asked

\* disarmOneShot returns early when the rollback is not confirmed; Run goes on.
DisarmOneShot ==
    /\ Worker("disarm")
    /\ \E ok \in BOOLEAN :
          /\ Works("boot", ok) /\ RollBack(ok)
          /\ armed' = (armed /\ ~ok)
    /\ pc' = "state"
    /\ UNCHANGED <<journal, state, started, verdict, diskBy, linux, changed, vouched,
                   machine, pending, app, owner, step, rollback, cancelled, why, mem,
                   rec, runs, cuts>>

WriteState ==
    /\ Worker("state")
    /\ state' = IF why = "cancelled" THEN "staged" ELSE "failed"
    /\ pc' = "end"
    /\ UNCHANGED <<journal, armed, started, verdict, sysVars, machine, pending, app,
                   owner, step, rollback, cancelled, why, mem, rec, runs, faults,
                   cuts>>

EndJournal ==
    /\ Worker("end")
    /\ Flush([mem EXCEPT !.outcome = why])
    /\ pc' = "none"
    /\ UNCHANGED <<state, armed, started, verdict, sysVars, machine, pending, app,
                   step, rollback, cancelled, why, rec, runs, cuts>>

-----------------------------------------------------------------------------
(* Recovery by the user *)

\* prepareResumeAt observes, and then removes what it may; PrepareResume in
\* the app refuses while its own worker runs, the command line does not ask.
ObserveForResume(r) ==
    /\ machine = "windows" /\ rec[r] = "idle"
    /\ \E ls \in VerifiedStates : Classify(ls).resume
    /\ diskBy # 0
    /\ rec' = [rec EXCEPT ![r] = "discard"]
    /\ UNCHANGED <<recVars, sysVars, machine, pending, app, owner, workVars, runs,
                   faults, cuts>>

DiscardRootDisk(r) ==
    /\ machine = "windows" /\ rec[r] = "discard"
    /\ diskBy' = 0 /\ linux' = FALSE
    /\ rec' = [rec EXCEPT ![r] = "idle"]
    /\ UNCHANGED <<recVars, changed, bootVars, machine, pending, app, owner,
                   workVars, runs, faults, cuts>>

\* armOneShotFromPersistedGUID, which BootIntoLinux calls, and tryAgainFromArmed
\* when there is no armed.json: the one-shot alone is set again.
BootIntoLinux ==
    /\ Worker("none") /\ chain # "none"
    /\ chain' = "armed" /\ asked' = TRUE /\ vouched' = TRUE
    /\ UNCHANGED <<recVars, diskBy, linux, changed, open, machine, pending, app,
                   owner, workVars, rec, runs, faults, cuts>>

\* tryAgainFromArmed
TryAgain ==
    /\ Worker("none") /\ armed /\ chain # "none"
    /\ chain' = "armed" /\ asked' = TRUE /\ vouched' = TRUE
    /\ state' = "armed" /\ started' = FALSE /\ verdict' = FALSE
    /\ UNCHANGED <<journal, armed, diskBy, linux, changed, open, machine, pending,
                   app, owner, workVars, rec, runs, faults, cuts>>

\* restoreWindowsBoot, from the app or from a command line of its own, takes the
\* one-shot out and leaves every record as it was.  When the command for the
\* one-shot fails nothing changed, and the later ones touch nothing of this.
RestoreWindowsBoot ==
    /\ machine = "windows" /\ chain = "armed"
    /\ chain' = "entry" /\ vouched' = FALSE
    /\ UNCHANGED <<recVars, diskBy, linux, changed, open, asked, machine, pending,
                   app, owner, workVars, rec, runs, faults, cuts>>

\* planBootRepair's CanRepairBoot
CanRepairBoot == armed /\ state \notin {"deployed", "healthy"}

\* repairBootFromArmed stages the files again and builds and arms a new chain.
RepairBoot ==
    /\ Worker("none") /\ CanRepairBoot
    /\ changed' = changed \union {"esp"}
    /\ chain' = "armed" /\ open' = FALSE /\ asked' = TRUE /\ vouched' = TRUE
    /\ state' = "armed" /\ started' = FALSE /\ verdict' = FALSE
    /\ UNCHANGED <<journal, armed, diskBy, linux, machine, pending, app, owner,
                   workVars, rec, runs, faults, cuts>>

\* One of its calls fails, or it dies: before the new transaction, inside it,
\* after a rollback that is confirmed or is not, or behind the commit, where a
\* chain that is not verified loses its one-shot if that can be.  The records
\* of the attempt stay.
RepairStops ==
    /\ Worker("none") /\ CanRepairBoot
    /\ Works("boot", FALSE)
    /\ changed' = changed \union {"esp"}
    /\ chain' \in Chains /\ open' \in BOOLEAN /\ asked' = TRUE /\ vouched' = FALSE
    /\ UNCHANGED <<recVars, diskBy, linux, machine, pending, app, owner, workVars,
                   rec, runs, cuts>>

\* uninstallWith up to the removal of install\, whose files go in the order of
\* their names: armed.json, boot-txn.json, deployer-started.json and, later, the
\* journal.  The process can die with any part of it done.  An unconfirmed
\* rollback does not stop it.
StartUninstall ==
    /\ Worker("none")
    /\ \E ok \in BOOLEAN : Works("removal", ok) /\ RollBack(ok)
    /\ armed' = FALSE /\ started' \in {started, FALSE}
    /\ changed' \in SUBSET changed /\ pc' = "uninstall"
    /\ UNCHANGED <<journal, state, verdict, diskBy, linux, vouched, machine, pending,
                   app, owner, step, rollback, cancelled, why, mem, rec, runs, cuts>>

\* The rest of install\, state.json and, when it was asked for, root.disk.
FinishUninstall ==
    /\ Worker("uninstall")
    /\ journal' = NoJournal /\ started' = FALSE /\ verdict' = FALSE /\ state' = "none"
    /\ changed' = {} /\ open' = FALSE /\ owner' = FALSE /\ pc' = "none"
    /\ \/ diskBy' = 0 /\ linux' = FALSE
       \/ UNCHANGED <<diskBy, linux>>
    /\ UNCHANGED <<armed, chain, asked, vouched, machine, pending, app, step,
                   rollback, cancelled, why, mem, rec, runs, faults, cuts>>

-----------------------------------------------------------------------------
(* Crashes, restarts and what happens outside the app *)

AppEnds ==
    /\ app' = FALSE /\ owner' = FALSE /\ pc' = "none"
    /\ UNCHANGED <<step, rollback, cancelled, why, mem>>

CloseApp ==
    /\ Worker("none")
    /\ AppEnds
    /\ UNCHANGED <<recVars, sysVars, machine, pending, rec, runs, faults, cuts>>

AppCrashes ==
    /\ machine = "windows" /\ app /\ pc # "none" /\ cuts < MaxCuts
    /\ cuts' = cuts + 1
    /\ AppEnds
    /\ UNCHANGED <<recVars, sysVars, machine, pending, rec, runs, faults>>

PowerOff ==
    /\ machine' = "off"
    /\ AppEnds
    /\ rec' = [r \in Recoverers |-> "idle"]
    /\ UNCHANGED <<pending, runs, faults>>

Restart ==
    /\ machine = "windows" /\ pc = "none"
    /\ PowerOff
    /\ UNCHANGED <<recVars, sysVars, cuts>>

PowerCut ==
    /\ machine # "off" /\ cuts < MaxCuts
    /\ cuts' = cuts + 1
    /\ PowerOff
    /\ UNCHANGED <<recVars, sysVars>>

\* The one-shot is used up whatever starts.
Used == IF chain = "armed" THEN "entry" ELSE chain

\* The startup task may be missing: a stop, an uninstall and a repair whose
\* registration failed unregister it.
StartWindows ==
    /\ machine = "off"
    /\ machine' = "windows" /\ pending' \in BOOLEAN
    /\ chain' = Used /\ vouched' = FALSE
    /\ UNCHANGED <<recVars, diskBy, linux, changed, open, asked, app, owner,
                   workVars, rec, runs, faults, cuts>>

\* The staged loader starts the deployer until the deployer has replaced it.
StartDeployer ==
    /\ machine = "off" /\ chain = "armed" /\ state \notin {"deployed", "healthy"}
    /\ diskBy # 0 /\ "esp" \in changed
    /\ machine' = "deployer" /\ chain' = "entry"
    /\ started' = TRUE /\ state' = "deploying" /\ linux' = TRUE
    /\ UNCHANGED <<journal, armed, verdict, diskBy, changed, open, asked, vouched,
                   pending, app, owner, workVars, rec, runs, faults, cuts>>

\* It ends in "deployed", with the one-shot set again if it can be, or in
\* "failed".
DeployerEnds ==
    /\ machine = "deployer"
    /\ \/ state' = "deployed" /\ chain' \in {"entry", "armed"}
       \/ state' = "failed" /\ chain' = chain
    /\ PowerOff
    /\ UNCHANGED <<journal, armed, started, verdict, diskBy, linux, changed, open,
                   asked, vouched, cuts>>

StartLinux ==
    /\ machine = "off" /\ chain = "armed" /\ state \in {"deployed", "healthy"}
    /\ chain' = "entry" /\ state' = "healthy"
    /\ UNCHANGED <<journal, armed, started, verdict, diskBy, linux, changed, open,
                   asked, vouched, machine, pending, app, owner, workVars, rec, runs,
                   faults, cuts>>

\* recoverBootTxnAtStartup: an open transaction is rolled back.  When that is
\* not confirmed, or its task is not removed, the records stay.
StartupRollback ==
    /\ machine = "windows" /\ pending /\ open
    /\ pending' = FALSE /\ vouched' = FALSE
    /\ \E ok, gone \in BOOLEAN :
          /\ Works("boot", ok /\ gone) /\ RollBack(ok)
          /\ IF ok /\ gone
             THEN armed' = FALSE /\ verdict' = FALSE /\ state' = "failed"
             ELSE UNCHANGED <<armed, verdict, state>>
    /\ UNCHANGED <<journal, started, diskBy, linux, changed, machine, app, owner,
                   workVars, rec, runs, cuts>>

\* The rest of runRecoverStartup: the verdict on a chain that was armed.
StartupVerdict ==
    /\ machine = "windows" /\ pending /\ ~open
    /\ pending' = FALSE /\ vouched' = TRUE
    /\ chain' = IF armed THEN Used ELSE chain
    /\ \/ ~armed /\ UNCHANGED <<armed, verdict>>
       \/ armed /\ state # "healthy" /\ verdict' = TRUE /\ armed' = armed
       \/ armed /\ state = "healthy" /\ armed' \in BOOLEAN /\ verdict' = armed'
    /\ UNCHANGED <<journal, state, started, diskBy, linux, changed, open, asked,
                   machine, app, owner, workVars, rec, runs, faults, cuts>>

-----------------------------------------------------------------------------
WorkerStep ==
    \/ PrepareRefused \/ Prepare \/ CancelSeen \/ StepStarts \/ StepRuns
    \/ StepRecorded \/ StepFails \/ FinishPipeline \/ DisarmOneShot \/ WriteState
    \/ EndJournal

UserStep ==
    \/ OpenApp \/ StartInstall \/ CancelInstall \/ TryAgain \/ BootIntoLinux
    \/ RestoreWindowsBoot \/ RepairBoot \/ RepairStops \/ StartUninstall
    \/ FinishUninstall \/ CloseApp \/ Restart

RecovererStep == \E r \in Recoverers : ObserveForResume(r) \/ DiscardRootDisk(r)

World ==
    \/ AppCrashes \/ PowerCut \/ StartWindows \/ StartDeployer \/ DeployerEnds
    \/ StartLinux \/ StartupRollback \/ StartupVerdict

Next == WorkerStep \/ UserStep \/ RecovererStep \/ World

Spec == Init /\ [][Next]_vars

-----------------------------------------------------------------------------
(* Properties *)

\* Windows runs, its startup task has run, and no pipeline or uninstall is
\* under way: what a relaunch looks at.
AtRest == machine = "windows" /\ ~pending /\ pc = "none"

\* install_recovery.go:119-122, "root.disk may hold someone's Linux, so it is
\* kept": only an uninstall that was asked to removes a disk the deployer has
\* written to, whatever crashes and half-done removals left on record.
LinuxDiskKept ==
    [][ (linux /\ diskBy' = 0) => pc = "uninstall" ]_vars

\* install_recovery.go:283-296: an attempt called resumable or failed, with
\* "Nothing outside the installation folder changed, and Windows starts as
\* usual", has left no boot entry and no file on the ESP.
BootUntouchedIfResumable ==
    AtRest => \A ls \in VerifiedStates :
        Classify(ls).cause \in {"interrupted", "cancelled", "step-failed"}
            /\ Classify(ls).class # "needs-repair"
        => chain = "none" /\ "esp" \notin changed

Stopped == pc = "none" /\ journal.outcome \in {"cancelled", "failed"}

\* installer_esp.go:642-651, "fails closed": what an attempt that was cancelled
\* or failed leaves of its boot chain is still open in boot-txn.json, so that
\* every start of Windows takes it back again, unless the user has asked for
\* the chain since; and a one-shot that may still start the deployer is on
\* record in armed.json.
StopFailsClosed ==
    Stopped /\ ~asked => /\ chain # "none" => open
                         /\ chain = "armed" => armed

\* install_recovery.go:206-210: while armed.json records a chain, "Ready to
\* restart" is only said when the one-shot really is armed, once startup
\* recovery has judged this start or the chain was armed during it, and nobody
\* has taken it out again.
AwaitingRestartIsArmed ==
    AtRest /\ armed /\ vouched => \A ls \in VerifiedStates :
        Classify(ls).cause = "awaiting-restart" => chain = "armed"

\* install_engine.go:263-268: a stop "must DISARM it", whatever fails.
OneShotTurnedOff == Stopped /\ ~asked => chain # "armed"

\* install_recovery.go:206-210, of every state with a recorded chain.
ReadyWheneverSaid ==
    AtRest /\ armed => \A ls \in VerifiedStates :
        Classify(ls).cause = "awaiting-restart" => chain = "armed"

\* install_journal.go:16-20: "running" is only believed, and the way out only
\* withheld, while the pipeline that wrote it is running.
InProgressIsReal ==
    AtRest => \A ls \in VerifiedStates : Classify(ls).class # "in-progress"

\* install_recovery.go:285: what the message of a resumable attempt says
\* about the machine, power settings included.
NothingOutsideChanged ==
    AtRest => \A ls \in VerifiedStates :
        Classify(ls).class = "resumable" /\ Classify(ls).cause \in {"interrupted", "cancelled"}
        => changed = {}
=============================================================================
