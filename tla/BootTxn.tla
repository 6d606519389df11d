------------------------------- MODULE BootTxn -------------------------------
(***************************************************************************)
(* The boot-chain transaction of app/boot_txn.go and everything that acts  *)
(* on the machine it journals:                                             *)
(*                                                                         *)
(*   - configureBCD / armBootChain / disarmOneShot (installer_esp.go), run *)
(*     by the install pipeline (install_engine.go) and by boot repair;     *)
(*   - the startup recovery task (recovery_windows.go);                    *)
(*   - TryAgain and BootIntoLinux, which re-arm an existing entry;         *)
(*   - the firmware, the deployer and the installed Linux, as far as the   *)
(*     Windows side depends on them.                                       *)
(*                                                                         *)
(* One Windows process acts at a time.  Every bcdedit command, journal     *)
(* write and record write is a step of its own, so the power can fail      *)
(* between any two of them.                                                *)
(***************************************************************************)
EXTENDS Naturals, Sequences

CONSTANTS
    Guid,        \* the identifiers bcdedit /copy can return
    NoGuid,      \* the empty identifier
    Foreign,     \* a firmware entry of another product
    Torn,        \* an armed.json that exists and cannot be parsed
    Ops,         \* the operations the user performs
    CopyPlaces,  \* where this firmware puts a /copy clone in the boot order
    Faults,      \* the kinds of call that may fail
    MaxFaults,   \* bound: failing calls
    MaxCuts      \* bound: power cuts

UserOps == {"install", "repair", "restore", "tryagain", "bootlinux", "uninstall"}
Places == {"out", "behind", "ahead"}   \* relative to Windows Boot Manager
FaultKinds == {"cmd",    \* bcdedit writes: refused, or without effect
               "enum",   \* bcdedit /enum and ESP hashes: unreadable
               "save",   \* journal and record writes: refused
               "task",   \* Task Scheduler calls: refused
               "esp",    \* the EFI system partition: not found, or rewritten
               "torn"}   \* a power cut inside a write that is not atomic

ASSUME ConstantsAssumption ==
    /\ NoGuid \notin Guid
    /\ Foreign \notin Guid \union {NoGuid}
    /\ Torn \notin Guid \union {NoGuid, Foreign}
    /\ Ops \subseteq UserOps
    /\ CopyPlaces \subseteq Places /\ CopyPlaces # {}
    /\ Faults \subseteq FaultKinds
    /\ MaxFaults \in Nat
    /\ MaxCuts \in Nat

MaxAttempts == 3   \* buildBootEntry attempts, in beginning and in arming
MaxSweeps == 2     \* rollback attempts

Phases == {"none", "begun", "creating-entry", "entry-created", "prepared",
           "arming", "committed", "rolling-back", "rolled-back",
           "rollback-unconfirmed"}
States == {"none", "staged", "armed", "deploying", "deployed", "healthy",
           "failed"}
Verdicts == {"none", "never-booted", "interrupted", "failed", "deployed"}

VARIABLES
    \* firmware and ESP
    store,      \* each entry: absent, copied (path still bootmgr's) or pathed
    order,      \* each entry's place in the permanent firmware boot order
    bootseq,    \* the one-shot bootsequence of {fwbootmgr}
    esp,        \* what the staged loader boots: deployer, phase2, or changed
    \* C:\wootc
    journal,    \* boot-txn.json
    guidFile,   \* bcd-guid.txt
    armedFile,  \* the entry armed.json records, NoGuid when there is no file
    state,      \* state.json
    started,    \* deployer-started.json exists
    verdict,    \* recovery-verdict.json
    tasks,      \* both recovery tasks are registered
    disk,       \* disks\root.disk exists
    \* the running process
    machine,    \* who runs: windows, deployer, linux, or nobody (off)
    pc,         \* its next step
    op,         \* the operation it performs
    stage,      \* the caller of the transaction step in progress
    txn,        \* the BootTxn in memory
    attempt,    \* the for-loop counter of begin and arm
    sweeps,     \* the for-loop counter of rollback, 0 outside it
    cmds,       \* bcdedit commands the current sweep still has to run
    \* bounds
    faults, cuts

fwVars == <<store, order, bootseq, esp>>
recVars == <<guidFile, armedFile, state, started, verdict, tasks, disk>>
procVars == <<op, stage, attempt, sweeps, cmds>>
vars == <<fwVars, journal, recVars, machine, pc, txn, procVars, faults, cuts>>

GuidOrNone == Guid \union {NoGuid}
Txn == [phase: Phases, guid: GuidOrNone]
NoTxn == [phase |-> "none", guid |-> NoGuid]
Cmd == [do: {"clear", "unseq", "unorder", "delete"}, id: GuidOrNone]

PCs == {"idle", "register", "begun", "sweepLook", "sweep", "copy", "created",
        "setpath", "unorder", "guidfile", "armedfile", "verify", "prepared",
        "pipeline", "arming", "addfirst", "verifyArmed", "commit",
        "rbSave", "rbDone", "rbUnconf", "opFailed", "finish", "dropStarted",
        "repairVerify", "dropGuid", "dropTasks", "dropArmed", "endState",
        "startup", "judge", "retry", "rearm", "return",
        "unregister", "cleanEsp", "wipe", "wipeRest",
        "d0", "d1", "d2", "d3", "d4", "linux"}

TypeOK ==
    /\ store \in [Guid -> {"absent", "copied", "pathed"}]
    /\ order \in [Guid -> Places]
    /\ bootseq \in Seq(Guid \union {Foreign})
    /\ esp \in {"none", "deployer", "phase2", "changed"}
    /\ journal \in Txn
    /\ guidFile \in GuidOrNone
    /\ armedFile \in GuidOrNone \union {Torn}
    /\ state \in States
    /\ started \in BOOLEAN
    /\ verdict \in Verdicts
    /\ tasks \in BOOLEAN
    /\ disk \in BOOLEAN
    /\ machine \in {"windows", "deployer", "linux", "off"}
    /\ pc \in PCs
    /\ op \in {"none", "install", "cancelled", "failed", "repair", "tryagain",
              "startup", "uninstall", "restore"}
    /\ stage \in {"none", "begin", "arm", "disarm", "startup", "uninstall",
                  "restore"}
    /\ txn \in Txn
    /\ attempt \in 1..MaxAttempts
    /\ sweeps \in 0..MaxSweeps
    /\ cmds \subseteq Cmd
    /\ faults \in 0..MaxFaults
    /\ cuts \in 0..MaxCuts

Init ==
    /\ store = [g \in Guid |-> "absent"]
    /\ order = [g \in Guid |-> "out"]
    /\ bootseq \in {<<>>, <<Foreign>>}
    /\ esp = "none"
    /\ journal = NoTxn
    /\ guidFile = NoGuid
    /\ armedFile = NoGuid
    /\ state = "none"
    /\ started = FALSE
    /\ verdict = "none"
    /\ tasks = FALSE
    /\ disk = FALSE
    /\ machine = "windows"
    /\ pc = "idle"
    /\ op = "none"
    /\ stage = "none"
    /\ txn = NoTxn
    /\ attempt = 1
    /\ sweeps = 0
    /\ cmds = {}
    /\ faults = 0
    /\ cuts = 0

-----------------------------------------------------------------------------
(* What bcdedit shows and does *)

Elems(s) == {s[i] : i \in DOMAIN s}

\* bcdedit /set {fwbootmgr} bootsequence id /remove
Without(s, id) ==
    IF id \in Elems(s)
    THEN LET i == CHOOSE k \in DOMAIN s : s[k] = id
         IN  SubSeq(s, 1, i - 1) \o SubSeq(s, i + 1, Len(s))
    ELSE s

\* bcdedit /set {fwbootmgr} bootsequence id /addfirst
AddFirst(s, id) == <<id>> \o Without(s, id)

Live(g) == store[g] # "absent"

\* wootcEntryIDs: described "wootc" in the listing, or the journaled GUID.
WootcEntryIDs(guid) == {g \in Guid : Live(g) \/ g = guid}

\* Mutant: a rollback that only looks at the entry its journal names.
JournaledResidue(guid) ==
    guid \in Guid /\ (Live(guid) \/ guid \in Elems(bootseq) \/ order[guid] # "out")

\* bootChainResidue: what a rollback must still remove.
Residue(guid) ==
    \E id \in WootcEntryIDs(guid) :
        Live(id) \/ id \in Elems(bootseq) \/ order[id] # "out"

\* Mutant: the chain counts as proven once its entry has the loader's path.
EntryPathed(t, wantArmed) == t.guid \in Guid /\ store[t.guid] = "pathed"

\* bootChainProblems reports nothing: the chain has exactly the inert shape
\* (wantArmed = FALSE) or the armed one.
ChainVerified(t, wantArmed) ==
    /\ t.guid \in Guid
    /\ store[t.guid] = "pathed"
    /\ \A g \in Guid : Live(g) => g = t.guid
    /\ order[t.guid] = "out"
    /\ IF wantArmed THEN bootseq # <<>> /\ Head(bootseq) = t.guid
                    ELSE t.guid \notin Elems(bootseq)
    /\ esp = "deployer"

\* Mutant: a one-shot with any element of wootc is cleared as a whole.
ClearingSweepPlan(guid) ==
    LET ids == WootcEntryIDs(guid)
    IN  (IF Elems(bootseq) \intersect ids # {}
         THEN {[do |-> "clear", id |-> NoGuid]} ELSE {})
        \union [do: {"unorder", "delete"}, id: ids]

\* The commands of sweepWootcEntries, with a listing and without one.
SweepPlan(guid) ==
    LET ids == WootcEntryIDs(guid)
        seq == Elems(bootseq)
    IN  (IF bootseq # <<>> /\ seq \subseteq ids
         THEN {[do |-> "clear", id |-> NoGuid]}
         ELSE {[do |-> "unseq", id |-> i] : i \in ids \intersect seq})
        \union [do: {"unorder", "delete"}, id: ids]

BlindPlan(guid) == [do: {"unseq", "unorder", "delete"}, id: {guid} \ {NoGuid}]

\* A call of this kind works, or it is one of the failing calls.
Works(kind, ok) ==
    \/ ok /\ faults' = faults
    \/ /\ ~ok
       /\ kind \in Faults /\ faults < MaxFaults
       /\ faults' = faults + 1

\* A bcdedit write whose exit code is looked at: it succeeds, or it reports
\* success without effect, or fails with or without one.
BcdWrites(err, effect) ==
    \/ ~err /\ effect /\ faults' = faults
    \/ /\ err \/ ~effect
       /\ "cmd" \in Faults /\ faults < MaxFaults
       /\ faults' = faults + 1

\* bootChainEnv.save: the phase is set in memory even when the write fails.
Save(phase, ok) ==
    /\ txn' = [txn EXCEPT !.phase = phase]
    /\ journal' = IF ok THEN txn' ELSE journal

Goto(l) == pc' = l /\ UNCHANGED procVars

\* Mutant: an attempt loop without its bound.
RetryForever ==
    /\ attempt' = attempt + 1 /\ pc' = "sweepLook"
    /\ UNCHANGED <<op, stage, sweeps, cmds>>

\* The next iteration of the attempt loop rebuilds the entry; after the last
\* one rollbackAfter starts.
NextAttempt ==
    /\ IF attempt < MaxAttempts
       THEN attempt' = attempt + 1 /\ pc' = "sweepLook"
       ELSE attempt' = attempt /\ pc' = "rbSave"
    /\ UNCHANGED <<op, stage, sweeps, cmds>>

GotoIf(ok, l) == IF ok THEN Goto(l) ELSE NextAttempt

-----------------------------------------------------------------------------
(* configureBCD, beginBootChainTxn, buildBootEntry *)

At(l) == machine = "windows" /\ pc = l

\* The install pipeline up to "Making Linux bootable": it refuses to start
\* over an existing root.disk, makes one, and setupESP stages the deployer.
StartInstall ==
    /\ At("idle") /\ "install" \in Ops
    /\ ~disk
    /\ disk' = TRUE
    /\ esp' = "deployer"
    /\ op' = "install" /\ pc' = "register"
    /\ UNCHANGED <<store, order, bootseq, journal, guidFile, armedFile, state,
                   started, verdict, tasks, machine, txn, stage, attempt, sweeps,
                   cmds, faults, cuts>>

\* planBootRepair: the next start goes to an entry wootc does not own.
ForeignNext == \E id \in Elems(bootseq) : id \notin Guid \/ ~Live(id)

\* repairBootFromArmed: planBootRepair allows it, setupESP re-stages the files.
CanRepairBoot ==
    /\ armedFile \in Guid
    /\ guidFile \in {NoGuid, armedFile}
    /\ state \notin {"deployed", "healthy"}
    /\ ~ForeignNext

StartRepair ==
    /\ At("idle") /\ "repair" \in Ops
    /\ CanRepairBoot
    /\ esp' = "deployer"
    /\ op' = "repair" /\ pc' = "register"
    /\ UNCHANGED <<store, order, bootseq, journal, recVars, machine, txn, stage,
                   attempt, sweeps, cmds, faults, cuts>>

\* configureBCD up to the transaction.  A refused registration takes the
\* tasks down again (unless that call is refused as well).
RegisterTasks ==
    /\ At("register")
    /\ \E ok \in BOOLEAN :
          /\ Works("task", ok)
          /\ IF ok
             THEN tasks' = TRUE /\ pc' = "begun"
             ELSE tasks' \in {tasks, FALSE} /\ pc' = "opFailed"
    /\ txn' = NoTxn /\ stage' = "begin" /\ attempt' = 1
    /\ UNCHANGED <<fwVars, journal, guidFile, armedFile, state, started,
                   verdict, disk, machine, op, sweeps, cmds, cuts>>

\* The two refusals that need no rollback: the staged files do not verify,
\* or the journal cannot be written.
SaveBegun ==
    /\ At("begun")
    /\ \/ /\ IF esp = "deployer" THEN Works("enum", FALSE) ELSE faults' = faults
          /\ Goto("opFailed")
          /\ UNCHANGED <<txn, journal>>
       \/ /\ esp = "deployer"
          /\ \E ok \in BOOLEAN :
                /\ Works("save", ok)
                /\ Save("begun", ok)
                /\ Goto(IF ok THEN "sweepLook" ELSE "opFailed")
    /\ UNCHANGED <<fwVars, recVars, machine, cuts>>

SweepLook ==
    /\ At("sweepLook")
    /\ \E ok \in BOOLEAN :
          /\ Works("enum", ok)
          /\ cmds' = IF ok THEN SweepPlan(txn.guid) ELSE BlindPlan(txn.guid)
    /\ pc' = "sweep"
    /\ UNCHANGED <<fwVars, journal, recVars, machine, txn, op, stage, attempt,
                   sweeps, cuts>>

\* The order of the sweep: the one-shot first, then each entry's place in
\* the boot order and, right after it, the entry.
RunsNext(c) ==
    /\ c \in cmds
    /\ c.do \in {"unorder", "delete"} =>
          \A d \in cmds : d.do \notin {"clear", "unseq"}
    /\ c.do = "delete" => [do |-> "unorder", id |-> c.id] \notin cmds
    /\ c.do = "unorder" =>
          \A d \in cmds : d.do = "delete" => [do |-> "unorder", id |-> d.id] \in cmds

SweepCommand ==
    /\ At("sweep")
    /\ \E c \in cmds, ok \in BOOLEAN :
          /\ RunsNext(c)
          /\ Works("cmd", ok)
          /\ bootseq' = IF ok /\ c.do = "clear" THEN <<>>
                        ELSE IF ok /\ c.do = "unseq" THEN Without(bootseq, c.id)
                        ELSE bootseq
          /\ order' = IF ok /\ c.do = "unorder"
                      THEN [order EXCEPT ![c.id] = "out"] ELSE order
          /\ store' = IF ok /\ c.do = "delete"
                      THEN [store EXCEPT ![c.id] = "absent"] ELSE store
          /\ cmds' = cmds \ {c}
    /\ UNCHANGED <<esp, journal, recVars, machine, pc, txn, op, stage, attempt,
                   sweeps, cuts>>

\* buildBootEntry after its sweep: forget the old GUID, journal the intent.
SaveCreatingEntry ==
    /\ At("sweep") /\ cmds = {} /\ sweeps = 0 /\ stage \in {"begin", "arm"}
    /\ \E ok \in BOOLEAN :
          /\ Works("save", ok)
          /\ txn' = [phase |-> "creating-entry", guid |-> NoGuid]
          /\ journal' = IF ok THEN txn' ELSE journal
          /\ GotoIf(ok, "copy")
    /\ UNCHANGED <<fwVars, recVars, machine, cuts>>

\* A GUID no record and no list of the machine mentions.
FreshGuid ==
    {g \in Guid : /\ ~Live(g) /\ order[g] = "out" /\ g \notin Elems(bootseq)
                  /\ g \notin {journal.guid, txn.guid, guidFile, armedFile}}

\* bcdedit /copy can fail and still leave a half-made entry behind.
CopyEntry ==
    /\ At("copy")
    /\ \/ \E g \in FreshGuid, p \in CopyPlaces, err \in BOOLEAN :
             /\ BcdWrites(err, TRUE)
             /\ store' = [store EXCEPT ![g] = "copied"]
             /\ order' = [order EXCEPT ![g] = p]
             /\ txn' = IF err THEN txn ELSE [txn EXCEPT !.guid = g]
             /\ GotoIf(~err, "created")
       \/ /\ BcdWrites(TRUE, FALSE) \/ (FreshGuid = {} /\ faults' = faults)
          /\ NextAttempt
          /\ UNCHANGED <<store, order, txn>>
    /\ UNCHANGED <<bootseq, esp, journal, recVars, machine, cuts>>

SaveEntryCreated ==
    /\ At("created")
    /\ \E ok \in BOOLEAN :
          /\ Works("save", ok)
          /\ Save("entry-created", ok)
          /\ GotoIf(ok, "setpath")
    /\ UNCHANGED <<fwVars, recVars, machine, cuts>>

SetPath ==
    /\ At("setpath")
    /\ \E err, effect \in BOOLEAN :
          /\ BcdWrites(err, effect)
          /\ store' = IF effect THEN [store EXCEPT ![txn.guid] = "pathed"] ELSE store
          /\ GotoIf(~err, "unorder")
    /\ UNCHANGED <<order, bootseq, esp, journal, recVars, machine, txn, cuts>>

LeaveOrder ==
    /\ At("unorder")
    /\ \E ok \in BOOLEAN :
          /\ Works("cmd", ok)
          /\ order' = IF ok THEN [order EXCEPT ![txn.guid] = "out"] ELSE order
    /\ Goto("guidfile")
    /\ UNCHANGED <<store, bootseq, esp, journal, recVars, machine, txn, cuts>>

\* onEntry, first half.  A write that fails removes bcd-guid.txt.
WriteGuidFile ==
    /\ At("guidfile")
    /\ \E ok \in BOOLEAN :
          /\ Works("save", ok)
          /\ guidFile' \in IF ok THEN {txn.guid} ELSE {guidFile, NoGuid}
          /\ GotoIf(ok, "armedfile")
    /\ UNCHANGED <<fwVars, journal, armedFile, state, started, verdict, tasks,
                   disk, machine, txn, cuts>>

\* onEntry, second half.
WriteArmedFile ==
    /\ At("armedfile")
    /\ \E ok \in BOOLEAN :
          /\ Works("save", ok)
          /\ armedFile' = IF ok THEN txn.guid ELSE armedFile
          /\ GotoIf(ok, "verify")
    /\ UNCHANGED <<fwVars, journal, guidFile, state, started, verdict, tasks,
                   disk, machine, txn, cuts>>

VerifyEntry ==
    /\ At("verify")
    /\ \E ok \in BOOLEAN :
          /\ Works("enum", ok)
          /\ GotoIf(ok /\ ChainVerified(txn, FALSE),
                    IF stage = "begin" THEN "prepared" ELSE "arming")
    /\ UNCHANGED <<fwVars, journal, recVars, machine, txn, cuts>>

SavePrepared ==
    /\ At("prepared")
    /\ \E ok \in BOOLEAN :
          /\ Works("save", ok)
          /\ Save("prepared", ok)
          /\ GotoIf(ok, "pipeline")
    /\ UNCHANGED <<fwVars, recVars, machine, cuts>>

-----------------------------------------------------------------------------
(* armBootChain, armBootChainTxn *)

\* The steps between "Making Linux bootable" and "Finishing up" have run;
\* armBootChain reads the journal and armed.json back from disk.
ArmBootChain ==
    /\ At("pipeline")
    /\ \E ok \in BOOLEAN :
          /\ Works("esp", ok)
          /\ pc' = IF ok /\ journal.phase \in {"prepared", "arming"}
                      /\ armedFile \in Guid
                   THEN "arming" ELSE "opFailed"
    /\ txn' = journal /\ stage' = "arm" /\ attempt' = 1
    /\ UNCHANGED <<fwVars, journal, recVars, machine, op, sweeps, cmds, cuts>>

SaveArming ==
    /\ At("arming")
    /\ \E ok \in BOOLEAN :
          /\ Works("save", ok)
          /\ Save("arming", ok)
          /\ GotoIf(ok, "addfirst")
    /\ UNCHANGED <<fwVars, recVars, machine, cuts>>

SetOneShot ==
    /\ At("addfirst")
    /\ \E err, effect \in BOOLEAN :
          /\ BcdWrites(err, effect)
          /\ bootseq' = IF effect THEN AddFirst(bootseq, txn.guid) ELSE bootseq
          /\ GotoIf(~err, "verifyArmed")
    /\ UNCHANGED <<store, order, esp, journal, recVars, machine, txn, cuts>>

VerifyArmed ==
    /\ At("verifyArmed")
    /\ \E ok \in BOOLEAN :
          /\ Works("enum", ok)
          /\ GotoIf(ok /\ ChainVerified(txn, TRUE), "commit")
    /\ UNCHANGED <<fwVars, journal, recVars, machine, txn, cuts>>

SaveCommitted ==
    /\ At("commit")
    /\ \E ok \in BOOLEAN :
          /\ Works("save", ok)
          /\ Save("committed", ok)
          /\ GotoIf(ok, IF op = "install" THEN "finish" ELSE "repairVerify")
    /\ UNCHANGED <<fwVars, recVars, machine, cuts>>

-----------------------------------------------------------------------------
(* rollbackBootChainTxn and its callers *)

\* rollbackBootChain reads the journal; without one it goes by bcd-guid.txt.
JournaledTxn ==
    IF journal.phase = "none" THEN [phase |-> "none", guid |-> guidFile] ELSE journal

EnterRollback(o, caller) ==
    /\ op' = o /\ stage' = caller /\ pc' = "rbSave"
    /\ txn' = JournaledTxn /\ attempt' = 1 /\ sweeps' = 0 /\ cmds' = {}

Return ==
    /\ pc' = "idle" /\ op' = "none" /\ stage' = "none" /\ txn' = NoTxn
    /\ attempt' = 1 /\ sweeps' = 0 /\ cmds' = {}

\* A cancel, or a failing step, after the entry was prepared: disarmOneShot.
StopPipeline ==
    /\ At("pipeline") /\ op = "install"
    /\ \E o \in {"cancelled", "failed"} : EnterRollback(o, "disarm")
    /\ UNCHANGED <<fwVars, journal, recVars, machine, faults, cuts>>

\* configureBCD or armBootChain returned an error: the pipeline disarms,
\* repair only reports it.
OperationFailed ==
    /\ At("opFailed")
    /\ IF op = "install" THEN EnterRollback("failed", "disarm") ELSE Return
    /\ UNCHANGED <<fwVars, journal, recVars, machine, faults, cuts>>

SaveRollingBack ==
    /\ At("rbSave")
    /\ \E ok \in BOOLEAN : Works("save", ok) /\ Save("rolling-back", ok)
    /\ sweeps' = 1 /\ pc' = "sweepLook"
    /\ UNCHANGED <<fwVars, recVars, machine, op, stage, attempt, cmds, cuts>>

RollbackLook ==
    /\ At("sweep") /\ cmds = {} /\ sweeps > 0
    /\ \E ok \in BOOLEAN :
          /\ Works("enum", ok)
          /\ IF ok /\ ~Residue(txn.guid) THEN pc' = "rbDone" /\ sweeps' = sweeps
             ELSE IF sweeps < MaxSweeps
                  THEN pc' = "sweepLook" /\ sweeps' = sweeps + 1
                  ELSE pc' = "rbUnconf" /\ sweeps' = sweeps
    /\ UNCHANGED <<fwVars, journal, recVars, machine, txn, op, stage, attempt,
                   cmds, cuts>>

\* What follows disarmOneShot: the pipeline records how it ended, uninstall
\* goes on to the files.
DisarmEnd == IF op = "uninstall" THEN "cleanEsp" ELSE "endState"

\* Mutant: the caller drops the records whether or not it saw the cleanup.
DropUnconfirmed(confirmed) ==
    IF stage \in {"begin", "arm"} THEN "opFailed"
    ELSE IF stage = "disarm" THEN "dropGuid" ELSE "dropTasks"

\* What the caller does next.
AfterRollback(confirmed) ==
    IF stage \in {"begin", "arm"} THEN "opFailed"
    ELSE IF stage = "disarm" THEN IF confirmed THEN "dropGuid" ELSE DisarmEnd
    ELSE IF confirmed THEN "dropTasks" ELSE "return"

SaveRolledBack ==
    /\ At("rbDone")
    /\ \E ok \in BOOLEAN :
          /\ Works("save", ok)
          /\ Save("rolled-back", ok)
          /\ Goto(AfterRollback(ok))
    /\ UNCHANGED <<fwVars, recVars, machine, cuts>>

SaveUnconfirmed ==
    /\ At("rbUnconf")
    /\ \E ok \in BOOLEAN : Works("save", ok) /\ Save("rollback-unconfirmed", ok)
    /\ Goto(AfterRollback(FALSE))
    /\ UNCHANGED <<fwVars, recVars, machine, cuts>>

\* The records go after a confirmed rollback: disarmOneShot removes
\* bcd-guid.txt, the tasks, armed.json; startup recovery the tasks first.
DropGuidFile ==
    /\ At("dropGuid")
    /\ guidFile' = NoGuid
    /\ Goto(IF stage = "disarm" THEN "dropTasks" ELSE "dropArmed")
    /\ UNCHANGED <<fwVars, journal, armedFile, state, started, verdict, tasks,
                   disk, machine, txn, faults, cuts>>

DropTasks ==
    /\ At("dropTasks")
    /\ \E ok \in BOOLEAN :
          /\ Works("task", ok)
          /\ tasks' \in IF ok THEN {FALSE} ELSE {tasks, FALSE}
          /\ Goto(IF stage = "disarm" THEN "dropArmed"
                  ELSE IF ok THEN "dropGuid" ELSE "return")
    /\ UNCHANGED <<fwVars, journal, guidFile, armedFile, state, started,
                   verdict, disk, machine, txn, cuts>>

DropArmedFile ==
    /\ At("dropArmed")
    /\ armedFile' = NoGuid
    /\ verdict' = IF stage = "startup" THEN "none" ELSE verdict
    /\ Goto(DisarmEnd)
    /\ UNCHANGED <<fwVars, journal, guidFile, state, started, tasks, disk,
                   machine, txn, faults, cuts>>

WriteEndState ==
    /\ At("endState")
    /\ state' = IF op = "cancelled" THEN "staged" ELSE "failed"
    /\ Return
    /\ UNCHANGED <<fwVars, journal, guidFile, armedFile, started, verdict,
                   tasks, disk, machine, faults, cuts>>

-----------------------------------------------------------------------------
(* The end of an install, boot repair, TryAgain, BootIntoLinux *)

\* finishInstallPipeline, and the lifecycle reset of repair and TryAgain.
FinishArmed ==
    /\ At("finish")
    /\ state' = "armed"
    /\ IF op = "install" THEN Return ELSE UNCHANGED txn /\ Goto("dropStarted")
    /\ UNCHANGED <<fwVars, journal, guidFile, armedFile, started, verdict,
                   tasks, disk, machine, faults, cuts>>

FinishCancelled ==
    /\ At("finish") /\ op = "install"
    /\ EnterRollback("cancelled", "disarm")
    /\ UNCHANGED <<fwVars, journal, recVars, machine, faults, cuts>>

DropStarted ==
    /\ At("dropStarted")
    /\ started' = FALSE /\ verdict' = "none"
    /\ Return
    /\ UNCHANGED <<fwVars, journal, guidFile, armedFile, state, tasks, disk,
                   machine, faults, cuts>>

\* planBootRepair and restoreWindowsCommands: the one-shot and the permanent
\* boot order lose what is wootc's, unless an entry cannot be attributed.
CanRestoreWindows ==
    /\ armedFile \in Guid /\ guidFile \in Guid => armedFile = guidFile
    /\ bootseq # <<>> \/ \E g \in Guid : Live(g) /\ order[g] # "out"
    /\ ~ForeignNext

RestorePlan ==
    (IF bootseq # <<>> THEN {[do |-> "clear", id |-> NoGuid]} ELSE {})
        \union [do: {"unorder"}, id: {g \in Guid : Live(g) /\ order[g] # "out"}]

RunRestore(o) ==
    /\ op' = o /\ stage' = "restore" /\ pc' = "sweep" /\ cmds' = RestorePlan
    /\ txn' = NoTxn /\ attempt' = 1 /\ sweeps' = 0

\* verifyRepairArmed; what it cannot verify it takes out of the boot order
\* again, where that is allowed.
VerifyRepair ==
    /\ At("repairVerify")
    /\ \E ok \in BOOLEAN :
          /\ Works("enum", ok)
          /\ IF ok /\ bootseq = <<armedFile>> /\ esp = "deployer"
             THEN Goto("finish") /\ UNCHANGED txn
             ELSE IF ok /\ CanRestoreWindows THEN RunRestore("repair") ELSE Return
    /\ UNCHANGED <<fwVars, journal, recVars, machine, cuts>>

\* restoreWindowsBoot.  It stops at the first command that reports an error,
\* and at its end only looks and reports.
StartRestore ==
    /\ At("idle") /\ "restore" \in Ops
    /\ CanRestoreWindows
    /\ RunRestore("restore")
    /\ UNCHANGED <<fwVars, journal, recVars, machine, faults, cuts>>

RestoreEnds ==
    /\ At("sweep") /\ stage = "restore"
    /\ \/ cmds = {} /\ faults' = faults
       \/ cmds # {} /\ op = "restore" /\ Works("cmd", FALSE)
    /\ Return
    /\ UNCHANGED <<fwVars, journal, recVars, machine, cuts>>

\* tryAgainFromArmed: the tasks are registered before the one-shot is set.
\* Without a readable armed.json it is armOneShotFromPersistedGUID.
StartTryAgain ==
    /\ At("idle") /\ "tryagain" \in Ops
    /\ armedFile \in Guid
    /\ op' = "tryagain" /\ pc' = "retry"
    /\ UNCHANGED <<fwVars, journal, recVars, machine, txn, stage, attempt, sweeps,
                   cmds, faults, cuts>>

RetryTasks ==
    /\ At("retry")
    /\ \E ok \in BOOLEAN :
          /\ Works("task", ok)
          /\ tasks' = IF ok THEN TRUE ELSE tasks
          /\ Goto(IF ok THEN "rearm" ELSE "return")
    /\ UNCHANGED <<fwVars, journal, guidFile, armedFile, state, started,
                   verdict, disk, machine, txn, cuts>>

RetryOneShot ==
    /\ At("rearm")
    /\ \E err, effect \in BOOLEAN :
          /\ BcdWrites(err, effect)
          /\ bootseq' = IF effect THEN AddFirst(bootseq, armedFile) ELSE bootseq
          /\ Goto(IF err THEN "return" ELSE "finish")
    /\ UNCHANGED <<store, order, esp, journal, recVars, machine, txn, cuts>>

ArmPersistedGuid ==
    /\ At("idle")
    /\ \/ "bootlinux" \in Ops
       \/ "tryagain" \in Ops /\ armedFile \notin Guid
    /\ guidFile # NoGuid
    /\ \E err, effect \in BOOLEAN :
          /\ BcdWrites(err, effect)
          /\ bootseq' = IF effect THEN AddFirst(bootseq, guidFile) ELSE bootseq
    /\ UNCHANGED <<store, order, esp, journal, recVars, machine, pc, txn, procVars,
                   cuts>>

ReturnToIdle ==
    /\ At("return")
    /\ Return
    /\ UNCHANGED <<fwVars, journal, recVars, machine, faults, cuts>>

-----------------------------------------------------------------------------
(* uninstallWith *)

\* The tasks go first; a removal that is not confirmed refuses the uninstall.
StartUninstall ==
    /\ At("idle") /\ "uninstall" \in Ops
    /\ op' = "uninstall" /\ pc' = "unregister"
    /\ UNCHANGED <<fwVars, journal, recVars, machine, txn, stage, attempt, sweeps,
                   cmds, faults, cuts>>

\* Then deleteWootcBCDEntries: one sweep by description and bcd-guid.txt.
UninstallTasks ==
    /\ At("unregister")
    /\ \E ok \in BOOLEAN :
          /\ Works("task", ok)
          /\ tasks' \in IF ok THEN {FALSE} ELSE {tasks, FALSE}
          /\ pc' = IF ok THEN "sweepLook" ELSE "return"
    /\ stage' = "uninstall" /\ txn' = [NoTxn EXCEPT !.guid = guidFile]
    /\ UNCHANGED <<fwVars, journal, guidFile, armedFile, state, started, verdict,
                   disk, machine, op, attempt, sweeps, cmds, cuts>>

UninstallDisarms ==
    /\ At("sweep") /\ cmds = {} /\ stage = "uninstall"
    /\ EnterRollback("uninstall", "disarm")
    /\ UNCHANGED <<fwVars, journal, recVars, machine, faults, cuts>>

CleanupESP ==
    /\ At("cleanEsp")
    /\ \E ok \in BOOLEAN :
          Works("esp", ok) /\ esp' = IF ok THEN "none" ELSE esp
    /\ Goto("wipe")
    /\ UNCHANGED <<store, order, bootseq, journal, recVars, machine, txn, cuts>>

\* The install directory goes whether or not the rollback was confirmed.
RemoveInstallDir ==
    /\ At("wipe")
    /\ journal' = NoTxn /\ guidFile' = NoGuid /\ armedFile' = NoGuid
    /\ started' = FALSE /\ verdict' = "none"
    /\ Goto("wipeRest")
    /\ UNCHANGED <<fwVars, state, tasks, disk, machine, txn, faults, cuts>>

\* state.json, and root.disk when the user asked for it.
RemoveState ==
    /\ At("wipeRest")
    /\ state' = "none" /\ disk' \in {disk, FALSE}
    /\ Return
    /\ UNCHANGED <<fwVars, journal, guidFile, armedFile, started, verdict, tasks,
                   machine, faults, cuts>>

-----------------------------------------------------------------------------
(* Startup recovery: runRecoverStartup, recoverBootTxnAtStartup *)

\* Mutants of bootTxnStartupAction: only an interrupted arming is rolled back;
\* the evidence of a started deployer is ignored, or not asked for; a rollback
\* that was not confirmed is not tried again.
RollBackArmingOnly(t, deployerStarted, ls) ==
    IF t.phase # "arming" THEN "keep"
    ELSE IF deployerStarted THEN "mark-committed" ELSE "rollback"

RollBackStarted(t, deployerStarted, ls) ==
    IF t.phase \in {"committed", "rolled-back"} THEN "keep" ELSE "rollback"

TrustArming(t, deployerStarted, ls) ==
    IF t.phase \in {"committed", "rolled-back"} THEN "keep"
    ELSE IF t.phase = "arming" THEN "mark-committed" ELSE "rollback"

GiveUpUnconfirmed(t, deployerStarted, ls) ==
    IF t.phase \in {"committed", "rolled-back", "rollback-unconfirmed"} THEN "keep"
    ELSE IF t.phase = "arming" /\ deployerStarted THEN "mark-committed"
         ELSE "rollback"

\* bootTxnStartupAction
StartupAction(t, deployerStarted, ls) ==
    IF t.phase \in {"committed", "rolled-back"} THEN "keep"
    ELSE IF /\ t.phase = "arming"
            /\ deployerStarted \/ ls \in {"deploying", "deployed", "healthy"}
         THEN "mark-committed"
         ELSE "rollback"

StartupNext == IF armedFile = NoGuid THEN "return" ELSE "judge"

\* An armed.json that cannot be parsed ends the task before anything else.
StartupUnreadable ==
    /\ At("startup") /\ armedFile = Torn
    /\ Goto("return")
    /\ UNCHANGED <<fwVars, journal, recVars, machine, txn, faults, cuts>>

StartupKeep ==
    /\ At("startup") /\ armedFile # Torn
    /\ journal.phase = "none" \/ StartupAction(journal, started, state) = "keep"
    /\ Goto(StartupNext)
    /\ UNCHANGED <<fwVars, journal, recVars, machine, txn, faults, cuts>>

StartupMarkCommitted ==
    /\ At("startup") /\ armedFile # Torn
    /\ StartupAction(journal, started, state) = "mark-committed"
    /\ \E ok \in BOOLEAN :
          /\ Works("save", ok)
          /\ journal' = IF ok THEN [journal EXCEPT !.phase = "committed"] ELSE journal
          /\ Goto(IF ok THEN StartupNext ELSE "return")
    /\ UNCHANGED <<fwVars, recVars, machine, txn, cuts>>

StartupRollback ==
    /\ At("startup") /\ armedFile # Torn
    /\ journal.phase # "none"
    /\ StartupAction(journal, started, state) = "rollback"
    /\ EnterRollback("startup", "startup")
    /\ UNCHANGED <<fwVars, journal, recVars, machine, faults, cuts>>

\* EvaluateRecovery
EvaluateRecovery(deployerStarted, ls) ==
    IF ~deployerStarted /\ ls \notin {"deployed", "healthy"} THEN "never-booted"
    ELSE IF ls = "deploying" THEN "interrupted"
    ELSE IF ls \in {"failed", "deployed", "healthy"} THEN ls
    ELSE "never-booted"

\* A healthy word stands only with first-boot evidence; no state.json counts
\* as armed.
VerifiedStates ==
    IF state = "healthy" THEN {"healthy", "deployed"}
    ELSE IF state = "none" THEN {"armed"} ELSE {state}

\* The verdict table.  A verdict of an install that did not finish takes the
\* one-shot away; a healthy one retires the recovery controls.
StartupJudge ==
    /\ At("judge")
    /\ \E ls \in VerifiedStates :
          LET v == EvaluateRecovery(started, ls) IN
          \/ /\ v = "healthy"
             /\ \E ok \in BOOLEAN :
                   /\ Works("task", ok)
                   /\ IF ok THEN tasks' = FALSE /\ armedFile' = NoGuid /\ verdict' = "none"
                            ELSE UNCHANGED <<tasks, armedFile, verdict>>
             /\ UNCHANGED bootseq
          \/ /\ v = "deployed"
             /\ verdict' = v
             /\ UNCHANGED <<tasks, armedFile, bootseq, faults>>
          \/ /\ v \notin {"healthy", "deployed"}
             /\ \E ok \in BOOLEAN :
                   Works("cmd", ok) /\ bootseq' = IF ok THEN <<>> ELSE bootseq
             /\ verdict' = v
             /\ UNCHANGED <<tasks, armedFile>>
    /\ Goto("return")
    /\ UNCHANGED <<store, order, esp, journal, guidFile, state, started, disk,
                   machine, txn, cuts>>

-----------------------------------------------------------------------------
(* The world around Windows *)

\* Another product sets its own one-shot while wootc is not running.
ForeignOneShot ==
    /\ At("idle") /\ Foreign \notin Elems(bootseq)
    /\ bootseq' = AddFirst(bootseq, Foreign)
    /\ UNCHANGED <<store, order, esp, journal, recVars, machine, pc, txn, procVars,
                   faults, cuts>>

\* Something else rewrites the staged loader on the ESP between two
\* operations, or during the long pipeline steps before arming.
EspRewritten ==
    /\ At("idle") \/ At("pipeline")
    /\ esp = "deployer"
    /\ Works("esp", FALSE)
    /\ esp' = "changed"
    /\ UNCHANGED <<store, order, bootseq, journal, recVars, machine, pc, txn,
                   procVars, cuts>>

PowerOff == machine' = "off" /\ Return

Restart ==
    /\ At("idle")
    /\ PowerOff
    /\ UNCHANGED <<fwVars, journal, recVars, faults, cuts>>

\* What a power cut inside an os.WriteFile leaves: armed.json and state.json
\* are truncated in place, bcd-guid.txt too (and then it holds no GUID).
TornAt(l, torn) == torn /\ pc = l /\ "torn" \in Faults

PowerCut ==
    /\ machine # "off" /\ cuts < MaxCuts
    /\ cuts' = cuts + 1
    /\ \E torn \in BOOLEAN :
          /\ armedFile' = IF TornAt("armedfile", torn) THEN Torn ELSE armedFile
          /\ guidFile' = IF TornAt("guidfile", torn) THEN NoGuid ELSE guidFile
          /\ state' = IF TornAt("finish", torn) \/ TornAt("endState", torn)
                      THEN "none" ELSE state
    /\ PowerOff
    /\ UNCHANGED <<fwVars, journal, started, verdict, tasks, disk, faults>>

\* Entries that start the loader wootc staged.
Boots(g) == g \in Guid /\ store[g] = "pathed"

\* The entries the next start can go to instead of Windows.
NextBoot ==
    IF bootseq # <<>> /\ Boots(Head(bootseq)) THEN {Head(bootseq)}
    ELSE {g \in Guid : Boots(g) /\ order[g] = "ahead"}

\* The firmware consumes the one-shot.  It may refuse the entry, and a
\* rewritten loader starts nothing; then Windows starts.
FirmwareStartsLoader ==
    /\ machine = "off" /\ NextBoot # {}
    /\ bootseq' = <<>>
    /\ \/ esp = "deployer" /\ machine' = "deployer" /\ pc' = "d0"
       \/ esp = "phase2" /\ machine' = "linux" /\ pc' = "linux"
    /\ UNCHANGED <<store, order, esp, journal, recVars, txn, procVars, faults, cuts>>

FirmwareStartsWindows ==
    /\ machine = "off"
    /\ bootseq' = <<>>
    /\ machine' = "windows"
    /\ IF tasks THEN pc' = "startup" /\ op' = "startup" ELSE pc' = "idle" /\ op' = op
    /\ UNCHANGED <<store, order, esp, journal, recVars, txn, stage, attempt, sweeps,
                   cmds, faults, cuts>>

\* deploy.sh: deployer-started.json, then "deploying", the ESP, "deployed",
\* and one more one-shot; any failure after the mount ends in "failed".
Deployer(from) == machine = "deployer" /\ pc = from

DeployerMarksStart ==
    /\ Deployer("d0")
    /\ started' = TRUE /\ Goto("d1")
    /\ UNCHANGED <<fwVars, journal, guidFile, armedFile, state, verdict, tasks,
                   disk, machine, txn, faults, cuts>>

DeployerWritesState(from, to, word) ==
    /\ Deployer(from)
    /\ state' = word /\ Goto(to)
    /\ UNCHANGED <<fwVars, journal, guidFile, armedFile, started, verdict,
                   tasks, disk, machine, txn, faults, cuts>>

DeployerStagesPhase2 ==
    /\ Deployer("d2")
    /\ esp' = "phase2" /\ Goto("d3")
    /\ UNCHANGED <<store, order, bootseq, journal, recVars, machine, txn, faults, cuts>>

\* The exit trap writes "failed" until DEPLOY_OK is set, also over "deployed";
\* before the mount it has nowhere to write.
DeployerFails ==
    /\ machine = "deployer" /\ pc \in {"d0", "d1", "d2", "d3", "d4"}
    /\ state' = IF pc = "d0" THEN state ELSE "failed"
    /\ PowerOff
    /\ UNCHANGED <<fwVars, journal, guidFile, armedFile, started, verdict,
                   tasks, disk, faults, cuts>>

\* rearm_bootnext: the first firmware entry named wootc, when it can be set.
DeployerRearms ==
    /\ Deployer("d4")
    /\ bootseq' \in {bootseq} \union {<<g>> : g \in {h \in Guid : Live(h)}}
    /\ PowerOff
    /\ UNCHANGED <<store, order, esp, journal, recVars, faults, cuts>>

\* The installed system: its first-boot unit may report healthy.
LinuxRuns ==
    /\ machine = "linux"
    /\ state' \in {state, "healthy"}
    /\ PowerOff
    /\ UNCHANGED <<fwVars, journal, guidFile, armedFile, started, verdict,
                   tasks, disk, faults, cuts>>

-----------------------------------------------------------------------------
BuildStep ==
    \/ RegisterTasks \/ SaveBegun \/ SweepLook \/ SweepCommand
    \/ SaveCreatingEntry \/ CopyEntry \/ SaveEntryCreated \/ SetPath
    \/ LeaveOrder \/ WriteGuidFile \/ WriteArmedFile \/ VerifyEntry
    \/ SavePrepared

ArmStep ==
    \/ ArmBootChain \/ SaveArming \/ SetOneShot \/ VerifyArmed \/ SaveCommitted
    \/ FinishArmed \/ DropStarted \/ VerifyRepair \/ RestoreEnds \/ RetryTasks
    \/ RetryOneShot

RollbackStep ==
    \/ OperationFailed \/ SaveRollingBack \/ RollbackLook \/ SaveRolledBack
    \/ SaveUnconfirmed \/ DropGuidFile \/ DropTasks \/ DropArmedFile
    \/ WriteEndState \/ ReturnToIdle

UninstallStep ==
    \/ UninstallTasks \/ UninstallDisarms \/ CleanupESP \/ RemoveInstallDir
    \/ RemoveState

StartupStep ==
    \/ StartupUnreadable \/ StartupKeep \/ StartupMarkCommitted
    \/ StartupRollback \/ StartupJudge

LinuxStep ==
    \/ DeployerMarksStart \/ DeployerWritesState("d1", "d2", "deploying")
    \/ DeployerStagesPhase2 \/ DeployerWritesState("d3", "d4", "deployed")
    \/ DeployerFails \/ DeployerRearms \/ LinuxRuns

UserStep ==
    \/ StartInstall \/ StartRepair \/ StartTryAgain \/ ArmPersistedGuid
    \/ StopPipeline \/ FinishCancelled \/ StartUninstall \/ StartRestore

Boot == FirmwareStartsLoader \/ FirmwareStartsWindows

World == ForeignOneShot \/ EspRewritten \/ PowerCut

Program ==
    \/ BuildStep \/ ArmStep \/ RollbackStep \/ UninstallStep \/ StartupStep
    \/ LinuxStep

Next == Program \/ UserStep \/ Restart \/ Boot \/ World

Spec == Init /\ [][Next]_vars

\* A process that runs keeps running, a machine that is off is started, and
\* a user who does nothing else restarts the machine.
FairSpec == Spec /\ WF_vars(Program) /\ WF_vars(Boot) /\ SF_vars(Restart)

-----------------------------------------------------------------------------
(* Properties *)

\* boot_txn.go:34, "cleanup observed: no wootc entry": while the journal says
\* rolled-back the firmware holds no wootc entry,
\* so no start can go to the loader.
RolledBackIsClean ==
    journal.phase = "rolled-back" =>
        NextBoot = {} /\ \A g \in Guid : ~Live(g)

\* boot_txn.go:32 and 119-122: the step that journals "committed" is taken
\* only when the entry is the one and only wootc entry, in no permanent
\* order, first in the one-shot, its files as staged, and the records that
\* recovery needs (bcd-guid.txt, armed.json, the tasks) name it.
CommitIsProven ==
    [][ (At("commit") /\ journal'.phase = "committed") =>
          /\ NextBoot = {journal'.guid} /\ esp = "deployer"
          /\ \A g \in Guid : Live(g) => g = journal'.guid /\ order[g] = "out"
          /\ guidFile = journal'.guid /\ armedFile = journal'.guid
          /\ tasks ]_vars

\* boot_txn.go:369-372: no step of a sweep loses another product's one-shot;
\* only the firmware, and the startup verdict, drop it.
ForeignOneShotKept ==
    [][ (Foreign \in Elems(bootseq) /\ Foreign \notin Elems(bootseq')) =>
          machine = "off" \/ At("judge") \/ machine = "deployer" ]_vars

\* boot_txn.go:36-38: until the journal says arming, no start can go to the
\* loader, whatever is interrupted.
InertUntilArming ==
    journal.phase \in {"begun", "creating-entry", "entry-created", "prepared"} =>
        NextBoot = {}

\* installer_esp.go:552-560: an entry of a transaction that is still open is
\* guarded by the startup task that will roll it back.
OpenTxnIsGuarded ==
    (/\ \E g \in Guid : Live(g)
     /\ journal.phase \notin {"none", "rolled-back", "committed"}) => tasks

\* boot_txn.go:569-574: the chain of a deployer that started is never rolled
\* back as if the install had not reached its commit point.
StartedDeploymentKept ==
    [][ (/\ At("startup") /\ stage' = "startup"
         /\ journal.phase \notin {"rolling-back", "rollback-unconfirmed"}) =>
          state \notin {"deploying", "deployed", "healthy"} ]_vars

\* boot_txn.go:43-44 and installer_esp.go:552-554: an interrupted transaction
\* that left an entry behind is eventually committed or rolled back.
OpenTxnCloses ==
    (/\ \E g \in Guid : Live(g)
     /\ journal.phase \notin {"none", "rolled-back", "committed"})
        ~> (journal.phase \in {"rolled-back", "committed"})
=============================================================================
