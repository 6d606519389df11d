------------------------ MODULE InstallAttemptProofs ------------------------
(***************************************************************************)
(* The safety properties of InstallAttempt for any number of attempts,     *)
(* recoverers, failing steps, rollbacks and repairs and crashes, as long   *)
(* as the journal's writes land, an uninstall takes the boot chain away    *)
(* and no attempt starts between a recoverer's look at the records and its *)
(* removal of root.disk.  One inductive invariant carries all of them: it  *)
(* says what the records on disk know of the boot chain.                   *)
(***************************************************************************)
EXTENDS InstallAttempt, TLAPS

\* The conditions of the records run.
Dependable == "journal" \notin Faults /\ "removal" \notin Faults /\ ~Overtaking

\* The worker is between Prepare and the end of its journal.
Busy == pc \in WorkerPCs \ {"prepare"}

Deployed == state \in {"deploying", "deployed", "healthy"}

\* No deployer has run on what is recorded.
Fresh == ~linux /\ ~started /\ ~Deployed

\* Nothing of the boot chain is there either.
Clear == Fresh /\ chain = "none" /\ ~armed /\ "esp" \notin changed

-----------------------------------------------------------------------------
(* The inductive invariant *)

\* Processes live only while Windows runs, a worker only in an open app.
Processes ==
    /\ machine # "windows" => ~app /\ \A r \in Recoverers : rec[r] = "idle"
    /\ ~app => pc = "none" /\ ~owner
    /\ machine = "deployer" => chain = "entry"

\* While it works, journal.json is the recorder's copy and tells the step.
Recorder ==
    /\ Busy => /\ journal = mem /\ owner
               /\ mem.outcome = "running" /\ mem.attempt > 0
    /\ owner /\ journal.outcome = "running" => Busy
    /\ pc = "select" => mem.cur = 0 /\ mem.done = step - 1
    /\ pc \in {"run", "record"} => mem.cur = step /\ mem.done = step - 1
    /\ pc = "finish" => step = 7 /\ mem.cur = 0 /\ mem.done = 7

\* The worker holds what it made: no deployer before its disk exists, and
\* nothing to disarm before the step that says so.
Holds ==
    /\ Busy => Fresh
    /\ pc = "record" /\ step >= 2 => diskBy # 0
    /\ Busy /\ step >= 3 => diskBy # 0
    /\ Busy /\ ~rollback => chain = "none" /\ ~armed
    /\ Busy /\ chain = "armed" => armed
    /\ pc \in {"run", "record", "finish"} /\ step >= 5 => rollback
    /\ pc = "select" /\ step >= 6 => rollback

\* What is left of the chain is still to be rolled back, and a one-shot is on
\* record.
Guarded == /\ chain # "none" => open
           /\ chain = "armed" => armed

StopRecorded == journal.outcome \in {"cancelled", "failed"} /\ ~asked

\* A worker that stops has disarmed, or left it on record, before it says so.
Stops ==
    /\ pc \in {"disarm", "state"} => why \in {"cancelled", "failed"}
    /\ pc = "end" => why # "none"
    /\ pc = "state" \/ (pc = "end" /\ why # "armed") => Guarded
    /\ StopRecorded => Guarded
    /\ StopRecorded /\ machine = "deployer" => armed
    /\ pc = "uninstall" => chain = "none" /\ ~armed

\* What is outside the folder is known to the journal.
Known ==
    /\ chain # "none" \/ armed \/ "esp" \in changed => BootChainTouched(journal)
    /\ journal.outcome = "absent" => ~BootChainTouched(journal)
    /\ linux => BootChainTouched(journal) \/ journal.outcome = "absent"

\* Without a disk, and where one is about to be discarded, nothing is left.
Discards ==
    /\ diskBy = 0 => Clear
    /\ \A r \in Recoverers : rec[r] = "discard" => ~Busy /\ Clear

\* A chain on record is armed, or the records say that it is used up, once that
\* was judged in this session of Windows and nobody has interfered since.
UsedUp == \/ chain = "armed" \/ Deployed
          \/ verdict /\ ~started
          \/ state = "failed" /\ started

\* The last step is behind the worker, or was about to be recorded.
Arming == \/ pc = "record" /\ step = 7
          \/ pc = "finish"
          \/ pc = "end" /\ why = "armed"

Ready ==
    /\ started => Deployed \/ state = "failed"
    /\ journal.outcome = "armed" /\ armed /\ machine = "windows" /\ ~pending /\ vouched
       => UsedUp
    /\ Arming /\ armed /\ ~pending /\ vouched => chain = "armed" \/ verdict

SafeInv == Processes /\ Recorder /\ Holds /\ Stops /\ Known /\ Discards /\ Ready

-----------------------------------------------------------------------------
(* What the pipeline's table says *)

\* The places of the steps that matter, as productionInstallSteps lists them.
LEMMA StepTable ==
    /\ Len(Steps) = 7
    /\ StepNo("room") = 2 /\ StepNo("esp") = 4 /\ StepNo("bcd") = 5
    /\ StepNo("finish") = 7
    /\ \A i \in 1..7 : /\ Steps[i] = "windows" <=> i = 1
                       /\ Steps[i] = "room" <=> i = 2
                       /\ Steps[i] = "download" <=> i = 3
                       /\ Steps[i] = "esp" <=> i = 4
                       /\ Steps[i] = "bcd" <=> i = 5
                       /\ Steps[i] = "finish" <=> i = 7
<1>1. /\ Len(Steps) = 7 /\ DOMAIN Steps = 1..7
      /\ Steps[1] = "windows" /\ Steps[2] = "room" /\ Steps[3] = "download"
      /\ Steps[4] = "esp" /\ Steps[5] = "bcd" /\ Steps[6] = "settings"
      /\ Steps[7] = "finish"
  BY DEF Steps
<1> HIDE DEF Steps
<1>2. \A i \in 1..7 : i = 1 \/ i = 2 \/ i = 3 \/ i = 4 \/ i = 5 \/ i = 6 \/ i = 7
  OBVIOUS
<1>3. StepNo("room") = 2 /\ StepNo("esp") = 4
  BY <1>1, <1>2 DEF StepNo
<1>4. StepNo("bcd") = 5 /\ StepNo("finish") = 7
  BY <1>1, <1>2 DEF StepNo
<1> QED BY <1>1, <1>2, <1>3, <1>4

-----------------------------------------------------------------------------
(* Types *)

\* A flag stays a flag.
LEMMA FlagsStep == Flags /\ [Next]_vars => Flags'
<1> SUFFICES ASSUME Flags, [Next]_vars PROVE Flags'
  OBVIOUS
<1> USE DEF Flags
<1>1. CASE PrepareRefused
  BY Zenon, <1>1 DEF PrepareRefused, Worker, recVars, sysVars, bootVars
<1>2. CASE Prepare
  BY Zenon, <1>2 DEF Prepare, Worker, Flush, sysVars, bootVars, Works
<1>3. CASE CancelSeen
  BY Zenon, <1>3 DEF CancelSeen, Worker, StopAt, recVars, sysVars, bootVars
<1>4. CASE StepStarts
  BY Zenon, <1>4 DEF StepStarts, Worker, Flush, sysVars, bootVars, Works
<1>5. CASE StepRuns
  BY Zenon, <1>5 DEF StepRuns, Worker, Effect, bootVars
<1>6. CASE StepRecorded
  BY Zenon, <1>6 DEF StepRecorded, Worker, Flush, sysVars, bootVars, Works
<1>7. CASE StepFails
  BY Zenon, <1>7 DEF StepFails, Worker, Works, Effect, StopAt, bootVars
<1>8. CASE FinishPipeline
  BY Zenon, <1>8 DEF FinishPipeline, Worker, StopAt, sysVars, bootVars
<1>9. CASE DisarmOneShot
  BY Zenon, <1>9 DEF DisarmOneShot, RollBack, Left, Works, Worker
<1>10. CASE WriteState
  BY Zenon, <1>10 DEF WriteState, Worker, sysVars, bootVars
<1>11. CASE EndJournal
  BY Zenon, <1>11 DEF EndJournal, Worker, Flush, sysVars, bootVars, Works
<1>12. CASE OpenApp
  BY Zenon, <1>12 DEF OpenApp, recVars, sysVars, bootVars, workVars
<1>13. CASE StartInstall
  BY Zenon, <1>13 DEF StartInstall, Worker, recVars, sysVars, bootVars
<1>14. CASE CancelInstall
  BY Zenon, <1>14 DEF CancelInstall, recVars, sysVars, bootVars
<1>15. CASE TryAgain
  BY Zenon, <1>15 DEF TryAgain, Worker, workVars, recVars, sysVars, bootVars
<1>16. CASE StartUninstall
  BY Zenon, <1>16 DEF StartUninstall, RollBack, Left, Works, Worker
<1>17. CASE FinishUninstall
  BY Zenon, <1>17 DEF FinishUninstall, Worker
<1>18. CASE CloseApp
  BY Zenon, <1>18 DEF CloseApp, Worker, AppEnds, recVars, sysVars, bootVars
<1>19. CASE Restart
  BY Zenon, <1>19 DEF Restart, PowerOff, recVars, sysVars, bootVars, AppEnds
<1>20. CASE AppCrashes
  BY Zenon, <1>20 DEF AppCrashes, AppEnds, recVars, sysVars, bootVars
<1>21. CASE PowerCut
  BY Zenon, <1>21 DEF PowerCut, PowerOff, recVars, sysVars, bootVars, AppEnds
<1>22. CASE StartWindows
  BY Zenon, <1>22 DEF StartWindows, Used, recVars, workVars, sysVars, bootVars
<1>23. CASE StartDeployer
  BY Zenon, <1>23 DEF StartDeployer, workVars, recVars, sysVars, bootVars
<1>24. CASE DeployerEnds
  BY Zenon, <1>24 DEF DeployerEnds, PowerOff, AppEnds
<1>25. CASE StartLinux
  BY Zenon, <1>25 DEF StartLinux, workVars, recVars, sysVars, bootVars
<1>26. CASE StartupRollback
  BY Zenon, <1>26 DEF StartupRollback, RollBack, Left, Works, workVars, recVars
<1>30. CASE StartupVerdict
  BY Zenon, <1>30 DEF StartupVerdict, Used, workVars, recVars
<1>31. CASE BootIntoLinux
  BY Zenon, <1>31 DEF BootIntoLinux, Worker, workVars, recVars
<1>32. CASE RestoreWindowsBoot
  BY Zenon, <1>32 DEF RestoreWindowsBoot, workVars, recVars
<1>33. CASE RepairBoot
  BY Zenon, <1>33 DEF RepairBoot, CanRepairBoot, Worker, workVars
<1>34. CASE RepairStops
  BY Zenon, <1>34 DEF RepairStops, CanRepairBoot, Worker, Works, recVars, workVars
<1>27. ASSUME NEW r \in Recoverers, ObserveForResume(r) PROVE Flags'
  BY Zenon, <1>27 DEF ObserveForResume, VerifiedStates, recVars, sysVars, bootVars, workVars
<1>28. ASSUME NEW r \in Recoverers, DiscardRootDisk(r) PROVE Flags'
  BY Zenon, <1>28 DEF DiscardRootDisk, recVars, workVars, sysVars, bootVars
<1>29. CASE UNCHANGED vars
  BY Zenon, <1>29 DEF vars, recVars, sysVars, bootVars, workVars
<1> QED
  BY Zenon, <1>1, <1>2, <1>3, <1>4, <1>5, <1>6, <1>7, <1>8, <1>9, <1>10, <1>11,
     <1>12, <1>13, <1>14, <1>15, <1>16, <1>17, <1>18, <1>19, <1>20, <1>21,
     <1>22, <1>23, <1>24, <1>25, <1>26, <1>27, <1>28, <1>29,
     <1>30, <1>31, <1>32, <1>33, <1>34 DEF Next,
     WorkerStep, UserStep, RecovererStep, World

\* TypeOK without the flags, and the control points that make it inductive.
Sorts ==
    /\ journal \in Journals /\ mem \in Journals
    /\ state \in {"none", "staged", "armed", "deploying", "deployed", "healthy",
                  "failed"}
    /\ diskBy \in 0..MaxRuns
    /\ changed \subseteq {"power", "esp"}
    /\ chain \in Chains
    /\ machine \in {"windows", "deployer", "off"}
    /\ pc \in WorkerPCs \union {"none", "uninstall"}
    /\ step \in 1..Len(Steps)
    /\ why \in {"none", "cancelled", "failed", "armed"}
    /\ rec \in [Recoverers -> {"idle", "discard"}]
    /\ runs \in 0..MaxRuns /\ faults \in 0..MaxFaults /\ cuts \in 0..MaxCuts
    /\ pc = "prepare" => runs < MaxRuns
    /\ pc \in {"disarm", "state", "end"} => why # "none"

\* Every step keeps it, with attempts and failures within their bounds.
LEMMA SortsStep == Sorts /\ [Next]_vars => Sorts'
<1> SUFFICES ASSUME Sorts, [Next]_vars PROVE Sorts'
  OBVIOUS
<1>0. /\ Len(Steps) = 7
      /\ MaxRuns \in Nat /\ MaxFaults \in Nat /\ MaxCuts \in Nat
  BY StepTable, ConstantsAssumption
<1> USE <1>0 DEF Sorts, Journals, WorkerPCs, Chains
<1>1. CASE PrepareRefused
  BY <1>1 DEF PrepareRefused, Worker, recVars, sysVars, bootVars
<1>2. CASE Prepare
  BY <1>2 DEF Prepare, Worker, Flush, sysVars, bootVars, Works
<1>3. CASE CancelSeen
  BY <1>3 DEF CancelSeen, Worker, StopAt, recVars, sysVars, bootVars
<1>4. CASE StepStarts
  BY <1>4 DEF StepStarts, Worker, Flush, sysVars, bootVars, Works
<1>5. CASE StepRuns
  BY <1>5 DEF StepRuns, Worker, Effect, bootVars
<1>6. CASE StepRecorded
  <2>1. step' \in 1..Len(Steps) /\ pc' \in {"finish", "select"}
    BY <1>6 DEF StepRecorded
  <2>2. mem' \in Journals
    <3>1. mem' = [mem EXCEPT !.cur = 0, !.done = step]
      BY <1>6 DEF StepRecorded, Flush
    <3>2. mem' = [attempt |-> mem.attempt, outcome |-> mem.outcome, cur |-> 0,
                  done |-> step]
      BY <3>1
    <3> QED BY <3>2
  <2>3. journal' \in {journal, mem'}
    BY <1>6 DEF StepRecorded, Flush
  <2>4. faults' \in 0..MaxFaults
    BY <1>6 DEF StepRecorded, Flush, Works
  <2> QED BY <1>6, <2>1, <2>2, <2>3, <2>4 DEF StepRecorded, sysVars, bootVars
<1>7. CASE StepFails
  <2>1. faults' \in 0..MaxFaults
    BY <1>7 DEF StepFails, Works
  <2>2. diskBy' \in 0..MaxRuns /\ chain' \in Chains
    BY <1>7 DEF StepFails, Effect, bootVars
  <2>3. changed' \subseteq {"power", "esp"}
    BY <1>7 DEF StepFails, Effect, bootVars
  <2> QED BY <1>7, <2>1, <2>2, <2>3 DEF StepFails, Worker, StopAt
<1>8. CASE FinishPipeline
  BY <1>8 DEF FinishPipeline, Worker, StopAt, sysVars, bootVars
<1>9. CASE DisarmOneShot
  BY <1>9 DEF DisarmOneShot, RollBack, Left, Works, Worker
<1>10. CASE WriteState
  BY <1>10 DEF WriteState, Worker, sysVars, bootVars
<1>11. CASE EndJournal
  BY <1>11 DEF EndJournal, Worker, Flush, sysVars, bootVars, Works
<1>12. CASE OpenApp
  BY <1>12 DEF OpenApp, recVars, sysVars, bootVars, workVars
<1>13. CASE StartInstall
  BY <1>13 DEF StartInstall, Worker, recVars, sysVars, bootVars
<1>14. CASE CancelInstall
  BY <1>14 DEF CancelInstall, recVars, sysVars, bootVars
<1>15. CASE TryAgain
  BY <1>15 DEF TryAgain, Worker, workVars, recVars, sysVars, bootVars
<1>16. CASE StartUninstall
  BY <1>16 DEF StartUninstall, RollBack, Left, Works, Worker
<1>17. CASE FinishUninstall
  BY <1>17 DEF FinishUninstall, Worker, NoJournal
<1>18. CASE CloseApp
  BY <1>18 DEF CloseApp, Worker, AppEnds, recVars, sysVars, bootVars
<1>19. CASE Restart
  BY <1>19 DEF Restart, PowerOff, recVars, sysVars, bootVars, AppEnds
<1>20. CASE AppCrashes
  BY <1>20 DEF AppCrashes, AppEnds, recVars, sysVars, bootVars
<1>21. CASE PowerCut
  BY <1>21 DEF PowerCut, PowerOff, recVars, sysVars, bootVars, AppEnds
<1>22. CASE StartWindows
  BY <1>22 DEF StartWindows, Used, recVars, workVars, sysVars, bootVars
<1>23. CASE StartDeployer
  BY <1>23 DEF StartDeployer, workVars, recVars, sysVars, bootVars
<1>24. CASE DeployerEnds
  BY <1>24 DEF DeployerEnds, PowerOff, AppEnds
<1>25. CASE StartLinux
  BY <1>25 DEF StartLinux, workVars, recVars, sysVars, bootVars
<1>26. CASE StartupRollback
  BY <1>26 DEF StartupRollback, RollBack, Left, Works, workVars, recVars
<1>30. CASE StartupVerdict
  BY <1>30 DEF StartupVerdict, Used, workVars, recVars
<1>31. CASE BootIntoLinux
  BY <1>31 DEF BootIntoLinux, Worker, workVars, recVars
<1>32. CASE RestoreWindowsBoot
  BY <1>32 DEF RestoreWindowsBoot, workVars, recVars
<1>33. CASE RepairBoot
  BY <1>33 DEF RepairBoot, CanRepairBoot, Worker, workVars
<1>34. CASE RepairStops
  BY <1>34 DEF RepairStops, CanRepairBoot, Worker, Works, recVars, workVars
<1>27. ASSUME NEW r \in Recoverers, ObserveForResume(r) PROVE Sorts'
  BY <1>27 DEF ObserveForResume, VerifiedStates, recVars, sysVars, bootVars, workVars
<1>28. ASSUME NEW r \in Recoverers, DiscardRootDisk(r) PROVE Sorts'
  BY <1>28 DEF DiscardRootDisk, recVars, workVars, sysVars, bootVars
<1>29. CASE UNCHANGED vars
  BY <1>29 DEF vars, recVars, sysVars, bootVars, workVars
<1> QED
  BY <1>1, <1>2, <1>3, <1>4, <1>5, <1>6, <1>7, <1>8, <1>9, <1>10, <1>11,
     <1>12, <1>13, <1>14, <1>15, <1>16, <1>17, <1>18, <1>19, <1>20, <1>21,
     <1>22, <1>23, <1>24, <1>25, <1>26, <1>27, <1>28, <1>29,
     <1>30, <1>31, <1>32, <1>33, <1>34 DEF Next,
     WorkerStep, UserStep, RecovererStep, World

-----------------------------------------------------------------------------
(* The inductive invariant is kept *)

\* bootChainTouched, in step numbers.
LEMMA TouchedSteps ==
    ASSUME NEW j \in Journals
    PROVE  BootChainTouched(j) <=> j.cur \in {4, 5} \/ j.done >= 4
  BY StepTable DEF BootChainTouched, BootSteps, Journals

\* Where the journal's writes land, a flush leaves the file and the copy equal.
LEMMA FlushLands ==
    ASSUME Dependable, NEW j, Flush(j)
    PROVE  mem' = j /\ journal' = j /\ owner' /\ faults' = faults
<1>1. PICK ok \in BOOLEAN : /\ Works("journal", ok)
                            /\ journal' = IF ok THEN j ELSE journal
                            /\ owner' = (ok \/ owner)
  BY Zenon DEF Flush
<1>2. ok
  BY <1>1, Zenon DEF Works, Dependable
<1>3. faults' = faults
  BY <1>1, <1>2, Zenon DEF Works
<1>4. journal' = j /\ owner'
  BY <1>1, <1>2, Zenon
<1> QED BY <1>3, <1>4, Zenon DEF Flush

\* Where an uninstall takes the boot chain away, nothing of it is left.
LEMMA RemovalLands ==
    ASSUME Dependable, NEW ok \in BOOLEAN, Works("removal", ok), RollBack(ok)
    PROVE  chain' = "none" /\ faults' = faults
<1>1. ok
  BY Zenon DEF Works, Dependable
<1> QED BY <1>1, Zenon DEF Works, RollBack

\* What the steps change, in step numbers.
Changes ==
    /\ armed' <=> armed \/ step = 5
    /\ chain' = IF step = 5 THEN "entry" ELSE IF step = 7 THEN "armed" ELSE chain
    /\ open' = IF step = 5 THEN TRUE ELSE IF step = 7 THEN FALSE ELSE open
    /\ vouched' <=> vouched \/ step = 7
    /\ asked' = asked
    /\ diskBy' = IF step = 2 THEN mem.attempt ELSE diskBy
    /\ "esp" \in changed' <=> "esp" \in changed \/ step = 4

\* They say so by their names.
LEMMA EffectSteps ==
    ASSUME Sorts, Effect(Steps[step])
    PROVE  Changes
<1>1. step \in 1..7
  BY StepTable DEF Sorts
<1>2. armed' <=> armed \/ step = 5
  BY <1>1, StepTable, Zenon DEF Effect
<1>3. /\ chain' = IF step = 5 THEN "entry" ELSE IF step = 7 THEN "armed" ELSE chain
      /\ diskBy' = IF step = 2 THEN mem.attempt ELSE diskBy
  BY <1>1, StepTable DEF Effect
<1>4. "esp" \in changed' <=> "esp" \in changed \/ step = 4
  BY <1>1, StepTable DEF Effect
<1>5. /\ open' = IF step = 5 THEN TRUE ELSE IF step = 7 THEN FALSE ELSE open
      /\ asked' = asked
  BY <1>1, StepTable DEF Effect
<1>6. vouched' <=> vouched \/ step = 7
  BY <1>1, StepTable, Zenon DEF Effect
<1> QED BY <1>2, <1>3, <1>4, <1>5, <1>6, Zenon DEF Changes

\* What a step needs, in step numbers.
LEMMA CanRunSteps ==
    ASSUME Sorts
    PROVE  CanRun(Steps[step]) <=> /\ step = 2 => diskBy = 0
                                   /\ step = 7 => open /\ armed
<1>1. step \in 1..7
  BY StepTable DEF Sorts
<1> QED BY <1>1, StepTable, Zenon DEF CanRun

\* A recoverer that may discard root.disk has seen records of an attempt that
\* is over and never reached the boot chain.
LEMMA ResumeSeen ==
    ASSUME NEW ls, Classify(ls).resume, diskBy # 0
    PROVE  /\ ~(journal.outcome = "running" /\ owner)
           /\ journal.outcome # "absent" /\ ~BootChainTouched(journal)
           /\ ~started /\ ~armed /\ ~Deployed
<1> USE DEF Verdict
<1>1. Classify(ls) = PhaseOne
  BY DEF Classify
<1>2. /\ journal.outcome # "absent" /\ ~(journal.outcome = "running" /\ owner)
      /\ ~BootChainTouched(journal) /\ PartialRootDiskOwned
  <2>1. ASSUME NEW c, NEW k, NEW b, PhaseOne = Verdict(c, k, b) PROVE b
    BY <1>1, <2>1
  <2>2. journal.outcome # "absent"
    BY <2>1, Zenon DEF PhaseOne
  <2>3. ~(journal.outcome = "running" /\ owner)
    BY <2>1, <2>2, Zenon DEF PhaseOne, OwnerUp
  <2>4. ~BootChainTouched(journal)
    BY <2>1, <2>2, <2>3, Zenon DEF PhaseOne, OwnerUp
  <2>5. PartialRootDiskOwned
    BY <2>1, <2>2, <2>3, <2>4, Zenon DEF PhaseOne, OwnerUp
  <2> QED BY <2>2, <2>3, <2>4, <2>5
<1> QED BY <1>2 DEF PartialRootDiskOwned, Deployed

\* Every action keeps the invariant.
LEMMA SafeStep ==
    Dependable /\ Flags /\ Sorts /\ SafeInv /\ [Next]_vars => SafeInv'
<1> SUFFICES ASSUME Dependable, Flags, Sorts, SafeInv, [Next]_vars PROVE SafeInv'
  OBVIOUS
<1>0. Sorts' /\ ~Overtaking
  BY SortsStep DEF Dependable
<1>a. /\ BootChainTouched(journal) <=> journal.cur \in {4, 5} \/ journal.done >= 4
      /\ BootChainTouched(journal)' <=> journal'.cur \in {4, 5} \/ journal'.done >= 4
  BY <1>0, TouchedSteps DEF Sorts
<1>b. Len(Steps) = 7
  BY StepTable
<1> HIDE DEF BootChainTouched
<1> USE <1>0, <1>a, <1>b DEF Sorts, Journals, WorkerPCs, SafeInv, Processes,
    Recorder, Holds, Guarded, StopRecorded, Stops, Known, Discards, Ready, UsedUp,
    Arming, Busy, Fresh, Clear, Deployed, Chains
<1>1. CASE PrepareRefused
  BY <1>1 DEF PrepareRefused, Worker, recVars, sysVars, bootVars
<1>2. CASE Prepare
  <2>1. Flush([attempt |-> runs', outcome |-> "running", cur |-> 0, done |-> 0])
    BY <1>2 DEF Prepare
  <2>2. /\ mem' = [attempt |-> runs', outcome |-> "running", cur |-> 0, done |-> 0]
        /\ journal' = mem' /\ owner' /\ faults' = faults
    BY <2>1, FlushLands
  <2> QED BY <1>2, <2>2 DEF Prepare, Worker, sysVars, bootVars
<1>3. CASE CancelSeen
  BY <1>3 DEF CancelSeen, Worker, StopAt, recVars, sysVars, bootVars
<1>4. CASE StepStarts
  <2>1. Flush([mem EXCEPT !.cur = step])
    BY <1>4 DEF StepStarts
  <2>2. /\ mem' = [mem EXCEPT !.cur = step]
        /\ journal' = mem' /\ owner' /\ faults' = faults
    BY <2>1, FlushLands
  <2>3. rollback' <=> rollback \/ step = 5
    BY <1>4, StepTable, Zenon DEF StepStarts
  <2> QED BY <1>4, <2>2, <2>3 DEF StepStarts, Worker, sysVars, bootVars
<1>5. CASE StepRuns
  <2>1. Effect(Steps[step])
    BY <1>5 DEF StepRuns
  <2>2. (step = 2 => diskBy = 0) /\ (step = 7 => open /\ armed)
    BY <1>5, CanRunSteps DEF StepRuns
  <2>3. Changes
    BY <2>1, EffectSteps
  <2>4. Processes' /\ Recorder' /\ Holds'
    BY <1>5, <2>2, <2>3 DEF StepRuns, Worker, Changes
  <2>5. Stops' /\ Known' /\ Discards'
    BY <1>5, <2>2, <2>3 DEF StepRuns, Worker, Changes
  <2>6. Ready'
    BY <1>5, <2>2, <2>3 DEF StepRuns, Worker, Changes
  <2> QED BY <2>4, <2>5, <2>6
<1>6. CASE StepRecorded
  <2>1. Flush([mem EXCEPT !.cur = 0, !.done = step])
    BY <1>6 DEF StepRecorded
  <2>2. /\ mem' = [mem EXCEPT !.cur = 0, !.done = step]
        /\ journal' = mem' /\ owner' /\ faults' = faults
    BY <2>1, FlushLands
  <2> QED BY <1>6, <2>2 DEF StepRecorded, Worker, sysVars, bootVars
<1>7. CASE StepFails
  <2>1. CASE UNCHANGED <<changed, diskBy, armed, bootVars>>
    BY <1>7, <2>1 DEF StepFails, Worker, StopAt, bootVars
  <2>2. CASE CanRun(Steps[step]) /\ Effect(Steps[step])
    <3>1. (step = 2 => diskBy = 0) /\ (step = 7 => open /\ armed)
      BY <2>2, CanRunSteps
    <3>2. Changes
      BY <2>2, EffectSteps
    <3>3. Processes' /\ Recorder' /\ Holds'
      BY <1>7, <3>1, <3>2 DEF StepFails, Worker, StopAt, Changes
    <3>4. Stops' /\ Known' /\ Discards'
      BY <1>7, <3>1, <3>2 DEF StepFails, Worker, StopAt, Changes
    <3>5. Ready'
      BY <1>7, <3>1, <3>2 DEF StepFails, Worker, StopAt, Changes
    <3> QED BY <3>3, <3>4, <3>5
  <2>3. CASE /\ Steps[step] = "bcd" /\ chain' = "entry" /\ open' = TRUE
             /\ UNCHANGED <<changed, diskBy, armed, asked, vouched>>
    <3>1. step = 5
      BY <2>3, StepTable
    <3> QED BY <1>7, <2>3, <3>1 DEF StepFails, Worker, StopAt
  <2> QED BY <1>7, <2>1, <2>2, <2>3 DEF StepFails
<1>8. CASE FinishPipeline
  BY <1>8 DEF FinishPipeline, Worker, StopAt, sysVars, bootVars
<1>9. CASE DisarmOneShot
  BY <1>9 DEF DisarmOneShot, RollBack, Left, Works, Worker
<1>10. CASE WriteState
  BY <1>10 DEF WriteState, Worker, sysVars, bootVars
<1>11. CASE EndJournal
  <2>1. Flush([mem EXCEPT !.outcome = why])
    BY <1>11 DEF EndJournal
  <2>2. /\ mem' = [mem EXCEPT !.outcome = why]
        /\ journal' = mem' /\ owner' /\ faults' = faults
    BY <2>1, FlushLands
  <2> QED BY <1>11, <2>2 DEF EndJournal, Worker, sysVars, bootVars
<1>12. CASE OpenApp
  BY <1>12 DEF OpenApp, recVars, sysVars, bootVars, workVars
<1>13. CASE StartInstall
  BY <1>13 DEF StartInstall, Worker, recVars, sysVars, bootVars
<1>14. CASE CancelInstall
  BY <1>14 DEF CancelInstall, recVars, sysVars, bootVars
<1>15. CASE TryAgain
  BY <1>15 DEF TryAgain, Worker, workVars, recVars, sysVars, bootVars
<1>16. CASE StartUninstall
  <2>1. started' => started
    BY <1>16, Zenon DEF StartUninstall
  <2>2. chain' = "none"
    BY <1>16, RemovalLands DEF StartUninstall
  <2> QED BY <1>16, <2>1, <2>2 DEF StartUninstall, Worker
<1>17. CASE FinishUninstall
  BY <1>17 DEF FinishUninstall, Worker, NoJournal
<1>18. CASE CloseApp
  BY <1>18 DEF CloseApp, Worker, AppEnds, recVars, sysVars, bootVars
<1>19. CASE Restart
  BY <1>19 DEF Restart, PowerOff, recVars, sysVars, bootVars, AppEnds
<1>20. CASE AppCrashes
  BY <1>20 DEF AppCrashes, AppEnds, recVars, sysVars, bootVars
<1>21. CASE PowerCut
  BY <1>21 DEF PowerCut, PowerOff, recVars, sysVars, bootVars, AppEnds
<1>22. CASE StartWindows
  BY <1>22 DEF StartWindows, Used, recVars, workVars, sysVars, bootVars
<1>23. CASE StartDeployer
  BY <1>23 DEF StartDeployer, workVars, recVars, sysVars, bootVars
<1>24. CASE DeployerEnds
  BY <1>24 DEF DeployerEnds, PowerOff, AppEnds
<1>25. CASE StartLinux
  BY <1>25 DEF StartLinux, workVars, recVars, sysVars, bootVars
<1>26. CASE StartupRollback
  BY <1>26 DEF StartupRollback, RollBack, Left, Works, workVars, recVars
<1>30. CASE StartupVerdict
  BY <1>30 DEF StartupVerdict, Used, workVars, recVars
<1>31. CASE BootIntoLinux
  BY <1>31 DEF BootIntoLinux, Worker, workVars, recVars
<1>32. CASE RestoreWindowsBoot
  BY <1>32 DEF RestoreWindowsBoot, workVars, recVars
<1>33. CASE RepairBoot
  BY <1>33 DEF RepairBoot, CanRepairBoot, Worker, workVars
<1>34. CASE RepairStops
  BY <1>34 DEF RepairStops, CanRepairBoot, Worker, Works, recVars, workVars
<1>27. ASSUME NEW r \in Recoverers, ObserveForResume(r) PROVE SafeInv'
  <2>1. ~Busy /\ Clear
    BY <1>27, ResumeSeen DEF ObserveForResume
  <2> QED BY <1>27, <2>1 DEF ObserveForResume, recVars, sysVars, bootVars, workVars
<1>28. ASSUME NEW r \in Recoverers, DiscardRootDisk(r) PROVE SafeInv'
  BY <1>28 DEF DiscardRootDisk, recVars, workVars, sysVars, bootVars
<1>29. CASE UNCHANGED vars
  BY <1>29 DEF vars, recVars, sysVars, bootVars, workVars
<1> QED
  BY <1>1, <1>2, <1>3, <1>4, <1>5, <1>6, <1>7, <1>8, <1>9, <1>10, <1>11,
     <1>12, <1>13, <1>14, <1>15, <1>16, <1>17, <1>18, <1>19, <1>20, <1>21,
     <1>22, <1>23, <1>24, <1>25, <1>26, <1>27, <1>28, <1>29,
     <1>30, <1>31, <1>32, <1>33, <1>34 DEF Next,
     WorkerStep, UserStep, RecovererStep, World

-----------------------------------------------------------------------------
(* The theorems *)

\* A machine nothing was ever installed on is well typed.
LEMMA InitTypes == Init => Flags /\ Sorts
<1> SUFFICES ASSUME Init PROVE Flags /\ Sorts
  OBVIOUS
<1>1. Flags
  BY Zenon DEF Init, Flags
<1>2. Sorts
  BY StepTable, ConstantsAssumption DEF Init, NoJournal, Sorts, Journals, WorkerPCs, Chains
<1> QED BY <1>1, <1>2

\* Every record, process and bound of the model keeps to its set, whatever
\* fails and whoever overtakes whom.
THEOREM TypeCorrect == Spec => []TypeOK
<1>1. Flags /\ Sorts => TypeOK
  BY DEF Sorts, TypeOK
<1> QED BY InitTypes, <1>1, FlagsStep, SortsStep, PTL DEF Spec

\* The inductive invariant of a machine whose journal can be written and where
\* no attempt overtakes a recoverer.
THEOREM RecordsAreKept ==
    ASSUME Dependable
    PROVE  Spec => [](Flags /\ Sorts /\ SafeInv)
<1>1. Init => SafeInv
  <2> SUFFICES ASSUME Init PROVE SafeInv
    OBVIOUS
  <2>1. journal \in Journals
    BY InitTypes DEF Sorts
  <2>2. ~BootChainTouched(journal)
    BY <2>1, TouchedSteps DEF Init, NoJournal
  <2> QED BY <2>2 DEF Init, NoJournal, WorkerPCs, SafeInv, Processes, Recorder,
          Holds, Guarded, StopRecorded, Stops, Known, Discards, Ready, UsedUp, Arming,
          Busy, Fresh, Clear, Deployed
<1> QED BY InitTypes, <1>1, FlagsStep, SortsStep, SafeStep, PTL DEF Spec

\* install_recovery.go:119-122: root.disk with somebody's Linux on it is removed
\* by an uninstall that was asked to, and by nothing else.
THEOREM LinuxDiskIsKept ==
    ASSUME Dependable
    PROVE  Spec => LinuxDiskKept
<1>1. ASSUME Flags, Sorts, SafeInv, [Next]_vars
      PROVE  [(linux /\ diskBy' = 0) => pc = "uninstall"]_vars
  <2> SUFFICES ASSUME linux, diskBy' = 0 PROVE pc = "uninstall"
    OBVIOUS
  <2> USE <1>1
  <2>1. diskBy # 0 /\ \A r \in Recoverers : rec[r] # "discard"
    BY DEF SafeInv, Discards, Clear, Fresh
  <2>2. diskBy' # diskBy
    BY <2>1
  <2>3. ~UNCHANGED vars /\ ~UNCHANGED <<recVars, sysVars>> /\ ~UNCHANGED sysVars
    BY <2>2 DEF vars, recVars, sysVars, bootVars
  <2>4. ~StepRuns
    BY <2>1, <2>2, StepTable DEF StepRuns, CanRun, Effect, Sorts
  <2>5. ~StepFails
    BY <2>1, <2>2, StepTable DEF StepFails, CanRun, Effect, Sorts
  <2>6. ~Prepare /\ ~StepStarts /\ ~StepRecorded /\ ~EndJournal /\ ~WriteState
    BY <2>2 DEF Prepare, StepStarts, StepRecorded, EndJournal, WriteState, sysVars, bootVars
  <2>7. ~PrepareRefused /\ ~CancelSeen /\ ~FinishPipeline /\ ~DisarmOneShot
    BY <2>2 DEF PrepareRefused, CancelSeen, FinishPipeline, DisarmOneShot, sysVars, bootVars
  <2>8. /\ ~OpenApp /\ ~StartInstall /\ ~CancelInstall /\ ~TryAgain
        /\ ~BootIntoLinux /\ ~RestoreWindowsBoot /\ ~RepairBoot /\ ~RepairStops
        /\ ~StartUninstall /\ ~CloseApp /\ ~Restart
    BY <2>2 DEF OpenApp, StartInstall, CancelInstall, TryAgain, BootIntoLinux,
       RestoreWindowsBoot, RepairBoot, RepairStops, StartUninstall, CloseApp, Restart,
       sysVars
  <2>9. ~World
    BY <2>2 DEF World, AppCrashes, PowerCut, StartWindows, StartDeployer,
       DeployerEnds, StartLinux, StartupRollback, StartupVerdict, sysVars
  <2>10. ~RecovererStep
    BY <2>1, <2>2 DEF RecovererStep, ObserveForResume, DiscardRootDisk, sysVars
  <2>11. FinishUninstall
    BY <2>3, <2>4, <2>5, <2>6, <2>7, <2>8, <2>9, <2>10 DEF Next, WorkerStep, UserStep
  <2> QED BY <2>11 DEF FinishUninstall, Worker
<1> QED BY <1>1, RecordsAreKept, PTL DEF Spec, LinuxDiskKept

\* A Phase 1 that did not finish is classified from its journal alone.
LEMMA PhaseOneCauses ==
    ASSUME NEW ls, Classify(ls).cause \in {"interrupted", "cancelled", "step-failed"}
    PROVE  /\ Classify(ls) = PhaseOne /\ journal.outcome # "absent"
           /\ BootChainTouched(journal) => Classify(ls).class = "needs-repair"
<1> USE DEF Verdict
<1>1. Classify(ls) = PhaseOne
  BY DEF Classify
<1>2. journal.outcome # "absent"
  BY <1>1 DEF PhaseOne
<1>3. ~(journal.outcome = "running" /\ owner)
  BY <1>1, <1>2 DEF PhaseOne, OwnerUp
<1>4. BootChainTouched(journal) => PhaseOne.class = "needs-repair"
  BY <1>2, <1>3 DEF PhaseOne, OwnerUp
<1> QED BY <1>1, <1>2, <1>4

\* install_recovery.go:283-296: an attempt called resumable or failed has left
\* no boot entry and nothing on the ESP.
THEOREM ResumableIsUntouched ==
    ASSUME Dependable
    PROVE  Spec => []BootUntouchedIfResumable
<1>1. SafeInv => BootUntouchedIfResumable
  <2> SUFFICES ASSUME SafeInv, NEW ls \in VerifiedStates,
                      Classify(ls).cause \in {"interrupted", "cancelled", "step-failed"},
                      Classify(ls).class # "needs-repair"
               PROVE  chain = "none" /\ "esp" \notin changed
    BY DEF BootUntouchedIfResumable
  <2>1. ~BootChainTouched(journal)
    BY PhaseOneCauses
  <2> QED BY <2>1 DEF SafeInv, Known
<1> QED BY <1>1, RecordsAreKept, PTL

\* installer_esp.go:642-651: what a cancelled or failed attempt leaves of its
\* boot chain stays open for the next start of Windows to take back, whatever
\* fails, until the user asks for it again.
THEOREM StopsFailClosed ==
    ASSUME Dependable
    PROVE  Spec => []StopFailsClosed
<1>1. SafeInv => StopFailsClosed
  BY DEF SafeInv, Stops, StopRecorded, Guarded, Stopped, StopFailsClosed
<1> QED BY <1>1, RecordsAreKept, PTL

\* install_recovery.go:206-210: "Ready to restart" is said of an armed one-shot,
\* in a session of Windows that was judged and not interfered with since.
THEOREM ReadyIsArmed ==
    ASSUME Dependable
    PROVE  Spec => []AwaitingRestartIsArmed
<1>1. SafeInv => AwaitingRestartIsArmed
  <2> SUFFICES ASSUME SafeInv, AtRest, armed, vouched, NEW ls \in VerifiedStates,
                      Classify(ls).cause = "awaiting-restart"
               PROVE  chain = "armed"
    BY DEF AwaitingRestartIsArmed
  <2>1. PhaseTwoCause(ls) = "awaiting-restart"
    <3>1. PhaseOne.cause # "awaiting-restart"
      BY DEF PhaseOne, Verdict
    <3> QED BY <3>1 DEF Classify, Verdict
  <2>2. journal.outcome # "absent"
    BY DEF SafeInv, Known
  <2>3. journal.outcome = "armed" /\ ~(verdict /\ ~started)
    BY <2>1, <2>2 DEF PhaseTwoCause
  <2>4. ~Deployed /\ ~(state = "failed" /\ started)
    BY <2>1 DEF PhaseTwoCause, VerifiedStates, Deployed
  <2> QED BY <2>3, <2>4 DEF SafeInv, Ready, UsedUp, AtRest
<1> QED BY <1>1, RecordsAreKept, PTL

\* install_journal.go:16-20: "running" is believed only of the pipeline that
\* wrote it, and only while it runs.
THEOREM InProgress ==
    ASSUME Dependable
    PROVE  Spec => []InProgressIsReal
<1>1. SafeInv => InProgressIsReal
  <2> SUFFICES ASSUME SafeInv, AtRest, NEW ls \in VerifiedStates,
                      Classify(ls).class = "in-progress"
               PROVE  FALSE
    BY DEF InProgressIsReal
  <2>1. Classify(ls) = PhaseOne
    BY DEF Classify, Verdict
  <2>2. journal.outcome = "running" /\ owner
    BY <2>1 DEF PhaseOne, Verdict, OwnerUp
  <2> QED BY <2>2 DEF SafeInv, Recorder, Busy, AtRest, WorkerPCs
<1> QED BY <1>1, RecordsAreKept, PTL
=============================================================================
