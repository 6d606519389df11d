-------------------------- MODULE EspOwnershipProofs --------------------------
(***************************************************************************)
(* Type correctness of EspOwnership and the safety of other systems' boot  *)
(* files, for any number of processes of the app, any mix of boot chains,  *)
(* installs by releases without a manifest, torn small files, and every    *)
(* bound on runs, faults and cuts.                                         *)
(***************************************************************************)
EXTENDS EspOwnership, TLAPS

Ops == {"claim", "remove", "write", "may", "check", "fill"}

-----------------------------------------------------------------------------
(* Type correctness *)

\* The names of the model are files of the partition.
LEMMA FilesAreFiles ==
    /\ "fedora/shim" \in File /\ "fedora/grub" \in File /\ "fedora/mm" \in File
    /\ "systemd/shim" \in File /\ "systemd/grub" \in File
    /\ "systemd/sdboot" \in File
    /\ "wootc/kernel" \in File /\ "wootc/initrd" \in File
    /\ "wootc/p2kernel" \in File /\ "wootc/p2initrd" \in File
    /\ "fedora/cfg" \in File /\ "redhat/cfg" \in File /\ "wootc/cfg" \in File
    /\ "centos/cfg" \in File /\ "loader.conf" \in File
    /\ "entries/deployer" \in File /\ "entries/wootc" \in File
BY DEF File, FedoraBins, SystemdBins, Payload, Configs, GrubCfgs, LoaderConfs

\* What guardESPDestinations is asked about are files of the partition.
LEMMA GuardListType == \A m : GuardList(m) \in Seq(File)
BY FilesAreFiles DEF GuardList

\* So are the files setupESP writes.
LEMMA StagePlanType == \A m : StagePlan(m) \in Seq(File)
<1> SUFFICES ASSUME NEW m PROVE StagePlan(m) \in Seq(File)
  OBVIOUS
<1>1. CASE m = "signed"
  BY <1>1, FilesAreFiles DEF StagePlan
<1>2. CASE m = "shimmed"
  BY <1>2, FilesAreFiles DEF StagePlan
<1>3. CASE m # "signed" /\ m # "shimmed"
  BY <1>3, FilesAreFiles DEF StagePlan
<1> QED BY <1>1, <1>2, <1>3

\* Every branch of the deployer is a list of commands on such files.
LEMMA DeployerPlanType ==
    ASSUME NEW b \in Vendors \union {"composefs", "systemd"}
    PROVE  DeployerPlan(b) \in Seq(Ops \X File)
<1>1. \A op \in Ops, f \in File : <<op, f>> \in Ops \X File
  OBVIOUS
<1>2. "claim" \in Ops /\ "remove" \in Ops /\ "write" \in Ops /\ "may" \in Ops
      /\ "check" \in Ops
  BY DEF Ops
<1>3. CASE b = "composefs"
  BY <1>1, <1>2, <1>3, FilesAreFiles DEF DeployerPlan
<1>4. CASE b = "systemd"
  BY <1>1, <1>2, <1>4, FilesAreFiles DEF DeployerPlan
<1>5. CASE b \in Vendors /\ b # "composefs" /\ b # "systemd"
  <2>1. b \in File
    BY <1>5, VendorsAssumption, FilesAreFiles
  <2> QED BY <1>1, <1>2, <1>5, <2>1, FilesAreFiles DEF DeployerPlan
<1> QED BY <1>3, <1>4, <1>5

EspTyped ==
    /\ file \in [File -> Owners]
    /\ manifest \in [claims : SUBSET File, by : {"none", "app", "deployer"}]
    /\ manifest.by = "none" => Claims = {}
    /\ tmp \in Seq(SUBSET File) /\ Len(tmp) <= 1

\* A process that is writing has a file to write.
ProcTyped ==
    /\ pc \in [Proc -> {"idle", "marker", "guard", "stage", "persist", "sync",
                        "rename", "write", "fill", "remove"}]
    /\ mode \in [Proc -> Modes] /\ todo \in [Proc -> Seq(File)]
    /\ snap \in [Proc -> SUBSET File] /\ paths \in [Proc -> SUBSET File]
    /\ \A p \in Proc :
           pc[p] \in {"persist", "sync", "rename", "write", "fill"} => todo[p] # <<>>

RestTyped ==
    /\ machine \in {"windows", "deployer"}
    /\ dplan \in Seq(Ops \X File)

FlagsTyped == ours \in [Proc -> BOOLEAN] /\ refused \in BOOLEAN /\ cleaned \in BOOLEAN

TypeInv == EspTyped /\ ProcTyped /\ RestTyped /\ FlagsTyped

\* Together these are the type invariant.
LEMMA TypeInvTypes == TypeInv => TypeOK
BY DEF TypeInv, TypeOK, EspTyped, ProcTyped, RestTyped, FlagsTyped, Ops

\* A process that returns keeps its types.
LEMMA StopTyped ==
    ASSUME ProcTyped, NEW ps, Stop(ps), UNCHANGED mode PROVE ProcTyped'
BY DEF ProcTyped, Stop

\* So do its flags.
LEMMA StopFlags ==
    ASSUME FlagsTyped, NEW ps, Stop(ps) PROVE ours' \in [Proc -> BOOLEAN]
<1>1. \A p \in Proc : (IF p \in ps THEN FALSE ELSE ours[p]) \in BOOLEAN
  BY Zenon DEF FlagsTyped
<1> QED BY <1>1 DEF Stop

\* The files keep their types.
LEMMA EspStep == TypeInv /\ [Next]_vars => EspTyped'
<1> SUFFICES ASSUME TypeInv, [Next]_vars PROVE EspTyped'
  OBVIOUS
<1> USE DEF TypeInv, EspTyped, Owners, Claims
<1>1. ASSUME NEW p \in Proc, StartInstall(p) PROVE EspTyped'
  BY <1>1 DEF StartInstall, espVars
<1>2. ASSUME NEW p \in Proc, CheckMarker(p) PROVE EspTyped'
  BY <1>2 DEF CheckMarker, espVars
<1>3. ASSUME NEW p \in Proc, GuardFile(p) PROVE EspTyped'
  BY <1>3 DEF GuardFile, espVars
<1>4. ASSUME NEW p \in Proc, GuardEnds(p) PROVE EspTyped'
  BY <1>4 DEF GuardEnds, espVars
<1>5. ASSUME NEW p \in Proc, StageFile(p) PROVE EspTyped'
  BY <1>5 DEF StageFile, espVars
<1>6. ASSUME NEW p \in Proc, SkipOptional(p) PROVE EspTyped'
  BY <1>6 DEF SkipOptional, espVars
<1>7. ASSUME NEW p \in Proc, StageEnds(p) PROVE EspTyped'
  BY <1>7 DEF StageEnds, espVars
<1>8. ASSUME NEW p \in Proc, Persist(p) PROVE EspTyped'
  <2>1. tmp' \in {<<>>, tmp, <<{}>>} /\ UNCHANGED <<file, manifest>>
    BY <1>8 DEF Persist
  <2>2. /\ <<>> \in Seq(SUBSET File) /\ <<{}>> \in Seq(SUBSET File)
        /\ Len(<<>>) = 0 /\ Len(<<{}>>) = 1
    OBVIOUS
  <2>3. tmp' \in Seq(SUBSET File) /\ Len(tmp') <= 1
    <3>1. CASE tmp' = <<>>
      BY <3>1, <2>2
    <3>2. CASE tmp' = tmp
      BY <3>2
    <3>3. CASE tmp' = <<{}>>
      BY <3>3, <2>2
    <3> QED BY <2>1, <3>1, <3>2, <3>3
  <2> QED BY <2>1, <2>3
<1>9. ASSUME NEW p \in Proc, SyncTmp(p) PROVE EspTyped'
  BY <1>9 DEF SyncTmp, ProcTyped
<1>10. ASSUME NEW p \in Proc, Rename(p) PROVE EspTyped'
  BY <1>10 DEF Rename, MoveTmp
<1>11. ASSUME NEW p \in Proc, RenameFails(p) PROVE EspTyped'
  <2>1. CASE MoveTmp /\ tmp # <<>>
    BY <1>11, <2>1 DEF RenameFails, MoveTmp
  <2>2. CASE UNCHANGED <<manifest, tmp>>
    BY <1>11, <2>2 DEF RenameFails
  <2> QED BY <1>11, <2>1, <2>2 DEF RenameFails
<1>12. ASSUME NEW p \in Proc, PersistGivesUp(p) PROVE EspTyped'
  BY <1>12 DEF PersistGivesUp
<1>13. ASSUME NEW p \in Proc, WriteFile(p) PROVE EspTyped'
  BY <1>13 DEF WriteFile
<1>14. ASSUME NEW p \in Proc, FillFile(p) PROVE EspTyped'
  BY <1>14 DEF FillFile
<1>15. ASSUME NEW p \in Proc, SetupFails(p) PROVE EspTyped'
  BY <1>15 DEF SetupFails, espVars
<1>16. ASSUME NEW p \in Proc, StartUninstall(p) PROVE EspTyped'
  BY <1>16 DEF StartUninstall, espVars
<1>17. ASSUME NEW p \in Proc, RemoveFile(p) PROVE EspTyped'
  BY <1>17 DEF RemoveFile
<1>18. ASSUME NEW p \in Proc, CleanupFails(p) PROVE EspTyped'
  BY <1>18 DEF CleanupFails, espVars
<1>19. ASSUME NEW p \in Proc, CleanupEnds(p) PROVE EspTyped'
  BY <1>19 DEF CleanupEnds, NoManifest
<1>20. ASSUME NEW p \in Proc, Kill(p) PROVE EspTyped'
  BY <1>20 DEF Kill, espVars
<1>21. CASE StartDeployer
  BY <1>21 DEF StartDeployer
<1>22. CASE DeployerClaims
  BY <1>22 DEF DeployerClaims, Command, Target, RestTyped
<1>23. CASE DeployerRemoves
  BY <1>23 DEF DeployerRemoves
<1>24. CASE DeployerWrites
  BY <1>24 DEF DeployerWrites
<1>25. CASE DeployerFills
  BY <1>25 DEF DeployerFills
<1>26. CASE DeployerSkips
  BY <1>26 DEF DeployerSkips, espVars
<1>27. CASE DeployerRestores
  BY <1>27 DEF DeployerRestores
<1>28. CASE DeployerExits
  BY <1>28 DEF DeployerExits, espVars
<1>29. CASE PowerCut
  BY <1>29 DEF PowerCut, espVars
<1>30. CASE UNCHANGED vars
  BY <1>30 DEF vars, espVars, procVars, readVars
<1> QED BY <1>1, <1>2, <1>3, <1>4, <1>5, <1>6, <1>7, <1>8, <1>9, <1>10, <1>11,
    <1>12, <1>13, <1>14, <1>15, <1>16, <1>17, <1>18, <1>19, <1>20, <1>21,
    <1>22, <1>23, <1>24, <1>25, <1>26, <1>27, <1>28, <1>29, <1>30 DEF Next,
    InstallStep, UninstallStep, DeployerStep

\* The processes keep theirs.
LEMMA ProcStep == TypeInv /\ [Next]_vars => ProcTyped'
<1> SUFFICES ASSUME TypeInv, [Next]_vars PROVE ProcTyped'
  OBVIOUS
<1>0. EspTyped /\ ProcTyped
  BY DEF TypeInv
<1> USE <1>0
<1>1. ASSUME NEW p \in Proc, StartInstall(p) PROVE ProcTyped'
  BY <1>1 DEF StartInstall, At, Goto, espVars, readVars, ProcTyped, EspTyped, Claims
<1>2. ASSUME NEW p \in Proc, CheckMarker(p) PROVE ProcTyped'
  <2>1. CASE Refuse(p)
    BY <1>2, <2>1, StopTyped DEF CheckMarker, Refuse
  <2>2. CASE /\ Goto(p, "guard")
             /\ todo' = [todo EXCEPT ![p] = GuardList(mode[p])]
             /\ snap' = [snap EXCEPT ![p] = Claims]
             /\ UNCHANGED <<mode, paths>>
    <3>1. GuardList(mode[p]) \in Seq(File) /\ Claims \subseteq File
      BY GuardListType DEF EspTyped, Claims
    <3> QED BY <2>2, <3>1 DEF Goto, ProcTyped
  <2> QED BY <1>2, <2>1, <2>2 DEF CheckMarker
<1>3. ASSUME NEW p \in Proc, GuardFile(p) PROVE ProcTyped'
  <2>1. CASE Refuse(p)
    BY <1>3, <2>1, StopTyped DEF GuardFile, Refuse
  <2>2. CASE Advance(p) /\ UNCHANGED <<pc, mode, readVars>>
    <3>1. todo[p] # <<>> /\ pc[p] = "guard"
      BY <1>3 DEF GuardFile, At
    <3> QED BY <2>2, <3>1 DEF Advance, readVars, ProcTyped
  <2> QED BY <1>3, <2>1, <2>2 DEF GuardFile
<1>4. ASSUME NEW p \in Proc, GuardEnds(p) PROVE ProcTyped'
  <2>1. CASE Refuse(p)
    BY <1>4, <2>1, StopTyped DEF GuardEnds, Refuse
  <2>2. CASE /\ Goto(p, "stage")
             /\ todo' = [todo EXCEPT ![p] = StagePlan(mode[p])]
             /\ UNCHANGED <<mode, readVars>>
    <3>1. StagePlan(mode[p]) \in Seq(File)
      BY StagePlanType
    <3> QED BY <2>2, <3>1 DEF Goto, readVars, ProcTyped
  <2> QED BY <1>4, <2>1, <2>2 DEF GuardEnds
<1>5. ASSUME NEW p \in Proc, StageFile(p) PROVE ProcTyped'
  <2>1. /\ todo[p] # <<>> /\ Current(p) \in File /\ Claims \subseteq File
        /\ UNCHANGED <<mode, todo, paths>>
    BY <1>5 DEF StageFile, Current, ProcTyped, EspTyped, Claims
  <2>2. CASE /\ snap' = [snap EXCEPT ![p] = Claims \union {Current(p)}]
             /\ Goto(p, "persist")
    BY <2>1, <2>2 DEF ProcTyped, Goto
  <2>3. CASE Goto(p, "write") /\ UNCHANGED snap
    BY <2>1, <2>3 DEF ProcTyped, Goto
  <2> QED BY <1>5, <2>2, <2>3 DEF StageFile
<1>6. ASSUME NEW p \in Proc, SkipOptional(p) PROVE ProcTyped'
  BY <1>6 DEF SkipOptional, At, Advance, Current, espVars, readVars,
      ProcTyped, EspTyped, Claims
<1>7. ASSUME NEW p \in Proc, StageEnds(p) PROVE ProcTyped'
  BY <1>7, StopTyped DEF StageEnds
<1>8. ASSUME NEW p \in Proc, Persist(p) PROVE ProcTyped'
  <2>1. /\ pc[p] = "persist" /\ UNCHANGED <<mode, todo, readVars>>
        /\ \E x \in {"write", "rename", "sync"} : pc' = [pc EXCEPT ![p] = x]
    BY <1>8 DEF Persist, At, Goto
  <2> QED BY <2>1 DEF ProcTyped, readVars
<1>9. ASSUME NEW p \in Proc, SyncTmp(p) PROVE ProcTyped'
  BY <1>9 DEF SyncTmp, At, Goto, readVars, ProcTyped, EspTyped, Claims
<1>10. ASSUME NEW p \in Proc, Rename(p) PROVE ProcTyped'
  BY <1>10 DEF Rename, At, Goto, MoveTmp, readVars, ProcTyped, EspTyped, Claims
<1>11. ASSUME NEW p \in Proc, RenameFails(p) PROVE ProcTyped'
  BY <1>11 DEF RenameFails, At, Goto, MoveTmp, Fault, readVars, ProcTyped,
      EspTyped, Claims
<1>12. ASSUME NEW p \in Proc, PersistGivesUp(p) PROVE ProcTyped'
  BY <1>12, StopTyped DEF PersistGivesUp
<1>13. ASSUME NEW p \in Proc, WriteFile(p) PROVE ProcTyped'
  <2>1. pc[p] = "write" /\ UNCHANGED <<mode, readVars>>
    BY <1>13 DEF WriteFile, At
  <2>2. CASE Advance(p) /\ Goto(p, "stage")
    BY <2>1, <2>2 DEF Advance, Goto, ProcTyped, readVars
  <2>3. CASE Goto(p, "fill") /\ UNCHANGED todo
    BY <2>1, <2>3 DEF Goto, ProcTyped, readVars
  <2> QED BY <1>13, <2>2, <2>3 DEF WriteFile
<1>14. ASSUME NEW p \in Proc, FillFile(p) PROVE ProcTyped'
  BY <1>14 DEF FillFile, At, Goto, Current, Advance, readVars, ProcTyped,
      EspTyped, Claims
<1>15. ASSUME NEW p \in Proc, SetupFails(p) PROVE ProcTyped'
  BY <1>15, StopTyped DEF SetupFails
<1>16. ASSUME NEW p \in Proc, StartUninstall(p) PROVE ProcTyped'
  <2>1. {f \in CleanupClaims : Exists(f)} \subseteq CleanupClaims
    OBVIOUS
  <2>2. CleanupClaims \subseteq File
    BY FilesAreFiles DEF CleanupClaims, LegacyClaims, Payload, FedoraBins,
       SystemdBins, LoaderConfs, EspTyped, Claims
  <2> QED BY <1>16, <2>1, <2>2 DEF StartUninstall, Goto, ProcTyped
<1>17. ASSUME NEW p \in Proc, RemoveFile(p) PROVE ProcTyped'
  BY <1>17 DEF RemoveFile, At, ProcTyped, EspTyped, Claims
<1>18. ASSUME NEW p \in Proc, CleanupFails(p) PROVE ProcTyped'
  BY <1>18, StopTyped DEF CleanupFails
<1>19. ASSUME NEW p \in Proc, CleanupEnds(p) PROVE ProcTyped'
  BY <1>19, StopTyped DEF CleanupEnds
<1>20. ASSUME NEW p \in Proc, Kill(p) PROVE ProcTyped'
  BY <1>20, StopTyped DEF Kill
<1>21. CASE StartDeployer
  BY <1>21 DEF StartDeployer, procVars, readVars, ProcTyped
<1>22. CASE DeployerClaims
  BY <1>22 DEF DeployerClaims, procVars, readVars, ProcTyped
<1>23. CASE DeployerRemoves
  BY <1>23 DEF DeployerRemoves, procVars, readVars, ProcTyped
<1>24. CASE DeployerWrites
  BY <1>24 DEF DeployerWrites, procVars, readVars, ProcTyped
<1>25. CASE DeployerFills
  BY <1>25 DEF DeployerFills, procVars, readVars, ProcTyped
<1>26. CASE DeployerSkips
  BY <1>26 DEF DeployerSkips, procVars, readVars, ProcTyped
<1>27. CASE DeployerRestores
  BY <1>27 DEF DeployerRestores, procVars, readVars, ProcTyped
<1>28. CASE DeployerExits
  BY <1>28 DEF DeployerExits, procVars, readVars, ProcTyped
<1>29. CASE PowerCut
  BY <1>29, StopTyped DEF PowerCut
<1>30. CASE UNCHANGED vars
  BY <1>30 DEF vars, espVars, procVars, readVars, ProcTyped
<1> QED BY <1>1, <1>2, <1>3, <1>4, <1>5, <1>6, <1>7, <1>8, <1>9, <1>10, <1>11,
    <1>12, <1>13, <1>14, <1>15, <1>16, <1>17, <1>18, <1>19, <1>20, <1>21,
    <1>22, <1>23, <1>24, <1>25, <1>26, <1>27, <1>28, <1>29, <1>30 DEF Next,
    InstallStep, UninstallStep, DeployerStep

\* And so do the machine and the deployer's plan.
LEMMA RestStep == TypeInv /\ [Next]_vars => RestTyped'
<1> SUFFICES ASSUME TypeInv, [Next]_vars PROVE RestTyped'
  OBVIOUS
<1>0. RestTyped
  BY DEF TypeInv
<1> USE <1>0 DEF RestTyped
<1>1. ASSUME NEW p \in Proc, StartInstall(p) PROVE RestTyped'
  BY <1>1 DEF StartInstall
<1>2. ASSUME NEW p \in Proc, CheckMarker(p) PROVE RestTyped'
  BY <1>2 DEF CheckMarker, Refuse
<1>3. ASSUME NEW p \in Proc, GuardFile(p) PROVE RestTyped'
  BY <1>3 DEF GuardFile, Refuse
<1>4. ASSUME NEW p \in Proc, GuardEnds(p) PROVE RestTyped'
  BY <1>4 DEF GuardEnds, Refuse
<1>5. ASSUME NEW p \in Proc, StageFile(p) PROVE RestTyped'
  BY <1>5 DEF StageFile
<1>6. ASSUME NEW p \in Proc, SkipOptional(p) PROVE RestTyped'
  BY <1>6 DEF SkipOptional
<1>7. ASSUME NEW p \in Proc, StageEnds(p) PROVE RestTyped'
  BY <1>7 DEF StageEnds
<1>8. ASSUME NEW p \in Proc, Persist(p) PROVE RestTyped'
  BY <1>8 DEF Persist
<1>9. ASSUME NEW p \in Proc, SyncTmp(p) PROVE RestTyped'
  BY <1>9 DEF SyncTmp
<1>10. ASSUME NEW p \in Proc, Rename(p) PROVE RestTyped'
  BY <1>10 DEF Rename
<1>11. ASSUME NEW p \in Proc, RenameFails(p) PROVE RestTyped'
  BY <1>11 DEF RenameFails
<1>12. ASSUME NEW p \in Proc, PersistGivesUp(p) PROVE RestTyped'
  BY <1>12 DEF PersistGivesUp
<1>13. ASSUME NEW p \in Proc, WriteFile(p) PROVE RestTyped'
  BY <1>13 DEF WriteFile
<1>14. ASSUME NEW p \in Proc, FillFile(p) PROVE RestTyped'
  BY <1>14 DEF FillFile
<1>15. ASSUME NEW p \in Proc, SetupFails(p) PROVE RestTyped'
  BY <1>15 DEF SetupFails
<1>16. ASSUME NEW p \in Proc, StartUninstall(p) PROVE RestTyped'
  BY <1>16 DEF StartUninstall
<1>17. ASSUME NEW p \in Proc, RemoveFile(p) PROVE RestTyped'
  BY <1>17 DEF RemoveFile
<1>18. ASSUME NEW p \in Proc, CleanupFails(p) PROVE RestTyped'
  BY <1>18 DEF CleanupFails
<1>19. ASSUME NEW p \in Proc, CleanupEnds(p) PROVE RestTyped'
  BY <1>19 DEF CleanupEnds
<1>20. ASSUME NEW p \in Proc, Kill(p) PROVE RestTyped'
  BY <1>20 DEF Kill
<1>21. CASE StartDeployer
  BY <1>21, DeployerPlanType DEF StartDeployer
<1>22. CASE DeployerClaims
  <2>1. dplan # <<>> /\ Tail(dplan) \in Seq(Ops \X File)
    BY <1>22 DEF DeployerClaims, Command
  <2>2. CASE NextCommand
    BY <2>1, <2>2 DEF NextCommand
  <2>3. CASE DeployerOff
    BY <2>3 DEF DeployerOff
  <2> QED BY <1>22, <2>2, <2>3 DEF DeployerClaims
<1>23. CASE DeployerRemoves
  BY <1>23 DEF DeployerRemoves, Command, NextCommand, DeployerOff
<1>24. CASE DeployerWrites
  <2>1. /\ dplan # <<>> /\ Head(dplan) \in Ops \X File
        /\ Tail(dplan) \in Seq(Ops \X File)
    BY <1>24 DEF DeployerWrites, Command
  <2>2. <<"fill", Target>> \in Ops \X File
    BY <2>1 DEF Target, Ops
  <2>3. <<<<"fill", Target>>>> \o Tail(dplan) \in Seq(Ops \X File)
    BY <2>1, <2>2
  <2> QED BY <1>24, <2>1, <2>3 DEF DeployerWrites, NextCommand
<1>25. CASE DeployerFills
  BY <1>25 DEF DeployerFills, Command, NextCommand, DeployerOff
<1>26. CASE DeployerSkips
  BY <1>26 DEF DeployerSkips, Command, NextCommand, DeployerOff
<1>27. CASE DeployerRestores
  BY <1>27 DEF DeployerRestores, DeployerOff
<1>28. CASE DeployerExits
  BY <1>28 DEF DeployerExits, DeployerOff
<1>29. CASE PowerCut
  BY <1>29 DEF PowerCut, DeployerOff
<1>30. CASE UNCHANGED vars
  BY <1>30 DEF vars, espVars, procVars, readVars
<1> QED BY <1>1, <1>2, <1>3, <1>4, <1>5, <1>6, <1>7, <1>8, <1>9, <1>10, <1>11,
    <1>12, <1>13, <1>14, <1>15, <1>16, <1>17, <1>18, <1>19, <1>20, <1>21,
    <1>22, <1>23, <1>24, <1>25, <1>26, <1>27, <1>28, <1>29, <1>30 DEF Next,
    InstallStep, UninstallStep, DeployerStep

\* And the three flags.
LEMMA FlagsStep == TypeInv /\ [Next]_vars => FlagsTyped'
<1> SUFFICES ASSUME TypeInv, [Next]_vars PROVE FlagsTyped'
  OBVIOUS
<1>0. FlagsTyped
  BY DEF TypeInv
<1> USE <1>0
<1>1. ASSUME NEW p \in Proc, StartInstall(p) PROVE FlagsTyped'
  BY <1>1, Zenon DEF StartInstall, FlagsTyped, readVars
<1>2. ASSUME NEW p \in Proc, CheckMarker(p) PROVE FlagsTyped'
  <2>1. Marked("fedora/cfg") \in BOOLEAN
    BY DEF Marked
  <2>2. [ours EXCEPT ![p] = Marked("fedora/cfg")] \in [Proc -> BOOLEAN]
    BY <2>1, Zenon DEF FlagsTyped
  <2> QED BY <1>2, <2>2, StopFlags, Zenon DEF CheckMarker, Refuse, FlagsTyped
<1>3. ASSUME NEW p \in Proc, GuardFile(p) PROVE FlagsTyped'
  BY <1>3, StopFlags, Zenon DEF GuardFile, Refuse, FlagsTyped, readVars
<1>4. ASSUME NEW p \in Proc, GuardEnds(p) PROVE FlagsTyped'
  BY <1>4, StopFlags, Zenon DEF GuardEnds, Refuse, FlagsTyped, readVars
<1>5. ASSUME NEW p \in Proc, StageFile(p) PROVE FlagsTyped'
  BY <1>5, Zenon DEF StageFile, FlagsTyped, readVars
<1>6. ASSUME NEW p \in Proc, SkipOptional(p) PROVE FlagsTyped'
  BY <1>6, Zenon DEF SkipOptional, FlagsTyped, readVars
<1>7. ASSUME NEW p \in Proc, StageEnds(p) PROVE FlagsTyped'
  BY <1>7, StopFlags, Zenon DEF StageEnds, FlagsTyped
<1>8. ASSUME NEW p \in Proc, Persist(p) PROVE FlagsTyped'
  BY <1>8, Zenon DEF Persist, FlagsTyped, readVars
<1>9. ASSUME NEW p \in Proc, SyncTmp(p) PROVE FlagsTyped'
  BY <1>9, Zenon DEF SyncTmp, FlagsTyped, readVars
<1>10. ASSUME NEW p \in Proc, Rename(p) PROVE FlagsTyped'
  BY <1>10, Zenon DEF Rename, FlagsTyped, readVars
<1>11. ASSUME NEW p \in Proc, RenameFails(p) PROVE FlagsTyped'
  BY <1>11, Zenon DEF RenameFails, FlagsTyped, readVars
<1>12. ASSUME NEW p \in Proc, PersistGivesUp(p) PROVE FlagsTyped'
  BY <1>12, StopFlags, Zenon DEF PersistGivesUp, FlagsTyped
<1>13. ASSUME NEW p \in Proc, WriteFile(p) PROVE FlagsTyped'
  BY <1>13, Zenon DEF WriteFile, FlagsTyped, readVars
<1>14. ASSUME NEW p \in Proc, FillFile(p) PROVE FlagsTyped'
  BY <1>14, Zenon DEF FillFile, FlagsTyped, readVars
<1>15. ASSUME NEW p \in Proc, SetupFails(p) PROVE FlagsTyped'
  BY <1>15, StopFlags, Zenon DEF SetupFails, FlagsTyped
<1>16. ASSUME NEW p \in Proc, StartUninstall(p) PROVE FlagsTyped'
  BY <1>16, Zenon DEF StartUninstall, FlagsTyped, readVars
<1>17. ASSUME NEW p \in Proc, RemoveFile(p) PROVE FlagsTyped'
  BY <1>17, Zenon DEF RemoveFile, FlagsTyped, readVars
<1>18. ASSUME NEW p \in Proc, CleanupFails(p) PROVE FlagsTyped'
  BY <1>18, StopFlags, Zenon DEF CleanupFails, FlagsTyped
<1>19. ASSUME NEW p \in Proc, CleanupEnds(p) PROVE FlagsTyped'
  BY <1>19, StopFlags, Zenon DEF CleanupEnds, FlagsTyped
<1>20. ASSUME NEW p \in Proc, Kill(p) PROVE FlagsTyped'
  BY <1>20, StopFlags, Zenon DEF Kill, FlagsTyped
<1>21. CASE StartDeployer
  BY <1>21, Zenon DEF StartDeployer, FlagsTyped, procVars, readVars
<1>22. CASE DeployerClaims
  BY <1>22, Zenon DEF DeployerClaims, FlagsTyped, procVars, readVars
<1>23. CASE DeployerRemoves
  BY <1>23, Zenon DEF DeployerRemoves, FlagsTyped, procVars, readVars
<1>24. CASE DeployerWrites
  BY <1>24, Zenon DEF DeployerWrites, FlagsTyped, procVars, readVars
<1>25. CASE DeployerFills
  BY <1>25, Zenon DEF DeployerFills, FlagsTyped, procVars, readVars
<1>26. CASE DeployerSkips
  BY <1>26, Zenon DEF DeployerSkips, FlagsTyped, procVars, readVars
<1>27. CASE DeployerRestores
  BY <1>27, Zenon DEF DeployerRestores, FlagsTyped, procVars, readVars
<1>28. CASE DeployerExits
  BY <1>28, Zenon DEF DeployerExits, FlagsTyped, procVars, readVars
<1>29. CASE PowerCut
  BY <1>29, StopFlags, Zenon DEF PowerCut, FlagsTyped
<1>30. CASE UNCHANGED vars
  BY <1>30 DEF vars, espVars, procVars, readVars, FlagsTyped
<1> QED BY <1>1, <1>2, <1>3, <1>4, <1>5, <1>6, <1>7, <1>8, <1>9, <1>10, <1>11,
    <1>12, <1>13, <1>14, <1>15, <1>16, <1>17, <1>18, <1>19, <1>20, <1>21,
    <1>22, <1>23, <1>24, <1>25, <1>26, <1>27, <1>28, <1>29, <1>30 DEF Next,
    InstallStep, UninstallStep, DeployerStep

\* The first state has the types.
LEMMA TypeInit == Init => TypeInv
<1> SUFFICES ASSUME Init PROVE TypeInv
  OBVIOUS
<1>1. EspTyped
  BY DEF Init, EspTyped, Owners, Claims, NoManifest
<1>2. ProcTyped
  BY DEF Init, ProcTyped
<1>3. RestTyped
  BY DEF Init, RestTyped
<1>4. FlagsTyped
  BY DEF Init, FlagsTyped
<1> QED BY <1>1, <1>2, <1>3, <1>4 DEF TypeInv

\* And every step keeps them.
LEMMA TypeStep == TypeInv /\ [Next]_vars => TypeInv'
BY EspStep, ProcStep, RestStep, FlagsStep DEF TypeInv

\* In every behaviour of EspOwnership the manifest, its temporary file, the
\* reads of every process and the deployer's plan keep their types.
THEOREM EspTypeCorrect == Spec => []TypeOK
BY TypeInit, TypeStep, TypeInvTypes, PTL DEF Spec
=============================================================================
