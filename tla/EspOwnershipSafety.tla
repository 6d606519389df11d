-------------------------- MODULE EspOwnershipSafety --------------------------
(***************************************************************************)
(* The safety properties of EspOwnership for every value of the constants: *)
(*  - ForeignKept: whatever wootc's processes and the deployer do, and     *)
(*    wherever they are cut, no boot file of another system is overwritten *)
(*    or removed;                                                          *)
(*  - ClaimsAreRemovable: the cleanup has a rule for every claim;          *)
(*  - CleanupIsComplete and NoSelfLockout: an uninstall that says it is    *)
(*    done left nothing of wootc's, and nobody is refused because of       *)
(*    wootc's own files.  These two need NoLeftover: a temporary manifest  *)
(*    of a process that died is taken for the next one's.                  *)
(***************************************************************************)
EXTENDS EspOwnershipProofs

\* A systemd-boot system has a loader.conf; guardESPDestinations relies on it,
\* as the marker of fedora\grub.cfg lets EFI\systemd pass too.
LoaderWithConf == \A F \in ForeignSets : F \cap SystemdBins # {} => "loader.conf" \in F

NotForeign(S) == \A f \in S : file[f] # "foreign"

\* Files that only wootc names.
OursAlone == NotForeign(OwnNamespace \union {"entries/deployer", "entries/wootc"})

\* Nothing claimed, about to be claimed, or listed for removal is foreign.
ClaimsOurs ==
    /\ NotForeign(Claims)
    /\ tmp # <<>> => NotForeign(tmp[1])
    /\ \A p \in Proc : NotForeign(snap[p]) /\ NotForeign(paths[p])

\* The marker in fedora\grub.cfg speaks for the binaries beside it.
MarkerSpeaks ==
    (machine = "deployer" \/ Marked("fedora/cfg") \/ \E p \in Proc : ours[p])
        => NotForeign(FedoraBins)

LoaderSpeaks == file["loader.conf"] # "foreign" => NotForeign(SystemdBins)

Elems(s) == {s[i] : i \in DOMAIN s}

\* A foreign destination is still ahead of the guard.
GuardAhead ==
    \A p \in Proc : pc[p] = "guard" =>
        /\ file[MarkerFile(mode[p])] # "foreign"
        /\ \A f \in Elems(GuardList(mode[p])) :
               file[f] = "foreign" => f \in Elems(todo[p])

Staging == {"stage", "persist", "sync", "rename", "write", "fill"}

\* What is left to stage is not foreign, and a fedora\grub.cfg to be marked
\* has no foreign binaries beside it.
StageOurs ==
    \A p \in Proc : pc[p] \in Staging =>
        /\ NotForeign(Elems(todo[p]))
        /\ "fedora/cfg" \in Elems(todo[p]) => NotForeign(FedoraBins)

\* A foreign file in the deployer's plan is asked for by the command before.
PlanAsks ==
    \A i \in 1..Len(dplan) :
        dplan[i][1] # "claim" /\ file[dplan[i][2]] = "foreign"
            => i > 1 /\ dplan[i - 1] = <<"claim", dplan[i][2]>>

SafeInv ==
    /\ TypeInv /\ OursAlone /\ ClaimsOurs /\ MarkerSpeaks /\ LoaderSpeaks
    /\ GuardAhead /\ StageOurs /\ PlanAsks

SameForeign == \A f \in File : file'[f] = "foreign" <=> file[f] = "foreign"

-----------------------------------------------------------------------------
\* The first command of the plan, when it is no claim, is on wootc's own file.
LEMMA TargetOurs ==
    ASSUME SafeInv, dplan # <<>>, Head(dplan)[1] # "claim"
    PROVE  Target \in File /\ file[Target] # "foreign"
<1>1. dplan \in Seq(Ops \X File)
  BY DEF SafeInv, TypeInv, RestTyped
<1>2. 1 \in 1..Len(dplan) /\ dplan[1] = Head(dplan) /\ Head(dplan) \in Ops \X File
  BY <1>1
<1> QED BY <1>2 DEF Target, SafeInv, PlanAsks

\* The file a process is about to write is wootc's own.
LEMMA CurrentOurs ==
    ASSUME SafeInv, NEW p \in Proc, pc[p] \in Staging, todo[p] # <<>>
    PROVE  /\ Current(p) \in File /\ file[Current(p)] # "foreign"
           /\ Current(p) \in Elems(todo[p])
<1>1. todo[p] \in Seq(File)
  BY DEF SafeInv, TypeInv, ProcTyped
<1>2. 1 \in DOMAIN todo[p] /\ todo[p][1] = Current(p) /\ Current(p) \in File
  BY <1>1 DEF Current
<1>3. Current(p) \in Elems(todo[p])
  BY <1>2 DEF Elems
<1> QED BY <1>2, <1>3 DEF SafeInv, StageOurs, NotForeign

\* What is left of a list was in it.
LEMMA TailElems ==
    ASSUME NEW S, NEW s \in Seq(S), s # <<>>
    PROVE  /\ Elems(Tail(s)) \subseteq Elems(s)
           /\ Elems(s) \subseteq Elems(Tail(s)) \union {Head(s)}
<1>1. /\ Tail(s) \in Seq(S) /\ Len(Tail(s)) = Len(s) - 1 /\ Len(s) \in Nat \ {0}
      /\ \A i \in 1..(Len(s) - 1) : Tail(s)[i] = s[i + 1]
      /\ Head(s) = s[1] /\ DOMAIN s = 1..Len(s) /\ DOMAIN Tail(s) = 1..(Len(s) - 1)
  OBVIOUS
<1>2. \A i \in 1..(Len(s) - 1) : i + 1 \in 1..Len(s)
  BY <1>1
<1>3. \A i \in 1..Len(s) : i = 1 \/ (i - 1 \in 1..(Len(s) - 1) /\ s[i] = Tail(s)[i - 1])
  BY <1>1
<1>4. Elems(Tail(s)) \subseteq Elems(s)
  BY <1>1, <1>2 DEF Elems
<1>5. ASSUME NEW i \in 1..Len(s) PROVE s[i] \in Elems(Tail(s)) \union {Head(s)}
  BY <1>1, <1>3 DEF Elems
<1> QED BY <1>1, <1>4, <1>5 DEF Elems

\* No step overwrites or removes a foreign file, or makes one.
LEMMA ForeignStep == SafeInv /\ [Next]_vars => SameForeign
<1> SUFFICES ASSUME SafeInv, [Next]_vars PROVE SameForeign
  OBVIOUS
<1>0. file \in [File -> Owners] /\ ProcTyped
  BY DEF SafeInv, TypeInv, EspTyped
<1> USE <1>0 DEF SameForeign
<1>1. ASSUME NEW p \in Proc, StartInstall(p) PROVE SameForeign
  BY <1>1 DEF StartInstall, espVars
<1>2. ASSUME NEW p \in Proc, CheckMarker(p) PROVE SameForeign
  BY <1>2 DEF CheckMarker, espVars
<1>3. ASSUME NEW p \in Proc, GuardFile(p) PROVE SameForeign
  BY <1>3 DEF GuardFile, espVars
<1>4. ASSUME NEW p \in Proc, GuardEnds(p) PROVE SameForeign
  BY <1>4 DEF GuardEnds, espVars
<1>5. ASSUME NEW p \in Proc, StageFile(p) PROVE SameForeign
  BY <1>5 DEF StageFile, espVars
<1>6. ASSUME NEW p \in Proc, SkipOptional(p) PROVE SameForeign
  BY <1>6 DEF SkipOptional, espVars
<1>7. ASSUME NEW p \in Proc, StageEnds(p) PROVE SameForeign
  BY <1>7 DEF StageEnds, espVars
<1>8. ASSUME NEW p \in Proc, Persist(p) PROVE SameForeign
  BY <1>8 DEF Persist
<1>9. ASSUME NEW p \in Proc, SyncTmp(p) PROVE SameForeign
  BY <1>9 DEF SyncTmp
<1>10. ASSUME NEW p \in Proc, Rename(p) PROVE SameForeign
  BY <1>10 DEF Rename
<1>11. ASSUME NEW p \in Proc, RenameFails(p) PROVE SameForeign
  BY <1>11 DEF RenameFails
<1>12. ASSUME NEW p \in Proc, PersistGivesUp(p) PROVE SameForeign
  BY <1>12 DEF PersistGivesUp
<1>13. ASSUME NEW p \in Proc, WriteFile(p) PROVE SameForeign
  <2>1. pc[p] \in Staging /\ todo[p] # <<>>
    BY <1>13 DEF WriteFile, At, Staging, ProcTyped
  <2>2. Current(p) \in File /\ file[Current(p)] # "foreign"
    BY <2>1, CurrentOurs
  <2> QED BY <1>13, <2>2 DEF WriteFile
<1>14. ASSUME NEW p \in Proc, FillFile(p) PROVE SameForeign
  <2>1. pc[p] \in Staging /\ todo[p] # <<>>
    BY <1>14 DEF FillFile, At, Staging, ProcTyped
  <2>2. Current(p) \in File /\ file[Current(p)] # "foreign"
    BY <2>1, CurrentOurs
  <2> QED BY <1>14, <2>2 DEF FillFile
<1>15. ASSUME NEW p \in Proc, SetupFails(p) PROVE SameForeign
  BY <1>15 DEF SetupFails, espVars
<1>16. ASSUME NEW p \in Proc, StartUninstall(p) PROVE SameForeign
  BY <1>16 DEF StartUninstall, espVars
<1>17. ASSUME NEW p \in Proc, RemoveFile(p) PROVE SameForeign
  <2>1. \A f \in paths[p] : file[f] # "foreign"
    BY DEF SafeInv, ClaimsOurs, NotForeign
  <2> QED BY <1>17, <2>1 DEF RemoveFile
<1>18. ASSUME NEW p \in Proc, CleanupFails(p) PROVE SameForeign
  BY <1>18 DEF CleanupFails, espVars
<1>19. ASSUME NEW p \in Proc, CleanupEnds(p) PROVE SameForeign
  BY <1>19 DEF CleanupEnds
<1>20. ASSUME NEW p \in Proc, Kill(p) PROVE SameForeign
  BY <1>20 DEF Kill, espVars
<1>21. CASE StartDeployer
  BY <1>21 DEF StartDeployer
<1>22. CASE DeployerClaims
  BY <1>22 DEF DeployerClaims
<1>23. CASE DeployerRemoves
  <2>1. Target \in File /\ file[Target] # "foreign"
    BY <1>23, TargetOurs DEF DeployerRemoves, Command
  <2> QED BY <1>23, <2>1 DEF DeployerRemoves
<1>24. CASE DeployerWrites
  <2>1. Target \in File /\ file[Target] # "foreign"
    BY <1>24, TargetOurs DEF DeployerWrites, Command
  <2> QED BY <1>24, <2>1 DEF DeployerWrites
<1>25. CASE DeployerFills
  <2>1. Target \in File /\ file[Target] # "foreign"
    BY <1>25, TargetOurs DEF DeployerFills, Command
  <2> QED BY <1>25, <2>1 DEF DeployerFills
<1>26. CASE DeployerSkips
  BY <1>26 DEF DeployerSkips, espVars
<1>27. CASE DeployerRestores
  <2>1. \A f \in Payload : file[f] # "foreign"
    BY DEF SafeInv, OursAlone, NotForeign, OwnNamespace
  <2> QED BY <1>27, <2>1 DEF DeployerRestores, Payload
<1>28. CASE DeployerExits
  BY <1>28 DEF DeployerExits, espVars
<1>29. CASE PowerCut
  BY <1>29 DEF PowerCut, espVars
<1>30. CASE UNCHANGED vars
  BY <1>30 DEF vars, espVars, procVars, readVars
<1> QED BY <1>1, <1>2, <1>3, <1>4, <1>5, <1>6, <1>7, <1>8, <1>9, <1>10, <1>11,
    <1>12, <1>13, <1>14, <1>15, <1>16, <1>17, <1>18, <1>19, <1>20, <1>21,
    <1>22, <1>23, <1>24, <1>25, <1>26, <1>27, <1>28, <1>29, <1>30 DEF Next,
    InstallStep, UninstallStep, DeployerStep

\* esp_assert_owned_or_absent lets no foreign file pass.
LEMMA OwnedIsOurs ==
    ASSUME SafeInv, NEW f \in File, OwnedOrAbsent(f) PROVE file[f] # "foreign"
<1>1. CASE f \in OwnNamespace \union {"entries/wootc"}
  BY <1>1 DEF SafeInv, OursAlone, NotForeign
<1>2. CASE f \in FedoraBins /\ Marked("fedora/cfg")
  BY <1>2 DEF SafeInv, MarkerSpeaks, NotForeign
<1>3. CASE f \in Claims
  BY <1>3 DEF SafeInv, ClaimsOurs, NotForeign
<1> QED BY <1>1, <1>2, <1>3 DEF OwnedOrAbsent, Exists, Marked


-----------------------------------------------------------------------------
\* The manifest and its temporary file.
ManifestOurs == NotForeign(Claims) /\ (tmp # <<>> => NotForeign(tmp[1]))

\* What the manifest and its temporary file claim stays free of foreign files.
LEMMA ManifestStep == SafeInv /\ SameForeign /\ [Next]_vars => ManifestOurs'
<1> SUFFICES ASSUME SafeInv, SameForeign, [Next]_vars PROVE ManifestOurs'
  OBVIOUS
<1>a. /\ file \in [File -> Owners] /\ Claims \subseteq File
      /\ tmp \in Seq(SUBSET File) /\ (tmp # <<>> => tmp[1] \in SUBSET File)
      /\ ManifestOurs
  BY DEF SafeInv, TypeInv, EspTyped, Claims, ClaimsOurs, ManifestOurs
<1>b. \A f \in File : file[f] # "foreign" => file'[f] # "foreign"
  BY DEF SameForeign
<1>c. ASSUME UNCHANGED <<manifest, tmp>> PROVE ManifestOurs'
  BY <1>a, <1>b, <1>c DEF ManifestOurs, NotForeign, Claims
<1>d. ASSUME UNCHANGED manifest, tmp' = <<>> PROVE ManifestOurs'
  BY <1>a, <1>b, <1>d DEF ManifestOurs, NotForeign, Claims
<1>e. ASSUME tmp # <<>>, MoveTmp PROVE ManifestOurs'
  <2>1. manifest'.claims = tmp[1] /\ tmp' = <<>>
    BY <1>e DEF MoveTmp
  <2> QED BY <1>a, <1>b, <1>e, <2>1 DEF ManifestOurs, NotForeign, Claims
<1>1. ASSUME NEW p \in Proc, StartInstall(p) PROVE ManifestOurs'
  BY <1>1, <1>c DEF StartInstall, espVars
<1>2. ASSUME NEW p \in Proc, CheckMarker(p) PROVE ManifestOurs'
  BY <1>2, <1>c DEF CheckMarker, espVars
<1>3. ASSUME NEW p \in Proc, GuardFile(p) PROVE ManifestOurs'
  BY <1>3, <1>c DEF GuardFile, espVars
<1>4. ASSUME NEW p \in Proc, GuardEnds(p) PROVE ManifestOurs'
  BY <1>4, <1>c DEF GuardEnds, espVars
<1>5. ASSUME NEW p \in Proc, StageFile(p) PROVE ManifestOurs'
  BY <1>5, <1>c DEF StageFile, espVars
<1>6. ASSUME NEW p \in Proc, SkipOptional(p) PROVE ManifestOurs'
  BY <1>6, <1>c DEF SkipOptional, espVars
<1>7. ASSUME NEW p \in Proc, StageEnds(p) PROVE ManifestOurs'
  BY <1>7, <1>c DEF StageEnds, espVars
<1>8. ASSUME NEW p \in Proc, Persist(p) PROVE ManifestOurs'
  <2>1. tmp' \in {<<>>, tmp, <<{}>>} /\ UNCHANGED manifest
    BY <1>8 DEF Persist
  <2>2. CASE tmp' = <<{}>>
    BY <1>a, <1>b, <2>1, <2>2 DEF ManifestOurs, NotForeign, Claims
  <2> QED BY <1>c, <1>d, <2>1, <2>2
<1>9. ASSUME NEW p \in Proc, SyncTmp(p) PROVE ManifestOurs'
  <2>1. snap[p] \subseteq File /\ NotForeign(snap[p])
    BY DEF SafeInv, TypeInv, ProcTyped, ClaimsOurs
  <2>2. tmp' = <<snap[p]>> /\ tmp'[1] = snap[p] /\ UNCHANGED manifest
    BY <1>9 DEF SyncTmp
  <2> QED BY <1>a, <1>b, <2>1, <2>2 DEF ManifestOurs, NotForeign, Claims
<1>10. ASSUME NEW p \in Proc, Rename(p) PROVE ManifestOurs'
  BY <1>10, <1>e DEF Rename
<1>11. ASSUME NEW p \in Proc, RenameFails(p) PROVE ManifestOurs'
  BY <1>11, <1>c, <1>e DEF RenameFails
<1>12. ASSUME NEW p \in Proc, PersistGivesUp(p) PROVE ManifestOurs'
  BY <1>12, <1>d DEF PersistGivesUp
<1>13. ASSUME NEW p \in Proc, WriteFile(p) PROVE ManifestOurs'
  BY <1>13, <1>c DEF WriteFile
<1>14. ASSUME NEW p \in Proc, FillFile(p) PROVE ManifestOurs'
  BY <1>14, <1>c DEF FillFile
<1>15. ASSUME NEW p \in Proc, SetupFails(p) PROVE ManifestOurs'
  BY <1>15, <1>c DEF SetupFails, espVars
<1>16. ASSUME NEW p \in Proc, StartUninstall(p) PROVE ManifestOurs'
  BY <1>16, <1>c DEF StartUninstall, espVars
<1>17. ASSUME NEW p \in Proc, RemoveFile(p) PROVE ManifestOurs'
  BY <1>17, <1>c DEF RemoveFile
<1>18. ASSUME NEW p \in Proc, CleanupFails(p) PROVE ManifestOurs'
  BY <1>18, <1>c DEF CleanupFails, espVars
<1>19. ASSUME NEW p \in Proc, CleanupEnds(p) PROVE ManifestOurs'
  <2>1. CASE manifest' = NoManifest
    BY <1>19, <1>a, <1>b, <2>1 DEF CleanupEnds, NoManifest, ManifestOurs, NotForeign,
       Claims
  <2> QED BY <1>19, <1>c, <2>1 DEF CleanupEnds
<1>20. ASSUME NEW p \in Proc, Kill(p) PROVE ManifestOurs'
  BY <1>20, <1>c DEF Kill, espVars
<1>21. CASE StartDeployer
  <2>1. manifest'.claims = manifest.claims /\ UNCHANGED tmp
    BY <1>21 DEF StartDeployer
  <2> QED BY <1>a, <1>b, <2>1 DEF ManifestOurs, NotForeign, Claims
<1>22. CASE DeployerClaims
  <2>1. CASE UNCHANGED manifest
    BY <1>22, <1>c, <2>1 DEF DeployerClaims
  <2>2. CASE OwnedOrAbsent(Target) /\ manifest'.claims = Claims \union {Target}
    <3>1. Target \in File
      BY <1>22 DEF DeployerClaims, Command, Target, SafeInv, TypeInv, RestTyped
    <3>2. file[Target] # "foreign"
      BY <2>2, <3>1, OwnedIsOurs
    <3> QED BY <1>22, <1>a, <1>b, <2>2, <3>1, <3>2
            DEF DeployerClaims, ManifestOurs, NotForeign, Claims
  <2> QED BY <1>22, <2>1, <2>2 DEF DeployerClaims
<1>23. CASE DeployerRemoves
  BY <1>23, <1>c DEF DeployerRemoves
<1>24. CASE DeployerWrites
  BY <1>24, <1>c DEF DeployerWrites
<1>25. CASE DeployerFills
  BY <1>25, <1>c DEF DeployerFills
<1>26. CASE DeployerSkips
  BY <1>26, <1>c DEF DeployerSkips, espVars
<1>27. CASE DeployerRestores
  BY <1>27, <1>c DEF DeployerRestores
<1>28. CASE DeployerExits
  BY <1>28, <1>c DEF DeployerExits, espVars
<1>29. CASE PowerCut
  BY <1>29, <1>c DEF PowerCut, espVars
<1>30. CASE UNCHANGED vars
  BY <1>30, <1>c DEF vars, espVars
<1> QED BY <1>1, <1>2, <1>3, <1>4, <1>5, <1>6, <1>7, <1>8, <1>9, <1>10, <1>11,
    <1>12, <1>13, <1>14, <1>15, <1>16, <1>17, <1>18, <1>19, <1>20, <1>21,
    <1>22, <1>23, <1>24, <1>25, <1>26, <1>27, <1>28, <1>29, <1>30 DEF Next,
    InstallStep, UninstallStep, DeployerStep

\* What the processes have read.
ReadOurs == \A p \in Proc : NotForeign(snap[p]) /\ NotForeign(paths[p])

\* Whatever cleanupESPOwnedFiles attributes to wootc is wootc's.
LEMMA CleanupClaimsOurs ==
    ASSUME SafeInv PROVE CleanupClaims \subseteq File /\ NotForeign(CleanupClaims)
<1>1. Claims \subseteq File /\ NotForeign(Claims)
  BY DEF SafeInv, TypeInv, EspTyped, ClaimsOurs, Claims
<1>2. Payload \subseteq File /\ NotForeign(Payload)
  BY FilesAreFiles DEF SafeInv, OursAlone, NotForeign, OwnNamespace, Payload
<1>3. \A f \in {"fedora/cfg", "redhat/cfg", "wootc/cfg"} :
          Marked(f) => f \in File /\ file[f] # "foreign"
  BY FilesAreFiles DEF Marked
<1>4. Marked("fedora/cfg") => FedoraBins \subseteq File /\ NotForeign(FedoraBins)
  BY FilesAreFiles DEF FedoraBins, SafeInv, MarkerSpeaks
<1>5. Marked("loader.conf") => /\ LoaderConfs \subseteq File /\ NotForeign(LoaderConfs)
                               /\ SystemdBins \subseteq File /\ NotForeign(SystemdBins)
  BY FilesAreFiles DEF Marked, LoaderConfs, SystemdBins, SafeInv, LoaderSpeaks,
     OursAlone, NotForeign
<1>6. LegacyClaims \subseteq File /\ NotForeign(LegacyClaims)
  BY <1>2, <1>3, <1>4, <1>5 DEF LegacyClaims, NotForeign
<1> QED BY <1>1, <1>6 DEF CleanupClaims, NotForeign

\* A process never holds a foreign file among its claims or removals.
LEMMA ReadStep == SafeInv /\ SameForeign /\ [Next]_vars => ReadOurs'
<1> SUFFICES ASSUME SafeInv, SameForeign, [Next]_vars PROVE ReadOurs'
  OBVIOUS
<1>a. /\ snap \in [Proc -> SUBSET File] /\ paths \in [Proc -> SUBSET File]
      /\ Claims \subseteq File /\ NotForeign(Claims)
      /\ ReadOurs
  BY DEF SafeInv, TypeInv, EspTyped, ProcTyped, Claims, ClaimsOurs, ReadOurs
<1>b. \A f \in File : file[f] # "foreign" => file'[f] # "foreign"
  BY DEF SameForeign
<1>c. ASSUME UNCHANGED <<snap, paths>> PROVE ReadOurs'
  BY <1>a, <1>b, <1>c DEF ReadOurs, NotForeign
<1>d. ASSUME NEW ps, Stop(ps) PROVE ReadOurs'
  BY <1>a, <1>b, <1>d DEF ReadOurs, NotForeign, Stop
<1>e. ASSUME NEW p \in Proc, NEW S \in SUBSET File, NotForeign(S),
             snap' = [snap EXCEPT ![p] = S], UNCHANGED paths
      PROVE  ReadOurs'
  BY <1>a, <1>b, <1>e DEF ReadOurs, NotForeign
<1>1. ASSUME NEW p \in Proc, StartInstall(p) PROVE ReadOurs'
  BY <1>1, <1>c DEF StartInstall, readVars
<1>2. ASSUME NEW p \in Proc, CheckMarker(p) PROVE ReadOurs'
  BY <1>2, <1>a, <1>d, <1>e DEF CheckMarker, Refuse
<1>3. ASSUME NEW p \in Proc, GuardFile(p) PROVE ReadOurs'
  BY <1>3, <1>c, <1>d DEF GuardFile, Refuse, readVars
<1>4. ASSUME NEW p \in Proc, GuardEnds(p) PROVE ReadOurs'
  BY <1>4, <1>c, <1>d DEF GuardEnds, Refuse, readVars
<1>5. ASSUME NEW p \in Proc, StageFile(p) PROVE ReadOurs'
  <2>1. CASE snap' = [snap EXCEPT ![p] = Claims \union {Current(p)}]
    <3>1. Current(p) \in File /\ file[Current(p)] # "foreign"
      BY <1>5, CurrentOurs DEF StageFile, At, Staging
    <3>2. /\ Claims \union {Current(p)} \in SUBSET File
          /\ NotForeign(Claims \union {Current(p)})
      BY <1>a, <3>1 DEF NotForeign
    <3> QED BY <1>5, <1>e, <2>1, <3>2 DEF StageFile
  <2> QED BY <1>5, <1>c, <2>1 DEF StageFile
<1>6. ASSUME NEW p \in Proc, SkipOptional(p) PROVE ReadOurs'
  BY <1>6, <1>c DEF SkipOptional, readVars
<1>7. ASSUME NEW p \in Proc, StageEnds(p) PROVE ReadOurs'
  BY <1>7, <1>d DEF StageEnds
<1>8. ASSUME NEW p \in Proc, Persist(p) PROVE ReadOurs'
  BY <1>8, <1>c DEF Persist, readVars
<1>9. ASSUME NEW p \in Proc, SyncTmp(p) PROVE ReadOurs'
  BY <1>9, <1>c DEF SyncTmp, readVars
<1>10. ASSUME NEW p \in Proc, Rename(p) PROVE ReadOurs'
  BY <1>10, <1>c DEF Rename, readVars
<1>11. ASSUME NEW p \in Proc, RenameFails(p) PROVE ReadOurs'
  BY <1>11, <1>c DEF RenameFails, readVars
<1>12. ASSUME NEW p \in Proc, PersistGivesUp(p) PROVE ReadOurs'
  BY <1>12, <1>d DEF PersistGivesUp
<1>13. ASSUME NEW p \in Proc, WriteFile(p) PROVE ReadOurs'
  BY <1>13, <1>c DEF WriteFile, readVars
<1>14. ASSUME NEW p \in Proc, FillFile(p) PROVE ReadOurs'
  BY <1>14, <1>c DEF FillFile, readVars
<1>15. ASSUME NEW p \in Proc, SetupFails(p) PROVE ReadOurs'
  BY <1>15, <1>d DEF SetupFails
<1>16. ASSUME NEW p \in Proc, StartUninstall(p) PROVE ReadOurs'
  <2>1. CleanupClaims \subseteq File /\ NotForeign(CleanupClaims)
    BY CleanupClaimsOurs
  <2>2. CASE /\ snap'  = [snap EXCEPT ![p] = CleanupClaims]
             /\ paths' = [paths EXCEPT ![p] = {f \in CleanupClaims : Exists(f)}]
    BY <1>a, <1>b, <2>1, <2>2 DEF ReadOurs, NotForeign
  <2> QED BY <1>16, <1>c, <2>2 DEF StartUninstall
<1>17. ASSUME NEW p \in Proc, RemoveFile(p) PROVE ReadOurs'
  <2>1. PICK f \in paths[p] : paths' = [paths EXCEPT ![p] = @ \ {f}]
    BY <1>17 DEF RemoveFile
  <2> QED BY <1>17, <1>a, <1>b, <2>1 DEF RemoveFile, ReadOurs, NotForeign
<1>18. ASSUME NEW p \in Proc, CleanupFails(p) PROVE ReadOurs'
  BY <1>18, <1>d DEF CleanupFails
<1>19. ASSUME NEW p \in Proc, CleanupEnds(p) PROVE ReadOurs'
  BY <1>19, <1>d DEF CleanupEnds
<1>20. ASSUME NEW p \in Proc, Kill(p) PROVE ReadOurs'
  BY <1>20, <1>d DEF Kill
<1>21. CASE StartDeployer
  BY <1>21, <1>c DEF StartDeployer, procVars, readVars
<1>22. CASE DeployerClaims
  BY <1>22, <1>c DEF DeployerClaims, procVars, readVars
<1>23. CASE DeployerRemoves
  BY <1>23, <1>c DEF DeployerRemoves, procVars, readVars
<1>24. CASE DeployerWrites
  BY <1>24, <1>c DEF DeployerWrites, procVars, readVars
<1>25. CASE DeployerFills
  BY <1>25, <1>c DEF DeployerFills, procVars, readVars
<1>26. CASE DeployerSkips
  BY <1>26, <1>c DEF DeployerSkips, procVars, readVars
<1>27. CASE DeployerRestores
  BY <1>27, <1>c DEF DeployerRestores, procVars, readVars
<1>28. CASE DeployerExits
  BY <1>28, <1>c DEF DeployerExits, procVars, readVars
<1>29. CASE PowerCut
  BY <1>29, <1>d DEF PowerCut
<1>30. CASE UNCHANGED vars
  BY <1>30, <1>c DEF vars, procVars, readVars
<1> QED BY <1>1, <1>2, <1>3, <1>4, <1>5, <1>6, <1>7, <1>8, <1>9, <1>10, <1>11,
    <1>12, <1>13, <1>14, <1>15, <1>16, <1>17, <1>18, <1>19, <1>20, <1>21,
    <1>22, <1>23, <1>24, <1>25, <1>26, <1>27, <1>28, <1>29, <1>30 DEF Next,
    InstallStep, UninstallStep, DeployerStep

\* The marker speaks for the binaries as long as it is there.
LEMMA MarkerStep == SafeInv /\ SameForeign /\ [Next]_vars => MarkerSpeaks'
<1> SUFFICES ASSUME SafeInv, SameForeign, [Next]_vars, ~NotForeign(FedoraBins)
              PROVE  MarkerSpeaks'
  <2>1. FedoraBins \subseteq File
    BY FilesAreFiles DEF FedoraBins
  <2>2. NotForeign(FedoraBins) /\ SameForeign => NotForeign(FedoraBins)'
    BY <2>1 DEF SameForeign, NotForeign
  <2> QED BY <2>2 DEF MarkerSpeaks
<1>a. /\ file \in [File -> Owners] /\ "fedora/cfg" \in File
      /\ machine = "windows" /\ ~Marked("fedora/cfg") /\ \A p \in Proc : ~ours[p]
  BY FilesAreFiles DEF SafeInv, TypeInv, EspTyped, RestTyped, MarkerSpeaks
<1>b. ASSUME machine' = "windows", file'["fedora/cfg"] # "wootc",
             \A p \in Proc : ~ours'[p]
      PROVE  MarkerSpeaks'
  BY <1>b DEF MarkerSpeaks, Marked
<1>c. ASSUME UNCHANGED <<machine, ours>>, file'["fedora/cfg"] # "wootc"
      PROVE  MarkerSpeaks'
  BY <1>a, <1>b, <1>c
<1>d. ASSUME machine' = "windows", UNCHANGED file, NEW ps, Stop(ps)
      PROVE  MarkerSpeaks'
  <2>1. \A p \in Proc : ~ours'[p]
    BY <1>a, <1>d DEF Stop
  <2> QED BY <1>a, <1>b, <1>d, <2>1 DEF Marked
<1>e. ASSUME UNCHANGED <<machine, ours, file>> PROVE MarkerSpeaks'
  BY <1>a, <1>c, <1>e DEF Marked
<1>1. ASSUME NEW p \in Proc, StartInstall(p) PROVE MarkerSpeaks'
  BY <1>1, <1>e DEF StartInstall, espVars, readVars
<1>2. ASSUME NEW p \in Proc, CheckMarker(p) PROVE MarkerSpeaks'
  <2>1. CASE Refuse(p)
    BY <1>2, <1>a, <1>d, <2>1 DEF CheckMarker, Refuse, espVars
  <2>2. CASE ours' = [ours EXCEPT ![p] = Marked("fedora/cfg")]
    <3>1. \A q \in Proc : ~ours'[q]
      BY <1>a, <2>2 DEF SafeInv, TypeInv, FlagsTyped
    <3> QED BY <1>2, <1>a, <1>b, <3>1 DEF CheckMarker, espVars, Marked
  <2> QED BY <1>2, <2>1, <2>2 DEF CheckMarker
<1>3. ASSUME NEW p \in Proc, GuardFile(p) PROVE MarkerSpeaks'
  BY <1>3, <1>a, <1>d, <1>e DEF GuardFile, Refuse, espVars, readVars
<1>4. ASSUME NEW p \in Proc, GuardEnds(p) PROVE MarkerSpeaks'
  BY <1>4, <1>a, <1>d, <1>e DEF GuardEnds, Refuse, espVars, readVars
<1>5. ASSUME NEW p \in Proc, StageFile(p) PROVE MarkerSpeaks'
  BY <1>5, <1>e DEF StageFile, espVars, readVars
<1>6. ASSUME NEW p \in Proc, SkipOptional(p) PROVE MarkerSpeaks'
  BY <1>6, <1>e DEF SkipOptional, espVars, readVars
<1>7. ASSUME NEW p \in Proc, StageEnds(p) PROVE MarkerSpeaks'
  BY <1>7, <1>a, <1>d DEF StageEnds, espVars
<1>8. ASSUME NEW p \in Proc, Persist(p) PROVE MarkerSpeaks'
  BY <1>8, <1>e DEF Persist, readVars
<1>9. ASSUME NEW p \in Proc, SyncTmp(p) PROVE MarkerSpeaks'
  BY <1>9, <1>e DEF SyncTmp, readVars
<1>10. ASSUME NEW p \in Proc, Rename(p) PROVE MarkerSpeaks'
  BY <1>10, <1>e DEF Rename, readVars
<1>11. ASSUME NEW p \in Proc, RenameFails(p) PROVE MarkerSpeaks'
  BY <1>11, <1>e DEF RenameFails, readVars
<1>12. ASSUME NEW p \in Proc, PersistGivesUp(p) PROVE MarkerSpeaks'
  BY <1>12, <1>a, <1>d DEF PersistGivesUp
<1>13. ASSUME NEW p \in Proc, WriteFile(p) PROVE MarkerSpeaks'
  <2>1. pc[p] \in Staging /\ todo[p] # <<>>
    BY <1>13 DEF WriteFile, At, Staging, SafeInv, TypeInv, ProcTyped
  <2>2. Current(p) # "fedora/cfg"
    BY <2>1, CurrentOurs DEF SafeInv, StageOurs
  <2>3. file'["fedora/cfg"] # "wootc"
    BY <1>13, <1>a, <2>2 DEF WriteFile, Marked
  <2> QED BY <1>13, <1>c, <2>3 DEF WriteFile, readVars
<1>14. ASSUME NEW p \in Proc, FillFile(p) PROVE MarkerSpeaks'
  <2>1. pc[p] \in Staging /\ todo[p] # <<>>
    BY <1>14 DEF FillFile, At, Staging, SafeInv, TypeInv, ProcTyped
  <2>2. Current(p) # "fedora/cfg"
    BY <2>1, CurrentOurs DEF SafeInv, StageOurs
  <2>3. file'["fedora/cfg"] # "wootc"
    BY <1>14, <1>a, <2>2 DEF FillFile, Marked
  <2> QED BY <1>14, <1>c, <2>3 DEF FillFile, readVars
<1>15. ASSUME NEW p \in Proc, SetupFails(p) PROVE MarkerSpeaks'
  BY <1>15, <1>a, <1>d DEF SetupFails, espVars
<1>16. ASSUME NEW p \in Proc, StartUninstall(p) PROVE MarkerSpeaks'
  BY <1>16, <1>e DEF StartUninstall, espVars, readVars
<1>17. ASSUME NEW p \in Proc, RemoveFile(p) PROVE MarkerSpeaks'
  <2>1. file'["fedora/cfg"] # "wootc"
    BY <1>17, <1>a DEF RemoveFile, Marked
  <2> QED BY <1>17, <1>c, <2>1 DEF RemoveFile
<1>18. ASSUME NEW p \in Proc, CleanupFails(p) PROVE MarkerSpeaks'
  BY <1>18, <1>a, <1>d DEF CleanupFails, espVars
<1>19. ASSUME NEW p \in Proc, CleanupEnds(p) PROVE MarkerSpeaks'
  BY <1>19, <1>a, <1>d DEF CleanupEnds
<1>20. ASSUME NEW p \in Proc, Kill(p) PROVE MarkerSpeaks'
  BY <1>20, <1>a, <1>d DEF Kill, espVars
<1>21. CASE StartDeployer
  <2>1. UNCHANGED <<file, ours>>
    BY <1>21 DEF StartDeployer, procVars, readVars
  <2>2. \A b : FedoraBins \subseteq DeployerGuard(b)
    BY DEF DeployerGuard
  <2>3. ~\E b : \A f \in DeployerGuard(b) : OwnedOrAbsent(f)
    <3>1. FedoraBins \subseteq File
      BY FilesAreFiles DEF FedoraBins
    <3> QED BY <2>2, <3>1, OwnedIsOurs DEF NotForeign
  <2>4. UNCHANGED machine
    BY <1>21, <2>3 DEF StartDeployer
  <2> QED BY <1>e, <2>1, <2>4
<1>22. CASE DeployerClaims
  BY <1>22, <1>a DEF DeployerClaims, Command
<1>23. CASE DeployerRemoves
  BY <1>23, <1>a DEF DeployerRemoves, Command
<1>24. CASE DeployerWrites
  BY <1>24, <1>a DEF DeployerWrites, Command
<1>25. CASE DeployerFills
  BY <1>25, <1>a DEF DeployerFills, Command
<1>26. CASE DeployerSkips
  BY <1>26, <1>a DEF DeployerSkips, Command
<1>27. CASE DeployerRestores
  BY <1>27, <1>a DEF DeployerRestores, Command
<1>28. CASE DeployerExits
  BY <1>28, <1>a DEF DeployerExits
<1>29. CASE PowerCut
  BY <1>29, <1>d DEF PowerCut, DeployerOff, espVars
<1>30. CASE UNCHANGED vars
  BY <1>30, <1>e DEF vars, espVars, procVars, readVars
<1> QED BY <1>1, <1>2, <1>3, <1>4, <1>5, <1>6, <1>7, <1>8, <1>9, <1>10, <1>11,
    <1>12, <1>13, <1>14, <1>15, <1>16, <1>17, <1>18, <1>19, <1>20, <1>21,
    <1>22, <1>23, <1>24, <1>25, <1>26, <1>27, <1>28, <1>29, <1>30 DEF Next,
    InstallStep, UninstallStep, DeployerStep

\* guardESPDestinations lets no foreign file pass.
LEMMA GuardPasses ==
    ASSUME SafeInv, NEW p \in Proc, pc[p] = "guard", NEW f \in File,
           f \in Elems(GuardList(mode[p])), PassesGuard(p, f)
    PROVE  file[f] # "foreign"
<1>1. CASE ~Exists(f)
  BY <1>1 DEF Exists
<1>2. CASE f \in OwnNamespace
  BY <1>2 DEF SafeInv, OursAlone, NotForeign
<1>3. CASE f \in snap[p] \/ f \in Claims
  BY <1>3 DEF SafeInv, ClaimsOurs, NotForeign
<1>4. CASE ours[p] /\ f \notin OwnNamespace
  <2>1. CASE mode[p] = "signed"
    <3>1. f \in FedoraBins
      BY <1>4, <2>1 DEF GuardList, Elems, FedoraBins, OwnNamespace, Payload
    <3> QED BY <1>4, <3>1 DEF SafeInv, MarkerSpeaks, NotForeign
  <2>2. CASE mode[p] # "signed"
    <3>1. f \in SystemdBins
      BY <1>4, <2>2 DEF GuardList, Elems, SystemdBins, OwnNamespace, Payload
    <3>2. file["loader.conf"] # "foreign"
      BY <2>2 DEF SafeInv, GuardAhead, MarkerFile
    <3> QED BY <3>1, <3>2 DEF SafeInv, LoaderSpeaks, NotForeign
  <2> QED BY <2>1, <2>2
<1> QED BY <1>1, <1>2, <1>3, <1>4 DEF PassesGuard

\* No foreign destination gets past the guard.
LEMMA GuardStep == SafeInv /\ SameForeign /\ [Next]_vars => GuardAhead'
<1> SUFFICES ASSUME SafeInv, SameForeign, [Next]_vars PROVE GuardAhead'
  OBVIOUS
<1>a. ProcTyped /\ GuardAhead
  BY DEF SafeInv, TypeInv
<1>b. \A m : MarkerFile(m) \in File /\ Elems(GuardList(m)) \subseteq File
  BY GuardListType, FilesAreFiles DEF MarkerFile, Elems
<1>c. ASSUME \A p \in Proc : pc'[p] = "guard" =>
                 pc[p] = "guard" /\ todo'[p] = todo[p] /\ mode'[p] = mode[p]
      PROVE  GuardAhead'
  BY <1>a, <1>b, <1>c DEF GuardAhead, SameForeign
<1>d. ASSUME NEW ps, Stop(ps), UNCHANGED mode PROVE GuardAhead'
  BY <1>a, <1>c, <1>d DEF Stop, ProcTyped
<1>e. ASSUME UNCHANGED <<pc, todo, mode>> PROVE GuardAhead'
  BY <1>a, <1>c, <1>e
<1>f. ASSUME NEW p \in Proc, NEW x, x # "guard", pc' = [pc EXCEPT ![p] = x],
             \A q \in Proc : q # p => todo'[q] = todo[q] /\ mode'[q] = mode[q]
      PROVE  GuardAhead'
  BY <1>a, <1>c, <1>f DEF ProcTyped
<1>1. ASSUME NEW p \in Proc, StartInstall(p) PROVE GuardAhead'
  BY <1>1, <1>a, <1>e, <1>f DEF StartInstall, Goto, Advance, ProcTyped
<1>2. ASSUME NEW p \in Proc, CheckMarker(p) PROVE GuardAhead'
  <2>1. CASE Refuse(p)
    BY <1>2, <1>d, <2>1 DEF CheckMarker, Refuse
  <2>2. CASE /\ ~Exists(MarkerFile(mode[p])) \/ Marked(MarkerFile(mode[p]))
             /\ Goto(p, "guard")
             /\ todo' = [todo EXCEPT ![p] = GuardList(mode[p])]
    <3>1. file'[MarkerFile(mode[p])] # "foreign"
      BY <1>b, <2>2 DEF Exists, Marked, SameForeign
    <3>2. UNCHANGED mode /\ todo'[p] = GuardList(mode[p])
      BY <1>2, <1>a, <2>2 DEF CheckMarker, ProcTyped
    <3>3. ASSUME NEW q \in Proc, q # p
          PROVE  pc'[q] = pc[q] /\ todo'[q] = todo[q]
      BY <1>a, <2>2, <3>3 DEF Goto, ProcTyped
    <3> QED BY <1>a, <1>b, <3>1, <3>2, <3>3 DEF GuardAhead, SameForeign
  <2> QED BY <1>2, <2>1, <2>2 DEF CheckMarker
<1>3. ASSUME NEW p \in Proc, GuardFile(p) PROVE GuardAhead'
  <2>1. CASE Refuse(p)
    BY <1>3, <1>d, <2>1 DEF GuardFile, Refuse
  <2>2. CASE PassesGuard(p, Current(p)) /\ Advance(p) /\ UNCHANGED pc
    <3>1. pc[p] = "guard" /\ todo[p] \in Seq(File) /\ todo[p] # <<>> /\ UNCHANGED mode
      BY <1>3, <1>a DEF GuardFile, At, ProcTyped
    <3>2. file[Current(p)] # "foreign" \/ Current(p) \notin Elems(GuardList(mode[p]))
      BY <1>b, <2>2, <3>1, GuardPasses
    <3>3. Elems(todo[p]) \subseteq Elems(todo'[p]) \union {Current(p)}
      BY <1>a, <2>2, <3>1, TailElems DEF Advance, Current, ProcTyped
    <3>4. ASSUME NEW q \in Proc, q # p PROVE todo'[q] = todo[q]
      BY <1>a, <2>2, <3>4 DEF Advance, ProcTyped
    <3> QED BY <1>a, <1>b, <2>2, <3>1, <3>2, <3>3, <3>4 DEF GuardAhead, SameForeign
  <2> QED BY <1>3, <2>1, <2>2 DEF GuardFile
<1>4. ASSUME NEW p \in Proc, GuardEnds(p) PROVE GuardAhead'
  <2>1. CASE Refuse(p)
    BY <1>4, <1>d, <2>1 DEF GuardEnds, Refuse
  <2>2. CASE /\ Goto(p, "stage")
             /\ todo' = [todo EXCEPT ![p] = StagePlan(mode[p])]
    <3>1. \A q \in Proc : q # p => todo'[q] = todo[q] /\ mode'[q] = mode[q]
      BY <1>4, <1>a, <2>2 DEF GuardEnds, ProcTyped
    <3> QED BY <1>f, <2>2, <3>1 DEF Goto
  <2> QED BY <1>4, <2>1, <2>2 DEF GuardEnds
<1>5. ASSUME NEW p \in Proc, StageFile(p) PROVE GuardAhead'
  BY <1>5, <1>a, <1>e, <1>f DEF StageFile, Goto, Advance, ProcTyped
<1>6. ASSUME NEW p \in Proc, SkipOptional(p) PROVE GuardAhead'
  BY <1>6, <1>a, <1>c DEF SkipOptional, At, Advance, ProcTyped
<1>7. ASSUME NEW p \in Proc, StageEnds(p) PROVE GuardAhead'
  BY <1>7, <1>d DEF StageEnds
<1>8. ASSUME NEW p \in Proc, Persist(p) PROVE GuardAhead'
  BY <1>8, <1>a, <1>e, <1>f DEF Persist, Goto, Advance, ProcTyped
<1>9. ASSUME NEW p \in Proc, SyncTmp(p) PROVE GuardAhead'
  BY <1>9, <1>a, <1>e, <1>f DEF SyncTmp, Goto, Advance, ProcTyped
<1>10. ASSUME NEW p \in Proc, Rename(p) PROVE GuardAhead'
  BY <1>10, <1>a, <1>e, <1>f DEF Rename, Goto, Advance, ProcTyped
<1>11. ASSUME NEW p \in Proc, RenameFails(p) PROVE GuardAhead'
  BY <1>11, <1>a, <1>e, <1>f DEF RenameFails, Goto, Advance, ProcTyped
<1>12. ASSUME NEW p \in Proc, PersistGivesUp(p) PROVE GuardAhead'
  BY <1>12, <1>d DEF PersistGivesUp
<1>13. ASSUME NEW p \in Proc, WriteFile(p) PROVE GuardAhead'
  BY <1>13, <1>a, <1>e, <1>f DEF WriteFile, Goto, Advance, ProcTyped
<1>14. ASSUME NEW p \in Proc, FillFile(p) PROVE GuardAhead'
  BY <1>14, <1>a, <1>e, <1>f DEF FillFile, Goto, Advance, ProcTyped
<1>15. ASSUME NEW p \in Proc, SetupFails(p) PROVE GuardAhead'
  BY <1>15, <1>d DEF SetupFails
<1>16. ASSUME NEW p \in Proc, StartUninstall(p) PROVE GuardAhead'
  BY <1>16, <1>a, <1>e, <1>f DEF StartUninstall, Goto, Advance, ProcTyped
<1>17. ASSUME NEW p \in Proc, RemoveFile(p) PROVE GuardAhead'
  BY <1>17, <1>e DEF RemoveFile
<1>18. ASSUME NEW p \in Proc, CleanupFails(p) PROVE GuardAhead'
  BY <1>18, <1>d DEF CleanupFails
<1>19. ASSUME NEW p \in Proc, CleanupEnds(p) PROVE GuardAhead'
  BY <1>19, <1>d DEF CleanupEnds
<1>20. ASSUME NEW p \in Proc, Kill(p) PROVE GuardAhead'
  BY <1>20, <1>d DEF Kill
<1>21. CASE StartDeployer
  BY <1>21, <1>e DEF StartDeployer, procVars
<1>22. CASE DeployerClaims
  BY <1>22, <1>e DEF DeployerClaims, procVars
<1>23. CASE DeployerRemoves
  BY <1>23, <1>e DEF DeployerRemoves, procVars
<1>24. CASE DeployerWrites
  BY <1>24, <1>e DEF DeployerWrites, procVars
<1>25. CASE DeployerFills
  BY <1>25, <1>e DEF DeployerFills, procVars
<1>26. CASE DeployerSkips
  BY <1>26, <1>e DEF DeployerSkips, procVars
<1>27. CASE DeployerRestores
  BY <1>27, <1>e DEF DeployerRestores, procVars
<1>28. CASE DeployerExits
  BY <1>28, <1>e DEF DeployerExits, procVars
<1>29. CASE PowerCut
  BY <1>29, <1>d DEF PowerCut
<1>30. CASE UNCHANGED vars
  BY <1>30, <1>e DEF vars, procVars
<1> QED BY <1>1, <1>2, <1>3, <1>4, <1>5, <1>6, <1>7, <1>8, <1>9, <1>10, <1>11,
    <1>12, <1>13, <1>14, <1>15, <1>16, <1>17, <1>18, <1>19, <1>20, <1>21,
    <1>22, <1>23, <1>24, <1>25, <1>26, <1>27, <1>28, <1>29, <1>30 DEF Next,
    InstallStep, UninstallStep, DeployerStep

\* When the guard has been through its list, nothing in the plan is foreign.
LEMMA PlanIsOurs ==
    ASSUME SafeInv, NEW p \in Proc, pc[p] = "guard", todo[p] = <<>>,
           ~ForeignRedhat(p)
    PROVE  /\ NotForeign(Elems(StagePlan(mode[p])))
           /\ "fedora/cfg" \in Elems(StagePlan(mode[p])) => NotForeign(FedoraBins)
<1> DEFINE m == mode[p]
<1>1. NotForeign(Elems(GuardList(m))) /\ file[MarkerFile(m)] # "foreign"
  BY DEF SafeInv, GuardAhead, NotForeign, Elems
<1>2. NotForeign(OwnNamespace \union {"entries/deployer", "entries/wootc"})
  BY DEF SafeInv, OursAlone
<1>3. CASE m = "signed"
  <2>1. NotForeign(FedoraBins)
    BY <1>1, <1>3 DEF NotForeign, GuardList, Elems, FedoraBins
  <2>2. file["fedora/cfg"] # "foreign" /\ file["redhat/cfg"] # "foreign"
    BY <1>1, <1>3 DEF MarkerFile, ForeignRedhat, Exists, Marked
  <2>3. Elems(StagePlan(m)) \subseteq FedoraBins \union OwnNamespace
                                          \union {"fedora/cfg", "redhat/cfg"}
    BY <1>3 DEF Elems, StagePlan, FedoraBins, OwnNamespace, Payload
  <2> QED BY <1>2, <2>1, <2>2, <2>3 DEF NotForeign
<1>4. CASE m # "signed"
  <2>1. NotForeign(SystemdBins)
    BY <1>1, <1>4 DEF NotForeign, GuardList, Elems, SystemdBins
  <2>2. file["loader.conf"] # "foreign"
    BY <1>1, <1>4 DEF MarkerFile
  <2>3. Elems(StagePlan(m)) \subseteq SystemdBins \union OwnNamespace
                                          \union {"loader.conf", "entries/deployer"}
    <3>1. CASE m = "shimmed"
      BY <3>1 DEF Elems, StagePlan, SystemdBins, OwnNamespace, Payload
    <3>2. CASE m # "shimmed"
      BY <1>4, <3>2 DEF Elems, StagePlan, SystemdBins, OwnNamespace, Payload
    <3> QED BY <3>1, <3>2
  <2>4. "fedora/cfg" \notin Elems(StagePlan(m))
    BY <2>3 DEF SystemdBins, OwnNamespace, Payload
  <2> QED BY <1>2, <2>1, <2>2, <2>3, <2>4 DEF NotForeign
<1> QED BY <1>3, <1>4

\* What is left to stage stays free of foreign files.
LEMMA StageStep == SafeInv /\ SameForeign /\ [Next]_vars => StageOurs'
<1> SUFFICES ASSUME SafeInv, SameForeign, [Next]_vars PROVE StageOurs'
  OBVIOUS
<1>a. ProcTyped /\ StageOurs
  BY DEF SafeInv, TypeInv
<1>b. /\ \A q \in Proc : Elems(todo[q]) \subseteq File
      /\ FedoraBins \subseteq File
  BY <1>a, FilesAreFiles DEF ProcTyped, Elems, FedoraBins
<1>c. ASSUME \A q \in Proc : pc'[q] \in Staging =>
                 pc[q] \in Staging /\ Elems(todo'[q]) \subseteq Elems(todo[q])
      PROVE  StageOurs'
  BY <1>a, <1>b, <1>c DEF StageOurs, SameForeign, NotForeign
<1>d. ASSUME NEW ps, Stop(ps) PROVE StageOurs'
  BY <1>a, <1>c, <1>d DEF Stop, ProcTyped, Staging
<1>e. ASSUME UNCHANGED <<pc, todo>> PROVE StageOurs'
  BY <1>a, <1>c, <1>e
<1>f. ASSUME NEW p \in Proc, NEW x, pc' = [pc EXCEPT ![p] = x], UNCHANGED todo,
             x \in Staging => pc[p] \in Staging
      PROVE  StageOurs'
  BY <1>a, <1>c, <1>f DEF ProcTyped
<1>g. ASSUME NEW p \in Proc, todo[p] # <<>>, Advance(p),
             pc[p] \in Staging \/ pc'[p] \notin Staging,
             \A q \in Proc : q # p => pc'[q] = pc[q]
      PROVE  StageOurs'
  <2>1. Elems(todo'[p]) \subseteq Elems(todo[p])
    BY <1>a, <1>g, TailElems DEF Advance, ProcTyped
  <2>2. \A q \in Proc : q # p => todo'[q] = todo[q]
    BY <1>a, <1>g DEF Advance, ProcTyped
  <2> QED BY <1>c, <1>g, <2>1, <2>2
<1>1. ASSUME NEW p \in Proc, StartInstall(p) PROVE StageOurs'
  BY <1>1, <1>e, <1>f DEF StartInstall, Goto, Staging
<1>2. ASSUME NEW p \in Proc, CheckMarker(p) PROVE StageOurs'
  <2>1. CASE Refuse(p)
    BY <1>d, <2>1 DEF Refuse
  <2>2. CASE /\ Goto(p, "guard")
             /\ todo' = [todo EXCEPT ![p] = GuardList(mode[p])]
    BY <1>a, <1>c, <2>2 DEF Goto, ProcTyped, Staging
  <2> QED BY <1>2, <2>1, <2>2 DEF CheckMarker
<1>3. ASSUME NEW p \in Proc, GuardFile(p) PROVE StageOurs'
  <2>1. CASE Refuse(p)
    BY <1>d, <2>1 DEF Refuse
  <2>2. CASE Advance(p) /\ UNCHANGED pc
    BY <1>3, <1>g, <2>2 DEF GuardFile, At, Staging
  <2> QED BY <1>3, <2>1, <2>2 DEF GuardFile
<1>4. ASSUME NEW p \in Proc, GuardEnds(p) PROVE StageOurs'
  <2>1. CASE Refuse(p)
    BY <1>d, <2>1 DEF Refuse
  <2>2. CASE /\ ~ForeignRedhat(p) /\ Goto(p, "stage")
             /\ todo' = [todo EXCEPT ![p] = StagePlan(mode[p])]
    <3>1. /\ NotForeign(Elems(StagePlan(mode[p])))
          /\ "fedora/cfg" \in Elems(StagePlan(mode[p])) => NotForeign(FedoraBins)
      BY <1>4, <2>2, PlanIsOurs DEF GuardEnds, At
    <3>2. todo'[p] = StagePlan(mode[p]) /\ Elems(StagePlan(mode[p])) \subseteq File
      BY <1>a, <2>2, StagePlanType DEF ProcTyped, Elems
    <3>3. \A q \in Proc : q # p => pc'[q] = pc[q] /\ todo'[q] = todo[q]
      BY <1>a, <2>2 DEF Goto, ProcTyped
    <3> QED BY <1>a, <1>b, <3>1, <3>2, <3>3 DEF StageOurs, SameForeign, NotForeign
  <2> QED BY <1>4, <2>1, <2>2 DEF GuardEnds
<1>5. ASSUME NEW p \in Proc, StageFile(p) PROVE StageOurs'
  BY <1>5, <1>e, <1>f DEF StageFile, At, Goto, Staging
<1>6. ASSUME NEW p \in Proc, SkipOptional(p) PROVE StageOurs'
  BY <1>6, <1>g DEF SkipOptional, At, Staging
<1>7. ASSUME NEW p \in Proc, StageEnds(p) PROVE StageOurs'
  BY <1>7, <1>d DEF StageEnds
<1>8. ASSUME NEW p \in Proc, Persist(p) PROVE StageOurs'
  BY <1>8, <1>e, <1>f DEF Persist, At, Goto, Staging
<1>9. ASSUME NEW p \in Proc, SyncTmp(p) PROVE StageOurs'
  BY <1>9, <1>e, <1>f DEF SyncTmp, At, Goto, Staging
<1>10. ASSUME NEW p \in Proc, Rename(p) PROVE StageOurs'
  BY <1>10, <1>e, <1>f DEF Rename, At, Goto, Staging
<1>11. ASSUME NEW p \in Proc, RenameFails(p) PROVE StageOurs'
  BY <1>11, <1>e, <1>f DEF RenameFails, At, Goto, Staging
<1>12. ASSUME NEW p \in Proc, PersistGivesUp(p) PROVE StageOurs'
  BY <1>12, <1>d DEF PersistGivesUp
<1>13. ASSUME NEW p \in Proc, WriteFile(p) PROVE StageOurs'
  <2>1. pc[p] \in Staging /\ todo[p] # <<>>
    BY <1>13, <1>a DEF WriteFile, At, Staging, ProcTyped
  <2>2. CASE Advance(p) /\ Goto(p, "stage")
    BY <1>a, <1>g, <2>1, <2>2 DEF Goto, ProcTyped
  <2>3. CASE Goto(p, "fill") /\ UNCHANGED todo
    BY <1>f, <2>1, <2>3 DEF Goto
  <2> QED BY <1>13, <2>2, <2>3 DEF WriteFile
<1>14. ASSUME NEW p \in Proc, FillFile(p) PROVE StageOurs'
  <2>1. /\ pc[p] \in Staging /\ todo[p] # <<>>
        /\ \A q \in Proc : q # p => pc'[q] = pc[q]
    BY <1>14, <1>a DEF FillFile, At, Goto, Staging, ProcTyped
  <2> QED BY <1>14, <1>g, <2>1 DEF FillFile
<1>15. ASSUME NEW p \in Proc, SetupFails(p) PROVE StageOurs'
  BY <1>15, <1>d DEF SetupFails
<1>16. ASSUME NEW p \in Proc, StartUninstall(p) PROVE StageOurs'
  BY <1>16, <1>e, <1>f DEF StartUninstall, Goto, Staging
<1>17. ASSUME NEW p \in Proc, RemoveFile(p) PROVE StageOurs'
  BY <1>17, <1>e, <1>f DEF RemoveFile, Goto, Staging
<1>18. ASSUME NEW p \in Proc, CleanupFails(p) PROVE StageOurs'
  BY <1>18, <1>d DEF CleanupFails
<1>19. ASSUME NEW p \in Proc, CleanupEnds(p) PROVE StageOurs'
  BY <1>19, <1>d DEF CleanupEnds
<1>20. ASSUME NEW p \in Proc, Kill(p) PROVE StageOurs'
  BY <1>20, <1>d DEF Kill
<1>21. CASE StartDeployer
  BY <1>21, <1>e DEF StartDeployer, procVars
<1>22. CASE DeployerClaims
  BY <1>22, <1>e DEF DeployerClaims, procVars
<1>23. CASE DeployerRemoves
  BY <1>23, <1>e DEF DeployerRemoves, procVars
<1>24. CASE DeployerWrites
  BY <1>24, <1>e DEF DeployerWrites, procVars
<1>25. CASE DeployerFills
  BY <1>25, <1>e DEF DeployerFills, procVars
<1>26. CASE DeployerSkips
  BY <1>26, <1>e DEF DeployerSkips, procVars
<1>27. CASE DeployerRestores
  BY <1>27, <1>e DEF DeployerRestores, procVars
<1>28. CASE DeployerExits
  BY <1>28, <1>e DEF DeployerExits, procVars
<1>29. CASE PowerCut
  BY <1>29, <1>d DEF PowerCut
<1>30. CASE UNCHANGED vars
  BY <1>30, <1>e DEF vars, procVars
<1> QED BY <1>1, <1>2, <1>3, <1>4, <1>5, <1>6, <1>7, <1>8, <1>9, <1>10, <1>11,
    <1>12, <1>13, <1>14, <1>15, <1>16, <1>17, <1>18, <1>19, <1>20, <1>21,
    <1>22, <1>23, <1>24, <1>25, <1>26, <1>27, <1>28, <1>29, <1>30 DEF Next,
    InstallStep, UninstallStep, DeployerStep

\* A plan begins with every file it changes asked for, now or one command before.
LEMMA PlanBegins ==
    ASSUME SafeInv, NEW b \in Vendors \union {"composefs", "systemd"},
           \A f \in DeployerGuard(b) : OwnedOrAbsent(f),
           NEW i \in 1..Len(DeployerPlan(b)), DeployerPlan(b)[i][1] # "claim",
           file[DeployerPlan(b)[i][2]] = "foreign"
    PROVE  i > 1 /\ DeployerPlan(b)[i - 1] = <<"claim", DeployerPlan(b)[i][2]>>
<1> DEFINE G == DeployerGuard(b) \union {"entries/deployer"}
<1>1. \A f \in G : file[f] # "foreign"
  <2>1. DeployerGuard(b) \subseteq File
    BY FilesAreFiles DEF DeployerGuard, Payload, FedoraBins
  <2> QED BY <2>1, OwnedIsOurs DEF SafeInv, OursAlone, NotForeign
<1>2. DeployerPlan(b)[i][2] \notin G
  BY <1>1
<1>3. CASE b = "composefs"
  <2>1. Len(DeployerPlan(b)) = 16
    BY <1>3 DEF DeployerPlan
  <2>2. \A k \in 1..16 : DeployerPlan(b)[k][2] \in G
    BY <1>3 DEF DeployerPlan, DeployerGuard, Payload, FedoraBins
  <2> QED BY <1>2, <2>1, <2>2
<1>4. CASE b = "systemd"
  <2>1. Len(DeployerPlan(b)) = 11
    BY <1>4 DEF DeployerPlan
  <2>2. \A k \in 1..11 : DeployerPlan(b)[k][2] \in G
    BY <1>4 DEF DeployerPlan, DeployerGuard, Payload, FedoraBins
  <2> QED BY <1>2, <2>1, <2>2
<1>5. CASE b # "composefs" /\ b # "systemd"
  <2>1. Len(DeployerPlan(b)) = 21
    BY <1>5 DEF DeployerPlan
  <2>2. /\ \A k \in 1..21 : k \in {16, 17} \/ DeployerPlan(b)[k][2] \in G
        /\ DeployerPlan(b)[16] = <<"claim", b>> /\ DeployerPlan(b)[17] = <<"write", b>>
    BY <1>5 DEF DeployerPlan, DeployerGuard, Payload, FedoraBins
  <2>3. i = 17
    BY <1>2, <2>1, <2>2
  <2>4. i - 1 = 16 /\ DeployerPlan(b)[i] = <<"write", b>>
    BY <2>2, <2>3
  <2>5. DeployerPlan(b)[i][2] = b
    BY <2>4
  <2> QED BY <2>2, <2>3, <2>4, <2>5
<1> QED BY <1>3, <1>4, <1>5

\* A claim that succeeds, and any other command, leaves a plan that still asks.
LEMMA PlanGoesOn ==
    ASSUME SafeInv, SameForeign, dplan # <<>>,
           Head(dplan)[1] = "claim" => file[Target] # "foreign"
    PROVE  \A i \in 1..Len(Tail(dplan)) :
               /\ Tail(dplan)[i][2] \in File
               /\ Tail(dplan)[i][1] # "claim" /\ file'[Tail(dplan)[i][2]] = "foreign"
                    => i > 1 /\ Tail(dplan)[i - 1] = <<"claim", Tail(dplan)[i][2]>>
<1>1. dplan \in Seq(Ops \X File) /\ PlanAsks
  BY DEF SafeInv, TypeInv, RestTyped
<1>2. TAKE i \in 1..Len(Tail(dplan))
<1>3. /\ Len(Tail(dplan)) = Len(dplan) - 1 /\ Len(dplan) \in Nat
      /\ i \in Nat /\ i + 1 \in 1..Len(dplan) /\ Tail(dplan)[i] = dplan[i + 1]
      /\ dplan[i + 1] \in Ops \X File
  BY <1>1
<1>4. i > 1 => Tail(dplan)[i - 1] = dplan[i]
  BY <1>1, <1>3
<1>5. ASSUME dplan[i + 1][1] # "claim", file[dplan[i + 1][2]] = "foreign"
      PROVE  i > 1
  <2>1. dplan[i] = <<"claim", dplan[i + 1][2]>>
    BY <1>1, <1>3, <1>5 DEF PlanAsks
  <2>2. CASE i = 1
    <3>1. Head(dplan) = <<"claim", dplan[i + 1][2]>>
      BY <1>1, <2>1, <2>2
    <3> QED BY <1>5, <3>1 DEF Target
  <2> QED BY <1>3, <2>2
<1>6. dplan[i + 1][2] \in File
  BY <1>3
<1> QED BY <1>1, <1>3, <1>4, <1>5, <1>6 DEF PlanAsks, SameForeign

\* The deployer's plan keeps asking before it touches another system's file.
LEMMA PlanStep == SafeInv /\ SameForeign /\ [Next]_vars => PlanAsks'
<1> SUFFICES ASSUME SafeInv, SameForeign, [Next]_vars PROVE PlanAsks'
  OBVIOUS
<1>a. dplan \in Seq(Ops \X File) /\ PlanAsks
  BY DEF SafeInv, TypeInv, RestTyped
<1>b. \A i \in 1..Len(dplan) : dplan[i][2] \in File
  BY <1>a
<1>c. ASSUME UNCHANGED dplan PROVE PlanAsks'
  BY <1>a, <1>b, <1>c DEF PlanAsks, SameForeign
<1>d. ASSUME dplan' = <<>> PROVE PlanAsks'
  BY <1>d DEF PlanAsks
<1>e. ASSUME dplan # <<>>, dplan' = Tail(dplan),
             Head(dplan)[1] = "claim" => file[Target] # "foreign"
      PROVE  PlanAsks'
  BY <1>e, PlanGoesOn DEF PlanAsks
<1>1. ASSUME NEW p \in Proc, StartInstall(p) PROVE PlanAsks'
  BY <1>1, <1>c DEF StartInstall
<1>2. ASSUME NEW p \in Proc, CheckMarker(p) PROVE PlanAsks'
  BY <1>2, <1>c DEF CheckMarker
<1>3. ASSUME NEW p \in Proc, GuardFile(p) PROVE PlanAsks'
  BY <1>3, <1>c DEF GuardFile
<1>4. ASSUME NEW p \in Proc, GuardEnds(p) PROVE PlanAsks'
  BY <1>4, <1>c DEF GuardEnds
<1>5. ASSUME NEW p \in Proc, StageFile(p) PROVE PlanAsks'
  BY <1>5, <1>c DEF StageFile
<1>6. ASSUME NEW p \in Proc, SkipOptional(p) PROVE PlanAsks'
  BY <1>6, <1>c DEF SkipOptional
<1>7. ASSUME NEW p \in Proc, StageEnds(p) PROVE PlanAsks'
  BY <1>7, <1>c DEF StageEnds
<1>8. ASSUME NEW p \in Proc, Persist(p) PROVE PlanAsks'
  BY <1>8, <1>c DEF Persist
<1>9. ASSUME NEW p \in Proc, SyncTmp(p) PROVE PlanAsks'
  BY <1>9, <1>c DEF SyncTmp
<1>10. ASSUME NEW p \in Proc, Rename(p) PROVE PlanAsks'
  BY <1>10, <1>c DEF Rename
<1>11. ASSUME NEW p \in Proc, RenameFails(p) PROVE PlanAsks'
  BY <1>11, <1>c DEF RenameFails
<1>12. ASSUME NEW p \in Proc, PersistGivesUp(p) PROVE PlanAsks'
  BY <1>12, <1>c DEF PersistGivesUp
<1>13. ASSUME NEW p \in Proc, WriteFile(p) PROVE PlanAsks'
  BY <1>13, <1>c DEF WriteFile
<1>14. ASSUME NEW p \in Proc, FillFile(p) PROVE PlanAsks'
  BY <1>14, <1>c DEF FillFile
<1>15. ASSUME NEW p \in Proc, SetupFails(p) PROVE PlanAsks'
  BY <1>15, <1>c DEF SetupFails
<1>16. ASSUME NEW p \in Proc, StartUninstall(p) PROVE PlanAsks'
  BY <1>16, <1>c DEF StartUninstall
<1>17. ASSUME NEW p \in Proc, RemoveFile(p) PROVE PlanAsks'
  BY <1>17, <1>c DEF RemoveFile
<1>18. ASSUME NEW p \in Proc, CleanupFails(p) PROVE PlanAsks'
  BY <1>18, <1>c DEF CleanupFails
<1>19. ASSUME NEW p \in Proc, CleanupEnds(p) PROVE PlanAsks'
  BY <1>19, <1>c DEF CleanupEnds
<1>20. ASSUME NEW p \in Proc, Kill(p) PROVE PlanAsks'
  BY <1>20, <1>c DEF Kill
<1>21. CASE StartDeployer
  <2>1. PICK b \in Vendors \union {"composefs", "systemd"} :
            \/ /\ \A f \in DeployerGuard(b) : OwnedOrAbsent(f)
               /\ dplan' = DeployerPlan(b)
            \/ UNCHANGED dplan
    BY <1>21 DEF StartDeployer
  <2>2. CASE /\ \A f \in DeployerGuard(b) : OwnedOrAbsent(f)
             /\ dplan' = DeployerPlan(b)
    <3>1. UNCHANGED file
      BY <1>21 DEF StartDeployer
    <3> QED BY <2>2, <3>1, PlanBegins DEF PlanAsks
  <2> QED BY <1>c, <2>1, <2>2
<1>22. CASE DeployerClaims
  <2>1. CASE DeployerOff
    BY <1>d, <2>1 DEF DeployerOff
  <2>2. CASE OwnedOrAbsent(Target) /\ NextCommand
    <3>1. dplan # <<>> /\ Target \in File
      BY <1>22, <1>a DEF DeployerClaims, Command, Target
    <3> QED BY <1>e, <2>2, <3>1, OwnedIsOurs DEF NextCommand
  <2> QED BY <1>22, <2>1, <2>2 DEF DeployerClaims
<1>23. CASE DeployerRemoves
  BY <1>23, <1>e DEF DeployerRemoves, Command, NextCommand
<1>24. CASE DeployerWrites
  <2>1. dplan # <<>> /\ Head(dplan)[1] # "claim"
    BY <1>24 DEF DeployerWrites, Command
  <2>2. CASE NextCommand
    BY <1>e, <2>1, <2>2 DEF NextCommand
  <2>3. CASE dplan' = <<<<"fill", Target>>>> \o Tail(dplan)
    <3>1. Target \in File /\ file'[Target] # "foreign"
      BY <2>1, TargetOurs DEF SameForeign
    <3>2. Tail(dplan) \in Seq(Ops \X File) /\ Len(Tail(dplan)) \in Nat
      BY <1>a, <2>1
    <3>3. /\ Len(dplan') = Len(Tail(dplan)) + 1 /\ dplan'[1] = <<"fill", Target>>
          /\ \A i \in 2..Len(dplan') : dplan'[i] = Tail(dplan)[i - 1]
      BY <2>3, <3>2
    <3>4. ASSUME NEW i \in 1..Len(dplan'), dplan'[i][1] # "claim",
                 file'[dplan'[i][2]] = "foreign"
          PROVE  i > 1 /\ dplan'[i - 1] = <<"claim", dplan'[i][2]>>
      <4>1. i \in 2..Len(dplan') /\ i - 1 \in 1..Len(Tail(dplan))
        BY <3>1, <3>2, <3>3, <3>4
      <4>2. PICK k \in 1..Len(Tail(dplan)) : k = i - 1 /\ dplan'[i] = Tail(dplan)[k]
        BY <3>3, <4>1
      <4>3. k > 1 /\ Tail(dplan)[k - 1] = <<"claim", Tail(dplan)[k][2]>>
        BY <2>1, <3>4, <4>2, PlanGoesOn
      <4>4. k \in 2..Len(dplan') /\ dplan'[k] = Tail(dplan)[k - 1]
        BY <3>2, <3>3, <4>3
      <4> QED BY <4>1, <4>2, <4>3, <4>4
    <3> QED BY <3>4 DEF PlanAsks
  <2> QED BY <1>24, <2>2, <2>3 DEF DeployerWrites
<1>25. CASE DeployerFills
  BY <1>25, <1>e DEF DeployerFills, Command, NextCommand
<1>26. CASE DeployerSkips
  BY <1>26, <1>e DEF DeployerSkips, Command, NextCommand
<1>27. CASE DeployerRestores
  BY <1>27, <1>d DEF DeployerRestores, DeployerOff
<1>28. CASE DeployerExits
  BY <1>28, <1>d DEF DeployerExits, DeployerOff
<1>29. CASE PowerCut
  BY <1>29, <1>d DEF PowerCut, DeployerOff
<1>30. CASE UNCHANGED vars
  BY <1>30, <1>c DEF vars
<1> QED BY <1>1, <1>2, <1>3, <1>4, <1>5, <1>6, <1>7, <1>8, <1>9, <1>10, <1>11,
    <1>12, <1>13, <1>14, <1>15, <1>16, <1>17, <1>18, <1>19, <1>20, <1>21,
    <1>22, <1>23, <1>24, <1>25, <1>26, <1>27, <1>28, <1>29, <1>30 DEF Next,
    InstallStep, UninstallStep, DeployerStep

-----------------------------------------------------------------------------
\* A partition on which wootc has just been started.
LEMMA SafeInit == LoaderWithConf /\ Init => SafeInv
<1> SUFFICES ASSUME LoaderWithConf, Init PROVE SafeInv
  OBVIOUS
<1>1. TypeInv
  BY TypeInit
<1>2. PICK F \in ForeignSets :
        /\ \A f \in File : file[f] = "foreign" <=> f \in F
        /\ Marked("fedora/cfg") => F \intersect FedoraBins = {}
  <2>1. PICK F \in ForeignSets, L \in {{}} \union (IF Legacy THEN {LegacyFiles} ELSE {}) :
          /\ F \intersect (LegacyFiles \union FedoraBins) = {} \/ L = {}
          /\ file = [f \in File |-> IF f \in F THEN "foreign"
                                    ELSE IF f \in L THEN "wootc" ELSE "absent"]
    BY DEF Init
  <2>2. \A f \in File : file[f] = "foreign" <=> f \in F
    BY <2>1
  <2>3. Marked("fedora/cfg") => L # {}
    BY <2>1, FilesAreFiles DEF Marked
  <2> QED BY <2>1, <2>2, <2>3
<1>3. F \subseteq FedoraBins \union SystemdBins
                    \union {"fedora/cfg", "redhat/cfg", "centos/cfg", "loader.conf"}
  BY ForeignAssumption
<1>4. OursAlone
  BY <1>2, <1>3, FilesAreFiles DEF OursAlone, NotForeign, OwnNamespace, Payload,
     FedoraBins, SystemdBins
<1>5. ClaimsOurs
  BY DEF Init, ClaimsOurs, NotForeign, Claims, NoManifest
<1>6. MarkerSpeaks
  <2>1. machine = "windows" /\ \A p \in Proc : ~ours[p]
    BY DEF Init
  <2>2. FedoraBins \subseteq File
    BY FilesAreFiles DEF FedoraBins
  <2> QED BY <1>2, <2>1, <2>2 DEF MarkerSpeaks, NotForeign
<1>7. LoaderSpeaks
  <2>1. SystemdBins \subseteq File /\ "loader.conf" \in File
    BY FilesAreFiles DEF SystemdBins
  <2> QED BY <1>2, <2>1 DEF LoaderSpeaks, LoaderWithConf, NotForeign
<1>8. GuardAhead /\ StageOurs
  BY DEF Init, GuardAhead, StageOurs, Staging
<1>9. PlanAsks
  BY DEF Init, PlanAsks
<1> QED BY <1>1, <1>4, <1>5, <1>6, <1>7, <1>8, <1>9 DEF SafeInv

\* The invariant is inductive.
LEMMA SafeStep == SafeInv /\ [Next]_vars => SafeInv'
<1> SUFFICES ASSUME SafeInv, [Next]_vars PROVE SafeInv'
  OBVIOUS
<1>1. SameForeign
  BY ForeignStep
<1>2. TypeInv'
  BY TypeStep DEF SafeInv
<1>3. OursAlone'
  BY <1>1, FilesAreFiles DEF SafeInv, OursAlone, NotForeign, SameForeign,
     OwnNamespace, Payload
<1>4. LoaderSpeaks'
  BY <1>1, FilesAreFiles DEF SafeInv, LoaderSpeaks, NotForeign, SameForeign,
     SystemdBins
<1>5. ClaimsOurs'
  BY <1>1, ManifestStep, ReadStep DEF ClaimsOurs, ManifestOurs, ReadOurs
<1>6. MarkerSpeaks' /\ GuardAhead' /\ StageOurs' /\ PlanAsks'
  BY <1>1, MarkerStep, GuardStep, StageStep, PlanStep
<1> QED BY <1>2, <1>3, <1>4, <1>5, <1>6 DEF SafeInv

\* esp_ownership.go:13-23: on any partition whose systemd-boot systems have a
\* loader.conf, no run of the app or of the deployer overwrites or removes a
\* boot file of another system.
THEOREM ForeignFilesKept ==
    ASSUME LoaderWithConf PROVE Spec => ForeignKept
<1>1. Init => SafeInv
  BY SafeInit
<1>2. SafeInv /\ [Next]_vars =>
        [\A f \in File : file[f] = "foreign" => file'[f] = "foreign"]_vars
  BY ForeignStep DEF SameForeign
<1> QED BY <1>1, <1>2, SafeStep, PTL DEF Spec, ForeignKept

-----------------------------------------------------------------------------
(* Every claim can be removed again.                                       *)

\* The deployer installs only images whose config directory the cleanup knows.
KnownVendors == "centos/cfg" \notin Vendors

\* No list of claims, on disk or in a process, names another config directory.
Ruled ==
    /\ "centos/cfg" \notin Claims
    /\ tmp # <<>> => "centos/cfg" \notin tmp[1]
    /\ \A p \in Proc : "centos/cfg" \notin snap[p] /\ "centos/cfg" \notin Elems(todo[p])
    /\ \A i \in 1..Len(dplan) : dplan[i] # <<"claim", "centos/cfg">>

\* The lists of install and deployer do not name it.
LEMMA PlansAreRuled ==
    /\ \A m : "centos/cfg" \notin Elems(GuardList(m))
    /\ \A m : "centos/cfg" \notin Elems(StagePlan(m))
    /\ KnownVendors => \A b \in Vendors \union {"composefs", "systemd"} :
         \A i \in 1..Len(DeployerPlan(b)) : DeployerPlan(b)[i] # <<"claim", "centos/cfg">>
<1>1. ASSUME NEW m PROVE "centos/cfg" \notin Elems(GuardList(m))
  BY DEF GuardList, Elems
<1>2. ASSUME NEW m PROVE "centos/cfg" \notin Elems(StagePlan(m))
  <2>1. CASE m = "signed"
    BY <2>1 DEF StagePlan, Elems
  <2>2. CASE m = "shimmed"
    BY <2>2 DEF StagePlan, Elems
  <2>3. CASE m # "signed" /\ m # "shimmed"
    BY <2>3 DEF StagePlan, Elems
  <2> QED BY <2>1, <2>2, <2>3
<1>3. ASSUME KnownVendors, NEW b \in Vendors \union {"composefs", "systemd"},
             NEW i \in 1..Len(DeployerPlan(b))
      PROVE  DeployerPlan(b)[i] # <<"claim", "centos/cfg">>
  <2>1. CASE b = "composefs"
    BY <2>1, <1>3 DEF DeployerPlan
  <2>2. CASE b = "systemd"
    BY <2>2, <1>3 DEF DeployerPlan
  <2>3. CASE b # "composefs" /\ b # "systemd"
    <3>1. b # "centos/cfg"
      BY <1>3, <2>3 DEF KnownVendors
    <3>2. Len(DeployerPlan(b)) = 21
      BY <2>3 DEF DeployerPlan
    <3>3. \A k \in 1..21 : DeployerPlan(b)[k][2] # "centos/cfg"
      BY <2>3, <3>1 DEF DeployerPlan
    <3>4. DeployerPlan(b)[i][2] # "centos/cfg"
      BY <1>3, <3>2, <3>3
    <3> QED BY <3>4
  <2> QED BY <2>1, <2>2, <2>3
<1> QED BY <1>1, <1>2, <1>3

\* No step makes a claim the cleanup has no rule for.
LEMMA RuledStep == KnownVendors /\ TypeInv /\ Ruled /\ [Next]_vars => Ruled'
<1> SUFFICES ASSUME KnownVendors, TypeInv, Ruled, [Next]_vars PROVE Ruled'
  OBVIOUS
<1>a. /\ todo \in [Proc -> Seq(File)] /\ snap \in [Proc -> SUBSET File]
      /\ dplan \in Seq(Ops \X File) /\ KnownVendors /\ Ruled
  BY DEF TypeInv, ProcTyped, RestTyped
<1>b. \A p \in Proc : pc[p] \in {"write", "fill"} => todo[p] # <<>>
  BY DEF TypeInv, ProcTyped
<1>c. ASSUME UNCHANGED <<manifest, tmp, snap, todo, dplan>> PROVE Ruled'
  BY <1>a, <1>c DEF Ruled, Claims
<1>d. ASSUME NEW ps, Stop(ps), "centos/cfg" \notin manifest'.claims, tmp' = tmp \/ tmp' = <<>>,
             dplan' = dplan \/ dplan' = <<>>
      PROVE  Ruled'
  <2>1. \A p \in Proc : /\ snap'[p] = snap[p] \/ snap'[p] = {}
                        /\ todo'[p] = todo[p] \/ todo'[p] = <<>>
    BY <1>d DEF Stop
  <2>2. "centos/cfg" \notin Elems(<<>>)
    BY DEF Elems
  <2>3. ASSUME NEW p \in Proc PROVE "centos/cfg" \notin snap'[p] /\ "centos/cfg" \notin Elems(todo'[p])
    BY <1>a, <2>1, <2>2 DEF Ruled
  <2>4. \A i \in 1..Len(dplan') : dplan'[i] # <<"claim", "centos/cfg">>
    BY <1>a, <1>d DEF Ruled
  <2> QED BY <1>a, <1>d, <2>3, <2>4 DEF Ruled, Claims
<1>e. ASSUME NEW p \in Proc, todo[p] # <<>>, Advance(p), UNCHANGED <<manifest, tmp, snap, dplan>>
      PROVE  Ruled'
  <2>1. Elems(todo'[p]) \subseteq Elems(todo[p]) /\ \A q \in Proc : q # p => todo'[q] = todo[q]
    BY <1>a, <1>e, TailElems DEF Advance
  <2> QED BY <1>a, <1>e, <2>1 DEF Ruled, Claims
<1>f. ASSUME "centos/cfg" \notin Claims', tmp' # <<>> => "centos/cfg" \notin tmp'[1],
             UNCHANGED <<snap, todo, dplan>>
      PROVE  Ruled'
  BY <1>a, <1>f DEF Ruled
<1>h. ASSUME "centos/cfg" \notin manifest'.claims, UNCHANGED <<tmp, snap, todo>>, dplan' = <<>>
      PROVE  Ruled'
  BY <1>a, <1>h DEF Ruled, Claims
<1>g. ASSUME "centos/cfg" \notin manifest'.claims, UNCHANGED <<tmp, snap, todo>>, dplan # <<>>,
             dplan' = <<>> \/ dplan' = Tail(dplan)
      PROVE  Ruled'
  <2>1. ASSUME dplan' = Tail(dplan), NEW i \in 1..Len(dplan')
        PROVE  dplan'[i] # <<"claim", "centos/cfg">>
    <3>1. i + 1 \in 1..Len(dplan) /\ dplan'[i] = dplan[i + 1]
      BY <1>a, <1>g, <2>1
    <3> QED BY <1>a, <3>1 DEF Ruled
  <2> QED BY <1>a, <1>g, <1>h, <2>1 DEF Ruled, Claims
<1>1. ASSUME NEW p \in Proc, StartInstall(p) PROVE Ruled'
  BY <1>1, <1>c DEF StartInstall, espVars, readVars
<1>2. ASSUME NEW p \in Proc, CheckMarker(p) PROVE Ruled'
  <2>1. CASE Refuse(p)
    BY <1>2, <1>a, <1>d, <2>1 DEF Ruled, Claims, CheckMarker, Refuse, espVars
  <2>2. CASE /\ todo' = [todo EXCEPT ![p] = GuardList(mode[p])]
             /\ snap' = [snap EXCEPT ![p] = Claims]
    <3>1. "centos/cfg" \notin Elems(GuardList(mode[p]))
      BY PlansAreRuled
    <3> QED BY <1>2, <1>a, <2>2, <3>1 DEF CheckMarker, espVars, Ruled, Claims
  <2> QED BY <1>2, <2>1, <2>2 DEF CheckMarker
<1>3. ASSUME NEW p \in Proc, GuardFile(p) PROVE Ruled'
  <2>1. CASE Refuse(p)
    BY <1>3, <1>a, <1>d, <2>1 DEF Ruled, Claims, GuardFile, Refuse, espVars
  <2>2. CASE Advance(p) /\ UNCHANGED readVars
    BY <1>3, <1>e, <2>2 DEF GuardFile, espVars, readVars
  <2> QED BY <1>3, <2>1, <2>2 DEF GuardFile
<1>4. ASSUME NEW p \in Proc, GuardEnds(p) PROVE Ruled'
  <2>1. CASE Refuse(p)
    BY <1>4, <1>a, <1>d, <2>1 DEF Ruled, Claims, GuardEnds, Refuse, espVars
  <2>2. CASE todo' = [todo EXCEPT ![p] = StagePlan(mode[p])] /\ UNCHANGED readVars
    <3>1. "centos/cfg" \notin Elems(StagePlan(mode[p]))
      BY PlansAreRuled
    <3> QED BY <1>4, <1>a, <2>2, <3>1 DEF GuardEnds, espVars, readVars, Ruled, Claims
  <2> QED BY <1>4, <2>1, <2>2 DEF GuardEnds
<1>5. ASSUME NEW p \in Proc, StageFile(p) PROVE Ruled'
  <2>1. CASE UNCHANGED snap
    BY <1>5, <1>c, <2>1 DEF StageFile, espVars
  <2>2. CASE snap' = [snap EXCEPT ![p] = Claims \union {Current(p)}]
    <3>1. Current(p) \in Elems(todo[p])
      <4>1. 1 \in DOMAIN todo[p] /\ todo[p][1] = Current(p)
        BY <1>5, <1>a DEF StageFile, Current
      <4> QED BY <4>1 DEF Elems
    <3> QED BY <1>5, <1>a, <2>2, <3>1 DEF StageFile, espVars, Ruled, Claims
  <2> QED BY <1>5, <2>1, <2>2 DEF StageFile
<1>6. ASSUME NEW p \in Proc, SkipOptional(p) PROVE Ruled'
  BY <1>6, <1>e DEF SkipOptional, espVars, readVars
<1>7. ASSUME NEW p \in Proc, StageEnds(p) PROVE Ruled'
  BY <1>7, <1>a, <1>d DEF Ruled, Claims, StageEnds, espVars
<1>8. ASSUME NEW p \in Proc, Persist(p) PROVE Ruled'
  <2>1. tmp' = tmp \/ tmp' = <<>> \/ tmp' = <<{}>>
    BY <1>8 DEF Persist
  <2>2. tmp' # <<>> => "centos/cfg" \notin tmp'[1]
    BY <1>a, <2>1 DEF Ruled
  <2> QED BY <1>8, <1>a, <1>f, <2>2 DEF Persist, readVars, Ruled, Claims
<1>9. ASSUME NEW p \in Proc, SyncTmp(p) PROVE Ruled'
  <2>1. tmp'[1] = snap[p]
    BY <1>9 DEF SyncTmp
  <2> QED BY <1>9, <1>a, <1>f, <2>1 DEF SyncTmp, readVars, Ruled, Claims
<1>10. ASSUME NEW p \in Proc, Rename(p) PROVE Ruled'
  BY <1>10, <1>a, <1>f DEF Rename, MoveTmp, readVars, Ruled, Claims
<1>11. ASSUME NEW p \in Proc, RenameFails(p) PROVE Ruled'
  BY <1>11, <1>a, <1>c, <1>f DEF RenameFails, MoveTmp, readVars, Ruled, Claims
<1>12. ASSUME NEW p \in Proc, PersistGivesUp(p) PROVE Ruled'
  BY <1>12, <1>a, <1>d DEF Ruled, Claims, PersistGivesUp
<1>13. ASSUME NEW p \in Proc, WriteFile(p) PROVE Ruled'
  <2>1. todo[p] # <<>>
    BY <1>13, <1>b DEF WriteFile, At
  <2> QED BY <1>13, <1>c, <1>e, <2>1 DEF WriteFile, readVars
<1>14. ASSUME NEW p \in Proc, FillFile(p) PROVE Ruled'
  <2>1. todo[p] # <<>>
    BY <1>14, <1>b DEF FillFile, At
  <2> QED BY <1>14, <1>e, <2>1 DEF FillFile, readVars
<1>15. ASSUME NEW p \in Proc, SetupFails(p) PROVE Ruled'
  BY <1>15, <1>a, <1>d DEF Ruled, Claims, SetupFails, espVars
<1>16. ASSUME NEW p \in Proc, StartUninstall(p) PROVE Ruled'
  <2>1. CASE UNCHANGED snap
    BY <1>16, <1>c, <2>1 DEF StartUninstall, espVars
  <2>2. CASE snap' = [snap EXCEPT ![p] = CleanupClaims]
    <3>1. "centos/cfg" \notin CleanupClaims
      BY <1>a DEF Ruled, CleanupClaims, LegacyClaims, Payload, FedoraBins, SystemdBins,
         LoaderConfs
    <3> QED BY <1>16, <1>a, <2>2, <3>1 DEF StartUninstall, espVars, Ruled, Claims
  <2> QED BY <1>16, <2>1, <2>2 DEF StartUninstall
<1>17. ASSUME NEW p \in Proc, RemoveFile(p) PROVE Ruled'
  BY <1>17, <1>c DEF RemoveFile
<1>18. ASSUME NEW p \in Proc, CleanupFails(p) PROVE Ruled'
  BY <1>18, <1>a, <1>d DEF Ruled, Claims, CleanupFails, espVars
<1>19. ASSUME NEW p \in Proc, CleanupEnds(p) PROVE Ruled'
  BY <1>19, <1>a, <1>d DEF CleanupEnds, NoManifest, Ruled, Claims
<1>20. ASSUME NEW p \in Proc, Kill(p) PROVE Ruled'
  BY <1>20, <1>a, <1>d DEF Ruled, Claims, Kill, espVars
<1>21. CASE StartDeployer
  <2>1. /\ manifest'.claims = Claims /\ UNCHANGED <<tmp, snap, todo>>
        /\ dplan' = dplan \/ \E b \in Vendors \union {"composefs", "systemd"} :
                               dplan' = DeployerPlan(b)
    BY <1>21 DEF StartDeployer, procVars, readVars, Claims
  <2> QED BY <1>a, <2>1, PlansAreRuled DEF Ruled, Claims
<1>22. CASE DeployerClaims
  <2>1. dplan # <<>> /\ Head(dplan) = <<"claim", Target>> /\ dplan[1] = Head(dplan)
    BY <1>22, <1>a DEF DeployerClaims, Command, Target
  <2>2. Target # "centos/cfg"
    BY <1>a, <2>1 DEF Ruled
  <2>3. "centos/cfg" \notin manifest'.claims
    BY <1>22, <1>a, <2>2 DEF DeployerClaims, Ruled, Claims
  <2> QED BY <1>22, <1>g, <2>1, <2>3 DEF DeployerClaims, NextCommand, DeployerOff, procVars, readVars
<1>23. CASE DeployerRemoves
  BY <1>23, <1>g, <1>a DEF DeployerRemoves, Command, NextCommand, procVars, readVars, Ruled, Claims
<1>24. CASE DeployerWrites
  <2>1. dplan # <<>> /\ UNCHANGED <<manifest, tmp, snap, todo>>
    BY <1>24 DEF DeployerWrites, Command, procVars, readVars
  <2>2. CASE dplan' = <<<<"fill", Target>>>> \o Tail(dplan)
    <3>1. Tail(dplan) \in Seq(Ops \X File) /\ \A i \in 1..Len(Tail(dplan)) : Tail(dplan)[i] = dplan[i + 1]
      BY <1>a, <2>1
    <3>2. \A i \in 1..Len(dplan') : dplan'[i] = <<"fill", Target>> \/ \E k \in 1..Len(dplan) : dplan'[i] = dplan[k]
      BY <1>a, <2>1, <2>2, <3>1
    <3>3. <<"fill", Target>> # <<"claim", "centos/cfg">>
      OBVIOUS
    <3>4. \A i \in 1..Len(dplan') : dplan'[i] # <<"claim", "centos/cfg">>
      BY <1>a, <3>2, <3>3 DEF Ruled
    <3> QED BY <1>a, <2>1, <3>4 DEF Ruled, Claims
  <2> QED BY <1>24, <1>a, <1>g, <2>1, <2>2 DEF DeployerWrites, NextCommand, Ruled, Claims
<1>25. CASE DeployerFills
  BY <1>25, <1>g, <1>a DEF DeployerFills, Command, NextCommand, procVars, readVars, Ruled, Claims
<1>26. CASE DeployerSkips
  BY <1>26, <1>a, <1>g DEF DeployerSkips, Command, NextCommand, espVars, procVars, readVars, Ruled, Claims
<1>27. CASE DeployerRestores
  BY <1>27, <1>a, <1>h DEF DeployerRestores, DeployerOff, procVars, readVars, Ruled, Claims
<1>28. CASE DeployerExits
  BY <1>28, <1>a, <1>h DEF DeployerExits, DeployerOff, espVars, procVars, readVars, Ruled, Claims
<1>29. CASE PowerCut
  BY <1>29, <1>a, <1>d DEF Ruled, Claims, PowerCut, DeployerOff, espVars
<1>30. CASE UNCHANGED vars
  BY <1>30, <1>c DEF vars, espVars, procVars, readVars
<1> QED BY <1>1, <1>2, <1>3, <1>4, <1>5, <1>6, <1>7, <1>8, <1>9, <1>10, <1>11,
    <1>12, <1>13, <1>14, <1>15, <1>16, <1>17, <1>18, <1>19, <1>20, <1>21,
    <1>22, <1>23, <1>24, <1>25, <1>26, <1>27, <1>28, <1>29, <1>30 DEF Next,
    InstallStep, UninstallStep, DeployerStep

\* esp_cleanup.go:207-208: for images of known vendors the cleanup has a rule
\* for every claim, of any number of processes and with torn files, too.
THEOREM ClaimsStayRemovable ==
    ASSUME KnownVendors PROVE Spec => []ClaimsAreRemovable
<1>1. ASSUME Init PROVE TypeInv /\ Ruled
  <2>1. "centos/cfg" \notin Elems(<<>>) /\ Len(<<>>) = 0
    BY DEF Elems
  <2>2. /\ manifest.claims = {} /\ tmp = <<>> /\ dplan = <<>>
        /\ \A p \in Proc : snap[p] = {} /\ todo[p] = <<>>
    BY <1>1 DEF Init, NoManifest
  <2>3. TypeInv
    BY <1>1, TypeInit
  <2> QED BY <2>1, <2>2, <2>3 DEF Ruled, Claims
<1>2. TypeInv /\ Ruled /\ [Next]_vars => (TypeInv /\ Ruled)'
  BY TypeStep, RuledStep
<1>3. Ruled => ClaimsAreRemovable
  BY DEF Ruled, ClaimsAreRemovable, Allowed
<1> QED BY <1>1, <1>2, <1>3, PTL DEF Spec

-----------------------------------------------------------------------------
(* What wootc has put on the partition is attributed to it.                *)

\* One process at a time, no release without a manifest before it, and small
\* files that are written whole.
Sole == (\A p, q \in Proc : p = q) /\ ~Legacy /\ ~SmallWritesTear

\* No process that dies leaves a temporary manifest behind.
NoLeftover == tmp # <<>> => \E p \in Proc : pc[p] \in {"persist", "rename"}

\* The files that only a claim attributes to wootc.
ByClaim == FedoraBins \union SystemdBins \union {"entries/wootc", "centos/cfg"}

Owned(f) == file[f] \in {"wootc", "torn"}

\* The others are in wootc's own directory, or whole and marked.
Attributed ==
    /\ \A f \in ByClaim : Owned(f) => f \in Claims
    /\ \A f \in Configs : file[f] # "torn"

\* What a process has read, and whether its next file is claimed.
PlaceOf(p) ==
    /\ pc[p] = "guard" => Elems(todo[p]) \subseteq OwnNamespace \union ByClaim
    /\ pc[p] \in Staging => Elems(todo[p]) \cap ByClaim \subseteq Staged(mode[p])
    /\ pc[p] \in {"persist", "sync", "rename"} => Claims \union {Current(p)} \subseteq snap[p]
    /\ pc[p] \in {"persist", "rename"} => tmp \in {<<>>, <<snap[p]>>}
    /\ pc[p] \in {"write", "fill"} => (Current(p) \in ByClaim => Current(p) \in Claims)
    /\ pc[p] = "fill" => Current(p) \notin Configs
    /\ pc[p] = "remove" => \A f \in File \ {"entries/deployer"} : Owned(f) => f \in snap[p]

Claiming == \A p \in Proc : PlaceOf(p)

\* Windows and the deployer take turns, and what is cleaned stays clean until
\* somebody begins anew.
Turns ==
    /\ machine = "deployer" => \A p \in Proc : pc[p] = "idle"
    /\ machine = "windows" => dplan = <<>>
    /\ cleaned => machine = "windows" /\ \A p \in Proc : pc[p] = "idle"

\* The deployer writes what it has claimed, or will have claimed by then.
PlanClaims ==
    \A i \in 1..Len(dplan) :
        /\ dplan[i][1] = "claim" => dplan[i][2] \in ByClaim \union OwnNamespace
                                                            \union {"fedora/cfg", "redhat/cfg"}
        /\ dplan[i][1] = "fill" => dplan[i][2] \notin Configs
        /\ dplan[i][1] \in {"write", "may", "fill"} /\ dplan[i][2] \in ByClaim =>
             \/ dplan[i][2] \in Claims
             \/ \E j \in 1..Len(dplan) : j < i /\ dplan[j] = <<"claim", dplan[i][2]>>

Tracked == Attributed /\ Claiming /\ Turns /\ PlanClaims /\ CleanupIsComplete

-----------------------------------------------------------------------------
\* The first of a list is in it.
LEMMA HeadElem ==
    ASSUME NEW S, NEW s \in Seq(S), s # <<>> PROVE Head(s) \in Elems(s)
<1>1. 1 \in DOMAIN s /\ s[1] = Head(s)
  OBVIOUS
<1> QED BY <1>1 DEF Elems

\* An empty plan writes nothing.
LEMMA EmptyPlan == dplan' = <<>> => PlanClaims'
BY DEF PlanClaims

\* The lists of guard and staging name claimed files, and own or marked ones.
LEMMA ListsAreOurs ==
    /\ \A m : Elems(GuardList(m)) \subseteq OwnNamespace \union ByClaim
    /\ \A m : Elems(StagePlan(m)) \cap ByClaim \subseteq Staged(m)
<1>1. ASSUME NEW m PROVE Elems(GuardList(m)) \subseteq OwnNamespace \union ByClaim
  <2>1. CASE m = "signed"
    BY <2>1 DEF GuardList, Elems, OwnNamespace, Payload, ByClaim, FedoraBins
  <2>2. CASE m # "signed"
    BY <2>2 DEF GuardList, Elems, OwnNamespace, Payload, ByClaim, SystemdBins
  <2> QED BY <2>1, <2>2
<1>2. ASSUME NEW m PROVE Elems(StagePlan(m)) \cap ByClaim \subseteq Staged(m)
  <2>1. CASE m = "signed"
    <3>1. Elems(StagePlan(m)) \subseteq Staged(m) \union {"fedora/cfg", "redhat/cfg", "wootc/cfg"}
      BY <2>1 DEF StagePlan, Elems, Staged, FedoraBins
    <3> QED BY <3>1 DEF ByClaim, FedoraBins, SystemdBins
  <2>2. CASE m = "shimmed"
    <3>1. Elems(StagePlan(m)) \subseteq Staged(m) \union {"wootc/kernel", "wootc/initrd",
                                                            "loader.conf", "entries/deployer"}
      BY <2>2 DEF StagePlan, Elems, Staged, SystemdBins
    <3> QED BY <3>1 DEF ByClaim, FedoraBins, SystemdBins
  <2>3. CASE m # "signed" /\ m # "shimmed"
    <3>1. Elems(StagePlan(m)) \subseteq Staged(m) \union {"wootc/kernel", "wootc/initrd",
                                                            "loader.conf", "entries/deployer"}
      BY <2>3 DEF StagePlan, Elems, Staged, SystemdBins
    <3> QED BY <3>1 DEF ByClaim, FedoraBins, SystemdBins
  <2> QED BY <2>1, <2>2, <2>3
<1> QED BY <1>1, <1>2

\* Everything but the deployer's loader entry can be attributed by a cleanup.
LEMMA Attributable ==
    ASSUME TypeInv, Attributed, NEW f \in File \ {"entries/deployer"}, Owned(f)
    PROVE  f \in CleanupClaims
<1>1. CASE f \in ByClaim
  BY <1>1 DEF Attributed, CleanupClaims
<1>2. CASE f \in Payload
  BY <1>2 DEF CleanupClaims, LegacyClaims, Unrecorded
<1>3. CASE f \in {"fedora/cfg", "redhat/cfg", "wootc/cfg"}
  <2>1. Marked(f)
    BY <1>3 DEF Attributed, Owned, Marked, Configs, GrubCfgs
  <2> QED BY <1>3, <2>1 DEF CleanupClaims, LegacyClaims, Unrecorded
<1>4. CASE f = "loader.conf"
  <2>1. Marked(f)
    BY <1>4 DEF Attributed, Owned, Marked, Configs, LoaderConfs
  <2> QED BY <1>4, <2>1 DEF CleanupClaims, LegacyClaims, Unrecorded, LoaderConfs
<1> QED BY <1>1, <1>2, <1>3, <1>4 DEF File, ByClaim, Configs, GrubCfgs, LoaderConfs

\* Each branch of the deployer claims what it writes.
LEMMA DeployerPlanClaims ==
    ASSUME NEW b \in Vendors \union {"composefs", "systemd"}, dplan' = DeployerPlan(b)
    PROVE  PlanClaims'
<1> DEFINE Free  == {"wootc/p2kernel", "wootc/p2initrd", "wootc/cfg", "fedora/cfg", "redhat/cfg"}
           Asked == ByClaim \union OwnNamespace \union {"fedora/cfg", "redhat/cfg"}
<1>1. \A f \in Free : f \notin ByClaim /\ f \in Asked
  BY DEF ByClaim, FedoraBins, SystemdBins, OwnNamespace, Payload
<1>2. \A f \in {"fedora/shim", "fedora/grub", "fedora/mm", "centos/cfg", "entries/wootc"} : f \in Asked
  BY DEF ByClaim, FedoraBins
<1>3. CASE b = "composefs"
  <2>1. Len(DeployerPlan(b)) = 16
    BY <1>3 DEF DeployerPlan
  <2>2. \A k \in 1..16 : /\ DeployerPlan(b)[k][1] # "fill"
                         /\ k = 9 \/ DeployerPlan(b)[k][1] \notin {"write", "may"} \/ DeployerPlan(b)[k][2] \in Free
    BY <1>3 DEF DeployerPlan
  <2>3. DeployerPlan(b)[8] = <<"claim", "entries/wootc">> /\ DeployerPlan(b)[9] = <<"write", "entries/wootc">>
    BY <1>3 DEF DeployerPlan
  <2>4. \A k \in 1..16 : DeployerPlan(b)[k][1] = "claim" => DeployerPlan(b)[k][2] \in Free \union {"entries/wootc"}
    BY <1>3 DEF DeployerPlan
  <2> HIDE DEF Free
  <2> QED BY <1>1, <1>2, <2>1, <2>2, <2>3, <2>4 DEF PlanClaims
<1>4. CASE b = "systemd"
  <2>1. Len(DeployerPlan(b)) = 11
    BY <1>4 DEF DeployerPlan
  <2>2. \A k \in 1..11 : /\ DeployerPlan(b)[k][1] # "fill"
                         /\ k = 10 \/ DeployerPlan(b)[k][1] \notin {"write", "may"} \/ DeployerPlan(b)[k][2] \in Free
    BY <1>4 DEF DeployerPlan
  <2>3. DeployerPlan(b)[9] = <<"claim", "entries/wootc">> /\ DeployerPlan(b)[10] = <<"write", "entries/wootc">>
    BY <1>4 DEF DeployerPlan
  <2>4. \A k \in 1..11 : DeployerPlan(b)[k][1] = "claim" => DeployerPlan(b)[k][2] \in Free \union {"entries/wootc"}
    BY <1>4 DEF DeployerPlan
  <2> HIDE DEF Free
  <2> QED BY <1>1, <1>2, <2>1, <2>2, <2>3, <2>4 DEF PlanClaims
<1>5. CASE b # "composefs" /\ b # "systemd"
  <2>1. Len(DeployerPlan(b)) = 21
    BY <1>5 DEF DeployerPlan
  <2>2. \A k \in 1..21 :
          /\ DeployerPlan(b)[k][1] # "fill"
          /\ \/ k \in {13, 14, 15, 17} \/ DeployerPlan(b)[k][1] \notin {"write", "may"}
             \/ DeployerPlan(b)[k][2] \in Free
    BY <1>5 DEF DeployerPlan
  <2>3. /\ DeployerPlan(b)[10] = <<"claim", "fedora/shim">> /\ DeployerPlan(b)[13] = <<"write", "fedora/shim">>
        /\ DeployerPlan(b)[11] = <<"claim", "fedora/grub">> /\ DeployerPlan(b)[14] = <<"write", "fedora/grub">>
        /\ DeployerPlan(b)[12] = <<"claim", "fedora/mm">>   /\ DeployerPlan(b)[15] = <<"may", "fedora/mm">>
        /\ DeployerPlan(b)[16] = <<"claim", b>> /\ DeployerPlan(b)[17] = <<"write", b>>
    BY <1>5 DEF DeployerPlan
  <2>4. b \in Asked
    BY <1>1, <1>2, <1>5, VendorsAssumption
  <2>5. \A k \in 1..21 : DeployerPlan(b)[k][1] = "claim" =>
          DeployerPlan(b)[k][2] \in Free \union {"fedora/shim", "fedora/grub", "fedora/mm", b}
    BY <1>5 DEF DeployerPlan
  <2>6. ASSUME NEW k \in 1..21, DeployerPlan(b)[k][1] \in {"write", "may", "fill"},
               DeployerPlan(b)[k][2] \in ByClaim
        PROVE  \E j \in 1..21 : j < k /\ DeployerPlan(b)[j] = <<"claim", DeployerPlan(b)[k][2]>>
    <3>1. k \in {13, 14, 15, 17}
      BY <1>1, <2>2, <2>6
    <3> QED BY <2>3, <3>1
  <2> HIDE DEF Free
  <2> QED BY <1>1, <1>2, <2>1, <2>2, <2>4, <2>5, <2>6 DEF PlanClaims
<1> QED BY <1>3, <1>4, <1>5

\* A command, and the claim it makes, leave a plan that claims what it writes.
LEMMA TailPlanClaims ==
    ASSUME dplan \in Seq(Ops \X File), PlanClaims, dplan # <<>>, dplan' = Tail(dplan),
           Claims \subseteq Claims', Head(dplan)[1] = "claim" => Target \in Claims'
    PROVE  PlanClaims'
<1>1. /\ Len(dplan') = Len(dplan) - 1 /\ Len(dplan) \in Nat
      /\ \A i \in 1..Len(dplan') : i + 1 \in 1..Len(dplan) /\ dplan'[i] = dplan[i + 1]
      /\ dplan[1] = Head(dplan)
  OBVIOUS
<1>2. ASSUME NEW i \in 1..Len(dplan'), dplan'[i][1] \in {"write", "may", "fill"}, dplan'[i][2] \in ByClaim
      PROVE  \/ dplan'[i][2] \in Claims'
             \/ \E j \in 1..Len(dplan') : j < i /\ dplan'[j] = <<"claim", dplan'[i][2]>>
  <2>1. CASE dplan'[i][2] \in Claims
    BY <2>1
  <2>2. CASE \E j \in 1..Len(dplan) : j < i + 1 /\ dplan[j] = <<"claim", dplan'[i][2]>>
    <3>1. PICK j \in 1..Len(dplan) : j < i + 1 /\ dplan[j] = <<"claim", dplan'[i][2]>>
      BY <2>2
    <3>2. CASE j = 1
      BY <1>1, <3>1, <3>2 DEF Target
    <3>3. CASE j > 1
      <4>1. j - 1 \in 1..Len(dplan') /\ j - 1 < i
        BY <1>1, <3>1, <3>3
      <4>2. dplan'[j - 1] = dplan[j]
        BY <1>1, <4>1
      <4> QED BY <3>1, <4>1, <4>2
    <3> QED BY <3>2, <3>3
  <2> QED BY <1>1, <1>2, <2>1, <2>2 DEF PlanClaims
<1>3. ASSUME NEW i \in 1..Len(dplan')
      PROVE  /\ dplan'[i][1] = "claim" => dplan'[i][2] \in ByClaim \union OwnNamespace
                                                            \union {"fedora/cfg", "redhat/cfg"}
             /\ dplan'[i][1] = "fill" => dplan'[i][2] \notin Configs
  BY <1>1 DEF PlanClaims
<1> QED BY <1>2, <1>3 DEF PlanClaims

\* What is written next is claimed.
LEMMA TargetClaimed ==
    ASSUME dplan \in Seq(Ops \X File), PlanClaims, dplan # <<>>,
           Head(dplan)[1] \in {"write", "may", "fill"}, Target \in ByClaim
    PROVE  Target \in Claims
<1>1. 1 \in 1..Len(dplan) /\ dplan[1] = Head(dplan) /\ \A j \in 1..Len(dplan) : ~(j < 1)
  OBVIOUS
<1> QED BY <1>1 DEF PlanClaims, Target

\* The first half of a write leaves the second, on a claimed file.
LEMMA FillPlanClaims ==
    ASSUME dplan \in Seq(Ops \X File), PlanClaims, dplan # <<>>, Head(dplan)[1] \in {"write", "may"},
           UNCHANGED manifest, Target \notin Configs, Target \in ByClaim => Target \in Claims,
           dplan' = <<<<"fill", Target>>>> \o Tail(dplan)
    PROVE  PlanClaims'
<1>1. /\ Len(dplan') = Len(dplan) /\ Len(dplan) \in Nat /\ dplan'[1] = <<"fill", Target>>
      /\ dplan[1] = Head(dplan)
      /\ \A i \in 1..Len(dplan) : i > 1 => dplan'[i] = dplan[i]
  <2>1. /\ Tail(dplan) \in Seq(Ops \X File) /\ Len(Tail(dplan)) = Len(dplan) - 1
        /\ \A i \in 1..Len(Tail(dplan)) : Tail(dplan)[i] = dplan[i + 1]
    OBVIOUS
  <2>2. /\ Len(dplan') = Len(Tail(dplan)) + 1 /\ dplan'[1] = <<"fill", Target>>
        /\ \A i \in 2..Len(dplan') : dplan'[i] = Tail(dplan)[i - 1]
    BY <2>1
  <2>3. ASSUME NEW i \in 1..Len(dplan), i > 1 PROVE dplan'[i] = dplan[i]
    <3>1. i - 1 \in 1..Len(Tail(dplan)) /\ i \in 2..Len(dplan')
      BY <2>1, <2>2, <2>3
    <3>2. Tail(dplan)[i - 1] = dplan[(i - 1) + 1] /\ (i - 1) + 1 = i
      BY <2>1, <3>1
    <3> QED BY <2>2, <3>1, <3>2
  <2> QED BY <2>1, <2>2, <2>3
<1>2. ASSUME NEW i \in 1..Len(dplan')
      PROVE  /\ dplan'[i][1] = "claim" => dplan'[i][2] \in ByClaim \union OwnNamespace
                                                            \union {"fedora/cfg", "redhat/cfg"}
             /\ dplan'[i][1] = "fill" => dplan'[i][2] \notin Configs
  <2>1. CASE i = 1
    BY <1>1, <2>1
  <2>2. CASE i > 1
    BY <1>1, <2>2 DEF PlanClaims
  <2> QED BY <2>1, <2>2
<1>3. ASSUME NEW i \in 1..Len(dplan'), dplan'[i][1] \in {"write", "may", "fill"}, dplan'[i][2] \in ByClaim
      PROVE  \/ dplan'[i][2] \in Claims'
             \/ \E j \in 1..Len(dplan') : j < i /\ dplan'[j] = <<"claim", dplan'[i][2]>>
  <2>1. CASE i = 1
    BY <1>1, <1>3, <2>1 DEF Claims
  <2>2. CASE i > 1
    <3>1. dplan'[i] = dplan[i] /\ i \in 1..Len(dplan)
      BY <1>1, <2>2
    <3>2. CASE dplan[i][2] \in Claims
      BY <3>1, <3>2 DEF Claims
    <3>3. CASE \E j \in 1..Len(dplan) : j < i /\ dplan[j] = <<"claim", dplan[i][2]>>
      <4>1. PICK j \in 1..Len(dplan) : j < i /\ dplan[j] = <<"claim", dplan[i][2]>>
        BY <3>3
      <4>2. j # 1
        BY <1>1, <4>1
      <4>3. dplan'[j] = dplan[j] /\ j \in 1..Len(dplan')
        BY <1>1, <4>1, <4>2
      <4> QED BY <3>1, <4>1, <4>3
    <3> QED BY <1>3, <3>1, <3>2, <3>3 DEF PlanClaims
  <2>3. i = 1 \/ i > 1
    OBVIOUS
  <2> QED BY <2>1, <2>2, <2>3
<1> QED BY <1>2, <1>3 DEF PlanClaims

\* No step loses track of a file.
LEMMA TrackedStep == Sole /\ NoLeftover /\ TypeInv /\ Tracked /\ [Next]_vars => Tracked'
<1> SUFFICES ASSUME Sole, NoLeftover, TypeInv, Tracked, [Next]_vars PROVE Tracked'
  OBVIOUS
<1>a. /\ Sole /\ ~SmallWritesTear /\ NoLeftover /\ \A p, q \in Proc : p = q
      /\ file \in [File -> Owners] /\ pc \in [Proc -> {"idle", "marker", "guard", "stage", "persist",
                                      "sync", "rename", "write", "fill", "remove"}]
      /\ todo \in [Proc -> Seq(File)] /\ snap \in [Proc -> SUBSET File]
      /\ mode \in [Proc -> Modes] /\ dplan \in Seq(Ops \X File) /\ cleaned \in BOOLEAN
      /\ \A p \in Proc : pc[p] \in {"persist", "sync", "rename", "write", "fill"} => todo[p] # <<>>
      /\ Attributed /\ Turns /\ PlanClaims /\ CleanupIsComplete /\ \A p \in Proc : PlaceOf(p)
      /\ TypeInv
  BY DEF TypeInv, EspTyped, ProcTyped, RestTyped, FlagsTyped, Sole, Tracked, Claiming
<1>b. \A p \in Proc : machine = "windows" /\ pc[p] # "idle" => ~cleaned
  BY <1>a DEF Turns
<1>e. ASSUME NEW p \in Proc, machine = "windows", UNCHANGED <<machine, dplan>>, Attributed', PlaceOf(p)',
             cleaned' => pc'[p] = "idle" /\ CleanupIsComplete'
      PROVE  Tracked'
  <2>1. dplan' = <<>>
    BY <1>a, <1>e DEF Turns
  <2>2. \A q \in Proc : q = p
    BY <1>a
  <2> QED BY <1>e, <2>1, <2>2, EmptyPlan DEF Tracked, Claiming, Turns, CleanupIsComplete
<1>c. ASSUME NEW p \in Proc, machine = "windows", UNCHANGED <<file, manifest, machine, dplan>>,
             PlaceOf(p)', ~cleaned'
      PROVE  Tracked'
  BY <1>a, <1>c, <1>e DEF Attributed, Owned, Claims
<1>d. ASSUME NEW p \in Proc, machine = "windows", UNCHANGED <<file, manifest, machine, dplan, cleaned>>,
             pc[p] # "idle", Stop({p})
      PROVE  Tracked'
  <2>1. pc'[p] = "idle" /\ todo'[p] = <<>> /\ ~cleaned'
    BY <1>b, <1>d DEF Stop
  <2>2. PlaceOf(p)'
    BY <2>1 DEF PlaceOf, Staging
  <2> QED BY <1>c, <1>d, <2>1, <2>2
<1>f. ASSUME machine = "deployer", UNCHANGED <<procVars, cleaned>>, Attributed', PlanClaims',
             machine' = "windows" => dplan' = <<>>
      PROVE  Tracked'
  <2>1. ~cleaned' /\ \A p \in Proc : pc'[p] = "idle"
    BY <1>a, <1>f DEF Turns, procVars
  <2> QED BY <1>f, <2>1 DEF Tracked, Claiming, PlaceOf, Staging, Turns, CleanupIsComplete
<1>1. ASSUME NEW p \in Proc, StartInstall(p) PROVE Tracked'
  <2>1. pc'[p] = "marker" /\ cleaned' = FALSE /\ machine = "windows" /\ pc[p] = "idle"
    BY <1>1, <1>a DEF StartInstall, At, Goto
  <2> QED BY <1>1, <1>c, <2>1 DEF StartInstall, PlaceOf, Staging, espVars
<1>2. ASSUME NEW p \in Proc, CheckMarker(p) PROVE Tracked'
  <2>1. CASE Refuse(p)
    BY <1>2, <1>d, <2>1 DEF CheckMarker, Refuse, At, espVars
  <2>2. CASE Goto(p, "guard") /\ todo' = [todo EXCEPT ![p] = GuardList(mode[p])]
    <3>1. pc'[p] = "guard" /\ todo'[p] = GuardList(mode[p]) /\ ~cleaned
      BY <1>2, <1>a, <1>b, <2>2 DEF CheckMarker, At, Goto
    <3>2. PlaceOf(p)'
      BY <3>1, ListsAreOurs DEF PlaceOf, Staging
    <3> QED BY <1>2, <1>c, <3>1, <3>2 DEF CheckMarker, At, espVars
  <2> QED BY <1>2, <2>1, <2>2 DEF CheckMarker
<1>3. ASSUME NEW p \in Proc, GuardFile(p) PROVE Tracked'
  <2>1. CASE Refuse(p)
    BY <1>3, <1>d, <2>1 DEF GuardFile, Refuse, At, espVars
  <2>2. CASE Advance(p) /\ UNCHANGED <<pc, readVars>>
    <3>1. pc'[p] = "guard" /\ Elems(todo'[p]) \subseteq Elems(todo[p]) /\ ~cleaned
      BY <1>3, <1>a, <1>b, <2>2, TailElems DEF GuardFile, At, Advance
    <3>2. PlaceOf(p)'
      BY <1>3, <1>a, <3>1 DEF GuardFile, At, PlaceOf
    <3> QED BY <1>3, <1>c, <2>2, <3>1, <3>2 DEF GuardFile, At, espVars
  <2> QED BY <1>3, <2>1, <2>2 DEF GuardFile
<1>4. ASSUME NEW p \in Proc, GuardEnds(p) PROVE Tracked'
  <2>1. CASE Refuse(p)
    BY <1>4, <1>d, <2>1 DEF GuardEnds, Refuse, At, espVars
  <2>2. CASE Goto(p, "stage") /\ todo' = [todo EXCEPT ![p] = StagePlan(mode[p])]
    <3>1. pc'[p] = "stage" /\ todo'[p] = StagePlan(mode[p]) /\ mode'[p] = mode[p] /\ ~cleaned
      BY <1>4, <1>a, <1>b, <2>2 DEF GuardEnds, At, Goto
    <3>2. PlaceOf(p)'
      BY <3>1, ListsAreOurs DEF PlaceOf, Staging
    <3> QED BY <1>4, <1>c, <3>1, <3>2 DEF GuardEnds, At, espVars
  <2> QED BY <1>4, <2>1, <2>2 DEF GuardEnds
<1>5. ASSUME NEW p \in Proc, StageFile(p) PROVE Tracked'
  <2>1. /\ pc[p] = "stage" /\ todo[p] # <<>> /\ ~cleaned /\ machine = "windows"
        /\ UNCHANGED <<espVars, machine, dplan, mode, todo, cleaned>>
    BY <1>5, <1>b DEF StageFile, At
  <2>2. tmp = <<>>
    BY <1>a, <2>1 DEF NoLeftover
  <2>3. Current(p) \in Elems(todo[p])
    BY <1>a, <2>1, HeadElem DEF Current
  <2>4. CASE /\ snap' = [snap EXCEPT ![p] = Claims \union {Current(p)}]
             /\ Goto(p, "persist")
    <3>1. pc'[p] = "persist" /\ snap'[p] = Claims \union {Current(p)}
      BY <1>a, <2>4 DEF Goto
    <3>2. PlaceOf(p)'
      BY <1>a, <2>1, <2>2, <3>1 DEF PlaceOf, Staging, Current, Claims, espVars
    <3> QED BY <1>c, <2>1, <3>2, <3>1 DEF espVars
  <2>5. CASE Current(p) \notin Staged(mode[p]) /\ Goto(p, "write") /\ UNCHANGED snap
    <3>1. pc'[p] = "write"
      BY <1>a, <2>5 DEF Goto
    <3>2. Current(p) \notin ByClaim
      BY <1>a, <2>1, <2>3, <2>5 DEF PlaceOf, Staging
    <3>3. PlaceOf(p)'
      BY <1>a, <2>1, <3>1, <3>2 DEF PlaceOf, Staging, Current
    <3> QED BY <1>c, <2>1, <3>1, <3>3 DEF espVars
  <2> QED BY <1>5, <2>4, <2>5 DEF StageFile
<1>6. ASSUME NEW p \in Proc, SkipOptional(p) PROVE Tracked'
  <2>1. /\ pc'[p] = "stage" /\ Elems(todo'[p]) \subseteq Elems(todo[p]) /\ ~cleaned
        /\ mode'[p] = mode[p]
    BY <1>6, <1>a, <1>b, TailElems DEF SkipOptional, At, Advance
  <2>2. PlaceOf(p)'
    BY <1>6, <1>a, <2>1 DEF SkipOptional, At, PlaceOf, Staging
  <2> QED BY <1>6, <1>c, <2>1, <2>2 DEF SkipOptional, At, espVars
<1>7. ASSUME NEW p \in Proc, StageEnds(p) PROVE Tracked'
  BY <1>7, <1>d DEF StageEnds, At, espVars
<1>8. ASSUME NEW p \in Proc, Persist(p) PROVE Tracked'
  <2>1. /\ pc[p] = "persist" /\ todo[p] # <<>> /\ ~cleaned /\ machine = "windows"
        /\ UNCHANGED <<file, manifest, machine, dplan, mode, todo, snap, cleaned>>
        /\ Claims \union {Current(p)} \subseteq snap[p] /\ tmp \in {<<>>, <<snap[p]>>}
        /\ ~SmallWritesTear
    BY <1>8, <1>a, <1>b DEF Persist, At, PlaceOf, readVars
  <2>2. CASE Landed(p) /\ Goto(p, "write")
    <3>1. pc'[p] = "write" /\ Claims = snap[p]
      BY <1>a, <2>2 DEF Goto, Landed, Claims
    <3>2. PlaceOf(p)'
      BY <1>a, <2>1, <3>1 DEF PlaceOf, Staging, Current, Claims
    <3> QED BY <1>c, <2>1, <3>1, <3>2
  <2>3. CASE UNCHANGED tmp /\ Goto(p, "rename")
    <3>1. pc'[p] = "rename"
      BY <1>a, <2>3 DEF Goto
    <3>2. PlaceOf(p)'
      BY <1>a, <2>1, <2>3, <3>1 DEF PlaceOf, Staging, Current, Claims
    <3> QED BY <1>c, <2>1, <3>1, <3>2
  <2>4. CASE tmp' = <<>> /\ Goto(p, "sync")
    <3>1. pc'[p] = "sync"
      BY <1>a, <2>4 DEF Goto
    <3>2. PlaceOf(p)'
      BY <1>a, <2>1, <2>4, <3>1 DEF PlaceOf, Staging, Current, Claims
    <3> QED BY <1>c, <2>1, <3>1, <3>2
  <2> QED BY <1>8, <2>1, <2>2, <2>3, <2>4 DEF Persist
<1>9. ASSUME NEW p \in Proc, SyncTmp(p) PROVE Tracked'
  <2>1. /\ pc[p] = "sync" /\ pc'[p] = "rename" /\ ~cleaned /\ tmp' = <<snap[p]>>
        /\ UNCHANGED <<file, manifest, machine, dplan, mode, todo, snap, cleaned>>
    BY <1>9, <1>a, <1>b DEF SyncTmp, At, Goto, readVars
  <2>2. PlaceOf(p)'
    BY <1>a, <2>1 DEF PlaceOf, Staging, Current, Claims
  <2> QED BY <1>9, <1>c, <2>1, <2>2 DEF SyncTmp, At
<1>10. ASSUME NEW p \in Proc, Rename(p) PROVE Tracked'
  <2>1. /\ pc[p] = "rename" /\ pc'[p] = "write" /\ ~cleaned /\ machine = "windows"
        /\ tmp' = <<>> /\ Claims' = snap[p]
        /\ UNCHANGED <<file, machine, dplan, mode, todo, snap, cleaned>>
        /\ Claims \union {Current(p)} \subseteq snap[p]
    BY <1>10, <1>a, <1>b DEF Rename, At, Goto, MoveTmp, PlaceOf, Claims, readVars
  <2>2. PlaceOf(p)'
    BY <1>a, <2>1 DEF PlaceOf, Staging, Current
  <2>3. Attributed'
    BY <1>a, <2>1 DEF Attributed, Owned
  <2> QED BY <1>e, <2>1, <2>2, <2>3
<1>11. ASSUME NEW p \in Proc, RenameFails(p) PROVE Tracked'
  <2>1. /\ pc[p] = "rename" /\ pc'[p] = "persist" /\ ~cleaned /\ machine = "windows"
        /\ tmp' \in {<<>>, <<snap[p]>>} /\ Claims' \in {Claims, snap[p]}
        /\ UNCHANGED <<file, machine, dplan, mode, todo, snap, cleaned>>
        /\ Claims \union {Current(p)} \subseteq snap[p]
    BY <1>11, <1>a, <1>b DEF RenameFails, At, Goto, MoveTmp, PlaceOf, Claims, readVars
  <2>2. PlaceOf(p)'
    BY <1>a, <2>1 DEF PlaceOf, Staging, Current
  <2>3. Attributed'
    BY <1>a, <2>1 DEF Attributed, Owned
  <2> QED BY <1>e, <2>1, <2>2, <2>3
<1>12. ASSUME NEW p \in Proc, PersistGivesUp(p) PROVE Tracked'
  BY <1>12, <1>d DEF PersistGivesUp, At
<1>13. ASSUME NEW p \in Proc, WriteFile(p) PROVE Tracked'
  <2>1. /\ pc[p] = "write" /\ todo[p] # <<>> /\ ~cleaned /\ machine = "windows" /\ ~SmallWritesTear
        /\ UNCHANGED <<manifest, tmp, machine, dplan, mode, snap, cleaned>>
    BY <1>13, <1>a, <1>b DEF WriteFile, At, readVars
  <2>2. Current(p) \in File /\ (Current(p) \in ByClaim => Current(p) \in Claims)
    BY <1>a, <2>1 DEF PlaceOf, Current
  <2>3. CASE /\ file' = [file EXCEPT ![Current(p)] = "wootc"]
             /\ Advance(p) /\ Goto(p, "stage")
    <3>1. pc'[p] = "stage" /\ Elems(todo'[p]) \subseteq Elems(todo[p])
      BY <1>a, <2>1, <2>3, TailElems DEF Advance, Goto
    <3>2. Attributed'
      BY <1>a, <2>1, <2>2, <2>3 DEF Attributed, Owned, Claims
    <3>3. PlaceOf(p)'
      BY <1>a, <2>1, <3>1 DEF PlaceOf, Staging
    <3> QED BY <1>e, <2>1, <3>1, <3>2, <3>3
  <2>4. CASE /\ file' = [file EXCEPT ![Current(p)] = "torn"] /\ Current(p) \notin Configs
             /\ Goto(p, "fill") /\ UNCHANGED todo
    <3>1. pc'[p] = "fill"
      BY <1>a, <2>4 DEF Goto
    <3>2. Attributed'
      BY <1>a, <2>1, <2>2, <2>4 DEF Attributed, Owned, Claims
    <3>3. PlaceOf(p)'
      BY <1>a, <2>1, <2>2, <2>4, <3>1 DEF PlaceOf, Staging, Current, Claims
    <3> QED BY <1>e, <2>1, <3>1, <3>2, <3>3
  <2> QED BY <1>13, <2>1, <2>3, <2>4 DEF WriteFile
<1>14. ASSUME NEW p \in Proc, FillFile(p) PROVE Tracked'
  <2>1. /\ pc[p] = "fill" /\ todo[p] # <<>> /\ ~cleaned /\ machine = "windows"
        /\ UNCHANGED <<manifest, tmp, machine, dplan, mode, snap, cleaned>>
        /\ pc'[p] = "stage" /\ Elems(todo'[p]) \subseteq Elems(todo[p])
    BY <1>14, <1>a, <1>b, TailElems DEF FillFile, At, Goto, Advance, readVars
  <2>2. Current(p) \in File /\ (Current(p) \in ByClaim => Current(p) \in Claims)
    BY <1>a, <2>1 DEF PlaceOf, Current
  <2>3. Attributed'
    BY <1>14, <1>a, <2>1, <2>2 DEF FillFile, Attributed, Owned, Claims
  <2>4. PlaceOf(p)'
    BY <1>a, <2>1 DEF PlaceOf, Staging
  <2> QED BY <1>e, <2>1, <2>3, <2>4
<1>15. ASSUME NEW p \in Proc, SetupFails(p) PROVE Tracked'
  <2>1. machine = "windows" /\ pc[p] # "idle"
    BY <1>15 DEF SetupFails
  <2> QED BY <1>15, <1>d, <2>1 DEF SetupFails, espVars
<1>16. ASSUME NEW p \in Proc, StartUninstall(p) PROVE Tracked'
  <2>1. /\ pc[p] = "idle" /\ machine = "windows" /\ cleaned' = FALSE
        /\ UNCHANGED <<espVars, machine, dplan, mode, todo>>
    BY <1>16 DEF StartUninstall, At
  <2>2. CASE UNCHANGED <<snap, pc>>
    <3>1. PlaceOf(p)'
      BY <1>a, <2>1, <2>2 DEF PlaceOf, Staging
    <3> QED BY <1>c, <2>1, <3>1 DEF espVars
  <2>3. CASE snap' = [snap EXCEPT ![p] = CleanupClaims] /\ Goto(p, "remove")
    <3>1. pc'[p] = "remove" /\ snap'[p] = CleanupClaims
      BY <1>a, <2>3 DEF Goto
    <3>2. PlaceOf(p)'
      BY <1>a, <2>1, <3>1, Attributable DEF PlaceOf, Staging, Owned, espVars
    <3> QED BY <1>c, <2>1, <3>2 DEF espVars
  <2> QED BY <1>16, <2>2, <2>3 DEF StartUninstall
<1>17. ASSUME NEW p \in Proc, RemoveFile(p) PROVE Tracked'
  <2>1. /\ pc[p] = "remove" /\ pc'[p] = "remove" /\ ~cleaned /\ machine = "windows"
        /\ UNCHANGED <<manifest, tmp, machine, dplan, todo, snap, cleaned>>
    BY <1>17, <1>a, <1>b DEF RemoveFile, At
  <2>2. \A f \in File : file'[f] = file[f] \/ file'[f] = "absent"
    BY <1>17, <1>a DEF RemoveFile
  <2>3. Attributed'
    BY <1>a, <2>1, <2>2 DEF Attributed, Owned, Claims, ByClaim, File, Configs, GrubCfgs, LoaderConfs
  <2>4. PlaceOf(p)'
    BY <1>a, <2>1, <2>2 DEF PlaceOf, Staging, Owned
  <2> QED BY <1>e, <2>1, <2>3, <2>4
<1>18. ASSUME NEW p \in Proc, CleanupFails(p) PROVE Tracked'
  BY <1>18, <1>d DEF CleanupFails, At, espVars
<1>19. ASSUME NEW p \in Proc, CleanupEnds(p) PROVE Tracked'
  <2>1. pc[p] = "remove" /\ machine = "windows" /\ UNCHANGED <<file, tmp, machine, dplan>> /\ Stop({p})
    BY <1>19 DEF CleanupEnds, At
  <2>2. CASE UNCHANGED <<manifest, cleaned>>
    BY <1>d, <2>1, <2>2
  <2>3. CASE manifest' = NoManifest /\ cleaned' = TRUE /\ ~\E f \in snap[p] : Exists(f)
    <3>1. \A f \in File \ {"entries/deployer"} : ~Owned(f)
      BY <1>a, <2>1, <2>3 DEF PlaceOf, Owned, Exists
    <3>2. Attributed'
      BY <1>a, <2>1, <3>1 DEF Attributed, Owned, ByClaim, FedoraBins, SystemdBins, File, Configs,
         GrubCfgs, LoaderConfs
    <3>3. CleanupIsComplete'
      BY <1>a, <2>1, <3>1 DEF CleanupIsComplete, Owned, Owners
    <3>4. pc'[p] = "idle" /\ todo'[p] = <<>>
      BY <2>1 DEF Stop
    <3>5. PlaceOf(p)'
      BY <3>4 DEF PlaceOf, Staging
    <3> QED BY <1>e, <2>1, <3>2, <3>3, <3>4, <3>5
  <2> QED BY <1>19, <2>2, <2>3 DEF CleanupEnds
<1>20. ASSUME NEW p \in Proc, Kill(p) PROVE Tracked'
  BY <1>20, <1>d DEF Kill, espVars
<1>21. CASE StartDeployer
  <2>1. /\ machine = "windows" /\ (\A p \in Proc : pc[p] = "idle")
        /\ UNCHANGED <<file, tmp, procVars, cleaned>> /\ Claims' = Claims /\ dplan = <<>>
        /\ ~cleaned
    <3>1. file["wootc/kernel"] = "wootc" /\ "wootc/kernel" \in File \ {"entries/deployer"}
      BY <1>21, FilesAreFiles DEF StartDeployer, DeployerBoots
    <3> QED BY <1>21, <1>a, <3>1 DEF StartDeployer, Turns, Claims, CleanupIsComplete
  <2>2. PICK b \in Vendors \union {"composefs", "systemd"} :
            \/ machine' = "deployer" /\ dplan' = DeployerPlan(b)
            \/ UNCHANGED <<machine, dplan>>
    BY <1>21 DEF StartDeployer
  <2>3. PlanClaims'
    BY <2>1, <2>2, DeployerPlanClaims, EmptyPlan
  <2> QED BY <1>a, <2>1, <2>2, <2>3 DEF procVars, readVars, Tracked, Attributed, Owned,
      Claiming, PlaceOf, Staging, Turns, CleanupIsComplete
<1>22. CASE DeployerClaims
  <2>1. /\ machine = "deployer" /\ dplan # <<>> /\ Head(dplan) = <<"claim", Target>>
        /\ UNCHANGED <<file, tmp, procVars, cleaned>>
        /\ \/ DeployerOff /\ Claims' = Claims
           \/ NextCommand /\ Claims' = Claims \union {Target}
    BY <1>22, <1>a DEF DeployerClaims, Command, Target, Claims
  <2>2. Attributed'
    BY <1>a, <2>1 DEF Attributed, Owned
  <2>3. PlanClaims'
    BY <1>a, <2>1, EmptyPlan, TailPlanClaims DEF DeployerOff, NextCommand
  <2> QED BY <1>f, <2>1, <2>2, <2>3 DEF DeployerOff, NextCommand
<1>23. CASE DeployerRemoves
  <2>1. /\ machine = "deployer" /\ dplan # <<>> /\ Head(dplan)[1] # "claim"
        /\ NextCommand /\ UNCHANGED <<manifest, tmp, procVars, cleaned>> /\ Target \in File
    BY <1>23, <1>a DEF DeployerRemoves, Command, Target
  <2>2. PlanClaims'
    BY <1>a, <2>1, TailPlanClaims DEF NextCommand, Claims
  <2>3. Attributed'
    BY <1>23, <1>a, <2>1 DEF DeployerRemoves, Attributed, Owned, Claims, ByClaim, File, Configs, GrubCfgs,
       LoaderConfs
  <2> QED BY <1>f, <2>1, <2>2, <2>3 DEF NextCommand, Claims
<1>24. CASE DeployerWrites
  <2>1. /\ machine = "deployer" /\ dplan # <<>> /\ Head(dplan)[1] \in {"write", "may"}
        /\ UNCHANGED <<manifest, tmp, procVars, cleaned, machine>> /\ Target \in File
        /\ ~SmallWritesTear
    BY <1>24, <1>a DEF DeployerWrites, Command, Target, NextCommand
  <2>2. Target \in ByClaim => Target \in Claims
    BY <1>a, <2>1, TargetClaimed
  <2>3. CASE file' = [file EXCEPT ![Target] = "wootc"] /\ NextCommand
    <3>1. PlanClaims'
      BY <1>a, <2>1, <2>3, TailPlanClaims DEF NextCommand, Claims
    <3>2. Attributed'
      BY <1>a, <2>1, <2>2, <2>3 DEF Attributed, Owned, Claims
    <3> QED BY <1>f, <2>1, <3>1, <3>2 DEF Claims
  <2>4. CASE /\ file' = [file EXCEPT ![Target] = "torn"] /\ Target \notin Configs
             /\ dplan' = <<<<"fill", Target>>>> \o Tail(dplan)
    <3>1. PlanClaims'
      BY <1>a, <2>1, <2>2, <2>4, FillPlanClaims DEF Claims
    <3>2. Attributed'
      BY <1>a, <2>1, <2>2, <2>4 DEF Attributed, Owned, Claims
    <3> QED BY <1>f, <2>1, <3>1, <3>2 DEF Claims
  <2> QED BY <1>24, <2>1, <2>3, <2>4 DEF DeployerWrites
<1>25. CASE DeployerFills
  <2>1. /\ machine = "deployer" /\ dplan # <<>> /\ Head(dplan)[1] # "claim"
        /\ NextCommand /\ UNCHANGED <<manifest, tmp, procVars, cleaned>> /\ Target \in File
    BY <1>25, <1>a DEF DeployerFills, Command, Target
  <2>2. PlanClaims'
    BY <1>a, <2>1, TailPlanClaims DEF NextCommand, Claims
  <2>3. Target \in ByClaim => Target \in Claims
    BY <1>25, <1>a, <2>1, TargetClaimed DEF DeployerFills, Command
  <2>4. Attributed'
    BY <1>25, <1>a, <2>1, <2>3 DEF DeployerFills, Attributed, Owned, Claims
  <2> QED BY <1>f, <2>1, <2>2, <2>4 DEF NextCommand, Claims
<1>26. CASE DeployerSkips
  <2>1. /\ machine = "deployer" /\ dplan # <<>> /\ Head(dplan)[1] # "claim"
        /\ NextCommand /\ UNCHANGED <<file, manifest, tmp, procVars, cleaned>> /\ Target \in File
    BY <1>26, <1>a DEF DeployerSkips, Command, Target, espVars
  <2>2. PlanClaims'
    BY <1>a, <2>1, TailPlanClaims DEF NextCommand, Claims
  <2>3. Attributed'
    BY <1>a, <2>1 DEF Attributed, Owned, Claims
  <2> QED BY <1>f, <2>1, <2>2, <2>3 DEF NextCommand, Claims
<1>27. CASE DeployerRestores
  <2>1. /\ machine = "deployer" /\ DeployerOff /\ UNCHANGED <<manifest, tmp, procVars, cleaned>>
    BY <1>27 DEF DeployerRestores, Command
  <2>2. \A f \in File : f \notin Payload => file'[f] = file[f]
    BY <1>27 DEF DeployerRestores, Payload
  <2>3. /\ \A f \in ByClaim \union Configs : f \in File /\ f \notin Payload
    BY FilesAreFiles DEF ByClaim, Configs, GrubCfgs, LoaderConfs, FedoraBins, SystemdBins, Payload
  <2>4. Attributed'
    BY <1>a, <2>1, <2>2, <2>3 DEF Attributed, Owned, Claims
  <2> QED BY <1>f, <2>1, <2>4, EmptyPlan DEF DeployerOff, Claims
<1>28. CASE DeployerExits
  <2>1. /\ machine = "deployer" /\ DeployerOff /\ UNCHANGED <<espVars, procVars, cleaned>>
    BY <1>28 DEF DeployerExits
  <2>2. Attributed'
    BY <1>a, <2>1 DEF Attributed, Owned, Claims, espVars
  <2> QED BY <1>f, <2>1, <2>2, EmptyPlan DEF DeployerOff, Claims, espVars
<1>29. CASE PowerCut
  <2>1. /\ UNCHANGED <<espVars, cleaned>> /\ machine' = "windows" /\ dplan' = <<>>
        /\ \A p \in Proc : pc'[p] = "idle"
    BY <1>29 DEF PowerCut, DeployerOff, Stop
  <2> QED BY <1>a, <2>1, EmptyPlan DEF Tracked, Attributed, Owned, Claims, Claiming, PlaceOf, Staging,
      Turns, CleanupIsComplete, espVars
<1>30. CASE UNCHANGED vars
  BY <1>30, <1>a DEF vars, espVars, procVars, readVars, Tracked, Attributed, Owned, Claims, Claiming, PlaceOf,
     Current, Turns, PlanClaims, CleanupIsComplete
<1> QED BY <1>1, <1>2, <1>3, <1>4, <1>5, <1>6, <1>7, <1>8, <1>9, <1>10, <1>11,
    <1>12, <1>13, <1>14, <1>15, <1>16, <1>17, <1>18, <1>19, <1>20, <1>21,
    <1>22, <1>23, <1>24, <1>25, <1>26, <1>27, <1>28, <1>29, <1>30 DEF Next,
    InstallStep, UninstallStep, DeployerStep

\* A partition on which wootc has just been started.
LEMMA TrackedInit == Sole /\ Init => Tracked
<1> SUFFICES ASSUME Sole, Init PROVE Tracked
  OBVIOUS
<1>1. \A f \in File : file[f] \in {"absent", "foreign"}
  <2>1. ~Legacy
    BY DEF Sole
  <2>2. PICK F \in ForeignSets :
          \E L \in {{}} : file = [f \in File |-> IF f \in F THEN "foreign" ELSE IF f \in L THEN "wootc" ELSE "absent"]
    BY <2>1 DEF Init
  <2> QED BY <2>2
<1>2. Attributed
  BY <1>1, FilesAreFiles DEF Attributed, Owned, ByClaim, FedoraBins, SystemdBins, Configs, GrubCfgs,
     LoaderConfs
<1>3. (\A p \in Proc : pc[p] = "idle") /\ machine = "windows" /\ dplan = <<>> /\ ~cleaned
  BY DEF Init
<1> QED BY <1>2, <1>3 DEF Tracked, Claiming, PlaceOf, Staging, Turns, PlanClaims, CleanupIsComplete

\* esp_cleanup.go:180-190: a cleanup that reports success was complete, wherever
\* earlier installs, deployments and cleanups were cut, as long as no temporary
\* manifest is left behind.
THEOREM CleanupStaysComplete ==
    ASSUME Sole PROVE Spec /\ []NoLeftover => []CleanupIsComplete
<1>1. Init => TypeInv /\ Tracked
  BY TypeInit, TrackedInit
<1>2. TypeInv /\ Tracked /\ NoLeftover /\ [Next]_vars => (TypeInv /\ Tracked)'
  BY TypeStep, TrackedStep
<1>3. Tracked => CleanupIsComplete
  BY DEF Tracked
<1> QED BY <1>1, <1>2, <1>3, PTL DEF Spec

-----------------------------------------------------------------------------
(* Nobody is refused for wootc's own files.                                *)

\* A config without the marker is another system's.
LEMMA UnmarkedIsForeign ==
    ASSUME TypeInv, Attributed, NEW f \in {"fedora/cfg", "redhat/cfg", "loader.conf"}, Exists(f), ~Marked(f)
    PROVE  file[f] = "foreign"
<1>1. f \in File /\ f \in Configs
  BY FilesAreFiles DEF Configs, GrubCfgs, LoaderConfs
<1> QED BY <1>1 DEF TypeInv, EspTyped, Owners, Attributed, Exists, Marked

\* Where esp_assert_owned_or_absent stops the deployer, the file is another system's.
LEMMA UnownedIsForeign ==
    ASSUME TypeInv, Attributed, NEW f \in ByClaim \union OwnNamespace \union {"fedora/cfg", "redhat/cfg"},
           ~OwnedOrAbsent(f)
    PROVE  f \in File /\ file[f] = "foreign"
<1>1. f \in File
  BY FilesAreFiles DEF ByClaim, FedoraBins, SystemdBins, OwnNamespace, Payload
<1>2. CASE f \in ByClaim
  BY <1>1, <1>2 DEF OwnedOrAbsent, Exists, Attributed, Owned, TypeInv, EspTyped, Owners
<1>3. CASE f \in {"fedora/cfg", "redhat/cfg"}
  <2>1. Exists(f) /\ ~Marked(f)
    BY <1>3 DEF OwnedOrAbsent
  <2> QED BY <1>1, <1>3, <2>1, UnmarkedIsForeign
<1>4. CASE f \in OwnNamespace
  BY <1>4 DEF OwnedOrAbsent
<1> QED BY <1>2, <1>3, <1>4

\* Every refusal has seen another system's file, and that file stays.
LEMMA RefusalStep ==
    SafeInv /\ Tracked /\ NoSelfLockout /\ [Next]_vars => NoSelfLockout'
<1> SUFFICES ASSUME SafeInv, Tracked, NoSelfLockout, [Next]_vars PROVE NoSelfLockout'
  OBVIOUS
<1>a. /\ todo \in [Proc -> Seq(File)] /\ dplan \in Seq(Ops \X File) /\ TypeInv
      /\ file \in [File -> Owners]
      /\ Attributed /\ PlanClaims /\ \A p \in Proc : PlaceOf(p)
  BY DEF SafeInv, TypeInv, EspTyped, ProcTyped, RestTyped, Tracked, Claiming
<1> USE <1>a
<1>c. ASSUME \E f \in File : file[f] = "foreign" PROVE NoSelfLockout'
  BY <1>c, ForeignStep DEF SameForeign, NoSelfLockout
<1>b. ASSUME UNCHANGED refused PROVE NoSelfLockout'
  BY <1>b, <1>c DEF NoSelfLockout
<1>1. ASSUME NEW p \in Proc, StartInstall(p) PROVE NoSelfLockout'
  BY <1>1, <1>b DEF StartInstall
<1>2. ASSUME NEW p \in Proc, CheckMarker(p) PROVE NoSelfLockout'
  <2>1. CASE UNCHANGED refused
    BY <1>b, <2>1
  <2>2. CASE Exists(MarkerFile(mode[p])) /\ ~Marked(MarkerFile(mode[p]))
    <3>1. MarkerFile(mode[p]) \in {"fedora/cfg", "loader.conf"}
      BY DEF MarkerFile
    <3>2. file[MarkerFile(mode[p])] = "foreign"
      BY <2>2, <3>1, UnmarkedIsForeign
    <3>3. MarkerFile(mode[p]) \in File
      BY <3>1, FilesAreFiles
    <3> QED BY <1>c, <3>2, <3>3
  <2> QED BY <1>2, <2>1, <2>2 DEF CheckMarker
<1>3. ASSUME NEW p \in Proc, GuardFile(p) PROVE NoSelfLockout'
  <2>1. CASE UNCHANGED refused
    BY <1>b, <2>1
  <2>2. CASE ~PassesGuard(p, Current(p))
    <3>1. pc[p] = "guard" /\ todo[p] # <<>>
      BY <1>3 DEF GuardFile, At
    <3>2. Current(p) \in Elems(todo[p]) /\ Current(p) \in File
      BY <1>a, <3>1, HeadElem DEF Current
    <3>3. Current(p) \in OwnNamespace \union ByClaim
      BY <1>a, <3>1, <3>2 DEF PlaceOf
    <3>4. Exists(Current(p)) /\ Current(p) \in ByClaim /\ Current(p) \notin Claims
      BY <2>2, <3>3 DEF PassesGuard
    <3>5. file[Current(p)] = "foreign"
      BY <1>a, <3>2, <3>4 DEF Attributed, Owned, Exists, Owners
    <3> QED BY <1>c, <3>2, <3>5
  <2> QED BY <1>3, <2>1, <2>2 DEF GuardFile
<1>4. ASSUME NEW p \in Proc, GuardEnds(p) PROVE NoSelfLockout'
  <2>1. CASE UNCHANGED refused
    BY <1>b, <2>1
  <2>2. CASE ForeignRedhat(p)
    BY <1>c, <2>2, UnmarkedIsForeign, FilesAreFiles DEF ForeignRedhat
  <2> QED BY <1>4, <2>1, <2>2 DEF GuardEnds
<1>5. ASSUME NEW p \in Proc, StageFile(p) PROVE NoSelfLockout'
  BY <1>5, <1>b DEF StageFile
<1>6. ASSUME NEW p \in Proc, SkipOptional(p) PROVE NoSelfLockout'
  BY <1>6, <1>b DEF SkipOptional
<1>7. ASSUME NEW p \in Proc, StageEnds(p) PROVE NoSelfLockout'
  BY <1>7, <1>b DEF StageEnds
<1>8. ASSUME NEW p \in Proc, Persist(p) PROVE NoSelfLockout'
  BY <1>8, <1>b DEF Persist
<1>9. ASSUME NEW p \in Proc, SyncTmp(p) PROVE NoSelfLockout'
  BY <1>9, <1>b DEF SyncTmp
<1>10. ASSUME NEW p \in Proc, Rename(p) PROVE NoSelfLockout'
  BY <1>10, <1>b DEF Rename
<1>11. ASSUME NEW p \in Proc, RenameFails(p) PROVE NoSelfLockout'
  BY <1>11, <1>b DEF RenameFails
<1>12. ASSUME NEW p \in Proc, PersistGivesUp(p) PROVE NoSelfLockout'
  BY <1>12, <1>b DEF PersistGivesUp
<1>13. ASSUME NEW p \in Proc, WriteFile(p) PROVE NoSelfLockout'
  BY <1>13, <1>b DEF WriteFile
<1>14. ASSUME NEW p \in Proc, FillFile(p) PROVE NoSelfLockout'
  BY <1>14, <1>b DEF FillFile
<1>15. ASSUME NEW p \in Proc, SetupFails(p) PROVE NoSelfLockout'
  BY <1>15, <1>b DEF SetupFails
<1>16. ASSUME NEW p \in Proc, StartUninstall(p) PROVE NoSelfLockout'
  BY <1>16, <1>b DEF StartUninstall
<1>17. ASSUME NEW p \in Proc, RemoveFile(p) PROVE NoSelfLockout'
  BY <1>17, <1>b DEF RemoveFile
<1>18. ASSUME NEW p \in Proc, CleanupFails(p) PROVE NoSelfLockout'
  BY <1>18, <1>b DEF CleanupFails
<1>19. ASSUME NEW p \in Proc, CleanupEnds(p) PROVE NoSelfLockout'
  BY <1>19, <1>b DEF CleanupEnds
<1>20. ASSUME NEW p \in Proc, Kill(p) PROVE NoSelfLockout'
  BY <1>20, <1>b DEF Kill
<1>21. CASE StartDeployer
  <2>1. CASE UNCHANGED refused
    BY <1>b, <2>1
  <2>2. CASE \E b \in Vendors \union {"composefs", "systemd"} :
               \E f \in DeployerGuard(b) : ~OwnedOrAbsent(f)
    <3>0. PICK b \in Vendors \union {"composefs", "systemd"} : \E f \in DeployerGuard(b) : ~OwnedOrAbsent(f)
      BY <2>2
    <3>1. PICK f \in DeployerGuard(b) : ~OwnedOrAbsent(f)
      BY <3>0
    <3>2. f \in ByClaim \union OwnNamespace \union {"fedora/cfg", "redhat/cfg"}
      BY <3>1 DEF DeployerGuard, ByClaim, OwnNamespace, Payload
    <3> QED BY <1>c, <3>1, <3>2, UnownedIsForeign
  <2> QED BY <1>21, <2>1, <2>2 DEF StartDeployer
<1>22. CASE DeployerClaims
  <2>1. CASE UNCHANGED refused
    BY <1>b, <2>1
  <2>2. CASE ~OwnedOrAbsent(Target)
    <3>1. 1 \in 1..Len(dplan) /\ dplan[1] = Head(dplan) /\ Head(dplan)[1] = "claim"
      BY <1>22, <1>a DEF DeployerClaims, Command
    <3>2. Target \in ByClaim \union OwnNamespace \union {"fedora/cfg", "redhat/cfg"}
      BY <1>a, <3>1 DEF PlanClaims, Target
    <3> QED BY <1>c, <2>2, <3>2, UnownedIsForeign
  <2> QED BY <1>22, <2>1, <2>2 DEF DeployerClaims
<1>23. CASE DeployerRemoves
  BY <1>23, <1>b DEF DeployerRemoves
<1>24. CASE DeployerWrites
  BY <1>24, <1>b DEF DeployerWrites
<1>25. CASE DeployerFills
  BY <1>25, <1>b DEF DeployerFills
<1>26. CASE DeployerSkips
  BY <1>26, <1>b DEF DeployerSkips
<1>27. CASE DeployerRestores
  BY <1>27, <1>b DEF DeployerRestores
<1>28. CASE DeployerExits
  BY <1>28, <1>b DEF DeployerExits
<1>29. CASE PowerCut
  BY <1>29, <1>b DEF PowerCut
<1>30. CASE UNCHANGED vars
  BY <1>30, <1>b DEF vars
<1> QED BY <1>1, <1>2, <1>3, <1>4, <1>5, <1>6, <1>7, <1>8, <1>9, <1>10, <1>11,
    <1>12, <1>13, <1>14, <1>15, <1>16, <1>17, <1>18, <1>19, <1>20, <1>21,
    <1>22, <1>23, <1>24, <1>25, <1>26, <1>27, <1>28, <1>29, <1>30 DEF Next,
    InstallStep, UninstallStep, DeployerStep

\* esp_ownership.go:36-47: an install or a deployment is refused only beside
\* another system's files, wherever earlier ones were cut, as long as no
\* temporary manifest is left behind.
THEOREM NobodyIsLockedOut ==
    ASSUME Sole, LoaderWithConf PROVE Spec /\ []NoLeftover => []NoSelfLockout
<1>1. Init => SafeInv /\ Tracked /\ NoSelfLockout
  BY SafeInit, TrackedInit DEF Init, NoSelfLockout
<1>2. SafeInv /\ Tracked /\ NoSelfLockout /\ NoLeftover /\ [Next]_vars
        => (SafeInv /\ Tracked /\ NoSelfLockout)'
  BY SafeStep, TrackedStep, RefusalStep DEF SafeInv
<1> QED BY <1>1, <1>2, PTL DEF Spec
=============================================================================
