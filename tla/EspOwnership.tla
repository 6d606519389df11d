----------------------------- MODULE EspOwnership -----------------------------
(***************************************************************************)
(* Who owns which file on the EFI system partition: esp_ownership.go,      *)
(* esp_cleanup.go, setupESP of installer_esp.go, and the deployer's        *)
(* wootc-esp-own.  Installer processes stage boot files, each claimed in   *)
(* the manifest EFI\wootc\wootc-owned.txt before it is created; the        *)
(* deployer, booted from those files, claims and stages the Phase-2 files; *)
(* uninstall removes what the manifest claims.  A process may be killed    *)
(* and the power may fail between any two file-system calls.               *)
(***************************************************************************)
EXTENDS Naturals, Sequences

CONSTANTS
    Proc,            \* processes of the app: no single-instance lock is taken
    Modes,           \* boot chains the user may choose
    Switching,       \* may a later install choose another chain?
    Vendors,         \* TARGET_VENDOR of the images the deployer installs
    ForeignSets,     \* what other systems may have put on this ESP before
    Legacy,          \* may a wootc that predates the manifest be installed?
    SmallWritesTear, \* can a cut truncate a file of a few hundred bytes?
    MaxRuns, MaxFaults, MaxCuts

FedoraBins  == {"fedora/shim", "fedora/grub", "fedora/mm"}
SystemdBins == {"systemd/shim", "systemd/grub", "systemd/sdboot"}
Payload     == {"wootc/kernel", "wootc/initrd", "wootc/p2kernel", "wootc/p2initrd"}
GrubCfgs    == {"fedora/cfg", "redhat/cfg", "wootc/cfg", "centos/cfg"}
LoaderConfs == {"loader.conf", "entries/deployer", "entries/wootc"}
Configs     == GrubCfgs \union LoaderConfs
File        == FedoraBins \union SystemdBins \union Payload \union Configs

\* Mutant: EFI\wootc is guarded like a directory shared with other systems.
NoNamespace == {}

\* isOwnNamespace: directories nothing but wootc writes to.
OwnNamespace == Payload \union {"wootc/cfg"}

ASSUME ModesAssumption   == Modes \subseteq {"signed", "shimmed", "plain"}
ASSUME VendorsAssumption == Vendors \subseteq {"fedora/cfg", "redhat/cfg", "centos/cfg"}
\* EFI\wootc is nobody else's, and so are entries named after the product.
ASSUME ForeignAssumption ==
    \A F \in ForeignSets :
        F \subseteq FedoraBins \union SystemdBins
                      \union {"fedora/cfg", "redhat/cfg", "centos/cfg", "loader.conf"}

VARIABLES
    file,      \* whose bytes are at each path: "torn" is a truncated wootc file
    manifest,  \* the claims on disk and whose rendering they are in
    tmp,       \* wootc-owned.txt.tmp: <<claims>>, or <<>> when there is none
    machine, dplan,            \* the deployer and the commands it has left
    pc, mode, todo,            \* per process: where it is, and the files left
    snap, ours, paths,         \* what it read: claims, marker, files to remove
    refused,   \* has an install been refused as another system's?
    cleaned,   \* did the last cleanup report success?
    runs, faults, cuts

espVars  == <<file, manifest, tmp>>
readVars == <<snap, ours, paths>>
procVars == <<pc, mode, todo, readVars>>
vars     == <<espVars, machine, dplan, procVars, refused, cleaned, runs, faults, cuts>>

Claims    == manifest.claims
Exists(f) == file[f] # "absent"
\* The "# wootc" marker is in a config wootc wrote, never in a truncated one.
Marked(f) == file[f] = "wootc"

GuardList(m) ==
    IF m = "signed"
    THEN <<"fedora/shim", "fedora/grub", "fedora/mm", "wootc/kernel", "wootc/initrd">>
    ELSE <<"systemd/shim", "systemd/grub", "systemd/sdboot", "wootc/kernel",
           "wootc/initrd">>

StagePlan(m) ==
    CASE m = "signed"  -> <<"fedora/shim", "fedora/grub", "fedora/mm", "wootc/kernel",
                            "wootc/initrd", "fedora/cfg", "redhat/cfg", "wootc/cfg">>
      [] m = "shimmed" -> <<"wootc/kernel", "wootc/initrd", "systemd/shim",
                            "systemd/grub", "loader.conf", "entries/deployer">>
      [] OTHER         -> <<"wootc/kernel", "wootc/initrd", "systemd/sdboot",
                            "loader.conf", "entries/deployer">>

\* The files that go through stageESPFile; the others are written directly.
Staged(m) == IF m = "signed" THEN FedoraBins \union {"wootc/kernel", "wootc/initrd"}
             ELSE SystemdBins

\* The config whose marker is asked for first (D1, D3).
MarkerFile(m) == IF m = "signed" THEN "fedora/cfg" ELSE "loader.conf"

-----------------------------------------------------------------------------
At(p, where)  == machine = "windows" /\ pc[p] = where
Goto(p, next) == pc' = [pc EXCEPT ![p] = next]
Current(p)    == Head(todo[p])
Fault         == faults < MaxFaults /\ faults' = faults + 1

\* A process that returns, or dies, forgets what it read.
Stop(ps) ==
    /\ pc'    = [p \in Proc |-> IF p \in ps THEN "idle" ELSE pc[p]]
    /\ todo'  = [p \in Proc |-> IF p \in ps THEN <<>> ELSE todo[p]]
    /\ snap'  = [p \in Proc |-> IF p \in ps THEN {} ELSE snap[p]]
    /\ ours'  = [p \in Proc |-> IF p \in ps THEN FALSE ELSE ours[p]]
    /\ paths' = [p \in Proc |-> IF p \in ps THEN {} ELSE paths[p]]

Advance(p) == todo' = [todo EXCEPT ![p] = Tail(@)]
Refuse(p)  == Stop({p}) /\ refused' = TRUE

StartInstall(p) ==
    /\ At(p, "idle") /\ runs < MaxRuns
    /\ runs' = runs + 1 /\ cleaned' = FALSE
    /\ \E m \in Modes :
          /\ Switching \/ m = mode[p]
          /\ mode' = [mode EXCEPT ![p] = m]
    /\ Goto(p, "marker")
    /\ UNCHANGED <<espVars, machine, dplan, todo, readVars, refused, faults, cuts>>

\* The marker check, and the two reads guardESPDestinations begins with.
CheckMarker(p) ==
    /\ At(p, "marker")
    /\ LET cfg == MarkerFile(mode[p]) IN
         \/ Exists(cfg) /\ ~Marked(cfg) /\ Refuse(p)
         \/ /\ ~Exists(cfg) \/ Marked(cfg)
            /\ Goto(p, "guard")
            /\ todo' = [todo EXCEPT ![p] = GuardList(mode[p])]
            /\ snap' = [snap EXCEPT ![p] = Claims]
            /\ ours' = [ours EXCEPT ![p] = Marked("fedora/cfg")]
            /\ UNCHANGED <<paths, refused>>
    /\ UNCHANGED <<espVars, machine, dplan, mode, cleaned, runs, faults, cuts>>

\* One destination of guardESPDestinations, the second read included.
PassesGuard(p, f) ==
    \/ ~Exists(f) \/ f \in OwnNamespace
    \/ f \in snap[p] \/ ours[p] \/ f \in Claims

GuardFile(p) ==
    /\ At(p, "guard") /\ todo[p] # <<>>
    /\ \/ ~PassesGuard(p, Current(p)) /\ Refuse(p)
       \/ PassesGuard(p, Current(p)) /\ Advance(p) /\ UNCHANGED <<pc, readVars, refused>>
    /\ UNCHANGED <<espVars, machine, dplan, mode, cleaned, runs, faults, cuts>>

\* Mutant: nobody asks whose EFI\redhat\grub.cfg is.
RedhatUnasked(p) == FALSE

\* The signed chain also writes EFI\redhat\grub.cfg (D1c).
ForeignRedhat(p) == mode[p] = "signed" /\ Exists("redhat/cfg") /\ ~Marked("redhat/cfg")

GuardEnds(p) ==
    /\ At(p, "guard") /\ todo[p] = <<>>
    /\ \/ ForeignRedhat(p) /\ Refuse(p)
       \/ /\ ~ForeignRedhat(p)
          /\ Goto(p, "stage")
          /\ todo' = [todo EXCEPT ![p] = StagePlan(mode[p])]
          /\ UNCHANGED <<readVars, refused>>
    /\ UNCHANGED <<espVars, machine, dplan, mode, cleaned, runs, faults, cuts>>

-----------------------------------------------------------------------------
(* Staging: claim, then write.                                             *)

\* recordESPOwnership reads the manifest and adds the path it will claim.
StageFile(p) ==
    /\ At(p, "stage") /\ todo[p] # <<>>
    /\ IF Current(p) \in Staged(mode[p])
       THEN /\ snap' = [snap EXCEPT ![p] = Claims \union {Current(p)}]
            /\ Goto(p, "persist")
       ELSE Goto(p, "write") /\ UNCHANGED snap
    /\ UNCHANGED <<espVars, machine, dplan, mode, todo, ours, paths, refused, cleaned,
                   runs, faults, cuts>>

\* Releases before mmx64.efi shipped have none to stage.
SkipOptional(p) ==
    /\ At(p, "stage") /\ todo[p] # <<>> /\ Current(p) = "fedora/mm"
    /\ Advance(p)
    /\ UNCHANGED <<espVars, machine, dplan, mode, pc, readVars, refused, cleaned, runs,
                   faults, cuts>>

StageEnds(p) ==
    /\ At(p, "stage") /\ todo[p] = <<>>
    /\ Stop({p})
    /\ UNCHANGED <<espVars, machine, dplan, mode, refused, cleaned, runs, faults, cuts>>

\* manifestLanded compares bytes: a manifest the deployer appended to is never
\* the app's rendering of the same claims.
Landed(p) == manifest = [claims |-> snap[p], by |-> "app"]

\* An iteration of persistManifest: done, or a temporary file to rename.  One
\* that is already there is used as it is.
Persist(p) ==
    /\ At(p, "persist")
    /\ CASE Landed(p)  -> tmp' = <<>> /\ Goto(p, "write")
         [] ~Landed(p) /\ tmp # <<>> -> UNCHANGED tmp /\ Goto(p, "rename")
         [] OTHER      -> /\ tmp' = IF SmallWritesTear THEN <<{}>> ELSE <<>>
                          /\ Goto(p, "sync")
    /\ UNCHANGED <<file, manifest, machine, dplan, mode, todo, readVars, refused,
                   cleaned, runs, faults, cuts>>

\* writeFileSynced has the bytes on the device.
SyncTmp(p) ==
    /\ At(p, "sync")
    /\ tmp' = <<snap[p]>> /\ Goto(p, "rename")
    /\ UNCHANGED <<file, manifest, machine, dplan, mode, todo, readVars, refused,
                   cleaned, runs, faults, cuts>>

\* Mutant: the temporary file is consumed and its claims land nowhere.
MoveLost == manifest' = [claims |-> tmp[1], by |-> manifest.by] /\ tmp' = <<>>

MoveTmp == manifest' = [claims |-> tmp[1], by |-> "app"] /\ tmp' = <<>>

Rename(p) ==
    /\ At(p, "rename") /\ tmp # <<>>
    /\ MoveTmp /\ Goto(p, "write")
    /\ UNCHANGED <<file, machine, dplan, mode, todo, readVars, refused, cleaned, runs,
                   faults, cuts>>

\* A rename that reports failure, whether or not the move took place.
RenameFails(p) ==
    /\ At(p, "rename")
    /\ \/ tmp = <<>> /\ UNCHANGED <<manifest, tmp, faults>>
       \/ tmp # <<>> /\ Fault /\ (MoveTmp \/ UNCHANGED <<manifest, tmp>>)
    /\ Goto(p, "persist")
    /\ UNCHANGED <<file, machine, dplan, mode, todo, readVars, refused, cleaned, runs,
                   cuts>>

PersistGivesUp(p) ==
    /\ At(p, "persist") /\ ~Landed(p) /\ Fault
    /\ tmp' = <<>> /\ Stop({p})
    /\ UNCHANGED <<file, manifest, machine, dplan, mode, refused, cleaned, runs, cuts>>

\* A write truncates, then fills.
WriteFile(p) ==
    /\ At(p, "write")
    /\ LET f == Current(p) IN
         IF f \in Configs /\ ~SmallWritesTear
         THEN file' = [file EXCEPT ![f] = "wootc"] /\ Advance(p) /\ Goto(p, "stage")
         ELSE file' = [file EXCEPT ![f] = "torn"] /\ Goto(p, "fill") /\ UNCHANGED todo
    /\ UNCHANGED <<manifest, tmp, machine, dplan, mode, readVars, refused, cleaned,
                   runs, faults, cuts>>

FillFile(p) ==
    /\ At(p, "fill")
    /\ file' = [file EXCEPT ![Current(p)] = "wootc"]
    /\ Advance(p) /\ Goto(p, "stage")
    /\ UNCHANGED <<manifest, tmp, machine, dplan, mode, readVars, refused, cleaned,
                   runs, faults, cuts>>

\* Missing assets, no space, a failing read or write: setupESP returns.
SetupFails(p) ==
    /\ machine = "windows" /\ pc[p] \in {"guard", "stage", "write", "fill"} /\ Fault
    /\ Stop({p})
    /\ UNCHANGED <<espVars, machine, dplan, mode, refused, cleaned, runs, cuts>>

-----------------------------------------------------------------------------
(* Uninstall: cleanupESPOwnedFiles.                                        *)

\* What a marked config alone attributes to wootc.
LegacyClaims ==
    Payload
    \union {f \in {"fedora/cfg", "redhat/cfg", "wootc/cfg"} : Marked(f)}
    \union (IF Marked("fedora/cfg") THEN FedoraBins ELSE {})
    \union (IF Marked("loader.conf") THEN LoaderConfs \union SystemdBins ELSE {})

\* Mutant: beside a manifest only the payload is attributed without a claim.
UnrecordedPayload == Payload

\* legacyUnrecordedProductFile: attributable beside a manifest as well.
Unrecorded == Payload \union {"fedora/cfg", "redhat/cfg", "wootc/cfg", "loader.conf"}

CleanupClaims ==
    Claims \union (IF manifest.by = "none" THEN LegacyClaims
                   ELSE LegacyClaims \intersect Unrecorded)

\* Mutant: no rule for the deployer's loader entry.
AllowedButEntry(f) == f \notin {"centos/cfg", "entries/wootc"}

\* allowedESPCleanupClaim.
Allowed(f) == f # "centos/cfg"

NoManifest == [claims |-> {}, by |-> "none"]

StartUninstall(p) ==
    /\ At(p, "idle") /\ runs < MaxRuns
    /\ runs' = runs + 1 /\ cleaned' = FALSE
    /\ IF \A f \in CleanupClaims : Allowed(f)
       THEN /\ snap'  = [snap EXCEPT ![p] = CleanupClaims]
            /\ paths' = [paths EXCEPT ![p] = {f \in CleanupClaims : Exists(f)}]
            /\ Goto(p, "remove")
       ELSE UNCHANGED <<snap, paths, pc>>
    /\ UNCHANGED <<espVars, machine, dplan, mode, todo, ours, refused, faults, cuts>>

RemoveFile(p) ==
    /\ At(p, "remove")
    /\ \E f \in paths[p] :
          /\ Exists(f)
          /\ file' = [file EXCEPT ![f] = "absent"]
          /\ paths' = [paths EXCEPT ![p] = @ \ {f}]
    /\ UNCHANGED <<manifest, tmp, machine, dplan, pc, mode, todo, snap, ours, refused,
                   cleaned, runs, faults, cuts>>

CleanupFails(p) ==
    /\ At(p, "remove")
    /\ \/ Fault
       \/ (\E f \in paths[p] : ~Exists(f)) /\ UNCHANGED faults
    /\ Stop({p})
    /\ UNCHANGED <<espVars, machine, dplan, mode, refused, cleaned, runs, cuts>>

\* The manifest goes last, and only when nothing it claims is left.
CleanupEnds(p) ==
    /\ At(p, "remove") /\ paths[p] = {}
    /\ IF \E f \in snap[p] : Exists(f)
       THEN UNCHANGED <<manifest, cleaned>>
       ELSE manifest' = NoManifest /\ cleaned' = TRUE
    /\ Stop({p})
    /\ UNCHANGED <<file, tmp, machine, dplan, mode, refused, runs, faults, cuts>>

-----------------------------------------------------------------------------
(* The deployer: deploy.sh with wootc-esp-own.                             *)

\* esp_assert_owned_or_absent.
OwnedOrAbsent(f) ==
    \/ ~Exists(f)
    \/ f \in OwnNamespace \union {"entries/wootc"}
    \/ f \in FedoraBins \union {"fedora/cfg"} /\ Marked("fedora/cfg")
    \/ f = "redhat/cfg" /\ Marked(f)
    \/ f \in Claims

\* Destinations asked for before the first change.
DeployerGuard(b) ==
    Payload \union FedoraBins \union {"fedora/cfg", "wootc/cfg", "entries/wootc"}
    \union (IF b = "composefs" THEN {"redhat/cfg"} ELSE {})

\* The commands of each branch; an ostree branch is named by its vendor config.
DeployerPlan(b) ==
    CASE b = "composefs" ->
           <<<<"claim", "wootc/p2kernel">>, <<"claim", "wootc/p2initrd">>,
             <<"remove", "wootc/initrd">>, <<"remove", "wootc/p2kernel">>,
             <<"remove", "wootc/p2initrd">>, <<"write", "wootc/p2kernel">>,
             <<"write", "wootc/p2initrd">>, <<"claim", "entries/wootc">>,
             <<"write", "entries/wootc">>, <<"remove", "entries/deployer">>,
             <<"claim", "fedora/cfg">>, <<"write", "fedora/cfg">>,
             <<"claim", "redhat/cfg">>, <<"write", "redhat/cfg">>,
             <<"claim", "wootc/cfg">>, <<"write", "wootc/cfg">>>>
      [] b = "systemd" ->
           <<<<"claim", "wootc/p2kernel">>, <<"claim", "wootc/p2initrd">>,
             <<"remove", "wootc/kernel">>, <<"remove", "wootc/initrd">>,
             <<"remove", "wootc/p2kernel">>, <<"remove", "wootc/p2initrd">>,
             <<"write", "wootc/p2kernel">>, <<"write", "wootc/p2initrd">>,
             <<"claim", "entries/wootc">>, <<"write", "entries/wootc">>,
             <<"remove", "entries/deployer">>>>
      [] OTHER ->
           <<<<"claim", "wootc/p2kernel">>, <<"claim", "wootc/p2initrd">>,
             <<"remove", "wootc/kernel">>, <<"remove", "wootc/initrd">>,
             <<"remove", "wootc/p2kernel">>, <<"remove", "wootc/p2initrd">>,
             <<"check", "wootc/p2kernel">>, <<"write", "wootc/p2kernel">>,
             <<"write", "wootc/p2initrd">>, <<"claim", "fedora/shim">>,
             <<"claim", "fedora/grub">>, <<"claim", "fedora/mm">>,
             <<"write", "fedora/shim">>, <<"write", "fedora/grub">>,
             <<"may", "fedora/mm">>, <<"claim", b>>, <<"write", b>>,
             <<"claim", "fedora/cfg">>, <<"write", "fedora/cfg">>,
             <<"claim", "wootc/cfg">>, <<"write", "wootc/cfg">>>>

\* The chain reaches the deployer when its kernel, its initramfs and one of
\* its menus are whole.
DeployerBoots ==
    /\ file["wootc/kernel"] = "wootc" /\ file["wootc/initrd"] = "wootc"
    /\ Marked("fedora/cfg") \/ file["entries/deployer"] = "wootc"

StartDeployer ==
    /\ machine = "windows" /\ runs < MaxRuns /\ \A p \in Proc : pc[p] = "idle"
    /\ DeployerBoots
    /\ runs' = runs + 1
    /\ manifest' = IF manifest.by = "none" THEN [manifest EXCEPT !.by = "deployer"]
                   ELSE manifest
    /\ \E b \in Vendors \union {"composefs", "systemd"} :
          IF \A f \in DeployerGuard(b) : OwnedOrAbsent(f)
          THEN machine' = "deployer" /\ dplan' = DeployerPlan(b) /\ UNCHANGED refused
          ELSE refused' = TRUE /\ UNCHANGED <<machine, dplan>>
    /\ UNCHANGED <<file, tmp, procVars, cleaned, faults, cuts>>

Command(op) == machine = "deployer" /\ dplan # <<>> /\ Head(dplan)[1] = op
Target      == Head(dplan)[2]
DeployerOff == machine' = "windows" /\ dplan' = <<>>
NextCommand == dplan' = Tail(dplan) /\ UNCHANGED machine

\* esp_claim_before_write.
DeployerClaims ==
    /\ Command("claim")
    /\ \/ ~OwnedOrAbsent(Target) /\ refused' = TRUE /\ DeployerOff /\ UNCHANGED manifest
       \/ /\ OwnedOrAbsent(Target) /\ NextCommand /\ UNCHANGED refused
          /\ manifest' = IF Target \in Claims THEN manifest
                         ELSE [claims |-> Claims \union {Target}, by |-> "deployer"]
    /\ UNCHANGED <<file, tmp, procVars, cleaned, runs, faults, cuts>>

DeployerRemoves ==
    /\ Command("remove") /\ NextCommand
    /\ file' = [file EXCEPT ![Target] = "absent"]
    /\ UNCHANGED <<manifest, tmp, procVars, refused, cleaned, runs, faults, cuts>>

DeployerWrites ==
    /\ Command("write") \/ Command("may")
    /\ IF Target \in Configs /\ ~SmallWritesTear
       THEN file' = [file EXCEPT ![Target] = "wootc"] /\ NextCommand
       ELSE /\ file' = [file EXCEPT ![Target] = "torn"]
            /\ dplan' = <<<<"fill", Target>>>> \o Tail(dplan) /\ UNCHANGED machine
    /\ UNCHANGED <<manifest, tmp, procVars, refused, cleaned, runs, faults, cuts>>

DeployerFills ==
    /\ Command("fill") /\ NextCommand
    /\ file' = [file EXCEPT ![Target] = "wootc"]
    /\ UNCHANGED <<manifest, tmp, procVars, refused, cleaned, runs, faults, cuts>>

\* An optional file is left out, or all the sources of a branch are there.
DeployerSkips ==
    /\ Command("may") \/ Command("check")
    /\ NextCommand
    /\ UNCHANGED <<espVars, procVars, refused, cleaned, runs, faults, cuts>>

\* A source of the ostree branch is missing: the deployer pair goes back.
DeployerRestores ==
    /\ Command("check") /\ Fault /\ DeployerOff
    /\ file' = [f \in File |->
                  CASE f \in {"wootc/kernel", "wootc/initrd"}     -> "wootc"
                    [] f \in {"wootc/p2kernel", "wootc/p2initrd"} -> "absent"
                    [] OTHER                                      -> file[f]]
    /\ UNCHANGED <<manifest, tmp, procVars, refused, cleaned, runs, cuts>>

DeployerExits ==
    /\ machine = "deployer"
    /\ \/ dplan = <<>> /\ UNCHANGED faults
       \/ dplan # <<>> /\ Fault
    /\ DeployerOff
    /\ UNCHANGED <<espVars, procVars, refused, cleaned, runs, cuts>>

-----------------------------------------------------------------------------
Cut == cuts < MaxCuts /\ cuts' = cuts + 1

Kill(p) ==
    /\ machine = "windows" /\ pc[p] # "idle" /\ Cut
    /\ Stop({p})
    /\ UNCHANGED <<espVars, machine, dplan, mode, refused, cleaned, runs, faults>>

PowerCut ==
    /\ Cut /\ DeployerOff /\ Stop(Proc)
    /\ machine = "deployer" \/ \E p \in Proc : pc[p] # "idle"
    /\ UNCHANGED <<espVars, mode, refused, cleaned, runs, faults>>

\* A wootc that predates the manifest.
LegacyFiles == {"fedora/shim", "fedora/grub", "fedora/cfg", "wootc/kernel",
                "wootc/initrd", "wootc/cfg"}

Init ==
    /\ \E F \in ForeignSets, L \in {{}} \union (IF Legacy THEN {LegacyFiles} ELSE {}) :
          /\ F \intersect (LegacyFiles \union FedoraBins) = {} \/ L = {}
          /\ file = [f \in File |-> IF f \in F THEN "foreign"
                                    ELSE IF f \in L THEN "wootc" ELSE "absent"]
    /\ manifest = NoManifest /\ tmp = <<>>
    /\ machine = "windows" /\ dplan = <<>>
    /\ pc = [p \in Proc |-> "idle"] /\ mode \in [Proc -> Modes]
    /\ todo = [p \in Proc |-> <<>>] /\ snap = [p \in Proc |-> {}]
    /\ ours = [p \in Proc |-> FALSE] /\ paths = [p \in Proc |-> {}]
    /\ refused = FALSE /\ cleaned = FALSE
    /\ runs = 0 /\ faults = 0 /\ cuts = 0

InstallStep(p) ==
    \/ StartInstall(p) \/ CheckMarker(p) \/ GuardFile(p) \/ GuardEnds(p)
    \/ StageFile(p) \/ SkipOptional(p) \/ StageEnds(p) \/ Persist(p) \/ SyncTmp(p)
    \/ Rename(p) \/ RenameFails(p) \/ PersistGivesUp(p) \/ WriteFile(p)
    \/ FillFile(p) \/ SetupFails(p)

UninstallStep(p) ==
    StartUninstall(p) \/ RemoveFile(p) \/ CleanupFails(p) \/ CleanupEnds(p)

DeployerStep ==
    \/ StartDeployer \/ DeployerClaims \/ DeployerRemoves \/ DeployerWrites
    \/ DeployerFills \/ DeployerSkips \/ DeployerRestores \/ DeployerExits

Next ==
    \/ \E p \in Proc : InstallStep(p) \/ UninstallStep(p) \/ Kill(p)
    \/ DeployerStep \/ PowerCut

Spec == Init /\ [][Next]_vars

-----------------------------------------------------------------------------
Owners == {"absent", "wootc", "torn", "foreign"}

TypeOK ==
    /\ file \in [File -> Owners]
    /\ manifest \in [claims : SUBSET File, by : {"none", "app", "deployer"}]
    /\ manifest.by = "none" => Claims = {}
    /\ tmp \in Seq(SUBSET File) /\ Len(tmp) <= 1
    /\ machine \in {"windows", "deployer"}
    /\ dplan \in Seq({"claim", "remove", "write", "may", "check", "fill"} \X File)
    /\ pc \in [Proc -> {"idle", "marker", "guard", "stage", "persist", "sync",
                        "rename", "write", "fill", "remove"}]
    /\ mode \in [Proc -> Modes] /\ todo \in [Proc -> Seq(File)]
    /\ snap \in [Proc -> SUBSET File] /\ paths \in [Proc -> SUBSET File]
    /\ ours \in [Proc -> BOOLEAN]
    /\ refused \in BOOLEAN /\ cleaned \in BOOLEAN

\* esp_ownership.go:13-23: a boot file another system put on the partition is
\* never overwritten and never removed, by install, deployer or uninstall.
ForeignKept == [][ \A f \in File : file[f] = "foreign" => file'[f] = "foreign" ]_vars

\* esp_ownership.go:36-47: wootc's own files, whole or half written, are never
\* taken for another system's; an install is refused only if there is one.
NoSelfLockout == refused => \E f \in File : file[f] = "foreign"

\* esp_cleanup.go:180-190: a cleanup that reports success has left nothing of
\* wootc's behind, except the loader entry that nothing attributes to it.
CleanupIsComplete ==
    cleaned => \A f \in File \ {"entries/deployer"} : file[f] \in {"absent", "foreign"}

\* esp_cleanup.go:207-208: whatever install or deployer claims, the cleanup
\* has a rule for; otherwise it would refuse the whole plan, every time.
ClaimsAreRemovable == \A f \in Claims : Allowed(f)
=============================================================================
