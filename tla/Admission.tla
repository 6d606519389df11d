------------------------------ MODULE Admission ------------------------------
(***************************************************************************)
(* What the engine accepts: the decoders of the native session's messages, *)
(* the install gate of app.go, install_space.go and secureboot.go, the     *)
(* selection of the one installation on this PC, and the three admissions  *)
(* (install plan, maintenance, VM) whose facts a confirmation must find    *)
(* unchanged.  Every operator is a decision over what the engine observed, *)
(* a "PC" record; a refusal is the empty set, an answer a singleton.       *)
(*                                                                         *)
(* A JSON message is [shape, keys, body]: "none" (absent or null),         *)
(* "object", "array" (its first element is the value), "empty" (the empty  *)
(* array), "text", or "bad" (too long, repeated key, null member, trailing *)
(* data, wrong type); keys are its members that are not empty.             *)
(***************************************************************************)
EXTENDS Naturals, FiniteSets

CONSTANT Build  \* what this build is: [channel, hideCustomImage, driveMode, shim]

ASSUME BuildAssumption ==
    Build \in [channel : {"alpha", "beta", "stable"}, hideCustomImage : BOOLEAN,
               driveMode : BOOLEAN, shim : SUBSET {"2011", "2023"}]

MaintenanceActions ==
    {"uninstall", "repair-boot", "restore-windows-boot", "try-again", "boot-linux"}
VMActions == {"install-runtime", "prepare", "boot", "stop", "force-stop"}

-----------------------------------------------------------------------------
(* Decoders *)

strictJSONObject(raw, allowed, required) ==
    raw.shape = "object" /\ raw.keys \subseteq allowed /\ required \subseteq raw.keys

HelloKeys == {"kind", "protocolVersion", "session", "buildId", "brandId"}

\* An unknown or repeated member is refused, a missing one only mismatches.
readNativeHandshake(raw) ==
    IF strictJSONObject(raw, HelloKeys, {}) THEN {raw.body} ELSE {}

validateNativeHandshake(hello, keys) == keys = HelloKeys /\ hello.bound

InstallKeys ==
    {"imageRef", "diskSizeGB", "username", "password", "hostname", "bootloader",
     "composeFs", "storageDrive", "encryption", "luksPassphrase", "windowsLook"}
PlanKeys == {"imageRef", "username", "password", "storageDrive", "diskSizeGB"}

decodeNativeInstallPlan(raw) ==
    IF strictJSONObject(raw, InstallKeys, PlanKeys) /\ raw.body.diskSizeGB > 0
    THEN {raw.body} ELSE {}

decodeNativeMaintenancePlan(raw) ==
    {p \in {raw.body} :
        /\ strictJSONObject(raw, {"action", "deleteRootDisk", "removePartition"}, {"action"})
        /\ p.action \in MaintenanceActions
        /\ p.action # "uninstall" => ~p.deleteRootDisk /\ ~p.removePartition}

\* A reference, an account name and a password of the right form.
validateVMInstallConfig(plan, keys) ==
    {"imageRef", "username", "password"} \subseteq keys /\ plan.wellFormed

decodeNativeVMPlan(raw) ==
    {p \in {raw.body} :
        /\ strictJSONObject(raw, {"action", "imageRef", "username", "password"}, {"action"})
        /\ p.action \in VMActions
        /\ IF p.action = "prepare" THEN validateVMInstallConfig(p, raw.keys)
                                   ELSE raw.keys = {"action"}}

ConfirmKeys == {"kind", "protocolVersion", "session", "brandId", "intentId"}

decodeNativeInstallConfirmation(raw) ==
    IF strictJSONObject(raw, ConfirmKeys, ConfirmKeys) THEN {raw.body} ELSE {}

\* params of the legacy protocol: an object, or the first of an array.
unmarshalParams(raw) == IF raw.shape \in {"object", "array"} THEN {raw.body} ELSE {}

\* Absent is the empty string; an array's first string, an object's state or
\* report, or a string; anything else is refused.
unmarshalStringParam(raw) == raw.shape \in {"none", "array", "text"}
                             \/ (raw.shape = "object" /\ raw.keys \cap {"state", "report"} # {})

-----------------------------------------------------------------------------
(* The install gate: policy, firmware, platform, free space *)

supportPolicyFor(build) ==
    LET open == build.channel \in {"beta", "stable"}
    IN  [experimentalImages |-> open \/ build.driveMode,
         bitLockerSupported |-> open,
         customImageAllowed |-> open /\ ~build.hideCustomImage]

\* Blocked only when both sides are known and have nothing in common.
checkSecureBootChain(fw, staged) ==
    /\ fw.known /\ fw.on
    /\ staged # {}
    /\ IF fw.trusted = {} THEN fw.dbRead ELSE fw.trusted \cap staged = {}

\* sys is the one system read of the whole check, pc what is read again.
gateScenarioWith(cfg, sys, pc) ==
    LET pol == supportPolicyFor(Build)
    IN  /\ pol.bitLockerSupported \/ ~sys.bitLockerOn
        /\ ~checkSecureBootChain(sys.secureBoot, Build.shim)
        /\ \/ pol.experimentalImages
           \/ cfg.imageRef \in pc.catalogue
           \/ pol.customImageAllowed

normalizeBootloader(v) ==
    IF v = "" THEN {"auto"} ELSE {b \in {"auto", "grub2", "systemd-boot"} : b = v}

\* systemd-boot needs Secure Boot off, or a chain the build can vouch for.
validatePlatformConfig(bootloader, pc) ==
    bootloader = "systemd-boot" =>
        (pc.secureBoot.known /\ ~pc.secureBoot.on) \/ pc.trustedSystemdBoot

GiB == 2                    \* compressed sizes are counted in half GiB
scratchMinGiB == 20
scratchDriveSlackGiB == 1
deployerArtifactsGiB == 1
scratchDefaultCompressed == 7 * GiB

scratchNeedGiB(compressed) ==
    LET need == (((compressed * 7) \div 2) + GiB - 1) \div GiB + 4
    IN  IF compressed = 0 \/ need < scratchMinGiB THEN scratchMinGiB ELSE need

\* Mutant: the reserve forgets the bundle that is still to be copied.
ReserveWithoutBundle(compressed, bundlePending) ==
    [scratchGiB |-> scratchNeedGiB(compressed),
     reserveGiB |-> scratchNeedGiB(compressed) + scratchDriveSlackGiB + deployerArtifactsGiB]

newInstallSpace(compressed, bundlePending) ==
    LET scratch == scratchNeedGiB(compressed)
        bundle  == IF bundlePending THEN (compressed + GiB - 1) \div GiB ELSE 0
    IN  [scratchGiB |-> scratch,
         reserveGiB |-> scratch + bundle + scratchDriveSlackGiB + deployerArtifactsGiB]

\* The bundle staged for this very image, in a layout that can be read.
stagedBundleCompressedBytes(pc, image) ==
    IF pc.bundle = image /\ pc.bundleReadable THEN pc.imageSize ELSE 0

\* From a staged bundle, else the registry, else above the largest known image.
imageCompressedBytes(pc, image) ==
    CASE stagedBundleCompressedBytes(pc, image) > 0 -> stagedBundleCompressedBytes(pc, image)
      [] pc.registryAnswers /\ pc.imageSize > 0     -> pc.imageSize
      [] OTHER                                      -> scratchDefaultCompressed

installSpaceAt(pc, image) ==
    newInstallSpace(imageCompressedBytes(pc, image), pc.preload /\ pc.bundle # image)

\* A scratch an earlier attempt left is credited, up to the scratch needed.
checkInstallSpaceWith(diskSizeGB, free, existingScratch, space) ==
    LET credit == IF existingScratch > space.scratchGiB THEN space.scratchGiB
                                                        ELSE existingScratch
    IN  diskSizeGB = 0 \/ free >= diskSizeGB + space.reserveGiB - credit

\* A drive whose free space cannot be read is not refused.
checkInstallSpace(cfg, pc) ==
    pc.freeKnown =>
    checkInstallSpaceWith(cfg.diskSizeGB, pc.free[cfg.storageDrive], pc.scratch,
                          installSpaceAt(pc, cfg.imageRef))

\* The plan with its defaults filled in, or a refusal; TPM unlock is refused.
validateInstallConfigWith(cfg, sys, pc) ==
    {[cfg EXCEPT !.bootloader = b,
                 !.encryption = IF @ = "" THEN "none" ELSE @] :
        b \in {x \in normalizeBootloader(cfg.bootloader) :
                  /\ gateScenarioWith(cfg, sys, pc)
                  /\ \/ cfg.encryption \in {"", "none"}
                     \/ cfg.encryption = "luks-passphrase" /\ cfg.luksPassphrase # ""
                  /\ validatePlatformConfig(x, pc)
                  /\ checkInstallSpace(cfg, pc)}}

\* What the deployer asks of the drive after the restart, when root.disk, the
\* boot files and the bundle are on it: room to grow its scratch, and 1 GiB
\* (scratch_need_gib and ensure_scratch_capacity of payload/deployer/deploy.sh).
ensure_scratch_capacity(cfg, pc) ==
    LET written == cfg.diskSizeGB + deployerArtifactsGiB
                     + (IF pc.preload /\ pc.bundle # cfg.imageRef
                        THEN (pc.imageSize + GiB - 1) \div GiB ELSE 0)
        new     == IF pc.scratch = 0 THEN scratchMinGiB ELSE 0
        have    == pc.scratch + new
        need    == scratchNeedGiB(pc.imageSize)
    IN  have >= need \/ pc.free[cfg.storageDrive] >= written + new + (need - have) + 1

-----------------------------------------------------------------------------
(* The one installation on this PC *)

\* A record of a known lifecycle state, with a date and a writer.
loadStatusState(record) == record = "attempt"

\* Never choose between attempts: two of them, one whose record cannot be
\* read, or an unsafe tree is an error; a payload alone is no installation.
discoverStatusState(roots) ==
    LET attempts == {d \in DOMAIN roots : roots[d] \in {"attempt", "torn"}}
    IN  CASE \E d \in DOMAIN roots : roots[d] = "unsafe"          -> "error"
          [] Cardinality(attempts) > 1                            -> "error"
          [] \E d \in attempts : ~loadStatusState(roots[d])       -> "error"
          [] attempts = {}                                        -> "none"
          [] OTHER -> CHOOSE d \in DOMAIN roots : d \in attempts

selectWindowsStatusState(pc) == discoverStatusState(pc.roots)

-----------------------------------------------------------------------------
(* The image catalogue of a configuration root *)

\* An object of known members, each once and of its type, none of them null.
decodeNativeMetadataObject(raw, required) == raw.shape = "object" /\ required \subseteq raw.keys

\* Every row of the override decodes, or the whole override is refused.
decodeNativeImageCatalogue(rows) ==
    IF rows # {} /\ \A r \in rows : decodeNativeMetadataObject(r, {"id", "name", "imageRef"})
    THEN {{r.body : r \in rows}} ELSE {}

nativeImageAdmission(image, brandCatalog, policy) ==
    /\ image.refSupported
    /\ brandCatalog = {} \/ image.id \in brandCatalog
    /\ policy.experimentalImages \/ image.status = "green"

\* A catalogue is offered whole: no image twice, no status it does not know.
catalogueUsable(images) ==
    /\ images # {}
    /\ \A i, j \in images : i.id = j.id \/ i.ref = j.ref => i = j
    /\ \A i \in images : i.status \in {"green", "experimental", ""}

\* A bundle must name an offered image; it is metadata, its content unverified.
bundleBinds(bundle, images) ==
    \/ bundle.shape = "none"
    \/ /\ decodeNativeMetadataObject(bundle, {"image", "digest", "storeBytes", "createdAt"})
       /\ \E i \in images : i.ref = bundle.body

\* The files of the bound root override what the build embeds; one of them
\* that cannot be used refuses the configuration, it never falls back.
configurationAccepted(files, embedded) ==
    /\ files.brand.shape = "none" \/ decodeNativeMetadataObject(files.brand, {})
    /\ files.channel \in {"", "alpha", "beta", "stable"}
    /\ \E images \in IF files.images = {} THEN {embedded} ELSE decodeNativeImageCatalogue(files.images) :
          catalogueUsable(images) /\ bundleBinds(files.bundle, images)

-----------------------------------------------------------------------------
(* The three admissions *)

\* Exactly one observed volume has the plan's letter and room, and exactly
\* one admitted image the plan's reference: the physical identity is the fact.
bindNativeInstallPlan(pc, plan) ==
    LET found == {v \in pc.volumes : v.drive = plan.storageDrive}
    IN  IF /\ pc.storageObserved
           /\ Cardinality(found) = 1
           /\ \A v \in found : plan.diskSizeGB >= 20 /\ plan.diskSizeGB <= v.maxGB
           /\ plan.imageRef \in pc.catalogue
           /\ plan.imageRef \in pc.admitted
        THEN {<<v.id, plan.imageRef>> : v \in found} ELSE {}

unchangedIn(binding, pc, plan) == bindNativeInstallPlan(pc, plan) = {binding}

admitUninstall(plan, info) ==
    IF /\ info.found \/ info.orphaned
       /\ ~(plan.deleteRootDisk /\ info.orphaned)
       /\ plan.removePartition => info.onDedicatedVol /\ info.reclaimGB > 0
    THEN {<<"uninstall", info.found, info.orphaned, info.home, info.onDedicatedVol>>}
    ELSE {}

\* The facts are what the confirmation disclosed; a plan is run only if a new
\* observation admits it with the same facts.
admitNativeMaintenance(plan, running, pc) ==
    LET info == pc.info
        boot == pc.boot
    IN CASE running -> {}
         [] plan.action = "uninstall" -> admitUninstall(plan, info)
         [] plan.action = "try-again" /\ pc.verdict.canTryAgain ->
              {<<"try-again", pc.verdict.stamp>>}
         [] plan.action = "boot-linux" /\ info.deployed -> {<<"boot-linux", info.home>>}
         [] \/ plan.action = "repair-boot" /\ boot.canRepairBoot
            \/ plan.action = "restore-windows-boot" /\ boot.canRestoreWindows ->
              {<<plan.action, boot.state, boot.canRepairBoot, boot.canRestoreWindows>>}
         [] OTHER -> {}

\* The names of image and account are the plan's, or follow the phase.
admitNativeVMAction(plan, installing, phase, pc) ==
    LET allowed ==
          CASE plan.action = "install-runtime" -> phase = "absent" /\ pc.vmRuntimeNeeded
            [] plan.action = "prepare"         -> phase = "absent" /\ pc.vmAvailable
            [] plan.action = "boot"  -> phase \in {"ready", "stopped"} /\ pc.vmAvailable
            [] plan.action = "stop"  -> phase \in {"running", "starting"}
            [] plan.action = "force-stop" ->
                 phase \in {"running", "starting", "stopping", "preparing"}
            [] OTHER -> FALSE
    IN  IF ~installing /\ allowed THEN {<<plan.action, phase>>} ELSE {}
=============================================================================
