--------------------------- MODULE MCNativeSession ---------------------------
EXTENDS NativeSession, TLC

Msg(shape, keys, body) == [shape |-> shape, keys |-> keys, body |-> body]
None == Msg("none", {}, <<>>)
Call(m, p) == [method |-> m, params |-> p]

TheBuild == [channel |-> "alpha", hideCustomImage |-> FALSE, driveMode |-> FALSE, shim |-> {"2011"}]

\* A PC where everything is allowed, just room enough on C:, and an installation.
Base ==
    [tokenUnchanged |-> TRUE, storageObserved |-> TRUE,
     bitLockerOn |-> FALSE, trustedSystemdBoot |-> FALSE,
     secureBoot |-> [known |-> TRUE, on |-> TRUE, dbRead |-> TRUE, trusted |-> {"2011", "2023"}],
     catalogue |-> {"bluefin"}, admitted |-> {"bluefin"},
     volumes |-> {[drive |-> "C", id |-> "disk0", maxGB |-> 40]},
     roots |-> [d \in {"C", "D"} |-> IF d = "C" THEN "attempt" ELSE "payload"],
     free |-> [d \in {"C"} |-> 56], freeKnown |-> TRUE, scratch |-> 0,
     imageSize |-> 13, registryAnswers |-> TRUE, preload |-> TRUE,
     bundle |-> "", bundleReadable |-> FALSE,
     info |-> [found |-> TRUE, orphaned |-> FALSE, onDedicatedVol |-> FALSE, reclaimGB |-> 0,
               deployed |-> TRUE, home |-> "C"],
     boot |-> [state |-> "armed", canRepairBoot |-> TRUE, canRestoreWindows |-> TRUE],
     verdict |-> [canTryAgain |-> TRUE, stamp |-> "t0"],
     vmRuntimeNeeded |-> TRUE, vmAvailable |-> TRUE]

\* The same PC with another disk behind C: and the boot repaired by hand, less
\* room but an earlier scratch and a bundle; the same PC with the person signed
\* out, the installation moved to D: and 1 GB less.
Swapped == [Base EXCEPT !.volumes = {[drive |-> "C", id |-> "disk1", maxGB |-> 40]},
                        !.boot.state = "windows", !.info.home = "D", !.verdict.stamp = "t1",
                        !.vmAvailable = FALSE,
                        !.free = [d \in {"C"} |-> 30], !.scratch = 20, !.bundle = "bluefin",
                        !.bundleReadable = TRUE]
Away    == [Base EXCEPT !.tokenUnchanged = FALSE, !.free = [d \in {"C"} |-> 55],
                        !.roots = [d \in {"C", "D"} |-> IF d = "D" THEN "attempt" ELSE "payload"]]
\* BitLocker turned on: this build does not install beside it.
Locked  == [Base EXCEPT !.bitLockerOn = TRUE]
TheWorlds == {Base, Swapped, Away, Locked}

HelloLine == Msg("object", HelloKeys, [bound |-> TRUE])
TheHellos == {HelloLine, Msg("bad", HelloKeys, [bound |-> TRUE]), Msg("object", HelloKeys, [bound |-> FALSE])}

Plan == [imageRef |-> "bluefin", diskSizeGB |-> 20, storageDrive |-> "C", bootloader |-> "",
         encryption |-> "", luksPassphrase |-> ""]
InstallPlan == Msg("object", PlanKeys, Plan)
Keep == [action |-> "uninstall", deleteRootDisk |-> FALSE, removePartition |-> FALSE]
Manage(a) == Msg("object", {"action"}, [Keep EXCEPT !.action = a])
VMPlan(a) == Msg("object", IF a = "prepare" THEN {"action", "imageRef", "username", "password"} ELSE {"action"},
                 [action |-> a, wellFormed |-> TRUE])
Confirm(i, a) == Msg("object", ConfirmKeys \union (IF a = "" THEN {} ELSE {"action"}),
                     [bound |-> TRUE, intent |-> i, action |-> a])

InstallRequests ==
    {Call("PrepareNativeInstall", InstallPlan),
     Call("ConfirmNativeInstall", Confirm(1, "")),
     Call("Reboot", None), Call("Shutdown", None), Call("GetUninstallInfo", None), Call("GetNativeVMStatus", None),
     Call("PrepareNativeMaintenance", Manage("uninstall")), Call("PrepareNativeMaintenance", InstallPlan),
     Call("ConfirmNativeMaintenance", Confirm(1, "uninstall")),
     Call("PrepareNativeVMAction", VMPlan("boot")), Call("ConfirmNativeVMAction", Confirm(1, "boot")),
     Call("PrepareNativeVMAction", VMPlan("prepare")), Call("ConfirmNativeVMAction", Confirm(1, "prepare"))}
ServeRequests ==
    {Call("StartInstall", InstallPlan), Call("StartInstall", None), Call("CancelInstall", None),
     Call("BootIntoLinux", None), Call("Reboot", None), Call("PrepareVM", Msg("array", {}, Plan)),
     Call("ForceStopVM", None), Call("StopVM", None), Call("BootInVM", None),
     Call("InstallVMRuntime", None), Call("UninstallWith", None),
     Call("Shutdown", None)}
ConfigurationRequests ==
    {Call("GetStatus", None), Call("GetNativeConfiguration", None), Call("StartInstall", InstallPlan),
     Call("E2EDriveReport", Msg("text", {}, <<>>)),
     Call("GetNativeInstallSpace", Msg("object", {}, [imageRef |-> "bluefin", storageDrive |-> "C"]))}
TheRequests == [serve |-> ServeRequests, configuration |-> ConfigurationRequests,
                install |-> InstallRequests]
\* A restart takes three requests (prepare, confirm, reboot); two legacy
\* requests already meet every order of worker, VM and exit.
TheBound == [serve |-> 2, configuration |-> 3, install |-> 3]
=============================================================================
