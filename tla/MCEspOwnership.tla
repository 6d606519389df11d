---------------------------- MODULE MCEspOwnership ----------------------------
(***************************************************************************)
(* Instances of EspOwnership: the systems that may already be on the       *)
(* partition.                                                              *)
(***************************************************************************)
EXTENDS EspOwnership

\* An empty partition, a Fedora, a Fedora whose grub.cfg is elsewhere, a RHEL,
\* and a systemd-boot system.
Neighbours ==
    {{}, {"fedora/shim", "fedora/grub", "fedora/cfg"}, {"fedora/shim"},
     {"redhat/cfg"}, {"systemd/sdboot", "loader.conf"}}
=============================================================================
