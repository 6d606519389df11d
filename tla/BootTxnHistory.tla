--------------------------- MODULE BootTxnHistory ---------------------------
(***************************************************************************)
(* BootTxn with a history variable: the entries whose staged deployer the  *)
(* firmware has really started.  It says what "the chain proved itself by  *)
(* booting" (app/boot_txn.go:569-574) means, which the records on disk     *)
(* only stand for.                                                         *)
(***************************************************************************)
EXTENDS BootTxn, TLC

VARIABLE booted

Symmetry == Permutations(Guid)

HInit == Init /\ booted = {}

HNext ==
    /\ Next
    /\ booted' = IF machine = "off" /\ machine' = "deployer"
                 THEN booted \union NextBoot ELSE booted

HSpec == HInit /\ [][HNext]_<<vars, booted>>

\* boot_txn.go:569-574, recovery_windows.go:109-118: startup recovery turns an
\* interrupted "arming" into "committed" only for an entry from which the
\* deployer has started, never on evidence an earlier entry left behind.
MarkedBecauseBooted ==
    [][ (At("startup") /\ journal.phase = "arming" /\ journal'.phase = "committed")
            => journal.guid \in booted ]_<<vars, booted>>
=============================================================================
