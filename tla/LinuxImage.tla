------------------------------ MODULE LinuxImage ------------------------------
(***************************************************************************)
(* What the managed VM promises about root.disk, whatever engines, crashes *)
(* and failed writes do: one holder at a time takes it, only one process   *)
(* ever has it open, and it is offered for another start only while its    *)
(* holder knows that the file system was closed.  An image that was let go *)
(* in any other way is "unfit" and stays so until the user removes it.     *)
(* VmLifecycle implements this module.                                     *)
(***************************************************************************)
CONSTANT Users  \* the processes that may open the image

VARIABLES
    stage,  \* "absent", "native", "held", "offered" or "unfit"
    sound,  \* is there a complete file system, closed by its last user?
    users   \* the processes that have the image open

vars == <<stage, sound, users>>

Create ==
    /\ stage = "absent"
    /\ stage' \in {"held", "native"}
    /\ sound' = FALSE /\ UNCHANGED users

Take ==
    /\ stage = "offered" /\ sound /\ users = {}
    /\ stage' = "held"
    /\ UNCHANGED <<sound, users>>

\* Only its holder opens it, alone: a fresh disk to build, or a closed one.
Open(p) ==
    /\ stage = "held" /\ users = {}
    /\ users' = {p} /\ sound' = FALSE
    /\ UNCHANGED stage

Leave(p) ==
    /\ p \in users
    /\ users' = users \ {p}
    /\ sound' \in BOOLEAN
    /\ UNCHANGED stage

Offer ==
    /\ stage = "held" /\ sound /\ users = {}
    /\ stage' = "offered"
    /\ UNCHANGED <<sound, users>>

\* The holder gives up or dies, perhaps before the process it started.
Drop ==
    /\ stage = "held"
    /\ stage' = "unfit"
    /\ \E left \in SUBSET users : users' = users \ left
    /\ UNCHANGED sound

\* An uninstall may take the record and leave the disk.
Remove ==
    /\ stage # "held" /\ users = {}
    /\ \/ stage' = "absent" /\ sound' = FALSE
       \/ stage = "offered" /\ stage' = "unfit" /\ UNCHANGED sound
    /\ UNCHANGED users

Init == stage = "absent" /\ sound = FALSE /\ users = {}

Next ==
    \/ Create \/ Take \/ Offer \/ Drop \/ Remove
    \/ \E p \in Users : Open(p) \/ Leave(p)

Spec == Init /\ [][Next]_vars
=============================================================================
