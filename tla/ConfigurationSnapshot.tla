------------------------ MODULE ConfigurationSnapshot ------------------------
(***************************************************************************)
(* What a configuration observation promises its caller: while everybody   *)
(* changes the PC, the answer is what the PC was at ONE instant between    *)
(* the call and the return, or a refusal.  A volume is offered only if it  *)
(* was unencrypted at that instant.  NativeSession reads the configuration *)
(* in one step; ConfigurationRead implements this module.                  *)
(***************************************************************************)
CONSTANTS
    Letters,  \* drive letters
    Roots     \* the directories that may hold installer files

VARIABLES
    world,    \* the PC: the value of each cell an observation looks at
    phase,    \* "open", "taken", "returned" or "refused"
    snap,     \* the PC at the instant the observation takes effect
    result    \* what the caller gets: a function on cells; <<>> for a refusal

RowCell(l)    == <<"row", l>>
SerialCell(l) == <<"serial", l>>
RootCell(r)   == <<"root", r>>
SelectionCell == <<"selection", "pc">>

Rows    == {RowCell(l) : l \in Letters}
Serials == {SerialCell(l) : l \in Letters}
RootSet == {RootCell(r) : r \in Roots}
Cells   == Rows \union Serials \union RootSet \union {SelectionCell}

Change == world' # world /\ UNCHANGED <<phase, snap, result>>

Take ==
    /\ phase = "open"
    /\ phase' = "taken" /\ snap' = world
    /\ UNCHANGED <<world, result>>

\* Everything was looked at, and the serial of each volume that is offered.
Return ==
    /\ phase = "taken"
    /\ phase' = "returned"
    /\ \E offered \in SUBSET {l \in Letters : snap[RowCell(l)].val = "plain"} :
         result' = [c \in (Cells \ Serials) \union {SerialCell(l) : l \in offered} |-> snap[c]]
    /\ UNCHANGED <<world, snap>>

Refuse ==
    /\ phase \in {"open", "taken"}
    /\ phase' = "refused" /\ result' = <<>>
    /\ UNCHANGED <<world, snap>>

Init == phase = "open" /\ result = <<>>
Next == Change \/ Take \/ Return \/ Refuse
Spec == Init /\ [][Next]_<<world, phase, snap, result>>
=============================================================================
