---------------------------- MODULE MCVmControl -----------------------------
(* Two calls, of any kind and at any time, on two sessions of a VM. *)
EXTENDS VmControl

\* Two key batches under one directive, one of them unbalanced; a capture; the mice.
key(down) == [code |-> "a", down |-> down]
MCRequests ==
    {[action |-> "keys", directive |-> "x", keys |-> <<key(TRUE), key(FALSE)>>],
     [action |-> "keys", directive |-> "y", keys |-> <<key(TRUE)>>],
     [action |-> "capture", directive |-> "y", keys |-> <<>>],
     [action |-> "status", directive |-> "y", keys |-> <<>>],
     [action |-> "mice", directive |-> "y", keys |-> <<>>]}

MCKeyCodes == {"a"}

row(index, current) == [index |-> index, current |-> current]
MCInventories == [one |-> <<row(0, TRUE)>>, twice |-> <<row(0, TRUE), row(0, FALSE)>>]

MCCallOrder == <<"c1", "c2">>

MCFrames == {1, 2}
=============================================================================
