------------------------------ MODULE MCBootTxn ------------------------------
EXTENDS BootTxn, TLC

Symmetry == Permutations(Guid)
=============================================================================
