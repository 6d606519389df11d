-------------------------- MODULE MCInstallAttempt --------------------------
EXTENDS InstallAttempt, TLC

Symmetry == Permutations(Recoverers)
=============================================================================
