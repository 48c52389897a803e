------------------------------- MODULE MCLockout -------------------------------
EXTENDS Lockout, TLC

Symmetry == Permutations(Request)
=============================================================================
