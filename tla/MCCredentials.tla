----------------------------- MODULE MCCredentials -----------------------------
EXTENDS Credentials, TLC

Symmetry == Permutations(Request)
=============================================================================
