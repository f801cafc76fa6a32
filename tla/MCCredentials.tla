---------------------------- MODULE MCCredentials ----------------------------
EXTENDS Credentials, TLC

Symmetry == Permutations(Servers)
=============================================================================
