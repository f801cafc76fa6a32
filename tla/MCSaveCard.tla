----------------------------- MODULE MCSaveCard -----------------------------
(* SaveCard on a small card: the symmetry of bytes and of backup names.      *)
EXTENDS SaveCard, TLC

Symmetry == Permutations(Bytes) \cup Permutations(Slots)
=============================================================================
