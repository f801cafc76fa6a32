----------------------------- MODULE MCSaveSync -----------------------------
(* SaveSync on small instances; the cfgs give the bounds.                   *)
EXTENDS SaveSync, TLC

Symmetry == Permutations(Bytes)
=============================================================================
