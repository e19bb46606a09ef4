----------------------------- MODULE MCCallCore -----------------------------
(* Instances of CallCore for TLC.                                          *)
EXTENDS CallProperties, TLC

Symmetry == Permutations(Call)
=============================================================================
