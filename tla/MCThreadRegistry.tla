--------------------------- MODULE MCThreadRegistry ---------------------------
(* Instances of ThreadRegistry for TLC.                                     *)
EXTENDS ThreadRegistry, TLC

NameSymmetry == Permutations(Ids) \cup Permutations(Opens)
=============================================================================
