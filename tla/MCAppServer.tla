----------------------------- MODULE MCAppServer -----------------------------
(* Instances of AppServer for TLC.                                          *)
EXTENDS AppServer, TLC

CloserSymmetry == Permutations(Closers)
=============================================================================
