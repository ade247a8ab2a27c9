------------------------------- MODULE MCClient -------------------------------
(* Instances of HookedClient for TLC.                                       *)
EXTENDS HookedClient, TLC
=============================================================================
