----------------------------- MODULE MCHookConfig -----------------------------
(* Instances of HookConfig for TLC.                                         *)
EXTENDS HookConfig, TLC

CONSTANTS c1, c2, c3

ThreePids == c1 :> 1 @@ c2 :> 2 @@ c3 :> 3
OnePid == c1 :> 1 @@ c2 :> 1
=============================================================================
