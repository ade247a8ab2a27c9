------------------------------ MODULE MCDemux ------------------------------
(* The instance of Demux for TLC.                                          *)
EXTENDS Demux
=============================================================================
