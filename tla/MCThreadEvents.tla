--------------------------- MODULE MCThreadEvents ---------------------------
(* Instances of ThreadEvents for TLC.                                       *)
EXTENDS ThreadEvents, TLC

SubscriberSymmetry == Permutations(Subscribers)
=============================================================================
