---------------------------- MODULE MCFileApproval ----------------------------
(* Instances of FileApproval for TLC.                                       *)
EXTENDS FileApproval, TLC

MCShapes ==
    {Flat, [Flat EXCEPT !.thread = "missing"], [Flat EXCEPT !.turn = "missing"],
     [thread |-> "nested", turn |-> "nested", item |-> "nested"],
     [thread |-> "flat", turn |-> "nested", item |-> "nested"]}
MCDecisions == {"accept", "other"}
NameSymmetry == Permutations(Turns) \cup Permutations(Proposals)
=============================================================================
