------------------------------- MODULE MCThread -------------------------------
(* Instances of Thread for TLC; the symmetries serve the runs that check    *)
(* invariants only.                                                         *)
EXTENDS Thread, TLC

CallSymmetry == Permutations(Runs)
WaitSymmetry == Permutations(Compactions) \cup Permutations(Waits)

\* Turns and compactions meet only in the inbox and in markClosed.  A behaviour
\* has one or the other, and other notifications only next to compactions, so
\* that one run can afford two of each.
OneKind ==
    \/ \A r \in Runs : rpc[r] = "idle"
    \/ talk = 0 /\ \A c \in Compactions : kpc[c] = "idle"

OneKindSpec == Init /\ [][Next /\ OneKind']_vars /\ Fairness
=============================================================================
