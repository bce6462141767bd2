----------------------------- MODULE MCSession ------------------------------
(* Small instances of AdaptiveSession for TLC. *)
EXTENDS AdaptiveSession, TLC

CONSTANTS p1, p2, p3

Report(status, tokens, wall, cost) ==
    [status |-> status, tokens |-> tokens, wall |-> wall, cost |-> cost, oversized |-> FALSE]

\* One outcome for each way nextTransition goes.
MCOutcomes ==
    {Report("completed", 1, 1, 1), Report("hard", 0, 1, 0),
     Report("verification_failed", 1, 1, 1), Report("verification_failed", 2, 1, 1),
     Report("verification_failed", 0, 3, 0), Report("verification_failed", 0, 1, 3),
     Report("verification_failed", Missing, 1, 0), Report("verification_failed", 0, 1, Missing),
     Report("verification_failed", 0, 1, Foreign), Report("transient", 0, 0, 0),
     [Report("verification_failed", 0, 1, 0) EXCEPT !.oversized = TRUE]}

\* Enough to win, retry and stop.
MCFewOutcomes ==
    {Report("completed", 1, 1, 1), Report("hard", 0, 1, 0), Report("verification_failed", 1, 1, 1)}

CallSymmetry == Permutations(Procs)
=============================================================================
