---------------------------- MODULE AtomicApply ----------------------------
(* What apply promises of one run: the project goes from the source tree to the
   candidate tree in one step, with the lifecycle, after approval; or it stays
   the source tree and the run is rolled back. ApplyProtocol implements it. *)

CONSTANTS SourceTree, CandidateTree

VARIABLES phase, tree

vars == <<phase, tree>>

Init == phase = "receipted" /\ tree = SourceTree

Approve ==
    /\ phase = "receipted" /\ phase' = "approved"
    /\ UNCHANGED tree

Apply ==
    /\ phase = "approved" /\ phase' = "applied"
    /\ tree' = CandidateTree

RollBack ==
    /\ phase = "approved" /\ phase' = "rolled_back"
    /\ UNCHANGED tree

Next == Approve \/ Apply \/ RollBack

Spec == Init /\ [][Next]_vars

=============================================================================
