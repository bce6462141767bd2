------------------------------- MODULE MCRun --------------------------------
(* Small instances of RunOrchestrator for TLC. *)
EXTENDS RunOrchestrator, TLC

CONSTANTS p1, p2, p3, c1, c2

\* Deterministic execution: every call proposes the same bytes.
MCSameCandidate == [p \in Procs |-> c1]

\* Codex execution: the second attempt proposes other bytes.
MCOtherCandidate == [p \in Procs |-> IF p = p1 THEN c1 ELSE c2]

\* Calls are interchangeable when they propose the same: for the safety runs.
CallSymmetry == Permutations(Procs)
=============================================================================
