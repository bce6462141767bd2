------------------------------ MODULE MCApply -------------------------------
(* Small instances of ApplyProtocol for TLC. *)
EXTENDS ApplyProtocol, TLC

\* Calls are interchangeable: sound for the safety runs only.
CallSymmetry == Permutations(Procs)

MCNewFiles == {2}
=============================================================================
