------------------------------ MODULE Benchmark ------------------------------
(* The benchmark harness (src/benchmark): a call measures a pair of arms, calibrates a
   verifier, or publishes and reads a ledger. The calls share nothing but the arguments a
   script passes on, so a behaviour is a behaviour of one of the three. *)
EXTENDS BenchmarkPair, MutationCalibration, BenchmarkLedger

VARIABLE call

vars == <<call, pairVars, calVars, ledgerVars>>

Init ==
    /\ call \in {"runPairedBenchmark", "runVerifierMutationCalibration", "ledger"}
    /\ PairInit /\ CalibrationInit /\ LedgerInit

Next ==
    /\ UNCHANGED call
    /\ \/ call = "runPairedBenchmark" /\ PairNext /\ UNCHANGED <<calVars, ledgerVars>>
       \/ /\ call = "runVerifierMutationCalibration" /\ CalibrationNext
          /\ UNCHANGED <<pairVars, ledgerVars>>
       \/ call = "ledger" /\ LedgerNext /\ UNCHANGED <<pairVars, calVars>>

Spec == Init /\ [][Next]_vars

=============================================================================
