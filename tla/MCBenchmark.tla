----------------------------- MODULE MCBenchmark -----------------------------
(* One pair with two failing readings; four mutants, two of them to be rejected; three
   writers and two readers of one ledger path. *)
EXTENDS Benchmark, TLC

CONSTANTS m1, m2, m3, m4, l1, l2

MCMutations == <<m1, m2, m3, m4>>
MCExpected == m1 :> "reject" @@ m2 :> "reject" @@ m3 :> "accept" @@ m4 :> "undetermined"

Symmetric == Permutations(LedgerReaders) \cup Permutations(LedgerWriters) \cup Permutations(Ledgers)

=============================================================================
