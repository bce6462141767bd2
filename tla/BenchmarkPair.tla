---------------------------- MODULE BenchmarkPair ----------------------------
(* One paired benchmark: runPairedBenchmark, runDirectCodexBenchmarkArm and
   runHarnessBenchmarkArm of src/benchmark/runner.js, and the validators of
   src/benchmark/contracts.js that decide whether what they observed is recorded.

   The provider edits inside or outside the allowed paths, or leaves an entry that is no
   regular file, where a snapshot of the project looks or under a name it excludes (build,
   node_modules, .env and the like); what an arm records is compared with what happened.

   A definition X_Y is a faulty variant of X. *)
EXTENDS Naturals, Sequences

CONSTANTS
    Configurations,     \* provider configurations a transport reports
    MaxFaults,          \* readings of the working copy that fail
    None

Arms == {"direct_codex", "harness"}
Irregular == {"irregular", "hidden"}     \* hidden: under a name snapshots exclude
Edits == {"inside", "outside"} \cup Irregular

\* What validateBenchmarkArmResult keeps of an arm.
Observations ==
    [terminal : {"completed", "timeout", "safety_refusal", "verification_failed", "infra_error"},
     verified : {"not_run", "passed", "failed"}, success : BOOLEAN, unsafe : BOOLEAN,
     changed : SUBSET Edits, configuration : Configurations \cup {None}]

ASSUME PairAssumption ==
    /\ None \notin Configurations /\ None \notin Observations
    /\ MaxFaults \in Nat

VARIABLES
    order, todo, at,    \* the arms in their order, those left, the step of the running one
    tree,               \* what the provider left in the direct arm's working copy
    litter,             \* what its verifier left there that is no regular file
    output,             \* what the transport of the running arm returned
    blind,              \* the direct arm's inventory before or after execution was not read
    diff, unsafe, verified, terminal,   \* the running arm's local variables
    observed,           \* each arm's validated observation
    pair,               \* the recorded pair
    readFaults

armVars  == <<output, diff, unsafe, verified, terminal>>
pairVars == <<order, todo, at, tree, litter, blind, armVars, observed, pair, readFaults>>

-----------------------------------------------------------------------------

Qualities == {"fine", "timed_out", "failed", "prohibited"}

ReadFault == readFaults < MaxFaults /\ readFaults' = readFaults + 1

\* assertCodexTransportCompleted and inspectCodexEvents: the error they throw, if any.
Inspected(o) == CASE o.quality = "fine" -> None
                  [] o.quality = "prohibited" -> "safety_refusal"
                  [] OTHER -> "infra_error"

TerminalFromError(error, o) ==
    CASE o # None /\ o.quality = "timed_out" -> "timeout"
      [] error \in {"safety_refusal", "verification_failed"} -> error
      [] OTHER -> "infra_error"

Outputs == [quality : Qualities, configuration : Configurations]

\* The locals as an arm declares them.
FreshArm ==
    /\ output' = None /\ diff' = {} /\ unsafe' = FALSE /\ verified' = "not_run"
    /\ terminal' = "infra_error"

-----------------------------------------------------------------------------
(* runDirectCodexBenchmarkArm *)

\* The inventory taken first stands before the try: the arm throws, and the pair with it.
FirstInventoryFails ==
    /\ at = "start" /\ todo # <<>> /\ Head(todo) = "direct_codex"
    /\ ReadFault /\ blind' = "before"
    /\ pair' = "lost" /\ at' = "over"
    /\ UNCHANGED <<order, todo, tree, litter, armVars, observed>>

\* The provider edits the working copy itself; then its transport returns, or throws, and
\* then nothing is compared.
DirectExecution ==
    /\ at = "start" /\ todo # <<>> /\ Head(todo) = "direct_codex"
    /\ tree' \in SUBSET Edits
    /\ \/ /\ output' \in Outputs /\ at' = "inventory"
          /\ UNCHANGED <<unsafe, terminal>>
       \/ /\ terminal' \in {"safety_refusal", "infra_error"}
          /\ unsafe' = (terminal' = "safety_refusal") /\ at' = "snapshot"
          /\ UNCHANGED output
    /\ UNCHANGED <<order, todo, litter, blind, diff, verified, observed, pair, readFaults>>

\* captureWorkspaceInventory reads every path, and refuses an irregular entry at any.
Readable == tree \cap Irregular = {}

\* The catch block after the transport returned, with the diff d taken so far: one that is
\* empty is taken again.
Caught(error, d) ==
    /\ terminal' = TerminalFromError(error, output)
    /\ diff' = d
    /\ unsafe' = (terminal' = "safety_refusal" \/ "outside" \in d)
    /\ at' = IF d = {} THEN "retake" ELSE "snapshot"

\* A provider that did not complete is refused before anything is compared.
DirectInventory_InspectsFirst ==
    /\ at = "inventory" /\ Readable
    /\ IF Inspected(output) # None
       THEN Caught(Inspected(output), {})
       ELSE diff' = tree /\ unsafe' = ("outside" \in tree) /\ at' = "verify" /\ UNCHANGED terminal
    /\ UNCHANGED <<order, todo, tree, litter, blind, output, verified, observed, pair,
                   readFaults>>

\* The inventory after execution; deletions count as outside.
DirectInventory ==
    /\ at = "inventory"
    /\ \/ /\ ~Readable /\ Caught("safety_refusal", {})
          /\ UNCHANGED <<blind, readFaults>>
       \/ /\ ReadFault /\ blind' = "after"
          /\ \E error \in {"safety_refusal", "infra_error"} : Caught(error, {})
       \/ /\ Readable
          /\ IF Inspected(output) # None
             THEN Caught(Inspected(output), tree)
             ELSE /\ diff' = tree /\ unsafe' = ("outside" \in tree)
                  /\ at' = "verify" /\ UNCHANGED terminal
          /\ UNCHANGED <<blind, readFaults>>
    /\ UNCHANGED <<order, todo, tree, litter, output, verified, observed, pair>>

\* It is read once more for the record, not for what was allowed; a failure is unsafe.
RetakeInventory ==
    /\ at = "retake" /\ at' = "snapshot"
    /\ \/ Readable /\ diff' = tree /\ UNCHANGED <<unsafe, terminal, readFaults>>
       \/ /\ \/ ~Readable /\ UNCHANGED readFaults
             \/ ReadFault
          /\ terminal' = "safety_refusal" /\ unsafe' = TRUE /\ UNCHANGED diff
    /\ UNCHANGED <<order, todo, tree, litter, blind, output, verified, observed, pair>>

\* The pilot's defect: the verifier ran on an unsafe candidate.
ToVerify_Anyway == diff # {}

ToVerify == ~unsafe /\ diff # {}

\* The verifier runs in the same working copy.
DirectVerify ==
    /\ at = "verify"
    /\ \/ /\ ToVerify
          /\ verified' \in {"passed", "failed"}
          /\ litter' \in SUBSET Irregular
       \/ ~ToVerify /\ UNCHANGED <<verified, litter>>
    /\ terminal' = IF unsafe THEN "safety_refusal"
                   ELSE IF diff = {} \/ verified' # "passed" THEN "verification_failed"
                   ELSE "completed"
    /\ at' = "snapshot"
    /\ UNCHANGED <<order, todo, tree, blind, output, diff, unsafe, observed, pair, readFaults>>

-----------------------------------------------------------------------------
(* runHarnessBenchmarkArm *)

\* runHarness: refused before the provider ran, in it, at its candidate, by the verifier,
\* after it, or never. What the provider did is recorded only of a run that completes.
HarnessExecution ==
    /\ at = "start" /\ todo # <<>> /\ Head(todo) = "harness"
    /\ output' \in Outputs \cup {None}
    /\ \/ /\ output' # None /\ output'.quality = "fine"
          /\ \/ terminal' = "completed" /\ verified' = "passed" /\ diff' = {"inside"}
             \/ /\ terminal' \in {"verification_failed", "safety_refusal", "infra_error"}
                /\ verified' = "failed" /\ UNCHANGED diff
       \/ /\ \E error \in {"safety_refusal", "infra_error"} :
                terminal' = TerminalFromError(error, output')
          /\ UNCHANGED <<verified, diff>>
    /\ unsafe' = (terminal' = "safety_refusal")
    /\ at' = "snapshot"
    /\ UNCHANGED <<order, todo, tree, litter, blind, observed, pair, readFaults>>

-----------------------------------------------------------------------------
(* Both *)

\* validateBenchmarkArmResult, assertObservation
ArmAdmitted(o) ==
    /\ o.success => /\ o.terminal = "completed" /\ o.verified = "passed"
                    /\ ~o.unsafe /\ o.changed # {}
    /\ o.terminal = "completed" => o.success
    /\ o.terminal = "safety_refusal" => o.unsafe

Observation(t, u) ==
    [terminal |-> t, verified |-> verified, success |-> t = "completed", unsafe |-> u,
     changed |-> diff,
     configuration |-> IF output = None THEN None ELSE output.configuration]

\* createProjectSnapshot refuses an irregular entry too, but not under an excluded name.
Admissible == Head(todo) = "direct_codex" => "irregular" \notin tree \cup litter

\* The last snapshot can refuse the working copy whatever the arm had concluded.
SnapshotFails ==
    \/ ~Admissible /\ UNCHANGED readFaults
    \/ ReadFault

SnapshotHolds == Admissible /\ UNCHANGED readFaults

\* The arm returns its observation, or its validator throws and the pair is over.
Return(o) ==
    IF ArmAdmitted(o)
    THEN /\ observed' = [observed EXCEPT ![Head(todo)] = o]
         /\ todo' = Tail(todo) /\ at' = "start"
         /\ UNCHANGED pair
    ELSE pair' = "lost" /\ at' = "over" /\ UNCHANGED <<observed, todo>>

Snapshot ==
    /\ at = "snapshot"
    /\ \/ SnapshotHolds /\ Return(Observation(terminal, unsafe))
       \/ SnapshotFails /\ Return(Observation("safety_refusal", TRUE))
    /\ FreshArm
    /\ UNCHANGED <<order, tree, litter, blind>>

-----------------------------------------------------------------------------
(* The pair *)

Unobserved == \E a \in Arms : observed[a].configuration = None
Equivalent == ~Unobserved /\ observed["direct_codex"].configuration = observed["harness"].configuration

\* The reasons runPairedBenchmark finds, and one that validateBenchmarkPairResult expects.
InvalidReasons ==
    IF Unobserved THEN {"provider_configuration_unobserved"}
    ELSE IF ~Equivalent THEN {"provider_configuration_mismatch"} ELSE {}

ExpectedReasons ==
    InvalidReasons \cup
    IF observed["direct_codex"].unsafe /\ observed["direct_codex"].verified # "not_run"
    THEN {"unsafe_control_verifier_executed"} ELSE {}

RecordPair ==
    /\ at = "start" /\ todo = <<>>
    /\ pair' = IF ExpectedReasons \subseteq InvalidReasons
               THEN IF InvalidReasons = {} THEN "valid" ELSE "invalid"
               ELSE "lost"
    /\ at' = "over"
    /\ UNCHANGED <<order, todo, tree, litter, blind, armVars, observed, readFaults>>

-----------------------------------------------------------------------------

\* pairedOrder: by the seed, the task and the parity of its repeat.
PairInit ==
    /\ order \in {<<"direct_codex", "harness">>, <<"harness", "direct_codex">>}
    /\ todo = order /\ at = "start"
    /\ tree = {} /\ litter = {} /\ blind = "no"
    /\ output = None /\ diff = {} /\ unsafe = FALSE /\ verified = "not_run"
    /\ terminal = "infra_error"
    /\ observed = [a \in Arms |-> None]
    /\ pair = "none"
    /\ readFaults = 0

PairNext ==
    \/ FirstInventoryFails \/ DirectExecution \/ DirectInventory \/ RetakeInventory
    \/ DirectVerify
    \/ HarnessExecution
    \/ Snapshot \/ RecordPair

-----------------------------------------------------------------------------
(* Properties *)

Direct == observed["direct_codex"]

\* A pair is recorded, valid or not, whatever its arms did. Two are lost: one whose direct
\* arm could not read its working copy before it began, and one whose verifier ran on a safe
\* candidate of the direct arm and whose working copy a snapshot then could not read, which
\* makes the arm unsafe after the fact, so that the pair's validator refuses it.
PairIsKept ==
    pair = "lost" =>
        \/ Direct = None /\ blind = "before"
        \/ /\ Direct # None /\ Direct.verified # "not_run" /\ Direct.terminal = "safety_refusal"
           /\ "irregular" \in litter \/ readFaults > 0

\* What the provider does outside the allowed paths of the direct arm is recorded as
\* unsafe, however its call ended. Two ways escape: the transport threw, so that nothing
\* is compared and the last snapshot alone looks, or the first comparison failed, so that
\* only its paths are recorded.
UnsafeIsRecorded ==
    Direct # None =>
        /\ "irregular" \in tree => Direct.unsafe
        /\ "hidden" \in tree => Direct.unsafe \/ Direct.configuration = None
        /\ "outside" \in tree =>
                Direct.unsafe \/ Direct.configuration = None
                              \/ (blind = "after" /\ "outside" \in Direct.changed)

\* An arm that counts as a success changed something and was verified; what the direct arm
\* changed lies inside its allowed paths, and a snapshot can still read its working copy.
SuccessMeansVerified ==
    \A a \in Arms : observed[a] # None /\ observed[a].success =>
        /\ observed[a].verified = "passed" /\ observed[a].changed # {}
        /\ a = "direct_codex" => tree = {"inside"} /\ "irregular" \notin litter

\* What is recorded of an arm agrees with what the provider and the verifier did.
ObservationIsTrue == UnsafeIsRecorded /\ SuccessMeansVerified

=============================================================================
