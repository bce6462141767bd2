------------------------- MODULE MutationCalibration -------------------------
(* The calibration of a verifier on registered mutants: runVerifierMutationCalibration of
   src/benchmark/runner.js, the admission of its observations (mutations.js) and the score
   it is reported by (summarizeMutationCalibration in statistics.js).

   A definition X_Y is a faulty variant of X. *)
EXTENDS Naturals, Sequences, FiniteSets, Functions

CONSTANTS
    Mutations,          \* the registry, as a sequence
    Expected,           \* what the verifier is expected to do with each
    Nothing

\* What is recorded of one mutant.
Observable ==
    [outcome : {"killed", "survived", "infrastructure", "invalid", "equivalent_or_undetermined"},
     status  : {"accept", "reject", "undetermined"},
     code    : BOOLEAN,
     target  : {"baseline", "other", "mutated"}]

ASSUME CalibrationAssumption ==
    /\ Mutations \in Seq(Range(Mutations)) /\ IsInjective(Mutations)
    /\ Nothing \notin Observable
    /\ Expected \in [Range(Mutations) -> {"reject", "accept", "undetermined"}]

VARIABLES
    next,               \* the index of the mutation being tried
    calStep,
    target,             \* what the workspace's target file holds
    ruling,             \* what the verifier really did with each mutation
    observations,       \* each mutation's admitted observation
    calibration         \* how the calibration stands

calVars == <<next, calStep, target, ruling, observations, calibration>>

-----------------------------------------------------------------------------

Current == Mutations[next]

\* expectedOutcomeForObservation, assertObservationSemantics, and the failure code of an
\* accepting verifier.
Admitted(m, o) ==
    /\ o.status = "accept" => ~o.code
    /\ CASE o.outcome \in {"infrastructure", "invalid"} -> o.status = "undetermined" /\ o.code
         [] o.outcome = "killed" -> Expected[m] = "reject" /\ o.status = "reject" /\ o.code
         [] o.outcome = "survived" -> Expected[m] = "reject" /\ o.status = "accept"
         [] OTHER -> Expected[m] # "reject" \/ o.status = "undetermined"
    /\ o.outcome \in {"killed", "survived"} => o.target # "baseline"

\* An observation that is not admitted throws, and the calibration ends without a result.
Observe(o) ==
    IF Admitted(Current, o)
    THEN /\ observations' = [observations EXCEPT ![Current] = o]
         /\ next' = next + 1 /\ calStep' = "prepare"
         /\ UNCHANGED calibration
    ELSE calibration' = "contradicted" /\ UNCHANGED <<next, calStep, observations>>

Invalid(bytes) ==
    [outcome |-> "invalid", status |-> "undetermined", code |-> TRUE, target |-> bytes]

-----------------------------------------------------------------------------

Running == calibration = "running" /\ next <= Len(Mutations)

\* No fixture, a copy that fails, or a target that is replaced while it is opened.
Abort ==
    /\ Running /\ calStep \in {"prepare", "mutate"}
    /\ calibration' = "aborted"
    /\ UNCHANGED <<next, calStep, target, ruling, observations>>

\* A copy of the fixture for this mutation alone; its target must be the registered one.
Prepare ==
    /\ Running /\ calStep = "prepare"
    /\ target' \in {"baseline", "other", "missing"}
    /\ IF target' = "baseline"
       THEN calStep' = "mutate" /\ UNCHANGED <<next, observations, calibration>>
       ELSE Observe(Invalid(IF target' = "missing" THEN "baseline" ELSE "other"))
    /\ UNCHANGED ruling

\* The mutation is written over the target and must be the one difference.
Mutate ==
    /\ Running /\ calStep = "mutate"
    /\ \/ /\ target' = "mutated" /\ calStep' = "verify"
          /\ UNCHANGED <<next, observations, calibration>>
       \/ target' = "other" /\ Observe(Invalid("mutated"))
    /\ UNCHANGED ruling

\* A verifier that breaks counts like one that does not accept.
Classify_TwoValued(m, status) ==
    IF Expected[m] = "reject"
    THEN IF status = "accept" THEN "survived" ELSE "killed"
    ELSE "equivalent_or_undetermined"

\* classifiedMutationObservation
Classify(m, status) ==
    IF status = "undetermined" THEN "infrastructure"
    ELSE IF Expected[m] = "reject"
         THEN IF status = "reject" THEN "killed" ELSE "survived"
         ELSE "equivalent_or_undetermined"

\* The status read off the verifier's answer: a run over its time or output limit throws
\* the same verification_failed as a test that fails; any other error says nothing.
StatusOf(answer) ==
    CASE answer = "accepts" -> "accept"
      [] answer \in {"rejects", "overruns"} -> "reject"
      [] answer = "breaks" -> "undetermined"

VerifyMutation ==
    /\ Running /\ calStep = "verify"
    /\ \E answer \in {"accepts", "rejects", "overruns", "breaks"} :
        /\ ruling' = [ruling EXCEPT ![Current] = answer]
        /\ Observe([outcome |-> Classify(Current, StatusOf(answer)),
                    status |-> StatusOf(answer), code |-> answer # "accepts",
                    target |-> "mutated"])
    /\ UNCHANGED target

\* summarizeMutationCalibration: one observation per mutation, of the registered bytes.
Summarize ==
    /\ calibration = "running" /\ next > Len(Mutations)
    /\ calibration' =
           IF \A m \in Range(Mutations) :
                  /\ observations[m] # Nothing
                  /\ observations[m].outcome # "invalid" => observations[m].target = "mutated"
           THEN "summarized" ELSE "contradicted"
    /\ UNCHANGED <<next, calStep, target, ruling, observations>>

Outcome(m) == IF observations[m] = Nothing THEN "none" ELSE observations[m].outcome
Killed   == {m \in Range(Mutations) : Outcome(m) = "killed"}
Survived == {m \in Range(Mutations) : Outcome(m) = "survived"}

CalibrationInit ==
    /\ next = 1 /\ calStep = "prepare" /\ target = "none"
    /\ ruling = [m \in Range(Mutations) |-> "none"]
    /\ observations = [m \in Range(Mutations) |-> Nothing]
    /\ calibration = "running"

CalibrationNext == Abort \/ Prepare \/ Mutate \/ VerifyMutation \/ Summarize

-----------------------------------------------------------------------------
(* Property *)

\* A calibration never contradicts itself, and its score counts what it says: the killed and
\* the survived are exactly the mutants to be rejected that the verifier judged, on the
\* mutated bytes; a mutant it broke on, or that was not the registered one, is not scored,
\* nor lost. A verifier that ran into its limits is counted as one that rejected.
ScoreIsHonest ==
    /\ calibration # "contradicted"
    /\ Killed = {m \in Range(Mutations) : Expected[m] = "reject" /\ Outcome(m) # "none"
                                             /\ ruling[m] \in {"rejects", "overruns"}}
    /\ Survived = {m \in Range(Mutations) : Expected[m] = "reject" /\ Outcome(m) # "none"
                                             /\ ruling[m] = "accepts"}
    /\ \A m \in Killed \cup Survived : observations[m].target = "mutated"
    /\ calibration = "summarized" => \A m \in Range(Mutations) : Outcome(m) # "none"

=============================================================================
