-------------------------- MODULE RunOrchestrator --------------------------
(* A run from nothing to receipted or rejected: one call of runHarness creates
   it, calls of resumeHarness take it up again
   (src/core/run-orchestrator.js, run-artifacts.js, evidence.js, state-store.js).

   A process makes one call on the one run that is modelled and exits. The run
   directory is shared: frozen inputs, the state and its digest, the four files
   of the evidence bundle, the failure artifact and the workspace. No lock
   guards it. Overlap says whether a call may start while another one runs.

   A workspace is two files: base, which the run leaves alone, and target, which
   exists in the source and which the candidate changes. Bytes are told apart by
   their origin. A file of the bundle is identified by the call that wrote it.

   An I/O error outside executor, verifier and failure recording ends the call
   where a crash would end it and has no action of its own.

   A definition X_Y is a faulty variant of X. *)
EXTENDS Naturals, Lifecycle

CONSTANTS
    Procs,          \* processes that may call run or resume
    NoProc,         \* nobody
    Candidates,     \* bytes an executor may propose for the target
    CandidateOf,    \* what the executor of each call proposes
    Overlap,        \* whether calls on one run may overlap
    MaxCrashes, MaxFaults, MaxEdits    \* bounds on what the environment does

SourceBytes == {"missing", "source", "damaged"}

ASSUME RunAssumption ==
    /\ NoProc \notin Procs
    /\ Candidates \cap SourceBytes = {}
    /\ CandidateOf \in [Procs -> Candidates]
    /\ Overlap \in BOOLEAN
    /\ MaxCrashes \in Nat /\ MaxFaults \in Nat /\ MaxEdits \in Nat

VARIABLES
    runDir, inputs,         \* does the run directory exist, are its inputs frozen
    state, stateDigest,     \* state.jsonl; the state that state.sha256 covers
    evidence,               \* writer of each file of the bundle, or NoProc
    failure,                \* writer of failure.jsonl, or NoProc
    paired,                 \* which records of a failure have their digest beside them
    workspace,              \* the run's one workspace
    source,                 \* the project: as frozen, or changed
    pc, context, pending, result, outcome,    \* per call: its memory, and how it ended
    passed,                 \* history: the tree each call's verifier passed
    crashes, faults, edits  \* how often the environment interfered

stateVars == <<state, stateDigest>>
diskVars  == <<runDir, inputs, stateVars, evidence, failure, paired, workspace, source>>
envVars   == <<crashes, faults, edits>>
vars == <<diskVars, pc, context, pending, result, outcome, passed, envVars>>

-----------------------------------------------------------------------------

EvidenceFiles == {"verification", "result", "receipt", "digest"}
RunState == [lifecycle : LifecycleStates, receipt : Procs \cup {NoProc}]
NoState  == [lifecycle |-> "none", receipt |-> NoProc]

Tree == [base : SourceBytes, target : SourceBytes \cup Candidates]
NoWorkspace    == [base |-> "none", target |-> "none"]
EmptyWorkspace == [base |-> "missing", target |-> "missing"]
SourceTree     == [base |-> "source", target |-> "source"]
CandidateTree(p) == [base |-> "source", target |-> CandidateOf[p]]

\* A tree as it is, or after code that ran in it touched a file it should not have.
Touched(tree) == {tree, [tree EXCEPT !.base = "damaged"], [tree EXCEPT !.target = "damaged"]}

BundleOf(p)   == [f \in EvidenceFiles |-> p]
NoBundle      == BundleOf(NoProc)
BundleStarted == evidence # NoBundle

Labels == {"idle", "freeze", "plan", "begin", "inspect", "remove_workspace",
           "make_workspace", "copy", "check_copy", "execute", "check_result",
           "check_executed", "verify", "check_verified", "check_source", "link",
           "bind", "finish", "write_body", "write_digest",
           "fail_result", "fail_verified_result", "fail_verification", "fail_record",
           "pair_result", "pair_verified_result", "pair_verification", "pair_failure",
           "reject", "returned", "exited"}
Outcomes == {"none", "receipted", "rejected", "failed"}

StateReadable == state # NoState /\ state = stateDigest

Goto(p, to) == pc' = [pc EXCEPT ![p] = to] /\ UNCHANGED outcome

Return(p, how) ==
    /\ pc' = [pc EXCEPT ![p] = "returned"]
    /\ outcome' = [outcome EXCEPT ![p] = how]

-----------------------------------------------------------------------------
(* The state store *)

\* What advanceStoredRunState asserts of the state it reads. The source hash
\* that callers observe is the state's own.
CanAdvance(to, observedReceipt) ==
    /\ StateReadable
    /\ to \in Transitions[state.lifecycle]
    /\ state.receipt \in {NoProc, observedReceipt}

\* The advance up to its first write: the next state is computed, nothing is locked.
BeginAdvance(p, to, receipt) ==
    /\ pending' = [pending EXCEPT ![p] = [lifecycle |-> to, receipt |-> receipt]]
    /\ Goto(p, "write_body")

\* Where a call goes on once the state it wrote is complete.
Continuation ==
    [draft |-> "plan", planned |-> "begin", executing |-> "inspect",
     verified |-> "finish", receipted |-> "returned", rejected |-> "returned"]

WriteBody(p) ==
    /\ pc[p] = "write_body"
    /\ state' = pending[p]
    /\ Goto(p, "write_digest")
    /\ UNCHANGED <<runDir, inputs, stateDigest, evidence, failure, paired, workspace, source,
                   context, pending, result, passed, envVars>>

WriteDigest(p) ==
    /\ pc[p] = "write_digest"
    /\ stateDigest' = pending[p]
    /\ context' = [context EXCEPT ![p] = pending[p]]
    /\ pc' = [pc EXCEPT ![p] = Continuation[pending[p].lifecycle]]
    /\ outcome' = [outcome EXCEPT ![p] =
                      IF pending[p].lifecycle \in {"receipted", "rejected"}
                      THEN pending[p].lifecycle ELSE @]
    /\ UNCHANGED <<runDir, inputs, state, evidence, failure, paired, workspace, source,
                   pending, result, passed, envVars>>

-----------------------------------------------------------------------------
(* Entering the run *)

MayStart(p) == pc[p] = "idle" /\ (Overlap \/ \A q \in Procs : pc[q] \in {"idle", "exited"})

\* runHarness: the run directory is created exclusively. The project was read just
\* before: an edit made until now is one the frozen snapshot does not hold.
Run(p) ==
    /\ MayStart(p)
    /\ IF ~runDir
       THEN runDir' = TRUE /\ Goto(p, "freeze")
       ELSE UNCHANGED runDir /\ Return(p, "failed")
    /\ UNCHANGED <<inputs, stateVars, evidence, failure, paired, workspace, source,
                   context, pending, result, passed, envVars>>

\* writeFrozenRunInputs: inputs that are not complete do not read as inputs.
FreezeInputs(p) ==
    /\ pc[p] = "freeze"
    /\ inputs' = TRUE
    /\ BeginAdvance(p, "draft", NoProc)
    /\ UNCHANGED <<runDir, stateVars, evidence, failure, paired, workspace, source,
                   context, result, passed, envVars>>

Resumable == {"planned", "executing", "verified", "receipted"}

ContextLoads == runDir /\ inputs /\ StateReadable /\ source = "frozen"

Resume_StartsOver(p) ==
    /\ MayStart(p)
    /\ IF ContextLoads /\ state.lifecycle \in Resumable
       THEN /\ context' = [context EXCEPT ![p] = state]
            /\ Goto(p, IF state.lifecycle = "planned" THEN "freeze" ELSE "finish")
       ELSE Return(p, "failed") /\ UNCHANGED context
    /\ UNCHANGED <<diskVars, pending, result, passed, envVars>>

\* loadResumeContext and the dispatch of resumeHarness.
Resume(p) ==
    /\ MayStart(p)
    /\ IF ContextLoads /\ state.lifecycle \in Resumable
       THEN /\ context' = [context EXCEPT ![p] = state]
            /\ Goto(p, CASE state.lifecycle = "planned"   -> "begin"
                         [] state.lifecycle = "executing" -> "inspect"
                         [] OTHER                         -> "finish")
       ELSE Return(p, "failed") /\ UNCHANGED context
    /\ UNCHANGED <<diskVars, pending, result, passed, envVars>>

\* The advances from draft to planned and from planned to executing.
Plan(p) ==
    /\ pc[p] \in {"plan", "begin"}
    /\ LET to == IF pc[p] = "plan" THEN "planned" ELSE "executing"
       IN IF CanAdvance(to, NoProc)
          THEN BeginAdvance(p, to, NoProc)
          ELSE Return(p, "failed") /\ UNCHANGED pending
    /\ UNCHANGED <<diskVars, context, result, passed, envVars>>

\* inspectExistingEvidence: part of a bundle is refused, a whole one is
\* left to finishFromExistingEvidence.
Inspect(p) ==
    /\ pc[p] = "inspect"
    /\ \/ ~BundleStarted /\ Goto(p, "remove_workspace")
       \/ (\A f \in EvidenceFiles : evidence[f] # NoProc) /\ Goto(p, "finish")
       \/ /\ BundleStarted
          /\ \E f \in EvidenceFiles : evidence[f] = NoProc
          /\ Return(p, "failed")
    /\ UNCHANGED <<diskVars, context, pending, result, passed, envVars>>

-----------------------------------------------------------------------------
(* The isolated workspace *)

RemoveWorkspace_KeepsOld(p) ==
    /\ pc[p] = "remove_workspace"
    /\ Goto(p, "make_workspace")
    /\ UNCHANGED <<diskVars, context, pending, result, passed, envVars>>

RemoveWorkspace(p) ==
    /\ pc[p] = "remove_workspace"
    /\ workspace' = NoWorkspace
    /\ Goto(p, "make_workspace")
    /\ UNCHANGED <<runDir, inputs, stateVars, evidence, failure, paired, source,
                   context, pending, result, passed, envVars>>

MakeWorkspace(p) ==
    /\ pc[p] = "make_workspace"
    /\ IF workspace = NoWorkspace /\ source = "frozen"
       THEN workspace' = EmptyWorkspace /\ Goto(p, "copy")
       ELSE UNCHANGED workspace /\ Return(p, "failed")
    /\ UNCHANGED <<runDir, inputs, stateVars, evidence, failure, paired, source,
                   context, pending, result, passed, envVars>>

\* Copying writes over what is there; a source file that changed meanwhile or a
\* directory that is gone removes the copy and throws.
Copy(p) ==
    /\ pc[p] = "copy"
    /\ IF workspace # NoWorkspace /\ source = "frozen"
       THEN workspace' = SourceTree /\ Goto(p, "check_copy")
       ELSE workspace' = NoWorkspace /\ Return(p, "failed")
    /\ UNCHANGED <<runDir, inputs, stateVars, evidence, failure, paired, source,
                   context, pending, result, passed, envVars>>

CheckCopy(p) ==
    /\ pc[p] = "check_copy"
    /\ IF workspace = SourceTree
       THEN UNCHANGED workspace /\ Goto(p, "execute")
       ELSE workspace' = NoWorkspace /\ Return(p, "failed")
    /\ UNCHANGED <<runDir, inputs, stateVars, evidence, failure, paired, source,
                   context, pending, result, passed, envVars>>

-----------------------------------------------------------------------------
(* Execution and verification *)

Execute_AnyDirectory(p) ==
    /\ pc[p] = "execute"
    /\ workspace' \in Touched([workspace EXCEPT !.target = CandidateOf[p]])
    /\ result' = [result EXCEPT ![p] = CandidateOf[p]]
    /\ Goto(p, "check_result")
    /\ UNCHANGED <<runDir, inputs, stateVars, evidence, failure, paired, source,
                   context, pending, passed, envVars>>

\* The executor writes its candidate into the workspace and returns it, perhaps
\* touching more; or it throws, times out or is aborted.
Execute(p) ==
    /\ pc[p] = "execute"
    /\ \/ /\ workspace # NoWorkspace
          /\ workspace' \in Touched([workspace EXCEPT !.target = CandidateOf[p]])
          /\ result' = [result EXCEPT ![p] = CandidateOf[p]]
          /\ Goto(p, "check_result")
       \/ UNCHANGED <<workspace, result>> /\ Goto(p, "fail_record")
    /\ UNCHANGED <<runDir, inputs, stateVars, evidence, failure, paired, source,
                   context, pending, passed, envVars>>

\* assertDeterministicResultMatchesWorkspace: the declared change and no other.
ResultMatches(p) == workspace = [base |-> "source", target |-> result[p]]

CheckResult(p) ==
    /\ pc[p] = "check_result"
    /\ Goto(p, IF ResultMatches(p) THEN "check_executed" ELSE "fail_result")
    /\ UNCHANGED <<diskVars, context, pending, result, passed, envVars>>

CheckExecuted(p) ==
    /\ pc[p] = "check_executed"
    /\ Goto(p, IF source = "frozen" THEN "verify" ELSE "fail_result")
    /\ UNCHANGED <<diskVars, context, pending, result, passed, envVars>>

Verify_IgnoresStatus(p) ==
    /\ pc[p] = "verify"
    /\ workspace # NoWorkspace
    /\ workspace' \in Touched(workspace)
    /\ \/ passed' = [passed EXCEPT ![p] = workspace]
       \/ UNCHANGED passed
    /\ Goto(p, "check_verified")
    /\ UNCHANGED <<runDir, inputs, stateVars, evidence, failure, paired, source,
                   context, pending, result, envVars>>

\* The verifier passes what it finds in the workspace, perhaps touching it, or fails.
Verify(p) ==
    /\ pc[p] = "verify"
    /\ \/ /\ workspace # NoWorkspace
          /\ passed' = [passed EXCEPT ![p] = workspace]
          /\ workspace' \in Touched(workspace)
          /\ Goto(p, "check_verified")
       \/ UNCHANGED <<workspace, passed>> /\ Goto(p, "fail_verified_result")
    /\ UNCHANGED <<runDir, inputs, stateVars, evidence, failure, paired, source,
                   context, pending, result, envVars>>

CheckVerified(p) ==
    /\ pc[p] = "check_verified"
    /\ Goto(p, IF ResultMatches(p) THEN "check_source" ELSE "fail_verified_result")
    /\ UNCHANGED <<diskVars, context, pending, result, passed, envVars>>

CheckSource(p) ==
    /\ pc[p] = "check_source"
    /\ Goto(p, IF source = "frozen" THEN "link" ELSE "fail_verified_result")
    /\ UNCHANGED <<diskVars, context, pending, result, passed, envVars>>

-----------------------------------------------------------------------------
(* Evidence, and the states that bind it *)

LinkOrder == [verification |-> 1, result |-> 2, receipt |-> 3, digest |-> 4]

\* The next file of p's own bundle.
NextLink(p) ==
    CHOOSE f \in EvidenceFiles :
        /\ evidence[f] # p
        /\ \A g \in EvidenceFiles : LinkOrder[g] < LinkOrder[f] => evidence[g] = p

LinkEvidence_Overwrites(p) ==
    /\ pc[p] = "link"
    /\ evidence' = [evidence EXCEPT ![NextLink(p)] = p]
    /\ Goto(p, IF NextLink(p) = "digest" THEN "bind" ELSE "link")
    /\ UNCHANGED <<runDir, inputs, stateVars, failure, paired, workspace, source,
                   context, pending, result, passed, envVars>>

LinkEvidence_BindsEarly(p) ==
    /\ pc[p] = "link"
    /\ IF evidence[NextLink(p)] = NoProc
       THEN /\ evidence' = [evidence EXCEPT ![NextLink(p)] = p]
            /\ Goto(p, IF NextLink(p) = "receipt" THEN "bind" ELSE "link")
       ELSE UNCHANGED evidence /\ Return(p, "failed")
    /\ UNCHANGED <<runDir, inputs, stateVars, failure, paired, workspace, source,
                   context, pending, result, passed, envVars>>

\* writeEvidenceBundle: link(2) never overwrites, and a link that fails just throws.
LinkEvidence(p) ==
    /\ pc[p] = "link"
    /\ IF evidence[NextLink(p)] = NoProc
       THEN /\ evidence' = [evidence EXCEPT ![NextLink(p)] = p]
            /\ Goto(p, IF NextLink(p) = "digest" THEN "bind" ELSE "link")
       ELSE UNCHANGED evidence /\ Return(p, "failed")
    /\ UNCHANGED <<runDir, inputs, stateVars, failure, paired, workspace, source,
                   context, pending, result, passed, envVars>>

Bind(p) ==
    /\ pc[p] = "bind"
    /\ IF CanAdvance("verified", NoProc)
       THEN BeginAdvance(p, "verified", p)
       ELSE Return(p, "failed") /\ UNCHANGED pending
    /\ UNCHANGED <<diskVars, context, result, passed, envVars>>

Finish_ForgetsReceipt(p) ==
    /\ pc[p] = "finish"
    /\ IF context[p].receipt # NoProc /\ CanAdvance("receipted", NoProc)
       THEN BeginAdvance(p, "receipted", context[p].receipt)
       ELSE Return(p, "failed") /\ UNCHANGED pending
    /\ UNCHANGED <<diskVars, context, result, passed, envVars>>

\* finishFromExistingEvidence: only evidence the persisted state binds. A state
\* that binds a receipt is verified or later, never executing.
Finish(p) ==
    /\ pc[p] = "finish"
    /\ LET receipt == context[p].receipt
           bound   == receipt # NoProc /\ evidence = BundleOf(receipt)
       IN \/ /\ bound /\ context[p].lifecycle = "receipted"
             /\ Return(p, "receipted") /\ UNCHANGED pending
          \/ /\ bound /\ context[p].lifecycle = "verified"
             /\ CanAdvance("receipted", receipt)
             /\ BeginAdvance(p, "receipted", receipt)
          \/ /\ \/ ~bound
                \/ context[p].lifecycle = "verified" /\ ~CanAdvance("receipted", receipt)
             /\ Return(p, "failed") /\ UNCHANGED pending
    /\ UNCHANGED <<diskVars, context, result, passed, envVars>>

-----------------------------------------------------------------------------
(* rejectFailedRun: the failure is recorded, then the run is rejected. A record is
   a body and a digest, each written exclusively; the bodies share names with the
   bundle. A name that is taken skips the rest of the records but not the rejection. *)

Records == {"result", "verification", "failure"}

\* writeCanonicalPair up to its digest.
RecordAs(p, file, next) ==
    IF evidence[file] = NoProc
    THEN evidence' = [evidence EXCEPT ![file] = p] /\ Goto(p, next)
    ELSE UNCHANGED evidence /\ Goto(p, "reject")

RecordEvidence(p) ==
    /\ \/ pc[p] = "fail_result" /\ RecordAs(p, "result", "pair_result")
       \/ pc[p] = "fail_verified_result" /\ RecordAs(p, "result", "pair_verified_result")
       \/ pc[p] = "fail_verification" /\ RecordAs(p, "verification", "pair_verification")
    /\ UNCHANGED <<runDir, inputs, stateVars, failure, paired, workspace, source,
                   context, pending, result, passed, envVars>>

RecordFailure_Skipped(p) ==
    /\ pc[p] = "fail_record"
    /\ Goto(p, "reject")
    /\ UNCHANGED <<diskVars, context, pending, result, passed, envVars>>

RecordFailure(p) ==
    /\ pc[p] = "fail_record"
    /\ IF failure = NoProc
       THEN failure' = p /\ Goto(p, "pair_failure")
       ELSE UNCHANGED failure /\ Goto(p, "reject")
    /\ UNCHANGED <<runDir, inputs, stateVars, evidence, paired, workspace, source,
                   context, pending, result, passed, envVars>>

\* The record a call has begun, and what it records next.
PairOf    == [pair_result |-> "result", pair_verified_result |-> "result",
              pair_verification |-> "verification", pair_failure |-> "failure"]
AfterPair == [pair_result |-> "fail_record", pair_verified_result |-> "fail_verification",
              pair_verification |-> "fail_record", pair_failure |-> "reject"]
Pairing == DOMAIN PairOf

\* Only who wrote the body comes here, so that the digest's name is free.
RecordDigest(p) ==
    /\ pc[p] \in Pairing
    /\ paired' = paired \cup {PairOf[pc[p]]}
    /\ Goto(p, AfterPair[pc[p]])
    /\ UNCHANGED <<runDir, inputs, stateVars, evidence, failure, workspace, source,
                   context, pending, result, passed, envVars>>

Recording == {"fail_result", "fail_verified_result", "fail_verification", "fail_record"} \cup Pairing

\* Recording throws: the run is rejected all the same.
RecordingFails(p) ==
    /\ faults < MaxFaults
    /\ faults' = faults + 1
    /\ pc[p] \in Recording
    /\ Goto(p, "reject")
    /\ UNCHANGED <<diskVars, context, pending, result, passed, crashes, edits>>

\* Only an unchanged source and a state before its receipt; an error here
\* is swallowed.
Reject(p) ==
    /\ pc[p] = "reject"
    /\ IF /\ source = "frozen"
          /\ CanAdvance("rejected", NoProc)
          /\ state.lifecycle \in {"draft", "planned", "executing", "verified"}
       THEN BeginAdvance(p, "rejected", NoProc)
       ELSE Return(p, "failed") /\ UNCHANGED pending
    /\ UNCHANGED <<diskVars, context, result, passed, envVars>>

-----------------------------------------------------------------------------
(* Environment *)

Exit(p) ==
    /\ pc[p] = "returned"
    /\ Goto(p, "exited")
    /\ UNCHANGED <<diskVars, context, pending, result, passed, envVars>>

Crash(p) ==
    /\ pc[p] \notin {"idle", "returned", "exited"}
    /\ crashes < MaxCrashes
    /\ crashes' = crashes + 1
    /\ Goto(p, "exited")
    /\ UNCHANGED <<diskVars, context, pending, result, passed, faults, edits>>

\* The user changes the project, or puts the frozen bytes back.
UserEdit ==
    /\ edits < MaxEdits
    /\ edits' = edits + 1
    /\ source' = IF source = "frozen" THEN "changed" ELSE "frozen"
    /\ UNCHANGED <<runDir, inputs, stateVars, evidence, failure, paired, workspace,
                   pc, context, pending, result, outcome, passed, crashes, faults>>

Terminated == (\A p \in Procs : pc[p] = "exited") /\ UNCHANGED vars

-----------------------------------------------------------------------------

Init ==
    /\ runDir = FALSE /\ inputs = FALSE
    /\ state = NoState /\ stateDigest = NoState
    /\ evidence = NoBundle /\ failure = NoProc /\ paired = {}
    /\ workspace = NoWorkspace /\ source = "frozen"
    /\ pc = [p \in Procs |-> "idle"]
    /\ context = [p \in Procs |-> NoState]
    /\ pending = [p \in Procs |-> NoState]
    /\ result = [p \in Procs |-> "none"]
    /\ outcome = [p \in Procs |-> "none"]
    /\ passed = [p \in Procs |-> NoWorkspace]
    /\ crashes = 0 /\ faults = 0 /\ edits = 0

Enter(p)   == FreezeInputs(p) \/ Plan(p) \/ Inspect(p)
Isolate(p) == RemoveWorkspace(p) \/ MakeWorkspace(p) \/ Copy(p) \/ CheckCopy(p)
Prove(p)   == Execute(p) \/ CheckResult(p) \/ CheckExecuted(p)
              \/ Verify(p) \/ CheckVerified(p) \/ CheckSource(p)
Publish(p) == LinkEvidence(p) \/ Bind(p) \/ Finish(p)
Fail(p)    == RecordEvidence(p) \/ RecordFailure(p) \/ RecordDigest(p) \/ Reject(p)

\* The code of a call that has started.
Call(p) == WriteBody(p) \/ WriteDigest(p) \/ Enter(p) \/ Isolate(p) \/ Prove(p)
           \/ Publish(p) \/ Fail(p)

Next ==
    \/ \E p \in Procs : \/ Run(p) \/ Resume(p) \/ Call(p)
                        \/ RecordingFails(p) \/ Exit(p) \/ Crash(p)
    \/ UserEdit
    \/ Terminated

Spec == Init /\ [][Next]_vars

\* A started call goes on until it ends: executor and verifier have timeouts of
\* their own. Nobody has to start a call.
FairSpec == Spec /\ \A p \in Procs : WF_vars(Call(p)) /\ WF_vars(Exit(p))

-----------------------------------------------------------------------------
(* Properties *)

TypeOK ==
    /\ runDir \in BOOLEAN /\ inputs \in BOOLEAN
    /\ state \in RunState \cup {NoState} /\ stateDigest \in RunState \cup {NoState}
    /\ evidence \in [EvidenceFiles -> Procs \cup {NoProc}]
    /\ failure \in Procs \cup {NoProc} /\ paired \subseteq Records
    /\ workspace \in Tree \cup {NoWorkspace} /\ source \in {"frozen", "changed"}
    /\ pc \in [Procs -> Labels]
    /\ context \in [Procs -> RunState \cup {NoState}]
    /\ pending \in [Procs -> RunState \cup {NoState}]
    /\ result \in [Procs -> Candidates \cup {"none"}]
    /\ outcome \in [Procs -> Outcomes]
    /\ passed \in [Procs -> Tree \cup {NoWorkspace}]
    /\ crashes \in Nat /\ faults \in Nat /\ edits \in Nat

\* "Only verifier-passed candidate bytes can produce a receipt": what the verifier
\* of the call that wrote a receipt passed is the candidate of that receipt, all
\* of it and nothing else (executeRun between Execute and LinkEvidence).
ReceiptIsVerified ==
    \A p \in Procs : evidence["receipt"] = p => passed[p] = CandidateTree(p)

\* A receipt never covers a verification or a result of another call, although
\* bundles and failure records are linked file by file under the same names.
BundleIsConsistent ==
    /\ evidence["receipt"] # NoProc =>
          evidence["verification"] = evidence["receipt"] /\ evidence["result"] = evidence["receipt"]
    /\ evidence["digest"] # NoProc => evidence["receipt"] = evidence["digest"]

\* A state that names a receipt is backed by the complete bundle of that receipt:
\* what the user approves and apply reads exists, whoever else works on the run.
ReceiptHasBundle ==
    \A p \in Procs : state # NoState /\ state.receipt = p => evidence = BundleOf(p)

\* The committed lifecycle moves along the table and never leaves a terminal state.
LifecycleFollowsTable ==
    [][stateDigest # stateDigest' =>
          IF stateDigest = NoState THEN stateDigest'.lifecycle = "draft"
          ELSE stateDigest'.lifecycle \in Transitions[stateDigest.lifecycle]]_vars

Killed(p) == pc[p] = "exited" /\ outcome[p] = "none"

\* readFailedRunEvidence: the failure, and what else was recorded, is body and digest.
FailureReadable ==
    /\ "failure" \in paired
    /\ \A file \in {"result", "verification"} : evidence[file] # NoProc => file \in paired

\* A rejected run carries no receipt that review or apply would accept, and a record of its
\* failure that a reader accepts. It lacks one when the disk refused to write it, or when the
\* call that began failure.jsonl was killed before its digest: a resume that fails in turn
\* finds the name taken and rejects the run beside half a record.
RejectionIsExplained ==
    StateReadable /\ state.lifecycle = "rejected" =>
        /\ evidence["receipt"] = NoProc
        /\ \/ FailureReadable
           \/ faults > 0
           \/ failure # NoProc /\ Killed(failure) /\ "failure" \notin paired

\* "Resume restarts an interrupted executing run from the frozen input": as long as
\* no evidence exists, nothing an interrupted call left in the workspace or the state
\* keeps a resume from carrying the run to an end, unless the project changes meanwhile.
InterruptedRunEnds ==
    \A p \in Procs :
        pc[p] = "inspect" /\ ~BundleStarted
        ~> outcome[p] \in {"receipted", "rejected"} \/ Killed(p) \/ source # "frozen"

\* "A verified run with a complete receipt can finish its lifecycle without executing
\* the candidate again."
VerifiedRunFinishes ==
    \A p \in Procs :
        pc[p] = "finish" /\ StateReadable /\ context[p] = state /\ state.receipt # NoProc
        ~> outcome[p] = "receipted" \/ Killed(p)

=============================================================================
