# TLA+ models of believe-me

`believe-me` is a local verification harness: it runs an executor in an isolated
copy of a project, verifies the result with a frozen verifier, writes a receipt,
and applies the candidate to the project only after the user has approved exactly
that receipt. This directory models the parts of it whose correctness depends on
order, concurrency and failure, checks them with TLC, and proves the properties
that matter most with TLAPS.

## Inventory

Source paths are relative to the repository.

| Component | State it keeps | Operations | What is hard |
| --- | --- | --- | --- |
| Lifecycle, state store (`src/core/lifecycle.js`, `state-store.js`) | `state.jsonl` + `state.sha256` per run | read, guarded advance | two renames per write; read-check-write without a lock |
| Apply, recovery (`apply.js`) | `apply.lock`, `apply.recovery.lock`, journal pair, project files | apply, stale recovery | crash at any step, stale lock hand-over, user edits, concurrent calls |
| Rollback (`rollback.js`) | project files | capture, replace, restore, prove | window between check and rename; restore order |
| Run orchestration (`run-orchestrator.js`, `run-artifacts.js`) | run directory, frozen inputs, workspace, evidence | run, resume, reject | resumes of one run share workspace, evidence and state without a lock; crash between evidence and state |
| Evidence (`evidence.js`) | four files per bundle | write once, read | a bundle is four separate exclusive links |
| Adaptive session (`adaptive-session*.js`) | session lock, claims, attempts, failure, final | run, resume, status | stale lock takeover, deadline against a late child, torn pairs, budgets |
| Route selection (`route-selector.js`, `execution-policy.js`) | the selection in the plan; a flag per executor | select, resolve, execute once | resumes on machines with other adapters; overlapping invocations |
| Command verifier, Codex transport (`adapters/`) | child process, timers, isolated home | spawn, stop, settle, clean | timers against process events; descendants that outlive the child |
| Spring, Podman, Bubblewrap (`adapters/`) | containers, images | prepare, run, remove | clean-up on every path |
| Review, portable evidence, attestation (`core/`) | published artifacts | export, sign, verify | publication without overwrite while directories move, and its clean-up; files replaced between two readings |
| Localization (`localization.js`, `context-pack.js`) | none | scan, rank, cut to budget, validate | files change during the scan; four budgets that end in different places |
| Benchmark (`src/benchmark/`) | observations, ledger pair | measure a pair, calibrate, publish, read | what is recorded when a call or a reading fails; racing writers of a ledger |
| Contracts, CLI, scripts | none | validate, parse, print | none of the above |

How they interact: the CLI calls run, resume and apply. Run and resume advance the
state store and write evidence; apply reads both, writes the project and advances
the state store. An adaptive session calls run and resume for each attempt and never
applies. Executors and verifiers are callbacks of a run, and the verifier also of an
apply. All coordination between processes goes through files: exclusive creation,
rename, and digests that bind a body to a second file.

What makes each correct, in a sentence: a lifecycle only moves along the table and a
terminal one stays; an apply leaves the project either the source tree or the approved
candidate and the state says which; recovery acts only on complete evidence; a receipt
exists only for a verified, unmodified candidate; an attempt is claimed once and
recorded once; a stopped child process is always settled; a published name shows a whole
artifact; a pack says what it leaves out; a measurement is recorded as it was, or refused.

`PROJECT.json` lists every component with its status, and every hazard with its line
and the properties aimed at it.

## Apply: `Lifecycle`, `ApplyProtocol`, `AtomicApply`

**What is modelled.** `ApplyProtocol` is any number of concurrent calls of
`applyEvidenceBundle` on one receipted run, each in a process of its own that makes one
call. Shared variables are what is on disk: `state`/`stateDigest` (the lifecycle in
`state.jsonl` and the one `state.sha256` covers), `lock`, `recoveryLock` (owner or
`NoProc`), `journal`/`journalDigest` and `disk`. Per call: `pc` and what the JavaScript
keeps in memory (`approval`, `originals`, `cursor`, `snapshot`, `outcome`), lost in a crash.
An action is what the code does between two effects on the disk that another process, the
user or a crash can separate.

| Actions | Code |
| --- | --- |
| `Start` .. `ReadLock` | entry of `applyEvidenceBundle`, `assertNoActiveRecoveryLock`, `acquireApplyLock` |
| `ClaimRecovery` .. `ReleaseRecovery` | the take-over of a stale lock, `recoverClaimedStaleApply` |
| `Reread` .. `JournalDigest` | approval, capture of originals, journal |
| `CheckTarget` .. `CommitDigest` | `safeReplaceFile` per target, verification, advance to applied |
| `Restore` .. `Release` | `restoreOriginalBytes`, `markRolledBack`, cleanup, lock release; shared by a failed call and a recovery |
| `IOFailure`, `Crash`, `Exit`, `UserEdit` | an awaited filesystem call throws; the process dies; it ends; the user writes a file |

**Abstractions.** Bytes are their origin (`original`, `candidate`, `edited`, `absent`); a
file's mode and inode are part of it, and an edit is made in place. File 0 stands for
everything the run does not change. A pair of body and digest is read in one step (the code
reads both files concurrently and refuses a mismatch). `Reread` joins the reading of
state, evidence and tree with the first rename of the advance it decides. A digest file that was
written in part reads as one that does not cover the body. Failing to release the
recovery lock or the apply lock behaves like a crash at that step and has no action of its own. The evidence bundle
is complete and never changes during apply, so it is not a variable.

**Properties** (each stated with its comment in the module): `MutualExclusion`,
`StateDiskAgreement`, `MutationIsJournaled`, `TerminalStateIsTrue`, `OutcomeHolds`,
`UnlockedEditsSurvive`, the action properties `EvidenceIsFrozen` and
`RecoveryLockIsPreserved`, the liveness properties `CallEnds` and `StaleLockIsCleared`, and the
refinement `AppliesAtomically`. The user may write any file at any time; agreement of state and
files is claimed for the files he left alone, since rollback overwrites by design.

**Abstract specification.** `AtomicApply` has two variables and three actions: approve, apply
(lifecycle and tree change together), roll back. `ApplyProtocol` implements it with the
lifecycle the digest covers as `phase` and, as `tree`, what recovery would leave: the journal's
bytes while a complete journal of an uncommitted run exists, the files otherwise; a file the user edited counts as what the program owes there. The digest
rename of the commit is the step where the project changes. A crash between the two renames of the commit is a case where `tree` is a convention: it shows the source, what the
journal owes, although the files hold the candidate and recovery refuses the torn pair for good. What the code does there is said by `EvidenceIsFrozen`.

| Run | Instance | What it shows |
| --- | --- | --- |
| `apply_safety` | 3 calls, 2 targets (one new), 2 crashes, 1 I/O failure, 1 edit, reused pids | the safety and action properties and the refinement `AppliesAtomically`; 320 thousand states up to symmetry |
| `apply_liveness` | 3 calls, 1 crash, no symmetry | `CallEnds`, `StaleLockIsCleared` under `FairSpec` |
| `candidate_drift` | 2 calls, 1 edit | violation: a tree that is not the approved candidate is verified and applied, against `docs/DESIGN-DECISIONS.md:20-21` |

**Order of mutation and verification.** The code renames every candidate into the project (`apply.js:908-919`), verifies a copy of the mutated tree and undoes the
renames when the verifier rejects. `docs/ARCHITECTURE.md:31` has it the other way round ("verify a fresh candidate copy, then mutate atomically"). The model follows
the code: while the verifier runs, the project holds bytes that nothing has verified yet.

**Why these bounds.** Three calls: an owner that dies, one that takes over and one that
interferes; with two crashes the one that takes over dies as well. Two targets: the smallest number with a
partial replacement, a partial restoration and an order; one of them is new, so that removal is a
restoration too. One I/O failure and one edit: each property already names the single step they hit.
A dead pid may read as alive (`PidReuse`) in the safety runs, where that must do no harm, and not in the liveness run, where it would
block by design.

**Fairness.** `FairSpec` assumes weak fairness of a started call's own steps and of its process'
end. The code never waits for another process: each step is an awaited filesystem call or the
verifier, which has a timeout of its own. Nothing makes a process start, and
crashes, failures and edits are never forced. `StaleLockIsCleared` is checked where a crash budget of one
is spent on the owner: a recovering process that dies leaves its lock for manual
investigation, as documented.

**Proved** in `ApplyProtocol_proofs`, for any number of processes, targets, crashes, failures and edits:

- `TypeCorrectness`: `Spec => []TypeOK`. `TypeOK` is not inductive: `Restore` writes
  `originals[p][cursor[p]]` back to the project, and nothing in `TypeOK` says that those bytes were
  read, or that the cursor names a target. `TypeInv` adds what each program location knows: from the
  journal on and in a restore, every original is captured; in the capture loop, those below
  the cursor; the cursor's range per location; a journal or its digest is empty or complete.
- `ApplyMutualExclusion`: `Spec => []MutualExclusion`. `LockInv` says who owns which lock at which
  location: a call in its main section owns the apply lock; one that recovers owns the recovery lock and the apply
  lock belongs to a process that has exited, so that it can neither be in its main section nor come back.
  The recovery lock is only created when absent and only removed by its owner, which makes the recoverer unique.

`ApplyData_proofs` builds on both for what the calls leave on the disk. None of its properties is inductive: that the project matches the lifecycle when
the lock goes depends on what every step between found. `DataInv` joins three relations between shared data
with what each program location knows of them:

- `StatePairInv`: a body is at most one transition ahead of its digest. `TreeInv`: the project is the tree of the committed lifecycle, and only a complete journal
  allows candidate bytes before that is terminal. `JournalInv`: a journal lives under a lock and holds the source.
- `JournalAt`, `StateAt`, `OriginalsAt`, `DiskAt`: the journal is complete from the first replacement until the state is terminal; what was captured is the
  source; replacement and restoration have come as far as the cursor. `EditsAt`: a call that writes has found no edit made without a lock, which is
  what lets rollback overwrite without looking.
- A call outside the critical section knows nothing and claims nothing (`UninvolvedAfter`); at most one is inside, by `LockInv`, and its step is compared
  with that of nobody else (`DataAtStands`).

From it follow `StateDiskAgree`, `MutationsAreJournaled`, `TerminalStatesAreTrue`, `OutcomesHold` and `UnlockedEditsAreKept`; the action properties `EvidenceStaysFrozen` and
`RecoveryLockStays` follow from lock ownership. `ApplyIsAtomic` proves the refinement: under `DataInv` the project that `AtomicApply` sees is whole
(`DataInvMakesWhole`), each rename of a digest is the abstract step of its lifecycle (`DigestMoves`), and every other step is a stutter.

`ConstantsAssumption` is all that is assumed: `N` is positive, the bounds are naturals, and `NoProc` is no process.
## Run and resume: `RunOrchestrator`

**What is modelled.** One run, from no directory to `receipted` or `rejected`: one call of `runHarness`
creates it and calls of `resumeHarness` take it up again, each in a process that makes one call. On disk
are the run directory and its frozen inputs, `state`/`stateDigest`, the four files of the evidence
bundle, the failure artifact, which records of a failure have their digest (`paired`), the workspace and the project. Per call, and lost in a crash: `pc`, the `context` it loaded,
the `pending` state it is writing, the executor's `result` and `outcome`. `passed` is history: the tree
each call's verifier accepted.

| Actions | Code |
| --- | --- |
| `Run`, `FreezeInputs`, `Plan` | `createRunDirectory`, `writeFrozenRunInputs`, the advances to planned and executing |
| `Resume`, `Inspect`, `Finish` | `loadResumeContext` and the dispatch of `resumeHarness`, `inspectExistingEvidence`, `finishFromExistingEvidence` |
| `WriteBody`, `WriteDigest` | the two renames of every `writeRunState`; what an advance decided waits in `pending`, and nothing is locked |
| `RemoveWorkspace` .. `CheckCopy` | `rm` and `createIsolatedWorkspace` |
| `Execute` .. `CheckSource` | `executeRun`: executor, result check, source check, verifier, both checks again |
| `LinkEvidence`, `Bind` | one link of `writeEvidenceBundle` per step, the advance to verified |
| `RecordEvidence`, `RecordFailure`, `RecordDigest`, `Reject` | `writeFailedRunEvidence`, each record's body and digest written in a step of its own, and the rest of `rejectFailedRun` |
| `RecordingFails`, `Crash`, `UserEdit` | the disk refuses a record; the process dies; the project changes or changes back |

**Abstractions.** A workspace has one file the run leaves alone and one the candidate changes, known by the origin of their
bytes. A file of the bundle is known by the call that wrote it, so a bundle is consistent when
all four are of one call; a failure record uses two of the same names. Executor and verifier are arbitrary: they succeed, fail, or touch
a file they should not. Routes are `RoutedRun`'s; the hermetic boundary and the field-by-field binding checks decide whether a
call is refused before it starts and are left out. An I/O error outside executor, verifier and failure recording ends the
call where a crash would.

**Overlap.** No lock guards a run. `Overlap` says whether a call may start while another one runs. The command line
never overlaps calls on one run: `run` makes a new id, sessions resume their child under the session lock. The exported
functions do not forbid it, so both cases are checked.

| Run | Instance | What it shows |
| --- | --- | --- |
| `run_sequential` | 3 calls one after the other, 2 candidates, 2 crashes, 1 failed record, 1 edit | `ReceiptIsVerified`, `RejectionIsExplained`, `LifecycleFollowsTable`, and under `FairSpec` `InterruptedRunEnds` and `VerifiedRunFinishes` |
| `run_overlap` | 2 overlapping calls, 2 crashes, 1 failed record, 1 edit | `BundleIsConsistent` and `ReceiptHasBundle` need no lock: exclusive links and the guarded advance suffice |

**What overlapping calls break.** `ReceiptIsVerified` and `LifecycleFollowsTable` are checked for calls that do not overlap. With `Overlap`, and nothing failing, TLC finds both
violated by two calls: two resumes share the workspace, and the verifier of one passes the source bytes that the other has just copied, while the other executes the same candidate again,
so that the first writes a receipt for bytes its verifier never saw (`docs/ARCHITECTURE.md:38` says that only verified candidates get one); and since `advanceStoredRunState` compares nothing
when it writes (`state-store.js:119-123`), a slower call takes a state from rejected back to executing. `MCRunOverlap.cfg` with either property in place of its own shows it.

**A torn failure record.** `writeCanonicalPair` writes body and digest separately and exclusively. A call killed between the two of
`failure.jsonl` leaves the run executing; a resume that fails in turn finds the name taken (`EEXIST`), which `rejectFailedRun` swallows
(`run-orchestrator.js:327`), and rejects the run beside half a record, which `readFailedRunEvidence` refuses. No disk has failed.
`RejectionIsExplained` names this case, and a disk that refused a record, as its only exceptions. The records of the result and of the
verification cannot be torn in a rejected run: their names are the bundle's, and a resume that finds part of a bundle refuses.

**Why these bounds.** Three sequential calls are a run, a resume and a resume of the resume; two crashes interrupt both of
them. Two candidates let the attempts differ, which is what a stale result, bundle or workspace would
mix up. Two overlapping calls are the smallest conflict; the two properties of `run_overlap` are proved for any number.

**Fairness.** Weak fairness of a started call's steps and of its process' end: executor and verifier have timeouts of their own, and
no step waits for another process. `InterruptedRunEnds` speaks of runs without evidence: once a bundle or a failure record is begun
and interrupted, every resume refuses it, by design. Nobody has to resume.

**Composition with apply.** `ApplyProtocol` starts at a receipted run with complete, unchanging evidence. `ReceiptHasBundle` is
that assumption seen from here: a state that names a receipt is backed by its whole bundle, and
`WholeBundlesStay` that nothing changes the bundle afterwards.

**Proved** in `RunOrchestrator_proofs`, for any number of calls, candidates, crashes, failures and edits:

- `RunTypeCorrectness`: `TypeOK`, with one addition (`PendingAt`): a call that writes a state has computed one its continuation knows.
- `BundlesAreConsistent` and `ReceiptsAreBacked`, both from `BundleInv` and with overlapping calls. A link never
  overwrites, so what has been linked stays; a receipt is linked only after the two files it covers are the same
  call's; a call that linked its digest never comes back to linking (`PastLinking`); and only a call that linked, or read, a whole
  bundle has its receipt in a pending write. The last part is needed because the write itself checks nothing.
- `WholeBundlesStay`, from `BundleInv`: no link and no failure record finds a free name once a bundle is whole, and its own
  call links no more. With `ReceiptsAreBacked` this is the complete, unchanging evidence `ApplyProtocol` starts from, even
  when a slower call takes the state back.
- `ReceiptsAreExamined`, with overlapping calls: what remains of `ReceiptIsVerified`. The call that linked a receipt has the result
  of its own executor and a pass of its own verifier; that the tree passed was its candidate's is what overlap takes away.
- `SerialReceiptsAreVerified`: `ReceiptIsVerified` when `Overlap` is false. `SerialInv` says that one call is active, that
  what it finds in the workspace after a check is what it checked, and that a receipt belongs to a call which is
  past verifying. The hypothesis is needed, as described above.
- `SerialRejectionsAreExplained` and `SerialLifecycleFollowsTable`, under the same hypothesis, from `TableInv` over `SerialInv`: the state a call is about to complete
  follows the one that is complete (`WriteAt`), and a call comes to its rejection from an executing run without a receipt, by way
  of a failure record whose other names nobody else can have begun (`RecordAt`); `FailureInv`, which overlap does not disturb, adds that a failure record
  without its digest is one its writer is still writing, was killed over, or the disk refused. That is why a store that compares nothing when it writes is safe for one call at a time; with overlapping calls both fail, as above.

`RunAssumption` is all that is assumed: `NoProc` is no process, candidates differ from the other bytes, the bounds are naturals.

## Adaptive sessions: `AdaptiveSession`

**What is modelled.** One session: `runAdaptiveSession` creates it, `resumeAdaptiveSession` takes it up again, each in a process that
makes one call. On disk are the session directory, `session.lock`, and the pairs of body and digest that `writePair` creates exclusively:
a claim and an attempt per index, one failure, one final session. A pair is absent, torn or complete, and an attempt keeps what the
child reported and what `nextTransition` made of it. Lost in a crash are `pc`, the lock attempts, the owner that was read, the index and the child's outcome.
`started` is history.

| Actions | Code |
| --- | --- |
| `RunSession`, `Initialize`, `ResumeSession` | `executeAdaptive` up to the lock |
| `CreateLock` .. `RemoveLock`, `Release`, `Unlink` | `acquireSessionLock`, `releaseSessionLock`: one step per file operation, so a lock can be replaced between a read and a removal |
| `CheckTerminal`, `LoadRecords` | `continueAdaptive` up to its loop, `readAttemptRecords`, `readCompletedSession` |
| `Claim`, `ClaimBody`, `ClaimDigest` | `claimAttempt` and its `writePair` |
| `RunChild`, `ResumeChild`, `ChildEnds`, `ChildThrows` | the runner: `runAttempt`, `resumeAttempt`, `successOutcome`, `failedOutcome` |
| `Deadline`, `LateChild`, `GraceEnds`, `FailureBody`, `FailureDigest` | `runAttemptWithinDeadline` |
| `AttemptBody` .. `FinalDigest` | the rest of the loop, `nextTransition`, `finalize` |
| `WriteFails`, `Crash`, `Exit` | a pair cannot be written; the process dies; it ends |

`NextTransition`, `Spent` and `Reported` are operators, in the order of the code's checks.

**Abstractions.** A child is what a resume finds of its run: nothing, open, receipted or rejected; that is what `RunOrchestrator` leaves
on disk. Its outcome is any of `ChildOutcomes`. A rejected child that is resumed reports a refusal, whatever it had failed with: a retry
that was due is then lost, as in the code. Child attempts are numbered from 1, in the code from 0. Launch, input and the attempts directory are
written in one step, since a session that lacks one is refused all the same. The record files are read in one step. The bindings
between claims, attempts, routes and contracts always match: nothing but this code writes the files. A deadline comes after the
child's run exists. No pid is used again.

| Run | Instance | What it shows |
| --- | --- | --- |
| `session_sequential` | 3 calls one after the other, 3 attempts, 11 outcomes, every budget, 1 crash, 1 fault | `RetryWithinBudget`, `OneTerminalArtifact`, and under `FairSpec` `CallEnds` and `ResumedSessionTerminates` |
| `session_overlap` | 3 overlapping calls, 2 attempts, 2 crashes, 1 fault, symmetric calls | `ChildStartedOnce` and `FinalIsBacked` do not need the lock: exclusive claims and attempts suffice |
| `double_child` | 3 overlapping calls, 1 attempt, 1 crash | violation: two resumes execute one child, against `test/integration/adaptive-session.test.js:495` |

**The violation.** The run crashes while its child is open. Two resumes read the dead owner's lock and both find it stale. One removes it, takes
the lock and resumes the child; the other, slower, removes the path, by now the first one's lock, and takes it as well. Both execute the one child run, which
brings about the overlapping resumes described under run and resume. `OneTerminalArtifact` needs the lock too and is checked without overlap.

**What a resume cannot finish.** `ResumedSessionTerminates` has hypotheses, each excluding a stop the code chooses: a torn pair is
refused for good (`Intact`), and a claim whose child never came to exist can neither be resumed nor run (`OpenChildResumes`). Faults
that are still to come are excluded as well. A lock file without its text, left by a crash inside
the write, makes every later call fail before `load`.

**Why these bounds.** Three attempts are the fewest for which a sum over attempts differs from the last attempt and still decides about
another. The budgets and outcomes are chosen so that every reason of `nextTransition` occurs. A stale lock and two takers need three calls.

**Fairness.** Weak fairness of a started call's own steps, its deadline and grace timers among them, and of its exit. A child need not end: `CallEnds`
holds because the deadline does not wait for it. Nobody has to resume.

**Proved** in `AdaptiveSession_proofs`, for any number of calls, attempts, outcomes, crashes and faults:

- `SessionTypes`: `TypeOK`. That an index stays within the attempt budget needs that a retry is recorded only below it (`RetryLeavesOne`).
- `ChildrenStartOnce`: a call between creating a claim and running its child is the only one there for that index, and its child has not been
  started (`FreshAt`); exclusive creation is all it takes.
- `RetriesStayWithinBudget` and `FinalsAreBacked`, from `ChainInv`: nothing on disk is changed but from torn to complete (`Kept`),
  every claim has a chain of complete, retryable attempts before it (`Before`), each recorded transition is `nextTransition` of the outcomes up to it, and
  a call's place implies what it has found or written (`PlaceAt`). A final session then has nothing after its last attempt, because a claim there
  would need that attempt to be due for a retry.
- `SerialSessionsEndOnce`: `OneTerminalArtifact` when `Overlap` is false (`SerialInv`): what the only call has found absent stays absent until it writes.

The first four hold with overlapping calls, so the lock is needed only against executing one child twice and against ending a session twice.
Sums over attempts stay opaque: a budget is spent or not. `SessionAssumption` is all that is assumed of the constants.

## Supervised processes: `ProcessSupervisor`

**What is modelled.** One call of a verifier or of the Codex transport, from its preparation to its result. The three adapters share
their shape (a child, stop requests, timers, one settlement, cleaning, a verdict) and differ in what `kind` says:

| Kind | Code | Differs in |
| --- | --- | --- |
| `codex` | `codex-transport.js`, `assertCodexTransportCompleted` | isolated home, prompt on stdin, no timer that gives up waiting, process group, every failure is an infra error |
| `command` | `command-verifier.js` | process group |
| `spring` | `spring-verifier.js` on the host | the child alone is signalled; nothing is cleaned |
| `podman`, `podman_service` | `spring-verifier.js` with `podman-spring.js` | the child is the Podman client; container, and with a service a network and a second container |

| Actions | Code |
| --- | --- |
| `MakeHome` | `createIsolatedCodexHome` |
| `CreateNetwork` .. `UndoNetwork` | `prepareService`, `cleanupPreparedService`; each command may have its effect and fail |
| `Spawn`, `Timeout`, `Abort`, `OutputExceeded`, `KillTimer` | `runVerifierProcess`, `codexCliTransport`: `requestStop`, `terminateWithGrace` |
| `SettleTimer`, `Close`, `ErrorEvent`, `StdinError` | what resolves the promise, once, and clears the timers |
| `Probe`, `ProbeAgain`, `ProbeLast`, `CleanHome` | `cleanProcessTree`, the rest of `finish` |
| `RmVerifier` .. `VerifyResidue` | `cleanupFunction`, `verifyNoResidue` |
| `Judge` | `buildResult` and the errors after it |
| `ForkHelper` .. `ContainerEnds` | the operating system and Podman |

**Abstractions.** Time is order: the settle timer (`FORCE_SETTLE_MS`) fires after the kill timer (`TERMINATION_GRACE_MS`), everything else in
any order. SIGTERM changes nothing the child could not do anyway. SIGKILL reaches the child and any subset of the others it is
meant for; one it does not reach has changed its user. One helper in the group and one stray outside it stand for any
number. A killed Podman client creates no container later. A group number is not used again. What Podman's inspection
refuses before anything is created has no state. Options, specifications and the fixture are valid. Output that
arrives for Codex after its prompt could not be written is left out: the call has failed by then. POSIX only: without process groups the
code signals the child alone, as `spring` does.

| Run | Instance | What it shows |
| --- | --- | --- |
| `supervisor` | all five kinds; nothing else to bound | `PassIsWhole`, `VerdictLeavesNothing` and, under `FairSpec`, `CallEnds` |

**What a reader should notice.** An abort is no reason to fail: an aborted child that still exits with code zero passes (`PassIsWhole`
allows `stop` to hold `abort`). `CallEnds` has an exception: a Codex call whose child is gone waits for the pipes, which a descendant outside the
group may hold for good; the verifiers give up (`SettleTimer`), the transport does not. A service or network whose command was killed after it
took effect is left behind, though with an infra error. `VerdictLeavesNothing` is about the process group: a stray outside it is not
looked for, and a Spring verifier on the host makes no promise at all.

**Fairness.** Weak fairness of the supervisor's own steps: timers fire, callbacks run, and Podman commands end because `execFile` is given a timeout.
Processes that SIGKILL reached end. Nobody else has to end.

**Proved** in `ProcessSupervisor_proofs`, for any `Kinds`: `SupervisorTypes`, `PassesAreWhole` and `VerdictsLeaveNothing`, from one inductive
invariant, `SupervisorInv`. Neither property is inductive: a pass is whole because nobody can fork once the child is gone
and its pipes are closed (`ClosedIsWhole`); a clean group stays clean for the same reason (`CleanGroup`); and what Podman removed is not
created again because the client has ended or was killed before anyone stopped waiting for it (`Powerless`), which rests on the order of the two
timers.

## Publication and attestation: `Publication`

**What is modelled.** Processes that publish a bundle, sign the bundle they find and publish the signature, or verify both, at one path: `writeAtomicArtifactNoOverwrite` and
`readBoundedRegularFileNoFollow` of `safe-artifact.js` step by step, with what `portable-evidence.js` and `bundle-attestation.js` do with the
bytes. Shared is the disk: where each directory is (at the path, beside it, elsewhere), what its two names and the temporary names point to, what each inode
holds. The owner of the machine may rename the directory, put another in its place, and remove what was published. An operation may fail, a process may crash.

| Actions | Code |
| --- | --- |
| `StatParent`, `Admit`, `OpenTemporary`, `WriteBytes`, `AssertWritten`, `Link`, `AssertLinked` | the `try` block |
| `Truncate`, `CheckPath`, `RemoveAtPath`, `CheckParent`, `RemoveAtParent` | the `catch` block, `removePathIfHandleIdentity`, `removeFileFromOriginalParent` |
| `Sweep` | the `finally` block |
| `Look`, `Read`, `ReadFails`, `ConfirmForSigning`, `ConfirmBundle`, `ConfirmAttestation` | bounded reading, which a failing operation ends, and what its caller checks |
| `MoveDirectory`, `RemoveOutput`, `Crash` | the owner, the operating system |

**Abstractions.** An inode is known by the process that made it and holds nothing, a part, or the whole artifact. Parsing accepts exactly a whole artifact. A signature is over one bundle
by one key. Fsync of directories and what a power failure leaves are not modelled: a crash is the end of a process.
That an accepted verification read a signature by the trusted key over the bundle it read is the code's last check itself (`Vouches`), so it is not stated as a property; the question
that depends on everyone else is the opposite one, whether a pair that is in order can be refused.

| Run | Instance | What it shows |
| --- | --- | --- |
| `publication` | two exports, or an export and its signature, with 2 acts of the owner, 1 fault and 1 crash; two exports, a signer and a verifier with 2 acts, or with 1 fault and 1 crash; one export with 8 acts | `OutputIsWhole`, `SuccessStays`, `FailureRetracts`, `StandingPairIsAccepted`; 5.4 million states up to symmetry |

The properties name what the code cannot promise: between the check of a name and its removal the owner can put another artifact there (`SuccessStays`), a truncation can fail, a
directory can be moved out of reach, and a sweep that throws after success makes the call fail with its artifact published (`FailureRetracts`). `Scenarios` bounds who takes
part and how often things go wrong; two exports are the smallest race, and a signature of a bundle that another call contends for needs all four parties.
`StandingPairIsAccepted` is about the verifier, which reads bundle and signature one after the other. `due` remembers the verifiers that began while a published bundle and a
published signature over it, by the trusted key, stood at the path; an act of the owner or a fault of the verifier's own reading takes them out. What is left are the other calls:
were a link to replace a name, or a cleaning to take a name that is not its own, a verifier would find a bundle and a signature that do not belong together.

One way to lose an artifact needs more acts than two. While the temporary name is opened (`safe-artifact.js:166`) and at every check after it, the code compares the path
with the directory it was given. An owner who exchanges the directory just before and puts it back just after, four times over, is not noticed: the artifact is linked in another
directory than the call reports, and cleaning does not look there. The proofs found it, no run had. The model notes such an opening
as `misplaced`, the two properties except it, and the last scenario has the eight moves it takes.

**Proved** in `Publication_proofs`, for any number of exporters, attesters and verifiers and any scenarios; `ProcessAssumption`, which tells the processes apart, is all that is assumed:

- `OutputsAreWhole` from `LinkInv`: an inode has a name only after its bytes were synced and checked, by its writer's link, and is emptied only
  by the writer, on its way to failure. It is needed because the property says nothing of an inode before it has a name.
- `StandingPairsAreAccepted` from `DueInv`: as long as every removal takes its own name, the pair a due verifier began with still stands (`StandsIn`), and the verifier is on its way
  to it (`Along`): what it has read so far is that pair, so that each of its checks holds.
- `FailuresRetract` from `RetractInv`: a writer's names are in the directory it was given unless that was exchanged (`HomeAt`), it empties before it removes, and
  as long as nothing hinders it the name is where it looks for it, and then gone (`RetractAt`).
- `SuccessesStay` from `StayInv`: as long as no writer's check was made out of date, what a removal is about to take is the writer's own (`RemovesItsOwn`), so that
  no call that lost removes what another published.

## Benchmark: `BenchmarkPair`, `MutationCalibration`, `BenchmarkLedger`, `Benchmark`

**What is modelled.** Three calls that share nothing but their arguments; `Benchmark` composes them, a behaviour being one of the three.

- `BenchmarkPair`: `runPairedBenchmark` with its two arms. The provider edits inside or outside the allowed paths or leaves an irregular entry (a symbolic link, say), where a
  snapshot looks or under a name that snapshots exclude; its transport returns, times out, fails, uses a prohibited event or throws; every reading of the working copy may fail, the first one included (`FirstInventoryFails`). Recorded is what the validators of `contracts.js` admit.
- `MutationCalibration`: the loop over registered mutations, what the verifier answers, how an answer is classified and admitted, and the score.
- `BenchmarkLedger`: several writers and readers of one ledger, body and digest each linked exclusively, and an owner who removes or replaces them. The digest is no signature: an edit that keeps the rows, their hashes, the summary and the digest consistent is read like a measurement, and the model says so (`Replays`). Comparison ledgers use the same functions.

| Run | Instance | What it shows |
| --- | --- | --- |
| `benchmark` | both orders, 2 configurations, 2 failing readings; 4 mutants; 3 writers, 2 readers, 2 acts of the owner | `PairIsKept`, `ObservationIsTrue`, `ScoreIsHonest`, `LedgerHasOneAuthor` |

**What a reader should notice.** Where these properties have an exception, the code has it:

- The first inventory of the direct arm stands before its `try` (`runner.js:216`). When it cannot be read the arm throws, and the pair is lost, with what the harness arm has measured if that one ran first (`PairIsKept`).
- A direct arm that was verified and whose last snapshot then fails becomes a safety refusal; the pair's validator (`contracts.js:680-688`) takes it for an unsafe control whose verifier ran and throws, so the
  pair is lost, while `docs/BENCHMARK.md:199-202` has the evidence system "record unfavorable protocol facts instead of silently deleting" them (`PairIsKept`).
- When the transport throws, nothing is compared; when the inventory after execution cannot be read, the one the catch block takes is recorded but not judged. Edits outside the allowed paths are then not recorded as unsafe, though
  `docs/BENCHMARK.md:24` says that the benchmark observes them (`UnsafeIsRecorded`).
- An inventory reads every path and refuses an irregular entry at any; the last snapshot skips excluded names (`snapshot.js:106`). So an irregular entry left in `build` goes unrecorded when the transport threw, and one the verifier leaves there does not
  stand in the way of a success (`UnsafeIsRecorded`, `SuccessMeansVerified`).
- A verifier that overruns its limits counts as one that rejects, hence as a kill (`ScoreIsHonest`).
- A writer that stops between body and digest leaves a ledger that no later call completes; a reader refuses it (`LedgerHasOneAuthor`).

**Abstractions.** Observations keep what decides: terminal state, verification, unsafe, changed paths, configuration. A ledger is known by the measurement it is of, a digest by the body it is of.
Statistics over recorded pairs (bootstrap, p-value) are numerical and not modelled, nor is durability after a power failure.

**Proved** in `Benchmark_proofs`: each call has an inductive invariant of its own, kept by its steps and by the stutters the other two are for it.

- `PairsAreKept`, `ObservationsAreTrue`, for any configurations and number of failing readings. The invariant says at each step of the running arm what its locals know of the working copy
  (at the last snapshot: `completed` implies a verified, nonempty diff that is the whole tree; a verified candidate was neither unsafe nor irregular; an unreadable tree was recorded unsafe or never compared), and, once the direct arm has returned, what its
  observation has kept of that. Then every observation an arm offers is admitted, so that only `RecordPair` can lose a pair.
- `ScoresAreHonest`, for any finite list of distinct mutants and any expectations: a recorded observation is the classification of the verifier's answer and was admitted.
- `LedgersHaveOneAuthor`, for any number of writers, readers and acts: a file holds what some writer built or the owner put there; while the owner leaves the files alone (`Undisturbed`), who links the body first is the only one that goes on
  to the digest, so that what has been read once stays.

Assumed of the constants: `None`, `Nothing` and `NoFile` are none of the values they stand beside.

**Why these bounds.** Two failing readings reach both readings of one arm or one of each; two configurations are a mismatch. The mutants are two to be rejected, one to be accepted, one undetermined, so that sums can mix them up.
Three writers let one lose against each of two. Two acts of the owner are a removal and an edit, or a consistent edit of body and digest.

## Packs and routes: `Localization`, `RoutedRun`

**What is modelled.** `Localization` is one call of `buildContextPack`: it reads the files of a frozen project one after the other while
the user may edit them, then selects excerpts under four budgets, and runs the validator of `contracts/context-pack.js` on the result.
`RoutedRun` extends it with what the pack is for: a run is created with the pack or without one, its policy selects the
first route that matches the pack's bytes and the run's features, the selection is frozen in the plan, and every call on the run, on a machine with whatever adapters,
resolves that selection again and gets an executor that may be invoked once.

| Definitions | Code |
| --- | --- |
| `ScanFile` | the loop over the snapshot's entries, with the comparison against the snapshot and the reasons to leave a file out |
| `LineEnd`, `Around`, `Merge`, `Merged`, `MatchedExcerptRanges`, `SafeUtf8Prefix`, `AddExcerpt`, `Built`, `BuildExcerpts` | `localization.js` up to `buildExcerpts`; a loop is a recursive function of how far it has come |
| `Wanted`, `Best`, `Share`, `Take`, `Turns`, `BuiltPack`, `Select` | the ranking, the equal share, one turn per file, the result; a file without an excerpt keeps an empty entry and is not `Selected` |
| `WellFormed`, `Validate` | `validateContextPack` |
| `RouteMatches`, `SelectExecutionRoute`, `Resolvable` | `route-selector.js` |
| `RunRouted`, `ResumeRouted` | what `runHarness` and `resumeHarness` do with a route |
| `Invoke`, `Answer` | `createOneAttemptRoutedExecutor`: the flag is set before the await |

**Abstractions.** A file is its class, its score, the offsets its lines end at, which lines mention the task, which offsets lie inside a character, and its *seams*:
offsets where the line cut there reads like a credential although the whole line does not (`AKIA` and twenty capitals, cut after sixteen). Tokens, scores
and the hashing are part of that. A file may start with a byte-order mark (`bom`, 0 or 3 bytes): `decodeText` drops it, `lineRanges` counts in the decoded text, and `buildExcerpts`
uses the offsets in the bytes; `LineEnd` is that offset. Two snapshots have one digest exactly when no file differs. What the executor does to a run is `RunOrchestrator`'s;
here its answer may end the run (`ended`: verified or receipted, after which `resumeHarness` resolves no route) or leave it to be resumed. Reasoning efforts are resolved as models are and left out.

| Run | Instance | What it shows |
| --- | --- | --- |
| `routing` | 9 projects, 4 budgets, 2 edits; 4 requests, 3 machines, 2 calls, 2 invokers | `PackIsHonest`, `RouteIsKept`; 2.1 million states up to symmetry |

`PackIsHonest` compares the builder with an independent statement of what a complete pack is (`Asked`: the lines that mention the task and their neighbours, by where lines end in
the bytes of the file): it says `truncated` exactly when it is not complete. It also says that the builder's result passes its own validator, with one exception that the run reaches:
an excerpt cut at a seam makes the validator throw a usage error, for a project the builder had admitted.

A file with a byte-order mark is where the code falls short of this, and the property says exactly how (`Moved`). Each range is taken three bytes early, so that the last three bytes
of what is asked for are not in the pack, and `truncated` is false. A range that comes to start inside the mark yields no excerpt and is reported; a line that loses its
last three bytes may read like a credential although no budget cut it; and a file that holds the mark alone has a range without bytes. No document of the repository speaks of
such files, so this is described here and not listed as a finding.

Two more things a reader should know: a file that matches by its path but in none of its lines has no excerpt, and the pack then reports
`budget_exhausted` although no budget was short; and when that is every match, the pack is `empty` and the fallback to first lines is not tried.

**Why these bounds.** The projects are chosen so that each way to end occurs: merged and separate ranges, both ends of a file, a character of two bytes at a cut, a seam, a
byte-order mark before a long first line, before a short one, and alone, a match by path alone, no match, no text. The budgets cut by file, by excerpt, by share, by bytes of a file and by bytes of the pack. Two edits let a project
leave its snapshot and come back. Two calls are a run and its resume; two invokers are the smallest overlap.

**Proved** in `RoutedRun_proofs`, for every set of projects, policies and machines and any number of calls and invokers: `RoutesAreKept`, from `RouteInv`. It says that
an executor is the one the plan names (`ExecutorAt`), that its flag is up while an invocation runs (`OnceAt`), and that a plan sized by a pack stands beside
that pack (`SizedByPack`). That the first matching route is one that matches needs the least element of a set of naturals (`MinIsLeast`), taken from the library's fact
that `<` is well-founded. `RouteAssumption` says what `validateExecutionPolicy` ensures, an ordered list of routes that is not empty; the hypothesis `NothingIsNoPlan` says
that the value for "no plan" is no plan.

`PacksAreHonest` proves the whole of `PackIsHonest`, for projects and policies of any size. `LocalizationAssumption` is what it rests on: lines end at increasing offsets, none inside
a byte-order mark, and no line end lies inside a character or is a seam; the files are those of a snapshot and the budgets those `validateContextPackPolicy` admits. The argument goes through the loops of the builder, one invariant for each:

* `MergedAt`: the ranges up to a line follow each other with bytes between them; each ends with the lines around one of the matches, and the lines around every match lie in one of them.
* `PartsAreMoved`: the ranges the builder computes are the lines that are asked for, as many bytes earlier as the file has of a byte-order mark.
* `BuiltAt`: the first excerpts of a file keep the starts of their ranges and lie between characters; what they hold is gone from the budgets; a range that was cut or left out is
  reported. With `MatchedIsRanged` it follows (`BuiltIs`) that a file reports a cut exactly when something asked for lies in no excerpt: the end of a range that was not taken whole
  belongs to the lines around a match, and no other excerpt reaches it.
* `TurnAt`: the files that have had their turn have such excerpts, the others none; the totals are what the budgets lost; and the report says whether a file was over
  the limit or one of the files cut.

`BuiltPackIsHonest` joins them: a pack that holds as many files as may be selected, uncut, holds all that are wanted, by counting. `PackInv` carries that to the validated pack while the user edits.
Each loop is a recursive function of a number; that such a function exists, and that an invariant of its steps holds of it, is an induction over
the numbers up to a bound. `UpTo` states it for a set of numbers, so that it needs no operator parameter; it follows from `MinIsLeast`. `Sums` is treated in the same way (`SumGrows`, `SumChanges`).

## Plan

Written: apply, run and resume, the adaptive session, the supervised process, publication and attestation, the benchmark, packs and routes; theorems for each of them.
What is left, with what it is for:

1. Proofs about calls that overlap: what remains of `LifecycleFollowsTable`, and of the session's serial theorems, when only some of the calls do.
2. Types of the modules whose theorems carry only the part they need (`RoutedRun`, `Localization`).

## What is only model-checked, and what is not modelled

Liveness and everything that needs `ENABLED` is checked by TLC and not proved: the prover has
no rule for it: `StaleLockIsCleared`, `InterruptedRunEnds` and the other liveness properties of the runs. What is proved is listed under each component.
Every invariant that a passing run checks has a theorem, some of them under a hypothesis that the section of the component names.
The two properties of the runs that end in a violation are false of the code and stand under findings.

Field validation of JSON documents, path and symlink checks, hashing and canonical JSON
are outside: the models take a document to be valid or refused, a digest to match or not. The hermetic boundary is a
write-once pair that is compared when a run is resumed; Bubblewrap only builds the arguments of a command. Argument
parsing, output formatting and the repository's scripts keep no state worth a model. The event grammar of Codex and the derivation of a
candidate's changes decide whether an execution is accepted; the models take either answer. Components not modelled are marked so in `PROJECT.json`, with the reason.

## Running

    tlc -workers 2 -config MCApplySafety.cfg MCApply
    tlc -workers 2 -config MCRunSequential.cfg MCRun
    tlc -workers 2 -config MCSessionSequential.cfg MCSession
    tlc -workers 2 -config MCSupervisor.cfg MCSupervisor
    tlc -workers 2 -config MCPublication.cfg MCPublication
    tlc -workers 2 -config MCBenchmark.cfg MCBenchmark
    tlc -workers 2 -config MCRoutedRun.cfg MCRoutedRun
    tlapm ApplyProtocol_proofs.tla
    tlapm ApplyData_proofs.tla
    tlapm RunOrchestrator_proofs.tla
    tlapm AdaptiveSession_proofs.tla
    tlapm ProcessSupervisor_proofs.tla
    tlapm Publication_proofs.tla
    tlapm Benchmark_proofs.tla
    tlapm RoutedRun_proofs.tla

Definitions named `X_Y` are faulty variants of `X`. Substituted for `X` they break the property
`PROJECT.json` lists them with; they show that the property can fail.
