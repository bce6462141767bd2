--------------------------- MODULE ApplyProtocol ---------------------------
(* Apply: concurrent calls of applyEvidenceBundle on one receipted run
   (src/core/apply.js, rollback.js, state-store.js).

   A process is one operating-system process that makes one call and exits.
   Everything on disk is shared: the run state and its digest sidecar, the
   apply lock, the recovery lock, the rollback journal and its digest sidecar,
   and the project's files. What a call keeps in memory dies with it.
   A step is what a call does between two effects on the disk that another
   process, a crash or the user can separate. Processes crash, I/O fails and
   the user edits files between any two steps, each a bounded number of times.

   File 0 stands for the files the run does not change; files 1..N are the
   candidate's targets in the code's sorted order. Bytes are told apart only
   by where they come from.

   A definition X_Y is a faulty variant of X: substituted for X it must break
   the property it is listed with in PROJECT.json. *)
EXTENDS Naturals, Lifecycle

CONSTANTS
    Procs,       \* processes that may call apply
    NoProc,      \* no owner
    N,           \* number of declared changes
    NewFiles,    \* targets that do not exist in the source tree
    PidReuse,    \* whether a dead owner's pid may name a live process
    MaxCrashes, MaxFaults, MaxEdits    \* bounds on what the environment does

ASSUME ConstantsAssumption ==
    /\ NoProc \notin Procs
    /\ N \in Nat \ {0}
    /\ NewFiles \subseteq 1..N
    /\ PidReuse \in BOOLEAN
    /\ MaxCrashes \in Nat /\ MaxFaults \in Nat /\ MaxEdits \in Nat

VARIABLES
    state, stateDigest,       \* lifecycle in state.jsonl; the one state.sha256 covers
    lock, recoveryLock,       \* owner of each lock file, or NoProc
    journal, journalDigest,   \* originals in the journal body; those its digest covers
    disk,                     \* bytes of every project file
    pc, approval,             \* per call: next step, approval hash given
    originals, cursor, snapshot, outcome,    \* per call: its memory, and its result
    crashes, faults, edits,   \* how often the environment interfered
    edited,                   \* history: files the user ever wrote
    unlockedEdits,            \* history: files that hold an edit made while no lock existed
    accepted                  \* history: the tree the apply verifier last accepted

stateVars   == <<state, stateDigest>>
lockVars    == <<lock, recoveryLock>>
journalVars == <<journal, journalDigest>>
memVars     == <<approval, originals, cursor, snapshot, outcome>>
envVars     == <<crashes, faults, edits, edited, unlockedEdits>>
vars == <<stateVars, lockVars, journalVars, disk, pc, memVars, envVars, accepted>>

-----------------------------------------------------------------------------
(* Files *)

Targets == 1..N
Files   == 0..N
Content == {"absent", "original", "candidate", "edited"}
Bytes   == Content \cup {"unread"}

Source(f) == IF f \in NewFiles THEN "absent" ELSE "original"
SourceTree == [f \in Files |-> Source(f)]
CandidateTree == [f \in Files |-> IF f \in Targets THEN "candidate" ELSE Source(f)]

NoJournal  == [t \in Targets |-> "unread"]
NoSnapshot == [f \in Files |-> "unread"]

JournalAbsent   == journal = NoJournal /\ journalDigest = NoJournal
JournalComplete == journal # NoJournal /\ journal = journalDigest

-----------------------------------------------------------------------------
(* The run state: body and digest are renamed into place one after the other;
   a reader that meets a body its digest does not cover refuses. *)

StateReadable == state = stateDigest

CanAdvance_AnyTransition(observedTree, to) == StateReadable /\ observedTree = SourceTree

\* advanceStoredRunState: what it asserts of the stored state before it writes.
CanAdvance(observedTree, to) ==
    /\ StateReadable
    /\ observedTree = SourceTree
    /\ to \in Transitions[state]

-----------------------------------------------------------------------------
(* Processes *)

Approvals == {"receipt_hash", "other_hash"}
Outcomes  == {"none", "applied", "rolled_back", "refused", "failed"}

\* Originals are not captured yet: an error releases the lock and nothing else.
BeforeCapture == {"reread", "approve_digest", "capture"}
\* Originals are in memory: an error restores them.
Mutating == {"check_capture", "journal_body", "journal_digest", "replace",
             "rename", "take_snapshot", "verify", "commit", "commit_digest"}
\* The end of a call or of a recovery: an error is final and leaves the rest.
Closing  == {"restore", "prove", "roll_back", "roll_back_digest",
             "clean_body", "clean_digest", "unlock"}
\* Recovery before it has read the journal and after it has given up.
Recovering == {"recheck", "recover", "recreate_lock"}

Labels == {"idle", "check_recovery", "create_lock", "read_lock", "claim",
           "release_recovery", "release_recovery_held", "release",
           "returned", "exited"}
          \cup BeforeCapture \cup Mutating \cup Closing \cup Recovering

Alive(q) == pc[q] # "exited"

\* processIsLive: signal 0 to the owner's pid.
LivenessAnswers(q) == {Alive(q)} \cup (IF PidReuse THEN {TRUE} ELSE {})

Step(p, from, to) == pc[p] = from /\ pc' = [pc EXCEPT ![p] = to]

Return(p, result) ==
    /\ pc' = [pc EXCEPT ![p] = "returned"]
    /\ outcome' = [outcome EXCEPT ![p] = result]
    /\ originals' = [originals EXCEPT ![p] = NoJournal]
    /\ snapshot' = [snapshot EXCEPT ![p] = NoSnapshot]
    /\ cursor' = [cursor EXCEPT ![p] = 0]
    /\ UNCHANGED approval

\* An error while closing: recovery releases its own lock, a call just throws.
Abort(p) ==
    IF recoveryLock = p
    THEN pc' = [pc EXCEPT ![p] = "release_recovery"] /\ UNCHANGED memVars
    ELSE Return(p, "failed")

\* The catch block of applyEvidenceBundle once originals are captured.
StartRestore(p) ==
    /\ pc' = [pc EXCEPT ![p] = "restore"]
    /\ cursor' = [cursor EXCEPT ![p] = N]
    /\ UNCHANGED <<approval, originals, snapshot, outcome>>

-----------------------------------------------------------------------------
(* Entering the call and taking the lock *)

Start(p) ==
    /\ pc[p] = "idle"
    /\ \E hash \in Approvals :
        IF StateReadable
        THEN /\ pc' = [pc EXCEPT ![p] = "check_recovery"]
             /\ approval' = [approval EXCEPT ![p] = hash]
             /\ UNCHANGED <<originals, cursor, snapshot, outcome>>
        ELSE Return(p, "refused")
    /\ UNCHANGED <<stateVars, lockVars, journalVars, disk, envVars, accepted>>

\* assertNoActiveRecoveryLock: any recovery lock refuses, live or dead.
CheckRecoveryLock(p) ==
    /\ pc[p] = "check_recovery"
    /\ IF recoveryLock = NoProc
       THEN pc' = [pc EXCEPT ![p] = "create_lock"] /\ UNCHANGED memVars
       ELSE Return(p, "refused")
    /\ UNCHANGED <<stateVars, lockVars, journalVars, disk, envVars, accepted>>

\* createLockFile: link(2) of a complete file, so creation is exclusive and atomic.
CreateLock(p) ==
    /\ pc[p] = "create_lock"
    /\ IF lock = NoProc
       THEN lock' = p /\ Step(p, "create_lock", "reread")
       ELSE UNCHANGED lock /\ Step(p, "create_lock", "read_lock")
    /\ UNCHANGED <<stateVars, recoveryLock, journalVars, disk, memVars, envVars, accepted>>

ReadLock_Waits(p) ==
    /\ lock = NoProc
    /\ Step(p, "read_lock", "create_lock")
    /\ UNCHANGED <<stateVars, lockVars, journalVars, disk, memVars, envVars, accepted>>

\* The existing lock: gone by now, held by a live process, or stale.
ReadLock(p) ==
    /\ pc[p] = "read_lock"
    /\ \/ lock = NoProc /\ Return(p, "refused")
       \/ /\ lock # NoProc
          /\ \E live \in LivenessAnswers(lock) :
                IF live THEN Return(p, "refused")
                        ELSE Step(p, "read_lock", "claim") /\ UNCHANGED memVars
    /\ UNCHANGED <<stateVars, lockVars, journalVars, disk, envVars, accepted>>

ClaimRecovery_Steals(p) ==
    /\ pc[p] = "claim"
    /\ IF recoveryLock = NoProc \/ ~Alive(recoveryLock)
       THEN /\ recoveryLock' = p
            /\ Step(p, "claim", "recheck")
            /\ UNCHANGED memVars
       ELSE UNCHANGED recoveryLock /\ Return(p, "refused")
    /\ UNCHANGED <<stateVars, lock, journalVars, disk, envVars, accepted>>

ClaimRecovery(p) ==
    /\ pc[p] = "claim"
    /\ IF recoveryLock = NoProc
       THEN /\ recoveryLock' = p
            /\ Step(p, "claim", "recheck")
            /\ UNCHANGED memVars
       ELSE UNCHANGED recoveryLock /\ Return(p, "refused")
    /\ UNCHANGED <<stateVars, lock, journalVars, disk, envVars, accepted>>

RecheckLock_Trusts(p) ==
    /\ Step(p, "recheck", "recover")
    /\ UNCHANGED <<stateVars, lockVars, journalVars, disk, memVars, envVars, accepted>>

RecheckLock(p) ==
    /\ pc[p] = "recheck"
    /\ \/ lock = NoProc /\ Step(p, "recheck", "release_recovery")
       \/ /\ lock # NoProc
          /\ \E live \in LivenessAnswers(lock) :
                Step(p, "recheck", IF live THEN "release_recovery" ELSE "recover")
    /\ UNCHANGED <<stateVars, lockVars, journalVars, disk, memVars, envVars, accepted>>

-----------------------------------------------------------------------------
(* Recovery of a stale lock, under the recovery lock *)

CandidatesMatch == \A t \in Targets : disk[t] = "candidate"

Recover_TornAsAbsent(p) ==
    /\ pc[p] = "recover"
    /\ IF JournalComplete /\ StateReadable /\ state = "approved"
       THEN /\ originals' = [originals EXCEPT ![p] = journal]
            /\ cursor' = [cursor EXCEPT ![p] = N]
            /\ Step(p, "recover", "restore")
            /\ UNCHANGED <<lock, approval, snapshot, outcome>>
       ELSE /\ lock' = NoProc
            /\ Step(p, "recover", "recreate_lock")
            /\ UNCHANGED memVars
    /\ UNCHANGED <<stateVars, recoveryLock, journalVars, disk, envVars, accepted>>

Recover_UnlocksFirst(p) ==
    /\ pc[p] = "recover"
    /\ StateReadable
    /\ lock' = NoProc
    /\ IF JournalComplete /\ state = "approved"
       THEN /\ originals' = [originals EXCEPT ![p] = journal]
            /\ cursor' = [cursor EXCEPT ![p] = N]
            /\ Step(p, "recover", "restore")
            /\ UNCHANGED <<approval, snapshot, outcome>>
       ELSE Step(p, "recover", "release_recovery") /\ UNCHANGED memVars
    /\ UNCHANGED <<stateVars, recoveryLock, journalVars, disk, envVars, accepted>>

\* recoverClaimedStaleApply up to its first effect on the disk.
Recover(p) ==
    /\ pc[p] = "recover"
    /\ \/ /\ StateReadable /\ JournalAbsent    \* lock_without_journal
          /\ lock' = NoProc
          /\ Step(p, "recover", "recreate_lock")
          /\ UNCHANGED memVars
       \/ /\ StateReadable /\ JournalComplete
          /\ state = "applied" /\ CandidatesMatch
          /\ Step(p, "recover", "clean_body")
          /\ UNCHANGED <<lock, memVars>>
       \/ /\ StateReadable /\ JournalComplete /\ state = "approved"
          /\ originals' = [originals EXCEPT ![p] = journal]
          /\ cursor' = [cursor EXCEPT ![p] = N]
          /\ Step(p, "recover", "restore")
          /\ UNCHANGED <<lock, approval, snapshot, outcome>>
       \/ /\ \/ ~StateReadable
             \/ ~JournalAbsent /\ ~JournalComplete
             \/ JournalComplete /\ state = "applied" /\ ~CandidatesMatch
             \/ JournalComplete /\ state \notin {"approved", "applied"}
          /\ Step(p, "recover", "release_recovery")
          /\ UNCHANGED <<lock, memVars>>
    /\ UNCHANGED <<stateVars, recoveryLock, journalVars, disk, envVars, accepted>>

\* Another call may have taken the lock that recovery removed.
RecreateLock(p) ==
    /\ pc[p] = "recreate_lock"
    /\ IF lock = NoProc
       THEN lock' = p /\ Step(p, "recreate_lock", "release_recovery_held")
       ELSE UNCHANGED lock /\ Step(p, "recreate_lock", "release_recovery")
    /\ UNCHANGED <<stateVars, recoveryLock, journalVars, disk, memVars, envVars, accepted>>

ReleaseRecovery(p) ==
    /\ recoveryLock' = IF recoveryLock = p THEN NoProc ELSE recoveryLock
    /\ \/ Step(p, "release_recovery_held", "reread") /\ UNCHANGED memVars
       \/ pc[p] = "release_recovery" /\ Return(p, "refused")
    /\ UNCHANGED <<stateVars, lock, journalVars, disk, envVars, accepted>>

-----------------------------------------------------------------------------
(* Under the lock: approval, capture, journal *)

ApprovedByReceipt(p) == approval[p] = "receipt_hash"

\* The run is read again, bound to its evidence and its approval, and compared
\* with the project; a receipted run becomes approved.
Reread(p) ==
    /\ pc[p] = "reread"
    /\ \/ /\ StateReadable /\ ApprovedByReceipt(p) /\ disk = SourceTree
          /\ CanAdvance(disk, "approved")
          /\ state' = "approved"
          /\ Step(p, "reread", "approve_digest")
       \/ /\ StateReadable /\ ApprovedByReceipt(p) /\ disk = SourceTree
          /\ state = "approved"
          /\ Step(p, "reread", "capture")
          /\ UNCHANGED state
       \/ /\ \/ ~StateReadable
             \/ ~ApprovedByReceipt(p)
             \/ disk # SourceTree
             \/ state \notin {"receipted", "approved"}
          /\ Step(p, "reread", "release")
          /\ UNCHANGED state
    /\ cursor' = [cursor EXCEPT ![p] = 1]
    /\ UNCHANGED <<stateDigest, lockVars, journalVars, disk, envVars, accepted,
                   approval, originals, snapshot, outcome>>

\* Whichever advance wrote the body, its digest follows in a second rename.
ApproveDigest(p) ==
    /\ Step(p, "approve_digest", "capture")
    /\ stateDigest' = state
    /\ UNCHANGED <<state, lockVars, journalVars, disk, memVars, envVars, accepted>>

Capture_StopsEarly(p) ==
    /\ pc[p] = "capture"
    /\ originals' = [originals EXCEPT ![p][cursor[p]] = disk[cursor[p]]]
    /\ cursor' = [cursor EXCEPT ![p] = cursor[p] + 1]
    /\ pc' = [pc EXCEPT ![p] = IF cursor[p] + 1 >= N THEN "check_capture" ELSE "capture"]
    /\ UNCHANGED <<stateVars, lockVars, journalVars, disk, envVars, accepted,
                   approval, snapshot, outcome>>

\* captureOriginalBytes: one file after another.
Capture(p) ==
    /\ pc[p] = "capture"
    /\ originals' = [originals EXCEPT ![p][cursor[p]] = disk[cursor[p]]]
    /\ cursor' = [cursor EXCEPT ![p] = cursor[p] + 1]
    /\ pc' = [pc EXCEPT ![p] = IF cursor[p] = N THEN "check_capture" ELSE "capture"]
    /\ UNCHANGED <<stateVars, lockVars, journalVars, disk, envVars, accepted,
                   approval, snapshot, outcome>>

CheckCapture_SkipsJournal(p) ==
    /\ Step(p, "check_capture", "replace")
    /\ cursor' = [cursor EXCEPT ![p] = 1]
    /\ UNCHANGED <<stateVars, lockVars, journalVars, disk, envVars, accepted,
                   approval, originals, snapshot, outcome>>

CheckCapture(p) ==
    /\ pc[p] = "check_capture"
    /\ IF disk = SourceTree
       THEN Step(p, "check_capture", "journal_body") /\ UNCHANGED memVars
       ELSE StartRestore(p)
    /\ UNCHANGED <<stateVars, lockVars, journalVars, disk, envVars, accepted>>

JournalBody(p) ==
    /\ Step(p, "journal_body", "journal_digest")
    /\ journal' = originals[p]
    /\ UNCHANGED <<stateVars, lockVars, journalDigest, disk, memVars, envVars, accepted>>

JournalDigest(p) ==
    /\ Step(p, "journal_digest", "replace")
    /\ journalDigest' = originals[p]
    /\ cursor' = [cursor EXCEPT ![p] = 1]
    /\ UNCHANGED <<stateVars, lockVars, journal, disk, envVars, accepted,
                   approval, originals, snapshot, outcome>>

-----------------------------------------------------------------------------
(* Mutation, verification, commit *)

\* safeReplaceFile up to assertExpectedOriginal. Identity and mode are part of
\* the bytes' origin: a file the user rewrote is a changed file.
CheckTarget(p) ==
    /\ pc[p] = "replace"
    /\ IF disk[cursor[p]] = originals[p][cursor[p]]
       THEN Step(p, "replace", "rename") /\ UNCHANGED memVars
       ELSE StartRestore(p)
    /\ UNCHANGED <<stateVars, lockVars, journalVars, disk, envVars, accepted>>

RenameTarget_SkipsLast(p) ==
    /\ pc[p] = "rename"
    /\ disk' = [disk EXCEPT ![cursor[p]] = "candidate"]
    /\ cursor' = [cursor EXCEPT ![p] = cursor[p] + 1]
    /\ pc' = [pc EXCEPT ![p] = IF cursor[p] + 1 >= N THEN "take_snapshot" ELSE "replace"]
    /\ UNCHANGED <<stateVars, lockVars, journalVars, envVars, accepted,
                   approval, originals, snapshot, outcome>>

\* The rename itself: nothing holds the file between the check and it.
RenameTarget(p) ==
    /\ pc[p] = "rename"
    /\ disk' = [disk EXCEPT ![cursor[p]] = "candidate"]
    /\ cursor' = [cursor EXCEPT ![p] = cursor[p] + 1]
    /\ pc' = [pc EXCEPT ![p] = IF cursor[p] = N THEN "take_snapshot" ELSE "replace"]
    /\ UNCHANGED <<stateVars, lockVars, journalVars, envVars, accepted,
                   approval, originals, snapshot, outcome>>

\* candidateSnapshot, and the isolated copy that must match it.
TakeSnapshot(p) ==
    /\ Step(p, "take_snapshot", "verify")
    /\ snapshot' = [snapshot EXCEPT ![p] = disk]
    /\ UNCHANGED <<stateVars, lockVars, journalVars, disk, envVars, accepted,
                   approval, originals, cursor, outcome>>

Verify_KeepsCandidate(p) ==
    /\ pc[p] = "verify"
    /\ \/ /\ disk = snapshot[p]
          /\ accepted' = snapshot[p]
          /\ Step(p, "verify", "commit")
       \/ Step(p, "verify", "roll_back") /\ UNCHANGED accepted
    /\ UNCHANGED <<stateVars, lockVars, journalVars, disk, memVars, envVars>>

\* The verifier runs on the copy. It accepts, or it rejects, throws or touches
\* the copy; accepting is void when the project has changed meanwhile.
Verify(p) ==
    /\ pc[p] = "verify"
    /\ \/ /\ disk = snapshot[p]
          /\ accepted' = snapshot[p]
          /\ Step(p, "verify", "commit")
          /\ UNCHANGED memVars
       \/ StartRestore(p) /\ UNCHANGED accepted
    /\ UNCHANGED <<stateVars, lockVars, journalVars, disk, envVars>>

\* advanceStoredRunState(applied): observedReceipt was cached before capture,
\* when the project was the source tree.
Commit(p) ==
    /\ pc[p] = "commit"
    /\ IF CanAdvance(SourceTree, "applied")
       THEN /\ state' = "applied"
            /\ Step(p, "commit", "commit_digest")
            /\ UNCHANGED memVars
       ELSE UNCHANGED state /\ StartRestore(p)
    /\ UNCHANGED <<stateDigest, lockVars, journalVars, disk, envVars, accepted>>

CommitDigest(p) ==
    /\ Step(p, "commit_digest", "clean_body")
    /\ stateDigest' = state
    /\ outcome' = [outcome EXCEPT ![p] = "applied"]
    /\ UNCHANGED <<state, lockVars, journalVars, disk, envVars, accepted,
                   approval, originals, cursor, snapshot>>

-----------------------------------------------------------------------------
(* Rollback, cleanup, release: shared by a failed call and by recovery *)

\* restoreOriginalBytes: last target first, with no check of what it overwrites.
Restore(p) ==
    /\ pc[p] = "restore"
    /\ disk' = [disk EXCEPT ![cursor[p]] = originals[p][cursor[p]]]
    /\ cursor' = [cursor EXCEPT ![p] = cursor[p] - 1]
    /\ pc' = [pc EXCEPT ![p] = IF cursor[p] = 1 THEN "prove" ELSE "restore"]
    /\ UNCHANGED <<stateVars, lockVars, journalVars, envVars, accepted,
                   approval, originals, snapshot, outcome>>

\* The second loop of restoreOriginalBytes: every original is back.
ProveRestored(p) ==
    /\ pc[p] = "prove"
    /\ IF \A t \in Targets : disk[t] = originals[p][t]
       THEN Step(p, "prove", "roll_back") /\ UNCHANGED memVars
       ELSE Abort(p)
    /\ UNCHANGED <<stateVars, lockVars, journalVars, disk, envVars, accepted>>

\* markRolledBack: recovery observes the tree anew, a failed call reuses
\* the observation it made before capture.
RollBack(p) ==
    /\ pc[p] = "roll_back"
    /\ IF CanAdvance(IF recoveryLock = p THEN disk ELSE SourceTree, "rolled_back")
       THEN /\ state' = "rolled_back"
            /\ Step(p, "roll_back", "roll_back_digest")
            /\ UNCHANGED memVars
       ELSE UNCHANGED state /\ Abort(p)
    /\ UNCHANGED <<stateDigest, lockVars, journalVars, disk, envVars, accepted>>

RollBackDigest(p) ==
    /\ Step(p, "roll_back_digest", "clean_body")
    /\ stateDigest' = state
    /\ outcome' = [outcome EXCEPT ![p] = "rolled_back"]
    /\ UNCHANGED <<state, lockVars, journalVars, disk, envVars, accepted,
                   approval, originals, cursor, snapshot>>

CleanJournalBody(p) ==
    /\ Step(p, "clean_body", "clean_digest")
    /\ journal' = NoJournal
    /\ UNCHANGED <<stateVars, lockVars, journalDigest, disk, memVars, envVars, accepted>>

CleanJournalDigest(p) ==
    /\ Step(p, "clean_digest", "unlock")
    /\ journalDigest' = NoJournal
    /\ UNCHANGED <<stateVars, lockVars, journal, disk, memVars, envVars, accepted>>

Unlock_OwnedOnly(p) ==
    /\ pc[p] = "unlock"
    /\ lock' = IF lock = p THEN NoProc ELSE lock
    /\ IF recoveryLock = p
       THEN Step(p, "unlock", "release_recovery") /\ UNCHANGED memVars
       ELSE Return(p, outcome[p])
    /\ UNCHANGED <<stateVars, recoveryLock, journalVars, disk, envVars, accepted>>

\* removeOwnedLock for the owner; removeLock of the dead owner's for recovery,
\* which then releases its own lock and refuses.
Unlock(p) ==
    /\ pc[p] = "unlock"
    /\ lock' = IF recoveryLock = p \/ lock = p THEN NoProc ELSE lock
    /\ IF recoveryLock = p
       THEN Step(p, "unlock", "release_recovery") /\ UNCHANGED memVars
       ELSE Return(p, outcome[p])
    /\ UNCHANGED <<stateVars, recoveryLock, journalVars, disk, envVars, accepted>>

\* The catch block when nothing was captured.
Release(p) ==
    /\ pc[p] = "release"
    /\ lock' = IF lock = p THEN NoProc ELSE lock
    /\ Return(p, "refused")
    /\ UNCHANGED <<stateVars, recoveryLock, journalVars, disk, envVars, accepted>>

-----------------------------------------------------------------------------
(* Environment *)

\* An awaited filesystem call of the current step throws instead of acting.
IOFailure(p) ==
    /\ faults < MaxFaults
    /\ faults' = faults + 1
    /\ \/ /\ pc[p] \in Recovering
          /\ pc' = [pc EXCEPT ![p] = "release_recovery"]
          /\ UNCHANGED memVars
       \/ /\ pc[p] \in BeforeCapture
          /\ pc' = [pc EXCEPT ![p] = "release"]
          /\ UNCHANGED memVars
       \/ pc[p] \in Mutating /\ StartRestore(p)
       \/ pc[p] \in Closing /\ Abort(p)
    /\ UNCHANGED <<stateVars, lockVars, journalVars, disk, crashes, edits, edited,
                   unlockedEdits, accepted>>

\* The process ends: after its call, or killed at any step of it.
Exit(p) ==
    /\ Step(p, "returned", "exited")
    /\ UNCHANGED <<stateVars, lockVars, journalVars, disk, memVars, envVars, accepted>>

Crash(p) ==
    /\ pc[p] \notin {"idle", "returned", "exited"}
    /\ crashes < MaxCrashes
    /\ crashes' = crashes + 1
    /\ pc' = [pc EXCEPT ![p] = "exited"]
    /\ outcome' = [outcome EXCEPT ![p] = "none"]
    /\ originals' = [originals EXCEPT ![p] = NoJournal]
    /\ snapshot' = [snapshot EXCEPT ![p] = NoSnapshot]
    /\ cursor' = [cursor EXCEPT ![p] = 0]
    /\ UNCHANGED <<stateVars, lockVars, journalVars, disk, approval,
                   faults, edits, edited, unlockedEdits, accepted>>

\* The user changes a file in place, or puts the source bytes back.
UserEdit(f) ==
    /\ edits < MaxEdits
    /\ edits' = edits + 1
    /\ edited' = edited \cup {f}
    /\ \E bytes \in {"edited", Source(f)} \ {disk[f]} :
          /\ disk' = [disk EXCEPT ![f] = bytes]
          /\ unlockedEdits' = IF lock = NoProc /\ bytes = "edited"
                              THEN unlockedEdits \cup {f} ELSE unlockedEdits \ {f}
    /\ UNCHANGED <<stateVars, lockVars, journalVars, pc, memVars,
                   crashes, faults, accepted>>

\* Every process has ended: nothing more has to happen.
Terminated == (\A p \in Procs : pc[p] = "exited") /\ UNCHANGED vars

-----------------------------------------------------------------------------

Init ==
    /\ state = "receipted" /\ stateDigest = "receipted"
    /\ lock = NoProc /\ recoveryLock = NoProc
    /\ journal = NoJournal /\ journalDigest = NoJournal
    /\ disk = SourceTree
    /\ pc = [p \in Procs |-> "idle"]
    /\ approval = [p \in Procs |-> "other_hash"]
    /\ originals = [p \in Procs |-> NoJournal]
    /\ cursor = [p \in Procs |-> 0]
    /\ snapshot = [p \in Procs |-> NoSnapshot]
    /\ outcome = [p \in Procs |-> "none"]
    /\ crashes = 0 /\ faults = 0 /\ edits = 0
    /\ edited = {} /\ unlockedEdits = {} /\ accepted = NoSnapshot

Lock(p)    == CheckRecoveryLock(p) \/ CreateLock(p) \/ ReadLock(p)
Takeover(p) == ClaimRecovery(p) \/ RecheckLock(p) \/ Recover(p)
               \/ RecreateLock(p) \/ ReleaseRecovery(p)
Prepare(p) == Reread(p) \/ ApproveDigest(p) \/ Capture(p) \/ CheckCapture(p)
              \/ JournalBody(p) \/ JournalDigest(p)
Mutate(p)  == CheckTarget(p) \/ RenameTarget(p) \/ TakeSnapshot(p) \/ Verify(p)
              \/ Commit(p) \/ CommitDigest(p)
Close(p)   == Restore(p) \/ ProveRestored(p) \/ RollBack(p) \/ RollBackDigest(p)
              \/ CleanJournalBody(p) \/ CleanJournalDigest(p) \/ Unlock(p) \/ Release(p)

\* The code of a call that has started.
Call(p) == Lock(p) \/ Takeover(p) \/ Prepare(p) \/ Mutate(p) \/ Close(p)

Next ==
    \/ \E p \in Procs : Start(p) \/ Call(p) \/ IOFailure(p) \/ Exit(p) \/ Crash(p)
    \/ \E f \in Files : UserEdit(f)
    \/ Terminated

Spec == Init /\ [][Next]_vars

\* A started call is scheduled until it ends; nobody has to start one, and the
\* environment owes nothing.
FairSpec == Spec /\ \A p \in Procs : WF_vars(Call(p)) /\ WF_vars(Exit(p))

-----------------------------------------------------------------------------
(* Properties *)

TypeOK ==
    /\ state \in LifecycleStates /\ stateDigest \in LifecycleStates
    /\ lock \in Procs \cup {NoProc} /\ recoveryLock \in Procs \cup {NoProc}
    /\ journal \in [Targets -> Bytes] /\ journalDigest \in [Targets -> Bytes]
    /\ disk \in [Files -> Content]
    /\ pc \in [Procs -> Labels] /\ approval \in [Procs -> Approvals]
    /\ originals \in [Procs -> [Targets -> Bytes]]
    /\ cursor \in [Procs -> 0..(N + 1)]
    /\ snapshot \in [Procs -> [Files -> Bytes]]
    /\ outcome \in [Procs -> Outcomes]
    /\ crashes \in Nat /\ faults \in Nat /\ edits \in Nat
    /\ edited \subseteq Files /\ unlockedEdits \subseteq Files
    /\ accepted \in [Files -> Bytes]

\* A call that may write the project, the state or the journal: past the lock,
\* or recovering a stale one.
Critical(p) == pc[p] \in {"recover", "release_recovery_held", "release"}
                         \cup BeforeCapture \cup Mutating \cup Closing

\* Two calls are never both in the section of apply that owns the project,
\* although a stale lock is handed over in four separate file operations
\* (acquireApplyLock, recoverClaimedStaleApply).
MutualExclusion == \A p, q \in Procs : Critical(p) /\ Critical(q) => p = q

\* "concurrent applies cannot leave state and disk in disagreement": whenever
\* no apply lock is left, no journal is left either and every target the user
\* kept his hands off has the bytes the committed lifecycle says.
StateDiskAgreement ==
    lock = NoProc =>
        /\ JournalAbsent
        /\ \A t \in Targets \ edited :
              disk[t] = IF stateDigest = "applied" THEN "candidate" ELSE Source(t)

\* Until the run is applied, the project holds candidate bytes only while a
\* complete journal holds the source bytes of every target: a crash at any
\* step leaves what recovery needs.
MutationIsJournaled ==
    /\ stateDigest # "applied"
    /\ \E t \in Targets : disk[t] = "candidate"
    => /\ JournalComplete
       /\ \A t \in Targets \ edited : journal[t] = Source(t)

\* A committed terminal lifecycle is true of the files from the step that
\* commits it on, lock or no lock, crash or no crash.
TerminalStateIsTrue ==
    StateReadable /\ state \in Terminal =>
        \A t \in Targets \ edited :
            disk[t] = IF state = "applied" THEN "candidate" ELSE Source(t)

\* What a call reports stays true: nobody undoes a committed apply or rollback.
OutcomeHolds ==
    \A p \in Procs : outcome[p] \in {"applied", "rolled_back"} =>
        StateReadable /\ state = outcome[p]

\* An edit made while no apply lock existed is never overwritten by the program:
\* a call compares the project with the frozen snapshot after it has the lock.
UnlockedEditsSurvive == \A f \in unlockedEdits : disk[f] = "edited"

\* What recovery refuses to touch: a stale lock with a torn state pair, a torn
\* journal pair, or a journal that a finished rollback left behind.
Wedged ==
    /\ lock # NoProc /\ ~Alive(lock)
    /\ \A p \in Procs : pc[p] \notin Closing
    /\ \/ ~StateReadable
       \/ ~JournalAbsent /\ ~JournalComplete
       \/ JournalComplete /\ state \notin {"approved", "applied"}

\* "fails closed": once recovery cannot proceed safely, no later call changes
\* the state, the journal, the lock or a project file again.
EvidenceIsFrozen ==
    [][Wedged => /\ UNCHANGED <<stateVars, journalVars, lock>>
                 /\ edits' = edits => UNCHANGED disk]_vars

\* "preserved for manual investigation instead of being silently stolen or
\* deleted": the recovery lock of a dead process stays.
RecoveryLockIsPreserved ==
    [][\A q \in Procs : recoveryLock = q /\ ~Alive(q) => recoveryLock' = q]_vars

\* Every call that starts ends, whatever locks it meets.
CallEnds == \A p \in Procs : pc[p] = "check_recovery" ~> pc[p] = "exited"

Recoverable ==
    /\ StateReadable
    /\ \/ JournalAbsent
       \/ JournalComplete /\ state = "approved"
       \/ JournalComplete /\ state = "applied" /\ CandidatesMatch

\* A recovery that finds a consistent state and journal removes the stale lock
\* (for instances where the recovering process itself does not crash).
StaleLockIsCleared ==
    \A p, q \in Procs :
        pc[p] = "recover" /\ lock = q /\ Recoverable ~> lock # q

\* docs/DESIGN-DECISIONS.md: apply "rejects stale source, candidate drift":
\* what the verifier accepts and apply commits is the approved candidate.
CandidateDriftIsRejected == accepted \in {NoSnapshot, CandidateTree}

\* What recovery would leave in the project; of a file the user wrote himself,
\* what the program owes.
RecoveredTree ==
    [f \in Files |->
        CASE f \in edited -> IF stateDigest = "applied" THEN CandidateTree[f] ELSE Source(f)
          [] f \in Targets \ edited /\ stateDigest # "applied" /\ JournalComplete -> journal[f]
          [] OTHER -> disk[f]]

Atomic == INSTANCE AtomicApply WITH phase <- stateDigest, tree <- RecoveredTree

\* Apply is atomic: through crashes, failures and concurrent calls the project goes
\* from the source tree to the candidate tree in the step that commits the
\* lifecycle, or stays the source tree (applyEvidenceBundle, recovery included).
AppliesAtomically == Atomic!Spec

=============================================================================
