------------------------ MODULE ApplyProtocol_proofs ------------------------
(* Theorems about ApplyProtocol, for any number of processes, targets and
   environment steps: the state stays well typed, and the lock, its takeover and
   the recovery lock exclude two calls from the critical section. *)
EXTENDS ApplyProtocol, TLAPS

-----------------------------------------------------------------------------
(* Types. A cursor is a valid target index where it is used as one, and bytes
   written back to the project are bytes that were read from it. *)

Captured == [Targets -> Content]

Restorable(p) == pc[p] \in Mutating \cup {"restore", "prove"} => originals[p] \in Captured

Captures(p) ==
    pc[p] = "capture" => \A t \in Targets : t < cursor[p] => originals[p][t] \in Content

CursorInRange(p) ==
    pc[p] \in {"capture", "replace", "rename", "restore"} => cursor[p] \in Targets

\* Between "reread" and "capture" the cursor waits at the first target.
CursorAtFirst(p) == pc[p] = "approve_digest" => cursor[p] = 1

\* What is on disk and what the environment counts.
SharedInv ==
    /\ state \in LifecycleStates /\ stateDigest \in LifecycleStates
    /\ lock \in Procs \cup {NoProc} /\ recoveryLock \in Procs \cup {NoProc}
    /\ journal \in Captured \cup {NoJournal} /\ journalDigest \in [Targets -> Bytes]
    /\ disk \in [Files -> Content]
    /\ crashes \in Nat /\ faults \in Nat /\ edits \in Nat
    /\ edited \subseteq Files /\ unlockedEdits \subseteq Files
    /\ accepted \in [Files -> Bytes]

\* What the calls hold in memory.
MemType ==
    /\ pc \in [Procs -> Labels] /\ approval \in [Procs -> Approvals]
    /\ originals \in [Procs -> [Targets -> Bytes]]
    /\ cursor \in [Procs -> 0..(N + 1)]
    /\ snapshot \in [Procs -> [Files -> Bytes]]
    /\ outcome \in [Procs -> Outcomes]

MemAt(p) == Restorable(p) /\ Captures(p) /\ CursorInRange(p) /\ CursorAtFirst(p)

MemInv == MemType /\ \A p \in Procs : MemAt(p)

TypeInv == SharedInv /\ MemInv

\* The inductive type invariant implies the one the runs check.
LEMMA TypeInvImpliesTypeOK == TypeInv => TypeOK
  BY ConstantsAssumption
  DEF TypeInv, SharedInv, MemInv, MemType, TypeOK, Captured, NoJournal, Content, Bytes

\* The receipted run and the untouched project a call starts from satisfy the types.
LEMMA InitTypeInv == Init => TypeInv
<1> SUFFICES ASSUME Init PROVE TypeInv  OBVIOUS
<1>1. SharedInv
  BY ConstantsAssumption
  DEF Init, SharedInv, Captured, LifecycleStates, NoJournal, NoSnapshot, SourceTree,
      Source, Content, Bytes
<1>2. MemType
  BY ConstantsAssumption
  DEF Init, MemType, Labels, Approvals, NoJournal, NoSnapshot, Bytes, Outcomes
<1>3. \A p \in Procs : MemAt(p)
  BY DEF Init, MemAt, Restorable, Captures, CursorInRange, CursorAtFirst, Mutating
<1>. QED  BY <1>1, <1>2, <1>3 DEF TypeInv, MemInv

\* Moving on with the memory unchanged.
LEMMA Move ==
  ASSUME MemInv, NEW p \in Procs, NEW to \in Labels,
         pc' = [pc EXCEPT ![p] = to], UNCHANGED memVars,
         to \in Mutating \cup {"restore", "prove"} => originals[p] \in Captured,
         to \in {"replace", "rename", "restore"} => cursor[p] \in Targets,
         to = "capture" => cursor[p] = 1,
         to # "approve_digest"
  PROVE  MemInv'
<1>1. MemType'
  BY DEF MemInv, MemType, memVars
<1>2. ASSUME NEW q \in Procs PROVE MemAt(q)'
  <2>1. pc'[q] = IF q = p THEN to ELSE pc[q]
    BY DEF MemInv, MemType
  <2>2. CASE q # p
    BY <2>1, <2>2 DEF MemInv, MemAt, Restorable, Captures, CursorInRange, CursorAtFirst, memVars
  <2>3. CASE q = p
    BY <2>1, <2>3, ConstantsAssumption
    DEF MemInv, MemAt, Restorable, Captures, CursorInRange, CursorAtFirst, memVars, Targets
  <2>. QED  BY <2>2, <2>3
<1>. QED  BY <1>1, <1>2 DEF MemInv

\* Ending the call.
LEMMA Returning ==
  ASSUME MemInv, NEW p \in Procs, NEW result \in Outcomes, Return(p, result)
  PROVE  MemInv'
<1>1. MemType'
  BY ConstantsAssumption DEF MemInv, MemType, Return, Labels, NoJournal, NoSnapshot, Bytes
<1>2. ASSUME NEW q \in Procs PROVE MemAt(q)'
  <2>1. pc'[q] = IF q = p THEN "returned" ELSE pc[q]
    BY DEF MemInv, MemType, Return
  <2>2. q # p => originals'[q] = originals[q] /\ cursor'[q] = cursor[q]
    BY DEF MemInv, MemType, Return
  <2>3. CASE q # p
    BY <2>1, <2>2, <2>3 DEF MemInv, MemAt, Restorable, Captures, CursorInRange, CursorAtFirst
  <2>4. CASE q = p
    BY <2>1, <2>4 DEF MemAt, Restorable, Captures, CursorInRange, CursorAtFirst, Mutating
  <2>. QED  BY <2>3, <2>4
<1>. QED  BY <1>1, <1>2 DEF MemInv

\* Falling back to the captured originals.
LEMMA Restoring ==
  ASSUME MemInv, NEW p \in Procs, originals[p] \in Captured, StartRestore(p)
  PROVE  MemInv'
<1>1. MemType'
  BY ConstantsAssumption DEF MemInv, MemType, StartRestore, Labels, Closing
<1>2. ASSUME NEW q \in Procs PROVE MemAt(q)'
  <2>1. pc'[q] = IF q = p THEN "restore" ELSE pc[q]
    BY DEF MemInv, MemType, StartRestore
  <2>2. originals'[q] = originals[q] /\ cursor'[q] = IF q = p THEN N ELSE cursor[q]
    BY DEF MemInv, MemType, StartRestore
  <2>3. CASE q # p
    BY <2>1, <2>2, <2>3 DEF MemInv, MemAt, Restorable, Captures, CursorInRange, CursorAtFirst
  <2>4. CASE q = p
    BY <2>1, <2>2, <2>4, ConstantsAssumption
    DEF MemAt, Restorable, Captures, CursorInRange, CursorAtFirst, Targets
  <2>. QED  BY <2>3, <2>4
<1>. QED  BY <1>1, <1>2 DEF MemInv

\* An error while closing ends the call or releases the recovery lock: no type is lost.
LEMMA Aborting ==
  ASSUME MemInv, NEW p \in Procs, Abort(p)
  PROVE  MemInv'
<1>1. CASE recoveryLock = p
  <2>1. "release_recovery" \in Labels \ (Mutating \cup {"restore", "prove"})
    BY DEF Labels, Mutating
  <2>. QED  BY <1>1, <2>1, Move DEF Abort
<1>2. CASE recoveryLock # p
  BY <1>2, Returning DEF Abort, Outcomes
<1>. QED  BY <1>1, <1>2

\* Labels a call moves to without any obligation about its memory.
FreeLabels == Labels \ ({"restore", "prove", "capture", "approve_digest"} \cup Mutating)

\* A step whose target label asks nothing of the memory keeps the memory typed.
LEMMA FreeMove ==
  ASSUME MemInv, NEW p \in Procs, NEW to \in FreeLabels,
         pc' = [pc EXCEPT ![p] = to], UNCHANGED memVars
  PROVE  MemInv'
  BY Move DEF FreeLabels, Mutating

\* Taking or meeting the apply lock (acquireApplyLock) keeps every type.
LEMMA LockTypes ==
  ASSUME TypeInv, NEW p \in Procs, Start(p) \/ Lock(p)
  PROVE  TypeInv'
<1>. USE DEF TypeInv
<1>1. CASE Start(p)
  <2>1. SharedInv'
    BY <1>1 DEF Start, SharedInv, stateVars, lockVars, journalVars, envVars
  <2>2. PICK hash \in Approvals :
            IF StateReadable
            THEN /\ pc' = [pc EXCEPT ![p] = "check_recovery"]
                 /\ approval' = [approval EXCEPT ![p] = hash]
                 /\ UNCHANGED <<originals, cursor, snapshot, outcome>>
            ELSE Return(p, "refused")
    BY <1>1 DEF Start
  <2>3. CASE StateReadable
    <3>1. MemType'
      BY <2>2, <2>3 DEF MemInv, MemType, Labels
    <3>2. \A q \in Procs : pc'[q] = IF q = p THEN "check_recovery" ELSE pc[q]
      BY <2>2, <2>3 DEF MemInv, MemType
    <3>3. \A q \in Procs : MemAt(q)'
      BY <2>2, <2>3, <3>2
      DEF MemInv, MemAt, Restorable, Captures, CursorInRange, CursorAtFirst, Mutating
    <3>. QED  BY <2>1, <3>1, <3>3 DEF MemInv
  <2>4. CASE ~StateReadable
    BY <2>1, <2>2, <2>4, Returning DEF Outcomes
  <2>. QED  BY <2>1, <2>3, <2>4
<1>2. CASE CheckRecoveryLock(p)
  <2>1. SharedInv'
    BY <1>2 DEF CheckRecoveryLock, SharedInv, stateVars, lockVars, journalVars, envVars
  <2>2. "create_lock" \in FreeLabels /\ "refused" \in Outcomes
    BY DEF FreeLabels, Labels, Mutating, Outcomes
  <2>. QED  BY <1>2, <2>1, <2>2, FreeMove, Returning DEF CheckRecoveryLock
<1>3. CASE CreateLock(p)
  <2>1. SharedInv'
    BY <1>3 DEF CreateLock, SharedInv, stateVars, journalVars, envVars
  <2>2. "reread" \in FreeLabels /\ "read_lock" \in FreeLabels
    BY DEF FreeLabels, Labels, BeforeCapture, Mutating
  <2>. QED  BY <1>3, <2>1, <2>2, FreeMove DEF CreateLock, Step
<1>4. CASE ReadLock(p)
  <2>1. SharedInv'
    BY <1>4 DEF ReadLock, SharedInv, stateVars, lockVars, journalVars, envVars
  <2>2. "claim" \in FreeLabels /\ "refused" \in Outcomes
    BY DEF FreeLabels, Labels, Mutating, Outcomes
  <2>3. \/ Return(p, "refused")
        \/ pc' = [pc EXCEPT ![p] = "claim"] /\ UNCHANGED memVars
    BY <1>4 DEF ReadLock, Step
  <2>. QED  BY <2>1, <2>2, <2>3, FreeMove, Returning
<1>. QED  BY <1>1, <1>2, <1>3, <1>4 DEF Lock

\* Taking a stale lock over keeps every type: recovery loads originals only from
\* a journal that is complete, so it never restores a byte nobody read.
LEMMA TakeoverTypes ==
  ASSUME TypeInv, NEW p \in Procs, Takeover(p)
  PROVE  TypeInv'
<1>. USE DEF TypeInv
<1>1. CASE ClaimRecovery(p)
  <2>1. SharedInv'
    BY <1>1 DEF ClaimRecovery, SharedInv, stateVars, journalVars, envVars
  <2>2. "recheck" \in FreeLabels /\ "refused" \in Outcomes
    BY DEF FreeLabels, Labels, Recovering, Mutating, Outcomes
  <2>. QED  BY <1>1, <2>1, <2>2, FreeMove, Returning DEF ClaimRecovery, Step
<1>2. CASE RecheckLock(p)
  <2>1. SharedInv'
    BY <1>2 DEF RecheckLock, SharedInv, stateVars, lockVars, journalVars, envVars
  <2>2. "release_recovery" \in FreeLabels /\ "recover" \in FreeLabels
    BY DEF FreeLabels, Labels, Recovering, Mutating
  <2>3. /\ UNCHANGED memVars
        /\ \/ pc' = [pc EXCEPT ![p] = "release_recovery"]
           \/ pc' = [pc EXCEPT ![p] = "recover"]
    BY <1>2 DEF RecheckLock, Step
  <2>. QED  BY <2>1, <2>2, <2>3, FreeMove
<1>3. CASE Recover(p)
  <2>1. SharedInv'
    BY <1>3 DEF Recover, SharedInv, stateVars, journalVars, envVars
  <2>2. "release_recovery" \in FreeLabels /\ "recreate_lock" \in FreeLabels
        /\ "clean_body" \in FreeLabels
    BY DEF FreeLabels, Labels, Recovering, Closing, Mutating
  <2>3. CASE /\ UNCHANGED memVars
             /\ \/ pc' = [pc EXCEPT ![p] = "release_recovery"]
                \/ pc' = [pc EXCEPT ![p] = "recreate_lock"]
                \/ pc' = [pc EXCEPT ![p] = "clean_body"]
    BY <2>1, <2>2, <2>3, FreeMove
  <2>4. CASE /\ JournalComplete
             /\ originals' = [originals EXCEPT ![p] = journal]
             /\ cursor' = [cursor EXCEPT ![p] = N]
             /\ pc' = [pc EXCEPT ![p] = "restore"]
             /\ UNCHANGED <<approval, snapshot, outcome>>
    <3>1. journal \in Captured
      BY <2>4 DEF SharedInv, JournalComplete
    <3>2. MemType'
      BY <2>4, <3>1, ConstantsAssumption
      DEF MemInv, MemType, Labels, Closing, Captured, Bytes
    <3>3. ASSUME NEW q \in Procs PROVE MemAt(q)'
      <4>1. /\ pc'[q] = IF q = p THEN "restore" ELSE pc[q]
            /\ originals'[q] = IF q = p THEN journal ELSE originals[q]
            /\ cursor'[q] = IF q = p THEN N ELSE cursor[q]
        BY <2>4 DEF MemInv, MemType
      <4>2. CASE q # p
        BY <4>1, <4>2
        DEF MemInv, MemAt, Restorable, Captures, CursorInRange, CursorAtFirst
      <4>3. CASE q = p
        BY <3>1, <4>1, <4>3, ConstantsAssumption
        DEF MemAt, Restorable, Captures, CursorInRange, CursorAtFirst, Targets
      <4>. QED  BY <4>2, <4>3
    <3>. QED  BY <2>1, <3>2, <3>3 DEF MemInv
  <2>. QED  BY <1>3, <2>3, <2>4 DEF Recover, Step
<1>4. CASE RecreateLock(p)
  <2>1. SharedInv'
    BY <1>4 DEF RecreateLock, SharedInv, stateVars, journalVars, envVars
  <2>2. "release_recovery" \in FreeLabels /\ "release_recovery_held" \in FreeLabels
    BY DEF FreeLabels, Labels, Mutating
  <2>. QED  BY <1>4, <2>1, <2>2, FreeMove DEF RecreateLock, Step
<1>5. CASE ReleaseRecovery(p)
  <2>1. SharedInv'
    BY <1>5 DEF ReleaseRecovery, SharedInv, stateVars, journalVars, envVars
  <2>2. "reread" \in FreeLabels /\ "refused" \in Outcomes
    BY DEF FreeLabels, Labels, BeforeCapture, Mutating, Outcomes
  <2>. QED  BY <1>5, <2>1, <2>2, FreeMove, Returning DEF ReleaseRecovery, Step
<1>. QED  BY <1>1, <1>2, <1>3, <1>4, <1>5 DEF Takeover

\* Approval, capture and the journal keep every type: the cursor names a target
\* at each capture, and the journal holds a byte for every target once written.
LEMMA PrepareTypes ==
  ASSUME TypeInv, NEW p \in Procs, Prepare(p)
  PROVE  TypeInv'
<1>. USE DEF TypeInv
<1>1. CASE Reread(p)
  <2>1. SharedInv'
    BY <1>1 DEF Reread, SharedInv, lockVars, journalVars, envVars, LifecycleStates
  <2>2. PICK to \in {"approve_digest", "capture", "release"} : pc' = [pc EXCEPT ![p] = to]
    BY <1>1 DEF Reread, Step
  <2>3. cursor' = [cursor EXCEPT ![p] = 1] /\ UNCHANGED <<approval, originals, snapshot, outcome>>
    BY <1>1 DEF Reread
  <2>4. MemType'
    BY <2>2, <2>3, ConstantsAssumption DEF MemInv, MemType, Labels, BeforeCapture
  <2>5. ASSUME NEW q \in Procs PROVE MemAt(q)'
    <3>1. /\ pc'[q] = IF q = p THEN to ELSE pc[q]
          /\ cursor'[q] = IF q = p THEN 1 ELSE cursor[q]
          /\ originals'[q] = originals[q]
      BY <2>2, <2>3 DEF MemInv, MemType
    <3>2. CASE q # p
      BY <3>1, <3>2 DEF MemInv, MemAt, Restorable, Captures, CursorInRange, CursorAtFirst
    <3>3. CASE q = p
      BY <3>1, <3>3, ConstantsAssumption
      DEF MemAt, Restorable, Captures, CursorInRange, CursorAtFirst, Targets, Mutating
    <3>. QED  BY <3>2, <3>3
  <2>. QED  BY <2>1, <2>4, <2>5 DEF MemInv
<1>2. CASE ApproveDigest(p)
  <2>1. SharedInv'
    BY <1>2 DEF ApproveDigest, SharedInv, lockVars, journalVars, envVars
  <2>2. "capture" \in Labels \ (Mutating \cup {"restore", "prove"})
    BY DEF Labels, BeforeCapture, Mutating
  <2>3. cursor[p] = 1
    BY <1>2 DEF ApproveDigest, Step, MemInv, MemAt, CursorAtFirst
  <2>. QED  BY <1>2, <2>1, <2>2, <2>3, Move DEF ApproveDigest, Step
<1>3. CASE Capture(p)
  <2>1. SharedInv'
    BY <1>3 DEF Capture, SharedInv, stateVars, lockVars, journalVars, envVars
  <2>2. cursor[p] \in Targets /\ disk[cursor[p]] \in Content
    BY <1>3, ConstantsAssumption
    DEF Capture, MemInv, MemAt, CursorInRange, SharedInv, Targets, Files
  <2>3. MemType'
    BY <1>3, <2>2, ConstantsAssumption
    DEF Capture, MemInv, MemType, Labels, BeforeCapture, Mutating, Targets, Bytes
  <2>4. ASSUME NEW q \in Procs, q # p PROVE MemAt(q)'
    BY <1>3, <2>4
    DEF Capture, MemInv, MemType, MemAt, Restorable, Captures, CursorInRange, CursorAtFirst
  <2>5. /\ pc'[p] = IF cursor[p] = N THEN "check_capture" ELSE "capture"
        /\ cursor'[p] = cursor[p] + 1
        /\ originals'[p] = [originals[p] EXCEPT ![cursor[p]] = disk[cursor[p]]]
    BY <1>3 DEF Capture, MemInv, MemType
  <2>6. ASSUME NEW t \in Targets, t < cursor'[p] PROVE originals'[p][t] \in Content
    <3>1. originals[p] \in [Targets -> Bytes] /\ pc[p] = "capture"
      BY <1>3 DEF Capture, MemInv, MemType
    <3>2. t = cursor[p] \/ t < cursor[p]
      BY <2>2, <2>5, <2>6, ConstantsAssumption DEF Targets
    <3>3. t # cursor[p] => originals[p][t] \in Content
      BY <3>1, <3>2 DEF MemInv, MemAt, Captures
    <3>. QED  BY <2>2, <2>5, <3>1, <3>3
  <2>7. CASE cursor[p] = N
    <3>1. originals'[p] \in [Targets -> Bytes]
      BY <2>3 DEF MemType
    <3>2. originals'[p] \in Captured
      BY <2>5, <2>6, <2>7, <3>1, ConstantsAssumption DEF Captured, Targets
    <3>. QED
      BY <2>1, <2>3, <2>4, <2>5, <2>7, <3>2
      DEF MemInv, MemAt, Restorable, Captures, CursorInRange, CursorAtFirst
  <2>8. CASE cursor[p] # N
    <3>1. cursor'[p] \in Targets
      BY <2>2, <2>5, <2>8, ConstantsAssumption DEF Targets
    <3>2. MemAt(p)'
      BY <2>5, <2>6, <2>8, <3>1
      DEF MemAt, Restorable, Captures, CursorInRange, CursorAtFirst, Mutating
    <3>. QED  BY <2>1, <2>3, <2>4, <3>2 DEF MemInv
  <2>. QED  BY <2>7, <2>8
<1>4. CASE CheckCapture(p)
  <2>1. SharedInv'
    BY <1>4 DEF CheckCapture, SharedInv, stateVars, lockVars, journalVars, envVars
  <2>2. originals[p] \in Captured
    BY <1>4 DEF CheckCapture, MemInv, MemAt, Restorable, Mutating
  <2>3. "journal_body" \in Labels
    BY DEF Labels, Mutating
  <2>. QED  BY <1>4, <2>1, <2>2, <2>3, Move, Restoring DEF CheckCapture, Step
<1>5. CASE JournalBody(p)
  <2>1. originals[p] \in Captured
    BY <1>5 DEF JournalBody, Step, MemInv, MemAt, Restorable, Mutating
  <2>2. SharedInv'
    BY <1>5, <2>1 DEF JournalBody, SharedInv, stateVars, lockVars, envVars
  <2>3. "journal_digest" \in Labels
    BY DEF Labels, Mutating
  <2>. QED  BY <1>5, <2>1, <2>2, <2>3, Move DEF JournalBody, Step
<1>6. CASE JournalDigest(p)
  <2>1. originals[p] \in Captured
    BY <1>6 DEF JournalDigest, Step, MemInv, MemAt, Restorable, Mutating
  <2>2. SharedInv'
    BY <1>6, <2>1
    DEF JournalDigest, SharedInv, stateVars, lockVars, envVars, Captured, Bytes
  <2>3. /\ pc' = [pc EXCEPT ![p] = "replace"]
        /\ cursor' = [cursor EXCEPT ![p] = 1]
        /\ UNCHANGED <<approval, originals, snapshot, outcome>>
    BY <1>6 DEF JournalDigest, Step
  <2>4. MemType'
    BY <2>3, ConstantsAssumption DEF MemInv, MemType, Labels, Mutating
  <2>5. ASSUME NEW q \in Procs PROVE MemAt(q)'
    BY <2>1, <2>3, ConstantsAssumption
    DEF MemInv, MemType, MemAt, Restorable, Captures, CursorInRange, CursorAtFirst, Targets
  <2>. QED  BY <2>2, <2>4, <2>5 DEF MemInv
<1>. QED  BY <1>1, <1>2, <1>3, <1>4, <1>5, <1>6 DEF Prepare

\* Replacing targets, verifying and committing keep every type.
LEMMA MutateTypes ==
  ASSUME TypeInv, NEW p \in Procs, Mutate(p)
  PROVE  TypeInv'
<1>. USE DEF TypeInv
<1>. DEFINE Kept == originals[p] \in Captured
<1>1. pc[p] \in Mutating => Kept
  BY DEF MemInv, MemAt, Restorable
<1>2. CASE CheckTarget(p)
  <2>1. SharedInv'
    BY <1>2 DEF CheckTarget, SharedInv, stateVars, lockVars, journalVars, envVars
  <2>2. Kept /\ cursor[p] \in Targets
    BY <1>1, <1>2 DEF CheckTarget, MemInv, MemAt, CursorInRange, Mutating
  <2>3. "rename" \in Labels
    BY DEF Labels, Mutating
  <2>. QED  BY <1>2, <2>1, <2>2, <2>3, Move, Restoring DEF CheckTarget, Step
<1>3. CASE RenameTarget(p)
  <2>1. cursor[p] \in Targets /\ Kept
    BY <1>1, <1>3 DEF RenameTarget, MemInv, MemAt, CursorInRange, Mutating
  <2>2. SharedInv'
    BY <1>3, <2>1 DEF RenameTarget, SharedInv, stateVars, lockVars, journalVars, envVars, Content
  <2>3. MemType'
    BY <1>3, <2>1, ConstantsAssumption
    DEF RenameTarget, MemInv, MemType, Labels, Mutating, Targets
  <2>4. ASSUME NEW q \in Procs PROVE MemAt(q)'
    <3>1. /\ pc'[q] = IF q = p THEN IF cursor[p] = N THEN "take_snapshot" ELSE "replace"
                               ELSE pc[q]
          /\ cursor'[q] = IF q = p THEN cursor[p] + 1 ELSE cursor[q]
          /\ originals'[q] = originals[q]
      BY <1>3 DEF RenameTarget, MemInv, MemType
    <3>2. CASE q # p
      BY <3>1, <3>2 DEF MemInv, MemAt, Restorable, Captures, CursorInRange, CursorAtFirst
    <3>3. CASE q = p
      BY <2>1, <3>1, <3>3, ConstantsAssumption
      DEF MemAt, Restorable, Captures, CursorInRange, CursorAtFirst, Targets
    <3>. QED  BY <3>2, <3>3
  <2>. QED  BY <2>2, <2>3, <2>4 DEF MemInv
<1>4. CASE TakeSnapshot(p)
  <2>1. SharedInv'
    BY <1>4 DEF TakeSnapshot, SharedInv, stateVars, lockVars, journalVars, envVars
  <2>2. MemType'
    BY <1>4 DEF TakeSnapshot, Step, MemInv, MemType, Labels, Mutating, SharedInv, Bytes
  <2>3. \A q \in Procs : MemAt(q)'
    BY <1>1, <1>4
    DEF TakeSnapshot, Step, MemInv, MemType, MemAt, Restorable, Captures, CursorInRange,
        CursorAtFirst, Mutating
  <2>. QED  BY <2>1, <2>2, <2>3 DEF MemInv
<1>5. CASE Verify(p)
  <2>1. SharedInv'
    BY <1>5
    DEF Verify, SharedInv, stateVars, lockVars, journalVars, envVars, MemInv, MemType
  <2>2. Kept /\ "commit" \in Labels
    BY <1>1, <1>5 DEF Verify, Mutating, Labels
  <2>3. \/ pc' = [pc EXCEPT ![p] = "commit"] /\ UNCHANGED memVars
        \/ StartRestore(p)
    BY <1>5 DEF Verify, Step
  <2>. QED  BY <2>1, <2>2, <2>3, Move, Restoring
<1>6. CASE Commit(p)
  <2>1. SharedInv'
    BY <1>6 DEF Commit, SharedInv, lockVars, journalVars, envVars, LifecycleStates
  <2>2. Kept /\ "commit_digest" \in Labels
    BY <1>1, <1>6 DEF Commit, Mutating, Labels
  <2>. QED  BY <1>6, <2>1, <2>2, Move, Restoring DEF Commit, Step
<1>7. CASE CommitDigest(p)
  <2>1. SharedInv'
    BY <1>7 DEF CommitDigest, SharedInv, lockVars, journalVars, envVars
  <2>2. MemType'
    BY <1>7 DEF CommitDigest, Step, MemInv, MemType, Labels, Closing, Outcomes
  <2>3. \A q \in Procs : MemAt(q)'
    BY <1>7
    DEF CommitDigest, Step, MemInv, MemType, MemAt, Restorable, Captures, CursorInRange,
        CursorAtFirst, Mutating
  <2>. QED  BY <2>1, <2>2, <2>3 DEF MemInv
<1>. QED  BY <1>2, <1>3, <1>4, <1>5, <1>6, <1>7 DEF Mutate

\* Rollback, cleanup and release keep every type: each byte restored was captured.
LEMMA CloseTypes ==
  ASSUME TypeInv, NEW p \in Procs, Close(p)
  PROVE  TypeInv'
<1>. USE DEF TypeInv
<1>1. CASE Restore(p)
  <2>1. cursor[p] \in Targets /\ originals[p] \in Captured
    BY <1>1 DEF Restore, MemInv, MemAt, CursorInRange, Restorable
  <2>2. originals[p][cursor[p]] \in Content
    BY <2>1 DEF Captured
  <2>3. SharedInv'
    BY <1>1, <2>2 DEF Restore, SharedInv, stateVars, lockVars, journalVars, envVars
  <2>4. MemType'
    BY <1>1, <2>1, ConstantsAssumption
    DEF Restore, MemInv, MemType, Labels, Closing, Targets
  <2>5. ASSUME NEW q \in Procs PROVE MemAt(q)'
    <3>1. /\ pc'[q] = IF q = p THEN IF cursor[p] = 1 THEN "prove" ELSE "restore" ELSE pc[q]
          /\ cursor'[q] = IF q = p THEN cursor[p] - 1 ELSE cursor[q]
          /\ originals'[q] = originals[q]
      BY <1>1 DEF Restore, MemInv, MemType
    <3>2. CASE q # p
      BY <3>1, <3>2 DEF MemInv, MemAt, Restorable, Captures, CursorInRange, CursorAtFirst
    <3>3. CASE q = p
      BY <2>1, <3>1, <3>3, ConstantsAssumption
      DEF MemAt, Restorable, Captures, CursorInRange, CursorAtFirst, Targets
    <3>. QED  BY <3>2, <3>3
  <2>. QED  BY <2>3, <2>4, <2>5 DEF MemInv
<1>2. CASE ProveRestored(p)
  <2>1. SharedInv'
    BY <1>2 DEF ProveRestored, SharedInv, stateVars, lockVars, journalVars, envVars
  <2>2. "roll_back" \in FreeLabels
    BY DEF FreeLabels, Labels, Closing, Mutating
  <2>. QED  BY <1>2, <2>1, <2>2, FreeMove, Aborting DEF ProveRestored, Step
<1>3. CASE RollBack(p)
  <2>1. SharedInv'
    BY <1>3 DEF RollBack, SharedInv, lockVars, journalVars, envVars, LifecycleStates
  <2>2. "roll_back_digest" \in FreeLabels
    BY DEF FreeLabels, Labels, Closing, Mutating
  <2>3. \/ pc' = [pc EXCEPT ![p] = "roll_back_digest"] /\ UNCHANGED memVars
        \/ Abort(p)
    BY <1>3 DEF RollBack, Step
  <2>. QED  BY <2>1, <2>2, <2>3, FreeMove, Aborting
<1>4. CASE RollBackDigest(p)
  <2>1. SharedInv'
    BY <1>4 DEF RollBackDigest, SharedInv, lockVars, journalVars, envVars
  <2>2. MemType'
    BY <1>4 DEF RollBackDigest, Step, MemInv, MemType, Labels, Closing, Outcomes
  <2>3. \A q \in Procs : MemAt(q)'
    BY <1>4
    DEF RollBackDigest, Step, MemInv, MemType, MemAt, Restorable, Captures, CursorInRange,
        CursorAtFirst, Mutating
  <2>. QED  BY <2>1, <2>2, <2>3 DEF MemInv
<1>5. CASE CleanJournalBody(p)
  <2>1. SharedInv'
    BY <1>5 DEF CleanJournalBody, SharedInv, stateVars, lockVars, envVars
  <2>2. "clean_digest" \in FreeLabels
    BY DEF FreeLabels, Labels, Closing, Mutating
  <2>. QED  BY <1>5, <2>1, <2>2, FreeMove DEF CleanJournalBody, Step
<1>6. CASE CleanJournalDigest(p)
  <2>1. SharedInv'
    BY <1>6 DEF CleanJournalDigest, SharedInv, stateVars, lockVars, envVars, NoJournal, Bytes
  <2>2. "unlock" \in FreeLabels
    BY DEF FreeLabels, Labels, Closing, Mutating
  <2>. QED  BY <1>6, <2>1, <2>2, FreeMove DEF CleanJournalDigest, Step
<1>7. CASE Unlock(p)
  <2>1. SharedInv'
    BY <1>7 DEF Unlock, SharedInv, stateVars, journalVars, envVars
  <2>2. "release_recovery" \in FreeLabels /\ outcome[p] \in Outcomes
    BY DEF FreeLabels, Labels, Mutating, MemInv, MemType
  <2>. QED  BY <1>7, <2>1, <2>2, FreeMove, Returning DEF Unlock, Step
<1>8. CASE Release(p)
  <2>1. SharedInv'
    BY <1>8 DEF Release, SharedInv, stateVars, journalVars, envVars
  <2>. QED  BY <1>8, <2>1, Returning DEF Release, Outcomes
<1>. QED  BY <1>1, <1>2, <1>3, <1>4, <1>5, <1>6, <1>7, <1>8 DEF Close

\* Starts, I/O failures, exits, crashes and user edits keep every type.
LEMMA EnvironmentTypes ==
  ASSUME TypeInv
  PROVE  /\ \A p \in Procs : IOFailure(p) \/ Exit(p) \/ Crash(p) => TypeInv'
         /\ \A f \in Files : UserEdit(f) => TypeInv'
         /\ UNCHANGED vars => TypeInv'
<1>. USE DEF TypeInv
<1>1. ASSUME NEW p \in Procs, IOFailure(p) PROVE TypeInv'
  <2>1. SharedInv'
    BY <1>1 DEF IOFailure, SharedInv, stateVars, lockVars, journalVars
  <2>2. pc[p] \in Mutating => originals[p] \in Captured
    BY DEF MemInv, MemAt, Restorable
  <2>3. "release_recovery" \in FreeLabels /\ "release" \in FreeLabels
    BY DEF FreeLabels, Labels, Mutating
  <2>. QED  BY <1>1, <2>1, <2>2, <2>3, FreeMove, Restoring, Aborting DEF IOFailure
<1>2. ASSUME NEW p \in Procs, Exit(p) PROVE TypeInv'
  <2>1. SharedInv'
    BY <1>2 DEF Exit, SharedInv, stateVars, lockVars, journalVars, envVars
  <2>2. "exited" \in FreeLabels
    BY DEF FreeLabels, Labels, Mutating
  <2>. QED  BY <1>2, <2>1, <2>2, FreeMove DEF Exit, Step
<1>3. ASSUME NEW p \in Procs, Crash(p) PROVE TypeInv'
  <2>1. SharedInv'
    BY <1>3 DEF Crash, SharedInv, stateVars, lockVars, journalVars
  <2>2. MemType'
    BY <1>3, ConstantsAssumption
    DEF Crash, MemInv, MemType, Labels, NoJournal, NoSnapshot, Bytes, Outcomes
  <2>3. ASSUME NEW q \in Procs PROVE MemAt(q)'
    <3>1. pc'[q] = IF q = p THEN "exited" ELSE pc[q]
      BY <1>3 DEF Crash, MemInv, MemType
    <3>2. q # p => originals'[q] = originals[q] /\ cursor'[q] = cursor[q]
      BY <1>3 DEF Crash, MemInv, MemType
    <3>. QED
      BY <3>1, <3>2
      DEF MemInv, MemAt, Restorable, Captures, CursorInRange, CursorAtFirst, Mutating
  <2>. QED  BY <2>1, <2>2, <2>3 DEF MemInv
<1>4. ASSUME NEW f \in Files, UserEdit(f) PROVE TypeInv'
  <2>1. Source(f) \in Content /\ "edited" \in Content
    BY DEF Source, Content
  <2>2. SharedInv'
    BY <1>4, <2>1 DEF UserEdit, SharedInv, stateVars, lockVars, journalVars
  <2>3. MemInv'
    BY <1>4
    DEF UserEdit, memVars, MemInv, MemType, MemAt, Restorable, Captures, CursorInRange,
        CursorAtFirst
  <2>. QED  BY <2>2, <2>3
<1>5. ASSUME UNCHANGED vars PROVE TypeInv'
  <2>1. SharedInv'
    BY <1>5 DEF vars, stateVars, lockVars, journalVars, envVars, SharedInv
  <2>2. MemInv'
    BY <1>5
    DEF vars, memVars, MemInv, MemType, MemAt, Restorable, Captures, CursorInRange,
        CursorAtFirst
  <2>. QED  BY <2>1, <2>2
<1>. QED  BY <1>1, <1>2, <1>3, <1>4, <1>5

\* Every step of the protocol keeps the inductive type invariant.
LEMMA NextTypes == TypeInv /\ [Next]_vars => TypeInv'
  BY LockTypes, TakeoverTypes, PrepareTypes, MutateTypes, CloseTypes, EnvironmentTypes
  DEF Next, Call, Terminated

\* The inductive type invariant holds in every reachable state.
THEOREM TypesInvariant == Spec => []TypeInv
  BY InitTypeInv, NextTypes, PTL DEF Spec

\* Every variable of the apply protocol keeps its type: bytes written back to the
\* project are always bytes that a call or the journal really captured.
THEOREM TypeCorrectness == Spec => []TypeOK
  BY TypesInvariant, TypeInvImpliesTypeOK, PTL

-----------------------------------------------------------------------------
(* Mutual exclusion. *)

OwnerExited == lock \in Procs /\ pc[lock] = "exited"

\* Who holds which lock at which step. A call in the main section owns the apply
\* lock; a recovering call owns the recovery lock and meets a dead owner's lock.
LockInvAt(p) ==
    /\ pc[p] \in BeforeCapture \cup Mutating \cup {"release"}
          => lock = p /\ recoveryLock # p
    /\ pc[p] = "release_recovery_held" => lock = p /\ recoveryLock = p
    /\ pc[p] \in Closing => \/ recoveryLock = p /\ OwnerExited
                            \/ recoveryLock # p /\ lock = p
    /\ pc[p] = "recover" => recoveryLock = p /\ OwnerExited
    /\ pc[p] \in {"recheck", "recreate_lock", "release_recovery"} => recoveryLock = p
    /\ pc[p] \in {"idle", "check_recovery", "create_lock", "read_lock", "claim", "returned"}
          => recoveryLock # p

LockInv == \A p \in Procs : LockInvAt(p)

\* Before any call, nobody stands where a lock must be held.
LEMMA InitLockInv == Init => LockInv
  BY ConstantsAssumption
  DEF Init, LockInv, LockInvAt, BeforeCapture, Mutating, Closing

\* Lock ownership as the invariant states it leaves room for one critical call only.
LEMMA LockInvExcludes == TypeInv /\ LockInv => MutualExclusion
<1> SUFFICES ASSUME LockInv, NEW p \in Procs, NEW q \in Procs, Critical(p), Critical(q)
             PROVE  p = q
  BY DEF MutualExclusion
<1>1. ASSUME NEW r \in Procs, Critical(r)
      PROVE  pc[r] # "exited" /\ (lock = r \/ (recoveryLock = r /\ OwnerExited))
  <2>1. LockInvAt(r)
    BY DEF LockInv
  <2>2. \/ pc[r] = "recover" \/ pc[r] = "release_recovery_held" \/ pc[r] \in Closing
        \/ pc[r] \in BeforeCapture \cup Mutating \cup {"release"}
    BY <1>1 DEF Critical
  <2>3. pc[r] # "exited"
    BY <2>2 DEF BeforeCapture, Mutating, Closing
  <2>4. lock = r \/ (recoveryLock = r /\ OwnerExited)
    BY <2>1, <2>2 DEF LockInvAt
  <2>. QED  BY <2>3, <2>4
<1>. QED  BY <1>1 DEF OwnerExited

\* A step that touches neither lock leaves the invariant to the caller that moves.
LEMMA LocksKept ==
  ASSUME LockInv, NEW p \in Procs, pc[p] # "exited", UNCHANGED lockVars,
         \A q \in Procs \ {p} : pc'[q] = pc[q],
         LockInvAt(p)'
  PROVE  LockInv'
<1> SUFFICES ASSUME NEW q \in Procs, q # p PROVE LockInvAt(q)'
  BY DEF LockInv
<1>1. LockInvAt(q) /\ pc'[q] = pc[q] /\ lock' = lock /\ recoveryLock' = recoveryLock
  BY DEF LockInv, lockVars
<1>2. OwnerExited => OwnerExited'
  BY <1>1 DEF OwnerExited
<1>. QED  BY <1>1, <1>2 DEF LockInvAt

\* Where a call stands after each of the compound moves.
LEMMA Landings ==
  ASSUME MemType, NEW p \in Procs
  PROVE  /\ \A to : pc' = [pc EXCEPT ![p] = to]
               => pc'[p] = to /\ \A q \in Procs \ {p} : pc'[q] = pc[q]
         /\ \A result : Return(p, result)
               => pc'[p] = "returned" /\ \A q \in Procs \ {p} : pc'[q] = pc[q]
         /\ StartRestore(p)
               => pc'[p] = "restore" /\ \A q \in Procs \ {p} : pc'[q] = pc[q]
         /\ Abort(p)
               => /\ pc'[p] = IF recoveryLock = p THEN "release_recovery" ELSE "returned"
                  /\ \A q \in Procs \ {p} : pc'[q] = pc[q]
<1>1. ASSUME NEW to, pc' = [pc EXCEPT ![p] = to]
      PROVE  pc'[p] = to /\ \A q \in Procs \ {p} : pc'[q] = pc[q]
  BY <1>1 DEF MemType
<1>2. \A result : Return(p, result)
        => pc'[p] = "returned" /\ \A q \in Procs \ {p} : pc'[q] = pc[q]
  BY <1>1 DEF Return
<1>3. StartRestore(p) => pc'[p] = "restore" /\ \A q \in Procs \ {p} : pc'[q] = pc[q]
  BY <1>1 DEF StartRestore
<1>4. Abort(p)
        => /\ pc'[p] = IF recoveryLock = p THEN "release_recovery" ELSE "returned"
           /\ \A q \in Procs \ {p} : pc'[q] = pc[q]
  BY <1>1, <1>2 DEF Abort
<1>. QED  BY <1>1, <1>2, <1>3, <1>4

\* Creating the apply lock by an exclusive link keeps lock ownership.
LEMMA LockStep ==
  ASSUME TypeInv, LockInv, NEW p \in Procs, Lock(p) \/ Start(p)
  PROVE  LockInv'
<1>. USE Landings DEF TypeInv, MemInv
<1>1. LockInvAt(p)
  BY DEF LockInv
<1>2. CASE Start(p)
  <2>1. /\ pc[p] = "idle" /\ UNCHANGED lockVars
        /\ pc'[p] \in {"check_recovery", "returned"}
        /\ \A q \in Procs \ {p} : pc'[q] = pc[q]
    BY <1>2 DEF Start
  <2>2. LockInvAt(p)'
    BY <1>1, <2>1 DEF LockInvAt, lockVars, BeforeCapture, Mutating, Closing
  <2>. QED  BY <2>1, <2>2, LocksKept
<1>3. CASE CheckRecoveryLock(p)
  <2>1. /\ pc[p] = "check_recovery" /\ UNCHANGED lockVars
        /\ pc'[p] \in {"create_lock", "returned"}
        /\ \A q \in Procs \ {p} : pc'[q] = pc[q]
    BY <1>3 DEF CheckRecoveryLock
  <2>2. LockInvAt(p)'
    BY <1>1, <2>1 DEF LockInvAt, lockVars, BeforeCapture, Mutating, Closing
  <2>. QED  BY <2>1, <2>2, LocksKept
<1>4. CASE CreateLock(p) /\ lock # NoProc
  <2>1. /\ pc[p] = "create_lock" /\ UNCHANGED lockVars
        /\ pc'[p] = "read_lock"
        /\ \A q \in Procs \ {p} : pc'[q] = pc[q]
    BY <1>4 DEF CreateLock, Step, lockVars
  <2>2. LockInvAt(p)'
    BY <1>1, <2>1 DEF LockInvAt, lockVars, BeforeCapture, Mutating, Closing
  <2>. QED  BY <2>1, <2>2, LocksKept
<1>5. CASE CreateLock(p) /\ lock = NoProc
  \* With no lock file, no call stands in the main section and none recovers.
  <2>1. /\ pc[p] = "create_lock" /\ pc'[p] = "reread" /\ lock' = p
        /\ UNCHANGED recoveryLock
        /\ \A q \in Procs \ {p} : pc'[q] = pc[q]
    BY <1>5 DEF CreateLock, Step
  <2>2. ~OwnerExited /\ \A q \in Procs : lock # q
    BY <1>5, ConstantsAssumption DEF OwnerExited
  <2>3. ASSUME NEW q \in Procs, q # p PROVE LockInvAt(q)'
    BY <2>1, <2>2, <2>3 DEF LockInv, LockInvAt
  <2>4. LockInvAt(p)'
    BY <1>1, <2>1 DEF LockInvAt, BeforeCapture, Mutating, Closing
  <2>. QED  BY <2>3, <2>4 DEF LockInv
<1>6. CASE ReadLock(p)
  <2>1. /\ pc[p] = "read_lock" /\ UNCHANGED lockVars
        /\ pc'[p] \in {"claim", "returned"}
        /\ \A q \in Procs \ {p} : pc'[q] = pc[q]
    BY <1>6 DEF ReadLock, Step
  <2>2. LockInvAt(p)'
    BY <1>1, <2>1 DEF LockInvAt, lockVars, BeforeCapture, Mutating, Closing
  <2>. QED  BY <2>1, <2>2, LocksKept
<1>. QED  BY <1>2, <1>3, <1>4, <1>5, <1>6 DEF Lock

\* The hand-over of a stale lock keeps lock ownership: the owner the recovering
\* call found dead is still the owner, still dead, when its lock is removed.
LEMMA TakeoverStep ==
  ASSUME TypeInv, LockInv, NEW p \in Procs, Takeover(p)
  PROVE  LockInv'
<1>. USE Landings DEF TypeInv, MemInv
<1>1. LockInvAt(p)
  BY DEF LockInv
<1>2. CASE ClaimRecovery(p) /\ recoveryLock # NoProc
  <2>1. /\ pc[p] = "claim" /\ UNCHANGED lockVars
        /\ pc'[p] = "returned"
        /\ \A q \in Procs \ {p} : pc'[q] = pc[q]
    BY <1>2 DEF ClaimRecovery, lockVars
  <2>2. LockInvAt(p)'
    BY <1>1, <2>1 DEF LockInvAt, lockVars, BeforeCapture, Mutating, Closing
  <2>. QED  BY <2>1, <2>2, LocksKept
<1>3. CASE ClaimRecovery(p) /\ recoveryLock = NoProc
  <2>1. /\ pc[p] = "claim" /\ pc'[p] = "recheck" /\ recoveryLock' = p
        /\ UNCHANGED lock
        /\ \A q \in Procs \ {p} : pc'[q] = pc[q]
    BY <1>3 DEF ClaimRecovery, Step
  <2>2. ASSUME NEW q \in Procs, q # p PROVE LockInvAt(q)'
    <3>1. LockInvAt(q) /\ recoveryLock # q
      BY <1>3, ConstantsAssumption DEF LockInv
    <3>. QED  BY <2>1, <2>2, <3>1 DEF LockInvAt
  <2>3. LockInvAt(p)'
    BY <2>1 DEF LockInvAt, BeforeCapture, Mutating, Closing
  <2>. QED  BY <2>2, <2>3 DEF LockInv
<1>4. CASE RecheckLock(p)
  <2>1. /\ pc[p] = "recheck" /\ UNCHANGED lockVars
        /\ \/ pc'[p] = "release_recovery"
           \/ pc'[p] = "recover" /\ lock # NoProc /\ pc[lock] = "exited"
        /\ \A q \in Procs \ {p} : pc'[q] = pc[q]
    BY <1>4 DEF RecheckLock, Step, LivenessAnswers, Alive
  <2>2. pc'[p] = "recover" => OwnerExited'
    <3>1. lock \in Procs \cup {NoProc}
      BY DEF SharedInv
    <3>. QED  BY <2>1, <3>1 DEF OwnerExited, lockVars
  <2>3. LockInvAt(p)'
    BY <1>1, <2>1, <2>2 DEF LockInvAt, lockVars, BeforeCapture, Mutating, Closing
  <2>. QED  BY <2>1, <2>3, LocksKept
<1>5. CASE Recover(p) /\ lock' = lock
  <2>1. /\ pc[p] = "recover" /\ UNCHANGED lockVars
        /\ pc'[p] \in {"clean_body", "restore", "release_recovery", "recreate_lock"}
        /\ \A q \in Procs \ {p} : pc'[q] = pc[q]
    BY <1>5 DEF Recover, Step, lockVars
  <2>2. recoveryLock = p /\ OwnerExited /\ OwnerExited'
    BY <1>1, <2>1 DEF LockInvAt, OwnerExited, lockVars
  <2>3. LockInvAt(p)'
    BY <2>1, <2>2 DEF LockInvAt, lockVars, BeforeCapture, Mutating, Closing
  <2>. QED  BY <2>1, <2>3, LocksKept
<1>6. CASE Recover(p) /\ lock' # lock
  \* The stale lock goes; whoever else is inside would own it or the recovery lock.
  <2>1. /\ pc[p] = "recover" /\ lock' = NoProc /\ pc'[p] = "recreate_lock"
        /\ UNCHANGED recoveryLock
        /\ \A q \in Procs \ {p} : pc'[q] = pc[q]
    BY <1>6 DEF Recover, Step
  <2>2. recoveryLock = p /\ OwnerExited
    BY <1>1, <2>1 DEF LockInvAt
  <2>3. ASSUME NEW q \in Procs, q # p PROVE LockInvAt(q)'
    <3>1. LockInvAt(q) /\ recoveryLock # q
      BY <2>2, <2>3 DEF LockInv
    <3>2. pc[q] \notin BeforeCapture \cup Mutating \cup Closing
                          \cup {"release", "release_recovery_held", "recover"}
      BY <2>2, <3>1 DEF LockInvAt, OwnerExited, BeforeCapture, Mutating, Closing
    <3>. QED  BY <2>1, <2>3, <3>1, <3>2 DEF LockInvAt
  <2>4. LockInvAt(p)'
    BY <2>1, <2>2 DEF LockInvAt, BeforeCapture, Mutating, Closing
  <2>. QED  BY <2>3, <2>4 DEF LockInv
<1>7. CASE RecreateLock(p) /\ lock # NoProc
  <2>1. /\ pc[p] = "recreate_lock" /\ UNCHANGED lockVars
        /\ pc'[p] = "release_recovery"
        /\ \A q \in Procs \ {p} : pc'[q] = pc[q]
    BY <1>7 DEF RecreateLock, Step, lockVars
  <2>2. LockInvAt(p)'
    BY <1>1, <2>1 DEF LockInvAt, lockVars, BeforeCapture, Mutating, Closing
  <2>. QED  BY <2>1, <2>2, LocksKept
<1>8. CASE RecreateLock(p) /\ lock = NoProc
  <2>1. /\ pc[p] = "recreate_lock" /\ pc'[p] = "release_recovery_held" /\ lock' = p
        /\ UNCHANGED recoveryLock
        /\ \A q \in Procs \ {p} : pc'[q] = pc[q]
    BY <1>8 DEF RecreateLock, Step
  <2>2. ~OwnerExited /\ \A q \in Procs : lock # q
    BY <1>8, ConstantsAssumption DEF OwnerExited
  <2>3. ASSUME NEW q \in Procs, q # p PROVE LockInvAt(q)'
    BY <2>1, <2>2, <2>3 DEF LockInv, LockInvAt
  <2>4. LockInvAt(p)'
    BY <1>1, <2>1 DEF LockInvAt, BeforeCapture, Mutating, Closing
  <2>. QED  BY <2>3, <2>4 DEF LockInv
<1>9. CASE ReleaseRecovery(p)
  <2>1. /\ \/ pc[p] = "release_recovery_held" /\ pc'[p] = "reread"
           \/ pc[p] = "release_recovery" /\ pc'[p] = "returned"
        /\ UNCHANGED lock
        /\ \A q \in Procs \ {p} : pc'[q] = pc[q]
    BY <1>9 DEF ReleaseRecovery, Step
  <2>2. recoveryLock = p /\ recoveryLock' = NoProc
    BY <1>1, <1>9, <2>1 DEF LockInvAt, ReleaseRecovery
  <2>3. ASSUME NEW q \in Procs, q # p PROVE LockInvAt(q)'
    <3>1. LockInvAt(q) /\ recoveryLock # q /\ recoveryLock' # q
      BY <2>2, <2>3, ConstantsAssumption DEF LockInv
    <3>. QED  BY <2>1, <2>3, <3>1 DEF LockInvAt
  <2>4. LockInvAt(p)'
    BY <1>1, <2>1, <2>2, ConstantsAssumption DEF LockInvAt, BeforeCapture, Mutating, Closing
  <2>. QED  BY <2>3, <2>4 DEF LockInv
<1>. QED  BY <1>2, <1>3, <1>4, <1>5, <1>6, <1>7, <1>8, <1>9 DEF Takeover


\* Steps from one label of the main section, or of closing, to another of the same.
LEMMA WithinSection ==
  ASSUME LockInv, NEW p \in Procs, UNCHANGED lockVars,
         \A q \in Procs \ {p} : pc'[q] = pc[q],
         \/ /\ pc[p] \in BeforeCapture \cup Mutating
            /\ pc'[p] \in BeforeCapture \cup Mutating \cup Closing \cup {"release"}
         \/ /\ pc[p] \in Closing
            /\ \/ pc'[p] \in Closing
               \/ pc'[p] = IF recoveryLock = p THEN "release_recovery" ELSE "returned"
  PROVE  LockInv'
<1>1. LockInvAt(p)
  BY DEF LockInv
<1>2. pc[p] # "exited"
  BY DEF BeforeCapture, Mutating, Closing
<1>3. CASE pc[p] \in BeforeCapture \cup Mutating
  <2>1. lock = p /\ recoveryLock # p
    BY <1>1, <1>3 DEF LockInvAt
  <2>2. LockInvAt(p)'
    BY <1>3, <2>1 DEF LockInvAt, lockVars, BeforeCapture, Mutating, Closing
  <2>. QED  BY <1>2, <2>2, LocksKept
<1>4. CASE pc[p] \in Closing
  <2>1. \/ recoveryLock = p /\ OwnerExited /\ OwnerExited'
        \/ recoveryLock # p /\ lock = p
    BY <1>1, <1>2, <1>4 DEF LockInvAt, OwnerExited, lockVars
  <2>2. LockInvAt(p)'
    BY <1>4, <2>1 DEF LockInvAt, lockVars, BeforeCapture, Mutating, Closing
  <2>. QED  BY <1>2, <2>2, LocksKept
<1>. QED  BY <1>3, <1>4

\* The section between taking and releasing the lock keeps lock ownership.
LEMMA SectionStep ==
  ASSUME TypeInv, LockInv, NEW p \in Procs, Prepare(p) \/ Mutate(p)
  PROVE  LockInv'
<1>. USE Landings DEF TypeInv, MemInv
<1>1. /\ UNCHANGED lockVars
      /\ pc[p] \in BeforeCapture \cup Mutating
  BY DEF Prepare, Reread, ApproveDigest, Capture, CheckCapture, JournalBody, JournalDigest,
         Mutate, CheckTarget, RenameTarget, TakeSnapshot, Verify, Commit, CommitDigest,
         Step, BeforeCapture, Mutating
<1>2. \A q \in Procs \ {p} : pc'[q] = pc[q]
  <2>1. CASE Prepare(p)
    BY <2>1 DEF Prepare, Reread, ApproveDigest, Capture, CheckCapture, JournalBody,
                JournalDigest, Step
  <2>2. CASE Mutate(p)
    BY <2>2 DEF Mutate, CheckTarget, RenameTarget, TakeSnapshot, Verify, Commit,
                CommitDigest, Step
  <2>. QED  BY <2>1, <2>2
<1>3. pc'[p] \in BeforeCapture \cup Mutating \cup Closing \cup {"release"}
  <2>1. CASE Prepare(p)
    BY <2>1 DEF Prepare, Reread, ApproveDigest, Capture, CheckCapture, JournalBody,
                JournalDigest, Step, BeforeCapture, Mutating, Closing
  <2>2. CASE Mutate(p)
    BY <2>2 DEF Mutate, CheckTarget, RenameTarget, TakeSnapshot, Verify, Commit,
                CommitDigest, Step, BeforeCapture, Mutating, Closing
  <2>. QED  BY <2>1, <2>2
<1>. QED  BY <1>1, <1>2, <1>3, WithinSection

\* Rollback, cleanup and release keep lock ownership: a call removes the lock it
\* owns, a recovery the one of the dead owner it holds the recovery lock for.
LEMMA CloseStep ==
  ASSUME TypeInv, LockInv, NEW p \in Procs, Close(p)
  PROVE  LockInv'
<1>. USE Landings DEF TypeInv, MemInv
<1>1. LockInvAt(p)
  BY DEF LockInv
<1>2. CASE \/ Restore(p) \/ ProveRestored(p) \/ RollBack(p) \/ RollBackDigest(p)
           \/ CleanJournalBody(p) \/ CleanJournalDigest(p)
  <2>1. UNCHANGED lockVars /\ pc[p] \in Closing
    BY <1>2 DEF Restore, ProveRestored, RollBack, RollBackDigest, CleanJournalBody,
                CleanJournalDigest, Step, Closing
  <2>2. \A q \in Procs \ {p} : pc'[q] = pc[q]
    BY <1>2 DEF Restore, ProveRestored, RollBack, RollBackDigest, CleanJournalBody,
                CleanJournalDigest, Step
  <2>3. \/ pc'[p] \in Closing
        \/ pc'[p] = IF recoveryLock = p THEN "release_recovery" ELSE "returned"
    BY <1>2 DEF Restore, ProveRestored, RollBack, RollBackDigest, CleanJournalBody,
                CleanJournalDigest, Step, Closing
  <2>. QED  BY <2>1, <2>2, <2>3, WithinSection
<1>3. CASE Unlock(p)
  <2>1. /\ pc[p] = "unlock" /\ lock' = NoProc /\ UNCHANGED recoveryLock
        /\ pc'[p] = IF recoveryLock = p THEN "release_recovery" ELSE "returned"
        /\ \A q \in Procs \ {p} : pc'[q] = pc[q]
    BY <1>1, <1>3 DEF Unlock, LockInvAt, Step, Closing
  <2>2. \/ recoveryLock = p /\ OwnerExited
        \/ recoveryLock # p /\ lock = p
    BY <1>1, <2>1 DEF LockInvAt, Closing
  <2>3. ASSUME NEW q \in Procs, q # p PROVE LockInvAt(q)'
    \* Whether p recovered or owned the lock, q is in no section that needs it.
    <3>1. LockInvAt(q)
      BY DEF LockInv
    <3>2. ~(lock = q /\ pc[q] # "exited") /\ ~(recoveryLock = q /\ OwnerExited)
      BY <2>1, <2>2, <2>3 DEF OwnerExited, Closing
    <3>3. pc[q] \notin BeforeCapture \cup Mutating \cup Closing
                          \cup {"release", "release_recovery_held", "recover"}
      BY <3>1, <3>2 DEF LockInvAt, BeforeCapture, Mutating, Closing
    <3>. QED  BY <2>1, <2>3, <3>1, <3>3 DEF LockInvAt
  <2>4. LockInvAt(p)'
    BY <2>1, ConstantsAssumption DEF LockInvAt, BeforeCapture, Mutating, Closing
  <2>. QED  BY <2>3, <2>4 DEF LockInv
<1>4. CASE Release(p)
  <2>1. /\ pc[p] = "release" /\ lock = p /\ lock' = NoProc
        /\ recoveryLock # p /\ UNCHANGED recoveryLock
        /\ pc'[p] = "returned"
        /\ \A q \in Procs \ {p} : pc'[q] = pc[q]
    BY <1>1, <1>4 DEF Release, LockInvAt
  <2>2. ~OwnerExited
    BY <2>1 DEF OwnerExited
  <2>3. ASSUME NEW q \in Procs, q # p PROVE LockInvAt(q)'
    <3>1. LockInvAt(q) /\ lock # q
      BY <2>1, <2>3 DEF LockInv
    <3>. QED  BY <2>1, <2>2, <2>3, <3>1 DEF LockInvAt
  <2>4. LockInvAt(p)'
    BY <2>1 DEF LockInvAt, BeforeCapture, Mutating, Closing
  <2>. QED  BY <2>3, <2>4 DEF LockInv
<1>. QED  BY <1>2, <1>3, <1>4 DEF Close

\* Crashes, exits, failed I/O and user edits keep lock ownership: a lock survives
\* its owner, and only a recovery removes it then.
LEMMA EnvironmentStep ==
  ASSUME TypeInv, LockInv
  PROVE  /\ \A p \in Procs : IOFailure(p) \/ Exit(p) \/ Crash(p) => LockInv'
         /\ \A f \in Files : UserEdit(f) => LockInv'
         /\ UNCHANGED vars => LockInv'
<1>. USE Landings DEF TypeInv, MemInv
<1>1. ASSUME NEW p \in Procs, IOFailure(p) PROVE LockInv'
  <2>1. UNCHANGED lockVars /\ \A q \in Procs \ {p} : pc'[q] = pc[q]
    BY <1>1 DEF IOFailure
  <2>2. CASE pc[p] \in Recovering /\ pc'[p] = "release_recovery"
    <3>1. LockInvAt(p)
      BY DEF LockInv
    <3>2. pc[p] # "exited" /\ recoveryLock = p
      BY <2>2, <3>1 DEF LockInvAt, Recovering
    <3>3. LockInvAt(p)'
      BY <2>1, <2>2, <3>2 DEF LockInvAt, lockVars, BeforeCapture, Mutating, Closing
    <3>. QED  BY <2>1, <3>2, <3>3, LocksKept
  <2>3. CASE pc[p] \in BeforeCapture \cup Mutating /\ pc'[p] \in {"release", "restore"}
    BY <2>1, <2>3, WithinSection DEF Closing
  <2>4. CASE /\ pc[p] \in Closing
             /\ pc'[p] = IF recoveryLock = p THEN "release_recovery" ELSE "returned"
    BY <2>1, <2>4, WithinSection
  <2>. QED  BY <1>1, <2>2, <2>3, <2>4 DEF IOFailure
<1>2. ASSUME NEW p \in Procs, Exit(p) \/ Crash(p) PROVE LockInv'
  \* The locks of a process that ends stay behind, and their owner is now dead.
  <2>1. /\ UNCHANGED lockVars /\ pc'[p] = "exited"
        /\ \A q \in Procs \ {p} : pc'[q] = pc[q]
    BY <1>2 DEF Exit, Crash, Step, lockVars
  <2>2. ASSUME NEW q \in Procs, q # p PROVE LockInvAt(q)'
    <3>1. LockInvAt(q) /\ pc'[q] = pc[q] /\ lock' = lock /\ recoveryLock' = recoveryLock
      BY <2>1, <2>2 DEF LockInv, lockVars
    <3>2. OwnerExited => OwnerExited'
      BY <2>1, <3>1 DEF OwnerExited
    <3>. QED  BY <3>1, <3>2 DEF LockInvAt
  <2>3. LockInvAt(p)'
    BY <2>1 DEF LockInvAt, BeforeCapture, Mutating, Closing
  <2>. QED  BY <2>2, <2>3 DEF LockInv
<1>3. ASSUME UNCHANGED <<pc, lockVars>> PROVE LockInv'
  BY <1>3 DEF LockInv, LockInvAt, OwnerExited, lockVars
<1>4. \A f \in Files : UserEdit(f) => UNCHANGED <<pc, lockVars>>
  BY DEF UserEdit
<1>5. UNCHANGED vars => UNCHANGED <<pc, lockVars>>
  BY DEF vars
<1>. QED  BY <1>1, <1>2, <1>3, <1>4, <1>5

\* Every step of the protocol keeps lock ownership.
LEMMA NextLockInv == TypeInv /\ LockInv /\ [Next]_vars => LockInv'
  BY LockStep, TakeoverStep, SectionStep, CloseStep, EnvironmentStep
  DEF Next, Call, Terminated

\* Lock ownership holds in every reachable state.
THEOREM LocksInvariant == Spec => []LockInv
  BY TypesInvariant, InitLockInv, NextLockInv, PTL DEF Spec

\* However many processes call apply on a run, crash in it and take its stale
\* lock over, at most one at a time is where it may write the project.
THEOREM ApplyMutualExclusion == Spec => []MutualExclusion
  BY TypesInvariant, LocksInvariant, LockInvExcludes, PTL

=============================================================================
