-------------------------- MODULE ApplyData_proofs --------------------------
(* What apply leaves on the disk: the state pair, the journal and the project agree in
   every reachable state of ApplyProtocol, for any number of processes, targets, crashes,
   failures and edits, and the protocol implements AtomicApply. Types and lock ownership
   come from ApplyProtocol_proofs. *)
EXTENDS ApplyProtocol_proofs

-----------------------------------------------------------------------------
(* The data invariant *)

\* Bytes that rollback may leave at a target: never the candidate's, and the source's
\* unless the user wrote the file.
IsSource(t, bytes) == bytes # "candidate" /\ (t \notin edited => bytes = Source(t))

Kept(bytes)   == \A t \in Targets : IsSource(t, bytes[t])
SourceDisk    == Kept(disk)
CandidateDisk == \A t \in Targets \ edited : disk[t] = "candidate"

\* A body is one transition ahead of its digest, or the digest covers it.
StatePairInv ==
    \/ stateDigest = "receipted" /\ state \in {"receipted", "approved"}
    \/ stateDigest = "approved" /\ state \in {"approved", "applied", "rolled_back"}
    \/ stateDigest \in {"applied", "rolled_back"} /\ state = stateDigest

\* The project agrees with the committed lifecycle; before that is terminal, only a
\* complete journal allows it to hold candidate bytes.
TreeInv ==
    /\ stateDigest = "applied" => CandidateDisk
    /\ stateDigest = "rolled_back" => SourceDisk
    /\ stateDigest # "applied" /\ ~JournalComplete => SourceDisk
    /\ \A f \in Files \ (Targets \cup edited) : disk[f] = Source(f)

\* A journal lives under a lock, and from before it is written to after it is removed no
\* edit made without a lock is on the disk.
JournalInv ==
    /\ lock = NoProc => JournalAbsent
    /\ journal # NoJournal => Kept(journal) /\ unlockedEdits = {}

BeforeJournal == BeforeCapture \cup {"release", "release_recovery_held", "check_capture",
                                     "journal_body"}
Replacing     == {"replace", "rename", "take_snapshot", "verify", "commit", "commit_digest"}

\* The journal as each step of the critical section finds it.
JournalAt(p) ==
    /\ pc[p] \in BeforeJournal \cup {"unlock"} => JournalAbsent
    /\ pc[p] = "journal_digest" => journal = originals[p]
    /\ pc[p] \in Replacing => JournalComplete
    /\ pc[p] = "clean_digest" => journal = NoJournal

\* The state pair as each step finds it.
StateAt(p) ==
    /\ pc[p] = "approve_digest" => stateDigest = "receipted" /\ state = "approved"
    /\ pc[p] \in {"capture"} \cup (Mutating \ {"commit_digest"}) =>
            stateDigest = "approved" /\ state = "approved"
    /\ pc[p] = "commit_digest" => stateDigest = "approved" /\ state = "applied"
    /\ pc[p] \in {"restore", "prove", "roll_back"} =>
            stateDigest = "approved" /\ state \in {"approved", "applied"}
    /\ pc[p] = "roll_back_digest" => stateDigest = "approved" /\ state = "rolled_back"
    /\ pc[p] \in {"clean_body", "clean_digest", "unlock"} =>
            StateReadable /\ state \in {"applied", "rolled_back"}

\* What a call has captured is the source, whatever the user edits meanwhile.
OriginalsAt(p) ==
    /\ pc[p] = "capture" => \A t \in Targets : t < cursor[p] => IsSource(t, originals[p][t])
    /\ pc[p] \in Mutating \cup {"restore", "prove"} => Kept(originals[p])

\* How far replacement or rollback has come.
DiskAt(p) ==
    /\ pc[p] \in {"replace", "rename"} =>
            \A t \in Targets \ edited : t < cursor[p] => disk[t] = "candidate"
    /\ pc[p] \in {"take_snapshot", "verify", "commit", "commit_digest"} => CandidateDisk
    /\ pc[p] = "restore" => \A t \in Targets : t > cursor[p] => IsSource(t, disk[t])
    /\ pc[p] \in {"prove", "roll_back", "roll_back_digest"} => SourceDisk

\* A call that writes the project has found no edit made without a lock.
EditsAt(p) ==
    pc[p] \in {"approve_digest", "capture", "restore"} \cup Mutating => unlockedEdits = {}

DataAt(p) == JournalAt(p) /\ StateAt(p) /\ OriginalsAt(p) /\ DiskAt(p) /\ EditsAt(p)

DataInv ==
    /\ StatePairInv /\ TreeInv /\ JournalInv /\ UnlockedEditsSurvive /\ OutcomeHolds
    /\ \A p \in Procs : DataAt(p)

-----------------------------------------------------------------------------
(* Steps in general *)

dataVars == <<state, stateDigest, journal, journalDigest, disk, edited, unlockedEdits>>

\* A step of one call leaves the memory of the others alone.
OthersStand(p) ==
    \A q \in Procs \ {p} :
        /\ pc'[q] = pc[q] /\ originals'[q] = originals[q]
        /\ cursor'[q] = cursor[q] /\ outcome'[q] = outcome[q]

\* The functions a call's memory is written into by each kind of move.
LEMMA Moves ==
  ASSUME MemType, NEW p \in Procs
  PROVE  /\ \A to : pc' = [pc EXCEPT ![p] = to] /\ UNCHANGED <<originals, cursor, outcome>>
               => /\ OthersStand(p) /\ pc'[p] = to
                  /\ originals'[p] = originals[p] /\ cursor'[p] = cursor[p]
                  /\ outcome'[p] = outcome[p]
         /\ \A how : Return(p, how)
               => OthersStand(p) /\ pc'[p] = "returned" /\ outcome'[p] = how
         /\ StartRestore(p)
               => /\ OthersStand(p) /\ pc'[p] = "restore" /\ cursor'[p] = N
                  /\ originals'[p] = originals[p] /\ outcome'[p] = outcome[p]
         /\ Abort(p)
               => /\ OthersStand(p) /\ pc'[p] \in {"release_recovery", "returned"}
                  /\ outcome'[p] \in {outcome[p], "failed"}
<1>1. ASSUME NEW to, pc' = [pc EXCEPT ![p] = to], UNCHANGED <<originals, cursor, outcome>>
      PROVE  /\ OthersStand(p) /\ pc'[p] = to
             /\ originals'[p] = originals[p] /\ cursor'[p] = cursor[p]
             /\ outcome'[p] = outcome[p]
  BY <1>1 DEF MemType, OthersStand
<1>2. ASSUME NEW how, Return(p, how)
      PROVE  OthersStand(p) /\ pc'[p] = "returned" /\ outcome'[p] = how
  BY <1>2 DEF MemType, OthersStand, Return
<1>3. StartRestore(p)
        => /\ OthersStand(p) /\ pc'[p] = "restore" /\ cursor'[p] = N
           /\ originals'[p] = originals[p] /\ outcome'[p] = outcome[p]
  BY DEF MemType, OthersStand, StartRestore
<1>4. Abort(p)
        => /\ OthersStand(p) /\ pc'[p] \in {"release_recovery", "returned"}
           /\ outcome'[p] \in {outcome[p], "failed"}
  BY <1>1, <1>2 DEF Abort, memVars
<1>. QED  BY <1>1, <1>2, <1>3, <1>4

\* What the data invariant says of a call depends on the data and on its own memory.
LEMMA DataAtStands ==
  ASSUME NEW q \in Procs, DataAt(q), UNCHANGED dataVars,
         pc'[q] = pc[q], originals'[q] = originals[q], cursor'[q] = cursor[q]
  PROVE  DataAt(q)'
<1>1. JournalAt(q)'
  BY DEF dataVars, DataAt, JournalAt, JournalAbsent, JournalComplete
<1>2. StateAt(q)'
  BY DEF dataVars, DataAt, StateAt, StateReadable
<1>3. OriginalsAt(q)'
  BY DEF dataVars, DataAt, OriginalsAt, Kept, IsSource
<1>4. DiskAt(q)' /\ EditsAt(q)'
  BY DEF dataVars, DataAt, DiskAt, EditsAt, CandidateDisk, SourceDisk, Kept, IsSource
<1>. QED  BY <1>1, <1>2, <1>3, <1>4 DEF DataAt

\* A step that changes no data: only where the call that moves stands is in question.
LEMMA DataKept ==
  ASSUME DataInv, NEW p \in Procs, UNCHANGED dataVars, OthersStand(p),
         lock' = NoProc => JournalAbsent,
         outcome'[p] \in {outcome[p], "none", "refused", "failed"},
         DataAt(p)'
  PROVE  DataInv'
<1>1. StatePairInv' /\ TreeInv'
  BY DEF DataInv, dataVars, StatePairInv, TreeInv, CandidateDisk, SourceDisk, Kept, IsSource,
         JournalComplete
<1>2. JournalInv' /\ UnlockedEditsSurvive'
  BY DEF DataInv, dataVars, JournalInv, JournalAbsent, Kept, IsSource, UnlockedEditsSurvive
<1>3. OutcomeHolds'
  BY DEF DataInv, dataVars, OutcomeHolds, OthersStand, StateReadable
<1>4. ASSUME NEW q \in Procs PROVE DataAt(q)'
  BY DataAtStands DEF DataInv, OthersStand
<1>. QED  BY <1>1, <1>2, <1>3, <1>4 DEF DataInv

\* Labels at which the data invariant asks nothing of a call.
Uninvolved == {"idle", "check_recovery", "create_lock", "read_lock", "claim", "recheck",
               "recover", "recreate_lock", "release_recovery", "returned", "exited"}

LEMMA UninvolvedAfter ==
  ASSUME NEW p \in Procs, pc'[p] \in Uninvolved
  PROVE  DataAt(p)'
  BY DEF Uninvolved, DataAt, JournalAt, StateAt, OriginalsAt, DiskAt, EditsAt, BeforeJournal,
         BeforeCapture, Replacing, Mutating

\* Whoever is involved in the data is in the critical section.
LEMMA InvolvedIsCritical ==
  ASSUME TypeInv, NEW p \in Procs, ~Critical(p)
  PROVE  pc[p] \in Uninvolved
  BY DEF TypeInv, MemInv, MemType, Labels, Uninvolved, Critical, BeforeCapture, Mutating,
         Closing, Recovering

\* A step that writes data: it is the step of the one call in the critical section.
LEMMA DataWritten ==
  ASSUME TypeInv, TypeInv', LockInv, DataInv, NEW p \in Procs, Critical(p), OthersStand(p),
         StatePairInv', TreeInv', JournalInv', UnlockedEditsSurvive',
         \A s \in {"applied", "rolled_back"} :
             StateReadable /\ state = s => StateReadable' /\ state' = s,
         \/ outcome'[p] = outcome[p]
         \/ outcome'[p] \in {"applied", "rolled_back"} /\ StateReadable' /\ state' = outcome'[p],
         DataAt(p)'
  PROVE  DataInv'
<1>1. OutcomeHolds'
  BY DEF DataInv, OutcomeHolds, OthersStand
<1>2. ASSUME NEW q \in Procs, q # p PROVE DataAt(q)'
  <2>1. ~Critical(q)
    BY <1>2, LockInvExcludes DEF MutualExclusion
  <2>2. pc'[q] \in Uninvolved
    BY <1>2, <2>1, InvolvedIsCritical DEF OthersStand
  <2>. QED  BY <2>2, UninvolvedAfter
<1>. QED  BY <1>1, <1>2 DEF DataInv

-----------------------------------------------------------------------------
(* Initially *)

LEMMA InitDataInv == Init => DataInv
<1> SUFFICES ASSUME Init PROVE DataInv
  OBVIOUS
<1>1. SourceDisk /\ \A f \in Files : disk[f] = Source(f)
  BY ConstantsAssumption
  DEF Init, SourceDisk, Kept, IsSource, SourceTree, Source, Targets, Files
<1>2. \A p \in Procs : DataAt(p)
  BY DEF Init, DataAt, JournalAt, StateAt, OriginalsAt, DiskAt, EditsAt, BeforeJournal,
         BeforeCapture, Replacing, Mutating
<1>. QED
  BY <1>1, <1>2
  DEF Init, DataInv, StatePairInv, TreeInv, JournalInv, JournalAbsent, UnlockedEditsSurvive,
      OutcomeHolds

-----------------------------------------------------------------------------
(* Taking the lock, and taking it over *)

LEMMA LockData ==
  ASSUME TypeInv, LockInv, DataInv, NEW p \in Procs, Start(p) \/ Lock(p)
  PROVE  DataInv'
<1>. USE Moves DEF TypeInv, MemInv
<1>1. CASE Start(p)
  <2>1. UNCHANGED dataVars /\ lock' = lock
    BY <1>1 DEF Start, dataVars, stateVars, lockVars, journalVars, envVars
  <2>2. /\ OthersStand(p) /\ pc'[p] \in {"check_recovery", "returned"}
        /\ outcome'[p] \in {outcome[p], "refused"}
    BY <1>1 DEF Start
  <2>3. DataAt(p)'
    BY <2>2, UninvolvedAfter DEF Uninvolved
  <2>. QED  BY <2>1, <2>2, <2>3, DataKept DEF DataInv, JournalInv
<1>2. CASE CheckRecoveryLock(p)
  <2>1. UNCHANGED dataVars /\ lock' = lock
    BY <1>2 DEF CheckRecoveryLock, dataVars, stateVars, lockVars, journalVars, envVars
  <2>2. /\ OthersStand(p) /\ pc'[p] \in {"create_lock", "returned"}
        /\ outcome'[p] \in {outcome[p], "refused"}
    BY <1>2 DEF CheckRecoveryLock, memVars
  <2>3. DataAt(p)'
    BY <2>2, UninvolvedAfter DEF Uninvolved
  <2>. QED  BY <2>1, <2>2, <2>3, DataKept DEF DataInv, JournalInv
<1>3. CASE CreateLock(p)
  <2>1. UNCHANGED dataVars /\ lock' # NoProc
    BY <1>3, ConstantsAssumption DEF CreateLock, dataVars, stateVars, journalVars, envVars
  <2>2. /\ OthersStand(p) /\ outcome'[p] = outcome[p]
        /\ pc'[p] = IF lock = NoProc THEN "reread" ELSE "read_lock"
    BY <1>3 DEF CreateLock, Step, memVars
  <2>3. DataAt(p)'
    <3>1. CASE lock # NoProc
      BY <2>2, <3>1, UninvolvedAfter DEF Uninvolved
    <3>2. CASE lock = NoProc
      <4>1. JournalAbsent'
        BY <2>1, <3>2 DEF DataInv, JournalInv, JournalAbsent, dataVars
      <4>. QED
        BY <2>2, <3>2, <4>1
        DEF DataAt, JournalAt, StateAt, OriginalsAt, DiskAt, EditsAt, BeforeJournal,
            BeforeCapture, Replacing, Mutating
    <3>. QED  BY <3>1, <3>2
  <2>. QED  BY <2>1, <2>2, <2>3, DataKept
<1>4. CASE ReadLock(p)
  <2>1. UNCHANGED dataVars /\ lock' = lock
    BY <1>4 DEF ReadLock, dataVars, stateVars, lockVars, journalVars, envVars
  <2>2. /\ OthersStand(p) /\ pc'[p] \in {"claim", "returned"}
        /\ outcome'[p] \in {outcome[p], "refused"}
    BY <1>4 DEF ReadLock, Step, memVars
  <2>3. DataAt(p)'
    BY <2>2, UninvolvedAfter DEF Uninvolved
  <2>. QED  BY <2>1, <2>2, <2>3, DataKept DEF DataInv, JournalInv
<1>. QED  BY <1>1, <1>2, <1>3, <1>4 DEF Lock

\* Recovery goes on from what the dead call left: it removes a lock only without a journal,
\* restores only from a complete one of an approved run, and cleans up after an applied one.
LEMMA RecoverData ==
  ASSUME TypeInv, LockInv, DataInv, NEW p \in Procs, Recover(p)
  PROVE  DataInv'
<1>. USE Moves DEF TypeInv, MemInv
<1>1. UNCHANGED dataVars
  BY DEF Recover, dataVars, stateVars, journalVars, envVars
<1>2. CASE /\ JournalAbsent /\ lock' = NoProc
           /\ Step(p, "recover", "recreate_lock") /\ UNCHANGED memVars
  <2>1. OthersStand(p) /\ outcome'[p] = outcome[p] /\ pc'[p] = "recreate_lock"
    BY <1>2 DEF Step, memVars
  <2>2. DataAt(p)'
    BY <2>1, UninvolvedAfter DEF Uninvolved
  <2>. QED  BY <1>1, <1>2, <2>1, <2>2, DataKept
<1>3. CASE /\ StateReadable /\ state = "applied" /\ lock' = lock
           /\ Step(p, "recover", "clean_body") /\ UNCHANGED memVars
  <2>1. OthersStand(p) /\ outcome'[p] = outcome[p] /\ pc'[p] = "clean_body"
    BY <1>3 DEF Step, memVars
  <2>2. StateReadable' /\ state' = "applied"
    BY <1>1, <1>3 DEF StateReadable, dataVars
  <2>3. DataAt(p)'
    BY <2>1, <2>2
    DEF DataAt, JournalAt, StateAt, OriginalsAt, DiskAt, EditsAt, BeforeJournal,
        BeforeCapture, Replacing, Mutating
  <2>. QED  BY <1>1, <1>3, <2>1, <2>3, DataKept DEF DataInv, JournalInv
<1>4. CASE /\ StateReadable /\ JournalComplete /\ state = "approved"
           /\ originals' = [originals EXCEPT ![p] = journal]
           /\ cursor' = [cursor EXCEPT ![p] = N]
           /\ Step(p, "recover", "restore")
           /\ UNCHANGED <<lock, approval, snapshot, outcome>>
  <2>1. /\ OthersStand(p) /\ outcome'[p] = outcome[p] /\ pc'[p] = "restore"
        /\ originals'[p] = journal /\ cursor'[p] = N
    BY <1>4 DEF Step, MemType, OthersStand
  <2>2. Kept(journal)' /\ unlockedEdits' = {}
    BY <1>1, <1>4 DEF DataInv, JournalInv, JournalComplete, dataVars, Kept, IsSource
  <2>3. stateDigest' = "approved" /\ state' = "approved" /\ StateReadable'
    BY <1>1, <1>4 DEF StateReadable, dataVars
  <2>4. \A t \in Targets : ~(t > N)
    BY ConstantsAssumption DEF Targets
  <2>5. OriginalsAt(p)' /\ DiskAt(p)'
    BY <1>1, <2>1, <2>2, <2>4 DEF OriginalsAt, DiskAt, Kept, IsSource, dataVars
  <2>6. JournalAt(p)' /\ StateAt(p)' /\ EditsAt(p)'
    BY <2>1, <2>2, <2>3
    DEF JournalAt, StateAt, EditsAt, BeforeJournal, BeforeCapture, Replacing, Mutating
  <2>. QED  BY <1>1, <1>4, <2>1, <2>5, <2>6, DataKept DEF DataAt, DataInv, JournalInv
<1>5. CASE /\ Step(p, "recover", "release_recovery") /\ UNCHANGED <<lock, memVars>>
  <2>1. OthersStand(p) /\ outcome'[p] = outcome[p] /\ pc'[p] = "release_recovery"
    BY <1>5 DEF Step, memVars
  <2>2. DataAt(p)'
    BY <2>1, UninvolvedAfter DEF Uninvolved
  <2>. QED  BY <1>1, <1>5, <2>1, <2>2, DataKept DEF DataInv, JournalInv
<1>. QED  BY <1>2, <1>3, <1>4, <1>5 DEF Recover

\* The rest of the takeover: the lock is recreated only where none is.
LEMMA TakeoverData ==
  ASSUME TypeInv, LockInv, DataInv, NEW p \in Procs, Takeover(p)
  PROVE  DataInv'
<1>. USE Moves DEF TypeInv, MemInv
<1>1. CASE ClaimRecovery(p)
  <2>1. UNCHANGED dataVars /\ lock' = lock
    BY <1>1 DEF ClaimRecovery, dataVars, stateVars, journalVars, envVars
  <2>2. /\ OthersStand(p) /\ pc'[p] \in {"recheck", "returned"}
        /\ outcome'[p] \in {outcome[p], "refused"}
    BY <1>1 DEF ClaimRecovery, Step, memVars
  <2>3. DataAt(p)'
    BY <2>2, UninvolvedAfter DEF Uninvolved
  <2>. QED  BY <2>1, <2>2, <2>3, DataKept DEF DataInv, JournalInv
<1>2. CASE RecheckLock(p)
  <2>1. UNCHANGED dataVars /\ lock' = lock
    BY <1>2 DEF RecheckLock, dataVars, stateVars, lockVars, journalVars, envVars
  <2>2. /\ OthersStand(p) /\ pc'[p] \in {"release_recovery", "recover"}
        /\ outcome'[p] = outcome[p]
    BY <1>2 DEF RecheckLock, Step, memVars
  <2>3. DataAt(p)'
    BY <2>2, UninvolvedAfter DEF Uninvolved
  <2>. QED  BY <2>1, <2>2, <2>3, DataKept DEF DataInv, JournalInv
<1>3. CASE RecreateLock(p)
  <2>1. UNCHANGED dataVars /\ lock' # NoProc
    BY <1>3, ConstantsAssumption DEF RecreateLock, dataVars, stateVars, journalVars, envVars
  <2>2. /\ OthersStand(p) /\ outcome'[p] = outcome[p]
        /\ pc'[p] = IF lock = NoProc THEN "release_recovery_held" ELSE "release_recovery"
    BY <1>3 DEF RecreateLock, Step, memVars
  <2>3. DataAt(p)'
    <3>1. CASE lock # NoProc
      BY <2>2, <3>1, UninvolvedAfter DEF Uninvolved
    <3>2. CASE lock = NoProc
      <4>1. JournalAbsent'
        BY <2>1, <3>2 DEF DataInv, JournalInv, JournalAbsent, dataVars
      <4>. QED
        BY <2>2, <3>2, <4>1
        DEF DataAt, JournalAt, StateAt, OriginalsAt, DiskAt, EditsAt, BeforeJournal,
            BeforeCapture, Replacing, Mutating
    <3>. QED  BY <3>1, <3>2
  <2>. QED  BY <2>1, <2>2, <2>3, DataKept
<1>4. CASE ReleaseRecovery(p)
  <2>1. UNCHANGED dataVars /\ lock' = lock
    BY <1>4 DEF ReleaseRecovery, dataVars, stateVars, journalVars, envVars
  <2>2. /\ OthersStand(p) /\ outcome'[p] \in {outcome[p], "refused"}
        /\ \/ pc[p] = "release_recovery_held" /\ pc'[p] = "reread"
           \/ pc'[p] = "returned"
    BY <1>4 DEF ReleaseRecovery, Step, memVars
  <2>3. pc[p] = "release_recovery_held" => JournalAbsent'
    BY <2>1 DEF DataInv, DataAt, JournalAt, BeforeJournal, JournalAbsent, dataVars
  <2>4. DataAt(p)'
    <3>1. CASE pc'[p] = "returned"
      BY <3>1, UninvolvedAfter DEF Uninvolved
    <3>2. CASE pc'[p] = "reread" /\ JournalAbsent'
      BY <3>2
      DEF DataAt, JournalAt, StateAt, OriginalsAt, DiskAt, EditsAt, BeforeJournal,
          BeforeCapture, Replacing, Mutating
    <3>. QED  BY <2>2, <2>3, <3>1, <3>2
  <2>. QED  BY <2>1, <2>2, <2>4, DataKept DEF DataInv, JournalInv
<1>. QED  BY <1>1, <1>2, <1>3, <1>4, RecoverData DEF Takeover

-----------------------------------------------------------------------------
(* Approval, capture, journal *)

\* The call that works under a lock is critical, and the lock file is there.
LEMMA UnderLock ==
  ASSUME TypeInv, LockInv, NEW p \in Procs,
         pc[p] \in BeforeCapture \cup Mutating \cup Closing \cup {"release"}
  PROVE  Critical(p) /\ lock # NoProc
<1>1. LockInvAt(p)
  BY DEF LockInv
<1>2. lock = p \/ OwnerExited
  BY <1>1 DEF LockInvAt
<1>. QED  BY <1>2, ConstantsAssumption DEF Critical, OwnerExited

\* Restoring starts with nothing restored yet: what was captured is all it needs.
LEMMA RestoreStarts ==
  ASSUME TypeInv, LockInv, DataInv, NEW p \in Procs, pc[p] \in Mutating, UNCHANGED dataVars,
         StartRestore(p), lock' = lock
  PROVE  DataInv'
<1>1. /\ OthersStand(p) /\ pc'[p] = "restore" /\ cursor'[p] = N
      /\ originals'[p] = originals[p] /\ outcome'[p] = outcome[p]
  BY Moves DEF TypeInv, MemInv
<1>2. lock # NoProc
  BY UnderLock
<1>3. Kept(originals[p]) /\ unlockedEdits = {}
  BY DEF DataInv, DataAt, OriginalsAt, EditsAt
<1>4. stateDigest = "approved" /\ state \in {"approved", "applied"}
  BY DEF DataInv, DataAt, StateAt
<1>5. \A t \in Targets : ~(t > N)
  BY ConstantsAssumption DEF Targets
<1>6. OriginalsAt(p)' /\ DiskAt(p)'
  BY <1>1, <1>3, <1>5 DEF OriginalsAt, DiskAt, Kept, IsSource, dataVars
<1>7. JournalAt(p)' /\ StateAt(p)' /\ EditsAt(p)'
  BY <1>1, <1>3, <1>4
  DEF JournalAt, StateAt, EditsAt, BeforeJournal, BeforeCapture, Replacing, Mutating, dataVars
<1>. QED  BY <1>1, <1>2, <1>6, <1>7, DataKept DEF DataAt

\* The call reads the run again under its lock: it goes on only from the source tree, on
\* which no edit made before the lock can stand.
LEMMA RereadData ==
  ASSUME TypeInv, TypeInv', LockInv, DataInv, NEW p \in Procs, Reread(p)
  PROVE  DataInv'
<1>1. Critical(p) /\ lock' # NoProc /\ pc[p] = "reread" /\ JournalAbsent
  BY UnderLock DEF Reread, BeforeCapture, lockVars, DataInv, DataAt, JournalAt, BeforeJournal
<1>2. /\ UNCHANGED <<stateDigest, journal, journalDigest, disk, edited, unlockedEdits>>
      /\ JournalAbsent'
  BY <1>1 DEF Reread, journalVars, envVars, JournalAbsent
<1>3. /\ OthersStand(p) /\ outcome'[p] = outcome[p] /\ cursor'[p] = 1
      /\ pc'[p] \in {"approve_digest", "capture", "release"}
  BY DEF Reread, Step, TypeInv, MemInv, MemType, OthersStand
<1>4. disk = SourceTree => unlockedEdits = {}
  BY DEF DataInv, UnlockedEditsSurvive, SourceTree, Source, TypeInv, SharedInv
<1>5. \A t \in Targets : ~(t < 1)
  BY DEF Targets
<1>6. CASE pc'[p] = "approve_digest"
  <2>1. /\ StateReadable /\ disk = SourceTree /\ state' = "approved"
        /\ "approved" \in Transitions[state]
    BY <1>6, <1>3 DEF Reread, Step, CanAdvance, TypeInv, MemInv, MemType
  <2>2. state = "receipted" /\ stateDigest = "receipted"
    BY <2>1 DEF DataInv, StatePairInv, StateReadable, Transitions
  <2>3. StatePairInv' /\ TreeInv' /\ JournalInv' /\ UnlockedEditsSurvive'
    BY <1>1, <1>2, <2>1, <2>2
    DEF DataInv, StatePairInv, TreeInv, CandidateDisk, SourceDisk, Kept, IsSource,
        JournalComplete, JournalInv, JournalAbsent, UnlockedEditsSurvive
  <2>4. DataAt(p)'
    BY <1>2, <1>4, <1>6, <2>1, <2>2
    DEF DataAt, JournalAt, StateAt, OriginalsAt, DiskAt, EditsAt, BeforeJournal,
        BeforeCapture, Replacing, Mutating
  <2>. QED  BY <1>1, <1>3, <2>2, <2>3, <2>4, DataWritten
<1>7. CASE pc'[p] = "capture"
  <2>1. StateReadable /\ disk = SourceTree /\ state' = state /\ state = "approved"
    BY <1>7, <1>3 DEF Reread, Step, TypeInv, MemInv, MemType
  <2>2. StateReadable' /\ state' = "approved" /\ stateDigest' = "approved" /\ UNCHANGED dataVars
    BY <1>2, <2>1 DEF StateReadable, dataVars
  <2>3. DataAt(p)'
    BY <1>2, <1>3, <1>4, <1>5, <1>7, <2>1, <2>2
    DEF DataAt, JournalAt, StateAt, OriginalsAt, DiskAt, EditsAt, BeforeJournal,
        BeforeCapture, Replacing, Mutating
  <2>. QED  BY <1>1, <1>3, <2>2, <2>3, DataKept
<1>8. CASE pc'[p] = "release"
  <2>1. state' = state
    BY <1>8, <1>3 DEF Reread, Step, TypeInv, MemInv, MemType
  <2>2. DataAt(p)'
    BY <1>2, <1>8
    DEF DataAt, JournalAt, StateAt, OriginalsAt, DiskAt, EditsAt, BeforeJournal,
        BeforeCapture, Replacing, Mutating
  <2>. QED  BY <1>1, <1>2, <1>3, <2>1, <2>2, DataKept DEF dataVars
<1>. QED  BY <1>3, <1>6, <1>7, <1>8

LEMMA ApproveDigestData ==
  ASSUME TypeInv, TypeInv', LockInv, DataInv, NEW p \in Procs, ApproveDigest(p)
  PROVE  DataInv'
<1>1. Critical(p) /\ lock' # NoProc /\ pc[p] = "approve_digest"
  BY UnderLock DEF ApproveDigest, Step, BeforeCapture, lockVars
<1>2. /\ JournalAbsent /\ stateDigest = "receipted" /\ state = "approved" /\ unlockedEdits = {}
  BY <1>1 DEF DataInv, DataAt, JournalAt, BeforeJournal, BeforeCapture, StateAt, EditsAt
<1>3. /\ UNCHANGED <<state, journal, journalDigest, disk, edited, unlockedEdits>>
      /\ stateDigest' = "approved" /\ JournalAbsent'
  BY <1>2 DEF ApproveDigest, journalVars, envVars, JournalAbsent
<1>4. /\ OthersStand(p) /\ outcome'[p] = outcome[p] /\ cursor'[p] = cursor[p]
      /\ pc'[p] = "capture"
  BY Moves DEF ApproveDigest, Step, TypeInv, MemInv, memVars
<1>5. \A t \in Targets : ~(t < cursor[p])
  BY <1>1, ConstantsAssumption DEF TypeInv, MemInv, MemAt, CursorAtFirst, Targets
<1>6. StatePairInv' /\ TreeInv' /\ JournalInv' /\ UnlockedEditsSurvive'
  BY <1>1, <1>2, <1>3
  DEF DataInv, StatePairInv, TreeInv, CandidateDisk, SourceDisk, Kept, IsSource,
      JournalComplete, JournalInv, JournalAbsent, UnlockedEditsSurvive
<1>7. DataAt(p)'
  BY <1>2, <1>3, <1>4, <1>5
  DEF DataAt, JournalAt, StateAt, OriginalsAt, DiskAt, EditsAt, BeforeJournal,
      BeforeCapture, Replacing, Mutating
<1>. QED  BY <1>1, <1>2, <1>4, <1>6, <1>7, DataWritten

\* Nothing but an edit keeps a captured target from being the source.
LEMMA CaptureData ==
  ASSUME TypeInv, TypeInv', LockInv, DataInv, NEW p \in Procs, Capture(p)
  PROVE  DataInv'
<1>1. lock' # NoProc /\ pc[p] = "capture" /\ UNCHANGED dataVars
  BY UnderLock
  DEF Capture, BeforeCapture, dataVars, stateVars, lockVars, journalVars, envVars
<1>2. /\ JournalAbsent /\ stateDigest = "approved" /\ state = "approved"
      /\ unlockedEdits = {} /\ SourceDisk
      /\ \A t \in Targets : t < cursor[p] => IsSource(t, originals[p][t])
  <2>1. JournalAbsent => ~JournalComplete
    BY DEF JournalAbsent, JournalComplete
  <2>. QED
    BY <1>1, <2>1
    DEF DataInv, DataAt, JournalAt, BeforeJournal, BeforeCapture, StateAt, EditsAt,
        OriginalsAt, TreeInv
<1>3. /\ OthersStand(p) /\ outcome'[p] = outcome[p] /\ cursor'[p] = cursor[p] + 1
      /\ pc'[p] = IF cursor[p] = N THEN "check_capture" ELSE "capture"
      /\ originals'[p] = [originals[p] EXCEPT ![cursor[p]] = disk[cursor[p]]]
  BY DEF Capture, TypeInv, MemInv, MemType, OthersStand
<1>4. cursor[p] \in Targets /\ originals[p] \in [Targets -> Bytes]
  BY <1>1 DEF TypeInv, MemInv, MemType, MemAt, CursorInRange
<1>5. \A t \in Targets : t < cursor[p] + 1 => IsSource(t, originals'[p][t])
  <2> SUFFICES ASSUME NEW t \in Targets, t < cursor[p] + 1 PROVE IsSource(t, originals'[p][t])
    OBVIOUS
  <2>1. t = cursor[p] \/ t < cursor[p]
    BY <1>4, ConstantsAssumption DEF Targets
  <2>2. CASE t = cursor[p]
    BY <1>2, <1>3, <1>4, <2>2 DEF SourceDisk, Kept
  <2>3. CASE t # cursor[p]
    BY <1>2, <1>3, <1>4, <2>1, <2>3
  <2>. QED  BY <2>2, <2>3
<1>6. cursor[p] = N => \A t \in Targets : t < cursor[p] + 1
  BY ConstantsAssumption DEF Targets
<1>7. OriginalsAt(p)'
  BY <1>1, <1>3, <1>5, <1>6 DEF OriginalsAt, Kept, IsSource, dataVars, Mutating
<1>8. JournalAt(p)' /\ StateAt(p)' /\ DiskAt(p)' /\ EditsAt(p)'
  BY <1>1, <1>2, <1>3
  DEF JournalAt, StateAt, DiskAt, EditsAt, BeforeJournal, BeforeCapture, Replacing, Mutating,
      JournalAbsent, dataVars
<1>. QED  BY <1>1, <1>3, <1>7, <1>8, DataKept DEF DataAt

\* Either the captured tree is still the source and goes into the journal, or it is restored.
LEMMA CheckCaptureData ==
  ASSUME TypeInv, TypeInv', LockInv, DataInv, NEW p \in Procs, CheckCapture(p)
  PROVE  DataInv'
<1>1. /\ lock' = lock /\ lock # NoProc /\ pc[p] = "check_capture" /\ UNCHANGED dataVars
      /\ pc[p] \in Mutating
  BY UnderLock
  DEF CheckCapture, Mutating, dataVars, stateVars, lockVars, journalVars, envVars
<1>2. CASE StartRestore(p)
  BY <1>1, <1>2, RestoreStarts
<1>3. CASE Step(p, "check_capture", "journal_body") /\ UNCHANGED memVars
  <2>1. /\ JournalAbsent /\ stateDigest = "approved" /\ state = "approved"
        /\ unlockedEdits = {} /\ Kept(originals[p])
    BY <1>1
    DEF DataInv, DataAt, JournalAt, BeforeJournal, StateAt, EditsAt, OriginalsAt, Mutating
  <2>2. /\ OthersStand(p) /\ pc'[p] = "journal_body" /\ originals'[p] = originals[p]
        /\ outcome'[p] = outcome[p]
    BY <1>3, Moves DEF Step, memVars, TypeInv, MemInv
  <2>3. OriginalsAt(p)'
    BY <1>1, <2>1, <2>2 DEF OriginalsAt, Kept, IsSource, dataVars
  <2>4. JournalAt(p)' /\ StateAt(p)' /\ DiskAt(p)' /\ EditsAt(p)'
    BY <1>1, <2>1, <2>2
    DEF JournalAt, StateAt, DiskAt, EditsAt, BeforeJournal, BeforeCapture, Replacing, Mutating,
        JournalAbsent, dataVars
  <2>. QED  BY <1>1, <2>2, <2>3, <2>4, DataKept DEF DataAt
<1>. QED  BY <1>2, <1>3 DEF CheckCapture

\* The body of the journal holds the source before a target is written.
LEMMA JournalBodyData ==
  ASSUME TypeInv, TypeInv', LockInv, DataInv, NEW p \in Procs, JournalBody(p)
  PROVE  DataInv'
<1>1. /\ Critical(p) /\ lock' = lock /\ lock # NoProc /\ pc[p] = "journal_body"
      /\ UNCHANGED <<state, stateDigest, journalDigest, disk, edited, unlockedEdits>>
      /\ journal' = originals[p]
  BY UnderLock DEF JournalBody, Step, Mutating, stateVars, lockVars, envVars
<1>2. /\ JournalAbsent /\ stateDigest = "approved" /\ state = "approved"
      /\ unlockedEdits = {} /\ Kept(originals[p])
  BY <1>1
  DEF DataInv, DataAt, JournalAt, BeforeJournal, StateAt, EditsAt, OriginalsAt, Mutating
<1>3. /\ OthersStand(p) /\ pc'[p] = "journal_digest" /\ originals'[p] = originals[p]
      /\ outcome'[p] = outcome[p]
  BY Moves DEF JournalBody, Step, memVars, TypeInv, MemInv
<1>4. SourceDisk
  BY <1>2 DEF DataInv, TreeInv, JournalAbsent, JournalComplete
<1>5. originals'[p] = journal' /\ Kept(originals[p])' /\ Kept(journal)' /\ SourceDisk'
  BY <1>1, <1>2, <1>3, <1>4 DEF Kept, IsSource, SourceDisk
<1>6. StatePairInv' /\ TreeInv' /\ JournalInv' /\ UnlockedEditsSurvive'
  BY <1>1, <1>2, <1>5
  DEF DataInv, StatePairInv, TreeInv, JournalInv, UnlockedEditsSurvive
<1>7. DataAt(p)'
  BY <1>1, <1>2, <1>3, <1>5
  DEF DataAt, JournalAt, StateAt, OriginalsAt, DiskAt, EditsAt, BeforeJournal,
      BeforeCapture, Replacing, Mutating
<1>. QED  BY <1>1, <1>3, <1>6, <1>7, DataWritten DEF StateReadable

\* The digest completes the journal: from here on targets may be replaced.
LEMMA JournalDigestData ==
  ASSUME TypeInv, TypeInv', LockInv, DataInv, NEW p \in Procs, JournalDigest(p)
  PROVE  DataInv'
<1>1. /\ Critical(p) /\ lock' = lock /\ lock # NoProc /\ pc[p] = "journal_digest"
      /\ UNCHANGED <<state, stateDigest, journal, disk, edited, unlockedEdits>>
      /\ journalDigest' = originals[p]
  BY UnderLock DEF JournalDigest, Step, Mutating, stateVars, lockVars, envVars
<1>2. /\ journal = originals[p] /\ stateDigest = "approved" /\ state = "approved"
      /\ unlockedEdits = {} /\ Kept(originals[p])
  BY <1>1 DEF DataInv, DataAt, JournalAt, StateAt, EditsAt, OriginalsAt, Mutating
<1>3. /\ OthersStand(p) /\ pc'[p] = "replace" /\ cursor'[p] = 1
      /\ originals'[p] = originals[p] /\ outcome'[p] = outcome[p]
  BY DEF JournalDigest, Step, TypeInv, MemInv, MemType, OthersStand
<1>4. JournalComplete'
  <2>1. originals[p] \in [Targets -> Content]
    BY <1>1 DEF TypeInv, MemInv, MemAt, Restorable, Mutating, Captured
  <2>2. 1 \in Targets /\ "unread" \notin Content
    BY ConstantsAssumption DEF Targets, Content
  <2>3. originals[p][1] # NoJournal[1]
    BY <2>1, <2>2 DEF NoJournal
  <2>. QED  BY <1>1, <1>2, <2>3 DEF JournalComplete
<1>5. Kept(originals[p])' /\ Kept(journal)'
  BY <1>1, <1>2, <1>3 DEF Kept, IsSource
<1>6. \A t \in Targets : ~(t < 1)
  BY DEF Targets
<1>7. \A f \in Files \ (Targets \cup edited) : disk'[f] = Source(f)
  BY <1>1 DEF DataInv, TreeInv
<1>8. StatePairInv' /\ TreeInv' /\ JournalInv' /\ UnlockedEditsSurvive'
  BY <1>1, <1>2, <1>4, <1>5, <1>7
  DEF DataInv, StatePairInv, TreeInv, JournalInv, UnlockedEditsSurvive
<1>9. DataAt(p)'
  BY <1>1, <1>2, <1>3, <1>4, <1>5, <1>6
  DEF DataAt, JournalAt, StateAt, OriginalsAt, DiskAt, EditsAt, BeforeJournal,
      BeforeCapture, Replacing, Mutating
<1>. QED  BY <1>1, <1>3, <1>8, <1>9, DataWritten DEF StateReadable

LEMMA PrepareData ==
  ASSUME TypeInv, TypeInv', LockInv, DataInv, NEW p \in Procs, Prepare(p)
  PROVE  DataInv'
  BY RereadData, ApproveDigestData, CaptureData, CheckCaptureData, JournalBodyData,
     JournalDigestData DEF Prepare

-----------------------------------------------------------------------------
(* Replacement, verification, commit *)

LEMMA CheckTargetData ==
  ASSUME TypeInv, TypeInv', LockInv, DataInv, NEW p \in Procs, CheckTarget(p)
  PROVE  DataInv'
<1>1. /\ lock' = lock /\ lock # NoProc /\ pc[p] = "replace" /\ UNCHANGED dataVars
      /\ pc[p] \in Mutating
  BY UnderLock
  DEF CheckTarget, Mutating, dataVars, stateVars, lockVars, journalVars, envVars
<1>2. CASE StartRestore(p)
  BY <1>1, <1>2, RestoreStarts
<1>3. CASE Step(p, "replace", "rename") /\ UNCHANGED memVars
  <2>1. /\ JournalComplete /\ stateDigest = "approved" /\ state = "approved"
        /\ unlockedEdits = {} /\ Kept(originals[p])
        /\ \A t \in Targets \ edited : t < cursor[p] => disk[t] = "candidate"
    BY <1>1
    DEF DataInv, DataAt, JournalAt, StateAt, EditsAt, OriginalsAt, DiskAt, Mutating, Replacing
  <2>2. /\ OthersStand(p) /\ pc'[p] = "rename" /\ originals'[p] = originals[p]
        /\ cursor'[p] = cursor[p] /\ outcome'[p] = outcome[p]
    BY <1>3, Moves DEF Step, memVars, TypeInv, MemInv
  <2>3. OriginalsAt(p)'
    BY <1>1, <2>1, <2>2 DEF OriginalsAt, Kept, IsSource, dataVars
  <2>4. JournalAt(p)' /\ StateAt(p)' /\ DiskAt(p)' /\ EditsAt(p)'
    BY <1>1, <2>1, <2>2
    DEF JournalAt, StateAt, DiskAt, EditsAt, BeforeJournal, BeforeCapture, Replacing, Mutating,
        JournalComplete, dataVars
  <2>. QED  BY <1>1, <2>2, <2>3, <2>4, DataKept DEF DataAt
<1>. QED  BY <1>2, <1>3 DEF CheckTarget

\* The only step that writes candidate bytes: under a complete journal of an approved run.
LEMMA RenameTargetData ==
  ASSUME TypeInv, TypeInv', LockInv, DataInv, NEW p \in Procs, RenameTarget(p)
  PROVE  DataInv'
<1>1. /\ Critical(p) /\ lock' = lock /\ lock # NoProc /\ pc[p] = "rename"
      /\ UNCHANGED <<state, stateDigest, journal, journalDigest, edited, unlockedEdits>>
      /\ disk' = [disk EXCEPT ![cursor[p]] = "candidate"]
  BY UnderLock DEF RenameTarget, Mutating, stateVars, lockVars, journalVars, envVars
<1>2. /\ JournalComplete /\ stateDigest = "approved" /\ state = "approved"
      /\ unlockedEdits = {} /\ Kept(originals[p])
      /\ \A t \in Targets \ edited : t < cursor[p] => disk[t] = "candidate"
  BY <1>1
  DEF DataInv, DataAt, JournalAt, StateAt, EditsAt, OriginalsAt, DiskAt, Mutating, Replacing
<1>3. /\ OthersStand(p) /\ originals'[p] = originals[p] /\ outcome'[p] = outcome[p]
      /\ cursor'[p] = cursor[p] + 1
      /\ pc'[p] = IF cursor[p] = N THEN "take_snapshot" ELSE "replace"
  BY DEF RenameTarget, TypeInv, MemInv, MemType, OthersStand
<1>4. cursor[p] \in Targets /\ disk \in [Files -> Content]
  BY <1>1 DEF TypeInv, MemInv, MemAt, CursorInRange, SharedInv
<1>5. Targets \subseteq Files
  BY DEF Targets, Files
<1>6. \A t \in Targets \ edited : t < cursor[p] + 1 => disk'[t] = "candidate"
  <2> SUFFICES ASSUME NEW t \in Targets \ edited, t < cursor[p] + 1 PROVE disk'[t] = "candidate"
    OBVIOUS
  <2>1. t = cursor[p] \/ t < cursor[p]
    BY <1>4, ConstantsAssumption DEF Targets
  <2>. QED  BY <1>1, <1>2, <1>4, <1>5, <2>1
<1>7. cursor[p] = N => \A t \in Targets : t < cursor[p] + 1
  BY ConstantsAssumption DEF Targets
<1>8. \A f \in Files \ (Targets \cup edited) : disk'[f] = Source(f)
  BY <1>1, <1>4, <1>5 DEF DataInv, TreeInv
<1>9. JournalComplete' /\ Kept(originals[p])' /\ (journal # NoJournal => Kept(journal)')
  BY <1>1, <1>2, <1>3 DEF DataInv, JournalInv, JournalComplete, Kept, IsSource
<1>10. StatePairInv' /\ TreeInv' /\ JournalInv' /\ UnlockedEditsSurvive'
  BY <1>1, <1>2, <1>8, <1>9
  DEF DataInv, StatePairInv, TreeInv, JournalInv, UnlockedEditsSurvive
<1>11. DiskAt(p)'
  BY <1>1, <1>3, <1>6, <1>7 DEF DiskAt, CandidateDisk
<1>12. JournalAt(p)' /\ StateAt(p)' /\ OriginalsAt(p)' /\ EditsAt(p)'
  BY <1>1, <1>2, <1>3, <1>9
  DEF JournalAt, StateAt, OriginalsAt, EditsAt, BeforeJournal, BeforeCapture, Replacing,
      Mutating
<1>. QED  BY <1>1, <1>3, <1>10, <1>11, <1>12, DataWritten DEF DataAt, StateReadable

\* The tree that is copied, verified and committed has every target replaced.
LEMMA VerifyData ==
  ASSUME TypeInv, TypeInv', LockInv, DataInv, NEW p \in Procs, TakeSnapshot(p) \/ Verify(p)
  PROVE  DataInv'
<1>1. /\ lock' = lock /\ lock # NoProc /\ pc[p] \in {"take_snapshot", "verify"}
      /\ UNCHANGED dataVars /\ pc[p] \in Mutating
  BY UnderLock
  DEF TakeSnapshot, Verify, Step, Mutating, dataVars, stateVars, lockVars, journalVars, envVars
<1>2. CASE StartRestore(p)
  BY <1>1, <1>2, RestoreStarts
<1>3. CASE ~StartRestore(p)
  <2>1. /\ JournalComplete /\ stateDigest = "approved" /\ state = "approved"
        /\ unlockedEdits = {} /\ Kept(originals[p]) /\ CandidateDisk
    BY <1>1
    DEF DataInv, DataAt, JournalAt, StateAt, EditsAt, OriginalsAt, DiskAt, Mutating, Replacing
  <2>2. /\ OthersStand(p) /\ pc'[p] \in {"verify", "commit"} /\ originals'[p] = originals[p]
        /\ cursor'[p] = cursor[p] /\ outcome'[p] = outcome[p]
    BY <1>3, Moves DEF TakeSnapshot, Verify, Step, memVars, TypeInv, MemInv
  <2>3. OriginalsAt(p)'
    BY <1>1, <2>1, <2>2 DEF OriginalsAt, Kept, IsSource, dataVars
  <2>4. JournalAt(p)' /\ StateAt(p)' /\ DiskAt(p)' /\ EditsAt(p)'
    BY <1>1, <2>1, <2>2
    DEF JournalAt, StateAt, DiskAt, EditsAt, BeforeJournal, BeforeCapture, Replacing, Mutating,
        JournalComplete, CandidateDisk, dataVars
  <2>. QED  BY <1>1, <2>2, <2>3, <2>4, DataKept DEF DataAt
<1>. QED  BY <1>2, <1>3

\* The body that says "applied" is ahead of its digest, over a project that is applied.
LEMMA CommitData ==
  ASSUME TypeInv, TypeInv', LockInv, DataInv, NEW p \in Procs, Commit(p)
  PROVE  DataInv'
<1>1. /\ Critical(p) /\ lock' = lock /\ lock # NoProc /\ pc[p] = "commit"
      /\ UNCHANGED <<stateDigest, journal, journalDigest, disk, edited, unlockedEdits>>
      /\ pc[p] \in Mutating
  BY UnderLock DEF Commit, Mutating, lockVars, journalVars, envVars
<1>2. CASE StartRestore(p) /\ UNCHANGED state
  BY <1>1, <1>2, RestoreStarts DEF dataVars
<1>3. CASE state' = "applied" /\ Step(p, "commit", "commit_digest") /\ UNCHANGED memVars
  <2>1. /\ JournalComplete /\ stateDigest = "approved" /\ state = "approved"
        /\ unlockedEdits = {} /\ Kept(originals[p]) /\ CandidateDisk
    BY <1>1
    DEF DataInv, DataAt, JournalAt, StateAt, EditsAt, OriginalsAt, DiskAt, Mutating, Replacing
  <2>2. /\ OthersStand(p) /\ pc'[p] = "commit_digest" /\ originals'[p] = originals[p]
        /\ outcome'[p] = outcome[p]
    BY <1>3, Moves DEF Step, memVars, TypeInv, MemInv
  <2>3. OriginalsAt(p)'
    BY <1>1, <2>1, <2>2 DEF OriginalsAt, Kept, IsSource
  <2>4. StatePairInv' /\ TreeInv' /\ JournalInv' /\ UnlockedEditsSurvive'
    BY <1>1, <1>3, <2>1
    DEF DataInv, StatePairInv, TreeInv, CandidateDisk, SourceDisk, Kept, IsSource,
        JournalComplete, JournalInv, JournalAbsent, UnlockedEditsSurvive
  <2>5. JournalAt(p)' /\ StateAt(p)' /\ DiskAt(p)' /\ EditsAt(p)'
    BY <1>1, <1>3, <2>1, <2>2
    DEF JournalAt, StateAt, DiskAt, EditsAt, BeforeJournal, BeforeCapture, Replacing, Mutating,
        JournalComplete, CandidateDisk
  <2>6. DataAt(p)'
    BY <2>3, <2>5 DEF DataAt
  <2>. QED  BY <1>1, <2>1, <2>2, <2>4, <2>6, DataWritten
<1>. QED  BY <1>2, <1>3 DEF Commit

\* The digest commits the candidate tree: the run is applied, and this call reports it.
LEMMA CommitDigestData ==
  ASSUME TypeInv, TypeInv', LockInv, DataInv, NEW p \in Procs, CommitDigest(p)
  PROVE  DataInv'
<1>1. /\ Critical(p) /\ lock' = lock /\ lock # NoProc /\ pc[p] = "commit_digest"
      /\ UNCHANGED <<state, journal, journalDigest, disk, edited, unlockedEdits>>
      /\ stateDigest' = state
  BY UnderLock DEF CommitDigest, Step, Mutating, lockVars, journalVars, envVars
<1>2. /\ stateDigest = "approved" /\ state = "applied" /\ CandidateDisk
  BY <1>1 DEF DataInv, DataAt, StateAt, DiskAt
<1>3. OthersStand(p) /\ pc'[p] = "clean_body" /\ outcome'[p] = "applied"
  BY DEF CommitDigest, Step, TypeInv, MemInv, MemType, OthersStand
<1>4. stateDigest' = "applied" /\ state' = "applied" /\ StateReadable'
  BY <1>1, <1>2 DEF StateReadable
<1>5. StatePairInv' /\ TreeInv' /\ JournalInv' /\ UnlockedEditsSurvive'
  BY <1>1, <1>2, <1>4
  DEF DataInv, StatePairInv, TreeInv, CandidateDisk, Kept, IsSource, JournalInv,
      JournalAbsent, UnlockedEditsSurvive
<1>6. DataAt(p)'
  BY <1>3, <1>4
  DEF DataAt, JournalAt, StateAt, OriginalsAt, DiskAt, EditsAt, BeforeJournal, BeforeCapture,
      Replacing, Mutating
<1>. QED  BY <1>1, <1>2, <1>3, <1>4, <1>5, <1>6, DataWritten DEF StateReadable

LEMMA MutateData ==
  ASSUME TypeInv, TypeInv', LockInv, DataInv, NEW p \in Procs, Mutate(p)
  PROVE  DataInv'
  BY CheckTargetData, RenameTargetData, VerifyData, CommitData, CommitDigestData DEF Mutate

-----------------------------------------------------------------------------
(* Rollback, cleanup, release *)

\* One target more is the source again; those after it already were.
LEMMA RestoreData ==
  ASSUME TypeInv, TypeInv', LockInv, DataInv, NEW p \in Procs, Restore(p)
  PROVE  DataInv'
<1>1. /\ Critical(p) /\ lock' = lock /\ lock # NoProc /\ pc[p] = "restore"
      /\ UNCHANGED <<state, stateDigest, journal, journalDigest, edited, unlockedEdits>>
      /\ disk' = [disk EXCEPT ![cursor[p]] = originals[p][cursor[p]]]
  BY UnderLock DEF Restore, Closing, stateVars, lockVars, journalVars, envVars
<1>2. /\ stateDigest = "approved" /\ state \in {"approved", "applied"}
      /\ unlockedEdits = {} /\ Kept(originals[p])
      /\ \A t \in Targets : t > cursor[p] => IsSource(t, disk[t])
  BY <1>1 DEF DataInv, DataAt, StateAt, EditsAt, OriginalsAt, DiskAt
<1>3. /\ OthersStand(p) /\ originals'[p] = originals[p] /\ outcome'[p] = outcome[p]
      /\ cursor'[p] = cursor[p] - 1
      /\ pc'[p] = IF cursor[p] = 1 THEN "prove" ELSE "restore"
  BY DEF Restore, TypeInv, MemInv, MemType, OthersStand
<1>4. cursor[p] \in Targets /\ disk \in [Files -> Content]
  BY <1>1 DEF TypeInv, MemInv, MemAt, CursorInRange, SharedInv
<1>5. Targets \subseteq Files
  BY DEF Targets, Files
<1>6. /\ disk'[cursor[p]] = originals[p][cursor[p]]
      /\ \A f \in Files : f # cursor[p] => disk'[f] = disk[f]
  BY <1>1, <1>4, <1>5
<1>7. \A t \in Targets : t > cursor[p] - 1 \/ IsSource(t, disk[t]) => IsSource(t, disk'[t])
  <2> SUFFICES ASSUME NEW t \in Targets, t > cursor[p] - 1 \/ IsSource(t, disk[t])
               PROVE  IsSource(t, disk'[t])
    OBVIOUS
  <2>1. t = cursor[p] \/ t > cursor[p] \/ IsSource(t, disk[t])
    BY <1>4, ConstantsAssumption DEF Targets
  <2>. QED  BY <1>2, <1>5, <1>6, <2>1 DEF Kept
<1>8. cursor[p] = 1 => \A t \in Targets : t > cursor[p] - 1
  BY DEF Targets
<1>9. \A f \in Files \ (Targets \cup edited) : disk'[f] = Source(f)
  BY <1>4, <1>6 DEF DataInv, TreeInv
<1>10. \A t \in Targets, bytes \in Bytes : IsSource(t, bytes)' <=> IsSource(t, bytes)
  BY <1>1 DEF IsSource
<1>11. Kept(originals[p])' /\ (Kept(journal) => Kept(journal)')
  BY <1>1, <1>2, <1>3 DEF Kept, IsSource
<1>12. (\A t \in Targets : IsSource(t, disk'[t])) => SourceDisk'
  BY <1>1 DEF SourceDisk, Kept, IsSource
<1>13. JournalComplete' <=> JournalComplete
  BY <1>1 DEF JournalComplete
<1>14. StatePairInv' /\ TreeInv' /\ JournalInv' /\ UnlockedEditsSurvive'
  <2>1. SourceDisk => SourceDisk'
    BY <1>7, <1>12 DEF SourceDisk, Kept
  <2>2. TreeInv'
    BY <1>1, <1>2, <1>9, <1>13, <2>1 DEF DataInv, TreeInv
  <2>. QED
    BY <1>1, <1>2, <1>11, <2>2 DEF DataInv, StatePairInv, JournalInv, UnlockedEditsSurvive
<1>15. DiskAt(p)'
  BY <1>1, <1>3, <1>7, <1>8, <1>12 DEF DiskAt, IsSource
<1>16. JournalAt(p)' /\ StateAt(p)' /\ OriginalsAt(p)' /\ EditsAt(p)'
  BY <1>1, <1>2, <1>3, <1>11
  DEF JournalAt, StateAt, OriginalsAt, EditsAt, BeforeJournal, BeforeCapture, Replacing,
      Mutating
<1>. QED  BY <1>1, <1>3, <1>14, <1>15, <1>16, DataWritten DEF DataAt, StateReadable

LEMMA ProveRestoredData ==
  ASSUME TypeInv, TypeInv', LockInv, DataInv, NEW p \in Procs, ProveRestored(p)
  PROVE  DataInv'
<1>1. /\ lock' = lock /\ lock # NoProc /\ pc[p] = "prove" /\ UNCHANGED dataVars
  BY UnderLock DEF ProveRestored, Closing, dataVars, stateVars, lockVars, journalVars, envVars
<1>2. CASE Abort(p)
  <2>1. /\ OthersStand(p) /\ pc'[p] \in Uninvolved /\ outcome'[p] \in {outcome[p], "failed"}
    BY <1>2, Moves DEF TypeInv, MemInv, Uninvolved
  <2>. QED  BY <1>1, <2>1, UninvolvedAfter, DataKept
<1>3. CASE Step(p, "prove", "roll_back") /\ UNCHANGED memVars
  <2>1. stateDigest = "approved" /\ state \in {"approved", "applied"} /\ SourceDisk
    BY <1>1 DEF DataInv, DataAt, StateAt, DiskAt
  <2>2. OthersStand(p) /\ pc'[p] = "roll_back" /\ outcome'[p] = outcome[p]
    BY <1>3, Moves DEF Step, memVars, TypeInv, MemInv
  <2>3. DataAt(p)'
    BY <1>1, <2>1, <2>2
    DEF DataAt, JournalAt, StateAt, OriginalsAt, DiskAt, EditsAt, BeforeJournal, BeforeCapture,
        Replacing, Mutating, SourceDisk, Kept, IsSource, dataVars
  <2>. QED  BY <1>1, <2>2, <2>3, DataKept
<1>. QED  BY <1>2, <1>3 DEF ProveRestored

LEMMA RollBackData ==
  ASSUME TypeInv, TypeInv', LockInv, DataInv, NEW p \in Procs, RollBack(p)
  PROVE  DataInv'
<1>1. /\ Critical(p) /\ lock' = lock /\ lock # NoProc /\ pc[p] = "roll_back"
      /\ UNCHANGED <<stateDigest, journal, journalDigest, disk, edited, unlockedEdits>>
  BY UnderLock DEF RollBack, Closing, lockVars, journalVars, envVars
<1>2. CASE Abort(p) /\ UNCHANGED state
  <2>1. OthersStand(p) /\ pc'[p] \in Uninvolved /\ outcome'[p] \in {outcome[p], "failed"}
    BY <1>2, Moves DEF TypeInv, MemInv, Uninvolved
  <2>. QED  BY <1>1, <1>2, <2>1, UninvolvedAfter, DataKept DEF dataVars
<1>3. CASE /\ CanAdvance(IF recoveryLock = p THEN disk ELSE SourceTree, "rolled_back")
           /\ state' = "rolled_back" /\ Step(p, "roll_back", "roll_back_digest")
           /\ UNCHANGED memVars
  <2>1. stateDigest = "approved" /\ state = "approved" /\ SourceDisk
    BY <1>1, <1>3 DEF DataInv, DataAt, StateAt, DiskAt, CanAdvance, StateReadable
  <2>2. OthersStand(p) /\ pc'[p] = "roll_back_digest" /\ outcome'[p] = outcome[p]
    BY <1>3, Moves DEF Step, memVars, TypeInv, MemInv
  <2>3. StatePairInv' /\ TreeInv' /\ JournalInv' /\ UnlockedEditsSurvive'
    BY <1>1, <1>3, <2>1
    DEF DataInv, StatePairInv, TreeInv, SourceDisk, Kept, IsSource, JournalComplete,
        JournalInv, JournalAbsent, UnlockedEditsSurvive
  <2>4. DataAt(p)'
    BY <1>1, <1>3, <2>1, <2>2
    DEF DataAt, JournalAt, StateAt, OriginalsAt, DiskAt, EditsAt, BeforeJournal, BeforeCapture,
        Replacing, Mutating, SourceDisk, Kept, IsSource
  <2>. QED  BY <1>1, <2>1, <2>2, <2>3, <2>4, DataWritten
<1>. QED  BY <1>2, <1>3 DEF RollBack

LEMMA RollBackDigestData ==
  ASSUME TypeInv, TypeInv', LockInv, DataInv, NEW p \in Procs, RollBackDigest(p)
  PROVE  DataInv'
<1>1. /\ Critical(p) /\ lock' = lock /\ lock # NoProc /\ pc[p] = "roll_back_digest"
      /\ UNCHANGED <<state, journal, journalDigest, disk, edited, unlockedEdits>>
      /\ stateDigest' = state
  BY UnderLock DEF RollBackDigest, Step, Closing, lockVars, journalVars, envVars
<1>2. stateDigest = "approved" /\ state = "rolled_back" /\ SourceDisk
  BY <1>1 DEF DataInv, DataAt, StateAt, DiskAt
<1>3. OthersStand(p) /\ pc'[p] = "clean_body" /\ outcome'[p] = "rolled_back"
  BY DEF RollBackDigest, Step, TypeInv, MemInv, MemType, OthersStand
<1>4. stateDigest' = "rolled_back" /\ state' = "rolled_back" /\ StateReadable'
  BY <1>1, <1>2 DEF StateReadable
<1>5. StatePairInv' /\ TreeInv' /\ JournalInv' /\ UnlockedEditsSurvive'
  BY <1>1, <1>2, <1>4
  DEF DataInv, StatePairInv, TreeInv, SourceDisk, Kept, IsSource, JournalInv,
      JournalAbsent, UnlockedEditsSurvive
<1>6. DataAt(p)'
  BY <1>3, <1>4
  DEF DataAt, JournalAt, StateAt, OriginalsAt, DiskAt, EditsAt, BeforeJournal, BeforeCapture,
      Replacing, Mutating
<1>. QED  BY <1>1, <1>2, <1>3, <1>4, <1>5, <1>6, DataWritten DEF StateReadable

\* The journal goes once the lifecycle is committed: nobody needs it any more.
LEMMA CleanData ==
  ASSUME TypeInv, TypeInv', LockInv, DataInv, NEW p \in Procs,
         CleanJournalBody(p) \/ CleanJournalDigest(p)
  PROVE  DataInv'
<1>1. /\ Critical(p) /\ lock' = lock /\ lock # NoProc /\ pc[p] \in {"clean_body", "clean_digest"}
      /\ UNCHANGED <<state, stateDigest, disk, edited, unlockedEdits>>
      /\ journal' = NoJournal
  BY UnderLock
  DEF CleanJournalBody, CleanJournalDigest, Step, Closing, stateVars, lockVars, envVars,
      DataInv, DataAt, JournalAt
<1>2. StateReadable /\ state \in {"applied", "rolled_back"}
  BY <1>1 DEF DataInv, DataAt, StateAt
<1>3. /\ OthersStand(p) /\ outcome'[p] = outcome[p]
      /\ \/ pc'[p] = "clean_digest"
         \/ pc'[p] = "unlock" /\ journalDigest' = NoJournal
  BY Moves DEF CleanJournalBody, CleanJournalDigest, Step, memVars, TypeInv, MemInv
<1>4. stateDigest = "applied" \/ stateDigest = "rolled_back"
  BY <1>2 DEF StateReadable
<1>5. StatePairInv' /\ TreeInv' /\ JournalInv' /\ UnlockedEditsSurvive'
  BY <1>1, <1>4
  DEF DataInv, StatePairInv, TreeInv, CandidateDisk, SourceDisk, Kept, IsSource, JournalInv,
      JournalAbsent, UnlockedEditsSurvive
<1>6. DataAt(p)'
  BY <1>1, <1>2, <1>3
  DEF DataAt, JournalAt, StateAt, OriginalsAt, DiskAt, EditsAt, BeforeJournal, BeforeCapture,
      Replacing, Mutating, JournalAbsent, StateReadable
<1>. QED  BY <1>1, <1>3, <1>5, <1>6, DataWritten DEF StateReadable

\* The lock goes last, when no journal is left.
LEMMA UnlockData ==
  ASSUME TypeInv, TypeInv', LockInv, DataInv, NEW p \in Procs, Unlock(p) \/ Release(p)
  PROVE  DataInv'
<1>1. UNCHANGED dataVars /\ pc[p] \in {"unlock", "release"}
  BY DEF Unlock, Release, dataVars, stateVars, journalVars, envVars
<1>2. JournalAbsent
  BY <1>1 DEF DataInv, DataAt, JournalAt, BeforeJournal
<1>3. /\ OthersStand(p) /\ pc'[p] \in Uninvolved /\ outcome'[p] \in {outcome[p], "refused"}
  BY Moves DEF Unlock, Release, Step, memVars, TypeInv, MemInv, Uninvolved
<1>. QED  BY <1>1, <1>2, <1>3, UninvolvedAfter, DataKept

LEMMA CloseData ==
  ASSUME TypeInv, TypeInv', LockInv, DataInv, NEW p \in Procs, Close(p)
  PROVE  DataInv'
  BY RestoreData, ProveRestoredData, RollBackData, RollBackDigestData, CleanData, UnlockData
  DEF Close

-----------------------------------------------------------------------------
(* The environment *)

LEMMA FailureData ==
  ASSUME TypeInv, TypeInv', LockInv, DataInv, NEW p \in Procs, IOFailure(p)
  PROVE  DataInv'
<1>. USE Moves DEF TypeInv, MemInv
<1>1. UNCHANGED dataVars /\ lock' = lock /\ (lock' = NoProc => JournalAbsent)
  BY DEF IOFailure, dataVars, stateVars, lockVars, journalVars, DataInv, JournalInv
<1>2. CASE pc' = [pc EXCEPT ![p] = "release_recovery"] /\ UNCHANGED memVars
  <2>1. OthersStand(p) /\ pc'[p] \in Uninvolved /\ outcome'[p] = outcome[p]
    BY <1>2 DEF memVars, Uninvolved
  <2>. QED  BY <1>1, <2>1, UninvolvedAfter, DataKept
<1>3. CASE /\ pc[p] \in BeforeCapture
           /\ pc' = [pc EXCEPT ![p] = "release"] /\ UNCHANGED memVars
  <2>1. OthersStand(p) /\ pc'[p] = "release" /\ outcome'[p] = outcome[p]
    BY <1>3 DEF memVars
  <2>2. JournalAbsent'
    BY <1>1, <1>3 DEF DataInv, DataAt, JournalAt, BeforeJournal, JournalAbsent, dataVars
  <2>3. DataAt(p)'
    BY <2>1, <2>2
    DEF DataAt, JournalAt, StateAt, OriginalsAt, DiskAt, EditsAt, BeforeCapture, Replacing,
        Mutating
  <2>. QED  BY <1>1, <2>1, <2>3, DataKept
<1>4. CASE pc[p] \in Mutating /\ StartRestore(p)
  BY <1>1, <1>4, RestoreStarts
<1>5. CASE Abort(p)
  <2>1. OthersStand(p) /\ pc'[p] \in Uninvolved /\ outcome'[p] \in {outcome[p], "failed"}
    BY <1>5 DEF Uninvolved
  <2>. QED  BY <1>1, <2>1, UninvolvedAfter, DataKept
<1>. QED  BY <1>2, <1>3, <1>4, <1>5 DEF IOFailure

\* A process that ends leaves the disk as it is.
LEMMA EndData ==
  ASSUME TypeInv, TypeInv', LockInv, DataInv, NEW p \in Procs, Exit(p) \/ Crash(p)
  PROVE  DataInv'
<1>1. UNCHANGED dataVars /\ lock' = lock /\ (lock' = NoProc => JournalAbsent)
  BY DEF Exit, Crash, dataVars, stateVars, lockVars, journalVars, envVars, DataInv, JournalInv
<1>2. OthersStand(p) /\ pc'[p] \in Uninvolved /\ outcome'[p] \in {outcome[p], "none"}
  BY DEF Exit, Crash, Step, memVars, TypeInv, MemInv, MemType, OthersStand, Uninvolved
<1>. QED  BY <1>1, <1>2, UninvolvedAfter, DataKept

\* The user writes one file: never candidate bytes, and the file counts as his from then on.
LEMMA UserEditData ==
  ASSUME TypeInv, TypeInv', LockInv, DataInv, NEW f \in Files, UserEdit(f)
  PROVE  DataInv'
<1>1. PICK bytes \in {"edited", Source(f)} :
          /\ disk' = [disk EXCEPT ![f] = bytes]
          /\ unlockedEdits' = IF lock = NoProc /\ bytes = "edited"
                              THEN unlockedEdits \cup {f} ELSE unlockedEdits \ {f}
  BY DEF UserEdit
<1>2. /\ UNCHANGED <<state, stateDigest, journal, journalDigest, lock, pc, originals, cursor,
                     outcome>>
      /\ edited' = edited \cup {f}
  BY DEF UserEdit, stateVars, lockVars, journalVars, memVars
<1>3. bytes # "candidate"
  BY DEF Source
<1>4. disk'[f] = bytes /\ \A g \in Files : g # f => disk'[g] = disk[g]
  BY <1>1 DEF TypeInv, SharedInv
<1>5. Targets \subseteq Files
  BY DEF Targets, Files
<1>6. \A t \in Targets : \A b : IsSource(t, b) => IsSource(t, b)'
  BY <1>2 DEF IsSource
<1>7. \A t \in Targets : IsSource(t, disk[t]) => IsSource(t, disk[t])'
  BY <1>2, <1>3, <1>4, <1>5 DEF IsSource
<1>8. /\ SourceDisk => SourceDisk'
      /\ CandidateDisk => CandidateDisk'
      /\ Kept(journal) => Kept(journal)'
  <2>1. SourceDisk => SourceDisk'
    BY <1>7 DEF SourceDisk, Kept
  <2>2. CandidateDisk => CandidateDisk'
    BY <1>2, <1>4, <1>5 DEF CandidateDisk
  <2>3. Kept(journal) => Kept(journal)'
    BY <1>2 DEF Kept, IsSource
  <2>. QED  BY <2>1, <2>2, <2>3
<1>9. lock # NoProc /\ unlockedEdits = {} => unlockedEdits' = {}
  BY <1>1
<1>10. StatePairInv' /\ TreeInv' /\ JournalInv' /\ UnlockedEditsSurvive' /\ OutcomeHolds'
  <2>1. TreeInv'
    BY <1>2, <1>4, <1>8 DEF DataInv, TreeInv, JournalComplete
  <2>2. JournalInv'
    BY <1>2, <1>8, <1>9 DEF DataInv, JournalInv, JournalAbsent
  <2>3. UnlockedEditsSurvive'
    BY <1>1, <1>4 DEF DataInv, UnlockedEditsSurvive, TypeInv, SharedInv
  <2>. QED
    BY <1>2, <2>1, <2>2, <2>3 DEF DataInv, StatePairInv, OutcomeHolds, StateReadable
<1>11. ASSUME NEW q \in Procs PROVE DataAt(q)'
  <2>1. DataAt(q)
    BY DEF DataInv
  <2>2. JournalAt(q)' /\ StateAt(q)'
    BY <1>2, <2>1
    DEF DataAt, JournalAt, StateAt, JournalAbsent, JournalComplete, StateReadable
  <2>3. OriginalsAt(q)'
    BY <1>2, <2>1 DEF DataAt, OriginalsAt, Kept, IsSource
  <2>4. DiskAt(q)'
    BY <1>2, <1>4, <1>5, <1>7, <1>8, <2>1 DEF DataAt, DiskAt
  <2>5. EditsAt(q)'
    <3>1. pc[q] \in {"approve_digest", "capture", "restore"} \cup Mutating => lock # NoProc
      BY UnderLock DEF BeforeCapture, Closing
    <3>. QED  BY <1>2, <1>9, <2>1, <3>1 DEF DataAt, EditsAt
  <2>. QED  BY <2>2, <2>3, <2>4, <2>5 DEF DataAt
<1>. QED  BY <1>10, <1>11 DEF DataInv

\* Every step keeps the data invariant.
LEMMA NextDataInv == TypeInv /\ LockInv /\ DataInv /\ [Next]_vars => DataInv'
<1> SUFFICES ASSUME TypeInv, LockInv, DataInv, [Next]_vars PROVE DataInv'
  OBVIOUS
<1>1. TypeInv'
  BY NextTypes
<1>2. ASSUME NEW p \in Procs, Start(p) \/ Call(p) PROVE DataInv'
  BY <1>1, <1>2, LockData, TakeoverData, PrepareData, MutateData, CloseData DEF Call
<1>3. ASSUME NEW p \in Procs, IOFailure(p) \/ Exit(p) \/ Crash(p) PROVE DataInv'
  BY <1>1, <1>3, FailureData, EndData
<1>4. ASSUME NEW f \in Files, UserEdit(f) PROVE DataInv'
  BY <1>1, <1>4, UserEditData
<1>5. CASE UNCHANGED vars
  <2>1. UNCHANGED dataVars /\ UNCHANGED <<lock, pc, originals, cursor, outcome>>
    BY <1>5
    DEF vars, stateVars, lockVars, journalVars, memVars, envVars, dataVars
  <2>2. \A q \in Procs : DataAt(q)'
    BY <2>1, DataAtStands DEF DataInv
  <2>. QED
    BY <2>1, <2>2
    DEF DataInv, dataVars, StatePairInv, TreeInv, CandidateDisk, SourceDisk, Kept, IsSource,
        JournalComplete, JournalInv, JournalAbsent, UnlockedEditsSurvive, OutcomeHolds,
        StateReadable
<1>. QED  BY <1>2, <1>3, <1>4, <1>5 DEF Next, Terminated

\* The data invariant holds in every reachable state.
THEOREM DataInvariant == Spec => []DataInv
  BY TypesInvariant, LocksInvariant, InitDataInv, NextDataInv, PTL DEF Spec

-----------------------------------------------------------------------------
(* What the data invariant means *)

\* "Concurrent applies cannot leave state and disk in disagreement": with no apply lock
\* left, however calls, crashes and failures ran before, no journal is left and every
\* target the user kept his hands off is what the committed lifecycle says.
THEOREM StateDiskAgree == Spec => []StateDiskAgreement
<1>1. DataInv => StateDiskAgreement
  BY DEF DataInv, JournalInv, TreeInv, CandidateDisk, SourceDisk, Kept, IsSource,
         JournalAbsent, JournalComplete, StateDiskAgreement
<1>. QED  BY <1>1, DataInvariant, PTL

\* A crash at any step finds the source bytes of every target in a complete journal, as
\* soon as and as long as the project of an unapplied run holds candidate bytes.
THEOREM MutationsAreJournaled == Spec => []MutationIsJournaled
<1>1. DataInv => MutationIsJournaled
  BY DEF DataInv, JournalInv, TreeInv, SourceDisk, Kept, IsSource, JournalComplete,
         MutationIsJournaled
<1>. QED  BY <1>1, DataInvariant, PTL

\* From the step that commits "applied" or "rolled_back" on, the files say the same.
THEOREM TerminalStatesAreTrue == Spec => []TerminalStateIsTrue
<1>1. DataInv => TerminalStateIsTrue
  <2> SUFFICES ASSUME DataInv, StateReadable, state \in Terminal,
                      NEW t \in Targets \ edited
               PROVE  disk[t] = IF state = "applied" THEN "candidate" ELSE Source(t)
    BY DEF TerminalStateIsTrue
  <2>1. stateDigest \in {"receipted", "approved", "applied", "rolled_back"}
    BY DEF DataInv, StatePairInv
  <2>2. stateDigest \notin {"receipted", "approved"}
    BY DEF StateReadable, Terminal, Transitions
  <2>3. state = stateDigest /\ stateDigest \in {"applied", "rolled_back"}
    BY <2>1, <2>2 DEF StateReadable
  <2>. QED
    BY <2>3 DEF DataInv, TreeInv, CandidateDisk, SourceDisk, Kept, IsSource
<1>. QED  BY <1>1, DataInvariant, PTL

\* What a call reported is never undone, by itself or by a later call or recovery.
THEOREM OutcomesHold == Spec => []OutcomeHolds
<1>1. DataInv => OutcomeHolds
  BY DEF DataInv
<1>. QED  BY <1>1, DataInvariant, PTL

\* An edit made while no apply lock existed is never overwritten by the program, neither
\* by replacement nor by the rollback that does not look at what it overwrites.
THEOREM UnlockedEditsAreKept == Spec => []UnlockedEditsSurvive
<1>1. DataInv => UnlockedEditsSurvive
  BY DEF DataInv
<1>. QED  BY <1>1, DataInvariant, PTL

-----------------------------------------------------------------------------
(* What a step may never do *)

\* Over evidence that recovery refuses, no call changes the state, the journal, the lock
\* or the project: whoever could would own the lock or close a recovery.
THEOREM EvidenceStaysFrozen == Spec => EvidenceIsFrozen
<1>1. ASSUME TypeInv, LockInv, [Next]_vars, Wedged
      PROVE  /\ UNCHANGED <<stateVars, journalVars, lock>>
             /\ edits' = edits => UNCHANGED disk
  <2>. USE DEF stateVars, journalVars, lockVars, envVars
  <2>1. ASSUME NEW p \in Procs PROVE lock # p \/ pc[p] = "exited"
    BY <1>1 DEF Wedged, Alive
  <2>2. ASSUME NEW p \in Procs
        PROVE  pc[p] \notin BeforeCapture \cup Mutating \cup Closing \cup {"release"}
    <3>1. LockInvAt(p)
      BY <1>1 DEF LockInv
    <3>. QED  BY <1>1, <2>1, <3>1 DEF LockInvAt, Wedged, BeforeCapture, Mutating
  <2>3. ASSUME NEW p \in Procs PROVE ~Prepare(p) /\ ~Mutate(p) /\ ~Close(p)
    BY <2>2
    DEF Prepare, Reread, ApproveDigest, Capture, CheckCapture, JournalBody, JournalDigest,
        Mutate, CheckTarget, RenameTarget, TakeSnapshot, Verify, Commit, CommitDigest,
        Close, Restore, ProveRestored, RollBack, RollBackDigest, CleanJournalBody,
        CleanJournalDigest, Unlock, Release, Step, BeforeCapture, Mutating, Closing
  <2>4. ASSUME NEW p \in Procs, Recover(p)
        PROVE  UNCHANGED <<stateVars, journalVars, lock, disk>>
    \* Recovery goes on only from a state and a journal that are not wedged.
    <3>1. UNCHANGED <<stateVars, journalVars, disk>>
      BY <2>4 DEF Recover
    <3>2. ~(StateReadable /\ JournalAbsent)
      BY <1>1 DEF Wedged, JournalAbsent, JournalComplete
    <3>. QED  BY <2>4, <3>1, <3>2 DEF Recover
  <2>5. ASSUME NEW p \in Procs, Start(p) \/ Lock(p) \/ Takeover(p)
        PROVE  UNCHANGED <<stateVars, journalVars, lock, disk>>
    <3>1. lock # NoProc
      BY <1>1 DEF Wedged
    <3>. QED
      BY <2>4, <2>5, <3>1
      DEF Start, Lock, CheckRecoveryLock, CreateLock, ReadLock, Takeover, ClaimRecovery,
          RecheckLock, RecreateLock, ReleaseRecovery
  <2>6. ASSUME NEW p \in Procs, IOFailure(p) \/ Exit(p) \/ Crash(p)
        PROVE  UNCHANGED <<stateVars, journalVars, lock, disk>>
    BY <2>6 DEF IOFailure, Exit, Crash
  <2>7. ASSUME NEW f \in Files, UserEdit(f)
        PROVE  UNCHANGED <<stateVars, journalVars, lock>> /\ edits' # edits
    BY <1>1, <2>7 DEF UserEdit, TypeInv, SharedInv
  <2>8. CASE UNCHANGED vars
    BY <2>8 DEF vars
  <2>. QED
    BY <1>1, <2>3, <2>5, <2>6, <2>7, <2>8 DEF Next, Call, Terminated
<1>. QED  BY <1>1, TypesInvariant, LocksInvariant, PTL DEF Spec, EvidenceIsFrozen

\* A recovery lock is removed only by the process that holds it, so that of a dead one is
\* preserved for investigation.
THEOREM RecoveryLockStays == Spec => RecoveryLockIsPreserved
<1>1. ASSUME [Next]_vars, NEW q \in Procs, recoveryLock = q, ~Alive(q)
      PROVE  recoveryLock' = q
  <2>1. ASSUME NEW p \in Procs, ReleaseRecovery(p) PROVE recoveryLock # p
    BY <1>1, <2>1 DEF ReleaseRecovery, Step, Alive
  <2>2. ASSUME NEW p \in Procs, Takeover(p) PROVE recoveryLock' = q
    BY <1>1, <2>1, <2>2, ConstantsAssumption
    DEF Takeover, ClaimRecovery, RecheckLock, Recover, RecreateLock, ReleaseRecovery, lockVars
  <2>3. ASSUME NEW p \in Procs, Start(p) \/ Lock(p) PROVE recoveryLock' = q
    BY <1>1, <2>3 DEF Start, Lock, CheckRecoveryLock, CreateLock, ReadLock, lockVars
  <2>4. ASSUME NEW p \in Procs, Prepare(p) PROVE recoveryLock' = q
    BY <1>1, <2>4
    DEF Prepare, Reread, ApproveDigest, Capture, CheckCapture, JournalBody, JournalDigest,
        lockVars
  <2>5. ASSUME NEW p \in Procs, Mutate(p) PROVE recoveryLock' = q
    BY <1>1, <2>5
    DEF Mutate, CheckTarget, RenameTarget, TakeSnapshot, Verify, Commit, CommitDigest, lockVars
  <2>6. ASSUME NEW p \in Procs, Close(p) PROVE recoveryLock' = q
    BY <1>1, <2>6
    DEF Close, Restore, ProveRestored, RollBack, RollBackDigest, CleanJournalBody,
        CleanJournalDigest, Unlock, Release, lockVars
  <2>7. ASSUME NEW p \in Procs, IOFailure(p) \/ Exit(p) \/ Crash(p) PROVE recoveryLock' = q
    BY <1>1, <2>7 DEF IOFailure, Exit, Crash, lockVars
  <2>8. ASSUME NEW f \in Files, UserEdit(f) PROVE recoveryLock' = q
    BY <1>1, <2>8 DEF UserEdit, lockVars
  <2>9. CASE UNCHANGED vars
    BY <1>1, <2>9 DEF vars, lockVars
  <2>. QED
    BY <1>1, <2>2, <2>3, <2>4, <2>5, <2>6, <2>7, <2>8, <2>9 DEF Next, Call, Terminated
<1>2. [Next]_vars
        => (\A q \in Procs : recoveryLock = q /\ ~Alive(q) => recoveryLock' = q)
  BY <1>1
<1>. QED  BY <1>2, PTL DEF Spec, RecoveryLockIsPreserved

-----------------------------------------------------------------------------
(* Refinement of AtomicApply *)

\* What recovery would leave is one of two trees, and the committed lifecycle says which.
TreeIsWhole ==
    RecoveredTree = IF stateDigest = "applied" THEN CandidateTree ELSE SourceTree

LEMMA DataInvMakesWhole == DataInv => TreeIsWhole
<1> SUFFICES ASSUME DataInv PROVE TreeIsWhole
  OBVIOUS
<1>. DEFINE recovered(f) ==
         CASE f \in edited -> IF stateDigest = "applied" THEN CandidateTree[f] ELSE Source(f)
           [] f \in Targets \ edited /\ stateDigest # "applied" /\ JournalComplete -> journal[f]
           [] OTHER -> disk[f]
            whole(f) == IF stateDigest = "applied" THEN CandidateTree[f] ELSE SourceTree[f]
<1>1. Targets \subseteq Files
  BY DEF Targets, Files
<1>2. ASSUME NEW f \in Files PROVE recovered(f) = whole(f)
  <2>1. SourceTree[f] = Source(f)
    BY DEF SourceTree
  <2>2. CandidateTree[f] = IF f \in Targets THEN "candidate" ELSE Source(f)
    BY DEF CandidateTree
  <2>3. CASE f \in edited
    BY <2>1, <2>3
  <2>4. CASE f \notin edited /\ f \notin Targets
    <3>1. recovered(f) = disk[f]
      BY <2>4
    <3>2. disk[f] = Source(f)
      BY <2>4 DEF DataInv, TreeInv
    <3>. QED  BY <2>1, <2>2, <2>4, <3>1, <3>2
  <2>5. CASE f \in Targets \ edited /\ stateDigest = "applied"
    <3>1. recovered(f) = disk[f]
      BY <2>5
    <3>2. disk[f] = "candidate"
      BY <2>5 DEF DataInv, TreeInv, CandidateDisk
    <3>. QED  BY <2>2, <2>5, <3>1, <3>2
  <2>6. CASE f \in Targets \ edited /\ stateDigest # "applied" /\ JournalComplete
    <3>1. recovered(f) = journal[f]
      BY <2>6
    <3>2. journal[f] = Source(f)
      BY <2>6 DEF DataInv, JournalInv, JournalComplete, Kept, IsSource
    <3>. QED  BY <2>1, <2>6, <3>1, <3>2
  <2>7. CASE f \in Targets \ edited /\ stateDigest # "applied" /\ ~JournalComplete
    <3>1. recovered(f) = disk[f]
      BY <2>7
    <3>2. disk[f] = Source(f)
      BY <2>7 DEF DataInv, TreeInv, SourceDisk, Kept, IsSource
    <3>. QED  BY <2>1, <2>7, <3>1, <3>2
  <2>. QED  BY <2>3, <2>4, <2>5, <2>6, <2>7
<1>3. RecoveredTree = [f \in Files |-> recovered(f)]
  BY DEF RecoveredTree
<1>4. RecoveredTree = [f \in Files |-> whole(f)]
  BY <1>2, <1>3
<1>. HIDE DEF recovered
<1>. QED  BY <1>4 DEF TreeIsWhole, CandidateTree, SourceTree

\* The committed lifecycle moves by the three digest renames, and forward only.
LEMMA DigestMoves ==
  ASSUME TypeInv, DataInv, [Next]_vars
  PROVE  \/ stateDigest' = stateDigest
         \/ stateDigest = "receipted" /\ stateDigest' = "approved"
         \/ stateDigest = "approved" /\ stateDigest' \in {"applied", "rolled_back"}
<1>. USE DEF stateVars
<1>1. ASSUME NEW p \in Procs, ApproveDigest(p)
      PROVE  stateDigest = "receipted" /\ stateDigest' = "approved"
  BY <1>1 DEF ApproveDigest, Step, DataInv, DataAt, StateAt
<1>2. ASSUME NEW p \in Procs, CommitDigest(p) \/ RollBackDigest(p)
      PROVE  stateDigest = "approved" /\ stateDigest' \in {"applied", "rolled_back"}
  BY <1>2 DEF CommitDigest, RollBackDigest, Step, DataInv, DataAt, StateAt
<1>3. ASSUME NEW p \in Procs, Start(p) \/ Lock(p) \/ Takeover(p)
      PROVE  stateDigest' = stateDigest
  BY <1>3
  DEF Start, Lock, CheckRecoveryLock, CreateLock, ReadLock, Takeover, ClaimRecovery,
      RecheckLock, Recover, RecreateLock, ReleaseRecovery
<1>4. ASSUME NEW p \in Procs, Prepare(p) \/ Mutate(p), ~ApproveDigest(p), ~CommitDigest(p)
      PROVE  stateDigest' = stateDigest
  BY <1>4
  DEF Prepare, Reread, Capture, CheckCapture, JournalBody, JournalDigest, Mutate, CheckTarget,
      RenameTarget, TakeSnapshot, Verify, Commit
<1>5. ASSUME NEW p \in Procs, Close(p), ~RollBackDigest(p) PROVE stateDigest' = stateDigest
  BY <1>5
  DEF Close, Restore, ProveRestored, RollBack, CleanJournalBody, CleanJournalDigest, Unlock,
      Release
<1>6. ASSUME NEW p \in Procs, IOFailure(p) \/ Exit(p) \/ Crash(p)
      PROVE  stateDigest' = stateDigest
  BY <1>6 DEF IOFailure, Exit, Crash
<1>7. ASSUME NEW f \in Files, UserEdit(f) PROVE stateDigest' = stateDigest
  BY <1>7 DEF UserEdit
<1>8. CASE UNCHANGED vars
  BY <1>8 DEF vars
<1>. QED
  BY <1>1, <1>2, <1>3, <1>4, <1>5, <1>6, <1>7, <1>8 DEF Next, Call, Terminated

\* Apply is atomic: through crashes, failures, edits and concurrent calls the project goes
\* from the source tree to the candidate tree in the step that commits the lifecycle, or
\* stays the source tree.
THEOREM ApplyIsAtomic == Spec => AppliesAtomically
<1>1. Spec => []TreeIsWhole
  BY DataInvariant, DataInvMakesWhole, PTL
<1>2. Init => Atomic!Init
  <2> SUFFICES ASSUME Init PROVE Atomic!Init
    OBVIOUS
  <2>1. TreeIsWhole
    BY InitDataInv, DataInvMakesWhole
  <2>. QED  BY <2>1 DEF Init, Atomic!Init, TreeIsWhole
<1>3. TypeInv /\ DataInv /\ TreeIsWhole /\ TreeIsWhole' /\ [Next]_vars
        => [Atomic!Next]_(Atomic!vars)
  <2> SUFFICES ASSUME TypeInv, DataInv, TreeIsWhole, TreeIsWhole', [Next]_vars
               PROVE  Atomic!Next \/ UNCHANGED Atomic!vars
    OBVIOUS
  <2>1. /\ RecoveredTree = IF stateDigest = "applied" THEN CandidateTree ELSE SourceTree
        /\ RecoveredTree' = IF stateDigest' = "applied" THEN CandidateTree ELSE SourceTree
    BY DEF TreeIsWhole, CandidateTree, SourceTree, Source
  <2>2. CASE stateDigest' = stateDigest
    BY <2>1, <2>2 DEF Atomic!vars
  <2>3. CASE stateDigest = "receipted" /\ stateDigest' = "approved"
    BY <2>1, <2>3 DEF Atomic!Next, Atomic!Approve
  <2>4. CASE stateDigest = "approved" /\ stateDigest' = "applied"
    BY <2>1, <2>4 DEF Atomic!Next, Atomic!Apply
  <2>5. CASE stateDigest = "approved" /\ stateDigest' = "rolled_back"
    BY <2>1, <2>5 DEF Atomic!Next, Atomic!RollBack
  <2>. QED  BY <2>2, <2>3, <2>4, <2>5, DigestMoves
<1>. QED
  BY <1>1, <1>2, <1>3, TypesInvariant, DataInvariant, PTL
  DEF Spec, AppliesAtomically, Atomic!Spec

=============================================================================
