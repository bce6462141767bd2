----------------------- MODULE AdaptiveSession_proofs ------------------------
(* Theorems about AdaptiveSession, for any number of calls, attempts and outcomes,
   and with overlapping calls: the types, and what exclusive creation of claims and
   attempts guarantees without the lock. *)
EXTENDS AdaptiveSession, FiniteSetTheorems, TLAPS

-----------------------------------------------------------------------------
(* Types. The index is one of an attempt wherever it is used: a retry is due only
   below the attempt budget. *)

Acquiring == {"idle", "initialize", "create_lock", "read_lock", "probe_owner", "remove_lock"}

Working == {"claim", "claim_body", "claim_digest", "run_child", "resume_child", "child", "grace",
            "attempt_body", "attempt_digest", "failure_body", "failure_digest",
            "final_body", "final_digest"}

LocalAt(p) ==
    /\ pc[p] \in Acquiring => tries[p] <= 2
    /\ pc[p] \in Working => index[p] \in Index

RetryLeavesOne(i) == attempt[i].next = "retry" => i < AttemptBudget

TypeInv == TypeOK /\ (\A p \in Procs : LocalAt(p)) /\ (\A i \in Index : RetryLeavesOne(i))

(* Claims. Who creates a claim is the only one to run its child. *)

Fresh == {"claim_digest", "run_child"}

StartedAt(i) == started[i] <= 1 /\ (started[i] > 0 => claim[i] # "absent")

FreshAt(p) ==
    pc[p] \in Fresh =>
        /\ claim[index[p]] # "absent" /\ started[index[p]] = 0
        /\ \A q \in Procs : pc[q] \in Fresh /\ index[q] = index[p] => q = p

ClaimInv == (\A i \in Index : StartedAt(i)) /\ (\A p \in Procs : FreshAt(p))

(* The chain. A claim follows attempts that are recorded and due for a retry; nothing
   that is on disk changes but from torn to complete. *)

Before(i) ==
    \A k \in Index : k < i => /\ claim[k] = "complete" /\ attempt[k].pair = "complete"
                              /\ attempt[k].next = "retry"

Recording == {"run_child", "resume_child", "child", "grace", "attempt_body", "attempt_digest",
              "failure_body", "failure_digest"}

LinkAt(i) ==
    /\ claim[i] # "absent" => Before(i)
    /\ attempt[i].pair # "absent" =>
          /\ claim[i] = "complete"
          /\ attempt[i].next = NextTransition([k \in 1..i |-> attempt[k].outcome], i)

PlaceAt(p) ==
    /\ pc[p] \in {"claim", "claim_body"} => Before(index[p])
    /\ pc[p] = "claim_digest" => claim[index[p]] # "absent"
    /\ pc[p] \in Recording => claim[index[p]] = "complete"
    /\ pc[p] = "attempt_digest" => attempt[index[p]].pair # "absent"
    /\ pc[p] = "final_body" => attempt[index[p]].pair = "complete" /\ attempt[index[p]].next # "retry"
    /\ pc[p] = "final_digest" => final.pair # "absent"

FinalAt ==
    final.pair # "absent" =>
        \E n \in Index : /\ attempt[n].pair = "complete"
                         /\ attempt[n].next = final.reason /\ final.reason # "retry"

ChainInv == (\A i \in Index : LinkAt(i)) /\ (\A p \in Procs : PlaceAt(p)) /\ FinalAt

(* Calls one after the other: what a call found when it started is still so, since nobody
   else writes. *)

Active(p) == pc[p] \notin {"idle", "exited"}

OneAtATime == \A p, q \in Procs : Active(p) /\ Active(q) => p = q

Attempting == {"claim", "claim_body", "claim_digest", "run_child", "resume_child", "child", "grace",
               "attempt_body", "failure_body"}

SerialAt(p) ==
    /\ pc[p] \in Attempting \cup {"load", "attempt_digest", "final_body"} =>
          failure.pair = "absent" /\ final.pair = "absent"
    /\ pc[p] = "final_digest" => failure.pair = "absent"
    /\ pc[p] = "failure_digest" => failure.pair # "absent"
    /\ pc[p] \in Attempting => attempt[index[p]].pair = "absent"
    /\ pc[p] \in Attempting \cup {"attempt_digest"} =>
          \A k \in Index : k > index[p] => claim[k] = "absent"

SerialInv == ~Overlap => OneAtATime /\ (\A p \in Procs : SerialAt(p)) /\ OneTerminalArtifact

SessionInv == TypeInv /\ ClaimInv /\ ChainInv /\ SerialInv

-----------------------------------------------------------------------------
(* Operators *)

\* nextTransition always has an answer.
LEMMA TransitionIsVerdict ==
  ASSUME NEW outcomes, NEW n
  PROVE  NextTransition(outcomes, n) \in Verdicts
  BY Zenon DEF NextTransition, Verdicts

\* A retry is due only if a budget of every kind, and a route, is left.
LEMMA RetryMeans ==
  ASSUME NEW outcomes, NEW n, NextTransition(outcomes, n) = "retry"
  PROVE  /\ ~(n >= AttemptBudget) /\ RouteReason(outcomes[n]) \in RetryRoutes
         /\ Reported(outcomes, n, "tokens") /\ ~Exhausted(outcomes, n, "tokens", TokenBudget)
         /\ ~Exhausted(outcomes, n, "wall", WallBudget)
         /\ CostBudget # Missing =>
               Reported(outcomes, n, "cost") /\ ~Exhausted(outcomes, n, "cost", CostBudget)
  BY DEF NextTransition

\* Readable records end within the attempt budget.
LEMMA RecordedCount ==
  ASSUME TypeInv
  PROVE  /\ Cardinality(Recorded) \in Nat
         /\ RecordsReadable(Cardinality(Recorded)) =>
               Cardinality(Recorded) = 0 \/ Cardinality(Recorded) \in Index
<1>1. IsFiniteSet(Index)
  BY FS_Interval, SessionAssumption DEF Index
<1>2. IsFiniteSet(Recorded)
  BY <1>1, FS_Subset DEF Recorded
<1>3. Cardinality(Recorded) \in Nat
  BY <1>2, FS_CardinalityType
<1>4. ASSUME RecordsReadable(Cardinality(Recorded)), Cardinality(Recorded) # 0
      PROVE  Cardinality(Recorded) \in Index
  <2>1. Cardinality(Recorded) \in 1..Cardinality(Recorded)
    BY <1>3, <1>4
  <2>2. Cardinality(Recorded) \in Recorded
    BY <1>4, <2>1 DEF RecordsReadable
  <2>. QED  BY <2>2 DEF Recorded
<1>. QED  BY <1>3, <1>4

-----------------------------------------------------------------------------
(* Types *)

\* The session that does not exist yet.
LEMMA InitSessionInv == Init => SessionInv
<1> SUFFICES ASSUME Init PROVE SessionInv  OBVIOUS
<1>1. TypeInv
  <2>1. /\ session \in {"none", "created", "ready"}
        /\ lock \in Procs \cup {NoProc} /\ lockText \in BOOLEAN
        /\ claim \in [Index -> Pair]
        /\ final \in [pair : Pair, reason : Verdicts \cup {"none"}]
        /\ failure \in [pair : Pair, index : Index \cup {0}]
        /\ child \in [Index -> {"none", "open", "receipted", "rejected"}]
    BY DEF Init, NoFinal, NoFailure, Pair
  <2>2. attempt \in [Index -> [pair : Pair, outcome : ChildOutcomes \cup {NoOutcome},
                                next : Verdicts \cup {"none"}]]
    BY DEF Init, NoAttempt, Pair
  <2>3. /\ pc \in [Procs -> Labels] /\ outcome \in [Procs -> Results]
        /\ index \in [Procs -> Index \cup {0}] /\ seen \in [Procs -> Procs \cup {NoProc}]
        /\ result \in [Procs -> ChildOutcomes \cup {NoOutcome}]
    BY DEF Init, Labels, Results
  <2>4. /\ tries \in [Procs -> 0..3] /\ started \in [Index -> Nat]
        /\ crashes \in Nat /\ faults \in Nat
    BY DEF Init
  <2>5. (\A p \in Procs : LocalAt(p)) /\ (\A i \in Index : RetryLeavesOne(i))
    BY DEF Init, LocalAt, RetryLeavesOne, Working, NoAttempt
  <2>. QED  BY <2>1, <2>2, <2>3, <2>4, <2>5 DEF TypeInv, TypeOK
<1>2. ClaimInv
  BY DEF Init, ClaimInv, StartedAt, FreshAt, Fresh
<1>3. ChainInv
  BY DEF Init, ChainInv, LinkAt, PlaceAt, FinalAt, Recording, NoAttempt, NoFinal
<1>4. SerialInv
  BY DEF Init, SerialInv, OneAtATime, Active, SerialAt, Attempting, OneTerminalArtifact, NoFailure
<1>. QED  BY <1>1, <1>2, <1>3, <1>4 DEF SessionInv

\* Going on within the call, its index kept.
LEMMA TypeMove ==
  ASSUME TypeInv, NEW p \in Procs, NEW to \in Labels, Goto(p, to), UNCHANGED <<tries, index>>,
         to \in Acquiring => tries[p] <= 2, to \in Working => index[p] \in Index
  PROVE  /\ pc' \in [Procs -> Labels] /\ outcome' \in [Procs -> Results]
         /\ \A q \in Procs : LocalAt(q)'
  BY DEF TypeInv, TypeOK, Goto, LocalAt

\* Leaving the session, or the call.
LEMMA TypeEnd ==
  ASSUME TypeInv, NEW p \in Procs, NEW how \in Results, Leave(p, how) \/ Return(p, how),
         \A q \in Procs \ {p} : tries'[q] = tries[q] /\ index'[q] = index[q]
  PROVE  /\ pc' \in [Procs -> Labels] /\ outcome' \in [Procs -> Results]
         /\ \A q \in Procs : LocalAt(q)'
<1>1. CASE Leave(p, how)
  BY <1>1 DEF TypeInv, TypeOK, Leave, LocalAt, Labels, Acquiring, Working
<1>2. CASE Return(p, how)
  BY <1>2 DEF TypeInv, TypeOK, Return, LocalAt, Labels, Acquiring, Working
<1>. QED  BY <1>1, <1>2

\* Every step keeps the types.
LEMMA TypeStep ==
  ASSUME TypeInv, [Next]_vars
  PROVE  TypeInv'
<1>1. ASSUME NEW p \in Procs,
             \/ RunSession(p) \/ ResumeSession(p) \/ Call(p) \/ ChildEnds(p) \/ ChildThrows(p)
             \/ LateChild(p) \/ WriteFails(p) \/ Exit(p) \/ Crash(p)
      PROVE  TypeInv'
  <2>1. CASE RunSession(p)
    BY <2>1, TypeMove, TypeEnd
    DEF RunSession, TypeInv, TypeOK, LocalAt, RetryLeavesOne, Acquiring, Working, Labels, Results, lockVars, pairVars, localVars, envVars, MayStart
  <2>2. CASE ResumeSession(p)
    BY <2>2, TypeMove, TypeEnd
    DEF ResumeSession, TypeInv, TypeOK, LocalAt, RetryLeavesOne, Acquiring, Working, Labels, Results, lockVars, pairVars, localVars, envVars, MayStart
  <2>3. CASE Initialize(p)
    BY <2>3, TypeMove, TypeEnd
    DEF Initialize, TypeInv, TypeOK, LocalAt, RetryLeavesOne, Acquiring, Working, Labels, Results, lockVars, pairVars, localVars, envVars
  <2>4. CASE CreateLock(p)
    <3>1. tries[p] \in 0..2
      BY <2>4 DEF CreateLock, TypeInv, TypeOK, LocalAt, Acquiring
    <3>2. tries' \in [Procs -> 0..3] /\ tries'[p] = tries[p] + 1
          /\ \A q \in Procs \ {p} : tries'[q] = tries[q] /\ index'[q] = index[q]
      BY <2>4, <3>1 DEF CreateLock, TypeInv, TypeOK
    <3>3. /\ pc' \in [Procs -> Labels] /\ outcome' \in [Procs -> Results]
          /\ \A q \in Procs : LocalAt(q)'
      <4>1. CASE tries[p] = 2
        BY <2>4, <3>2, <4>1, TypeEnd DEF CreateLock, Results
      <4>2. CASE tries[p] # 2
        BY <2>4, <3>1, <3>2, <4>2
        DEF CreateLock, Goto, TypeInv, TypeOK, LocalAt, Acquiring, Working, Labels
      <4>. QED  BY <4>1, <4>2
    <3>4. lock' \in Procs \cup {NoProc} /\ lockText' \in BOOLEAN
      BY <2>4 DEF CreateLock, TypeInv, TypeOK, lockVars
    <3>. QED
      BY <2>4, <3>2, <3>3, <3>4 DEF CreateLock, TypeInv, TypeOK, RetryLeavesOne, pairVars, envVars
  <2>5. CASE WriteLock(p)
    BY <2>5, TypeMove, TypeEnd
    DEF WriteLock, TypeInv, TypeOK, LocalAt, RetryLeavesOne, Acquiring, Working, Labels, Results, lockVars, pairVars, localVars, envVars
  <2>6. CASE ReadLock(p)
    BY <2>6, TypeMove, TypeEnd
    DEF ReadLock, TypeInv, TypeOK, LocalAt, RetryLeavesOne, Acquiring, Working, Labels, Results, lockVars, pairVars, localVars, envVars
  <2>7. CASE ProbeOwner(p)
    BY <2>7, TypeMove, TypeEnd
    DEF ProbeOwner, TypeInv, TypeOK, LocalAt, RetryLeavesOne, Acquiring, Working, Labels, Results, lockVars, pairVars, localVars, envVars
  <2>8. CASE RemoveLock(p)
    BY <2>8, TypeMove, TypeEnd
    DEF RemoveLock, TypeInv, TypeOK, LocalAt, RetryLeavesOne, Acquiring, Working, Labels, Results, lockVars, pairVars, localVars, envVars
  <2>9. CASE Release(p)
    BY <2>9, TypeMove, TypeEnd
    DEF Release, TypeInv, TypeOK, LocalAt, RetryLeavesOne, Acquiring, Working, Labels, Results, lockVars, pairVars, localVars, envVars
  <2>10. CASE Unlink(p)
    <3>1. (IF lock = NoProc THEN "failed" ELSE outcome[p]) \in Results
      BY DEF TypeInv, TypeOK, Results
    <3>2. /\ pc' \in [Procs -> Labels] /\ outcome' \in [Procs -> Results]
          /\ \A q \in Procs : LocalAt(q)'
      BY <2>10, <3>1, TypeEnd DEF Unlink, localVars
    <3>. QED
      BY <2>10, <3>2
      DEF Unlink, TypeInv, TypeOK, RetryLeavesOne, pairVars, localVars, envVars
  <2>11. CASE CheckTerminal(p)
    BY <2>11, TypeMove, TypeEnd
    DEF CheckTerminal, TypeInv, TypeOK, LocalAt, RetryLeavesOne, Acquiring, Working, Labels, Results, lockVars, pairVars, localVars, envVars
  <2>12. CASE LoadRecords(p)
    <3>. DEFINE n == Cardinality(Recorded)
    <3>1. CASE ~RecordsReadable(n)
      BY <2>12, <3>1, TypeEnd
      DEF LoadRecords, TypeInv, TypeOK, RetryLeavesOne, Results, lockVars, pairVars, envVars
    <3>2. CASE RecordsReadable(n) /\ n > 0 /\ attempt[n].next # "retry"
      <4>1. n \in Index
        BY <3>2, RecordedCount
      <4>2. index' = [index EXCEPT ![p] = n] /\ Goto(p, "final_body")
        BY <2>12, <3>2 DEF LoadRecords
      <4>. HIDE DEF n
      <4>. QED
        BY <2>12, <4>1, <4>2
        DEF LoadRecords, Goto, TypeInv, TypeOK, LocalAt, RetryLeavesOne, Acquiring, Working, Labels,
            lockVars, pairVars, envVars
    <3>3. CASE RecordsReadable(n) /\ ~(n > 0 /\ attempt[n].next # "retry")
      <4>1. n + 1 \in Index
        BY <3>3, RecordedCount, SessionAssumption DEF TypeInv, RetryLeavesOne, Index
      <4>2. index' = [index EXCEPT ![p] = n + 1] /\ Goto(p, "claim")
        BY <2>12, <3>3 DEF LoadRecords
      <4>. HIDE DEF n
      <4>. QED
        BY <2>12, <4>1, <4>2
        DEF LoadRecords, Goto, TypeInv, TypeOK, LocalAt, RetryLeavesOne, Acquiring, Working, Labels,
            lockVars, pairVars, envVars
    <3>. QED  BY <3>1, <3>2, <3>3
  <2>13. CASE Claim(p)
    BY <2>13, TypeMove, TypeEnd
    DEF Claim, TypeInv, TypeOK, LocalAt, RetryLeavesOne, Acquiring, Working, Labels, Results, lockVars, pairVars, localVars, envVars
  <2>14. CASE ClaimBody(p)
    BY <2>14, TypeMove, TypeEnd
    DEF ClaimBody, TypeInv, TypeOK, LocalAt, RetryLeavesOne, Acquiring, Working, Labels, Results, lockVars, pairVars, localVars, envVars, Pair
  <2>15. CASE ClaimDigest(p)
    BY <2>15, TypeMove, TypeEnd
    DEF ClaimDigest, TypeInv, TypeOK, LocalAt, RetryLeavesOne, Acquiring, Working, Labels, Results, lockVars, pairVars, localVars, envVars, Pair
  <2>16. CASE RunChild(p)
    <3>1. index[p] \in Index
      BY <2>16 DEF RunChild, TypeInv, LocalAt, Working
    <3>2. started' \in [Index -> Nat]
      BY <2>16, <3>1 DEF RunChild, TypeInv, TypeOK
    <3>3. child' \in [Index -> {"none", "open", "receipted", "rejected"}]
      BY <2>16, <3>1 DEF RunChild, TypeInv, TypeOK
    <3>4. /\ pc' \in [Procs -> Labels] /\ outcome' \in [Procs -> Results]
          /\ \A q \in Procs : LocalAt(q)'
      BY <2>16, <3>1, TypeMove, TypeEnd DEF RunChild, Labels, Acquiring, Results, localVars
    <3>. QED
      BY <2>16, <3>2, <3>3, <3>4
      DEF RunChild, TypeInv, TypeOK, RetryLeavesOne, lockVars, pairVars, localVars, envVars
  <2>17. CASE ResumeChild(p)
    BY <2>17, TypeMove, TypeEnd
    DEF ResumeChild, TypeInv, TypeOK, LocalAt, RetryLeavesOne, Acquiring, Working, Labels, Results, lockVars, pairVars, localVars, envVars
  <2>18. CASE Deadline(p)
    BY <2>18, TypeMove, TypeEnd
    DEF Deadline, TypeInv, TypeOK, LocalAt, RetryLeavesOne, Acquiring, Working, Labels, Results, lockVars, pairVars, localVars, envVars
  <2>19. CASE GraceEnds(p)
    BY <2>19, TypeMove, TypeEnd
    DEF GraceEnds, TypeInv, TypeOK, LocalAt, RetryLeavesOne, Acquiring, Working, Labels, Results, lockVars, pairVars, localVars, envVars
  <2>20. CASE AttemptBody(p)
    <3>. DEFINE i == index[p]
                next == NextTransition(OutcomesUpTo(i, result[p]), i)
    <3>1. i \in Index /\ result[p] \in ChildOutcomes \cup {NoOutcome}
      BY <2>20 DEF AttemptBody, TypeInv, TypeOK, LocalAt, Working
    <3>2. next \in Verdicts /\ (next = "retry" => i < AttemptBudget)
      BY <3>1, TransitionIsVerdict, RetryMeans, SessionAssumption DEF Index
    <3>3. /\ pc' \in [Procs -> Labels] /\ outcome' \in [Procs -> Results]
          /\ \A q \in Procs : LocalAt(q)'
      BY <2>20, <3>1, TypeMove, TypeEnd DEF AttemptBody, Labels, Acquiring, Results, localVars
    <3>4. \/ UNCHANGED attempt
          \/ attempt' = [attempt EXCEPT ![i] = [pair |-> "torn", outcome |-> result[p], next |-> next]]
      BY <2>20 DEF AttemptBody
    <3>. HIDE DEF next, i
    <3>5. /\ attempt' \in [Index -> [pair : Pair, outcome : ChildOutcomes \cup {NoOutcome},
                                     next : Verdicts \cup {"none"}]]
          /\ \A k \in Index : RetryLeavesOne(k)'
      BY <3>1, <3>2, <3>4 DEF TypeInv, TypeOK, RetryLeavesOne, Pair
    <3>. QED
      BY <2>20, <3>3, <3>5 DEF AttemptBody, TypeInv, TypeOK, lockVars, localVars, envVars
  <2>21. CASE AttemptDigest(p)
    <3>1. index[p] \in Index
      BY <2>21 DEF AttemptDigest, TypeInv, LocalAt, Working
    <3>2. /\ attempt' \in [Index -> [pair : Pair, outcome : ChildOutcomes \cup {NoOutcome},
                                     next : Verdicts \cup {"none"}]]
          /\ \A k \in Index : RetryLeavesOne(k)'
      BY <2>21, <3>1 DEF AttemptDigest, TypeInv, TypeOK, RetryLeavesOne, Pair
    <3>3. /\ pc' \in [Procs -> Labels] /\ outcome' \in [Procs -> Results]
          /\ index' \in [Procs -> Index \cup {0}] /\ \A q \in Procs : LocalAt(q)'
      <4>1. CASE attempt[index[p]].next = "retry"
        <5>1. index[p] + 1 \in Index
          BY <3>1, <4>1, SessionAssumption DEF TypeInv, RetryLeavesOne, Index
        <5>2. /\ index' \in [Procs -> Index \cup {0}] /\ index'[p] \in Index
              /\ \A q \in Procs \ {p} : index'[q] = index[q]
          BY <2>21, <4>1, <5>1 DEF AttemptDigest, TypeInv, TypeOK
        <5>. QED
          BY <2>21, <4>1, <5>2
          DEF AttemptDigest, Goto, TypeInv, TypeOK, LocalAt, Acquiring, Working, Labels
      <4>2. CASE attempt[index[p]].next # "retry"
        BY <2>21, <3>1, <4>2
        DEF AttemptDigest, Goto, TypeInv, TypeOK, LocalAt, Acquiring, Working, Labels
      <4>. QED  BY <4>1, <4>2
    <3>. QED
      BY <2>21, <3>2, <3>3 DEF AttemptDigest, TypeInv, TypeOK, lockVars, envVars
  <2>22. CASE FailureBody(p)
    BY <2>22, TypeMove, TypeEnd
    DEF FailureBody, TypeInv, TypeOK, LocalAt, RetryLeavesOne, Acquiring, Working, Labels, Results, lockVars, pairVars, localVars, envVars, Pair
  <2>23. CASE FailureDigest(p)
    BY <2>23, TypeMove, TypeEnd
    DEF FailureDigest, TypeInv, TypeOK, LocalAt, RetryLeavesOne, Acquiring, Working, Labels, Results, lockVars, pairVars, localVars, envVars, Pair
  <2>24. CASE FinalBody(p)
    BY <2>24, TypeMove, TypeEnd
    DEF FinalBody, TypeInv, TypeOK, LocalAt, RetryLeavesOne, Acquiring, Working, Labels, Results, lockVars, pairVars, localVars, envVars, Pair
  <2>25. CASE FinalDigest(p)
    BY <2>25, TypeMove, TypeEnd
    DEF FinalDigest, TypeInv, TypeOK, LocalAt, RetryLeavesOne, Acquiring, Working, Labels, Results, lockVars, pairVars, localVars, envVars, Pair
  <2>26. CASE ChildEnds(p)
    BY <2>26, TypeMove, TypeEnd
    DEF ChildEnds, TypeInv, TypeOK, LocalAt, RetryLeavesOne, Acquiring, Working, Labels, Results, lockVars, pairVars, localVars, envVars, Settled
  <2>27. CASE ChildThrows(p)
    BY <2>27, TypeMove, TypeEnd
    DEF ChildThrows, TypeInv, TypeOK, LocalAt, RetryLeavesOne, Acquiring, Working, Labels, Results, lockVars, pairVars, localVars, envVars
  <2>28. CASE LateChild(p)
    BY <2>28, TypeMove, TypeEnd
    DEF LateChild, TypeInv, TypeOK, LocalAt, RetryLeavesOne, Acquiring, Working, Labels, Results, lockVars, pairVars, localVars, envVars
  <2>29. CASE WriteFails(p)
    BY <2>29, TypeMove, TypeEnd
    DEF WriteFails, TypeInv, TypeOK, LocalAt, RetryLeavesOne, Acquiring, Working, Labels, Results, lockVars, pairVars, localVars, envVars
  <2>30. CASE Exit(p)
    BY <2>30, TypeMove, TypeEnd
    DEF Exit, TypeInv, TypeOK, LocalAt, RetryLeavesOne, Acquiring, Working, Labels, Results, lockVars, pairVars, localVars, envVars
  <2>31. CASE Crash(p)
    BY <2>31, TypeMove, TypeEnd
    DEF Crash, TypeInv, TypeOK, LocalAt, RetryLeavesOne, Acquiring, Working, Labels, Results, lockVars, pairVars, localVars, envVars
  <2>. QED
    BY <1>1, <2>1, <2>2, <2>3, <2>4, <2>5, <2>6, <2>7, <2>8, <2>9, <2>10, <2>11, <2>12, <2>13, <2>14, <2>15, <2>16, <2>17, <2>18, <2>19, <2>20, <2>21, <2>22, <2>23, <2>24, <2>25, <2>26, <2>27, <2>28, <2>29, <2>30, <2>31
    DEF Call, Locking, Claiming, Children, Writing
<1>2. CASE UNCHANGED vars
  BY <1>2
  DEF vars, lockVars, pairVars, localVars, envVars, TypeInv, TypeOK, LocalAt, RetryLeavesOne
<1>. QED  BY <1>1, <1>2 DEF Next, Terminated

-----------------------------------------------------------------------------
(* Claims *)

\* Steps of a call that is not between creating a claim and running its child.
LEMMA ClaimElsewhere ==
  ASSUME TypeInv, ClaimInv, NEW p \in Procs, pc'[p] \notin Fresh, UNCHANGED <<claim, started>>,
         \A q \in Procs \ {p} : pc'[q] = pc[q] /\ index'[q] = index[q]
  PROVE  ClaimInv'
  BY DEF ClaimInv, StartedAt, FreshAt

\* A child is run once by who created its claim.
LEMMA ChildStarts ==
  ASSUME TypeInv, ClaimInv, NEW p \in Procs, pc[p] = "run_child",
         started' = [started EXCEPT ![index[p]] = @ + 1], UNCHANGED <<claim, index>>,
         pc'[p] \notin Fresh, \A q \in Procs \ {p} : pc'[q] = pc[q]
  PROVE  ClaimInv'
<1>1. index[p] \in Index /\ claim[index[p]] # "absent" /\ started[index[p]] = 0
      /\ \A q \in Procs : pc[q] \in Fresh /\ index[q] = index[p] => q = p
  BY DEF TypeInv, LocalAt, Working, ClaimInv, FreshAt, Fresh
<1>2. /\ started'[index[p]] = 1
      /\ \A i \in Index \ {index[p]} : started'[i] = started[i]
  BY <1>1 DEF TypeInv, TypeOK
<1>3. \A i \in Index : StartedAt(i)'
  BY <1>1, <1>2 DEF ClaimInv, StartedAt
<1>4. \A q \in Procs : FreshAt(q)'
  <2> SUFFICES ASSUME NEW q \in Procs, pc'[q] \in Fresh PROVE FreshAt(q)'
    BY DEF FreshAt
  <2>1. q # p /\ pc[q] \in Fresh /\ index[q] \in Index
    BY DEF Fresh, TypeInv, LocalAt, Working
  <2>2. index[q] # index[p]
    BY <1>1, <2>1
  <2>. QED
    BY <1>2, <2>1, <2>2 DEF ClaimInv, FreshAt
<1>. QED  BY <1>3, <1>4 DEF ClaimInv

\* Every step keeps the claims.
LEMMA ClaimStep ==
  ASSUME TypeInv, ClaimInv, [Next]_vars
  PROVE  ClaimInv'
<1>1. ASSUME NEW p \in Procs,
             \/ RunSession(p) \/ ResumeSession(p) \/ Call(p) \/ ChildEnds(p) \/ ChildThrows(p)
             \/ LateChild(p) \/ WriteFails(p) \/ Exit(p) \/ Crash(p)
      PROVE  ClaimInv'
  <2>1. CASE RunSession(p)
    BY <2>1, ClaimElsewhere
    DEF RunSession, Goto, Leave, Return, Fresh, pairVars, localVars, TypeInv, TypeOK
  <2>2. CASE ResumeSession(p)
    BY <2>2, ClaimElsewhere
    DEF ResumeSession, Goto, Leave, Return, Fresh, pairVars, localVars, TypeInv, TypeOK
  <2>3. CASE Initialize(p)
    BY <2>3, ClaimElsewhere
    DEF Initialize, Goto, Leave, Return, Fresh, pairVars, localVars, TypeInv, TypeOK
  <2>4. CASE CreateLock(p)
    BY <2>4, ClaimElsewhere
    DEF CreateLock, Goto, Leave, Return, Fresh, pairVars, localVars, TypeInv, TypeOK
  <2>5. CASE WriteLock(p)
    BY <2>5, ClaimElsewhere
    DEF WriteLock, Goto, Leave, Return, Fresh, pairVars, localVars, TypeInv, TypeOK
  <2>6. CASE ReadLock(p)
    BY <2>6, ClaimElsewhere
    DEF ReadLock, Goto, Leave, Return, Fresh, pairVars, localVars, TypeInv, TypeOK
  <2>7. CASE ProbeOwner(p)
    BY <2>7, ClaimElsewhere
    DEF ProbeOwner, Goto, Leave, Return, Fresh, pairVars, localVars, TypeInv, TypeOK
  <2>8. CASE RemoveLock(p)
    BY <2>8, ClaimElsewhere
    DEF RemoveLock, Goto, Leave, Return, Fresh, pairVars, localVars, TypeInv, TypeOK
  <2>9. CASE Release(p)
    BY <2>9, ClaimElsewhere
    DEF Release, Goto, Leave, Return, Fresh, pairVars, localVars, TypeInv, TypeOK
  <2>10. CASE Unlink(p)
    BY <2>10, ClaimElsewhere
    DEF Unlink, Goto, Leave, Return, Fresh, pairVars, localVars, TypeInv, TypeOK
  <2>11. CASE CheckTerminal(p)
    BY <2>11, ClaimElsewhere
    DEF CheckTerminal, Goto, Leave, Return, Fresh, pairVars, localVars, TypeInv, TypeOK
  <2>12. CASE LoadRecords(p)
    BY <2>12, ClaimElsewhere
    DEF LoadRecords, Goto, Leave, Return, Fresh, pairVars, localVars, TypeInv, TypeOK
  <2>13. CASE Claim(p)
    BY <2>13, ClaimElsewhere
    DEF Claim, Goto, Leave, Return, Fresh, pairVars, localVars, TypeInv, TypeOK
  <2>14. CASE ClaimBody(p)
    <3>1. CASE claim[index[p]] = "absent"
      <4>1. index[p] \in Index /\ started[index[p]] = 0
        BY <2>14, <3>1 DEF ClaimBody, TypeInv, TypeOK, LocalAt, Working, ClaimInv, StartedAt
      <4>2. \A q \in Procs : pc[q] \in Fresh => index[q] # index[p]
        BY <3>1 DEF ClaimInv, FreshAt
      <4>3. claim' = [claim EXCEPT ![index[p]] = "torn"] /\ pc' = [pc EXCEPT ![p] = "claim_digest"]
        BY <2>14, <3>1 DEF ClaimBody, Goto
      <4>. QED
        BY <2>14, <4>1, <4>2, <4>3
        DEF ClaimBody, localVars, ClaimInv, StartedAt, FreshAt, Fresh, TypeInv, TypeOK
    <3>2. CASE claim[index[p]] # "absent"
      BY <2>14, <3>2, ClaimElsewhere DEF ClaimBody, Leave, Fresh, localVars, TypeInv, TypeOK
    <3>. QED  BY <3>1, <3>2
  <2>15. CASE ClaimDigest(p)
    BY <2>15
    DEF ClaimDigest, Goto, localVars, ClaimInv, StartedAt, FreshAt, Fresh, TypeInv, TypeOK
  <2>16. CASE RunChild(p)
    BY <2>16, ChildStarts DEF RunChild, Goto, Leave, Fresh, pairVars, localVars, TypeInv, TypeOK
  <2>17. CASE ResumeChild(p)
    BY <2>17, ClaimElsewhere
    DEF ResumeChild, Goto, Leave, Return, Fresh, pairVars, localVars, TypeInv, TypeOK
  <2>18. CASE Deadline(p)
    BY <2>18, ClaimElsewhere
    DEF Deadline, Goto, Leave, Return, Fresh, pairVars, localVars, TypeInv, TypeOK
  <2>19. CASE GraceEnds(p)
    BY <2>19, ClaimElsewhere
    DEF GraceEnds, Goto, Leave, Return, Fresh, pairVars, localVars, TypeInv, TypeOK
  <2>20. CASE AttemptBody(p)
    BY <2>20, ClaimElsewhere
    DEF AttemptBody, Goto, Leave, Return, Fresh, pairVars, localVars, TypeInv, TypeOK
  <2>21. CASE AttemptDigest(p)
    BY <2>21, ClaimElsewhere
    DEF AttemptDigest, Goto, Leave, Return, Fresh, pairVars, localVars, TypeInv, TypeOK
  <2>22. CASE FailureBody(p)
    BY <2>22, ClaimElsewhere
    DEF FailureBody, Goto, Leave, Return, Fresh, pairVars, localVars, TypeInv, TypeOK
  <2>23. CASE FailureDigest(p)
    BY <2>23, ClaimElsewhere
    DEF FailureDigest, Goto, Leave, Return, Fresh, pairVars, localVars, TypeInv, TypeOK
  <2>24. CASE FinalBody(p)
    BY <2>24, ClaimElsewhere
    DEF FinalBody, Goto, Leave, Return, Fresh, pairVars, localVars, TypeInv, TypeOK
  <2>25. CASE FinalDigest(p)
    BY <2>25, ClaimElsewhere
    DEF FinalDigest, Goto, Leave, Return, Fresh, pairVars, localVars, TypeInv, TypeOK
  <2>26. CASE ChildEnds(p)
    BY <2>26, ClaimElsewhere
    DEF ChildEnds, Goto, Leave, Return, Fresh, pairVars, localVars, TypeInv, TypeOK
  <2>27. CASE ChildThrows(p)
    <3>1. CASE pc[p] = "child"
      BY <2>27, <3>1, ClaimElsewhere
      DEF ChildThrows, Leave, Fresh, pairVars, localVars, TypeInv, TypeOK
    <3>2. CASE pc[p] = "run_child"
      BY <2>27, <3>2, ChildStarts DEF ChildThrows, Leave, Fresh, pairVars, localVars, TypeInv, TypeOK
    <3>. QED  BY <2>27, <3>1, <3>2 DEF ChildThrows
  <2>28. CASE LateChild(p)
    BY <2>28, ClaimElsewhere
    DEF LateChild, Goto, Leave, Return, Fresh, pairVars, localVars, TypeInv, TypeOK
  <2>29. CASE WriteFails(p)
    BY <2>29, ClaimElsewhere
    DEF WriteFails, Goto, Leave, Return, Fresh, pairVars, localVars, TypeInv, TypeOK
  <2>30. CASE Exit(p)
    BY <2>30, ClaimElsewhere
    DEF Exit, Goto, Leave, Return, Fresh, pairVars, localVars, TypeInv, TypeOK
  <2>31. CASE Crash(p)
    BY <2>31, ClaimElsewhere
    DEF Crash, Goto, Leave, Return, Fresh, pairVars, localVars, TypeInv, TypeOK
  <2>. QED
    BY <1>1, <2>1, <2>2, <2>3, <2>4, <2>5, <2>6, <2>7, <2>8, <2>9, <2>10, <2>11, <2>12, <2>13, <2>14, <2>15, <2>16, <2>17, <2>18, <2>19, <2>20, <2>21, <2>22, <2>23, <2>24, <2>25, <2>26, <2>27, <2>28, <2>29, <2>30, <2>31
    DEF Call, Locking, Claiming, Children, Writing
<1>2. CASE UNCHANGED vars
  BY <1>2 DEF vars, pairVars, localVars, ClaimInv, StartedAt, FreshAt
<1>. QED  BY <1>1, <1>2 DEF Next, Terminated

-----------------------------------------------------------------------------
(* The chain of claims and attempts *)

\* What is on disk stays: pairs are only created and completed.
Kept(i) ==
    /\ claim[i] = "complete" => claim'[i] = "complete"
    /\ claim[i] # "absent" => claim'[i] # "absent"
    /\ attempt[i].pair = "complete" => attempt'[i].pair = "complete"
    /\ attempt[i].pair # "absent" => /\ attempt'[i].pair # "absent"
                                     /\ attempt'[i].next = attempt[i].next
                                     /\ attempt'[i].outcome = attempt[i].outcome

\* A claim before which the chain was complete still has a complete chain before it.
LEMMA BeforeKept ==
  ASSUME NEW i \in Index, \A k \in Index : Kept(k), Before(i)
  PROVE  Before(i)'
  BY DEF Before, Kept

\* Steps that only create or complete pairs keep the chain, if what they create fits.
LEMMA ChainGrows ==
  ASSUME TypeInv, ChainInv, NEW p \in Procs, \A i \in Index : Kept(i),
         final.pair # "absent" => final'.pair # "absent",
         \A q \in Procs \ {p} : pc'[q] = pc[q] /\ index'[q] = index[q],
         \A i \in Index : claim[i] = "absent" /\ claim'[i] # "absent" => Before(i)',
         \A i \in Index : attempt[i].pair = "absent" /\ attempt'[i].pair # "absent" => LinkAt(i)',
         PlaceAt(p)', FinalAt'
  PROVE  ChainInv'
<1>1. ASSUME NEW i \in Index PROVE LinkAt(i)'
  <2>1. claim'[i] # "absent" => Before(i)'
    BY BeforeKept DEF ChainInv, LinkAt
  <2>2. CASE attempt[i].pair # "absent"
    <3>1. claim[i] = "complete" /\ claim'[i] = "complete" /\ Before(i)
      BY <2>2 DEF ChainInv, LinkAt, Kept
    <3>2. \A k \in 1..i : attempt'[k].outcome = attempt[k].outcome
      <4> SUFFICES ASSUME NEW k \in 1..i PROVE attempt'[k].outcome = attempt[k].outcome
        OBVIOUS
      <4>1. k \in Index
        BY SessionAssumption DEF Index
      <4>2. k = i \/ attempt[k].pair = "complete"
        BY <3>1, <4>1 DEF Before, Index
      <4>. QED  BY <2>2, <4>1, <4>2 DEF Kept
    <3>3. [k \in 1..i |-> attempt'[k].outcome] = [k \in 1..i |-> attempt[k].outcome]
      BY <3>2
    <3>4. attempt'[i].next = NextTransition([k \in 1..i |-> attempt[k].outcome], i)
      BY <2>2 DEF ChainInv, LinkAt, Kept
    <3>. QED  BY <2>1, <3>1, <3>3, <3>4 DEF LinkAt
  <2>3. CASE attempt[i].pair = "absent" /\ attempt'[i].pair # "absent"
    BY <2>3
  <2>4. CASE attempt'[i].pair = "absent"
    BY <2>1, <2>4 DEF LinkAt
  <2>. QED  BY <2>2, <2>3, <2>4
<1>2. ASSUME NEW q \in Procs \ {p} PROVE PlaceAt(q)'
  <2>1. PlaceAt(q) /\ pc'[q] = pc[q] /\ index'[q] = index[q] /\ (pc[q] \in Working => index[q] \in Index)
    BY DEF ChainInv, TypeInv, LocalAt
  <2>2. pc[q] \in {"claim", "claim_body"} => Before(index[q])'
    BY <2>1, BeforeKept DEF PlaceAt, Working
  <2>3. (pc'[q] \in {"claim", "claim_body"} => Before(index[q])') => PlaceAt(q)'
    BY <2>1 DEF PlaceAt, Kept, Working, Recording, Before
  <2>. QED  BY <2>1, <2>2, <2>3
<1>. QED  BY <1>1, <1>2 DEF ChainInv

\* Steps that create and complete nothing keep the chain, if the call is where it may be.
LEMMA ChainElsewhere ==
  ASSUME TypeInv, ChainInv, NEW p \in Procs, PlaceAt(p)', UNCHANGED <<claim, attempt, final>>,
         \A q \in Procs \ {p} : pc'[q] = pc[q] /\ index'[q] = index[q]
  PROVE  ChainInv'
<1>1. \A i \in Index : Kept(i)
  BY DEF Kept
<1>2. FinalAt'
  BY DEF ChainInv, FinalAt
<1>. QED  BY <1>1, <1>2, ChainGrows

\* Every step keeps the chain.
LEMMA ChainStep ==
  ASSUME TypeInv, ChainInv, [Next]_vars
  PROVE  ChainInv'
<1>1. ASSUME NEW p \in Procs,
             \/ RunSession(p) \/ ResumeSession(p) \/ Call(p) \/ ChildEnds(p) \/ ChildThrows(p)
             \/ LateChild(p) \/ WriteFails(p) \/ Exit(p) \/ Crash(p)
      PROVE  ChainInv'
  <2>1. CASE RunSession(p)
    BY <2>1, ChainElsewhere
    DEF RunSession, Goto, Leave, Return, ChainInv, PlaceAt, Before, Recording, pairVars, localVars,
        TypeInv, TypeOK
  <2>2. CASE ResumeSession(p)
    BY <2>2, ChainElsewhere
    DEF ResumeSession, Goto, Leave, Return, ChainInv, PlaceAt, Before, Recording, pairVars, localVars,
        TypeInv, TypeOK
  <2>3. CASE Initialize(p)
    BY <2>3, ChainElsewhere
    DEF Initialize, Goto, Leave, Return, ChainInv, PlaceAt, Before, Recording, pairVars, localVars,
        TypeInv, TypeOK
  <2>4. CASE CreateLock(p)
    BY <2>4, ChainElsewhere
    DEF CreateLock, Goto, Leave, Return, ChainInv, PlaceAt, Before, Recording, pairVars, localVars,
        TypeInv, TypeOK
  <2>5. CASE WriteLock(p)
    BY <2>5, ChainElsewhere
    DEF WriteLock, Goto, Leave, Return, ChainInv, PlaceAt, Before, Recording, pairVars, localVars,
        TypeInv, TypeOK
  <2>6. CASE ReadLock(p)
    BY <2>6, ChainElsewhere
    DEF ReadLock, Goto, Leave, Return, ChainInv, PlaceAt, Before, Recording, pairVars, localVars,
        TypeInv, TypeOK
  <2>7. CASE ProbeOwner(p)
    BY <2>7, ChainElsewhere
    DEF ProbeOwner, Goto, Leave, Return, ChainInv, PlaceAt, Before, Recording, pairVars, localVars,
        TypeInv, TypeOK
  <2>8. CASE RemoveLock(p)
    BY <2>8, ChainElsewhere
    DEF RemoveLock, Goto, Leave, Return, ChainInv, PlaceAt, Before, Recording, pairVars, localVars,
        TypeInv, TypeOK
  <2>9. CASE Release(p)
    BY <2>9, ChainElsewhere
    DEF Release, Goto, Leave, Return, ChainInv, PlaceAt, Before, Recording, pairVars, localVars,
        TypeInv, TypeOK
  <2>10. CASE Unlink(p)
    BY <2>10, ChainElsewhere
    DEF Unlink, Goto, Leave, Return, ChainInv, PlaceAt, Before, Recording, pairVars, localVars,
        TypeInv, TypeOK
  <2>11. CASE CheckTerminal(p)
    BY <2>11, ChainElsewhere
    DEF CheckTerminal, Goto, Leave, Return, ChainInv, PlaceAt, Before, Recording, pairVars, localVars,
        TypeInv, TypeOK
  <2>12. CASE LoadRecords(p)
    <3>. DEFINE n == Cardinality(Recorded)
    <3>1. n \in Nat /\ (RecordsReadable(n) => n = 0 \/ n \in Index)
      BY RecordedCount
    <3>2. \A q \in Procs \ {p} : pc'[q] = pc[q] /\ index'[q] = index[q]
      BY <2>12 DEF LoadRecords, Goto, Leave, TypeInv, TypeOK
    <3>3. RecordsReadable(n) => \A k \in Index : k <= n => claim[k] = "complete" /\ attempt[k].pair = "complete"
      <4> SUFFICES ASSUME RecordsReadable(n), NEW k \in Index, k <= n
                   PROVE  claim[k] = "complete" /\ attempt[k].pair = "complete"
        OBVIOUS
      <4>1. k \in Recorded
        BY <3>1 DEF RecordsReadable, Index
      <4>2. attempt[k].pair # "absent" /\ attempt[k].pair # "torn" /\ attempt[k].pair \in Pair
        BY <4>1 DEF RecordsReadable, Recorded, TypeInv, TypeOK
      <4>. QED  BY <4>2 DEF ChainInv, LinkAt, Pair
    <3>4. CASE ~RecordsReadable(n)
      BY <2>12, <3>2, <3>4, ChainElsewhere
      DEF LoadRecords, Leave, PlaceAt, Recording, pairVars, TypeInv, TypeOK
    <3>5. CASE RecordsReadable(n) /\ n > 0 /\ attempt[n].next # "retry"
      <4>1. n \in Index /\ attempt[n].pair = "complete"
        BY <3>1, <3>3, <3>5
      <4>2. pc'[p] = "final_body" /\ index'[p] = n /\ UNCHANGED <<claim, attempt, final>>
        BY <2>12, <3>5 DEF LoadRecords, Goto, pairVars, TypeInv, TypeOK
      <4>3. PlaceAt(p)'
        BY <3>5, <4>1, <4>2 DEF PlaceAt, Recording
      <4>. QED  BY <3>2, <4>2, <4>3, ChainElsewhere
    <3>6. CASE RecordsReadable(n) /\ ~(n > 0 /\ attempt[n].next # "retry")
      <4>1. \A k \in Index : k <= n => attempt[k].next = "retry"
        <5> SUFFICES ASSUME NEW k \in Index, k <= n PROVE attempt[k].next = "retry"
          OBVIOUS
        <5>1. n \in Index /\ (k < n \/ k = n) /\ n > 0 /\ n <= n
          BY <3>1, <3>6 DEF Index
        <5>2. attempt[n].next = "retry" /\ claim[n] = "complete"
          BY <3>3, <3>6, <5>1
        <5>. QED  BY <5>1, <5>2 DEF ChainInv, LinkAt, Before
      <4>2. pc'[p] = "claim" /\ index'[p] = n + 1 /\ UNCHANGED <<claim, attempt, final>>
        BY <2>12, <3>6 DEF LoadRecords, Goto, pairVars, TypeInv, TypeOK
      <4>3. \A k \in Index : k < n + 1 => k <= n
        BY <3>1 DEF Index
      <4>4. PlaceAt(p)'
        BY <3>3, <3>6, <4>1, <4>2, <4>3 DEF PlaceAt, Before, Recording
      <4>. QED  BY <3>2, <4>2, <4>4, ChainElsewhere
    <3>. QED  BY <3>4, <3>5, <3>6
  <2>13. CASE Claim(p)
    BY <2>13, ChainElsewhere
    DEF Claim, Goto, Leave, Return, ChainInv, PlaceAt, Before, Recording, pairVars, localVars,
        TypeInv, TypeOK
  <2>14. CASE ClaimBody(p)
    <3>1. CASE claim[index[p]] = "absent"
      <4>1. index[p] \in Index /\ Before(index[p])
        BY <2>14 DEF ClaimBody, TypeInv, LocalAt, Working, ChainInv, PlaceAt
      <4>2. claim' = [claim EXCEPT ![index[p]] = "torn"] /\ pc' = [pc EXCEPT ![p] = "claim_digest"]
            /\ UNCHANGED <<attempt, final, index>>
        BY <2>14, <3>1 DEF ClaimBody, Goto, localVars
      <4>3. \A i \in Index : Kept(i)
        BY <3>1, <4>1, <4>2 DEF Kept, TypeInv, TypeOK
      <4>4. Before(index[p])'
        BY <4>1, <4>2, <4>3, BeforeKept
      <4>5. \A i \in Index : claim[i] = "absent" /\ claim'[i] # "absent" => Before(i)'
        <5>1. \A i \in Index : i # index[p] => claim'[i] = claim[i]
          BY <4>1, <4>2 DEF TypeInv, TypeOK
        <5>. QED  BY <4>2, <4>4, <5>1
      <4>6. PlaceAt(p)'
        BY <4>1, <4>2 DEF PlaceAt, Recording, TypeInv, TypeOK
      <4>7. FinalAt'
        BY <4>2 DEF ChainInv, FinalAt
      <4>8. \A q \in Procs \ {p} : pc'[q] = pc[q] /\ index'[q] = index[q]
        BY <4>2 DEF TypeInv, TypeOK
      <4>9. final.pair # "absent" => final'.pair # "absent"
        BY <4>2
      <4>10. \A i \in Index : attempt[i].pair = "absent" /\ attempt'[i].pair # "absent" => LinkAt(i)'
        BY <4>2
      <4>. QED  BY <4>3, <4>5, <4>6, <4>7, <4>8, <4>9, <4>10, ChainGrows
    <3>2. CASE claim[index[p]] # "absent"
      BY <2>14, <3>2, ChainElsewhere
      DEF ClaimBody, Leave, PlaceAt, Recording, localVars, TypeInv, TypeOK
    <3>. QED  BY <3>1, <3>2
  <2>15. CASE ClaimDigest(p)
    <3>1. index[p] \in Index /\ claim[index[p]] # "absent"
      BY <2>15 DEF ClaimDigest, TypeInv, LocalAt, Working, ChainInv, PlaceAt
    <3>2. claim' = [claim EXCEPT ![index[p]] = "complete"] /\ pc' = [pc EXCEPT ![p] = "run_child"]
          /\ UNCHANGED <<attempt, final, index>>
      BY <2>15 DEF ClaimDigest, Goto, localVars
    <3>3. \A i \in Index : Kept(i)
      BY <3>1, <3>2 DEF Kept, TypeInv, TypeOK
    <3>4. \A i \in Index : ~(claim[i] = "absent" /\ claim'[i] # "absent")
      BY <3>1, <3>2 DEF TypeInv, TypeOK
    <3>5. PlaceAt(p)'
      BY <3>1, <3>2 DEF PlaceAt, Recording, TypeInv, TypeOK
    <3>6. FinalAt'
      BY <3>2 DEF ChainInv, FinalAt
    <3>7. \A q \in Procs \ {p} : pc'[q] = pc[q] /\ index'[q] = index[q]
      BY <3>2 DEF TypeInv, TypeOK
    <3>8. final.pair # "absent" => final'.pair # "absent"
      BY <3>2
    <3>9. \A i \in Index : attempt[i].pair = "absent" /\ attempt'[i].pair # "absent" => LinkAt(i)'
      BY <3>2
    <3>. QED  BY <3>3, <3>4, <3>5, <3>6, <3>7, <3>8, <3>9, ChainGrows
  <2>16. CASE RunChild(p)
    BY <2>16, ChainElsewhere
    DEF RunChild, Goto, Leave, Return, ChainInv, PlaceAt, Before, Recording, pairVars, localVars,
        TypeInv, TypeOK
  <2>17. CASE ResumeChild(p)
    BY <2>17, ChainElsewhere
    DEF ResumeChild, Goto, Leave, Return, ChainInv, PlaceAt, Before, Recording, pairVars, localVars,
        TypeInv, TypeOK
  <2>18. CASE Deadline(p)
    BY <2>18, ChainElsewhere
    DEF Deadline, Goto, Leave, Return, ChainInv, PlaceAt, Before, Recording, pairVars, localVars,
        TypeInv, TypeOK
  <2>19. CASE GraceEnds(p)
    BY <2>19, ChainElsewhere
    DEF GraceEnds, Goto, Leave, Return, ChainInv, PlaceAt, Before, Recording, pairVars, localVars,
        TypeInv, TypeOK
  <2>20. CASE AttemptBody(p)
    <3>0. PICK i \in Index : i = index[p]
      BY <2>20 DEF AttemptBody, TypeInv, LocalAt, Working
    <3>. DEFINE next == NextTransition(OutcomesUpTo(i, result[p]), i)
    <3>1. claim[i] = "complete"
      BY <2>20, <3>0 DEF AttemptBody, ChainInv, PlaceAt, Recording
    <3>2. UNCHANGED <<claim, final, index>> /\ \A q \in Procs \ {p} : pc'[q] = pc[q]
      BY <2>20 DEF AttemptBody, Goto, Leave, localVars, TypeInv, TypeOK
    <3>3. CASE attempt[i].pair # "absent"
      BY <2>20, <3>0, <3>2, <3>3, ChainElsewhere
      DEF AttemptBody, Leave, PlaceAt, Recording, TypeInv, TypeOK
    <3>4. CASE attempt[i].pair = "absent"
      <4>1. /\ attempt' = [attempt EXCEPT ![i] = [pair |-> "torn", outcome |-> result[p], next |-> next]]
            /\ pc' = [pc EXCEPT ![p] = "attempt_digest"]
        BY <2>20, <3>0, <3>4 DEF AttemptBody, Goto
      <4>2. attempt'[i] = [pair |-> "torn", outcome |-> result[p], next |-> next]
            /\ \A k \in Index : k # i => attempt'[k] = attempt[k]
        BY <3>1, <4>1 DEF TypeInv, TypeOK
      <4>3. \A k \in Index : Kept(k)
        BY <3>2, <3>4, <4>2 DEF Kept
      <4>4. LinkAt(i)'
        <5>1. Before(i)'
          BY <3>1, <4>3, BeforeKept DEF ChainInv, LinkAt
        <5>2. \A k \in 1..i : k \in Index
          BY <3>1, SessionAssumption DEF Index
        <5>3. [k \in 1..i |-> attempt'[k].outcome] = OutcomesUpTo(i, result[p])
          BY <4>2, <5>2 DEF OutcomesUpTo
        <5>. QED  BY <3>1, <3>2, <4>2, <5>1, <5>3 DEF LinkAt
      <4>5. \A k \in Index : attempt[k].pair = "absent" /\ attempt'[k].pair # "absent" => LinkAt(k)'
        BY <4>2, <4>4
      <4>6. PlaceAt(p)'
        BY <3>0, <3>1, <3>2, <4>1, <4>2 DEF PlaceAt, Recording, TypeInv, TypeOK
      <4>7. FinalAt'
        BY <3>2, <4>3 DEF ChainInv, FinalAt, Kept
      <4>. QED  BY <3>2, <4>3, <4>5, <4>6, <4>7, ChainGrows
    <3>. QED  BY <3>3, <3>4
  <2>21. CASE AttemptDigest(p)
    <3>0. PICK i \in Index : i = index[p]
      BY <2>21 DEF AttemptDigest, TypeInv, LocalAt, Working
    <3>1. claim[i] = "complete" /\ attempt[i].pair # "absent"
      BY <2>21, <3>0 DEF AttemptDigest, ChainInv, PlaceAt, Recording
    <3>2. attempt' = [attempt EXCEPT ![i].pair = "complete"] /\ UNCHANGED <<claim, final>>
      BY <2>21, <3>0 DEF AttemptDigest
    <3>3. /\ attempt'[i].pair = "complete" /\ attempt'[i].next = attempt[i].next
          /\ attempt'[i].outcome = attempt[i].outcome
          /\ \A k \in Index : k # i => attempt'[k] = attempt[k]
      BY <3>1, <3>2 DEF TypeInv, TypeOK
    <3>4. \A k \in Index : Kept(k)
      BY <3>2, <3>3 DEF Kept
    <3>5. \A k \in Index : ~(attempt[k].pair = "absent" /\ attempt'[k].pair # "absent")
      BY <3>1, <3>3
    <3>6. FinalAt'
      BY <3>2, <3>4 DEF ChainInv, FinalAt, Kept
    <3>7. \A q \in Procs \ {p} : pc'[q] = pc[q] /\ index'[q] = index[q]
      BY <2>21 DEF AttemptDigest, Goto, TypeInv, TypeOK
    <3>8. PlaceAt(p)'
      <4>1. CASE attempt[i].next = "retry"
        <5>1. pc'[p] = "claim" /\ index'[p] = i + 1
          BY <2>21, <3>0, <4>1 DEF AttemptDigest, Goto, TypeInv, TypeOK
        <5>2. Before(i)'
          BY <3>1, <3>4, BeforeKept DEF ChainInv, LinkAt
        <5>3. \A k \in Index : k < i + 1 => k < i \/ k = i
          BY <3>1 DEF Index
        <5>4. \A k \in Index : k < i + 1 =>
                claim'[k] = "complete" /\ attempt'[k].pair = "complete" /\ attempt'[k].next = "retry"
          BY <3>1, <3>2, <3>3, <4>1, <5>2, <5>3 DEF Before
        <5>. QED  BY <5>1, <5>4 DEF PlaceAt, Before, Recording
      <4>2. CASE attempt[i].next # "retry"
        <5>1. pc'[p] = "final_body" /\ index'[p] = i
          BY <2>21, <3>0, <4>2 DEF AttemptDigest, Goto, TypeInv, TypeOK
        <5>. QED  BY <3>3, <4>2, <5>1 DEF PlaceAt, Recording
      <4>. QED  BY <4>1, <4>2
    <3>. QED  BY <3>2, <3>4, <3>5, <3>6, <3>7, <3>8, ChainGrows
  <2>22. CASE FailureBody(p)
    BY <2>22, ChainElsewhere
    DEF FailureBody, Goto, Leave, Return, ChainInv, PlaceAt, Before, Recording, pairVars, localVars,
        TypeInv, TypeOK
  <2>23. CASE FailureDigest(p)
    BY <2>23, ChainElsewhere
    DEF FailureDigest, Goto, Leave, Return, ChainInv, PlaceAt, Before, Recording, pairVars, localVars,
        TypeInv, TypeOK
  <2>24. CASE FinalBody(p)
    <3>1. CASE final.pair # "absent"
      BY <2>24, <3>1, ChainElsewhere
      DEF FinalBody, Leave, PlaceAt, Recording, localVars, TypeInv, TypeOK
    <3>2. CASE final.pair = "absent"
      <4>1. /\ index[p] \in Index
            /\ attempt[index[p]].pair = "complete" /\ attempt[index[p]].next # "retry"
        BY <2>24 DEF FinalBody, TypeInv, LocalAt, Working, ChainInv, PlaceAt
      <4>2. /\ final' = [pair |-> "torn", reason |-> attempt[index[p]].next]
            /\ pc' = [pc EXCEPT ![p] = "final_digest"] /\ UNCHANGED <<claim, attempt, index>>
        BY <2>24, <3>2 DEF FinalBody, Goto, localVars
      <4>3. \A k \in Index : Kept(k)
        BY <4>2 DEF Kept
      <4>4. FinalAt' /\ final'.pair # "absent"
        BY <4>1, <4>2 DEF FinalAt
      <4>5. PlaceAt(p)'
        BY <4>2, <4>4 DEF PlaceAt, Recording, TypeInv, TypeOK
      <4>6. \A q \in Procs \ {p} : pc'[q] = pc[q] /\ index'[q] = index[q]
        BY <4>2 DEF TypeInv, TypeOK
      <4>. QED  BY <4>2, <4>3, <4>4, <4>5, <4>6, ChainGrows
    <3>. QED  BY <3>1, <3>2
  <2>25. CASE FinalDigest(p)
    <3>1. final.pair # "absent"
      BY <2>25 DEF FinalDigest, ChainInv, PlaceAt
    <3>2. /\ final'.pair = "complete" /\ final'.reason = final.reason
          /\ pc' = [pc EXCEPT ![p] = "release"] /\ UNCHANGED <<claim, attempt, index>>
      BY <2>25 DEF FinalDigest, Leave, localVars, TypeInv, TypeOK
    <3>3. \A k \in Index : Kept(k)
      BY <3>2 DEF Kept
    <3>4. FinalAt'
      BY <3>1, <3>2 DEF ChainInv, FinalAt
    <3>5. PlaceAt(p)'
      BY <3>2 DEF PlaceAt, Recording, TypeInv, TypeOK
    <3>6. \A q \in Procs \ {p} : pc'[q] = pc[q] /\ index'[q] = index[q]
      BY <3>2 DEF TypeInv, TypeOK
    <3>. QED  BY <3>2, <3>3, <3>4, <3>5, <3>6, ChainGrows
  <2>26. CASE ChildEnds(p)
    BY <2>26, ChainElsewhere
    DEF ChildEnds, Goto, Leave, Return, ChainInv, PlaceAt, Before, Recording, pairVars, localVars,
        TypeInv, TypeOK
  <2>27. CASE ChildThrows(p)
    BY <2>27, ChainElsewhere
    DEF ChildThrows, Goto, Leave, Return, ChainInv, PlaceAt, Before, Recording, pairVars, localVars,
        TypeInv, TypeOK
  <2>28. CASE LateChild(p)
    BY <2>28, ChainElsewhere
    DEF LateChild, Goto, Leave, Return, ChainInv, PlaceAt, Before, Recording, pairVars, localVars,
        TypeInv, TypeOK
  <2>29. CASE WriteFails(p)
    BY <2>29, ChainElsewhere
    DEF WriteFails, Goto, Leave, Return, ChainInv, PlaceAt, Before, Recording, pairVars, localVars,
        TypeInv, TypeOK
  <2>30. CASE Exit(p)
    BY <2>30, ChainElsewhere
    DEF Exit, Goto, Leave, Return, ChainInv, PlaceAt, Before, Recording, pairVars, localVars,
        TypeInv, TypeOK
  <2>31. CASE Crash(p)
    BY <2>31, ChainElsewhere
    DEF Crash, Goto, Leave, Return, ChainInv, PlaceAt, Before, Recording, pairVars, localVars,
        TypeInv, TypeOK
  <2>. QED
    BY <1>1, <2>1, <2>2, <2>3, <2>4, <2>5, <2>6, <2>7, <2>8, <2>9, <2>10, <2>11, <2>12, <2>13, <2>14, <2>15, <2>16, <2>17, <2>18, <2>19, <2>20, <2>21, <2>22, <2>23, <2>24, <2>25, <2>26, <2>27, <2>28, <2>29, <2>30, <2>31
    DEF Call, Locking, Claiming, Children, Writing
<1>2. CASE UNCHANGED vars
  <2>1. UNCHANGED <<claim, attempt, final, pc, index>>
    BY <1>2 DEF vars, pairVars, localVars
  <2>. QED
    BY <2>1 DEF ChainInv, LinkAt, PlaceAt, FinalAt, Before
<1>. QED  BY <1>1, <1>2 DEF Next, Terminated

-----------------------------------------------------------------------------
(* One call at a time *)

\* Steps of the only call.
LEMMA SerialAlone ==
  ASSUME TypeInv, SerialInv, ~Overlap, NEW p \in Procs,
         \A q \in Procs \ {p} : pc'[q] = pc[q],
         Active(p) \/ \A q \in Procs : ~Active(q),
         SerialAt(p)', OneTerminalArtifact'
  PROVE  SerialInv'
<1>1. \A q \in Procs \ {p} : ~Active(q) /\ ~Active(q)'
  BY DEF SerialInv, OneAtATime, Active
<1>2. \A q \in Procs : SerialAt(q)'
  BY <1>1 DEF SerialAt, Active, Attempting
<1>. QED  BY <1>1, <1>2 DEF SerialInv, OneAtATime

\* Steps of the only call that write no claim and no terminal artifact.
LEMMA SerialElsewhere ==
  ASSUME TypeInv, SerialInv, ~Overlap, NEW p \in Procs,
         \A q \in Procs \ {p} : pc'[q] = pc[q],
         Active(p) \/ \A q \in Procs : ~Active(q),
         SerialAt(p)', UNCHANGED <<claim, attempt, final, failure>>
  PROVE  SerialInv'
  BY SerialAlone DEF SerialInv, OneTerminalArtifact

\* Every step of calls that do not overlap keeps them apart.
LEMMA SerialStep ==
  ASSUME TypeInv, ChainInv, SerialInv, [Next]_vars
  PROVE  SerialInv'
<1>. SUFFICES ASSUME ~Overlap PROVE SerialInv'
  BY DEF SerialInv
<1>1. ASSUME NEW p \in Procs,
             \/ RunSession(p) \/ ResumeSession(p) \/ Call(p) \/ ChildEnds(p) \/ ChildThrows(p)
             \/ LateChild(p) \/ WriteFails(p) \/ Exit(p) \/ Crash(p)
      PROVE  SerialInv'
  <2>. USE DEF Active
  <2>1. CASE RunSession(p)
    BY <2>1, SerialElsewhere
    DEF RunSession, Goto, Leave, Return, SerialInv, SerialAt, Attempting, pairVars, localVars,
        TypeInv, TypeOK, MayStart
  <2>2. CASE ResumeSession(p)
    BY <2>2, SerialElsewhere
    DEF ResumeSession, Goto, Leave, Return, SerialInv, SerialAt, Attempting, pairVars, localVars,
        TypeInv, TypeOK, MayStart
  <2>3. CASE Initialize(p)
    BY <2>3, SerialElsewhere
    DEF Initialize, Goto, Leave, Return, SerialInv, SerialAt, Attempting, pairVars, localVars,
        TypeInv, TypeOK
  <2>4. CASE CreateLock(p)
    BY <2>4, SerialElsewhere
    DEF CreateLock, Goto, Leave, Return, SerialInv, SerialAt, Attempting, pairVars, localVars,
        TypeInv, TypeOK
  <2>5. CASE WriteLock(p)
    BY <2>5, SerialElsewhere
    DEF WriteLock, Goto, Leave, Return, SerialInv, SerialAt, Attempting, pairVars, localVars,
        TypeInv, TypeOK
  <2>6. CASE ReadLock(p)
    BY <2>6, SerialElsewhere
    DEF ReadLock, Goto, Leave, Return, SerialInv, SerialAt, Attempting, pairVars, localVars,
        TypeInv, TypeOK
  <2>7. CASE ProbeOwner(p)
    BY <2>7, SerialElsewhere
    DEF ProbeOwner, Goto, Leave, Return, SerialInv, SerialAt, Attempting, pairVars, localVars,
        TypeInv, TypeOK
  <2>8. CASE RemoveLock(p)
    BY <2>8, SerialElsewhere
    DEF RemoveLock, Goto, Leave, Return, SerialInv, SerialAt, Attempting, pairVars, localVars,
        TypeInv, TypeOK
  <2>9. CASE Release(p)
    BY <2>9, SerialElsewhere
    DEF Release, Goto, Leave, Return, SerialInv, SerialAt, Attempting, pairVars, localVars,
        TypeInv, TypeOK
  <2>10. CASE Unlink(p)
    BY <2>10, SerialElsewhere
    DEF Unlink, Goto, Leave, Return, SerialInv, SerialAt, Attempting, pairVars, localVars,
        TypeInv, TypeOK
  <2>11. CASE CheckTerminal(p)
    BY <2>11, SerialElsewhere
    DEF CheckTerminal, Goto, Leave, Return, SerialInv, SerialAt, Attempting, pairVars, localVars,
        TypeInv, TypeOK
  <2>12. CASE LoadRecords(p)
    <3>. DEFINE n == Cardinality(Recorded)
    <3>1. n \in Nat
      BY RecordedCount
    <3>2. /\ \A q \in Procs \ {p} : pc'[q] = pc[q]
          /\ Active(p) /\ UNCHANGED <<claim, attempt, final, failure>>
      BY <2>12 DEF LoadRecords, Goto, Leave, pairVars, TypeInv, TypeOK
    <3>3. failure.pair = "absent" /\ final.pair = "absent"
      BY <2>12 DEF LoadRecords, SerialInv, SerialAt
    <3>4. \/ pc'[p] \in {"release", "final_body"}
          \/ pc'[p] = "claim" /\ index'[p] = n + 1 /\ RecordsReadable(n)
      BY <2>12 DEF LoadRecords, Goto, Leave, TypeInv, TypeOK
    <3>5. SerialAt(p)'
      <4>1. CASE pc'[p] \in {"release", "final_body"}
        BY <3>2, <3>3, <4>1 DEF SerialAt, Attempting
      <4>2. CASE pc'[p] = "claim" /\ index'[p] = n + 1 /\ RecordsReadable(n)
        <5>1. attempt[n + 1].pair = "absent"
          <6>1. n + 1 \in Index
            BY <2>12, <3>2, <4>2, TypeStep, SessionAssumption
            DEF LoadRecords, Next, Call, Claiming, TypeInv, LocalAt, Working
          <6>2. n + 1 \notin Recorded
            BY <3>1, <4>2 DEF RecordsReadable
          <6>. QED  BY <6>1, <6>2 DEF Recorded
        <5>2. ASSUME NEW k \in Index, k > n + 1 PROVE claim[k] = "absent"
          <6>1. k \notin Claimed
            BY <3>1, <4>2, <5>2, SessionAssumption DEF RecordsReadable, Index
          <6>. QED  BY <6>1 DEF Claimed
        <5>. QED  BY <3>2, <3>3, <4>2, <5>1, <5>2 DEF SerialAt
      <4>. QED  BY <3>4, <4>1, <4>2
    <3>. QED  BY <3>2, <3>5, SerialElsewhere
  <2>13. CASE Claim(p)
    BY <2>13, SerialElsewhere
    DEF Claim, Goto, Leave, Return, SerialInv, SerialAt, Attempting, pairVars, localVars,
        TypeInv, TypeOK
  <2>14. CASE ClaimBody(p)
    <3>1. failure.pair = "absent" /\ final.pair = "absent" /\ Active(p)
      BY <2>14 DEF ClaimBody, SerialInv, SerialAt, Attempting
    <3>2. UNCHANGED <<final, failure>> /\ \A q \in Procs \ {p} : pc'[q] = pc[q]
      BY <2>14 DEF ClaimBody, Goto, Leave, TypeInv, TypeOK
    <3>3. SerialAt(p)'
      <4>1. index[p] \in Index
        BY <2>14 DEF ClaimBody, TypeInv, LocalAt, Working
      <4>2. /\ attempt[index[p]].pair = "absent"
            /\ \A k \in Index : k > index[p] => claim[k] = "absent"
        BY <2>14 DEF ClaimBody, SerialInv, SerialAt, Attempting
      <4>3. /\ UNCHANGED <<attempt, index>> /\ pc'[p] \in {"claim_digest", "release"}
            /\ \A k \in Index \ {index[p]} : claim'[k] = claim[k]
        BY <2>14, <4>1 DEF ClaimBody, Goto, Leave, localVars, TypeInv, TypeOK
      <4>4. \A k \in Index : k > index[p] => k # index[p]
        BY <4>1 DEF Index
      <4>. QED  BY <3>1, <3>2, <4>2, <4>3, <4>4 DEF SerialAt, Attempting
    <3>. QED  BY <3>1, <3>2, <3>3, SerialAlone DEF OneTerminalArtifact
  <2>15. CASE ClaimDigest(p)
    <3>1. failure.pair = "absent" /\ final.pair = "absent" /\ Active(p)
      BY <2>15 DEF ClaimDigest, SerialInv, SerialAt, Attempting
    <3>2. UNCHANGED <<final, failure>> /\ \A q \in Procs \ {p} : pc'[q] = pc[q]
      BY <2>15 DEF ClaimDigest, Goto, Leave, TypeInv, TypeOK
    <3>3. SerialAt(p)'
      <4>1. index[p] \in Index
        BY <2>15 DEF ClaimDigest, TypeInv, LocalAt, Working
      <4>2. /\ attempt[index[p]].pair = "absent"
            /\ \A k \in Index : k > index[p] => claim[k] = "absent"
        BY <2>15 DEF ClaimDigest, SerialInv, SerialAt, Attempting
      <4>3. /\ UNCHANGED <<attempt, index>> /\ pc'[p] = "run_child"
            /\ \A k \in Index \ {index[p]} : claim'[k] = claim[k]
        BY <2>15, <4>1 DEF ClaimDigest, Goto, localVars, TypeInv, TypeOK
      <4>4. \A k \in Index : k > index[p] => k # index[p]
        BY <4>1 DEF Index
      <4>. QED  BY <3>1, <3>2, <4>2, <4>3, <4>4 DEF SerialAt, Attempting
    <3>. QED  BY <3>1, <3>2, <3>3, SerialAlone DEF OneTerminalArtifact
  <2>16. CASE RunChild(p)
    BY <2>16, SerialElsewhere
    DEF RunChild, Goto, Leave, Return, SerialInv, SerialAt, Attempting, pairVars, localVars,
        TypeInv, TypeOK
  <2>17. CASE ResumeChild(p)
    BY <2>17, SerialElsewhere
    DEF ResumeChild, Goto, Leave, Return, SerialInv, SerialAt, Attempting, pairVars, localVars,
        TypeInv, TypeOK
  <2>18. CASE Deadline(p)
    BY <2>18, SerialElsewhere
    DEF Deadline, Goto, Leave, Return, SerialInv, SerialAt, Attempting, pairVars, localVars,
        TypeInv, TypeOK
  <2>19. CASE GraceEnds(p)
    BY <2>19, SerialElsewhere
    DEF GraceEnds, Goto, Leave, Return, SerialInv, SerialAt, Attempting, pairVars, localVars,
        TypeInv, TypeOK
  <2>20. CASE AttemptBody(p)
    <3>1. failure.pair = "absent" /\ final.pair = "absent" /\ Active(p)
      BY <2>20 DEF AttemptBody, SerialInv, SerialAt, Attempting
    <3>2. UNCHANGED <<final, failure>> /\ \A q \in Procs \ {p} : pc'[q] = pc[q]
      BY <2>20 DEF AttemptBody, Goto, Leave, TypeInv, TypeOK
    <3>3. SerialAt(p)'
      <4>1. \A k \in Index : k > index[p] => claim[k] = "absent"
        BY <2>20 DEF AttemptBody, SerialInv, SerialAt, Attempting
      <4>2. UNCHANGED <<claim, index>> /\ pc'[p] \in {"attempt_digest", "release"}
        BY <2>20 DEF AttemptBody, Goto, Leave, localVars, TypeInv, TypeOK
      <4>. QED  BY <3>1, <3>2, <4>1, <4>2 DEF SerialAt, Attempting
    <3>. QED  BY <3>1, <3>2, <3>3, SerialAlone DEF OneTerminalArtifact
  <2>21. CASE AttemptDigest(p)
    <3>1. failure.pair = "absent" /\ final.pair = "absent" /\ Active(p)
      BY <2>21 DEF AttemptDigest, SerialInv, SerialAt, Attempting
    <3>2. UNCHANGED <<final, failure>> /\ \A q \in Procs \ {p} : pc'[q] = pc[q]
      BY <2>21 DEF AttemptDigest, Goto, Leave, TypeInv, TypeOK
    <3>3. SerialAt(p)'
      <4>1. index[p] \in Index /\ \A k \in Index : k > index[p] => claim[k] = "absent"
        BY <2>21 DEF AttemptDigest, SerialInv, SerialAt, TypeInv, LocalAt, Working
      <4>2. CASE attempt[index[p]].next = "retry"
        <5>1. index[p] + 1 \in Index
          BY <4>1, <4>2, SessionAssumption DEF TypeInv, RetryLeavesOne, Index
        <5>2. /\ pc'[p] = "claim" /\ index'[p] = index[p] + 1 /\ UNCHANGED claim
              /\ \A k \in Index \ {index[p]} : attempt'[k] = attempt[k]
          BY <2>21, <4>1, <4>2 DEF AttemptDigest, Goto, TypeInv, TypeOK
        <5>3. \A k \in Index : k > index[p] + 1 => k > index[p]
          BY <4>1 DEF Index
        <5>4. index[p] + 1 # index[p] /\ index[p] + 1 > index[p]
          BY <4>1 DEF Index
        <5>5. attempt[index[p] + 1].pair = "absent"
          BY <4>1, <5>1, <5>4 DEF ChainInv, LinkAt
        <5>. QED
          BY <3>1, <3>2, <4>1, <5>1, <5>2, <5>3, <5>4, <5>5 DEF SerialAt
      <4>3. CASE attempt[index[p]].next # "retry"
        BY <2>21, <3>1, <3>2, <4>3
        DEF AttemptDigest, Goto, SerialAt, Attempting, TypeInv, TypeOK
      <4>. QED  BY <4>2, <4>3
    <3>. QED  BY <3>1, <3>2, <3>3, SerialAlone DEF OneTerminalArtifact
  <2>22. CASE FailureBody(p)
    <3>1. /\ index[p] \in Index /\ Active(p)
          /\ failure.pair = "absent" /\ final.pair = "absent" /\ attempt[index[p]].pair = "absent"
          /\ \A k \in Index : k > index[p] => claim[k] = "absent"
      BY <2>22 DEF FailureBody, TypeInv, LocalAt, Working, SerialInv, SerialAt, Attempting
    <3>2. claim[index[p]] = "complete"
      BY <2>22 DEF FailureBody, ChainInv, PlaceAt, Recording
    <3>3. /\ failure' = [pair |-> "torn", index |-> index[p]] /\ pc'[p] = "failure_digest"
          /\ \A q \in Procs \ {p} : pc'[q] = pc[q]
          /\ UNCHANGED <<claim, attempt, final>>
      BY <2>22, <3>1 DEF FailureBody, Goto, TypeInv, TypeOK
    <3>4. OneTerminalArtifact' /\ SerialAt(p)'
      BY <3>1, <3>2, <3>3 DEF OneTerminalArtifact, SerialAt, Attempting
    <3>. QED  BY <3>1, <3>3, <3>4, SerialAlone
  <2>23. CASE FailureDigest(p)
    <3>1. /\ failure'.index = failure.index /\ failure'.pair = "complete"
          /\ pc'[p] = "release" /\ \A q \in Procs \ {p} : pc'[q] = pc[q]
          /\ Active(p) /\ UNCHANGED <<claim, attempt, final>>
      BY <2>23 DEF FailureDigest, Leave, TypeInv, TypeOK
    <3>2. SerialAt(p)'
      BY <3>1 DEF SerialAt, Attempting
    <3>3. failure.pair # "absent"
      BY <2>23 DEF FailureDigest, SerialInv, SerialAt
    <3>4. OneTerminalArtifact'
      BY <3>1, <3>3 DEF SerialInv, OneTerminalArtifact
    <3>. QED  BY <3>1, <3>2, <3>4, SerialAlone
  <2>24. CASE FinalBody(p)
    <3>1. failure.pair = "absent" /\ Active(p)
      BY <2>24 DEF FinalBody, SerialInv, SerialAt
    <3>2. /\ pc'[p] \in {"final_digest", "release"} /\ UNCHANGED failure
          /\ \A q \in Procs \ {p} : pc'[q] = pc[q]
      BY <2>24 DEF FinalBody, Goto, Leave, TypeInv, TypeOK
    <3>3. SerialAt(p)' /\ OneTerminalArtifact'
      BY <3>1, <3>2 DEF SerialAt, Attempting, OneTerminalArtifact
    <3>. QED  BY <3>1, <3>2, <3>3, SerialAlone
  <2>25. CASE FinalDigest(p)
    <3>1. failure.pair = "absent" /\ Active(p)
      BY <2>25 DEF FinalDigest, SerialInv, SerialAt
    <3>2. /\ pc'[p] \in {"release"} /\ UNCHANGED failure
          /\ \A q \in Procs \ {p} : pc'[q] = pc[q]
      BY <2>25 DEF FinalDigest, Leave, TypeInv, TypeOK
    <3>3. SerialAt(p)' /\ OneTerminalArtifact'
      BY <3>1, <3>2 DEF SerialAt, Attempting, OneTerminalArtifact
    <3>. QED  BY <3>1, <3>2, <3>3, SerialAlone
  <2>26. CASE ChildEnds(p)
    BY <2>26, SerialElsewhere
    DEF ChildEnds, Goto, Leave, Return, SerialInv, SerialAt, Attempting, pairVars, localVars,
        TypeInv, TypeOK
  <2>27. CASE ChildThrows(p)
    BY <2>27, SerialElsewhere
    DEF ChildThrows, Goto, Leave, Return, SerialInv, SerialAt, Attempting, pairVars, localVars,
        TypeInv, TypeOK
  <2>28. CASE LateChild(p)
    BY <2>28, SerialElsewhere
    DEF LateChild, Goto, Leave, Return, SerialInv, SerialAt, Attempting, pairVars, localVars,
        TypeInv, TypeOK
  <2>29. CASE WriteFails(p)
    BY <2>29, SerialElsewhere
    DEF WriteFails, Goto, Leave, Return, SerialInv, SerialAt, Attempting, pairVars, localVars,
        TypeInv, TypeOK
  <2>30. CASE Exit(p)
    BY <2>30, SerialElsewhere
    DEF Exit, Goto, Leave, Return, SerialInv, SerialAt, Attempting, pairVars, localVars,
        TypeInv, TypeOK
  <2>31. CASE Crash(p)
    BY <2>31, SerialElsewhere
    DEF Crash, Goto, Leave, Return, SerialInv, SerialAt, Attempting, pairVars, localVars,
        TypeInv, TypeOK
  <2>. QED
    BY <1>1, <2>1, <2>2, <2>3, <2>4, <2>5, <2>6, <2>7, <2>8, <2>9, <2>10, <2>11, <2>12, <2>13, <2>14, <2>15, <2>16, <2>17, <2>18, <2>19, <2>20, <2>21, <2>22, <2>23, <2>24, <2>25, <2>26, <2>27, <2>28, <2>29, <2>30, <2>31
    DEF Call, Locking, Claiming, Children, Writing
<1>2. CASE UNCHANGED vars
  <2>1. UNCHANGED <<claim, attempt, final, failure, pc, index>>
    BY <1>2 DEF vars, pairVars, localVars
  <2>. QED
    BY <2>1 DEF SerialInv, OneAtATime, Active, SerialAt, OneTerminalArtifact
<1>. QED  BY <1>1, <1>2 DEF Next, Terminated

-----------------------------------------------------------------------------
(* Theorems *)

\* Every state of a session satisfies the invariant.
THEOREM SessionInvariant == Spec => []SessionInv
<1>1. SessionInv /\ [Next]_vars => SessionInv'
  BY TypeStep, ClaimStep, ChainStep, SerialStep DEF SessionInv
<1>. QED  BY <1>1, InitSessionInv, PTL DEF Spec

\* The variables of a session keep their types; the index of an attempt stays within the budget.
THEOREM SessionTypes == Spec => []TypeOK
<1>1. SessionInv => TypeOK
  BY DEF SessionInv, TypeInv
<1>. QED  BY <1>1, SessionInvariant, PTL

\* However many calls race for a stale lock and crash, no child is run twice: who
\* creates a claim is the only one to run its child (claimAttempt).
THEOREM ChildrenStartOnce == Spec => []ChildStartedOnce
<1>1. SessionInv => ChildStartedOnce
  BY DEF SessionInv, ClaimInv, StartedAt, ChildStartedOnce
<1>. QED  BY <1>1, SessionInvariant, PTL

\* Another child is claimed only while every budget lasts, and after attempts that are
\* recorded and due for a retry, overlapping calls or not (nextTransition, claimAttempt).
THEOREM RetriesStayWithinBudget == Spec => []RetryWithinBudget
<1>1. ASSUME SessionInv, NEW i \in Index, claim[i] # "absent"
      PROVE  LET n == i - 1
                 before == [k \in 1..n |-> attempt[k].outcome]
             IN /\ \A k \in 1..n :
                     /\ claim[k] = "complete" /\ attempt[k].pair = "complete"
                     /\ RouteReason(before[k]) \in RetryRoutes
                /\ n > 0 =>
                     /\ Reported(before, n, "tokens") /\ ~Exhausted(before, n, "tokens", TokenBudget)
                     /\ ~Exhausted(before, n, "wall", WallBudget)
                     /\ CostBudget # Missing =>
                           Reported(before, n, "cost") /\ ~Exhausted(before, n, "cost", CostBudget)
  <2>. DEFINE n == i - 1
              history(k) == [j \in 1..k |-> attempt[j].outcome]
  <2>1. n \in Nat /\ \A k \in 1..n : k \in Index /\ k < i
    BY <1>1, SessionAssumption DEF Index
  <2>2. \A k \in 1..n : /\ claim[k] = "complete" /\ attempt[k].pair = "complete"
                        /\ NextTransition(history(k), k) = "retry"
    BY <1>1, <2>1 DEF SessionInv, ChainInv, LinkAt, Before
  <2>3. ASSUME NEW k \in 1..n
        PROVE  RouteReason(history(n)[k]) \in RetryRoutes
    <3>1. RouteReason(history(k)[k]) \in RetryRoutes
      BY <2>2, RetryMeans
    <3>2. history(k)[k] = history(n)[k]
      BY <2>1
    <3>. QED  BY <3>1, <3>2
  <2>4. ASSUME n > 0
        PROVE  /\ Reported(history(n), n, "tokens") /\ ~Exhausted(history(n), n, "tokens", TokenBudget)
               /\ ~Exhausted(history(n), n, "wall", WallBudget)
               /\ CostBudget # Missing =>
                     Reported(history(n), n, "cost") /\ ~Exhausted(history(n), n, "cost", CostBudget)
    <3>1. n \in 1..n
      BY <2>1, <2>4
    <3>2. NextTransition(history(n), n) = "retry"
      BY <2>2, <3>1
    <3>. QED  BY <3>2, RetryMeans
  <2>. QED  BY <2>2, <2>3, <2>4
<1>2. SessionInv => RetryWithinBudget
  BY <1>1 DEF RetryWithinBudget
<1>. QED  BY <1>2, SessionInvariant, PTL

\* A final session is one that a reader accepts, whichever of several calls wrote it
\* (finalize, readCompletedSession).
THEOREM FinalsAreBacked == Spec => []FinalIsBacked
<1>1. ASSUME SessionInv, final.pair # "absent"
      PROVE  Backed(final.reason)
  <2>1. PICK n \in Index : /\ attempt[n].pair = "complete"
                           /\ attempt[n].next = final.reason /\ final.reason # "retry"
    BY <1>1 DEF SessionInv, ChainInv, FinalAt
  <2>2. n \in Nat /\ n > 0 /\ \A k \in 1..n : k \in Index
    BY <2>1, SessionAssumption DEF Index
  <2>3. \A k \in Index : k <= n => claim[k] = "complete" /\ attempt[k].pair = "complete"
    <3>1. claim[n] = "complete" /\ Before(n)
      BY <1>1, <2>1 DEF SessionInv, ChainInv, LinkAt
    <3>2. \A k \in Index : k <= n => k < n \/ k = n
      BY <2>1 DEF Index
    <3>. QED  BY <2>1, <3>1, <3>2 DEF Before
  <2>4. \A k \in Index : k > n => claim[k] = "absent" /\ attempt[k].pair = "absent"
    <3>1. ASSUME NEW k \in Index, k > n PROVE claim[k] = "absent"
      <4>1. n < k
        BY <2>2, <3>1 DEF Index
      <4>. QED  BY <1>1, <2>1, <4>1 DEF SessionInv, ChainInv, LinkAt, Before
    <3>. QED  BY <1>1, <3>1 DEF SessionInv, ChainInv, LinkAt
  <2>5. Recorded = 1..n /\ Claimed = 1..n
    <3>1. \A k \in Index : k \in 1..n <=> k <= n
      BY <2>2 DEF Index
    <3>2. \A k \in Index : k <= n \/ k > n
      BY <2>2 DEF Index
    <3>. QED  BY <2>2, <2>3, <2>4, <3>1, <3>2 DEF Recorded, Claimed
  <2>6. Cardinality(Recorded) = n
    BY <2>2, <2>5, FS_Interval
  <2>7. RecordsReadable(n)
    <3>1. \A k \in Index : k <= n \/ k > n
      BY <2>2 DEF Index
    <3>. QED  BY <2>3, <2>4, <2>5, <3>1 DEF RecordsReadable
  <2>. QED  BY <2>1, <2>2, <2>5, <2>6, <2>7 DEF Backed
<1>2. SessionInv => FinalIsBacked
  BY <1>1 DEF FinalIsBacked
<1>. QED  BY <1>2, SessionInvariant, PTL

\* Calls that do not overlap leave one terminal artifact, and a failure names the claim
\* that has no attempt (runAttemptWithinDeadline, finalize).
THEOREM SerialSessionsEndOnce == Spec => [](~Overlap => OneTerminalArtifact)
<1>1. SessionInv => (~Overlap => OneTerminalArtifact)
  BY DEF SessionInv, SerialInv
<1>. QED  BY <1>1, SessionInvariant, PTL

=============================================================================
