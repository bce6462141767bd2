---------------------- MODULE RunOrchestrator_proofs -----------------------
(* Theorems about RunOrchestrator, for any number of calls and environment
   steps: the types, what exclusive links and their order guarantee when calls overlap,
   and that calls which do not overlap produce verified receipts only. *)
EXTENDS RunOrchestrator, TLAPS

-----------------------------------------------------------------------------
(* Types. A state is written only when an advance has computed it, and its
   lifecycle is one the call knows how to go on from. *)

Writing == {"write_body", "write_digest"}
Written == {"draft", "planned", "executing", "verified", "receipted", "rejected"}

PendingAt(p) == pc[p] \in Writing => pending[p] \in RunState /\ pending[p].lifecycle \in Written

TypeInv == TypeOK /\ \A p \in Procs : PendingAt(p)

(* Evidence. Links never overwrite, so that what a name holds once it holds
   for good; what is needed is that a receipt is linked after the files it covers, and
   that only who linked, or read, a whole bundle writes its receipt into the state. *)

\* p has linked its whole bundle and will not link again.
PastLinking(p) ==
    \/ pc[p] \in {"bind", "finish", "returned", "exited"}
    \/ pc[p] \in Writing /\ pending[p].lifecycle \in {"verified", "receipted"}

LinkedInOrder(p) ==
    /\ evidence["receipt"] = p => evidence["verification"] = p /\ evidence["result"] = p
    /\ evidence["digest"] = p => evidence["receipt"] = p /\ PastLinking(p)

BoundAt(p) == pc[p] = "bind" => evidence = BundleOf(p)

Backed(p) ==
    /\ state.receipt = p => evidence = BundleOf(p)
    /\ \A q \in Procs : pending[q].receipt = p => evidence = BundleOf(p)

BundleInv == \A p \in Procs : LinkedInOrder(p) /\ BoundAt(p) /\ Backed(p)

(* Calls one after the other: what the one running call has put into the
   workspace is what it checks, and what its verifier passes. *)

Active(p) == pc[p] \notin {"idle", "exited"}

OneAtATime == \A p, q \in Procs : Active(p) /\ Active(q) => p = q

WorkspaceAt(p) ==
    /\ pc[p] = "check_result" => result[p] = CandidateOf[p]
    /\ pc[p] \in {"check_executed", "verify"} => workspace = CandidateTree(p)
    /\ pc[p] \in {"check_verified", "check_source", "link"} => passed[p] = CandidateTree(p)

ReceiptAt(p) ==
    evidence["receipt"] = p =>
        passed[p] = CandidateTree(p) /\ (pc[p] = "link" \/ PastLinking(p))

SerialInv == ~Overlap => OneAtATime /\ \A p \in Procs : WorkspaceAt(p) /\ ReceiptAt(p)

RunInv == TypeInv /\ BundleInv /\ SerialInv

-----------------------------------------------------------------------------

\* The run that does not exist yet satisfies the types, the evidence and the serial invariant.
LEMMA InitRunInv == Init => RunInv
<1> SUFFICES ASSUME Init PROVE RunInv  OBVIOUS
<1>1. TypeInv
  BY RunAssumption
  DEF Init, TypeInv, TypeOK, PendingAt, Writing, NoState, NoWorkspace, NoBundle, BundleOf,
      Labels, Outcomes
<1>2. BundleInv
  BY RunAssumption
  DEF Init, BundleInv, LinkedInOrder, BoundAt, Backed, NoState, NoBundle, BundleOf,
      EvidenceFiles
<1>3. SerialInv
  BY RunAssumption
  DEF Init, SerialInv, OneAtATime, Active, WorkspaceAt, ReceiptAt, NoBundle, BundleOf,
      EvidenceFiles
<1>. QED  BY <1>1, <1>2, <1>3 DEF RunInv

\* Moving on without a pending write.
LEMMA TypeMove ==
  ASSUME TypeInv, NEW p \in Procs, NEW to \in Labels \ Writing, Goto(p, to), UNCHANGED pending
  PROVE  pc' \in [Procs -> Labels] /\ outcome' \in [Procs -> Outcomes] /\ \A q \in Procs : PendingAt(q)'
  BY DEF TypeInv, TypeOK, Goto, PendingAt, Writing

\* Ending the call.
LEMMA TypeReturn ==
  ASSUME TypeInv, NEW p \in Procs, NEW how \in Outcomes, Return(p, how), UNCHANGED pending
  PROVE  pc' \in [Procs -> Labels] /\ outcome' \in [Procs -> Outcomes] /\ \A q \in Procs : PendingAt(q)'
  BY DEF TypeInv, TypeOK, Return, PendingAt, Writing, Labels

\* Beginning to write a state.
LEMMA TypeAdvance ==
  ASSUME TypeInv, NEW p \in Procs, NEW to \in Written, NEW receipt \in Procs \cup {NoProc},
         BeginAdvance(p, to, receipt)
  PROVE  /\ pc' \in [Procs -> Labels] /\ outcome' \in [Procs -> Outcomes]
         /\ pending' \in [Procs -> RunState \cup {NoState}] /\ \A q \in Procs : PendingAt(q)'
  BY
  DEF TypeInv, TypeOK, BeginAdvance, Goto, PendingAt, Writing, Written, Labels, RunState,
      LifecycleStates

\* Every step keeps the types.
LEMMA TypeStep ==
  ASSUME TypeInv, [Next]_vars
  PROVE  TypeInv'
<1>1. ASSUME NEW p \in Procs,
             Run(p) \/ Resume(p) \/ Call(p) \/ RecordingFails(p) \/ Exit(p) \/ Crash(p)
      PROVE  TypeInv'
  <2>1. CASE Run(p)
    BY <2>1, TypeMove, TypeReturn
    DEF Run, TypeInv, TypeOK, diskVars, stateVars, envVars, Labels, Writing, Outcomes
  <2>2. CASE Resume(p)
    BY <2>2, TypeMove, TypeReturn, RunAssumption
    DEF Resume, TypeInv, TypeOK, diskVars, stateVars, envVars, Labels, Writing, Outcomes,
        ContextLoads, StateReadable, NoState
  <2>3. CASE WriteBody(p)
    <3>1. pending[p] \in RunState
      BY <2>3 DEF WriteBody, TypeInv, PendingAt, Writing
    <3>. QED
      BY <2>3, <3>1
      DEF WriteBody, Goto, PendingAt, Labels, TypeInv, TypeOK, diskVars, stateVars,
          envVars, Writing
  <2>4. CASE WriteDigest(p)
    <3>1. pending[p] \in RunState /\ pending[p].lifecycle \in Written
      BY <2>4 DEF WriteDigest, TypeInv, PendingAt, Writing
    <3>2. Continuation[pending[p].lifecycle] \in Labels \ Writing
      BY <3>1 DEF Continuation, Written, Labels, Writing
    <3>3. pc' \in [Procs -> Labels] /\ \A q \in Procs : PendingAt(q)'
      BY <2>4, <3>2 DEF WriteDigest, PendingAt, Writing, TypeInv, TypeOK
    <3>. QED
      BY <2>4, <3>1, <3>3
      DEF WriteDigest, Outcomes, TypeInv, TypeOK, diskVars, stateVars, envVars
  <2>5. CASE FreezeInputs(p)
    BY <2>5, TypeAdvance
    DEF FreezeInputs, TypeInv, TypeOK, diskVars, stateVars, envVars, Written
  <2>6. CASE Plan(p)
    BY <2>6, TypeAdvance, TypeReturn
    DEF Plan, TypeInv, TypeOK, diskVars, stateVars, envVars, Written, Outcomes
  <2>7. CASE Inspect(p)
    BY <2>7, TypeMove, TypeReturn
    DEF Inspect, TypeInv, TypeOK, diskVars, stateVars, envVars, Labels, Writing, Outcomes
  <2>8. CASE RemoveWorkspace(p)
    BY <2>8, TypeMove
    DEF RemoveWorkspace, TypeInv, TypeOK, diskVars, stateVars, envVars, Labels, Writing
  <2>9. CASE MakeWorkspace(p)
    BY <2>9, TypeMove, TypeReturn
    DEF MakeWorkspace, TypeInv, TypeOK, diskVars, stateVars, envVars, Labels, Writing,
        Outcomes, EmptyWorkspace, Tree, SourceBytes
  <2>10. CASE Copy(p)
    BY <2>10, TypeMove, TypeReturn
    DEF Copy, TypeInv, TypeOK, diskVars, stateVars, envVars, Labels, Writing, Outcomes,
        SourceTree, Tree, SourceBytes
  <2>11. CASE CheckCopy(p)
    BY <2>11, TypeMove, TypeReturn
    DEF CheckCopy, TypeInv, TypeOK, diskVars, stateVars, envVars, Labels, Writing, Outcomes
  <2>12. CASE Execute(p)
    <3>1. workspace' \in Tree \cup {NoWorkspace}
      <4>1. CASE workspace # NoWorkspace /\ workspace' # workspace
        <5>1. workspace \in Tree
          BY <4>1 DEF TypeInv, TypeOK
        <5>. QED
          BY <2>12, <4>1, <5>1, RunAssumption DEF Execute, Touched, Tree, SourceBytes
      <4>2. CASE workspace = NoWorkspace \/ workspace' = workspace
        BY <2>12, <4>2 DEF Execute, TypeInv, TypeOK
      <4>. QED  BY <4>1, <4>2
    <3>2. result' \in [Procs -> Candidates \cup {"none"}] /\ UNCHANGED passed
      BY <2>12, RunAssumption DEF Execute, TypeInv, TypeOK
    <3>3. pc' \in [Procs -> Labels] /\ outcome' \in [Procs -> Outcomes] /\ \A q \in Procs : PendingAt(q)'
      BY <2>12, TypeMove DEF Execute, Labels, Writing
    <3>. QED
      BY <2>12, <3>1, <3>2, <3>3 DEF Execute, TypeInv, TypeOK, stateVars, envVars
  <2>13. CASE CheckResult(p)
    BY <2>13, TypeMove
    DEF CheckResult, TypeInv, TypeOK, diskVars, stateVars, envVars, Labels, Writing
  <2>14. CASE CheckExecuted(p)
    BY <2>14, TypeMove
    DEF CheckExecuted, TypeInv, TypeOK, diskVars, stateVars, envVars, Labels, Writing
  <2>15. CASE Verify(p)
    <3>1. workspace' \in Tree \cup {NoWorkspace}
      <4>1. CASE workspace # NoWorkspace /\ workspace' # workspace
        <5>1. workspace \in Tree
          BY <4>1 DEF TypeInv, TypeOK
        <5>. QED
          BY <2>15, <4>1, <5>1, RunAssumption DEF Verify, Touched, Tree, SourceBytes
      <4>2. CASE workspace = NoWorkspace \/ workspace' = workspace
        BY <2>15, <4>2 DEF Verify, TypeInv, TypeOK
      <4>. QED  BY <4>1, <4>2
    <3>2. passed' \in [Procs -> Tree \cup {NoWorkspace}] /\ UNCHANGED result
      BY <2>15 DEF Verify, TypeInv, TypeOK
    <3>3. pc' \in [Procs -> Labels] /\ outcome' \in [Procs -> Outcomes] /\ \A q \in Procs : PendingAt(q)'
      BY <2>15, TypeMove DEF Verify, Labels, Writing
    <3>. QED
      BY <2>15, <3>1, <3>2, <3>3 DEF Verify, TypeInv, TypeOK, stateVars, envVars
  <2>16. CASE CheckVerified(p)
    BY <2>16, TypeMove
    DEF CheckVerified, TypeInv, TypeOK, diskVars, stateVars, envVars, Labels, Writing
  <2>17. CASE CheckSource(p)
    BY <2>17, TypeMove
    DEF CheckSource, TypeInv, TypeOK, diskVars, stateVars, envVars, Labels, Writing
  <2>18. CASE LinkEvidence(p)
    BY <2>18, TypeMove, TypeReturn
    DEF LinkEvidence, TypeInv, TypeOK, diskVars, stateVars, envVars, Labels, Writing,
        Outcomes
  <2>19. CASE Bind(p)
    BY <2>19, TypeAdvance, TypeReturn
    DEF Bind, TypeInv, TypeOK, diskVars, stateVars, envVars, Written, Outcomes
  <2>20. CASE Finish(p)
    BY <2>20, TypeAdvance, TypeReturn
    DEF Finish, TypeInv, TypeOK, diskVars, stateVars, envVars, Written, Outcomes, RunState,
        NoState
  <2>21. CASE RecordEvidence(p)
    BY <2>21, TypeMove
    DEF RecordEvidence, TypeInv, TypeOK, diskVars, stateVars, envVars, Labels, Writing,
        RecordAs
  <2>22. CASE RecordFailure(p)
    BY <2>22, TypeMove
    DEF RecordFailure, TypeInv, TypeOK, diskVars, stateVars, envVars, Labels, Writing
  <2>27. CASE RecordDigest(p)
    <3>1. /\ PairOf[pc[p]] \in Records
          /\ AfterPair[pc[p]] \in {"fail_record", "fail_verification", "reject"}
      BY <2>27 DEF RecordDigest, Pairing, PairOf, AfterPair, Records
    <3>2. AfterPair[pc[p]] \in Labels \ Writing
      BY <3>1 DEF Labels, Writing
    <3>. QED
      BY <2>27, <3>1, <3>2, TypeMove
      DEF RecordDigest, TypeInv, TypeOK, stateVars, envVars
  <2>23. CASE Reject(p)
    BY <2>23, TypeAdvance, TypeReturn
    DEF Reject, TypeInv, TypeOK, diskVars, stateVars, envVars, Written, Outcomes
  <2>24. CASE RecordingFails(p)
    BY <2>24, TypeMove
    DEF RecordingFails, TypeInv, TypeOK, diskVars, stateVars, envVars, Labels, Writing
  <2>25. CASE Exit(p)
    BY <2>25, TypeMove DEF Exit, TypeInv, TypeOK, diskVars, stateVars, envVars, Labels, Writing
  <2>26. CASE Crash(p)
    BY <2>26, TypeMove DEF Crash, TypeInv, TypeOK, diskVars, stateVars, envVars, Labels, Writing
  <2>. QED
    BY <1>1, <2>1, <2>2, <2>3, <2>4, <2>5, <2>6, <2>7, <2>8, <2>9, <2>10, <2>11, <2>12,
       <2>13, <2>14, <2>15, <2>16, <2>17, <2>18, <2>19, <2>20, <2>21, <2>22, <2>23, <2>24,
       <2>25, <2>26, <2>27
    DEF Call, Enter, Isolate, Prove, Publish, Fail
<1>2. CASE UserEdit
  BY <1>2 DEF UserEdit, PendingAt, TypeInv, TypeOK, diskVars, stateVars, envVars
<1>3. CASE UNCHANGED vars
  BY <1>3 DEF vars, PendingAt, TypeInv, TypeOK, diskVars, stateVars, envVars
<1>. QED  BY <1>1, <1>2, <1>3 DEF Next, Terminated

\* The variables of a run keep their types, whatever calls overlap (all of
\* runHarness and resumeHarness).
THEOREM RunTypeCorrectness == Spec => []TypeOK
<1>1. Init => TypeInv
  BY InitRunInv DEF RunInv
<1>2. TypeInv /\ [Next]_vars => TypeInv'
  BY TypeStep
<1>3. TypeInv => TypeOK
  BY DEF TypeInv
<1>. QED  BY <1>1, <1>2, <1>3, PTL DEF Spec

-----------------------------------------------------------------------------
(* Evidence *)

\* Moving on without touching evidence or state: nobody comes back to linking.
LEMMA QuietMove ==
  ASSUME TypeInv, BundleInv, NEW p \in Procs, NEW to \in Labels \ Writing,
         pc' = [pc EXCEPT ![p] = to], UNCHANGED <<evidence, pending, state>>,
         to # "bind",
         PastLinking(p) => to \in {"finish", "returned", "exited"}
  PROVE  BundleInv'
<1> SUFFICES ASSUME NEW q \in Procs PROVE LinkedInOrder(q)' /\ BoundAt(q)' /\ Backed(q)'
  BY DEF BundleInv
<1>1. pc'[q] = IF q = p THEN to ELSE pc[q]
  BY DEF TypeInv, TypeOK
<1>2. PastLinking(q) => PastLinking(q)'
  BY <1>1 DEF PastLinking
<1>. QED  BY <1>1, <1>2 DEF BundleInv, LinkedInOrder, BoundAt, Backed

\* Beginning to write a state: its receipt, if it has one, is that of a whole bundle.
LEMMA QuietAdvance ==
  ASSUME TypeInv, BundleInv, NEW p \in Procs, NEW to, NEW receipt,
         BeginAdvance(p, to, receipt), UNCHANGED <<evidence, state>>,
         receipt \in Procs => evidence = BundleOf(receipt),
         PastLinking(p) => to \in {"verified", "receipted"}
  PROVE  BundleInv'
<1> SUFFICES ASSUME NEW q \in Procs PROVE LinkedInOrder(q)' /\ BoundAt(q)' /\ Backed(q)'
  BY DEF BundleInv
<1>1. pc'[q] = IF q = p THEN "write_body" ELSE pc[q]
  BY DEF TypeInv, TypeOK, BeginAdvance, Goto
<1>2. \A r \in Procs : pending'[r] = IF r = p THEN [lifecycle |-> to, receipt |-> receipt] ELSE pending[r]
  BY DEF TypeInv, TypeOK, BeginAdvance
<1>3. PastLinking(q) => PastLinking(q)'
  BY <1>1, <1>2 DEF PastLinking, Writing
<1>. QED  BY <1>1, <1>2, <1>3 DEF BundleInv, LinkedInOrder, BoundAt, Backed

\* While some file is not p's, the next link is well defined.
LEMMA NextLinkExists ==
  ASSUME NEW p \in Procs, \E f \in EvidenceFiles : evidence[f] # p
  PROVE  /\ NextLink(p) \in EvidenceFiles /\ evidence[NextLink(p)] # p
         /\ \A g \in EvidenceFiles : LinkOrder[g] < LinkOrder[NextLink(p)] => evidence[g] = p
<1>1. \E f \in EvidenceFiles :
         /\ evidence[f] # p
         /\ \A g \in EvidenceFiles : LinkOrder[g] < LinkOrder[f] => evidence[g] = p
  BY DEF EvidenceFiles, LinkOrder
<1>. QED  BY <1>1 DEF NextLink

\* One more link keeps the files of a bundle together.
LEMMA LinkKeepsBundle ==
  ASSUME TypeInv, BundleInv, NEW p \in Procs, LinkEvidence(p)
  PROVE  BundleInv'
<1> DEFINE f == NextLink(p)
<1>1. pc[p] = "link" /\ ~PastLinking(p) /\ evidence["digest"] # p
  BY DEF LinkEvidence, PastLinking, Writing, BundleInv, LinkedInOrder
<1>2. /\ f \in EvidenceFiles /\ evidence[f] # p
      /\ \A g \in EvidenceFiles : LinkOrder[g] < LinkOrder[f] => evidence[g] = p
  BY <1>1, NextLinkExists DEF EvidenceFiles
<1>3. CASE evidence[f] # NoProc
  BY <1>1, <1>3, QuietMove DEF LinkEvidence, Return, Labels, Writing, stateVars
<1>4. CASE evidence[f] = NoProc
  <2> SUFFICES ASSUME NEW q \in Procs PROVE LinkedInOrder(q)' /\ BoundAt(q)' /\ Backed(q)'
    BY DEF BundleInv
  <2>1. \A g \in EvidenceFiles : evidence'[g] = IF g = f THEN p ELSE evidence[g]
    BY <1>2, <1>4 DEF LinkEvidence, TypeInv, TypeOK
  <2>2. pc'[q] = IF q # p THEN pc[q] ELSE IF f = "digest" THEN "bind" ELSE "link"
    BY <1>4 DEF LinkEvidence, Goto, TypeInv, TypeOK
  <2>3. UNCHANGED <<pending, state>>
    BY DEF LinkEvidence, stateVars
  <2>4. evidence # BundleOf(q)
    BY <1>2, <1>4, RunAssumption DEF BundleOf
  <2>5. f = "digest" => evidence' = BundleOf(p)
    BY <1>2, <1>4, <2>1 DEF LinkEvidence, TypeInv, TypeOK, BundleOf, EvidenceFiles, LinkOrder
  <2>6. PastLinking(q) => PastLinking(q)'
    BY <1>1, <2>2, <2>3 DEF PastLinking
  <2>7. evidence'["digest"] = p => f = "digest"
    BY <1>1, <2>1 DEF EvidenceFiles
  <2>8. LinkedInOrder(q)'
    <3>1. CASE q = p
      BY <3>1, <1>2, <1>4, <2>1, <2>2, <2>7, RunAssumption
      DEF BundleInv, LinkedInOrder, PastLinking, EvidenceFiles, LinkOrder
    <3>2. CASE q # p
      BY <3>2, <1>4, <2>1, <2>6, RunAssumption DEF BundleInv, LinkedInOrder, EvidenceFiles
    <3>. QED  BY <3>1, <3>2
  <2>9. BoundAt(q)'
    BY <1>1, <2>2, <2>4, <2>5 DEF BundleInv, BoundAt
  <2>10. Backed(q)'
    BY <2>3, <2>4 DEF BundleInv, Backed
  <2>. QED  BY <2>8, <2>9, <2>10
<1>. QED  BY <1>3, <1>4

\* A failure record takes names of the bundle that are free.
LEMMA RecordKeepsBundle ==
  ASSUME TypeInv, BundleInv, NEW p \in Procs, NEW file \in {"verification", "result"},
         NEW next \in Labels \ (Writing \cup {"bind"}),
         RecordAs(p, file, next), ~PastLinking(p), UNCHANGED <<pending, state>>
  PROVE  BundleInv'
<1>1. CASE evidence[file] # NoProc
  BY <1>1, QuietMove DEF RecordAs, Goto, Labels, Writing
<1>2. CASE evidence[file] = NoProc
  <2> SUFFICES ASSUME NEW q \in Procs PROVE LinkedInOrder(q)' /\ BoundAt(q)' /\ Backed(q)'
    BY DEF BundleInv
  <2>1. \A g \in EvidenceFiles : evidence'[g] = IF g = file THEN p ELSE evidence[g]
    BY <1>2 DEF RecordAs, TypeInv, TypeOK
  <2>2. pc'[q] = IF q = p THEN next ELSE pc[q]
    BY <1>2 DEF RecordAs, Goto, TypeInv, TypeOK
  <2>3. evidence # BundleOf(q)
    BY <1>2, RunAssumption DEF BundleOf, EvidenceFiles
  <2>4. PastLinking(q) => PastLinking(q)'
    BY <2>2 DEF PastLinking
  <2>. QED  BY <1>2, <2>1, <2>2, <2>3, <2>4, RunAssumption
            DEF BundleInv, LinkedInOrder, BoundAt, Backed, EvidenceFiles
<1>. QED  BY <1>1, <1>2

\* Every step keeps bundles in one hand and states backed by them.
LEMMA BundleStep ==
  ASSUME TypeInv, BundleInv, [Next]_vars
  PROVE  BundleInv'
<1>1. ASSUME NEW p \in Procs,
             Run(p) \/ Resume(p) \/ Call(p) \/ RecordingFails(p) \/ Exit(p) \/ Crash(p)
      PROVE  BundleInv'
  <2>1. CASE Run(p)
    BY <2>1, QuietMove
    DEF Run, MayStart, Goto, Return, Labels, Writing, PastLinking, diskVars, stateVars
  <2>2. CASE Resume(p)
    BY <2>2, QuietMove
    DEF Resume, MayStart, Goto, Return, Labels, Writing, PastLinking, diskVars, stateVars
  <2>3. CASE WriteBody(p)
    <3> SUFFICES ASSUME NEW q \in Procs PROVE LinkedInOrder(q)' /\ BoundAt(q)' /\ Backed(q)'
      BY DEF BundleInv
    <3>1. pc'[q] = IF q = p THEN "write_digest" ELSE pc[q]
      BY <2>3 DEF WriteBody, Goto, TypeInv, TypeOK
    <3>2. PastLinking(q) => PastLinking(q)'
      BY <2>3, <3>1 DEF WriteBody, PastLinking, Writing
    <3>. QED
      BY <2>3, <3>1, <3>2 DEF WriteBody, BundleInv, LinkedInOrder, BoundAt, Backed
  <2>4. CASE WriteDigest(p)
    <3>1. pending[p].lifecycle \in Written
      BY <2>4 DEF WriteDigest, TypeInv, PendingAt, Writing
    <3>2. Continuation[pending[p].lifecycle] \in Labels \ (Writing \cup {"bind"})
      BY <3>1 DEF Continuation, Written, Labels, Writing
    <3>3. PastLinking(p) => Continuation[pending[p].lifecycle] \in {"finish", "returned", "exited"}
      BY <2>4 DEF WriteDigest, PastLinking, Continuation
    <3>. QED
      BY <2>4, <3>2, <3>3, QuietMove DEF WriteDigest
  <2>5. CASE FreezeInputs(p)
    BY <2>5, QuietAdvance, RunAssumption
    DEF FreezeInputs, PastLinking, Writing, diskVars, stateVars
  <2>6. CASE Plan(p)
    BY <2>6, QuietAdvance, QuietMove, RunAssumption
    DEF Plan, Return, Labels, PastLinking, Writing, diskVars, stateVars
  <2>7. CASE Inspect(p)
    BY <2>7, QuietMove
    DEF Inspect, Goto, Return, Labels, Writing, PastLinking, diskVars, stateVars
  <2>8. CASE RemoveWorkspace(p)
    BY <2>8, QuietMove
    DEF RemoveWorkspace, Goto, Return, Labels, Writing, PastLinking, diskVars, stateVars
  <2>9. CASE MakeWorkspace(p)
    BY <2>9, QuietMove
    DEF MakeWorkspace, Goto, Return, Labels, Writing, PastLinking, diskVars, stateVars
  <2>10. CASE Copy(p)
    BY <2>10, QuietMove
    DEF Copy, Goto, Return, Labels, Writing, PastLinking, diskVars, stateVars
  <2>11. CASE CheckCopy(p)
    BY <2>11, QuietMove
    DEF CheckCopy, Goto, Return, Labels, Writing, PastLinking, diskVars, stateVars
  <2>12. CASE Execute(p)
    BY <2>12, QuietMove
    DEF Execute, Goto, Return, Labels, Writing, PastLinking, diskVars, stateVars
  <2>13. CASE CheckResult(p)
    BY <2>13, QuietMove
    DEF CheckResult, Goto, Return, Labels, Writing, PastLinking, diskVars, stateVars
  <2>14. CASE CheckExecuted(p)
    BY <2>14, QuietMove
    DEF CheckExecuted, Goto, Return, Labels, Writing, PastLinking, diskVars, stateVars
  <2>15. CASE Verify(p)
    BY <2>15, QuietMove
    DEF Verify, Goto, Return, Labels, Writing, PastLinking, diskVars, stateVars
  <2>16. CASE CheckVerified(p)
    BY <2>16, QuietMove
    DEF CheckVerified, Goto, Return, Labels, Writing, PastLinking, diskVars, stateVars
  <2>17. CASE CheckSource(p)
    BY <2>17, QuietMove
    DEF CheckSource, Goto, Return, Labels, Writing, PastLinking, diskVars, stateVars
  <2>18. CASE LinkEvidence(p)
    BY <2>18, LinkKeepsBundle
  <2>19. CASE Bind(p)
    <3>1. evidence = BundleOf(p)
      BY <2>19 DEF Bind, BundleInv, BoundAt
    <3>. QED
      BY <2>19, <3>1, QuietAdvance, QuietMove
      DEF Bind, Return, Labels, Writing, diskVars, stateVars
  <2>20. CASE Finish(p)
    BY <2>20, QuietAdvance, QuietMove DEF Finish, Return, Labels, Writing, diskVars, stateVars
  <2>21. CASE RecordEvidence(p)
    BY <2>21, RecordKeepsBundle
    DEF RecordEvidence, Labels, Writing, PastLinking, diskVars, stateVars
  <2>22. CASE RecordFailure(p)
    BY <2>22, QuietMove
    DEF RecordFailure, Goto, Return, Labels, Writing, PastLinking, diskVars, stateVars
  <2>27. CASE RecordDigest(p)
    <3>1. AfterPair[pc[p]] \in Labels \ (Writing \cup {"bind"}) /\ ~PastLinking(p)
      BY <2>27 DEF RecordDigest, Pairing, PairOf, AfterPair, Labels, Writing, PastLinking
    <3>. QED
      BY <2>27, <3>1, QuietMove DEF RecordDigest, Goto, stateVars
  <2>23. CASE Reject(p)
    BY <2>23, QuietAdvance, QuietMove, RunAssumption
    DEF Reject, Return, Labels, PastLinking, Writing, diskVars, stateVars
  <2>24. CASE RecordingFails(p)
    BY <2>24, QuietMove
    DEF RecordingFails, Recording, Pairing, PairOf, Goto, Return, Labels, Writing,
        PastLinking, diskVars, stateVars
  <2>25. CASE Exit(p)
    BY <2>25, QuietMove
    DEF Exit, Goto, Return, Labels, Writing, PastLinking, diskVars, stateVars
  <2>26. CASE Crash(p)
    BY <2>26, QuietMove
    DEF Crash, Goto, Return, Labels, Writing, PastLinking, diskVars, stateVars
  <2>. QED
    BY <1>1, <2>1, <2>2, <2>3, <2>4, <2>5, <2>6, <2>7, <2>8, <2>9, <2>10, <2>11, <2>12,
       <2>13, <2>14, <2>15, <2>16, <2>17, <2>18, <2>19, <2>20, <2>21, <2>22, <2>23, <2>24,
       <2>25, <2>26, <2>27
    DEF Call, Enter, Isolate, Prove, Publish, Fail
<1>2. CASE UserEdit \/ UNCHANGED vars
  BY <1>2
  DEF UserEdit, vars, diskVars, stateVars, BundleInv, LinkedInOrder, BoundAt, Backed,
      PastLinking
<1>. QED  BY <1>1, <1>2 DEF Next, Terminated

\* A receipt covers the verification and the result of its own call, however many
\* calls link bundles and failure records at once (writeEvidenceBundle,
\* writeFailedRunEvidence).
THEOREM BundlesAreConsistent == Spec => []BundleIsConsistent
<1>1. Init => TypeInv /\ BundleInv
  BY InitRunInv DEF RunInv
<1>2. TypeInv /\ BundleInv /\ [Next]_vars => (TypeInv /\ BundleInv)'
  BY TypeStep, BundleStep
<1>3. TypeInv /\ BundleInv => BundleIsConsistent
  BY DEF TypeInv, TypeOK, BundleInv, LinkedInOrder, BundleIsConsistent, EvidenceFiles
<1>. QED  BY <1>1, <1>2, <1>3, PTL DEF Spec

\* A state that names a receipt is backed by its complete bundle, which is what
\* apply takes for granted (executeRun, finishFromExistingEvidence).
THEOREM ReceiptsAreBacked == Spec => []ReceiptHasBundle
<1>1. Init => TypeInv /\ BundleInv
  BY InitRunInv DEF RunInv
<1>2. TypeInv /\ BundleInv /\ [Next]_vars => (TypeInv /\ BundleInv)'
  BY TypeStep, BundleStep
<1>3. TypeInv /\ BundleInv => ReceiptHasBundle
  BY DEF BundleInv, Backed, ReceiptHasBundle
<1>. QED  BY <1>1, <1>2, <1>3, PTL DEF Spec

\* No link and no failure record finds a free name once a bundle is whole, and who linked
\* it links no more.
LEMMA WholeBundleStays ==
  ASSUME TypeInv, BundleInv, [Next]_vars, NEW p \in Procs, evidence = BundleOf(p)
  PROVE  evidence' = evidence
<1>1. \A f \in EvidenceFiles : evidence[f] = p /\ evidence[f] # NoProc
  BY RunAssumption DEF BundleOf
<1>2. ASSUME NEW q \in Procs, LinkEvidence(q)
      PROVE  evidence' = evidence
  <2>1. q # p
    BY <1>1, <1>2
    DEF LinkEvidence, BundleInv, LinkedInOrder, PastLinking, Writing, EvidenceFiles
  <2>2. NextLink(q) \in EvidenceFiles
    BY <1>1, <2>1, NextLinkExists DEF EvidenceFiles
  <2>. QED  BY <1>1, <1>2, <2>2 DEF LinkEvidence
<1>3. ASSUME NEW q \in Procs, RecordEvidence(q)
      PROVE  evidence' = evidence
  BY <1>1, <1>3 DEF RecordEvidence, RecordAs, EvidenceFiles
<1>. QED
  BY <1>2, <1>3
  DEF Next, Run, Resume, Call, WriteBody, WriteDigest, Enter, FreezeInputs, Plan, Inspect,
      Isolate, RemoveWorkspace, MakeWorkspace, Copy, CheckCopy, Prove, Execute,
      CheckResult, CheckExecuted, Verify, CheckVerified, CheckSource, Publish,
      Bind, Finish, Fail, RecordFailure, RecordDigest, Reject, RecordingFails, Exit, Crash, UserEdit,
      Terminated, vars, diskVars, stateVars

\* A bundle that is whole once stays as it is, file by file, although calls that overlap go
\* on linking and recording under the same names: the evidence a state has named is what
\* review, approval and apply read later, even if a slower call takes that state back
\* (writeEvidenceBundle, writeFailedRunEvidence).
THEOREM WholeBundlesStay ==
  Spec => [][\A p \in Procs : evidence = BundleOf(p) => evidence' = evidence]_vars
<1>1. Init => TypeInv /\ BundleInv
  BY InitRunInv DEF RunInv
<1>2. TypeInv /\ BundleInv /\ [Next]_vars => (TypeInv /\ BundleInv)'
  BY TypeStep, BundleStep
<1>3. TypeInv /\ BundleInv /\ [Next]_vars =>
        [\A p \in Procs : evidence = BundleOf(p) => evidence' = evidence]_vars
  BY WholeBundleStays
<1>. QED  BY <1>1, <1>2, <1>3, PTL DEF Spec

-----------------------------------------------------------------------------
(* Calls one after the other *)

\* The running call moves on; what it has checked is described at its new location.
LEMMA SerialMove ==
  ASSUME TypeInv, SerialInv, ~Overlap, NEW p \in Procs, Active(p),
         NEW to \in Labels, pc' = [pc EXCEPT ![p] = to],
         \A q \in Procs : q # p =>
             /\ result'[q] = result[q] /\ passed'[q] = passed[q] /\ pending'[q] = pending[q]
             /\ evidence'["receipt"] = q => evidence["receipt"] = q,
         WorkspaceAt(p)', ReceiptAt(p)'
  PROVE  SerialInv'
<1>1. \A q \in Procs : pc'[q] = IF q = p THEN to ELSE pc[q]
  BY DEF TypeInv, TypeOK
<1>2. OneAtATime'
  BY <1>1 DEF SerialInv, OneAtATime, Active
<1>3. ASSUME NEW q \in Procs, q # p PROVE WorkspaceAt(q)' /\ ReceiptAt(q)'
  <2>1. pc'[q] = pc[q] /\ pc[q] \in {"idle", "exited"}
    BY <1>1, <1>3 DEF SerialInv, OneAtATime, Active
  <2>2. PastLinking(q)' <=> PastLinking(q)
    BY <2>1, <1>3 DEF PastLinking, Writing
  <2>. QED  BY <2>1, <2>2, <1>3 DEF SerialInv, WorkspaceAt, ReceiptAt, CandidateTree
<1>. QED  BY <1>2, <1>3 DEF SerialInv

\* A call starts while no other runs.
LEMMA SerialStart ==
  ASSUME TypeInv, SerialInv, ~Overlap, NEW p \in Procs, MayStart(p),
         NEW to \in Labels, pc' = [pc EXCEPT ![p] = to],
         UNCHANGED <<evidence, pending, result, passed>>,
         to \in {"freeze", "begin", "inspect", "finish", "returned"}
  PROVE  SerialInv'
<1>1. \A q \in Procs : pc'[q] = IF q = p THEN to ELSE pc[q]
  BY DEF TypeInv, TypeOK
<1>2. OneAtATime'
  BY <1>1 DEF SerialInv, OneAtATime, Active, MayStart
<1>3. ASSUME NEW q \in Procs PROVE WorkspaceAt(q)' /\ ReceiptAt(q)'
  <2>1. pc[q] \in {"idle", "exited"}
    BY <1>1 DEF MayStart
  <2>2. PastLinking(q) => PastLinking(q)'
    BY <2>1, <1>1 DEF PastLinking, Writing, MayStart
  <2>. QED  BY <2>1, <2>2, <1>1 DEF SerialInv, WorkspaceAt, ReceiptAt, CandidateTree, MayStart
<1>. QED  BY <1>2, <1>3 DEF SerialInv

\* A location behind which nothing has to be known of the workspace.
Plain == {"plan", "begin", "freeze", "inspect", "remove_workspace", "make_workspace", "copy",
          "check_copy", "execute", "bind", "finish", "write_body", "write_digest",
          "fail_result", "fail_verified_result", "fail_verification", "fail_record",
          "pair_result", "pair_verified_result", "pair_verification", "pair_failure",
          "reject", "returned", "exited"}

\* Moving to such a location with receipts as they are.
LEMMA SerialPlain ==
  ASSUME TypeInv, SerialInv, ~Overlap, NEW p \in Procs, Active(p),
         NEW to \in Plain, pc' = [pc EXCEPT ![p] = to],
         UNCHANGED <<result, passed>>, evidence'["receipt"] = evidence["receipt"],
         \A q \in Procs : q # p => pending'[q] = pending[q],
         pc[p] = "link" \/ PastLinking(p) => PastLinking(p)'
  PROVE  SerialInv'
<1>1. to \in Labels /\ pc'[p] = to
  BY DEF Plain, Labels, TypeInv, TypeOK
<1>2. WorkspaceAt(p)'
  BY <1>1 DEF WorkspaceAt, Plain
<1>3. ReceiptAt(p)'
  BY DEF SerialInv, ReceiptAt, CandidateTree
<1>. QED  BY <1>1, <1>2, <1>3, SerialMove

\* Every step of calls that do not overlap keeps what the running call has checked.
LEMMA SerialStep ==
  ASSUME TypeInv, BundleInv, SerialInv, [Next]_vars
  PROVE  SerialInv'
<1> SUFFICES ASSUME ~Overlap PROVE SerialInv'
  BY DEF SerialInv
<1>1. ASSUME NEW p \in Procs,
             Run(p) \/ Resume(p) \/ Call(p) \/ RecordingFails(p) \/ Exit(p) \/ Crash(p)
      PROVE  SerialInv'
  <2>1. CASE Run(p)
    BY <2>1, SerialStart DEF Run, Goto, Return, Labels
  <2>2. CASE Resume(p)
    BY <2>2, SerialStart DEF Resume, Goto, Return, Labels, diskVars
  <2>3. CASE WriteBody(p)
    BY <2>3, SerialPlain
    DEF WriteBody, Goto, Return, Active, Plain, PastLinking, Writing, diskVars,
       TypeInv, TypeOK
  <2>4. CASE WriteDigest(p)
    <3>1. pending[p].lifecycle \in Written
      BY <2>4 DEF WriteDigest, TypeInv, PendingAt, Writing
    <3>2. Continuation[pending[p].lifecycle] \in Plain
      BY <3>1 DEF Continuation, Written, Plain
    <3>3. PastLinking(p) => Continuation[pending[p].lifecycle] \in {"finish", "returned"}
      BY <2>4 DEF WriteDigest, PastLinking, Continuation
    <3>4. pc'[p] = Continuation[pending[p].lifecycle]
      BY <2>4 DEF WriteDigest, TypeInv, TypeOK
    <3>5. PastLinking(p) => PastLinking(p)'
      BY <3>3, <3>4 DEF PastLinking
    <3>. QED
      BY <2>4, <3>2, <3>5, SerialPlain DEF WriteDigest, Active
  <2>5. CASE FreezeInputs(p)
    BY <2>5, SerialPlain
    DEF FreezeInputs, BeginAdvance, Goto, Return, Active, Plain, PastLinking, Writing,
        diskVars, TypeInv, TypeOK
  <2>6. CASE Plan(p)
    BY <2>6, SerialPlain
    DEF Plan, BeginAdvance, Goto, Return, Active, Plain, PastLinking, Writing, diskVars,
        TypeInv, TypeOK
  <2>7. CASE Inspect(p)
    BY <2>7, SerialPlain
    DEF Inspect, Goto, Return, Active, Plain, PastLinking, Writing, diskVars
  <2>8. CASE RemoveWorkspace(p)
    BY <2>8, SerialPlain
    DEF RemoveWorkspace, Goto, Return, Active, Plain, PastLinking, Writing, diskVars
  <2>9. CASE MakeWorkspace(p)
    BY <2>9, SerialPlain
    DEF MakeWorkspace, Goto, Return, Active, Plain, PastLinking, Writing, diskVars
  <2>10. CASE Copy(p)
    BY <2>10, SerialPlain DEF Copy, Goto, Return, Active, Plain, PastLinking, Writing, diskVars
  <2>11. CASE CheckCopy(p)
    BY <2>11, SerialPlain
    DEF CheckCopy, Goto, Return, Active, Plain, PastLinking, Writing, diskVars
  <2>12. CASE Execute(p)
    <3>1. evidence["receipt"] # p
      BY <2>12 DEF Execute, SerialInv, ReceiptAt, PastLinking, Writing
    <3>2. CASE pc' = [pc EXCEPT ![p] = "check_result"]
      <4>1. pc'[p] = "check_result" /\ Active(p)
        BY <2>12, <3>2 DEF Execute, Active, TypeInv, TypeOK
      <4>2. WorkspaceAt(p)'
        BY <2>12, <4>1, RunAssumption
        DEF Execute, Goto, ResultMatches, SerialInv, WorkspaceAt, CandidateTree,
            diskVars, TypeInv, TypeOK
      <4>. QED
        BY <2>12, <3>1, <3>2, <4>1, <4>2, SerialMove
        DEF Execute, Goto, ReceiptAt, Labels, diskVars, TypeInv, TypeOK
    <3>3. CASE pc' # [pc EXCEPT ![p] = "check_result"]
      BY <2>12, <3>3, SerialPlain
      DEF Execute, Goto, Active, Plain, PastLinking, Writing, diskVars
    <3>. QED  BY <3>2, <3>3
  <2>13. CASE CheckResult(p)
    <3>1. evidence["receipt"] # p
      BY <2>13 DEF CheckResult, SerialInv, ReceiptAt, PastLinking, Writing
    <3>2. CASE pc' = [pc EXCEPT ![p] = "check_executed"]
      <4>1. pc'[p] = "check_executed" /\ Active(p)
        BY <2>13, <3>2 DEF CheckResult, Active, TypeInv, TypeOK
      <4>2. WorkspaceAt(p)'
        BY <2>13, <4>1, RunAssumption
        DEF CheckResult, Goto, ResultMatches, SerialInv, WorkspaceAt, CandidateTree,
            diskVars, TypeInv, TypeOK
      <4>. QED
        BY <2>13, <3>1, <3>2, <4>1, <4>2, SerialMove
        DEF CheckResult, Goto, ReceiptAt, Labels, diskVars, TypeInv, TypeOK
    <3>3. CASE pc' # [pc EXCEPT ![p] = "check_executed"]
      BY <2>13, <3>3, SerialPlain
      DEF CheckResult, Goto, Active, Plain, PastLinking, Writing, diskVars
    <3>. QED  BY <3>2, <3>3
  <2>14. CASE CheckExecuted(p)
    <3>1. evidence["receipt"] # p
      BY <2>14 DEF CheckExecuted, SerialInv, ReceiptAt, PastLinking, Writing
    <3>2. CASE pc' = [pc EXCEPT ![p] = "verify"]
      <4>1. pc'[p] = "verify" /\ Active(p)
        BY <2>14, <3>2 DEF CheckExecuted, Active, TypeInv, TypeOK
      <4>2. WorkspaceAt(p)'
        BY <2>14, <4>1, RunAssumption
        DEF CheckExecuted, Goto, ResultMatches, SerialInv, WorkspaceAt, CandidateTree,
            diskVars, TypeInv, TypeOK
      <4>. QED
        BY <2>14, <3>1, <3>2, <4>1, <4>2, SerialMove
        DEF CheckExecuted, Goto, ReceiptAt, Labels, diskVars, TypeInv, TypeOK
    <3>3. CASE pc' # [pc EXCEPT ![p] = "verify"]
      BY <2>14, <3>3, SerialPlain
      DEF CheckExecuted, Goto, Active, Plain, PastLinking, Writing, diskVars
    <3>. QED  BY <3>2, <3>3
  <2>15. CASE Verify(p)
    <3>1. evidence["receipt"] # p
      BY <2>15 DEF Verify, SerialInv, ReceiptAt, PastLinking, Writing
    <3>2. CASE pc' = [pc EXCEPT ![p] = "check_verified"]
      <4>1. pc'[p] = "check_verified" /\ Active(p)
        BY <2>15, <3>2 DEF Verify, Active, TypeInv, TypeOK
      <4>2. WorkspaceAt(p)'
        BY <2>15, <4>1, RunAssumption
        DEF Verify, Goto, ResultMatches, SerialInv, WorkspaceAt, CandidateTree,
            diskVars, TypeInv, TypeOK
      <4>. QED
        BY <2>15, <3>1, <3>2, <4>1, <4>2, SerialMove
        DEF Verify, Goto, ReceiptAt, Labels, diskVars, TypeInv, TypeOK
    <3>3. CASE pc' # [pc EXCEPT ![p] = "check_verified"]
      BY <2>15, <3>3, SerialPlain
      DEF Verify, Goto, Active, Plain, PastLinking, Writing, diskVars
    <3>. QED  BY <3>2, <3>3
  <2>16. CASE CheckVerified(p)
    <3>1. evidence["receipt"] # p
      BY <2>16 DEF CheckVerified, SerialInv, ReceiptAt, PastLinking, Writing
    <3>2. CASE pc' = [pc EXCEPT ![p] = "check_source"]
      <4>1. pc'[p] = "check_source" /\ Active(p)
        BY <2>16, <3>2 DEF CheckVerified, Active, TypeInv, TypeOK
      <4>2. WorkspaceAt(p)'
        BY <2>16, <4>1, RunAssumption
        DEF CheckVerified, Goto, ResultMatches, SerialInv, WorkspaceAt, CandidateTree,
            diskVars, TypeInv, TypeOK
      <4>. QED
        BY <2>16, <3>1, <3>2, <4>1, <4>2, SerialMove
        DEF CheckVerified, Goto, ReceiptAt, Labels, diskVars, TypeInv, TypeOK
    <3>3. CASE pc' # [pc EXCEPT ![p] = "check_source"]
      BY <2>16, <3>3, SerialPlain
      DEF CheckVerified, Goto, Active, Plain, PastLinking, Writing, diskVars
    <3>. QED  BY <3>2, <3>3
  <2>17. CASE CheckSource(p)
    <3>1. evidence["receipt"] # p
      BY <2>17 DEF CheckSource, SerialInv, ReceiptAt, PastLinking, Writing
    <3>2. CASE pc' = [pc EXCEPT ![p] = "link"]
      <4>1. pc'[p] = "link" /\ Active(p)
        BY <2>17, <3>2 DEF CheckSource, Active, TypeInv, TypeOK
      <4>2. WorkspaceAt(p)'
        BY <2>17, <4>1, RunAssumption
        DEF CheckSource, Goto, ResultMatches, SerialInv, WorkspaceAt, CandidateTree,
            diskVars, TypeInv, TypeOK
      <4>. QED
        BY <2>17, <3>1, <3>2, <4>1, <4>2, SerialMove
        DEF CheckSource, Goto, ReceiptAt, Labels, diskVars, TypeInv, TypeOK
    <3>3. CASE pc' # [pc EXCEPT ![p] = "link"]
      BY <2>17, <3>3, SerialPlain
      DEF CheckSource, Goto, Active, Plain, PastLinking, Writing, diskVars
    <3>. QED  BY <3>2, <3>3
  <2>18. CASE LinkEvidence(p)
    <3>1. passed[p] = CandidateTree(p) /\ Active(p)
      BY <2>18 DEF LinkEvidence, SerialInv, WorkspaceAt, Active
    <3>2. \A q \in Procs : q # p /\ evidence'["receipt"] = q => evidence["receipt"] = q
      BY <2>18 DEF LinkEvidence, TypeInv, TypeOK, EvidenceFiles
    <3>3. PICK to \in {"link", "bind", "returned"} : pc' = [pc EXCEPT ![p] = to]
      BY <2>18 DEF LinkEvidence, Goto, Return
    <3>4. pc'[p] = to
      BY <3>3 DEF TypeInv, TypeOK
    <3>5. WorkspaceAt(p)' /\ ReceiptAt(p)'
      BY <2>18, <3>1, <3>4 DEF LinkEvidence, WorkspaceAt, ReceiptAt, PastLinking, CandidateTree
    <3>. QED
      BY <2>18, <3>1, <3>2, <3>3, <3>5, SerialMove DEF LinkEvidence, Labels
  <2>19. CASE Bind(p)
    BY <2>19, SerialPlain
    DEF Bind, BeginAdvance, Goto, Return, Active, Plain, PastLinking, Writing, diskVars,
        TypeInv, TypeOK
  <2>20. CASE Finish(p)
    BY <2>20, SerialPlain
    DEF Finish, BeginAdvance, Goto, Return, Active, Plain, PastLinking, Writing, diskVars,
        TypeInv, TypeOK
  <2>21. CASE RecordEvidence(p)
    BY <2>21, SerialPlain
    DEF RecordEvidence, RecordAs, Goto, Active, Plain, PastLinking, Writing, TypeInv,
        TypeOK, EvidenceFiles
  <2>22. CASE RecordFailure(p)
    BY <2>22, SerialPlain
    DEF RecordFailure, Goto, Return, Active, Plain, PastLinking, Writing, diskVars
  <2>27. CASE RecordDigest(p)
    <3>1. AfterPair[pc[p]] \in Plain /\ ~PastLinking(p) /\ pc[p] # "link" /\ Active(p)
      BY <2>27 DEF RecordDigest, Pairing, PairOf, AfterPair, Plain, Writing, PastLinking, Active
    <3>. QED
      BY <2>27, <3>1, SerialPlain DEF RecordDigest, Goto
  <2>23. CASE Reject(p)
    BY <2>23, SerialPlain
    DEF Reject, BeginAdvance, Goto, Return, Active, Plain, PastLinking, Writing, diskVars,
        TypeInv, TypeOK
  <2>24. CASE RecordingFails(p)
    BY <2>24, SerialPlain
    DEF RecordingFails, Recording, Pairing, PairOf, Goto, Return, Active, Plain, PastLinking,
        Writing, diskVars
  <2>25. CASE Exit(p)
    BY <2>25, SerialPlain DEF Exit, Goto, Return, Active, Plain, PastLinking, Writing, diskVars,
       TypeInv, TypeOK
  <2>26. CASE Crash(p)
    BY <2>26, SerialPlain
    DEF Crash, Goto, Return, Active, Plain, PastLinking, Writing, diskVars,
       TypeInv, TypeOK
  <2>. QED
    BY <1>1, <2>1, <2>2, <2>3, <2>4, <2>5, <2>6, <2>7, <2>8, <2>9, <2>10, <2>11, <2>12,
       <2>13, <2>14, <2>15, <2>16, <2>17, <2>18, <2>19, <2>20, <2>21, <2>22, <2>23, <2>24,
       <2>25, <2>26, <2>27
    DEF Call, Enter, Isolate, Prove, Publish, Fail
<1>2. CASE UserEdit \/ UNCHANGED vars
  BY <1>2
  DEF UserEdit, vars, diskVars, SerialInv, OneAtATime, Active, WorkspaceAt, ReceiptAt,
      PastLinking,
      CandidateTree
<1>. QED  BY <1>1, <1>2 DEF Next, Terminated

\* "Only verifier-passed candidate bytes can produce a receipt": true of runs and resumes
\* that do not overlap, through any number of crashes and edits (executeRun).
THEOREM SerialReceiptsAreVerified == Spec => [](~Overlap => ReceiptIsVerified)
<1>1. Init => RunInv
  BY InitRunInv
<1>2. RunInv /\ [Next]_vars => RunInv'
  BY TypeStep, BundleStep, SerialStep DEF RunInv
<1>3. RunInv => (~Overlap => ReceiptIsVerified)
  BY DEF RunInv, SerialInv, ReceiptAt, ReceiptIsVerified
<1>. QED  BY <1>1, <1>2, <1>3, PTL DEF Spec

-----------------------------------------------------------------------------
(* What a rejected run records, and the table of the lifecycle *)

\* Where nothing of the run's evidence exists yet.
Unbound == {"remove_workspace", "make_workspace", "copy", "check_copy", "execute",
            "check_result", "check_executed", "verify", "check_verified", "check_source",
            "fail_result", "fail_verified_result"}

\* Every record of the executor's result or of the verification that has been begun is whole.
Whole ==
    \A file \in {"result", "verification"} : evidence[file] # NoProc => file \in paired

\* The call that began the failure record was killed before its digest.
Torn == failure # NoProc /\ Killed(failure) /\ "failure" \notin paired

Explained ==
    /\ evidence["receipt"] = NoProc
    /\ FailureReadable \/ faults > 0 \/ Torn

\* A call comes to its rejection from an executing run without a receipt, by way of the
\* failure record: no name that record needs is taken but that of the failure itself.
RecordAt(p) ==
    /\ pc[p] \in Unbound \cup Recording \cup {"inspect", "link"} => state.lifecycle = "executing"
    /\ pc[p] \in Unbound => evidence = NoBundle
    /\ pc[p] \in Recording => evidence["receipt"] = NoProc
    /\ pc[p] \in {"pair_result", "pair_verified_result", "fail_verification"} =>
            evidence["verification"] = NoProc
    /\ pc[p] \in {"fail_verification", "fail_record", "pair_failure"} => Whole
    /\ pc[p] = "pair_verification" /\ evidence["result"] # NoProc => "result" \in paired
    /\ pc[p] = "reject" => Explained
    /\ pc[p] \in Writing /\ pending[p].lifecycle = "rejected" => Explained

\* The state a call is about to complete follows the one that is complete.
WriteAt(p) ==
    /\ pc[p] = "freeze" => stateDigest = NoState
    /\ pc[p] \in Writing =>
            IF stateDigest = NoState THEN pending[p].lifecycle = "draft"
            ELSE pending[p].lifecycle \in Transitions[stateDigest.lifecycle]
    /\ pc[p] = "write_digest" => state = pending[p]
    /\ ~runDir => pc[p] \in {"idle", "returned", "exited"}

TableInv ==
    ~Overlap =>
        /\ \A p \in Procs : RecordAt(p) /\ WriteAt(p)
        /\ state.lifecycle = "rejected" => Explained
        /\ ~runDir => state = NoState /\ stateDigest = NoState

(* Where a failure record that was begun stands, whatever calls overlap. *)

FailureInv ==
    /\ \A p \in Procs : pc[p] \notin {"returned", "exited"} => outcome[p] = "none"
    /\ \A p \in Procs : pc[p] = "pair_failure" => failure = p
    /\ failure # NoProc =>
            "failure" \in paired \/ faults > 0 \/ Killed(failure) \/ pc[failure] = "pair_failure"

LEMMA InitTableInv == Init => TableInv
<1> SUFFICES ASSUME Init PROVE TableInv
  OBVIOUS
<1>1. \A p \in Procs : RecordAt(p) /\ WriteAt(p)
  BY DEF Init, RecordAt, WriteAt, Unbound, Recording, Pairing, PairOf, Writing
<1>2. state.lifecycle = "none"
  BY DEF Init, NoState
<1>. QED  BY <1>1, <1>2 DEF Init, TableInv

Step(p) == Run(p) \/ Resume(p) \/ Call(p) \/ RecordingFails(p) \/ Exit(p) \/ Crash(p)

\* While one call runs, the others have not started or are over.
LEMMA OthersRest ==
  ASSUME TypeInv, SerialInv, ~Overlap, NEW p \in Procs, Step(p), NEW q \in Procs, q # p
  PROVE  RecordAt(q)' /\ WriteAt(q)'
<1>1. pc[q] \in {"idle", "exited"}
  <2>1. CASE MayStart(p)
    BY <2>1 DEF MayStart
  <2>2. CASE ~MayStart(p)
    <3>1. Active(p)
      BY <2>2
      DEF Step, Run, Resume, Call, WriteBody, WriteDigest, Enter, FreezeInputs, Plan, Inspect,
          Isolate, RemoveWorkspace, MakeWorkspace, Copy, CheckCopy, Prove, Execute,
          CheckResult, CheckExecuted, Verify, CheckVerified, CheckSource, Publish,
          LinkEvidence, Bind, Finish, Fail, RecordEvidence, RecordFailure, RecordDigest,
          Reject, RecordingFails, Recording, Pairing, PairOf, Exit, Crash, Active
    <3>. QED  BY <3>1 DEF SerialInv, OneAtATime, Active
  <2>. QED  BY <2>1, <2>2
<1>2. \E to : pc' = [pc EXCEPT ![p] = to]
  BY DEF Step, Run, Resume, Call, WriteBody, WriteDigest, Enter, FreezeInputs, Plan, Inspect,
         Isolate, RemoveWorkspace, MakeWorkspace, Copy, CheckCopy, Prove, Execute,
         CheckResult, CheckExecuted, Verify, CheckVerified, CheckSource, Publish,
         LinkEvidence, Bind, Finish, Fail, RecordEvidence, RecordAs, RecordFailure,
         RecordDigest, Reject, RecordingFails, Exit, Crash, Goto, Return, BeginAdvance
<1>3. pc'[q] = pc[q]
  BY <1>2 DEF TypeInv, TypeOK
<1>. QED  BY <1>1, <1>3 DEF RecordAt, WriteAt, Unbound, Recording, Pairing, PairOf, Writing

\* A call moves only itself, and what has been killed stays killed.
LEMMA StepMoves ==
  ASSUME TypeInv, NEW p \in Procs, Step(p)
  PROVE  /\ \A q \in Procs : q # p => pc'[q] = pc[q] /\ outcome'[q] = outcome[q]
         /\ pc[p] # "exited" /\ faults \in Nat /\ faults' \in {faults, faults + 1}
         /\ \A q \in Procs : Killed(q) => Killed(q)'
<1>1. /\ \A q \in Procs : q # p => pc'[q] = pc[q] /\ outcome'[q] = outcome[q]
      /\ pc[p] # "exited" /\ faults' \in {faults, faults + 1}
  BY
  DEF Step, Run, Resume, MayStart, Call, WriteBody, WriteDigest, Enter, FreezeInputs, Plan,
      Inspect, Isolate, RemoveWorkspace, MakeWorkspace, Copy, CheckCopy, Prove, Execute,
      CheckResult, CheckExecuted, Verify, CheckVerified, CheckSource, Publish,
      LinkEvidence, Bind, Finish, Fail, RecordEvidence, RecordAs, RecordFailure,
      RecordDigest, Pairing, PairOf, Reject, RecordingFails, Recording, Exit, Crash, Goto, Return,
      BeginAdvance, TypeInv, TypeOK, envVars
<1>. QED  BY <1>1 DEF Killed, TypeInv, TypeOK

\* A call that began the failure record goes on to its digest, is refused, or is killed.
LEMMA FailureStep ==
  ASSUME TypeInv, FailureInv, [Next]_vars
  PROVE  FailureInv'
<1>1. ASSUME NEW p \in Procs, Step(p)
      PROVE  FailureInv'
  <2>1. \A q \in Procs : q # p => pc'[q] = pc[q] /\ outcome'[q] = outcome[q]
    BY <1>1, StepMoves
  <2>2. pc'[p] \notin {"returned", "exited"} => outcome'[p] = "none"
    <3>1. CASE WriteDigest(p)
      BY <3>1 DEF WriteDigest, TypeInv, TypeOK, PendingAt, Writing, Written, Continuation,
                  FailureInv
    <3>2. CASE ~WriteDigest(p)
      BY <1>1, <3>2
      DEF Step, Run, Resume, MayStart, Call, WriteBody, Enter, FreezeInputs, Plan,
          Inspect, Isolate, RemoveWorkspace, MakeWorkspace, Copy, CheckCopy, Prove, Execute,
          CheckResult, CheckExecuted, Verify, CheckVerified, CheckSource, Publish,
          LinkEvidence, Bind, Finish, Fail, RecordEvidence, RecordAs, RecordFailure,
          RecordDigest, Pairing, PairOf, Reject, RecordingFails, Recording, Exit, Crash, Goto, Return,
          BeginAdvance, TypeInv, TypeOK, FailureInv
    <3>. QED  BY <3>1, <3>2
  <2>3. CASE RecordFailure(p) /\ failure = NoProc
    <3>1. failure' = p /\ pc'[p] = "pair_failure"
      BY <2>3 DEF RecordFailure, Goto, TypeInv, TypeOK
    <3>2. \A q \in Procs : pc[q] # "pair_failure"
      BY <2>3, RunAssumption DEF FailureInv
    <3>. QED  BY <2>1, <2>2, <3>1, <3>2 DEF FailureInv
  <2>4. CASE ~(RecordFailure(p) /\ failure = NoProc)
    <3>1. /\ failure' = failure /\ paired \subseteq paired'
          /\ pc'[p] # "pair_failure"
      <4>1. CASE WriteDigest(p)
        <5>1. pending[p].lifecycle \in Written /\ pc'[p] = Continuation[pending[p].lifecycle]
          BY <4>1 DEF WriteDigest, TypeInv, TypeOK, PendingAt, Writing
        <5>. QED
          BY <4>1, <5>1 DEF WriteDigest, Written, Continuation
      <4>2. CASE ~WriteDigest(p)
        BY <1>1, <2>4, <4>2
        DEF Step, Run, Resume, MayStart, Call, WriteBody, Enter, FreezeInputs, Plan,
            Inspect, Isolate, RemoveWorkspace, MakeWorkspace, Copy, CheckCopy, Prove, Execute,
            CheckResult, CheckExecuted, Verify, CheckVerified, CheckSource, Publish,
            LinkEvidence, Bind, Finish, Fail, RecordEvidence, RecordAs, RecordFailure,
            RecordDigest, Pairing, PairOf, AfterPair, Reject, RecordingFails, Recording, Exit,
            Crash, Goto, Return, BeginAdvance, TypeInv, TypeOK, diskVars
      <4>. QED  BY <4>1, <4>2
    <3>2. pc[p] = "pair_failure" => "failure" \in paired' \/ faults' > 0 \/ Killed(p)'
      BY <1>1
      DEF Step, Run, Resume, MayStart, Call, WriteBody, WriteDigest, Enter, FreezeInputs, Plan,
          Inspect, Isolate, RemoveWorkspace, MakeWorkspace, Copy, CheckCopy, Prove, Execute,
          CheckResult, CheckExecuted, Verify, CheckVerified, CheckSource, Publish,
          LinkEvidence, Bind, Finish, Fail, RecordEvidence, RecordFailure,
          RecordDigest, PairOf, Reject, RecordingFails, Exit, Crash, Goto,
          TypeInv, TypeOK, FailureInv, Killed
    <3>3. failure # NoProc => failure \in Procs
      BY DEF TypeInv, TypeOK
    <3>. QED
      BY <1>1, <2>1, <2>2, <3>1, <3>2, <3>3, StepMoves DEF FailureInv
  <2>. QED  BY <2>3, <2>4
<1>2. CASE UserEdit \/ UNCHANGED vars
  BY <1>2 DEF UserEdit, vars, diskVars, envVars, FailureInv, Killed
<1>. QED  BY <1>1, <1>2 DEF Next, Terminated, Step

\* What explains a rejection goes on to explain it while no record is touched.
LEMMA ExplainedStays ==
  ASSUME TypeInv, NEW p \in Procs, Step(p), UNCHANGED <<evidence, failure, paired>>
  PROVE  Explained => Explained'
<1>1. failure # NoProc => failure \in Procs
  BY DEF TypeInv, TypeOK
<1>. QED  BY <1>1, StepMoves DEF Explained, FailureReadable, Torn

\* The rest of what a step has to keep.
Tabled(p) ==
    /\ RecordAt(p)' /\ WriteAt(p)'
    /\ state'.lifecycle = "rejected" => Explained'
    /\ ~runDir' => state' = NoState /\ stateDigest' = NoState

\* Moving on, or ending, with the state as it is.
LEMMA TableMove ==
  ASSUME TypeInv, TableInv, ~Overlap, NEW p \in Procs, NEW to \in Labels,
         pc' = [pc EXCEPT ![p] = to], UNCHANGED <<runDir, stateVars>>,
         to \notin Writing \cup {"freeze"},
         runDir \/ to \in {"returned", "exited"},
         to \notin Recording \ Unbound,
         state.lifecycle = "rejected" => (Explained => Explained'),
         to \in Unbound \cup {"inspect", "link"} => state.lifecycle = "executing",
         to \in Unbound => evidence' = NoBundle,
         to = "reject" => Explained'
  PROVE  Tabled(p)
<1>1. pc'[p] = to
  BY DEF TypeInv, TypeOK
<1>2. RecordAt(p)'
  <2>1. evidence' = NoBundle => evidence'["receipt"] = NoProc
    BY DEF NoBundle, BundleOf, EvidenceFiles
  <2>. QED  BY <1>1, <2>1 DEF RecordAt, stateVars, Unbound, Recording, Pairing, PairOf, Writing
<1>3. WriteAt(p)'
  BY <1>1 DEF WriteAt, Writing
<1>. QED  BY <1>2, <1>3 DEF Tabled, TableInv, stateVars

\* Beginning to write a state that the table allows.
LEMMA TableAdvance ==
  ASSUME TypeInv, TableInv, ~Overlap, NEW p \in Procs, NEW to, NEW receipt, Step(p),
         BeginAdvance(p, to, receipt), UNCHANGED <<runDir, stateVars, failure, paired, evidence>>,
         runDir,
         IF stateDigest = NoState THEN to = "draft" ELSE to \in Transitions[stateDigest.lifecycle],
         to = "rejected" => Explained
  PROVE  Tabled(p)
<1>1. pc'[p] = "write_body" /\ pending'[p] = [lifecycle |-> to, receipt |-> receipt]
  BY DEF BeginAdvance, Goto, TypeInv, TypeOK
<1>2. Explained => Explained'
  BY ExplainedStays
<1>3. RecordAt(p)'
  BY <1>1, <1>2 DEF RecordAt, Unbound, Recording, Pairing, PairOf
<1>4. WriteAt(p)'
  BY <1>1 DEF WriteAt, stateVars
<1>. QED  BY <1>2, <1>3, <1>4 DEF Tabled, TableInv, stateVars

\* A state that can be advanced is complete.
LEMMA AdvanceFollows ==
  ASSUME NEW to, NEW receipt, CanAdvance(to, receipt)
  PROVE  stateDigest # NoState /\ to \in Transitions[stateDigest.lifecycle]
  BY DEF CanAdvance, StateReadable

\* Every step of calls that do not overlap keeps the table, and explains a rejection.
LEMMA TableStep ==
  ASSUME TypeInv, SerialInv, FailureInv, TableInv, ~Overlap, NEW p \in Procs, Step(p)
  PROVE  Tabled(p)
<1>. USE DEF diskVars, envVars
<1>1. RecordAt(p) /\ WriteAt(p)
  BY DEF TableInv
<1>0. UNCHANGED <<evidence, failure, paired>> => (Explained => Explained')
  BY ExplainedStays
<1>2. pc[p] \notin {"idle", "returned", "exited"} => runDir
  BY <1>1 DEF WriteAt
<1>3. CASE Run(p)
  <2>1. CASE runDir
    <3>1. pc' = [pc EXCEPT ![p] = "returned"]
      BY <1>3, <2>1 DEF Run, Return
    <3>. QED
      BY <1>0, <1>3, <2>1, <3>1, TableMove DEF Run, Labels, Writing, Unbound, Recording, Pairing, PairOf
  <2>2. CASE ~runDir
    <3>1. pc'[p] = "freeze" /\ runDir'
      BY <1>3, <2>2 DEF Run, Goto, TypeInv, TypeOK
    <3>2. state = NoState /\ stateDigest = NoState
      BY <2>2 DEF TableInv
    <3>. QED
      BY <1>3, <3>1, <3>2
      DEF Run, Tabled, RecordAt, WriteAt, Unbound, Recording, Pairing, PairOf, Writing,
          stateVars, NoState
  <2>. QED  BY <2>1, <2>2
<1>4. CASE Resume(p)
  <2>1. PICK to \in {"begin", "inspect", "finish", "returned"} : pc' = [pc EXCEPT ![p] = to]
    BY <1>4 DEF Resume, Goto, Return
  <2>2. to = "inspect" => state.lifecycle = "executing"
    BY <1>4, <2>1 DEF Resume, Goto, Return, Resumable, TypeInv, TypeOK
  <2>3. to # "returned" => runDir
    BY <1>4, <2>1 DEF Resume, Goto, Return, ContextLoads, TypeInv, TypeOK
  <2>. QED
    BY <1>0, <1>4, <2>1, <2>2, <2>3, TableMove
    DEF Resume, Labels, Writing, Unbound, Recording, Pairing, PairOf
<1>5. CASE WriteBody(p)
  <2>1. pc'[p] = "write_digest" /\ pending' = pending /\ state' = pending[p]
    BY <1>5 DEF WriteBody, Goto, TypeInv, TypeOK
  <2>2. pc[p] = "write_body" /\ UNCHANGED <<runDir, stateDigest, evidence, failure, paired>>
    BY <1>5 DEF WriteBody
  <2>3. Explained => Explained'
    BY <1>0, <2>2
  <2>. QED
    BY <1>1, <1>2, <2>1, <2>2, <2>3
    DEF Tabled, RecordAt, WriteAt, Unbound, Recording, Pairing, PairOf, Writing
<1>6. CASE WriteDigest(p)
  <2>1. /\ pc'[p] = Continuation[pending[p].lifecycle] /\ state' = state /\ runDir' = runDir
        /\ pc[p] = "write_digest" /\ UNCHANGED <<evidence, failure, paired>>
    BY <1>6 DEF WriteDigest, TypeInv, TypeOK
  <2>2. pending[p].lifecycle \in Written /\ state = pending[p]
    BY <1>1, <2>1 DEF TypeInv, PendingAt, WriteAt, Writing
  <2>3. /\ pc'[p] \in {"plan", "begin", "inspect", "finish", "returned"}
        /\ pc'[p] = "inspect" => state.lifecycle = "executing"
    BY <2>1, <2>2 DEF Written, Continuation
  <2>4. state.lifecycle = "rejected" => Explained'
    BY <1>0, <2>1 DEF TableInv
  <2>. QED
    BY <1>2, <2>1, <2>3, <2>4
    DEF Tabled, RecordAt, WriteAt, Unbound, Recording, Pairing, PairOf, Writing
<1>7. CASE FreezeInputs(p)
  BY <1>1, <1>2, <1>7, TableAdvance DEF FreezeInputs, WriteAt
<1>8. CASE Plan(p) \/ Bind(p) \/ Reject(p)
  <2>1. CASE UNCHANGED pending /\ Return(p, "failed")
    BY <1>0, <1>2, <1>8, <2>1, TableMove
    DEF Plan, Bind, Reject, Return, Labels, Writing, Unbound, Recording, Pairing, PairOf
  <2>2. CASE Plan(p) /\ ~(UNCHANGED pending /\ Return(p, "failed"))
    <3>1. PICK to \in {"planned", "executing"} :
              CanAdvance(to, NoProc) /\ BeginAdvance(p, to, NoProc)
      BY <2>2 DEF Plan
    <3>. QED
      BY <1>2, <2>2, <3>1, AdvanceFollows, TableAdvance DEF Plan, stateVars
  <2>3. CASE Bind(p) /\ ~(UNCHANGED pending /\ Return(p, "failed"))
    BY <1>2, <2>3, AdvanceFollows, TableAdvance DEF Bind, stateVars
  <2>4. CASE Reject(p) /\ ~(UNCHANGED pending /\ Return(p, "failed"))
    BY <1>1, <1>2, <2>4, AdvanceFollows, TableAdvance DEF Reject, stateVars, RecordAt
  <2>. QED  BY <1>8, <2>1, <2>2, <2>3, <2>4
<1>9. CASE Finish(p)
  <2>1. CASE \E how \in Outcomes : Return(p, how)
    BY <1>0, <1>2, <1>9, <2>1, TableMove
    DEF Finish, Return, Labels, Writing, Unbound, Recording, Pairing, PairOf
  <2>2. CASE \E receipt : CanAdvance("receipted", receipt) /\ BeginAdvance(p, "receipted", receipt)
    BY <1>2, <1>9, <2>2, AdvanceFollows, TableAdvance DEF Finish, stateVars
  <2>. QED  BY <1>9, <2>1, <2>2 DEF Finish, Outcomes
<1>10. CASE Inspect(p)
  <2>1. PICK to \in {"remove_workspace", "finish", "returned"} : pc' = [pc EXCEPT ![p] = to]
    BY <1>10 DEF Inspect, Goto, Return
  <2>2. to = "remove_workspace" => evidence = NoBundle
    BY <1>10, <2>1 DEF Inspect, Goto, Return, BundleStarted, TypeInv, TypeOK
  <2>3. state.lifecycle = "executing" /\ runDir
    BY <1>1, <1>2, <1>10 DEF Inspect, RecordAt
  <2>. QED
    BY <1>0, <1>10, <2>1, <2>2, <2>3, TableMove
    DEF Inspect, Labels, Writing, Unbound, Recording, Pairing, PairOf
<1>11. CASE Isolate(p) \/ Prove(p)
  <2>1. PICK to \in Unbound \cup {"link", "returned", "fail_record"} : pc' = [pc EXCEPT ![p] = to]
    BY <1>11
    DEF Isolate, RemoveWorkspace, MakeWorkspace, Copy, CheckCopy, Prove, Execute,
        CheckResult, CheckExecuted, Verify, CheckVerified, CheckSource, Goto, Return, Unbound
  <2>2. pc[p] \in Unbound /\ UNCHANGED <<runDir, stateVars, evidence, failure, paired>>
    BY <1>11
    DEF Isolate, RemoveWorkspace, MakeWorkspace, Copy, CheckCopy, Prove, Execute,
        CheckResult, CheckExecuted, Verify, CheckVerified, CheckSource, Unbound
  <2>3. /\ state.lifecycle = "executing" /\ evidence' = NoBundle /\ runDir
        /\ Whole' /\ evidence'["receipt"] = NoProc
    BY <1>1, <1>2, <2>2 DEF RecordAt, Whole, Unbound, NoBundle, BundleOf, EvidenceFiles
  <2>4. CASE to = "fail_record"
    <3>1. pc'[p] = "fail_record"
      BY <2>1, <2>4 DEF TypeInv, TypeOK
    <3>2. RecordAt(p)' /\ WriteAt(p)'
      BY <2>2, <2>3, <3>1 DEF RecordAt, WriteAt, Unbound, Writing, stateVars
    <3>. QED
      BY <2>2, <2>3, <3>2 DEF Tabled, stateVars
  <2>5. CASE to # "fail_record"
    <3>1. /\ to \in Labels \ (Writing \cup {"freeze", "reject"})
          /\ to \notin Recording \ Unbound
      BY <2>1, <2>5 DEF Unbound, Labels, Writing, Recording, Pairing, PairOf
    <3>. QED
      BY <1>0, <2>1, <2>2, <2>3, <3>1, TableMove
  <2>. QED  BY <2>4, <2>5
<1>12. CASE LinkEvidence(p)
  <2>1. PICK to \in {"link", "bind", "returned"} : pc'[p] = to
    BY <1>12 DEF LinkEvidence, Goto, Return, TypeInv, TypeOK
  <2>2. state.lifecycle = "executing" /\ runDir
    BY <1>1, <1>2, <1>12 DEF LinkEvidence, RecordAt
  <2>. QED
    BY <1>12, <2>1, <2>2
    DEF LinkEvidence, Tabled, RecordAt, WriteAt, Unbound, Recording, Pairing, PairOf, Writing,
        stateVars
<1>13. CASE RecordEvidence(p) \/ RecordFailure(p) \/ RecordDigest(p) \/ RecordingFails(p)
  <2>1. pc[p] \in Recording /\ UNCHANGED <<runDir, stateVars>>
    BY <1>13
    DEF RecordEvidence, RecordFailure, RecordDigest, RecordingFails, Recording, Pairing, PairOf
  <2>2. runDir /\ state.lifecycle = "executing" /\ evidence["receipt"] = NoProc
    BY <1>1, <1>2, <2>1 DEF RecordAt, Recording, Pairing, PairOf
  <2>3. SUFFICES RecordAt(p)' /\ pc'[p] \notin Writing \cup {"freeze"}
    BY <2>1, <2>2 DEF Tabled, WriteAt, stateVars, Writing
  <2>4. CASE RecordEvidence(p)
    <3>1. CASE pc[p] \in {"fail_result", "fail_verified_result"}
      <4>1. evidence = NoBundle
        BY <1>1, <3>1 DEF RecordAt, Unbound
      <4>2. /\ evidence' = [evidence EXCEPT !["result"] = p]
            /\ pc'[p] \in {"pair_result", "pair_verified_result"}
        BY <2>4, <3>1, <4>1
        DEF RecordEvidence, RecordAs, Goto, NoBundle, BundleOf, EvidenceFiles, TypeInv, TypeOK
      <4>3. evidence'["receipt"] = NoProc /\ evidence'["verification"] = NoProc
        BY <4>1, <4>2 DEF NoBundle, BundleOf, EvidenceFiles
      <4>. QED
        BY <2>1, <2>2, <4>2, <4>3 DEF RecordAt, Unbound, Recording, Pairing, PairOf, Writing,
                                      stateVars
    <3>2. CASE pc[p] = "fail_verification"
      <4>1. evidence["verification"] = NoProc /\ Whole
        BY <1>1, <3>2 DEF RecordAt
      <4>2. /\ evidence' = [evidence EXCEPT !["verification"] = p]
            /\ pc'[p] = "pair_verification" /\ paired' = paired
        BY <2>4, <3>2, <4>1 DEF RecordEvidence, RecordAs, Goto, TypeInv, TypeOK
      <4>3. evidence'["receipt"] = NoProc /\ evidence'["result"] = evidence["result"]
        BY <2>2, <4>2 DEF EvidenceFiles, TypeInv, TypeOK
      <4>. QED
        BY <2>1, <2>2, <4>1, <4>2, <4>3
        DEF RecordAt, Whole, Unbound, Recording, Pairing, PairOf, Writing, stateVars
    <3>. QED  BY <2>4, <3>1, <3>2 DEF RecordEvidence
  <2>5. CASE RecordFailure(p)
    <3>1. pc[p] = "fail_record" /\ Whole /\ Whole' /\ UNCHANGED <<evidence, paired, faults>>
      BY <1>1, <2>5 DEF RecordFailure, RecordAt, Whole
    <3>2. CASE failure = NoProc
      <4>1. pc'[p] = "pair_failure"
        BY <2>5, <3>2 DEF RecordFailure, Goto, TypeInv, TypeOK
      <4>. QED
        BY <2>1, <2>2, <3>1, <4>1
        DEF RecordAt, Unbound, Recording, Pairing, PairOf, Writing, stateVars
    <3>3. CASE failure # NoProc
      <4>1. pc'[p] = "reject" /\ failure' = failure /\ failure \in Procs
        BY <2>5, <3>3 DEF RecordFailure, Goto, TypeInv, TypeOK
      <4>2. pc[failure] # "pair_failure"
        BY <3>1, <4>1 DEF SerialInv, OneAtATime, Active
      <4>3. "failure" \in paired \/ faults > 0 \/ Killed(failure)
        BY <3>3, <4>2 DEF FailureInv
      <4>4. Killed(failure) => Killed(failure)'
        BY <4>1, StepMoves
      <4>5. Explained'
        BY <2>2, <3>1, <3>3, <4>1, <4>3, <4>4 DEF Explained, FailureReadable, Torn, Whole
      <4>. QED
        BY <4>1, <4>5 DEF RecordAt, Unbound, Recording, Pairing, PairOf, Writing
    <3>. QED  BY <3>2, <3>3
  <2>6. CASE RecordDigest(p)
    <3>1. /\ pc[p] \in Pairing /\ evidence' = evidence
          /\ paired' = paired \cup {PairOf[pc[p]]} /\ pc'[p] = AfterPair[pc[p]]
      BY <2>6 DEF RecordDigest, Goto, TypeInv, TypeOK
    <3>2. Whole'
      BY <1>1, <3>1 DEF RecordAt, Whole, Pairing, PairOf
    <3>3. CASE pc[p] = "pair_failure"
      <4>1. pc'[p] = "reject" /\ "failure" \in paired'
        BY <3>1, <3>3 DEF PairOf, AfterPair
      <4>2. Explained'
        BY <2>2, <3>1, <3>2, <4>1 DEF Explained, FailureReadable, Whole
      <4>. QED
        BY <4>1, <4>2 DEF RecordAt, Unbound, Recording, Pairing, PairOf, Writing
    <3>4. CASE pc[p] # "pair_failure"
      <4>1. /\ pc'[p] \in {"fail_record", "fail_verification"}
            /\ pc'[p] = "fail_verification" => pc[p] = "pair_verified_result"
        BY <3>1, <3>4 DEF Pairing, PairOf, AfterPair
      <4>2. pc'[p] = "fail_verification" => evidence'["verification"] = NoProc
        BY <1>1, <3>1, <4>1 DEF RecordAt
      <4>. QED
        BY <2>1, <2>2, <3>1, <3>2, <4>1, <4>2
        DEF RecordAt, Unbound, Recording, Pairing, PairOf, Writing, stateVars
    <3>. QED  BY <3>3, <3>4
  <2>7. CASE RecordingFails(p)
    <3>1. pc'[p] = "reject" /\ faults' > 0 /\ evidence' = evidence
      BY <2>7 DEF RecordingFails, Goto, TypeInv, TypeOK
    <3>. QED
      BY <2>2, <3>1 DEF RecordAt, Explained, Unbound, Recording, Pairing, PairOf, Writing
  <2>. QED  BY <1>13, <2>4, <2>5, <2>6, <2>7
<1>14. CASE Exit(p) \/ Crash(p)
  <2>1. pc' = [pc EXCEPT ![p] = "exited"]
        /\ UNCHANGED <<runDir, stateVars, evidence, failure, paired>>
    BY <1>14 DEF Exit, Crash, Goto
  <2>. QED
    BY <1>0, <2>1, TableMove DEF Labels, Writing, Unbound, Recording, Pairing, PairOf
<1>. QED
  BY <1>3, <1>4, <1>5, <1>6, <1>7, <1>8, <1>9, <1>10, <1>11, <1>12, <1>13, <1>14
  DEF Step, Call, Enter, Publish, Fail

LEMMA NextTableInv ==
  ASSUME TypeInv, SerialInv, FailureInv, TableInv, [Next]_vars
  PROVE  TableInv'
<1> SUFFICES ASSUME ~Overlap PROVE TableInv'
  BY DEF TableInv
<1>1. ASSUME NEW p \in Procs, Step(p) PROVE TableInv'
  BY <1>1, TableStep, OthersRest DEF Tabled, TableInv
<1>2. CASE UserEdit \/ UNCHANGED vars
  <2>1. UNCHANGED <<runDir, stateVars, evidence, failure, paired, faults, pc, pending, outcome>>
    BY <1>2 DEF UserEdit, vars, diskVars, envVars
  <2>. QED
    BY <2>1
    DEF TableInv, RecordAt, WriteAt, Explained, FailureReadable, Torn, Killed, Whole, stateVars
<1>. QED  BY <1>1, <1>2 DEF Next, Terminated, Step

\* What runs and resumes that do not overlap keep.
THEOREM SerialInvariant == Spec => [](RunInv /\ FailureInv /\ TableInv)
<1>1. Init => RunInv /\ FailureInv /\ TableInv
  BY InitRunInv, InitTableInv DEF Init, FailureInv
<1>2. RunInv /\ FailureInv /\ TableInv /\ [Next]_vars => (RunInv /\ FailureInv /\ TableInv)'
  BY TypeStep, BundleStep, SerialStep, FailureStep, NextTableInv DEF RunInv
<1>. QED  BY <1>1, <1>2, PTL DEF Spec

\* A rejected run carries no receipt that review or apply would accept, and says why in a
\* record that is body and digest, unless the disk refused it or its writer was killed
\* between the two: true of calls that do not overlap (rejectFailedRun).
THEOREM SerialRejectionsAreExplained == Spec => [](~Overlap => RejectionIsExplained)
<1>1. TableInv => (~Overlap => RejectionIsExplained)
  BY DEF TableInv, RejectionIsExplained, Explained, Torn
<1>. QED  BY <1>1, SerialInvariant, PTL

\* The committed lifecycle moves along the table and never leaves a terminal state: true of
\* calls that do not overlap, wherever they crash (advanceStoredRunState).
THEOREM SerialLifecycleFollowsTable ==
  ASSUME ~Overlap
  PROVE  Spec => LifecycleFollowsTable
<1>1. ASSUME TypeInv, TableInv, Next, stateDigest # stateDigest'
      PROVE  IF stateDigest = NoState THEN stateDigest'.lifecycle = "draft"
             ELSE stateDigest'.lifecycle \in Transitions[stateDigest.lifecycle]
  <2>1. PICK p \in Procs : WriteDigest(p)
    BY <1>1
    DEF Next, Run, Resume, Call, WriteBody, Enter, FreezeInputs, Plan, Inspect,
        Isolate, RemoveWorkspace, MakeWorkspace, Copy, CheckCopy, Prove, Execute,
        CheckResult, CheckExecuted, Verify, CheckVerified, CheckSource, Publish,
        LinkEvidence, Bind, Finish, Fail, RecordEvidence, RecordFailure, RecordDigest,
        Reject, RecordingFails, Exit, Crash, UserEdit, Terminated, vars, diskVars, stateVars
  <2>2. WriteAt(p) /\ pc[p] = "write_digest" /\ stateDigest' = pending[p]
    BY <1>1, <2>1 DEF TableInv, WriteDigest
  <2>. QED  BY <2>2 DEF WriteAt, Writing
<1>2. TypeInv /\ TableInv /\ [Next]_vars =>
        [stateDigest # stateDigest' =>
            IF stateDigest = NoState THEN stateDigest'.lifecycle = "draft"
            ELSE stateDigest'.lifecycle \in Transitions[stateDigest.lifecycle]]_vars
  BY <1>1
<1>3. RunInv => TypeInv
  BY DEF RunInv
<1>. QED  BY <1>2, <1>3, SerialInvariant, PTL DEF Spec, LifecycleFollowsTable

-----------------------------------------------------------------------------
(* Overlap leaves the workspace to several calls, so that a receipt need not be for what its
   verifier passed; what is left is that its own verifier did pass something. *)

Examining == {"check_result", "check_executed", "verify", "check_verified", "check_source",
              "link"}

Examined(p) == result[p] = CandidateOf[p] /\ passed[p] # NoWorkspace

ExaminedAt(p) ==
    /\ pc[p] \in Examining => result[p] = CandidateOf[p]
    /\ pc[p] \in {"check_verified", "check_source", "link"} => passed[p] # NoWorkspace
    /\ evidence["receipt"] = p => Examined(p) /\ (pc[p] = "link" \/ PastLinking(p))

\* Each step of a call keeps what its own receipt stands for, and a step of another call
\* touches neither.
LEMMA ExaminedStep ==
  ASSUME TypeInv, [Next]_vars, NEW p \in Procs, ExaminedAt(p)
  PROVE  ExaminedAt(p)'
<1>1. ASSUME NEW q \in Procs, q # p, Step(q)
      PROVE  ExaminedAt(p)'
  <2>1. /\ pc'[p] = pc[p] /\ pending'[p] = pending[p]
        /\ result'[p] = result[p] /\ passed'[p] = passed[p]
    BY <1>1
    DEF Step, Run, Resume, Call, WriteBody, WriteDigest, Enter, FreezeInputs, Plan, Inspect,
        Isolate, RemoveWorkspace, MakeWorkspace, Copy, CheckCopy, Prove, Execute,
        CheckResult, CheckExecuted, Verify, CheckVerified, CheckSource, Publish,
        LinkEvidence, Bind, Finish, Fail, RecordEvidence, RecordAs, RecordFailure, RecordDigest,
        Reject, RecordingFails, Exit, Crash, BeginAdvance, Goto, Return, diskVars, stateVars,
        TypeInv, TypeOK
  <2>2. evidence'["receipt"] = p => evidence["receipt"] = p
    BY <1>1
    DEF Step, Run, Resume, Call, WriteBody, WriteDigest, Enter, FreezeInputs, Plan, Inspect,
        Isolate, RemoveWorkspace, MakeWorkspace, Copy, CheckCopy, Prove, Execute,
        CheckResult, CheckExecuted, Verify, CheckVerified, CheckSource, Publish,
        LinkEvidence, Bind, Finish, Fail, RecordEvidence, RecordAs, RecordFailure, RecordDigest,
        Reject, RecordingFails, Exit, Crash, diskVars, stateVars,
        TypeInv, TypeOK, EvidenceFiles
  <2>. QED  BY <2>1, <2>2 DEF ExaminedAt, Examined, PastLinking
<1>2. CASE UserEdit \/ UNCHANGED vars
  BY <1>2
  DEF UserEdit, vars, diskVars, envVars, ExaminedAt, Examined, PastLinking
<1>3. CASE Run(p) \/ Resume(p) \/ Enter(p) \/ Isolate(p) \/ Exit(p) \/ Crash(p)
  BY <1>3, RunAssumption
  DEF Run, Resume, MayStart, Enter, FreezeInputs, Plan, Inspect, Isolate, RemoveWorkspace,
      MakeWorkspace, Copy, CheckCopy, Exit, Crash, BeginAdvance, Goto, Return, diskVars,
      stateVars, TypeInv, TypeOK, ExaminedAt, Examined, Examining, PastLinking, Writing
<1>4. CASE WriteBody(p) \/ WriteDigest(p)
  <2>1. CASE WriteBody(p)
    BY <2>1
    DEF WriteBody, Goto, TypeInv, TypeOK, ExaminedAt, Examined, Examining, PastLinking, Writing
  <2>2. CASE WriteDigest(p)
    <3>1. /\ pending[p].lifecycle \in Written
          /\ pc'[p] = Continuation[pending[p].lifecycle]
          /\ UNCHANGED <<evidence, pending, result, passed>>
      BY <2>2 DEF WriteDigest, TypeInv, TypeOK, PendingAt, Writing
    <3>2. pc'[p] \notin Examining
      BY <3>1 DEF Continuation, Written, Examining
    <3>3. PastLinking(p) => PastLinking(p)'
      BY <2>2, <3>1 DEF WriteDigest, PastLinking, Continuation
    <3>. QED
      BY <2>2, <3>1, <3>2, <3>3 DEF WriteDigest, ExaminedAt, Examined, Examining
  <2>. QED  BY <1>4, <2>1, <2>2
<1>5. CASE Prove(p)
  <2>1. evidence["receipt"] # p /\ UNCHANGED evidence
    BY <1>5
    DEF Prove, Execute, CheckResult, CheckExecuted, Verify, CheckVerified, CheckSource,
        ExaminedAt, PastLinking, Writing, diskVars
  <2>2. CASE Execute(p)
    BY <2>1, <2>2 DEF Execute, Goto, TypeInv, TypeOK, ExaminedAt, Examining
  <2>3. CASE Verify(p)
    <3>1. \/ workspace # NoWorkspace /\ passed' = [passed EXCEPT ![p] = workspace]
          \/ pc'[p] = "fail_verified_result"
      BY <2>3 DEF Verify, Goto, TypeInv, TypeOK
    <3>2. /\ pc'[p] \in {"check_verified", "fail_verified_result"}
          /\ pc[p] = "verify" /\ UNCHANGED result
      BY <2>3 DEF Verify, Goto, TypeInv, TypeOK
    <3>. QED  BY <2>1, <3>1, <3>2 DEF TypeInv, TypeOK, ExaminedAt, Examining
  <2>4. CASE CheckResult(p) \/ CheckExecuted(p) \/ CheckVerified(p) \/ CheckSource(p)
    BY <2>1, <2>4
    DEF CheckResult, CheckExecuted, CheckVerified, CheckSource, Goto, TypeInv, TypeOK,
        ExaminedAt, Examining
  <2>. QED  BY <1>5, <2>2, <2>3, <2>4 DEF Prove
<1>6. CASE Publish(p)
  <2>1. CASE LinkEvidence(p)
    <3>1. Examined(p)
      BY <2>1 DEF LinkEvidence, ExaminedAt, Examined, Examining
    <3>2. pc'[p] \in {"link", "bind", "returned"} /\ UNCHANGED <<result, passed>>
      BY <2>1 DEF LinkEvidence, Goto, Return, TypeInv, TypeOK
    <3>. QED
      BY <2>1, <3>1, <3>2 DEF LinkEvidence, ExaminedAt, Examined, Examining, PastLinking
  <2>2. CASE Bind(p) \/ Finish(p)
    BY <2>2
    DEF Bind, Finish, BeginAdvance, Return, Goto, diskVars, TypeInv, TypeOK,
        ExaminedAt, Examined, Examining, PastLinking, Writing
  <2>. QED  BY <1>6, <2>1, <2>2 DEF Publish
<1>7. CASE Fail(p) \/ RecordingFails(p)
  <2>1. evidence["receipt"] # p
    BY <1>7
    DEF Fail, RecordEvidence, RecordFailure, RecordDigest, Reject, RecordingFails, Recording,
        Pairing, PairOf, ExaminedAt, PastLinking, Writing
  <2>2. evidence'["receipt"] = evidence["receipt"]
    BY <1>7
    DEF Fail, RecordEvidence, RecordAs, RecordFailure, RecordDigest, Reject, RecordingFails, diskVars,
        TypeInv, TypeOK, EvidenceFiles
  <2>3. pc'[p] \notin Examining
    BY <1>7
    DEF Fail, RecordEvidence, RecordAs, RecordFailure, RecordDigest, Pairing, PairOf, AfterPair,
        Reject, RecordingFails, BeginAdvance, Goto, Return, TypeInv, TypeOK, Examining
  <2>. QED  BY <2>1, <2>2, <2>3 DEF ExaminedAt, Examining
<1>. QED
  BY <1>1, <1>2, <1>3, <1>4, <1>5, <1>6, <1>7 DEF Next, Terminated, Call, Step

\* Whatever calls overlap, a receipt is written only by a call whose executor returned its
\* candidate and whose verifier passed what it found: no call publishes on the strength of
\* another one's verification (executeRun between Execute and LinkEvidence).
THEOREM ReceiptsAreExamined ==
  Spec => [](\A p \in Procs : evidence["receipt"] = p => Examined(p))
<1>1. Init => TypeInv /\ \A p \in Procs : ExaminedAt(p)
  <2>1. Init => TypeInv
    BY InitRunInv DEF RunInv
  <2>. QED
    BY <2>1, RunAssumption
    DEF Init, NoBundle, BundleOf, EvidenceFiles, ExaminedAt, Examining
<1>2. /\ TypeInv /\ (\A p \in Procs : ExaminedAt(p)) /\ [Next]_vars
      => (TypeInv /\ \A p \in Procs : ExaminedAt(p))'
  BY TypeStep, ExaminedStep
<1>3. (\A p \in Procs : ExaminedAt(p)) => \A p \in Procs : evidence["receipt"] = p => Examined(p)
  BY DEF ExaminedAt
<1>. QED  BY <1>1, <1>2, <1>3, PTL DEF Spec

=============================================================================
