--------------------------- MODULE AdaptiveSession ---------------------------
(* An adaptive session: child runs tried one after the other until one is
   verified or the policy stops them (src/core/adaptive-session.js and the runner
   of adaptive-session-runner.js).

   A process makes one call, runAdaptiveSession or resumeAdaptiveSession, on the
   one session that is modelled, and exits. On disk are the session directory, its lock,
   and pairs of body and digest that are created exclusively: a claim and an
   attempt per index, one failure, one final session. Overlap says whether a call
   may start while another one runs.

   A child run is abstracted to whether a resume can take it up: "none" before
   its state is planned, "open", "receipted" or "rejected". RunOrchestrator models it.
   A pid is that of one process for good.

   A definition X_Y is a faulty variant of X. *)
EXTENDS Naturals, FiniteSets, Functions

CONSTANTS
    Procs,          \* processes that may call run or resume
    NoProc,         \* nobody
    Missing,        \* a measure that was not reported
    Foreign,        \* a cost in another currency than the budget's
    ChildOutcomes,  \* what a child may report
    AttemptBudget, TokenBudget, WallBudget, CostBudget,    \* the execution policy
    RetryRoutes,    \* reasons for which the policy has a route
    Overlap,        \* whether calls may overlap
    MaxCrashes, MaxFaults    \* bounds on what the environment does

Statuses == {"completed", "verification_failed", "transient", "hard"}

Outcome == [status : Statuses, tokens : Nat \cup {Missing}, wall : Nat,
            cost : Nat \cup {Missing, Foreign}, oversized : BOOLEAN]

ASSUME SessionAssumption ==
    /\ NoProc \notin Procs
    /\ Missing \notin Nat /\ Foreign \notin Nat /\ Missing # Foreign
    /\ ChildOutcomes \subseteq Outcome
    /\ \A s \in {"completed", "hard"} : \E o \in ChildOutcomes : o.status = s
    /\ AttemptBudget \in Nat \ {0} /\ TokenBudget \in Nat /\ WallBudget \in Nat
    /\ CostBudget \in Nat \cup {Missing}
    /\ RetryRoutes \subseteq {"verifier_failure", "transient_infra_retry"}
    /\ Overlap \in BOOLEAN /\ MaxCrashes \in Nat /\ MaxFaults \in Nat

VARIABLES
    session,            \* the directory: none, created, or with input and attempts
    lock, lockText,     \* who created session.lock, or NoProc; has it been written
    claim,              \* the claim pair of each index
    attempt,            \* the attempt pair of each index and what it records
    final, failure,     \* the final session and the failure: pair, and what it names
    child,              \* the child run of each index
    pc, tries, seen, index, result, outcome,    \* per call: its memory, and how it ended
    started,            \* history: how often each child was run and not resumed
    crashes, faults     \* how often the environment interfered

lockVars  == <<lock, lockText>>
pairVars  == <<claim, attempt, final, failure>>
localVars == <<tries, seen, index, result>>
envVars   == <<crashes, faults>>
vars == <<session, lockVars, pairVars, child, pc, localVars, outcome, started, envVars>>

-----------------------------------------------------------------------------
(* What follows an attempt *)

Index == 1..AttemptBudget

Verdicts == {"retry", "winner", "terminal_failure", "attempt_budget_exhausted",
             "telemetry_missing", "token_budget_exhausted", "wall_budget_exhausted",
             "cost_budget_exhausted", "no_authorized_route"}

\* retryRouteReason.
RouteReason(o) ==
    CASE o.status = "verification_failed" -> "verifier_failure"
      [] o.status = "transient"           -> "transient_infra_retry"
      [] OTHER                            -> "none"

\* The sum of one measure over attempts 1..n; what is missing counts nothing.
Spent(outcomes, n, measure) ==
    LET amount == [k \in 1..n |-> IF outcomes[k][measure] \in Nat THEN outcomes[k][measure] ELSE 0]
    IN FoldFunctionOnSet(LAMBDA a, b : a + b, 0, amount, 1..n)

Exhausted(outcomes, n, measure, budget) == Spent(outcomes, n, measure) >= budget

Reported(outcomes, n, measure) == \A k \in 1..n : outcomes[k][measure] # Missing

NextTransition_WithinBudget(outcomes, n) ==
    LET o == outcomes[n] IN
    IF o.status = "completed" THEN "winner"
    ELSE IF RouteReason(o) = "none" THEN "terminal_failure"
    ELSE IF n >= AttemptBudget THEN "attempt_budget_exhausted"
    ELSE IF ~Reported(outcomes, n, "tokens") THEN "telemetry_missing"
    ELSE IF o.tokens >= TokenBudget THEN "token_budget_exhausted"
    ELSE IF RouteReason(o) \notin RetryRoutes THEN "no_authorized_route"
    ELSE "retry"

\* nextTransition after attempts 1..n: the first reason to stop, in the code's order.
NextTransition(outcomes, n) ==
    LET o == outcomes[n] IN
    IF o.status = "completed" THEN "winner"
    ELSE IF RouteReason(o) = "none" THEN "terminal_failure"
    ELSE IF n >= AttemptBudget THEN "attempt_budget_exhausted"
    ELSE IF ~Reported(outcomes, n, "tokens") THEN "telemetry_missing"
    ELSE IF Exhausted(outcomes, n, "tokens", TokenBudget) THEN "token_budget_exhausted"
    ELSE IF Exhausted(outcomes, n, "wall", WallBudget) THEN "wall_budget_exhausted"
    ELSE IF CostBudget # Missing /\ ~Reported(outcomes, n, "cost") THEN "telemetry_missing"
    ELSE IF CostBudget # Missing /\ \E k \in 1..n : outcomes[k].cost = Foreign
         THEN "terminal_failure"
    ELSE IF CostBudget # Missing /\ Exhausted(outcomes, n, "cost", CostBudget)
         THEN "cost_budget_exhausted"
    ELSE IF RouteReason(o) \notin RetryRoutes THEN "no_authorized_route"
    ELSE IF o.oversized THEN "terminal_failure"
    ELSE "retry"

-----------------------------------------------------------------------------

Pair == {"absent", "torn", "complete"}
NoOutcome == [status |-> "none"]
NoAttempt == [pair |-> "absent", outcome |-> NoOutcome, next |-> "none"]
NoFinal   == [pair |-> "absent", reason |-> "none"]
NoFailure == [pair |-> "absent", index |-> 0]

Labels == {"idle", "initialize", "create_lock", "write_lock", "read_lock", "probe_owner",
           "remove_lock", "check_terminal", "load", "claim", "claim_body", "claim_digest",
           "run_child", "resume_child", "child", "grace", "attempt_body", "attempt_digest",
           "failure_body", "failure_digest", "final_body", "final_digest",
           "release", "unlink", "returned", "exited"}
Results == {"none", "completed", "failed"}

Goto(p, to) == pc' = [pc EXCEPT ![p] = to] /\ UNCHANGED outcome

\* Throwing or returning while the lock is held: the finally block releases it.
Leave(p, how) ==
    /\ pc' = [pc EXCEPT ![p] = "release"]
    /\ outcome' = [outcome EXCEPT ![p] = how]

\* Throwing while it is not, or after it was released.
Return(p, how) ==
    /\ pc' = [pc EXCEPT ![p] = "returned"]
    /\ outcome' = [outcome EXCEPT ![p] = how]

-----------------------------------------------------------------------------
(* Entering the session *)

MayStart(p) == pc[p] = "idle" /\ (Overlap \/ \A q \in Procs : pc[q] \in {"idle", "exited"})

RunSession(p) ==
    /\ MayStart(p)
    /\ IF session = "none"
       THEN session' = "created" /\ Goto(p, "initialize")
       ELSE UNCHANGED session /\ Return(p, "failed")
    /\ UNCHANGED <<lockVars, pairVars, child, localVars, started, envVars>>

\* Launch, input and the attempts directory: a session that lacks one is refused.
Initialize(p) ==
    /\ pc[p] = "initialize"
    /\ session' = "ready"
    /\ Goto(p, "create_lock")
    /\ UNCHANGED <<lockVars, pairVars, child, localVars, started, envVars>>

ResumeSession(p) ==
    /\ MayStart(p)
    /\ IF session = "ready" THEN Goto(p, "create_lock") ELSE Return(p, "failed")
    /\ UNCHANGED <<session, lockVars, pairVars, child, localVars, started, envVars>>

-----------------------------------------------------------------------------
(* The session lock *)

\* writeFile with "wx": the file exists before it has its text.
CreateLock(p) ==
    /\ pc[p] = "create_lock"
    /\ tries' = [tries EXCEPT ![p] = @ + 1]
    /\ IF tries[p] = 2
       THEN Return(p, "failed") /\ UNCHANGED lockVars
       ELSE IF lock = NoProc
            THEN lock' = p /\ lockText' = FALSE /\ Goto(p, "write_lock")
            ELSE UNCHANGED lockVars /\ Goto(p, "read_lock")
    /\ UNCHANGED <<session, pairVars, child, seen, index, result, started, envVars>>

\* A file that was unlinked meanwhile is written all the same.
WriteLock(p) ==
    /\ pc[p] = "write_lock"
    /\ lockText' = (lockText \/ lock = p)
    /\ Goto(p, "check_terminal")
    /\ UNCHANGED <<session, lock, pairVars, child, localVars, started, envVars>>

\* No lock any more, or one without its text, is an error.
ReadLock(p) ==
    /\ pc[p] = "read_lock"
    /\ IF lock # NoProc /\ lockText
       THEN seen' = [seen EXCEPT ![p] = lock] /\ Goto(p, "probe_owner")
       ELSE UNCHANGED seen /\ Return(p, "failed")
    /\ UNCHANGED <<session, lockVars, pairVars, child, tries, index, result, started, envVars>>

\* processIsAlive of the owner that was read.
ProbeOwner(p) ==
    /\ pc[p] = "probe_owner"
    /\ IF pc[seen[p]] = "exited" THEN Goto(p, "remove_lock") ELSE Return(p, "failed")
    /\ UNCHANGED <<session, lockVars, pairVars, child, localVars, started, envVars>>

\* rm of the path, whoever's lock is there now.
RemoveLock(p) ==
    /\ pc[p] = "remove_lock"
    /\ IF lock # NoProc THEN Goto(p, "create_lock") ELSE Return(p, "failed")
    /\ lock' = NoProc /\ lockText' = FALSE
    /\ UNCHANGED <<session, pairVars, child, localVars, started, envVars>>

\* releaseSessionLock: a lock that is not one's own is an error of its own.
Release(p) ==
    /\ pc[p] = "release"
    /\ \/ lock = NoProc /\ Return(p, outcome[p])
       \/ lock = p /\ lockText /\ Goto(p, "unlink")
       \/ lock # NoProc /\ ~(lock = p /\ lockText) /\ Return(p, "failed")
    /\ UNCHANGED <<session, lockVars, pairVars, child, localVars, started, envVars>>

Unlink(p) ==
    /\ pc[p] = "unlink"
    /\ Return(p, IF lock = NoProc THEN "failed" ELSE outcome[p])
    /\ lock' = NoProc /\ lockText' = FALSE
    /\ UNCHANGED <<session, pairVars, child, localVars, started, envVars>>

-----------------------------------------------------------------------------
(* Claims and children *)

Recorded == {i \in Index : attempt[i].pair # "absent"}
Claimed  == {i \in Index : claim[i] # "absent"}

\* readAttemptRecords accepts n attempts and, after them, at most one more claim.
RecordsReadable(n) ==
    /\ Recorded = 1..n /\ Claimed \in {1..n, 1..(n + 1)}
    /\ \A i \in Index : claim[i] # "torn" /\ attempt[i].pair # "torn"

\* readCompletedSession: no claim dangles, and the last attempt gave the reason.
Backed(reason) ==
    LET n == Cardinality(Recorded)
    IN /\ RecordsReadable(n) /\ Claimed = Recorded
       /\ n > 0 /\ attempt[n].next = reason /\ reason # "retry"

\* continueAdaptive: a terminal artifact ends the call.
CheckTerminal(p) ==
    /\ pc[p] = "check_terminal"
    /\ \/ failure.pair = "absent" /\ final.pair = "absent" /\ Goto(p, "load")
       \/ /\ failure.pair = "absent" /\ final.pair = "complete"
          /\ Leave(p, IF Backed(final.reason) THEN "completed" ELSE "failed")
       \/ (failure.pair # "absent" \/ final.pair = "torn") /\ Leave(p, "failed")
    /\ UNCHANGED <<session, lockVars, pairVars, child, localVars, started, envVars>>

LoadRecords_Trusts(p) ==
    /\ pc[p] = "load"
    /\ index' = [index EXCEPT ![p] = Cardinality(Recorded) + 1]
    /\ Goto(p, "claim")
    /\ UNCHANGED <<session, lockVars, pairVars, child, tries, seen, result, started, envVars>>

LoadRecords_LeavesTerminal(p) ==
    /\ pc[p] = "load"
    /\ LET n == Cardinality(Recorded)
       IN IF ~RecordsReadable(n) \/ (n > 0 /\ attempt[n].next # "retry")
          THEN Leave(p, "failed") /\ UNCHANGED index
          ELSE index' = [index EXCEPT ![p] = n + 1] /\ Goto(p, "claim")
    /\ UNCHANGED <<session, lockVars, pairVars, child, tries, seen, result, started, envVars>>

\* The last attempt ends the session or says how to go on.
LoadRecords(p) ==
    /\ pc[p] = "load"
    /\ LET n == Cardinality(Recorded)
       IN IF ~RecordsReadable(n)
          THEN Leave(p, "failed") /\ UNCHANGED index
          ELSE IF n > 0 /\ attempt[n].next # "retry"
               THEN index' = [index EXCEPT ![p] = n] /\ Goto(p, "final_body")
               ELSE index' = [index EXCEPT ![p] = n + 1] /\ Goto(p, "claim")
    /\ UNCHANGED <<session, lockVars, pairVars, child, tries, seen, result, started, envVars>>

\* claimAttempt: an existing claim is resumed, never run again.
Claim(p) ==
    /\ pc[p] = "claim"
    /\ CASE claim[index[p]] = "absent"   -> Goto(p, "claim_body")
         [] claim[index[p]] = "complete" -> Goto(p, "resume_child")
         [] OTHER                        -> Leave(p, "failed")
    /\ UNCHANGED <<session, lockVars, pairVars, child, localVars, started, envVars>>

ClaimBody_Overwrites(p) ==
    /\ pc[p] = "claim_body"
    /\ claim' = [claim EXCEPT ![index[p]] = "torn"]
    /\ Goto(p, "claim_digest")
    /\ UNCHANGED <<session, lockVars, attempt, final, failure, child, localVars, started, envVars>>

\* writePair of the claim, body first; exclusive creation lets one call through.
ClaimBody(p) ==
    /\ pc[p] = "claim_body"
    /\ IF claim[index[p]] = "absent"
       THEN claim' = [claim EXCEPT ![index[p]] = "torn"] /\ Goto(p, "claim_digest")
       ELSE UNCHANGED claim /\ Leave(p, "failed")
    /\ UNCHANGED <<session, lockVars, attempt, final, failure, child, localVars, started, envVars>>

ClaimDigest(p) ==
    /\ pc[p] = "claim_digest"
    /\ claim' = [claim EXCEPT ![index[p]] = "complete"]
    /\ Goto(p, "run_child")
    /\ UNCHANGED <<session, lockVars, attempt, final, failure, child, localVars, started, envVars>>

\* runAttempt: the child's run directory is created exclusively.
RunChild(p) ==
    /\ pc[p] = "run_child"
    /\ started' = [started EXCEPT ![index[p]] = @ + 1]
    /\ IF child[index[p]] = "none"
       THEN child' = [child EXCEPT ![index[p]] = "open"] /\ Goto(p, "child")
       ELSE UNCHANGED child /\ Leave(p, "failed")
    /\ UNCHANGED <<session, lockVars, pairVars, localVars, envVars>>

ResumeChild_Reruns(p) ==
    /\ pc[p] = "resume_child"
    /\ Goto(p, "run_child")
    /\ UNCHANGED <<session, lockVars, pairVars, child, localVars, started, envVars>>

\* resumeAttempt: a receipted child reports what it has; a rejected one is refused
\* and reported as such; one that was never planned is an error.
ResumeChild(p) ==
    /\ pc[p] = "resume_child"
    /\ \/ child[index[p]] = "none" /\ Leave(p, "failed") /\ UNCHANGED result
       \/ child[index[p]] = "open" /\ Goto(p, "child") /\ UNCHANGED result
       \/ \E o \in ChildOutcomes :
             /\ \/ child[index[p]] = "receipted" /\ o.status = "completed"
                \/ child[index[p]] = "rejected" /\ o.status = "hard"
             /\ result' = [result EXCEPT ![p] = o]
             /\ Goto(p, "attempt_body")
    /\ UNCHANGED <<session, lockVars, pairVars, child, tries, seen, index, started, envVars>>

Settled(o) == IF o.status = "completed" THEN "receipted" ELSE "rejected"

\* The child ends in time. Which end its run keeps is settled once.
ChildEnds(p) ==
    /\ pc[p] = "child"
    /\ \E o \in ChildOutcomes :
          /\ result' = [result EXCEPT ![p] = o]
          /\ child' = [child EXCEPT ![index[p]] = IF @ = "open" THEN Settled(o) ELSE @]
    /\ Goto(p, "attempt_body")
    /\ UNCHANGED <<session, lockVars, pairVars, tries, seen, index, started, envVars>>

\* The runner throws, before or after the child's run exists, or its outcome is
\* not bound to the session: nothing is recorded.
ChildThrows(p) ==
    /\ faults < MaxFaults
    /\ faults' = faults + 1
    /\ pc[p] \in {"run_child", "child"}
    /\ started' = IF pc[p] = "run_child" THEN [started EXCEPT ![index[p]] = @ + 1] ELSE started
    /\ Leave(p, "failed")
    /\ UNCHANGED <<session, lockVars, pairVars, child, localVars, crashes>>

-----------------------------------------------------------------------------
(* The deadline *)

\* runAttemptWithinDeadline: the child is aborted and given a grace period.
Deadline(p) ==
    /\ pc[p] = "child"
    /\ Goto(p, "grace")
    /\ UNCHANGED <<session, lockVars, pairVars, child, localVars, started, envVars>>

\* An aborted child may still end by itself; its outcome is dropped.
LateChild(p) ==
    /\ pc[p] \in {"grace", "failure_body", "failure_digest"}
    /\ child[index[p]] = "open"
    /\ \E end \in {"receipted", "rejected"} : child' = [child EXCEPT ![index[p]] = end]
    /\ UNCHANGED <<session, lockVars, pairVars, pc, localVars, outcome, started, envVars>>

GraceEnds_WaitsForChild(p) ==
    /\ pc[p] = "grace"
    /\ child[index[p]] # "open"
    /\ Goto(p, "failure_body")
    /\ UNCHANGED <<session, lockVars, pairVars, child, localVars, started, envVars>>

\* The child has ended or the grace timer has fired, whichever is first.
GraceEnds(p) ==
    /\ pc[p] = "grace"
    /\ Goto(p, "failure_body")
    /\ UNCHANGED <<session, lockVars, pairVars, child, localVars, started, envVars>>

FailureBody(p) ==
    /\ pc[p] = "failure_body"
    /\ IF failure.pair = "absent"
       THEN failure' = [pair |-> "torn", index |-> index[p]] /\ Goto(p, "failure_digest")
       ELSE UNCHANGED failure /\ Leave(p, "failed")
    /\ UNCHANGED <<session, lockVars, claim, attempt, final, child, localVars, started, envVars>>

FailureDigest_Retries(p) ==
    /\ pc[p] = "failure_digest"
    /\ failure' = [failure EXCEPT !.pair = "complete"]
    /\ Goto(p, "claim")
    /\ UNCHANGED <<session, lockVars, claim, attempt, final, child, localVars, started, envVars>>

\* The deadline error goes on to the caller.
FailureDigest(p) ==
    /\ pc[p] = "failure_digest"
    /\ failure' = [failure EXCEPT !.pair = "complete"]
    /\ Leave(p, "failed")
    /\ UNCHANGED <<session, lockVars, claim, attempt, final, child, localVars, started, envVars>>

-----------------------------------------------------------------------------
(* Attempts and the final session *)

OutcomesUpTo(i, o) == [k \in 1..i |-> IF k = i THEN o ELSE attempt[k].outcome]

AttemptBody(p) ==
    /\ pc[p] = "attempt_body"
    /\ LET i == index[p] IN
       IF attempt[i].pair = "absent"
       THEN /\ attempt' = [attempt EXCEPT ![i] =
                  [pair |-> "torn", outcome |-> result[p],
                   next |-> NextTransition(OutcomesUpTo(i, result[p]), i)]]
            /\ Goto(p, "attempt_digest")
       ELSE UNCHANGED attempt /\ Leave(p, "failed")
    /\ UNCHANGED <<session, lockVars, claim, final, failure, child, localVars, started, envVars>>

\* Then the session ends or the next child is due.
AttemptDigest(p) ==
    /\ pc[p] = "attempt_digest"
    /\ attempt' = [attempt EXCEPT ![index[p]].pair = "complete"]
    /\ IF attempt[index[p]].next = "retry"
       THEN index' = [index EXCEPT ![p] = @ + 1] /\ Goto(p, "claim")
       ELSE UNCHANGED index /\ Goto(p, "final_body")
    /\ UNCHANGED <<session, lockVars, claim, final, failure, child, tries, seen, result,
                   started, envVars>>

\* finalize: what the last attempt says.
FinalBody(p) ==
    /\ pc[p] = "final_body"
    /\ IF final.pair = "absent"
       THEN final' = [pair |-> "torn", reason |-> attempt[index[p]].next] /\ Goto(p, "final_digest")
       ELSE UNCHANGED final /\ Leave(p, "failed")
    /\ UNCHANGED <<session, lockVars, claim, attempt, failure, child, localVars, started, envVars>>

FinalDigest(p) ==
    /\ pc[p] = "final_digest"
    /\ final' = [final EXCEPT !.pair = "complete"]
    /\ Leave(p, "completed")
    /\ UNCHANGED <<session, lockVars, claim, attempt, failure, child, localVars, started, envVars>>

-----------------------------------------------------------------------------
(* Environment *)

\* A write of a pair throws: the finally block still releases the lock.
WriteFails(p) ==
    /\ faults < MaxFaults
    /\ faults' = faults + 1
    /\ pc[p] \in {"claim_body", "claim_digest", "attempt_body", "attempt_digest",
                  "failure_body", "failure_digest", "final_body", "final_digest"}
    /\ Leave(p, "failed")
    /\ UNCHANGED <<session, lockVars, pairVars, child, localVars, started, crashes>>

Exit(p) ==
    /\ pc[p] = "returned"
    /\ Goto(p, "exited")
    /\ UNCHANGED <<session, lockVars, pairVars, child, localVars, started, envVars>>

\* The process dies, its child with it. A call that was killed has no outcome.
Crash(p) ==
    /\ pc[p] \notin {"idle", "returned", "exited"}
    /\ crashes < MaxCrashes
    /\ crashes' = crashes + 1
    /\ pc' = [pc EXCEPT ![p] = "exited"]
    /\ outcome' = [outcome EXCEPT ![p] = "none"]
    /\ UNCHANGED <<session, lockVars, pairVars, child, localVars, started, faults>>

Terminated == (\A p \in Procs : pc[p] = "exited") /\ UNCHANGED vars

-----------------------------------------------------------------------------

Init ==
    /\ session = "none" /\ lock = NoProc /\ lockText = FALSE
    /\ claim = [i \in Index |-> "absent"]
    /\ attempt = [i \in Index |-> NoAttempt]
    /\ final = NoFinal /\ failure = NoFailure
    /\ child = [i \in Index |-> "none"]
    /\ pc = [p \in Procs |-> "idle"]
    /\ tries = [p \in Procs |-> 0] /\ seen = [p \in Procs |-> NoProc]
    /\ index = [p \in Procs |-> 0] /\ result = [p \in Procs |-> NoOutcome]
    /\ outcome = [p \in Procs |-> "none"]
    /\ started = [i \in Index |-> 0]
    /\ crashes = 0 /\ faults = 0

Locking(p)  == CreateLock(p) \/ WriteLock(p) \/ ReadLock(p) \/ ProbeOwner(p)
               \/ RemoveLock(p) \/ Release(p) \/ Unlink(p)
Claiming(p) == CheckTerminal(p) \/ LoadRecords(p) \/ Claim(p) \/ ClaimBody(p) \/ ClaimDigest(p)
Children(p) == RunChild(p) \/ ResumeChild(p) \/ Deadline(p) \/ GraceEnds(p)
Writing(p)  == AttemptBody(p) \/ AttemptDigest(p) \/ FailureBody(p) \/ FailureDigest(p)
               \/ FinalBody(p) \/ FinalDigest(p)

\* The session's own code, its timers included, in a call that has started.
Call(p) == Initialize(p) \/ Locking(p) \/ Claiming(p) \/ Children(p) \/ Writing(p)

Next ==
    \/ \E p \in Procs : \/ RunSession(p) \/ ResumeSession(p) \/ Call(p)
                        \/ ChildEnds(p) \/ ChildThrows(p) \/ LateChild(p)
                        \/ WriteFails(p) \/ Exit(p) \/ Crash(p)
    \/ Terminated

Spec == Init /\ [][Next]_vars

\* A started call goes on and its timers fire. No child has to end, and nobody
\* has to start a call.
FairSpec == Spec /\ \A p \in Procs : WF_vars(Call(p)) /\ WF_vars(Exit(p))

-----------------------------------------------------------------------------
(* Properties *)

TypeOK ==
    /\ session \in {"none", "created", "ready"}
    /\ lock \in Procs \cup {NoProc} /\ lockText \in BOOLEAN
    /\ claim \in [Index -> Pair]
    /\ attempt \in [Index -> [pair : Pair, outcome : ChildOutcomes \cup {NoOutcome},
                              next : Verdicts \cup {"none"}]]
    /\ final \in [pair : Pair, reason : Verdicts \cup {"none"}]
    /\ failure \in [pair : Pair, index : Index \cup {0}]
    /\ child \in [Index -> {"none", "open", "receipted", "rejected"}]
    /\ pc \in [Procs -> Labels]
    /\ tries \in [Procs -> 0..3] /\ seen \in [Procs -> Procs \cup {NoProc}]
    /\ index \in [Procs -> Index \cup {0}]
    /\ result \in [Procs -> ChildOutcomes \cup {NoOutcome}]
    /\ outcome \in [Procs -> Results]
    /\ started \in [Index -> Nat]
    /\ crashes \in Nat /\ faults \in Nat

\* "A claimed adaptive child ... cannot be run again": however calls race for a
\* stale lock and crash, no child is run twice (claimAttempt).
ChildStartedOnce == \A i \in Index : started[i] <= 1

\* A claim for another child exists only after attempts that are all recorded, all
\* failed in a way the policy retries, and left something of every budget
\* (nextTransition, through crashes and resumes).
RetryWithinBudget ==
    \A i \in Index :
        claim[i] # "absent" =>
            LET n == i - 1
                before == [k \in 1..n |-> attempt[k].outcome]
            IN /\ \A k \in 1..n :
                    /\ claim[k] = "complete" /\ attempt[k].pair = "complete"
                    /\ RouteReason(before[k]) \in RetryRoutes
               /\ n > 0 =>
                    /\ Reported(before, n, "tokens") /\ ~Exhausted(before, n, "tokens", TokenBudget)
                    /\ ~Exhausted(before, n, "wall", WallBudget)
                    /\ CostBudget # Missing =>
                          Reported(before, n, "cost") /\ ~Exhausted(before, n, "cost", CostBudget)

\* What readCompletedSession asks of a completed session: no claim is left without
\* its attempt, and the last attempt gave the reason (finalize, by whichever call).
FinalIsBacked == final.pair # "absent" => Backed(final.reason)

\* A session does not both complete and fail, which every reader refuses as conflicting
\* terminal artifacts, and the failure names the claim that has no attempt
\* (runAttemptWithinDeadline, readAdaptiveSessionStatus).
OneTerminalArtifact ==
    failure.pair # "absent" =>
        /\ final.pair = "absent"
        /\ claim[failure.index] = "complete" /\ attempt[failure.index].pair = "absent"
        /\ \A i \in Index : i > failure.index => claim[i] = "absent"

\* A child that is being executed for the session.
Executing(p, i) == pc[p] \in {"child", "grace"} /\ index[p] = i

\* "concurrent resume cannot execute the same adaptive child twice".
ChildExecutedByOne ==
    \A p, q \in Procs, i \in Index : Executing(p, i) /\ Executing(q, i) => p = q

Killed(p) == pc[p] = "exited" /\ outcome[p] = "none"

Intact ==
    /\ \A i \in Index : claim[i] # "torn" /\ attempt[i].pair # "torn"
    /\ final.pair # "torn" /\ failure.pair # "torn"

\* The claim that a crash left open names a child that can be taken up.
OpenChildResumes ==
    \A i \in Index : claim[i] = "complete" /\ attempt[i].pair = "absent" => child[i] # "none"

\* Every call ends, whatever its child does: an aborted child is not waited for.
CallEnds == \A p \in Procs : pc[p] = "create_lock" ~> pc[p] = "exited"

\* A resume of a session whose artifacts are whole takes it to its one terminal artifact,
\* wherever the calls before it were killed.
ResumedSessionTerminates ==
    \A p \in Procs :
        pc[p] = "load" /\ Intact /\ OpenChildResumes /\ faults = MaxFaults
        ~> final.pair = "complete" \/ failure.pair = "complete" \/ Killed(p)

=============================================================================
