---------------------- MODULE ProcessSupervisor_proofs -----------------------
(* Theorems about ProcessSupervisor, for any set of kinds: its types, and what a
   verdict rests on. *)
EXTENDS ProcessSupervisor, TLAPS

-----------------------------------------------------------------------------
(* The inductive invariant *)

Early == {"make_home", "create_network", "start_service", "await_service",
          "undo_service", "undo_network", "spawn"}

Judged == outcome \in {"passed", "failed"}

\* What a kind never does, and never has.
Owned ==
    /\ pc \in {"make_home", "clean_home"} => kind = "codex"
    /\ pc \in {"probe", "probe_again", "probe_last"} => kind \in GroupKinds
    /\ pc \in {"create_network", "start_service", "await_service", "undo_service",
               "undo_network", "rm_service", "rm_network"} => kind = "podman_service"
    /\ pc \in {"rm_verifier", "verify_residue"} => kind \in PodmanKinds
    /\ home = "present" => kind = "codex"
    /\ network = "present" \/ service = "present" => kind = "podman_service"
    /\ verifier = "present" => kind \in PodmanKinds

\* Where the supervisor is, and what it has decided.
Order ==
    /\ pc \in Early => child = "none" /\ settled = "none"
    /\ pc = "waiting" => settled = "none"
    /\ settled = "none" => pc \in Early \cup {"waiting", "returned"}
    /\ outcome # "none" => pc = "returned"
    /\ Judged => settled # "none"
    /\ stop = {} => timers = {}

\* Nobody forks once the child is gone and its pipes are closed.
ClosedIsWhole == settled = "closed" => child = "gone" /\ ~PipesHeld

PassRests == outcome = "passed" => settled = "closed" /\ exit = "zero" /\ stop \subseteq {"abort"}

\* Whoever waits no longer for a Podman client, or is about to give up, has ended it: it
\* creates no container any more.
Powerless ==
    kind \in PodmanKinds /\ (settled # "none" \/ ("settle" \in timers /\ "kill" \notin timers))
        => child # "running" \/ "child" \in doomed

\* An empty group stays empty, and what is removed stays removed.
GroupGone == child # "running" /\ helper = "none"

CleanGroup ==
    kind \in GroupKinds /\ ((pc \in {"clean_home", "judge"} /\ ~unclean) \/ Judged) => GroupGone

NothingLeft == home = "absent" /\ network = "absent" /\ service = "absent" /\ verifier = "absent"

CleanLeft == kind # "spring" /\ ((pc = "judge" /\ ~unclean) \/ Judged) => NothingLeft

SupervisorInv ==
    TypeOK /\ Owned /\ Order /\ ClosedIsWhole /\ PassRests /\ Powerless /\ CleanGroup /\ CleanLeft

-----------------------------------------------------------------------------
(* The invariant is kept *)

LEMMA InitSupervisorInv == Init => SupervisorInv
  BY KindsAssumption
  DEF Init, SupervisorInv, TypeOK, Labels, Owned, Order, Early, Judged, ClosedIsWhole, PassRests,
      Powerless, CleanGroup, GroupGone, CleanLeft, NothingLeft, GroupKinds, PodmanKinds

\* Nothing runs yet, so nothing is promised yet.
LEMMA PrepareStep ==
  ASSUME SupervisorInv, Preparing \/ Spawn
  PROVE  SupervisorInv'
<1>. USE KindsAssumption
     DEF  SupervisorInv, TypeOK, Labels, Owned, Order, Early, Judged, ClosedIsWhole, PassRests,
          Powerless, CleanGroup, GroupGone, CleanLeft, NothingLeft, GroupKinds, PodmanKinds,
          osVars, podmanVars, waitVars, PipesHeld, Goto, Return, AfterWait
<1>1. CASE MakeHome
  <2>1. TypeOK'
    BY <1>1 DEF MakeHome
  <2>2. Owned'
    BY <1>1 DEF MakeHome
  <2>3. Order'
    BY <1>1 DEF MakeHome
  <2>4. ClosedIsWhole'
    BY <1>1 DEF MakeHome
  <2>5. PassRests'
    BY <1>1 DEF MakeHome
  <2>6. Powerless'
    BY <1>1 DEF MakeHome
  <2>7. CleanGroup'
    BY <1>1 DEF MakeHome
  <2>8. CleanLeft'
    BY <1>1 DEF MakeHome
  <2>. QED  BY <2>1, <2>2, <2>3, <2>4, <2>5, <2>6, <2>7, <2>8
<1>2. CASE CreateNetwork
  <2>1. TypeOK'
    BY <1>2 DEF CreateNetwork
  <2>2. Owned'
    BY <1>2 DEF CreateNetwork
  <2>3. Order'
    BY <1>2 DEF CreateNetwork
  <2>4. ClosedIsWhole'
    BY <1>2 DEF CreateNetwork
  <2>5. PassRests'
    BY <1>2 DEF CreateNetwork
  <2>6. Powerless'
    BY <1>2 DEF CreateNetwork
  <2>7. CleanGroup'
    BY <1>2 DEF CreateNetwork
  <2>8. CleanLeft'
    BY <1>2 DEF CreateNetwork
  <2>. QED  BY <2>1, <2>2, <2>3, <2>4, <2>5, <2>6, <2>7, <2>8
<1>3. CASE StartService
  <2>1. TypeOK'
    BY <1>3 DEF StartService
  <2>2. Owned'
    BY <1>3 DEF StartService
  <2>3. Order'
    BY <1>3 DEF StartService
  <2>4. ClosedIsWhole'
    BY <1>3 DEF StartService
  <2>5. PassRests'
    BY <1>3 DEF StartService
  <2>6. Powerless'
    BY <1>3 DEF StartService
  <2>7. CleanGroup'
    BY <1>3 DEF StartService
  <2>8. CleanLeft'
    BY <1>3 DEF StartService
  <2>. QED  BY <2>1, <2>2, <2>3, <2>4, <2>5, <2>6, <2>7, <2>8
<1>4. CASE AwaitService
  BY <1>4 DEF AwaitService
<1>5. CASE UndoService
  BY <1>5 DEF UndoService
<1>6. CASE UndoNetwork
  BY <1>6 DEF UndoNetwork
<1>7. CASE Spawn
  BY <1>7 DEF Spawn
<1>. QED  BY <1>1, <1>2, <1>3, <1>4, <1>5, <1>6, <1>7 DEF Preparing

\* A stop request changes no verdict; the kill timer leaves a Podman client doomed.
LEMMA StopStep ==
  ASSUME SupervisorInv, Timeout \/ Abort \/ OutputExceeded \/ KillTimer
  PROVE  SupervisorInv'
<1>. USE KindsAssumption
     DEF  SupervisorInv, TypeOK, Labels, Owned, Order, Early, Judged, ClosedIsWhole, PassRests,
          Powerless, CleanGroup, GroupGone, CleanLeft, NothingLeft, GroupKinds, PodmanKinds,
          osVars, podmanVars, waitVars, PipesHeld, Goto, Return, RequestStop, Armed,
          Terminate, Kill, Target, Running
<1>1. CASE Timeout
  <2>1. TypeOK'
    BY <1>1 DEF Timeout
  <2>2. Owned'
    BY <1>1 DEF Timeout
  <2>3. Order'
    BY <1>1 DEF Timeout
  <2>4. ClosedIsWhole'
    BY <1>1 DEF Timeout
  <2>5. PassRests'
    BY <1>1 DEF Timeout
  <2>6. Powerless'
    BY <1>1 DEF Timeout
  <2>7. CleanGroup'
    BY <1>1 DEF Timeout
  <2>8. CleanLeft'
    BY <1>1 DEF Timeout
  <2>. QED  BY <2>1, <2>2, <2>3, <2>4, <2>5, <2>6, <2>7, <2>8
<1>2. CASE Abort
  <2>1. TypeOK'
    BY <1>2 DEF Abort
  <2>2. Owned'
    BY <1>2 DEF Abort
  <2>3. Order'
    BY <1>2 DEF Abort
  <2>4. ClosedIsWhole'
    BY <1>2 DEF Abort
  <2>5. PassRests'
    BY <1>2 DEF Abort
  <2>6. Powerless'
    BY <1>2 DEF Abort
  <2>7. CleanGroup'
    BY <1>2 DEF Abort
  <2>8. CleanLeft'
    BY <1>2 DEF Abort
  <2>. QED  BY <2>1, <2>2, <2>3, <2>4, <2>5, <2>6, <2>7, <2>8
<1>3. CASE OutputExceeded
  <2>1. TypeOK'
    BY <1>3 DEF OutputExceeded
  <2>2. Owned'
    BY <1>3 DEF OutputExceeded
  <2>3. Order'
    BY <1>3 DEF OutputExceeded
  <2>4. ClosedIsWhole'
    BY <1>3 DEF OutputExceeded
  <2>5. PassRests'
    BY <1>3 DEF OutputExceeded
  <2>6. Powerless'
    BY <1>3 DEF OutputExceeded
  <2>7. CleanGroup'
    BY <1>3 DEF OutputExceeded
  <2>8. CleanLeft'
    BY <1>3 DEF OutputExceeded
  <2>. QED  BY <2>1, <2>2, <2>3, <2>4, <2>5, <2>6, <2>7, <2>8
<1>4. CASE KillTimer
  BY <1>4 DEF KillTimer
<1>. QED  BY <1>1, <1>2, <1>3, <1>4

\* Each way to settle leaves what the verdict needs to know.
LEMMA SettleStep ==
  ASSUME SupervisorInv, SettleTimer \/ Close \/ ErrorEvent \/ StdinError
  PROVE  SupervisorInv'
<1>. USE KindsAssumption
     DEF  SupervisorInv, TypeOK, Labels, Owned, Order, Early, Judged, ClosedIsWhole, PassRests,
          Powerless, CleanGroup, GroupGone, CleanLeft, NothingLeft, GroupKinds, PodmanKinds,
          osVars, podmanVars, waitVars, PipesHeld, Goto, Return, Settle, AfterWait
<1>1. CASE SettleTimer
  BY <1>1 DEF SettleTimer
<1>2. CASE Close
  BY <1>2 DEF Close
<1>3. CASE ErrorEvent
  BY <1>3 DEF ErrorEvent
<1>4. CASE StdinError
  BY <1>4 DEF StdinError
<1>. QED  BY <1>1, <1>2, <1>3, <1>4

\* Cleaning either proves that nothing is left or says so.
LEMMA CleanStep ==
  ASSUME SupervisorInv, Cleaning \/ Judge
  PROVE  SupervisorInv'
<1>. USE KindsAssumption
     DEF  SupervisorInv, TypeOK, Labels, Owned, Order, Early, Judged, ClosedIsWhole, PassRests,
          Powerless, CleanGroup, GroupGone, CleanLeft, NothingLeft, GroupKinds, PodmanKinds,
          osVars, podmanVars, waitVars, PipesHeld, Goto, Return, AfterGroup, Terminate,
          Kill, Target, Running, Failing
<1>1. CASE Probe
  <2>1. TypeOK'
    BY <1>1 DEF Probe
  <2>2. Owned'
    BY <1>1 DEF Probe
  <2>3. Order'
    BY <1>1 DEF Probe
  <2>4. ClosedIsWhole'
    BY <1>1 DEF Probe
  <2>5. PassRests'
    BY <1>1 DEF Probe
  <2>6. Powerless'
    BY <1>1 DEF Probe
  <2>7. CleanGroup'
    BY <1>1 DEF Probe
  <2>8. CleanLeft'
    BY <1>1 DEF Probe
  <2>. QED  BY <2>1, <2>2, <2>3, <2>4, <2>5, <2>6, <2>7, <2>8
<1>2. CASE ProbeAgain
  <2>1. TypeOK'
    BY <1>2 DEF ProbeAgain
  <2>2. Owned'
    BY <1>2 DEF ProbeAgain
  <2>3. Order'
    BY <1>2 DEF ProbeAgain
  <2>4. ClosedIsWhole'
    BY <1>2 DEF ProbeAgain
  <2>5. PassRests'
    BY <1>2 DEF ProbeAgain
  <2>6. Powerless'
    BY <1>2 DEF ProbeAgain
  <2>7. CleanGroup'
    BY <1>2 DEF ProbeAgain
  <2>8. CleanLeft'
    BY <1>2 DEF ProbeAgain
  <2>. QED  BY <2>1, <2>2, <2>3, <2>4, <2>5, <2>6, <2>7, <2>8
<1>3. CASE ProbeLast
  <2>1. TypeOK'
    BY <1>3 DEF ProbeLast
  <2>2. Owned'
    BY <1>3 DEF ProbeLast
  <2>3. Order'
    BY <1>3 DEF ProbeLast
  <2>4. ClosedIsWhole'
    BY <1>3 DEF ProbeLast
  <2>5. PassRests'
    BY <1>3 DEF ProbeLast
  <2>6. Powerless'
    BY <1>3 DEF ProbeLast
  <2>7. CleanGroup'
    <3>1. CASE Running = {}
      BY <1>3, <3>1, "child" \notin Running, "helper" \notin Running DEF ProbeLast
    <3>2. CASE Running # {}
      <4>1. unclean' = TRUE
        BY <1>3, <3>2, Zenon DEF ProbeLast
      <4>. QED  BY <1>3, <4>1 DEF ProbeLast
    <3>. QED  BY <3>1, <3>2
  <2>8. CleanLeft'
    BY <1>3 DEF ProbeLast
  <2>. QED  BY <2>1, <2>2, <2>3, <2>4, <2>5, <2>6, <2>7, <2>8
<1>4. CASE CleanHome
  <2>1. TypeOK'
    BY <1>4 DEF CleanHome
  <2>2. Owned'
    BY <1>4 DEF CleanHome
  <2>3. Order'
    BY <1>4 DEF CleanHome
  <2>4. ClosedIsWhole'
    BY <1>4 DEF CleanHome
  <2>5. PassRests'
    BY <1>4 DEF CleanHome
  <2>6. Powerless'
    BY <1>4 DEF CleanHome
  <2>7. CleanGroup'
    BY <1>4 DEF CleanHome
  <2>8. CleanLeft'
    BY <1>4 DEF CleanHome
  <2>. QED  BY <2>1, <2>2, <2>3, <2>4, <2>5, <2>6, <2>7, <2>8
<1>5. CASE RmVerifier
  BY <1>5 DEF RmVerifier
<1>6. CASE RmService
  BY <1>6 DEF RmService
<1>7. CASE RmNetwork
  BY <1>7 DEF RmNetwork
<1>8. CASE VerifyResidue
  <2>1. TypeOK'
    BY <1>8 DEF VerifyResidue, Left, Resources
  <2>2. Owned'
    BY <1>8 DEF VerifyResidue, Left, Resources
  <2>3. Order'
    BY <1>8 DEF VerifyResidue, Left, Resources
  <2>4. ClosedIsWhole'
    BY <1>8 DEF VerifyResidue, Left, Resources
  <2>5. PassRests'
    BY <1>8 DEF VerifyResidue, Left, Resources
  <2>6. Powerless'
    BY <1>8 DEF VerifyResidue, Left, Resources
  <2>7. CleanGroup'
    BY <1>8 DEF VerifyResidue, Left, Resources
  <2>8. CleanLeft'
    BY <1>8 DEF VerifyResidue, Left, Resources
  <2>. QED  BY <2>1, <2>2, <2>3, <2>4, <2>5, <2>6, <2>7, <2>8
<1>9. CASE Judge
  BY <1>9 DEF Judge
<1>. QED  BY <1>1, <1>2, <1>3, <1>4, <1>5, <1>6, <1>7, <1>8, <1>9 DEF Cleaning

\* Processes and containers.
LEMMA SystemStep ==
  ASSUME SupervisorInv, System
  PROVE  SupervisorInv'
<1>. USE KindsAssumption
     DEF  SupervisorInv, TypeOK, Labels, Owned, Order, Early, Judged, ClosedIsWhole, PassRests,
          Powerless, CleanGroup, GroupGone, CleanLeft, NothingLeft, GroupKinds, PodmanKinds,
          osVars, podmanVars, waitVars, PipesHeld, Goto, Return
<1>1. CASE ForkHelper
  BY <1>1 DEF ForkHelper
<1>2. CASE ForkStray
  BY <1>2 DEF ForkStray
<1>3. CASE ChildEnds
  BY <1>3 DEF ChildEnds
<1>4. CASE HelperEnds
  BY <1>4 DEF HelperEnds
<1>5. CASE StrayEnds
  BY <1>5 DEF StrayEnds
<1>6. CASE ContainerStarts
  BY <1>6 DEF ContainerStarts
<1>7. CASE ContainerEnds
  BY <1>7 DEF ContainerEnds
<1>. QED  BY <1>1, <1>2, <1>3, <1>4, <1>5, <1>6, <1>7 DEF System

LEMMA NextSupervisorInv == SupervisorInv /\ [Next]_vars => SupervisorInv'
<1> SUFFICES ASSUME SupervisorInv, [Next]_vars PROVE SupervisorInv'  OBVIOUS
<1>1. CASE Supervise
  BY <1>1, PrepareStep, StopStep, SettleStep, CleanStep DEF Supervise, Waiting
<1>2. CASE Surroundings
  BY <1>2, StopStep, SettleStep DEF Surroundings
<1>3. CASE System
  BY <1>3, SystemStep
<1>4. CASE UNCHANGED vars
  BY <1>4 DEF SupervisorInv, TypeOK, Owned, Order, Judged, ClosedIsWhole, PassRests, Powerless,
     CleanGroup, GroupGone, CleanLeft, NothingLeft, PipesHeld, vars, osVars, podmanVars, waitVars
<1>. QED  BY <1>1, <1>2, <1>3, <1>4 DEF Next, Terminated

-----------------------------------------------------------------------------
(* Theorems *)

\* The invariant holds in every reachable state.
THEOREM SupervisorInvariant == Spec => []SupervisorInv
  BY InitSupervisorInv, NextSupervisorInv, PTL DEF Spec

\* Every variable keeps its type, and no timer outlives the wait.
THEOREM SupervisorTypes == Spec => []TypeOK
<1>1. SupervisorInv => TypeOK
  BY DEF SupervisorInv
<1>. QED  BY <1>1, SupervisorInvariant, PTL

\* A pass rests on the whole run of the child, however timers, aborts, output and
\* descendants are interleaved.
THEOREM PassesAreWhole == Spec => []PassIsWhole
<1>1. SupervisorInv => PassIsWhole
  BY DEF SupervisorInv, PassRests, ClosedIsWhole, PassIsWhole
<1>. QED  BY <1>1, SupervisorInvariant, PTL

\* A verdict leaves no process of the group, no Codex home and no Podman resource behind,
\* whatever part of the cleaning fails.
THEOREM VerdictsLeaveNothing == Spec => []VerdictLeavesNothing
<1>1. SupervisorInv => VerdictLeavesNothing
  <2> SUFFICES ASSUME SupervisorInv, Judged, kind # "spring"
               PROVE  /\ kind \in GroupKinds => Running = {}
                      /\ Left = {}
    BY DEF VerdictLeavesNothing, Judged
  <2>1. kind \in GroupKinds => Running = {}
    BY DEF SupervisorInv, CleanGroup, GroupGone, Running
  <2>2. Left = {}
    BY DEF SupervisorInv, CleanLeft, NothingLeft, Left, Resources
  <2>. QED  BY <2>1, <2>2
<1>. QED  BY <1>1, SupervisorInvariant, PTL

=============================================================================
