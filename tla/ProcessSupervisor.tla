-------------------------- MODULE ProcessSupervisor --------------------------
(* One supervised process: the Codex CLI (src/adapters/codex-transport.js), the
   command of a verifier (command-verifier.js), or the Gradle wrapper of a Spring
   verifier (spring-verifier.js), on the host or in a container of rootless Podman,
   with or without a database service (podman-spring.js).

   The supervisor reacts to its timers, to an abort, to output and to the end of
   its child. The operating system goes on by itself: the child may start a helper in its
   process group and a stray that leaves the group, and each of them may hold the child's
   output pipes open. SIGTERM obliges nobody, so it shows only where it fails; SIGKILL
   dooms whom it reaches. For Podman the child is the client and the container is
   another thing, which outlives a client that is killed.

   A definition X_Y is a faulty variant of X. *)
EXTENDS Naturals, FiniteSets

CONSTANT Kinds      \* what may be supervised

PodmanKinds == {"podman", "podman_service"}
GroupKinds  == {"codex", "command"}     \* the child leads a process group of its own

ASSUME KindsAssumption == Kinds \subseteq GroupKinds \cup PodmanKinds \cup {"spring"}

VARIABLES
    kind,                           \* chosen once
    child, exit,                    \* the child, and how it ended
    helper, stray,                  \* its descendants: none, or do they hold its pipes
    doomed,                         \* who was sent SIGKILL
    home,                           \* the isolated Codex home
    network, service, verifier,     \* what Podman was made to create
    pc, stop, timers,               \* the supervisor: why it stops the child, armed timers
    settled, unclean, outcome       \* what ended the wait, what cleaning met, the verdict

osVars     == <<child, exit, helper, stray, doomed>>
podmanVars == <<network, service, verifier>>
waitVars   == <<stop, timers, settled>>
vars == <<kind, osVars, home, podmanVars, pc, waitVars, unclean, outcome>>

-----------------------------------------------------------------------------

Labels == {"make_home", "create_network", "start_service", "await_service",
           "undo_service", "undo_network", "spawn", "waiting", "probe", "probe_again",
           "probe_last", "clean_home", "rm_verifier", "rm_service", "rm_network",
           "verify_residue", "judge", "returned"}

Running == {m \in {"child", "helper"} : IF m = "child" THEN child = "running" ELSE helper # "none"}

\* Who a signal is meant for: the group, or the child alone.
Target == IF kind \in GroupKinds THEN Running ELSE Running \ {"helper"}

PipesHeld == helper = "piped" \/ stray = "piped"

Resources == {"home", "network", "service", "verifier"}
Left == {r \in Resources :
            "present" = CASE r = "home"    -> home
                          [] r = "network" -> network
                          [] r = "service" -> service
                          [] OTHER         -> verifier}

Goto(to) == pc' = to /\ UNCHANGED outcome

Return(how) == pc' = "returned" /\ outcome' = how

\* SIGTERM fails when nobody is left whom it may be sent to: a helper may have
\* changed its user.
Terminate ==
    \/ UNCHANGED unclean
    \/ kind \in GroupKinds /\ child # "running" /\ helper # "none" /\ unclean' = TRUE

\* SIGKILL reaches the child and, unless it changed its user, the helper.
Kill ==
    \E reached \in SUBSET Target :
        /\ "child" \in Target => "child" \in reached
        /\ doomed' = doomed \cup reached
        /\ unclean' = (unclean \/ (kind \in GroupKinds /\ reached = {} /\ Target # {}))

-----------------------------------------------------------------------------
(* Preparing *)

\* createIsolatedCodexHome: a copy that fails is removed again.
MakeHome ==
    /\ pc = "make_home"
    /\ \/ home' = "present" /\ Goto("spawn")
       \/ UNCHANGED home /\ Return("infra")
    /\ UNCHANGED <<kind, osVars, podmanVars, waitVars, unclean>>

\* A Podman command that fails may have had its effect: it is also killed when it takes
\* too long. prepareService only undoes what it saw succeed.
CreateNetwork ==
    /\ pc = "create_network"
    /\ \/ network' = "present" /\ Goto("start_service")
       \/ network' \in {"absent", "present"} /\ Return("infra")
    /\ UNCHANGED <<kind, osVars, home, service, verifier, waitVars, unclean>>

StartService ==
    /\ pc = "start_service"
    /\ \/ service' = "present" /\ Goto("await_service")
       \/ service' \in {"absent", "present"} /\ Goto("undo_network")
    /\ UNCHANGED <<kind, osVars, home, network, verifier, waitVars, unclean>>

AwaitService ==
    /\ pc = "await_service"
    /\ \E to \in {"spawn", "undo_service"} : Goto(to)
    /\ UNCHANGED <<kind, osVars, home, podmanVars, waitVars, unclean>>

UndoService ==
    /\ pc = "undo_service"
    /\ \/ service' = "absent" /\ Goto("undo_network")
       \/ service' \in {"absent", service} /\ Return("infra")
    /\ UNCHANGED <<kind, osVars, home, network, verifier, waitVars, unclean>>

\* A network that is in use is not removed.
UndoNetwork ==
    /\ pc = "undo_network"
    /\ network' \in {network} \cup (IF service = "absent" THEN {"absent"} ELSE {})
    /\ Return("infra")
    /\ UNCHANGED <<kind, osVars, home, service, verifier, waitVars, unclean>>

-----------------------------------------------------------------------------
(* Starting and stopping the child *)

AfterWait ==
    [k \in Kinds |-> CASE k \in GroupKinds  -> "probe"
                       [] k \in PodmanKinds -> "rm_verifier"
                       [] OTHER             -> "judge"]

\* spawn succeeds, throws, or reports its failure later.
Spawn ==
    /\ pc = "spawn"
    /\ \/ child' = "running" /\ UNCHANGED settled /\ Goto("waiting")
       \/ UNCHANGED <<child, settled>> /\ Goto("waiting")
       \/ /\ UNCHANGED child
          /\ settled' = "error"
          /\ IF kind = "command" THEN Return("infra") ELSE Goto(AfterWait[kind])
    /\ UNCHANGED <<kind, exit, helper, stray, doomed, home, podmanVars, stop, timers, unclean>>

Armed_KillOnly == {"kill"}

\* Codex has no timer that gives up waiting.
Armed == IF kind = "codex" THEN {"kill"} ELSE {"kill", "settle"}

\* requestStop, terminateWithGrace: every reason is kept, the timers are armed once. Only
\* for Codex is SIGTERM sent again.
RequestStop(reason) ==
    /\ pc = "waiting"
    /\ stop' = stop \cup {reason}
    /\ timers' = IF stop = {} THEN Armed ELSE timers
    /\ IF stop = {} \/ kind = "codex" THEN Terminate ELSE UNCHANGED unclean
    /\ UNCHANGED <<kind, osVars, home, podmanVars, pc, settled, outcome>>

Timeout == "timeout" \notin stop /\ RequestStop("timeout")
Abort   == "abort" \notin stop /\ RequestStop("abort")

\* A bounded output is exceeded once, the captured output of Codex with every chunk.
OutputExceeded ==
    /\ child # "none"
    /\ kind = "codex" \/ "output_bound" \notin stop
    /\ RequestStop("output_bound")

KillTimer ==
    /\ "kill" \in timers
    /\ timers' = timers \ {"kill"}
    /\ Kill
    /\ UNCHANGED <<kind, child, exit, helper, stray, home, podmanVars, pc, stop, settled, outcome>>

-----------------------------------------------------------------------------
(* What ends the wait, once. All timers are cleared. *)

Settle(how) ==
    /\ pc = "waiting"
    /\ settled' = how
    /\ timers' = {}
    /\ Goto(AfterWait[kind])
    /\ UNCHANGED <<kind, osVars, home, podmanVars, stop, unclean>>

\* The settle timer is the later one. It also destroys the pipes.
SettleTimer == "settle" \in timers /\ "kill" \notin timers /\ Settle("forced")

Close_AtExit == child = "gone" /\ Settle("closed")

\* "close": the child has ended and nobody holds its pipes.
Close == child = "gone" /\ ~PipesHeld /\ Settle("closed")

ErrorEvent == child = "none" /\ Settle("error")

\* The prompt cannot be written to Codex.
StdinError == kind = "codex" /\ child # "none" /\ Settle("error")

-----------------------------------------------------------------------------
(* Cleaning: the process group, then the Codex home; or what Podman created *)

AfterGroup == IF kind = "codex" THEN "clean_home" ELSE "judge"

Probe ==
    /\ pc = "probe"
    /\ IF Running = {}
       THEN UNCHANGED unclean /\ Goto(AfterGroup)
       ELSE Terminate /\ Goto("probe_again")
    /\ UNCHANGED <<kind, osVars, home, podmanVars, waitVars>>

ProbeAgain ==
    /\ pc = "probe_again"
    /\ IF Running = {}
       THEN UNCHANGED <<doomed, unclean>> /\ Goto(AfterGroup)
       ELSE Kill /\ Goto("probe_last")
    /\ UNCHANGED <<kind, child, exit, helper, stray, home, podmanVars, waitVars>>

ProbeLast_Trusts ==
    /\ pc = "probe_last"
    /\ Goto(AfterGroup)
    /\ UNCHANGED <<kind, osVars, home, podmanVars, waitVars, unclean>>

\* What SIGKILL has not ended by now is residue.
ProbeLast ==
    /\ pc = "probe_last"
    /\ unclean' = (unclean \/ Running # {})
    /\ Goto(AfterGroup)
    /\ UNCHANGED <<kind, osVars, home, podmanVars, waitVars>>

\* Removing it fails, or the user's own login changed meanwhile.
CleanHome ==
    /\ pc = "clean_home"
    /\ \/ home' = "absent" /\ UNCHANGED unclean
       \/ home' \in {"absent", "present"} /\ unclean' = TRUE
    /\ Goto("judge")
    /\ UNCHANGED <<kind, osVars, podmanVars, waitVars>>

\* The first command that fails ends the cleaning.
RmVerifier ==
    /\ pc = "rm_verifier"
    /\ \/ /\ verifier' = "absent"
          /\ Goto(IF kind = "podman" THEN "verify_residue" ELSE "rm_service")
       \/ verifier' \in {"absent", verifier} /\ Return("infra")
    /\ UNCHANGED <<kind, osVars, home, network, service, waitVars, unclean>>

RmService ==
    /\ pc = "rm_service"
    /\ \/ service' = "absent" /\ Goto("rm_network")
       \/ service' \in {"absent", service} /\ Return("infra")
    /\ UNCHANGED <<kind, osVars, home, network, verifier, waitVars, unclean>>

RmNetwork ==
    /\ pc = "rm_network"
    /\ \/ network' = "absent" /\ Goto("verify_residue")
       \/ network' \in {"absent", network} /\ Return("infra")
    /\ UNCHANGED <<kind, osVars, home, service, verifier, waitVars, unclean>>

\* An inspection that fails is no proof either.
VerifyResidue ==
    /\ pc = "verify_residue"
    /\ \/ Left = {} /\ Goto("judge")
       \/ Return("infra")
    /\ UNCHANGED <<kind, osVars, home, podmanVars, waitVars, unclean>>

-----------------------------------------------------------------------------
(* The verdict. "passed" is also the completed execution of Codex, for which every
   failure is an infra_error (assertCodexTransportCompleted). *)

Failing == stop \cap {"timeout", "output_bound"} # {} \/ settled = "forced" \/ exit # "zero"

Judge ==
    /\ pc = "judge"
    /\ Return(IF unclean \/ settled = "error" THEN "infra"
              ELSE IF ~Failing THEN "passed"
              ELSE IF kind = "codex" THEN "infra" ELSE "failed")
    /\ UNCHANGED <<kind, osVars, home, podmanVars, waitVars, unclean>>

-----------------------------------------------------------------------------
(* Processes and containers, on their own *)

\* A running process that holds the pipes may pass them on.
ForkHelper ==
    /\ kind \notin PodmanKinds
    /\ child = "running" /\ "child" \notin doomed /\ helper = "none"
    /\ helper' \in {"piped", "silent"}
    /\ UNCHANGED <<kind, child, exit, stray, doomed, home, podmanVars, pc, waitVars, unclean, outcome>>

ForkStray ==
    /\ kind \notin PodmanKinds /\ stray = "none"
    /\ \/ child = "running" /\ "child" \notin doomed
       \/ helper = "piped" /\ "helper" \notin doomed
    /\ stray' = "piped"
    /\ UNCHANGED <<kind, child, exit, helper, doomed, home, podmanVars, pc, waitVars, unclean, outcome>>

ChildEnds ==
    /\ child = "running"
    /\ exit' \in IF "child" \in doomed \/ verifier = "present" THEN {"other"} ELSE {"zero", "other"}
    /\ child' = "gone"
    /\ UNCHANGED <<kind, helper, stray, doomed, home, podmanVars, pc, waitVars, unclean, outcome>>

\* Who ends lets go of the pipes.
HelperEnds ==
    /\ helper # "none" /\ helper' = "none"
    /\ doomed' = doomed \ {"helper"}
    /\ UNCHANGED <<kind, child, exit, stray, home, podmanVars, pc, waitVars, unclean, outcome>>

StrayEnds ==
    /\ stray # "none" /\ stray' = "none"
    /\ UNCHANGED <<kind, child, exit, helper, doomed, home, podmanVars, pc, waitVars, unclean, outcome>>

\* The Podman client creates the container, which removes itself when it ends.
ContainerStarts ==
    /\ kind \in PodmanKinds
    /\ child = "running" /\ "child" \notin doomed /\ verifier = "absent"
    /\ verifier' = "present"
    /\ UNCHANGED <<kind, osVars, home, network, service, pc, waitVars, unclean, outcome>>

ContainerEnds ==
    /\ verifier = "present" /\ verifier' = "absent"
    /\ UNCHANGED <<kind, osVars, home, network, service, pc, waitVars, unclean, outcome>>

Terminated == pc = "returned" /\ UNCHANGED vars

-----------------------------------------------------------------------------

Init ==
    /\ kind \in Kinds
    /\ child = "none" /\ exit = "none" /\ helper = "none" /\ stray = "none" /\ doomed = {}
    /\ home = "absent" /\ network = "absent" /\ service = "absent" /\ verifier = "absent"
    /\ pc = CASE kind = "codex"          -> "make_home"
              [] kind = "podman_service" -> "create_network"
              [] OTHER                   -> "spawn"
    /\ stop = {} /\ timers = {} /\ settled = "none" /\ unclean = FALSE /\ outcome = "none"

Preparing == MakeHome \/ CreateNetwork \/ StartService \/ AwaitService \/ UndoService \/ UndoNetwork
Waiting   == Timeout \/ KillTimer \/ SettleTimer \/ Close \/ ErrorEvent
Cleaning  == Probe \/ ProbeAgain \/ ProbeLast \/ CleanHome \/ RmVerifier \/ RmService
             \/ RmNetwork \/ VerifyResidue

\* The supervisor's own steps: its timers fire, its callbacks run.
Supervise == Preparing \/ Spawn \/ Waiting \/ Cleaning \/ Judge

Surroundings == Abort \/ OutputExceeded \/ StdinError
System       == ForkHelper \/ ForkStray \/ ChildEnds \/ HelperEnds \/ StrayEnds
                \/ ContainerStarts \/ ContainerEnds

Next == Supervise \/ Surroundings \/ System \/ Terminated

Spec == Init /\ [][Next]_vars

\* Nobody has to end by itself, but SIGKILL ends whom it reached.
FairSpec ==
    /\ Spec
    /\ WF_vars(Supervise)
    /\ WF_vars("child" \in doomed /\ ChildEnds)
    /\ WF_vars("helper" \in doomed /\ HelperEnds)

-----------------------------------------------------------------------------
(* Properties *)

TypeOK ==
    /\ kind \in Kinds
    /\ child \in {"none", "running", "gone"} /\ exit \in {"none", "zero", "other"}
    /\ helper \in {"none", "piped", "silent"} /\ stray \in {"none", "piped"}
    /\ doomed \subseteq {"child", "helper"}
    /\ {home, network, service, verifier} \subseteq {"absent", "present"}
    /\ pc \in Labels
    /\ stop \subseteq {"timeout", "output_bound", "abort"}
    /\ timers \subseteq IF pc = "waiting" THEN {"kill", "settle"} ELSE {}
    /\ settled \in {"none", "closed", "forced", "error"}
    /\ unclean \in BOOLEAN
    /\ outcome \in {"none", "passed", "failed", "infra"}

\* A pass rests on the whole run of the child: it ended by itself with code zero within
\* its limits, and everything that could still write to its pipes is gone, whatever
\* timers, abort and output did meanwhile (requestStop, the "close" event, buildResult).
PassIsWhole ==
    outcome = "passed" =>
        /\ child = "gone" /\ exit = "zero" /\ ~PipesHeld
        /\ stop \subseteq {"abort"}

\* "descendant residue is terminated and an uncleanable group fails closed instead of
\* producing a pass": a verdict leaves nothing behind in the process group, the Codex home
\* or Podman (cleanProcessTree, cleanupFunction, verifyNoResidue). A Spring verifier
\* on the host gives no such promise.
VerdictLeavesNothing ==
    outcome \in {"passed", "failed"} /\ kind # "spring" =>
        /\ kind \in GroupKinds => Running = {}
        /\ Left = {}

\* Every call ends, though its child ignores signals or a stray keeps its pipes open;
\* Codex alone waits for the pipes.
CallEnds ==
    \/ pc = "waiting" ~> pc = "returned"
    \/ <>[](kind = "codex" /\ child = "gone" /\ PipesHeld)

=============================================================================
