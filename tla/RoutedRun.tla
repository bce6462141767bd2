------------------------------ MODULE RoutedRun ------------------------------
(* A routed run: the pack of its task sizes the route that its policy selects, the selection
   is frozen in the run's plan, and every call on the run executes that route, however the
   adapters of the machine change (src/core/route-selector.js, run-orchestrator.js,
   src/contracts/execution-policy.js).

   A call resolves the selection once, into an executor that may be handed on and invoked by
   several callers. What the executor does with the run is RunOrchestrator's.

   A definition X_Y is a faulty variant of X. *)
EXTENDS Localization

CONSTANTS
    Requests,       \* routeRequest and the run's own features: policy, reason, paths, tier
    Registries,     \* the adapters a machine may offer: [adapter -> [kind, models, usable]]
    Calls,          \* calls of runHarness or resumeHarness on the run
    Invokers        \* who may invoke the executor of a call

ASSUME RouteAssumption ==     \* validateExecutionPolicy: an ordered list of routes
    \A r \in Requests : r.policy \in Seq(ToSet(r.policy)) \ {<<>>}

VARIABLES
    request,
    plan,           \* the selection frozen in the workflow plan, or Nothing
    routePc,        \* per call
    executor,       \* per call: what resolveExecutionRoute made of the selection
    invoked,        \* per call: the flag of createOneAttemptRoutedExecutor
    invocations,    \* per call and invoker: how its invocation stands
    ended           \* the run is verified or has its receipt

routeVars == <<request, plan, routePc, executor, invoked, invocations, ended>>
vars == <<packVars, routeVars>>

-----------------------------------------------------------------------------
(* selectExecutionRoute *)

\* deriveRouteFeatures: a run without a pack has no context.
Features(p) ==
    [context |-> IF p = Nothing THEN 0 ELSE p.total_bytes,
     paths   |-> request.paths, tier |-> request.tier]

\* A constraint a route leaves out is Nothing.
RouteMatches(route, features) ==
    /\ route.reason = request.reason
    /\ route.max_context = Nothing \/ features.context <= route.max_context
    /\ route.max_paths = Nothing \/ features.paths <= route.max_paths
    /\ route.tiers = Nothing \/ features.tier \in route.tiers

Matching(features) ==
    {i \in DOMAIN request.policy : RouteMatches(request.policy[i], features)}

\* Routes are ordered: the first that matches is selected.
SelectExecutionRoute(features) ==
    LET route == request.policy[Min(Matching(features))]
    IN  [adapter |-> route.adapter, model |-> route.model, features |-> features]

\* resolveExecutionRoute; reasoning efforts are listed as models are.
Resolvable(selection, registry) ==
    /\ selection.adapter \in DOMAIN registry
    /\ selection.model \in registry[selection.adapter].models
    /\ registry[selection.adapter].usable

ExecutorOf(selection, registry) ==
    [adapter |-> selection.adapter, model |-> selection.model,
     kind |-> registry[selection.adapter].kind]

-----------------------------------------------------------------------------
(* runHarness and resumeHarness *)

Ends(c, how) == routePc' = [routePc EXCEPT ![c] = how]
Executes(c, selection, registry) ==
    Ends(c, "executing") /\ executor' = [executor EXCEPT ![c] = ExecutorOf(selection, registry)]

\* The run freezes the project as it is now; a pack must be of this project.
MayCreate(given, registry) ==
    LET features == Features(given)
    IN  /\ given = Nothing \/ edited = {}
        /\ Matching(features) # {}
        /\ Resolvable(SelectExecutionRoute(features), registry)

RunRouted(c) ==
    /\ routePc[c] = "idle" /\ plan = Nothing
    /\ \E given \in {Nothing} \cup (IF packPc = "packed" THEN {pack} ELSE {}),
          registry \in Registries :
            LET selection == SelectExecutionRoute(Features(given))
            IN  \/ /\ MayCreate(given, registry)
                   /\ plan' = [selection |-> selection, source |-> edited,
                               kind |-> registry[selection.adapter].kind]
                   /\ Executes(c, selection, registry)
                \/ ~MayCreate(given, registry) /\ Ends(c, "refused") /\ UNCHANGED <<plan, executor>>
    /\ UNCHANGED <<packVars, request, invoked, invocations, ended>>

\* loadResumeContext compares the project, resumeHarness the kind of the adapter.
MayResume(registry) ==
    /\ edited = plan.source
    /\ Resolvable(plan.selection, registry)
    /\ registry[plan.selection.adapter].kind = plan.kind

\* A call on a run that is verified or has its receipt resolves no route and executes nothing.
ResumeRouted(c) ==
    /\ routePc[c] = "idle" /\ plan # Nothing
    /\ \E registry \in Registries :
            \/ ~ended /\ MayResume(registry) /\ Executes(c, plan.selection, registry)
            \/ ended /\ edited = plan.source /\ Ends(c, "finished") /\ UNCHANGED executor
            \/ /\ edited # plan.source \/ (~ended /\ ~MayResume(registry))
               /\ Ends(c, "refused") /\ UNCHANGED executor
    /\ UNCHANGED <<packVars, request, plan, invoked, invocations, ended>>

-----------------------------------------------------------------------------
(* createOneAttemptRoutedExecutor *)

Invocation(c, v, from, to) ==
    /\ routePc[c] = "executing" /\ invocations[c][v] = from
    /\ invocations' = [invocations EXCEPT ![c][v] = to]
    /\ UNCHANGED <<packVars, request, plan, routePc, executor>>

\* The flag is set when the executor has answered.
Invoke_FlagsLate(c, v) ==
    /\ Invocation(c, v, "none", IF invoked[c] THEN "refused" ELSE "running")
    /\ UNCHANGED <<invoked, ended>>

Invoke(c, v) ==
    /\ Invocation(c, v, "none", IF invoked[c] THEN "refused" ELSE "running")
    /\ invoked' = [invoked EXCEPT ![c] = TRUE]
    /\ UNCHANGED ended

\* The executor answers or fails; an answer may bring the run to verified.
Answer(c, v) ==
    /\ Invocation(c, v, "running", "answered") \/ Invocation(c, v, "running", "failed")
    /\ ended' \in {ended, ended \/ invocations'[c][v] = "answered"}
    /\ UNCHANGED invoked

-----------------------------------------------------------------------------

Init ==
    /\ PackInit
    /\ request \in Requests
    /\ plan = Nothing /\ ended = FALSE
    /\ routePc = [c \in Calls |-> "idle"]
    /\ executor = [c \in Calls |-> Nothing]
    /\ invoked = [c \in Calls |-> FALSE]
    /\ invocations = [c \in Calls |-> [v \in Invokers |-> "none"]]

Next ==
    \/ (ScanFile \/ Select \/ Validate \/ \E i \in Files : EditFile(i)) /\ UNCHANGED routeVars
    \/ \E c \in Calls :
            \/ RunRouted(c) \/ ResumeRouted(c)
            \/ \E v \in Invokers : Invoke(c, v) \/ Answer(c, v)

Spec == Init /\ [][Next]_vars

-----------------------------------------------------------------------------
(* Properties *)

\* An executor runs at most once, though its invocations overlap.
ExecutesOnce ==
    \A c \in Calls : \A v, w \in Invokers :
        v # w => invocations[c][v] \in {"none", "refused"} \/ invocations[c][w] \in {"none", "refused"}

\* Whatever adapters are offered when a run is taken up again, it is executed by the route,
\* the model and the kind of executor it was created with, once per call; and that route
\* allows the bytes of the pack it was selected for, which is of the project the run froze.
RouteIsKept ==
    /\ ExecutesOnce
    /\ \A c \in Calls : executor[c] # Nothing =>
            executor[c] = [adapter |-> plan.selection.adapter, model |-> plan.selection.model,
                           kind |-> plan.kind]
    /\ plan # Nothing /\ plan.selection.features.context > 0 =>
            /\ packPc = "packed" /\ plan.source = {}
            /\ \E route \in ToSet(request.policy) :
                    /\ route.adapter = plan.selection.adapter /\ route.model = plan.selection.model
                    /\ route.max_context = Nothing \/ pack.total_bytes <= route.max_context

=============================================================================
