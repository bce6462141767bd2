-------------------------- MODULE RoutedRun_proofs --------------------------
(* Theorems about RoutedRun and Localization, for every project, policy and set of machines:
   a run is executed by the route it was created with, once per call; and a pack holds bytes
   of the frozen project only, passes its own validator, and says that it was cut exactly
   when it was.

   The functions a pack is built with are recursive over lines, ranges and files. What each
   of them computes is proved by an invariant over its argument and UpTo, an induction over
   the numbers up to a bound that is stated for a set and so needs no operator parameter. *)
EXTENDS RoutedRun, WellFoundedInduction, FiniteSetTheorems, TLAPS

\* A set of naturals that is not empty has its minimum.
LEMMA MinIsLeast ==
  ASSUME NEW S \in SUBSET Nat, S # {}
  PROVE  Min(S) \in S /\ \A k \in S : Min(S) <= k
<1> DEFINE R == OpToRel(<, Nat)
<1>1. \A a, b \in Nat : a < b => <<a, b>> \in R
  <2>1. R = {ss \in Nat \X Nat : ss[1] < ss[2]}
    BY DEF OpToRel
  <2> HIDE DEF R
  <2>. QED  BY <2>1
<1>2. IsWellFoundedOn(R, Nat)
  BY NatLessThanWellFounded
<1> HIDE DEF R
<1>3. PICK m \in S : \A k \in S : ~(<<k, m>> \in R)
  BY <1>2, WFMin
<1>4. \A k \in S : m <= k
  <2> SUFFICES ASSUME NEW k \in S PROVE m <= k
    OBVIOUS
  <2>1. m \in Nat /\ k \in Nat /\ ~(k < m)
    BY <1>1, <1>3
  <2>. QED  BY <2>1
<1>. QED  BY <1>4 DEF Min

-----------------------------------------------------------------------------
(* The route that is selected *)

\* The first route that matches is one of the policy, and it matches.
LEMMA SelectedMatches ==
  ASSUME request \in Requests, NEW features, Matching(features) # {}
  PROVE  LET i == Min(Matching(features))
         IN  i \in DOMAIN request.policy /\ RouteMatches(request.policy[i], features)
<1>1. request.policy \in Seq(ToSet(request.policy))
  BY RouteAssumption
<1>2. DOMAIN request.policy = 1 .. Len(request.policy) /\ Len(request.policy) \in Nat
  BY <1>1
<1>3. Matching(features) \in SUBSET Nat
  BY <1>2 DEF Matching
<1>4. Min(Matching(features)) \in Matching(features)
  BY <1>3, MinIsLeast
<1>. QED  BY <1>4 DEF Matching

-----------------------------------------------------------------------------
(* What a call executes *)

\* The flag of an executor is up as soon as one of its invocations runs, and only one does.
OnceAt(c) ==
    /\ \A v \in Invokers : invocations[c][v] \notin {"none", "refused"} => invoked[c]
    /\ \A v, w \in Invokers :
          v # w => invocations[c][v] \in {"none", "refused"} \/ invocations[c][w] \in {"none", "refused"}

\* The executor of a call is the one the plan names; without a plan there is none.
ExecutorAt(c) ==
    executor[c] # Nothing =>
        /\ plan # Nothing
        /\ executor[c] = [adapter |-> plan.selection.adapter, model |-> plan.selection.model,
                          kind |-> plan.kind]

\* A plan that was sized by a pack stands beside that pack.
SizedByPack ==
    plan # Nothing /\ plan.selection.features.context > 0 =>
        /\ packPc = "packed" /\ plan.source = {}
        /\ \E route \in ToSet(request.policy) :
                /\ route.adapter = plan.selection.adapter /\ route.model = plan.selection.model
                /\ route.max_context = Nothing \/ pack.total_bytes <= route.max_context

RouteInv ==
    /\ request \in Requests
    /\ invoked \in [Calls -> BOOLEAN]
    /\ invocations \in [Calls -> [Invokers -> {"none", "refused", "running", "answered", "failed"}]]
    /\ executor = [c \in Calls |-> executor[c]]
    /\ \A c \in Calls : OnceAt(c) /\ ExecutorAt(c)
    /\ SizedByPack

LEMMA InitRouteInv == Init => RouteInv
  BY DEF Init, RouteInv, OnceAt, ExecutorAt, SizedByPack

\* What a run creates is sized by the pack it was given.
LEMMA CreatedIsSized ==
  ASSUME request \in Requests, NEW given, NEW registry, MayCreate(given, registry),
         given # Nothing => packPc = "packed" /\ given = pack,
         SelectExecutionRoute(Features(given)).features.context > 0
  PROVE  /\ packPc = "packed" /\ edited = {}
         /\ \E route \in ToSet(request.policy) :
                /\ route.adapter = SelectExecutionRoute(Features(given)).adapter
                /\ route.model = SelectExecutionRoute(Features(given)).model
                /\ route.max_context = Nothing \/ pack.total_bytes <= route.max_context
<1> DEFINE features == Features(given)
           route    == request.policy[Min(Matching(features))]
<1>1. SelectExecutionRoute(features).features.context = features.context
      /\ SelectExecutionRoute(features).adapter = route.adapter
      /\ SelectExecutionRoute(features).model = route.model
  BY DEF SelectExecutionRoute
<1>2. given # Nothing
  <2>1. features.context # 0
    BY <1>1
  <2>. QED  BY <2>1 DEF Features
<1>3. packPc = "packed" /\ edited = {} /\ features.context = pack.total_bytes
  BY <1>2 DEF MayCreate, Features
<1>4. route \in ToSet(request.policy) /\ RouteMatches(route, features)
  BY SelectedMatches DEF MayCreate, ToSet
<1>. QED  BY <1>1, <1>3, <1>4 DEF RouteMatches

\* Nothing stands for no plan, so that it is not one.
NothingIsNoPlan ==
    \A selection, source, kind :
        Nothing # [selection |-> selection, source |-> source, kind |-> kind]

LEMMA RunKeepsRoute ==
  ASSUME NothingIsNoPlan, RouteInv, NEW c \in Calls, RunRouted(c)
  PROVE  RouteInv'
<1>1. PICK given \in {Nothing} \cup (IF packPc = "packed" THEN {pack} ELSE {}),
           registry \in Registries :
      LET selection == SelectExecutionRoute(Features(given))
      IN  \/ /\ MayCreate(given, registry)
             /\ plan' = [selection |-> selection, source |-> edited,
                         kind |-> registry[selection.adapter].kind]
             /\ Executes(c, selection, registry)
          \/ ~MayCreate(given, registry) /\ Ends(c, "refused") /\ UNCHANGED <<plan, executor>>
  BY DEF RunRouted
<1>2. UNCHANGED <<request, invoked, invocations, packPc, pack>> /\ plan = Nothing
  BY DEF RunRouted, packVars
<1>3. \A d \in Calls : OnceAt(d)'
  BY <1>2 DEF RouteInv, OnceAt
<1>4. CASE UNCHANGED <<plan, executor>>
  BY <1>2, <1>3, <1>4 DEF RouteInv, ExecutorAt, SizedByPack
<1>5. CASE /\ MayCreate(given, registry)
           /\ plan' = [selection |-> SelectExecutionRoute(Features(given)), source |-> edited,
                       kind |-> registry[SelectExecutionRoute(Features(given)).adapter].kind]
           /\ Executes(c, SelectExecutionRoute(Features(given)), registry)
  <2> DEFINE selection == SelectExecutionRoute(Features(given))
  <2>1. executor' = [executor EXCEPT ![c] = [adapter |-> selection.adapter, model |-> selection.model,
                                             kind |-> registry[selection.adapter].kind]]
    BY <1>5 DEF Executes, ExecutorOf
  <2>2. /\ plan' # Nothing /\ plan'.selection = selection /\ plan'.source = edited
        /\ plan'.kind = registry[selection.adapter].kind
    BY <1>5 DEF NothingIsNoPlan
  <2> HIDE DEF selection
  <2>3. ASSUME NEW d \in Calls PROVE ExecutorAt(d)'
    <3>1. d # c => executor'[d] = Nothing
      BY <1>2, <2>1 DEF RouteInv, ExecutorAt
    <3>2. executor'[c] = [adapter |-> selection.adapter, model |-> selection.model,
                          kind |-> registry[selection.adapter].kind]
      BY <2>1 DEF RouteInv
    <3>. QED  BY <2>2, <3>1, <3>2 DEF ExecutorAt
  <2>4. SizedByPack'
    BY <1>2, <1>5, <2>2, CreatedIsSized DEF SizedByPack, selection, RouteInv
  <2>5. executor' = [d \in Calls |-> executor'[d]]
    BY <2>1 DEF RouteInv
  <2>. QED  BY <1>2, <1>3, <2>3, <2>4, <2>5 DEF RouteInv
<1>. QED  BY <1>1, <1>4, <1>5

LEMMA ResumeKeepsRoute ==
  ASSUME RouteInv, NEW c \in Calls, ResumeRouted(c)
  PROVE  RouteInv'
<1>1. /\ UNCHANGED <<request, plan, invoked, invocations, packPc, pack>> /\ plan # Nothing
  BY DEF ResumeRouted, packVars
<1>2. \A d \in Calls : OnceAt(d)'
  BY <1>1 DEF RouteInv, OnceAt
<1>3. SizedByPack'
  BY <1>1 DEF RouteInv, SizedByPack
<1>4. CASE UNCHANGED executor
  BY <1>1, <1>2, <1>3, <1>4 DEF RouteInv, ExecutorAt
<1>5. CASE ~UNCHANGED executor
  <2>1. PICK registry \in Registries : MayResume(registry) /\ Executes(c, plan.selection, registry)
    BY <1>5 DEF ResumeRouted
  <2>2. executor' = [executor EXCEPT ![c] =
              [adapter |-> plan.selection.adapter, model |-> plan.selection.model, kind |-> plan.kind]]
    BY <2>1 DEF MayResume, Executes, ExecutorOf
  <2>3. \A d \in Calls : ExecutorAt(d)'
    BY <1>1, <2>2 DEF RouteInv, ExecutorAt
  <2>4. executor' = [d \in Calls |-> executor'[d]]
    BY <2>2 DEF RouteInv
  <2>. QED  BY <1>1, <1>2, <1>3, <2>3, <2>4 DEF RouteInv
<1>. QED  BY <1>4, <1>5

\* A second invocation is refused by the flag, also while the first one runs.
LEMMA InvocationKeepsRoute ==
  ASSUME RouteInv, NEW c \in Calls, NEW v \in Invokers, Invoke(c, v) \/ Answer(c, v)
  PROVE  RouteInv'
<1>1. UNCHANGED <<request, plan, executor, packPc, pack>>
  BY DEF Invoke, Answer, Invocation, packVars
<1>2. (\A d \in Calls : ExecutorAt(d)') /\ SizedByPack'
  BY <1>1 DEF RouteInv, ExecutorAt, SizedByPack
<1>3. PICK to \in {"refused", "running", "answered", "failed"} :
          invocations' = [invocations EXCEPT ![c][v] = to]
  BY DEF Invoke, Answer, Invocation
<1>4. /\ \/ to = "refused" \/ (to = "running" /\ ~invoked[c] /\ invoked'[c])
         \/ invocations[c][v] = "running"
      /\ invoked' \in [Calls -> BOOLEAN] /\ \A d \in Calls : invoked[d] => invoked'[d]
  BY <1>3 DEF Invoke, Answer, Invocation, RouteInv
<1>5. /\ invocations' \in [Calls -> [Invokers -> {"none", "refused", "running", "answered", "failed"}]]
      /\ invocations'[c][v] = to
      /\ \A d \in Calls, w \in Invokers :
            d # c \/ w # v => invocations'[d][w] = invocations[d][w]
  BY <1>3 DEF RouteInv
<1>6. ASSUME NEW d \in Calls PROVE OnceAt(d)'
  <2>1. OnceAt(d)
    BY DEF RouteInv
  <2>2. CASE d # c
    BY <1>4, <1>5, <2>1, <2>2 DEF OnceAt
  <2>3. CASE d = c /\ to = "refused"
    BY <1>4, <1>5, <2>1, <2>3 DEF OnceAt
  <2>4. CASE d = c /\ to = "running" /\ ~invoked[c] /\ invoked'[c]
    <3>1. \A w \in Invokers : invocations[c][w] \in {"none", "refused"}
      BY <2>1, <2>4 DEF OnceAt
    <3>2. \A w \in Invokers \ {v} : invocations'[c][w] \in {"none", "refused"}
      BY <1>5, <3>1
    <3>. QED  BY <2>4, <3>2 DEF OnceAt
  <2>5. CASE d = c /\ invocations[c][v] = "running"
    <3>1. invoked'[c] /\ \A w \in Invokers \ {v} : invocations[c][w] \in {"none", "refused"}
      BY <1>4, <2>1, <2>5 DEF OnceAt
    <3>2. \A w \in Invokers \ {v} : invocations'[c][w] \in {"none", "refused"}
      BY <1>5, <3>1
    <3>. QED  BY <2>5, <3>1, <3>2 DEF OnceAt
  <2>. QED  BY <1>4, <2>2, <2>3, <2>4, <2>5
<1>. QED  BY <1>1, <1>2, <1>4, <1>5, <1>6 DEF RouteInv

\* Once a pack is made it stays as it is; what is edited later is not in it.
LEMMA PackingKeepsRoute ==
  ASSUME RouteInv, ScanFile \/ Select \/ Validate \/ \E i \in Files : EditFile(i),
         UNCHANGED routeVars
  PROVE  RouteInv'
<1>1. packPc = "packed" => UNCHANGED <<packPc, pack>>
  BY DEF ScanFile, Select, Validate, EditFile
<1>. QED
  BY <1>1 DEF routeVars, RouteInv, OnceAt, ExecutorAt, SizedByPack

LEMMA NextRouteInv ==
  ASSUME NothingIsNoPlan, RouteInv, [Next]_vars
  PROVE  RouteInv'
<1>1. ASSUME UNCHANGED vars PROVE RouteInv'
  BY <1>1 DEF vars, packVars, routeVars, RouteInv, OnceAt, ExecutorAt, SizedByPack
<1>. QED
  BY <1>1, RunKeepsRoute, ResumeKeepsRoute, InvocationKeepsRoute, PackingKeepsRoute DEF Next

\* Whatever adapters are offered when a run is taken up again, it is executed by the route,
\* the model and the kind of executor it was created with, once per call; and that route
\* allows the bytes of the pack it was selected for, which is of the project the run froze.
THEOREM RoutesAreKept ==
  ASSUME NothingIsNoPlan
  PROVE  Spec => []RouteIsKept
<1>1. RouteInv /\ [Next]_vars => RouteInv'
  BY NextRouteInv
<1>2. RouteInv => RouteIsKept
  BY DEF RouteInv, OnceAt, ExecutorAt, SizedByPack, RouteIsKept, ExecutesOnce
<1>. QED  BY InitRouteInv, <1>1, <1>2, PTL DEF Spec

-----------------------------------------------------------------------------
(* Induction *)

\* A set that holds 0 and with a number below n its successor holds all numbers up to n.
LEMMA UpTo ==
  ASSUME NEW n \in Nat, NEW P, 0 \in P, \A k \in 0 .. n - 1 : k \in P => k + 1 \in P
  PROVE  \A k \in 0 .. n : k \in P
<1> DEFINE S == (0 .. n) \ P
<1> SUFFICES ASSUME S # {} PROVE FALSE
  OBVIOUS
<1>0. S \in SUBSET Nat
  OBVIOUS
<1> HIDE DEF S
<1>1. PICK m \in S : \A k \in S : m <= k
  BY <1>0, MinIsLeast
<1> USE DEF S
<1>2. m - 1 \in P /\ m - 1 \in 0 .. n - 1
  BY <1>1
<1>. QED  BY <1>1, <1>2

\* The greatest of a set of numbers with a bound.
LEMMA MaxIsGreatest ==
  ASSUME NEW S \in SUBSET Nat, S # {}, NEW b \in Nat, \A x \in S : x <= b
  PROVE  Max(S) \in S /\ \A x \in S : x <= Max(S)
<1> DEFINE D == {b - x : x \in S}
<1>1. D \in SUBSET Nat /\ D # {}
  OBVIOUS
<1>2. Min(D) \in D /\ \A d \in D : Min(D) <= d
  BY <1>1, MinIsLeast
<1>3. PICK m \in S : Min(D) = b - m
  BY <1>2
<1>4. \A x \in S : m >= x
  <2> SUFFICES ASSUME NEW x \in S PROVE m >= x
    OBVIOUS
  <2>1. Min(D) <= b - x
    BY <1>2
  <2> HIDE DEF D
  <2>. QED  BY <1>3, <2>1
<1>. QED  BY <1>4 DEF Max

\* The greater of two numbers.
LEMMA MaxOfTwo ==
  ASSUME NEW a \in Int, NEW b \in Int
  PROVE  Max({a, b}) = IF a >= b THEN a ELSE b
BY DEF Max

\* The less of two numbers.
LEMMA MinOfTwo ==
  ASSUME NEW a \in Int, NEW b \in Int
  PROVE  Min({a, b}) = IF a <= b THEN a ELSE b
BY DEF Min

-----------------------------------------------------------------------------
(* Recursive functions *)

\* The function that adds up values is what its definition says.
LEMMA SumsExist ==
  ASSUME NEW n \in Nat, NEW value
  PROVE  Sums(n, value) = [k \in 0 .. n |-> IF k = 0 THEN 0 ELSE Sums(n, value)[k - 1] + value[k]]
<1> DEFINE Body(g, m) == [k \in 0 .. m |-> IF k = 0 THEN 0 ELSE g[k - 1] + value[k]]
           Fits(g, m) == g = Body(g, m)
           P == {m \in Nat : \E g : Fits(g, m)}
<1>1. 0 \in P
  <2>1. [k \in 0 .. 0 |-> 0] = Body([k \in 0 .. 0 |-> 0], 0)
    OBVIOUS
  <2>. QED  BY <2>1
<1>2. ASSUME NEW m \in 0 .. n - 1, m \in P PROVE m + 1 \in P
  <2>1. PICK g : g = Body(g, m)
    BY <1>2
  <2> DEFINE h == [k \in 0 .. m + 1 |-> IF k = m + 1 THEN g[m] + value[k] ELSE g[k]]
  <2>2. \A k \in 0 .. m : g[k] = IF k = 0 THEN 0 ELSE g[k - 1] + value[k]
    BY <2>1
  <2>3. \A k \in 0 .. m + 1 : h[k] = IF k = 0 THEN 0 ELSE h[k - 1] + value[k]
    BY <2>2
  <2>4. Fits(h, m + 1)
    BY <2>3
  <2> HIDE DEF Fits, h
  <2>. QED  BY <2>4
<1>3. \E g : g = Body(g, n)
  <2> HIDE DEF P
  <2>1. n \in P
    BY <1>1, <1>2, UpTo
  <2>. QED  BY <2>1 DEF P
<1>. QED  BY <1>3 DEF Sums

\* A sum starts at nothing and grows by one value at a time.
LEMMA SumSteps ==
  ASSUME NEW n \in Nat, NEW value \in [1 .. n -> Int]
  PROVE  /\ Sums(n, value)[0] = 0
         /\ \A k \in 0 .. n : Sums(n, value)[k] \in Int
         /\ \A k \in 1 .. n : Sums(n, value)[k] = Sums(n, value)[k - 1] + value[k]
<1> DEFINE s == Sums(n, value)
           P == {k \in 0 .. n : s[k] \in Int}
<1>1. s = [k \in 0 .. n |-> IF k = 0 THEN 0 ELSE s[k - 1] + value[k]]
  BY SumsExist
<1> HIDE DEF s
<1>2. s[0] = 0 /\ \A k \in 1 .. n : s[k] = s[k - 1] + value[k]
  BY <1>1
<1>3. 0 \in P /\ \A k \in 0 .. n - 1 : k \in P => k + 1 \in P
  BY <1>2
<1>4. \A k \in 0 .. n : k \in P
  <2> HIDE DEF P
  <2>. QED  BY <1>3, UpTo
<1>. QED  BY <1>2, <1>4 DEF s

\* The sums of two sequences of values agree as far as the values do.
LEMMA SumsAgree ==
  ASSUME NEW n \in Nat, NEW m \in Nat, NEW v \in [1 .. n -> Int], NEW w \in [1 .. m -> Int],
         NEW j \in Nat, j <= n, j <= m, \A k \in 1 .. j : v[k] = w[k]
  PROVE  Sums(n, v)[j] = Sums(m, w)[j]
<1> DEFINE s == Sums(n, v)
           t == Sums(m, w)
           P == {k \in 0 .. j : s[k] = t[k]}
<1>1. /\ s[0] = 0 /\ \A k \in 1 .. n : s[k] = s[k - 1] + v[k]
      /\ t[0] = 0 /\ \A k \in 1 .. m : t[k] = t[k - 1] + w[k]
  BY SumSteps
<1> HIDE DEF s, t
<1>2. 0 \in P /\ \A k \in 0 .. j - 1 : k \in P => k + 1 \in P
  BY <1>1
<1>3. \A k \in 0 .. j : k \in P
  <2> HIDE DEF P
  <2>. QED  BY <1>2, UpTo
<1>. QED  BY <1>3 DEF s, t

\* One value more.
LEMMA SumGrows ==
  ASSUME NEW n \in Nat, NEW v \in [1 .. n -> Int], NEW w \in [1 .. n + 1 -> Int],
         \A k \in 1 .. n : v[k] = w[k]
  PROVE  SumTo(n + 1, w) = SumTo(n, v) + w[n + 1]
<1>1. Sums(n + 1, w)[n + 1] = Sums(n + 1, w)[n] + w[n + 1]
  BY SumSteps, n + 1 \in 1 .. n + 1, (n + 1) - 1 = n, n + 1 \in Nat
<1>2. Sums(n, v)[n] = Sums(n + 1, w)[n]
  BY SumsAgree
<1>. QED  BY <1>1, <1>2 DEF SumTo

\* One value another.
LEMMA SumChanges ==
  ASSUME NEW n \in Nat, NEW v \in [1 .. n -> Int], NEW w \in [1 .. n -> Int],
         NEW i \in 1 .. n, \A k \in (1 .. n) \ {i} : v[k] = w[k]
  PROVE  SumTo(n, w) = SumTo(n, v) + w[i] - v[i]
<1> DEFINE s == Sums(n, v)
           t == Sums(n, w)
           P == {k \in 0 .. n : t[k] = IF k < i THEN s[k] ELSE s[k] + w[i] - v[i]}
<1>1. /\ s[0] = 0 /\ \A k \in 1 .. n : s[k] = s[k - 1] + v[k]
      /\ t[0] = 0 /\ \A k \in 1 .. n : t[k] = t[k - 1] + w[k]
      /\ \A k \in 0 .. n : s[k] \in Int /\ t[k] \in Int
  BY SumSteps
<1> HIDE DEF s, t
<1>2. 0 \in P
  BY <1>1
<1>3. ASSUME NEW k \in 0 .. n - 1, k \in P PROVE k + 1 \in P
  <2>1. s[k + 1] = s[k] + v[k + 1] /\ t[k + 1] = t[k] + w[k + 1]
    BY <1>1, k + 1 \in 1 .. n, (k + 1) - 1 = k
  <2>2. s[k] \in Int /\ t[k] \in Int /\ s[k + 1] \in Int /\ v[k + 1] \in Int /\ w[i] \in Int /\ v[i] \in Int
    BY <1>1
  <2>3. k + 1 # i => v[k + 1] = w[k + 1]
    OBVIOUS
  <2>4. t[k] = IF k < i THEN s[k] ELSE s[k] + w[i] - v[i]
    BY <1>3
  <2>5. CASE k + 1 = i
    <3>1. t[k + 1] = s[k] + w[i] /\ s[k + 1] = s[k] + v[i]
      BY <2>1, <2>4, <2>5
    <3>2. ~(k + 1 < i) /\ k + 1 \in 0 .. n
      BY <2>5
    <3>3. t[k + 1] = s[k + 1] + w[i] - v[i]
      BY <2>2, <3>1
    <3>. QED  BY <3>2, <3>3
  <2>6. CASE k + 1 # i
    <3>1. v[k + 1] = w[k + 1] /\ v[k + 1] \in Int
      BY <2>3, <2>6
    <3>2. k < i <=> k + 1 < i
      BY <2>6
    <3>. QED  BY <2>1, <2>2, <2>4, <3>1, <3>2
  <2>. QED  BY <2>5, <2>6
<1>4. \A k \in 0 .. n : k \in P
  <2> HIDE DEF P
  <2>. QED  BY <1>2, <1>3, UpTo
<1>. QED  BY <1>4 DEF s, t, SumTo

\* Nothing but zeros.
LEMMA SumOfZeros ==
  ASSUME NEW n \in Nat, NEW v \in [1 .. n -> Int], \A k \in 1 .. n : v[k] = 0
  PROVE  SumTo(n, v) = 0
<1> DEFINE s == Sums(n, v)
           P == {k \in 0 .. n : s[k] = 0}
<1>1. s[0] = 0 /\ \A k \in 1 .. n : s[k] = s[k - 1] + v[k]
  BY SumSteps
<1> HIDE DEF s
<1>2. 0 \in P /\ \A k \in 0 .. n - 1 : k \in P => k + 1 \in P
  BY <1>1
<1>3. \A k \in 0 .. n : k \in P
  <2> HIDE DEF P
  <2>. QED  BY <1>2, UpTo
<1>. QED  BY <1>3 DEF s, SumTo

-----------------------------------------------------------------------------
(* matchedExcerptRanges *)

Ranges == [start : Nat, end : Nat]

\* What a snapshot and a task make of a file that has bytes.
Shaped(f) ==
    /\ f.ends \in Seq(Nat \ {0}) /\ f.ends # <<>>
    /\ \A k, l \in DOMAIN f.ends : k < l => f.ends[k] < f.ends[l]
    /\ f.bom \in Nat /\ \A k \in DOMAIN f.ends : f.bom <= f.ends[k]
    /\ f.hits \subseteq DOMAIN f.ends
    /\ (f.inside \cup f.seams) \cap ToSet(f.ends) = {}

\* A range ends where a line ends, unless the file has a byte-order mark, and not before it starts.
Whole(f, range) ==
    range \in Ranges /\ range.start <= range.end /\ (f.bom = 0 => range.end \in ToSet(f.ends))

\* The neighbours of a line are a range, and later lines have later ranges.
LEMMA AroundALine ==
  ASSUME NEW f, Shaped(f), NEW h \in DOMAIN f.ends
  PROVE  /\ Whole(f, Around(f, h))
         /\ \A g \in DOMAIN f.ends : g < h =>
                /\ Around(f, g).start <= Around(f, h).start
                /\ Around(f, g).end <= Around(f, h).end
<1> DEFINE n == Len(f.ends)
           a(k) == IF k = 1 THEN 1 ELSE k - 1
           z(k) == IF k + 1 <= n THEN k + 1 ELSE n
<1>1. n \in Nat \ {0} /\ DOMAIN f.ends = 1 .. n /\ \A k \in 1 .. n : f.ends[k] \in Nat \ {0}
  BY DEF Shaped
<1> HIDE DEF n
<1>2. ASSUME NEW k \in 1 .. n
      PROVE  /\ Around(f, k) = [start |-> StartOf(f, a(k)), end |-> LineEnd(f, z(k))]
             /\ a(k) \in 1 .. n /\ z(k) \in 1 .. n
  <2>1. Max({1, k - 1}) = a(k)
    BY <1>1, MaxOfTwo, k - 1 \in Int
  <2>2. Min({n, k + 1}) = z(k)
    BY <1>1, MinOfTwo, k + 1 \in Int
  <2>3. a(k) \in 1 .. n /\ z(k) \in 1 .. n
    BY <1>1
  <2> HIDE DEF a, z
  <2>. QED  BY <2>1, <2>2, <2>3 DEF Around, n
<1>3. \A k, l \in 1 .. n : k < l => f.ends[k] < f.ends[l]
  BY <1>1 DEF Shaped
<1>0. f.bom \in Nat /\ \A k \in 1 .. n : LineEnd(f, k) \in Nat
  <2>1. f.bom \in Nat /\ \A k \in 1 .. n : f.bom <= f.ends[k]
    BY <1>1 DEF Shaped
  <2>. QED  BY <1>1, <2>1 DEF LineEnd
<1>4. \A k, l \in 1 .. n : k <= l => StartOf(f, k) <= StartOf(f, l) /\ LineEnd(f, k) <= LineEnd(f, l)
  <2>1. \A k, l \in 1 .. n : k <= l => LineEnd(f, k) <= LineEnd(f, l)
    <3> SUFFICES ASSUME NEW k \in 1 .. n, NEW l \in 1 .. n, k <= l
                 PROVE  LineEnd(f, k) <= LineEnd(f, l)
      OBVIOUS
    <3>1. f.ends[k] \in Nat /\ f.ends[l] \in Nat /\ f.bom \in Nat
      BY <1>0, <1>1
    <3>2. f.ends[k] <= f.ends[l]
      <4>1. CASE k = l
        BY <3>1, <4>1
      <4>2. CASE k < l
        BY <1>3, <3>1, <4>2
      <4>. QED  BY <4>1, <4>2
    <3>. QED  BY <3>1, <3>2 DEF LineEnd
  <2>. QED  BY <1>0, <1>1, <2>1 DEF StartOf
<1>5. \A k \in 1 .. n : StartOf(f, k) \in Nat /\ StartOf(f, k) <= LineEnd(f, k)
  <2>1. \A k \in 1 .. n : k # 1 => k - 1 \in 1 .. n /\ k - 1 <= k
    BY <1>1
  <2>. QED  BY <1>0, <1>4, <2>1 DEF StartOf
<1>6. Whole(f, Around(f, h))
  <2>1. a(h) <= z(h)
    BY <1>1
  <2>2. StartOf(f, a(h)) \in Nat /\ LineEnd(f, z(h)) \in Nat /\ StartOf(f, a(h)) <= LineEnd(f, z(h))
    <3>1. h \in 1 .. n /\ a(h) \in 1 .. n /\ z(h) \in 1 .. n
      BY <1>1, <1>2
    <3> HIDE DEF a, z
    <3>2. StartOf(f, a(h)) \in Nat /\ StartOf(f, a(h)) <= LineEnd(f, a(h))
      BY <1>5, <3>1
    <3>3. LineEnd(f, a(h)) <= LineEnd(f, z(h)) /\ LineEnd(f, a(h)) \in Nat /\ LineEnd(f, z(h)) \in Nat
      BY <1>0, <1>4, <2>1, <3>1
    <3>. QED  BY <3>2, <3>3
  <2>3. f.bom = 0 => LineEnd(f, z(h)) \in ToSet(f.ends)
    <3>1. z(h) \in 1 .. n
      BY <1>1, <1>2
    <3> HIDE DEF z
    <3>2. f.ends[z(h)] \in ToSet(f.ends) /\ f.ends[z(h)] - 0 = f.ends[z(h)]
      BY <1>1, <3>1 DEF ToSet
    <3>. QED  BY <3>2 DEF LineEnd
  <2>. QED  BY <1>1, <1>2, <2>2, <2>3 DEF Whole, Ranges
<1>7. ASSUME NEW g \in DOMAIN f.ends, g < h
      PROVE  /\ Around(f, g).start <= Around(f, h).start
             /\ Around(f, g).end <= Around(f, h).end
  <2>1. a(g) <= a(h) /\ z(g) <= z(h)
    BY <1>1, <1>7
  <2>2. a(g) \in 1 .. n /\ z(g) \in 1 .. n /\ a(h) \in 1 .. n /\ z(h) \in 1 .. n
    BY <1>1, <1>2
  <2>3. StartOf(f, a(g)) <= StartOf(f, a(h)) /\ LineEnd(f, z(g)) <= LineEnd(f, z(h))
    BY <1>4, <2>1, <2>2
  <2>4. /\ Around(f, g) = [start |-> StartOf(f, a(g)), end |-> LineEnd(f, z(g))]
        /\ Around(f, h) = [start |-> StartOf(f, a(h)), end |-> LineEnd(f, z(h))]
    BY <1>1, <1>2
  <2> HIDE DEF a, z
  <2>. QED  BY <2>3, <2>4
<1>. QED  BY <1>6, <1>7

\* The ranges of a file follow each other with bytes between them.
Apart(ranges) == \A i, j \in DOMAIN ranges : i < j => ranges[i].end < ranges[j].start

\* The range of a line lies in one that starts before it or where it starts.
Covers(range, part) == range.start <= part.start /\ part.end <= range.end

\* What lies in a part of a range lies in the range.
LEMMA CoversThrough ==
  ASSUME NEW a \in Ranges, NEW b \in Ranges, NEW c \in Ranges, Covers(a, b), Covers(b, c)
  PROVE  Covers(a, c)
BY DEF Covers, Ranges

\* The ranges up to a line: each ends with the range of one of the lines that mention the task, and the
\* range of every such line lies in one of them.
MergedAt(f, line, m) ==
    /\ m \in Seq(Ranges) /\ Apart(m)
    /\ \A j \in DOMAIN m :
            /\ Whole(f, m[j])
            /\ \E h \in f.hits : /\ h <= line /\ m[j].end = Around(f, h).end
                                 /\ m[j].start <= Around(f, h).start
    /\ \A h \in f.hits : h <= line => \E j \in DOMAIN m : Covers(m[j], Around(f, h))

\* The function that joins ranges is what its definition says.
LEMMA MergedExists ==
  ASSUME NEW f, Shaped(f)
  PROVE  Merged(f) = [line \in 0 .. Len(f.ends) |->
                        IF line = 0 THEN <<>>
                        ELSE IF line \in f.hits THEN Merge(Merged(f)[line - 1], Around(f, line))
                        ELSE Merged(f)[line - 1]]
<1> DEFINE Step(line, m) == IF line \in f.hits THEN Merge(m, Around(f, line)) ELSE m
           Fits(g, n) == g = [line \in 0 .. n |-> IF line = 0 THEN <<>> ELSE Step(line, g[line - 1])]
           P == {n \in Nat : \E g : Fits(g, n)}
           last == Len(f.ends)
<1>0. last \in Nat
  BY DEF Shaped
<1> HIDE DEF last
<1>1. 0 \in P
  <2>1. Fits([line \in 0 .. 0 |-> <<>>], 0)
    OBVIOUS
  <2> HIDE DEF Fits
  <2>. QED  BY <2>1
<1>2. ASSUME NEW n \in 0 .. last - 1, n \in P PROVE n + 1 \in P
  <2>1. PICK g : Fits(g, n)
    BY <1>2
  <2> DEFINE h == [line \in 0 .. n + 1 |-> IF line = n + 1 THEN Step(n + 1, g[n]) ELSE g[line]]
  <2> HIDE DEF Step
  <2>2. \A line \in 0 .. n : g[line] = IF line = 0 THEN <<>> ELSE Step(line, g[line - 1])
    BY <2>1
  <2>3. \A line \in 0 .. n + 1 : h[line] = IF line = 0 THEN <<>> ELSE Step(line, h[line - 1])
    <3> SUFFICES ASSUME NEW line \in 0 .. n + 1
                 PROVE  h[line] = IF line = 0 THEN <<>> ELSE Step(line, h[line - 1])
      OBVIOUS
    <3>1. CASE line = n + 1
      BY <1>0, <3>1
    <3>2. CASE line \in 0 .. n
      <4>1. h[line] = g[line] /\ (line # 0 => h[line - 1] = g[line - 1])
        BY <1>0, <3>2
      <4>. QED  BY <2>2, <3>2, <4>1
    <3>. QED  BY <1>0, <3>1, <3>2
  <2>4. Fits(h, n + 1)
    BY <2>3
  <2> HIDE DEF Fits, h
  <2>. QED  BY <1>0, <2>4
<1>3. \E g : Fits(g, last)
  <2> HIDE DEF P
  <2>1. last \in P
    BY <1>0, <1>1, <1>2, UpTo
  <2>. QED  BY <2>1 DEF P
<1>4. \E g : g = [line \in 0 .. Len(f.ends) |->
                    IF line = 0 THEN <<>>
                    ELSE IF line \in f.hits THEN Merge(g[line - 1], Around(f, line))
                    ELSE g[line - 1]]
  BY <1>3 DEF last
<1>. QED  BY <1>4 DEF Merged

\* One more line that mentions the task: its range is appended, or joined to the last one.
LEMMA MergeKeeps ==
  ASSUME NEW f, Shaped(f), NEW line \in f.hits, NEW m, MergedAt(f, line - 1, m)
  PROVE  MergedAt(f, line, Merge(m, Around(f, line)))
<1> DEFINE range == Around(f, line)
           n == Len(m)
<1>1. /\ Whole(f, range) /\ range \in Ranges
      /\ \A h \in f.hits : h < line => Around(f, h).start <= range.start /\ Around(f, h).end <= range.end
      /\ \A h \in f.hits : h \in Nat /\ (h <= line <=> h <= line - 1 \/ h = line)
      /\ \A h \in f.hits : Around(f, h) \in Ranges
  <2>1. f.hits \subseteq DOMAIN f.ends /\ DOMAIN f.ends \subseteq Nat
    BY DEF Shaped
  <2>2. \A h \in f.hits : Whole(f, Around(f, h))
    BY <2>1, AroundALine
  <2>3. \A h \in f.hits : h < line => Around(f, h).start <= range.start /\ Around(f, h).end <= range.end
    BY <2>1, AroundALine
  <2>. QED  BY <2>1, <2>2, <2>3 DEF Whole
<1>2. /\ m \in Seq(Ranges) /\ n \in Nat /\ DOMAIN m = 1 .. n
      /\ \A j \in 1 .. n : m[j] \in Ranges /\ Whole(f, m[j])
      /\ \A i, j \in 1 .. n : i < j => m[i].end < m[j].start
      /\ \A j \in 1 .. n : \E h \in f.hits : /\ h <= line - 1 /\ m[j].end = Around(f, h).end
                                             /\ m[j].start <= Around(f, h).start
      /\ \A h \in f.hits : h <= line - 1 => \E j \in 1 .. n : Covers(m[j], Around(f, h))
  BY DEF MergedAt, Apart, Whole
<1> HIDE DEF range, n
<1>3. ASSUME NEW new \in Seq(Ranges), NEW last \in Nat \ {0}, Len(new) = last, last \in {n, n + 1},
             \A j \in 1 .. last - 1 : new[j] = m[j],
             new[last].end = range.end, new[last].start <= range.start,
             \A j \in 1 .. last - 1 : m[j].end < new[last].start,
             last = n => Covers(new[last], m[last])
      PROVE  MergedAt(f, line, new)
  <2>1. DOMAIN new = 1 .. last /\ new[last] \in Ranges /\ last - 1 <= n
    BY <1>2, <1>3
  <2>2. \A j \in 1 .. last - 1 : j \in 1 .. n
    BY <1>2, <1>3
  <2>3. Apart(new)
    BY <1>2, <1>3, <2>1, <2>2 DEF Apart
  <2>4. Whole(f, new[last])
    BY <1>1, <1>3, <2>1 DEF Whole, Ranges
  <2>5. \A j \in 1 .. last : Whole(f, new[j])
    BY <1>2, <1>3, <2>2, <2>4
  <2>6. \A j \in 1 .. last : \E h \in f.hits : /\ h <= line /\ new[j].end = Around(f, h).end
                                               /\ new[j].start <= Around(f, h).start
    <3>1. ASSUME NEW j \in 1 .. last - 1
          PROVE  \E h \in f.hits : /\ h <= line /\ new[j].end = Around(f, h).end
                                   /\ new[j].start <= Around(f, h).start
      BY <1>1, <1>2, <1>3, <2>2
    <3>2. \E h \in f.hits : /\ h <= line /\ new[last].end = Around(f, h).end
                            /\ new[last].start <= Around(f, h).start
      BY <1>1, <1>3 DEF range
    <3>. QED  BY <1>3, <3>1, <3>2
  <2>7. ASSUME NEW h \in f.hits, h <= line PROVE \E j \in 1 .. last : Covers(new[j], Around(f, h))
    <3>1. CASE h = line
      <4>1. Covers(new[last], range)
        BY <1>1, <1>3, <2>1 DEF Covers, Ranges
      <4>. QED  BY <1>3, <3>1, <4>1 DEF range
    <3>2. CASE h <= line - 1
      <4>1. PICK j \in 1 .. n : Covers(m[j], Around(f, h))
        BY <1>2, <3>2
      <4>2. CASE j \in 1 .. last - 1
        BY <1>3, <4>1, <4>2
      <4>3. CASE j = last /\ last = n
        <5>1. Covers(new[last], Around(f, h))
          BY <1>1, <1>2, <1>3, <2>1, <4>1, <4>3, CoversThrough
        <5>. QED  BY <1>3, <5>1
      <4>. QED  BY <1>2, <1>3, <4>2, <4>3
    <3>. QED  BY <1>1, <2>7, <3>1, <3>2
  <2>. QED  BY <1>3, <2>1, <2>3, <2>5, <2>6, <2>7 DEF MergedAt
<1>4. \A j \in 1 .. n : m[j].end <= m[n].end
  <2>0. \A j \in 1 .. n : m[j].end \in Nat
    BY <1>2 DEF Ranges
  <2> SUFFICES ASSUME NEW j \in 1 .. n, j # n PROVE m[j].end <= m[n].end
    BY <2>0
  <2>1. n \in 1 .. n /\ j < n
    BY <1>2
  <2>2. m[j].end < m[n].start /\ m[n].start <= m[n].end /\ m[j] \in Ranges /\ m[n] \in Ranges
    BY <1>2, <2>1 DEF Whole
  <2>. QED  BY <2>2 DEF Ranges
<1>5. CASE m # <<>> /\ range.start <= Last(m).end
  <2>1. n \in 1 .. n
    BY <1>2, <1>5 DEF n
  <2>2. PICK h \in f.hits : /\ h <= line - 1 /\ m[n].end = Around(f, h).end
                            /\ m[n].start <= Around(f, h).start
    BY <1>2, <2>1
  <2>3. h < line
    BY <1>1, <2>2
  <2>4. m[n].end <= range.end /\ m[n].start <= range.start
    <3>1. Around(f, h).end <= range.end /\ Around(f, h).start <= range.start
      BY <1>1, <2>3
    <3>2. m[n] \in Ranges /\ Around(f, h) \in Ranges /\ range \in Ranges
      BY <1>1, <1>2, <2>1
    <3>. QED  BY <2>2, <3>1, <3>2 DEF Ranges
  <2>5. Max({m[n].end, range.end}) = range.end
    <3>1. m[n].end \in Int /\ range.end \in Int
      BY <1>1, <1>2, <2>1 DEF Ranges
    <3>. QED  BY <2>4, <3>1, MaxOfTwo
  <2> DEFINE joined == [m[n] EXCEPT !.end = range.end]
             new == [m EXCEPT ![n] = joined]
  <2>6. joined \in Ranges /\ joined.end = range.end /\ joined.start = m[n].start
    BY <1>1, <1>2, <2>1 DEF Ranges
  <2>7. Merge(m, range) = new
    BY <1>5, <2>5 DEF Merge, Last, ReplaceAt, n
  <2> HIDE DEF joined
  <2>8. new \in Seq(Ranges) /\ Len(new) = n /\ new[n] = joined /\ \A j \in 1 .. n - 1 : new[j] = m[j]
    BY <1>2, <2>1, <2>6
  <2> HIDE DEF new
  <2>9. Covers(new[n], m[n])
    BY <1>1, <1>2, <2>1, <2>4, <2>6, <2>8 DEF Covers, Ranges
  <2>10. \A j \in 1 .. n - 1 : m[j].end < new[n].start
    BY <1>2, <2>1, <2>6, <2>8
  <2>11. MergedAt(f, line, new)
    <3>1. n \in Nat \ {0} /\ n \in {n, n + 1}
      BY <1>2, <2>1
    <3>2. new[n].end = range.end /\ new[n].start <= range.start
      BY <2>4, <2>6, <2>8
    <3>. QED  BY <1>3, <2>8, <2>9, <2>10, <3>1, <3>2
  <2>. QED  BY <2>7, <2>11 DEF range
<1>6. CASE ~(m # <<>> /\ range.start <= Last(m).end)
  <2> DEFINE new == Append(m, range)
  <2>1. Merge(m, range) = new
    BY <1>6 DEF Merge
  <2>2. new \in Seq(Ranges) /\ Len(new) = n + 1 /\ new[n + 1] = range /\ \A j \in 1 .. n : new[j] = m[j]
    BY <1>1, <1>2 DEF n
  <2>3. \A j \in 1 .. n : m[j].end < range.start
    <3> SUFFICES ASSUME NEW j \in 1 .. n PROVE m[j].end < range.start
      OBVIOUS
    <3>1. ~(range.start <= m[n].end)
      BY <1>2, <1>6 DEF Last, n
    <3>. QED  BY <1>1, <1>2, <1>4, <3>1 DEF Ranges
  <2> HIDE DEF new
  <2>4. MergedAt(f, line, new)
    <3>1. n + 1 \in Nat \ {0} /\ (n + 1) - 1 = n /\ n + 1 # n
      BY <1>2
    <3>2. range.start <= range.start
      BY <1>1 DEF Ranges
    <3>. QED  BY <1>3, <2>2, <2>3, <3>1, <3>2
  <2>. QED  BY <2>1, <2>4 DEF range
<1>. QED  BY <1>5, <1>6

\* The ranges of a file whose lines have all been seen.
LEMMA MergedIs ==
  ASSUME NEW f, Shaped(f)
  PROVE  MergedAt(f, Len(f.ends), Merged(f)[Len(f.ends)])
<1> DEFINE n == Len(f.ends)
           m == Merged(f)
           P == {line \in 0 .. n : MergedAt(f, line, m[line])}
<1>1. n \in Nat /\ f.hits \subseteq 1 .. n
  BY DEF Shaped
<1>2. m = [line \in 0 .. n |->
             IF line = 0 THEN <<>>
             ELSE IF line \in f.hits THEN Merge(m[line - 1], Around(f, line)) ELSE m[line - 1]]
  BY MergedExists
<1> HIDE DEF n, m
<1>3. /\ m[0] = <<>>
      /\ \A k \in 0 .. n - 1 : m[k + 1] = IF k + 1 \in f.hits THEN Merge(m[k], Around(f, k + 1)) ELSE m[k]
  BY <1>1, <1>2
<1>4. 0 \in P
  <2>1. \A h \in f.hits : ~(h <= 0)
    BY <1>1
  <2>2. <<>> \in Seq(Ranges) /\ DOMAIN <<>> = {}
    OBVIOUS
  <2>3. MergedAt(f, 0, <<>>)
    BY <2>1, <2>2 DEF MergedAt, Apart
  <2>. QED  BY <1>1, <1>3, <2>3
<1>5. ASSUME NEW k \in 0 .. n - 1, k \in P PROVE k + 1 \in P
  <2>1. MergedAt(f, k, m[k])
    BY <1>5
  <2>2. CASE k + 1 \in f.hits
    <3>1. MergedAt(f, (k + 1) - 1, m[k])
      BY <2>1, (k + 1) - 1 = k
    <3>2. MergedAt(f, k + 1, Merge(m[k], Around(f, k + 1)))
      BY <2>2, <3>1, MergeKeeps
    <3>. QED  BY <1>1, <1>3, <2>2, <3>2
  <2>3. CASE k + 1 \notin f.hits
    <3>1. \A h \in f.hits : h <= k + 1 <=> h <= k
      BY <1>1, <2>3
    <3>2. MergedAt(f, k + 1, m[k])
      BY <2>1, <3>1 DEF MergedAt
    <3>. QED  BY <1>1, <1>3, <2>3, <3>2
  <2>. QED  BY <2>2, <2>3
<1>6. n \in P
  <2> HIDE DEF P
  <2>. QED  BY <1>1, <1>4, <1>5, UpTo
<1>. QED  BY <1>6 DEF n, m

-----------------------------------------------------------------------------
(* What the task asks for of a file *)

\* What the task asks for of a file.
PartsOf(f, fallback) == IF fallback THEN {FirstLines(f)} ELSE {Around(f, h) : h \in f.hits}

\* Ranges that hold what the task asks for, and nothing they could end without.
Ranged(f, fallback, ranges) ==
    /\ ranges \in Seq(Ranges) /\ Apart(ranges)
    /\ \A j \in DOMAIN ranges :
            /\ Whole(f, ranges[j])
            /\ \E part \in PartsOf(f, fallback) :
                    part.end = ranges[j].end /\ ranges[j].start <= part.start
    /\ \A part \in PartsOf(f, fallback) :
            /\ part \in Ranges /\ part.start <= part.end
            /\ \E j \in DOMAIN ranges : Covers(ranges[j], part)

\* The ranges a file is cut into hold what the task asks for, whether it matches or not.
LEMMA MatchedIsRanged ==
  ASSUME NEW f, Shaped(f), NEW fallback \in BOOLEAN
  PROVE  Ranged(f, fallback, MatchedExcerptRanges(f, fallback))
<1>1. CASE fallback
  <2> DEFINE n == Len(f.ends)
             r == FirstLines(f)
  <2>1. n \in Nat \ {0} /\ DOMAIN f.ends = 1 .. n /\ \A k \in 1 .. n : f.ends[k] \in Nat \ {0}
    BY DEF Shaped
  <2>2. Min({n, 3}) \in 1 .. n
    BY <2>1, MinOfTwo, 3 \in Int
  <2>3. LineEnd(f, Min({n, 3})) \in Nat /\ (f.bom = 0 => LineEnd(f, Min({n, 3})) \in ToSet(f.ends))
    <3> DEFINE k == Min({n, 3})
    <3>1. f.ends[k] \in Nat /\ f.bom \in Nat /\ f.bom <= f.ends[k] /\ f.ends[k] \in ToSet(f.ends)
      BY <2>1, <2>2 DEF ToSet, Shaped
    <3> HIDE DEF k
    <3>2. LineEnd(f, k) \in Nat /\ (f.bom = 0 => LineEnd(f, k) \in ToSet(f.ends))
      BY <3>1 DEF LineEnd
    <3>. QED  BY <3>2 DEF k
  <2>4. Whole(f, r)
    BY <2>3 DEF Whole, Ranges, FirstLines
  <2>5. MatchedExcerptRanges(f, fallback) = <<r>> /\ PartsOf(f, fallback) = {r}
    BY <1>1 DEF MatchedExcerptRanges, PartsOf
  <2> HIDE DEF r
  <2>6. <<r>> \in Seq(Ranges) /\ DOMAIN <<r>> = {1} /\ <<r>>[1] = r
    BY <2>4 DEF Whole
  <2>7. r.start <= r.start /\ Covers(r, r) /\ r \in Ranges /\ r.start <= r.end
    BY <2>4 DEF Covers, Ranges, Whole
  <2>. QED  BY <2>4, <2>5, <2>6, <2>7 DEF Ranged, Apart
<1>2. CASE ~fallback
  <2> DEFINE n == Len(f.ends)
             m == Merged(f)[n]
  <2>1. n \in Nat /\ f.hits \subseteq 1 .. n /\ f.hits \subseteq DOMAIN f.ends
    BY DEF Shaped
  <2>2. MergedAt(f, n, m)
    BY MergedIs
  <2>3. MatchedExcerptRanges(f, fallback) = m /\ PartsOf(f, fallback) = {Around(f, h) : h \in f.hits}
    BY <1>2 DEF MatchedExcerptRanges, PartsOf
  <2> HIDE DEF m, n
  <2>4. \A h \in f.hits : h <= n /\ Around(f, h) \in Ranges /\ Around(f, h).start <= Around(f, h).end
    BY <2>1, AroundALine DEF Whole
  <2>. QED  BY <2>2, <2>3, <2>4 DEF Ranged, MergedAt
<1>. QED  BY <1>1, <1>2

-----------------------------------------------------------------------------
(* buildExcerpts *)

\* A prefix is empty, or it starts and ends between two characters and fits.
LEMMA PrefixFits ==
  ASSUME NEW f, NEW range \in Ranges, range.start <= range.end, NEW available \in Nat
  PROVE  LET end == SafeUtf8Prefix(f, range, available)
         IN  /\ end \in Nat /\ range.start <= end /\ end <= range.end
             /\ end - range.start <= available
             /\ end # range.start => {range.start, end} \cap f.inside = {}
<1> DEFINE most == Min({range.end, range.start + available})
           S == {range.start} \cup
                    {end \in range.start + 1 .. most : {range.start, end} \cap f.inside = {}}
<1>1. range.start \in Nat /\ range.end \in Nat
  BY DEF Ranges
<1>2. most = IF range.end <= range.start + available THEN range.end ELSE range.start + available
  <2>1. range.end \in Int /\ range.start + available \in Int
    BY <1>1
  <2>. QED  BY <2>1, MinOfTwo
<1> HIDE DEF most
<1>3. most \in Nat /\ most <= range.end /\ most <= range.start + available /\ range.start <= most
  BY <1>1, <1>2
<1>4. S \in SUBSET Nat /\ S # {} /\ \A x \in S : x <= most
  BY <1>1, <1>3
<1>5. Max(S) \in S
  <2> HIDE DEF S
  <2>. QED  BY <1>3, <1>4, MaxIsGreatest
<1>6. SafeUtf8Prefix(f, range, available) = Max(S)
  BY DEF SafeUtf8Prefix, most
<1>7. CASE Max(S) = range.start
  BY <1>1, <1>6, <1>7
<1>8. CASE Max(S) # range.start
  <2>1. Max(S) \in range.start + 1 .. most /\ {range.start, Max(S)} \cap f.inside = {}
    BY <1>5, <1>8
  <2> HIDE DEF S
  <2>2. Max(S) \in Nat /\ range.start <= Max(S) /\ Max(S) <= range.end /\ Max(S) - range.start <= available
    BY <1>1, <1>3, <2>1
  <2>. QED  BY <1>6, <2>1, <2>2
<1>. QED  BY <1>7, <1>8

\* The function that takes excerpts is what its definition says.
LEMMA BuiltExists ==
  ASSUME NEW f, NEW ranges, Len(ranges) \in Nat, NEW remaining, NEW most
  PROVE  Built(f, ranges, remaining, most) =
           [k \in 0 .. Len(ranges) |->
              IF k = 0
              THEN [taken |-> <<>>, bytes |-> 0, total |-> remaining.total,
                    excerpts |-> remaining.excerpts, truncated |-> FALSE, stopped |-> FALSE]
              ELSE AddExcerpt(f, most, Built(f, ranges, remaining, most)[k - 1], ranges[k])]
<1> DEFINE Start == [taken |-> <<>>, bytes |-> 0, total |-> remaining.total,
                     excerpts |-> remaining.excerpts, truncated |-> FALSE, stopped |-> FALSE]
           Step(k, b) == AddExcerpt(f, most, b, ranges[k])
           Fits(g, n) == g = [k \in 0 .. n |-> IF k = 0 THEN Start ELSE Step(k, g[k - 1])]
           P == {n \in Nat : \E g : Fits(g, n)}
           last == Len(ranges)
<1>0. last \in Nat
  OBVIOUS
<1> HIDE DEF last, Step, Start
<1>1. 0 \in P
  <2>1. Fits([k \in 0 .. 0 |-> Start], 0)
    OBVIOUS
  <2> HIDE DEF Fits
  <2>. QED  BY <2>1
<1>2. ASSUME NEW n \in 0 .. last - 1, n \in P PROVE n + 1 \in P
  <2>1. PICK g : Fits(g, n)
    BY <1>2
  <2> DEFINE h == [k \in 0 .. n + 1 |-> IF k = n + 1 THEN Step(n + 1, g[n]) ELSE g[k]]
  <2>2. \A k \in 0 .. n : g[k] = IF k = 0 THEN Start ELSE Step(k, g[k - 1])
    BY <2>1
  <2>3. \A k \in 0 .. n + 1 : h[k] = IF k = 0 THEN Start ELSE Step(k, h[k - 1])
    <3> SUFFICES ASSUME NEW k \in 0 .. n + 1
                 PROVE  h[k] = IF k = 0 THEN Start ELSE Step(k, h[k - 1])
      OBVIOUS
    <3>1. CASE k = n + 1
      BY <1>0, <3>1
    <3>2. CASE k \in 0 .. n
      <4>1. h[k] = g[k] /\ (k # 0 => h[k - 1] = g[k - 1])
        BY <1>0, <3>2
      <4>. QED  BY <2>2, <3>2, <4>1
    <3>. QED  BY <1>0, <3>1, <3>2
  <2>4. Fits(h, n + 1)
    BY <2>3
  <2> HIDE DEF Fits, h
  <2>. QED  BY <1>0, <2>4
<1>3. \E g : Fits(g, last)
  <2> HIDE DEF P, Fits
  <2>1. \A n \in 0 .. last - 1 : n \in P => n + 1 \in P
    BY <1>2
  <2>2. \A n \in 0 .. last : n \in P
    BY <1>0, <1>1, <2>1, UpTo
  <2>. QED  BY <1>0, <2>2 DEF P
<1>4. \E g : g = [k \in 0 .. Len(ranges) |->
                    IF k = 0
                    THEN [taken |-> <<>>, bytes |-> 0, total |-> remaining.total,
                          excerpts |-> remaining.excerpts, truncated |-> FALSE, stopped |-> FALSE]
                    ELSE AddExcerpt(f, most, g[k - 1], ranges[k])]
  BY <1>3 DEF last, Start, Step
<1>. QED  BY <1>4 DEF Built

\* An excerpt more, and its bytes.
LEMMA BytesGrow ==
  ASSUME NEW s \in Seq(Ranges), NEW x \in Ranges
  PROVE  BytesOf(Append(s, x)) = BytesOf(s) + (x.end - x.start)
<1> DEFINE n == Len(s)
           t == Append(s, x)
           v == [k \in DOMAIN s |-> s[k].end - s[k].start]
           w == [k \in DOMAIN t |-> t[k].end - t[k].start]
<1>1. n \in Nat /\ DOMAIN s = 1 .. n /\ \A k \in 1 .. n : s[k] \in Ranges
  OBVIOUS
<1>2. /\ t \in Seq(Ranges) /\ Len(t) = n + 1 /\ DOMAIN t = 1 .. n + 1 /\ t[n + 1] = x
      /\ \A k \in 1 .. n : t[k] = s[k]
  OBVIOUS
<1> HIDE DEF n, t
<1>3. \A k \in 1 .. n + 1 : t[k] \in Ranges
  BY <1>2
<1>4. v \in [1 .. n -> Int]
  BY <1>1 DEF Ranges
<1>5. w \in [1 .. n + 1 -> Int]
  BY <1>2, <1>3 DEF Ranges
<1>6. w[n + 1] = x.end - x.start /\ \A k \in 1 .. n : v[k] = w[k]
  BY <1>1, <1>2
<1>7. BytesOf(s) = SumTo(n, v) /\ BytesOf(t) = SumTo(n + 1, w)
  BY <1>2 DEF BytesOf, n
<1> HIDE DEF v, w
<1>8. SumTo(n + 1, w) = SumTo(n, v) + w[n + 1]
  BY <1>1, <1>4, <1>5, <1>6, SumGrows
<1>. QED  BY <1>6, <1>7, <1>8 DEF t

\* No excerpt holds no bytes.
LEMMA BytesOfNone == BytesOf(<<>>) = 0
<1> DEFINE v == [k \in DOMAIN <<>> |-> <<>>[k].end - <<>>[k].start]
<1>1. DOMAIN <<>> = 1 .. 0 /\ \A k \in 1 .. 0 : FALSE
  OBVIOUS
<1>2. DOMAIN v = 1 .. 0 /\ v = [k \in DOMAIN v |-> v[k]]
  BY <1>1
<1>3. v \in [1 .. 0 -> Int]
  <2> HIDE DEF v
  <2>. QED  BY <1>1, <1>2
<1>4. BytesOf(<<>>) = SumTo(0, v)
  BY Len(<<>>) = 0 DEF BytesOf
<1> HIDE DEF v
<1>. QED  BY <1>3, <1>4, SumOfZeros, 0 \in Nat, <1>1

Buildings == [taken : Seq(Ranges), bytes : Nat, total : Nat, excerpts : Nat,
              truncated : BOOLEAN, stopped : BOOLEAN]

\* What the first k ranges of a file have come to: those taken keep their starts and end between
\* characters, what they hold is gone from the budgets, and a range that was cut or left out is
\* reported.
BuiltAt(f, ranges, remaining, k, b) ==
    /\ b \in Buildings
    /\ Len(b.taken) <= k /\ (b.stopped <=> Len(b.taken) < k)
    /\ \A j \in 1 .. Len(b.taken) :
            /\ b.taken[j].start = ranges[j].start /\ b.taken[j].start < b.taken[j].end
            /\ b.taken[j].end <= ranges[j].end
            /\ {b.taken[j].start, b.taken[j].end} \cap f.inside = {}
    /\ b.bytes = BytesOf(b.taken) /\ b.bytes <= packPolicy.file
    /\ b.total = remaining.total - b.bytes /\ b.excerpts = remaining.excerpts - Len(b.taken)
    /\ b.truncated <=> b.stopped \/ \E j \in 1 .. Len(b.taken) : b.taken[j].end < ranges[j].end

\* One range more: it is taken whole, cut to what fits, or ends the file for want of room.
LEMMA BuiltKeeps ==
  ASSUME NEW f, NEW ranges \in Seq(Ranges), \A j \in DOMAIN ranges : ranges[j].start <= ranges[j].end,
         NEW remaining, remaining.total \in Nat, remaining.excerpts \in Nat, NEW most,
         packPolicy.file \in Nat,
         NEW k \in 0 .. Len(ranges) - 1, NEW b, BuiltAt(f, ranges, remaining, k, b)
  PROVE  BuiltAt(f, ranges, remaining, k + 1, AddExcerpt(f, most, b, ranges[k + 1]))
<1> DEFINE range == ranges[k + 1]
           n == Len(b.taken)
           new == AddExcerpt(f, most, b, range)
<1>1. /\ range \in Ranges /\ range.start <= range.end /\ k \in Nat
      /\ range.start \in Nat /\ range.end \in Nat
  <2>1. k + 1 \in DOMAIN ranges /\ ranges[k + 1] \in Ranges /\ k \in Nat
    OBVIOUS
  <2>2. range \in Ranges /\ range.start <= range.end
    BY <2>1
  <2> HIDE DEF range
  <2>. QED  BY <2>1, <2>2 DEF Ranges
<1>2. /\ b \in Buildings /\ n \in Nat /\ n <= k /\ (b.stopped <=> n < k)
      /\ \A j \in 1 .. n :
            /\ b.taken[j].start = ranges[j].start /\ b.taken[j].start < b.taken[j].end
            /\ b.taken[j].end <= ranges[j].end
            /\ {b.taken[j].start, b.taken[j].end} \cap f.inside = {}
      /\ b.bytes = BytesOf(b.taken) /\ b.bytes <= packPolicy.file
      /\ b.total = remaining.total - b.bytes /\ b.excerpts = remaining.excerpts - n
      /\ b.truncated <=> b.stopped \/ \E j \in 1 .. n : b.taken[j].end < ranges[j].end
  BY DEF BuiltAt, Buildings
<1> HIDE DEF range, n
<1>3. CASE b.stopped
  <2>1. new = b /\ n <= k + 1 /\ n < k + 1
    BY <1>1, <1>2, <1>3 DEF AddExcerpt
  <2> HIDE DEF new
  <2>. QED  BY <1>2, <1>3, <2>1 DEF BuiltAt, n, range, new
<1>4. CASE ~b.stopped /\ NoRoom(f, most, b, range)
  <2>1. new = [b EXCEPT !.stopped = TRUE, !.truncated = TRUE]
    BY <1>4 DEF AddExcerpt
  <2> HIDE DEF new
  <2>2. /\ new \in Buildings /\ new.taken = b.taken /\ new.stopped = TRUE /\ new.truncated = TRUE
        /\ new.bytes = b.bytes /\ new.total = b.total /\ new.excerpts = b.excerpts
    BY <1>2, <2>1 DEF Buildings
  <2>3. n <= k + 1 /\ n < k + 1
    BY <1>1, <1>2
  <2>4. BuiltAt(f, ranges, remaining, k + 1, new)
    BY <1>2, <2>2, <2>3 DEF BuiltAt, n
  <2>. QED  BY <2>4 DEF new, range
<1>5. CASE ~b.stopped /\ ~NoRoom(f, most, b, range)
  <2> DEFINE end == NextEnd(f, b, range)
             x == [start |-> range.start, end |-> end]
             room == Min({b.total, packPolicy.file - b.bytes})
  <2>1. room \in Nat /\ room <= b.total /\ room <= packPolicy.file - b.bytes
    <3>1. b.total \in Nat /\ b.bytes \in Nat /\ packPolicy.file - b.bytes \in Nat
      BY <1>2 DEF Buildings
    <3>2. room = IF b.total <= packPolicy.file - b.bytes THEN b.total ELSE packPolicy.file - b.bytes
      <4>1. b.total \in Int /\ packPolicy.file - b.bytes \in Int
        BY <3>1
      <4>. QED  BY <4>1, MinOfTwo
    <3> HIDE DEF room
    <3>. QED  BY <3>1, <3>2
  <2>2. end = SafeUtf8Prefix(f, range, room)
    BY DEF NextEnd
  <2> HIDE DEF room
  <2>3. /\ end \in Nat /\ range.start <= end /\ end <= range.end /\ end - range.start <= room
        /\ end # range.start => {range.start, end} \cap f.inside = {}
    <3> HIDE DEF end
    <3>. QED  BY <1>1, <2>1, <2>2, PrefixFits
  <2>4. end # range.start /\ b.excerpts # 0
    BY <1>5 DEF NoRoom
  <2>5. new = [b EXCEPT !.taken = Append(b.taken, x), !.bytes = b.bytes + end - range.start,
                        !.total = b.total - (end - range.start), !.excerpts = b.excerpts - 1,
                        !.truncated = b.truncated \/ end < range.end]
    BY <1>2, <1>5 DEF AddExcerpt, Extend, Buildings
  <2> HIDE DEF end, new
  <2>6. x \in Ranges /\ x.start = range.start /\ x.end = end
    BY <1>1, <2>3 DEF Ranges
  <2> HIDE DEF x
  <2>7. /\ b.taken \in Seq(Ranges) /\ b.bytes \in Nat /\ b.total \in Nat /\ b.excerpts \in Nat
        /\ b.truncated \in BOOLEAN /\ b.stopped \in BOOLEAN
    BY <1>2 DEF Buildings
  <2> DEFINE t == Append(b.taken, x)
  <2>8. t \in Seq(Ranges) /\ Len(t) = n + 1 /\ t[n + 1] = x /\ \A j \in 1 .. n : t[j] = b.taken[j]
    BY <2>6, <2>7 DEF n
  <2>9. BytesOf(t) = b.bytes + (end - range.start)
    BY <1>2, <2>6, <2>7, BytesGrow
  <2> HIDE DEF t
  <2>10. /\ new.taken = t /\ new.bytes = b.bytes + end - range.start
         /\ new.total = b.total - (end - range.start) /\ new.excerpts = b.excerpts - 1
         /\ new.stopped = b.stopped
         /\ new.truncated = (b.truncated \/ end < range.end)
    BY <1>2, <2>5 DEF Buildings, t
  <2>11. /\ b.bytes + end - range.start \in Nat /\ b.bytes + end - range.start <= packPolicy.file
         /\ b.total - (end - range.start) \in Nat /\ b.excerpts - 1 \in Nat
         /\ b.bytes + end - range.start = b.bytes + (end - range.start)
    <3>1. PICK d \in Nat : d = end - range.start
      BY <1>1, <2>3
    <3>2. b.bytes + end - range.start = b.bytes + d /\ d <= room
      BY <1>1, <2>3, <2>7, <3>1
    <3>3. d <= b.total /\ d <= packPolicy.file - b.bytes
      BY <2>1, <2>7, <3>2
    <3>4. b.bytes + d <= packPolicy.file /\ b.total - d \in Nat /\ b.bytes + d \in Nat
      BY <2>7, <3>3
    <3>5. b.excerpts - 1 \in Nat
      BY <2>4, <2>7
    <3>. QED  BY <3>1, <3>2, <3>4, <3>5
  <2>12. new \in Buildings
    <3>1. DOMAIN new = DOMAIN b /\ new = [b EXCEPT !.taken = new.taken, !.bytes = new.bytes,
            !.total = new.total, !.excerpts = new.excerpts, !.truncated = new.truncated]
      BY <1>2, <2>5, <2>10 DEF Buildings, t
    <3>2. new.taken \in Seq(Ranges) /\ new.bytes \in Nat /\ new.total \in Nat /\ new.excerpts \in Nat
          /\ new.truncated \in BOOLEAN
      BY <2>7, <2>8, <2>10, <2>11
    <3>. QED  BY <1>2, <3>1, <3>2 DEF Buildings
  <2>13. n = k /\ b.stopped = FALSE
    BY <1>1, <1>2, <1>5, <2>7
  <2>14. \A j \in 1 .. n + 1 :
            /\ t[j].start = ranges[j].start /\ t[j].start < t[j].end
            /\ t[j].end <= ranges[j].end /\ {t[j].start, t[j].end} \cap f.inside = {}
    <3>1. /\ t[k + 1].start = ranges[k + 1].start /\ t[k + 1].start < t[k + 1].end
          /\ t[k + 1].end <= ranges[k + 1].end /\ {t[k + 1].start, t[k + 1].end} \cap f.inside = {}
      BY <1>1, <2>3, <2>4, <2>6, <2>8, <2>13 DEF range
    <3>2. \A j \in 1 .. n : t[j] = b.taken[j]
      BY <2>8
    <3>3. \A j \in 1 .. n + 1 : j \in 1 .. n \/ j = k + 1
      BY <1>2, <2>13
    <3>. QED  BY <1>2, <3>1, <3>2, <3>3
  <2>15. new.truncated <=> new.stopped \/ \E j \in 1 .. n + 1 : t[j].end < ranges[j].end
    <3>1. t[n + 1].end < ranges[n + 1].end <=> end < range.end
      BY <2>6, <2>8, <2>13 DEF range
    <3>2. \A j \in 1 .. n + 1 : j \in 1 .. n \/ j = n + 1
      BY <1>2
    <3>3. \A j \in 1 .. n : j \in 1 .. n + 1
      BY <1>2
    <3>4. n + 1 \in 1 .. n + 1
      BY <1>2
    <3>5. b.truncated <=> \E j \in 1 .. n : t[j].end < ranges[j].end
      BY <1>2, <1>5, <2>8
    <3>. QED  BY <1>5, <2>10, <3>1, <3>2, <3>3, <3>4, <3>5
  <2>16. Len(new.taken) = n + 1 /\ n + 1 <= k + 1 /\ ~(n + 1 < k + 1) /\ new.stopped = FALSE
    BY <1>1, <2>8, <2>10, <2>13
  <2>17. new.bytes = BytesOf(new.taken) /\ new.bytes <= packPolicy.file
    BY <2>9, <2>10, <2>11
  <2>18. new.total = remaining.total - new.bytes /\ new.excerpts = remaining.excerpts - (n + 1)
    <3>1. PICK d \in Nat : d = end - range.start
      BY <1>1, <2>3
    <3>2. new.bytes = b.bytes + d /\ new.total = b.total - d
      BY <2>10, <2>11, <3>1
    <3>3. b.total = remaining.total - b.bytes /\ b.excerpts = remaining.excerpts - n
      BY <1>2
    <3>4. remaining.total \in Nat /\ remaining.excerpts \in Nat
      OBVIOUS
    <3>5. new.total = remaining.total - new.bytes
      BY <2>7, <3>2, <3>3, <3>4
    <3>6. new.excerpts = remaining.excerpts - (n + 1)
      <4>1. new.excerpts = b.excerpts - 1 /\ n \in Nat
        BY <1>2, <2>10
      <4>2. \A p, q \in Nat : (p - q) - 1 = p - (q + 1)
        OBVIOUS
      <4>3. (remaining.excerpts - n) - 1 = remaining.excerpts - (n + 1)
        BY <3>4, <4>1, <4>2, Zenon
      <4>. QED  BY <3>3, <4>1, <4>3, Zenon
    <3>. QED  BY <3>5, <3>6
  <2>19. BuiltAt(f, ranges, remaining, k + 1, new)
    BY <2>10, <2>12, <2>14, <2>15, <2>16, <2>17, <2>18 DEF BuiltAt
  <2>. QED  BY <2>19 DEF new, range
<1>. QED  BY <1>3, <1>4, <1>5 DEF range

\* Something the task asks for of a file is in no excerpt.
Missing(f, fallback, taken) ==
    \E part \in PartsOf(f, fallback) : \A j \in DOMAIN taken : ~Covers(taken[j], part)

\* The excerpts of a file as its pack needs them.
Taken(f, fallback, taken) ==
    /\ taken \in Seq(Ranges)
    /\ \A j \in DOMAIN taken :
            /\ taken[j].start < taken[j].end /\ {taken[j].start, taken[j].end} \cap f.inside = {}
            /\ j > 1 => taken[j - 1].end <= taken[j].start
            /\ taken[j].end \in f.seams /\ f.bom = 0 => Missing(f, fallback, taken)
    /\ BytesOf(taken) <= packPolicy.file

\* The excerpts of a file hold whole characters and are cut short or left out only with a report.
LEMMA BuiltIs ==
  ASSUME NEW f, Shaped(f), NEW fallback \in BOOLEAN, NEW remaining,
         remaining.total \in Nat, remaining.excerpts \in Nat, NEW most, packPolicy.file \in Nat
  PROVE  LET b == BuildExcerpts(f, fallback, remaining, most)
         IN  /\ b \in Buildings /\ Taken(f, fallback, b.taken)
             /\ b.total = remaining.total - BytesOf(b.taken)
             /\ b.excerpts = remaining.excerpts - Len(b.taken)
             /\ b.truncated <=> Missing(f, fallback, b.taken)
<1> DEFINE R == MatchedExcerptRanges(f, fallback)
           last == Len(R)
           built == Built(f, R, remaining, most)
           b == built[last]
           P == {k \in 0 .. last : BuiltAt(f, R, remaining, k, built[k])}
<1>1. Ranged(f, fallback, R)
  BY MatchedIsRanged
<1> HIDE DEF R
<1>2. R \in Seq(Ranges) /\ last \in Nat /\ DOMAIN R = 1 .. last
  BY <1>1 DEF Ranged
<1>3. \A j \in 1 .. last : R[j] \in Ranges /\ R[j].start <= R[j].end /\ (f.bom = 0 => R[j].end \in ToSet(f.ends))
  BY <1>1, <1>2 DEF Ranged, Whole
<1>4. built = [k \in 0 .. last |->
                 IF k = 0
                 THEN [taken |-> <<>>, bytes |-> 0, total |-> remaining.total,
                       excerpts |-> remaining.excerpts, truncated |-> FALSE, stopped |-> FALSE]
                 ELSE AddExcerpt(f, most, built[k - 1], R[k])]
  BY <1>2, BuiltExists
<1> HIDE DEF last, built
<1>5. /\ built[0] = [taken |-> <<>>, bytes |-> 0, total |-> remaining.total,
                     excerpts |-> remaining.excerpts, truncated |-> FALSE, stopped |-> FALSE]
      /\ \A k \in 0 .. last - 1 : built[k + 1] = AddExcerpt(f, most, built[k], R[k + 1])
  <2>1. 0 \in 0 .. last /\ \A k \in 0 .. last - 1 : k + 1 \in 0 .. last /\ k + 1 # 0 /\ (k + 1) - 1 = k
    BY <1>2
  <2>. QED  BY <1>4, <2>1
<1>6. 0 \in P
  <2>1. BuiltAt(f, R, remaining, 0, built[0])
    BY <1>5, BytesOfNone DEF BuiltAt, Buildings
  <2>. QED  BY <1>2, <2>1
<1>7. \A k \in 0 .. last - 1 : k \in P => k + 1 \in P
  <2> SUFFICES ASSUME NEW k \in 0 .. last - 1, k \in P PROVE k + 1 \in P
    OBVIOUS
  <2>1. BuiltAt(f, R, remaining, k, built[k])
    OBVIOUS
  <2>2. BuiltAt(f, R, remaining, k + 1, AddExcerpt(f, most, built[k], R[k + 1]))
    <3> HIDE DEF P
    <3>. QED  BY <1>2, <1>3, <2>1, BuiltKeeps DEF last
  <2>. QED  BY <1>2, <1>5, <2>2
<1>8. BuiltAt(f, R, remaining, last, b)
  <2>1. \A k \in 0 .. last : k \in P
    <3> HIDE DEF P, b
    <3>. QED  BY <1>2, <1>6, <1>7, UpTo
  <2>. QED  BY <1>2, <2>1
<1> HIDE DEF P, b
<1> DEFINE n == Len(b.taken)
           t == b.taken
<1>9. /\ b \in Buildings /\ t \in Seq(Ranges) /\ n \in Nat /\ DOMAIN t = 1 .. n /\ n <= last
      /\ b.stopped <=> n < last
      /\ \A j \in 1 .. n :
            /\ t[j].start = R[j].start /\ t[j].start < t[j].end
            /\ t[j].end <= R[j].end /\ {t[j].start, t[j].end} \cap f.inside = {}
      /\ b.bytes = BytesOf(t) /\ b.bytes <= packPolicy.file
      /\ b.total = remaining.total - b.bytes /\ b.excerpts = remaining.excerpts - n
      /\ b.truncated <=> b.stopped \/ \E j \in 1 .. n : t[j].end < R[j].end
  <2>1. b \in Buildings /\ t \in Seq(Ranges) /\ n \in Nat /\ DOMAIN t = 1 .. n
    BY <1>8 DEF BuiltAt, Buildings
  <2>2. b.stopped \in BOOLEAN
    BY <2>1 DEF Buildings
  <2>. QED  BY <1>8, <2>1, <2>2 DEF BuiltAt
<1> HIDE DEF n, t
<1>10. \A j \in 1 .. n : /\ j \in 1 .. last /\ t[j] \in Ranges
                         /\ t[j].start \in Nat /\ t[j].end \in Nat
  <2> SUFFICES ASSUME NEW j \in 1 .. n
               PROVE  j \in 1 .. last /\ t[j] \in Ranges /\ t[j].start \in Nat /\ t[j].end \in Nat
    OBVIOUS
  <2>1. j \in 1 .. last
    BY <1>2, <1>9
  <2>2. t[j] \in Ranges
    <3>1. t \in Seq(Ranges) /\ j \in DOMAIN t
      BY <1>9
    <3>. QED  BY <3>1
  <2>. QED  BY <2>1, <2>2 DEF Ranges
<1>11. \A j \in 1 .. last : R[j].start \in Nat /\ R[j].end \in Nat
  BY <1>3 DEF Ranges
<1>12. \A i, j \in 1 .. last : i < j => R[i].end < R[j].start
  BY <1>1, <1>2 DEF Ranged, Apart
<1>13. \A part \in PartsOf(f, fallback) :
            /\ part.start \in Nat /\ part.end \in Nat /\ part.start <= part.end
            /\ \E j \in 1 .. last : Covers(R[j], part)
  BY <1>1, <1>2 DEF Ranged, Ranges
<1>14. \A j \in 1 .. last : \E part \in PartsOf(f, fallback) :
            part.end = R[j].end /\ R[j].start <= part.start
  BY <1>1, <1>2 DEF Ranged
\* The part at the end of a range that was not taken whole is in no excerpt.
<1>15. ASSUME NEW j \in 1 .. last, j \in 1 .. n => t[j].end < R[j].end
       PROVE  Missing(f, fallback, t)
  <2>1. PICK part \in PartsOf(f, fallback) : part.end = R[j].end /\ R[j].start <= part.start
    BY <1>14
  <2>2. part.start \in Nat /\ part.end \in Nat /\ part.start <= part.end
    BY <1>13
  <2>3. ASSUME NEW l \in 1 .. n, Covers(t[l], part) PROVE FALSE
    <3>1. /\ t[l].start <= part.start /\ part.end <= t[l].end /\ t[l].start = R[l].start
          /\ t[l].end <= R[l].end /\ l \in 1 .. last
          /\ t[l].start \in Nat /\ t[l].end \in Nat /\ R[l].start \in Nat /\ R[l].end \in Nat
          /\ R[j].start \in Nat /\ R[j].end \in Nat
      BY <1>9, <1>10, <1>11, <2>3 DEF Covers
    <3>2. CASE l = j
      <4>1. t[l].end < R[j].end
        BY <1>15, <3>2
      <4>. QED  BY <2>1, <2>2, <3>1, <4>1
    <3>3. CASE l < j
      <4>1. R[l].end < R[j].start
        BY <1>12, <3>1, <3>3
      <4>. QED  BY <2>1, <2>2, <3>1, <4>1
    <3>4. CASE j < l
      <4>1. R[j].end < R[l].start
        BY <1>12, <3>1, <3>4
      <4>. QED  BY <2>1, <2>2, <3>1, <4>1
    <3>. QED  BY <1>2, <1>9, <3>2, <3>3, <3>4
  <2>. QED  BY <1>9, <2>3 DEF Missing
<1>16. b.truncated <=> Missing(f, fallback, t)
  <2>1. CASE b.truncated
    <3>1. CASE n < last
      <4>1. n + 1 \in 1 .. last /\ n + 1 \notin 1 .. n
        BY <1>2, <1>9, <3>1
      <4>. QED  BY <1>15, <2>1, <4>1
    <3>2. CASE ~(n < last)
      <4>1. PICK j \in 1 .. n : t[j].end < R[j].end
        BY <1>9, <2>1, <3>2
      <4>. QED  BY <1>10, <1>15, <2>1, <4>1
    <3>. QED  BY <3>1, <3>2
  <2>2. CASE ~b.truncated
    <3>1. n = last
      BY <1>2, <1>9, <2>2
    <3>2. \A j \in 1 .. last : t[j].start = R[j].start /\ t[j].end = R[j].end
      <4> SUFFICES ASSUME NEW j \in 1 .. last PROVE t[j].start = R[j].start /\ t[j].end = R[j].end
        OBVIOUS
      <4>1. t[j].start = R[j].start /\ t[j].end <= R[j].end /\ ~(t[j].end < R[j].end)
        BY <1>9, <2>2, <3>1
      <4>2. t[j].end \in Nat /\ R[j].end \in Nat
        BY <1>10, <1>11, <3>1
      <4>. QED  BY <4>1, <4>2
    <3>3. \A part \in PartsOf(f, fallback) : \E j \in 1 .. n : Covers(t[j], part)
      BY <1>13, <3>1, <3>2 DEF Covers
    <3>. QED  BY <1>9, <2>2, <3>3 DEF Missing
  <2>. QED  BY <2>1, <2>2
<1>17. Taken(f, fallback, t)
  <2>1. ASSUME NEW j \in 1 .. n, j > 1 PROVE t[j - 1].end <= t[j].start
    <3>1. j - 1 \in 1 .. n /\ j - 1 < j /\ j - 1 \in 1 .. last /\ j \in 1 .. last
      BY <1>9, <1>10, <2>1
    <3>2. t[j - 1].end <= R[j - 1].end /\ t[j].start = R[j].start /\ R[j - 1].end < R[j].start
      BY <1>9, <1>12, <3>1
    <3>3. t[j - 1].end \in Nat /\ t[j].start \in Nat /\ R[j - 1].end \in Nat /\ R[j].start \in Nat
      BY <1>10, <1>11, <3>1
    <3>. QED  BY <3>2, <3>3
  <2>2. ASSUME NEW j \in 1 .. n, t[j].end \in f.seams, f.bom = 0 PROVE Missing(f, fallback, t)
    <3>1. j \in 1 .. last /\ R[j].end \in ToSet(f.ends)
      BY <1>3, <1>10, <2>2
    <3>2. t[j].end # R[j].end
      BY <2>2, <3>1 DEF Shaped
    <3>3. t[j].end <= R[j].end /\ t[j].end \in Nat /\ R[j].end \in Nat
      BY <1>9, <1>10, <1>11
    <3>4. t[j].end < R[j].end
      BY <3>2, <3>3
    <3>. QED  BY <1>15, <3>1, <3>4
  <2>. QED  BY <1>9, <2>1, <2>2 DEF Taken
<1>18. BuildExcerpts(f, fallback, remaining, most) = b
  BY DEF BuildExcerpts, b, built, last, R
<1>. QED  BY <1>9, <1>16, <1>17, <1>18 DEF n, t

-----------------------------------------------------------------------------
(* The files that are selected *)

\* What buildContextPack selects from: files of the tree that it read and found to be text.
Packable ==
    /\ tree \in Trees /\ packPolicy \in PackPolicies
    /\ \A i \in Admitted : i \in Files /\ Shaped(tree[i]) /\ tree[i].class # "excluded"

\* What follows of the files, the policy and the number of turns.
LEMMA PackableFacts ==
  ASSUME Packable
  PROVE  /\ Len(tree) \in Nat /\ Files = 1 .. Len(tree) /\ IsFiniteSet(Files)
         /\ \A i \in Files : tree[i].score \in Nat
         /\ Wanted \subseteq Files /\ IsFiniteSet(Wanted) /\ Cardinality(Wanted) \in Nat
         /\ \A i \in Wanted : Shaped(tree[i]) /\ tree[i].class # "excluded"
         /\ Fallback \in BOOLEAN
         /\ packPolicy.files \in Nat /\ packPolicy.excerpts \in Nat /\ packPolicy.total \in Nat
         /\ packPolicy.file \in Nat
         /\ Limit \in Nat /\ Limit <= Cardinality(Wanted) /\ Limit <= packPolicy.files
         /\ Cardinality(Wanted) <= packPolicy.files => Limit = Cardinality(Wanted)
<1>1. tree \in Seq(ToSet(tree)) /\ \A i \in Files : tree[i].score \in Nat
  BY LocalizationAssumption DEF Packable, Files
<1>2. Len(tree) \in Nat /\ Files = 1 .. Len(tree)
  BY <1>1 DEF Files
<1>3. IsFiniteSet(Files)
  BY <1>2, FS_Interval, 1 \in Int, Len(tree) \in Int
<1>4. Wanted \subseteq Admitted
  BY DEF Wanted, Matches
<1>5. Wanted \subseteq Files /\ \A i \in Wanted : Shaped(tree[i]) /\ tree[i].class # "excluded"
  BY <1>4 DEF Packable
<1>6. IsFiniteSet(Wanted) /\ Cardinality(Wanted) \in Nat
  BY <1>3, <1>5, FS_Subset, FS_CardinalityType
<1>7. /\ packPolicy.files \in Nat /\ packPolicy.excerpts \in Nat /\ packPolicy.total \in Nat
      /\ packPolicy.file \in Nat
  BY LocalizationAssumption DEF Packable
<1>8. Limit = IF Cardinality(Wanted) <= packPolicy.files THEN Cardinality(Wanted) ELSE packPolicy.files
  <2>1. Cardinality(Wanted) \in Int /\ packPolicy.files \in Int
    BY <1>6, <1>7
  <2>. QED  BY <2>1, MinOfTwo DEF Limit
<1>9. Fallback \in BOOLEAN
  BY DEF Fallback
<1>10. /\ Limit \in Nat /\ Limit <= Cardinality(Wanted) /\ Limit <= packPolicy.files
       /\ Cardinality(Wanted) <= packPolicy.files => Limit = Cardinality(Wanted)
  BY <1>6, <1>7, <1>8
<1>. QED  BY <1>1, <1>2, <1>3, <1>5, <1>6, <1>7, <1>9, <1>10

\* Of files that are left there is a best one.
LEMMA BestIsOne ==
  ASSUME Packable, NEW files \in SUBSET Files, files # {}
  PROVE  Best(files) \in files
<1> DEFINE Better(i, j) == \/ tree[i].score > tree[j].score
                           \/ tree[i].score = tree[j].score /\ i < j
           First(S) == \E i \in S : \A j \in S \ {i} : Better(i, j)
           upto(k) == files \cap (1 .. k)
           n == Len(tree)
           P == {k \in 0 .. n : upto(k) # {} => First(upto(k))}
<1>1. n \in Nat /\ Files = 1 .. n /\ \A i \in 1 .. n : tree[i].score \in Nat
  BY PackableFacts
<1> HIDE DEF n
<1>2. 0 \in P
  BY <1>1
<1>3. ASSUME NEW k \in 0 .. n - 1, k \in P PROVE k + 1 \in P
  <2>0. k + 1 \in 1 .. n /\ k \in Nat
    BY <1>1
  <2>1. CASE k + 1 \notin files
    <3>1. upto(k + 1) = upto(k)
      BY <2>0, <2>1
    <3>2. k + 1 \in 0 .. n
      BY <1>1
    <3> HIDE DEF First, upto
    <3>3. upto(k) # {} => First(upto(k))
      BY <1>3
    <3>. QED  BY <3>1, <3>2, <3>3
  <2>2. CASE k + 1 \in files
    <3>1. upto(k + 1) = upto(k) \cup {k + 1}
      BY <2>0, <2>2
    <3>2. CASE upto(k) = {}
      <4>1. First(upto(k + 1))
        BY <3>1, <3>2
      <4>. QED  BY <1>1, <4>1
    <3>3. CASE upto(k) # {}
      <4>1. PICK i \in upto(k) : \A j \in upto(k) \ {i} : Better(i, j)
        BY <1>3, <3>3
      <4>2. /\ i \in 1 .. n /\ i < k + 1 /\ \A j \in upto(k) : j \in 1 .. n /\ j < k + 1
            /\ \A j \in upto(k) : tree[j].score \in Nat
        BY <1>1, <2>0
      <4>3. tree[i].score \in Nat /\ tree[k + 1].score \in Nat
        BY <1>1, <2>0, <4>2
      <4>4. CASE tree[k + 1].score > tree[i].score
        <5>1. \A j \in upto(k) : Better(k + 1, j)
          <6> SUFFICES ASSUME NEW j \in upto(k) PROVE tree[k + 1].score > tree[j].score
            OBVIOUS
          <6>1. tree[j].score <= tree[i].score
            BY <4>1, <4>2, <4>3
          <6>2. tree[j].score \in Nat
            BY <4>2
          <6> HIDE DEF upto
          <6>. QED  BY <4>3, <4>4, <6>1, <6>2
        <5> HIDE DEF Better, upto
        <5>2. First(upto(k + 1))
          BY <3>1, <5>1
        <5>. QED  BY <1>1, <2>0, <5>2
      <4>5. CASE ~(tree[k + 1].score > tree[i].score)
        <5>1. Better(i, k + 1)
          BY <4>2, <4>3, <4>5
        <5> HIDE DEF Better, upto
        <5>2. First(upto(k + 1))
          BY <3>1, <4>1, <5>1
        <5>. QED  BY <1>1, <2>0, <5>2
      <4>. QED  BY <4>4, <4>5
    <3>. QED  BY <3>2, <3>3
  <2>. QED  BY <2>1, <2>2
<1>4. \A k \in 0 .. n : k \in P
  <2> HIDE DEF P
  <2>. QED  BY <1>1, <1>2, <1>3, UpTo
<1>5. n \in P /\ upto(n) = files
  <2>1. n \in 0 .. n
    BY <1>1
  <2>2. upto(n) = files
    BY <1>1
  <2>. QED  BY <1>4, <2>1, <2>2
<1>6. First(files)
  <2> HIDE DEF First, upto
  <2>. QED  BY <1>5
<1>. QED  BY <1>6 DEF Best

\* The function that gives files their turns is what its definition says.
LEMMA TurnsExist ==
  ASSUME Packable
  PROVE  Turns = [k \in 0 .. Limit |->
                    IF k = 0
                    THEN [rest |-> Wanted, entries |-> [i \in Files |-> <<>>], total |-> packPolicy.total,
                          excerpts |-> packPolicy.excerpts,
                          truncated |-> Cardinality(Wanted) > packPolicy.files]
                    ELSE Take(Turns[k - 1])]
<1> DEFINE Start == [rest |-> Wanted, entries |-> [i \in Files |-> <<>>], total |-> packPolicy.total,
                     excerpts |-> packPolicy.excerpts,
                     truncated |-> Cardinality(Wanted) > packPolicy.files]
           Fits(g, n) == g = [k \in 0 .. n |-> IF k = 0 THEN Start ELSE Take(g[k - 1])]
           P == {n \in Nat : \E g : Fits(g, n)}
           last == Limit
<1>0. last \in Nat
  BY PackableFacts
<1> HIDE DEF last, Start
<1>1. 0 \in P
  <2>1. Fits([k \in 0 .. 0 |-> Start], 0)
    OBVIOUS
  <2> HIDE DEF Fits
  <2>. QED  BY <2>1
<1>2. ASSUME NEW n \in 0 .. last - 1, n \in P PROVE n + 1 \in P
  <2>1. PICK g : Fits(g, n)
    BY <1>2
  <2> DEFINE h == [k \in 0 .. n + 1 |-> IF k = n + 1 THEN Take(g[n]) ELSE g[k]]
  <2>2. \A k \in 0 .. n : g[k] = IF k = 0 THEN Start ELSE Take(g[k - 1])
    BY <2>1
  <2>3. \A k \in 0 .. n + 1 : h[k] = IF k = 0 THEN Start ELSE Take(h[k - 1])
    <3> SUFFICES ASSUME NEW k \in 0 .. n + 1
                 PROVE  h[k] = IF k = 0 THEN Start ELSE Take(h[k - 1])
      OBVIOUS
    <3>1. CASE k = n + 1
      BY <1>0, <3>1
    <3>2. CASE k \in 0 .. n
      <4>1. h[k] = g[k] /\ (k # 0 => h[k - 1] = g[k - 1])
        BY <1>0, <3>2
      <4>. QED  BY <2>2, <3>2, <4>1
    <3>. QED  BY <1>0, <3>1, <3>2
  <2>4. Fits(h, n + 1)
    BY <2>3
  <2> HIDE DEF Fits, h
  <2>. QED  BY <1>0, <2>4
<1>3. \E g : Fits(g, last)
  <2> HIDE DEF P, Fits
  <2>1. \A n \in 0 .. last : n \in P
    BY <1>0, <1>1, <1>2, UpTo
  <2>. QED  BY <1>0, <2>1 DEF P
<1>4. \E g : g = [k \in 0 .. Limit |->
                    IF k = 0
                    THEN [rest |-> Wanted, entries |-> [i \in Files |-> <<>>], total |-> packPolicy.total,
                          excerpts |-> packPolicy.excerpts,
                          truncated |-> Cardinality(Wanted) > packPolicy.files]
                    ELSE Take(g[k - 1])]
  BY <1>3 DEF last, Start
<1>. QED  BY <1>4 DEF Turns

\* Excerpts hold a number of bytes.
LEMMA BytesAreNumbers == ASSUME NEW s \in Seq(Ranges) PROVE BytesOf(s) \in Int
<1> DEFINE n == Len(s)
           v == [k \in DOMAIN s |-> s[k].end - s[k].start]
<1>1. n \in Nat /\ DOMAIN s = 1 .. n /\ \A k \in 1 .. n : s[k] \in Ranges
  OBVIOUS
<1> HIDE DEF n
<1>2. v \in [1 .. n -> Int]
  BY <1>1 DEF Ranges
<1>3. BytesOf(s) = Sums(n, v)[n]
  BY DEF BytesOf, SumTo, n
<1> HIDE DEF v
<1>. QED  BY <1>1, <1>2, <1>3, SumSteps

Accounts == [rest : SUBSET Wanted, entries : [Files -> Seq(Ranges)], total : Nat, excerpts : Nat,
             truncated : BOOLEAN]

\* What k files have come to: each has its excerpts, what they hold is gone from the budgets, and the
\* report says whether a file or a part of one was left out.
TurnAt(k, acc) ==
    /\ acc \in Accounts
    /\ Cardinality(acc.rest) = Cardinality(Wanted) - k
    /\ \A i \in Files : i \notin Wanted \ acc.rest => acc.entries[i] = <<>>
    /\ \A i \in Wanted \ acc.rest : Taken(tree[i], Fallback, acc.entries[i])
    /\ acc.total = packPolicy.total - TotalBytes(acc.entries)
    /\ acc.excerpts = packPolicy.excerpts - TotalExcerpts(acc.entries)
    /\ acc.truncated <=> \/ Cardinality(Wanted) > packPolicy.files
                         \/ \E i \in Wanted \ acc.rest : Missing(tree[i], Fallback, acc.entries[i])

\* What an entry holds more, the totals count more.
LEMMA TotalsGrow ==
  ASSUME Packable, NEW old \in [Files -> Seq(Ranges)], NEW i \in Files, old[i] = <<>>,
         NEW s \in Seq(Ranges)
  PROVE  LET new == [old EXCEPT ![i] = s]
         IN  /\ TotalBytes(new) = TotalBytes(old) + BytesOf(s)
             /\ TotalExcerpts(new) = TotalExcerpts(old) + Len(s)
             /\ TotalBytes(old) \in Int /\ TotalExcerpts(old) \in Int
<1> DEFINE n == Len(tree)
           new == [old EXCEPT ![i] = s]
           vb == [j \in Files |-> BytesOf(old[j])]
           wb == [j \in Files |-> BytesOf(new[j])]
           ve == [j \in Files |-> Len(old[j])]
           we == [j \in Files |-> Len(new[j])]
<1>1. n \in Nat /\ Files = 1 .. n
  BY PackableFacts
<1> HIDE DEF n
<1>2. new \in [Files -> Seq(Ranges)] /\ new[i] = s /\ \A j \in Files \ {i} : new[j] = old[j]
  OBVIOUS
<1> HIDE DEF new
<1>3. \A j \in Files : old[j] \in Seq(Ranges) /\ new[j] \in Seq(Ranges)
  BY <1>2
<1>4. vb \in [1 .. n -> Int] /\ wb \in [1 .. n -> Int]
  <2>1. \A j \in Files : BytesOf(old[j]) \in Int /\ BytesOf(new[j]) \in Int
    BY <1>3, BytesAreNumbers
  <2>. QED  BY <1>1, <2>1
<1>5. ve \in [1 .. n -> Int] /\ we \in [1 .. n -> Int]
  <2>1. \A j \in Files : Len(old[j]) \in Int /\ Len(new[j]) \in Int
    BY <1>3
  <2>. QED  BY <1>1, <2>1
<1>6. /\ vb[i] = 0 /\ wb[i] = BytesOf(s) /\ \A j \in (1 .. n) \ {i} : vb[j] = wb[j]
      /\ ve[i] = 0 /\ we[i] = Len(s) /\ \A j \in (1 .. n) \ {i} : ve[j] = we[j]
  <2>1. vb[i] = BytesOf(<<>>) /\ ve[i] = Len(<<>>) /\ wb[i] = BytesOf(s) /\ we[i] = Len(s)
    BY <1>2
  <2>2. \A j \in (1 .. n) \ {i} : vb[j] = wb[j] /\ ve[j] = we[j]
    BY <1>1, <1>2
  <2>. QED  BY <2>1, <2>2, BytesOfNone
<1>7. /\ TotalBytes(old) = SumTo(n, vb) /\ TotalBytes(new) = SumTo(n, wb)
      /\ TotalExcerpts(old) = SumTo(n, ve) /\ TotalExcerpts(new) = SumTo(n, we)
  BY DEF TotalBytes, TotalExcerpts, n
<1> HIDE DEF vb, wb, ve, we
<1>8. SumTo(n, wb) = SumTo(n, vb) + wb[i] - vb[i] /\ SumTo(n, we) = SumTo(n, ve) + we[i] - ve[i]
  <2>1. i \in 1 .. n
    BY <1>1
  <2>2. SumTo(n, wb) = SumTo(n, vb) + wb[i] - vb[i]
    BY <1>1, <1>4, <1>6, <2>1, SumChanges
  <2>3. SumTo(n, we) = SumTo(n, ve) + we[i] - ve[i]
    BY <1>1, <1>5, <1>6, <2>1, SumChanges
  <2>. QED  BY <2>2, <2>3
<1>9. SumTo(n, vb) \in Int /\ SumTo(n, ve) \in Int
  <2>1. n \in 0 .. n
    BY <1>1
  <2>. QED  BY <1>1, <1>4, <1>5, <2>1, SumSteps DEF SumTo
<1>10. BytesOf(s) \in Int /\ Len(s) \in Int
  BY BytesAreNumbers
<1>. QED  BY <1>6, <1>7, <1>8, <1>9, <1>10 DEF new

\* One file more: the best that is left takes what the budgets leave it.
LEMMA TurnKeeps ==
  ASSUME Packable, NEW k \in 0 .. Limit - 1, NEW acc, TurnAt(k, acc)
  PROVE  TurnAt(k + 1, Take(acc))
<1> DEFINE i == Best(acc.rest)
           f == tree[i]
           built == BuildExcerpts(f, Fallback, acc, Share)
           new == [rest    |-> acc.rest \ {i}, entries  |-> [acc.entries EXCEPT ![i] = built.taken],
                   total   |-> built.total,    excerpts |-> built.excerpts,
                   truncated |-> acc.truncated \/ built.truncated]
<1>1. /\ acc \in Accounts
      /\ Cardinality(acc.rest) = Cardinality(Wanted) - k
      /\ \A j \in Files : j \notin Wanted \ acc.rest => acc.entries[j] = <<>>
      /\ \A j \in Wanted \ acc.rest : Taken(tree[j], Fallback, acc.entries[j])
      /\ acc.total = packPolicy.total - TotalBytes(acc.entries)
      /\ acc.excerpts = packPolicy.excerpts - TotalExcerpts(acc.entries)
      /\ acc.truncated <=> \/ Cardinality(Wanted) > packPolicy.files
                           \/ \E j \in Wanted \ acc.rest : Missing(tree[j], Fallback, acc.entries[j])
  BY DEF TurnAt
<1>2. /\ acc.rest \subseteq Wanted /\ acc.entries \in [Files -> Seq(Ranges)]
      /\ acc.total \in Nat /\ acc.excerpts \in Nat /\ acc.truncated \in BOOLEAN
  BY <1>1 DEF Accounts
<1>3. /\ Wanted \subseteq Files /\ IsFiniteSet(Wanted) /\ Cardinality(Wanted) \in Nat
      /\ Limit \in Nat /\ Limit <= Cardinality(Wanted)
      /\ \A j \in Wanted : Shaped(tree[j])
      /\ Fallback \in BOOLEAN
      /\ packPolicy.files \in Nat /\ packPolicy.excerpts \in Nat /\ packPolicy.total \in Nat
      /\ packPolicy.file \in Nat
  BY PackableFacts
<1>4. IsFiniteSet(acc.rest)
  BY <1>2, <1>3, FS_Subset
<1>5. acc.rest # {}
  <2>1. Cardinality(acc.rest) # 0
    BY <1>1, <1>3
  <2>. QED  BY <1>4, <2>1, FS_EmptySet
<1>6. i \in acc.rest
  BY <1>2, <1>3, <1>5, BestIsOne
<1> HIDE DEF i
<1>7. i \in Wanted /\ i \in Files /\ Shaped(f) /\ acc.entries[i] = <<>>
  BY <1>1, <1>2, <1>3, <1>6
<1>8. /\ built \in Buildings /\ Taken(f, Fallback, built.taken)
      /\ built.total = acc.total - BytesOf(built.taken)
      /\ built.excerpts = acc.excerpts - Len(built.taken)
      /\ built.truncated <=> Missing(f, Fallback, built.taken)
  <2> HIDE DEF f
  <2>. QED  BY <1>2, <1>3, <1>7, BuiltIs
<1>9. Take(acc) = new
  BY DEF Take, i
<1> HIDE DEF built
<1>10. /\ built.taken \in Seq(Ranges) /\ built.total \in Nat /\ built.excerpts \in Nat
       /\ built.truncated \in BOOLEAN
  BY <1>8 DEF Buildings
<1> DEFINE entries == [acc.entries EXCEPT ![i] = built.taken]
<1>11. /\ entries \in [Files -> Seq(Ranges)] /\ entries[i] = built.taken
       /\ \A j \in Files \ {i} : entries[j] = acc.entries[j]
  BY <1>2, <1>7, <1>10
<1>12. /\ TotalBytes(entries) = TotalBytes(acc.entries) + BytesOf(built.taken)
       /\ TotalExcerpts(entries) = TotalExcerpts(acc.entries) + Len(built.taken)
       /\ TotalBytes(acc.entries) \in Int /\ TotalExcerpts(acc.entries) \in Int
  BY <1>2, <1>7, <1>10, TotalsGrow
<1> HIDE DEF entries
<1>13. /\ new.rest = acc.rest \ {i} /\ new.entries = entries /\ new.total = built.total
       /\ new.excerpts = built.excerpts /\ new.truncated = (acc.truncated \/ built.truncated)
  BY DEF entries
<1>14. new \in Accounts
  BY <1>2, <1>10, <1>11 DEF Accounts, entries
<1> HIDE DEF new
<1>15. Cardinality(new.rest) = Cardinality(Wanted) - (k + 1)
  <2>1. Cardinality(acc.rest \ {i}) = Cardinality(acc.rest) - 1
    BY <1>4, <1>6, FS_RemoveElement
  <2>. QED  BY <1>1, <1>3, <1>13, <2>1
<1>16. Wanted \ new.rest = (Wanted \ acc.rest) \cup {i} /\ i \notin Wanted \ acc.rest
  BY <1>6, <1>7, <1>13
<1>17. \A j \in Wanted \ acc.rest : j \in Files /\ new.entries[j] = acc.entries[j]
  BY <1>3, <1>11, <1>13, <1>16
<1>18. \A j \in Files : j \notin Wanted \ new.rest => new.entries[j] = <<>>
  BY <1>1, <1>11, <1>13, <1>16
<1>19. \A j \in Wanted \ new.rest : Taken(tree[j], Fallback, new.entries[j])
  BY <1>1, <1>8, <1>11, <1>13, <1>16, <1>17
<1>20. new.total = packPolicy.total - TotalBytes(new.entries)
  <2>1. BytesOf(built.taken) \in Int
    BY <1>10, BytesAreNumbers
  <2>. QED  BY <1>1, <1>3, <1>8, <1>12, <1>13, <2>1
<1>21. new.excerpts = packPolicy.excerpts - TotalExcerpts(new.entries)
  <2>1. Len(built.taken) \in Int
    BY <1>10
  <2>. QED  BY <1>1, <1>3, <1>8, <1>12, <1>13, <2>1
<1>22. new.truncated <=> \/ Cardinality(Wanted) > packPolicy.files
                         \/ \E j \in Wanted \ new.rest : Missing(tree[j], Fallback, new.entries[j])
  <2>1. Missing(tree[i], Fallback, new.entries[i]) <=> built.truncated
    BY <1>8, <1>11, <1>13
  <2>2. \A j \in Wanted \ acc.rest :
            Missing(tree[j], Fallback, new.entries[j]) <=> Missing(tree[j], Fallback, acc.entries[j])
    BY <1>17
  <2>. QED  BY <1>1, <1>13, <1>16, <2>1, <2>2
<1>23. TurnAt(k + 1, new)
  BY <1>14, <1>15, <1>18, <1>19, <1>20, <1>21, <1>22 DEF TurnAt
<1>. QED  BY <1>9, <1>23

\* What buildContextPack has selected when every turn is over.
LEMMA SelectionIs ==
  ASSUME Packable
  PROVE  TurnAt(Limit, Selection)
<1> DEFINE P == {k \in 0 .. Limit : TurnAt(k, Turns[k])}
           none == [i \in Files |-> <<>>]
           start == [rest |-> Wanted, entries |-> none, total |-> packPolicy.total,
                     excerpts |-> packPolicy.excerpts,
                     truncated |-> Cardinality(Wanted) > packPolicy.files]
<1>1. /\ Limit \in Nat /\ Len(tree) \in Nat /\ Files = 1 .. Len(tree)
      /\ packPolicy.excerpts \in Nat /\ packPolicy.total \in Nat /\ packPolicy.files \in Nat
      /\ Cardinality(Wanted) \in Nat
  BY PackableFacts
<1>2. Turns[0] = start /\ \A k \in 0 .. Limit - 1 : Turns[k + 1] = Take(Turns[k])
  <2>1. 0 \in 0 .. Limit /\ \A k \in 0 .. Limit - 1 : k + 1 \in 0 .. Limit /\ k + 1 # 0 /\ (k + 1) - 1 = k
    BY <1>1
  <2> HIDE DEF start
  <2>2. Turns = [k \in 0 .. Limit |-> IF k = 0 THEN start ELSE Take(Turns[k - 1])]
    BY TurnsExist DEF start
  <2>. QED  BY <2>1, <2>2
<1>3. TotalBytes(none) = 0 /\ TotalExcerpts(none) = 0
  <2> DEFINE n == Len(tree)
             vb == [i \in Files |-> BytesOf(none[i])]
             ve == [i \in Files |-> Len(none[i])]
  <2>1. vb \in [1 .. n -> Int] /\ \A k \in 1 .. n : vb[k] = 0
    BY <1>1, BytesOfNone
  <2>2. ve \in [1 .. n -> Int] /\ \A k \in 1 .. n : ve[k] = 0
    BY <1>1
  <2>3. TotalBytes(none) = SumTo(n, vb) /\ TotalExcerpts(none) = SumTo(n, ve)
    BY DEF TotalBytes, TotalExcerpts
  <2> HIDE DEF vb, ve, none
  <2>. QED  BY <1>1, <2>1, <2>2, <2>3, SumOfZeros
<1>4. 0 \in P
  <2>1. none \in [Files -> Seq(Ranges)] /\ \A i \in Files : none[i] = <<>>
    OBVIOUS
  <2> HIDE DEF none
  <2>2. start \in Accounts
    BY <1>1, <2>1 DEF Accounts
  <2>3. /\ start.rest = Wanted /\ start.entries = none /\ start.total = packPolicy.total
        /\ start.excerpts = packPolicy.excerpts
        /\ start.truncated = (Cardinality(Wanted) > packPolicy.files)
    OBVIOUS
  <2>4. Wanted \ Wanted = {} /\ Cardinality(Wanted) = Cardinality(Wanted) - 0
        /\ packPolicy.total = packPolicy.total - 0 /\ packPolicy.excerpts = packPolicy.excerpts - 0
    BY <1>1
  <2> HIDE DEF start
  <2>5. TurnAt(0, start)
    <3>1. /\ Cardinality(start.rest) = Cardinality(Wanted) - 0
          /\ Wanted \ start.rest = {}
      BY <2>3, <2>4
    <3>2. /\ start.total = packPolicy.total - TotalBytes(start.entries)
          /\ start.excerpts = packPolicy.excerpts - TotalExcerpts(start.entries)
      BY <1>3, <2>3, <2>4
    <3>3. \A i \in Files : start.entries[i] = <<>>
      BY <2>1, <2>3
    <3>. QED  BY <2>2, <2>3, <3>1, <3>2, <3>3 DEF TurnAt
  <2>. QED  BY <1>1, <1>2, <2>5
<1>5. \A k \in 0 .. Limit - 1 : k \in P => k + 1 \in P
  <2> SUFFICES ASSUME NEW k \in 0 .. Limit - 1, k \in P PROVE k + 1 \in P
    OBVIOUS
  <2>1. TurnAt(k, Turns[k])
    OBVIOUS
  <2>2. TurnAt(k + 1, Take(Turns[k]))
    <3> HIDE DEF P
    <3>. QED  BY <2>1, TurnKeeps
  <2>3. k + 1 \in 0 .. Limit
    BY <1>1
  <2>. QED  BY <1>2, <2>2, <2>3
<1>6. Limit \in P
  <2>1. \A k \in 0 .. Limit : k \in P
    <3> HIDE DEF P
    <3>. QED  BY <1>1, <1>4, <1>5, UpTo
  <2>. QED  BY <1>1, <2>1
<1>. QED  BY <1>6 DEF Selection

-----------------------------------------------------------------------------
(* What a pack holds *)

\* A pack as it is built: the validator passes it, and its report of a cut is exact.
Honest(p) ==
    /\ WellFormed(p)
    /\ p.entries \in [Files -> Seq(Ranges)]
    /\ p.truncated <=> \E i \in Wanted : p.entries[i] = <<>> \/ Missing(tree[i], Fallback, p.entries[i])
    /\ (\E i \in Files : \E k \in DOMAIN p.entries[i] : CredentialLike(tree[i], p.entries[i][k]))
            => p.truncated \/ \E i \in Selected(p.entries) : tree[i].bom # 0

\* What a pack holds can be counted.
LEMMA TotalsAreNumbers ==
  ASSUME Packable, NEW entries \in [Files -> Seq(Ranges)]
  PROVE  TotalBytes(entries) \in Int /\ TotalExcerpts(entries) \in Int
<1> DEFINE n == Len(tree)
           vb == [j \in Files |-> BytesOf(entries[j])]
           ve == [j \in Files |-> Len(entries[j])]
<1>1. n \in Nat /\ Files = 1 .. n
  BY PackableFacts
<1> HIDE DEF n
<1>2. vb \in [1 .. n -> Int]
  <2>1. \A j \in Files : BytesOf(entries[j]) \in Int
    BY BytesAreNumbers
  <2>. QED  BY <1>1, <2>1
<1>3. ve \in [1 .. n -> Int]
  BY <1>1
<1>4. TotalBytes(entries) = Sums(n, vb)[n] /\ TotalExcerpts(entries) = Sums(n, ve)[n]
  BY DEF TotalBytes, TotalExcerpts, SumTo, n
<1> HIDE DEF vb, ve
<1>5. n \in 0 .. n
  BY <1>1
<1>6. Sums(n, vb)[n] \in Int
  BY <1>1, <1>2, <1>5, SumSteps
<1>7. Sums(n, ve)[n] \in Int
  BY <1>1, <1>3, <1>5, SumSteps
<1>. QED  BY <1>4, <1>6, <1>7

\* However many files match, and wherever a budget ends, what buildContextPack builds is honest:
\* a pack that holds as many files as may be selected, whole, leaves none out.
LEMMA BuiltPackIsHonest ==
  ASSUME Packable
  PROVE  Honest(BuiltPack)
<1> DEFINE acc == Selection
           entries == acc.entries
           done == Wanted \ acc.rest
           p == BuiltPack
           selected == Selected(entries)
<1>1. /\ acc \in Accounts
      /\ Cardinality(acc.rest) = Cardinality(Wanted) - Limit
      /\ \A j \in Files : j \notin done => entries[j] = <<>>
      /\ \A j \in done : Taken(tree[j], Fallback, entries[j])
      /\ acc.total = packPolicy.total - TotalBytes(entries)
      /\ acc.excerpts = packPolicy.excerpts - TotalExcerpts(entries)
      /\ acc.truncated <=> \/ Cardinality(Wanted) > packPolicy.files
                           \/ \E j \in done : Missing(tree[j], Fallback, entries[j])
  BY SelectionIs DEF TurnAt
<1>2. /\ acc.rest \subseteq Wanted /\ entries \in [Files -> Seq(Ranges)]
      /\ acc.total \in Nat /\ acc.excerpts \in Nat /\ acc.truncated \in BOOLEAN
  BY <1>1 DEF Accounts
<1>3. /\ Wanted \subseteq Files /\ IsFiniteSet(Wanted) /\ Cardinality(Wanted) \in Nat
      /\ Limit \in Nat /\ Limit <= Cardinality(Wanted) /\ Limit <= packPolicy.files
      /\ Cardinality(Wanted) <= packPolicy.files => Limit = Cardinality(Wanted)
      /\ \A j \in Wanted : Shaped(tree[j]) /\ tree[j].class # "excluded"
      /\ packPolicy.files \in Nat /\ packPolicy.excerpts \in Nat /\ packPolicy.total \in Nat
      /\ Len(tree) \in Nat /\ Files = 1 .. Len(tree)
  BY PackableFacts
<1>4. /\ p.status = Status(entries) /\ p.reason = FallbackReason(entries) /\ p.entries = entries
      /\ p.truncated = (acc.truncated \/ Cardinality(selected) < Limit)
      /\ p.total_excerpts = TotalExcerpts(entries) /\ p.total_bytes = TotalBytes(entries)
  BY DEF BuiltPack
<1>5. selected = {i \in Files : entries[i] # <<>>}
  BY DEF Selected
<1> HIDE DEF acc, entries, p, selected
<1>6. done \subseteq Wanted /\ IsFiniteSet(done) /\ Cardinality(done) = Limit
  <2>1. Wanted \cap acc.rest = acc.rest
    BY <1>2
  <2>2. IsFiniteSet(done) /\ Cardinality(done) = Cardinality(Wanted) - Cardinality(acc.rest)
    <3>1. IsFiniteSet(Wanted)
      BY <1>3
    <3>2. /\ IsFiniteSet(Wanted \ acc.rest)
          /\ Cardinality(Wanted \ acc.rest) = Cardinality(Wanted) - Cardinality(Wanted \cap acc.rest)
      BY <3>1, FS_Difference
    <3>. QED  BY <2>1, <3>2
  <2>. QED  BY <1>1, <1>3, <2>2
<1> HIDE DEF done
<1>7. selected \subseteq done
  BY <1>1, <1>5
<1>8. /\ IsFiniteSet(selected) /\ Cardinality(selected) \in Nat /\ Cardinality(selected) <= Limit
      /\ Cardinality(selected) = Limit => selected = done
  <2>1. /\ IsFiniteSet(selected) /\ Cardinality(selected) <= Cardinality(done)
        /\ Cardinality(done) = Cardinality(selected) => done = selected
    BY <1>6, <1>7, FS_Subset
  <2>. QED  BY <1>6, <2>1, FS_CardinalityType
<1>9. p.truncated <=> \E i \in Wanted : entries[i] = <<>> \/ Missing(tree[i], Fallback, entries[i])
  <2>1. ASSUME NEW i \in Wanted, entries[i] = <<>> \/ Missing(tree[i], Fallback, entries[i]), ~p.truncated
        PROVE  FALSE
    <3>1. ~(Cardinality(Wanted) > packPolicy.files) /\ ~(Cardinality(selected) < Limit)
      BY <1>1, <1>4, <2>1
    <3>2. Limit = Cardinality(Wanted) /\ Cardinality(selected) = Limit
      BY <1>3, <1>8, <3>1
    <3>3. done = Wanted /\ selected = done
      BY <1>3, <1>6, <1>8, <3>2, FS_Subset
    <3>4. ~Missing(tree[i], Fallback, entries[i]) /\ entries[i] # <<>>
      BY <1>1, <1>4, <1>5, <2>1, <3>3
    <3>. QED  BY <2>1, <3>4
  <2>2. ASSUME p.truncated, \A i \in Wanted : entries[i] # <<>> /\ ~Missing(tree[i], Fallback, entries[i])
        PROVE  FALSE
    <3>1. Wanted \subseteq selected
      BY <1>3, <1>5, <2>2
    <3>2. selected = Wanted /\ done = Wanted
      BY <1>6, <1>7, <3>1
    <3>3. Cardinality(Wanted) = Limit /\ Cardinality(selected) = Limit
      BY <1>6, <3>2
    <3>4. ~(Cardinality(Wanted) > packPolicy.files) /\ ~(Cardinality(selected) < Limit)
      BY <1>3, <3>3
    <3>. QED  BY <1>1, <1>4, <2>2, <3>2, <3>4
  <2>. QED  BY <2>1, <2>2
<1>10. ASSUME NEW i \in Files, NEW k \in DOMAIN entries[i], CredentialLike(tree[i], entries[i][k])
       PROVE  p.truncated \/ (tree[i].bom # 0 /\ i \in Selected(p.entries))
  <2>1. entries[i] # <<>>
    BY <1>10
  <2>2. i \in done /\ i \in Selected(p.entries)
    BY <1>1, <1>4, <1>5, <2>1 DEF selected
  <2>3. tree[i].bom = 0 => Missing(tree[i], Fallback, entries[i])
    BY <1>1, <1>10, <2>2 DEF CredentialLike, Taken
  <2>. QED  BY <1>1, <1>4, <2>2, <2>3
<1>11. WellFormed(p)
  <2>1. Cardinality(Selected(p.entries)) <= packPolicy.files
    BY <1>3, <1>4, <1>8 DEF selected
  <2>2. p.total_excerpts <= packPolicy.excerpts /\ p.total_bytes <= packPolicy.total
    <3>1. TotalBytes(entries) \in Int /\ TotalExcerpts(entries) \in Int
      BY <1>2, TotalsAreNumbers
    <3>. QED  BY <1>1, <1>2, <1>3, <1>4, <3>1
  <2>3. ASSUME NEW i \in Selected(p.entries) PROVE ValidExcerpts(tree[i], p.entries[i])
    <3>1. i \in done /\ i \in Wanted
      BY <1>4, <1>6, <1>7, <2>3 DEF selected
    <3>2. Taken(tree[i], Fallback, entries[i]) /\ tree[i].class # "excluded"
      BY <1>1, <1>3, <3>1
    <3>. QED  BY <1>4, <3>2 DEF Taken, ValidExcerpts
  <2>4. (p.status = "matched") = (p.reason = Nothing)
    <3>1. \A reason \in Reasons : reason # Nothing
      BY LocalizationAssumption
    <3>2. {"no_admitted_text", "budget_exhausted", "no_match"} \subseteq Reasons
      BY DEF Reasons
    <3>. QED  BY <1>4, <3>1, <3>2 DEF Status, FallbackReason
  <2>5. (p.status = "empty") = (Selected(p.entries) = {})
    BY <1>4 DEF Status
  <2>. QED  BY <1>4, <2>1, <2>2, <2>3, <2>4, <2>5 DEF WellFormed
<1>12. Honest(p)
  BY <1>2, <1>4, <1>9, <1>10, <1>11 DEF Honest
<1>. QED  BY <1>12 DEF p

\* Where the builder looks for the lines that are asked for: as many bytes earlier as the file
\* has of a byte-order mark.
LEMMA PartsAreMoved ==
  ASSUME NEW f, Shaped(f)
  PROVE  PartsOf(f, Fallback) = {Moved(f, lines) : lines \in Asked(f)}
<1> DEFINE n == Len(f.ends)
<1>1. n \in Nat \ {0} /\ DOMAIN f.ends = 1 .. n /\ \A k \in 1 .. n : f.ends[k] \in Nat
  BY DEF Shaped
<1>2. f.bom \in Nat /\ (\A k \in 1 .. n : f.bom <= f.ends[k]) /\ f.hits \subseteq 1 .. n
  BY <1>1 DEF Shaped
<1> HIDE DEF n
<1>3. ASSUME NEW from \in 1 .. n, NEW to \in 1 .. n
      PROVE  Moved(f, Lines(f, from, to)) = [start |-> StartOf(f, from), end |-> LineEnd(f, to)]
  <2>1. CASE from = 1
    <3>1. Max({0, 0 - f.bom}) = 0
      BY <1>2, MaxOfTwo, 0 - f.bom \in Int
    <3>. QED  BY <2>1, <3>1 DEF Moved, Lines, StartOf, LineEnd
  <2>2. CASE from # 1
    <3>1. from - 1 \in 1 .. n
      BY <1>1, <2>2
    <3>2. f.ends[from - 1] - f.bom \in Nat
      BY <1>1, <1>2, <3>1
    <3>3. Max({0, f.ends[from - 1] - f.bom}) = f.ends[from - 1] - f.bom
      BY <3>2, MaxOfTwo
    <3>. QED  BY <2>2, <3>3 DEF Moved, Lines, StartOf, LineEnd
  <2>. QED  BY <2>1, <2>2
<1>4. CASE Fallback
  <2>1. {3, n} = {n, 3}
    OBVIOUS
  <2>2. Min({3, n}) \in 1 .. n
    BY <1>1, MinOfTwo, 3 \in Int
  <2>3. Moved(f, Lines(f, 1, Min({3, n}))) = [start |-> 0, end |-> LineEnd(f, Min({3, n}))]
    <3>1. 1 \in 1 .. n /\ StartOf(f, 1) = 0
      BY <1>1 DEF StartOf
    <3>. QED  BY <1>3, <2>2, <3>1
  <2>4. Moved(f, Lines(f, 1, Min({3, n}))) = FirstLines(f)
    BY <2>1, <2>3 DEF FirstLines, n
  <2>5. Asked(f) = {Lines(f, 1, Min({3, n}))}
    BY <1>4 DEF Asked, n
  <2>. QED  BY <1>4, <2>4, <2>5 DEF PartsOf
<1>5. CASE ~Fallback
  <2> DEFINE lines(h) == Lines(f, Max({1, h - 1}), Min({n, h + 1}))
  <2>1. ASSUME NEW h \in f.hits PROVE Moved(f, lines(h)) = Around(f, h)
    <3>1. h \in 1 .. n /\ h - 1 \in Int /\ h + 1 \in Int
      BY <1>2
    <3>2. Max({1, h - 1}) \in 1 .. n
      BY <1>1, <3>1, MaxOfTwo
    <3>3. Min({n, h + 1}) \in 1 .. n
      BY <1>1, <3>1, MinOfTwo
    <3>. QED  BY <1>3, <3>2, <3>3 DEF Around, n
  <2>2. Asked(f) = {lines(h) : h \in f.hits}
    BY <1>5 DEF Asked, n
  <2>3. PartsOf(f, Fallback) = {Around(f, h) : h \in f.hits}
    BY <1>5 DEF PartsOf
  <2> HIDE DEF lines
  <2>. QED  BY <2>1, <2>2, <2>3
<1>. QED  BY <1>4, <1>5

\* The pack of the run, when it is what was built.
LEMMA CompleteIs ==
  ASSUME Packable, Honest(pack)
  PROVE  pack.truncated <=> ~Complete
<1>1. /\ pack.entries \in [Files -> Seq(Ranges)] /\ Wanted \subseteq Files
      /\ \A i \in Wanted : Shaped(tree[i])
      /\ pack.truncated <=> \E i \in Wanted :
            pack.entries[i] = <<>> \/ Missing(tree[i], Fallback, pack.entries[i])
  BY PackableFacts DEF Honest
<1>2. ASSUME NEW i \in Wanted
      PROVE  (\A lines \in Asked(tree[i]) :
                 \E k \in DOMAIN pack.entries[i] :
                    /\ pack.entries[i][k].start <= Moved(tree[i], lines).start
                    /\ Moved(tree[i], lines).end <= pack.entries[i][k].end)
             <=> ~Missing(tree[i], Fallback, pack.entries[i])
  <2>1. PartsOf(tree[i], Fallback) = {Moved(tree[i], lines) : lines \in Asked(tree[i])}
    BY <1>1, PartsAreMoved
  <2>. QED  BY <2>1 DEF Missing, Covers
<1>. QED  BY <1>1, <1>2 DEF Complete

\* Where a pack may hold a line that was cut.
Excused == pack.truncated \/ \E i \in Selected(pack.entries) : tree[i].bom # 0

\* The pack in every state: candidates are readable files of the tree, and what was built is honest.
PackInv ==
    /\ tree \in Trees /\ packPolicy \in PackPolicies
    /\ \A c \in candidates : c.file \in Files /\ ~Unread(tree[c.file]) /\ ~Unusable(tree[c.file])
    /\ packPc \in {"validate", "packed"} => Honest(pack)
    /\ packPc = "scan" => packRefusal = Nothing
    /\ packRefusal # "malformed"
    /\ packRefusal = "credential" => Excused

\* A file that was read and is neither binary nor empty has lines.
LEMMA PackIsPackable ==
  ASSUME PackInv
  PROVE  Packable
<1> SUFFICES ASSUME NEW i \in Admitted PROVE i \in Files /\ Shaped(tree[i]) /\ tree[i].class # "excluded"
  BY DEF PackInv, Packable
<1>1. i \in Files /\ ~Unread(tree[i]) /\ ~Unusable(tree[i]) /\ tree \in Trees
  BY DEF PackInv, Admitted
<1>2. tree[i].class # "excluded" /\ tree[i].ends # <<>>
  BY <1>1 DEF Unread, Unusable, Size
<1>. QED  BY <1>1, <1>2, LocalizationAssumption DEF Shaped, Files

\* While candidates and tree stay, an honest pack is one.
LEMMA HonestStays ==
  ASSUME UNCHANGED <<tree, packPolicy, candidates>>, NEW p, Honest(p), pack' = p
  PROVE  Honest(pack)'
<1>1. Files' = Files /\ Wanted' = Wanted /\ Fallback' = Fallback
  BY DEF Files, Wanted, Fallback, Matches, Admitted
<1>2. Selected(pack.entries)' = Selected(p.entries)
  BY <1>1 DEF Selected
<1>3. TotalExcerpts(pack.entries)' = TotalExcerpts(p.entries)
  BY <1>1 DEF TotalExcerpts
<1>4. TotalBytes(pack.entries)' = TotalBytes(p.entries)
  BY <1>1 DEF TotalBytes
<1>5. WellFormed(pack)'
  <2>1. WellFormed(p)
    BY DEF Honest
  <2>. QED  BY <1>2, <1>3, <1>4, <2>1 DEF WellFormed, ValidExcerpts
<1>6. /\ pack'.entries \in [Files' -> Seq(Ranges)]
      /\ pack'.truncated <=> \E i \in Wanted' :
            pack'.entries[i] = <<>> \/ Missing(tree[i], Fallback, pack.entries[i])'
  BY <1>1 DEF Honest, Missing, PartsOf
<1>7. (\E i \in Files' : \E k \in DOMAIN pack'.entries[i] : CredentialLike(tree[i], pack.entries[i][k])')
        => pack'.truncated \/ \E i \in Selected(pack.entries)' : tree'[i].bom # 0
  BY <1>1, <1>2 DEF Honest, CredentialLike
<1>. QED  BY <1>5, <1>6, <1>7 DEF Honest

\* The invariant holds while a project is scanned, packed, validated and edited.
LEMMA PackInvHolds == Spec => []PackInv
<1>1. Init => PackInv
  <2>1. Nothing # "malformed" /\ Nothing # "credential"
    BY LocalizationAssumption DEF Reasons
  <2>. QED  BY <2>1 DEF Init, PackInit, PackInv
<1>2. PackInv /\ [Next]_vars => PackInv'
  <2> SUFFICES ASSUME PackInv, [Next]_vars PROVE PackInv'
    OBVIOUS
  <2>0. Nothing # "malformed" /\ Nothing # "credential"
    BY LocalizationAssumption DEF Reasons
  <2>1. CASE ScanFile
    <3>1. packPc' \notin {"validate", "packed"} /\ packRefusal' \in {"source_drift", Nothing}
          /\ (packPc' = "scan" => packRefusal' = Nothing)
      BY <2>1 DEF ScanFile
    <3>2. ASSUME NEW c \in candidates'
          PROVE  (c.file \in Files /\ ~Unread(tree[c.file]) /\ ~Unusable(tree[c.file]))'
      <4>1. CASE c \in candidates
        BY <2>1, <4>1 DEF ScanFile, PackInv, Files, Unread, Unusable
      <4>2. CASE c \notin candidates
        <5>1. c = [file |-> next, frozen |-> next \notin edited]
              /\ ~Unread(tree[next]) /\ ~Unusable(tree[next]) /\ next \in Files
          BY <2>1, <3>2, <4>2 DEF ScanFile
        <5>. QED  BY <2>1, <5>1 DEF ScanFile, Files, Unread, Unusable
      <4>. QED  BY <4>1, <4>2
    <3>3. tree' = tree /\ packPolicy' = packPolicy
      BY <2>1 DEF ScanFile
    <3>. QED  BY <2>0, <3>1, <3>2, <3>3 DEF PackInv
  <2>2. CASE Select
    <3>1. UNCHANGED <<tree, packPolicy, candidates, packRefusal>> /\ pack' = BuiltPack
      BY <2>2 DEF Select
    <3>2. Honest(BuiltPack)
      BY PackIsPackable, BuiltPackIsHonest
    <3>3. Honest(pack)'
      BY <3>1, <3>2, HonestStays
    <3>4. packRefusal # "credential" /\ packPc' # "scan"
      BY <2>0, <2>2 DEF Select, PackInv
    <3>. QED  BY <3>1, <3>3, <3>4 DEF PackInv, Files, Unread, Unusable
  <2>3. CASE Validate
    <3>1. UNCHANGED <<tree, packPolicy, candidates, pack>> /\ packPc = "validate"
      BY <2>3 DEF Validate
    <3>2. Honest(pack) /\ Honest(pack)'
      BY <3>1, HonestStays DEF PackInv
    <3>3. packRefusal' # "malformed" /\ (packRefusal' = "credential" => Excused)
      <4>1. WellFormed(pack)
        BY <3>2 DEF Honest
      <4>2. \/ packRefusal' = Nothing
            \/ /\ packRefusal' = "credential"
               /\ \E i \in Files : \E k \in DOMAIN pack.entries[i] :
                        CredentialLike(tree[i], pack.entries[i][k])
        BY <2>3, <4>1 DEF Validate
      <4>. QED  BY <2>0, <3>2, <4>2 DEF Honest, Excused
    <3>4. packPc' # "scan" /\ (Excused <=> Excused')
      BY <2>3, <3>1 DEF Validate, Excused, Selected, Files
    <3>. QED  BY <3>1, <3>2, <3>3, <3>4 DEF PackInv, Files, Unread, Unusable
  <2>4. CASE UNCHANGED <<tree, packPolicy, packPc, candidates, pack, packRefusal>>
    <3>1. Honest(pack) => Honest(pack)'
      BY <2>4, HonestStays
    <3>2. Excused <=> Excused'
      BY <2>4 DEF Excused, Selected, Files
    <3>. QED  BY <2>4, <3>1, <3>2 DEF PackInv, Files, Unread, Unusable
  <2>. QED  BY <2>1, <2>2, <2>3, <2>4
      DEF Next, vars, packVars, EditFile, RunRouted, ResumeRouted, Invoke, Answer, Invocation
<1>. QED  BY <1>1, <1>2, PTL DEF Spec

\* A file that is edited while the project is packed is not taken: a pack holds bytes of the
\* frozen project only, however many files change and change back.
THEOREM PacksAreOfSnapshot == Spec => []PackIsOfSnapshot
<1>1. Init => PackIsOfSnapshot
  BY DEF Init, PackInit, PackIsOfSnapshot
<1>2. PackIsOfSnapshot /\ [Next]_vars => PackIsOfSnapshot'
  <2> SUFFICES ASSUME PackIsOfSnapshot, [Next]_vars PROVE PackIsOfSnapshot'
    OBVIOUS
  <2>1. CASE ScanFile
    <3> SUFFICES ASSUME NEW c \in candidates', c \notin candidates PROVE c.frozen
      BY DEF PackIsOfSnapshot
    <3>1. c = [file |-> next, frozen |-> next \notin edited] /\ next \notin edited
      BY <2>1 DEF ScanFile
    <3>. QED  BY <3>1
  <2>2. CASE ~ScanFile
    <3>1. UNCHANGED candidates
      BY <2>2
      DEF Next, vars, packVars, Select, Validate, EditFile, RunRouted, ResumeRouted, Invoke,
          Answer, Invocation
    <3>. QED  BY <3>1 DEF PackIsOfSnapshot
  <2>. QED  BY <2>1, <2>2
<1>. QED  BY <1>1, <1>2, PTL DEF Spec

\* A pack reports that it was cut exactly when a line the task asks for is missing from it
\* (in a file with a byte-order mark: without its last three bytes), passes the validator of
\* packs, and is refused for a credential only where a budget or the mark cut a line; for
\* every project and policy.
THEOREM PacksAreHonest == Spec => []PackIsHonest
<1>1. PackInv /\ PackIsOfSnapshot => PackIsHonest
  <2> SUFFICES ASSUME PackInv, PackIsOfSnapshot PROVE PackIsHonest
    OBVIOUS
  <2>1. ASSUME packPc = "packed" PROVE pack.truncated <=> ~Complete
    <3>1. Honest(pack)
      BY <2>1 DEF PackInv
    <3>. QED  BY <3>1, PackIsPackable, CompleteIs
  <2>. QED  BY <2>1 DEF PackInv, PackIsHonest, Excused
<1>. QED  BY <1>1, PackInvHolds, PacksAreOfSnapshot, PTL

=============================================================================
