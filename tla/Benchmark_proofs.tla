--------------------------- MODULE Benchmark_proofs ---------------------------
(* Proofs about the benchmark harness: one inductive invariant for each of the three calls,
   for any number of configurations, failing readings, mutants, writers and readers. *)
EXTENDS Benchmark, TLAPS

-----------------------------------------------------------------------------
(* The ledger *)

\* What the two files may hold, and what a call at each place has read.
PublishedOr(content) == content \in {NoFile} \cup {built[w] : w \in LedgerWriters} \cup rewritten

ReaderAt(r) ==
    /\ PublishedOr(bodyRead[r])
    /\ ledgerPc[r] = "accepted" => digestRead[r] = bodyRead[r] /\ bodyRead[r] \in Ledgers

\* A writer that has linked its body.
Publishing(w) == ledgerPc[w] \in {"digest", "written"}

\* While the owner leaves the files alone, what has been published or read once stays.
Undisturbed ==
    /\ \A w \in LedgerWriters : Publishing(w) => body = built[w]
    /\ \A w \in LedgerWriters : ledgerPc[w] = "written" => digest = built[w]
    /\ \A w, x \in LedgerWriters : Publishing(w) /\ Publishing(x) => w = x
    /\ digest # NoFile => digest = body
    /\ \A r \in LedgerReaders : bodyRead[r] # NoFile => body = bodyRead[r]
    /\ \A r \in LedgerReaders : digestRead[r] # NoFile => digest = digestRead[r]

LedgerInv ==
    /\ LedgerTypeOK
    /\ PublishedOr(body)
    /\ \A r \in LedgerReaders : ReaderAt(r)
    /\ interventions = 0 => Undisturbed

LEMMA LedgerInitInv == LedgerInit => LedgerInv
  BY LedgerAssumption DEF LedgerInit, LedgerInv, LedgerTypeOK, LedgerEnded, PublishedOr,
     ReaderAt, Undisturbed, Publishing

LEMMA LedgerStepInv == LedgerInv /\ [LedgerNext]_ledgerVars => LedgerInv'
<1> SUFFICES ASSUME LedgerInv, [LedgerNext]_ledgerVars PROVE LedgerInv'
  OBVIOUS
<1> USE LedgerAssumption
    DEF LedgerInv, LedgerTypeOK, LedgerEnded, PublishedOr, ledgerFiles, ownerVars
<1>1. ASSUME NEW w \in LedgerWriters, LinkBody(w) PROVE LedgerInv'
  <2>1. LedgerTypeOK' /\ UNCHANGED ownerVars
    BY <1>1 DEF LinkBody, Step
  <2>2. PublishedOr(body)' /\ (\A q \in LedgerReaders : ReaderAt(q)')
    BY <1>1 DEF LinkBody, Step, ReaderAt
  <2>3. interventions = 0 => Undisturbed'
    BY <1>1 DEF LinkBody, Step, ReaderAt, Undisturbed, Publishing
  <2> QED BY <2>1, <2>2, <2>3
<1>2. ASSUME NEW w \in LedgerWriters, LinkDigest(w) PROVE LedgerInv'
  <2>1. LedgerTypeOK' /\ UNCHANGED ownerVars
    BY <1>2 DEF LinkDigest, Step
  <2>2. PublishedOr(body)' /\ (\A q \in LedgerReaders : ReaderAt(q)')
    BY <1>2 DEF LinkDigest, Step, ReaderAt
  <2>3. interventions = 0 => Undisturbed'
    BY <1>2 DEF LinkDigest, Step, ReaderAt, Undisturbed, Publishing
  <2> QED BY <2>1, <2>2, <2>3
<1>3. ASSUME NEW r \in LedgerReaders, ReadBody(r) PROVE LedgerInv'
  <2>1. LedgerTypeOK' /\ UNCHANGED ownerVars
    BY <1>3 DEF ReadBody, Step
  <2>2. PublishedOr(body)' /\ (\A q \in LedgerReaders : ReaderAt(q)')
    BY <1>3 DEF ReadBody, Step, ReaderAt
  <2>3. interventions = 0 => Undisturbed'
    BY <1>3 DEF ReadBody, Step, ReaderAt, Undisturbed, Publishing
  <2> QED BY <2>1, <2>2, <2>3
<1>4. ASSUME NEW r \in LedgerReaders, ReadDigest(r) PROVE LedgerInv'
  <2>1. LedgerTypeOK' /\ UNCHANGED ownerVars
    BY <1>4 DEF ReadDigest, Step
  <2>2. PublishedOr(body)' /\ (\A q \in LedgerReaders : ReaderAt(q)')
    BY <1>4 DEF ReadDigest, Step, ReaderAt
  <2>3. interventions = 0 => Undisturbed'
    BY <1>4 DEF ReadDigest, Step, ReaderAt, Undisturbed, Publishing
  <2> QED BY <2>1, <2>2, <2>3
<1>5. ASSUME NEW r \in LedgerReaders, CheckLedger(r) PROVE LedgerInv'
  <2>1. LedgerTypeOK' /\ UNCHANGED ownerVars
    BY <1>5 DEF CheckLedger, Step
  <2>2. PublishedOr(body)' /\ (\A q \in LedgerReaders : ReaderAt(q)')
    BY <1>5 DEF CheckLedger, Step, Replays, ReaderAt
  <2>3. interventions = 0 => Undisturbed'
    BY <1>5 DEF CheckLedger, Step, Replays, ReaderAt, Undisturbed, Publishing
  <2> QED BY <2>1, <2>2, <2>3
<1>6. ASSUME NEW p \in LedgerWriters \cup LedgerReaders, LedgerCrash(p) PROVE LedgerInv'
  BY <1>6 DEF LedgerCrash, ReaderAt, Undisturbed, Publishing
<1>7. CASE Intervene
  <2>1. LedgerTypeOK' /\ interventions' # 0
    BY <1>7 DEF Intervene
  <2>2. PublishedOr(body)' /\ (\A q \in LedgerReaders : ReaderAt(q)')
    BY <1>7 DEF Intervene, ReaderAt
  <2> QED BY <2>1, <2>2
<1>8. CASE UNCHANGED ledgerVars
  BY <1>8 DEF ledgerVars, ledgerFiles, ReaderAt, Undisturbed, Publishing
<1> QED BY <1>1, <1>2, <1>3, <1>4, <1>5, <1>6, <1>7, <1>8 DEF LedgerNext

LEMMA LedgerInvImplies == LedgerInv => LedgerHasOneAuthor
  BY LedgerAssumption DEF LedgerInv, LedgerTypeOK, PublishedOr, ReaderAt, Undisturbed,
     Publishing, LedgerHasOneAuthor

\* What a reader accepts is some writer's or the owner's; while the owner leaves the files
\* alone, one writer succeeds at most, and what was read once stays (ledger.js,
\* writeExclusive and readBenchmarkLedger).
THEOREM LedgersHaveOneAuthor == Spec => []LedgerHasOneAuthor
<1>1. Init => LedgerInv
  BY LedgerInitInv DEF Init
<1>2. LedgerInv /\ [Next]_vars => LedgerInv'
  BY LedgerStepInv DEF Next, vars
<1> QED BY <1>1, <1>2, LedgerInvImplies, PTL DEF Spec

-----------------------------------------------------------------------------
(* The calibration *)

Tried == Range(Mutations)

CalTypeOK ==
    /\ next \in 1 .. Len(Mutations) + 1
    /\ calStep \in {"prepare", "mutate", "verify"}
    /\ ruling \in [Tried -> {"none", "accepts", "rejects", "overruns", "breaks"}]
    /\ observations \in [Tried -> Observable \cup {Nothing}]
    /\ calibration \in {"running", "aborted", "summarized", "contradicted"}

\* Mutations are observed in order, and none is judged before its turn.
InTurn(i) ==
    /\ i < next => observations[Mutations[i]] # Nothing
    /\ i >= next => observations[Mutations[i]] = Nothing /\ ruling[Mutations[i]] = "none"

\* What is observed of a mutation agrees with what the verifier did.
ObservedAt(m) ==
    observations[m] # Nothing =>
        \/ observations[m].outcome = "invalid" /\ ruling[m] = "none"
        \/ /\ ruling[m] # "none" /\ observations[m].target = "mutated"
           /\ observations[m].outcome = Classify(m, StatusOf(ruling[m]))

CalInv ==
    /\ CalTypeOK
    /\ \A i \in 1 .. Len(Mutations) : InTurn(i)
    /\ \A m \in Tried : ObservedAt(m)
    /\ calibration # "contradicted"
    /\ calibration = "summarized" => next > Len(Mutations)

LEMMA MutationsAreOnce ==
    /\ Len(Mutations) \in Nat
    /\ \A i \in 1 .. Len(Mutations) : Mutations[i] \in Tried
    /\ \A m \in Tried : \E i \in 1 .. Len(Mutations) : m = Mutations[i]
    /\ \A i, j \in 1 .. Len(Mutations) : Mutations[i] = Mutations[j] => i = j
  BY CalibrationAssumption DEF Tried, Range, IsInjective

\* The observation of an invalid mutation is always admitted.
LEMMA InvalidIsAdmitted ==
    ASSUME NEW m \in Tried, NEW bytes \in {"baseline", "other", "mutated"}
    PROVE  Invalid(bytes) \in Observable /\ Admitted(m, Invalid(bytes))
           /\ Invalid(bytes).outcome = "invalid"
  BY DEF Invalid, Observable, Admitted

\* So is the one made of a verifier's answer.
Judged(m, answer) ==
    [outcome |-> Classify(m, StatusOf(answer)), status |-> StatusOf(answer),
     code |-> answer # "accepts", target |-> "mutated"]

LEMMA JudgedIsAdmitted ==
    ASSUME NEW m \in Tried, NEW answer \in {"accepts", "rejects", "overruns", "breaks"}
    PROVE  Judged(m, answer) \in Observable /\ Admitted(m, Judged(m, answer))
  <1>1. Expected[m] \in {"reject", "accept", "undetermined"}
    BY CalibrationAssumption DEF Tried
  <1> QED BY <1>1 DEF Judged, Classify, StatusOf, Observable, Admitted

\* Recording an admitted observation of the current mutation keeps the invariant.
LEMMA ObserveKeeps ==
    ASSUME CalInv, Running, NEW o \in Observable, Admitted(Current, o), Observe(o),
           \/ o.outcome = "invalid" /\ UNCHANGED ruling
           \/ \E answer \in {"accepts", "rejects", "overruns", "breaks"} :
                  o = Judged(Current, answer) /\ ruling' = [ruling EXCEPT ![Current] = answer]
    PROVE  CalInv'
<1> USE MutationsAreOnce DEF CalInv, CalTypeOK
<1>1. Current \in Tried /\ next \in 1 .. Len(Mutations) /\ Current = Mutations[next]
  BY DEF Running, Current
<1>2. /\ observations' = [observations EXCEPT ![Current] = o]
      /\ next' = next + 1 /\ calStep' = "prepare" /\ UNCHANGED calibration
  BY DEF Observe
<1>3. CalTypeOK'
  BY <1>1, <1>2
<1>4. \A i \in 1 .. Len(Mutations) : InTurn(i)'
  <2> SUFFICES ASSUME NEW i \in 1 .. Len(Mutations) PROVE InTurn(i)'
    OBVIOUS
  <2>1. Mutations[i] = Current <=> i = next
    BY <1>1
  <2>2. CASE i = next
    BY <2>1, <2>2, <1>1, <1>2, CalibrationAssumption DEF InTurn
  <2>3. CASE i # next
    <3>1. observations'[Mutations[i]] = observations[Mutations[i]]
          /\ ruling'[Mutations[i]] = ruling[Mutations[i]]
      BY <2>1, <2>3, <1>1, <1>2
    <3> QED BY <3>1, <2>3, <1>1, <1>2 DEF InTurn
  <2> QED BY <2>2, <2>3
<1>5. \A m \in Tried : ObservedAt(m)'
  <2> SUFFICES ASSUME NEW m \in Tried PROVE ObservedAt(m)'
    OBVIOUS
  <2>1. CASE m = Current
    <3>1. observations'[m] = o /\ ruling[m] = "none"
      BY <2>1, <1>1, <1>2 DEF InTurn
    <3>2. CASE o.outcome = "invalid" /\ UNCHANGED ruling
      BY <3>1, <3>2 DEF ObservedAt
    <3>3. CASE \E answer \in {"accepts", "rejects", "overruns", "breaks"} :
                  o = Judged(Current, answer) /\ ruling' = [ruling EXCEPT ![Current] = answer]
      <4>1. PICK answer \in {"accepts", "rejects", "overruns", "breaks"} :
                  o = Judged(Current, answer) /\ ruling' = [ruling EXCEPT ![Current] = answer]
        BY <3>3
      <4>2. ruling'[m] = answer
        BY <4>1, <2>1
      <4>3. o.target = "mutated" /\ o.outcome = Classify(m, StatusOf(answer))
        BY <4>1, <2>1 DEF Judged
      <4> QED BY <3>1, <4>2, <4>3 DEF ObservedAt, Classify
    <3> QED BY <3>2, <3>3
  <2>2. CASE m # Current
    <3>1. observations'[m] = observations[m] /\ ruling'[m] = ruling[m]
      BY <2>2, <1>1, <1>2
    <3> QED BY <3>1 DEF ObservedAt, Classify
  <2> QED BY <2>1, <2>2
<1> QED BY <1>1, <1>2, <1>3, <1>4, <1>5 DEF Running

LEMMA CalInitInv == CalibrationInit => CalInv
  BY MutationsAreOnce DEF CalibrationInit, CalInv, CalTypeOK, InTurn, ObservedAt, Tried

LEMMA CalStepInv == CalInv /\ [CalibrationNext]_calVars => CalInv'
<1> SUFFICES ASSUME CalInv, [CalibrationNext]_calVars PROVE CalInv'
  OBVIOUS
<1>0. Running => Current \in Tried
  BY MutationsAreOnce DEF CalInv, CalTypeOK, Running, Current
<1>1. CASE Abort
  BY <1>1 DEF Abort, Running, CalInv, CalTypeOK, InTurn, ObservedAt, Classify
<1>2. CASE Prepare
  <2>1. CASE target' = "baseline"
    BY <1>2, <2>1 DEF Prepare, Running, CalInv, CalTypeOK, InTurn, ObservedAt, Classify
  <2>2. CASE target' # "baseline"
    <3>1. PICK bytes \in {"baseline", "other"} : Observe(Invalid(bytes))
      BY <1>2, <2>2 DEF Prepare
    <3>2. Running /\ UNCHANGED ruling
      BY <1>2 DEF Prepare
    <3> QED BY <1>0, <3>1, <3>2, InvalidIsAdmitted, ObserveKeeps
  <2> QED BY <2>1, <2>2
<1>3. CASE Mutate
  <2>1. CASE target' = "mutated"
    BY <1>3, <2>1 DEF Mutate, Running, CalInv, CalTypeOK, InTurn, ObservedAt, Classify
  <2>2. CASE target' # "mutated"
    <3>1. Observe(Invalid("mutated")) /\ Running /\ UNCHANGED ruling
      BY <1>3, <2>2 DEF Mutate
    <3> QED BY <1>0, <3>1, InvalidIsAdmitted, ObserveKeeps
  <2> QED BY <2>1, <2>2
<1>4. CASE VerifyMutation
  <2>1. PICK answer \in {"accepts", "rejects", "overruns", "breaks"} :
            ruling' = [ruling EXCEPT ![Current] = answer] /\ Observe(Judged(Current, answer))
    BY <1>4 DEF VerifyMutation, Judged
  <2>2. Running
    BY <1>4 DEF VerifyMutation
  <2> QED BY <1>0, <2>1, <2>2, JudgedIsAdmitted, ObserveKeeps
<1>5. CASE Summarize
  <2>1. \A m \in Tried : observations[m] # Nothing
    BY <1>5, MutationsAreOnce DEF Summarize, CalInv, CalTypeOK, InTurn
  <2>2. \A m \in Tried : observations[m].outcome # "invalid" => observations[m].target = "mutated"
    BY <2>1 DEF CalInv, ObservedAt
  <2>3. calibration' = "summarized"
    BY <1>5, <2>1, <2>2 DEF Summarize, Tried
  <2> QED BY <1>5, <2>3 DEF Summarize, CalInv, CalTypeOK, InTurn, ObservedAt, Classify
<1>6. CASE UNCHANGED calVars
  BY <1>6 DEF calVars, CalInv, CalTypeOK, InTurn, ObservedAt, Classify
<1> QED BY <1>1, <1>2, <1>3, <1>4, <1>5, <1>6 DEF CalibrationNext

LEMMA CalInvImplies == CalInv => ScoreIsHonest
<1> SUFFICES ASSUME CalInv PROVE ScoreIsHonest
  OBVIOUS
<1>1. ASSUME NEW m \in Tried
      PROVE  /\ Outcome(m) = "none" <=> observations[m] = Nothing
             /\ Outcome(m) = "killed" <=> /\ Expected[m] = "reject" /\ Outcome(m) # "none"
                                         /\ ruling[m] \in {"rejects", "overruns"}
             /\ Outcome(m) = "survived" <=> /\ Expected[m] = "reject" /\ Outcome(m) # "none"
                                           /\ ruling[m] = "accepts"
             /\ Outcome(m) \in {"killed", "survived"} => observations[m].target = "mutated"
  <2>1. CASE observations[m] = Nothing
    BY <2>1 DEF Outcome
  <2>2. CASE observations[m] # Nothing
    <3>1. observations[m] \in Observable /\ Outcome(m) = observations[m].outcome
      BY <2>2 DEF CalInv, CalTypeOK, Outcome
    <3>2. Outcome(m) # "none"
      BY <3>1 DEF Observable
    <3>3. ruling[m] \in {"none", "accepts", "rejects", "overruns", "breaks"}
      BY DEF CalInv, CalTypeOK
    <3>4. ObservedAt(m)
      BY DEF CalInv
    <3>5. CASE observations[m].outcome = "invalid" /\ ruling[m] = "none"
      BY <2>2, <3>1, <3>5
    <3>6. CASE /\ ruling[m] # "none" /\ observations[m].target = "mutated"
               /\ observations[m].outcome = Classify(m, StatusOf(ruling[m]))
      BY <2>2, <3>1, <3>2, <3>3, <3>6 DEF Classify, StatusOf
    <3> QED BY <2>2, <3>4, <3>5, <3>6 DEF ObservedAt
  <2> QED BY <2>1, <2>2
<1>2. calibration = "summarized" => \A m \in Tried : Outcome(m) # "none"
  <2>1. calibration = "summarized" => \A m \in Tried : observations[m] # Nothing
    BY MutationsAreOnce DEF CalInv, CalTypeOK, InTurn
  <2> QED BY <1>1, <2>1
<1> QED BY <1>1, <1>2 DEF ScoreIsHonest, Killed, Survived, CalInv, Tried

\* A calibration never ends in contradiction, and its score counts the mutants that the
\* verifier judged, by what it said (runner.js, mutations.js, statistics.js).
THEOREM ScoresAreHonest == Spec => []ScoreIsHonest
<1>1. Init => CalInv
  BY CalInitInv DEF Init
<1>2. CalInv /\ [Next]_vars => CalInv'
  BY CalStepInv DEF Next, vars
<1> QED BY <1>1, <1>2, CalInvImplies, PTL DEF Spec

-----------------------------------------------------------------------------
(* The pair *)

DirectFirst == <<"direct_codex", "harness">>
HarnessFirst == <<"harness", "direct_codex">>
\* What is left of an order, and whose turn it is.
Todos == {DirectFirst, HarnessFirst, <<"direct_codex">>, <<"harness">>, <<>>}

DirectRuns  == todo \in {DirectFirst, <<"direct_codex">>}
HarnessRuns == todo \in {HarnessFirst, <<"harness">>}
DirectDone  == todo \in {<<"harness">>, <<>>}

Terminals == {"completed", "timeout", "safety_refusal", "verification_failed", "infra_error"}

PairTypeOK ==
    /\ todo \in Todos
    /\ at \in {"start", "inventory", "retake", "verify", "snapshot", "over"}
    /\ tree \in SUBSET Edits /\ litter \in SUBSET Irregular
    /\ blind \in {"no", "before", "after"}
    /\ output \in Outputs \cup {None}
    /\ diff \in SUBSET Edits /\ unsafe \in BOOLEAN
    /\ verified \in {"not_run", "passed", "failed"} /\ terminal \in Terminals
    /\ observed \in [Arms -> Observations \cup {None}]
    /\ pair \in {"none", "valid", "invalid", "lost"}
    /\ readFaults \in Nat

\* What an arm holds that could become a wrong observation, at each of its steps.
DirectAt ==
    DirectRuns =>
        /\ at \in {"start", "inventory", "retake", "verify"} => verified = "not_run"
        /\ at = "retake" =>
                /\ terminal # "completed"
                /\ terminal = "safety_refusal" => unsafe
                /\ Readable /\ "outside" \in tree => unsafe \/ blind = "after"
        /\ at = "verify" =>
                diff = tree /\ Readable /\ unsafe = ("outside" \in tree)
        /\ at = "snapshot" =>
                /\ terminal = "completed" =>
                        /\ verified = "passed" /\ ~unsafe /\ Readable
                        /\ diff = tree /\ diff # {} /\ "outside" \notin tree
                /\ terminal = "safety_refusal" => unsafe
                /\ verified # "not_run" => ~unsafe /\ Readable
                /\ ~Readable => unsafe \/ output = None
                /\ "outside" \in tree =>
                        unsafe \/ output = None \/ (blind = "after" /\ "outside" \in diff)

HarnessAt ==
    HarnessRuns =>
        /\ at \in {"start", "snapshot", "over"}
        /\ at = "snapshot" =>
                /\ terminal = "completed" => verified = "passed" /\ ~unsafe /\ diff = {"inside"}
                /\ terminal = "safety_refusal" => unsafe

\* What is known of an observation of the direct arm.
TrueOfDirect(o) ==
    /\ "irregular" \in tree => o.unsafe
    /\ "hidden" \in tree => o.unsafe \/ o.configuration = None
    /\ "outside" \in tree => \/ o.unsafe \/ o.configuration = None
                             \/ blind = "after" /\ "outside" \in o.changed
    /\ o.success => /\ o.verified = "passed" /\ o.changed # {}
                    /\ tree = {"inside"} /\ "irregular" \notin litter
    /\ o.unsafe /\ o.verified # "not_run" =>
            o.terminal = "safety_refusal" /\ ("irregular" \in litter \/ readFaults > 0)

\* At rest the locals are fresh, and an order with no arm left has nothing to run.
AtRest ==
    /\ todo = <<>> => at \in {"start", "over"}
    /\ at = "start" => verified = "not_run" /\ diff = {} /\ output = None /\ ~unsafe

DirectSeen ==
    IF DirectDone THEN Direct \in Observations /\ TrueOfDirect(Direct) ELSE Direct = None

HarnessSeen ==
    observed["harness"] # None /\ observed["harness"].success =>
        observed["harness"].verified = "passed" /\ observed["harness"].changed # {}

LostPair ==
    pair = "lost" =>
        IF todo = <<>> THEN Direct.unsafe /\ Direct.verified # "not_run"
        ELSE DirectRuns /\ at = "over" /\ blind = "before"

PairInv == PairTypeOK /\ AtRest /\ DirectAt /\ HarnessAt /\ DirectSeen /\ HarnessSeen /\ LostPair

\* The arms an order has left.
LEMMA TodoFacts ==
    /\ Head(<<"direct_codex">>) = "direct_codex" /\ Tail(<<"direct_codex">>) = <<>>
    /\ Head(<<"harness">>) = "harness" /\ Tail(<<"harness">>) = <<>>
    /\ Head(DirectFirst) = "direct_codex" /\ Tail(DirectFirst) = <<"harness">>
    /\ Head(HarnessFirst) = "harness" /\ Tail(HarnessFirst) = <<"direct_codex">>
  BY DEF DirectFirst, HarnessFirst

LEMMA TodosDiffer ==
    /\ <<"direct_codex">> # <<>> /\ <<"harness">> # <<>>
    /\ DirectFirst # <<>> /\ HarnessFirst # <<>>
    /\ <<"direct_codex">> # <<"harness">> /\ DirectFirst # HarnessFirst
    /\ DirectFirst # <<"harness">> /\ DirectFirst # <<"direct_codex">>
    /\ HarnessFirst # <<"harness">> /\ HarnessFirst # <<"direct_codex">>
<1>1. Len(<<"direct_codex">>) = 1 /\ Len(<<"harness">>) = 1 /\ Len(<<>>) = 0
  OBVIOUS
<1>2. Len(DirectFirst) = 2 /\ Len(HarnessFirst) = 2
  BY DEF DirectFirst, HarnessFirst
<1>3. DirectFirst[1] = "direct_codex" /\ HarnessFirst[1] = "harness"
  BY DEF DirectFirst, HarnessFirst
<1>4. <<"direct_codex">>[1] = "direct_codex" /\ <<"harness">>[1] = "harness"
  OBVIOUS
<1> QED BY <1>1, <1>2, <1>3, <1>4

LEMMA TodoCases ==
    ASSUME todo \in Todos
    PROVE  /\ DirectRuns \/ HarnessRuns \/ todo = <<>>
           /\ DirectRuns => todo # <<>> /\ Head(todo) = "direct_codex" /\ ~HarnessRuns
                            /\ ~DirectDone /\ Tail(todo) \in {<<"harness">>, <<>>}
           /\ HarnessRuns => /\ todo # <<>> /\ Head(todo) = "harness" /\ ~DirectRuns
                             /\ IF DirectDone THEN Tail(todo) = <<>>
                                ELSE Tail(todo) = <<"direct_codex">>
           /\ todo = <<>> => ~DirectRuns /\ ~HarnessRuns /\ DirectDone
<1> USE TodoFacts, TodosDiffer DEF Todos, DirectRuns, HarnessRuns, DirectDone
<1>1. CASE todo = DirectFirst BY <1>1
<1>2. CASE todo = HarnessFirst BY <1>2
<1>3. CASE todo = <<"direct_codex">> BY <1>3
<1>4. CASE todo = <<"harness">> BY <1>4
<1>5. CASE todo = <<>> BY <1>5
<1> QED BY <1>1, <1>2, <1>3, <1>4, <1>5

LEMMA PairInitInv == PairInit => PairInv
<1> SUFFICES ASSUME PairInit PROVE PairInv
  OBVIOUS
<1>1. todo \in {DirectFirst, HarnessFirst}
  BY DEF PairInit, DirectFirst, HarnessFirst
<1>2. PairTypeOK
  BY <1>1 DEF PairInit, PairTypeOK, Todos, Terminals
<1>3. ~DirectDone
  BY <1>1, TodosDiffer DEF DirectDone
<1>4. todo # <<>>
  BY <1>1, TodosDiffer
<1> QED
  BY <1>2, <1>3, <1>4 DEF PairInit, PairInv, AtRest, DirectAt, HarnessAt, DirectSeen,
     HarnessSeen, LostPair, Arms, Direct

\* A step of the direct arm is a step of that arm only.
LEMMA DirectStepKeeps ==
    ASSUME PairInv, DirectRuns, PairTypeOK', DirectAt', at' # "start",
           at # "over", UNCHANGED <<todo, observed, pair>>
    PROVE  PairInv'
<1>1. todo # <<>> /\ ~HarnessRuns /\ ~DirectDone
  BY TodoCases DEF PairInv, PairTypeOK
<1>2. ~HarnessRuns' /\ ~DirectDone'
  BY <1>1 DEF HarnessRuns, DirectDone
<1>3. DirectSeen' /\ HarnessSeen' /\ LostPair'
  BY <1>1, <1>2 DEF PairInv, DirectSeen, HarnessSeen, LostPair, Direct
<1>4. AtRest' /\ HarnessAt'
  BY <1>1, <1>2 DEF AtRest, HarnessAt
<1> QED BY <1>3, <1>4 DEF PairInv

\* The arm whose step it is: only the direct one takes inventory and verifies.
LEMMA RunningArm ==
    ASSUME PairInv
    PROVE  /\ at \in {"inventory", "retake", "verify"} => DirectRuns
           /\ at = "snapshot" => DirectRuns \/ HarnessRuns
           /\ todo # <<>> /\ Head(todo) = "direct_codex" => DirectRuns
           /\ todo # <<>> /\ Head(todo) = "harness" => HarnessRuns
  BY TodoCases DEF PairInv, PairTypeOK, AtRest, HarnessAt

LEMMA DirectExecutionInv == PairInv /\ DirectExecution => PairInv'
<1> SUFFICES ASSUME PairInv, DirectExecution PROVE PairInv'
  OBVIOUS
<1>1. DirectRuns
  BY RunningArm DEF DirectExecution
<1>2. PairTypeOK'
  BY DEF PairInv, PairTypeOK, DirectExecution, Terminals
<1>3. DirectAt'
  BY DEF PairInv, AtRest, DirectAt, DirectExecution
<1>4. at # "over" /\ at' # "start" /\ UNCHANGED <<todo, observed, pair>>
  BY DEF DirectExecution
<1> QED BY <1>1, <1>2, <1>3, <1>4, DirectStepKeeps

LEMMA FirstInventoryFailsInv == PairInv /\ FirstInventoryFails => PairInv'
<1> SUFFICES ASSUME PairInv, FirstInventoryFails PROVE PairInv'
  OBVIOUS
<1>1. DirectRuns /\ todo # <<>> /\ ~HarnessRuns /\ ~DirectDone
  BY RunningArm, TodoCases DEF FirstInventoryFails, PairInv, PairTypeOK
<1>2. DirectRuns' /\ ~HarnessRuns' /\ ~DirectDone' /\ todo' = todo
  BY <1>1 DEF FirstInventoryFails, DirectRuns, HarnessRuns, DirectDone
<1>3. PairTypeOK'
  BY DEF FirstInventoryFails, ReadFault, armVars, PairInv, PairTypeOK
<1>4. AtRest' /\ DirectAt' /\ HarnessAt' /\ LostPair'
  BY <1>1, <1>2 DEF FirstInventoryFails, AtRest, DirectAt, HarnessAt, LostPair
<1>5. DirectSeen' /\ HarnessSeen'
  BY <1>1, <1>2 DEF FirstInventoryFails, PairInv, DirectSeen, HarnessSeen, Direct
<1> QED BY <1>3, <1>4, <1>5 DEF PairInv

LEMMA CaughtInv ==
    ASSUME PairInv, DirectRuns, NEW error \in {"safety_refusal", "infra_error"},
           NEW d \in SUBSET Edits, Caught(error, d),
           verified = "not_run", at # "over",
           \/ ~Readable /\ d = {} /\ blind' = blind
           \/ d = {} /\ blind' = "after"
           \/ d = tree /\ Readable /\ blind' = blind,
           readFaults' \in Nat,
           UNCHANGED <<todo, observed, pair, tree, litter, output, verified>>
    PROVE  PairInv'
<1>1. TerminalFromError(error, output) \in {"timeout", "safety_refusal", "infra_error"}
  BY DEF TerminalFromError
<1>2. terminal' \in {"timeout", "safety_refusal", "infra_error"}
  BY <1>1 DEF Caught
<1>3. diff' \in SUBSET Edits /\ unsafe' \in BOOLEAN
      /\ blind' \in {"no", "before", "after"}
  BY DEF Caught, PairInv, PairTypeOK
<1>4. PairTypeOK'
  BY <1>2, <1>3 DEF Caught, PairInv, PairTypeOK, Terminals
<1>5. terminal' = "safety_refusal" => unsafe'
  BY DEF Caught
<1>6. Readable' <=> Readable
  BY DEF Readable
<1>7. CASE d = {}
  <2>1. at' = "retake" /\ (Readable /\ "outside" \in tree => blind' = "after")
    BY <1>7 DEF Caught
  <2>2. DirectAt'
    BY <1>2, <1>5, <1>6, <2>1 DEF DirectAt
  <2> QED BY <1>4, <2>1, <2>2, DirectStepKeeps
<1>8. CASE d # {}
  <2>1. at' = "snapshot" /\ Readable /\ ("outside" \in tree => unsafe')
    BY <1>8 DEF Caught
  <2>2. DirectAt'
    BY <1>2, <1>5, <1>6, <2>1 DEF DirectAt
  <2> QED BY <1>4, <2>1, <2>2, DirectStepKeeps
<1> QED BY <1>7, <1>8

LEMMA DirectInventoryInv == PairInv /\ DirectInventory => PairInv'
<1> SUFFICES ASSUME PairInv, DirectInventory PROVE PairInv'
  OBVIOUS
<1>1. DirectRuns /\ verified = "not_run" /\ at = "inventory"
  BY RunningArm DEF DirectInventory, PairInv, DirectAt
<1>2. UNCHANGED <<todo, observed, pair, tree, litter, output, verified>>
  BY DEF DirectInventory
<1>3. readFaults' \in Nat
  BY DEF DirectInventory, ReadFault, PairInv, PairTypeOK
<1>4. tree \in SUBSET Edits
  BY DEF PairInv, PairTypeOK
<1>5. CASE ~Readable /\ Caught("safety_refusal", {}) /\ blind' = blind
  BY <1>1, <1>2, <1>3, <1>5, CaughtInv
<1>6. CASE /\ blind' = "after"
           /\ \E error \in {"safety_refusal", "infra_error"} : Caught(error, {})
  BY <1>1, <1>2, <1>3, <1>6, CaughtInv
<1>7. ASSUME Readable, blind' = blind, Inspected(output) # None,
             Caught(Inspected(output), tree)
      PROVE  PairInv'
  <2>1. Inspected(output) \in {"safety_refusal", "infra_error"}
    BY <1>7 DEF Inspected
  <2> QED BY <1>1, <1>2, <1>3, <1>4, <1>7, <2>1, CaughtInv
<1>8. ASSUME Readable, blind' = blind, diff' = tree,
             unsafe' = ("outside" \in tree), at' = "verify", UNCHANGED terminal
      PROVE  PairInv'
  <2>1. PairTypeOK'
    BY <1>2, <1>3, <1>8 DEF PairInv, PairTypeOK
  <2>2. DirectAt'
    BY <1>1, <1>2, <1>8 DEF DirectAt, Readable
  <2> QED BY <1>1, <1>2, <1>8, <2>1, <2>2, DirectStepKeeps
<1> QED BY <1>5, <1>6, <1>7, <1>8 DEF DirectInventory, ReadFault

LEMMA RetakeInventoryInv == PairInv /\ RetakeInventory => PairInv'
<1> SUFFICES ASSUME PairInv, RetakeInventory PROVE PairInv'
  OBVIOUS
<1>1. DirectRuns /\ at = "retake" /\ at' = "snapshot"
  BY RunningArm DEF RetakeInventory
<1>2. UNCHANGED <<todo, observed, pair, tree, blind, output, verified>> /\ (Readable' <=> Readable)
  BY DEF RetakeInventory, Readable
<1>5. diff' \in SUBSET Edits /\ readFaults' \in Nat
  BY DEF RetakeInventory, ReadFault, PairInv, PairTypeOK
<1>6. unsafe' \in BOOLEAN /\ terminal' \in Terminals
  BY DEF RetakeInventory, PairInv, PairTypeOK, Terminals
<1>3. PairTypeOK'
  BY <1>5, <1>6 DEF RetakeInventory, PairInv, PairTypeOK
<1>4. DirectAt'
  <2>1. /\ verified = "not_run" /\ terminal # "completed"
        /\ terminal = "safety_refusal" => unsafe
        /\ Readable /\ "outside" \in tree => unsafe \/ blind = "after"
    BY <1>1 DEF PairInv, DirectAt
  <2>2. CASE Readable /\ diff' = tree /\ UNCHANGED <<unsafe, terminal, readFaults>>
    BY <1>1, <1>2, <2>1, <2>2 DEF DirectAt
  <2>3. CASE terminal' = "safety_refusal" /\ unsafe' = TRUE
    BY <1>1, <1>2, <2>1, <2>3 DEF DirectAt
  <2> QED BY <2>2, <2>3 DEF RetakeInventory
<1> QED BY <1>1, <1>2, <1>3, <1>4, DirectStepKeeps

LEMMA DirectVerifyInv == PairInv /\ DirectVerify => PairInv'
<1> SUFFICES ASSUME PairInv, DirectVerify PROVE PairInv'
  OBVIOUS
<1>1. DirectRuns
  BY RunningArm DEF DirectVerify
<1>2. PairTypeOK'
  BY DEF DirectVerify, PairInv, PairTypeOK, Terminals
<1>3. DirectAt'
  BY <1>1 DEF DirectVerify, ToVerify, Readable, PairInv, DirectAt
<1>4. at # "over" /\ at' # "start" /\ UNCHANGED <<todo, observed, pair>>
  BY DEF DirectVerify
<1> QED BY <1>1, <1>2, <1>3, <1>4, DirectStepKeeps

LEMMA HarnessExecutionInv == PairInv /\ HarnessExecution => PairInv'
<1> SUFFICES ASSUME PairInv, HarnessExecution PROVE PairInv'
  OBVIOUS
<1>1. HarnessRuns /\ ~DirectRuns
  BY RunningArm, TodoCases DEF HarnessExecution, PairInv, PairTypeOK
<1>2. \A error \in {"safety_refusal", "infra_error"} :
          TerminalFromError(error, output') \in {"timeout", "safety_refusal", "infra_error"}
  BY DEF TerminalFromError
<1>3. PairTypeOK'
  BY <1>2 DEF HarnessExecution, PairInv, PairTypeOK, Terminals, Edits
<1>4. HarnessAt'
  BY <1>2 DEF HarnessExecution, HarnessAt
<1>5. ~DirectRuns' /\ UNCHANGED <<todo, tree, litter, blind, observed, pair, readFaults>>
  BY <1>1 DEF HarnessExecution, DirectRuns
<1>6. todo # <<>>
  BY DEF HarnessExecution
<1>7. AtRest' /\ DirectAt'
  BY <1>5, <1>6 DEF HarnessExecution, AtRest, DirectAt
<1>8. DirectSeen' /\ HarnessSeen' /\ LostPair'
  BY <1>1, <1>5, <1>6 DEF PairInv, DirectSeen, HarnessSeen, LostPair, Direct, DirectDone,
     TrueOfDirect
<1> QED BY <1>3, <1>4, <1>7, <1>8 DEF PairInv

LEMMA RecordPairInv == PairInv /\ RecordPair => PairInv'
<1> SUFFICES ASSUME PairInv, RecordPair PROVE PairInv'
  OBVIOUS
<1>1. ~DirectRuns /\ ~HarnessRuns /\ todo = <<>>
  BY TodoCases DEF PairInv, PairTypeOK, RecordPair
<1>2. ~DirectRuns' /\ ~HarnessRuns'
  BY <1>1 DEF RecordPair, DirectRuns, HarnessRuns
<1>3. PairTypeOK'
  BY DEF RecordPair, PairInv, PairTypeOK, armVars
<1>4. LostPair'
  BY <1>1 DEF RecordPair, ExpectedReasons, InvalidReasons, LostPair, Direct
<1>5. AtRest' /\ DirectAt' /\ HarnessAt'
  BY <1>1, <1>2 DEF RecordPair, AtRest, DirectAt, HarnessAt
<1>6. DirectSeen' /\ HarnessSeen'
  BY DEF RecordPair, PairInv, DirectSeen, HarnessSeen, Direct, DirectDone, TrueOfDirect
<1> QED BY <1>3, <1>4, <1>5, <1>6 DEF PairInv

\* What the running arm returns is admitted, whether its last snapshot holds or not.
LEMMA ReturnInv ==
    ASSUME PairInv, at = "snapshot", DirectRuns \/ HarnessRuns,
           NEW o \in Observations, ArmAdmitted(o), Return(o), FreshArm,
           DirectRuns => TrueOfDirect(o)',
           readFaults' \in Nat, readFaults' >= readFaults,
           UNCHANGED <<tree, litter, blind>>
    PROVE  PairInv'
<1> DEFINE a == Head(todo)
<1>1. todo # <<>> /\ a \in Arms /\ todo \in Todos
  BY TodoCases DEF PairInv, PairTypeOK, Arms
<1>2. /\ observed' = [observed EXCEPT ![a] = o]
      /\ todo' = Tail(todo) /\ at' = "start" /\ pair' = pair
  BY DEF Return
<1>3. todo' \in Todos
  BY <1>1, <1>2, TodoCases DEF Todos
<1>4. observed'[a] = o /\ \A b \in Arms \ {a} : observed'[b] = observed[b]
  BY <1>1, <1>2 DEF PairInv, PairTypeOK
<1>5. PairTypeOK'
  BY <1>1, <1>2, <1>3 DEF PairInv, PairTypeOK, FreshArm, Terminals
<1>6. AtRest' /\ DirectAt' /\ HarnessAt'
  BY <1>2 DEF AtRest, DirectAt, HarnessAt, FreshArm
<1>7. HarnessSeen'
  <2>1. o.success => o.verified = "passed" /\ o.changed # {}
    BY DEF ArmAdmitted
  <2> QED BY <1>1, <1>4, <2>1 DEF PairInv, HarnessSeen, Arms
<1>8. DirectSeen'
  <2>1. CASE DirectRuns
    <3>1. a = "direct_codex" /\ todo' \in {<<"harness">>, <<>>}
      BY <2>1, <1>1, <1>2, TodoCases
    <3> QED BY <2>1, <3>1, <1>4 DEF DirectSeen, DirectDone, Direct, TrueOfDirect
  <2>2. CASE HarnessRuns /\ DirectDone
    <3>1. a = "harness" /\ todo' = <<>>
      BY <2>2, <1>1, <1>2, TodoCases
    <3>2. observed'["direct_codex"] = observed["direct_codex"]
      BY <3>1, <1>4 DEF Arms
    <3>3. Direct \in Observations /\ TrueOfDirect(Direct)
      BY <2>2 DEF PairInv, DirectSeen
    <3>4. TrueOfDirect(Direct)'
      BY <3>2, <3>3 DEF TrueOfDirect, Direct, PairInv, PairTypeOK
    <3> QED BY <3>1, <3>2, <3>3, <3>4 DEF DirectSeen, DirectDone, Direct
  <2>3. CASE HarnessRuns /\ ~DirectDone
    <3>1. a = "harness" /\ todo' = <<"direct_codex">>
      BY <2>3, <1>1, <1>2, TodoCases
    <3>2. observed'["direct_codex"] = observed["direct_codex"]
      BY <3>1, <1>4 DEF Arms
    <3>3. ~DirectDone'
      BY <3>1, TodosDiffer DEF DirectDone
    <3> QED BY <2>3, <3>2, <3>3 DEF PairInv, DirectSeen, Direct
  <2> QED BY <2>1, <2>2, <2>3
<1>9. LostPair'
  BY <1>1, <1>2 DEF PairInv, LostPair
<1> QED BY <1>5, <1>6, <1>7, <1>8, <1>9 DEF PairInv

LEMMA SnapshotInv == PairInv /\ Snapshot => PairInv'
<1> SUFFICES ASSUME PairInv, Snapshot PROVE PairInv'
  OBVIOUS
<1>1. at = "snapshot" /\ FreshArm /\ UNCHANGED <<tree, litter, blind>>
  BY DEF Snapshot
<1>2. DirectRuns \/ HarnessRuns
  BY <1>1, RunningArm
<1>3. /\ DirectRuns => Head(todo) = "direct_codex"
      /\ HarnessRuns => Head(todo) = "harness"
  BY TodoCases DEF PairInv, PairTypeOK
<1>4. ASSUME NEW t \in Terminals, NEW u \in BOOLEAN
      PROVE  Observation(t, u) \in Observations
  <2>1. output # None => output.configuration \in Configurations
    BY DEF PairInv, PairTypeOK, Outputs
  <2> QED BY <2>1 DEF Observation, Observations, Terminals, PairInv, PairTypeOK
<1>5. ASSUME NEW o, o = Observation(terminal, unsafe), SnapshotHolds, Return(o)
      PROVE  PairInv'
  <2>1. o \in Observations
    BY <1>4, <1>5 DEF PairInv, PairTypeOK
  <2>2. /\ o.terminal = terminal /\ o.verified = verified /\ o.unsafe = unsafe
        /\ o.success = (terminal = "completed") /\ o.changed = diff
        /\ output = None => o.configuration = None
    BY <1>5 DEF Observation
  <2>3. ArmAdmitted(o)
    BY <1>1, <1>2, <2>2 DEF ArmAdmitted, PairInv, DirectAt, HarnessAt
  <2>4. readFaults' = readFaults
    BY <1>5 DEF SnapshotHolds
  <2>5. DirectRuns => TrueOfDirect(o)'
    <3> SUFFICES ASSUME DirectRuns PROVE TrueOfDirect(o)'
      OBVIOUS
    <3>1. "irregular" \notin tree /\ "irregular" \notin litter
      BY <1>3, <1>5 DEF SnapshotHolds, Admissible
    <3>2. tree \in SUBSET Edits
      BY DEF PairInv, PairTypeOK
    <3>3. o.success => /\ o.verified = "passed" /\ o.changed # {}
                       /\ tree = {"inside"} /\ "irregular" \notin litter
      <4>1. terminal = "completed" =>
                /\ verified = "passed" /\ Readable
                /\ diff = tree /\ diff # {} /\ "outside" \notin tree
        BY <1>1 DEF PairInv, DirectAt
      <4>2. Readable /\ tree # {} /\ "outside" \notin tree => tree = {"inside"}
        BY <3>2 DEF Edits, Irregular, Readable
      <4> QED BY <2>2, <3>1, <4>1, <4>2
    <3>4. "outside" \in tree => \/ o.unsafe \/ o.configuration = None
                                \/ blind = "after" /\ "outside" \in o.changed
      BY <1>1, <2>2 DEF PairInv, DirectAt
    <3>5. "hidden" \in tree => o.unsafe \/ o.configuration = None
      BY <1>1, <2>2 DEF PairInv, DirectAt, Readable, Irregular
    <3>6. ~(o.unsafe /\ o.verified # "not_run")
      BY <1>1, <2>2 DEF PairInv, DirectAt
    <3> QED BY <1>1, <3>1, <3>3, <3>4, <3>5, <3>6 DEF TrueOfDirect
  <2> QED
    BY <1>1, <1>2, <1>5, <2>1, <2>3, <2>4, <2>5, ReturnInv DEF PairInv, PairTypeOK
<1>6. ASSUME NEW o, o = Observation("safety_refusal", TRUE), SnapshotFails, Return(o)
      PROVE  PairInv'
  <2>1. o \in Observations
    BY <1>4, <1>6 DEF Terminals
  <2>2. /\ o.terminal = "safety_refusal" /\ o.verified = verified /\ o.unsafe
        /\ ~o.success /\ o.changed = diff
    BY <1>6 DEF Observation
  <2>3. ArmAdmitted(o)
    BY <2>2 DEF ArmAdmitted
  <2>4. readFaults' \in Nat /\ readFaults' >= readFaults
    BY <1>6 DEF SnapshotFails, ReadFault, PairInv, PairTypeOK
  <2>5. DirectRuns => TrueOfDirect(o)'
    <3> SUFFICES ASSUME DirectRuns, o.verified # "not_run" PROVE "irregular" \in litter' \/ readFaults' > 0
      BY <2>2 DEF TrueOfDirect
    <3>1. "irregular" \notin tree
      BY <1>1, <2>2 DEF PairInv, DirectAt, Readable, Irregular
    <3>2. CASE "irregular" \in litter
      BY <1>1, <3>2
    <3>3. CASE ReadFault
      BY <3>3 DEF ReadFault, PairInv, PairTypeOK
    <3> QED BY <1>3, <1>6, <3>1, <3>2, <3>3 DEF SnapshotFails, Admissible
  <2> QED
    BY <1>1, <1>2, <1>6, <2>1, <2>3, <2>4, <2>5, ReturnInv
<1> QED BY <1>5, <1>6 DEF Snapshot

LEMMA PairStepInv == PairInv /\ [PairNext]_pairVars => PairInv'
<1>1. PairInv /\ UNCHANGED pairVars => PairInv'
  BY DEF pairVars, armVars, PairInv, PairTypeOK, AtRest, DirectAt, HarnessAt, DirectSeen,
     HarnessSeen, LostPair, DirectRuns, HarnessRuns, DirectDone, Direct, TrueOfDirect, Readable
<1> QED
  BY <1>1, FirstInventoryFailsInv, DirectExecutionInv, DirectInventoryInv, RetakeInventoryInv,
     DirectVerifyInv, HarnessExecutionInv, SnapshotInv, RecordPairInv DEF PairNext

LEMMA PairInvImplies == PairInv => PairIsKept /\ ObservationIsTrue
<1> SUFFICES ASSUME PairInv PROVE PairIsKept /\ ObservationIsTrue
  OBVIOUS
<1>1. Direct # None => Direct \in Observations /\ TrueOfDirect(Direct)
  BY DEF PairInv, DirectSeen
<1>2. PairIsKept
  <2> SUFFICES ASSUME pair = "lost" PROVE \/ Direct = None /\ blind = "before"
                                          \/ /\ Direct # None /\ Direct.verified # "not_run"
                                             /\ Direct.terminal = "safety_refusal"
                                             /\ "irregular" \in litter \/ readFaults > 0
    BY DEF PairIsKept
  <2>1. CASE todo = <<>>
    <3>1. DirectDone
      BY <2>1, TodoCases DEF PairInv, PairTypeOK
    <3>2. Direct \in Observations /\ TrueOfDirect(Direct)
      BY <3>1 DEF PairInv, DirectSeen
    <3>3. None \notin Observations
      BY PairAssumption
    <3> QED BY <2>1, <3>2, <3>3 DEF PairInv, LostPair, TrueOfDirect
  <2>2. CASE todo # <<>>
    <3>1. ~DirectDone
      BY <2>2, TodoCases DEF PairInv, PairTypeOK, LostPair
    <3> QED BY <2>2, <3>1 DEF PairInv, LostPair, DirectSeen
  <2> QED BY <2>1, <2>2
<1>3. UnsafeIsRecorded
  BY <1>1 DEF UnsafeIsRecorded, TrueOfDirect
<1>4. SuccessMeansVerified
  <2>1. Direct # None /\ Direct.success =>
            /\ Direct.verified = "passed" /\ Direct.changed # {}
            /\ tree = {"inside"} /\ "irregular" \notin litter
    BY <1>1 DEF TrueOfDirect
  <2> QED BY <2>1 DEF PairInv, HarnessSeen, SuccessMeansVerified, Arms, Direct
<1> QED BY <1>2, <1>3, <1>4 DEF ObservationIsTrue

LEMMA PairAlways == Spec => []PairInv
<1>1. Init => PairInv
  BY PairInitInv DEF Init
<1>2. PairInv /\ [Next]_vars => PairInv'
  BY PairStepInv DEF Next, vars
<1> QED BY <1>1, <1>2, PTL DEF Spec

\* A pair is recorded whatever its arms did, but for the one whose working copy could not be
\* read before the direct arm began, and the one whose working copy a snapshot could not read
\* after its verifier ran (runDirectCodexBenchmarkArm, validateBenchmarkPairResult).
THEOREM PairsAreKept == Spec => []PairIsKept
  BY PairAlways, PairInvImplies, PTL

\* What is recorded of an arm agrees with what the provider and the verifier did, in any
\* order of the arms and however their calls end (runner.js, contracts.js).
THEOREM ObservationsAreTrue == Spec => []ObservationIsTrue
  BY PairAlways, PairInvImplies, PTL

=============================================================================
