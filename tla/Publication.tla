----------------------------- MODULE Publication -----------------------------
(* Publishing without overwrite, and bounded reading: src/core/safe-artifact.js, as
   portable evidence (portable-evidence.js) and its detached signature
   (bundle-attestation.js) use it.

   Exporters publish a bundle, attesters read a bundle and publish a signature over it,
   verifiers read both. All of them use the same two file names in one directory path.
   Whoever owns the machine may meanwhile rename that directory, put another in its place
   and remove what was published. An inode carries the name of the process that made it.

   A definition X_Y is a faulty variant of X. *)
EXTENDS Naturals, FiniteSets

CONSTANTS
    Exporters, Attesters, Verifiers,
    Dirs, FirstDir,                     \* directories; the one at the path at first
    Keys, TrustedKey,                   \* signing keys; the verifiers' one
    Scenarios,          \* who takes part, and how often the owner, the disk and the
                        \* processes act up
    None

Writers == Exporters \cup Attesters
Readers == Attesters \cup Verifiers

ASSUME ProcessAssumption ==
    /\ None \notin Writers \cup Dirs \cup Keys
    /\ Exporters \cap Attesters = {} /\ Writers \cap Verifiers = {}
    /\ FirstDir \in Dirs /\ TrustedKey \in Keys
    /\ Scenarios \subseteq [parties : SUBSET (Writers \cup Verifiers), moves : Nat,
                             faults : Nat, crashes : Nat]

VARIABLES
    place,              \* where each directory is
    entry,              \* the inode each of the two names has, per directory
    temp,               \* the directory that holds a writer's temporary name
    data,               \* what a writer's inode holds
    pc,
    parent,             \* parentStats: the directory a writer means to publish in
    publishing,         \* the flag of that name
    target,             \* where the next removal goes
    seen, got,          \* a reader: the inode it looked up, the bytes it has read
    reading,            \* and the name it reads
    source, key,        \* whose bundle an attester has signed, and with which key
    bundleRead,         \* the bundle a verifier has read
    trouble,            \* what misled a writer or hindered its cleaning
    removed,            \* outputs their owner removed
    due,                \* verifiers that nothing but a wrong signature may refuse
    moves, faults, crashes  \* what is left of the scenario's bounds

diskVars   == <<place, entry, temp, data>>
writerVars == <<parent, publishing, target, trouble>>
readerVars == <<seen, got, reading, source, key, bundleRead>>
ownerVars  == <<removed, moves, due>>
vars == <<diskVars, pc, writerVars, readerVars, ownerVars, faults, crashes>>

-----------------------------------------------------------------------------

Names == {"bundle", "attestation"}
OutputOf(w) == IF w \in Exporters THEN "bundle" ELSE "attestation"

AtPath(d) == place[d] = "path"
Vacant    == \A d \in Dirs : ~AtPath(d)

\* assertOpenParentIdentity: the path still names the directory that was opened.
SameParent(w) == AtPath(parent[w])

\* removeFileFromOriginalParent finds the directory at its path or beside it.
Reachable(d) == place[d] \in {"path", "sibling"}

Reading  == {"look", "read", "confirm"}
Cleaning == {"truncate", "check_path", "remove_at_path", "check_parent",
             "remove_at_parent", "sweep_failed", "sweep_published"}
Ended    == {"published", "failed", "crashed", "accepted", "refused", "absent"}

Goto(p, to) == pc' = [pc EXCEPT ![p] = to]

\* An awaited file operation fails.
Fault == faults > 0 /\ faults' = faults - 1

Note(w, what) == trouble' = [trouble EXCEPT ![w] = @ \cup what]

Drop(d, n) == entry' = [entry EXCEPT ![d][n] = None]

-----------------------------------------------------------------------------
(* readBoundedRegularFileNoFollow, and what its callers do with the bytes *)

\* A read that does not succeed: an attester publishes nothing, a verifier refuses.
GiveUp(r) == Goto(r, IF r \in Attesters THEN "failed" ELSE "refused")

\* verifyBundleAttestationBytes: the digest of this bundle, by this key, and a signature
\* over these bytes that this key verifies.
Vouches(a, bundle) == source[a] = bundle /\ key[a] = TrustedKey

\* The path shows a bundle and a signature over it that successful calls published.
StandsIn(d, e, a) ==
    /\ AtPath(d) /\ entry[d]["bundle"] = e /\ entry[d]["attestation"] = a
    /\ pc[e] = "published" /\ pc[a] = "published" /\ Vouches(a, e)
PairStands == \E d \in Dirs, e \in Exporters, a \in Attesters : StandsIn(d, e, a)

\* A verifier that starts on such a pair is due to accept it.
Begins(r) == r \in Verifiers /\ reading[r] = "bundle"

Look(r) ==
    /\ pc[r] = "look"
    /\ due' = IF Begins(r) /\ PairStands THEN due \cup {r} ELSE due
    /\ \/ \E d \in Dirs :
            /\ AtPath(d) /\ entry[d][reading[r]] # None
            /\ seen' = [seen EXCEPT ![r] = entry[d][reading[r]]]
            /\ Goto(r, "read")
       \/ /\ \A d \in Dirs : AtPath(d) => entry[d][reading[r]] = None
          /\ GiveUp(r) /\ UNCHANGED seen
    /\ UNCHANGED <<diskVars, writerVars, got, reading, source, key, bundleRead, removed,
                   moves, faults, crashes>>

\* The path names the inode that was looked up, not another one.
StillNamed(r) == \E d \in Dirs : AtPath(d) /\ entry[d][reading[r]] = seen[r]

Read(r) ==
    /\ pc[r] = "read"
    /\ IF StillNamed(r)
       THEN got' = [got EXCEPT ![r] = data[seen[r]]] /\ Goto(r, "confirm")
       ELSE GiveUp(r) /\ UNCHANGED got
    /\ UNCHANGED <<diskVars, writerVars, seen, reading, source, key, bundleRead, ownerVars,
                   faults, crashes>>

\* verifyPortableEvidenceBytes, parseAttestation: an artifact that was cut is refused.
Parses(bytes) == bytes = "whole"

\* The second look: the same inode, of the size that was read; and the bytes parse.
ReadHolds(r) == StillNamed(r) /\ data[seen[r]] = got[r] /\ Parses(got[r])

\* createBundleAttestation signs the bytes it has read, then publishes.
ConfirmForSigning(a) ==
    /\ a \in Attesters /\ pc[a] = "confirm"
    /\ \/ /\ ReadHolds(a)
          /\ source' = [source EXCEPT ![a] = seen[a]]
          /\ \E k \in Keys : key' = [key EXCEPT ![a] = k]
          /\ Goto(a, "stat")
       \/ ~ReadHolds(a) /\ GiveUp(a) /\ UNCHANGED <<source, key>>
    /\ UNCHANGED <<diskVars, writerVars, seen, got, reading, bundleRead, ownerVars, faults,
                   crashes>>

\* verifyBundleAttestation reads the bundle first.
ConfirmBundle(v) ==
    /\ v \in Verifiers /\ pc[v] = "confirm" /\ reading[v] = "bundle"
    /\ \/ /\ ReadHolds(v)
          /\ bundleRead' = [bundleRead EXCEPT ![v] = seen[v]]
          /\ reading' = [reading EXCEPT ![v] = "attestation"]
          /\ Goto(v, "look")
       \/ ~ReadHolds(v) /\ GiveUp(v) /\ UNCHANGED <<bundleRead, reading>>
    /\ UNCHANGED <<diskVars, writerVars, seen, got, source, key, ownerVars, faults, crashes>>

ConfirmAttestation(v) ==
    /\ v \in Verifiers /\ pc[v] = "confirm" /\ reading[v] = "attestation"
    /\ IF ReadHolds(v) /\ Vouches(seen[v], bundleRead[v])
       THEN Goto(v, "accepted")
       ELSE GiveUp(v)
    /\ UNCHANGED <<diskVars, writerVars, readerVars, ownerVars, faults, crashes>>

\* A lstat, open, read or stat of the reading that throws.
ReadFails(r) ==
    /\ pc[r] \in Reading /\ Fault /\ GiveUp(r)
    /\ due' = due \ {r}
    /\ UNCHANGED <<diskVars, writerVars, readerVars, removed, moves, crashes>>

-----------------------------------------------------------------------------
(* writeAtomicArtifactNoOverwrite *)

StatParent(w) ==
    /\ pc[w] = "stat"
    /\ \/ \E d \in Dirs :
            AtPath(d) /\ parent' = [parent EXCEPT ![w] = d] /\ Goto(w, "admit")
       \/ Vacant /\ Goto(w, "failed") /\ UNCHANGED parent
    /\ UNCHANGED <<diskVars, publishing, target, trouble, readerVars, ownerVars, faults,
                   crashes>>

\* The output does not exist, and the directory that was opened is still the one.
Admit(w) ==
    /\ pc[w] = "admit"
    /\ Goto(w, IF SameParent(w) /\ entry[parent[w]][OutputOf(w)] = None
               THEN "open" ELSE "failed")
    /\ UNCHANGED <<diskVars, writerVars, readerVars, ownerVars, faults, crashes>>

\* A new name, created wherever the path leads by now.
OpenTemporary(w) ==
    /\ pc[w] = "open"
    /\ \/ \E d \in Dirs :
            /\ AtPath(d)
            /\ temp' = [temp EXCEPT ![w] = d] /\ data' = [data EXCEPT ![w] = "empty"]
            /\ Note(w, IF d = parent[w] THEN {} ELSE {"misplaced"})
            /\ Goto(w, "write")
            /\ UNCHANGED faults
       \/ /\ Fault \/ (Vacant /\ UNCHANGED faults)
          /\ Goto(w, "failed") /\ UNCHANGED <<temp, data, trouble>>
    /\ UNCHANGED <<place, entry, parent, publishing, target, readerVars, ownerVars, crashes>>

\* What assertOpenParentIdentity leads to, between two operations of the try block.
AssertParent(w, at, next) ==
    /\ pc[w] = at
    /\ Goto(w, IF SameParent(w) THEN next ELSE "truncate")
    /\ UNCHANGED <<diskVars, target, trouble, parent, readerVars, ownerVars, faults, crashes>>

\* The bytes may still be short when the link is made.
WriteBytes_Unsynced(w) ==
    /\ pc[w] = "write" /\ SameParent(w)
    /\ data' = [data EXCEPT ![w] = "part"]
    /\ Goto(w, "written")
    /\ UNCHANGED <<place, entry, temp, writerVars, readerVars, ownerVars, faults, crashes>>

\* The bytes are written and synced; no name but the temporary one shows them yet.
WriteBytes(w) ==
    /\ pc[w] = "write"
    /\ \/ /\ SameParent(w)
          /\ data' = [data EXCEPT ![w] = "whole"]
          /\ Goto(w, "written") /\ UNCHANGED faults
       \/ /\ SameParent(w)
          /\ \E d \in {"empty", "part", "whole"} : data' = [data EXCEPT ![w] = d]
          /\ Goto(w, "truncate") /\ Fault
       \/ ~SameParent(w) /\ Goto(w, "truncate") /\ UNCHANGED <<data, faults>>
    /\ UNCHANGED <<place, entry, temp, writerVars, readerVars, ownerVars, crashes>>

\* publishing is set before the link: a link that reports an error may have been made.
AssertWritten(w) ==
    /\ AssertParent(w, "written", "link")
    /\ publishing' = [publishing EXCEPT ![w] = SameParent(w)]

\* A rename in place of the link takes the name from whoever has it.
CanLink_Replaces(w, d) == AtPath(d) /\ temp[w] = d

\* link: both names resolve through the path; an output that exists is EEXIST.
CanLink(w, d) == AtPath(d) /\ temp[w] = d /\ entry[d][OutputOf(w)] = None
Link(w) ==
    /\ pc[w] = "link"
    /\ \/ \E d \in Dirs :
            /\ CanLink(w, d)
            /\ entry' = [entry EXCEPT ![d][OutputOf(w)] = w]
            /\ \/ Goto(w, "linked") /\ UNCHANGED faults
               \/ Goto(w, "truncate") /\ Fault
       \/ /\ Fault \/ (UNCHANGED faults /\ \A d \in Dirs : ~CanLink(w, d))
          /\ Goto(w, "truncate") /\ UNCHANGED entry
    /\ UNCHANGED <<place, temp, data, writerVars, readerVars, ownerVars, crashes>>

AssertLinked(w) ==
    AssertParent(w, "linked", "sweep_published") /\ UNCHANGED publishing

\* The catch block empties the inode before it removes any name of it. When the truncation
\* or its sync throws, the names are left.
Truncate(w) ==
    /\ pc[w] = "truncate"
    /\ \/ /\ data' = [data EXCEPT ![w] = "empty"]
          /\ Goto(w, IF publishing[w] THEN "check_path" ELSE "sweep_failed")
          /\ UNCHANGED <<trouble, faults>>
       \/ Fault /\ Note(w, {"untruncated"}) /\ Goto(w, "sweep_failed") /\ UNCHANGED data
       \/ /\ data' = [data EXCEPT ![w] = "empty"]
          /\ Fault /\ Note(w, {"unswept"}) /\ Goto(w, "sweep_failed")
    /\ UNCHANGED <<place, entry, temp, parent, publishing, target, readerVars, ownerVars,
                   crashes>>

IsOurs_Any(w, d) == entry[d][OutputOf(w)] # None

\* removePathIfHandleIdentity: lstat, and then rm of the path, whatever it names by then.
IsOurs(w, d) == entry[d][OutputOf(w)] = w
CheckPath(w) ==
    /\ pc[w] = "check_path"
    /\ Goto(w, IF \E d \in Dirs : AtPath(d) /\ IsOurs(w, d)
               THEN "remove_at_path" ELSE "check_parent")
    /\ UNCHANGED <<diskVars, writerVars, readerVars, ownerVars, faults, crashes>>

RemoveAtPath(w) ==
    /\ pc[w] = "remove_at_path"
    /\ \/ /\ \/ \E d \in Dirs : AtPath(d) /\ Drop(d, OutputOf(w))
             \/ Vacant /\ UNCHANGED entry
          /\ Goto(w, "check_parent")
          /\ UNCHANGED <<trouble, faults>>
       \/ Fault /\ Note(w, {"unswept"}) /\ Goto(w, "sweep_failed") /\ UNCHANGED entry
    /\ UNCHANGED <<place, temp, data, parent, publishing, target, readerVars, ownerVars,
                   crashes>>

\* The parent is looked for at the path only.
CheckParent_PathOnly(w) ==
    /\ pc[w] = "check_parent"
    /\ Goto(w, "sweep_failed")
    /\ UNCHANGED <<diskVars, writerVars, readerVars, ownerVars, faults, crashes>>

\* removeFileFromOriginalParent: at the path, or under the name it has beside it.
CheckParent(w) ==
    /\ pc[w] = "check_parent"
    /\ LET d == parent[w] IN
        \/ /\ Reachable(d) /\ IsOurs(w, d)
           /\ target' = [target EXCEPT ![w] = place[d]]
           /\ Goto(w, "remove_at_parent")
           /\ UNCHANGED trouble
        \/ /\ ~(Reachable(d) /\ IsOurs(w, d))
           /\ Note(w, IF Reachable(d) THEN {} ELSE {"out_of_reach"})
           /\ Goto(w, "sweep_failed")
           /\ UNCHANGED target
    /\ UNCHANGED <<diskVars, parent, publishing, readerVars, ownerVars, faults, crashes>>

RemoveAtParent(w) ==
    /\ pc[w] = "remove_at_parent"
    /\ \/ /\ \/ \E d \in Dirs :
                    /\ IF target[w] = "path" THEN AtPath(d)
                                             ELSE d = parent[w] /\ place[d] = "sibling"
                    /\ Drop(d, OutputOf(w))
             \/ /\ target[w] = "path" => Vacant
                /\ target[w] = "sibling" => place[parent[w]] # "sibling"
                /\ UNCHANGED entry
          /\ UNCHANGED <<trouble, faults>>
       \/ Fault /\ Note(w, {"unswept"}) /\ UNCHANGED entry
    /\ Goto(w, "sweep_failed")
    /\ UNCHANGED <<place, temp, data, parent, publishing, target, readerVars, ownerVars,
                   crashes>>

\* The finally block removes the temporary name, at the path and in the original parent.
\* It may throw, also when the artifact is published.
Sweepable(w) == temp[w] \in {d \in Dirs : AtPath(d) \/ (d = parent[w] /\ Reachable(d))}
Sweep(w) ==
    /\ pc[w] \in {"sweep_failed", "sweep_published"}
    /\ \/ /\ temp' = [temp EXCEPT ![w] = IF Sweepable(w) THEN None ELSE @]
          /\ Note(w, IF Reachable(parent[w]) THEN {} ELSE {"out_of_reach"})
          /\ Goto(w, IF pc[w] = "sweep_published" THEN "published" ELSE "failed")
          /\ UNCHANGED faults
       \/ /\ Fault
          /\ Note(w, {"unswept"} \cup (IF pc[w] = "sweep_published" THEN {"was_published"}
                                                                   ELSE {}))
          /\ Goto(w, "failed")
          /\ UNCHANGED temp
    /\ UNCHANGED <<place, entry, data, parent, publishing, target, readerVars, ownerVars,
                   crashes>>

-----------------------------------------------------------------------------
(* What happens to them *)

Crash(p) ==
    /\ crashes > 0 /\ pc[p] \notin Ended
    /\ crashes' = crashes - 1
    /\ Goto(p, "crashed")
    /\ UNCHANGED <<diskVars, writerVars, readerVars, ownerVars, faults>>

\* The owner acts while some writers are cleaning up: their check may be out of date.
Disturb ==
    trouble' = [w \in Writers |->
                    trouble[w] \cup IF pc[w] \in Cleaning THEN {"disturbed"} ELSE {}]

MoveDirectory(d, to) ==
    /\ moves > 0 /\ moves' = moves - 1
    /\ place[d] # to /\ (to = "path" => Vacant)
    /\ place' = [place EXCEPT ![d] = to]
    /\ due' = {}
    /\ Disturb
    /\ UNCHANGED <<entry, temp, data, pc, parent, publishing, target, readerVars, removed,
                   faults, crashes>>

RemoveOutput(d, n) ==
    /\ moves > 0 /\ moves' = moves - 1
    /\ AtPath(d) /\ entry[d][n] # None
    /\ Drop(d, n)
    /\ removed' = removed \cup {entry[d][n]}
    /\ due' = {}
    /\ Disturb
    /\ UNCHANGED <<place, temp, data, pc, parent, publishing, target, readerVars, faults,
                   crashes>>

-----------------------------------------------------------------------------

Init ==
    /\ place = [d \in Dirs |-> IF d = FirstDir THEN "path" ELSE "sibling"]
    /\ entry = [d \in Dirs |-> [n \in Names |-> None]]
    /\ temp = [w \in Writers |-> None]
    /\ data = [w \in Writers |-> "none"]
    /\ \E s \in Scenarios :
         /\ pc = [p \in Writers \cup Verifiers |-> IF p \notin s.parties THEN "absent"
                                                 ELSE IF p \in Exporters THEN "stat" ELSE "look"]
         /\ moves = s.moves /\ faults = s.faults /\ crashes = s.crashes
    /\ parent = [w \in Writers |-> None]
    /\ publishing = [w \in Writers |-> FALSE]
    /\ target = [w \in Writers |-> "none"]
    /\ seen = [r \in Readers |-> None]
    /\ got = [r \in Readers |-> "none"]
    /\ reading = [r \in Readers |-> "bundle"]
    /\ source = [a \in Attesters |-> None]
    /\ key = [a \in Attesters |-> None]
    /\ bundleRead = [v \in Verifiers |-> None]
    /\ trouble = [w \in Writers |-> {}]
    /\ removed = {} /\ due = {}

Publish(w) ==
    \/ StatParent(w) \/ Admit(w) \/ OpenTemporary(w)
    \/ WriteBytes(w) \/ AssertWritten(w) \/ Link(w) \/ AssertLinked(w)
    \/ Truncate(w) \/ CheckPath(w) \/ RemoveAtPath(w) \/ CheckParent(w)
    \/ RemoveAtParent(w) \/ Sweep(w)

ReadFile(r) ==
    \/ Look(r) \/ Read(r) \/ ReadFails(r)
    \/ ConfirmForSigning(r) \/ ConfirmBundle(r) \/ ConfirmAttestation(r)

Owner ==
    \/ \E d \in Dirs, to \in {"path", "sibling", "elsewhere"} : MoveDirectory(d, to)
    \/ \E d \in Dirs, n \in Names : RemoveOutput(d, n)

Next ==
    \/ \E w \in Writers : Publish(w)
    \/ \E r \in Readers : ReadFile(r)
    \/ \E p \in Writers \cup Verifiers : Crash(p)
    \/ Owner

Spec == Init /\ [][Next]_vars

-----------------------------------------------------------------------------
(* Properties *)

\* The variables keep their types.
TypeOK ==
    /\ place \in [Dirs -> {"path", "sibling", "elsewhere"}]
    /\ entry \in [Dirs -> [Names -> Writers \cup {None}]]
    /\ temp \in [Writers -> Dirs \cup {None}]
    /\ data \in [Writers -> {"none", "empty", "part", "whole"}]
    /\ pc \in [Writers \cup Verifiers ->
                 Reading \cup Cleaning \cup Ended \cup
                 {"stat", "admit", "open", "write", "written", "link", "linked"}]
    /\ parent \in [Writers -> Dirs \cup {None}]
    /\ publishing \in [Writers -> BOOLEAN]
    /\ target \in [Writers -> {"none", "path", "sibling"}]
    /\ seen \in [Readers -> Writers \cup {None}]
    /\ got \in [Readers -> {"none", "empty", "part", "whole"}]
    /\ reading \in [Readers -> Names]
    /\ source \in [Attesters -> Writers \cup {None}]
    /\ key \in [Attesters -> Keys \cup {None}]
    /\ bundleRead \in [Verifiers -> Writers \cup {None}]
    /\ trouble \in [Writers -> SUBSET {"untruncated", "unswept", "was_published",
                                       "out_of_reach", "disturbed", "misplaced"}]
    /\ removed \subseteq Writers /\ due \subseteq Verifiers
    /\ moves \in Nat /\ faults \in Nat /\ crashes \in Nat

\* Whoever looks at an output name, in any directory and at any moment, finds a whole
\* artifact, or an empty file that a failed call is taking back or has left behind.
OutputIsWhole ==
    \A d \in Dirs, n \in Names : entry[d][n] # None =>
        LET w == entry[d][n] IN
        \/ data[w] = "whole"
        \/ data[w] = "empty" /\ pc[w] \in (Cleaning \ {"sweep_published"}) \cup {"failed", "crashed"}

\* The output name of w shows its artifact in the directory w was given; in another one
\* only if that stood at the path while w opened its temporary name, and was put back.
Shown(w) ==
    \E d \in Dirs :
        /\ entry[d][OutputOf(w)] = w
        /\ d = parent[w] \/ "misplaced" \in trouble[w]

\* An artifact whose call reported success stays under its name, whole, whatever the calls
\* that lose against it clean up: only its owner takes it away, or a cleaning whose check
\* the owner made out of date.
SuccessStays ==
    \A w \in Writers : pc[w] = "published" =>
        \/ data[w] = "whole" /\ Shown(w)
        \/ w \in removed
        \/ \E x \in Writers \ {w} : "disturbed" \in trouble[x]

\* A call that failed leaves no whole artifact under an output name, even in a directory
\* that was moved out of its reach; and no name at all if nothing hindered its cleaning.
FailureRetracts ==
    \A w \in Writers : pc[w] = "failed" =>
        /\ trouble[w] \cap {"untruncated", "was_published"} = {} =>
                \A d \in Dirs, n \in Names : entry[d][n] = w => data[w] # "whole"
        /\ trouble[w] = {} =>
                /\ \A d \in Dirs, n \in Names : entry[d][n] # w
                /\ temp[w] # parent[w] \/ temp[w] = None

\* A verification that starts when a published bundle and a published signature over it, by
\* the trusted key, stand at the path is not refused, though it reads the two one after the
\* other and other calls for the same names start, lose, clean up and crash meanwhile. Only
\* an act of the owner, a fault of its own reading, or a losing call whose check the owner
\* had made out of date before, gets in its way.
StandingPairIsAccepted ==
    \A v \in due : pc[v] = "refused" =>
        \E x \in Writers : "disturbed" \in trouble[x] /\ pc[x] # "published"

=============================================================================
