------------------------- MODULE Publication_proofs -------------------------
(* Theorems about Publication, for any number of exports, signatures and verifications and
   whatever the owner of the machine does: the names show whole artifacts, what is published
   stays, what failed is taken back, and a published pair that stands is not refused. *)
EXTENDS Publication, TLAPS

Processes == Writers \cup Verifiers

-----------------------------------------------------------------------------
(* Types *)

Labels == Reading \cup Cleaning \cup Ended \cup
          {"stat", "admit", "open", "write", "written", "link", "linked"}

\* The conjuncts of TypeOK, by who writes the variables.
DiskType ==
    /\ place \in [Dirs -> {"path", "sibling", "elsewhere"}]
    /\ entry \in [Dirs -> [Names -> Writers \cup {None}]]
    /\ temp \in [Writers -> Dirs \cup {None}]
    /\ data \in [Writers -> {"none", "empty", "part", "whole"}]
WriterType ==
    /\ parent \in [Writers -> Dirs \cup {None}]
    /\ publishing \in [Writers -> BOOLEAN]
    /\ target \in [Writers -> {"none", "path", "sibling"}]
    /\ trouble \in [Writers -> SUBSET {"untruncated", "unswept", "was_published",
                                       "out_of_reach", "disturbed", "misplaced"}]
ReaderType ==
    /\ seen \in [Readers -> Writers \cup {None}]
    /\ got \in [Readers -> {"none", "empty", "part", "whole"}]
    /\ reading \in [Readers -> Names]
    /\ source \in [Attesters -> Writers \cup {None}]
    /\ key \in [Attesters -> Keys \cup {None}]
    /\ bundleRead \in [Verifiers -> Writers \cup {None}]
OwnerType == removed \subseteq Writers /\ moves \in Nat /\ due \subseteq Verifiers
LimitType == faults \in Nat /\ crashes \in Nat
PcType == pc \in [Processes -> Labels]

LEMMA TypeParts ==
    TypeOK <=> DiskType /\ WriterType /\ ReaderType /\ OwnerType /\ LimitType /\ PcType
  BY DEF TypeOK, DiskType, WriterType, ReaderType, OwnerType, LimitType, PcType, Labels,
         Processes

\* A reader that reads has looked up an artifact.
SeenAt(r) == pc[r] \in {"read", "confirm", "accepted"} => seen[r] \in Writers

TypeInv ==
    /\ DiskType /\ WriterType /\ ReaderType /\ OwnerType /\ LimitType /\ PcType
    /\ \A r \in Readers : SeenAt(r)

LEMMA InitTypeInv == Init => TypeInv
<1> SUFFICES ASSUME Init PROVE TypeInv
  OBVIOUS
<1>1. PICK s \in Scenarios :
          /\ pc = [p \in Writers \cup Verifiers |-> IF p \notin s.parties THEN "absent"
                                                  ELSE IF p \in Exporters THEN "stat" ELSE "look"]
          /\ moves = s.moves /\ faults = s.faults /\ crashes = s.crashes
  BY DEF Init
<1>2. moves \in Nat /\ faults \in Nat /\ crashes \in Nat
  BY <1>1, ProcessAssumption
<1>3. pc \in [Processes -> {"absent", "stat", "look"}]
  BY <1>1 DEF Processes
<1>4. PcType /\ \A r \in Readers : SeenAt(r)
  BY <1>3 DEF PcType, Labels, Reading, Ended, SeenAt, Readers, Writers, Processes
<1>5. DiskType /\ WriterType /\ ReaderType /\ OwnerType
  BY <1>2 DEF Init, DiskType, WriterType, ReaderType, OwnerType, Names
<1>. QED
  BY <1>2, <1>4, <1>5 DEF TypeInv, LimitType

\* What a step leaves alone keeps its type.
LEMMA TypesKept ==
  ASSUME TypeInv
  PROVE  /\ UNCHANGED diskVars => DiskType'
         /\ UNCHANGED writerVars => WriterType'
         /\ UNCHANGED readerVars => ReaderType'
         /\ UNCHANGED ownerVars => OwnerType'
         /\ UNCHANGED <<faults, crashes>> \/ (Fault /\ UNCHANGED crashes) => LimitType'
<1>1. UNCHANGED readerVars => ReaderType'
  BY DEF TypeInv, ReaderType, readerVars
<1>2. UNCHANGED diskVars => DiskType'
  BY DEF TypeInv, DiskType, diskVars
<1>3. UNCHANGED writerVars => WriterType'
  BY DEF TypeInv, WriterType, writerVars
<1>4. UNCHANGED ownerVars => OwnerType'
  BY DEF TypeInv, OwnerType, ownerVars
<1>5. UNCHANGED <<faults, crashes>> \/ (Fault /\ UNCHANGED crashes) => LimitType'
  BY DEF TypeInv, LimitType, Fault
<1>. QED  BY <1>1, <1>2, <1>3, <1>4, <1>5

\* Where a process goes, and what it notes.
LEMMA Going ==
  ASSUME TypeInv
  PROVE  /\ \A p \in Processes, to \in Labels : Goto(p, to)
               => PcType' /\ pc'[p] = to /\ \A q \in Processes \ {p} : pc'[q] = pc[q]
         /\ \A w \in Writers : \A what : Note(w, what)
               => /\ trouble'[w] = trouble[w] \cup what
                  /\ \A x \in Writers \ {w} : trouble'[x] = trouble[x]
<1>1. ASSUME NEW p \in Processes, NEW to \in Labels, Goto(p, to)
      PROVE  PcType' /\ pc'[p] = to /\ \A q \in Processes \ {p} : pc'[q] = pc[q]
  BY <1>1 DEF TypeInv, PcType, Goto
<1>2. ASSUME NEW w \in Writers, NEW what, Note(w, what)
      PROVE  /\ trouble'[w] = trouble[w] \cup what
             /\ \A x \in Writers \ {w} : trouble'[x] = trouble[x]
  BY <1>2 DEF TypeInv, WriterType, Note
<1>. QED  BY <1>1, <1>2

\* A step of a writer leaves what the readers have looked up alone.
LEMMA SeenKept ==
  ASSUME TypeInv, NEW p \in Processes, UNCHANGED seen,
         \A q \in Processes \ {p} : pc'[q] = pc[q],
         pc'[p] \in {"read", "confirm", "accepted"} => pc[p] \in {"read", "confirm"}
  PROVE  \A r \in Readers : SeenAt(r)'
  BY DEF TypeInv, SeenAt, Readers, Processes, Writers

Places == {"stat", "admit", "open", "write", "written", "link", "linked"}

LEMMA PublishTypes ==
  ASSUME TypeInv, NEW w \in Writers, Publish(w)
  PROVE  TypeInv'
<1>. USE DEF TypeInv, diskVars, writerVars, readerVars, ownerVars
<1>1. PICK to \in Cleaning \cup Places \cup {"published", "failed"} : Goto(w, to)
  BY DEF Publish, StatParent, Admit, OpenTemporary, WriteBytes, AssertWritten, AssertLinked,
         AssertParent, Link, Truncate, CheckPath, RemoveAtPath, CheckParent, RemoveAtParent,
         Sweep, Cleaning, Places
<1>2. PcType' /\ \A r \in Readers : SeenAt(r)'
  <2>1. w \in Processes /\ to \in Labels /\ to \notin {"read", "confirm", "accepted"}
    BY DEF Processes, Labels, Places, Cleaning, Ended
  <2>2. UNCHANGED seen
    BY DEF Publish, StatParent, Admit, OpenTemporary, WriteBytes, AssertWritten, AssertLinked,
           AssertParent, Link, Truncate, CheckPath, RemoveAtPath, CheckParent, RemoveAtParent,
           Sweep
  <2>3. PcType' /\ pc'[w] = to /\ \A q \in Processes \ {w} : pc'[q] = pc[q]
    BY <1>1, <2>1, Going
  <2>. QED  BY <2>1, <2>2, <2>3, SeenKept DEF Processes
<1>3. UNCHANGED readerVars /\ UNCHANGED ownerVars
      /\ (UNCHANGED <<faults, crashes>> \/ (Fault /\ UNCHANGED crashes))
  BY DEF Publish, StatParent, Admit, OpenTemporary, WriteBytes, AssertWritten, AssertLinked,
         AssertParent, Link, Truncate, CheckPath, RemoveAtPath, CheckParent, RemoveAtParent,
         Sweep
<1>4. DiskType'
  <2>1. CASE UNCHANGED diskVars
    BY <2>1, TypesKept
  <2>2. CASE OpenTemporary(w)
    BY <2>2 DEF OpenTemporary, DiskType
  <2>3. CASE WriteBytes(w)
    BY <2>3 DEF WriteBytes, DiskType
  <2>4. CASE Link(w)
    <3>1. OutputOf(w) \in Names
      BY DEF OutputOf, Names
    <3>. QED  BY <2>4, <3>1 DEF Link, DiskType
  <2>5. CASE Truncate(w)
    BY <2>5 DEF Truncate, DiskType
  <2>6. CASE RemoveAtPath(w) \/ RemoveAtParent(w)
    <3>1. /\ UNCHANGED <<place, temp, data>>
          /\ UNCHANGED entry \/ \E d \in Dirs : Drop(d, OutputOf(w))
      BY <2>6 DEF RemoveAtPath, RemoveAtParent
    <3>2. OutputOf(w) \in Names
      BY DEF OutputOf, Names
    <3>. QED  BY <3>1, <3>2 DEF Drop, DiskType
  <2>7. CASE Sweep(w)
    BY <2>7 DEF Sweep, DiskType
  <2>. QED
    BY <2>1, <2>2, <2>3, <2>4, <2>5, <2>6, <2>7
    DEF Publish, StatParent, Admit, AssertWritten, AssertLinked, AssertParent, CheckPath,
        CheckParent
<1>5. WriterType'
  <2>1. CASE UNCHANGED writerVars
    BY <2>1, TypesKept
  <2>2. CASE StatParent(w)
    BY <2>2 DEF StatParent, WriterType
  <2>3. CASE AssertWritten(w)
    BY <2>3 DEF AssertWritten, AssertParent, SameParent, AtPath, WriterType
  <2>4. CASE CheckParent(w)
    <3>1. CASE UNCHANGED trouble
      BY <2>4, <3>1 DEF CheckParent, Reachable, WriterType
    <3>2. CASE UNCHANGED target
      BY <2>4, <3>2 DEF CheckParent, Note, WriterType
    <3>. QED  BY <2>4, <3>1, <3>2 DEF CheckParent
  <2>5. CASE \/ OpenTemporary(w) \/ Truncate(w) \/ RemoveAtPath(w) \/ RemoveAtParent(w)
             \/ Sweep(w)
    <3>1. /\ UNCHANGED <<parent, publishing, target>>
          /\ \/ UNCHANGED trouble
             \/ \E what \in SUBSET {"untruncated", "unswept", "was_published", "out_of_reach",
                                    "misplaced"} : Note(w, what)
      BY <2>5 DEF OpenTemporary, Truncate, RemoveAtPath, RemoveAtParent, Sweep
    <3>. QED  BY <3>1 DEF Note, WriterType
  <2>. QED
    BY <2>1, <2>2, <2>3, <2>4, <2>5
    DEF Publish, Admit, WriteBytes, AssertLinked, AssertParent, Link, CheckPath
<1>. QED  BY <1>2, <1>3, <1>4, <1>5, TypesKept

LEMMA ReadTypes ==
  ASSUME TypeInv, NEW r \in Readers, ReadFile(r)
  PROVE  TypeInv'
<1>. USE DEF TypeInv, GiveUp
<1>1. /\ UNCHANGED diskVars /\ UNCHANGED writerVars
      /\ UNCHANGED <<faults, crashes>> \/ (Fault /\ UNCHANGED crashes)
      /\ UNCHANGED <<removed, moves>>
  BY DEF ReadFile, Look, Read, ReadFails, ConfirmForSigning, ConfirmBundle,
         ConfirmAttestation, ownerVars
<1>2. PICK to \in {"look", "read", "confirm", "stat", "accepted", "failed", "refused"} : Goto(r, to)
  BY DEF ReadFile, Look, Read, ReadFails, ConfirmForSigning, ConfirmBundle, ConfirmAttestation
<1>3. r \in Processes /\ to \in Labels
  BY DEF Labels, Reading, Ended, Processes, Readers, Writers
<1>4. PcType' /\ pc'[r] = to /\ \A q \in Processes \ {r} : pc'[q] = pc[q]
  BY <1>2, <1>3, Going
<1>5. ReaderType' /\ \A q \in Readers : SeenAt(q)'
  <2>. USE DEF readerVars
  <2>1. CASE Look(r)
    <3>1. /\ UNCHANGED <<got, reading, source, key, bundleRead>>
          /\ \/ UNCHANGED seen /\ to # "read" /\ to # "confirm" /\ to # "accepted"
             \/ \E x \in Writers : seen' = [seen EXCEPT ![r] = x]
      BY <1>4, <2>1 DEF Look, DiskType, ReaderType, Goto, PcType
    <3>. QED
      BY <1>4, <3>1 DEF ReaderType, SeenAt, Processes, Readers, Writers
  <2>2. CASE ReadFails(r)
    <3>1. ReaderType' /\ UNCHANGED seen /\ to \in {"failed", "refused"}
      BY <1>4, <2>2, TypesKept DEF ReadFails, Goto, PcType
    <3>. QED  BY <1>3, <1>4, <3>1, SeenKept
  <2>3. CASE ~Look(r) /\ ~ReadFails(r)
    <3>1. UNCHANGED seen
      BY <2>3 DEF ReadFile, Read, ConfirmForSigning, ConfirmBundle, ConfirmAttestation
    <3>2. pc[r] \in {"read", "confirm"}
      BY <2>3 DEF ReadFile, Read, ConfirmForSigning, ConfirmBundle, ConfirmAttestation
    <3>3. \A q \in Readers : SeenAt(q)'
      BY <1>3, <1>4, <3>1, <3>2, SeenKept
    <3>4. seen[r] \in Writers
      BY <3>2 DEF SeenAt
    <3>5. ReaderType'
      <4>1. CASE Read(r)
        BY <3>4, <4>1 DEF Read, ReaderType, DiskType
      <4>2. CASE ConfirmForSigning(r)
        BY <3>4, <4>2 DEF ConfirmForSigning, ReaderType
      <4>3. CASE ConfirmBundle(r)
        BY <3>4, <4>3 DEF ConfirmBundle, ReaderType, Names
      <4>4. CASE ConfirmAttestation(r)
        BY <4>4 DEF ConfirmAttestation, ReaderType
      <4>. QED  BY <2>3, <4>1, <4>2, <4>3, <4>4 DEF ReadFile
    <3>. QED  BY <3>3, <3>5
  <2>. QED  BY <2>1, <2>2, <2>3
<1>6. due' \subseteq Verifiers
  BY DEF ReadFile, Look, Begins, Read, ReadFails, ConfirmForSigning, ConfirmBundle,
         ConfirmAttestation, ownerVars, OwnerType
<1>. QED  BY <1>1, <1>4, <1>5, <1>6, TypesKept DEF OwnerType

LEMMA OtherTypes ==
  ASSUME TypeInv
  PROVE  /\ \A p \in Processes : Crash(p) => TypeInv'
         /\ \A d \in Dirs, to \in {"path", "sibling", "elsewhere"} :
                MoveDirectory(d, to) => TypeInv'
         /\ \A d \in Dirs, n \in Names : RemoveOutput(d, n) => TypeInv'
         /\ UNCHANGED vars => TypeInv'
<1>1. ASSUME NEW p \in Processes, Crash(p) PROVE TypeInv'
  <2>1. /\ UNCHANGED diskVars /\ UNCHANGED writerVars /\ UNCHANGED readerVars
        /\ UNCHANGED ownerVars /\ Goto(p, "crashed")
    BY <1>1 DEF Crash
  <2>2. LimitType'
    BY <1>1 DEF Crash, TypeInv, LimitType
  <2>3. "crashed" \in Labels
    BY DEF Labels, Ended
  <2>4. PcType' /\ pc'[p] = "crashed" /\ \A q \in Processes \ {p} : pc'[q] = pc[q]
    BY <2>1, <2>3, Going
  <2>. QED  BY <2>1, <2>2, <2>4, TypesKept, SeenKept DEF TypeInv, readerVars
<1>2. Disturb => \E what \in [Writers -> SUBSET {"disturbed"}] :
                    trouble' = [w \in Writers |-> trouble[w] \cup what[w]]
  <2>. DEFINE what == [w \in Writers |-> IF pc[w] \in Cleaning THEN {"disturbed"} ELSE {}]
  <2>1. what \in [Writers -> SUBSET {"disturbed"}]
    OBVIOUS
  <2>2. Disturb => trouble' = [w \in Writers |-> trouble[w] \cup what[w]]
    BY DEF Disturb
  <2>. QED  BY <2>1, <2>2
<1>3. Disturb /\ UNCHANGED <<parent, publishing, target>> => WriterType'
  BY <1>2 DEF TypeInv, WriterType
<1>4. ASSUME NEW d \in Dirs, NEW to \in {"path", "sibling", "elsewhere"}, MoveDirectory(d, to)
      PROVE  TypeInv'
  <2>1. DiskType' /\ OwnerType' /\ PcType'
    BY <1>4 DEF MoveDirectory, TypeInv, DiskType, OwnerType, PcType
  <2>2. /\ UNCHANGED readerVars /\ UNCHANGED <<faults, crashes>> /\ UNCHANGED pc
        /\ Disturb /\ UNCHANGED <<parent, publishing, target>>
    BY <1>4 DEF MoveDirectory
  <2>. QED  BY <1>3, <2>1, <2>2, TypesKept DEF TypeInv, SeenAt, readerVars
<1>5. ASSUME NEW d \in Dirs, NEW n \in Names, RemoveOutput(d, n) PROVE TypeInv'
  <2>1. DiskType' /\ OwnerType' /\ PcType'
    BY <1>5 DEF RemoveOutput, Drop, TypeInv, DiskType, OwnerType, PcType
  <2>2. /\ UNCHANGED readerVars /\ UNCHANGED <<faults, crashes>> /\ UNCHANGED pc
        /\ Disturb /\ UNCHANGED <<parent, publishing, target>>
    BY <1>5 DEF RemoveOutput
  <2>. QED  BY <1>3, <2>1, <2>2, TypesKept DEF TypeInv, SeenAt, readerVars
<1>6. ASSUME UNCHANGED vars PROVE TypeInv'
  BY <1>6, TypesKept DEF vars, TypeInv, PcType, SeenAt, readerVars
<1>. QED  BY <1>1, <1>4, <1>5, <1>6

LEMMA NextTypes == TypeInv /\ [Next]_vars => TypeInv'
  BY PublishTypes, ReadTypes, OtherTypes DEF Next, Owner, Processes

\* Every variable keeps its type, and whoever reads has looked up an artifact.
THEOREM TypesInvariant == Spec => []TypeInv
  BY InitTypeInv, NextTypes, PTL DEF Spec

-----------------------------------------------------------------------------
(* What the output names show *)

BeforeLink == Reading \cup {"absent", "stat", "admit", "open", "write", "written", "link"}
Successful == {"linked", "sweep_published", "published"}
Failing    == (Cleaning \ {"sweep_published"}) \cup {"failed", "crashed"}

Entered(w) == \E d \in Dirs, n \in Names : entry[d][n] = w

\* Renaming never puts two directories at the path.
OnePath == \A d, e \in Dirs : AtPath(d) /\ AtPath(e) => d = e

\* A writer's inode has no name but its own kind's.
OwnName == \A d \in Dirs, n \in Names : entry[d][n] # None => n = OutputOf(entry[d][n])

\* An inode has a name only after its bytes were synced, and is emptied on the way out.
LinkAt(w) ==
    /\ Entered(w) => /\ pc[w] \notin BeforeLink /\ publishing[w]
                     /\ data[w] = "whole" \/ (data[w] = "empty" /\ pc[w] \in Failing)
    /\ pc[w] \in {"written", "link"} \cup Successful => data[w] = "whole"
    /\ pc[w] = "link" => publishing[w]

LinkInv == OnePath /\ OwnName /\ \A w \in Writers : LinkAt(w)

\* No step of one process touches what the others hold.
OthersStand(p) ==
    /\ \A q \in Processes \ {p} : pc'[q] = pc[q]
    /\ \A x \in Writers \ {p} :
            /\ temp'[x] = temp[x] /\ data'[x] = data[x] /\ parent'[x] = parent[x]
            /\ publishing'[x] = publishing[x] /\ target'[x] = target[x]
            /\ trouble'[x] = trouble[x]

\* A name appears by the link of its writer; otherwise names only go.
EntriesGo == \A d \in Dirs, n \in Names : entry'[d][n] \in {entry[d][n], None}

LEMMA Dropping ==
  ASSUME DiskType, NEW d \in Dirs, NEW n \in Names, Drop(d, n)
  PROVE  /\ entry'[d][n] = None
         /\ \A e \in Dirs, m \in Names : e # d \/ m # n => entry'[e][m] = entry[e][m]
         /\ EntriesGo
  BY DEF DiskType, Drop, EntriesGo

LEMMA OwnOutput == \A w \in Writers : OutputOf(w) \in Names
  BY DEF OutputOf, Names

\* What every step of publishing leaves alone.
LEMMA PublishFrame ==
  ASSUME TypeInv, NEW w \in Writers, Publish(w)
  PROVE  /\ OthersStand(w)
         /\ UNCHANGED <<place, readerVars, ownerVars, crashes>>
         /\ trouble[w] \subseteq trouble'[w]
         /\ EntriesGo \/ Link(w)
<1>. USE DEF writerVars, diskVars, ownerVars
<1>1. UNCHANGED <<place, readerVars, ownerVars, crashes>>
  BY DEF Publish, StatParent, Admit, OpenTemporary, WriteBytes, AssertWritten, AssertLinked,
         AssertParent, Link, Truncate, CheckPath, RemoveAtPath, CheckParent, RemoveAtParent,
         Sweep
<1>2. \A q \in Processes \ {w} : pc'[q] = pc[q]
  BY DEF Publish, StatParent, Admit, OpenTemporary, WriteBytes, AssertWritten, AssertLinked,
         AssertParent, Link, Truncate, CheckPath, RemoveAtPath, CheckParent, RemoveAtParent,
         Sweep, Goto, TypeInv, PcType
<1>3. \A x \in Writers \ {w} : temp'[x] = temp[x] /\ data'[x] = data[x]
  BY DEF Publish, StatParent, Admit, OpenTemporary, WriteBytes, AssertWritten, AssertLinked,
         AssertParent, Link, Truncate, CheckPath, RemoveAtPath, CheckParent, RemoveAtParent,
         Sweep, TypeInv, DiskType
<1>4. \A x \in Writers \ {w} :
          parent'[x] = parent[x] /\ publishing'[x] = publishing[x] /\ target'[x] = target[x]
  BY DEF Publish, StatParent, Admit, OpenTemporary, WriteBytes, AssertWritten, AssertLinked,
         AssertParent, Link, Truncate, CheckPath, RemoveAtPath, CheckParent, RemoveAtParent,
         Sweep, TypeInv, WriterType
<1>5. UNCHANGED trouble \/ \E what : Note(w, what)
  BY DEF Publish, StatParent, Admit, OpenTemporary, WriteBytes, AssertWritten, AssertLinked,
         AssertParent, Link, Truncate, CheckPath, RemoveAtPath, CheckParent, RemoveAtParent,
         Sweep
<1>6. trouble[w] \subseteq trouble'[w] /\ \A x \in Writers \ {w} : trouble'[x] = trouble[x]
  BY <1>5, Going
<1>7. EntriesGo \/ Link(w)
  <2>1. UNCHANGED entry => EntriesGo
    BY DEF EntriesGo
  <2>2. \A d \in Dirs : Drop(d, OutputOf(w)) => EntriesGo
    BY Dropping, OwnOutput DEF TypeInv
  <2>. QED
    BY <2>1, <2>2
    DEF Publish, StatParent, Admit, OpenTemporary, WriteBytes, AssertWritten, AssertLinked,
        AssertParent, Truncate, CheckPath, RemoveAtPath, CheckParent, RemoveAtParent, Sweep
<1>. QED  BY <1>1, <1>2, <1>3, <1>4, <1>6, <1>7 DEF OthersStand

\* The link itself.
LEMMA Linking ==
  ASSUME TypeInv, NEW w \in Writers, Link(w)
  PROVE  \/ EntriesGo /\ UNCHANGED entry /\ pc'[w] = "truncate"
         \/ \E d \in Dirs :
                /\ AtPath(d) /\ temp[w] = d /\ entry[d][OutputOf(w)] = None
                /\ entry'[d][OutputOf(w)] = w
                /\ \A e \in Dirs, n \in Names :
                        e # d \/ n # OutputOf(w) => entry'[e][n] = entry[e][n]
                /\ pc'[w] \in {"linked", "truncate"}
<1>1. CASE UNCHANGED entry
  <2>1. ASSUME NEW d \in Dirs, CanLink(w, d), entry' = [entry EXCEPT ![d][OutputOf(w)] = w]
        PROVE  FALSE
    BY <1>1, <2>1, OwnOutput, ProcessAssumption DEF CanLink, TypeInv, DiskType
  <2>2. Goto(w, "truncate")
    BY <2>1 DEF Link
  <2>. QED  BY <1>1, <2>2 DEF EntriesGo, Goto, TypeInv, PcType, Processes
<1>2. CASE ~UNCHANGED entry
  <2>1. PICK d \in Dirs :
            /\ CanLink(w, d) /\ entry' = [entry EXCEPT ![d][OutputOf(w)] = w]
            /\ Goto(w, "linked") \/ Goto(w, "truncate")
    BY <1>2 DEF Link
  <2>2. pc'[w] \in {"linked", "truncate"}
    BY <2>1 DEF Goto, TypeInv, PcType, Processes
  <2>3. /\ entry'[d][OutputOf(w)] = w
        /\ \A e \in Dirs, n \in Names :
                e # d \/ n # OutputOf(w) => entry'[e][n] = entry[e][n]
    BY <2>1, OwnOutput DEF TypeInv, DiskType
  <2>. QED  BY <2>1, <2>2, <2>3 DEF CanLink
<1>. QED  BY <1>1, <1>2

\* What the link invariant says of a writer stands when others act.
LEMMA LinkStands ==
  ASSUME NEW x \in Writers, LinkAt(x), Entered(x)' => Entered(x),
         pc'[x] = pc[x], data'[x] = data[x], publishing'[x] = publishing[x]
  PROVE  LinkAt(x)'
  BY DEF LinkAt

LEMMA PublishLinkInv ==
  ASSUME TypeInv, TypeInv', LinkInv, NEW w \in Writers, Publish(w)
  PROVE  LinkInv'
<1>1. OthersStand(w) /\ UNCHANGED place
  BY PublishFrame
<1>2. OnePath'
  BY <1>1 DEF LinkInv, OnePath, AtPath
<1>3. EntriesGo => OwnName'
  BY DEF LinkInv, OwnName, EntriesGo
<1>4. EntriesGo => \A x \in Writers : Entered(x)' => Entered(x)
  BY ProcessAssumption DEF EntriesGo, Entered
<1>5. ASSUME Link(w) PROVE OwnName' /\ \A x \in Writers \ {w} : Entered(x)' => Entered(x)
  <2>1. CASE EntriesGo
    BY <1>3, <1>4, <2>1
  <2>2. CASE ~EntriesGo
    BY <1>5, <2>2, Linking, OwnOutput DEF LinkInv, OwnName, Entered
  <2>. QED  BY <2>1, <2>2
<1>6. OwnName' /\ \A x \in Writers \ {w} : Entered(x)' => Entered(x)
  BY <1>3, <1>4, <1>5, PublishFrame
<1>7. ASSUME NEW x \in Writers \ {w} PROVE LinkAt(x)'
  BY <1>1, <1>6, LinkStands DEF LinkInv, OthersStand, Processes
<1>8. LinkAt(w)'
  <2>. USE DEF LinkInv, LinkAt, TypeInv, DiskType, WriterType, PcType, Goto, Processes
  <2>1. ~Link(w) => (Entered(w)' => Entered(w))
    BY <1>4, PublishFrame
  <2>2. CASE StatParent(w) \/ Admit(w) \/ OpenTemporary(w) \/ WriteBytes(w)
    <3>1. ~Entered(w)
      BY <2>2 DEF StatParent, Admit, OpenTemporary, WriteBytes, BeforeLink
    <3>2. ~Entered(w)'
      BY <2>1, <2>2, <3>1 DEF StatParent, Admit, OpenTemporary, WriteBytes, Link
    <3>3. \/ pc'[w] \in {"admit", "open", "write", "failed", "truncate"}
          \/ pc'[w] = "written" /\ data'[w] = "whole"
      BY <2>2 DEF StatParent, Admit, OpenTemporary, WriteBytes
    <3>. QED  BY <3>2, <3>3 DEF Successful
  <2>3. CASE AssertWritten(w)
    <3>1. ~Entered(w) /\ data[w] = "whole" /\ pc[w] = "written"
      BY <2>3 DEF AssertWritten, AssertParent, BeforeLink
    <3>2. ~Entered(w)' /\ data' = data
      BY <2>1, <2>3, <3>1 DEF AssertWritten, AssertParent, Link, diskVars
    <3>3. pc'[w] = (IF SameParent(w) THEN "link" ELSE "truncate")
          /\ publishing'[w] = SameParent(w)
      BY <2>3 DEF AssertWritten, AssertParent
    <3>. QED  BY <3>1, <3>2, <3>3 DEF Successful
  <2>4. CASE Link(w)
    <3>1. pc'[w] \in {"linked", "truncate"}
      BY <2>4, Linking
    <3>2. data[w] = "whole" /\ publishing[w] /\ data' = data /\ publishing' = publishing
      BY <2>4 DEF Link, writerVars
    <3>. QED  BY <3>1, <3>2 DEF BeforeLink, Reading
  <2>5. CASE AssertLinked(w)
    <3>1. data[w] = "whole" /\ data' = data /\ publishing' = publishing /\ pc[w] = "linked"
      BY <2>5 DEF AssertLinked, AssertParent, diskVars, Successful
    <3>2. pc'[w] \in {"sweep_published", "truncate"}
      BY <2>5 DEF AssertLinked, AssertParent
    <3>3. Entered(w)' => Entered(w)
      BY <2>1, <3>1 DEF Link
    <3>. QED  BY <3>1, <3>2, <3>3 DEF BeforeLink, Reading
  <2>6. CASE Truncate(w)
    <3>1. /\ pc[w] = "truncate" /\ pc'[w] \in {"check_path", "sweep_failed"}
          /\ data'[w] \in {data[w], "empty"} /\ publishing' = publishing
      BY <2>6 DEF Truncate
    <3>2. Entered(w)' => Entered(w)
      BY <2>1, <3>1 DEF Link
    <3>. QED  BY <3>1, <3>2 DEF BeforeLink, Reading, Failing, Cleaning, Successful
  <2>7. CASE CheckPath(w) \/ RemoveAtPath(w) \/ CheckParent(w) \/ RemoveAtParent(w)
    <3>1. /\ pc[w] \in Failing /\ pc[w] \notin {"failed", "crashed"}
          /\ pc'[w] \in {"remove_at_path", "check_parent", "remove_at_parent", "sweep_failed"}
          /\ data' = data /\ publishing' = publishing
      BY <2>7
      DEF CheckPath, RemoveAtPath, CheckParent, RemoveAtParent, Failing, Cleaning, diskVars,
          writerVars
    <3>2. Entered(w)' => Entered(w)
      BY <2>1, <3>1 DEF Link, Failing, Cleaning
    <3>. QED  BY <3>1, <3>2 DEF BeforeLink, Reading, Failing, Cleaning, Successful
  <2>8. CASE Sweep(w)
    <3>1. /\ pc[w] \in {"sweep_failed", "sweep_published"}
          /\ data' = data /\ publishing' = publishing
          /\ pc'[w] \in IF pc[w] = "sweep_published" THEN {"published", "failed"} ELSE {"failed"}
      BY <2>8 DEF Sweep
    <3>2. Entered(w)' => Entered(w)
      BY <2>1, <3>1 DEF Link
    <3>. QED  BY <3>1, <3>2 DEF BeforeLink, Reading, Failing, Cleaning, Successful
  <2>. QED  BY <2>2, <2>3, <2>4, <2>5, <2>6, <2>7, <2>8 DEF Publish
<1>. QED  BY <1>2, <1>6, <1>7, <1>8 DEF LinkInv

LEMMA InitLinkInv == Init => LinkInv
<1> SUFFICES ASSUME Init PROVE LinkInv
  OBVIOUS
<1>1. OnePath
  BY ProcessAssumption DEF Init, OnePath, AtPath
<1>2. \A w \in Writers : ~Entered(w)
  BY ProcessAssumption DEF Init, Entered
<1>3. \A w \in Writers : pc[w] \in {"absent", "stat", "look"}
  BY DEF Init
<1>4. \A w \in Writers : LinkAt(w)
  BY <1>2, <1>3 DEF LinkAt, Successful
<1>. QED  BY <1>1, <1>4 DEF Init, LinkInv, OwnName

\* Readers touch nothing; a writer that dies where its inode has a name leaves it whole or empty.
LEMMA OtherLinkInv ==
  ASSUME TypeInv, TypeInv', LinkInv
  PROVE  /\ \A r \in Readers : ReadFile(r) => LinkInv'
         /\ \A p \in Processes : Crash(p) => LinkInv'
         /\ Owner => LinkInv'
         /\ UNCHANGED vars => LinkInv'
<1>. USE DEF diskVars, writerVars
<1>1. ASSUME NEW r \in Readers, ReadFile(r) PROVE LinkInv'
  <2>1. UNCHANGED <<place, entry, data, publishing>>
    BY <1>1 DEF ReadFile, Look, Read, ReadFails, ConfirmForSigning,
                ConfirmBundle, ConfirmAttestation
  <2>2. /\ pc[r] \in Reading /\ pc'[r] \in Reading \cup {"stat", "failed", "refused", "accepted"}
        /\ \A q \in Processes \ {r} : pc'[q] = pc[q]
    BY <1>1
    DEF ReadFile, Look, Read, ReadFails, ConfirmForSigning,
        ConfirmBundle, ConfirmAttestation, GiveUp,
        Goto, TypeInv, PcType, Processes, Readers, Writers, Reading
  <2>3. \A w \in Writers : Entered(w)' <=> Entered(w)
    BY <2>1 DEF Entered
  <2>4. ASSUME NEW w \in Writers PROVE LinkAt(w)'
    <3>1. CASE w # r
      BY <2>1, <2>2, <2>3, <3>1, LinkStands DEF LinkInv, Processes
    <3>2. CASE w = r
      BY <2>1, <2>2, <2>3, <3>2 DEF LinkInv, LinkAt, BeforeLink, Successful, Reading
    <3>. QED  BY <3>1, <3>2
  <2>. QED  BY <2>1, <2>4 DEF LinkInv, OnePath, OwnName, AtPath
<1>2. ASSUME NEW p \in Processes, Crash(p) PROVE LinkInv'
  <2>1. UNCHANGED <<place, entry, data, publishing>>
    BY <1>2 DEF Crash
  <2>2. pc'[p] = "crashed" /\ \A q \in Processes \ {p} : pc'[q] = pc[q]
    BY <1>2 DEF Crash, Goto, TypeInv, PcType
  <2>3. \A w \in Writers : Entered(w)' <=> Entered(w)
    BY <2>1 DEF Entered
  <2>4. ASSUME NEW w \in Writers PROVE LinkAt(w)'
    <3>1. CASE w # p
      BY <2>1, <2>2, <2>3, <3>1, LinkStands DEF LinkInv, Processes
    <3>2. CASE w = p
      BY <2>1, <2>2, <2>3, <3>2 DEF LinkInv, LinkAt, BeforeLink, Successful, Reading, Failing
    <3>. QED  BY <3>1, <3>2
  <2>. QED  BY <2>1, <2>4 DEF LinkInv, OnePath, OwnName, AtPath
<1>3. ASSUME NEW d \in Dirs, NEW to \in {"path", "sibling", "elsewhere"}, MoveDirectory(d, to)
      PROVE  LinkInv'
  <2>1. UNCHANGED <<entry, data, publishing, pc>>
    BY <1>3 DEF MoveDirectory
  <2>2. OnePath'
    BY <1>3 DEF MoveDirectory, Vacant, AtPath, LinkInv, OnePath, TypeInv, DiskType
  <2>. QED  BY <2>1, <2>2 DEF LinkInv, OwnName, LinkAt, Entered
<1>4. ASSUME NEW d \in Dirs, NEW n \in Names, RemoveOutput(d, n) PROVE LinkInv'
  <2>1. UNCHANGED <<place, data, publishing, pc>> /\ EntriesGo
    BY <1>4, Dropping DEF RemoveOutput, TypeInv
  <2>2. OnePath' /\ OwnName' /\ \A w \in Writers : Entered(w)' => Entered(w)
    BY <2>1, ProcessAssumption DEF LinkInv, OnePath, OwnName, AtPath, EntriesGo, Entered
  <2>3. \A w \in Writers : LinkAt(w)'
    BY <2>1, <2>2, LinkStands DEF LinkInv
  <2>. QED  BY <2>2, <2>3 DEF LinkInv
<1>5. ASSUME UNCHANGED vars PROVE LinkInv'
  BY <1>5 DEF vars, LinkInv, OnePath, OwnName, AtPath, LinkAt, Entered
<1>. QED  BY <1>1, <1>2, <1>3, <1>4, <1>5 DEF Owner

LEMMA NextLinkInv == TypeInv /\ LinkInv /\ [Next]_vars => LinkInv'
  BY NextTypes, PublishLinkInv, OtherLinkInv DEF Next, Processes

\* What each location of a call knows of its names holds in every reachable state.
THEOREM LinkInvariant == Spec => []LinkInv
  BY TypesInvariant, InitLinkInv, NextLinkInv, PTL DEF Spec

\* Whoever looks at an output name, in any directory and at any moment, finds a whole
\* artifact, or an empty file that a failed or crashed call is taking back or left behind.
THEOREM OutputsAreWhole == Spec => []OutputIsWhole
<1>1. TypeInv /\ LinkInv => OutputIsWhole
  <2> SUFFICES ASSUME TypeInv, LinkInv, NEW d \in Dirs, NEW n \in Names, entry[d][n] # None
               PROVE  LET w == entry[d][n] IN
                      \/ data[w] = "whole"
                      \/ data[w] = "empty"
                         /\ pc[w] \in (Cleaning \ {"sweep_published"}) \cup {"failed", "crashed"}
    BY DEF OutputIsWhole
  <2>1. entry[d][n] \in Writers /\ Entered(entry[d][n])
    BY DEF TypeInv, DiskType, Entered
  <2>. QED  BY <2>1 DEF LinkInv, LinkAt, Failing
<1>. QED  BY <1>1, TypesInvariant, LinkInvariant, PTL

-----------------------------------------------------------------------------
(* What a failed call leaves *)

Removing == {"check_path", "remove_at_path", "check_parent", "remove_at_parent"}
Opened   == {"write", "written", "link", "linked", "published"} \cup Cleaning

\* A writer's names are in the directory it was given, unless that was exchanged under it.
HomeAt(w) ==
    /\ pc[w] \in {"admit", "open"} \cup Opened => parent[w] \in Dirs
    /\ pc[w] \in BeforeLink \ Opened => temp[w] = None
    /\ "misplaced" \notin trouble[w] =>
            /\ temp[w] \in {parent[w], None}
            /\ \A d \in Dirs : entry[d][OutputOf(w)] = w => d = parent[w]

\* What a call that is taking its artifact back has achieved so far: it is emptied first,
\* and while nothing hinders it, the name is where the call looks for it, and then gone.
RetractAt(w) ==
    /\ pc[w] \in Removing => data[w] = "empty"
    /\ pc[w] \in {"sweep_failed", "failed"} =>
            \/ ~Entered(w) \/ data[w] = "empty"
            \/ "untruncated" \in trouble[w] \/ "was_published" \in trouble[w]
    /\ trouble[w] = {} =>
            /\ pc[w] = "remove_at_path" => AtPath(parent[w])
            /\ pc[w] = "remove_at_parent" => place[parent[w]] = target[w]
            /\ pc[w] \in {"sweep_failed", "failed"} => ~Entered(w)
            /\ pc[w] = "failed" => temp[w] = None

RetractInv == \A w \in Writers : HomeAt(w) /\ RetractAt(w)

LEMMA InitRetractInv == Init => RetractInv
<1> SUFFICES ASSUME Init, NEW w \in Writers PROVE HomeAt(w) /\ RetractAt(w)
  BY DEF RetractInv
<1>1. pc[w] \in {"absent", "stat", "look"} /\ temp[w] = None
  BY DEF Init
<1>2. \A d \in Dirs : entry[d][OutputOf(w)] # w
  BY OwnOutput, ProcessAssumption DEF Init
<1>. QED
  BY <1>1, <1>2 DEF HomeAt, RetractAt, Removing, Opened, Cleaning

\* Both stand when others act.
LEMMA RetractStands ==
  ASSUME NEW x \in Writers, HomeAt(x), RetractAt(x), UNCHANGED place,
         \A d \in Dirs, n \in Names : entry'[d][n] = x => entry[d][n] = x,
         pc'[x] = pc[x], temp'[x] = temp[x], data'[x] = data[x], parent'[x] = parent[x],
         target'[x] = target[x], trouble'[x] = trouble[x]
  PROVE  HomeAt(x)' /\ RetractAt(x)'
<1>1. Entered(x)' => Entered(x)
  BY DEF Entered
<1>2. HomeAt(x)'
  BY OwnOutput DEF HomeAt
<1>. QED  BY <1>1, <1>2 DEF RetractAt, AtPath

\* A writer has a name only where the home invariant looks for it.
LEMMA EnteredAtHome ==
  ASSUME TypeInv, LinkInv, NEW w \in Writers, HomeAt(w), "misplaced" \notin trouble[w],
         entry[parent[w]][OutputOf(w)] # w
  PROVE  ~Entered(w)
  BY ProcessAssumption DEF LinkInv, OwnName, HomeAt, Entered

\* Publishing up to the link: nothing has a name yet.
LEMMA WritingRetracts ==
  ASSUME TypeInv, LinkInv, RetractInv, NEW w \in Writers,
         StatParent(w) \/ Admit(w) \/ OpenTemporary(w) \/ WriteBytes(w) \/ AssertWritten(w)
  PROVE  HomeAt(w)' /\ RetractAt(w)'
<1>. USE DEF TypeInv, DiskType, WriterType, PcType, Goto, Processes, diskVars, writerVars
<1>1. UNCHANGED entry /\ pc[w] \in {"stat", "admit", "open", "write", "written"}
  BY DEF StatParent, Admit, OpenTemporary, WriteBytes, AssertWritten, AssertParent
<1>2. ~Entered(w) /\ ~Entered(w)'
  <2>1. ~Entered(w)
    BY <1>1 DEF LinkInv, LinkAt, BeforeLink
  <2>. QED  BY <1>1, <2>1 DEF Entered
<1>3. \A d \in Dirs : entry'[d][OutputOf(w)] # w
  BY <1>2, OwnOutput DEF Entered
<1>4. HomeAt(w)
  BY DEF RetractInv
<1>5. CASE StatParent(w)
  <2>1. /\ temp'[w] = None /\ temp' = temp
        /\ \/ pc'[w] = "admit" /\ parent'[w] \in Dirs
           \/ pc'[w] = "failed"
    BY <1>4, <1>5 DEF StatParent, HomeAt, BeforeLink, Opened, Cleaning
  <2>. QED
    BY <1>2, <1>3, <2>1 DEF HomeAt, RetractAt, Removing, Opened, Cleaning
<1>6. CASE Admit(w)
  <2>1. /\ temp'[w] = None /\ parent' = parent /\ parent[w] \in Dirs
        /\ pc'[w] \in {"open", "failed"}
    BY <1>4, <1>6 DEF Admit, HomeAt, BeforeLink, Opened, Cleaning
  <2>. QED
    BY <1>2, <1>3, <2>1 DEF HomeAt, RetractAt, Removing, Opened, Cleaning
<1>7. CASE OpenTemporary(w)
  <2>1. parent' = parent /\ parent[w] \in Dirs /\ temp[w] = None
    BY <1>4, <1>7 DEF OpenTemporary, HomeAt, BeforeLink, Opened, Cleaning
  <2>2. \/ pc'[w] = "failed" /\ temp' = temp
        \/ pc'[w] = "write" /\ ("misplaced" \in trouble'[w] \/ temp'[w] = parent[w])
    <3>1. CASE \E d \in Dirs :
                 /\ AtPath(d) /\ temp' = [temp EXCEPT ![w] = d] /\ Goto(w, "write")
                 /\ Note(w, IF d = parent[w] THEN {} ELSE {"misplaced"})
      <4>1. PICK d \in Dirs :
                 /\ temp' = [temp EXCEPT ![w] = d] /\ Goto(w, "write")
                 /\ Note(w, IF d = parent[w] THEN {} ELSE {"misplaced"})
        BY <3>1
      <4>2. temp'[w] = d /\ pc'[w] = "write"
        BY <4>1
      <4>3. trouble'[w] = trouble[w] \cup IF d = parent[w] THEN {} ELSE {"misplaced"}
        BY <4>1, Going
      <4>. QED  BY <4>2, <4>3
    <3>2. CASE Goto(w, "failed") /\ UNCHANGED temp
      BY <3>2
    <3>. QED  BY <1>7, <3>1, <3>2 DEF OpenTemporary
  <2>. QED
    BY <1>2, <1>3, <2>1, <2>2 DEF HomeAt, RetractAt, Removing, Opened, Cleaning
<1>8. CASE WriteBytes(w) \/ AssertWritten(w)
  <2>1. /\ temp' = temp /\ parent' = parent /\ trouble' = trouble /\ parent[w] \in Dirs
        /\ pc'[w] \in {"written", "link", "truncate"}
    BY <1>4, <1>8 DEF WriteBytes, AssertWritten, AssertParent, HomeAt, Opened
  <2>. QED
    BY <1>2, <1>3, <1>4, <2>1 DEF HomeAt, RetractAt, Removing, Opened, Cleaning, BeforeLink
<1>. QED  BY <1>5, <1>6, <1>7, <1>8

\* The link puts the name where the temporary one is.
LEMMA LinkingRetracts ==
  ASSUME TypeInv, LinkInv, RetractInv, NEW w \in Writers, Link(w) \/ AssertLinked(w)
  PROVE  HomeAt(w)' /\ RetractAt(w)'
<1>. USE DEF diskVars, writerVars
<1>1. /\ temp' = temp /\ parent' = parent /\ trouble' = trouble
      /\ pc[w] \in {"link", "linked"}
  BY DEF Link, AssertLinked, AssertParent
<1>2. pc'[w] \in {"linked", "sweep_published", "truncate"}
  BY DEF Link, AssertLinked, AssertParent, Goto, TypeInv, PcType, Processes
<1>3. HomeAt(w) /\ parent[w] \in Dirs
  BY <1>1 DEF RetractInv, HomeAt, Opened
<1>4. \A d \in Dirs : entry'[d][OutputOf(w)] = w => entry[d][OutputOf(w)] = w \/ d = temp[w]
  <2>1. CASE AssertLinked(w)
    BY <2>1 DEF AssertLinked, AssertParent
  <2>2. CASE Link(w)
    BY <2>2, Linking, OwnOutput, ProcessAssumption DEF EntriesGo
  <2>. QED  BY <2>1, <2>2
<1>5. HomeAt(w)'
  BY <1>1, <1>2, <1>3, <1>4, ProcessAssumption DEF HomeAt, Opened, Cleaning, BeforeLink, Reading
<1>6. RetractAt(w)'
  BY <1>2 DEF RetractAt, Removing
<1>. QED  BY <1>5, <1>6

\* Cleaning keeps the memory it works from.
LEMMA CleaningHome ==
  ASSUME TypeInv, RetractInv, NEW w \in Writers, Publish(w), pc[w] \in Cleaning
  PROVE  HomeAt(w)' /\ parent'[w] = parent[w]
<1>1. parent' = parent /\ pc'[w] \in Cleaning \cup {"published", "failed"}
  BY DEF Publish, StatParent, Admit, OpenTemporary, WriteBytes, AssertWritten, AssertLinked,
         AssertParent, Link, Truncate, CheckPath, RemoveAtPath, CheckParent, RemoveAtParent,
         Sweep, Goto, TypeInv, PcType, Processes, Cleaning, writerVars
<1>2. temp'[w] \in {temp[w], None}
  BY DEF Publish, StatParent, Admit, OpenTemporary, WriteBytes, AssertWritten, AssertLinked,
         AssertParent, Link, Truncate, CheckPath, RemoveAtPath, CheckParent, RemoveAtParent,
         Sweep, TypeInv, DiskType, Cleaning, diskVars
<1>3. EntriesGo /\ trouble[w] \subseteq trouble'[w]
  BY PublishFrame DEF Link, Cleaning
<1>4. \A d \in Dirs : entry'[d][OutputOf(w)] = w => entry[d][OutputOf(w)] = w
  BY <1>3, OwnOutput, ProcessAssumption DEF EntriesGo
<1>. QED
  BY <1>1, <1>2, <1>3, <1>4
  DEF RetractInv, HomeAt, Opened, Cleaning, BeforeLink, Reading

\* Whose trouble is none has noted nothing.
LEMMA Untroubled ==
  ASSUME TypeInv, NEW w \in Writers, trouble'[w] = {}
  PROVE  \A what : Note(w, what) => what = {}
  BY Going

LEMMA TruncateRetracts ==
  ASSUME TypeInv, LinkInv, RetractInv, NEW w \in Writers, Truncate(w)
  PROVE  RetractAt(w)'
<1>. USE DEF TypeInv, DiskType, PcType, Processes, Goto
<1>1. UNCHANGED entry /\ pc[w] = "truncate"
  BY DEF Truncate
<1>2. Entered(w)' <=> Entered(w)
  BY <1>1 DEF Entered
<1>3. CASE /\ data' = [data EXCEPT ![w] = "empty"]
           /\ Goto(w, IF publishing[w] THEN "check_path" ELSE "sweep_failed")
  <2>1. data'[w] = "empty"
    BY <1>3
  <2>2. CASE publishing[w]
    <3>1. pc'[w] = "check_path"
      BY <1>3, <2>2
    <3>. QED  BY <2>1, <3>1 DEF RetractAt
  <2>3. CASE ~publishing[w]
    <3>1. pc'[w] = "sweep_failed" /\ ~Entered(w)
      BY <1>3, <2>3 DEF LinkInv, LinkAt
    <3>. QED  BY <1>2, <3>1 DEF RetractAt, Removing
  <2>. QED  BY <2>2, <2>3
<1>4. CASE Note(w, {"untruncated"}) /\ Goto(w, "sweep_failed")
  <2>1. "untruncated" \in trouble'[w] /\ pc'[w] = "sweep_failed"
    BY <1>4, Going
  <2>. QED  BY <2>1 DEF RetractAt, Removing
<1>5. CASE /\ data' = [data EXCEPT ![w] = "empty"]
           /\ Note(w, {"unswept"}) /\ Goto(w, "sweep_failed")
  <2>1. "unswept" \in trouble'[w] /\ pc'[w] = "sweep_failed" /\ data'[w] = "empty"
    BY <1>5, Going
  <2>. QED  BY <2>1 DEF RetractAt, Removing
<1>. QED  BY <1>3, <1>4, <1>5 DEF Truncate

LEMMA RemovalRetracts ==
  ASSUME TypeInv, LinkInv, RetractInv, NEW w \in Writers,
         CheckPath(w) \/ RemoveAtPath(w) \/ CheckParent(w) \/ RemoveAtParent(w)
  PROVE  RetractAt(w)'
<1>. USE DEF TypeInv, DiskType, WriterType, PcType, Processes, Goto, diskVars, writerVars
<1>1. data' = data /\ place' = place /\ parent' = parent /\ pc[w] \in Removing
  BY DEF CheckPath, RemoveAtPath, CheckParent, RemoveAtParent, Removing
<1>2. data'[w] = "empty" /\ HomeAt(w) /\ RetractAt(w) /\ parent[w] \in Dirs
  BY <1>1 DEF RetractInv, RetractAt, HomeAt, Removing, Opened, Cleaning
<1>3. pc'[w] \in {"remove_at_path", "check_parent", "remove_at_parent", "sweep_failed"}
  BY DEF CheckPath, RemoveAtPath, CheckParent, RemoveAtParent
<1> SUFFICES ASSUME trouble'[w] = {}
             PROVE  /\ pc'[w] = "remove_at_path" => AtPath(parent[w])'
                    /\ pc'[w] = "remove_at_parent" => place'[parent'[w]] = target'[w]
                    /\ pc'[w] = "sweep_failed" => ~Entered(w)'
  BY <1>2, <1>3 DEF RetractAt
<1>4. trouble[w] = {} /\ EntriesGo
  <2>1. Publish(w) /\ ~Link(w)
    BY <1>1 DEF Publish, Link, Removing
  <2>. QED  BY <2>1, PublishFrame
<1>5. Entered(w)' => Entered(w)
  BY <1>4, ProcessAssumption DEF EntriesGo, Entered
<1>6. CASE CheckPath(w)
  <2>1. pc'[w] = "remove_at_path" => \E d \in Dirs : AtPath(d) /\ IsOurs(w, d)
    BY <1>6 DEF CheckPath
  <2>2. pc'[w] = "remove_at_path" => AtPath(parent[w])
    BY <1>2, <1>4, <2>1 DEF IsOurs, HomeAt
  <2>3. pc'[w] \in {"remove_at_path", "check_parent"}
    BY <1>6 DEF CheckPath
  <2>. QED  BY <1>1, <2>2, <2>3 DEF AtPath
<1>7. CASE RemoveAtPath(w)
  <2>1. pc'[w] = "check_parent" \/ (pc'[w] = "sweep_failed" /\ Note(w, {"unswept"}))
    BY <1>7 DEF RemoveAtPath
  <2>2. ~Note(w, {"unswept"})
    BY Untroubled
  <2>. QED  BY <2>1, <2>2
<1>8. CASE CheckParent(w)
  <2>1. CASE /\ Reachable(parent[w]) /\ IsOurs(w, parent[w])
             /\ target' = [target EXCEPT ![w] = place[parent[w]]]
             /\ Goto(w, "remove_at_parent")
    BY <1>1, <2>1
  <2>2. CASE /\ ~(Reachable(parent[w]) /\ IsOurs(w, parent[w]))
             /\ Note(w, IF Reachable(parent[w]) THEN {} ELSE {"out_of_reach"})
             /\ Goto(w, "sweep_failed")
    <3>1. Reachable(parent[w])
      <4>1. (IF Reachable(parent[w]) THEN {} ELSE {"out_of_reach"}) = {}
        BY <2>2, Untroubled
      <4>. QED  BY <4>1
    <3>2. ~Entered(w)
      BY <1>2, <1>4, <2>2, <3>1, EnteredAtHome DEF IsOurs
    <3>3. pc'[w] = "sweep_failed"
      BY <2>2
    <3>. QED  BY <1>5, <3>2, <3>3
  <2>. QED  BY <1>8, <2>1, <2>2 DEF CheckParent
<1>9. CASE RemoveAtParent(w)
  <2>1. pc[w] = "remove_at_parent" /\ pc'[w] = "sweep_failed"
    BY <1>9 DEF RemoveAtParent
  <2>2. place[parent[w]] = target[w] /\ target[w] \in {"path", "sibling"}
    BY <1>2, <1>4, <2>1 DEF RetractAt
  <2>3. ~Note(w, {"unswept"})
    BY Untroubled
  <2>4. PICK d \in Dirs : /\ IF target[w] = "path" THEN AtPath(d)
                                                   ELSE d = parent[w] /\ place[d] = "sibling"
                          /\ Drop(d, OutputOf(w))
    BY <1>2, <1>9, <2>2, <2>3 DEF RemoveAtParent, Vacant, AtPath
  <2>5. d = parent[w]
    BY <1>2, <2>2, <2>4 DEF LinkInv, OnePath, AtPath
  <2>6. entry'[parent[w]][OutputOf(w)] = None
    BY <2>4, <2>5, OwnOutput, Dropping
  <2>7. \A e \in Dirs, n \in Names : entry'[e][n] # w
    <3> SUFFICES ASSUME NEW e \in Dirs, NEW n \in Names, entry'[e][n] = w PROVE FALSE
      OBVIOUS
    <3>1. entry[e][n] = w
      BY <1>4, ProcessAssumption DEF EntriesGo
    <3>2. n = OutputOf(w) /\ e = parent[w]
      BY <1>2, <1>4, <3>1, ProcessAssumption DEF LinkInv, OwnName, HomeAt
    <3>. QED  BY <2>6, <3>2, ProcessAssumption
  <2>. QED  BY <2>1, <2>7 DEF Entered
<1>. QED  BY <1>6, <1>7, <1>8, <1>9

LEMMA SweepRetracts ==
  ASSUME TypeInv, LinkInv, RetractInv, NEW w \in Writers, Sweep(w)
  PROVE  RetractAt(w)'
<1>. USE DEF TypeInv, DiskType, PcType, Processes, Goto
<1>1. /\ UNCHANGED <<entry, data>> /\ pc[w] \in {"sweep_failed", "sweep_published"}
      /\ pc'[w] \in {"published", "failed"}
  BY DEF Sweep
<1>2. Entered(w)' <=> Entered(w)
  BY <1>1 DEF Entered
<1>3. /\ HomeAt(w) /\ RetractAt(w) /\ parent[w] \in Dirs
      /\ trouble[w] \subseteq trouble'[w]
  BY <1>1, PublishFrame DEF RetractInv, HomeAt, Opened, Cleaning, Publish
<1> SUFFICES ASSUME pc'[w] = "failed" PROVE RetractAt(w)'
  BY <1>1 DEF RetractAt, Removing
<1>4. CASE pc[w] = "sweep_published"
  <2>1. Note(w, {"unswept", "was_published"})
    BY <1>4 DEF Sweep
  <2>2. "was_published" \in trouble'[w]
    BY <2>1, Going
  <2>. QED  BY <2>2 DEF RetractAt, Removing
<1>5. CASE pc[w] = "sweep_failed"
  <2>1. \/ ~Entered(w)' \/ data'[w] = "empty"
        \/ "untruncated" \in trouble'[w] \/ "was_published" \in trouble'[w]
    BY <1>1, <1>2, <1>3, <1>5 DEF RetractAt
  <2>2. trouble'[w] = {} => ~Entered(w)'
    BY <1>2, <1>3, <1>5 DEF RetractAt
  <2>3. trouble'[w] = {} => temp'[w] = None
    <3> SUFFICES ASSUME trouble'[w] = {} PROVE temp'[w] = None
      OBVIOUS
    <3>1. \A what : Note(w, what) => what = {}
      BY Going
    <3>2. /\ temp' = [temp EXCEPT ![w] = IF Sweepable(w) THEN None ELSE temp[w]]
          /\ Note(w, IF Reachable(parent[w]) THEN {} ELSE {"out_of_reach"})
      BY <1>5, <3>1 DEF Sweep
    <3>3. Reachable(parent[w])
      BY <3>1, <3>2
    <3>4. temp[w] \in {parent[w], None}
      BY <1>3 DEF HomeAt
    <3>5. temp[w] = parent[w] => Sweepable(w)
      BY <1>3, <3>3 DEF Sweepable
    <3>. QED  BY <3>2, <3>4, <3>5
  <2>. QED  BY <2>1, <2>2, <2>3 DEF RetractAt, Removing
<1>. QED  BY <1>1, <1>4, <1>5

LEMMA PublishRetractInv ==
  ASSUME TypeInv, LinkInv, RetractInv, NEW w \in Writers, Publish(w)
  PROVE  RetractInv'
<1>1. HomeAt(w)' /\ RetractAt(w)'
  <2>1. CASE pc[w] \in Cleaning
    <3>1. HomeAt(w)'
      BY <2>1, CleaningHome
    <3>2. RetractAt(w)'
      BY <2>1, TruncateRetracts, RemovalRetracts, SweepRetracts
      DEF Publish, StatParent, Admit, OpenTemporary, WriteBytes, AssertWritten, AssertLinked,
          AssertParent, Link, Cleaning
    <3>. QED  BY <3>1, <3>2
  <2>2. CASE pc[w] \notin Cleaning
    BY <2>2, WritingRetracts, LinkingRetracts
    DEF Publish, Truncate, CheckPath, RemoveAtPath, CheckParent, RemoveAtParent, Sweep, Cleaning
  <2>. QED  BY <2>1, <2>2
<1>2. ASSUME NEW x \in Writers, x # w PROVE HomeAt(x)' /\ RetractAt(x)'
  <2>1. OthersStand(w) /\ UNCHANGED place /\ (EntriesGo \/ Link(w))
    BY PublishFrame
  <2>2. \A d \in Dirs, n \in Names : entry'[d][n] = x => entry[d][n] = x
    BY <1>2, <2>1, Linking, OwnOutput, ProcessAssumption DEF EntriesGo
  <2>. QED
    BY <1>2, <2>1, <2>2, RetractStands DEF RetractInv, OthersStand, Processes
<1>. QED  BY <1>1, <1>2 DEF RetractInv

\* Readers change no name and hold none; a crash ends the promise.
LEMMA ReadRetractInv ==
  ASSUME TypeInv, LinkInv, RetractInv, NEW p \in Processes,
         Crash(p) \/ (p \in Readers /\ ReadFile(p))
  PROVE  RetractInv'
<1>1. UNCHANGED diskVars /\ UNCHANGED writerVars
  BY DEF Crash, ReadFile, Look, Read, ReadFails, ConfirmForSigning,
         ConfirmBundle, ConfirmAttestation
<1>2. /\ \/ pc'[p] = "crashed"
         \/ /\ pc[p] \in Reading
            /\ pc'[p] \in Reading \cup {"stat", "failed", "refused", "accepted"}
      /\ \A q \in Processes \ {p} : pc'[q] = pc[q]
  BY DEF Crash, ReadFile, Look, Read, ReadFails, ConfirmForSigning,
         ConfirmBundle, ConfirmAttestation,
         GiveUp, Goto, TypeInv, PcType, Processes, Readers, Writers, Reading
<1>3. \A w \in Writers : Entered(w)' <=> Entered(w)
  BY <1>1 DEF Entered, diskVars
<1>4. ASSUME NEW w \in Writers, w # p PROVE HomeAt(w)' /\ RetractAt(w)'
  <2>1. HomeAt(w) /\ RetractAt(w) /\ pc'[w] = pc[w]
    BY <1>2, <1>4 DEF RetractInv, Processes
  <2>. QED
    BY <1>1, <2>1, RetractStands DEF diskVars, writerVars
<1>5. ASSUME p \in Writers PROVE HomeAt(p)' /\ RetractAt(p)'
  <2>1. HomeAt(p)
    BY <1>5 DEF RetractInv
  <2>2. CASE pc'[p] = "crashed"
    <3>1. HomeAt(p)'
      BY <1>1, <2>1, <2>2
      DEF HomeAt, Opened, Cleaning, BeforeLink, Reading, diskVars, writerVars
    <3>. QED  BY <2>2, <3>1 DEF RetractAt, Removing
  <2>3. CASE /\ pc[p] \in Reading
             /\ pc'[p] \in Reading \cup {"stat", "failed", "refused", "accepted"}
    <3>1. ~Entered(p)' /\ temp[p] = None
      BY <1>3, <1>5, <2>1, <2>3
      DEF LinkInv, LinkAt, HomeAt, BeforeLink, Opened, Reading, Cleaning
    <3>2. HomeAt(p)'
      BY <1>1, <2>1, <2>3, <3>1
      DEF HomeAt, Opened, Cleaning, BeforeLink, Reading, diskVars, writerVars
    <3>3. temp'[p] = None
      BY <1>1, <3>1 DEF diskVars
    <3>. QED
      BY <2>3, <3>1, <3>2, <3>3 DEF RetractAt, Removing, Reading
  <2>. QED  BY <1>2, <2>2, <2>3
<1>. QED  BY <1>4, <1>5 DEF RetractInv

\* The owner may undo a check, but a writer that cleans up is then disturbed.
LEMMA Disturbing ==
  ASSUME TypeInv, Owner
  PROVE  /\ UNCHANGED <<temp, data, pc, parent, publishing, target>> /\ EntriesGo
         /\ \A w \in Writers : /\ trouble[w] \subseteq trouble'[w]
                               /\ trouble'[w] \subseteq trouble[w] \cup {"disturbed"}
                               /\ pc[w] \in Cleaning => "disturbed" \in trouble'[w]
                               /\ pc[w] \notin Cleaning => trouble'[w] = trouble[w]
<1>1. Disturb /\ UNCHANGED <<temp, data, pc, parent, publishing, target>>
  BY DEF Owner, MoveDirectory, RemoveOutput
<1>2. EntriesGo
  <2>1. UNCHANGED entry => EntriesGo
    BY DEF EntriesGo
  <2>. QED  BY <2>1, Dropping DEF TypeInv, Owner, MoveDirectory, RemoveOutput
<1>3. \A w \in Writers :
          trouble'[w] = trouble[w] \cup IF pc[w] \in Cleaning THEN {"disturbed"} ELSE {}
  BY <1>1 DEF Disturb
<1>. QED  BY <1>1, <1>2, <1>3

LEMMA OwnerRetractInv ==
  ASSUME TypeInv, LinkInv, RetractInv, Owner
  PROVE  RetractInv'
<1> SUFFICES ASSUME NEW w \in Writers PROVE HomeAt(w)' /\ RetractAt(w)'
  BY DEF RetractInv
<1>1. HomeAt(w) /\ RetractAt(w)
  BY DEF RetractInv
<1>2. UNCHANGED <<temp, data, pc, parent, publishing, target>> /\ trouble[w] \subseteq trouble'[w]
  BY Disturbing
<1>3. \A d \in Dirs, n \in Names : entry'[d][n] = w => entry[d][n] = w
  BY Disturbing, ProcessAssumption DEF EntriesGo
<1>4. HomeAt(w)'
  BY <1>1, <1>2, <1>3, OwnOutput DEF HomeAt
<1>5. Entered(w)' => Entered(w)
  BY <1>3 DEF Entered
<1>6. trouble'[w] = {} => pc[w] \notin Cleaning /\ trouble[w] = {}
  BY <1>2, Disturbing
<1>7. RetractAt(w)'
  BY <1>1, <1>2, <1>5, <1>6 DEF RetractAt, Cleaning
<1>. QED  BY <1>4, <1>7

LEMMA NextRetractInv == TypeInv /\ LinkInv /\ RetractInv /\ [Next]_vars => RetractInv'
<1> SUFFICES ASSUME TypeInv, LinkInv, RetractInv, [Next]_vars PROVE RetractInv'
  OBVIOUS
<1>1. ASSUME UNCHANGED vars PROVE RetractInv'
  BY <1>1, RetractStands DEF RetractInv, vars, diskVars, writerVars
<1>2. \A r \in Readers : r \in Processes
  BY DEF Readers, Processes, Writers
<1>. QED
  BY <1>1, <1>2, PublishRetractInv, ReadRetractInv, OwnerRetractInv DEF Next, Processes

\* What a call that cleans up has still to take back holds in every reachable state.
THEOREM RetractInvariant == Spec => []RetractInv
  BY TypesInvariant, LinkInvariant, InitRetractInv, NextRetractInv, PTL DEF Spec

\* A call that failed leaves no whole artifact under an output name, even in a directory
\* that was moved out of its reach; and no name at all if nothing hindered its cleaning.
THEOREM FailuresRetract == Spec => []FailureRetracts
<1>1. RetractInv => FailureRetracts
  <2> SUFFICES ASSUME RetractInv, NEW w \in Writers, pc[w] = "failed"
               PROVE  /\ trouble[w] \cap {"untruncated", "was_published"} = {} =>
                            \A d \in Dirs, n \in Names : entry[d][n] = w => data[w] # "whole"
                      /\ trouble[w] = {} =>
                            /\ \A d \in Dirs, n \in Names : entry[d][n] # w
                            /\ temp[w] # parent[w] \/ temp[w] = None
    BY DEF FailureRetracts
  <2>. QED  BY DEF RetractInv, RetractAt, Entered
<1>. QED  BY <1>1, RetractInvariant, PTL

-----------------------------------------------------------------------------
(* What a call that succeeded has published *)

\* A call whose checks the owner made out of date while it cleaned up: what it removes may
\* be another's by now.
Stale(x) == "disturbed" \in trouble[x] /\ pc[x] \notin Successful
AnyStale == \E x \in Writers : Stale(x)

\* Nobody is disturbed before the first check of the cleaning.
QuietAt(w) == pc[w] \in BeforeLink \cup {"linked"} => "disturbed" \notin trouble[w]

\* What a removal is about to take away is the writer's own name.
RemovesItsOwn(w) ==
    /\ pc[w] = "remove_at_path" => \E d \in Dirs : AtPath(d) /\ entry[d][OutputOf(w)] = w
    /\ pc[w] = "remove_at_parent" =>
            place[parent[w]] = target[w] /\ entry[parent[w]][OutputOf(w)] = w

StaysAt(w) == pc[w] \in Successful => Shown(w) \/ w \in removed

StayInv ==
    /\ \A w \in Writers : QuietAt(w)
    /\ AnyStale \/ \A w \in Writers : RemovesItsOwn(w) /\ StaysAt(w)

LEMMA InitStayInv == Init => StayInv
<1> SUFFICES ASSUME Init, NEW w \in Writers PROVE QuietAt(w) /\ RemovesItsOwn(w) /\ StaysAt(w)
  BY DEF StayInv
<1>1. pc[w] \in {"absent", "stat", "look"} /\ trouble[w] = {}
  BY DEF Init
<1>. QED  BY <1>1 DEF QuietAt, RemovesItsOwn, StaysAt, Successful

\* A writer never notes that it was disturbed, and comes to a link only from before it.
LEMMA PublishQuiet ==
  ASSUME TypeInv, NEW w \in Writers, Publish(w)
  PROVE  /\ "disturbed" \in trouble'[w] => "disturbed" \in trouble[w]
         /\ pc'[w] \in BeforeLink \cup {"linked"} => pc[w] \in BeforeLink
         /\ pc'[w] \in Successful => pc[w] \in Successful \cup {"link"}
<1>. USE DEF writerVars
<1>1. \/ UNCHANGED trouble
      \/ \E what \in SUBSET {"untruncated", "unswept", "was_published", "out_of_reach",
                             "misplaced"} : Note(w, what)
  BY DEF Publish, StatParent, Admit, OpenTemporary, WriteBytes, AssertWritten, AssertLinked,
         AssertParent, Link, Truncate, CheckPath, RemoveAtPath, CheckParent, RemoveAtParent,
         Sweep
<1>2. "disturbed" \in trouble'[w] => "disturbed" \in trouble[w]
  <2>1. CASE UNCHANGED trouble
    BY <2>1
  <2>2. ASSUME NEW what \in SUBSET {"untruncated", "unswept", "was_published", "out_of_reach",
                                    "misplaced"}, Note(w, what)
        PROVE  "disturbed" \in trouble'[w] => "disturbed" \in trouble[w]
    <3>1. trouble'[w] = trouble[w] \cup what
      BY <2>2, Going
    <3>. QED  BY <3>1
  <2>. QED  BY <1>1, <2>1, <2>2
<1>3. /\ pc'[w] \in BeforeLink \cup {"linked"} => pc[w] \in BeforeLink
      /\ pc'[w] \in Successful => pc[w] \in Successful \cup {"link"}
  BY DEF Publish, StatParent, Admit, OpenTemporary, WriteBytes, AssertWritten, AssertLinked,
         AssertParent, Link, Truncate, CheckPath, RemoveAtPath, CheckParent, RemoveAtParent,
         Sweep, Goto, TypeInv, PcType, Processes, BeforeLink, Reading, Successful
<1>. QED  BY <1>2, <1>3

\* A cleaning out of date remains so, and nobody else is disturbed before its time.
LEMMA NextQuiet ==
  ASSUME TypeInv, StayInv, [Next]_vars
  PROVE  (\A w \in Writers : QuietAt(w)') /\ (AnyStale => AnyStale')
<1> SUFFICES ASSUME NEW w \in Writers PROVE QuietAt(w)' /\ (Stale(w) => Stale(w)')
  BY DEF AnyStale
<1>1. QuietAt(w)
  BY DEF StayInv
<1>2. ASSUME NEW x \in Writers, Publish(x) PROVE QuietAt(w)' /\ (Stale(w) => Stale(w)')
  <2>1. OthersStand(x) /\ trouble[x] \subseteq trouble'[x]
    BY <1>2, PublishFrame
  <2>2. CASE x = w
    <3>1. QuietAt(w)'
      BY <1>1, <1>2, <2>2, PublishQuiet DEF QuietAt
    <3>2. Stale(w) => pc[w] \notin Successful \cup {"link"}
      BY <1>1 DEF Stale, QuietAt, BeforeLink
    <3>. QED
      BY <1>2, <2>1, <2>2, <3>1, <3>2, PublishQuiet DEF Stale
  <2>3. CASE x # w
    BY <1>1, <2>1, <2>3 DEF OthersStand, Processes, QuietAt, Stale
  <2>. QED  BY <2>2, <2>3
<1>3. ASSUME NEW p \in Processes, Crash(p) \/ (p \in Readers /\ ReadFile(p))
      PROVE  QuietAt(w)' /\ (Stale(w) => Stale(w)')
  <2>1. trouble' = trouble
    BY <1>3
    DEF Crash, ReadFile, Look, Read, ReadFails, ConfirmForSigning,
        ConfirmBundle, ConfirmAttestation,
        writerVars
  <2>2. /\ \/ pc'[p] = "crashed"
           \/ /\ pc[p] \in Reading
              /\ pc'[p] \in Reading \cup {"stat", "failed", "refused", "accepted"}
        /\ \A q \in Processes \ {p} : pc'[q] = pc[q]
    BY <1>3
    DEF Crash, ReadFile, Look, Read, ReadFails, ConfirmForSigning,
        ConfirmBundle, ConfirmAttestation,
        GiveUp, Goto, TypeInv, PcType, Processes, Readers, Writers, Reading
  <2>3. CASE p = w
    BY <1>1, <2>1, <2>2, <2>3 DEF QuietAt, Stale, BeforeLink, Successful, Reading
  <2>4. CASE p # w
    <3>1. pc'[w] = pc[w]
      BY <2>2, <2>4 DEF Processes
    <3>. QED  BY <1>1, <2>1, <3>1 DEF QuietAt, Stale
  <2>. QED  BY <2>3, <2>4
<1>4. ASSUME Owner PROVE QuietAt(w)' /\ (Stale(w) => Stale(w)')
  <2>1. /\ pc' = pc /\ trouble[w] \subseteq trouble'[w]
        /\ pc[w] \notin Cleaning => trouble'[w] = trouble[w]
    BY <1>4, Disturbing
  <2>. QED  BY <1>1, <2>1 DEF QuietAt, Stale, BeforeLink, Reading, Cleaning
<1>5. ASSUME UNCHANGED vars PROVE QuietAt(w)' /\ (Stale(w) => Stale(w)')
  BY <1>1, <1>5 DEF vars, writerVars, QuietAt, Stale
<1>6. \A r \in Readers : r \in Processes
  BY DEF Readers, Processes, Writers
<1>. QED  BY <1>2, <1>3, <1>4, <1>5, <1>6 DEF Next, Processes

\* A writer whose checks hold takes no other writer's name away.
LEMMA OthersNamesStand ==
  ASSUME TypeInv, LinkInv, RetractInv, NEW w \in Writers, RemovesItsOwn(w), Publish(w)
  PROVE  \A x \in Writers \ {w}, d \in Dirs, n \in Names : entry[d][n] = x => entry'[d][n] = x
<1>. USE DEF diskVars
<1>1. CASE UNCHANGED entry
  BY <1>1
<1>2. CASE Link(w) /\ ~UNCHANGED entry
  BY <1>2, Linking, OwnOutput, ProcessAssumption
<1>3. ASSUME NEW d \in Dirs, Drop(d, OutputOf(w)), entry[d][OutputOf(w)] = w
      PROVE  \A x \in Writers \ {w}, e \in Dirs, n \in Names : entry[e][n] = x => entry'[e][n] = x
  BY <1>3, Dropping, OwnOutput DEF TypeInv
<1>4. CASE RemoveAtPath(w) /\ ~UNCHANGED entry
  <2>1. pc[w] = "remove_at_path"
    BY <1>4 DEF RemoveAtPath
  <2>2. PICK d \in Dirs : AtPath(d) /\ Drop(d, OutputOf(w))
    BY <1>4 DEF RemoveAtPath
  <2>3. entry[d][OutputOf(w)] = w
    BY <2>1, <2>2 DEF RemovesItsOwn, LinkInv, OnePath
  <2>. QED  BY <1>3, <2>2, <2>3
<1>5. CASE RemoveAtParent(w) /\ ~UNCHANGED entry
  <2>1. pc[w] = "remove_at_parent"
    BY <1>5 DEF RemoveAtParent
  <2>2. parent[w] \in Dirs
    BY <2>1 DEF RetractInv, HomeAt, Opened, Cleaning
  <2>3. PICK d \in Dirs : /\ IF target[w] = "path" THEN AtPath(d)
                                                   ELSE d = parent[w] /\ place[d] = "sibling"
                          /\ Drop(d, OutputOf(w))
    BY <1>5 DEF RemoveAtParent
  <2>4. d = parent[w]
    BY <2>1, <2>2, <2>3 DEF RemovesItsOwn, LinkInv, OnePath, AtPath
  <2>5. entry[d][OutputOf(w)] = w
    BY <2>1, <2>4 DEF RemovesItsOwn
  <2>. QED  BY <1>3, <2>3, <2>5
<1>. QED
  BY <1>1, <1>2, <1>4, <1>5
  DEF Publish, StatParent, Admit, OpenTemporary, WriteBytes, AssertWritten, AssertLinked,
      AssertParent, Truncate, CheckPath, CheckParent, Sweep

\* The writer itself checks before it removes, and shows its artifact when it has linked.
LEMMA PublishStays ==
  ASSUME TypeInv, LinkInv, RetractInv, NEW w \in Writers, RemovesItsOwn(w), StaysAt(w), Publish(w)
  PROVE  RemovesItsOwn(w)' /\ StaysAt(w)'
<1>. USE DEF TypeInv, WriterType, PcType, Processes, Goto, diskVars, writerVars
<1>1. RemovesItsOwn(w)'
  <2>1. CASE CheckPath(w)
    <3>1. /\ UNCHANGED <<place, entry>>
          /\ pc'[w] = IF \E d \in Dirs : AtPath(d) /\ IsOurs(w, d)
                      THEN "remove_at_path" ELSE "check_parent"
      BY <2>1 DEF CheckPath
    <3>. QED  BY <3>1 DEF RemovesItsOwn, IsOurs, AtPath
  <2>2. CASE CheckParent(w)
    <3>1. /\ UNCHANGED <<place, entry, parent>>
          /\ \/ /\ IsOurs(w, parent[w]) /\ target'[w] = place[parent[w]]
                /\ pc'[w] = "remove_at_parent"
             \/ pc'[w] = "sweep_failed"
      BY <2>2 DEF CheckParent, Reachable
    <3>. QED  BY <3>1 DEF RemovesItsOwn, IsOurs
  <2>3. CASE ~CheckPath(w) /\ ~CheckParent(w)
    <3>1. pc'[w] \notin {"remove_at_path", "remove_at_parent"}
      BY <2>3
      DEF Publish, StatParent, Admit, OpenTemporary, WriteBytes, AssertWritten, AssertLinked,
          AssertParent, Link, Truncate, RemoveAtPath, RemoveAtParent, Sweep
    <3>. QED  BY <3>1 DEF RemovesItsOwn
  <2>. QED  BY <2>1, <2>2, <2>3
<1>2. StaysAt(w)'
  <2>1. CASE Link(w) /\ pc'[w] = "linked"
    <3>1. PICK d \in Dirs : temp[w] = d /\ entry'[d][OutputOf(w)] = w
      BY <2>1, Linking
    <3>2. d = parent[w] \/ "misplaced" \in trouble[w]
      BY <3>1, ProcessAssumption DEF RetractInv, HomeAt
    <3>3. UNCHANGED <<parent, trouble>>
      BY <2>1 DEF Link
    <3>. QED  BY <3>1, <3>2, <3>3 DEF StaysAt, Shown
  <2>2. CASE AssertLinked(w) \/ Sweep(w)
    <3>1. UNCHANGED <<entry, parent, removed>> /\ trouble[w] \subseteq trouble'[w]
      BY <2>2, PublishFrame DEF AssertLinked, AssertParent, Sweep, ownerVars
    <3>2. pc'[w] \in Successful => pc[w] \in Successful
      BY <2>2 DEF AssertLinked, AssertParent, Sweep, Successful
    <3>. QED  BY <3>1, <3>2 DEF StaysAt, Shown
  <2>3. CASE ~AssertLinked(w) /\ ~Sweep(w) /\ ~(Link(w) /\ pc'[w] = "linked")
    <3>1. pc'[w] \notin Successful
      BY <2>3
      DEF Publish, StatParent, Admit, OpenTemporary, WriteBytes, AssertWritten,
          AssertParent, Link, Truncate, CheckPath, RemoveAtPath, CheckParent, RemoveAtParent,
          Successful
    <3>. QED  BY <3>1 DEF StaysAt
  <2>. QED  BY <2>1, <2>2, <2>3
<1>. QED  BY <1>1, <1>2

\* Both stand while names stand or their owner removes them.
LEMMA StaysStands ==
  ASSUME NEW x \in Writers, RemovesItsOwn(x), StaysAt(x), UNCHANGED <<place, removed>>,
         \A d \in Dirs, n \in Names : entry[d][n] = x => entry'[d][n] = x,
         pc'[x] = pc[x], parent'[x] = parent[x], target'[x] = target[x],
         trouble'[x] = trouble[x],
         pc[x] = "remove_at_parent" => parent[x] \in Dirs
  PROVE  RemovesItsOwn(x)' /\ StaysAt(x)'
<1>1. RemovesItsOwn(x)'
  BY OwnOutput DEF RemovesItsOwn, AtPath
<1>2. Shown(x) => Shown(x)'
  BY OwnOutput DEF Shown
<1>. QED  BY <1>1, <1>2 DEF StaysAt

LEMMA NextStayInv ==
  ASSUME TypeInv, LinkInv, RetractInv, StayInv, [Next]_vars
  PROVE  StayInv'
<1>1. (\A w \in Writers : QuietAt(w)') /\ (AnyStale => AnyStale')
  BY NextQuiet
<1> SUFFICES ASSUME ~AnyStale', NEW x \in Writers PROVE RemovesItsOwn(x)' /\ StaysAt(x)'
  BY <1>1 DEF StayInv
<1>2. \A w \in Writers : RemovesItsOwn(w) /\ StaysAt(w)
  BY <1>1 DEF StayInv
<1>3. pc[x] = "remove_at_parent" => parent[x] \in Dirs
  BY DEF RetractInv, HomeAt, Opened, Cleaning
<1>4. ASSUME NEW w \in Writers, Publish(w) PROVE RemovesItsOwn(x)' /\ StaysAt(x)'
  <2>1. CASE x = w
    BY <1>2, <1>4, <2>1, PublishStays
  <2>2. CASE x # w
    <3>1. OthersStand(w) /\ UNCHANGED <<place, removed>>
      BY <1>4, PublishFrame DEF ownerVars
    <3>2. \A d \in Dirs, n \in Names : entry[d][n] = x => entry'[d][n] = x
      BY <1>2, <1>4, <2>2, OthersNamesStand
    <3>. QED
      BY <1>2, <1>3, <2>2, <3>1, <3>2, StaysStands DEF OthersStand, Processes
  <2>. QED  BY <2>1, <2>2
<1>5. ASSUME NEW p \in Processes, Crash(p) \/ (p \in Readers /\ ReadFile(p))
      PROVE  RemovesItsOwn(x)' /\ StaysAt(x)'
  <2>1. UNCHANGED <<place, entry, parent, target, trouble, removed>>
    BY <1>5
    DEF Crash, ReadFile, Look, Read, ReadFails, ConfirmForSigning,
        ConfirmBundle, ConfirmAttestation,
        diskVars, writerVars, ownerVars
  <2>2. pc'[x] = pc[x] \/ pc'[x] \notin {"remove_at_path", "remove_at_parent"} \cup Successful
    BY <1>5
    DEF Crash, ReadFile, Look, Read, ReadFails, ConfirmForSigning,
        ConfirmBundle, ConfirmAttestation,
        GiveUp, Goto, TypeInv, PcType, Processes, Readers, Writers, Successful
  <2>3. CASE pc'[x] = pc[x]
    BY <1>2, <1>3, <2>1, <2>3, StaysStands
  <2>. QED  BY <2>2, <2>3 DEF RemovesItsOwn, StaysAt
<1>6. ASSUME Owner PROVE RemovesItsOwn(x)' /\ StaysAt(x)'
  <2>1. /\ UNCHANGED <<pc, parent>> /\ trouble[x] \subseteq trouble'[x]
        /\ pc[x] \in Cleaning => "disturbed" \in trouble'[x]
    BY <1>6, Disturbing
  <2>2. RemovesItsOwn(x)'
    <3>1. pc[x] \notin {"remove_at_path", "remove_at_parent"}
      BY <2>1 DEF AnyStale, Stale, Successful, Cleaning
    <3>. QED  BY <2>1, <3>1 DEF RemovesItsOwn
  <2>3. ASSUME NEW d \in Dirs, NEW to \in {"path", "sibling", "elsewhere"}, MoveDirectory(d, to)
        PROVE  StaysAt(x)'
    BY <1>2, <2>1, <2>3 DEF MoveDirectory, StaysAt, Shown
  <2>4. ASSUME NEW d \in Dirs, NEW n \in Names, RemoveOutput(d, n) PROVE StaysAt(x)'
    <3>1. CASE entry[d][n] = x
      BY <2>4, <3>1 DEF RemoveOutput, StaysAt
    <3>2. CASE entry[d][n] # x
      <4>1. \A e \in Dirs, m \in Names : entry[e][m] = x => entry'[e][m] = x
        BY <2>4, <3>2, Dropping DEF RemoveOutput, TypeInv
      <4>2. removed \subseteq removed'
        BY <2>4 DEF RemoveOutput
      <4>. QED  BY <1>2, <2>1, <4>1, <4>2, OwnOutput DEF StaysAt, Shown
    <3>. QED  BY <3>1, <3>2
  <2>. QED  BY <1>6, <2>2, <2>3, <2>4 DEF Owner
<1>7. ASSUME UNCHANGED vars PROVE RemovesItsOwn(x)' /\ StaysAt(x)'
  BY <1>2, <1>3, <1>7, StaysStands DEF vars, diskVars, writerVars, ownerVars
<1>8. \A r \in Readers : r \in Processes
  BY DEF Readers, Processes, Writers
<1>. QED  BY <1>4, <1>5, <1>6, <1>7, <1>8 DEF Next, Processes

\* An artifact whose call reported success stays under its name, whole, whatever the calls
\* that lose against it clean up: only its owner takes it away, or a cleaning whose check
\* the owner made out of date.
THEOREM SuccessesStay == Spec => []SuccessStays
<1>1. Spec => []StayInv
  BY TypesInvariant, LinkInvariant, RetractInvariant, InitStayInv, NextStayInv, PTL DEF Spec
<1>2. LinkInv /\ StayInv => SuccessStays
  <2> SUFFICES ASSUME LinkInv, StayInv, NEW w \in Writers, pc[w] = "published",
                      ~ \E x \in Writers \ {w} : "disturbed" \in trouble[x]
               PROVE  (data[w] = "whole" /\ Shown(w)) \/ w \in removed
    BY DEF SuccessStays
  <2>1. data[w] = "whole"
    BY DEF LinkInv, LinkAt, Successful
  <2>2. ~AnyStale
    BY DEF AnyStale, Stale, Successful
  <2>. QED  BY <2>1, <2>2 DEF StayInv, StaysAt, Successful
<1>. QED  BY <1>1, <1>2, LinkInvariant, PTL

-----------------------------------------------------------------------------
(* What a verification owes to a published pair *)

\* How far a verifier that is due has come with the bundle of e and the signature of a.
Along(v, e, a) ==
    \/ /\ reading[v] = "bundle"
       /\ pc[v] \in {"read", "confirm"} /\ seen[v] = e
       /\ pc[v] = "confirm" => got[v] = "whole"
    \/ /\ reading[v] = "attestation" /\ bundleRead[v] = e
       /\ pc[v] \in {"look", "read", "confirm"}
       /\ pc[v] # "look" => seen[v] = a
       /\ pc[v] = "confirm" => got[v] = "whole"
    \/ pc[v] \in {"accepted", "crashed"}

OnItsWay(v) ==
    \E d \in Dirs, e \in Exporters, a \in Attesters : StandsIn(d, e, a) /\ Along(v, e, a)

\* As long as every removal takes the remover's own name, the pair stands until the end.
DueInv == AnyStale \/ \A v \in due : OnItsWay(v)

LEMMA InitDueInv == Init => DueInv
  BY DEF Init, DueInv

\* Neither call of the pair has a step left, and no other call takes its names.
LEMMA PublishLeavesPair ==
  ASSUME TypeInv, LinkInv, RetractInv, NEW w \in Writers, RemovesItsOwn(w), Publish(w),
         NEW d \in Dirs, NEW e \in Exporters, NEW a \in Attesters, StandsIn(d, e, a)
  PROVE  StandsIn(d, e, a)'
<1>1. pc[w] # "published"
  BY DEF Publish, StatParent, Admit, OpenTemporary, WriteBytes, AssertWritten, AssertLinked,
         AssertParent, Link, Truncate, CheckPath, RemoveAtPath, CheckParent, RemoveAtParent,
         Sweep
<1>2. e \in Writers \ {w} /\ a \in Writers \ {w}
  BY <1>1 DEF StandsIn, Writers
<1>3. OthersStand(w) /\ UNCHANGED <<place, source, key>>
  BY PublishFrame DEF readerVars
<1>4. entry'[d]["bundle"] = e /\ entry'[d]["attestation"] = a
  BY <1>2, OthersNamesStand DEF StandsIn, Names
<1>. QED  BY <1>2, <1>3, <1>4 DEF StandsIn, OthersStand, Processes, AtPath, Vouches

\* Nor does a reader or a process that dies.
LEMMA ReadLeavesPair ==
  ASSUME TypeInv, NEW p \in Processes, Crash(p) \/ (p \in Readers /\ ReadFile(p)),
         NEW d \in Dirs, NEW e \in Exporters, NEW a \in Attesters, StandsIn(d, e, a)
  PROVE  StandsIn(d, e, a)'
<1>1. pc[p] # "published"
  BY DEF Crash, ReadFile, Look, Read, ReadFails, ConfirmForSigning, ConfirmBundle,
         ConfirmAttestation, Ended, Reading
<1>2. UNCHANGED diskVars /\ \A q \in Processes \ {p} : pc'[q] = pc[q]
  BY DEF Crash, ReadFile, Look, Read, ReadFails, ConfirmForSigning, ConfirmBundle,
         ConfirmAttestation, GiveUp, Goto, TypeInv, PcType
<1>3. e \in Processes \ {p} /\ a \in Processes \ {p}
  BY <1>1 DEF StandsIn, Processes, Writers
<1>4. source'[a] = source[a] /\ key'[a] = key[a]
  BY <1>3 DEF Crash, ReadFile, Look, Read, ReadFails, ConfirmForSigning, ConfirmBundle,
         ConfirmAttestation, TypeInv, ReaderType, readerVars
<1>. QED  BY <1>2, <1>3, <1>4 DEF StandsIn, AtPath, Vouches, diskVars

\* A verifier finds what stands there, whole both times it looks, and accepts it.
LEMMA VerifierStaysOnItsWay ==
  ASSUME TypeInv, LinkInv, NEW v \in Verifiers, ReadFile(v), v \in due',
         v \in due => OnItsWay(v)
  PROVE  OnItsWay(v)'
<1>. USE DEF TypeInv, ReaderType, PcType, Processes, Readers, Goto
<1>1. v \notin Attesters /\ v \in Readers /\ v \in Processes
  BY ProcessAssumption DEF Writers
<1>2. ASSUME NEW d \in Dirs, NEW e \in Exporters, NEW a \in Attesters, StandsIn(d, e, a)
      PROVE  StandsIn(d, e, a)'
  BY <1>1, <1>2, ReadLeavesPair
<1>3. ASSUME NEW d \in Dirs, NEW e \in Exporters, NEW a \in Attesters, StandsIn(d, e, a)
      PROVE  /\ \A c \in Dirs : AtPath(c) => c = d
             /\ e # None /\ a # None /\ data[e] = "whole" /\ data[a] = "whole"
  <2>1. \A c \in Dirs : AtPath(c) => c = d
    BY <1>3 DEF StandsIn, LinkInv, OnePath
  <2>2. e \in Writers /\ a \in Writers /\ pc[e] = "published" /\ pc[a] = "published"
    BY <1>3 DEF StandsIn, Writers
  <2>. QED  BY <2>1, <2>2, ProcessAssumption DEF LinkInv, LinkAt, Successful
<1>4. CASE Look(v) /\ Begins(v) /\ PairStands
  <2>1. PICK d \in Dirs, e \in Exporters, a \in Attesters : StandsIn(d, e, a)
    BY <1>4 DEF PairStands
  <2>2. AtPath(d) /\ entry[d][reading[v]] = e /\ reading[v] = "bundle"
    BY <1>4, <2>1 DEF StandsIn, Begins
  <2>3. seen'[v] = e /\ pc'[v] = "read" /\ reading'[v] = "bundle"
    BY <1>1, <1>3, <1>4, <2>1, <2>2 DEF Look
  <2>. QED  BY <1>2, <2>1, <2>3 DEF OnItsWay, Along
<1>5. CASE ~(Look(v) /\ Begins(v) /\ PairStands)
  <2>1. v \in due /\ ~ReadFails(v)
    BY <1>5 DEF ReadFile, Look, Read, ReadFails, ConfirmForSigning, ConfirmBundle,
           ConfirmAttestation, ownerVars
  <2>2. PICK d \in Dirs, e \in Exporters, a \in Attesters :
            StandsIn(d, e, a) /\ Along(v, e, a)
    BY <2>1 DEF OnItsWay
  <2>3. StandsIn(d, e, a)' /\ data[e] = "whole" /\ data[a] = "whole" /\ e # None /\ a # None
    BY <1>2, <1>3, <2>2
  <2>4. Along(v, e, a)'
    <3>1. CASE Look(v)
      <4>1. reading[v] = "attestation" /\ bundleRead[v] = e
        BY <2>2, <3>1 DEF Look, Along
      <4>2. AtPath(d) /\ entry[d][reading[v]] = a
        BY <2>2, <4>1 DEF StandsIn
      <4>3. seen'[v] = a /\ pc'[v] = "read" /\ UNCHANGED <<reading, bundleRead>>
        BY <1>1, <1>3, <2>2, <2>3, <3>1, <4>2 DEF Look
      <4>. QED  BY <4>1, <4>3 DEF Along
    <3>2. CASE pc[v] \in {"read", "confirm"}
      <4>1. /\ StillNamed(v) /\ data[seen[v]] = "whole"
            /\ pc[v] = "confirm" => got[v] = "whole"
        BY <2>2, <2>3, <3>2 DEF Along, StandsIn, StillNamed
      <4>2. CASE Read(v)
        <5>1. got'[v] = "whole" /\ pc'[v] = "confirm" /\ UNCHANGED <<seen, reading, bundleRead>>
          BY <1>1, <4>1, <4>2 DEF Read
        <5>. QED  BY <2>2, <3>2, <5>1 DEF Along
      <4>3. CASE ConfirmBundle(v)
        <5>1. ReadHolds(v) /\ reading[v] = "bundle" /\ seen[v] = e
          BY <2>2, <3>2, <4>1, <4>3 DEF ConfirmBundle, ReadHolds, Parses, Along
        <5>2. bundleRead'[v] = e /\ reading'[v] = "attestation" /\ pc'[v] = "look"
          BY <1>1, <4>3, <5>1 DEF ConfirmBundle
        <5>. QED  BY <5>2 DEF Along
      <4>4. CASE ConfirmAttestation(v)
        <5>1. /\ ReadHolds(v) /\ seen[v] = a /\ bundleRead[v] = e
          BY <2>2, <3>2, <4>1, <4>4 DEF ConfirmAttestation, ReadHolds, Parses, Along
        <5>2. pc'[v] = "accepted"
          BY <1>1, <2>2, <4>4, <5>1 DEF ConfirmAttestation, StandsIn
        <5>. QED  BY <5>2 DEF Along
      <4>. QED
        BY <1>1, <2>1, <3>2, <4>2, <4>3, <4>4 DEF ReadFile, Look, ConfirmForSigning
    <3>3. pc[v] \in Reading
      BY DEF ReadFile, Look, Read, ReadFails, ConfirmForSigning, ConfirmBundle,
             ConfirmAttestation, Reading
    <3>. QED
      BY <1>1, <2>1, <3>1, <3>2, <3>3
      DEF Reading, ReadFile, Read, ConfirmForSigning, ConfirmBundle, ConfirmAttestation
  <2>. QED  BY <2>3, <2>4 DEF OnItsWay
<1>. QED  BY <1>4, <1>5

LEMMA NextDueInv ==
  ASSUME TypeInv, LinkInv, RetractInv, StayInv, DueInv, [Next]_vars
  PROVE  DueInv'
<1>1. AnyStale => AnyStale'
  BY NextQuiet
<1> SUFFICES ASSUME ~AnyStale', NEW v \in due' PROVE OnItsWay(v)'
  BY DEF DueInv
<1>2. /\ \A w \in Writers : RemovesItsOwn(w)
      /\ \A u \in due : OnItsWay(u)
  BY <1>1 DEF StayInv, DueInv
<1>3. due \subseteq Verifiers
  BY DEF TypeInv, OwnerType
<1>4. ASSUME NEW w \in Writers, Publish(w) PROVE OnItsWay(v)'
  <2>1. UNCHANGED <<readerVars, due>> /\ OthersStand(w)
    BY <1>4, PublishFrame DEF ownerVars
  <2>2. PICK d \in Dirs, e \in Exporters, a \in Attesters :
            StandsIn(d, e, a) /\ Along(v, e, a)
    BY <1>2, <2>1 DEF OnItsWay
  <2>3. v \in Processes \ {w}
    BY <1>3, <2>1, ProcessAssumption DEF Processes
  <2>4. StandsIn(d, e, a)'
    BY <1>2, <1>4, <2>2, PublishLeavesPair
  <2>5. Along(v, e, a)'
    BY <2>1, <2>2, <2>3 DEF Along, readerVars, OthersStand
  <2>. QED  BY <2>4, <2>5 DEF OnItsWay
<1>5. ASSUME NEW p \in Processes, Crash(p) \/ (p \in Readers /\ ReadFile(p)),
             v # p \/ Crash(p)
      PROVE  OnItsWay(v)'
  <2>1. v \in due /\ v \in Verifiers
    BY <1>3, <1>5
    DEF Crash, ReadFile, Look, Begins, Read, ReadFails, ConfirmForSigning, ConfirmBundle,
        ConfirmAttestation, ownerVars
  <2>2. PICK d \in Dirs, e \in Exporters, a \in Attesters :
            StandsIn(d, e, a) /\ Along(v, e, a)
    BY <1>2, <2>1 DEF OnItsWay
  <2>3. StandsIn(d, e, a)'
    BY <1>5, <2>2, ReadLeavesPair
  <2>4. Along(v, e, a)'
    <3>1. CASE v = p
      BY <1>5, <3>1 DEF Crash, Goto, Along, TypeInv, PcType
    <3>2. CASE v # p
      <4>1. pc'[v] = pc[v]
        BY <1>5, <2>1, <3>2
        DEF Crash, ReadFile, Look, Read, ReadFails, ConfirmForSigning, ConfirmBundle,
            ConfirmAttestation, GiveUp, Goto, TypeInv, PcType, Processes
      <4>2. /\ reading'[v] = reading[v] /\ seen'[v] = seen[v] /\ got'[v] = got[v]
            /\ bundleRead'[v] = bundleRead[v]
        BY <1>5, <2>1, <3>2
        DEF Crash, ReadFile, Look, Read, ReadFails, ConfirmForSigning, ConfirmBundle,
            ConfirmAttestation, TypeInv, ReaderType, Readers, readerVars
      <4>. QED  BY <2>2, <4>1, <4>2 DEF Along
    <3>. QED  BY <3>1, <3>2
  <2>. QED  BY <2>3, <2>4 DEF OnItsWay
<1>6. ASSUME NEW r \in Readers, ReadFile(r), v = r PROVE OnItsWay(v)'
  <2>1. v \in Verifiers
    BY <1>3, <1>6, NextTypes DEF TypeInv, OwnerType, Next
  <2>. QED  BY <1>2, <1>6, <2>1, VerifierStaysOnItsWay
<1>7. ~Owner
  BY DEF Owner, MoveDirectory, RemoveOutput
<1>8. ASSUME UNCHANGED vars PROVE OnItsWay(v)'
  BY <1>2, <1>8
  DEF vars, diskVars, writerVars, readerVars, ownerVars, OnItsWay, StandsIn, Along, AtPath,
      Vouches
<1>9. \A r \in Readers : r \in Processes
  BY DEF Readers, Processes, Writers
<1>. QED  BY <1>4, <1>5, <1>6, <1>7, <1>8, <1>9 DEF Next, Processes

\* A verification that starts when a published bundle and a published signature over it, by
\* the trusted key, stand at the path is not refused, whatever other calls for the same
\* names do meanwhile, unless the owner acts, its own reading fails, or a losing call
\* cleans up on a check that the owner had made out of date.
THEOREM StandingPairsAreAccepted == Spec => []StandingPairIsAccepted
<1>1. Spec => []StayInv
  BY TypesInvariant, LinkInvariant, RetractInvariant, InitStayInv, NextStayInv, PTL DEF Spec
<1>2. Spec => []DueInv
  BY <1>1, TypesInvariant, LinkInvariant, RetractInvariant, InitDueInv, NextDueInv, PTL
  DEF Spec
<1>3. DueInv => StandingPairIsAccepted
  <2> SUFFICES ASSUME DueInv, NEW v \in due, pc[v] = "refused", ~AnyStale PROVE FALSE
    BY DEF StandingPairIsAccepted, AnyStale, Stale, Successful
  <2>. QED  BY DEF DueInv, OnItsWay, Along
<1>. QED  BY <1>2, <1>3, PTL

=============================================================================
