--------------------------- MODULE BenchmarkLedger ---------------------------
(* The ledger of a benchmark, comparison or calibration (src/benchmark/ledger.js): a body of
   canonical records and a file beside it with the body's digest, each published under an
   exclusive link, and read back by rebuilding every record from the observations.

   The writers of one path are separate processes, as are its readers. The owner may remove
   either file, or put whatever they like in its place. The digest is no signature: rows that
   the owner changed together with their hashes, summary and digest read like any others.

   A definition X_Y is a faulty variant of X. *)
EXTENDS Naturals

CONSTANTS
    LedgerWriters, LedgerReaders,
    Ledgers,            \* contents that agree with themselves, measured or made up
    MaxInterventions,   \* acts of the owner
    NoFile

Edited == "edited"      \* content that does not agree with itself

ASSUME LedgerAssumption ==
    /\ NoFile \notin Ledgers \cup {Edited} /\ Edited \notin Ledgers
    /\ LedgerWriters \cap LedgerReaders = {}
    /\ MaxInterventions \in Nat

VARIABLES
    built,              \* buildBenchmarkLedger: what a writer publishes
    body, digest,       \* the two files; a digest is known by the body it is of
    ledgerPc,
    bodyRead, digestRead,
    rewritten,          \* history: what the owner put into the body
    interventions

ownerVars == <<rewritten, interventions>>
ledgerFiles == <<body, digest>>
ledgerVars == <<built, ledgerFiles, ledgerPc, bodyRead, digestRead, ownerVars>>

Step(p, from, to) == ledgerPc[p] = from /\ ledgerPc' = [ledgerPc EXCEPT ![p] = to]

-----------------------------------------------------------------------------
(* writeExclusive, called for the body and then for the digest *)

\* rename would replace what another writer has published.
LinkBody_Renames(w) ==
    /\ Step(w, "body", "digest") /\ body' = built[w]
    /\ UNCHANGED <<built, digest, bodyRead, digestRead, ownerVars>>

\* The link fails when the name exists. After it the temporary name is removed and the mode
\* set: when one of these fails, the call throws and the body stays.
LinkBody(w) ==
    /\ \/ body = NoFile /\ body' = built[w] /\ (Step(w, "body", "digest") \/ Step(w, "body", "failed"))
       \/ Step(w, "body", "failed") /\ UNCHANGED body
    /\ UNCHANGED <<built, digest, bodyRead, digestRead, ownerVars>>

LinkDigest(w) ==
    /\ \/ /\ digest = NoFile /\ digest' = built[w]
          /\ Step(w, "digest", "written") \/ Step(w, "digest", "failed")
       \/ Step(w, "digest", "failed") /\ UNCHANGED digest
    /\ UNCHANGED <<built, body, bodyRead, digestRead, ownerVars>>

-----------------------------------------------------------------------------
(* readBenchmarkLedger *)

\* The two files are read at the same time; a missing one ends the call.
ReadBody(r) ==
    /\ \/ Step(r, "read", "read_digest") /\ body # NoFile
       \/ Step(r, "read_body", "check") /\ body # NoFile
       \/ /\ ledgerPc[r] \in {"read", "read_body"} /\ body = NoFile
          /\ ledgerPc' = [ledgerPc EXCEPT ![r] = "refused"]
    /\ bodyRead' = [bodyRead EXCEPT ![r] = body]
    /\ UNCHANGED <<built, ledgerFiles, digestRead, ownerVars>>

ReadDigest(r) ==
    /\ \/ Step(r, "read", "read_body") /\ digest # NoFile
       \/ Step(r, "read_digest", "check") /\ digest # NoFile
       \/ /\ ledgerPc[r] \in {"read", "read_digest"} /\ digest = NoFile
          /\ ledgerPc' = [ledgerPc EXCEPT ![r] = "refused"]
    /\ digestRead' = [digestRead EXCEPT ![r] = digest]
    /\ UNCHANGED <<built, ledgerFiles, bodyRead, ownerVars>>

\* parseBenchmarkLedger: rebuilding the ledger from its rows yields the same bytes, whoever
\* made the rows.
Replays(content) == content \in Ledgers

CheckLedger(r) ==
    /\ \/ Step(r, "check", "accepted") /\ digestRead[r] = bodyRead[r] /\ Replays(bodyRead[r])
       \/ Step(r, "check", "refused") /\ ~(digestRead[r] = bodyRead[r] /\ Replays(bodyRead[r]))
    /\ UNCHANGED <<built, ledgerFiles, bodyRead, digestRead, ownerVars>>

-----------------------------------------------------------------------------

\* The owner removes or replaces a file; a consistent edit takes two acts.
Intervene ==
    /\ interventions < MaxInterventions /\ interventions' = interventions + 1
    /\ \E content \in Ledgers \cup {Edited, NoFile} :
          \/ body' = content /\ rewritten' = rewritten \cup {content} /\ UNCHANGED digest
          \/ digest' = content /\ UNCHANGED <<body, rewritten>>
    /\ UNCHANGED <<built, ledgerPc, bodyRead, digestRead>>

LedgerEnded == {"written", "failed", "accepted", "refused", "crashed"}

LedgerCrash(p) ==
    /\ ledgerPc[p] \notin LedgerEnded
    /\ ledgerPc' = [ledgerPc EXCEPT ![p] = "crashed"]
    /\ UNCHANGED <<built, ledgerFiles, bodyRead, digestRead, ownerVars>>

LedgerInit ==
    /\ built \in [LedgerWriters -> Ledgers]
    /\ body = NoFile /\ digest = NoFile
    /\ ledgerPc = [p \in LedgerWriters \cup LedgerReaders |->
                       IF p \in LedgerWriters THEN "body" ELSE "read"]
    /\ bodyRead = [r \in LedgerReaders |-> NoFile]
    /\ digestRead = [r \in LedgerReaders |-> NoFile]
    /\ rewritten = {} /\ interventions = 0

LedgerNext ==
    \/ \E w \in LedgerWriters : LinkBody(w) \/ LinkDigest(w) \/ LedgerCrash(w)
    \/ \E r \in LedgerReaders : ReadBody(r) \/ ReadDigest(r) \/ CheckLedger(r) \/ LedgerCrash(r)
    \/ Intervene

LedgerSpec == LedgerInit /\ [][LedgerNext]_ledgerVars

-----------------------------------------------------------------------------
(* Properties *)

LedgerTypeOK ==
    /\ built \in [LedgerWriters -> Ledgers]
    /\ body \in Ledgers \cup {NoFile, Edited} /\ digest \in Ledgers \cup {NoFile, Edited}
    /\ ledgerPc \in [LedgerWriters \cup LedgerReaders ->
                       LedgerEnded \cup {"body", "digest", "read", "read_body",
                                         "read_digest", "check"}]
    /\ bodyRead \in [LedgerReaders -> Ledgers \cup {NoFile, Edited}]
    /\ digestRead \in [LedgerReaders -> Ledgers \cup {NoFile, Edited}]
    /\ rewritten \subseteq Ledgers \cup {NoFile, Edited} /\ interventions \in 0 .. MaxInterventions

\* What a reader accepts has one author, a writer or the owner. While the owner leaves the
\* files alone, one writer at most reports success, however writers race and stop between the
\* two files, and it, the files and every reader that has accepted agree: what was read once
\* is what stays there.
LedgerHasOneAuthor ==
    /\ \A r \in LedgerReaders : ledgerPc[r] = "accepted" =>
            bodyRead[r] \in {built[w] : w \in LedgerWriters} \cup rewritten
    /\ interventions = 0 =>
        /\ \A w, x \in LedgerWriters : ledgerPc[w] = "written" /\ ledgerPc[x] = "written" => w = x
        /\ \A w \in LedgerWriters : ledgerPc[w] = "written" => body = built[w] /\ digest = built[w]
        /\ \A r \in LedgerReaders :
                ledgerPc[r] = "accepted" => body = bodyRead[r] /\ digest = bodyRead[r]

=============================================================================
