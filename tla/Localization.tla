---------------------------- MODULE Localization ----------------------------
(* The context pack of a task: the lines of a frozen project that mention it, cut to a
   budget (src/core/localization.js), and the validator every pack passes
   (src/contracts/context-pack.js).

   A file is what the snapshot and the task make of it: its class, its score, where its
   lines end, which of them mention the task, which offsets lie inside a character, its seams,
   offsets inside a line at which the line cut there reads like a credential though the file
   does not, and the bytes of its byte-order mark, which the decoder drops. Files are known by
   their place in the order of paths. The project may be edited while its files are read one
   after the other.

   A definition X_Y is a faulty variant of X. *)
EXTENDS Integers, SequencesExt

CONSTANTS
    Trees,          \* projects as a snapshot freezes them: sequences of files
    PackPolicies,
    MaxEdits,       \* edits of a project while it is packed or run
    Nothing         \* no pack yet, or no reason

Classes == {"excluded", "binary", "secret", "text"}
\* Why a pack holds no match, and why there is none.
Reasons == {"no_match", "no_admitted_text", "budget_exhausted",
            "source_drift", "malformed", "credential"}

ASSUME LocalizationAssumption ==
    /\ \A t \in Trees :
            /\ t \in Seq(ToSet(t))
            /\ \A i \in DOMAIN t :
                    /\ t[i].class \in Classes /\ t[i].score \in Nat
                    /\ t[i].ends \in Seq(Nat \ {0})
                    /\ \A k, l \in DOMAIN t[i].ends : k < l => t[i].ends[k] < t[i].ends[l]
                    /\ t[i].bom \in {0, 3} /\ \A k \in DOMAIN t[i].ends : t[i].bom <= t[i].ends[k]
                    /\ t[i].hits \subseteq DOMAIN t[i].ends
                    /\ (t[i].inside \cup t[i].seams) \cap ToSet(t[i].ends) = {}
    /\ \A p \in PackPolicies :    \* validateContextPackPolicy
            /\ {p.files, p.excerpts, p.total, p.file, p.source} \subseteq Nat \ {0}
            /\ p.file <= p.total
    /\ MaxEdits \in Nat
    /\ Nothing \notin Reasons

VARIABLES
    tree, packPolicy,
    edited,         \* the files of the project that differ from the tree
    edits,
    packPc, next,   \* where buildContextPack is, and the next file it reads
    candidates,     \* the files it may select, and whether it read them as frozen
    pack,
    packRefusal     \* why it failed

packVars == <<tree, packPolicy, edited, edits, packPc, next, candidates, pack, packRefusal>>

-----------------------------------------------------------------------------
(* matchedExcerptRanges *)

\* Offsets are counted in the decoded text, without the byte-order mark, and used in the bytes.
LineEnd(f, line) == f.ends[line] - f.bom
StartOf(f, line) == IF line = 1 THEN 0 ELSE LineEnd(f, line - 1)

\* A line that mentions the task, with the line before and the line after it.
Around(f, line) ==
    [start |-> StartOf(f, Max({1, line - 1})), end |-> LineEnd(f, Min({Len(f.ends), line + 1}))]

Merge(merged, range) ==
    IF merged # <<>> /\ range.start <= Last(merged).end
    THEN ReplaceAt(merged, Len(merged), [Last(merged) EXCEPT !.end = Max({@, range.end})])
    ELSE Append(merged, range)

FirstLines(f) == [start |-> 0, end |-> LineEnd(f, Min({Len(f.ends), 3}))]

\* The ranges up to a line, those that touch joined.
Merged(f) ==
    LET merged[line \in 0 .. Len(f.ends)] ==
            IF line = 0 THEN <<>>
            ELSE IF line \in f.hits THEN Merge(merged[line - 1], Around(f, line))
            ELSE merged[line - 1]
    IN  merged

MatchedExcerptRanges(f, fallback) ==
    IF fallback THEN <<FirstLines(f)>> ELSE Merged(f)[Len(f.ends)]

-----------------------------------------------------------------------------
(* buildExcerpts *)

\* The longest whole characters of a range that fit; none, if it starts inside of one.
SafeUtf8Prefix(f, range, available) ==
    Max({range.start} \cup
        {end \in range.start + 1 .. Min({range.end, range.start + available}) :
            {range.start, end} \cap f.inside = {}})

\* Room is what the budgets leave: excerpts, bytes of the pack, bytes of the file.
NextEnd(f, built, range) ==
    SafeUtf8Prefix(f, range, Min({built.total, packPolicy.file - built.bytes}))

NoRoom(f, most, built, range) ==
    Len(built.taken) >= most \/ built.excerpts = 0 \/ NextEnd(f, built, range) = range.start

Extend(f, built, range) ==
    LET end == NextEnd(f, built, range)
    IN  [built EXCEPT !.taken = Append(@, [start |-> range.start, end |-> end]),
                      !.bytes = @ + end - range.start, !.total = @ - (end - range.start),
                      !.excerpts = @ - 1, !.truncated = @ \/ end < range.end]

\* Running out of room is not reported, only an excerpt cut short.
AddExcerpt_Silent(f, most, built, range) ==
    IF built.stopped THEN built
    ELSE IF NoRoom(f, most, built, range) THEN [built EXCEPT !.stopped = TRUE]
    ELSE Extend(f, built, range)

AddExcerpt(f, most, built, range) ==
    IF built.stopped THEN built
    ELSE IF NoRoom(f, most, built, range)
    THEN [built EXCEPT !.stopped = TRUE, !.truncated = TRUE]
    ELSE Extend(f, built, range)

\* The ranges of a file are taken in order until there is no room; one may be cut short.
Built(f, ranges, remaining, most) ==
    LET built[k \in 0 .. Len(ranges)] ==
            IF k = 0
            THEN [taken |-> <<>>, bytes |-> 0, total |-> remaining.total,
                  excerpts |-> remaining.excerpts, truncated |-> FALSE, stopped |-> FALSE]
            ELSE AddExcerpt(f, most, built[k - 1], ranges[k])
    IN  built

BuildExcerpts(f, fallback, remaining, most) ==
    LET ranges == MatchedExcerptRanges(f, fallback)
    IN  Built(f, ranges, remaining, most)[Len(ranges)]

-----------------------------------------------------------------------------
(* buildContextPack *)

Files == DOMAIN tree
Size(f) == IF f.ends = <<>> THEN 0 ELSE Last(f.ends)

\* Left out by what the snapshot says of it, without being read.
Unread(f) == f.class = "excluded" \/ Size(f) > packPolicy.source
\* Left out by its bytes.
Unusable(f) == Size(f) = 0 \/ f.class \in {"binary", "secret"}

ScanFile ==
    /\ packPc = "scan" /\ next \in Files
    /\ LET f == tree[next]
           drift == ~Unread(f) /\ next \in edited
       IN  /\ packPc' = IF drift THEN "refused" ELSE "scan"
           /\ packRefusal' = IF drift THEN "source_drift" ELSE Nothing
           /\ candidates' = IF Unread(f) \/ Unusable(f) \/ drift THEN candidates
                            ELSE candidates \cup {[file |-> next, frozen |-> next \notin edited]}
    /\ next' = next + 1
    /\ UNCHANGED <<tree, packPolicy, edited, edits, pack>>

Admitted == {c.file : c \in candidates}
Matches  == {i \in Admitted : tree[i].score > 0}
Fallback == Matches = {}

Wanted   == IF Fallback THEN Admitted ELSE Matches

\* The best score first, then the order of paths; without a match, no file scores.
Best(files) ==
    CHOOSE i \in files : \A j \in files \ {i} :
        \/ tree[i].score > tree[j].score
        \/ tree[i].score = tree[j].score /\ i < j

Limit == Min({Cardinality(Wanted), packPolicy.files})
Share == Max({1, packPolicy.excerpts \div Max({1, Limit})})

\* The next file takes its excerpts from what is left of the budgets.
Take(acc) ==
    LET i     == Best(acc.rest)
        built == BuildExcerpts(tree[i], Fallback, acc, Share)
    IN  [rest    |-> acc.rest \ {i}, entries  |-> [acc.entries EXCEPT ![i] = built.taken],
         total   |-> built.total,    excerpts |-> built.excerpts,
         truncated |-> acc.truncated \/ built.truncated]

Turns ==
    LET turn[k \in 0 .. Limit] ==
            IF k = 0
            THEN [rest |-> Wanted, entries |-> [i \in Files |-> <<>>], total |-> packPolicy.total,
                  excerpts |-> packPolicy.excerpts,
                  truncated |-> Cardinality(Wanted) > packPolicy.files]
            ELSE Take(turn[k - 1])
    IN  turn

Selection == Turns[Limit]

\* A file without an excerpt is not selected.
Selected(entries) == {i \in Files : entries[i] # <<>>}

Status(entries) ==
    IF Selected(entries) = {} THEN "empty" ELSE IF Fallback THEN "fallback" ELSE "matched"

FallbackReason(entries) ==
    IF Selected(entries) = {}
    THEN IF candidates = {} THEN "no_admitted_text" ELSE "budget_exhausted"
    ELSE IF Fallback THEN "no_match" ELSE Nothing

Sums(n, value) ==
    LET sum[k \in 0 .. n] == IF k = 0 THEN 0 ELSE sum[k - 1] + value[k]
    IN  sum

SumTo(n, value) == Sums(n, value)[n]

BytesOf(excerpts) ==
    SumTo(Len(excerpts), [k \in DOMAIN excerpts |-> excerpts[k].end - excerpts[k].start])

TotalExcerpts(entries) == SumTo(Len(tree), [i \in Files |-> Len(entries[i])])
TotalBytes(entries)    == SumTo(Len(tree), [i \in Files |-> BytesOf(entries[i])])

BuiltPack ==
    LET entries == Selection.entries
    IN  [status         |-> Status(entries),
         reason         |-> FallbackReason(entries),
         truncated      |-> Selection.truncated \/ Cardinality(Selected(entries)) < Limit,
         entries        |-> entries,
         total_excerpts |-> TotalExcerpts(entries),
         total_bytes    |-> TotalBytes(entries)]

Select ==
    /\ packPc = "scan" /\ next \notin Files
    /\ pack' = BuiltPack
    /\ packPc' = "validate"
    /\ UNCHANGED <<tree, packPolicy, edited, edits, next, candidates, packRefusal>>

-----------------------------------------------------------------------------
(* validateContextPack *)

CredentialLike(f, excerpt) == excerpt.end \in f.seams

ValidExcerpts(f, excerpts) ==
    /\ f.class # "excluded"
    /\ \A k \in DOMAIN excerpts :
            /\ excerpts[k].start < excerpts[k].end
            /\ {excerpts[k].start, excerpts[k].end} \cap f.inside = {}
            /\ k > 1 => excerpts[k - 1].end <= excerpts[k].start
    /\ BytesOf(excerpts) <= packPolicy.file

WellFormed(p) ==
    /\ Cardinality(Selected(p.entries)) <= packPolicy.files
    /\ p.total_excerpts = TotalExcerpts(p.entries) /\ p.total_bytes = TotalBytes(p.entries)
    /\ p.total_excerpts <= packPolicy.excerpts /\ p.total_bytes <= packPolicy.total
    /\ \A i \in Selected(p.entries) : ValidExcerpts(tree[i], p.entries[i])
    /\ (p.status = "matched") = (p.reason = Nothing)
    /\ (p.status = "empty") = (Selected(p.entries) = {})

Validate ==
    /\ packPc = "validate"
    /\ packRefusal' =
            IF ~WellFormed(pack) THEN "malformed"
            ELSE IF \E i \in Files : \E k \in DOMAIN pack.entries[i] :
                        CredentialLike(tree[i], pack.entries[i][k])
            THEN "credential" ELSE Nothing
    /\ packPc' = IF packRefusal' = Nothing THEN "packed" ELSE "refused"
    /\ UNCHANGED <<tree, packPolicy, edited, edits, next, candidates, pack>>

-----------------------------------------------------------------------------

\* The user changes a file of the project, or puts its frozen bytes back.
EditFile(i) ==
    /\ edits < MaxEdits /\ edits' = edits + 1
    /\ edited' = IF i \in edited THEN edited \ {i} ELSE edited \cup {i}
    /\ UNCHANGED <<tree, packPolicy, packPc, next, candidates, pack, packRefusal>>

PackInit ==
    /\ tree \in Trees /\ packPolicy \in PackPolicies
    /\ edited = {} /\ edits = 0
    /\ packPc = "scan" /\ next = 1 /\ candidates = {}
    /\ pack = Nothing /\ packRefusal = Nothing

-----------------------------------------------------------------------------
(* Properties *)

\* A pack holds bytes of the frozen project only, though files change while it is built.
PackIsOfSnapshot == \A c \in candidates : c.frozen

\* The bytes of consecutive lines of a file.
Lines(f, from, to) ==
    [start |-> IF from = 1 THEN 0 ELSE f.ends[from - 1], end |-> f.ends[to]]

\* What the task asks for of a file: each line that mentions it with the lines next to it, or,
\* when no file matches, the first three lines.
Asked(f) ==
    LET last == Len(f.ends)
    IN  IF Fallback THEN {Lines(f, 1, Min({3, last}))}
        ELSE {Lines(f, Max({1, h - 1}), Min({last, h + 1})) : h \in f.hits}

\* What takes its place in a file with a byte-order mark: as many bytes earlier as that has.
Moved(f, lines) ==
    [start |-> Max({0, lines.start - f.bom}), end |-> lines.end - f.bom]

\* Every file that is wanted is in the pack, and each thing asked for of it in one excerpt;
\* short of its last three bytes in a file with a byte-order mark.
Complete ==
    \A i \in Wanted :
        /\ pack.entries[i] # <<>>
        /\ \A lines \in Asked(tree[i]) :
                \E k \in DOMAIN pack.entries[i] :
                    /\ pack.entries[i][k].start <= Moved(tree[i], lines).start
                    /\ Moved(tree[i], lines).end <= pack.entries[i][k].end

\* A pack says that it was cut exactly when something the task asks for is missing from it
\* (a file that matches by its path alone counts as missing; the last three bytes of what is
\* asked for of a file with a byte-order mark are missing and not reported). What the builder
\* makes passes its own validator, except where a line that was cut, by a budget or by the
\* length of a byte-order mark, reads like a credential. And a pack holds bytes of the frozen
\* project only.
PackIsHonest ==
    /\ PackIsOfSnapshot
    /\ packPc = "packed" => (pack.truncated <=> ~Complete)
    /\ packRefusal # "malformed"
    /\ packRefusal = "credential" =>
            pack.truncated \/ \E i \in Selected(pack.entries) : tree[i].bom # 0

=============================================================================
