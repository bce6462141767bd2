---------------------------- MODULE MCRoutedRun ----------------------------
(* Projects of up to three files, small budgets, two routes, three states of a machine. *)
EXTENDS RoutedRun

CONSTANTS c1, c2, v1, v2

Symmetric == Permutations({c1, c2}) \cup Permutations({v1, v2})

Text(score, ends, hits) ==
    [class |-> "text", score |-> score, ends |-> ends, hits |-> hits, inside |-> {}, seams |-> {},
     bom |-> 0]
Other(class, ends) == [Text(0, ends, {}) EXCEPT !.class = class]

\* Lines of two bytes; the middle of five, both ends of six, all, or none mention the task.
Five(score) == Text(score, <<2, 4, 6, 8, 10>>, {3})
Six(score)  == Text(score, <<2, 4, 6, 8, 10, 12>>, {1, 6})
Wide(score) == [Text(score, <<2, 4>>, {1}) EXCEPT !.inside = {1, 3}]
Seam(score) == [Text(score, <<4>>, {1}) EXCEPT !.seams = {3}]

\* Files that start with a byte-order mark. With a first line of two bytes, what is asked for of
\* the third line starts inside the mark.
Marked(ends, hits) == [Text(2, ends, hits) EXCEPT !.bom = 3, !.inside = {1, 2}]
Long  == Marked(<<7, 9, 11, 13, 15>>, {3})
Short == Marked(<<5, 7, 9, 11, 13>>, {3})
Bare  == [Marked(<<3>>, {}) EXCEPT !.score = 0]

MCTrees ==
    { <<Five(2), Six(8)>>,
      <<Six(2), Wide(2), Text(8, <<2>>, {})>>,
      <<Other("excluded", <<2>>), Seam(2)>>,
      <<Other("binary", <<2>>), Other("secret", <<2>>), Other("text", <<>>)>>,
      <<Other("text", <<1, 2, 3, 4>>), Other("text", <<1>>)>>,
      <<Other("text", <<20>>), Wide(0), Wide(6)>>,
      <<Long, Short>>,
      <<[Long EXCEPT !.seams = {10}]>>,
      <<Bare, [Long EXCEPT !.score = 0, !.hits = {}]>> }

MCPackPolicies ==
    { [files |-> 3, excerpts |-> 6, total |-> 30, file |-> 15, source |-> 15],
      [files |-> 1, excerpts |-> 2, total |-> 9, file |-> 9, source |-> 15],
      [files |-> 2, excerpts |-> 3, total |-> 13, file |-> 7, source |-> 15],
      [files |-> 3, excerpts |-> 4, total |-> 3, file |-> 3, source |-> 15] }

Route(max_context, tiers, adapter) ==
    [reason |-> "initial", max_context |-> max_context, max_paths |-> Nothing, tiers |-> tiers,
     adapter |-> adapter, model |-> "m1"]

MCRequests ==
    { [policy |-> <<Route(5, {"low"}, "small"), Route(Nothing, Nothing, "large")>>,
       reason |-> "initial", paths |-> 1, tier |-> t] : t \in {"low", "high"} }
    \cup
    { [policy |-> <<[Route(10, Nothing, "small") EXCEPT !.max_paths = 1],
                    [Route(Nothing, Nothing, "large") EXCEPT !.reason = "retry"]>>,
       reason |-> "initial", paths |-> p, tier |-> "low"] : p \in {1, 2} }

Adapter(kind) == [kind |-> kind, models |-> {"m1"}, usable |-> TRUE]

MCRegistries ==
    { [a \in {"small", "large"} |-> Adapter("codex-cli")],
      [a \in {"small", "large"} |-> Adapter("deterministic")],
      [a \in {"large"} |-> [Adapter("codex-cli") EXCEPT !.models = {"m1", "m2"}]] }

=============================================================================
