---------------------------- MODULE MCPublication ----------------------------
(* Two exports race for one name, each with one fault and one crash, while the owner moves
   directories; an export is replaced, or its loser fails and crashes, while it is
   signed and verified; and one export whose directory is exchanged and put back again and again. *)
EXTENDS Publication, TLC

CONSTANTS e1, e2, a1, v1

Symmetric == Permutations(Exporters)

MCScenarios ==
    { [parties |-> {e1, e2}, moves |-> 2, faults |-> 1, crashes |-> 1],
      [parties |-> {e1, a1}, moves |-> 2, faults |-> 1, crashes |-> 1],
      [parties |-> {e1, e2, a1, v1}, moves |-> 2, faults |-> 0, crashes |-> 0],
      [parties |-> {e1, e2, a1, v1}, moves |-> 0, faults |-> 1, crashes |-> 1],
      [parties |-> {e1}, moves |-> 8, faults |-> 0, crashes |-> 0] }

=============================================================================
