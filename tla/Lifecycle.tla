----------------------------- MODULE Lifecycle -----------------------------
(* The lifecycle of a run (src/core/lifecycle.js, src/contracts/run-state.js).

   A run state is abstracted to its lifecycle and to whether it carries a
   receipt hash and an approval hash: the frozen hashes never change, so the
   immutable fields of the code are constants of the models that use this
   module. *)

LifecycleStates ==
    {"draft", "planned", "executing", "verified", "receipted",
     "approved", "applied", "rolled_back", "rejected"}

\* LIFECYCLE_TRANSITIONS: where each state may go next.
Transitions ==
    [draft       |-> {"planned", "rejected"},
     planned     |-> {"executing", "rejected"},
     executing   |-> {"verified", "rejected", "rolled_back"},
     verified    |-> {"receipted", "rejected"},
     receipted   |-> {"approved", "rejected"},
     approved    |-> {"applied", "rolled_back", "rejected"},
     applied     |-> {},
     rolled_back |-> {},
     rejected    |-> {}]

Terminal == {s \in LifecycleStates : Transitions[s] = {}}

=============================================================================
