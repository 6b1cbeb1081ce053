------------------------- MODULE MCStepStoreDamage -------------------------
(* The calls a run makes: the trace embeds both graphs, and only g1 has     *)
(* steps that change nothing.                                               *)
EXTENDS StepStoreDamage, TLC

CONSTANT g1

MCSubmissions ==
    {s \in Submission :
        /\ s.inputGraph = s.input /\ s.successorGraph = s.graph /\ s.ledger # None
        /\ s.graph = s.input => s.input = g1}

(* One file damaged in any way but a shortcut; two files damaged in ways    *)
(* that change what readers are given, or a shortcut and such a file.       *)
MCScenarios ==
    { [kinds |-> AllKinds \ ShortcutKinds, files |-> 1],
      [kinds |-> ShortcutKinds \cup {"altered-state", "altered-digest", "altered-input",
                                     "hollow-snapshot", "wrong-link"}, files |-> 2] }

MCCutLink == { [kinds |-> {"cut-link"}, files |-> 1] }

MCSkipLink == { [kinds |-> {"skip-link"}, files |-> 1] }

(* Windows are told apart by their identity alone. *)
WindowSymmetry == Permutations(Windows)
=============================================================================
