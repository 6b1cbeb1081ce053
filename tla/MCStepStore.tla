---------------------------- MODULE MCStepStore ----------------------------
(* Two graphs and two windows give four step identifiers, enough for a      *)
(* chain that returns to a graph it has left and meets each window again.   *)
EXTENDS StepStore

CONSTANT g1

(* Arguments of a caller: traces that embed the two graphs, rightly or      *)
(* wrongly, and bare traces (as an empty run writes them) from one graph.   *)
MCSubmissions ==
    {s \in Submission :
        \/ s.ledger # None /\ s.inputGraph # None /\ s.successorGraph # None
        \/ /\ s.ledger = None /\ s.inputGraph = None /\ s.successorGraph = None
           /\ s.input = s.graph /\ s.input = g1}
=============================================================================
