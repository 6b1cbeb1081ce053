-------------------------- MODULE MCRunController --------------------------
(* Two overlapping windows; a, b and x flip the state, c leaves it alone, so *)
(* that a step may return to an earlier graph, and an event applied twice   *)
(* shows; x repeats the identifier of a with other contents.                *)
EXTENDS RunController, FiniteSets

MCGraphs == 0..1
MCWindows == 1..2
MCEidOf == [r \in Records |-> IF r = "x" THEN "a" ELSE r]
MCCovers == [w \in MCWindows |-> IF w = 1 THEN Records \cap {"a", "c"} ELSE Records]

MCEngine == [p \in MCGraphs \X SUBSET Records |-> (p[1] + Cardinality(p[2] \ {"c"})) % 2]
=============================================================================
