------------------------------- MODULE Orders -------------------------------
(***************************************************************************)
(* Whole resolutions as functions, for the experiments that resolve one    *)
(* input under many orders, with the gates of Resolver or without any.     *)
(***************************************************************************)
EXTENDS Resolver, SequencesExt

(* Every outcome of shuffling a schedule. *)
Shuffles(schedule) ==
    {[i \in DOMAIN schedule |-> schedule[p[i]]] : p \in SetToSeqs(DOMAIN schedule)}

(* The order is taken with some of the gates of the resolver: the successor *)
(* and the actions taken.                                                   *)
Passes(gates, st, a, active) ==
    /\ "role" \in gates => a.role \in active
    /\ "policy" \in gates => PolicyOK(st.graph, a)
    /\ "conflict" \in gates => \A b \in ToSet(st.taken) : b.slot # a.slot
    /\ "shapes" \in gates => Admissible(Apply(st.graph, a))

Gated(gates, g, order, active) ==
    LET Gate(st, a) ==
            IF Passes(gates, st, a, active)
            THEN [graph |-> Apply(st.graph, a), taken |-> Append(st.taken, a)]
            ELSE st
    IN  FoldLeft(Gate, [graph |-> g, taken |-> <<>>], order)

(* resolve_actions on a given order, and what is left of it without gates.  *)
FourGates(g, order, active) == Gated({"role", "policy", "conflict", "shapes"}, g, order, active)

NoGates(g, order) == Gated({}, g, order, {}).graph

Ungated(g, schedule) == {NoGates(g, order) : order \in Shuffles(schedule)}
=============================================================================
