------------------------------ MODULE Resolver ------------------------------
(***************************************************************************)
(* Resolution of a schedule of actions against a state graph,              *)
(* src/resolver.py: the actions are taken in order, each passes four gates *)
(* (role, policy, conflict, admissibility) or is rejected with the reason  *)
(* of the first that fails, and an accepted action rewrites its slot.      *)
(*                                                                         *)
(* A graph is the values of each slot (subject and predicate); a slot with *)
(* no value or with several is a state the shapes reject and a run may     *)
(* start from.  What the shapes and the policy say is left to the instance.*)
(***************************************************************************)
EXTENDS Naturals, Sequences

CONSTANTS Slots,            \* the target keys: subject and predicate
          Values,           \* the values a slot may hold
          Actions,          \* records with at least slot, value and role
          Roles,
          Admissible(_),    \* the validation regime's verdict on a graph
          PolicyOK(_, _),   \* the policy guard on a graph and an action
          Inputs            \* the graphs, schedules and active roles of a call

Graph == [Slots -> SUBSET Values]

Input == [graph : Graph, schedule : Seq(Actions), active : SUBSET Roles]

ASSUME ResolverConstants ==
    /\ \A a \in Actions : a.slot \in Slots /\ a.value \in Values /\ a.role \in Roles
    /\ \A in \in Inputs : in \in Input

VARIABLES input,        \* the arguments of the call
          current,      \* current_graph
          accepted,     \* schedule indexes of the accepted actions
          winner,       \* accepted_targets: slot -> index of its accepted action, 0 if none
          decisions     \* the decision recorded for each action taken so far

resolverVars == <<input, current, accepted, winner, decisions>>

Reasons == {"inactive_role", "policy", "shadowed", "inadmissible", "admissible"}

Decision == [reason : Reasons, pre : Graph, post : Graph, blockedBy : Nat]

TypeOK ==
    /\ input \in Input
    /\ current \in Graph
    /\ accepted \subseteq 1..Len(decisions)
    /\ winner \in [Slots -> 0..Len(decisions)]
    /\ decisions \in Seq(Decision)
    /\ Len(decisions) <= Len(input.schedule)

(* apply_action: every value of the slot is removed and the new one added. *)
Apply(g, a) == [g EXCEPT ![a.slot] = {a.value}]

Init ==
    /\ input \in Inputs
    /\ current = input.graph
    /\ accepted = {}
    /\ winner = [s \in Slots |-> 0]
    /\ decisions = <<>>

-----------------------------------------------------------------------------
Turn == Len(decisions) + 1

Pending == Turn <= Len(input.schedule)

Action == input.schedule[Turn]

RoleActive == Action.role \in input.active

(* Mutant: the conflict gate is missing. *)
ShadowedNever == FALSE

Shadowed == winner[Action.slot] # 0

Decide(reason, g, blockedBy) ==
    decisions' = Append(decisions, [reason |-> reason, pre |-> current, post |-> g,
                                    blockedBy |-> blockedBy])

Reject(reason, blockedBy) ==
    /\ Decide(reason, current, blockedBy)
    /\ UNCHANGED <<input, current, accepted, winner>>

(* The gates, in the order of the code. *)
RejectRole ==
    /\ Pending /\ ~RoleActive
    /\ Reject("inactive_role", 0)

RejectPolicy ==
    /\ Pending /\ RoleActive
    /\ ~PolicyOK(current, Action)
    /\ Reject("policy", 0)

RejectShadowed ==
    /\ Pending /\ RoleActive /\ PolicyOK(current, Action)
    /\ Shadowed
    /\ Reject("shadowed", winner[Action.slot])

RejectInadmissible ==
    /\ Pending /\ RoleActive /\ PolicyOK(current, Action) /\ ~Shadowed
    /\ ~Admissible(Apply(current, Action))
    /\ Reject("inadmissible", 0)

(* Mutants: the graph is validated before the write; the candidate is built *)
(* from the input graph.                                                    *)
AcceptValidatesBefore ==
    /\ Pending /\ RoleActive /\ PolicyOK(current, Action) /\ ~Shadowed
    /\ Admissible(current)
    /\ current' = Apply(current, Action)
    /\ accepted' = accepted \cup {Turn}
    /\ winner' = [winner EXCEPT ![Action.slot] = Turn]
    /\ Decide("admissible", Apply(current, Action), 0)
    /\ UNCHANGED input

AcceptFromInput ==
    /\ Pending /\ RoleActive /\ PolicyOK(current, Action) /\ ~Shadowed
    /\ Admissible(Apply(current, Action))
    /\ current' = Apply(input.graph, Action)
    /\ accepted' = accepted \cup {Turn}
    /\ winner' = [winner EXCEPT ![Action.slot] = Turn]
    /\ Decide("admissible", Apply(input.graph, Action), 0)
    /\ UNCHANGED input

(* Mutant: the target is not noted as taken. *)
AcceptForgetsTarget ==
    /\ Pending /\ RoleActive /\ PolicyOK(current, Action) /\ ~Shadowed
    /\ Admissible(Apply(current, Action))
    /\ current' = Apply(current, Action)
    /\ accepted' = accepted \cup {Turn}
    /\ Decide("admissible", Apply(current, Action), 0)
    /\ UNCHANGED <<input, winner>>

Accept ==
    /\ Pending /\ RoleActive /\ PolicyOK(current, Action) /\ ~Shadowed
    /\ Admissible(Apply(current, Action))
    /\ current' = Apply(current, Action)
    /\ accepted' = accepted \cup {Turn}
    /\ winner' = [winner EXCEPT ![Action.slot] = Turn]
    /\ Decide("admissible", Apply(current, Action), 0)
    /\ UNCHANGED input

Next == RejectRole \/ RejectPolicy \/ RejectShadowed \/ RejectInadmissible \/ Accept

Spec == Init /\ [][Next]_resolverVars

-----------------------------------------------------------------------------
(* Properties. *)

(* Admissibility is never lost, and a run that starts from a graph the      *)
(* shapes reject is admissible from its first accepted action on.           *)
AdmissibilityKept == Admissible(input.graph) \/ accepted # {} => Admissible(current)

(* The successor is the input with the accepted writes on top: every        *)
(* accepted write is still there, whatever was accepted or undone later,    *)
(* and every other slot is as it was.                                       *)
Overlay(K) ==
    [s \in Slots |->
        IF \E k \in K : input.schedule[k].slot = s
        THEN {input.schedule[k].value : k \in {k \in K : input.schedule[k].slot = s}}
        ELSE input.graph[s]]

SuccessorIsOverlay == current = Overlay(accepted)

(* A value is computed from the input graph before resolution starts; an    *)
(* accepted action replaces the very value its rule read, never one that an *)
(* earlier action of the step has put there.                                *)
NoLostUpdate ==
    \A k \in accepted :
        LET s == input.schedule[k].slot IN decisions[k].pre[s] = input.graph[s]

(* Each decision is the one its own record justifies: given only the        *)
(* actions accepted before it, an action is accepted exactly when it is     *)
(* active, allowed, first on its slot, and keeps the overlay admissible.    *)
DecisionsJustified ==
    \A k \in 1..Len(decisions) :
        LET a       == input.schedule[k]
            earlier == {j \in accepted : j < k}
            before  == Overlay(earlier)
        IN  k \in accepted <=>
                /\ a.role \in input.active
                /\ PolicyOK(before, a)
                /\ \A j \in earlier : input.schedule[j].slot # a.slot
                /\ Admissible(Apply(before, a))
=============================================================================
