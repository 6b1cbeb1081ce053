----------------------------- MODULE CrossCheck -----------------------------
(***************************************************************************)
(* The comparison of the two implementations on one step of the building,  *)
(* src/experiment_cross_implementation.py: the second is given the input   *)
(* graph and the actions of the first without their order.                 *)
(***************************************************************************)
EXTENDS HvacStep

Second == INSTANCE IndependentResolver WITH
    IndependentAdmissible <- HvacAdmissible,
    Domain <- [property |-> "setpoint", minimum |-> MinSetpoint, cap |-> RoleMax]

(* The code compares reason codes up to the first colon; the first          *)
(* implementation's guard is one reason in this development.                *)
ReasonClass(reason) ==
    CASE reason \in {"policy_min_violation", "policy_role_cap_violation"} -> "policy"
      [] reason = "shadowed_by_prior_accepted_action" -> "shadowed"
      [] OTHER -> reason

Compare(result) ==
    /\ result.working = current
    /\ Len(result.decisions) = Len(decisions)
    /\ \A k \in 1..Len(decisions) :
         LET d == result.decisions[k] IN
         /\ d.action = input.schedule[k]
         /\ d.accepted = (k \in accepted)
         /\ ReasonClass(d.reason) = decisions[k].reason
         /\ d.post = decisions[k].post
    /\ result.accepted =
         [i \in 1..Cardinality(accepted) |->
            input.schedule[CHOOSE k \in accepted : Cardinality(accepted \cap 1..k) = i]]

-----------------------------------------------------------------------------
(* The second implementation, given the actions in no order, takes every    *)
(* decision of the first, for the same reason, and passes through the same  *)
(* graphs, also from input graphs the shapes reject.                        *)
ImplementationsAgree ==
    Finished => Compare(Second!Resolve(input.graph, {input.schedule[k] : k \in DOMAIN input.schedule},
                                       input.active))
=============================================================================
