----------------------------- MODULE RuleEngine -----------------------------
(***************************************************************************)
(* Rule evaluation and scheduling, src/rule_engine.py, for the rules of    *)
(* configs/rules.json.  A rule joins the events of the window that have    *)
(* its type and role with the values of a slot of the event's zone, and    *)
(* each distinct binding becomes one action.                               *)
(***************************************************************************)
EXTENDS Schedule, HvacProfile

(* The role and the parameter of an event follow from its type; eid is the  *)
(* event identifier, numbered in the order of the identifiers.              *)
EventRole ==
    [OccupantSetpointRequest |-> "occupant", OccupancyDetected |-> "occupant",
     DemandResponsePeak |-> "operator", CO2Spike |-> "operator",
     PreheatRequest |-> "operator", EmergencyAlarm |-> "emergency"]

(* The events of a window: an identifier names one of them, numbers have at *)
(* most two digits, an alarm is on or off.                                  *)
EventRecords(E) ==
    /\ IsFiniteSet(E)
    /\ \A e, f \in E : e.eid = f.eid => e = f
    /\ \A e \in E :
         /\ e.eid \in Int /\ e.ts \in Int /\ e.arg \in -99..99
         /\ e.zone \in Zones /\ e.type \in DOMAIN EventRole
         /\ e.type = "EmergencyAlarm" => e.arg \in {0, 1}

(* match: the slot the state pattern requires; binds: whether its value is  *)
(* a selected variable; value: the value expression.                        *)
Rule(rid, priority, type, match, binds, target, value) ==
    [rid |-> rid, priority |-> priority, type |-> type, role |-> EventRole[type],
     match |-> match, binds |-> binds, target |-> target, value |-> value]

Rules ==
    { Rule(1, 2, "OccupantSetpointRequest", "setpoint", TRUE, "setpoint", "add_arg"),
      Rule(2, 1, "DemandResponsePeak", "setpoint", TRUE, "setpoint", "copy_arg"),
      Rule(3, 1, "CO2Spike", "vent", FALSE, "vent", "copy_arg"),
      Rule(4, 2, "OccupancyDetected", "setpoint", TRUE, "setpoint", "add_one"),
      Rule(5, 1, "EmergencyAlarm", "emergency", FALSE, "emergency", "copy_arg"),
      Rule(6, 0, "EmergencyAlarm", "vent", FALSE, "vent", "emergency_mode"),
      Rule(7, 1, "PreheatRequest", "setpoint", TRUE, "setpoint", "copy_arg"),
      Rule(8, 1, "DemandResponsePeak", "vent", FALSE, "vent", "off_mode") }

(* ex:occupied of the zones, which no rule writes; only r4 asks for it. *)
Occupied == [A |-> TRUE, B |-> FALSE]

RolePrecedence == [emergency |-> 0, operator |-> 1, occupant |-> 2]

-----------------------------------------------------------------------------
(* The values the rule's query selects for an event: one row per value of   *)
(* the matched slot, rows that differ only in an unselected value collapse  *)
(* in the deduplication by identity.                                        *)
Rows(g, r, e) ==
    LET found == g[<<e.zone, r.match>>] IN
    IF e.type # r.type \/ (r.rid = 4 /\ Occupied[e.zone]) THEN {}
    ELSE IF r.binds THEN found
    ELSE {0 : v \in found}

BuildActionValue(r, row, e) ==
    CASE r.value = "add_arg" -> row + e.arg
      [] r.value = "copy_arg" -> e.arg
      [] r.value = "add_one" -> row + 1
      [] r.value = "emergency_mode" -> Emergency
      [] r.value = "off_mode" -> Off

(* canonical_binding as the schedule compares it: the selected variables in *)
(* the order of their names, so the argument of rules r1 (delta) and r2     *)
(* (cap) precedes the event identifier, and every other argument follows it *)
(* and decides nothing.                                                     *)
BindKey(r, row, e) ==
    (IF r.rid \in {1, 2} THEN Text(e.arg) ELSE Text(0)) \o <<e.eid>> \o Text(row)

(* create_action.  The identity of an action is its rule, its binding and   *)
(* the window, which is the step's.                                         *)
CreateAction(r, row, e) ==
    [rid |-> r.rid, priority |-> r.priority, role |-> r.role,
     roleRank |-> RolePrecedence[r.role], ts |-> e.ts, bind |-> BindKey(r, row, e),
     slot |-> <<e.zone, r.target>>, value |-> BuildActionValue(r, row, e)]

EvaluateRules(g, events) ==
    UNION { UNION { {CreateAction(r, row, e) : row \in Rows(g, r, e)} :
            r \in Rules } : e \in events }

-----------------------------------------------------------------------------
(* resolve_governance_context, for the contexts of data/contexts.json. *)
ActiveRoles ==
    LET roles == DOMAIN RolePrecedence IN
    [default |-> roles,
     occupant_inactive |-> roles \ {"occupant"},
     operator_inactive |-> roles \ {"operator"}]
=============================================================================
