----------------------------- MODULE EvProfile -----------------------------
(***************************************************************************)
(* The charging profile, ev/experiment_ev.py: the shapes of                *)
(* ev/shapes/invariants_ev.ttl, the policy guard and the rules of          *)
(* ev/data/rules_ev.json.  Unlike the building's, two shapes couple        *)
(* targets: the sum of the powers against the feeder budget, and the       *)
(* feeder state against every power.                                       *)
(***************************************************************************)
EXTENDS Schedule, FiniteSetsExt

CONSTANT ChargingPoints     \* numbered in the order of their names

Feeder == 0

ASSUME ChargingConstants == IsFiniteSet(ChargingPoints) /\ ChargingPoints \subseteq Nat \ {Feeder}

EvSlots == (ChargingPoints \X {"power", "connector"}) \cup {<<Feeder, "state">>}

(* Every value is an integer: a power in kW, a connector state in the order *)
(* of its enumeration, a feeder state as 0 or 1.                            *)
Free == 0
Plugged == 1                \* "occupied"
Charging == 2
OutOfService == 3
Uncurtailed == 0            \* "normal"
Curtailed == 1

Power(g, cp) == g[<<cp, "power">>]
Connector(g, cp) == g[<<cp, "connector">>]
FeederState(g) == g[<<Feeder, "state">>]

-----------------------------------------------------------------------------
(* The shapes. *)
FeederBudget == 50
CurtailedPower == 5
MaxPower == 22

ChargingPowerShape(g, cp) ==
    /\ Cardinality(Power(g, cp)) = 1
    /\ Power(g, cp) \subseteq 0..MaxPower

ConnectorStateShape(g, cp) ==
    /\ Cardinality(Connector(g, cp)) = 1
    /\ Connector(g, cp) \subseteq {Free, Plugged, Charging, OutOfService}

(* Mutant: a free point may draw power. *)
CoherenceOutOfServiceOnly(g, cp) ==
    \A c \in Connector(g, cp), p \in Power(g, cp) : c = OutOfService => p = 0

ConnectorPowerCoherenceShape(g, cp) ==
    \A c \in Connector(g, cp), p \in Power(g, cp) :
        /\ c = OutOfService => p = 0
        /\ p > 0 => c \in {Plugged, Charging}

FeederStateShape(g) ==
    /\ Cardinality(FeederState(g)) = 1
    /\ FeederState(g) \subseteq {Uncurtailed, Curtailed}

(* The sum is over the powers stated, so over every one of a point that has *)
(* several.                                                                 *)
TotalPower(g) ==
    MapThenSumSet(LAMBDA cp : SumSet(Power(g, cp)), ChargingPoints)

FeederBudgetShape(g) == TotalPower(g) <= FeederBudget

CurtailmentConsistencyShape(g) ==
    Curtailed \in FeederState(g) =>
        \A cp \in ChargingPoints : \A p \in Power(g, cp) : p <= CurtailedPower

EvAdmissible(g) ==
    /\ \A cp \in ChargingPoints :
         /\ ChargingPowerShape(g, cp)
         /\ ConnectorStateShape(g, cp)
         /\ ConnectorPowerCoherenceShape(g, cp)
    /\ FeederStateShape(g)
    /\ FeederBudgetShape(g)
    /\ CurtailmentConsistencyShape(g)

-----------------------------------------------------------------------------
(* The policy node, which no rule writes, and the guard on power commands. *)
MinPower == 0
RoleMaxPower == [safety |-> 0, grid |-> 22, fleet |-> 22, driver |-> 22]

EvPolicyOK(g, a) ==
    a.slot[2] = "power" => a.value \in MinPower..RoleMaxPower[a.role]

-----------------------------------------------------------------------------
(* The rules.  An event names a charging point; a grid emergency names the  *)
(* feeder, and one of its rules applies to every point above 5 kW.  The     *)
(* state pattern asks for some value of the matched slot, which no rule     *)
(* selects, so a point with several values gives one row.  q1 to q3 copy    *)
(* the argument of the event; the others state their value.                 *)
EvEventRole ==
    [ChargeRequest |-> "driver", PlugIn |-> "driver",
     FleetSchedule |-> "fleet", DepartureSoon |-> "fleet",
     CapacitySignal |-> "grid", GridEmergency |-> "grid",
     FaultDetected |-> "safety"]

(* The events of a window: an identifier names one of them, numbers have at *)
(* most two digits.                                                         *)
EvEventRecords(E) ==
    /\ IsFiniteSet(E)
    /\ \A e, f \in E : e.eid = f.eid => e = f
    /\ \A e \in E :
         /\ e.eid \in Int /\ e.ts \in Int /\ e.arg \in -99..99
         /\ e.type \in DOMAIN EvEventRole
         /\ e.cp \in IF e.type = "GridEmergency" THEN {Feeder} ELSE ChargingPoints

(* Mutant: the rules of one event are not ordered among themselves. *)
EvRuleUnordered(rid, priority, type, slot, value) ==
    [rid |-> rid, priority |-> 1, type |-> type, role |-> EvEventRole[type],
     slot |-> slot, value |-> value]

EvRule(rid, priority, type, slot, value) ==
    [rid |-> rid, priority |-> priority, type |-> type, role |-> EvEventRole[type],
     slot |-> slot, value |-> value]

EvRules ==
    { EvRule(1, 1, "ChargeRequest", "power", 0),
      EvRule(2, 1, "FleetSchedule", "power", 0),
      EvRule(3, 2, "CapacitySignal", "power", 0),
      EvRule(4, 1, "GridEmergency", "state", Curtailed),
      EvRule(5, 0, "GridEmergency", "power", CurtailedPower),
      EvRule(6, 0, "PlugIn", "connector", Plugged),
      EvRule(7, 1, "DepartureSoon", "power", MaxPower),
      EvRule(8, 1, "FaultDetected", "connector", OutOfService),
      EvRule(9, 0, "FaultDetected", "power", 0) }

(* The subjects the rule's query binds for an event. *)
Subjects(g, r, e) ==
    IF r.type # e.type THEN {} ELSE
    CASE r.rid = 4 -> {f \in {Feeder} : FeederState(g) # {}}
      [] r.rid = 5 -> {cp \in ChargingPoints :
                          \E p \in Power(g, cp) : p > CurtailedPower}
      [] r.rid = 6 -> {cp \in {e.cp} : Free \in Connector(g, cp)}
      [] r.rid = 9 -> {cp \in {e.cp} : \E p \in Power(g, cp) : p > 0}
      [] OTHER -> {cp \in {e.cp} : g[<<cp, r.slot>>] # {}}

(* Of the selected variables only cap precedes the charging point. *)
EvBindKey(r, subject, e) ==
    (IF r.rid = 3 THEN Text(e.arg) ELSE Text(0)) \o <<subject, e.eid>>

EvCreateAction(r, subject, e, rank) ==
    [rid |-> r.rid, priority |-> r.priority, role |-> r.role,
     roleRank |-> rank[r.role], ts |-> e.ts, bind |-> EvBindKey(r, subject, e),
     slot |-> <<subject, r.slot>>,
     value |-> IF r.rid \in {1, 2, 3} THEN e.arg ELSE r.value]

EvEvaluateRules(g, events, rank) ==
    UNION { UNION { {EvCreateAction(r, subject, e, rank) : subject \in Subjects(g, r, e)} :
            r \in EvRules } : e \in events }

(* The precedence of the code and the alternative of its governance runs. *)
ROLE_RANK == [safety |-> 0, grid |-> 1, fleet |-> 2, driver |-> 3]
FleetOverGrid == [safety |-> 0, fleet |-> 1, grid |-> 2, driver |-> 3]
=============================================================================
