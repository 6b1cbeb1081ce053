---------------------------- MODULE HvacProfile ----------------------------
(***************************************************************************)
(* The building profile of the resolver: the slots of a zone, the shapes   *)
(* of shapes/invariants.ttl and the policy guard of src/resolver.py.       *)
(* Every value is an integer: a setpoint in degrees, a ventilation mode in *)
(* the order of the enumeration, an emergency state as 0 or 1.             *)
(***************************************************************************)
EXTENDS Integers, FiniteSets

Off == 0
Normal == 1
High == 2
Emergency == 3

Zones == {"A", "B"}

HvacSlots == Zones \X {"setpoint", "vent", "emergency"}

Setpoint(g, z) == g[<<z, "setpoint">>]
Vent(g, z) == g[<<z, "vent">>]
EmergencyState(g, z) == g[<<z, "emergency">>]

-----------------------------------------------------------------------------
(* The shapes. *)
ZoneSetpointShape(g, z) ==
    Cardinality(Setpoint(g, z)) = 1 /\ Setpoint(g, z) \subseteq 18..26

ZoneVentilationShape(g, z) ==
    Cardinality(Vent(g, z)) = 1 /\ Vent(g, z) \subseteq {Off, Normal, High, Emergency}

EmergencyStateShape(g, z) ==
    Cardinality(EmergencyState(g, z)) = 1 /\ EmergencyState(g, z) \subseteq {0, 1}

(* Mutant: the lock looks at the emergency state of any zone. *)
EmergencyVentLockAnyZone(g, z) ==
    (\E y \in Zones : 1 \in EmergencyState(g, y)) => Vent(g, z) \subseteq {Emergency}

EmergencyVentLockShape(g, z) ==
    1 \in EmergencyState(g, z) => Vent(g, z) \subseteq {Emergency}

ZoneAComfortCapShape(g) == \A sp \in Setpoint(g, "A") : sp <= 23

ZoneAEmergencyVentShape(g) ==
    Off \in Vent(g, "A") => \A sp \in Setpoint(g, "A") : sp <= 21

HvacAdmissible(g) ==
    /\ \A z \in Zones :
         /\ ZoneSetpointShape(g, z)
         /\ ZoneVentilationShape(g, z)
         /\ EmergencyStateShape(g, z)
         /\ EmergencyVentLockShape(g, z)
    /\ ZoneAComfortCapShape(g)
    /\ ZoneAEmergencyVentShape(g)

-----------------------------------------------------------------------------
(* The policy node of data/base_graph.ttl, which no rule writes. *)
MinSetpoint == 18
RoleMax == [occupant |-> 23, operator |-> 24, emergency |-> 26]

(* check_policy_guard: only setpoints are guarded. *)
HvacPolicyOK(g, a) ==
    a.slot[2] = "setpoint" => a.value \in MinSetpoint..RoleMax[a.role]
=============================================================================
