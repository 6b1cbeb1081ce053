------------------------------ MODULE FastPath ------------------------------
(***************************************************************************)
(* The compiled checker of src/admissibility.py next to the shapes it was  *)
(* compiled from.  A and B are typed HVAC_Zone; C is an instance of a      *)
(* class Annex, and a zone once Annex is declared a subclass of HVAC_Zone. *)
(***************************************************************************)
EXTENDS HvacProfile

AnnexSlot == <<"Annex", "subClassOf">>

(* Predicates of a zone the shapes do not constrain have a slot as well.    *)
FastSlots ==
    ({"A", "B", "C"} \X {"setpoint", "vent", "emergency"})
        \cup {AnnexSlot, <<"A", "occupied">>}

ZoneProperties == {"setpoint", "vent", "emergency"}

-----------------------------------------------------------------------------
(* check_admissibility_shacl: the class targets, with declared subclasses,  *)
(* and the two shapes that target ZoneA by name.                            *)
Targets(g) == Zones \cup (IF g[AnnexSlot] # {} THEN {"C"} ELSE {})

ShaclConforms(g) ==
    /\ \A z \in Targets(g) :
         /\ ZoneSetpointShape(g, z)
         /\ ZoneVentilationShape(g, z)
         /\ EmergencyStateShape(g, z)
         /\ EmergencyVentLockShape(g, z)
    /\ ZoneAComfortCapShape(g)
    /\ ZoneAEmergencyVentShape(g)

-----------------------------------------------------------------------------
(* fast_path_eligible: no subclass declarations, and every subject with a   *)
(* zone property is typed HVAC_Zone itself.                                 *)
Eligible(g) ==
    /\ g[AnnexSlot] = {}
    /\ \A p \in ZoneProperties : g[<<"C", p>>] = {}

(* Mutant: any write is taken to keep to the fragment. *)
PreservedAlways(g, a) == TRUE

(* fast_path_preserved_by_write *)
PreservedByWrite(g, a) == a.slot[2] \in ZoneProperties /\ a.slot[1] \in Zones

(* _check_admissibility_fast: single values are compared, other             *)
(* cardinalities are violations; ZoneA's own shapes look at every value.    *)
KernelSetpoint(g, z) == \E sp \in 18..26 : Setpoint(g, z) = {sp}

KernelVent(g, z) == \E m \in {Off, Normal, High, Emergency} : Vent(g, z) = {m}

KernelEmergency(g, z) ==
    /\ \E b \in {0, 1} : EmergencyState(g, z) = {b}
    /\ EmergencyState(g, z) = {1} /\ Cardinality(Vent(g, z)) = 1 => Vent(g, z) = {Emergency}

(* Mutant: the vent rule is missing, and several values are not compared.   *)
KernelZoneASingle(g) ==
    \A sp \in Setpoint(g, "A") :
        Cardinality(Setpoint(g, "A")) = 1 => sp <= 23

KernelZoneA(g) ==
    \A sp \in Setpoint(g, "A") : sp <= 23 /\ (Off \in Vent(g, "A") => sp <= 21)

FastConforms(g, focus) ==
    \A z \in focus :
        /\ z \in Targets(g) =>
             KernelSetpoint(g, z) /\ KernelVent(g, z) /\ KernelEmergency(g, z)
        /\ z = "A" => KernelZoneA(g)

(* Without a focus: every typed zone, and ZoneA in any case. *)
FastConformsAll(g) == FastConforms(g, Targets(g) \cup {"A"})

FastConformsZone(g, a) == FastConforms(g, {a.slot[1]})
=============================================================================
