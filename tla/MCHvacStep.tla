----------------------------- MODULE MCHvacStep -----------------------------
EXTENDS Replay, Strategies

ValuesBound == 0..30

Zone(z, sp, vent, em) ==
    [s \in {z} \X {"setpoint", "vent", "emergency"} |->
        CASE s[2] = "setpoint" -> sp [] s[2] = "vent" -> vent [] OTHER -> em]

Both(f, g) == [s \in HvacSlots |-> IF s \in DOMAIN f THEN f[s] ELSE g[s]]

ZoneB == Zone("B", {20}, {Normal}, {0})

(* The base state; ventilation off; an emergency under way; and states the  *)
(* shapes reject: too warm, two setpoints, no mode, two faults at once.     *)
MCStartGraphs ==
    {Both(Zone("A", {22}, {Normal}, {0}), ZoneB),
     Both(Zone("A", {21}, {Off}, {0}), ZoneB),
     Both(Zone("A", {22}, {Emergency}, {1}), Zone("B", {26}, {High}, {0})),
     Both(Zone("A", {25}, {Normal}, {0}), ZoneB),
     Both(Zone("A", {19, 22}, {Normal}, {0}), ZoneB),
     Both(Zone("A", {22}, {}, {0}), ZoneB),
     Both(Zone("A", {25}, {Normal}, {1}), ZoneB)}

Event(eid, type, zone, ts, arg) ==
    [eid |-> eid, type |-> type, zone |-> zone, ts |-> ts, arg |-> arg]

MCWindowEvents ==
    {Event(1, "OccupantSetpointRequest", "A", 2, 1),
     Event(2, "DemandResponsePeak", "A", 3, 21),
     Event(3, "PreheatRequest", "A", 2, 24),
     Event(4, "CO2Spike", "A", 1, High),
     Event(5, "EmergencyAlarm", "A", 3, 1),
     Event(6, "EmergencyAlarm", "A", 3, 0),
     Event(7, "OccupancyDetected", "B", 2, 0),
     Event(8, "EmergencyAlarm", "B", 1, 1),
     Event(9, "OccupantSetpointRequest", "A", 2, -3)}
=============================================================================
