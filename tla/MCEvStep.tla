------------------------------ MODULE MCEvStep ------------------------------
EXTENDS EvWorkloads

ValuesBound == -1..30

Cluster(powers, connectors, state) ==
    [s \in EvSlots |->
        CASE s[2] = "power" -> powers[s[1]]
          [] s[2] = "connector" -> connectors[s[1]]
          [] OTHER -> state]

Plugs(a, b, c) == <<{a}, {b}, {c}>>

(* The base state with a free point; two points at full power; curtailed;   *)
(* a point with two powers; a point with no connector state; over budget.   *)
MCStartGraphs ==
    {Cluster(Plugs(0, 0, 0), Plugs(Plugged, Plugged, Free), {Uncurtailed}),
     Cluster(Plugs(22, 22, 0), Plugs(Charging, Charging, Plugged), {Uncurtailed}),
     Cluster(Plugs(5, 0, 0), Plugs(Charging, Plugged, OutOfService), {Curtailed}),
     Cluster(<<{10, 22}, {0}, {0}>>, Plugs(Charging, Plugged, Plugged), {Uncurtailed}),
     Cluster(Plugs(0, 22, 0), <<{}, {Charging}, {Plugged}>>, {Uncurtailed}),
     Cluster(Plugs(22, 22, 22), Plugs(Charging, Charging, Charging), {Uncurtailed})}

Event(eid, type, cp, ts, arg) ==
    [eid |-> eid, type |-> type, cp |-> cp, ts |-> ts, arg |-> arg]

MCWindowEvents ==
    {Event(1, "ChargeRequest", 1, 1, 22),
     Event(2, "ChargeRequest", 2, 2, 23),
     Event(3, "ChargeRequest", 3, 1, 22),
     Event(4, "FleetSchedule", 2, 3, 0),
     Event(5, "DepartureSoon", 1, 2, 0),
     Event(6, "CapacitySignal", 3, 1, 10),
     Event(7, "CapacitySignal", 3, 1, 5),
     Event(8, "GridEmergency", Feeder, 3, 0),
     Event(9, "FaultDetected", 1, 3, 0),
     Event(10, "PlugIn", 3, 1, 0)}
=============================================================================
