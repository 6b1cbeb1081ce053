--------------------------- MODULE MCMultiWindow ---------------------------
(* The three anchors and the log of the experiment, in half minutes from    *)
(* nine o'clock: an occupancy event and its retransmission, an operator's   *)
(* request and the event that comes late; and two events more, an alarm on  *)
(* the bound of a window and an occupancy event of two windows.             *)
EXTENDS MultiWindow

MCAnchors == <<8, 12, 16>>

MCStart ==
    [s \in HvacSlots |->
        CASE s[2] = "setpoint" -> {IF s[1] = "A" THEN 22 ELSE 21}
          [] s[2] = "vent" -> {Normal} [] s[2] = "emergency" -> {0}]

Event(eid, type, ts, arg) ==
    [eid |-> eid, type |-> type, zone |-> "B", ts |-> ts, arg |-> arg]

MCLog ==
    {Event(1, "EmergencyAlarm", 12, 1), Event(2, "OccupancyDetected", 4, 0),
     Event(3, "OccupancyDetected", 3, 0), Event(4, "OccupancyDetected", 3, 0),
     Event(5, "OccupancyDetected", 10, 0), Event(6, "PreheatRequest", 14, 23)}

MCValues == 0..30

MCInputs ==
    {[graph |-> MCStart, schedule |-> <<>>, active |-> ActiveRoles["default"]]}

MCActions ==
    UNION {EvaluateRules([MCStart EXCEPT ![<<"B", "setpoint">>] = {sp}], {e}) :
           sp \in 18..26, e \in MCLog}
=============================================================================
