------------------------------ MODULE MCCampaign ------------------------------
(* Three commands.  The first writes a required full trace and a trace that *)
(* nothing checks, which the second writes too.  The second writes a report *)
(* in the older source, a full trace that is not required in the newer; the *)
(* last a report of the other regime.                                       *)
EXTENDS Campaign

MCCommands == <<"engine", "hvac", "scaling">>

MCRegime == [engine |-> "shacl", hvac |-> "shacl", scaling |-> "incremental"]

MCWrites ==
    [v \in Versions |->
        [engine |-> {"trace", "other"},
         hvac |-> {"other", IF v = "older" THEN "report" ELSE "role"},
         scaling |-> {"timings"}]]

MCNameRegime == [report |-> "shacl", timings |-> "incremental"]
=============================================================================
