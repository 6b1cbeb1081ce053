----------------------- MODULE MCResolverIncremental -----------------------
(* Schedules of any length up to MaxSchedule from a few graphs, over writes *)
(* that the compiled checker supports and two it does not: declaring Annex  *)
(* a subclass of HVAC_Zone, and a predicate no shape constrains.  And every *)
(* single write on every graph in which zone A has at most two values per   *)
(* slot, B is admissible, too warm or without a mode, and C is empty or a   *)
(* fine zone.                                                               *)
EXTENDS CompiledResolver

CONSTANT MaxSchedule

MCValues == 0..30

Act(slot, value, role) == [slot |-> slot, value |-> value, role |-> role]

MCActions ==
    {Act(<<"A", "setpoint">>, 21, "operator"), Act(<<"A", "setpoint">>, 23, "occupant"),
     Act(<<"A", "vent">>, Off, "operator"), Act(<<"A", "emergency">>, 1, "emergency"),
     Act(<<"A", "vent">>, Emergency, "emergency"), Act(<<"B", "setpoint">>, 25, "operator"),
     Act(<<"B", "emergency">>, 1, "emergency"), Act(AnnexSlot, 1, "operator"),
     Act(<<"A", "occupied">>, 0, "occupant"),
     Act(<<"C", "setpoint">>, 27, "emergency"), Act(<<"C", "setpoint">>, 20, "operator")}

Graph3(a, b, c, annex) ==
    [s \in FastSlots |->
        IF s = AnnexSlot THEN annex ELSE IF s = <<"A", "occupied">> THEN {1}
        ELSE LET z == CASE s[1] = "A" -> a [] s[1] = "B" -> b [] s[1] = "C" -> c
             IN  CASE s[2] = "setpoint" -> z[1] [] s[2] = "vent" -> z[2] [] s[2] = "emergency" -> z[3]]

Fine == <<{20}, {Normal}, {0}>>
None == <<{}, {}, {}>>

MCGraphs ==
    {Graph3(Fine, Fine, None, {}), Graph3(Fine, Fine, Fine, {}),
     Graph3(<<{22}, {High}, {0}>>, Fine, None, {}),
     Graph3(<<{25}, {Normal}, {0}>>, Fine, None, {}),
     Graph3(<<{20, 23}, {Normal}, {0}>>, Fine, None, {}),
     Graph3(Fine, <<{20}, {Normal}, {1}>>, None, {}),
     Graph3(Fine, Fine, <<{}, {Normal}, {0}>>, {1})}

MCSchedules == UNION {[1..n -> MCActions] : n \in 0..MaxSchedule}

Everyone == {"operator", "occupant", "emergency"}

Small(S) == {V \in SUBSET S : Cardinality(V) <= 2}

(* 4 is a ventilation mode outside the enumeration. *)
SmallGraphs ==
    {Graph3(a, b, c, annex) :
        a \in Small({17, 21, 22, 23, 24, 27}) \X Small({Off, Normal, Emergency, 4}) \X Small({0, 1}),
        b \in {Fine, <<{25}, {Emergency}, {1}>>, <<{20}, {}, {0}>>},
        c \in {None, Fine}, annex \in {{}, {1}}}

(* Every write is tried on the conforming graphs; on the others it suffices *)
(* to look at the graph.                                                    *)
MCInputs ==
    [graph : MCGraphs, schedule : MCSchedules, active : {Everyone, {"occupant", "emergency"}}]
      \cup [graph : SmallGraphs, schedule : {<<>>}, active : {Everyone}]
      \cup [graph : {g \in SmallGraphs : ShaclConforms(g)}, schedule : {<<a>> : a \in MCActions},
             active : {Everyone}]
=============================================================================
