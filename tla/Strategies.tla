----------------------------- MODULE Strategies -----------------------------
(***************************************************************************)
(* The strategies that src/experiment_hvac_v3.py compares with the resolver*)
(* on the same input graph and enabled actions: other orders, fewer gates, *)
(* and units of one event.  The two random orders of                       *)
(* src/baseline_scheduler.py stand for every outcome of the shuffle.       *)
(***************************************************************************)
EXTENDS HvacStep, Orders

CONSTANT MaxCompared        \* bound: strategies are compared on windows of at most so many events

(* nondeterministic_tie_schedule: groups with an equal prefix of the key    *)
(* keep their order, and each group is shuffled.                            *)
(* Mutant: the priority is not among the prefix keys. *)
TiePrefixNoPriority(a) == <<a.roleRank, a.ts>>

TiePrefix(a) == <<a.roleRank, a.priority, a.ts>>

TieShuffles(schedule) ==
    {o \in Shuffles(schedule) :
        \A i, j \in DOMAIN o : i < j => ~LexLess(TiePrefix(o[j]), TiePrefix(o[i]))}

-----------------------------------------------------------------------------
(* The shapes alone gate a write; r26_committed_order lists what they let   *)
(* through.                                                                 *)
ShaclGated(g, schedule) == Gated({"shapes"}, g, schedule, {})

(* strat_arrival_validated: ingestion is the order of the event list.  The  *)
(* binding of an action names its event.                                    *)
EventOf(a) == a.bind[4]

Arrived(a, ingestion) == CHOOSE i \in DOMAIN ingestion : ingestion[i].eid = EventOf(a)

ArrivalOrder(actions, ingestion) ==
    SortedBy([a \in actions |-> <<Arrived(a, ingestion), a.rid>> \o a.bind])

(* Mutant: every action is a unit. *)
UnitOfOne(order, i, perEvent) == TRUE

(* The unit of the i-th action is complete with it. *)
EndsUnit(order, i, perEvent) ==
    ~perEvent \/ i = Len(order) \/ EventOf(order[i]) # EventOf(order[i + 1])

(* A unit is written to the candidate, which becomes the working graph when *)
(* the shapes accept it and is discarded when they do not.                  *)
ArrivalValidated(g, actions, ingestion, perEvent) ==
    LET order == ArrivalOrder(actions, ingestion)
        Write(st, i) ==
            LET candidate == Apply(st.candidate, order[i])
                kept == IF Admissible(candidate) THEN candidate ELSE st.working
            IN  IF EndsUnit(order, i, perEvent) THEN [working |-> kept, candidate |-> kept]
                ELSE [working |-> st.working, candidate |-> candidate]
    IN  FoldLeftDomain(Write, [working |-> g, candidate |-> g], order).working

-----------------------------------------------------------------------------
(* Properties.  The strategies are given what the step resolved. *)

Compared == Finished /\ Cardinality(request.events) <= MaxCompared

EnabledActions == ToSet(input.schedule)

Arrivals == SetToSeqs(request.events)

(* The order moves no action past another of its zone. *)
KeepsZones(order) ==
    \A i, j \in DOMAIN order : i < j /\ order[i].slot[1] = order[j].slot[1] =>
        \E k, l \in DOMAIN input.schedule :
            k < l /\ input.schedule[k] = order[i] /\ input.schedule[l] = order[j]

(* Which of two zones comes first never matters: from an admissible graph,  *)
(* an order that only moves actions past actions of other zones resolves to *)
(* the same successor.  (From an inadmissible one it does: until the graph  *)
(* is repaired, the writes of every zone are refused.)                      *)
ZonesCommute ==
    Compared /\ Admissible(input.graph) => \A order \in Shuffles(input.schedule) :
        KeepsZones(order) => FourGates(input.graph, order, input.active).graph = current

(* An alarm does not depend on the tie breaks of the schedule: whatever the *)
(* order among actions of equal role, priority and time, the zone's         *)
(* ventilation goes to emergency and its state is that of an earliest alarm.*)
TiesKeepAlarms ==
    Compared /\ Admissible(input.graph) /\ (\E z \in Zones : Alarms(z) # {}) =>
        \A order \in TieShuffles(input.schedule) :
            LET g == FourGates(input.graph, order, input.active).graph IN
            \A z \in {z \in Zones : Alarms(z) # {}} :
                /\ Vent(g, z) = {Emergency}
                /\ EmergencyState(g, z) \in
                       {{e.arg} : e \in {e \in Alarms(z) : \A f \in Alarms(z) : e.ts <= f.ts}}

(* In the arrival, no event overtakes an event of its zone. *)
ArrivesInZones(arrival) ==
    \A k, l \in DOMAIN input.schedule :
        k < l /\ input.schedule[k].slot[1] = input.schedule[l].slot[1]
            => Arrived(input.schedule[k], arrival) <= Arrived(input.schedule[l], arrival)

(* What the comparison attributes to a gate is due to it.  From an          *)
(* admissible graph: with no action refused by role, policy or conflict,    *)
(* the shapes alone commit the same actions in the same order; with no      *)
(* action refused at all, order and gates make no difference, nor does      *)
(* taking whole events as they arrived, unless one overtook another of its  *)
(* zone; and taking actions one by one or events whole, in whatever order,  *)
(* ends in an admissible graph.                                             *)
StrategiesAgree ==
    Compared /\ Admissible(input.graph) =>
        LET shacl == ShaclGated(input.graph, input.schedule) IN
        /\ (\A k \in DOMAIN decisions : decisions[k].reason \in {"admissible", "inadmissible"}) =>
              /\ shacl.graph = current
              /\ ToSet(shacl.taken) = {input.schedule[k] : k \in accepted}
        /\ accepted = DOMAIN input.schedule =>
              /\ shacl.taken = input.schedule
              /\ Ungated(input.graph, input.schedule) = {current}
              /\ \A arrival \in Arrivals : ArrivesInZones(arrival) =>
                    ArrivalValidated(input.graph, EnabledActions, arrival, TRUE) = current
        /\ \A arrival \in Arrivals, perEvent \in BOOLEAN :
              Admissible(ArrivalValidated(input.graph, EnabledActions, arrival, perEvent))
=============================================================================
