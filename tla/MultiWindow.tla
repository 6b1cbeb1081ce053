---------------------------- MODULE MultiWindow ----------------------------
(***************************************************************************)
(* A run of several steps over an evolving graph,                          *)
(* src/experiment_multiwindow.py: overlapping windows over one append-only *)
(* log, each step's successor the next one's input, under either event     *)
(* delivery mode.  It composes the window selection, the rules and the     *)
(* resolver; an event may enter the log before any step.                   *)
(***************************************************************************)
EXTENDS Resolver, RuleEngine, WindowSelection

CONSTANTS Log,             \* the events that reach the log
          Anchors,         \* the anchor times, in order
          DeliveryModes

(* An identifier is the event's IRI: it names one event of the log.         *)
ASSUME RunConstants ==
    /\ DeliveryModes \subseteq {"redelivery", "consume_once"}
    /\ \A e, f \in Log : e.eid = f.eid => e = f

VARIABLES mode,            \* event_delivery of the run
          arrived,         \* the events in the log
          consumed,        \* the processed-event ledger: identifiers
          running,         \* a step is being resolved
          selected,        \* the events of its window
          steps            \* log, events, accepted actions and graph of each step done

runVars == <<resolverVars, mode, arrived, consumed, running, selected, steps>>

Start == (CHOOSE in \in Inputs : TRUE).graph

RunInit ==
    /\ Init
    /\ mode \in DeliveryModes
    /\ arrived = {} /\ consumed = {} /\ selected = {}
    /\ running = FALSE
    /\ steps = <<>>

AnchorLeft == Len(steps) + 1 \in DOMAIN Anchors

Arrive(e) ==
    /\ ~running /\ AnchorLeft
    /\ arrived' = arrived \cup {e}
    /\ UNCHANGED <<resolverVars, mode, consumed, running, selected, steps>>

-----------------------------------------------------------------------------
(* Under consume_once the engine is handed the log without what is on the   *)
(* ledger.                                                                  *)
Visible ==
    IF mode = "consume_once" THEN {e \in arrived : e.eid \notin consumed} ELSE arrived

InWindow == {e \in Visible : Selects(WindowAt(Anchors[Len(steps) + 1]), e.ts)}

(* Mutant: every step starts from the graph the run started from. *)
BeginStepFromStart ==
    /\ ~running /\ AnchorLeft
    /\ running' = TRUE
    /\ selected' = InWindow
    /\ current' = Start
    /\ input' = [graph |-> Start, active |-> ActiveRoles["default"],
                 schedule |-> ScheduleActions(EvaluateRules(Start, InWindow))]
    /\ accepted' = {} /\ winner' = [s \in Slots |-> 0] /\ decisions' = <<>>
    /\ UNCHANGED <<mode, arrived, consumed, steps>>

(* run_engine up to the resolution: the rules match the state as the last   *)
(* step left it.                                                            *)
BeginStep ==
    /\ ~running /\ AnchorLeft
    /\ running' = TRUE
    /\ selected' = InWindow
    /\ input' = [graph |-> current, active |-> ActiveRoles["default"],
                 schedule |-> ScheduleActions(EvaluateRules(current, InWindow))]
    /\ accepted' = {} /\ winner' = [s \in Slots |-> 0] /\ decisions' = <<>>
    /\ UNCHANGED <<mode, arrived, consumed, current, steps>>

Resolve ==
    /\ running /\ Next
    /\ UNCHANGED <<mode, arrived, consumed, running, selected, steps>>

(* Mutant: an event is consumed only when an action of it was accepted. *)
ConsumedAfterAccepted ==
    IF mode = "consume_once"
    THEN consumed \cup {input.schedule[k].bind[4] : k \in accepted} ELSE consumed

(* Every identifier the window held is consumed, whatever became of it. *)
ConsumedAfter ==
    IF mode = "consume_once" THEN consumed \cup {e.eid : e \in selected} ELSE consumed

EndStep ==
    /\ running /\ ~Pending
    /\ running' = FALSE
    /\ consumed' = ConsumedAfter
    /\ steps' = Append(steps, [log |-> arrived, events |-> selected, graph |-> current,
                               taken |-> {input.schedule[k] : k \in accepted}])
    /\ selected' = {}
    /\ UNCHANGED <<resolverVars, mode, arrived>>

RunNext ==
    \/ \E e \in Log \ arrived : Arrive(e)
    \/ BeginStep \/ Resolve \/ EndStep

RunSpec == RunInit /\ [][RunNext]_runVars

-----------------------------------------------------------------------------
(* Properties. *)

(* The steps whose window covers the event after it has arrived. *)
Covering(e) ==
    {k \in DOMAIN steps : e \in steps[k].log /\ Selects(WindowAt(Anchors[k]), e.ts)}

(* Under redelivery an event is evaluated by every step that covers it,     *)
(* under consume_once by the first of them and no other, whether or not its *)
(* action is accepted there; one that arrives after its windows is dropped. *)
DeliveredByMode ==
    \A e \in Log :
        {k \in DOMAIN steps : e \in steps[k].events} =
            IF mode = "redelivery" THEN Covering(e)
            ELSE {k \in Covering(e) : \A i \in Covering(e) : k <= i}

(* r4_firings: the steps that accept an r4 action of one of the identifiers.*)
Firings(eids) ==
    {k \in DOMAIN steps : \E a \in steps[k].taken : a.rid = 4 /\ a.bind[4] \in eids}

Before(k) == IF k = 1 THEN Start ELSE steps[k - 1].graph

Held(k, z, type) == {e \in steps[k].events : e.type = type /\ e.zone = z}

(* The increments of a setpoint are accounted for.  Of the occupancy events *)
(* of an unoccupied zone in a window, however many identifiers they came    *)
(* under, exactly one fires r4, unless an operator asked for the zone in    *)
(* the same window or the setpoint is at the occupant's limit; each firing  *)
(* adds one degree to what the step before left, and nothing else moves the *)
(* setpoint.                                                                *)
IncrementsAccounted ==
    \A z \in {z \in Zones : ~Occupied[z]} :
        LET asked    == {k \in DOMAIN steps : Held(k, z, "PreheatRequest") # {}}
            occupied == {k \in DOMAIN steps : Held(k, z, "OccupancyDetected") # {}}
            below    == {k \in DOMAIN steps :
                           \A v \in Setpoint(Before(k), z) : v < RoleMax["occupant"]}
            fired    == Firings({e.eid : e \in {e \in Log : e.zone = z}})
        IN  /\ fired = (occupied \cap below) \ asked
            /\ \A k \in DOMAIN steps :
                 /\ Cardinality({a \in steps[k].taken : a.slot = <<z, "setpoint">>}) <= 1
                 /\ Setpoint(steps[k].graph, z) =
                      IF k \in asked THEN {e.arg : e \in Held(k, z, "PreheatRequest")}
                      ELSE IF k \in fired THEN {v + 1 : v \in Setpoint(Before(k), z)}
                      ELSE Setpoint(Before(k), z)
=============================================================================
