------------------------------ MODULE HvacStep ------------------------------
(***************************************************************************)
(* One evaluation step of the building profile, src/engine.py: the events  *)
(* of the window and the input state are matched against the rules, the    *)
(* enabled actions are scheduled, and the schedule is resolved.  Rules see *)
(* the input state only; the resolver sees the state it has built so far.  *)
(***************************************************************************)
EXTENDS Resolver, RuleEngine

CONSTANTS StartGraphs,      \* the input states of a step
          WindowEvents      \* the events a window may hold

ASSUME StepConstants == EventRecords(WindowEvents) /\ Values \subseteq -99..99

VARIABLE request            \* the input state, window events and context of the step

hvacVars == <<resolverVars, request>>

Requests ==
    [graph : StartGraphs, events : SUBSET WindowEvents, context : DOMAIN ActiveRoles]

StepInput(q) ==
    [graph |-> q.graph,
     schedule |-> ScheduleActions(EvaluateRules(q.graph, q.events)),
     active |-> ActiveRoles[q.context]]

(* A set with every input of the step; RunEngineInit picks those of Requests. *)
HvacInputs ==
    [graph : StartGraphs,
     schedule : {ScheduleActions(EvaluateRules(g, E)) : g \in StartGraphs, E \in SUBSET WindowEvents},
     active : {ActiveRoles[c] : c \in DOMAIN ActiveRoles}]

HvacActions ==
    UNION {EvaluateRules(g, {e}) : g \in StartGraphs, e \in WindowEvents}

RunEngineInit ==
    /\ request \in Requests
    /\ input = StepInput(request)
    /\ current = input.graph
    /\ accepted = {}
    /\ winner = [s \in Slots |-> 0]
    /\ decisions = <<>>

HvacSpec == RunEngineInit /\ [][Next /\ UNCHANGED request]_hvacVars

-----------------------------------------------------------------------------
(* Properties of the step as a whole. *)

Finished == Len(decisions) = Len(input.schedule)

Alarms(z) == {e \in request.events : e.type = "EmergencyAlarm" /\ e.zone = z}

(* An alarm is never lost to other traffic: in a step that starts from an   *)
(* admissible state, the earliest alarm of a zone decides its emergency     *)
(* state and its ventilation goes to emergency, whatever operators and      *)
(* occupants ask for in the same window and whichever of them are inactive. *)
EmergencyHandled ==
    Finished /\ Admissible(request.graph) =>
        \A z \in Zones : \A e \in Alarms(z) :
            (\A f \in Alarms(z) : <<e.ts, e.eid>> = <<f.ts, f.eid>>
                                    \/ LexLess(<<e.ts, e.eid>>, <<f.ts, f.eid>>))
                => /\ EmergencyState(current, z) = {e.arg}
                   /\ Vent(current, z) = {Emergency}
=============================================================================
