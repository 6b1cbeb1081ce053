------------------------------- MODULE EvStep -------------------------------
(***************************************************************************)
(* One evaluation step of the charging profile, ev/experiment_ev.py: all   *)
(* events are one window, and the step resolves its schedule as the        *)
(* building's does, with the shapes and the guard of the charging cluster. *)
(* The role precedence and the active roles are the run's.                 *)
(***************************************************************************)
EXTENDS Resolver, EvProfile

CONSTANTS StartGraphs,      \* the input states of a step
          WindowEvents,     \* the events a window may hold
          Workloads         \* further requests, those of named experiments

VARIABLE request            \* the input state, events, precedence and active roles of the step

evVars == <<resolverVars, request>>

Precedences == {ROLE_RANK, FleetOverGrid}

(* The active roles of the experiments: all, or all but the driver. *)
ActiveSets == {DOMAIN ROLE_RANK, DOMAIN ROLE_RANK \ {"driver"}}

ASSUME EvStepConstants ==
    /\ EvEventRecords(WindowEvents)
    /\ \A q \in Workloads :
         EvEventRecords(q.events) /\ q.rank \in Precedences /\ q.active \in ActiveSets

Requests ==
    [graph : StartGraphs, events : SUBSET WindowEvents, rank : Precedences, active : ActiveSets]
        \cup Workloads

(* Mutant: the active roles of the run do not reach the resolver. *)
EvStepInputAllActive(q) ==
    [graph |-> q.graph,
     schedule |-> ScheduleActions(EvEvaluateRules(q.graph, q.events, q.rank)),
     active |-> DOMAIN ROLE_RANK]

EvStepInput(q) ==
    [graph |-> q.graph,
     schedule |-> ScheduleActions(EvEvaluateRules(q.graph, q.events, q.rank)),
     active |-> q.active]

(* A set with every input of the step; PipelineInit picks those of Requests. *)
EvInputs ==
    [graph : StartGraphs,
     schedule : {ScheduleActions(EvEvaluateRules(g, E, r)) :
                    g \in StartGraphs, E \in SUBSET WindowEvents, r \in Precedences},
     active : ActiveSets]
        \cup {EvStepInput(q) : q \in Workloads}

EvActions ==
    UNION {EvEvaluateRules(g, {e}, r) : g \in StartGraphs, e \in WindowEvents, r \in Precedences}
        \cup UNION {EvEvaluateRules(q.graph, q.events, q.rank) : q \in Workloads}

PipelineInit ==
    /\ request \in Requests
    /\ input = EvStepInput(request)
    /\ current = input.graph
    /\ accepted = {}
    /\ winner = [s \in Slots |-> 0]
    /\ decisions = <<>>

(* The gates of the step are those of Resolver, in the same order. *)
EvNext == Next /\ UNCHANGED request

EvSpec == PipelineInit /\ [][EvNext]_evVars

-----------------------------------------------------------------------------
(* Properties of the step as a whole. *)

Finished == Len(decisions) = Len(input.schedule)

Happened(type) == {e \in request.events : e.type = type}

(* A grid emergency ends with the feeder curtailed, which needs every point *)
(* brought to 5 kW first; only a fleet command above 5 kW that precedence   *)
(* puts before the grid can stand in its way, never a driver's, and never   *)
(* another grid signal of the window.                                       *)
EmergencyCurtails ==
    Finished /\ Admissible(request.graph) /\ Happened("GridEmergency") # {} =>
        \/ FeederState(current) = {Curtailed}
        \/ /\ request.rank = FleetOverGrid
           /\ \E k \in accepted : /\ input.schedule[k].role = "fleet"
                                  /\ input.schedule[k].value > CurtailedPower

(* A fault isolates its point whatever the others ask for: at the end of    *)
(* the step it is out of service and draws nothing.                         *)
FaultIsolates ==
    Finished /\ Admissible(request.graph) =>
        \A e \in Happened("FaultDetected") :
            Connector(current, e.cp) = {OutOfService} /\ Power(current, e.cp) = {0}

(* A capacity signal bounds the power its point ends the step with, or it   *)
(* was refused, or another grid action had the point first: with the grid   *)
(* before the others, no fleet or driver command takes the point from it.   *)
(* The policy refuses a signal that is negative, the shapes one that is     *)
(* beyond the budget or for a point not in use.  One refused for the budget *)
(* does leave its point open: a command of the step that frees the budget   *)
(* lets a later request exceed the signal.                                  *)
CapacityHeld ==
    Finished /\ Admissible(request.graph) /\ request.rank = ROLE_RANK =>
        \A k \in 1..Len(decisions) : input.schedule[k].rid = 3 =>
            \/ \A p \in current[input.schedule[k].slot] : p <= input.schedule[k].value
            \/ decisions[k].reason = "policy" /\ input.schedule[k].value < MinPower
            \/ decisions[k].reason = "inadmissible"
            \/ /\ decisions[k].reason = "shadowed"
               /\ input.schedule[decisions[k].blockedBy].role = "grid"
=============================================================================
