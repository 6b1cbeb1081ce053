------------------------------ MODULE EvReplay ------------------------------
(***************************************************************************)
(* The trace of a charging step and its replay, ev/experiment_ev.py, and   *)
(* the check of each step of ev/experiment_operational.py against the      *)
(* second implementation.                                                  *)
(*                                                                         *)
(* Unlike the building's, the trace has no events: replay starts from the  *)
(* recorded actions, ranks them again by the recorded precedence, and      *)
(* schedules and resolves them.  The shapes the validator reads are those  *)
(* of the file a global of the module names, which replay sets to the one  *)
(* the trace records and restores, also when the resolution raises.        *)
(***************************************************************************)
EXTENDS EvStep

CONSTANT MaxSaved           \* bound: traces of windows of at most so many events are saved

Second == INSTANCE IndependentResolver WITH
    IndependentAdmissible <- EvAdmissible,
    Domain <- [property |-> "power", minimum |-> MinPower, cap |-> RoleMaxPower]

(* What SHAPES_PATH may name: the cluster's shapes, the building's, whose   *)
(* targets no graph of the cluster has, a file that is not Turtle, as the   *)
(* rules are, and none.                                                     *)
Shipped == "ev/shapes/invariants_ev.ttl"
Building == "shapes/invariants.ttl"
NotTurtle == "ev/data/rules_ev.json"
Missing == "no file"

VARIABLES phase,        \* run, saved, replay, done
          trace,        \* the recorded trace
          original,     \* history: the trace as it was recorded
          altered,      \* history: whether it was altered since
          shapesPath,   \* SHAPES_PATH
          previous,     \* previous_shapes, a local of replay_trace
          failed        \* the checks of the replay that failed

evReplayVars == <<phase, trace, original, altered, shapesPath, previous, failed>>

EvReplayInit ==
    /\ PipelineInit
    /\ phase = "run" /\ trace = <<>> /\ original = <<>> /\ altered = FALSE
    /\ shapesPath = Shipped /\ previous = Shipped /\ failed = {}

-----------------------------------------------------------------------------
(* The checks second_schedule, second_digest and second_decisions of        *)
(* run_case; reason codes are compared up to the first colon.               *)
EvCompare(result) ==
    /\ [k \in DOMAIN result.decisions |-> result.decisions[k].action] = input.schedule
    /\ result.working = current
    /\ \A k \in DOMAIN decisions :
         LET d == result.decisions[k] IN
         /\ d.accepted = (k \in accepted)
         /\ decisions[k].reason =
              CASE d.reason \in {"policy_min_violation", "policy_role_cap_violation"} -> "policy"
                [] d.reason = "shadowed_by_prior_accepted_action" -> "shadowed"
                [] OTHER -> d.reason
         /\ d.post = decisions[k].post

-----------------------------------------------------------------------------
(* record_trace: the settings with the paths and hashes, the input graph    *)
(* with its digest, the enabled actions, and the results.                   *)
EvTrace ==
    [shapes |-> Shipped, rank |-> request.rank, active |-> input.active,
     graph |-> input.graph, digest |-> input.graph,
     actions |-> EvEvaluateRules(request.graph, request.events, request.rank),
     schedule |-> input.schedule, decisions |-> decisions, accepted |-> accepted,
     successor |-> current]

RecordTrace ==
    /\ phase = "run" /\ Finished /\ Cardinality(request.events) <= MaxSaved
    /\ phase' = "saved"
    /\ trace' = EvTrace
    /\ original' = EvTrace
    /\ UNCHANGED <<evVars, altered, shapesPath, previous, failed>>

(* One field of the file is altered, or the graph with its digest. *)
Disguised(t) ==
    {[t EXCEPT !.graph = g, !.digest = g] :
        g \in {[t.graph EXCEPT ![s] = {0}] : s \in ChargingPoints \X {"power"}}}

Edited(t) ==
    UNION { Disguised(t),
            {[t EXCEPT !.graph = u.graph] : u \in Disguised(t)},
            {[t EXCEPT !.successor = u.graph] : u \in Disguised(t)},
            {[t EXCEPT !.rank = r] : r \in Precedences},
            {[t EXCEPT !.active = r] : r \in ActiveSets},
            {[t EXCEPT !.shapes = s] : s \in {Building, NotTurtle, Missing}},
            {[t EXCEPT !.actions = @ \ {a}] : a \in t.actions},
            {[t EXCEPT !.actions = (@ \ {a}) \cup {[a EXCEPT !.value = 1]}] : a \in t.actions},
            {[t EXCEPT !.actions = (@ \ {a}) \cup {[a EXCEPT !.priority = 3]}] : a \in t.actions},
            {[t EXCEPT !.accepted = @ \ {k}] : k \in t.accepted},
            {[t EXCEPT !.decisions[k].reason = "policy"] : k \in DOMAIN t.decisions} } \ {t}

EditTrace ==
    /\ phase = "saved" /\ ~altered
    /\ altered' = TRUE
    /\ trace' \in Edited(trace)
    /\ UNCHANGED <<evVars, phase, original, shapesPath, previous, failed>>

-----------------------------------------------------------------------------
(* replay_trace: role ranks come from the recorded map, not from the        *)
(* recorded actions.                                                        *)

(* Mutant: roles rank as the module's precedence has them. *)
RerankedByDefault(t) == {[a EXCEPT !.roleRank = ROLE_RANK[a.role]] : a \in t.actions}

Reranked(t) == {[a EXCEPT !.roleRank = t.rank[a.role]] : a \in t.actions}

(* The hash of the recorded shapes file is taken before the global is set,  *)
(* where no earlier dependency has failed: a missing file raises there.     *)
HashRaises == trace.graph = trace.digest /\ trace.shapes = Missing

ReplayTraceRaises ==
    /\ phase = "saved" /\ HashRaises
    /\ phase' = "done"
    /\ failed' = {"raised"}
    /\ UNCHANGED <<evVars, trace, original, altered, shapesPath, previous>>

ReplayTrace ==
    /\ phase = "saved" /\ ~HashRaises
    /\ phase' = "replay"
    /\ previous' = shapesPath
    /\ shapesPath' = trace.shapes
    /\ input' = [graph |-> trace.graph, schedule |-> ScheduleActions(Reranked(trace)),
                 active |-> trace.active]
    /\ current' = trace.graph
    /\ accepted' = {} /\ winner' = [s \in Slots |-> 0] /\ decisions' = <<>>
    /\ request' = [graph |-> trace.graph, events |-> {}, rank |-> trace.rank,
                   active |-> trace.active]
    /\ UNCHANGED <<trace, original, altered, failed>>

(* An action's identity is its rule and binding. *)
Identities(s) == [k \in DOMAIN s |-> <<s[k].rid, s[k].bind>>]

(* What a decision record shows of its action. *)
Shown(s, ds) ==
    [k \in DOMAIN ds |-> <<s[k].rid, s[k].bind, s[k].role, s[k].slot, s[k].value, ds[k]>>]

EvFailed ==
    LET checks ==
        [ dependencies |-> trace.graph = trace.digest /\ trace.shapes = Shipped,
          schedule     |-> Identities(input.schedule) = Identities(trace.schedule),
          decisions    |-> Shown(input.schedule, decisions) = Shown(trace.schedule, trace.decisions),
          accepted     |-> accepted = trace.accepted,
          digest       |-> current = trace.successor ]
    IN  {c \in DOMAIN checks : ~checks[c]}

ReplayReturns ==
    /\ phase = "replay" /\ Finished
    /\ phase' = "done"
    /\ failed' = EvFailed
    /\ shapesPath' = previous
    /\ UNCHANGED <<evVars, trace, original, altered, previous>>

(* An action reaches the validator. *)
ReachesValidator == Pending /\ RoleActive /\ PolicyOK(current, Action) /\ ~Shadowed

(* Mutant: the shapes are restored after the resolution, in no finally.     *)
ReplayRaisesUnrestored ==
    /\ phase = "replay" /\ shapesPath \in {NotTurtle, Missing} /\ ReachesValidator
    /\ phase' = "done"
    /\ failed' = {"raised"}
    /\ UNCHANGED <<evVars, trace, original, altered, shapesPath, previous>>

(* The validator parses the file SHAPES_PATH names when it is asked first,  *)
(* and raises where that is no Turtle; the finally clause restores.         *)
ReplayRaises ==
    /\ phase = "replay" /\ shapesPath \in {NotTurtle, Missing} /\ ReachesValidator
    /\ phase' = "done"
    /\ failed' = {"raised"}
    /\ shapesPath' = previous
    /\ UNCHANGED <<evVars, trace, original, altered, previous>>

(* The gates before the validator need no shapes.                           *)
EarlierGate == RejectRole \/ RejectPolicy \/ RejectShadowed

(* Every graph conforms to shapes without a target in it: what reaches the  *)
(* validator is accepted.                                                   *)
AcceptAny ==
    /\ ReachesValidator
    /\ current' = Apply(current, Action)
    /\ accepted' = accepted \cup {Turn}
    /\ winner' = [winner EXCEPT ![Action.slot] = Turn]
    /\ Decide("admissible", Apply(current, Action), 0)
    /\ UNCHANGED input

EvResolveNext ==
    /\ phase \in {"run", "replay"}
    /\ \/ shapesPath = Shipped /\ EvNext
       \/ shapesPath # Shipped /\ EarlierGate /\ UNCHANGED request
       \/ shapesPath = Building /\ AcceptAny /\ UNCHANGED request
    /\ UNCHANGED evReplayVars

EvReplayNext ==
    \/ EvResolveNext
    \/ RecordTrace \/ EditTrace \/ ReplayTraceRaises \/ ReplayTrace \/ ReplayReturns \/ ReplayRaises

EvReplaySpec == EvReplayInit /\ [][EvReplayNext]_<<evVars, evReplayVars>>

-----------------------------------------------------------------------------
(* Properties. *)

(* The second implementation, given the actions in no order, takes every    *)
(* decision of the first for the same reason, under either precedence and   *)
(* with shapes that couple targets.                                         *)
EvImplementationsAgree ==
    phase = "run" /\ Finished =>
        EvCompare(Second!Resolve(input.graph,
                                 {input.schedule[k] : k \in DOMAIN input.schedule},
                                 input.active))

(* A replay tells whether a trace is the one recorded.  Unaltered, it       *)
(* replays from its actions, precedence and roles alone.  One that passes   *)
(* tells of the execution that was recorded: whichever of the modelled      *)
(* alterations was made, the graphs, the order, every decision with its     *)
(* target and the accepted actions are those of the step that saved it.     *)
(* And whether the replay returns, raises before it sets the shapes or      *)
(* raises while it resolves under the recorded ones, what the process does  *)
(* next is validated against the shapes it had before.                      *)
EvReplayTells ==
    phase = "done" =>
        /\ shapesPath = Shipped
        /\ ~altered => failed = {}
        /\ failed = {} =>
             /\ trace.graph = original.graph
             /\ trace.successor = original.successor
             /\ trace.accepted = original.accepted
             /\ Shown(input.schedule, decisions) = Shown(original.schedule, original.decisions)
=============================================================================
