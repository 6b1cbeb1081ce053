------------------------------- MODULE Replay -------------------------------
(***************************************************************************)
(* A step of the building, the trace it saves (src/engine.py, src/trace.py)*)
(* and the replay of that trace (src/replay_full.py), which evaluates,     *)
(* schedules and resolves again from what the trace records and compares.  *)
(*                                                                         *)
(* The replay runs the same resolver, so it is the same variables, started *)
(* again; the trace is the only thing it has from the first execution.     *)
(* Between the two the trace may be altered.  The validator regime is a    *)
(* variable of the process environment; the verdicts do not depend on it   *)
(* (see FastPath), but an unknown regime makes the resolver raise.         *)
(***************************************************************************)
EXTENDS CrossCheck

CONSTANTS MaxSaved,         \* bound: traces of windows of at most so many events are saved
          ReplayRegimes     \* the regimes replaying processes may have in their environment

Unset == "unset"            \* the environment has no ADMISSIBILITY_REGIME
Supported == {"shacl", "incremental"}

VARIABLES phase,        \* run, saved, loaded, replay, done
          trace,        \* the saved trace
          original,     \* history: the trace as it was saved
          alteration,   \* history: what was altered
          regime,       \* ADMISSIBILITY_REGIME
          previous,     \* previous_regime of replay_full
          report        \* the checks that failed

replayVars == <<phase, trace, original, alteration, regime, previous, report>>

ReplayInit ==
    /\ RunEngineInit
    /\ phase = "run" /\ trace = <<>> /\ original = <<>> /\ alteration = "none"
    /\ regime = Unset /\ previous = Unset /\ report = {}

-----------------------------------------------------------------------------
(* Recording. *)

(* Rule evaluation with the rules the trace embeds. *)
Enabled(rids, g, events) == {a \in EvaluateRules(g, events) : a.rid \in rids}

AllRules == {r.rid : r \in Rules}

Effective(r) == IF r = Unset THEN "incremental" ELSE r

Snapshot(g) == [triples |-> g, digest |-> g]

(* build_trace: the settings with the rules and their hash, the window, the *)
(* selected events, the graphs with their digests, and each stage's result. *)
BuildTrace ==
    [regime |-> Effective(regime),
     rules |-> AllRules, rulesHash |-> AllRules, rulesSnapshot |-> AllRules,
     window |-> "this", active |-> input.active, events |-> request.events,
     input |-> Snapshot(input.graph),
     enabled |-> EvaluateRules(request.graph, request.events),
     schedule |-> input.schedule, accepted |-> accepted, decisions |-> decisions,
     successor |-> Snapshot(current)]

SaveTrace ==
    /\ phase = "run" /\ Finished /\ Cardinality(request.events) <= MaxSaved
    /\ phase' = "saved"
    /\ trace' = BuildTrace
    /\ original' = BuildTrace
    /\ UNCHANGED <<hvacVars, alteration, regime, previous, report>>

-----------------------------------------------------------------------------
(* The file is altered: one field, or several that belong together. *)

AlterGraph(g) == {[g EXCEPT ![s] = w] : s \in {"A", "B"} \X {"setpoint"}, w \in {{20}, {}}} \ {g}

(* The kinds of alteration, with the traces each makes of the saved one.    *)
Altered(t) ==
    [ event     |-> {[t EXCEPT !.events = @ \ {e}] : e \in t.events},
      context   |-> {[t EXCEPT !.active = r] : r \in
                        {ActiveRoles[c] : c \in DOMAIN ActiveRoles} \ {t.active}},
      rule      |-> {[t EXCEPT !.rules = @ \ {r}, !.rulesHash = @ \ {r}, !.rulesSnapshot = @ \ {r}] :
                        r \in {1, 4}},
      rulesOnly |-> {[t EXCEPT !.rules = @ \ {1}]},
      graph     |-> {[t EXCEPT !.input = Snapshot(g)] : g \in AlterGraph(t.input.triples)},
      triples   |-> {[t EXCEPT !.input.triples = g] : g \in AlterGraph(t.input.triples)},
      schedule  |-> {[t EXCEPT !.schedule = <<@[2], @[1]>> \o SubSeq(@, 3, Len(@))] :
                        x \in {y \in {0} : Len(t.schedule) >= 2}},
      decision  |-> {[t EXCEPT !.decisions[k].reason = "inactive_role"] :
                        k \in {j \in 1..Len(t.decisions) : t.decisions[j].reason # "inactive_role"}},
      accepted  |-> {[t EXCEPT !.accepted = @ \ {k}] : k \in t.accepted},
      successor |-> {[t EXCEPT !.successor = Snapshot(g)] : g \in AlterGraph(t.successor.triples)},
      digest    |-> {[t EXCEPT !.successor.digest = g] : g \in AlterGraph(t.successor.triples)},
      window    |-> {[t EXCEPT !.window = "other"]},
      regime    |-> {[t EXCEPT !.regime = r] : r \in {"shacl", "unknown"}} ]

Alter ==
    /\ phase = "saved" /\ alteration = "none"
    /\ \E kind \in DOMAIN Altered(trace) :
         /\ alteration' = kind
         /\ trace' \in Altered(trace)[kind]
    /\ UNCHANGED <<hvacVars, phase, original, regime, previous, report>>

-----------------------------------------------------------------------------
(* Replay. *)

(* A process with its own environment loads the trace and sets the regime   *)
(* it records.                                                              *)
LoadTrace ==
    /\ phase = "saved"
    /\ \E r \in ReplayRegimes : previous' = r
    /\ regime' = trace.regime
    /\ phase' = "loaded"
    /\ UNCHANGED <<hvacVars, trace, original, alteration, report>>

Regenerated == Enabled(trace.rules, trace.input.triples, trace.events)

(* Mutant: the resolver is not handed the recorded role context. *)
ReplayInputAllRoles ==
    [graph |-> trace.input.triples, schedule |-> ScheduleActions(Regenerated),
     active |-> DOMAIN RolePrecedence]

ReplayInput ==
    [graph |-> trace.input.triples, schedule |-> ScheduleActions(Regenerated),
     active |-> trace.active]

ReplayBody ==
    /\ phase = "loaded" /\ trace.regime \in Supported
    /\ phase' = "replay"
    /\ input' = ReplayInput
    /\ current' = trace.input.triples
    /\ accepted' = {} /\ winner' = [s \in Slots |-> 0] /\ decisions' = <<>>
    /\ request' = [graph |-> trace.input.triples, events |-> trace.events,
                   context |-> CHOOSE c \in DOMAIN ActiveRoles : ActiveRoles[c] = trace.active]
    /\ UNCHANGED <<trace, original, alteration, regime, previous, report>>

(* Mutant: the check of an earlier replay, which compared states only. *)
FailedChecksState ==
    IF current = trace.successor.digest THEN {} ELSE {"digest"}

(* The comparisons of the report that fail. *)
FailedChecks ==
    LET checks ==
        [ window    |-> trace.window = "this",
          rulesHash |-> trace.rules = trace.rulesHash,
          input     |-> trace.input.triples = trace.input.digest,
          stored    |-> trace.successor.triples = trace.successor.digest,
          rules     |-> trace.rules = trace.rulesSnapshot,
          enabled   |-> Regenerated = trace.enabled,
          schedule  |-> input.schedule = trace.schedule,
          accepted  |-> accepted = trace.accepted,
          decisions |-> decisions = trace.decisions,
          digest    |-> current = trace.successor.digest,
          triples   |-> current = trace.successor.triples ]
    IN  {c \in DOMAIN checks : ~checks[c]}

CompareTrace ==
    /\ phase = "replay" /\ Finished
    /\ phase' = "done"
    /\ report' = FailedChecks
    /\ regime' = previous
    /\ UNCHANGED <<hvacVars, trace, original, alteration, previous>>

(* The resolver refuses an unknown regime; finally restores.  *)
ReplayRaises ==
    /\ phase = "loaded" /\ trace.regime \notin Supported
    /\ phase' = "done"
    /\ report' = {"raised"}
    /\ regime' = previous
    /\ UNCHANGED <<hvacVars, trace, original, alteration, previous>>

(* Both executions resolve with the same gates. *)
ResolveNext ==
    /\ phase \in {"run", "replay"}
    /\ Next
    /\ UNCHANGED <<request, replayVars>>

ReplayNext ==
    \/ ResolveNext
    \/ SaveTrace \/ Alter \/ LoadTrace \/ ReplayBody \/ CompareTrace \/ ReplayRaises

ReplaySpec == ReplayInit /\ [][ReplayNext]_<<hvacVars, replayVars>>

-----------------------------------------------------------------------------
(* Properties. *)

Done == phase = "done"

(* A trace replays as it was recorded, whatever environment the replaying   *)
(* process has, from the selected events and the recorded roles alone; and  *)
(* whichever way a replay ends, the process has the regime it had before.   *)
ReplayReproduces ==
    Done => /\ regime = previous
            /\ alteration = "none" => report = {}

Outcome(t) ==
    <<t.input, t.window, t.enabled, t.schedule, t.accepted, t.decisions, t.successor>>

(* A trace that passes tells of the execution that was recorded: all it     *)
(* says of the step is as it was saved, and if anything else was altered it *)
(* made no difference: an event or a rule that enables nothing, a role that *)
(* no enabled action has.                                                   *)
PassedTraceIsGenuine ==
    Done /\ report = {} =>
        LET enabled == EvaluateRules(original.input.triples, original.events) IN
        /\ Outcome(trace) = Outcome(original)
        /\ \A e \in original.events \ trace.events :
             EvaluateRules(original.input.triples, {e}) = {}
        /\ \A a \in enabled :
             /\ a.rid \in trace.rules
             /\ a.role \in trace.active <=> a.role \in original.active
=============================================================================
