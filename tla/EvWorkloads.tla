---------------------------- MODULE EvWorkloads ----------------------------
(***************************************************************************)
(* The windows the charging experiments run and what they expect of them:  *)
(* the cases and the order control of ev/experiment_operational.py, and    *)
(* the generated one-point matrix and the budget boundary of               *)
(* src/experiment_semantic_boundaries.py, whose oracle computes the        *)
(* expected state without a resolver.                                      *)
(***************************************************************************)
EXTENDS EvReplay, Orders

(* _primed_state: the base graph with some powers, a point that draws power *)
(* charging, and then some connector states.                                *)
PrimedState(power, connectors) ==
    [s \in EvSlots |->
        CASE s[2] = "state" -> {Uncurtailed}
          [] s[2] = "power" -> {IF s[1] \in DOMAIN power THEN power[s[1]] ELSE 0}
          [] s[2] = "connector" ->
               {IF s[1] \in DOMAIN connectors THEN connectors[s[1]]
                ELSE IF s[1] \in DOMAIN power /\ power[s[1]] > 0 THEN Charging
                ELSE Plugged}]

(* event of the experiments: all at one time. *)
At(eid, type, cp, arg) == [eid |-> eid, type |-> type, cp |-> cp, ts |-> 1, arg |-> arg]

Run(graph, events) ==
    [graph |-> graph, events |-> events, rank |-> ROLE_RANK, active |-> DOMAIN ROLE_RANK]

-----------------------------------------------------------------------------
(* generated_matrix: one command for a point and at most one signal. *)
CommandOf == [driver |-> "ChargeRequest", fleet |-> "FleetSchedule", grid |-> "CapacitySignal"]
SignalOf == [plug |-> "PlugIn", fault |-> "FaultDetected", emergency |-> "GridEmergency"]

Matrix ==
    {m \in [feeder : {Uncurtailed, Curtailed}, connector : Free..OutOfService, power : {0, 5, 22},
            role : DOMAIN CommandOf, command : {0, 5, 10, 22},
            signal : DOMAIN SignalOf \cup {"none"}] :
        /\ m.power > 0 => m.connector \in {Plugged, Charging}
        /\ m.feeder = Curtailed => m.power <= CurtailedPower}

MatrixRun(m) ==
    Run([PrimedState(1 :> m.power, 1 :> m.connector) EXCEPT ![<<Feeder, "state">>] = {m.feeder}],
        {At(1, CommandOf[m.role], 1, m.command)} \cup
        {At(2, SignalOf[s], IF s = "emergency" THEN Feeder ELSE 1, 0) :
            s \in {m.signal} \ {"none"}})

(* aggregate_boundaries: three requests around the budget. *)
BudgetRun(value) ==
    Run(PrimedState(<<>>, <<>>),
        {At(1, "ChargeRequest", 1, 20), At(2, "ChargeRequest", 2, 20),
         At(3, "ChargeRequest", 3, value)})

(* The charging requests of ev/data/events_ev.jsonl. *)
HeadlineRun ==
    Run(PrimedState(<<>>, <<>>), {At(cp, "ChargeRequest", cp, 22) : cp \in ChargingPoints})

(* run_emergency: two points draw all they can when the grid calls. *)
EmergencyRun == Run(PrimedState(<<22, 22>>, <<>>), {At(1, "GridEmergency", Feeder, 0)})

(* run_governance: the fleet and the grid want one point, either may precede.*)
GovernanceRun(rank) ==
    [Run(PrimedState(<<>>, <<>>),
         {At(1, "FleetSchedule", 1, 22), At(2, "CapacitySignal", 1, 10)}) EXCEPT !.rank = rank]

-----------------------------------------------------------------------------
(* case_specs.  An expectation left out constrains nothing.  The case that  *)
(* changes the policy node, which is a constant here, is left out.          *)
Case(graph, events, expect) ==
    [run |-> Run(graph, events),
     expect |-> expect @@ [emergency |-> FALSE, fault |-> FALSE, powers |-> <<>>,
                           connectors |-> <<>>, accepted |-> {}, rejected |-> {}]]

Alarm == At(1, "GridEmergency", Feeder, 0)
Fault == At(2, "FaultDetected", 1, 0)
Driver == At(3, "ChargeRequest", 3, 22)
Plug == At(4, "PlugIn", 1, 0)
Charge == At(5, "ChargeRequest", 1, 22)
Cap(cp) == At(6, "CapacitySignal", cp, 10)
Fleet == At(7, "FleetSchedule", 1, 22)
Departure == At(8, "DepartureSoon", 1, 0)
Negative == At(9, "ChargeRequest", 1, -1)

Idle == PrimedState(<<>>, <<>>)
Faulty == PrimedState(1 :> 22, 1 :> Plugged)

CaseSpecs ==
    { Case(PrimedState(<<22, 22>>, <<>>), {Alarm},
           [emergency |-> TRUE, powers |-> <<5, 5, 0>>]),
      Case(PrimedState(<<22, 22>>, <<>>), {Alarm, Cap(1)}, [emergency |-> TRUE]),
      Case(PrimedState(<<22, 22, 0>>, <<>>), {Alarm, Cap(3)}, [emergency |-> TRUE]),
      Case(PrimedState(<<22, 22, 5>>, <<>>), {Alarm, Cap(3)}, [emergency |-> TRUE]),
      Case(PrimedState(<<10, 10>>, 3 :> Plugged), {Driver},
           [powers |-> 3 :> 22, accepted |-> {<<1>>}]),
      Case(PrimedState(<<10, 10>>, 3 :> Plugged), {Alarm, Driver},
           [emergency |-> TRUE, powers |-> 3 :> 0, rejected |-> {<<1, "inadmissible">>}]),
      Case(Faulty, {Fault}, [fault |-> TRUE]),
      Case(PrimedState(<<>>, 1 :> Free), {Fault, Charge}, [fault |-> TRUE]),
      Case(Faulty, {Fault, Cap(1)}, [fault |-> TRUE]),
      Case(Faulty, {Fault, Alarm}, [fault |-> TRUE, emergency |-> TRUE]),
      Case(Faulty, {Fault, Fleet}, [fault |-> TRUE]),
      Case(Faulty, {Fault, Departure}, [fault |-> TRUE]),
      Case(PrimedState(<<>>, 1 :> Free), {Plug, Charge},
           [powers |-> 1 :> 22, connectors |-> 1 :> Plugged, accepted |-> {<<6, 1>>}]),
      Case(PrimedState(<<>>, 1 :> OutOfService), {Plug, Charge},
           [fault |-> TRUE, rejected |-> {<<1, "inadmissible">>}]),
      Case(Idle, {Departure}, [powers |-> 1 :> 22, accepted |-> {<<7>>}]),
      Case(Idle, {Negative}, [powers |-> 1 :> 0, rejected |-> {<<1, "policy">>}]),
      [Case(Idle, {Charge}, [powers |-> 1 :> 0, rejected |-> {<<1, "inactive_role">>}])
          EXCEPT !.run.active = @ \ {"driver"}] }

HarnessRuns ==
    {MatrixRun(m) : m \in Matrix} \cup {BudgetRun(v) : v \in {9, 10, 11}} \cup {HeadlineRun}
        \cup {c.run : c \in CaseSpecs} \cup {EmergencyRun} \cup {GovernanceRun(r) : r \in Precedences}

-----------------------------------------------------------------------------
(* matrix_oracle: power, connector and feeder state after one command and   *)
(* at most one signal for a point.                                          *)
ReadyForCommand(connector, role, signal) ==
    \/ connector \in {Plugged, Charging}
    \/ signal = "plug" /\ connector = Free /\ role = "driver"

MatrixOracle(connector, power, feeder, role, command, signal) ==
    LET finalConnector == CASE signal = "fault" -> OutOfService
                            [] signal = "plug" /\ connector = Free -> Plugged
                            [] OTHER -> connector
        finalFeeder == IF signal = "emergency" THEN Curtailed ELSE feeder
        allowed == /\ command = 0 \/ ReadyForCommand(connector, role, signal)
                   /\ finalFeeder = Curtailed => command <= CurtailedPower
        finalPower == CASE signal = "fault" -> 0
                        [] signal = "emergency" /\ power > CurtailedPower -> CurtailedPower
                        [] OTHER -> IF allowed THEN command ELSE power
    IN  <<{finalPower}, {finalConnector}, {finalFeeder}>>

-----------------------------------------------------------------------------
(* Properties. *)

RunFinished == phase = "run" /\ Finished

Commands == {e \in request.events : \E r \in DOMAIN CommandOf : CommandOf[r] = e.type}
Signals == {e \in request.events : \E s \in DOMAIN SignalOf : SignalOf[s] = e.type}

OnePoint ==
    /\ Cardinality(Commands) = 1 /\ Cardinality(Signals) <= 1
    /\ request.events = Commands \cup Signals
    /\ \A c \in Commands, e \in Signals : e.cp \in {c.cp, Feeder}
    /\ \A c \in Commands : /\ c.arg \in MinPower..MaxPower
                           /\ TotalPower(input.graph) + c.arg <= FeederBudget
    /\ request.rank = ROLE_RANK /\ request.active = DOMAIN ROLE_RANK

SignalName ==
    IF Signals = {} THEN "none"
    ELSE CHOOSE s \in DOMAIN SignalOf : \A e \in Signals : SignalOf[s] = e.type

(* Requests that fill the budget to the last kilowatt are all granted, one  *)
(* that exceeds it is refused whole.                                        *)
BudgetIsExact ==
    \A v \in {9, 10, 11} : request = BudgetRun(v) =>
        <<Power(current, 1), Power(current, 2), Power(current, 3)>>
            = <<{20}, {20}, {IF 40 + v <= FeederBudget THEN v ELSE 0}>>

(* A step that is one command for a point, and at most one plug-in, fault   *)
(* or emergency, ends as the oracle says, which knows no schedule and no    *)
(* gates; whenever they come, and whatever the other points draw as long as *)
(* the budget does not bind.  Where it binds, it binds exactly.             *)
OracleAgrees ==
    /\ RunFinished => BudgetIsExact
    /\ RunFinished /\ Admissible(input.graph) /\ OnePoint =>
        \A c \in Commands :
        \A p \in Power(input.graph, c.cp), k \in Connector(input.graph, c.cp),
           f \in FeederState(input.graph) :
            <<Power(current, c.cp), Connector(current, c.cp), FeederState(current)>>
                = MatrixOracle(k, p, f, EvEventRole[c.type], c.arg, SignalName)

(* The checks of run_case. *)
AsExpected(x) ==
    /\ Admissible(current)
    /\ x.emergency => /\ FeederState(current) = {Curtailed}
                      /\ \A cp \in ChargingPoints : \A p \in Power(current, cp) : p <= CurtailedPower
    /\ x.fault => Connector(current, 1) = {OutOfService} /\ Power(current, 1) = {0}
    /\ \A cp \in DOMAIN x.powers : Power(current, cp) = {x.powers[cp]}
    /\ \A cp \in DOMAIN x.connectors : Connector(current, cp) = {x.connectors[cp]}
    /\ \A rids \in x.accepted :
         rids = [i \in 1..Cardinality(accepted) |->
                    input.schedule[CHOOSE k \in accepted : Cardinality(accepted \cap 1..k) = i].rid]
    /\ \A r \in x.rejected : \E k \in DOMAIN decisions :
         input.schedule[k].rid = r[1] /\ k \notin accepted /\ decisions[k].reason = r[2]

(* The assertions of order_control, which resolves every order. *)
OrderControl ==
    LET schedule  == input.schedule
        Outcome(o) == FourGates(input.graph, o, input.active)
        Taken(K)  == NoGates(input.graph, SetToSeq({schedule[k] : k \in K}))
    IN  /\ \A K \in SUBSET DOMAIN schedule : Admissible(Taken(K)) <=> Cardinality(K) < 3
        /\ \A o \in Shuffles(schedule) : Len(Outcome(o).taken) = 2 /\ Admissible(Outcome(o).graph)
        /\ Cardinality({Outcome(o).graph : o \in Shuffles(schedule)}) = 3

(* run_headline_30_vs_random: without gates every order ends alike, and     *)
(* beyond what the shapes allow.                                            *)
Baselines ==
    \A g \in Ungated(input.graph, input.schedule) :
        g = NoGates(input.graph, input.schedule) /\ ~Admissible(g)

(* The emergency is answered by the reductions before the curtailment, and  *)
(* the precedence decides which of two commands a point ends with.          *)
Reported ==
    /\ request = EmergencyRun =>
         /\ [k \in DOMAIN input.schedule |-> input.schedule[k].rid] = <<5, 5, 4>>
         /\ accepted = 1..3
    /\ \A r \in Precedences : request = GovernanceRun(r) =>
         Power(current, 1) = {IF r.grid < r.fleet THEN 10 ELSE 22}

(* What the experiments assert or report: of every case its expectation; of *)
(* the emergency that load goes down before the feeder is curtailed; of two *)
(* competing commands that the precedence decides; and of the three         *)
(* headline requests that any two fit and the three do not, so each order   *)
(* grants exactly two, which two is decided by the order alone, and without *)
(* gates no order ends within the budget.                                   *)
OperationalOutcomes ==
    RunFinished => /\ \A c \in CaseSpecs : request = c.run => AsExpected(c.expect)
                   /\ Reported
                   /\ request = HeadlineRun => OrderControl /\ Baselines
=============================================================================
