--------------------------- MODULE BuildingProofs ---------------------------
(***************************************************************************)
(* The building, src/rule_engine.py with configs/rules.json, and its runs: *)
(* for any window, graph, context and log, and with at most two digits in  *)
(* a number, since only the texts of such numbers are modelled.            *)
(*                                                                         *)
(* An alarm is handled because its consequences come first in the schedule *)
(* (rank 0, the ventilation of priority 0 before the state of priority 1), *)
(* the earliest alarm's before the others' of its zone, and because        *)
(* emergency ventilation is admissible wherever the state before it is,    *)
(* and either emergency state is once that ventilation is in place.        *)
(*                                                                         *)
(* Orders and strategies are compared zone by zone: an action's gates look *)
(* at its own zone only, so a run of a schedule is known from the part of  *)
(* it that each zone has.  A run of steps is a chain of such runs, and its *)
(* increments are accounted for step by step.                              *)
(***************************************************************************)
EXTENDS MultiWindow, Replay, Strategies, ResolverProofs

(* The precedence of a rule's role.                                         *)
Rank(r) == RolePrecedence[r.role]

(* What the order of a schedule makes of a rule: alarms come first, the     *)
(* ventilation rule before the state rule.                                  *)
RankedAs(r) ==
    /\ r.rid \in 1..8 /\ r.priority \in 0..2 /\ Rank(r) \in 0..2
    /\ r.match \in {"setpoint", "vent", "emergency"}
    /\ r.rid \in {5, 6} \/ (r.role # "emergency" /\ Rank(r) # 0 /\ r.target # "emergency")

(* Rule r5: an alarm sets the emergency state of its zone.                  *)
IsStateRule(r) ==
    /\ r.role = "emergency" /\ Rank(r) = 0 /\ r.priority = 1
    /\ r.type = "EmergencyAlarm" /\ ~r.binds
    /\ r.match = "emergency" /\ r.target = "emergency" /\ r.value = "copy_arg"

(* Rule r6: an alarm sets the ventilation of its zone to emergency.         *)
IsVentRule(r) ==
    /\ r.role = "emergency" /\ Rank(r) = 0 /\ r.priority = 0
    /\ r.type = "EmergencyAlarm" /\ ~r.binds
    /\ r.match = "vent" /\ r.target = "vent" /\ r.value = "emergency_mode"

(* What the order of schedules needs to know of the eight rules.            *)
LEMMA RuleFacts ==
    /\ \A r \in Rules : RankedAs(r) /\ (r.rid = 5 => IsStateRule(r)) /\ (r.rid = 6 => IsVentRule(r))
    /\ \A r, q \in Rules : r.rid = q.rid => r = q
    /\ \E r \in Rules : r.rid = 5
    /\ \E r \in Rules : r.rid = 6
    /\ IsFiniteSet(Rules)
  <1> DEFINE r1 == Rule(1, 2, "OccupantSetpointRequest", "setpoint", TRUE, "setpoint", "add_arg")
             r2 == Rule(2, 1, "DemandResponsePeak", "setpoint", TRUE, "setpoint", "copy_arg")
             r3 == Rule(3, 1, "CO2Spike", "vent", FALSE, "vent", "copy_arg")
             r4 == Rule(4, 2, "OccupancyDetected", "setpoint", TRUE, "setpoint", "add_one")
             r5 == Rule(5, 1, "EmergencyAlarm", "emergency", FALSE, "emergency", "copy_arg")
             r6 == Rule(6, 0, "EmergencyAlarm", "vent", FALSE, "vent", "emergency_mode")
             r7 == Rule(7, 1, "PreheatRequest", "setpoint", TRUE, "setpoint", "copy_arg")
             r8 == Rule(8, 1, "DemandResponsePeak", "vent", FALSE, "vent", "off_mode")
  <1>1. /\ EventRole["EmergencyAlarm"] = "emergency"
        /\ EventRole["OccupantSetpointRequest"] = "occupant"
        /\ EventRole["OccupancyDetected"] = "occupant"
        /\ EventRole["DemandResponsePeak"] = "operator"
        /\ EventRole["CO2Spike"] = "operator"
        /\ EventRole["PreheatRequest"] = "operator"
    BY DEF EventRole
  <1>2. /\ RolePrecedence["emergency"] = 0 /\ RolePrecedence["operator"] = 1
        /\ RolePrecedence["occupant"] = 2
    BY DEF RolePrecedence
  <1>3. ASSUME NEW r \in Rules
        PROVE  RankedAs(r) /\ (r.rid = 5 => IsStateRule(r)) /\ (r.rid = 6 => IsVentRule(r))
    <2> USE <1>1, <1>2 DEF Rule, RankedAs, IsStateRule, IsVentRule, Rank
    <2>1. CASE r = r1
      BY <2>1
    <2>2. CASE r = r2
      BY <2>2
    <2>3. CASE r = r3
      BY <2>3
    <2>4. CASE r = r4
      BY <2>4
    <2>5. CASE r = r5
      BY <2>5
    <2>6. CASE r = r6
      BY <2>6
    <2>7. CASE r = r7
      BY <2>7
    <2>8. CASE r = r8
      BY <2>8
    <2> QED
      BY <2>1, <2>2, <2>3, <2>4, <2>5, <2>6, <2>7, <2>8 DEF Rules
  <1>4. \A r, q \in Rules : r.rid = q.rid => r = q
    <2>1. /\ r1.rid = 1 /\ r2.rid = 2 /\ r3.rid = 3 /\ r4.rid = 4
          /\ r5.rid = 5 /\ r6.rid = 6 /\ r7.rid = 7 /\ r8.rid = 8
      BY DEF Rule
    <2>2. Rules = {r1, r2, r3, r4, r5, r6, r7, r8}
      BY DEF Rules
    <2> HIDE DEF r1, r2, r3, r4, r5, r6, r7, r8
    <2> QED
      BY <2>1, <2>2
  <1>5. (\E r \in Rules : r.rid = 5) /\ (\E r \in Rules : r.rid = 6)
    BY DEF Rules, Rule
  <1>6. IsFiniteSet(Rules)
    <2>1. [r \in Rules |-> r.rid] \in Injection(Rules, 1..8)
      BY <1>3, <1>4 DEF Injection, IsInjective, RankedAs
    <2>2. 1 \in Int /\ 8 \in Int
      OBVIOUS
    <2>3. IsFiniteSet(1..8)
      BY <2>2, FS_Interval, Zenon
    <2> QED
      BY <2>1, <2>3, FS_Injection
  <1> QED
    BY <1>3, <1>4, <1>5, <1>6

(* The values a graph of the building may hold. *)
Small == -99..99

(* a is the action that rule r makes of event e with a row of the graph.    *)
Made(a, g, r, row, e) == row \in Rows(g, r, e) /\ a = CreateAction(r, row, e)

(* Rule evaluation makes an action of each rule, event and row.             *)
LEMMA EvaluatedIff ==
    ASSUME NEW g, NEW E, NEW a
    PROVE  a \in EvaluateRules(g, E) <=>
               \E r \in Rules, e \in E : \E row \in Rows(g, r, e) : Made(a, g, r, row, e)
  BY DEF EvaluateRules, Made

(* A query selects finitely many values of the graph, and none for an event *)
(* of another type than the rule's.                                         *)
LEMMA RowsTyped ==
    ASSUME NEW g \in [HvacSlots -> SUBSET Small], NEW r \in Rules, NEW E, EventRecords(E), NEW e \in E
    PROVE  /\ Rows(g, r, e) \subseteq Small
           /\ IsFiniteSet(Rows(g, r, e))
           /\ Rows(g, r, e) # {} => e.type = r.type
           /\ ~r.binds => Rows(g, r, e) \subseteq {0}
  <1>1. <<e.zone, r.match>> \in HvacSlots
    BY RuleFacts DEF RankedAs, HvacSlots, EventRecords
  <1>2. g[<<e.zone, r.match>>] \subseteq Small
    BY <1>1
  <1>3. Rows(g, r, e) \subseteq Small
    BY <1>2 DEF Rows, Small
  <1>4. -99 \in Int /\ 99 \in Int
    OBVIOUS
  <1>5. IsFiniteSet(Small)
    BY <1>4, FS_Interval, Zenon DEF Small
  <1>6. IsFiniteSet(Rows(g, r, e))
    BY <1>3, <1>5, FS_Subset
  <1> QED
    BY <1>3, <1>6 DEF Rows

(* The binding part of a key: an argument, an event and a row.              *)
LEMMA BindTyped ==
    ASSUME NEW r, NEW row \in Small, NEW e, e.eid \in Int, e.arg \in Small
    PROVE  Bound(BindKey(r, row, e), Text(IF r.rid \in {1, 2} THEN e.arg ELSE 0), e.eid, Text(row))
  <1> DEFINE n == IF r.rid \in {1, 2} THEN e.arg ELSE 0
  <1>1. n \in -99..99 /\ row \in -99..99
    BY DEF Small
  <1>2. BindKey(r, row, e) = (Text(n) \o <<e.eid>>) \o Text(row)
    BY DEF BindKey
  <1>3. /\ Text(n) \in Seq(Int) /\ Len(Text(n)) = 3
        /\ Text(row) \in Seq(Int) /\ Len(Text(row)) = 3
    BY <1>1, TextLength
  <1> HIDE DEF n
  <1>4. Bound((Text(n) \o <<e.eid>>) \o Text(row), Text(n), e.eid, Text(row))
    BY <1>3, ThreeParts, Zenon
  <1> QED
    BY <1>2, <1>4, Zenon DEF n

(* The graphs of the building.                                              *)
StateGraphs == [HvacSlots -> SUBSET Small]

(* The parts of an action that decide its place and its effect.             *)
Parts(a, r, row, e) ==
    /\ a.rid = r.rid /\ a.priority = r.priority /\ a.role = r.role /\ a.roleRank = Rank(r)
    /\ a.ts = e.ts /\ a.bind = BindKey(r, row, e)
    /\ a.slot = <<e.zone, r.target>> /\ a.value = BuildActionValue(r, row, e)

(* The key of the action of a rule, a row and an event.                     *)
KeyOf(k, r, row, e) ==
    /\ k \in Keys(11)
    /\ k[1] = Rank(r) /\ k[2] = r.priority /\ k[3] = e.ts /\ k[4] = r.rid /\ k[8] = e.eid
    /\ \A i \in 1..3 : k[4 + i] = Text(IF r.rid \in {1, 2} THEN e.arg ELSE 0)[i]
    /\ \A i \in 1..3 : k[8 + i] = Text(row)[i]

(* create_action makes an action of these parts.                            *)
LEMMA CreatedParts ==
    ASSUME NEW r, NEW row, NEW e
    PROVE  Parts(CreateAction(r, row, e), r, row, e)
  BY DEF CreateAction, Parts, Rank

(* The key of an action names the rule, the event and the row it is made    *)
(* of.                                                                      *)
LEMMA PartsKey ==
    ASSUME NEW r \in Rules, NEW row \in Small, NEW e, e.eid \in Int, e.ts \in Int, e.arg \in Small,
           NEW a, Parts(a, r, row, e)
    PROVE  KeyOf(ScheduleKey(a), r, row, e)
  <1>1. PICK b : b = BindKey(r, row, e)
    OBVIOUS
  <1>2. Bound(b, Text(IF r.rid \in {1, 2} THEN e.arg ELSE 0), e.eid, Text(row))
    BY <1>1, BindTyped
  <1>3. /\ r.rid \in Int /\ r.priority \in Int /\ Rank(r) \in Int
    BY RuleFacts DEF RankedAs
  <1>4. a.bind = b /\ a.roleRank = Rank(r) /\ a.priority = r.priority /\ a.ts = e.ts /\ a.rid = r.rid
    BY <1>1 DEF Parts
  <1>5. PICK k : k = ScheduleKey(a)
    OBVIOUS
  <1>6. /\ k \in Keys(11)
        /\ k[1] = a.roleRank /\ k[2] = a.priority /\ k[3] = a.ts /\ k[4] = a.rid
        /\ \A i \in 1..7 : k[4 + i] = a.bind[i]
    <2>1. a.roleRank \in Int /\ a.priority \in Int /\ a.ts \in Int /\ a.rid \in Int
      BY <1>3, <1>4
    <2>2. a.bind \in Seq(Int) /\ Len(a.bind) = 7 /\ 7 \in Nat
      BY <1>2, <1>4 DEF Bound
    <2>3. /\ k \in Keys(4 + 7)
          /\ k[1] = a.roleRank /\ k[2] = a.priority /\ k[3] = a.ts /\ k[4] = a.rid
          /\ \A i \in 1..7 : k[4 + i] = a.bind[i]
      BY <1>5, <2>1, <2>2, KeyParts, Zenon
    <2>4. 4 + 7 = 11
      OBVIOUS
    <2> QED
      BY <2>3, <2>4, Zenon
  <1>7. k[8] = e.eid /\ \A i \in 1..3 : k[4 + i] = b[i] /\ k[8 + i] = b[4 + i]
    <2>1. \A i \in 1..7 : k[4 + i] = b[i]
      BY <1>4, <1>6
    <2>2. k[4 + 4] = b[4]
      BY <2>1
    <2>3. ASSUME NEW i \in 1..3 PROVE k[4 + i] = b[i] /\ k[8 + i] = b[4 + i]
      <3>1. k[4 + (4 + i)] = b[4 + i] /\ 4 + (4 + i) = 8 + i
        BY <2>1
      <3> QED
        BY <2>1, <3>1
    <2> QED
      BY <1>2, <2>2, <2>3 DEF Bound
  <1>8. KeyOf(k, r, row, e)
    BY <1>2, <1>4, <1>6, <1>7 DEF KeyOf, Bound
  <1> QED
    BY <1>5, <1>8

(* A rule makes finitely many actions of an event.                          *)
LEMMA RowsFinite ==
    ASSUME NEW g \in StateGraphs, NEW E, EventRecords(E), NEW e \in E, NEW r \in Rules
    PROVE  IsFiniteSet({CreateAction(r, row, e) : row \in Rows(g, r, e)})
  <1>1. IsFiniteSet(Rows(g, r, e))
    BY RowsTyped DEF StateGraphs
  <1> DEFINE f == [row \in Rows(g, r, e) |-> CreateAction(r, row, e)]
  <1>2. {CreateAction(r, row, e) : row \in Rows(g, r, e)} = {f[row] : row \in Rows(g, r, e)}
    OBVIOUS
  <1> HIDE DEF f
  <1> QED
    BY <1>1, <1>2, ImageFinite

(* A window enables finitely many actions.                                  *)
LEMMA EvaluatedFinite ==
    ASSUME NEW g \in StateGraphs, NEW E, EventRecords(E)
    PROVE  IsFiniteSet(EvaluateRules(g, E))
  <1> DEFINE A(e, r) == {CreateAction(r, row, e) : row \in Rows(g, r, e)}
             B(e) == UNION {A(e, r) : r \in Rules}
  <1>1. ASSUME NEW e \in E PROVE IsFiniteSet(B(e))
    <2>1. \A r \in Rules : IsFiniteSet(A(e, r))
      BY RowsFinite
    <2> HIDE DEF A
    <2>2. IsFiniteSet({A(e, r) : r \in Rules})
      <3> DEFINE f == [r \in Rules |-> A(e, r)]
      <3>1. {A(e, r) : r \in Rules} = {f[r] : r \in Rules}
        OBVIOUS
      <3>2. IsFiniteSet(Rules)
        BY RuleFacts
      <3> HIDE DEF f, B
      <3> QED
        BY <3>1, <3>2, ImageFinite, Zenon
    <2> QED
      BY <2>1, <2>2, FS_UNION
  <1>2. IsFiniteSet(E)
    BY DEF EventRecords
  <1>3. EvaluateRules(g, E) = UNION {B(e) : e \in E}
    BY DEF EvaluateRules
  <1> HIDE DEF A, B
  <1>4. IsFiniteSet({B(e) : e \in E})
    <2> DEFINE f == [e \in E |-> B(e)]
    <2>1. {B(e) : e \in E} = {f[e] : e \in E}
      OBVIOUS
    <2> HIDE DEF f
    <2> QED
      BY <1>2, <2>1, ImageFinite
  <1> QED
    BY <1>1, <1>3, <1>4, FS_UNION

(* What an evaluated action is made of.                                     *)
LEMMA EvaluatedMade ==
    ASSUME NEW g \in StateGraphs, NEW E, EventRecords(E), NEW a \in EvaluateRules(g, E)
    PROVE  \E r \in Rules, e \in E : \E row \in Rows(g, r, e) :
             /\ a = CreateAction(r, row, e) /\ Parts(a, r, row, e)
             /\ row \in Small /\ e.type = r.type /\ (~r.binds => row = 0)
             /\ KeyOf(ScheduleKey(a), r, row, e)
  <1>1. PICK r \in Rules, e \in E : \E row \in Rows(g, r, e) : Made(a, g, r, row, e)
    BY EvaluatedIff
  <1>2. PICK row \in Rows(g, r, e) : a = CreateAction(r, row, e)
    BY <1>1 DEF Made
  <1>3. row \in Small /\ e.type = r.type /\ (~r.binds => row = 0)
    BY <1>2, RowsTyped DEF StateGraphs
  <1>4. Parts(a, r, row, e)
    BY <1>2, CreatedParts
  <1>5. e.eid \in Int /\ e.ts \in Int /\ e.arg \in Small
    BY DEF EventRecords, Small
  <1>6. KeyOf(ScheduleKey(a), r, row, e)
    BY <1>3, <1>4, <1>5, PartsKey
  <1> QED
    BY <1>2, <1>3, <1>4, <1>6

(* No two actions of a window share a key.                                  *)
LEMMA KeysDistinct ==
    ASSUME NEW g \in StateGraphs, NEW E, EventRecords(E),
           NEW a \in EvaluateRules(g, E), NEW b \in EvaluateRules(g, E),
           ScheduleKey(a) = ScheduleKey(b)
    PROVE  a = b
  <1>1. PICK r \in Rules, e \in E : \E row \in Rows(g, r, e) :
             /\ a = CreateAction(r, row, e) /\ row \in Small
             /\ KeyOf(ScheduleKey(a), r, row, e)
    BY EvaluatedMade
  <1>2. PICK row \in Rows(g, r, e) :
             /\ a = CreateAction(r, row, e) /\ row \in Small
             /\ KeyOf(ScheduleKey(a), r, row, e)
    BY <1>1
  <1>3. PICK q \in Rules, f \in E : \E col \in Rows(g, q, f) :
             /\ b = CreateAction(q, col, f) /\ col \in Small
             /\ KeyOf(ScheduleKey(b), q, col, f)
    BY EvaluatedMade
  <1>4. PICK col \in Rows(g, q, f) :
             /\ b = CreateAction(q, col, f) /\ col \in Small
             /\ KeyOf(ScheduleKey(b), q, col, f)
    BY <1>3
  <1>5. PICK k : k = ScheduleKey(a)
    OBVIOUS
  <1>6. KeyOf(k, r, row, e) /\ KeyOf(k, q, col, f)
    BY <1>2, <1>4, <1>5
  <1>7. r.rid = q.rid /\ e.eid = f.eid /\ \A i \in 1..3 : Text(row)[i] = Text(col)[i]
    BY <1>6 DEF KeyOf
  <1>8. r = q /\ e = f
    BY <1>7, RuleFacts DEF EventRecords
  <1>9. row = col
    BY <1>2, <1>4, <1>7, TextInjective DEF Small
  <1> QED
    BY <1>2, <1>4, <1>8, <1>9

(* The schedule of a window is its actions in the order of their keys.      *)
LEMMA WindowSchedule ==
    ASSUME NEW g \in StateGraphs, NEW E, EventRecords(E)
    PROVE  LET s == ScheduleActions(EvaluateRules(g, E)) IN
           /\ s \in Seq(EvaluateRules(g, E))
           /\ \A a \in EvaluateRules(g, E) : \E i \in 1..Len(s) : s[i] = a
           /\ \A i, j \in 1..Len(s) : i < j => LexLess(ScheduleKey(s[i]), ScheduleKey(s[j]))
  <1>1. \A a \in EvaluateRules(g, E) : ScheduleKey(a) \in Keys(11)
    BY EvaluatedMade DEF KeyOf
  <1>2. \A a, b \in EvaluateRules(g, E) : ScheduleKey(a) = ScheduleKey(b) => a = b
    BY KeysDistinct
  <1>3. IsFiniteSet(EvaluateRules(g, E)) /\ 11 \in Nat
    BY EvaluatedFinite
  <1> QED
    BY <1>1, <1>2, <1>3, ScheduleIsSorted

(* e is an alarm of the window E.                                           *)
IsAlarm(E, e) == e \in E /\ e.type = "EmergencyAlarm"

(* k is the key of what rule rid of priority p makes of the alarm e.        *)
AlarmKey(k, p, rid, e) ==
    /\ k \in Keys(11)
    /\ k[1] = 0 /\ k[2] = p /\ k[3] = e.ts /\ k[4] = rid /\ k[8] = e.eid
    /\ \A i \in 1..3 : k[4 + i] = Text(0)[i] /\ k[8 + i] = Text(0)[i]

(* a is what rule r6 makes of the alarm e.                                  *)
VentAction(a, e) ==
    /\ a.role = "emergency" /\ a.slot = <<e.zone, "vent">> /\ a.value = Emergency
    /\ AlarmKey(ScheduleKey(a), 0, 6, e)

(* a is what rule r5 makes of the alarm e.                                  *)
StateAction(a, e) ==
    /\ a.role = "emergency" /\ a.slot = <<e.zone, "emergency">> /\ a.value = e.arg
    /\ AlarmKey(ScheduleKey(a), 1, 5, e)

(* a ranks after everything an alarm makes.                                 *)
OtherAction(a) == ScheduleKey(a) \in Keys(11) /\ ScheduleKey(a)[1] >= 1

(* e comes before f. *)
Sooner(e, f) == e.ts < f.ts \/ (e.ts = f.ts /\ e.eid < f.eid)

(* Rule r6 makes a ventilation action.                                      *)
LEMMA VentMade ==
    ASSUME NEW r \in Rules, r.rid = 6, NEW e, NEW a, Parts(a, r, 0, e), KeyOf(ScheduleKey(a), r, 0, e)
    PROVE  VentAction(a, e)
  <1>1. IsVentRule(r)
    BY RuleFacts
  <1>2. BuildActionValue(r, 0, e) = Emergency
    BY <1>1 DEF IsVentRule, BuildActionValue
  <1>3. AlarmKey(ScheduleKey(a), 0, 6, e)
    BY <1>1 DEF IsVentRule, KeyOf, AlarmKey
  <1> QED
    BY <1>1, <1>2, <1>3 DEF IsVentRule, Parts, VentAction

(* Rule r5 makes an emergency state action.                                 *)
LEMMA StateMade ==
    ASSUME NEW r \in Rules, r.rid = 5, NEW e, NEW a, Parts(a, r, 0, e), KeyOf(ScheduleKey(a), r, 0, e)
    PROVE  StateAction(a, e)
  <1>1. IsStateRule(r)
    BY RuleFacts
  <1>2. BuildActionValue(r, 0, e) = e.arg
    BY <1>1 DEF IsStateRule, BuildActionValue
  <1>3. AlarmKey(ScheduleKey(a), 1, 5, e)
    BY <1>1 DEF IsStateRule, KeyOf, AlarmKey
  <1> QED
    BY <1>1, <1>2, <1>3 DEF IsStateRule, Parts, StateAction

(* An action is a consequence of an alarm or ranks after every such one.    *)
LEMMA ThreeKinds ==
    ASSUME NEW g \in StateGraphs, NEW E, EventRecords(E), NEW a \in EvaluateRules(g, E)
    PROVE  \/ \E e \in E : IsAlarm(E, e) /\ (VentAction(a, e) \/ StateAction(a, e))
           \/ OtherAction(a)
  <1>1. PICK r \in Rules, e \in E : \E row \in Rows(g, r, e) :
             /\ Parts(a, r, row, e) /\ e.type = r.type /\ (~r.binds => row = 0)
             /\ KeyOf(ScheduleKey(a), r, row, e)
    BY EvaluatedMade
  <1>2. PICK row \in Rows(g, r, e) :
             /\ Parts(a, r, row, e) /\ e.type = r.type /\ (~r.binds => row = 0)
             /\ KeyOf(ScheduleKey(a), r, row, e)
    BY <1>1
  <1>3. CASE r.rid = 5
    <2>1. e.type = "EmergencyAlarm" /\ row = 0
      BY <1>2, <1>3, RuleFacts DEF IsStateRule
    <2> QED
      BY <1>2, <1>3, <2>1, StateMade DEF IsAlarm
  <1>4. CASE r.rid = 6
    <2>1. e.type = "EmergencyAlarm" /\ row = 0
      BY <1>2, <1>4, RuleFacts DEF IsVentRule
    <2> QED
      BY <1>2, <1>4, <2>1, VentMade DEF IsAlarm
  <1>5. CASE r.rid \notin {5, 6}
    <2>1. Rank(r) \in 1..2
      BY <1>5, RuleFacts DEF RankedAs
    <2> QED
      BY <1>2, <2>1 DEF KeyOf, OtherAction
  <1> QED
    BY <1>3, <1>4, <1>5

(* An alarm in a zone whose state is known yields both its consequences.    *)
LEMMA AlarmYields ==
    ASSUME NEW g \in StateGraphs, NEW E, EventRecords(E), NEW e \in E, IsAlarm(E, e),
           EmergencyState(g, e.zone) # {}, Vent(g, e.zone) # {}
    PROVE  /\ \E a \in EvaluateRules(g, E) : VentAction(a, e)
           /\ \E a \in EvaluateRules(g, E) : StateAction(a, e)
  <1>1. ASSUME NEW r \in Rules, r.rid \in {5, 6}
        PROVE  \E a \in EvaluateRules(g, E) : Parts(a, r, 0, e) /\ KeyOf(ScheduleKey(a), r, 0, e)
    <2>1. /\ r.type = "EmergencyAlarm" /\ ~r.binds /\ r.rid # 4
          /\ r.match \in {"vent", "emergency"}
      BY <1>1, RuleFacts DEF IsStateRule, IsVentRule
    <2>2. g[<<e.zone, r.match>>] # {}
      BY <2>1 DEF EmergencyState, Vent
    <2>3. 0 \in Rows(g, r, e)
      BY <2>1, <2>2 DEF Rows, IsAlarm
    <2>4. CreateAction(r, 0, e) \in EvaluateRules(g, E)
      BY <2>3 DEF EvaluateRules
    <2>5. Parts(CreateAction(r, 0, e), r, 0, e)
      BY CreatedParts
    <2>6. e.eid \in Int /\ e.ts \in Int /\ e.arg \in Small /\ 0 \in Small
      BY DEF EventRecords, Small
    <2>7. KeyOf(ScheduleKey(CreateAction(r, 0, e)), r, 0, e)
      BY <2>5, <2>6, PartsKey
    <2> QED
      BY <2>4, <2>5, <2>7
  <1>2. \E a \in EvaluateRules(g, E) : VentAction(a, e)
    BY <1>1, RuleFacts, VentMade
  <1>3. \E a \in EvaluateRules(g, E) : StateAction(a, e)
    BY <1>1, RuleFacts, StateMade
  <1> QED
    BY <1>2, <1>3

(* Alarms of one rule are in the order of their times and identifiers.      *)
LEMMA SameRuleOrder ==
    ASSUME NEW x, NEW y, NEW p, NEW rid, NEW e, NEW f,
           AlarmKey(x, p, rid, e), AlarmKey(y, p, rid, f), LexLess(x, y)
    PROVE  Sooner(e, f)
  <1>1. DOMAIN x = 1..11
    BY DEF AlarmKey, Keys
  <1>2. PICK i \in 1..11 : x[i] < y[i] /\ \A j \in 1..i - 1 : x[j] = y[j]
    BY <1>1 DEF LexLess
  <1>3. /\ x \in [1..11 -> Int] /\ y \in [1..11 -> Int]
        /\ x[1] = y[1] /\ x[2] = y[2] /\ x[4] = y[4]
        /\ x[3] = e.ts /\ y[3] = f.ts /\ x[8] = e.eid /\ y[8] = f.eid
    BY DEF AlarmKey, Keys
  <1>4. \A k \in 1..3 : x[4 + k] = y[4 + k] /\ x[8 + k] = y[8 + k]
    BY DEF AlarmKey
  <1>5. x[5] = y[5] /\ x[6] = y[6] /\ x[7] = y[7] /\ x[9] = y[9] /\ x[10] = y[10] /\ x[11] = y[11]
    <2>1. 1 \in 1..3 /\ 2 \in 1..3 /\ 3 \in 1..3
      OBVIOUS
    <2>2. x[4 + 1] = y[4 + 1] /\ x[4 + 2] = y[4 + 2] /\ x[4 + 3] = y[4 + 3]
          /\ x[8 + 1] = y[8 + 1] /\ x[8 + 2] = y[8 + 2] /\ x[8 + 3] = y[8 + 3]
      BY <1>4, <2>1
    <2> QED
      BY <2>2
  <1>6. i = 3 \/ i = 8
    BY <1>2, <1>3, <1>5
  <1>7. CASE i = 3
    BY <1>2, <1>3, <1>7 DEF Sooner
  <1>8. CASE i = 8
    <2>1. x[3] = y[3]
      BY <1>2, <1>8
    <2> QED
      BY <1>2, <1>3, <1>8, <2>1 DEF Sooner
  <1> QED
    BY <1>6, <1>7, <1>8

(* Nothing but an alarm's ventilation comes before one, and nothing but     *)
(* alarms before an emergency state.                                        *)
LEMMA AlarmsFirst ==
    ASSUME NEW x \in Keys(11), NEW y, NEW p, NEW rid, NEW f, AlarmKey(y, p, rid, f), LexLess(x, y)
    PROVE  /\ ~(x[1] >= 1)
           /\ p = 0 => \A q, e : ~AlarmKey(x, 1, q, e)
  <1>1. PICK i \in 1..11 : x[i] < y[i] /\ \A j \in 1..i - 1 : x[j] = y[j]
    BY DEF LexLess, Keys
  <1>2. x[1] \in Int /\ x[2] \in Int /\ y[1] = 0 /\ y[2] = p
    BY DEF AlarmKey, Keys
  <1>3. ~(x[1] >= 1)
    BY <1>1, <1>2
  <1>4. ASSUME p = 0, NEW q, NEW e, AlarmKey(x, 1, q, e)
        PROVE  FALSE
    <2>1. x[1] = 0 /\ x[2] = 1
      BY <1>4 DEF AlarmKey
    <2> QED
      BY <1>1, <1>2, <1>4, <2>1
  <1> QED
    BY <1>3, <1>4

(* The building as an instance of the resolver. *)
BuildingProfile ==
    /\ Slots = HvacSlots
    /\ Inputs = HvacInputs
    /\ \A g : Admissible(g) <=> HvacAdmissible(g)
    /\ \A g, a : PolicyOK(g, a) <=> HvacPolicyOK(g, a)

(* Ventilation at emergency is admissible wherever the rest of the zone is. *)
LEMMA VentKeepsAdmissible ==
    ASSUME NEW g, DOMAIN g = HvacSlots, HvacAdmissible(g), NEW z \in Zones
    PROVE  HvacAdmissible([g EXCEPT ![<<z, "vent">>] = {Emergency}])
  <1> DEFINE h == [g EXCEPT ![<<z, "vent">>] = {Emergency}]
  <1>1. ASSUME NEW y \in Zones
        PROVE  /\ Setpoint(h, y) = Setpoint(g, y) /\ EmergencyState(h, y) = EmergencyState(g, y)
               /\ Vent(h, y) = IF y = z THEN {Emergency} ELSE Vent(g, y)
    BY DEF Setpoint, EmergencyState, Vent, HvacSlots
  <1> HIDE DEF h
  <1>2. Cardinality({Emergency}) = 1
    BY FS_Singleton
  <1>3. ASSUME NEW y \in Zones
        PROVE  /\ ZoneSetpointShape(h, y) /\ ZoneVentilationShape(h, y)
               /\ EmergencyStateShape(h, y) /\ EmergencyVentLockShape(h, y)
    BY <1>1, <1>2 DEF HvacAdmissible, ZoneSetpointShape, ZoneVentilationShape,
                      EmergencyStateShape, EmergencyVentLockShape
  <1>4. "A" \in Zones
    BY DEF Zones
  <1>5. ZoneAComfortCapShape(h)
    BY <1>1, <1>4 DEF HvacAdmissible, ZoneAComfortCapShape
  <1>6. ZoneAEmergencyVentShape(h)
    BY <1>1, <1>4 DEF HvacAdmissible, ZoneAEmergencyVentShape, Off, Emergency
  <1> QED
    BY <1>3, <1>5, <1>6 DEF HvacAdmissible, h

(* With the ventilation there, so is either emergency state.                *)
LEMMA StateKeepsAdmissible ==
    ASSUME NEW g, DOMAIN g = HvacSlots, HvacAdmissible(g), NEW z \in Zones,
           Vent(g, z) = {Emergency}, NEW v \in {0, 1}
    PROVE  HvacAdmissible([g EXCEPT ![<<z, "emergency">>] = {v}])
  <1> DEFINE h == [g EXCEPT ![<<z, "emergency">>] = {v}]
  <1>1. ASSUME NEW y \in Zones
        PROVE  /\ Setpoint(h, y) = Setpoint(g, y) /\ Vent(h, y) = Vent(g, y)
               /\ EmergencyState(h, y) = IF y = z THEN {v} ELSE EmergencyState(g, y)
    BY DEF Setpoint, EmergencyState, Vent, HvacSlots
  <1> HIDE DEF h
  <1>2. Cardinality({v}) = 1
    BY FS_Singleton
  <1>3. ASSUME NEW y \in Zones
        PROVE  /\ ZoneSetpointShape(h, y) /\ ZoneVentilationShape(h, y)
               /\ EmergencyStateShape(h, y) /\ EmergencyVentLockShape(h, y)
    BY <1>1, <1>2 DEF HvacAdmissible, ZoneSetpointShape, ZoneVentilationShape,
                      EmergencyStateShape, EmergencyVentLockShape
  <1>4. "A" \in Zones
    BY DEF Zones
  <1>5. ZoneAComfortCapShape(h) /\ ZoneAEmergencyVentShape(h)
    BY <1>1, <1>4 DEF HvacAdmissible, ZoneAComfortCapShape, ZoneAEmergencyVentShape
  <1> QED
    BY <1>3, <1>5 DEF HvacAdmissible, h

(* A resolution of the window's schedule, with every verdict justified and  *)
(* every state on the way admissible.                                       *)
ResolvedWindow(in, K, E) ==
    /\ in.graph \in StateGraphs /\ HvacAdmissible(in.graph) /\ "emergency" \in in.active
    /\ EventRecords(E)
    /\ in.schedule = ScheduleActions(EvaluateRules(in.graph, E))
    /\ K \subseteq 1..Len(in.schedule)
    /\ \A k \in 1..Len(in.schedule) :
         JustifiedBy(in, K, k) /\ HvacAdmissible(OverlayOf(in, Earlier(K, k)))

(* e is the earliest alarm of its zone in the window.                       *)
Earliest(E, e) ==
    IsAlarm(E, e) /\ \A f \in E : IsAlarm(E, f) /\ f.zone = e.zone => f = e \/ Sooner(e, f)

(* Before the ventilation of a zone's earliest alarm stand ventilations of  *)
(* other zones only.                                                        *)
LEMMA BeforeVent ==
    ASSUME NEW in, NEW K, NEW E, ResolvedWindow(in, K, E), NEW e, Earliest(E, e),
           NEW i \in 1..Len(in.schedule), VentAction(in.schedule[i], e),
           NEW j \in 1..Len(in.schedule), j < i
    PROVE  in.schedule[j].slot # <<e.zone, "vent">>
  <1> DEFINE s == in.schedule
             x == ScheduleKey(s[j])
             y == ScheduleKey(s[i])
  <1>1. LexLess(x, y) /\ s[j] \in EvaluateRules(in.graph, E)
    BY WindowSchedule DEF ResolvedWindow
  <1>2. AlarmKey(y, 0, 6, e)
    BY DEF VentAction
  <1>3. \/ \E f \in E : IsAlarm(E, f) /\ (VentAction(s[j], f) \/ StateAction(s[j], f))
        \/ OtherAction(s[j])
    BY <1>1, ThreeKinds DEF ResolvedWindow
  <1>4. ~OtherAction(s[j])
    BY <1>1, <1>2, AlarmsFirst DEF OtherAction
  <1>5. PICK f \in E : IsAlarm(E, f) /\ (VentAction(s[j], f) \/ StateAction(s[j], f))
    BY <1>3, <1>4
  <1>6. ~StateAction(s[j], f)
    BY <1>1, <1>2, AlarmsFirst DEF StateAction, AlarmKey
  <1>7. AlarmKey(x, 0, 6, f) /\ s[j].slot = <<f.zone, "vent">>
    BY <1>5, <1>6 DEF VentAction
  <1>8. Sooner(f, e)
    BY <1>1, <1>2, <1>7, SameRuleOrder
  <1>9. f.zone # e.zone
    BY <1>5, <1>8 DEF Earliest, IsAlarm, Sooner, ResolvedWindow, EventRecords
  <1> QED
    BY <1>7, <1>9

(* Before the emergency state of a zone's earliest alarm stands no other,   *)
(* and every ventilation of the zone there is emergency.                    *)
LEMMA BeforeState ==
    ASSUME NEW in, NEW K, NEW E, ResolvedWindow(in, K, E), NEW e, Earliest(E, e),
           NEW i \in 1..Len(in.schedule), StateAction(in.schedule[i], e),
           NEW j \in 1..Len(in.schedule), j < i
    PROVE  /\ in.schedule[j].slot # <<e.zone, "emergency">>
           /\ in.schedule[j].slot = <<e.zone, "vent">> => in.schedule[j].value = Emergency
  <1> DEFINE s == in.schedule
             x == ScheduleKey(s[j])
             y == ScheduleKey(s[i])
  <1>1. LexLess(x, y) /\ s[j] \in EvaluateRules(in.graph, E)
    BY WindowSchedule DEF ResolvedWindow
  <1>2. AlarmKey(y, 1, 5, e)
    BY DEF StateAction
  <1>3. \/ \E f \in E : IsAlarm(E, f) /\ (VentAction(s[j], f) \/ StateAction(s[j], f))
        \/ OtherAction(s[j])
    BY <1>1, ThreeKinds DEF ResolvedWindow
  <1>4. ~OtherAction(s[j])
    BY <1>1, <1>2, AlarmsFirst DEF OtherAction
  <1>5. PICK f \in E : IsAlarm(E, f) /\ (VentAction(s[j], f) \/ StateAction(s[j], f))
    BY <1>3, <1>4
  <1>6. CASE VentAction(s[j], f)
    BY <1>6 DEF VentAction
  <1>7. CASE StateAction(s[j], f)
    <2>1. AlarmKey(x, 1, 5, f) /\ s[j].slot = <<f.zone, "emergency">>
      BY <1>7 DEF StateAction
    <2>2. Sooner(f, e)
      BY <1>1, <1>2, <2>1, SameRuleOrder
    <2>3. f.zone # e.zone
      BY <1>5, <2>2 DEF Earliest, IsAlarm, Sooner, ResolvedWindow, EventRecords
    <2> QED
      BY <2>1, <2>3
  <1> QED
    BY <1>5, <1>6, <1>7

(* The ventilation comes before the emergency state.                        *)
LEMMA VentBeforeState ==
    ASSUME NEW in, NEW K, NEW E, ResolvedWindow(in, K, E), NEW e,
           NEW i \in 1..Len(in.schedule), VentAction(in.schedule[i], e),
           NEW j \in 1..Len(in.schedule), StateAction(in.schedule[j], e)
    PROVE  i < j
  <1> DEFINE s == in.schedule
  <1>1. AlarmKey(ScheduleKey(s[i]), 0, 6, e) /\ AlarmKey(ScheduleKey(s[j]), 1, 5, e)
    BY DEF VentAction, StateAction
  <1>2. i # j
    BY <1>1 DEF AlarmKey
  <1>3. ~(j < i)
    <2> SUFFICES ASSUME j < i PROVE FALSE
      OBVIOUS
    <2>1. LexLess(ScheduleKey(s[j]), ScheduleKey(s[i]))
      BY WindowSchedule DEF ResolvedWindow
    <2> QED
      BY <1>1, <2>1, AlarmsFirst DEF AlarmKey
  <1>4. i \in Int /\ j \in Int
    OBVIOUS
  <1> QED
    BY <1>2, <1>3, <1>4

(* Both consequences of the earliest alarm of a zone are accepted.          *)
LEMMA EarliestAccepted ==
    ASSUME BuildingProfile, NEW in, NEW K, NEW E, ResolvedWindow(in, K, E), NEW e, Earliest(E, e)
    PROVE  \E i, j \in K : VentAction(in.schedule[i], e) /\ StateAction(in.schedule[j], e)
  <1> DEFINE s == in.schedule
             z == e.zone
             before(k) == OverlayOf(in, Earlier(K, k))
  <1>1. e \in E /\ z \in Zones /\ e.arg \in {0, 1}
    BY DEF Earliest, IsAlarm, ResolvedWindow, EventRecords
  <1>2. EmergencyState(in.graph, z) # {} /\ Vent(in.graph, z) # {}
    <2>1. Cardinality(EmergencyState(in.graph, z)) = 1 /\ Cardinality(Vent(in.graph, z)) = 1
      BY <1>1 DEF ResolvedWindow, HvacAdmissible, EmergencyStateShape, ZoneVentilationShape
    <2> QED
      BY <2>1, FS_EmptySet
  <1>3. /\ \E a \in EvaluateRules(in.graph, E) : VentAction(a, e)
        /\ \E a \in EvaluateRules(in.graph, E) : StateAction(a, e)
    BY <1>1, <1>2, AlarmYields DEF Earliest, ResolvedWindow
  <1>4. \A a \in EvaluateRules(in.graph, E) : \E i \in 1..Len(s) : s[i] = a
    BY WindowSchedule DEF ResolvedWindow
  <1>5. PICK i \in 1..Len(s) : VentAction(s[i], e)
    BY <1>3, <1>4
  <1>6. PICK j \in 1..Len(s) : StateAction(s[j], e)
    BY <1>3, <1>4
  <1>7. ASSUME NEW k \in 1..Len(s)
        PROVE  /\ k \in K <=> Gates(in, Earlier(K, k), before(k), s[k])
               /\ HvacAdmissible(before(k)) /\ DOMAIN before(k) = HvacSlots
               /\ \A l \in Earlier(K, k) : l \in 1..Len(s) /\ l < k
    BY DEF ResolvedWindow, JustifiedBy, BuildingProfile, OverlayOf, Earlier
  <1>8. i \in K
    <2>1. s[i].role \in in.active
      BY <1>5 DEF VentAction, ResolvedWindow
    <2>2. PolicyOK(before(i), s[i])
      BY <1>5 DEF BuildingProfile, HvacPolicyOK, VentAction
    <2>3. \A l \in Earlier(K, i) : s[l].slot # s[i].slot
      BY <1>5, <1>7, BeforeVent DEF VentAction
    <2>4. Admissible(Apply(before(i), s[i]))
      <3>1. Apply(before(i), s[i]) = [before(i) EXCEPT ![<<z, "vent">>] = {Emergency}]
        BY <1>5 DEF Apply, VentAction
      <3> QED
        BY <1>1, <1>7, <3>1, VentKeepsAdmissible DEF BuildingProfile
    <2> QED
      BY <1>7, <2>1, <2>2, <2>3, <2>4 DEF Gates
  <1>9. i \in Earlier(K, j)
    BY <1>5, <1>6, <1>8, VentBeforeState DEF Earlier
  <1>10. j \in K
    <2>1. s[j].role \in in.active
      BY <1>6 DEF StateAction, ResolvedWindow
    <2>2. PolicyOK(before(j), s[j])
      BY <1>6 DEF BuildingProfile, HvacPolicyOK, StateAction
    <2>3. \A l \in Earlier(K, j) : /\ s[l].slot # s[j].slot
                                   /\ s[l].slot = <<z, "vent">> => s[l].value = Emergency
      BY <1>6, <1>7, BeforeState DEF StateAction
    <2>4. Vent(before(j), z) = {Emergency}
      <3>1. s[i].slot = <<z, "vent">>
        BY <1>5 DEF VentAction
      <3>2. <<z, "vent">> \in Slots
        BY <1>1 DEF BuildingProfile, HvacSlots
      <3>3. before(j)[<<z, "vent">>] =
              {s[k].value : k \in {k \in Earlier(K, j) : s[k].slot = <<z, "vent">>}}
        BY <1>9, <3>1, <3>2 DEF OverlayOf
      <3> QED
        BY <1>9, <2>3, <3>1, <3>3 DEF Vent
    <2>5. Admissible(Apply(before(j), s[j]))
      <3>1. Apply(before(j), s[j]) = [before(j) EXCEPT ![<<z, "emergency">>] = {e.arg}]
        BY <1>6 DEF Apply, StateAction
      <3> QED
        BY <1>1, <1>7, <2>4, <3>1, StateKeepsAdmissible DEF BuildingProfile
    <2> QED
      BY <1>7, <2>1, <2>2, <2>3, <2>5 DEF Gates
  <1> QED
    BY <1>5, <1>6, <1>8, <1>10

(* The resolver is given the schedule of the requested step.                *)
RequestInv == request \in Requests /\ input = StepInput(request)

(* A step is a resolution of the schedule of its window.                    *)
LEMMA StepResolves ==
    ASSUME BuildingProfile
    PROVE  HvacSpec => Spec /\ []RequestInv
  <1>1. RunEngineInit => Init /\ RequestInv
    <2> SUFFICES ASSUME RunEngineInit PROVE input \in HvacInputs
      BY DEF RunEngineInit, Init, RequestInv, BuildingProfile
    <2>1. /\ request.graph \in StartGraphs /\ request.events \in SUBSET WindowEvents
          /\ request.context \in DOMAIN ActiveRoles
      BY DEF RunEngineInit, Requests
    <2> QED
      BY <2>1 DEF RunEngineInit, StepInput, HvacInputs
  <1>2. [Next /\ UNCHANGED request]_hvacVars => [Next]_resolverVars
    BY DEF hvacVars, resolverVars
  <1>3. RequestInv /\ [Next /\ UNCHANGED request]_hvacVars => RequestInv'
    <2> SUFFICES ASSUME RequestInv, [Next /\ UNCHANGED request]_hvacVars
                 PROVE  UNCHANGED <<input, request>>
      BY DEF RequestInv, StepInput
    <2> QED
      BY DEF hvacVars, resolverVars, Next, RejectRole, RejectPolicy, RejectShadowed,
             RejectInadmissible, Reject, Accept
  <1> QED
    BY <1>1, <1>2, <1>3, PTL DEF HvacSpec, Spec

(* The alarm's consequences are in the state they were accepted into.       *)
LEMMA FinishedHandles ==
    ASSUME BuildingProfile, IInv, DecisionsJustified, PrefixesAdmissible, RequestInv
    PROVE  EmergencyHandled
  <1> SUFFICES ASSUME Finished, Admissible(request.graph), NEW z \in Zones, NEW e \in Alarms(z),
                      \A f \in Alarms(z) : <<e.ts, e.eid>> = <<f.ts, f.eid>>
                                             \/ LexLess(<<e.ts, e.eid>>, <<f.ts, f.eid>>)
               PROVE  EmergencyState(current, z) = {e.arg} /\ Vent(current, z) = {Emergency}
    BY DEF EmergencyHandled
  <1> DEFINE E == request.events
  <1>1. /\ request.graph \in StartGraphs /\ E \subseteq WindowEvents
        /\ request.context \in DOMAIN ActiveRoles
        /\ input.graph = request.graph
        /\ input.schedule = ScheduleActions(EvaluateRules(input.graph, E))
        /\ input.active = ActiveRoles[request.context]
    BY DEF RequestInv, Requests, StepInput
  <1>2. EventRecords(E)
    <2>1. IsFiniteSet(E)
      BY <1>1, StepConstants, FS_Subset DEF EventRecords
    <2> QED
      BY <1>1, <2>1, StepConstants DEF EventRecords
  <1>3. input.graph \in StateGraphs
    BY StepConstants DEF IInv, TypeOK, Input, Graph, StateGraphs, BuildingProfile, Small
  <1>4. "emergency" \in input.active
    BY <1>1 DEF ActiveRoles, RolePrecedence
  <1>5. Len(decisions) = Len(input.schedule)
    BY DEF Finished
  <1>6. ResolvedWindow(input, accepted, E)
    <2>1. accepted \subseteq 1..Len(input.schedule)
      BY <1>5 DEF IInv, TypeOK
    <2>2. \A k \in 1..Len(input.schedule) : JustifiedBy(input, accepted, k)
      BY <1>5, JustifiedMeans
    <2>3. \A k \in 1..Len(input.schedule) : k \in 1..Turn
      BY <1>5 DEF Turn, IInv, TypeOK
    <2>4. \A k \in 1..Len(input.schedule) : HvacAdmissible(OverlayOf(input, Earlier(accepted, k)))
      BY <1>1, <2>3 DEF PrefixesAdmissible, BuildingProfile
    <2>5. HvacAdmissible(input.graph)
      BY <1>1 DEF BuildingProfile
    <2> QED
      BY <1>1, <1>2, <1>3, <1>4, <2>1, <2>2, <2>4, <2>5 DEF ResolvedWindow
  <1>7. Earliest(E, e)
    <2>1. IsAlarm(E, e) /\ e.zone = z
      BY DEF Alarms, IsAlarm
    <2>2. ASSUME NEW f \in E, IsAlarm(E, f), f.zone = z
          PROVE  f = e \/ Sooner(e, f)
      <3>1. f \in Alarms(z) /\ e \in E
        BY <2>1, <2>2 DEF Alarms, IsAlarm
      <3>2. CASE <<e.ts, e.eid>> = <<f.ts, f.eid>>
        BY <1>2, <3>1, <3>2 DEF EventRecords
      <3>3. CASE LexLess(<<e.ts, e.eid>>, <<f.ts, f.eid>>)
        <4>1. PICK i \in 1..2 : /\ <<e.ts, e.eid>>[i] < <<f.ts, f.eid>>[i]
                                /\ \A j \in 1..i - 1 : <<e.ts, e.eid>>[j] = <<f.ts, f.eid>>[j]
          BY <3>3 DEF LexLess
        <4>2. CASE i = 1
          BY <4>1, <4>2 DEF Sooner
        <4>3. CASE i = 2
          BY <4>1, <4>3 DEF Sooner
        <4> QED
          BY <4>2, <4>3
      <3> QED
        BY <3>1, <3>2, <3>3
    <2> QED
      BY <2>1, <2>2 DEF Earliest
  <1>8. PICK i, j \in accepted : VentAction(input.schedule[i], e) /\ StateAction(input.schedule[j], e)
    BY <1>6, <1>7, EarliestAccepted
  <1>9. e.zone = z
    BY DEF Alarms
  <1>10. ASSUME NEW s \in Slots, NEW k \in accepted, input.schedule[k].slot = s
         PROVE  current[s] = {input.schedule[k].value}
    BY <1>10 DEF IInv, SlotsInv, FreeSlot, TakenSlot, SlotOf, ValueOf
  <1>11. <<z, "vent">> \in Slots /\ <<z, "emergency">> \in Slots
    BY DEF BuildingProfile, HvacSlots
  <1> QED
    BY <1>8, <1>9, <1>10, <1>11 DEF VentAction, StateAction, EmergencyState, Vent

(* In every step of the building from an admissible graph, whatever its     *)
(* window, its context and the state, the earliest alarm of a zone decides  *)
(* its emergency state and its ventilation goes to emergency.               *)
THEOREM AlarmsAreHandled ==
    ASSUME BuildingProfile
    PROVE  HvacSpec => []EmergencyHandled
  <1>1. IInv /\ DecisionsJustified /\ PrefixesAdmissible /\ RequestInv => EmergencyHandled
    BY FinishedHandles
  <1>2. HvacSpec => Spec /\ []RequestInv
    BY StepResolves
  <1> QED
    BY <1>1, <1>2, ResolverInvariant, ResolverJustified, PrefixesInvariant, PTL

-----------------------------------------------------------------------------
(* The second implementation on the steps of the building. *)

(* The roles of the rules have a cap.                                       *)
LEMMA RulesCapped == \A r \in Rules : r.role \in DOMAIN RoleMax
  <1>1. DOMAIN RoleMax = {"occupant", "operator", "emergency"}
    BY DEF RoleMax
  <1>2. /\ EventRole["EmergencyAlarm"] = "emergency"
        /\ EventRole["OccupantSetpointRequest"] = "occupant"
        /\ EventRole["OccupancyDetected"] = "occupant"
        /\ EventRole["DemandResponsePeak"] = "operator"
        /\ EventRole["CO2Spike"] = "operator"
        /\ EventRole["PreheatRequest"] = "operator"
    BY DEF EventRole
  <1>3. ASSUME NEW r \in Rules PROVE \E type \in DOMAIN EventRole : r.role = EventRole[type]
    BY DEF Rules, Rule, EventRole
  <1>4. DOMAIN EventRole = {"OccupantSetpointRequest", "OccupancyDetected", "DemandResponsePeak",
                            "CO2Spike", "PreheatRequest", "EmergencyAlarm"}
    BY DEF EventRole
  <1> QED
    BY <1>1, <1>2, <1>3, <1>4

(* Its guard refuses what the first implementation's refuses.               *)
LEMMA SameGuard ==
    ASSUME BuildingProfile, NEW g, NEW a, a.role \in DOMAIN RoleMax, a.value \in Int
    PROVE  /\ Second!PolicyFails(a) <=> ~PolicyOK(g, a)
           /\ Second!PolicyFails(a) => Second!PolicyVerdict(a) \in PolicyReasons
  <1> DEFINE v == Second!PolicyVerdict(a)
             cap == RoleMax[a.role]
  <1>1. cap \in Int /\ MinSetpoint \in Int
    BY DEF RoleMax, MinSetpoint
  <1>2. PolicyOK(g, a) <=> (a.slot[2] = "setpoint" => a.value \in MinSetpoint..cap)
    BY DEF BuildingProfile, HvacPolicyOK
  <1>3. v = IF a.slot[2] # "setpoint" THEN "policy_guard_not_applicable"
            ELSE IF a.value < MinSetpoint THEN "policy_min_violation"
            ELSE IF a.value > cap THEN "policy_role_cap_violation"
            ELSE "policy_guard_passed"
    BY DEF Second!PolicyVerdict
  <1>4. Second!PolicyFails(a) <=> v \in {"policy_min_violation", "policy_role_cap_violation"}
    BY DEF Second!PolicyFails
  <1> HIDE DEF v, cap
  <1>5. Second!PolicyFails(a) <=> a.slot[2] = "setpoint" /\ (a.value < MinSetpoint \/ a.value > cap)
    BY <1>3, <1>4
  <1>6. Second!PolicyFails(a) <=> ~PolicyOK(g, a)
    BY <1>1, <1>2, <1>5
  <1> QED
    BY <1>4, <1>6 DEF v, PolicyReasons

(* What its guard says of the actions of an input.                          *)
GuardOf(in) == [k \in DOMAIN in.schedule |-> Second!PolicyVerdict(in.schedule[k])]

(* The actions of the input have a role with a cap.                         *)
Capped(in) ==
    \A k \in 1..Len(in.schedule) :
        in.schedule[k].role \in DOMAIN RoleMax /\ in.schedule[k].value \in Int

(* Its gates are those of the proofs about the second implementation, with  *)
(* the shapes and the guard of the building.                                *)
LEMMA SameGates ==
    ASSUME BuildingProfile, NEW st, NEW a, NEW active
    PROVE  Second!Gates(st, a, active) = SecondGates(st, a, active, Second!PolicyVerdict(a))
  <1> DEFINE w == Tried(st, a).working
             yes == SecondRecord(KeptWrite(st, a), a, TRUE, "admissible")
             no == SecondRecord(TakenBack(st, a), a, FALSE, "inadmissible")
  <1>1. Second!TryWrite(st, a) = IF HvacAdmissible(w) THEN yes ELSE no
    BY Zenon DEF Second!TryWrite, Second!Record, SecondRecord, Second!Revert, TakenBack,
                 Tried, KeptWrite, Second!ApplySingleSlot, Apply
  <1>2. SecondWrite(st, a) = IF Admissible(w) THEN yes ELSE no
    BY Zenon DEF SecondWrite
  <1> HIDE DEF w, yes, no
  <1>3. Second!TryWrite(st, a) = SecondWrite(st, a)
    BY <1>1, <1>2 DEF BuildingProfile
  <1> QED
    BY <1>3, Zenon DEF Second!Gates, SecondGates, Second!PolicyFails, PolicyReasons,
                       Second!Record, SecondRecord

(* The equation of its run over a schedule.                                 *)
Folds(it, in) ==
    it = [s \in SUBSET DOMAIN in.schedule |->
            IF s = {} THEN Second!Begin(in.graph)
            ELSE LET x == Second!Max(s)
                 IN  Second!Gates(it[s \ {x}], in.schedule[x], in.active)]

(* The second implementation's run satisfies it.                            *)
LEMMA SameRuns ==
    ASSUME BuildingProfile, NEW in \in Input, NEW it
    PROVE  Folds(it, in) <=> SecondRuns(it, in, GuardOf(in))
  <1> DEFINE one(s) == IF s = {} THEN Second!Begin(in.graph)
                       ELSE LET x == Second!Max(s)
                            IN  Second!Gates(it[s \ {x}], in.schedule[x], in.active)
             other(s) == IF s = {} THEN [working |-> in.graph, writtenTargets |-> {},
                                         accepted |-> <<>>, decisions |-> <<>>]
                         ELSE LET x == LastIn(s)
                              IN  SecondGates(it[s \ {x}], in.schedule[x], in.active,
                                              GuardOf(in)[x])
  <1>1. PICK n \in Nat : DOMAIN in.schedule = 1..n
    BY DEF Input
  <1>2. ASSUME NEW s \in SUBSET DOMAIN in.schedule
        PROVE  one(s) = other(s)
    <2>1. CASE s = {}
      BY <2>1, Zenon DEF Second!Begin
    <2>2. CASE s # {}
      <3>1. Second!Max(s) = LastIn(s)
        BY Zenon DEF Second!Max, LastIn
      <3>2. LastIn(s) \in s
        <4>1. \E i \in s : \A j \in s : i >= j
          BY <1>1, <2>2, LastOf
        <4> QED
          BY <4>1, Zenon DEF LastIn
      <3>3. GuardOf(in)[LastIn(s)] = Second!PolicyVerdict(in.schedule[LastIn(s)])
        BY <3>2 DEF GuardOf
      <3> QED
        BY <2>2, <3>1, <3>3, SameGates, Zenon
    <2> QED
      BY <2>1, <2>2
  <1> HIDE DEF one, other
  <1>3. [s \in SUBSET DOMAIN in.schedule |-> one(s)]
          = [s \in SUBSET DOMAIN in.schedule |-> other(s)]
    BY <1>2
  <1>4. Folds(it, in) <=> it = [s \in SUBSET DOMAIN in.schedule |-> one(s)]
    BY Zenon DEF Folds, one
  <1>5. SecondRuns(it, in, GuardOf(in)) <=> it = [s \in SUBSET DOMAIN in.schedule |-> other(s)]
    BY Zenon DEF SecondRuns, other
  <1> QED
    BY <1>3, <1>4, <1>5

(* The second implementation comes to the end of the schedule where the     *)
(* first does.                                                              *)
LEMMA SecondResolves ==
    ASSUME BuildingProfile, NEW in \in Input, Capped(in), NEW K, NEW D, Resolution(in, K, D),
           NEW S, Second!MakeSchedule(S) = in.schedule
    PROVE  EndsAs(in, K, D, Second!Resolve(in.graph, S, in.active))
  <1> DEFINE v == GuardOf(in)
             it == CHOOSE f : Folds(f, in)
  <1>1. Second!Resolve(in.graph, S, in.active) = it[DOMAIN in.schedule]
    BY Zenon DEF Second!Resolve, Second!FoldLeft, Second!MapThenFoldSet, Folds
  <1>2. GuardsAlike(in, v)
    <2>1. ASSUME NEW k \in 1..Len(in.schedule), NEW g \in Graph
          PROVE  v[k] \in PolicyReasons <=> ~PolicyOK(g, in.schedule[k])
      <3>1. v[k] = Second!PolicyVerdict(in.schedule[k])
        BY DEF GuardOf, Input
      <3>2. v[k] \in PolicyReasons <=> Second!PolicyFails(in.schedule[k])
        BY <3>1, Zenon DEF Second!PolicyFails, PolicyReasons
      <3> HIDE DEF v
      <3> QED
        BY <3>2, SameGuard DEF Capped
    <2> QED
      BY <2>1 DEF GuardsAlike
  <1>3. Folds(it, in)
    <2>1. \E f : Folds(f, in)
      BY <1>2, SecondRunExists, SameRuns
    <2> QED
      BY <2>1, Zenon
  <1> HIDE DEF it, v
  <1>4. SecondRuns(it, in, v)
    BY <1>3, SameRuns DEF v
  <1>5. EndsAs(in, K, D, it[DOMAIN in.schedule])
    BY <1>2, <1>4, SecondRunEnds
  <1> QED
    BY <1>1, <1>5

(* Its counting, its insertion and so its sorting are those of the first's  *)
(* proofs, which have one definition for every instance.                    *)
LEMMA SameCount ==
    ASSUME NEW S
    PROVE  Second!Cardinality(S) = Cardinality(S)
  BY Zenon DEF Second!Cardinality, Cardinality

(* Both insert an action at the same place.                                 *)
LEMMA SameInsertion ==
    ASSUME NEW a, NEW q
    PROVE  Second!Insert(a, q) = Inserted(a, q)
  BY SameCount, Zenon DEF Second!KeyOf, ScheduleKey, Second!Insert, Second!InsertAt, Inserted,
                          PutAt, Lower, Second!LexLess, LexLess

(* Both sort a set of actions to the same schedule.                         *)
LEMMA SameSort ==
    ASSUME NEW S
    PROVE  Second!MakeSchedule(S) = (CHOOSE it : SortsBy(it, S))[S]
  BY SameInsertion, Zenon DEF Second!MakeSchedule, Second!FoldSet, Second!MapThenFoldSet, SortsBy

(* It sorts the actions of a window, in whatever order it gets them, into   *)
(* the schedule of the first.                                               *)
LEMMA SameSchedule ==
    ASSUME NEW g \in StateGraphs, NEW E, EventRecords(E),
           NEW q, q = ScheduleActions(EvaluateRules(g, E))
    PROVE  Second!MakeSchedule({q[k] : k \in DOMAIN q}) = q
  <1> DEFINE A == EvaluateRules(g, E)
  <1>1. /\ q \in Seq(A) /\ \A a \in A : \E i \in 1..Len(q) : q[i] = a
    BY WindowSchedule
  <1> HIDE DEF A
  <1>2. {q[k] : k \in DOMAIN q} = A
    BY <1>1
  <1>3. IsFiniteSet(A) /\ Keyed(A, 11)
    <2>1. \A a \in A : ScheduleKey(a) \in Keys(11)
      BY EvaluatedMade DEF A, KeyOf
    <2> QED
      BY <2>1, EvaluatedFinite, KeysDistinct DEF A, Keyed
  <1>4. (CHOOSE it : SortsBy(it, A))[A] = ScheduleActions(A)
    BY <1>3, SortIsSchedule
  <1> QED
    BY <1>2, <1>4, SameSort, Zenon DEF A

(* The actions of a window are of the rules' roles.                         *)
LEMMA WindowCapped ==
    ASSUME NEW in \in Input, in.graph \in StateGraphs, NEW E, EventRecords(E),
           in.schedule = ScheduleActions(EvaluateRules(in.graph, E))
    PROVE  Capped(in)
  <1> DEFINE q == in.schedule
             A == EvaluateRules(in.graph, E)
  <1>1. q \in Seq(A) /\ q \in Seq(Actions)
    BY WindowSchedule DEF Input
  <1>2. ASSUME NEW a \in A PROVE a.role \in DOMAIN RoleMax
    <2>1. PICK r \in Rules : \E row, e : Parts(a, r, row, e)
      BY EvaluatedMade
    <2> QED
      BY <2>1, RulesCapped DEF Parts
  <1>3. \A a \in Actions : a.value \in Int
    <2>1. \A v \in -99..99 : v \in Int
      OBVIOUS
    <2> QED
      BY <2>1, ResolverConstants, StepConstants
  <1> HIDE DEF q, A
  <1>4. \A k \in 1..Len(q) : q[k] \in A /\ q[k] \in Actions
    BY <1>1
  <1> QED
    BY <1>2, <1>3, <1>4 DEF Capped, q

(* A finished step compares equal.                                          *)
LEMMA FinishedAgrees ==
    ASSUME BuildingProfile, IInv, DecisionsJustified, VerdictsExact, RequestInv
    PROVE  ImplementationsAgree
  <1> SUFFICES ASSUME Finished
               PROVE  Compare(Second!Resolve(input.graph,
                                {input.schedule[k] : k \in DOMAIN input.schedule}, input.active))
    BY DEF ImplementationsAgree
  <1> DEFINE E == request.events
             S == {input.schedule[k] : k \in DOMAIN input.schedule}
             st == Second!Resolve(input.graph, S, input.active)
  <1>1. /\ E \subseteq WindowEvents /\ input \in Input
        /\ input.schedule = ScheduleActions(EvaluateRules(input.graph, E))
    BY DEF RequestInv, Requests, StepInput, IInv, TypeOK
  <1>2. EventRecords(E)
    <2>1. IsFiniteSet(E)
      BY <1>1, StepConstants, FS_Subset DEF EventRecords
    <2> QED
      BY <1>1, <2>1, StepConstants DEF EventRecords
  <1>3. input.graph \in StateGraphs
    BY StepConstants DEF IInv, TypeOK, Input, Graph, StateGraphs, BuildingProfile, Small
  <1> HIDE DEF E
  <1>4. Second!MakeSchedule(S) = input.schedule
    BY <1>1, <1>2, <1>3, SameSchedule
  <1>5. Capped(input)
    BY <1>1, <1>2, <1>3, WindowCapped
  <1>6. Resolution(input, accepted, decisions) /\ current = OverlayOf(input, accepted)
    BY FinishedResolution DEF Finished
  <1> HIDE DEF S
  <1>7. EndsAs(input, accepted, decisions, st)
    BY <1>1, <1>4, <1>5, <1>6, SecondResolves
  <1> HIDE DEF st
  <1>8. /\ st.working = OverlayOf(input, accepted)
        /\ Len(st.decisions) = Len(decisions)
        /\ \A k \in 1..Len(decisions) :
              SameDecision(input, accepted, decisions, st.decisions[k], k)
        /\ st.accepted = [i \in 1..Cardinality(accepted) |->
              input.schedule[CHOOSE k \in accepted : Cardinality(accepted \cap 1..k) = i]]
    BY <1>7, Zenon DEF EndsAs
  <1>9. ASSUME NEW r, NEW p, SameReason(r, p)
        PROVE  ReasonClass(r) = p
    BY <1>9 DEF SameReason, PolicyReasons, ReasonClass
  <1>10. ASSUME NEW k \in 1..Len(decisions)
         PROVE  /\ st.decisions[k].action = input.schedule[k]
                /\ st.decisions[k].accepted = (k \in accepted)
                /\ ReasonClass(st.decisions[k].reason) = decisions[k].reason
                /\ st.decisions[k].post = decisions[k].post
    <2>1. SameDecision(input, accepted, decisions, st.decisions[k], k)
      BY <1>8
    <2> QED
      BY <1>9, <2>1 DEF SameDecision
  <1>11. Compare(st)
    BY <1>6, <1>8, <1>10, Zenon DEF Compare
  <1> QED
    BY <1>11 DEF st, S

(* In every step of the building, the second implementation, given the      *)
(* actions in no order, takes the decisions of the first for the same       *)
(* reasons and passes through the same graphs.                              *)
THEOREM SecondImplementationAgrees ==
    ASSUME BuildingProfile
    PROVE  HvacSpec => []ImplementationsAgree
  <1>1. IInv /\ DecisionsJustified /\ VerdictsExact /\ RequestInv => ImplementationsAgree
    BY FinishedAgrees
  <1>2. HvacSpec => Spec /\ []RequestInv
    BY StepResolves
  <1> QED
    BY <1>1, <1>2, ResolverInvariant, ResolverJustified, VerdictsInvariant, PTL

-----------------------------------------------------------------------------
(* The replay of a trace. *)

(* The fields of a trace. *)
Fields ==
    {"regime", "rules", "rulesHash", "rulesSnapshot", "window", "active", "events", "input",
     "enabled", "schedule", "accepted", "decisions", "successor"}

(* The traces t and u differ at most in the fields F.                       *)
SameBut(t, u, F) ==
    /\ DOMAIN u = Fields
    /\ \A f \in Fields \ F : u[f] = t[f]

(* t is the trace of a step: a resolution of the schedule of the window.    *)
StepTrace(t) ==
    \E q \in Requests :
        LET in == StepInput(q) IN
        /\ DOMAIN t = Fields
        /\ t.regime = "incremental"
        /\ t.rules = AllRules /\ t.rulesHash = AllRules /\ t.rulesSnapshot = AllRules
        /\ t.window = "this" /\ t.active = in.active /\ t.events = q.events
        /\ t.input = Snapshot(in.graph)
        /\ t.enabled = EvaluateRules(q.graph, q.events)
        /\ t.schedule = in.schedule
        /\ Resolution(in, t.accepted, t.decisions)
        /\ t.successor = Snapshot(OverlayOf(in, t.accepted))

(* The fields of what the step made of its input.                           *)
Derived == {"schedule", "decisions", "accepted", "successor", "window", "regime"}

(* The fields that record the rules.                                        *)
RuleFields == {"rules", "rulesHash", "rulesSnapshot"}

(* s is a graph as a trace stores it, with its digest.                      *)
Stored(s) == \E g, h : s = [triples |-> g, digest |-> h]

(* What an alteration may have made of a trace.                             *)
ChangeOf(t, u) ==
    \/ SameBut(t, u, {"events"}) /\ u.events \subseteq t.events
    \/ SameBut(t, u, {"active"}) /\ \E c \in DOMAIN ActiveRoles : u.active = ActiveRoles[c]
    \/ SameBut(t, u, RuleFields)
    \/ SameBut(t, u, {"input"})
    \/ SameBut(t, u, Derived)

(* A version of a trace, altered at most once.                              *)
Version(t, u) == ChangeOf(t, u) /\ Stored(u.input) /\ Stored(u.successor)

(* An alteration changes one group of fields.                               *)
LEMMA AlteredVersion ==
    ASSUME NEW t, DOMAIN t = Fields, Stored(t.input), Stored(t.successor),
           NEW kind \in DOMAIN Altered(t), NEW u \in Altered(t)[kind]
    PROVE  Version(t, u)
  <1>1. DOMAIN Altered(t) = {"event", "context", "rule", "rulesOnly", "graph", "triples", "schedule",
                             "decision", "accepted", "successor", "digest", "window", "regime"}
    BY DEF Altered
  <1>2. CASE kind = "event"
    <2>1. PICK e \in t.events : u = [t EXCEPT !.events = @ \ {e}]
      BY <1>2 DEF Altered
    <2> QED
      BY <2>1 DEF Version, ChangeOf, SameBut, Fields
  <1>3. CASE kind = "context"
    <2>1. PICK c \in DOMAIN ActiveRoles : u = [t EXCEPT !.active = ActiveRoles[c]]
      BY <1>3 DEF Altered
    <2> QED
      BY <2>1 DEF Version, ChangeOf, SameBut, Fields
  <1>4. CASE kind = "rule"
    <2>1. PICK r \in {1, 4} :
            u = [t EXCEPT !.rules = @ \ {r}, !.rulesHash = @ \ {r}, !.rulesSnapshot = @ \ {r}]
      BY <1>4 DEF Altered
    <2> QED
      BY <2>1 DEF Version, ChangeOf, SameBut, Fields, RuleFields
  <1>5. CASE kind = "rulesOnly"
    <2>1. u = [t EXCEPT !.rules = @ \ {1}]
      BY <1>5 DEF Altered
    <2> QED
      BY <2>1 DEF Version, ChangeOf, SameBut, Fields, RuleFields
  <1>6. CASE kind = "graph"
    <2>1. PICK g : u = [t EXCEPT !.input = Snapshot(g)]
      BY <1>6 DEF Altered
    <2>2. Stored(u.input)
      BY <2>1 DEF Snapshot, Stored, Fields
    <2> QED
      BY <2>1, <2>2 DEF Version, ChangeOf, SameBut, Fields
  <1>7. CASE kind = "triples"
    <2>1. PICK g : u = [t EXCEPT !.input.triples = g]
      BY <1>7 DEF Altered
    <2>2. u.input = [t.input EXCEPT !.triples = g]
      BY <2>1 DEF Fields
    <2>3. Stored(u.input)
      BY <2>2 DEF Stored
    <2> QED
      BY <2>1, <2>3 DEF Version, ChangeOf, SameBut, Fields
  <1>8. CASE kind = "schedule"
    <2>1. PICK w : u = [t EXCEPT !.schedule = w]
      BY <1>8 DEF Altered
    <2> QED
      BY <2>1 DEF Version, ChangeOf, SameBut, Fields, Derived
  <1>9. CASE kind = "decision"
    <2>1. PICK k \in 1..Len(t.decisions) : u = [t EXCEPT !.decisions[k].reason = "inactive_role"]
      BY <1>9 DEF Altered
    <2>2. \E w : u = [t EXCEPT !.decisions = w]
      BY <2>1
    <2> QED
      BY <2>2 DEF Version, ChangeOf, SameBut, Fields, Derived
  <1>10. CASE kind = "accepted"
    <2>1. PICK k : u = [t EXCEPT !.accepted = @ \ {k}]
      BY <1>10 DEF Altered
    <2> QED
      BY <2>1 DEF Version, ChangeOf, SameBut, Fields, Derived
  <1>11. CASE kind = "successor"
    <2>1. PICK g : u = [t EXCEPT !.successor = Snapshot(g)]
      BY <1>11 DEF Altered
    <2>2. Stored(u.successor)
      BY <2>1 DEF Snapshot, Stored, Fields
    <2> QED
      BY <2>1, <2>2 DEF Version, ChangeOf, SameBut, Fields, Derived
  <1>12. CASE kind = "digest"
    <2>1. PICK g : u = [t EXCEPT !.successor.digest = g]
      BY <1>12 DEF Altered
    <2>2. u.successor = [t.successor EXCEPT !.digest = g]
      BY <2>1 DEF Fields
    <2>3. Stored(u.successor)
      BY <2>2 DEF Stored
    <2> QED
      BY <2>1, <2>3 DEF Version, ChangeOf, SameBut, Fields, Derived
  <1>13. CASE kind = "window"
    <2>1. u = [t EXCEPT !.window = "other"]
      BY <1>13 DEF Altered
    <2> QED
      BY <2>1 DEF Version, ChangeOf, SameBut, Fields, Derived
  <1>14. CASE kind = "regime"
    <2>1. PICK r \in {"shacl", "unknown"} : u = [t EXCEPT !.regime = r]
      BY <1>14 DEF Altered
    <2> QED
      BY <2>1 DEF Version, ChangeOf, SameBut, Fields, Derived
  <1> QED
    BY <1>1, <1>2, <1>3, <1>4, <1>5, <1>6, <1>7, <1>8, <1>9, <1>10, <1>11, <1>12, <1>13, <1>14

-----------------------------------------------------------------------------
(* The replay resolves what was recorded, with the trace's roles.           *)
SameProblem == trace.input = original.input /\ Regenerated = original.enabled

(* What the replay has resolved so far. *)
Replayed ==
    /\ trace.regime \in Supported
    /\ input = ReplayInput
    /\ FirstFromInput
    /\ SameProblem => Sound

(* The saved trace is a step's, and the trace at hand a version of it.      *)
TraceInv ==
    /\ StepTrace(original)
    /\ Version(original, trace)
    /\ alteration = "none" => trace = original

(* The inductive invariant of a step, its trace and the replay.             *)
ReplayInv ==
    /\ phase \in {"run", "saved", "loaded", "replay", "done"}
    /\ phase = "run" => RequestInv /\ Sound /\ regime = Unset /\ alteration = "none"
    /\ phase # "run" => TraceInv
    /\ phase = "replay" => Replayed
    /\ phase = "done" =>
         /\ regime = previous
         /\ \/ trace.regime \notin Supported /\ report = {"raised"}
            \/ Replayed /\ Finished /\ report = FailedChecks

(* The saved trace is the trace of the step.                                *)
LEMMA SavedTrace ==
    ASSUME RequestInv, Sound, Finished, regime = Unset
    PROVE  StepTrace(BuildTrace)
  <1>1. /\ request \in Requests /\ input = StepInput(request)
        /\ input.graph = request.graph
    BY DEF RequestInv, StepInput
  <1>2. Resolution(input, accepted, decisions) /\ current = OverlayOf(input, accepted)
    BY FinishedResolution DEF Sound, Finished
  <1> DEFINE t == BuildTrace
  <1>3. DOMAIN t = Fields
    BY DEF BuildTrace, Fields
  <1>4. /\ t.regime = "incremental"
        /\ t.rules = AllRules /\ t.rulesHash = AllRules /\ t.rulesSnapshot = AllRules
        /\ t.window = "this" /\ t.active = input.active /\ t.events = request.events
        /\ t.input = Snapshot(input.graph)
        /\ t.enabled = EvaluateRules(request.graph, request.events)
        /\ t.schedule = input.schedule /\ t.accepted = accepted /\ t.decisions = decisions
        /\ t.successor = Snapshot(current)
    BY DEF BuildTrace, Effective, Unset
  <1> HIDE DEF t
  <1>5. StepTrace(t)
    BY <1>1, <1>2, <1>3, <1>4, Zenon DEF StepTrace
  <1> QED
    BY <1>5 DEF t

(* The roles a trace may record are those of a context.                     *)
LEMMA TraceRoles ==
    ASSUME TraceInv
    PROVE  \E c \in DOMAIN ActiveRoles : trace.active = ActiveRoles[c]
  <1>1. PICK q \in Requests : original.active = ActiveRoles[q.context]
    BY DEF TraceInv, StepTrace, StepInput
  <1>2. q.context \in DOMAIN ActiveRoles
    BY DEF Requests
  <1> QED
    BY <1>1, <1>2 DEF TraceInv, Version, ChangeOf, SameBut, Fields, RuleFields, Derived

(* A replay of the recorded problem is a resolution of a step's schedule.   *)
LEMMA ReplayTyped ==
    ASSUME BuildingProfile, TraceInv, SameProblem
    PROVE  ReplayInput \in Input
  <1>1. PICK q \in Requests : /\ original.input = Snapshot(q.graph)
                              /\ original.enabled = EvaluateRules(q.graph, q.events)
    BY DEF TraceInv, StepTrace, StepInput
  <1>2. PICK c \in DOMAIN ActiveRoles : trace.active = ActiveRoles[c]
    BY TraceRoles
  <1>3. trace.input.triples = q.graph /\ Regenerated = EvaluateRules(q.graph, q.events)
    BY <1>1 DEF SameProblem, Snapshot
  <1>4. q.graph \in StartGraphs /\ q.events \in SUBSET WindowEvents
    BY DEF Requests
  <1>5. ReplayInput \in HvacInputs
    BY <1>2, <1>3, <1>4 DEF ReplayInput, HvacInputs
  <1> QED
    BY <1>5, ResolverConstants DEF BuildingProfile

(* Nothing of a trace depends on the resolver's variables.                  *)
LEMMA TraceUnchanged ==
    ASSUME TraceInv, UNCHANGED <<trace, original, alteration>>
    PROVE  TraceInv'
  BY DEF TraceInv, StepTrace, Version, ChangeOf, SameBut, Stored

(* A replay reads the trace only.                                           *)
LEMMA ReplayReads ==
    ASSUME UNCHANGED <<trace, original>>
    PROVE  ReplayInput' = ReplayInput /\ SameProblem' = SameProblem
  BY DEF ReplayInput, Regenerated, SameProblem

(* The replay starts the resolver on what the trace records.                *)
LEMMA BodyBegins ==
    ASSUME BuildingProfile, ReplayInv, ReplayBody
    PROVE  ReplayInv'
  <1>1. /\ phase = "loaded" /\ trace.regime \in Supported /\ phase' = "replay"
        /\ input' = ReplayInput /\ current' = trace.input.triples
        /\ accepted' = {} /\ winner' = [s \in Slots |-> 0] /\ decisions' = <<>>
        /\ UNCHANGED <<trace, original, alteration>>
    BY DEF ReplayBody
  <1>2. TraceInv /\ TraceInv'
    BY <1>1, TraceUnchanged DEF ReplayInv
  <1>3. ReplayInput' = ReplayInput /\ SameProblem' = SameProblem
    BY <1>1, ReplayReads
  <1>4. input'.graph = current'
    BY <1>1 DEF ReplayInput
  <1>5. FirstFromInput'
    <2>1. <<>> \in Seq({})
      OBVIOUS
    <2> QED
      BY <1>1, <1>4, <2>1 DEF FirstFromInput, IsSeq
  <1>6. SameProblem => Sound'
    <2>1. SameProblem => Begun'
      BY <1>1, <1>2, <1>4, ReplayTyped DEF Begun
    <2> QED
      BY <2>1, BegunSound
  <1>7. Replayed'
    BY <1>1, <1>3, <1>5, <1>6 DEF Replayed
  <1> QED
    BY <1>1, <1>2, <1>7 DEF ReplayInv

(* The resolver's steps keep both executions sound.                         *)
LEMMA ResolveKeeps ==
    ASSUME ReplayInv, ResolveNext
    PROVE  ReplayInv'
  <1>1. Next /\ UNCHANGED <<request, phase, trace, original, alteration, regime, previous, report>>
    BY DEF ResolveNext, replayVars
  <1>2. CASE phase = "run"
    <2>1. Sound'
      BY <1>1, <1>2, SoundKept DEF ReplayInv
    <2>2. input' = input
      BY <1>1 DEF Next, RejectRole, RejectPolicy, RejectShadowed, RejectInadmissible, Reject, Accept
    <2>3. RequestInv'
      BY <1>1, <1>2, <2>2 DEF ReplayInv, RequestInv, StepInput
    <2> QED
      BY <1>1, <1>2, <2>1, <2>3 DEF ReplayInv
  <1>3. CASE phase = "replay"
    <2>1. TraceInv'
      BY <1>1, <1>3, TraceUnchanged DEF ReplayInv
    <2>2. FirstFromInput' /\ input' = input
      BY <1>1, <1>3, FirstKept DEF ReplayInv, Replayed
    <2>3. SameProblem => Sound'
      BY <1>1, <1>3, SoundKept DEF ReplayInv, Replayed
    <2>4. ReplayInput' = ReplayInput /\ SameProblem' = SameProblem
      BY <1>1, ReplayReads
    <2>5. Replayed'
      BY <1>1, <1>3, <2>2, <2>3, <2>4 DEF ReplayInv, Replayed
    <2> QED
      BY <1>1, <1>3, <2>1, <2>5 DEF ReplayInv
  <1> QED
    BY <1>2, <1>3 DEF ResolveNext

(* What is saved is the trace of the step.                                  *)
LEMMA SaveKeeps ==
    ASSUME ReplayInv, SaveTrace
    PROVE  ReplayInv'
  <1>1. /\ phase = "run" /\ Finished /\ phase' = "saved"
        /\ trace' = BuildTrace /\ original' = BuildTrace /\ alteration' = alteration
    BY DEF SaveTrace
  <1>2. StepTrace(BuildTrace)
    BY <1>1, SavedTrace DEF ReplayInv
  <1> DEFINE t == BuildTrace
  <1>3. DOMAIN t = Fields
    BY <1>2 DEF StepTrace
  <1> HIDE DEF t
  <1>4. Version(t, t)
    <2>1. Stored(t.input) /\ Stored(t.successor)
      BY <1>2 DEF StepTrace, Snapshot, Stored, t
    <2> QED
      BY <1>3, <2>1 DEF Version, ChangeOf, SameBut
  <1>5. TraceInv'
    <2>1. StepTrace(original')
      BY <1>1, <1>2
    <2>2. StepTrace(original') <=> StepTrace(original)'
      BY DEF StepTrace
    <2>3. Version(original', trace')
      BY <1>1, <1>4 DEF t
    <2>4. Version(original', trace') <=> Version(original, trace)'
      BY DEF Version, ChangeOf, SameBut, Stored
    <2> QED
      BY <1>1, <2>1, <2>2, <2>3, <2>4 DEF TraceInv
  <1> QED
    BY <1>1, <1>5 DEF ReplayInv

(* One alteration makes a version of the trace.                             *)
LEMMA AlterKeeps ==
    ASSUME ReplayInv, Alter
    PROVE  ReplayInv'
  <1>1. /\ phase = "saved" /\ alteration = "none"
        /\ UNCHANGED <<phase, original>>
    BY DEF Alter
  <1>2. PICK kind \in DOMAIN Altered(trace) :
          alteration' = kind /\ trace' \in Altered(trace)[kind]
    BY DEF Alter
  <1>3. TraceInv /\ trace = original
    BY <1>1 DEF ReplayInv, TraceInv
  <1>4. DOMAIN original = Fields
    BY <1>3 DEF TraceInv, StepTrace
  <1>5. Version(original, trace')
    <2>1. Stored(original.input) /\ Stored(original.successor)
      BY <1>3 DEF TraceInv, StepTrace, Snapshot, Stored
    <2> QED
      BY <1>2, <1>3, <1>4, <2>1, AlteredVersion
  <1>6. alteration' # "none"
    BY <1>2 DEF Altered
  <1>7. TraceInv'
    <2>1. StepTrace(original)' <=> StepTrace(original)
      BY <1>1 DEF StepTrace
    <2>2. Version(original, trace)' <=> Version(original, trace')
      BY <1>1 DEF Version, ChangeOf, SameBut, Stored
    <2> QED
      BY <1>3, <1>5, <1>6, <2>1, <2>2 DEF TraceInv
  <1> QED
    BY <1>1, <1>7 DEF ReplayInv

(* Loading a trace resolves nothing.                                        *)
LEMMA LoadKeeps ==
    ASSUME ReplayInv, LoadTrace
    PROVE  ReplayInv'
  <1>1. phase = "saved" /\ phase' = "loaded" /\ UNCHANGED <<trace, original, alteration>>
    BY DEF LoadTrace
  <1>2. TraceInv'
    BY <1>1, TraceUnchanged DEF ReplayInv
  <1> QED
    BY <1>1, <1>2 DEF ReplayInv

(* The report is of a replay that has come to its end.                      *)
LEMMA CompareKeeps ==
    ASSUME ReplayInv, CompareTrace
    PROVE  ReplayInv'
  <1>1. /\ phase = "replay" /\ Finished /\ phase' = "done"
        /\ report' = FailedChecks /\ regime' = previous
        /\ UNCHANGED <<hvacVars, trace, original, alteration, previous>>
    BY DEF CompareTrace
  <1>2. UNCHANGED resolverVars
    BY <1>1 DEF hvacVars
  <1>3. TraceInv'
    BY <1>1, TraceUnchanged DEF ReplayInv
  <1>4. Finished' /\ FailedChecks' = FailedChecks
    BY <1>1, <1>2 DEF Finished, FailedChecks, Regenerated, resolverVars
  <1>5. Replayed'
    <2>1. ReplayInput' = ReplayInput /\ SameProblem' = SameProblem
      BY <1>1, ReplayReads
    <2>2. Replayed
      BY <1>1 DEF ReplayInv
    <2>3. FirstFromInput' = FirstFromInput
      BY <1>2 DEF resolverVars, FirstFromInput
    <2>4. Sound => Sound'
      BY <1>2, SoundKept
    <2>5. input' = input
      BY <1>2 DEF resolverVars
    <2> QED
      BY <1>1, <2>1, <2>2, <2>3, <2>4, <2>5 DEF Replayed
  <1>6. phase' = "done" /\ regime' = previous' /\ report' = FailedChecks'
    BY <1>1, <1>4
  <1> QED
    BY <1>3, <1>4, <1>5, <1>6 DEF ReplayInv

(* A replay that raises restores the regime too.                            *)
LEMMA RaisesKeeps ==
    ASSUME ReplayInv, ReplayRaises
    PROVE  ReplayInv'
  <1>1. /\ phase = "loaded" /\ trace.regime \notin Supported /\ phase' = "done"
        /\ report' = {"raised"} /\ regime' = previous
        /\ UNCHANGED <<trace, original, alteration, previous>>
    BY DEF ReplayRaises
  <1>2. TraceInv'
    BY <1>1, TraceUnchanged DEF ReplayInv
  <1> QED
    BY <1>1, <1>2 DEF ReplayInv

(* A step that changes nothing keeps everything.                            *)
LEMMA StutterKeeps ==
    ASSUME ReplayInv, UNCHANGED <<hvacVars, replayVars>>
    PROVE  ReplayInv'
  <1>1. /\ UNCHANGED <<phase, trace, original, alteration, regime, previous, report>>
        /\ UNCHANGED resolverVars /\ UNCHANGED request
    BY DEF hvacVars, replayVars
  <1>2. UNCHANGED <<input, current, accepted, winner, decisions>>
    BY <1>1 DEF resolverVars
  <1>3. phase # "run" => TraceInv'
    BY <1>1, TraceUnchanged DEF ReplayInv
  <1>4. Sound => Sound'
    BY <1>1, SoundKept
  <1>5. RequestInv' = RequestInv /\ Finished' = Finished /\ FailedChecks' = FailedChecks
    BY <1>1, <1>2 DEF RequestInv, StepInput, Finished, FailedChecks, Regenerated
  <1>6. Replayed => Replayed'
    <2>1. ReplayInput' = ReplayInput /\ SameProblem' = SameProblem
      BY <1>1, ReplayReads
    <2>2. FirstFromInput' = FirstFromInput
      BY <1>2 DEF FirstFromInput
    <2> QED
      BY <1>1, <1>2, <1>4, <2>1, <2>2 DEF Replayed
  <1> QED
    BY <1>1, <1>3, <1>4, <1>5, <1>6 DEF ReplayInv

(* The step that is recorded begins with nothing resolved.                  *)
LEMMA ReplayBegins ==
    ASSUME BuildingProfile, ReplayInit
    PROVE  ReplayInv
  <1>1. RunEngineInit /\ phase = "run" /\ alteration = "none" /\ regime = Unset
    BY DEF ReplayInit
  <1>2. /\ request \in Requests /\ input = StepInput(request)
    BY <1>1 DEF RunEngineInit
  <1>3. input \in HvacInputs
    <2>1. /\ request.graph \in StartGraphs /\ request.events \in SUBSET WindowEvents
          /\ request.context \in DOMAIN ActiveRoles
      BY <1>2 DEF Requests
    <2> QED
      BY <1>2, <2>1 DEF StepInput, HvacInputs
  <1>4. Begun
    BY <1>1, <1>3, ResolverConstants DEF BuildingProfile, RunEngineInit, Begun
  <1> QED
    BY <1>1, <1>2, <1>4, BegunHolds DEF ReplayInv, RequestInv, Sound

(* The invariant holds through recording, alteration and replay.            *)
LEMMA ReplayInvariant ==
    ASSUME BuildingProfile
    PROVE  ReplaySpec => []ReplayInv
  <1>1. ReplayInit => ReplayInv
    BY ReplayBegins
  <1>2. ReplayInv /\ [ReplayNext]_<<hvacVars, replayVars>> => ReplayInv'
    <2> SUFFICES ASSUME ReplayInv, [ReplayNext]_<<hvacVars, replayVars>> PROVE ReplayInv'
      OBVIOUS
    <2>1. CASE ResolveNext
      BY <2>1, ResolveKeeps
    <2>2. CASE SaveTrace
      BY <2>2, SaveKeeps
    <2>3. CASE Alter
      BY <2>3, AlterKeeps
    <2>4. CASE LoadTrace
      BY <2>4, LoadKeeps
    <2>5. CASE ReplayBody
      BY <2>5, BodyBegins
    <2>6. CASE CompareTrace
      BY <2>6, CompareKeeps
    <2>7. CASE ReplayRaises
      BY <2>7, RaisesKeeps
    <2>8. CASE UNCHANGED <<hvacVars, replayVars>>
      BY <2>8, StutterKeeps
    <2> QED
      BY <2>1, <2>2, <2>3, <2>4, <2>5, <2>6, <2>7, <2>8 DEF ReplayNext
  <1> QED
    BY <1>1, <1>2, PTL DEF ReplaySpec

-----------------------------------------------------------------------------
(* The comparisons of the report, all of which succeed.                     *)
AllPass ==
    /\ trace.window = "this"
    /\ trace.rules = trace.rulesHash /\ trace.rules = trace.rulesSnapshot
    /\ trace.input.triples = trace.input.digest
    /\ trace.successor.triples = trace.successor.digest
    /\ Regenerated = trace.enabled
    /\ input.schedule = trace.schedule
    /\ accepted = trace.accepted /\ decisions = trace.decisions
    /\ current = trace.successor.digest /\ current = trace.successor.triples

(* A report is empty when they do.                                          *)
LEMMA ChecksMean == FailedChecks = {} <=> AllPass
  <1> DEFINE checks ==
        [ window    |-> trace.window = "this",
          rulesHash |-> trace.rules = trace.rulesHash,
          input     |-> trace.input.triples = trace.input.digest,
          stored    |-> trace.successor.triples = trace.successor.digest,
          rules     |-> trace.rules = trace.rulesSnapshot,
          enabled   |-> Regenerated = trace.enabled,
          schedule  |-> input.schedule = trace.schedule,
          accepted  |-> accepted = trace.accepted,
          decisions |-> decisions = trace.decisions,
          digest    |-> current = trace.successor.digest,
          triples   |-> current = trace.successor.triples ]
  <1>1. FailedChecks = {c \in DOMAIN checks : ~checks[c]}
    BY DEF FailedChecks
  <1>2. DOMAIN checks = {"window", "rulesHash", "input", "stored", "rules", "enabled", "schedule",
                         "accepted", "decisions", "digest", "triples"}
    OBVIOUS
  <1>3. /\ checks["window"] = (trace.window = "this")
        /\ checks["rulesHash"] = (trace.rules = trace.rulesHash)
        /\ checks["input"] = (trace.input.triples = trace.input.digest)
        /\ checks["stored"] = (trace.successor.triples = trace.successor.digest)
        /\ checks["rules"] = (trace.rules = trace.rulesSnapshot)
        /\ checks["enabled"] = (Regenerated = trace.enabled)
        /\ checks["schedule"] = (input.schedule = trace.schedule)
        /\ checks["accepted"] = (accepted = trace.accepted)
        /\ checks["decisions"] = (decisions = trace.decisions)
        /\ checks["digest"] = (current = trace.successor.digest)
        /\ checks["triples"] = (current = trace.successor.triples)
    OBVIOUS
  <1> HIDE DEF checks
  <1>4. FailedChecks = {} <=> \A c \in DOMAIN checks : checks[c]
    BY <1>1
  <1> QED
    BY <1>2, <1>3, <1>4 DEF AllPass

(* With all the rules, every action of the window is regenerated.           *)
LEMMA AllRulesEnable ==
    ASSUME NEW g, NEW E
    PROVE  Enabled(AllRules, g, E) = EvaluateRules(g, E)
  <1>1. \A a \in EvaluateRules(g, E) : a.rid \in AllRules
    BY EvaluatedIff DEF Made, CreateAction, AllRules
  <1> QED
    BY <1>1 DEF Enabled

(* With the recorded roles, the replay of the recorded problem has the      *)
(* recorded outcome.                                                        *)
LEMMA SameResolution ==
    ASSUME TraceInv, Replayed, Finished, SameProblem, trace.active = original.active
    PROVE  /\ input.schedule = original.schedule
           /\ accepted = original.accepted /\ decisions = original.decisions
           /\ original.successor = Snapshot(current)
  <1>1. PICK q \in Requests :
          /\ original.active = StepInput(q).active
          /\ original.input = Snapshot(StepInput(q).graph)
          /\ original.enabled = EvaluateRules(q.graph, q.events)
          /\ original.schedule = StepInput(q).schedule
          /\ Resolution(StepInput(q), original.accepted, original.decisions)
          /\ original.successor = Snapshot(OverlayOf(StepInput(q), original.accepted))
    BY DEF TraceInv, StepTrace
  <1>2. input = StepInput(q)
    <2>1. /\ trace.input.triples = q.graph
          /\ Regenerated = EvaluateRules(q.graph, q.events)
          /\ trace.active = ActiveRoles[q.context]
      BY <1>1 DEF SameProblem, Snapshot, StepInput
    <2> QED
      BY <2>1 DEF Replayed, ReplayInput, StepInput
  <1>3. Resolution(input, accepted, decisions) /\ current = OverlayOf(input, accepted)
    BY FinishedResolution DEF Replayed, Sound, Finished
  <1>4. accepted = original.accepted /\ decisions = original.decisions
    BY <1>1, <1>2, <1>3, ResolutionUnique
  <1> QED
    BY <1>1, <1>2, <1>3, <1>4

(* A replay is the recorded step again.                                     *)
LEMMA UnalteredPasses ==
    ASSUME TraceInv, trace = original, Replayed, Finished
    PROVE  FailedChecks = {}
  <1>1. /\ original.window = "this" /\ original.rules = AllRules
        /\ original.rulesHash = AllRules /\ original.rulesSnapshot = AllRules
    BY DEF TraceInv, StepTrace
  <1>2. \E g, h, E : /\ original.input = Snapshot(g) /\ original.successor = Snapshot(h)
                     /\ original.events = E /\ original.enabled = EvaluateRules(g, E)
    BY DEF TraceInv, StepTrace, StepInput
  <1>3. PICK g, h, E : /\ original.input = Snapshot(g) /\ original.successor = Snapshot(h)
                       /\ original.events = E /\ original.enabled = EvaluateRules(g, E)
    BY <1>2
  <1>4. Regenerated = original.enabled
    BY <1>1, <1>3, AllRulesEnable DEF Regenerated, Snapshot
  <1>5. SameProblem
    BY <1>4 DEF SameProblem
  <1>6. /\ input.schedule = original.schedule
        /\ accepted = original.accepted /\ decisions = original.decisions
        /\ original.successor = Snapshot(current)
    BY <1>5, SameResolution
  <1>7. AllPass
    BY <1>1, <1>3, <1>4, <1>6 DEF AllPass, Snapshot
  <1> QED
    BY <1>7, ChecksMean

(* An unaltered trace replays as recorded, for every step of the building   *)
(* and whatever regime the replaying process has; and every replay leaves   *)
(* the process its regime.                                                  *)
THEOREM ReplaysReproduce ==
    ASSUME BuildingProfile
    PROVE  ReplaySpec => []ReplayReproduces
  <1>1. ReplayInv => ReplayReproduces
    <2> SUFFICES ASSUME ReplayInv, Done
                 PROVE  regime = previous /\ (alteration = "none" => report = {})
      BY DEF ReplayReproduces
    <2>1. TraceInv /\ regime = previous
      BY DEF ReplayInv, Done
    <2>2. ASSUME alteration = "none"
          PROVE  report = {}
      <3>1. trace = original /\ original.regime = "incremental"
        BY <2>1, <2>2 DEF TraceInv, StepTrace
      <3>2. Replayed /\ Finished /\ report = FailedChecks
        BY <3>1 DEF ReplayInv, Done, Supported
      <3> QED
        BY <2>1, <3>1, <3>2, UnalteredPasses
    <2> QED
      BY <2>1, <2>2
  <1> QED
    BY <1>1, ReplayInvariant, PTL

-----------------------------------------------------------------------------
(* A replay of another graph records another graph: in its first decision,  *)
(* or in its successor when there is nothing to decide.                     *)
LEMMA InputTold ==
    ASSUME BuildingProfile, TraceInv, Replayed, AllPass, SameBut(original, trace, {"input"})
    PROVE  \E q \in Requests : original.input = Snapshot(q.graph) /\ trace.input.triples = q.graph
  <1>1. PICK q \in Requests :
          /\ original.input = Snapshot(q.graph)
          /\ original.schedule = StepInput(q).schedule
          /\ Resolution(StepInput(q), original.accepted, original.decisions)
          /\ original.successor = Snapshot(OverlayOf(StepInput(q), original.accepted))
          /\ StepInput(q).graph = q.graph
    BY DEF TraceInv, StepTrace, StepInput
  <1>2. /\ decisions = original.decisions /\ accepted = original.accepted
        /\ current = original.successor.triples
        /\ input.graph = trace.input.triples
    BY DEF AllPass, SameBut, Fields, Replayed, ReplayInput
  <1>3. StepInput(q).graph \in Graph
    <2>1. /\ q.graph \in StartGraphs /\ q.events \in SUBSET WindowEvents
          /\ q.context \in DOMAIN ActiveRoles
      BY DEF Requests
    <2>2. StepInput(q) \in HvacInputs
      BY <2>1 DEF StepInput, HvacInputs
    <2> QED
      BY <2>2, ResolverConstants DEF BuildingProfile, Input
  <1>4. OverlayOf(StepInput(q), {}) = q.graph
    BY <1>1, <1>3 DEF OverlayOf, Graph
  <1>5. CASE decisions = <<>>
    <2>1. original.accepted = {}
      BY <1>1, <1>2, <1>5 DEF Resolution
    <2>2. current = q.graph
      BY <1>1, <1>2, <1>4, <2>1 DEF Snapshot
    <2> QED
      BY <1>1, <1>2, <1>5, <2>2 DEF Replayed, FirstFromInput
  <1>6. CASE decisions # <<>>
    <2>1. 1 \in 1..Len(decisions)
      BY <1>1, <1>2, <1>6 DEF Resolution
    <2>2. decisions[1] = VerdictOf(StepInput(q), accepted, 1)
      BY <1>1, <1>2, <2>1 DEF Resolution
    <2>3. Earlier(accepted, 1) = {}
      BY <1>1, <1>2 DEF Resolution, Earlier
    <2>4. decisions[1].pre = q.graph
      BY <1>4, <2>2, <2>3 DEF VerdictOf, Verdict, Recorded
    <2> QED
      BY <1>1, <1>2, <1>6, <2>4 DEF Replayed, FirstFromInput
  <1> QED
    BY <1>5, <1>6

(* A graph whose digest is its own is a snapshot.                           *)
LEMMA SnapshotTold ==
    ASSUME NEW s, Stored(s), s.triples = s.digest
    PROVE  s = Snapshot(s.triples)
  BY DEF Stored, Snapshot

(* The recorded step's window.                                              *)
LEMMA RecordedWindow ==
    ASSUME BuildingProfile, TraceInv
    PROVE  LET g == original.input.triples IN
           /\ original.input = Snapshot(g) /\ g \in StateGraphs
           /\ original.enabled = EvaluateRules(g, original.events)
           /\ original.schedule = ScheduleActions(EvaluateRules(g, original.events))
           /\ EventRecords(original.events)
  <1>1. PICK q \in Requests :
          /\ original.input = Snapshot(q.graph) /\ original.events = q.events
          /\ original.enabled = EvaluateRules(q.graph, q.events)
          /\ original.schedule = ScheduleActions(EvaluateRules(q.graph, q.events))
    BY DEF TraceInv, StepTrace, StepInput
  <1>2. original.input.triples = q.graph
    BY <1>1 DEF Snapshot
  <1>3. q.graph \in StateGraphs
    <2>1. StepInput(q) \in HvacInputs
      BY DEF Requests, StepInput, HvacInputs
    <2>2. StepInput(q).graph \in Graph /\ StepInput(q).graph = q.graph
      BY <2>1, ResolverConstants DEF BuildingProfile, Input, StepInput
    <2> QED
      BY <2>2, StepConstants DEF BuildingProfile, Graph, StateGraphs, Small
  <1>4. EventRecords(q.events)
    <2>1. q.events \in SUBSET WindowEvents
      BY DEF Requests
    <2>2. IsFiniteSet(q.events)
      BY <2>1, StepConstants, FS_Subset DEF EventRecords
    <2> QED
      BY <2>1, <2>2, StepConstants DEF EventRecords
  <1> QED
    BY <1>1, <1>2, <1>3, <1>4

(* Without an event that enables an action, that action is not enabled.     *)
LEMMA EventTold ==
    ASSUME NEW g \in StateGraphs, NEW E, EventRecords(E), NEW F \in SUBSET E,
           EvaluateRules(g, F) = EvaluateRules(g, E), NEW e \in E \ F
    PROVE  EvaluateRules(g, {e}) = {}
  <1> SUFFICES ASSUME NEW a \in EvaluateRules(g, {e}) PROVE FALSE
    OBVIOUS
  <1>1. EventRecords({e}) /\ EventRecords(F)
    <2>1. IsFiniteSet({e}) /\ IsFiniteSet(F)
      BY FS_Singleton, FS_Subset DEF EventRecords
    <2> QED
      BY <2>1 DEF EventRecords
  <1>2. a \in EvaluateRules(g, F)
    BY DEF EvaluateRules
  <1>3. \E f \in F : ScheduleKey(a)[8] = f.eid
    BY <1>1, <1>2, EvaluatedMade DEF KeyOf
  <1>4. ScheduleKey(a)[8] = e.eid
    BY <1>1, EvaluatedMade DEF KeyOf
  <1> QED
    BY <1>3, <1>4 DEF EventRecords

(* A decision tells whether its action's role was active.                   *)
LEMMA RoleTold ==
    ASSUME NEW in, NEW K, NEW D, Resolution(in, K, D), NEW k \in 1..Len(D)
    PROVE  D[k].reason = "inactive_role" <=> in.schedule[k].role \notin in.active
  <1>1. ASSUME NEW J, NEW a, NEW g
        PROVE  Verdict(in, J, a, g).reason = "inactive_role" <=> a.role \notin in.active
    <2>1. ASSUME NEW reason, NEW h, NEW i, NEW b
          PROVE  Recorded(reason, h, i, b).reason = reason
      BY DEF Recorded
    <2>2. PICK v : v = Verdict(in, J, a, g)
      OBVIOUS
    <2>3. a.role \notin in.active => v.reason = "inactive_role"
      BY <2>1, <2>2 DEF Verdict
    <2>4. ASSUME a.role \in in.active
          PROVE  v.reason \in {"policy", "shadowed", "inadmissible", "admissible"}
      <3>1. \/ v = Recorded("policy", g, g, 0)
            \/ v = Recorded("shadowed", g, g, CHOOSE j \in Blocking(in, J, a) : TRUE)
            \/ v = Recorded("inadmissible", g, g, 0)
            \/ v = Recorded("admissible", g, Apply(g, a), 0)
        BY <2>2, <2>4, Zenon DEF Verdict
      <3> QED
        BY <2>1, <3>1
    <2> QED
      BY <2>2, <2>3, <2>4
  <1>2. D[k] = VerdictOf(in, K, k)
    BY DEF Resolution
  <1> QED
    BY <1>1, <1>2 DEF VerdictOf

(* So a replay with other roles decides otherwise on an action of such a    *)
(* role.                                                                    *)
LEMMA RolesTold ==
    ASSUME BuildingProfile, TraceInv, Replayed, Finished, AllPass, SameProblem,
           trace.schedule = original.schedule, trace.decisions = original.decisions,
           NEW a \in original.enabled
    PROVE  a.role \in trace.active <=> a.role \in original.active
  <1>1. PICK q \in Requests :
          /\ original.active = StepInput(q).active
          /\ original.schedule = StepInput(q).schedule
          /\ Resolution(StepInput(q), original.accepted, original.decisions)
    BY DEF TraceInv, StepTrace
  <1>2. Resolution(input, accepted, decisions)
    BY FinishedResolution DEF Replayed, Sound, Finished
  <1>3. /\ input.schedule = original.schedule /\ decisions = original.decisions
        /\ input.active = trace.active
    BY DEF AllPass, Replayed, ReplayInput
  <1>4. PICK k \in 1..Len(original.schedule) : original.schedule[k] = a
    BY RecordedWindow, WindowSchedule
  <1>5. k \in 1..Len(decisions)
    BY <1>2, <1>3, <1>4 DEF Resolution
  <1>6. decisions[k].reason = "inactive_role" <=> a.role \notin trace.active
    BY <1>2, <1>3, <1>4, <1>5, RoleTold
  <1>7. decisions[k].reason = "inactive_role" <=> a.role \notin original.active
    BY <1>1, <1>3, <1>4, <1>5, RoleTold
  <1> QED
    BY <1>6, <1>7

(* What a trace that passes may differ in.                                  *)
LEMMA PassedTells ==
    ASSUME BuildingProfile, TraceInv, Replayed, Finished, AllPass
    PROVE  /\ Outcome(trace) = Outcome(original)
           /\ trace.events \subseteq original.events
           /\ \A e \in original.events \ trace.events :
                EvaluateRules(original.input.triples, {e}) = {}
           /\ \A a \in original.enabled : a.role \in trace.active <=> a.role \in original.active
  <1>1. Regenerated = trace.enabled
    BY DEF AllPass
  <1>2. original.rules = AllRules
    BY DEF TraceInv, StepTrace
  <1>3. CASE SameBut(original, trace, {"events"}) /\ trace.events \subseteq original.events
    <2>1. /\ Outcome(trace) = Outcome(original) /\ trace.active = original.active
          /\ trace.rules = AllRules /\ trace.input = original.input /\ trace.enabled = original.enabled
      BY <1>2, <1>3 DEF SameBut, Fields, Outcome
    <2> DEFINE g == original.input.triples
    <2>2. EvaluateRules(g, trace.events) = EvaluateRules(g, original.events)
      BY <1>1, <2>1, AllRulesEnable, RecordedWindow DEF Regenerated
    <2>3. \A e \in original.events \ trace.events : EvaluateRules(g, {e}) = {}
      BY <1>3, <2>2, RecordedWindow, EventTold
    <2> QED
      BY <1>3, <2>1, <2>3
  <1>4. CASE SameBut(original, trace, {"active"})
    <2>1. /\ Outcome(trace) = Outcome(original) /\ trace.events = original.events
          /\ trace.input = original.input /\ trace.enabled = original.enabled
          /\ trace.schedule = original.schedule /\ trace.decisions = original.decisions
      BY <1>4 DEF SameBut, Fields, Outcome
    <2>2. SameProblem
      BY <1>1, <2>1 DEF SameProblem
    <2> QED
      BY <2>1, <2>2, RolesTold
  <1>5. CASE SameBut(original, trace, RuleFields)
    BY <1>5 DEF SameBut, Fields, RuleFields, Outcome
  <1>6. CASE SameBut(original, trace, {"input"})
    <2>1. trace.input = original.input
      <3>1. PICK g : original.input = Snapshot(g) /\ trace.input.triples = g
        BY <1>6, InputTold
      <3>2. Stored(trace.input) /\ trace.input.triples = trace.input.digest
        BY DEF TraceInv, Version, AllPass
      <3> QED
        BY <3>1, <3>2, SnapshotTold
    <2> QED
      BY <1>6, <2>1 DEF SameBut, Fields, Outcome
  <1>7. CASE SameBut(original, trace, Derived)
    <2>1. /\ trace.input = original.input /\ trace.enabled = original.enabled
          /\ trace.active = original.active /\ trace.events = original.events
      BY <1>7 DEF SameBut, Fields, Derived
    <2>2. SameProblem
      BY <1>1, <2>1 DEF SameProblem
    <2>3. /\ input.schedule = original.schedule
          /\ accepted = original.accepted /\ decisions = original.decisions
          /\ original.successor = Snapshot(current)
      BY <2>1, <2>2, SameResolution
    <2>4. trace.successor = original.successor
      <3>1. Stored(trace.successor) /\ trace.successor.triples = trace.successor.digest
            /\ trace.successor.triples = current
        BY DEF TraceInv, Version, AllPass
      <3> QED
        BY <2>3, <3>1, SnapshotTold
    <2>5. /\ trace.schedule = original.schedule /\ trace.accepted = original.accepted
          /\ trace.decisions = original.decisions /\ trace.window = original.window
      BY <2>3 DEF AllPass, TraceInv, StepTrace
    <2> QED
      BY <2>1, <2>4, <2>5 DEF Outcome
  <1> QED
    BY <1>3, <1>4, <1>5, <1>6, <1>7 DEF TraceInv, Version, ChangeOf

(* A trace that passes says of the step what was saved; only events and     *)
(* rules that enable nothing, and roles no enabled action has, may have     *)
(* been altered.                                                            *)
THEOREM PassedTracesAreGenuine ==
    ASSUME BuildingProfile
    PROVE  ReplaySpec => []PassedTraceIsGenuine
  <1>1. ReplayInv => PassedTraceIsGenuine
    <2> SUFFICES ASSUME ReplayInv, Done, report = {} PROVE PassedTraceIsGenuine
      BY DEF PassedTraceIsGenuine
    <2>1. TraceInv /\ Replayed /\ Finished /\ AllPass
      BY ChecksMean DEF ReplayInv, Done
    <2>2. original.enabled = EvaluateRules(original.input.triples, original.events)
      BY <2>1, RecordedWindow
    <2>3. trace.enabled = original.enabled
      BY <2>1 DEF TraceInv, Version, ChangeOf, SameBut, Fields, RuleFields, Derived
    <2>4. \A a \in original.enabled : a.rid \in trace.rules
      BY <2>1, <2>3 DEF AllPass, Regenerated, Enabled
    <2> QED
      BY <2>1, <2>2, <2>4, PassedTells DEF PassedTraceIsGenuine
  <1> QED
    BY <1>1, ReplayInvariant, PTL

-----------------------------------------------------------------------------
(* The delivery of events. *)

(* The identifiers of events.                                               *)
Eids(S) == {e.eid : e \in S}

(* The types of a run, as far as delivery depends on them.                  *)
DeliveryTypeOK ==
    /\ mode \in {"redelivery", "consume_once"}
    /\ running \in BOOLEAN
    /\ arrived \subseteq Log
    /\ IsSeq(steps)

(* The log only grows, and a step has seen all that had arrived.            *)
LogsGrow ==
    \A k \in DOMAIN steps :
        /\ steps[k].log \subseteq arrived
        /\ \A i \in DOMAIN steps : i < k => steps[i].log \subseteq steps[k].log

(* The ledger holds what the steps done have been handed.                   *)
LedgerIs ==
    consumed = IF mode = "consume_once"
               THEN UNION {Eids(steps[k].events) : k \in DOMAIN steps} ELSE {}

(* The events of a step: in its log and its window, and under consume_once  *)
(* not among those of an earlier step.                                      *)
Given(st, m, k) ==
    {e \in st[k].log :
        /\ Selects(WindowAt(Anchors[k]), e.ts)
        /\ m = "consume_once" =>
             \A i \in DOMAIN st : i < k => e.eid \notin Eids(st[i].events)}

(* Every step was given the events it should be.                            *)
StepsGiven == \A k \in DOMAIN steps : steps[k].events = Given(steps, mode, k)

(* Nothing arrives and nothing is consumed while a step is resolved.        *)
SelectedIs == running => selected = InWindow

(* The inductive invariant of event delivery.                               *)
DeliveryInv == DeliveryTypeOK /\ LogsGrow /\ LedgerIs /\ StepsGiven /\ SelectedIs

-----------------------------------------------------------------------------
(* What has been delivered depends on the steps, the log and the ledger.    *)
LEMMA DeliveryUnchanged ==
    ASSUME DeliveryInv, UNCHANGED <<mode, arrived, consumed, running, selected, steps>>
    PROVE  DeliveryInv'
  BY DEF DeliveryInv, DeliveryTypeOK, LogsGrow, LedgerIs, StepsGiven, Given, SelectedIs,
         InWindow, Visible

(* An event enters the log between two steps.                               *)
LEMMA ArriveStep ==
    ASSUME DeliveryInv, NEW e \in Log, Arrive(e)
    PROVE  DeliveryInv'
  <1>1. ~running /\ arrived' = arrived \cup {e}
        /\ UNCHANGED <<mode, consumed, running, selected, steps>>
    BY DEF Arrive
  <1>2. DeliveryTypeOK'
    BY <1>1 DEF DeliveryInv, DeliveryTypeOK
  <1>3. LogsGrow'
    BY <1>1 DEF DeliveryInv, LogsGrow
  <1>4. LedgerIs' /\ StepsGiven' /\ SelectedIs'
    BY <1>1 DEF DeliveryInv, LedgerIs, StepsGiven, Given, SelectedIs
  <1> QED
    BY <1>2, <1>3, <1>4 DEF DeliveryInv

(* A step takes the window of the log as the ledger leaves it.              *)
LEMMA BeginStepStep ==
    ASSUME DeliveryInv, BeginStep
    PROVE  DeliveryInv'
  <1>1. running' = TRUE /\ selected' = InWindow
        /\ UNCHANGED <<mode, arrived, consumed, steps>>
    BY DEF BeginStep
  <1>2. InWindow' = InWindow
    BY <1>1 DEF InWindow, Visible
  <1> QED
    BY <1>1, <1>2
       DEF DeliveryInv, DeliveryTypeOK, LogsGrow, LedgerIs, StepsGiven, Given, SelectedIs

(* Its window is what the step was given, and is consumed.                  *)
LEMMA EndStepStep ==
    ASSUME DeliveryInv, EndStep
    PROVE  DeliveryInv'
  <1> DEFINE n == Len(steps) + 1
             x == [log |-> arrived, events |-> selected, graph |-> current,
                   taken |-> {input.schedule[k] : k \in accepted}]
  <1>1. /\ running /\ running' = FALSE
        /\ consumed' = ConsumedAfter
        /\ steps' = Append(steps, x)
        /\ UNCHANGED <<mode, arrived>>
    BY DEF EndStep
  <1>2. x.log = arrived /\ x.events = selected
    OBVIOUS
  <1> HIDE DEF x
  <1>3. /\ IsSeq(steps')
        /\ Len(steps) \in Nat /\ DOMAIN steps = 1..Len(steps) /\ DOMAIN steps' = 1..n
        /\ \A k \in DOMAIN steps : steps'[k] = steps[k]
        /\ steps'[n] = x
    BY <1>1, AppendAny DEF DeliveryInv, DeliveryTypeOK
  <1> DEFINE D == DOMAIN steps
  <1>4. /\ DOMAIN steps' = D \cup {n} /\ n \notin D
        /\ \A k \in D : k < n /\ ~(n < k)
        /\ ~(n < n)
    BY <1>3
  <1> HIDE DEF n, D
  <1>5. \A k \in D : steps'[k] = steps[k]
    BY <1>3 DEF D
  <1>6. DeliveryTypeOK'
    BY <1>1, <1>3 DEF DeliveryInv, DeliveryTypeOK
  <1>7. LogsGrow'
    <2>1. \A k \in D : steps[k].log \subseteq arrived
      BY DEF DeliveryInv, LogsGrow, D
    <2>2. \A k, i \in D : i < k => steps[i].log \subseteq steps[k].log
      BY DEF DeliveryInv, LogsGrow, D
    <2> QED
      BY <1>1, <1>2, <1>3, <1>4, <1>5, <2>1, <2>2 DEF LogsGrow
  <1>8. selected = InWindow
    BY <1>1 DEF DeliveryInv, SelectedIs
  <1>9. LedgerIs'
    <2> DEFINE U == UNION {Eids(steps[k].events) : k \in D}
    <2>1. UNION {Eids(steps'[k].events) : k \in DOMAIN steps'} = U \cup Eids(selected)
      <3>1. \A v : (\E k \in DOMAIN steps' : v \in Eids(steps'[k].events))
                     <=> (\E k \in D : v \in Eids(steps[k].events)) \/ v \in Eids(selected)
        BY <1>2, <1>3, <1>4, <1>5
      <3>2. \A v : v \in UNION {Eids(steps'[k].events) : k \in DOMAIN steps'}
                     <=> \E k \in DOMAIN steps' : v \in Eids(steps'[k].events)
        OBVIOUS
      <3>3. \A v : v \in U <=> \E k \in D : v \in Eids(steps[k].events)
        OBVIOUS
      <3> HIDE DEF U
      <3> QED
        BY <3>1, <3>2, <3>3
    <2>2. consumed = IF mode = "consume_once" THEN U ELSE {}
      BY DEF DeliveryInv, LedgerIs, D
    <2>3. consumed' = IF mode = "consume_once" THEN consumed \cup Eids(selected) ELSE consumed
      BY <1>1 DEF ConsumedAfter, Eids
    <2> HIDE DEF U
    <2> QED
      BY <1>1, <2>1, <2>2, <2>3 DEF LedgerIs
  <1>10. ASSUME NEW k \in D
         PROVE  steps'[k].events = Given(steps', mode', k)
    <2>1. steps[k].events = Given(steps, mode, k)
      BY DEF DeliveryInv, StepsGiven, D
    <2>2. \A i : i \in DOMAIN steps' /\ i < k <=> i \in D /\ i < k
      BY <1>4
    <2>3. Given(steps', mode', k) = Given(steps, mode, k)
      BY <1>1, <1>5, <2>2 DEF Given, D
    <2> QED
      BY <1>5, <2>1, <2>3
  <1>11. steps'[n].events = Given(steps', mode', n)
    <2>1. \A i : i \in DOMAIN steps' /\ i < n <=> i \in D
      BY <1>4
    <2>2. Given(steps', mode', n) = {e \in arrived :
             /\ Selects(WindowAt(Anchors[n]), e.ts)
             /\ mode = "consume_once" => \A i \in D : e.eid \notin Eids(steps[i].events)}
      <3>1. steps'[n].log = arrived
        BY <1>2, <1>3
      <3>2. \A e : (\A i \in DOMAIN steps' : i < n => e.eid \notin Eids(steps'[i].events))
                     <=> \A i \in D : e.eid \notin Eids(steps[i].events)
        BY <1>5, <2>1
      <3> QED
        BY <1>1, <3>1, <3>2 DEF Given
    <2>3. mode = "consume_once" =>
            consumed = UNION {Eids(steps[i].events) : i \in D}
      BY DEF DeliveryInv, LedgerIs, D
    <2>4. InWindow = {e \in arrived :
             /\ Selects(WindowAt(Anchors[n]), e.ts)
             /\ mode = "consume_once" => e.eid \notin consumed}
      BY DEF InWindow, Visible, n
    <2> QED
      BY <1>2, <1>3, <1>8, <2>2, <2>3, <2>4
  <1>12. StepsGiven'
    <2>1. \A k \in D \cup {n} : steps'[k].events = Given(steps', mode', k)
      BY <1>10, <1>11
    <2> QED
      BY <1>4, <2>1 DEF StepsGiven
  <1>13. SelectedIs'
    BY <1>1 DEF SelectedIs
  <1> QED
    BY <1>6, <1>7, <1>9, <1>12, <1>13 DEF DeliveryInv

(* A run begins with nothing delivered.                                     *)
LEMMA DeliveryInitially == ASSUME RunInit PROVE DeliveryInv
  <1>1. steps = <<>> /\ DOMAIN steps = {}
    BY DEF RunInit
  <1>2. IsSeq(steps)
    <2>1. steps \in Seq({})
      BY <1>1
    <2> QED
      BY <2>1 DEF IsSeq
  <1>3. mode \in {"redelivery", "consume_once"}
    BY RunConstants DEF RunInit
  <1>4. LedgerIs
    BY <1>1 DEF RunInit, LedgerIs
  <1> QED
    BY <1>1, <1>2, <1>3, <1>4
       DEF RunInit, DeliveryInv, DeliveryTypeOK, LogsGrow, StepsGiven, SelectedIs

(* Every step of a run keeps delivery right.                                *)
LEMMA DeliveryInductive == ASSUME DeliveryInv, [RunNext]_runVars PROVE DeliveryInv'
  <1>1. CASE \E e \in Log \ arrived : Arrive(e)
    BY <1>1, ArriveStep
  <1>2. CASE BeginStep
    BY <1>2, BeginStepStep
  <1>3. CASE Resolve
    BY <1>3, DeliveryUnchanged DEF Resolve
  <1>4. CASE EndStep
    BY <1>4, EndStepStep
  <1>5. CASE UNCHANGED runVars
    BY <1>5, DeliveryUnchanged DEF runVars
  <1> QED
    BY <1>1, <1>2, <1>3, <1>4, <1>5 DEF RunNext

-----------------------------------------------------------------------------
(* Of the steps that cover an event, consume_once gives it to the first: if *)
(* an earlier one that covers it did not get it, a still earlier one did.   *)
LEMMA FirstCovering ==
    ASSUME DeliveryInv, mode = "consume_once", NEW e \in Log, NEW k \in DOMAIN steps
    PROVE  e \in steps[k].events <=> k \in Covering(e) /\ \A i \in Covering(e) : k <= i
  <1>1. DOMAIN steps \subseteq Nat
    BY AppendAny DEF DeliveryInv, DeliveryTypeOK
  <1>2. \A i \in DOMAIN steps : e \in steps[i].events <=>
          /\ i \in Covering(e)
          /\ \A j \in DOMAIN steps : j < i => e.eid \notin Eids(steps[j].events)
    BY DEF DeliveryInv, StepsGiven, Given, Covering
  <1>3. \A i \in DOMAIN steps : e.eid \in Eids(steps[i].events) <=> e \in steps[i].events
    <2>1. \A i \in DOMAIN steps : steps[i].events \subseteq Log
      BY DEF DeliveryInv, DeliveryTypeOK, LogsGrow, StepsGiven, Given
    <2> QED
      BY <2>1, RunConstants DEF Eids
  <1>4. \A i \in DOMAIN steps : e \in steps[i].events <=>
          i \in Covering(e) /\ \A j \in DOMAIN steps : j < i => e \notin steps[j].events
    BY <1>2, <1>3
  <1>5. Covering(e) \subseteq DOMAIN steps
    BY DEF Covering
  <1>6. ASSUME e \in steps[k].events, NEW i \in Covering(e), i < k
        PROVE  FALSE
    <2>1. e \notin steps[i].events
      BY <1>4, <1>5, <1>6
    <2>2. PICK j \in DOMAIN steps : j < i /\ e \in steps[j].events
      BY <1>4, <1>5, <1>6, <2>1
    <2>3. j < k
      BY <1>1, <1>5, <1>6, <2>2
    <2> QED
      BY <1>4, <1>6, <2>2, <2>3
  <1>7. ASSUME k \in Covering(e), \A i \in Covering(e) : k <= i,
               NEW j \in DOMAIN steps, j < k, e \in steps[j].events
        PROVE  FALSE
    <2>1. j \in Covering(e)
      BY <1>4, <1>7
    <2> QED
      BY <1>1, <1>7, <2>1
  <1>8. e \in steps[k].events => \A i \in Covering(e) : k <= i
    BY <1>1, <1>5, <1>6
  <1> QED
    BY <1>4, <1>7, <1>8

(* Under redelivery every step whose window covers an event evaluates it,   *)
(* under consume_once the first of them and no other.                       *)
THEOREM DeliveryByMode == RunSpec => []DeliveredByMode
  <1>1. DeliveryInv => DeliveredByMode
    <2> SUFFICES ASSUME DeliveryInv, NEW e \in Log
                 PROVE  {k \in DOMAIN steps : e \in steps[k].events} =
                          IF mode = "redelivery" THEN Covering(e)
                          ELSE {k \in Covering(e) : \A i \in Covering(e) : k <= i}
      BY DEF DeliveredByMode
    <2>1. Covering(e) \subseteq DOMAIN steps
      BY DEF Covering
    <2>2. CASE mode = "redelivery"
      BY <2>2 DEF DeliveryInv, StepsGiven, Given, Covering
    <2>3. CASE mode = "consume_once"
      BY <2>1, <2>3, FirstCovering
    <2> QED
      BY <2>2, <2>3 DEF DeliveryInv, DeliveryTypeOK
  <1> QED
    BY <1>1, DeliveryInitially, DeliveryInductive, PTL DEF RunSpec

-----------------------------------------------------------------------------
(* Folds over a sequence as runs from position to position. *)

(* What a fold from base comes to on each set of the first n positions, the *)
(* last of them taken last.                                                 *)
FoldsOver(f, n, base, op) ==
    f = [s \in SUBSET (1..n) |->
            IF s = {} THEN base ELSE op[<<LastIn(s), f[s \ {LastIn(s)}]>>]]

(* There is such a fold.                                                    *)
LEMMA FoldOverExists ==
    ASSUME NEW n \in Nat, NEW V, NEW base \in V, NEW op \in [(1..n) \X V -> V]
    PROVE  /\ \A s \in SUBSET (1..n) : s # {} => LastIn(s) \in s
           /\ \E f \in [SUBSET (1..n) -> V] : FoldsOver(f, n, base, op)
  <1> DEFINE S == 1..n
             c == [s \in SUBSET S |-> LastIn(s)]
  <1>1. ASSUME NEW s \in SUBSET S, s # {} PROVE LastIn(s) \in s
    <2>1. \E i \in s : \A j \in s : i >= j
      BY <1>1, LastOf
    <2> QED
      BY <2>1, Zenon DEF LastIn
  <1>2. Picks(c, S)
    BY <1>1 DEF Picks
  <1>3. IsFiniteSet(S)
    BY FS_Interval
  <1>4. \A s \in SUBSET S : c[s] = LastIn(s)
    OBVIOUS
  <1> HIDE DEF c
  <1>5. PICK f \in [SUBSET S -> V] : IsFold(c, op, base, f, SUBSET S)
    <2>1. op \in [S \X V -> V]
      OBVIOUS
    <2> HIDE DEF S
    <2> QED
      BY <1>2, <1>3, <2>1, FoldExists
  <1>6. FoldsOver(f, n, base, op)
    <2> DEFINE step(s) == IF s = {} THEN base ELSE op[<<LastIn(s), f[s \ {LastIn(s)}]>>]
    <2>1. \A s \in SUBSET S : FoldStep(c, op, base, f, s) = step(s)
      BY <1>4 DEF FoldStep
    <2>2. f = [s \in SUBSET S |-> FoldStep(c, op, base, f, s)]
      BY <1>5 DEF IsFold
    <2> HIDE DEF step, S
    <2>3. f = [s \in SUBSET S |-> step(s)]
      BY <2>1, <2>2
    <2> QED
      BY <2>3, Zenon DEF FoldsOver, step, S
  <1> QED
    BY <1>1, <1>5, <1>6

(* What holds at first and is passed on holds everywhere.                  *)
LEMMA CountsUp ==
    ASSUME NEW n \in Nat, NEW T, 0 \in T, \A k \in 1..n : k - 1 \in T => k \in T
    PROVE  \A k \in 0..n : k \in T
  <1> DEFINE U == {k \in 0..n : k \notin T}
  <1>1. ASSUME U # {} PROVE FALSE
    <2>1. U \subseteq Nat
      OBVIOUS
    <2> HIDE DEF U
    <2>2. PICK k \in U : \A j \in U : k <= j
      BY <1>1, <2>1, FirstOf
    <2>3. k \in 0..n /\ k \notin T /\ \A j \in 0..n : j < k => j \in T
      BY <2>2 DEF U
    <2>4. k \in 1..n /\ k - 1 \in 0..n /\ k - 1 < k
      BY <2>3
    <2> QED
      BY <2>3, <2>4
  <1> QED
    BY <1>1

(* The last of the first k positions is the k-th.                           *)
LEMMA LastOfFirst ==
    ASSUME NEW n \in Nat, NEW k \in 1..n
    PROVE  /\ 1..k \in SUBSET (1..n) /\ 1..k # {}
           /\ LastIn(1..k) = k /\ (1..k) \ {k} = 1..k - 1
  <1> DEFINE m == LastIn(1..k)
  <1>1. k \in 1..k /\ \A j \in 1..k : k >= j
    OBVIOUS
  <1>2. m \in 1..k /\ \A j \in 1..k : m >= j
    BY <1>1, Zenon DEF LastIn
  <1> HIDE DEF m
  <1>3. m = k
    BY <1>1, <1>2
  <1>4. (1..k) \ {k} = 1..k - 1 /\ 1..k \subseteq 1..n
    OBVIOUS
  <1> QED
    BY <1>1, <1>3, <1>4 DEF m

-----------------------------------------------------------------------------
(* An order that passes some of the gates.                                  *)

GateState == [graph : Graph, taken : Seq(Actions)]

(* The action a at the gates.                                               *)
GateStep(gates, st, a, active) ==
    IF Passes(gates, st, a, active)
    THEN [graph |-> Apply(st.graph, a), taken |-> Append(st.taken, a)]
    ELSE st

(* r holds the states on the way through the schedule of in.                *)
GatedRun(gates, in, r) ==
    /\ r[0] = [graph |-> in.graph, taken |-> <<>>]
    /\ \A k \in 1..Len(in.schedule) :
         r[k] = GateStep(gates, r[k - 1], in.schedule[k], in.active)
    /\ r[Len(in.schedule)] = Gated(gates, in.graph, in.schedule, in.active)

(* The equation of the fold over an order.                                  *)
GatedFold(gates, in, it) ==
    it = [s \in SUBSET DOMAIN in.schedule |->
            IF s = {} THEN [graph |-> in.graph, taken |-> <<>>]
            ELSE LET x == LastIn(s)
                 IN  GateStep(gates, it[s \ {x}], in.schedule[x], in.active)]

(* Gated is that fold.                                                      *)
LEMMA GatedFolds ==
    ASSUME NEW gates, NEW in
    PROVE  Gated(gates, in.graph, in.schedule, in.active)
             = (CHOOSE it : GatedFold(gates, in, it))[DOMAIN in.schedule]
  BY Zenon DEF Gated, FoldLeft, MapThenFoldSet, GatedFold, GateStep, Max, LastIn

(* A step of it leads from state to state.                                  *)
LEMMA GateStepTyped ==
    ASSUME NEW gates, NEW st \in GateState, NEW a \in Actions, NEW active
    PROVE  GateStep(gates, st, a, active) \in GateState
  <1>1. st.graph \in Graph /\ st.taken \in Seq(Actions) /\ a.slot \in Slots /\ a.value \in Values
    BY ResolverConstants DEF GateState
  <1>2. Apply(st.graph, a) \in Graph /\ Append(st.taken, a) \in Seq(Actions)
    BY <1>1, ApplyGraph
  <1> QED
    BY <1>2 DEF GateStep, GateState

(* There is such a run, of states.                                          *)
LEMMA GatedRunExists ==
    ASSUME NEW gates, NEW in \in Input
    PROVE  \E r \in [0..Len(in.schedule) -> GateState] : GatedRun(gates, in, r)
  <1> DEFINE q == in.schedule
             act == in.active
             base == [graph |-> in.graph, taken |-> <<>>]
             it == CHOOSE f : GatedFold(gates, in, f)
  <1>1. PICK n \in Nat : n = Len(q) /\ DOMAIN q = 1..n
    BY DEF Input
  <1> DEFINE op == [p \in (1..n) \X GateState |-> GateStep(gates, p[2], q[p[1]], act)]
  <1>2. base \in GateState
    BY DEF Input, GateState
  <1>3. op \in [(1..n) \X GateState -> GateState]
    BY <1>1, GateStepTyped DEF Input
  <1>4. /\ \A s \in SUBSET (1..n) : s # {} => LastIn(s) \in s
        /\ \E f \in [SUBSET (1..n) -> GateState] : FoldsOver(f, n, base, op)
    <2> HIDE DEF op, base
    <2> QED
      BY <1>2, <1>3, FoldOverExists
  <1>5. PICK f \in [SUBSET (1..n) -> GateState] : FoldsOver(f, n, base, op)
    BY <1>4
  <1> DEFINE step(s) == IF s = {} THEN base
                        ELSE LET x == LastIn(s) IN GateStep(gates, f[s \ {x}], q[x], act)
  <1>6. ASSUME NEW s \in SUBSET (1..n)
        PROVE  f[s] = step(s)
    <2>1. f[s] = IF s = {} THEN base ELSE op[<<LastIn(s), f[s \ {LastIn(s)}]>>]
      BY <1>5 DEF FoldsOver
    <2>2. CASE s = {}
      BY <2>1, <2>2
    <2>3. CASE s # {}
      <3> DEFINE x == LastIn(s)
      <3>1. x \in 1..n /\ f[s \ {x}] \in GateState
        BY <1>4, <1>5, <2>3
      <3> HIDE DEF x
      <3>2. op[<<x, f[s \ {x}]>>] = GateStep(gates, f[s \ {x}], q[x], act)
        BY <3>1
      <3> HIDE DEF op
      <3> QED
        BY <2>1, <2>3, <3>2, Zenon DEF x
    <2> QED
      BY <2>2, <2>3
  <1>7. GatedFold(gates, in, f)
    <2> HIDE DEF step
    <2>1. f = [s \in SUBSET (1..n) |-> step(s)]
      BY <1>5, <1>6
    <2> QED
      BY <1>1, <2>1, Zenon DEF GatedFold, step
  <1>8. GatedFold(gates, in, it)
    BY <1>7, Zenon
  <1> DEFINE r == [k \in 0..n |-> it[1..k]]
  <1> HIDE DEF it, step, op
  <1>9. r[0] = base
    <2>1. 1..0 = {} /\ {} \in SUBSET DOMAIN q
      OBVIOUS
    <2>2. it[{}] = base
      BY <1>8, <2>1, Zenon DEF GatedFold
    <2>3. r[0] = it[1..0]
      OBVIOUS
    <2> QED
      BY <2>1, <2>2, <2>3, Zenon
  <1>10. ASSUME NEW k \in 1..n
         PROVE  r[k] = GateStep(gates, r[k - 1], q[k], act)
    <2>1. /\ 1..k \in SUBSET DOMAIN q /\ 1..k # {}
          /\ LastIn(1..k) = k /\ (1..k) \ {k} = 1..k - 1
      BY <1>1, LastOfFirst
    <2>2. it[1..k] = GateStep(gates, it[(1..k) \ {LastIn(1..k)}], q[LastIn(1..k)], act)
      BY <1>8, <2>1, Zenon DEF GatedFold
    <2>3. r[k] = it[1..k] /\ r[k - 1] = it[1..k - 1]
      OBVIOUS
    <2> QED
      BY <2>1, <2>2, <2>3, Zenon
  <1>11. r[n] = Gated(gates, in.graph, q, act)
    <2>1. r[n] = it[1..n]
      OBVIOUS
    <2> QED
      BY <1>1, <2>1, GatedFolds DEF it
  <1>12. \A k \in 0..n : r[k] \in GateState
    <2> DEFINE T == {k \in 0..n : r[k] \in GateState}
    <2>1. 0 \in T
      BY <1>2, <1>9
    <2>2. ASSUME NEW k \in 1..n, k - 1 \in T PROVE k \in T
      <3>1. r[k - 1] \in GateState /\ q[k] \in Actions
        BY <1>1, <2>2 DEF Input
      <3>2. GateStep(gates, r[k - 1], q[k], act) \in GateState
        BY <3>1, GateStepTyped
      <3> HIDE DEF r
      <3> QED
        BY <1>10, <3>2
    <2> HIDE DEF T
    <2>3. \A k \in 0..n : k \in T
      BY <2>1, <2>2, CountsUp
    <2> QED
      BY <2>3 DEF T
  <1>13. r \in [0..n -> GateState]
    BY <1>12
  <1> HIDE DEF r
  <1>14. GatedRun(gates, in, r)
    BY <1>1, <1>9, <1>10, <1>11 DEF GatedRun
  <1> QED
    BY <1>1, <1>13, <1>14

(* The positions whose actions pass on the way.                             *)
Taken(gates, in, r) ==
    {k \in 1..Len(in.schedule) : Passes(gates, r[k - 1], in.schedule[k], in.active)}

(* A sequence's elements and one more.                                      *)
LEMMA ElementsGrow ==
    ASSUME NEW S, NEW s \in Seq(S), NEW a \in S
    PROVE  ToSet(Append(s, a)) = ToSet(s) \cup {a}
  <1> DEFINE t == Append(s, a)
  <1>1. /\ Len(s) \in Nat /\ DOMAIN s = 1..Len(s) /\ DOMAIN t = 1..Len(s) + 1
        /\ t[Len(s) + 1] = a /\ \A i \in 1..Len(s) : t[i] = s[i]
    OBVIOUS
  <1> HIDE DEF t
  <1>2. ASSUME NEW x PROVE x \in ToSet(t) <=> x \in ToSet(s) \cup {a}
    BY <1>1 DEF ToSet
  <1> QED
    BY <1>2 DEF t

(* All positions are before the end.                                        *)
LEMMA EarlierAll ==
    ASSUME NEW n \in Nat, NEW K, K \subseteq 1..n
    PROVE  Earlier(K, n + 1) = K
  <1>1. \A j \in 1..n : j < n + 1
    OBVIOUS
  <1>2. \A j \in K : j < n + 1
    BY <1>1
  <1> QED
    BY <1>2, Zenon DEF Earlier

(* Nothing accepted leaves the graph as it was.                             *)
LEMMA OverlayOfNone ==
    ASSUME NEW in \in Input
    PROVE  OverlayOf(in, {}) = in.graph
  <1>1. in.graph = [s \in Slots |-> in.graph[s]]
    BY DEF Input, Graph
  <1>2. OverlayOf(in, {}) = [s \in Slots |-> in.graph[s]]
    BY Zenon DEF OverlayOf
  <1> QED
    BY <1>1, <1>2

(* The actions taken up to each position are those at K.                    *)
TakenAt(in, K, r) ==
    \A k \in 0..Len(in.schedule) :
        ToSet(r[k].taken) = {in.schedule[j] : j \in Earlier(K, k + 1)}

(* They are those that passed.                                              *)
LEMMA GatedTakes ==
    ASSUME NEW gates, NEW in \in Input, NEW r \in [0..Len(in.schedule) -> GateState],
           GatedRun(gates, in, r), NEW K, K = Taken(gates, in, r)
    PROVE  TakenAt(in, K, r)
  <1> DEFINE q == in.schedule
             W(k) == {q[j] : j \in Earlier(K, k + 1)}
  <1>1. PICK n \in Nat : n = Len(q)
    BY DEF Input
  <1>2. K \subseteq 1..n
    BY <1>1 DEF Taken
  <1> DEFINE T == {k \in 0..n : ToSet(r[k].taken) = W(k)}
  <1>3. 0 \in T
    <2>1. r[0].taken = <<>>
      BY DEF GatedRun
    <2>2. Earlier(K, 0 + 1) = {}
      BY <1>2 DEF Earlier
    <2>3. ToSet(r[0].taken) = {}
      BY <2>1 DEF ToSet
    <2> QED
      BY <2>2, <2>3
  <1>4. ASSUME NEW k \in 1..n, k - 1 \in T PROVE k \in T
    <2>1. ToSet(r[k - 1].taken) = {q[j] : j \in Earlier(K, k)}
      BY <1>4
    <2>2. r[k] = GateStep(gates, r[k - 1], q[k], in.active)
      BY <1>1 DEF GatedRun
    <2>3. r[k - 1].taken \in Seq(Actions) /\ q[k] \in Actions
      BY <1>1 DEF GateState, Input
    <2>4. CASE k \in K
      <3>1. r[k].taken = Append(r[k - 1].taken, q[k])
        BY <1>1, <2>2, <2>4 DEF Taken, GateStep
      <3>2. ToSet(r[k].taken) = ToSet(r[k - 1].taken) \cup {q[k]}
        BY <2>3, <3>1, ElementsGrow
      <3>3. Earlier(K, k + 1) = Earlier(K, k) \cup {k}
        BY <1>2, <2>4 DEF Earlier
      <3> QED
        BY <2>1, <3>2, <3>3
    <2>5. CASE k \notin K
      <3>1. r[k] = r[k - 1]
        BY <1>1, <2>2, <2>5 DEF Taken, GateStep
      <3>2. Earlier(K, k + 1) = Earlier(K, k)
        BY <1>2, <2>5 DEF Earlier
      <3> QED
        BY <2>1, <3>1, <3>2
    <2> QED
      BY <2>4, <2>5
  <1> HIDE DEF T
  <1>5. \A k \in 0..n : k \in T
    BY <1>3, <1>4, CountsUp
  <1> QED
    BY <1>1, <1>5 DEF T, TakenAt

(* If they have different slots, the graph is their overlay.                *)
LEMMA GatedOverlay ==
    ASSUME NEW gates, NEW in \in Input, NEW r \in [0..Len(in.schedule) -> GateState],
           GatedRun(gates, in, r), NEW K, K = Taken(gates, in, r),
           \A i, j \in K : i < j => in.schedule[i].slot # in.schedule[j].slot
    PROVE  \A k \in 0..Len(in.schedule) : r[k].graph = OverlayOf(in, Earlier(K, k + 1))
  <1> DEFINE q == in.schedule
  <1>1. PICK n \in Nat : n = Len(q)
    BY DEF Input
  <1>2. K \subseteq 1..n
    BY <1>1 DEF Taken
  <1> DEFINE T == {k \in 0..n : r[k].graph = OverlayOf(in, Earlier(K, k + 1))}
  <1>3. 0 \in T
    <2>1. r[0].graph = in.graph
      BY DEF GatedRun
    <2>2. Earlier(K, 0 + 1) = {}
      BY <1>2 DEF Earlier
    <2>3. OverlayOf(in, {}) = in.graph
      BY OverlayOfNone
    <2>4. r[0].graph = OverlayOf(in, Earlier(K, 0 + 1))
      BY <2>1, <2>2, <2>3, Zenon
    <2> QED
      BY <2>4
  <1>4. ASSUME NEW k \in 1..n, k - 1 \in T PROVE k \in T
    <2>1. r[k - 1].graph = OverlayOf(in, Earlier(K, k))
      BY <1>4
    <2>2. r[k] = GateStep(gates, r[k - 1], q[k], in.active)
      BY <1>1 DEF GatedRun
    <2>3. OverlayAdds(in, K, k)
      BY <1>1, <1>2, OverlayGrows
    <2>4. CASE k \in K
      <3>1. r[k].graph = Apply(r[k - 1].graph, q[k])
        BY <1>1, <2>2, <2>4 DEF Taken, GateStep
      <3>2. \A j \in Earlier(K, k) : q[j].slot # q[k].slot
        BY <2>4 DEF Earlier
      <3>3. OverlayOf(in, Earlier(K, k + 1)) = Apply(OverlayOf(in, Earlier(K, k)), q[k])
        BY <2>3, <2>4, <3>2 DEF OverlayAdds
      <3> QED
        BY <2>1, <3>1, <3>3
    <2>5. CASE k \notin K
      <3>1. r[k] = r[k - 1]
        BY <1>1, <2>2, <2>5 DEF Taken, GateStep
      <3>2. Earlier(K, k + 1) = Earlier(K, k)
        BY <1>2, <2>5 DEF Earlier
      <3> QED
        BY <2>1, <3>1, <3>2
    <2> QED
      BY <2>4, <2>5
  <1> HIDE DEF T
  <1>5. \A k \in 0..n : k \in T
    BY <1>3, <1>4, CountsUp
  <1> QED
    BY <1>1, <1>5 DEF T

(* A run through the gates, by the positions it accepts.                    *)
Run(in, K) ==
    /\ in \in Input /\ K \subseteq 1..Len(in.schedule)
    /\ \A k \in 1..Len(in.schedule) : JustifiedBy(in, K, k)

(* Its actions have different slots.                                        *)
LEMMA RunSlots ==
    ASSUME NEW in, NEW K, Run(in, K), NEW i \in K, NEW j \in K, i < j
    PROVE  in.schedule[i].slot # in.schedule[j].slot
  <1>1. JustifiedBy(in, K, j) /\ i \in Earlier(K, j)
    BY DEF Run, Earlier
  <1> QED
    BY <1>1 DEF JustifiedBy, Gates

(* All four gates, on any order, make a run as the resolver's.              *)
LEMMA FourGatesRun ==
    ASSUME NEW in \in Input
    PROVE  \E K : /\ Run(in, K)
                  /\ FourGates(in.graph, in.schedule, in.active).graph = OverlayOf(in, K)
  <1> DEFINE q == in.schedule
             gates == {"role", "policy", "conflict", "shapes"}
  <1>1. PICK n \in Nat : n = Len(q)
    BY DEF Input
  <1>2. PICK r \in [0..n -> GateState] : GatedRun(gates, in, r)
    BY <1>1, GatedRunExists
  <1> DEFINE K == Taken(gates, in, r)
  <1>3. K \subseteq 1..n
    BY <1>1 DEF Taken
  <1>4. ASSUME NEW st, NEW a
        PROVE  Passes(gates, st, a, in.active) <=>
                 /\ a.role \in in.active
                 /\ PolicyOK(st.graph, a)
                 /\ \A b \in ToSet(st.taken) : b.slot # a.slot
                 /\ Admissible(Apply(st.graph, a))
    BY DEF Passes
  <1>5. \A k \in 1..n : k \in K <=> Passes(gates, r[k - 1], q[k], in.active)
    BY <1>1 DEF Taken
  <1> HIDE DEF gates, K
  <1>6. \A k \in 0..n : ToSet(r[k].taken) = {q[j] : j \in Earlier(K, k + 1)}
    <2>1. TakenAt(in, K, r)
      BY <1>1, <1>2, GatedTakes DEF K
    <2> QED
      BY <1>1, <2>1 DEF TakenAt
  <1>7. \A i, j \in K : i < j => q[i].slot # q[j].slot
    <2> SUFFICES ASSUME NEW i \in K, NEW j \in K, i < j PROVE q[i].slot # q[j].slot
      OBVIOUS
    <2>1. i \in Earlier(K, j)
      BY DEF Earlier
    <2>2. j \in 1..n /\ j - 1 \in 0..n /\ j - 1 + 1 = j
      BY <1>3
    <2>3. q[i] \in ToSet(r[j - 1].taken)
      BY <1>6, <2>1, <2>2
    <2> QED
      BY <1>4, <1>5, <2>2, <2>3
  <1>8. \A k \in 0..n : r[k].graph = OverlayOf(in, Earlier(K, k + 1))
    BY <1>1, <1>2, <1>7, GatedOverlay DEF K
  <1>9. ASSUME NEW k \in 1..n PROVE JustifiedBy(in, K, k)
    <2>1. k - 1 \in 0..n /\ k - 1 + 1 = k
      OBVIOUS
    <2>2. /\ ToSet(r[k - 1].taken) = {q[j] : j \in Earlier(K, k)}
          /\ r[k - 1].graph = OverlayOf(in, Earlier(K, k))
      BY <1>6, <1>8, <2>1
    <2>3. (\A b \in ToSet(r[k - 1].taken) : b.slot # q[k].slot)
             <=> \A j \in Earlier(K, k) : q[j].slot # q[k].slot
      BY <2>2
    <2>4. k \in K <=> Passes(gates, r[k - 1], q[k], in.active)
      BY <1>5
    <2>5. Passes(gates, r[k - 1], q[k], in.active) <=>
             /\ q[k].role \in in.active
             /\ PolicyOK(r[k - 1].graph, q[k])
             /\ \A b \in ToSet(r[k - 1].taken) : b.slot # q[k].slot
             /\ Admissible(Apply(r[k - 1].graph, q[k]))
      BY <1>4
    <2> HIDE DEF q
    <2>6. k \in K <=> Gates(in, Earlier(K, k), OverlayOf(in, Earlier(K, k)), q[k])
      BY <2>2, <2>3, <2>4, <2>5 DEF Gates, q
    <2> QED
      BY <2>6 DEF JustifiedBy, q
  <1>10. FourGates(in.graph, q, in.active).graph = OverlayOf(in, K)
    <2>1. FourGates(in.graph, q, in.active) = r[n]
      BY <1>1, <1>2, Zenon DEF FourGates, GatedRun, gates
    <2>2. Earlier(K, n + 1) = K
      BY <1>3, EarlierAll
    <2> QED
      BY <1>8, <2>1, <2>2
  <1> QED
    BY <1>1, <1>3, <1>9, <1>10 DEF Run

-----------------------------------------------------------------------------
(* Zone by zone. *)

(* The shapes as they bear on one zone.                                     *)
ZoneAdmissible(g, z) ==
    /\ ZoneSetpointShape(g, z) /\ ZoneVentilationShape(g, z)
    /\ EmergencyStateShape(g, z) /\ EmergencyVentLockShape(g, z)
    /\ z = "A" => ZoneAComfortCapShape(g) /\ ZoneAEmergencyVentShape(g)

(* A graph is admissible when each of its zones is.                         *)
LEMMA ByZone ==
    ASSUME NEW g
    PROVE  HvacAdmissible(g) <=> \A z \in Zones : ZoneAdmissible(g, z)
  <1>1. "A" \in Zones
    BY DEF Zones
  <1> QED
    BY <1>1 DEF HvacAdmissible, ZoneAdmissible

(* The graphs have the same values in zone z.                               *)
SameZone(g, h, z) == \A s \in HvacSlots : s[1] = z => g[s] = h[s]

(* The shapes of a zone read nothing else.                                  *)
LEMMA ZoneReads ==
    ASSUME NEW g, NEW h, NEW z \in Zones, SameZone(g, h, z), ZoneAdmissible(g, z)
    PROVE  ZoneAdmissible(h, z)
  <1>1. /\ <<z, "setpoint">> \in HvacSlots /\ <<z, "setpoint">>[1] = z
        /\ <<z, "vent">> \in HvacSlots /\ <<z, "vent">>[1] = z
        /\ <<z, "emergency">> \in HvacSlots /\ <<z, "emergency">>[1] = z
    BY DEF HvacSlots
  <1>2. /\ Setpoint(h, z) = Setpoint(g, z) /\ Vent(h, z) = Vent(g, z)
        /\ EmergencyState(h, z) = EmergencyState(g, z)
    BY <1>1 DEF SameZone, Setpoint, Vent, EmergencyState
  <1> QED
    BY <1>2 DEF ZoneAdmissible, ZoneSetpointShape, ZoneVentilationShape, EmergencyStateShape,
                EmergencyVentLockShape, ZoneAComfortCapShape, ZoneAEmergencyVentShape

(* Whether a write keeps an admissible graph admissible is up to its zone.  *)
LEMMA WriteByZone ==
    ASSUME NEW g, DOMAIN g = HvacSlots, HvacAdmissible(g), NEW a, a.slot \in HvacSlots
    PROVE  HvacAdmissible(Apply(g, a)) <=> ZoneAdmissible(Apply(g, a), a.slot[1])
  <1> DEFINE h == Apply(g, a)
  <1>1. a.slot[1] \in Zones
    BY DEF HvacSlots
  <1>2. ASSUME NEW z \in Zones, z # a.slot[1] PROVE ZoneAdmissible(h, z)
    <2>1. SameZone(g, h, z)
      BY <1>2 DEF SameZone, Apply
    <2> HIDE DEF h
    <2>2. ZoneAdmissible(g, z)
      BY ByZone
    <2> QED
      BY <2>1, <2>2, ZoneReads
  <1> HIDE DEF h
  <1>3. HvacAdmissible(h) <=> \A z \in Zones : ZoneAdmissible(h, z)
    BY ByZone
  <1> QED
    BY <1>1, <1>2, <1>3 DEF h

(* Whatever either writes to the slot, the other does.                      *)
SameWrites(in, K, io, L, s) ==
    /\ \A k \in K : in.schedule[k].slot = s => \E l \in L : io.schedule[l] = in.schedule[k]
    /\ \A l \in L : io.schedule[l].slot = s => \E k \in K : in.schedule[k] = io.schedule[l]

(* The overlay of a slot is its writes.                                     *)
LEMMA OverlayReads ==
    ASSUME NEW in, NEW K, NEW io, NEW L, io.graph = in.graph,
           NEW s \in Slots, SameWrites(in, K, io, L, s)
    PROVE  OverlayOf(in, K)[s] = OverlayOf(io, L)[s]
  <1>1. (\E k \in K : in.schedule[k].slot = s) <=> (\E l \in L : io.schedule[l].slot = s)
    BY DEF SameWrites
  <1> DEFINE V == {in.schedule[k].value : k \in {k \in K : in.schedule[k].slot = s}}
             W == {io.schedule[l].value : l \in {l \in L : io.schedule[l].slot = s}}
  <1>2. V = W
    <2>1. ASSUME NEW v \in V PROVE v \in W
      <3>1. PICK k \in K : in.schedule[k].slot = s /\ v = in.schedule[k].value
        OBVIOUS
      <3>2. PICK l \in L : io.schedule[l] = in.schedule[k]
        BY <3>1 DEF SameWrites
      <3> QED
        BY <3>1, <3>2
    <2>2. ASSUME NEW v \in W PROVE v \in V
      <3>1. PICK l \in L : io.schedule[l].slot = s /\ v = io.schedule[l].value
        OBVIOUS
      <3>2. PICK k \in K : in.schedule[k] = io.schedule[l]
        BY <3>1 DEF SameWrites
      <3> QED
        BY <3>1, <3>2
    <2> HIDE DEF V, W
    <2> QED
      BY <2>1, <2>2
  <1> QED
    BY <1>1, <1>2 DEF OverlayOf

(* Nothing is before the first position.                                    *)
LEMMA NothingEarlier ==
    ASSUME NEW n \in Nat, NEW K, K \subseteq 1..n
    PROVE  Earlier(K, 0 + 1) = {}
  <1>1. \A j \in 1..n : ~(j < 0 + 1)
    OBVIOUS
  <1> QED
    BY <1>1, Zenon DEF Earlier

(* In a run from an admissible graph every graph on the way is admissible.  *)
LEMMA RunAdmissible ==
    ASSUME NEW in, NEW K, Run(in, K), Admissible(in.graph)
    PROVE  \A k \in 1..Len(in.schedule) + 1 : Admissible(OverlayOf(in, Earlier(K, k)))
  <1> DEFINE q == in.schedule
  <1>1. PICK n \in Nat : n = Len(q)
    BY DEF Run, Input
  <1>2. K \subseteq 1..n /\ in \in Input
    BY <1>1 DEF Run
  <1> DEFINE T == {k \in 0..n : Admissible(OverlayOf(in, Earlier(K, k + 1)))}
  <1>3. 0 \in T
    <2>1. Earlier(K, 0 + 1) = {}
      BY <1>2, NothingEarlier
    <2>2. OverlayOf(in, {}) = in.graph
      BY <1>2, OverlayOfNone
    <2> QED
      BY <2>1, <2>2
  <1>4. ASSUME NEW k \in 1..n, k - 1 \in T PROVE k \in T
    <2>1. Admissible(OverlayOf(in, Earlier(K, k)))
      BY <1>4
    <2>2. OverlayAdds(in, K, k)
      BY <1>1, <1>2, OverlayGrows
    <2>3. JustifiedBy(in, K, k)
      BY <1>1 DEF Run
    <2>4. Admissible(OverlayOf(in, Earlier(K, k + 1)))
      BY <2>1, <2>2, <2>3 DEF OverlayAdds, JustifiedBy, Gates
    <2> QED
      BY <2>4
  <1> HIDE DEF T
  <1>5. \A k \in 0..n : k \in T
    BY <1>3, <1>4, CountsUp
  <1> SUFFICES ASSUME NEW k \in 1..n + 1 PROVE Admissible(OverlayOf(in, Earlier(K, k)))
    BY <1>1
  <1>6. k - 1 \in 0..n /\ k - 1 + 1 = k
    OBVIOUS
  <1> QED
    BY <1>5, <1>6 DEF T

(* Whether an action of such a run passes is up to its zone.                *)
LEMMA GatesByZone ==
    ASSUME BuildingProfile, NEW in, NEW K, Run(in, K), Admissible(in.graph),
           NEW k \in 1..Len(in.schedule)
    PROVE  LET a == in.schedule[k] IN
           k \in K <=> /\ a.role \in in.active
                       /\ HvacPolicyOK(in.graph, a)
                       /\ \A j \in Earlier(K, k) : in.schedule[j].slot # a.slot
                       /\ ZoneAdmissible(Apply(OverlayOf(in, Earlier(K, k)), a), a.slot[1])
  <1> DEFINE a == in.schedule[k]
             g == OverlayOf(in, Earlier(K, k))
  <1>1. k \in 1..Len(in.schedule) + 1
    BY DEF Run, Input
  <1>2. HvacAdmissible(g) /\ DOMAIN g = HvacSlots
    BY <1>1, RunAdmissible DEF BuildingProfile, OverlayOf
  <1>3. a.slot \in HvacSlots
    BY ResolverConstants DEF Run, Input, BuildingProfile
  <1>4. k \in K <=> Gates(in, Earlier(K, k), g, a)
    BY DEF Run, JustifiedBy
  <1> HIDE DEF a, g
  <1>5. HvacAdmissible(Apply(g, a)) <=> ZoneAdmissible(Apply(g, a), a.slot[1])
    BY <1>2, <1>3, WriteByZone
  <1>6. PolicyOK(g, a) <=> HvacPolicyOK(in.graph, a)
    BY DEF BuildingProfile, HvacPolicyOK
  <1>7. Gates(in, Earlier(K, k), g, a) <=>
            /\ a.role \in in.active
            /\ HvacPolicyOK(in.graph, a)
            /\ \A j \in Earlier(K, k) : in.schedule[j].slot # a.slot
            /\ ZoneAdmissible(Apply(g, a), a.slot[1])
    BY <1>5, <1>6 DEF Gates, BuildingProfile
  <1> QED
    BY <1>4, <1>7 DEF a, g

(* The order io is the schedule of in with actions moved past those of      *)
(* other zones, by the permutation p.                                       *)
Moved(in, io, n, p) ==
    /\ in \in Input /\ io \in Input /\ io.graph = in.graph /\ io.active = in.active
    /\ Len(in.schedule) = n /\ Len(io.schedule) = n
    /\ p \in [1..n -> 1..n]
    /\ \A k \in 1..n : \E i \in 1..n : p[i] = k
    /\ \A i \in 1..n : io.schedule[i] = in.schedule[p[i]]
    /\ \A i, j \in 1..n : i < j /\ io.schedule[i].slot[1] = io.schedule[j].slot[1] => p[i] < p[j]

(* If the two runs agree on what comes before an action, they write the     *)
(* same to its zone before it.                                              *)
LEMMA SameBefore ==
    ASSUME NEW in, NEW io, NEW n \in Nat, NEW p, Moved(in, io, n, p),
           NEW K, K \subseteq 1..n, NEW L, L \subseteq 1..n, NEW i \in 1..n,
           \A j \in 1..n : j < i => (j \in L <=> p[j] \in K),
           NEW s, s[1] = io.schedule[i].slot[1]
    PROVE  SameWrites(in, Earlier(K, p[i]), io, Earlier(L, i), s)
  <1> DEFINE q == in.schedule
             o == io.schedule
  <1>1. ASSUME NEW k \in Earlier(K, p[i]), q[k].slot = s
        PROVE  \E l \in Earlier(L, i) : o[l] = q[k]
    <2>1. k \in K /\ k \in 1..n /\ k < p[i]
      BY DEF Earlier
    <2>2. PICK j \in 1..n : p[j] = k
      BY <2>1 DEF Moved
    <2>3. o[j] = q[k]
      BY <2>2 DEF Moved
    <2>4. j # i
      BY <2>1, <2>2 DEF Moved
    <2>5. ~(i < j)
      <3>1. i < j => p[i] < p[j]
        BY <1>1, <2>3 DEF Moved
      <3>2. p[i] \in 1..n
        BY DEF Moved
      <3> QED
        BY <2>1, <2>2, <3>1, <3>2
    <2>6. j < i
      BY <2>4, <2>5
    <2> QED
      BY <2>1, <2>2, <2>3, <2>6 DEF Earlier
  <1>2. ASSUME NEW l \in Earlier(L, i), o[l].slot = s
        PROVE  \E k \in Earlier(K, p[i]) : q[k] = o[l]
    <2>1. l \in L /\ l \in 1..n /\ l < i
      BY DEF Earlier
    <2>2. p[l] < p[i] /\ o[l] = q[p[l]]
      BY <1>2, <2>1 DEF Moved
    <2>3. p[l] \in Earlier(K, p[i])
      BY <2>1, <2>2 DEF Earlier
    <2> QED
      BY <2>2, <2>3
  <1> QED
    BY <1>1, <1>2 DEF SameWrites

(* So the same actions pass in both.                                        *)
LEMMA SameAccepted ==
    ASSUME BuildingProfile, NEW in, NEW io, NEW n \in Nat, NEW p, Moved(in, io, n, p),
           NEW K, Run(in, K), NEW L, Run(io, L), Admissible(in.graph)
    PROVE  \A i \in 1..n : i \in L <=> p[i] \in K
  <1> DEFINE q == in.schedule
             o == io.schedule
             U == {i \in 1..n : ~(i \in L <=> p[i] \in K)}
  <1>1. K \subseteq 1..n /\ L \subseteq 1..n
    BY DEF Run, Moved
  <1>2. ASSUME U # {} PROVE FALSE
    <2>1. U \subseteq Nat
      OBVIOUS
    <2> HIDE DEF U
    <2>2. PICK i \in U : \A j \in U : i <= j
      BY <1>2, <2>1, FirstOf
    <2>3. i \in 1..n /\ ~(i \in L <=> p[i] \in K)
      BY <2>2 DEF U
    <2>4. ASSUME NEW j \in 1..n, j < i PROVE j \in L <=> p[j] \in K
      <3>1. ~(i <= j)
        BY <2>3, <2>4
      <3> QED
        BY <2>2, <3>1 DEF U
    <2>5. p[i] \in 1..n /\ o[i] = q[p[i]]
      BY <2>3 DEF Moved
    <2> DEFINE a == o[i]
               g == OverlayOf(in, Earlier(K, p[i]))
               h == OverlayOf(io, Earlier(L, i))
    <2>6. a.slot \in HvacSlots
      BY <2>3, ResolverConstants DEF Moved, Input, BuildingProfile
    <2>7. ASSUME NEW s, s[1] = a.slot[1]
          PROVE  SameWrites(in, Earlier(K, p[i]), io, Earlier(L, i), s)
      BY <1>1, <2>3, <2>4, <2>7, SameBefore
    <2>8. (\A j \in Earlier(K, p[i]) : q[j].slot # a.slot)
             <=> \A j \in Earlier(L, i) : o[j].slot # a.slot
      <3>1. SameWrites(in, Earlier(K, p[i]), io, Earlier(L, i), a.slot)
        BY <2>7
      <3> QED
        BY <3>1 DEF SameWrites
    <2>9. SameZone(g, h, a.slot[1])
      <3> SUFFICES ASSUME NEW s \in HvacSlots, s[1] = a.slot[1] PROVE g[s] = h[s]
        BY DEF SameZone
      <3>1. SameWrites(in, Earlier(K, p[i]), io, Earlier(L, i), s)
        BY <2>7
      <3>2. io.graph = in.graph /\ s \in Slots
        BY DEF Moved, BuildingProfile
      <3> QED
        BY <3>1, <3>2, OverlayReads
    <2> HIDE DEF g, h, a
    <2>10. DOMAIN g = HvacSlots /\ DOMAIN h = HvacSlots
      BY DEF g, h, OverlayOf, BuildingProfile
    <2>11. /\ SameZone(Apply(g, a), Apply(h, a), a.slot[1])
           /\ SameZone(Apply(h, a), Apply(g, a), a.slot[1])
      BY <2>6, <2>9, <2>10 DEF SameZone, Apply
    <2>12. a.slot[1] \in Zones
      BY <2>6 DEF HvacSlots
    <2>13. ZoneAdmissible(Apply(g, a), a.slot[1]) <=> ZoneAdmissible(Apply(h, a), a.slot[1])
      BY <2>11, <2>12, ZoneReads
    <2>14. p[i] \in K <=> /\ a.role \in in.active
                          /\ HvacPolicyOK(in.graph, a)
                          /\ \A j \in Earlier(K, p[i]) : q[j].slot # a.slot
                          /\ ZoneAdmissible(Apply(g, a), a.slot[1])
      <3>1. p[i] \in 1..Len(q) /\ q[p[i]] = a
        BY <2>5 DEF Moved, a
      <3> QED
        BY <3>1, GatesByZone DEF g
    <2>15. i \in L <=> /\ a.role \in io.active
                       /\ HvacPolicyOK(io.graph, a)
                       /\ \A j \in Earlier(L, i) : o[j].slot # a.slot
                       /\ ZoneAdmissible(Apply(h, a), a.slot[1])
      <3>1. i \in 1..Len(o) /\ o[i] = a /\ Admissible(io.graph)
        BY <2>3 DEF Moved, a
      <3> QED
        BY <3>1, GatesByZone DEF h
    <2>16. io.active = in.active /\ io.graph = in.graph
      BY DEF Moved
    <2> QED
      BY <2>3, <2>8, <2>13, <2>14, <2>15, <2>16
  <1> QED
    BY <1>2

(* And the two successors are the same.                                     *)
LEMMA SameSuccessor ==
    ASSUME BuildingProfile, NEW in, NEW io, NEW n \in Nat, NEW p, Moved(in, io, n, p),
           NEW K, Run(in, K), NEW L, Run(io, L), Admissible(in.graph)
    PROVE  OverlayOf(io, L) = OverlayOf(in, K)
  <1>1. \A i \in 1..n : i \in L <=> p[i] \in K
    BY SameAccepted
  <1>2. K \subseteq 1..n /\ L \subseteq 1..n
    BY DEF Run, Moved
  <1>3. ASSUME NEW s PROVE SameWrites(in, K, io, L, s)
    <2>1. ASSUME NEW k \in K PROVE \E l \in L : io.schedule[l] = in.schedule[k]
      <3>1. PICK i \in 1..n : p[i] = k
        BY <1>2 DEF Moved
      <3> QED
        BY <1>1, <3>1 DEF Moved
    <2>2. ASSUME NEW l \in L PROVE \E k \in K : in.schedule[k] = io.schedule[l]
      BY <1>1, <1>2 DEF Moved
    <2> QED
      BY <2>1, <2>2 DEF SameWrites
  <1>4. io.graph = in.graph
    BY DEF Moved
  <1>5. \A s \in Slots : OverlayOf(in, K)[s] = OverlayOf(io, L)[s]
    BY <1>3, <1>4, OverlayReads
  <1>6. /\ OverlayOf(in, K) = [s \in Slots |-> OverlayOf(in, K)[s]]
        /\ OverlayOf(io, L) = [s \in Slots |-> OverlayOf(io, L)[s]]
    BY DEF OverlayOf
  <1> QED
    BY <1>5, <1>6

(* The input with another order of its actions.                             *)
Reordered(in, order) == [graph |-> in.graph, schedule |-> order, active |-> in.active]

(* order is schedule, permuted by p.                                        *)
Permuted(order, schedule, n, p) ==
    /\ p \in [1..n -> 1..n]
    /\ \A i, j \in 1..n : p[i] = p[j] => i = j
    /\ \A k \in 1..n : \E i \in 1..n : p[i] = k
    /\ order = [i \in 1..n |-> schedule[p[i]]]

(* There are n numbers up to n.                                             *)
LEMMA CountTo ==
    ASSUME NEW n \in Nat
    PROVE  IsFiniteSet(1..n) /\ Cardinality(1..n) = n
  <1>1. 1 \in Int /\ n \in Int
    OBVIOUS
  <1>2. IsFiniteSet(1..n) /\ Cardinality(1..n) = IF 1 > n THEN 0 ELSE n - 1 + 1
    BY <1>1, FS_Interval, Zenon
  <1> DEFINE c == Cardinality(1..n)
  <1>3. c = IF 1 > n THEN 0 ELSE n - 1 + 1
    BY <1>2
  <1> HIDE DEF c
  <1>4. c = n
    BY <1>3
  <1> QED
    BY <1>2, <1>4 DEF c

(* An action of a schedule of different actions has one position.           *)
LEMMA OnePosition ==
    ASSUME NEW order, NEW q, NEW n, NEW p, Permuted(order, q, n, p),
           \A k, l \in 1..n : q[k] = q[l] => k = l,
           NEW i \in 1..n, NEW k \in 1..n, q[k] = order[i]
    PROVE  k = p[i]
  <1>1. p[i] \in 1..n /\ order[i] = q[p[i]]
    BY DEF Permuted
  <1> QED
    BY <1>1

(* A shuffle of a schedule permutes it.                                     *)
LEMMA ShuffleOf ==
    ASSUME NEW in \in Input, NEW order \in Shuffles(in.schedule), NEW n \in Nat, n = Len(in.schedule)
    PROVE  /\ \E p : Permuted(order, in.schedule, n, p)
           /\ Reordered(in, order) \in Input /\ Len(order) = n
  <1> DEFINE q == in.schedule
  <1>1. DOMAIN q = 1..n
    BY DEF Input
  <1>2. PICK p \in SetToSeqs(DOMAIN q) : order = [i \in DOMAIN q |-> q[p[i]]]
    BY Zenon DEF Shuffles
  <1>3. IsFiniteSet(1..n) /\ Cardinality(1..n) = n
    BY CountTo
  <1>4. p \in [1..n -> 1..n] /\ \A i, j \in 1..n : i # j => p[i] # p[j]
    BY <1>1, <1>2, <1>3 DEF SetToSeqs
  <1>5. p \in Injection(1..n, 1..n)
    BY <1>4 DEF Injection, IsInjective
  <1>6. p \in Surjection(1..n, 1..n)
    BY <1>3, <1>5, FS_Injection
  <1>7. \A k \in 1..n : \E i \in 1..n : p[i] = k
    BY <1>6 DEF Surjection
  <1>8. Permuted(order, q, n, p)
    BY <1>1, <1>2, <1>4, <1>7 DEF Permuted
  <1>9. \A i \in 1..n : q[p[i]] \in Actions
    BY <1>1, <1>4 DEF Input
  <1>10. order \in Seq(Actions) /\ Len(order) = n
    BY <1>1, <1>2, <1>9
  <1>11. Reordered(in, order) \in Input
    BY <1>10 DEF Reordered, Input
  <1> QED
    BY <1>8, <1>10, <1>11

(* A finished step is a run of the schedule of its window, whose actions    *)
(* differ.                                                                  *)
LEMMA StepRun ==
    ASSUME BuildingProfile, IInv, DecisionsJustified, VerdictsExact, RequestInv, Finished
    PROVE  /\ Run(input, accepted) /\ current = OverlayOf(input, accepted)
           /\ Len(input.schedule) \in Nat /\ DOMAIN input.schedule = 1..Len(input.schedule)
           /\ input.graph = request.graph /\ input.graph \in StateGraphs
           /\ EventRecords(request.events) /\ request.context \in DOMAIN ActiveRoles
           /\ input.active = ActiveRoles[request.context]
           /\ input.schedule = ScheduleActions(EvaluateRules(input.graph, request.events))
           /\ \A k, l \in 1..Len(input.schedule) :
                 k < l => LexLess(ScheduleKey(input.schedule[k]), ScheduleKey(input.schedule[l]))
           /\ \A k, l \in 1..Len(input.schedule) :
                 input.schedule[k] = input.schedule[l] => k = l
  <1> DEFINE E == request.events
             q == input.schedule
             n == Len(q)
  <1>1. Resolution(input, accepted, decisions) /\ current = OverlayOf(input, accepted)
    BY FinishedResolution DEF Finished
  <1>2. /\ E \subseteq WindowEvents /\ input \in Input /\ input.graph = request.graph
        /\ request.context \in DOMAIN ActiveRoles /\ input.active = ActiveRoles[request.context]
        /\ q = ScheduleActions(EvaluateRules(input.graph, E))
    BY DEF RequestInv, Requests, StepInput, IInv, TypeOK
  <1>3. EventRecords(E)
    <2>1. IsFiniteSet(E)
      BY <1>2, StepConstants, FS_Subset DEF EventRecords
    <2> QED
      BY <1>2, <2>1, StepConstants DEF EventRecords
  <1>4. input.graph \in StateGraphs
    BY StepConstants DEF IInv, TypeOK, Input, Graph, StateGraphs, BuildingProfile, Small
  <1>5. n \in Nat /\ DOMAIN q = 1..n /\ Len(decisions) = n
    BY <1>2 DEF Input, Finished
  <1>6. Run(input, accepted)
    BY <1>1, <1>2, <1>5 DEF Resolution, Run
  <1> HIDE DEF E, q, n
  <1>7. /\ q \in Seq(EvaluateRules(input.graph, E))
        /\ \A k, l \in 1..n : k < l => LexLess(ScheduleKey(q[k]), ScheduleKey(q[l]))
    BY <1>2, <1>3, <1>4, WindowSchedule DEF n
  <1>8. \A k \in 1..n : ScheduleKey(q[k]) \in Keys(11)
    <2>1. \A k \in 1..n : q[k] \in EvaluateRules(input.graph, E)
      BY <1>5, <1>7
    <2> QED
      BY <1>3, <1>4, <2>1, EvaluatedMade DEF KeyOf
  <1>9. ASSUME NEW k \in 1..n, NEW l \in 1..n, q[k] = q[l] PROVE k = l
    <2>1. ~LexLess(ScheduleKey(q[k]), ScheduleKey(q[k]))
      BY <1>8, LexOrder
    <2>2. ~(k < l) /\ ~(l < k)
      BY <1>7, <1>9, <2>1
    <2> QED
      BY <1>5, <2>2
  <1> QED
    BY <1>1, <1>2, <1>3, <1>4, <1>5, <1>6, <1>7, <1>9 DEF E, q, n

(* An order that keeps each zone's actions in order resolves alike.         *)
LEMMA FinishedCommutes ==
    ASSUME BuildingProfile, IInv, DecisionsJustified, VerdictsExact, RequestInv
    PROVE  ZonesCommute
  <1> SUFFICES ASSUME Finished, Admissible(input.graph),
                      NEW order \in Shuffles(input.schedule), KeepsZones(order)
               PROVE  FourGates(input.graph, order, input.active).graph = current
    BY DEF ZonesCommute, Compared
  <1> DEFINE q == input.schedule
             io == Reordered(input, order)
  <1>1. PICK n \in Nat : n = Len(q) /\ DOMAIN q = 1..n
    BY StepRun
  <1>2. /\ Run(input, accepted) /\ current = OverlayOf(input, accepted) /\ input \in Input
        /\ \A k, l \in 1..n : q[k] = q[l] => k = l
    BY <1>1, StepRun DEF Run
  <1>3. io \in Input /\ Len(order) = n
    BY <1>1, <1>2, ShuffleOf
  <1>4. PICK p : Permuted(order, q, n, p)
    BY <1>1, <1>2, ShuffleOf
  <1>5. /\ p \in [1..n -> 1..n] /\ \A k \in 1..n : \E i \in 1..n : p[i] = k
        /\ DOMAIN order = 1..n /\ \A i \in 1..n : order[i] = q[p[i]]
    BY <1>4 DEF Permuted
  <1>6. ASSUME NEW i \in 1..n, NEW j \in 1..n, i < j, order[i].slot[1] = order[j].slot[1]
        PROVE  p[i] < p[j]
    <2>1. i \in DOMAIN order /\ j \in DOMAIN order
      BY <1>5
    <2>2. PICK k, l \in DOMAIN q : k < l /\ q[k] = order[i] /\ q[l] = order[j]
      BY <1>6, <2>1, Zenon DEF KeepsZones
    <2>3. k = p[i] /\ l = p[j]
      BY <1>1, <1>2, <1>4, <2>2, OnePosition
    <2> QED
      BY <2>2, <2>3
  <1>7. io.graph = input.graph /\ io.schedule = order /\ io.active = input.active
    BY DEF Reordered
  <1> HIDE DEF io
  <1>8. Moved(input, io, n, p)
    BY <1>1, <1>2, <1>3, <1>5, <1>6, <1>7 DEF Moved
  <1>9. PICK L : /\ Run(io, L)
                 /\ FourGates(io.graph, io.schedule, io.active).graph = OverlayOf(io, L)
    BY <1>3, FourGatesRun
  <1>10. OverlayOf(io, L) = OverlayOf(input, accepted)
    BY <1>2, <1>8, <1>9, SameSuccessor
  <1> QED
    BY <1>2, <1>7, <1>9, <1>10

(* In every step of the building from an admissible graph, which of two     *)
(* zones comes first never matters, whatever the window and its order.      *)
THEOREM ZonesNeverInterfere ==
    ASSUME BuildingProfile
    PROVE  HvacSpec => []ZonesCommute
  <1>1. IInv /\ DecisionsJustified /\ VerdictsExact /\ RequestInv => ZonesCommute
    BY FinishedCommutes
  <1>2. HvacSpec => Spec /\ []RequestInv
    BY StepResolves
  <1> QED
    BY <1>1, <1>2, ResolverInvariant, ResolverJustified, VerdictsInvariant, PTL

-----------------------------------------------------------------------------
(* The order among ties. *)

(* A run of a window's actions in an order that may break ties in any way.  *)
TiedWindow(in, K, E) ==
    /\ Run(in, K) /\ Admissible(in.graph) /\ in.graph \in StateGraphs
    /\ "emergency" \in in.active /\ EventRecords(E)
    /\ \A i \in 1..Len(in.schedule) : in.schedule[i] \in EvaluateRules(in.graph, E)
    /\ \A a \in EvaluateRules(in.graph, E) : \E i \in 1..Len(in.schedule) : in.schedule[i] = a
    /\ \A i, j \in 1..Len(in.schedule) :
          i < j => ~LexLess(TiePrefix(in.schedule[j]), TiePrefix(in.schedule[i]))

(* The prefix of a key begins the key.                                      *)
LEMMA PrefixOfKey ==
    ASSUME NEW g \in StateGraphs, NEW E, EventRecords(E), NEW a \in EvaluateRules(g, E)
    PROVE  TiePrefix(a) = <<ScheduleKey(a)[1], ScheduleKey(a)[2], ScheduleKey(a)[3]>>
  <1>1. PICK r \in Rules, e \in E : \E row \in Rows(g, r, e) :
             Parts(a, r, row, e) /\ KeyOf(ScheduleKey(a), r, row, e)
    BY EvaluatedMade
  <1>2. /\ ScheduleKey(a)[1] = a.roleRank /\ ScheduleKey(a)[2] = a.priority
        /\ ScheduleKey(a)[3] = a.ts
    BY <1>1 DEF Parts, KeyOf
  <1> QED
    BY <1>2 DEF TiePrefix

(* A difference in the first, second or third part decides.                 *)
LEMMA PrefixLess ==
    ASSUME NEW x \in Keys(11), NEW y \in Keys(11),
           \/ x[1] < y[1]
           \/ x[1] = y[1] /\ x[2] < y[2]
           \/ x[1] = y[1] /\ x[2] = y[2] /\ x[3] < y[3]
    PROVE  LexLess(<<x[1], x[2], x[3]>>, <<y[1], y[2], y[3]>>)
  <1> DEFINE u == <<x[1], x[2], x[3]>>
             v == <<y[1], y[2], y[3]>>
  <1>1. /\ DOMAIN u = 1..3 /\ u[1] = x[1] /\ u[2] = x[2] /\ u[3] = x[3]
        /\ v[1] = y[1] /\ v[2] = y[2] /\ v[3] = y[3]
    OBVIOUS
  <1> HIDE DEF u, v
  <1>2. CASE x[1] < y[1]
    <2>1. 1 \in DOMAIN u /\ u[1] < v[1] /\ \A j \in 1..1 - 1 : u[j] = v[j]
      BY <1>1, <1>2
    <2> QED
      BY <2>1, Zenon DEF LexLess, u, v
  <1>3. CASE x[1] = y[1] /\ x[2] < y[2]
    <2>1. 2 \in DOMAIN u /\ u[2] < v[2] /\ \A j \in 1..2 - 1 : u[j] = v[j]
      BY <1>1, <1>3
    <2> QED
      BY <2>1, Zenon DEF LexLess, u, v
  <1>4. CASE x[1] = y[1] /\ x[2] = y[2] /\ x[3] < y[3]
    <2>1. 3 \in DOMAIN u /\ u[3] < v[3] /\ \A j \in 1..3 - 1 : u[j] = v[j]
      BY <1>1, <1>4
    <2> QED
      BY <2>1, Zenon DEF LexLess, u, v
  <1> QED
    BY <1>2, <1>3, <1>4

(* What comes before an alarm's consequence is no less than it in the       *)
(* prefix: a consequence of an alarm of no lower priority and, of the same  *)
(* priority, no earlier time.                                               *)
LEMMA TiedBefore ==
    ASSUME NEW in, NEW K, NEW E, TiedWindow(in, K, E),
           NEW i \in 1..Len(in.schedule), NEW j \in 1..Len(in.schedule), j < i,
           NEW p, NEW rid, NEW e, AlarmKey(ScheduleKey(in.schedule[i]), p, rid, e),
           p \in Int, e.ts \in Int
    PROVE  \E f \in E : /\ IsAlarm(E, f)
                        /\ \/ VentAction(in.schedule[j], f) /\ (p = 0 => f.ts <= e.ts)
                           \/ StateAction(in.schedule[j], f) /\ p # 0 /\ (p = 1 => f.ts <= e.ts)
  <1> DEFINE s == in.schedule
             x == ScheduleKey(s[j])
             y == ScheduleKey(s[i])
  <1>1. /\ s[i] \in EvaluateRules(in.graph, E) /\ s[j] \in EvaluateRules(in.graph, E)
        /\ ~LexLess(TiePrefix(s[i]), TiePrefix(s[j]))
        /\ in.graph \in StateGraphs /\ EventRecords(E)
    BY DEF TiedWindow
  <1>2. ~LexLess(<<y[1], y[2], y[3]>>, <<x[1], x[2], x[3]>>)
    BY <1>1, PrefixOfKey
  <1>3. x \in Keys(11) /\ y \in Keys(11)
    <2>1. \A a \in EvaluateRules(in.graph, E) : ScheduleKey(a) \in Keys(11)
      BY <1>1, EvaluatedMade DEF KeyOf
    <2> QED
      BY <1>1, <2>1
  <1>4. y[1] = 0 /\ y[2] = p /\ y[3] = e.ts
    BY DEF AlarmKey
  <1>5. /\ ~(y[1] < x[1]) /\ ~(y[1] = x[1] /\ y[2] < x[2])
        /\ ~(y[1] = x[1] /\ y[2] = x[2] /\ y[3] < x[3])
    <2> HIDE DEF x, y
    <2> QED
      BY <1>2, <1>3, PrefixLess
  <1>6. \/ \E f \in E : IsAlarm(E, f) /\ (VentAction(s[j], f) \/ StateAction(s[j], f))
        \/ OtherAction(s[j])
    BY <1>1, ThreeKinds
  <1>7. x[1] \in Int /\ x[2] \in Int /\ x[3] \in Int
    <2> HIDE DEF x
    <2>1. x \in [1..11 -> Int]
      BY <1>3 DEF Keys
    <2> QED
      BY <2>1
  <1>8. ~OtherAction(s[j])
    BY <1>4, <1>5, <1>7 DEF OtherAction
  <1>9. PICK f \in E : IsAlarm(E, f) /\ (VentAction(s[j], f) \/ StateAction(s[j], f))
    BY <1>6, <1>8
  <1>10. f.ts \in Int
    BY <1>1, <1>9 DEF EventRecords
  <1>11. CASE VentAction(s[j], f)
    <2>1. x[1] = 0 /\ x[2] = 0 /\ x[3] = f.ts
      BY <1>11 DEF VentAction, AlarmKey
    <2>2. p = 0 => f.ts <= e.ts
      BY <1>4, <1>5, <1>10, <2>1
    <2> QED
      BY <1>9, <1>11, <2>2
  <1>12. CASE StateAction(s[j], f)
    <2>1. x[1] = 0 /\ x[2] = 1 /\ x[3] = f.ts
      BY <1>12 DEF StateAction, AlarmKey
    <2>2. p # 0 /\ (p = 1 => f.ts <= e.ts)
      BY <1>4, <1>5, <1>10, <2>1
    <2> QED
      BY <1>9, <1>12, <2>2
  <1> QED
    BY <1>9, <1>11, <1>12

(* The alarms of zone z in the window E.                                    *)
AlarmsIn(E, z) == {e \in E : IsAlarm(E, e) /\ e.zone = z}

(* Their ventilation, wherever in the order, comes to be accepted.          *)
LEMMA TiedVent ==
    ASSUME BuildingProfile, NEW in, NEW K, NEW E, TiedWindow(in, K, E),
           NEW z \in Zones, AlarmsIn(E, z) # {}
    PROVE  \E i \in K : \E e \in AlarmsIn(E, z) : VentAction(in.schedule[i], e)
  <1> DEFINE s == in.schedule
             V == {i \in 1..Len(s) : \E e \in AlarmsIn(E, z) : VentAction(s[i], e)}
  <1>1. /\ Run(in, K) /\ in \in Input /\ Admissible(in.graph) /\ in.graph \in StateGraphs
        /\ HvacAdmissible(in.graph) /\ "emergency" \in in.active /\ EventRecords(E)
        /\ \A i \in 1..Len(s) : s[i] \in EvaluateRules(in.graph, E)
        /\ \A a \in EvaluateRules(in.graph, E) : \E i \in 1..Len(s) : s[i] = a
    BY DEF TiedWindow, Run, BuildingProfile
  <1>2. EmergencyState(in.graph, z) # {} /\ Vent(in.graph, z) # {}
    <2>1. Cardinality(EmergencyState(in.graph, z)) = 1 /\ Cardinality(Vent(in.graph, z)) = 1
      BY <1>1 DEF HvacAdmissible, EmergencyStateShape, ZoneVentilationShape
    <2> QED
      BY <2>1, FS_EmptySet
  <1>3. V # {}
    <2>1. PICK e \in E : IsAlarm(E, e) /\ e.zone = z
      BY DEF AlarmsIn
    <2>2. \E a \in EvaluateRules(in.graph, E) : VentAction(a, e)
      BY <1>1, <1>2, <2>1, AlarmYields
    <2> QED
      BY <1>1, <2>1, <2>2 DEF AlarmsIn
  <1>4. V \subseteq Nat
    OBVIOUS
  <1> HIDE DEF V
  <1>5. PICK i \in V : \A j \in V : i <= j
    BY <1>3, <1>4, FirstOf
  <1>6. PICK e \in AlarmsIn(E, z) : i \in 1..Len(s) /\ VentAction(s[i], e)
    BY <1>5 DEF V
  <1>7. e \in E /\ e.zone = z /\ e.ts \in Int
    BY <1>1 DEF AlarmsIn, EventRecords
  <1>8. /\ AlarmKey(ScheduleKey(s[i]), 0, 6, e) /\ s[i].slot = <<z, "vent">>
        /\ s[i].value = Emergency /\ s[i].role = "emergency"
    BY <1>6, <1>7 DEF VentAction
  <1>9. ASSUME NEW j \in Earlier(K, i) PROVE s[j].slot # s[i].slot
    <2>1. j \in 1..Len(s) /\ j < i
      BY <1>1 DEF Earlier, Run
    <2>2. PICK f \in E : IsAlarm(E, f) /\ VentAction(s[j], f)
      <3>1. 0 \in Int
        OBVIOUS
      <3> QED
        BY <1>6, <1>7, <1>8, <2>1, <3>1, TiedBefore
    <2>3. s[j].slot = <<f.zone, "vent">>
      BY <2>2 DEF VentAction
    <2>4. f.zone # z
      <3> SUFFICES ASSUME f.zone = z PROVE FALSE
        OBVIOUS
      <3>1. j \in V
        BY <2>1, <2>2 DEF V, AlarmsIn
      <3>2. i <= j /\ i \in Int /\ j \in Int
        BY <1>5, <1>6, <2>1, <3>1
      <3> QED
        BY <2>1, <3>2
    <2> QED
      BY <1>8, <2>3, <2>4
  <1> DEFINE g == OverlayOf(in, Earlier(K, i))
  <1>10. HvacAdmissible(g) /\ DOMAIN g = HvacSlots
    <2>1. i \in 1..Len(s) + 1
      BY <1>1, <1>6 DEF Input
    <2>2. Admissible(g)
      BY <1>1, <2>1, RunAdmissible
    <2>3. DOMAIN g = Slots
      BY DEF OverlayOf
    <2> HIDE DEF g
    <2> QED
      BY <2>2, <2>3 DEF BuildingProfile
  <1> HIDE DEF g
  <1>11. Admissible(Apply(g, s[i]))
    <2>1. Apply(g, s[i]) = [g EXCEPT ![<<z, "vent">>] = {Emergency}]
      BY <1>8 DEF Apply
    <2> QED
      BY <1>10, <2>1, VentKeepsAdmissible DEF BuildingProfile
  <1>12. PolicyOK(g, s[i])
    BY <1>8 DEF BuildingProfile, HvacPolicyOK
  <1>13. i \in K
    BY <1>1, <1>6, <1>8, <1>9, <1>11, <1>12 DEF Run, JustifiedBy, Gates, g
  <1> QED
    BY <1>6, <1>13

(* A slot that one write of a run has, has that write's value.              *)
LEMMA WrittenOnce ==
    ASSUME NEW in, NEW K, Run(in, K), NEW k, NEW i \in Earlier(K, k),
           in.schedule[i].slot \in Slots
    PROVE  OverlayOf(in, Earlier(K, k))[in.schedule[i].slot] = {in.schedule[i].value}
  <1> DEFINE s == in.schedule[i].slot
             B == {j \in Earlier(K, k) : in.schedule[j].slot = s}
  <1>1. ASSUME NEW j \in B PROVE j = i
    <2>1. /\ i \in K /\ j \in K /\ in.schedule[j].slot = s
          /\ i \in Int /\ j \in Int
      BY DEF Earlier, Run, Input
    <2>2. ~(i < j) /\ ~(j < i)
      BY <2>1, RunSlots
    <2> QED
      BY <2>1, <2>2
  <1>2. B = {i}
    <2> SUFFICES i \in B
      BY <1>1
    <2> QED
      OBVIOUS
  <1>3. OverlayOf(in, Earlier(K, k))[s] = {in.schedule[j].value : j \in B}
    <2>1. \E j \in Earlier(K, k) : in.schedule[j].slot = s
      BY <1>2
    <2> QED
      BY <2>1, Zenon DEF OverlayOf
  <1> QED
    BY <1>2, <1>3

(* And then the state of one of the earliest of them.                       *)
LEMMA TiedState ==
    ASSUME BuildingProfile, NEW in, NEW K, NEW E, TiedWindow(in, K, E),
           NEW z \in Zones, AlarmsIn(E, z) # {}
    PROVE  \E i \in K : \E e \in AlarmsIn(E, z) :
             StateAction(in.schedule[i], e) /\ \A f \in AlarmsIn(E, z) : e.ts <= f.ts
  <1> DEFINE s == in.schedule
             V == {i \in 1..Len(s) : \E e \in AlarmsIn(E, z) : StateAction(s[i], e)}
  <1>1. /\ Run(in, K) /\ in \in Input /\ Admissible(in.graph) /\ in.graph \in StateGraphs
        /\ HvacAdmissible(in.graph) /\ "emergency" \in in.active /\ EventRecords(E)
        /\ \A i \in 1..Len(s) : s[i] \in EvaluateRules(in.graph, E)
        /\ \A a \in EvaluateRules(in.graph, E) : \E i \in 1..Len(s) : s[i] = a
    BY DEF TiedWindow, Run, BuildingProfile
  <1>2. EmergencyState(in.graph, z) # {} /\ Vent(in.graph, z) # {}
    <2>1. Cardinality(EmergencyState(in.graph, z)) = 1 /\ Cardinality(Vent(in.graph, z)) = 1
      BY <1>1 DEF HvacAdmissible, EmergencyStateShape, ZoneVentilationShape
    <2> QED
      BY <2>1, FS_EmptySet
  <1>3. ASSUME NEW f \in AlarmsIn(E, z)
        PROVE  \E i \in V : StateAction(s[i], f)
    <2>1. f \in E /\ IsAlarm(E, f) /\ f.zone = z
      BY DEF AlarmsIn
    <2>2. \E a \in EvaluateRules(in.graph, E) : StateAction(a, f)
      BY <1>1, <1>2, <2>1, AlarmYields
    <2> QED
      BY <1>1, <2>2
  <1>4. V \subseteq Nat /\ V # {}
    <2>1. V \subseteq Nat
      OBVIOUS
    <2> HIDE DEF V
    <2> QED
      BY <1>3, <2>1
  <1> HIDE DEF V
  <1>5. PICK i \in V : \A j \in V : i <= j
    BY <1>4, FirstOf
  <1>6. PICK e \in AlarmsIn(E, z) : i \in 1..Len(s) /\ StateAction(s[i], e)
    BY <1>5 DEF V
  <1>7. e \in E /\ e.zone = z /\ e.ts \in Int /\ e.arg \in {0, 1}
    BY <1>1 DEF AlarmsIn, EventRecords, IsAlarm
  <1>8. /\ AlarmKey(ScheduleKey(s[i]), 1, 5, e) /\ s[i].slot = <<z, "emergency">>
        /\ s[i].value = e.arg /\ s[i].role = "emergency"
    BY <1>6, <1>7 DEF StateAction
  <1>9. ASSUME NEW j \in Earlier(K, i) PROVE s[j].slot # s[i].slot
    <2>1. j \in 1..Len(s) /\ j < i
      BY <1>1 DEF Earlier, Run
    <2>2. PICK f \in E : IsAlarm(E, f) /\ (VentAction(s[j], f) \/ StateAction(s[j], f))
      <3>1. 1 \in Int
        OBVIOUS
      <3> QED
        BY <1>6, <1>7, <1>8, <2>1, <3>1, TiedBefore
    <2>3. CASE VentAction(s[j], f)
      BY <1>8, <2>3 DEF VentAction
    <2>4. CASE StateAction(s[j], f)
      <3>1. s[j].slot = <<f.zone, "emergency">>
        BY <2>4 DEF StateAction
      <3>2. f.zone # z
        <4> SUFFICES ASSUME f.zone = z PROVE FALSE
          OBVIOUS
        <4>1. j \in V
          BY <2>1, <2>2, <2>4 DEF V, AlarmsIn
        <4>2. i <= j /\ i \in Int /\ j \in Int
          BY <1>5, <1>6, <2>1, <4>1
        <4> QED
          BY <2>1, <4>2
      <3> QED
        BY <1>8, <3>1, <3>2
    <2> QED
      BY <2>2, <2>3, <2>4
  <1>10. PICK v \in K : \E f \in AlarmsIn(E, z) : VentAction(s[v], f)
    BY TiedVent
  <1>11. PICK f \in AlarmsIn(E, z) : VentAction(s[v], f)
    BY <1>10
  <1>12. /\ AlarmKey(ScheduleKey(s[v]), 0, 6, f) /\ s[v].slot = <<z, "vent">>
         /\ s[v].value = Emergency /\ f.ts \in Int
    BY <1>1, <1>11 DEF VentAction, AlarmsIn, EventRecords
  <1>13. v \in Earlier(K, i)
    <2>1. v \in 1..Len(s) /\ v \in Int /\ i \in Int
      BY <1>1, <1>6 DEF Run
    <2>2. v # i
      BY <1>8, <1>12
    <2>3. ASSUME i < v PROVE FALSE
      <3>1. PICK h \in E : VentAction(s[i], h) \/ (StateAction(s[i], h) /\ 0 # 0)
        <4>1. 0 \in Int
          OBVIOUS
        <4> QED
          BY <1>6, <1>12, <2>1, <2>3, <4>1, TiedBefore
      <3> QED
        BY <1>8, <3>1 DEF VentAction
    <2>4. v < i
      BY <2>1, <2>2, <2>3
    <2> QED
      BY <2>4 DEF Earlier
  <1> DEFINE g == OverlayOf(in, Earlier(K, i))
  <1>14. HvacAdmissible(g) /\ DOMAIN g = HvacSlots
    <2>1. i \in 1..Len(s) + 1
      BY <1>1, <1>6 DEF Input
    <2>2. Admissible(g)
      BY <1>1, <2>1, RunAdmissible
    <2>3. DOMAIN g = Slots
      BY DEF OverlayOf
    <2> HIDE DEF g
    <2> QED
      BY <2>2, <2>3 DEF BuildingProfile
  <1>15. Vent(g, z) = {Emergency}
    <2>1. <<z, "vent">> \in Slots
      BY DEF BuildingProfile, HvacSlots
    <2>2. s[v].slot \in Slots
      BY <1>12, <2>1
    <2>3. g[s[v].slot] = {s[v].value}
      BY <1>1, <1>13, <2>2, WrittenOnce
    <2> HIDE DEF g
    <2> QED
      BY <1>12, <2>3 DEF Vent
  <1> HIDE DEF g
  <1>16. Admissible(Apply(g, s[i]))
    <2>1. Apply(g, s[i]) = [g EXCEPT ![<<z, "emergency">>] = {e.arg}]
      BY <1>8 DEF Apply
    <2> QED
      BY <1>7, <1>14, <1>15, <2>1, StateKeepsAdmissible DEF BuildingProfile
  <1>17. PolicyOK(g, s[i])
    BY <1>8 DEF BuildingProfile, HvacPolicyOK
  <1>18. i \in K
    BY <1>1, <1>6, <1>8, <1>9, <1>16, <1>17 DEF Run, JustifiedBy, Gates, g
  <1>19. ASSUME NEW h \in AlarmsIn(E, z) PROVE e.ts <= h.ts
    <2>1. PICK j \in V : StateAction(s[j], h)
      BY <1>3
    <2>2. /\ AlarmKey(ScheduleKey(s[j]), 1, 5, h) /\ h.ts \in Int /\ j \in 1..Len(s)
      BY <1>1, <2>1 DEF StateAction, AlarmsIn, EventRecords, V
    <2>3. CASE j = i
      BY <1>7, <1>8, <2>2, <2>3 DEF AlarmKey
    <2>4. CASE j # i
      <3>1. i < j
        BY <1>5, <1>6, <2>2, <2>4
      <3>2. PICK d \in E : /\ IsAlarm(E, d)
                           /\ \/ VentAction(s[i], d)
                              \/ StateAction(s[i], d) /\ d.ts <= h.ts
        <4>1. 1 \in Int
          OBVIOUS
        <4> QED
          BY <1>6, <2>2, <3>1, <4>1, TiedBefore
      <3>3. ~VentAction(s[i], d)
        BY <1>8 DEF VentAction
      <3>4. d.ts = e.ts
        BY <1>8, <3>2, <3>3 DEF StateAction, AlarmKey
      <3> QED
        BY <3>2, <3>3, <3>4
    <2> QED
      BY <2>3, <2>4
  <1> QED
    BY <1>6, <1>18, <1>19

(* However ties are broken, the alarms of a finished step are handled.      *)
LEMMA FinishedTies ==
    ASSUME BuildingProfile, IInv, DecisionsJustified, VerdictsExact, RequestInv
    PROVE  TiesKeepAlarms
  <1> SUFFICES ASSUME Finished, Admissible(input.graph), NEW order \in TieShuffles(input.schedule),
                      NEW z \in Zones, Alarms(z) # {}
               PROVE  LET g == FourGates(input.graph, order, input.active).graph IN
                      /\ Vent(g, z) = {Emergency}
                      /\ EmergencyState(g, z) \in
                           {{e.arg} : e \in {e \in Alarms(z) : \A f \in Alarms(z) : e.ts <= f.ts}}
    BY DEF TiesKeepAlarms, Compared
  <1> DEFINE q == input.schedule
             io == Reordered(input, order)
             E == request.events
             g == FourGates(input.graph, order, input.active).graph
  <1>1. PICK n \in Nat : n = Len(q) /\ DOMAIN q = 1..n
    BY StepRun
  <1>2. /\ input \in Input /\ input.graph \in StateGraphs /\ EventRecords(E)
        /\ "emergency" \in input.active
        /\ q = ScheduleActions(EvaluateRules(input.graph, E))
    BY StepRun DEF Run, ActiveRoles, RolePrecedence
  <1>3. /\ order \in Shuffles(q)
        /\ \A i, j \in DOMAIN order : i < j => ~LexLess(TiePrefix(order[j]), TiePrefix(order[i]))
    BY DEF TieShuffles
  <1>4. io \in Input /\ Len(order) = n
    BY <1>1, <1>2, <1>3, ShuffleOf
  <1>5. PICK p : Permuted(order, q, n, p)
    BY <1>1, <1>2, <1>3, ShuffleOf
  <1>6. /\ p \in [1..n -> 1..n] /\ \A k \in 1..n : \E i \in 1..n : p[i] = k
        /\ DOMAIN order = 1..n /\ \A i \in 1..n : order[i] = q[p[i]]
    BY <1>5 DEF Permuted
  <1>7. io.graph = input.graph /\ io.schedule = order /\ io.active = input.active
    BY DEF Reordered
  <1> HIDE DEF io, E
  <1>8. /\ \A i \in 1..n : order[i] \in EvaluateRules(input.graph, E)
        /\ \A a \in EvaluateRules(input.graph, E) : \E i \in 1..n : order[i] = a
    <2>1. /\ q \in Seq(EvaluateRules(input.graph, E))
          /\ \A a \in EvaluateRules(input.graph, E) : \E k \in 1..n : q[k] = a
      BY <1>1, <1>2, WindowSchedule
    <2>2. \A k \in 1..n : q[k] \in EvaluateRules(input.graph, E)
      BY <1>1, <2>1
    <2> HIDE DEF q
    <2>3. ASSUME NEW a \in EvaluateRules(input.graph, E) PROVE \E i \in 1..n : order[i] = a
      <3>1. PICK k \in 1..n : q[k] = a
        BY <2>1
      <3>2. PICK i \in 1..n : p[i] = k
        BY <1>6
      <3> QED
        BY <1>6, <3>1, <3>2
    <2> QED
      BY <1>6, <2>2, <2>3
  <1>9. PICK L : Run(io, L) /\ g = OverlayOf(io, L)
    BY <1>4, <1>7, FourGatesRun
  <1>10. TiedWindow(io, L, E)
    BY <1>2, <1>3, <1>4, <1>6, <1>7, <1>8, <1>9 DEF TiedWindow
  <1>11. AlarmsIn(E, z) = Alarms(z)
    BY DEF AlarmsIn, Alarms, IsAlarm, E
  <1>12. PICK i \in L : \E e \in AlarmsIn(E, z) : VentAction(order[i], e)
    BY <1>7, <1>10, <1>11, TiedVent
  <1>13. PICK j \in L : \E e \in AlarmsIn(E, z) :
            StateAction(order[j], e) /\ \A f \in AlarmsIn(E, z) : e.ts <= f.ts
    BY <1>7, <1>10, <1>11, TiedState
  <1>14. PICK e \in Alarms(z) : StateAction(order[j], e) /\ \A f \in Alarms(z) : e.ts <= f.ts
    BY <1>11, <1>13
  <1>15. /\ order[i].slot = <<z, "vent">> /\ order[i].value = Emergency
         /\ order[j].slot = <<z, "emergency">> /\ order[j].value = e.arg
    BY <1>12, <1>14 DEF VentAction, StateAction, AlarmsIn, Alarms
  <1>16. Earlier(L, n + 1) = L
    <2>1. L \subseteq 1..n
      BY <1>4, <1>7, <1>9 DEF Run
    <2> QED
      BY <2>1, EarlierAll
  <1>17. <<z, "vent">> \in Slots /\ <<z, "emergency">> \in Slots
    BY DEF BuildingProfile, HvacSlots
  <1> HIDE DEF g
  <1>18. g[<<z, "vent">>] = {Emergency} /\ g[<<z, "emergency">>] = {e.arg}
    <2>1. g[order[i].slot] = {order[i].value}
      BY <1>7, <1>9, <1>15, <1>16, <1>17, WrittenOnce
    <2>2. g[order[j].slot] = {order[j].value}
      BY <1>7, <1>9, <1>15, <1>16, <1>17, WrittenOnce
    <2> QED
      BY <1>15, <2>1, <2>2
  <1>19. Vent(g, z) = {Emergency} /\ EmergencyState(g, z) = {e.arg}
    BY <1>18 DEF Vent, EmergencyState
  <1> QED
    BY <1>14, <1>19 DEF g

(* In every step of the building from an admissible graph, the ventilation  *)
(* of a zone with alarms goes to emergency and its state is an earliest     *)
(* alarm's, however the ties of the schedule are broken.                    *)
THEOREM AlarmsSurviveTies ==
    ASSUME BuildingProfile
    PROVE  HvacSpec => []TiesKeepAlarms
  <1>1. IInv /\ DecisionsJustified /\ VerdictsExact /\ RequestInv => TiesKeepAlarms
    BY FinishedTies
  <1>2. HvacSpec => Spec /\ []RequestInv
    BY StepResolves
  <1> QED
    BY <1>1, <1>2, ResolverInvariant, ResolverJustified, VerdictsInvariant, PTL

-----------------------------------------------------------------------------
(* Fewer gates. *)

(* Only the shapes ever refuse.                                             *)
OnlyShapes(in, K) ==
    \A k \in 1..Len(in.schedule) :
        k \in K <=> Admissible(Apply(OverlayOf(in, Earlier(K, k)), in.schedule[k]))

(* No two of the actions have one slot.                                     *)
SlotsApart(in, K) == \A i, j \in K : i < j => in.schedule[i].slot # in.schedule[j].slot

(* A step with no action refused by role, policy or conflict.               *)
LEMMA ReasonsOnlyShapes ==
    ASSUME IInv, DecisionsJustified, VerdictsExact, Finished,
           \A k \in DOMAIN decisions : decisions[k].reason \in {"admissible", "inadmissible"}
    PROVE  OnlyShapes(input, accepted)
  <1> SUFFICES ASSUME NEW k \in 1..Len(input.schedule)
               PROVE  k \in accepted <=>
                        Admissible(Apply(OverlayOf(input, Earlier(accepted, k)), input.schedule[k]))
    BY DEF OnlyShapes
  <1> DEFINE E == Earlier(accepted, k)
             a == input.schedule[k]
             g == OverlayOf(input, E)
  <1>1. k \in 1..Len(decisions) /\ k \in DOMAIN decisions
    BY DEF Finished, IInv, TypeOK
  <1>2. decisions[k] = VerdictOf(input, accepted, k)
    BY <1>1 DEF VerdictsExact
  <1>3. decisions[k] = Verdict(input, E, a, g)
    BY <1>2, Zenon DEF VerdictOf
  <1>4. JustifiedBy(input, accepted, k)
    BY <1>1, JustifiedMeans
  <1>5. k \in accepted <=> Gates(input, E, g, a)
    BY <1>4, Zenon DEF JustifiedBy
  <1> HIDE DEF E, a, g
  <1>6. decisions[k].reason \in {"admissible", "inadmissible"}
    BY <1>1
  <1>7. a.role \in input.active /\ PolicyOK(g, a) /\ Blocking(input, E, a) = {}
    BY <1>3, <1>6 DEF Verdict, Recorded
  <1>8. \A j \in E : input.schedule[j].slot # a.slot
    BY <1>7 DEF Blocking
  <1>9. k \in accepted <=> Admissible(Apply(g, a))
    BY <1>5, <1>7, <1>8 DEF Gates
  <1> QED
    BY <1>9, Zenon DEF E, a, g

(* A run in which every action is accepted is another.                      *)
LEMMA AllOnlyShapes ==
    ASSUME NEW in, NEW K, Run(in, K), K = 1..Len(in.schedule)
    PROVE  OnlyShapes(in, K)
  <1>1. \A k \in 1..Len(in.schedule) : k \in K /\ JustifiedBy(in, K, k)
    BY DEF Run
  <1> QED
    BY <1>1 DEF OnlyShapes, JustifiedBy, Gates

(* The same call with no role active.                                       *)
Inactive(in) == [graph |-> in.graph, schedule |-> in.schedule, active |-> {}]

(* The shapes alone take the same actions.                                  *)
LEMMA ShapesTake ==
    ASSUME NEW in, NEW K, Run(in, K), OnlyShapes(in, K),
           NEW r \in [0..Len(in.schedule) -> GateState],
           GatedRun({"shapes"}, Inactive(in), r)
    PROVE  /\ \A k \in 0..Len(in.schedule) : r[k].graph = OverlayOf(in, Earlier(K, k + 1))
           /\ Taken({"shapes"}, Inactive(in), r) = K
  <1> DEFINE q == in.schedule
             un == Inactive(in)
             gates == {"shapes"}
  <1>1. PICK n \in Nat : n = Len(q)
    BY DEF Run, Input
  <1>2. K \subseteq 1..n /\ in \in Input
    BY <1>1 DEF Run
  <1>3. un.graph = in.graph /\ un.schedule = q /\ un.active = {}
    BY DEF Inactive
  <1>4. ASSUME NEW st, NEW a
        PROVE  Passes(gates, st, a, {}) <=> Admissible(Apply(st.graph, a))
    BY DEF Passes
  <1> HIDE DEF un, gates
  <1> DEFINE T == {k \in 0..n : r[k].graph = OverlayOf(in, Earlier(K, k + 1))}
  <1>5. 0 \in T
    <2>1. r[0].graph = in.graph
      BY <1>3 DEF GatedRun, un, gates
    <2>2. Earlier(K, 0 + 1) = {} /\ OverlayOf(in, {}) = in.graph
      BY <1>2, NothingEarlier, OverlayOfNone
    <2>3. r[0].graph = OverlayOf(in, Earlier(K, 0 + 1))
      BY <2>1, <2>2, Zenon
    <2> QED
      BY <2>3
  <1>6. ASSUME NEW k \in 1..n, r[k - 1].graph = OverlayOf(in, Earlier(K, k))
        PROVE  Passes(gates, r[k - 1], q[k], {}) <=> k \in K
    <2>1. k \in K <=> Admissible(Apply(r[k - 1].graph, q[k]))
      BY <1>1, <1>6 DEF OnlyShapes
    <2> QED
      BY <1>4, <2>1
  <1>7. ASSUME NEW k \in 1..n, k - 1 \in T PROVE k \in T
    <2>1. r[k - 1].graph = OverlayOf(in, Earlier(K, k))
      BY <1>7
    <2>2. r[k] = GateStep(gates, r[k - 1], q[k], {})
      BY <1>1, <1>3 DEF GatedRun, un, gates
    <2>3. OverlayAdds(in, K, k)
      BY <1>1, <1>2, OverlayGrows
    <2>4. CASE k \in K
      <3>1. r[k].graph = Apply(r[k - 1].graph, q[k])
        BY <1>6, <2>1, <2>2, <2>4 DEF GateStep
      <3>2. \A j \in Earlier(K, k) : q[j].slot # q[k].slot
        BY <2>4, RunSlots DEF Earlier
      <3>3. OverlayOf(in, Earlier(K, k + 1)) = Apply(OverlayOf(in, Earlier(K, k)), q[k])
        BY <2>3, <2>4, <3>2 DEF OverlayAdds
      <3> QED
        BY <2>1, <3>1, <3>3
    <2>5. CASE k \notin K
      <3>1. r[k] = r[k - 1]
        BY <1>6, <2>1, <2>2, <2>5 DEF GateStep
      <3>2. Earlier(K, k + 1) = Earlier(K, k)
        BY <2>3, <2>5 DEF OverlayAdds
      <3> QED
        BY <2>1, <3>1, <3>2
    <2> QED
      BY <2>4, <2>5
  <1> HIDE DEF T
  <1>8. \A k \in 0..n : k \in T
    BY <1>5, <1>7, CountsUp
  <1>9. \A k \in 0..n : r[k].graph = OverlayOf(in, Earlier(K, k + 1))
    BY <1>8 DEF T
  <1>10. \A k \in 1..n : Passes(gates, r[k - 1], q[k], {}) <=> k \in K
    <2> SUFFICES ASSUME NEW k \in 1..n PROVE Passes(gates, r[k - 1], q[k], {}) <=> k \in K
      OBVIOUS
    <2>1. k - 1 \in 0..n /\ k - 1 + 1 = k
      OBVIOUS
    <2>2. r[k - 1].graph = OverlayOf(in, Earlier(K, k))
      BY <1>9, <2>1
    <2> QED
      BY <1>6, <2>2
  <1>11. Taken(gates, un, r) = K
    BY <1>1, <1>2, <1>3, <1>10 DEF Taken
  <1> QED
    BY <1>1, <1>9, <1>11 DEF un, gates

(* So they come to the same successor.                                      *)
LEMMA ShapesAgree ==
    ASSUME NEW in, NEW K, Run(in, K), OnlyShapes(in, K)
    PROVE  LET shacl == ShaclGated(in.graph, in.schedule) IN
           /\ shacl.graph = OverlayOf(in, K)
           /\ ToSet(shacl.taken) = {in.schedule[k] : k \in K}
  <1> DEFINE q == in.schedule
             un == Inactive(in)
             gates == {"shapes"}
             shacl == ShaclGated(in.graph, q)
  <1>1. PICK n \in Nat : n = Len(q)
    BY DEF Run, Input
  <1>2. K \subseteq 1..n /\ in \in Input
    BY <1>1 DEF Run
  <1>3. un.graph = in.graph /\ un.schedule = q /\ un.active = {} /\ un \in Input
    BY <1>2 DEF Inactive, Input
  <1> HIDE DEF un, gates, shacl
  <1>4. PICK r \in [0..n -> GateState] : GatedRun(gates, un, r)
    BY <1>1, <1>3, GatedRunExists
  <1>5. r[n] = shacl
    BY <1>1, <1>3, <1>4 DEF GatedRun, ShaclGated, gates, shacl
  <1>6. /\ \A k \in 0..n : r[k].graph = OverlayOf(in, Earlier(K, k + 1))
        /\ Taken(gates, un, r) = K
    BY <1>1, <1>4, ShapesTake DEF un, gates
  <1>7. \A k \in 0..n : ToSet(r[k].taken) = {q[j] : j \in Earlier(K, k + 1)}
    <2>1. r \in [0..Len(un.schedule) -> GateState] /\ K = Taken(gates, un, r)
      BY <1>1, <1>3, <1>6
    <2>2. TakenAt(un, K, r)
      BY <1>3, <1>4, <2>1, GatedTakes, Zenon
    <2>3. \A k \in 0..Len(un.schedule) :
             ToSet(r[k].taken) = {un.schedule[j] : j \in Earlier(K, k + 1)}
      BY <2>2, Zenon DEF TakenAt
    <2>4. \A k \in 0..Len(q) : ToSet(r[k].taken) = {q[j] : j \in Earlier(K, k + 1)}
      <3>1. un.schedule = q
        BY <1>3
      <3> HIDE DEF q
      <3> QED
        BY <2>3, <3>1, Zenon
    <2> QED
      BY <1>1, <2>4, Zenon
  <1>8. Earlier(K, n + 1) = K /\ n \in 0..n
    <2>1. Earlier(K, n + 1) = K
      BY <1>2, EarlierAll, Zenon
    <2> QED
      BY <2>1
  <1>9. shacl.graph = OverlayOf(in, K) /\ ToSet(shacl.taken) = {q[k] : k \in K}
    BY <1>5, <1>6, <1>7, <1>8
  <1> QED
    BY <1>9 DEF shacl

(* When everything is taken, it is taken as it comes.                       *)
LEMMA AllTaken ==
    ASSUME NEW gates, NEW in \in Input, NEW r \in [0..Len(in.schedule) -> GateState],
           GatedRun(gates, in, r), Taken(gates, in, r) = 1..Len(in.schedule)
    PROVE  r[Len(in.schedule)].taken = in.schedule
  <1> DEFINE q == in.schedule
  <1>1. PICK n \in Nat : n = Len(q)
    BY DEF Input
  <1> DEFINE T == {k \in 0..n : /\ Len(r[k].taken) = k
                                /\ \A j \in 1..k : r[k].taken[j] = q[j]}
  <1>2. 0 \in T
    <2>1. r[0].taken = <<>>
      BY DEF GatedRun
    <2> QED
      BY <2>1
  <1>3. ASSUME NEW k \in 1..n, k - 1 \in T PROVE k \in T
    <2> DEFINE s == r[k - 1].taken
               t == r[k].taken
    <2>1. Len(s) = k - 1 /\ \A j \in 1..k - 1 : s[j] = q[j]
      BY <1>3
    <2>2. t = Append(s, q[k])
      <3>1. r[k] = GateStep(gates, r[k - 1], q[k], in.active) /\ k \in Taken(gates, in, r)
        BY <1>1 DEF GatedRun
      <3> QED
        BY <3>1 DEF Taken, GateStep
    <2>3. s \in Seq(Actions) /\ q[k] \in Actions
      BY <1>1 DEF GateState, Input
    <2> HIDE DEF s, t
    <2>4. Len(t) = k /\ \A j \in 1..k : t[j] = q[j]
      BY <2>1, <2>2, <2>3
    <2> QED
      BY <2>4 DEF t
  <1> HIDE DEF T
  <1>4. \A k \in 0..n : k \in T
    BY <1>2, <1>3, CountsUp
  <1> DEFINE t == r[n].taken
  <1>5. Len(t) = n /\ \A j \in 1..n : t[j] = q[j]
    BY <1>4 DEF T
  <1>6. t \in Seq(Actions) /\ q \in Seq(Actions)
    BY <1>1 DEF GateState, Input
  <1> HIDE DEF t
  <1>7. t = q
    BY <1>1, <1>5, <1>6
  <1> QED
    BY <1>1, <1>7 DEF t

(* When every action is accepted, the shapes alone take them as they come.  *)
LEMMA ShapesTakeAll ==
    ASSUME NEW in, NEW K, Run(in, K), K = 1..Len(in.schedule)
    PROVE  ShaclGated(in.graph, in.schedule).taken = in.schedule
  <1> DEFINE q == in.schedule
             un == Inactive(in)
             gates == {"shapes"}
             shacl == ShaclGated(in.graph, q)
  <1>1. PICK n \in Nat : n = Len(q)
    BY DEF Run, Input
  <1>2. OnlyShapes(in, K) /\ in \in Input
    BY AllOnlyShapes DEF Run
  <1>3. un.graph = in.graph /\ un.schedule = q /\ un.active = {} /\ un \in Input
    BY <1>2 DEF Inactive, Input
  <1> HIDE DEF un, gates, shacl
  <1>4. PICK r \in [0..n -> GateState] : GatedRun(gates, un, r)
    BY <1>1, <1>3, GatedRunExists
  <1>5. r[n] = shacl
    BY <1>1, <1>3, <1>4 DEF GatedRun, ShaclGated, gates, shacl
  <1>6. Taken(gates, un, r) = 1..n
    BY <1>1, <1>2, <1>4, ShapesTake DEF un, gates
  <1>7. r[n].taken = q
    BY <1>1, <1>3, <1>4, <1>6, AllTaken
  <1> QED
    BY <1>5, <1>7 DEF shacl

(* Without gates everything is written.                                     *)
LEMMA NoGatesOverlay ==
    ASSUME NEW in \in Input, NEW K, K = 1..Len(in.schedule), SlotsApart(in, K)
    PROVE  NoGates(in.graph, in.schedule) = OverlayOf(in, K)
  <1> DEFINE q == in.schedule
             un == Inactive(in)
  <1>1. PICK n \in Nat : n = Len(q)
    BY DEF Input
  <1>2. un.graph = in.graph /\ un.schedule = q /\ un.active = {} /\ un \in Input
    BY DEF Inactive, Input
  <1> HIDE DEF un
  <1>3. PICK r \in [0..n -> GateState] : GatedRun({}, un, r)
    BY <1>1, <1>2, GatedRunExists
  <1>4. Taken({}, un, r) = K
    <2>1. \A st, a : Passes({}, st, a, {})
      BY DEF Passes
    <2> QED
      BY <1>1, <1>2, <2>1 DEF Taken
  <1>5. \A i, j \in K : i < j => un.schedule[i].slot # un.schedule[j].slot
    BY <1>2 DEF SlotsApart
  <1>6. r[n].graph = OverlayOf(un, Earlier(K, n + 1))
    <2>1. r \in [0..Len(un.schedule) -> GateState] /\ n \in 0..Len(un.schedule)
      BY <1>1, <1>2
    <2>2. \A k \in 0..Len(un.schedule) : r[k].graph = OverlayOf(un, Earlier(K, k + 1))
      BY <1>2, <1>3, <1>4, <1>5, <2>1, GatedOverlay
    <2> QED
      BY <2>1, <2>2
  <1>7. Earlier(K, n + 1) = K
    BY <1>1, EarlierAll, Zenon
  <1>8. OverlayOf(un, K) = OverlayOf(in, K)
    BY DEF OverlayOf, un, Inactive
  <1>9. r[n] = Gated({}, in.graph, q, {})
    BY <1>1, <1>2, <1>3 DEF GatedRun
  <1>10. NoGates(in.graph, q) = r[n].graph
    BY <1>9 DEF NoGates
  <1> QED
    BY <1>6, <1>7, <1>8, <1>10

(* The orders hold the same actions.                                        *)
SameActions(q, n, o, m) ==
    /\ \A k \in 1..n : \E i \in 1..m : o[i] = q[k]
    /\ \A i \in 1..m : \E k \in 1..n : q[k] = o[i]

(* In any order, all of a run's writes come to the same.                    *)
LEMMA AllWritten ==
    ASSUME NEW in \in Input, NEW io \in Input, io.graph = in.graph,
           SameActions(in.schedule, Len(in.schedule), io.schedule, Len(io.schedule))
    PROVE  OverlayOf(io, 1..Len(io.schedule)) = OverlayOf(in, 1..Len(in.schedule))
  <1> DEFINE K == 1..Len(in.schedule)
             L == 1..Len(io.schedule)
  <1>1. ASSUME NEW s PROVE SameWrites(in, K, io, L, s)
    BY DEF SameWrites, SameActions
  <1> HIDE DEF K, L
  <1>2. \A s \in Slots : OverlayOf(in, K)[s] = OverlayOf(io, L)[s]
    BY <1>1, OverlayReads
  <1>3. /\ OverlayOf(in, K) = [s \in Slots |-> OverlayOf(in, K)[s]]
        /\ OverlayOf(io, L) = [s \in Slots |-> OverlayOf(io, L)[s]]
    BY DEF OverlayOf
  <1> QED
    BY <1>2, <1>3 DEF K, L

(* A permutation holds the same actions, and if those have slots of their   *)
(* own, so have its.                                                        *)
LEMMA PermutedHolds ==
    ASSUME NEW order, NEW q, NEW n \in Nat, NEW p, Permuted(order, q, n, p)
    PROVE  /\ SameActions(q, n, order, n)
           /\ (\A i, j \in 1..n : i # j => q[i].slot # q[j].slot) =>
                 \A i, j \in 1..n : i # j => order[i].slot # order[j].slot
  <1>1. \A i \in 1..n : p[i] \in 1..n /\ order[i] = q[p[i]]
    BY DEF Permuted
  <1>2. \A k \in 1..n : \E i \in 1..n : order[i] = q[k]
    <2> SUFFICES ASSUME NEW k \in 1..n PROVE \E i \in 1..n : order[i] = q[k]
      OBVIOUS
    <2>1. PICK i \in 1..n : p[i] = k
      BY DEF Permuted
    <2> QED
      BY <1>1, <2>1
  <1>3. \A i \in 1..n : \E k \in 1..n : q[k] = order[i]
    BY <1>1
  <1>4. ASSUME \A i, j \in 1..n : i # j => q[i].slot # q[j].slot,
               NEW i \in 1..n, NEW j \in 1..n, i # j
        PROVE  order[i].slot # order[j].slot
    <2>1. p[i] # p[j]
      BY <1>4 DEF Permuted
    <2> QED
      BY <1>1, <1>4, <2>1
  <1> QED
    BY <1>2, <1>3, <1>4 DEF SameActions

(* Where everything is accepted, no order makes a difference, with gates or *)
(* without.                                                                 *)
LEMMA UngatedAgrees ==
    ASSUME NEW in, NEW K, Run(in, K), K = 1..Len(in.schedule)
    PROVE  Ungated(in.graph, in.schedule) = {OverlayOf(in, K)}
  <1> DEFINE q == in.schedule
  <1>1. PICK n \in Nat : n = Len(q) /\ DOMAIN q = 1..n
    BY DEF Run, Input
  <1>2. in \in Input /\ K = 1..n
    BY <1>1 DEF Run
  <1>3. \A i, j \in 1..n : i # j => q[i].slot # q[j].slot
    <2> SUFFICES ASSUME NEW i \in 1..n, NEW j \in 1..n, i # j PROVE q[i].slot # q[j].slot
      OBVIOUS
    <2>1. i < j \/ j < i
      OBVIOUS
    <2> QED
      BY <1>2, <2>1, RunSlots
  <1>4. ASSUME NEW order \in Shuffles(q) PROVE NoGates(in.graph, order) = OverlayOf(in, K)
    <2> DEFINE io == Reordered(in, order)
    <2>1. io \in Input /\ Len(order) = n
      BY <1>1, <1>2, ShuffleOf
    <2>2. PICK p : Permuted(order, q, n, p)
      BY <1>1, <1>2, ShuffleOf
    <2>3. /\ SameActions(q, n, order, n)
          /\ \A i, j \in 1..n : i # j => order[i].slot # order[j].slot
      BY <1>3, <2>2, PermutedHolds
    <2>4. io.graph = in.graph /\ io.schedule = order
      BY DEF Reordered
    <2> HIDE DEF io
    <2>5. SlotsApart(io, 1..n)
      BY <2>3, <2>4 DEF SlotsApart
    <2>6. NoGates(in.graph, order) = OverlayOf(io, 1..n)
      BY <2>1, <2>4, <2>5, NoGatesOverlay
    <2>7. SameActions(in.schedule, Len(in.schedule), io.schedule, Len(io.schedule))
      BY <1>1, <2>1, <2>3, <2>4
    <2>8. OverlayOf(io, 1..n) = OverlayOf(in, 1..n)
      BY <1>1, <1>2, <2>1, <2>4, <2>7, AllWritten
    <2> QED
      BY <1>2, <2>6, <2>8
  <1>5. q \in Shuffles(q)
    <2> DEFINE p == [i \in 1..n |-> i]
    <2>1. Cardinality(1..n) = n
      BY CountTo
    <2>2. p \in [1..n -> 1..n] /\ \A i, j \in 1..n : i # j => p[i] # p[j]
      OBVIOUS
    <2>3. q = [i \in 1..n |-> q[p[i]]]
      <3>1. q = [i \in 1..n |-> q[i]]
        BY <1>1, <1>2 DEF Input
      <3> HIDE DEF q
      <3> QED
        BY <3>1
    <2> HIDE DEF p, q
    <2>4. p \in SetToSeqs(DOMAIN q)
      <3>1. p \in SetToSeqs(1..n)
        BY <2>1, <2>2 DEF SetToSeqs
      <3> QED
        BY <1>1, <3>1
    <2>5. q = [i \in DOMAIN q |-> q[p[i]]]
      BY <1>1, <2>3
    <2> QED
      BY <2>4, <2>5, Zenon DEF Shuffles
  <1> HIDE DEF q
  <1>6. Ungated(in.graph, q) = {OverlayOf(in, K)}
    <2>1. Ungated(in.graph, q) = {NoGates(in.graph, order) : order \in Shuffles(q)}
      BY DEF Ungated
    <2> QED
      BY <1>4, <1>5, <2>1
  <1> QED
    BY <1>6 DEF q

-----------------------------------------------------------------------------
(* Actions written as they arrive. *)

ArrivalState == [working : Graph, candidate : Graph]

(* The i-th action of the order is written; its unit may be complete.       *)
WriteStep(order, perEvent, st, i) ==
    LET candidate == Apply(st.candidate, order[i])
        kept == IF Admissible(candidate) THEN candidate ELSE st.working
    IN  IF EndsUnit(order, i, perEvent) THEN [working |-> kept, candidate |-> kept]
        ELSE [working |-> st.working, candidate |-> candidate]

(* The equation of the fold over the positions of an order.                 *)
WritesFold(order, g, perEvent, it) ==
    it = [s \in SUBSET DOMAIN [i \in DOMAIN order |-> i] |->
            IF s = {} THEN [working |-> g, candidate |-> g]
            ELSE LET x == LastIn(s)
                 IN  WriteStep(order, perEvent, it[s \ {x}], [i \in DOMAIN order |-> i][x])]

(* What it comes to.                                                        *)
WritesEnd(order, g, perEvent) ==
    (CHOOSE it : WritesFold(order, g, perEvent, it))[DOMAIN [i \in DOMAIN order |-> i]]

(* ArrivalValidated is that fold.                                           *)
LEMMA ArrivalFolds ==
    ASSUME NEW g, NEW actions, NEW ingestion, NEW perEvent
    PROVE  ArrivalValidated(g, actions, ingestion, perEvent)
             = WritesEnd(ArrivalOrder(actions, ingestion), g, perEvent).working
  BY Zenon DEF ArrivalValidated, FoldLeftDomain, FoldLeft, MapThenFoldSet, WritesFold, WritesEnd,
               WriteStep, Max, LastIn

(* r holds the states on the way through an order.                          *)
ArrivalRun(order, g, perEvent, r) ==
    /\ r[0] = [working |-> g, candidate |-> g]
    /\ \A k \in 1..Len(order) : r[k] = WriteStep(order, perEvent, r[k - 1], k)
    /\ r[Len(order)] = WritesEnd(order, g, perEvent)

(* A write leads from state to state.                                       *)
LEMMA WriteStepTyped ==
    ASSUME NEW order \in Seq(Actions), NEW k \in 1..Len(order), NEW perEvent,
           NEW st \in ArrivalState
    PROVE  WriteStep(order, perEvent, st, k) \in ArrivalState
  <1> DEFINE h == Apply(st.candidate, order[k])
             w == IF Admissible(h) THEN h ELSE st.working
  <1>1. order[k] \in Actions /\ st.working \in Graph /\ st.candidate \in Graph
    BY DEF ArrivalState
  <1>2. order[k].slot \in Slots /\ order[k].value \in Values
    BY <1>1, ResolverConstants
  <1>3. h \in Graph
    BY <1>1, <1>2, ApplyGraph
  <1> HIDE DEF h
  <1>4. w \in Graph
    BY <1>1, <1>3
  <1> HIDE DEF w
  <1>5. WriteStep(order, perEvent, st, k)
          = IF EndsUnit(order, k, perEvent) THEN [working |-> w, candidate |-> w]
            ELSE [working |-> st.working, candidate |-> h]
    BY Zenon DEF WriteStep, w, h
  <1> QED
    BY <1>1, <1>3, <1>4, <1>5 DEF ArrivalState

(* There is such a run, of states.                                          *)
LEMMA ArrivalRunExists ==
    ASSUME NEW order \in Seq(Actions), NEW g \in Graph, NEW perEvent
    PROVE  \E r \in [0..Len(order) -> ArrivalState] : ArrivalRun(order, g, perEvent, r)
  <1> DEFINE base == [working |-> g, candidate |-> g]
             it == CHOOSE f : WritesFold(order, g, perEvent, f)
             id == [i \in DOMAIN order |-> i]
  <1>1. PICK n \in Nat : n = Len(order) /\ DOMAIN order = 1..n /\ DOMAIN id = 1..n
    OBVIOUS
  <1> DEFINE op == [p \in (1..n) \X ArrivalState |-> WriteStep(order, perEvent, p[2], p[1])]
  <1>2. base \in ArrivalState
    BY DEF ArrivalState
  <1>3. op \in [(1..n) \X ArrivalState -> ArrivalState]
    BY <1>1, WriteStepTyped
  <1>4. /\ \A s \in SUBSET (1..n) : s # {} => LastIn(s) \in s
        /\ \E f \in [SUBSET (1..n) -> ArrivalState] : FoldsOver(f, n, base, op)
    <2> HIDE DEF op, base
    <2> QED
      BY <1>2, <1>3, FoldOverExists
  <1>5. PICK f \in [SUBSET (1..n) -> ArrivalState] : FoldsOver(f, n, base, op)
    BY <1>4
  <1> DEFINE step(s) == IF s = {} THEN base
                        ELSE LET x == LastIn(s) IN WriteStep(order, perEvent, f[s \ {x}], id[x])
  <1>6. ASSUME NEW s \in SUBSET (1..n)
        PROVE  f[s] = step(s)
    <2>1. f[s] = IF s = {} THEN base ELSE op[<<LastIn(s), f[s \ {LastIn(s)}]>>]
      BY <1>5 DEF FoldsOver
    <2>2. CASE s = {}
      BY <2>1, <2>2
    <2>3. CASE s # {}
      <3> DEFINE x == LastIn(s)
      <3>1. x \in 1..n /\ f[s \ {x}] \in ArrivalState
        BY <1>4, <1>5, <2>3
      <3> HIDE DEF x
      <3>2. op[<<x, f[s \ {x}]>>] = WriteStep(order, perEvent, f[s \ {x}], x)
        BY <3>1
      <3>3. id[x] = x
        BY <1>1, <3>1
      <3> HIDE DEF op, id
      <3>4. op[<<x, f[s \ {x}]>>] = WriteStep(order, perEvent, f[s \ {x}], id[x])
        BY <3>2, <3>3, Zenon
      <3> QED
        BY <2>1, <2>3, <3>4, Zenon DEF x
    <2> QED
      BY <2>2, <2>3
  <1>7. WritesFold(order, g, perEvent, f)
    <2> HIDE DEF step
    <2>1. f = [s \in SUBSET (1..n) |-> step(s)]
      BY <1>5, <1>6
    <2> QED
      BY <1>1, <2>1, Zenon DEF WritesFold, step
  <1>8. WritesFold(order, g, perEvent, it)
    BY <1>7, Zenon
  <1> DEFINE r == [k \in 0..n |-> it[1..k]]
  <1> HIDE DEF it, step, op
  <1>9. r[0] = base
    <2>1. 1..0 = {} /\ {} \in SUBSET DOMAIN id
      OBVIOUS
    <2>2. it[{}] = base
      BY <1>8, <2>1, Zenon DEF WritesFold
    <2>3. r[0] = it[1..0]
      OBVIOUS
    <2> QED
      BY <2>1, <2>2, <2>3, Zenon
  <1>10. ASSUME NEW k \in 1..n
         PROVE  r[k] = WriteStep(order, perEvent, r[k - 1], k)
    <2>1. /\ 1..k \in SUBSET DOMAIN id /\ 1..k # {}
          /\ LastIn(1..k) = k /\ (1..k) \ {k} = 1..k - 1
      BY <1>1, LastOfFirst
    <2>2. it[1..k] = WriteStep(order, perEvent, it[(1..k) \ {LastIn(1..k)}], id[LastIn(1..k)])
      BY <1>8, <2>1, Zenon DEF WritesFold
    <2>3. r[k] = it[1..k] /\ r[k - 1] = it[1..k - 1] /\ id[k] = k
      BY <1>1
    <2> HIDE DEF r, id
    <2> QED
      BY <2>1, <2>2, <2>3, Zenon
  <1>11. r[n] = WritesEnd(order, g, perEvent)
    <2>1. r[n] = it[1..n]
      OBVIOUS
    <2> QED
      BY <1>1, <2>1, Zenon DEF it, WritesEnd
  <1>12. \A k \in 0..n : r[k] \in ArrivalState
    <2> DEFINE T == {k \in 0..n : r[k] \in ArrivalState}
    <2>1. 0 \in T
      BY <1>2, <1>9
    <2>2. ASSUME NEW k \in 1..n, k - 1 \in T PROVE k \in T
      <3>1. r[k - 1] \in ArrivalState /\ k \in 1..Len(order)
        BY <1>1, <2>2
      <3>2. WriteStep(order, perEvent, r[k - 1], k) \in ArrivalState
        BY <3>1, WriteStepTyped
      <3> HIDE DEF r
      <3> QED
        BY <1>10, <3>2
    <2> HIDE DEF T
    <2>3. \A k \in 0..n : k \in T
      BY <2>1, <2>2, CountsUp
    <2> QED
      BY <2>3 DEF T
  <1>13. r \in [0..n -> ArrivalState]
    BY <1>12
  <1> HIDE DEF r
  <1>14. ArrivalRun(order, g, perEvent, r)
    BY <1>1, <1>9, <1>10, <1>11 DEF ArrivalRun
  <1> QED
    BY <1>1, <1>13, <1>14

(* What is kept is admissible, whatever the order and the units.            *)
LEMMA ArrivalAdmissible ==
    ASSUME NEW order \in Seq(Actions), NEW g \in Graph, NEW perEvent, Admissible(g)
    PROVE  Admissible(WritesEnd(order, g, perEvent).working)
  <1>1. PICK n \in Nat : n = Len(order)
    OBVIOUS
  <1>2. PICK r \in [0..n -> ArrivalState] : ArrivalRun(order, g, perEvent, r)
    BY <1>1, ArrivalRunExists
  <1> DEFINE T == {k \in 0..n : Admissible(r[k].working)}
  <1>3. 0 \in T
    BY <1>2 DEF ArrivalRun
  <1>4. ASSUME NEW k \in 1..n, k - 1 \in T PROVE k \in T
    <2>1. Admissible(r[k - 1].working)
      BY <1>4
    <2>2. r[k] = WriteStep(order, perEvent, r[k - 1], k)
      BY <1>1, <1>2 DEF ArrivalRun
    <2>3. Admissible(r[k].working)
      <3> DEFINE h == Apply(r[k - 1].candidate, order[k])
      <3>1. \/ r[k].working = r[k - 1].working
            \/ r[k].working = h /\ Admissible(h)
        BY <2>2 DEF WriteStep
      <3> QED
        BY <2>1, <3>1
    <2> QED
      BY <2>3
  <1> HIDE DEF T
  <1>5. \A k \in 0..n : k \in T
    BY <1>3, <1>4, CountsUp
  <1>6. n \in T
    BY <1>5
  <1> QED
    BY <1>1, <1>2, <1>6 DEF T, ArrivalRun

(* The binding of an evaluated action names its event and, with the rule,   *)
(* the action.                                                              *)
LEMMA BindingNames ==
    ASSUME NEW g \in StateGraphs, NEW E, EventRecords(E), NEW a \in EvaluateRules(g, E)
    PROVE  /\ a.rid \in Int /\ a.bind \in Seq(Int) /\ Len(a.bind) = 7
           /\ \E e \in E : EventOf(a) = e.eid
           /\ \A b \in EvaluateRules(g, E) : a.rid = b.rid /\ a.bind = b.bind => a = b
  <1>1. ASSUME NEW c \in EvaluateRules(g, E)
        PROVE  \E r \in Rules, e \in E : \E row \in Small :
                 /\ c = CreateAction(r, row, e) /\ c.rid = r.rid
                 /\ Bound(c.bind, Text(IF r.rid \in {1, 2} THEN e.arg ELSE 0), e.eid, Text(row))
    <2>1. PICK r \in Rules, e \in E : \E row \in Rows(g, r, e) :
               c = CreateAction(r, row, e) /\ Parts(c, r, row, e) /\ row \in Small
      BY EvaluatedMade
    <2>2. PICK row \in Rows(g, r, e) :
               c = CreateAction(r, row, e) /\ Parts(c, r, row, e) /\ row \in Small
      BY <2>1
    <2>3. e.eid \in Int /\ e.arg \in Small
      BY DEF EventRecords, Small
    <2>4. Bound(BindKey(r, row, e), Text(IF r.rid \in {1, 2} THEN e.arg ELSE 0), e.eid, Text(row))
      BY <2>2, <2>3, BindTyped
    <2>5. c.rid = r.rid /\ c.bind = BindKey(r, row, e)
      BY <2>2 DEF Parts
    <2> QED
      BY <2>2, <2>4, <2>5
  <1>2. PICK r \in Rules, e \in E : \E row \in Small :
             /\ a = CreateAction(r, row, e) /\ a.rid = r.rid
             /\ Bound(a.bind, Text(IF r.rid \in {1, 2} THEN e.arg ELSE 0), e.eid, Text(row))
    BY <1>1
  <1>3. PICK row \in Small :
             /\ a = CreateAction(r, row, e) /\ a.rid = r.rid
             /\ Bound(a.bind, Text(IF r.rid \in {1, 2} THEN e.arg ELSE 0), e.eid, Text(row))
    BY <1>2
  <1>4. a.rid \in Int /\ a.bind \in Seq(Int) /\ Len(a.bind) = 7 /\ EventOf(a) = e.eid
    BY <1>3, RuleFacts DEF Bound, EventOf, RankedAs
  <1>5. ASSUME NEW b \in EvaluateRules(g, E), a.rid = b.rid, a.bind = b.bind
        PROVE  a = b
    <2>1. PICK q \in Rules, f \in E : \E col \in Small :
               /\ b = CreateAction(q, col, f) /\ b.rid = q.rid
               /\ Bound(b.bind, Text(IF q.rid \in {1, 2} THEN f.arg ELSE 0), f.eid, Text(col))
      BY <1>1
    <2>2. PICK col \in Small :
               /\ b = CreateAction(q, col, f) /\ b.rid = q.rid
               /\ Bound(b.bind, Text(IF q.rid \in {1, 2} THEN f.arg ELSE 0), f.eid, Text(col))
      BY <2>1
    <2>3. r.rid = q.rid /\ e.eid = f.eid /\ \A i \in 1..3 : Text(row)[i] = Text(col)[i]
      BY <1>3, <1>5, <2>2 DEF Bound
    <2>4. r = q /\ e = f
      BY <2>3, RuleFacts DEF EventRecords
    <2>5. row = col
      BY <2>3, TextInjective DEF Small
    <2> QED
      BY <1>3, <2>2, <2>4, <2>5
  <1> QED
    BY <1>4, <1>5

(* An action arrives with its event.                                        *)
LEMMA ArrivesWith ==
    ASSUME NEW E, EventRecords(E), NEW arrival \in SetToSeqs(E), NEW a,
           \E e \in E : EventOf(a) = e.eid
    PROVE  Arrived(a, arrival) \in Int /\ arrival[Arrived(a, arrival)].eid = EventOf(a)
  <1>1. PICK m \in Nat : m = Cardinality(E)
    BY FS_CardinalityType DEF EventRecords
  <1>2. arrival \in [1..m -> E] /\ \A i, j \in 1..m : i # j => arrival[i] # arrival[j]
    BY <1>1 DEF SetToSeqs
  <1>3. arrival \in Surjection(1..m, E)
    <2>1. arrival \in Injection(1..m, E)
      BY <1>2 DEF Injection, IsInjective
    <2>2. Cardinality(1..m) = Cardinality(E) /\ IsFiniteSet(E)
      BY <1>1, CountTo DEF EventRecords
    <2> QED
      BY <2>1, <2>2, FS_Injection
  <1>4. PICK e \in E : EventOf(a) = e.eid
    OBVIOUS
  <1>5. PICK i \in 1..m : arrival[i] = e
    BY <1>3, <1>4 DEF Surjection
  <1>6. i \in DOMAIN arrival /\ arrival[i].eid = EventOf(a)
    BY <1>2, <1>4, <1>5
  <1>7. Arrived(a, arrival) \in DOMAIN arrival /\ arrival[Arrived(a, arrival)].eid = EventOf(a)
    BY <1>6, Zenon DEF Arrived
  <1> QED
    BY <1>2, <1>7

(* What the order of arrival is sorted by.                                  *)
ArrivalKey(a, arrival) == <<Arrived(a, arrival), a.rid>> \o a.bind

ArrivalKeyIs(k, a, arrival) ==
    /\ k \in Keys(9) /\ k[1] = Arrived(a, arrival) /\ k[2] = a.rid
    /\ \A i \in 1..7 : k[2 + i] = a.bind[i]

(* The key has these parts.                                                 *)
LEMMA ArrivalKeyParts ==
    ASSUME NEW a, NEW arrival, Arrived(a, arrival) \in Int, a.rid \in Int,
           a.bind \in Seq(Int), Len(a.bind) = 7
    PROVE  ArrivalKeyIs(ArrivalKey(a, arrival), a, arrival)
  <1> DEFINE h == <<Arrived(a, arrival), a.rid>>
             k == ArrivalKey(a, arrival)
  <1>1. h \in Seq(Int) /\ Len(h) = 2 /\ h[1] = Arrived(a, arrival) /\ h[2] = a.rid
    OBVIOUS
  <1>2. k = h \o a.bind
    BY DEF ArrivalKey
  <1> HIDE DEF h, k
  <1>3. Follows(k, h, 2, a.bind, 7)
    <2>1. Follows(h \o a.bind, h, Len(h), a.bind, Len(a.bind))
      BY <1>1, JoinedAs
    <2> QED
      BY <1>1, <1>2, <2>1, Zenon
  <1>4. k \in Seq(Int) /\ Len(k) = 9
    BY <1>3 DEF Follows
  <1>5. k \in Keys(9)
    <2>1. 9 \in Nat
      OBVIOUS
    <2> QED
      BY <1>4, <2>1, SequenceIsKey
  <1>6. k[1] = h[1] /\ k[2] = h[2] /\ \A i \in 1..7 : k[2 + i] = a.bind[i]
    BY <1>3 DEF Follows
  <1>7. ArrivalKeyIs(k, a, arrival)
    BY <1>1, <1>5, <1>6 DEF ArrivalKeyIs
  <1> QED
    BY <1>7 DEF k

(* Sequences that agree at every place are equal.                           *)
LEMMA SameSequence ==
    ASSUME NEW s \in Seq(Int), NEW t \in Seq(Int), NEW n \in Nat, Len(s) = n, Len(t) = n,
           \A i \in 1..n : s[i] = t[i]
    PROVE  s = t
  OBVIOUS

(* The actions of a window in the order of arrival: each of them once,      *)
(* those of an event together.                                              *)
ArrivesIn(o, S, arrival) ==
    /\ o \in Seq(S)
    /\ \A a \in S : \E i \in 1..Len(o) : o[i] = a
    /\ \A i, j \in 1..Len(o) : i < j => Arrived(o[i], arrival) <= Arrived(o[j], arrival)
    /\ \A i, j \in 1..Len(o) : i # j => o[i] # o[j]

(* ArrivalOrder is such an order.                                           *)
LEMMA ArrivalSorted ==
    ASSUME NEW g \in StateGraphs, NEW E, EventRecords(E), NEW arrival \in SetToSeqs(E)
    PROVE  ArrivesIn(ArrivalOrder(EvaluateRules(g, E), arrival), EvaluateRules(g, E), arrival)
  <1> DEFINE S == EvaluateRules(g, E)
             key == [a \in S |-> ArrivalKey(a, arrival)]
             o == SortedBy(key)
  <1>1. \A a \in S : ArrivalKeyIs(ArrivalKey(a, arrival), a, arrival) /\ Arrived(a, arrival) \in Int
    BY BindingNames, ArrivesWith, ArrivalKeyParts
  <1>2. IsFiniteSet(S)
    BY EvaluatedFinite
  <1>3. \A a, b \in S : a.rid = b.rid /\ a.bind = b.bind => a = b
    BY BindingNames
  <1>4. \A a \in S : a.bind \in Seq(Int) /\ Len(a.bind) = 7
    BY BindingNames
  <1>5. ArrivalOrder(S, arrival) = o
    BY Zenon DEF ArrivalOrder, ArrivalKey
  <1> HIDE DEF S
  <1>6. key \in [S -> Keys(9)] /\ \A a \in S : ArrivalKeyIs(key[a], a, arrival)
    <2>1. \A a \in S : key[a] = ArrivalKey(a, arrival)
      OBVIOUS
    <2>2. \A a \in S : ArrivalKeyIs(key[a], a, arrival)
      BY <1>1, <2>1
    <2> QED
      BY <2>2 DEF ArrivalKeyIs
  <1> HIDE DEF key, o
  <1>7. ASSUME NEW a \in S, NEW b \in S, key[a] = key[b] PROVE a = b
    <2>1. a.rid = b.rid /\ \A i \in 1..7 : a.bind[i] = b.bind[i]
      BY <1>6, <1>7 DEF ArrivalKeyIs
    <2>2. /\ a.bind \in Seq(Int) /\ Len(a.bind) = 7
          /\ b.bind \in Seq(Int) /\ Len(b.bind) = 7
      BY <1>4
    <2>3. 7 \in Nat
      OBVIOUS
    <2>4. a.bind = b.bind
      BY <2>1, <2>2, <2>3, SameSequence
    <2> QED
      BY <1>3, <2>1, <2>4
  <1>8. /\ o \in Seq(S) /\ \A a \in S : \E i \in 1..Len(o) : o[i] = a
        /\ \A i, j \in 1..Len(o) : i < j => LexLess(key[o[i]], key[o[j]])
    <2>1. 9 \in Nat
      OBVIOUS
    <2> QED
      BY <1>2, <1>6, <1>7, <2>1, SortsByKey DEF o
  <1>9. \A i \in 1..Len(o) : o[i] \in S
    BY <1>8
  <1>10. ASSUME NEW i \in 1..Len(o), NEW j \in 1..Len(o), i < j
         PROVE  Arrived(o[i], arrival) <= Arrived(o[j], arrival) /\ o[i] # o[j]
    <2> DEFINE x == key[o[i]]
               y == key[o[j]]
    <2>1. LexLess(x, y) /\ x \in Keys(9) /\ y \in Keys(9)
      BY <1>6, <1>8, <1>9, <1>10
    <2>2. x[1] = Arrived(o[i], arrival) /\ y[1] = Arrived(o[j], arrival)
      BY <1>6, <1>9 DEF ArrivalKeyIs
    <2>3. x # y
      <3>1. 9 \in Nat
        OBVIOUS
      <3> QED
        BY <2>1, <3>1, LexOrder
    <2>4. o[i] # o[j]
      BY <2>3
    <2> HIDE DEF x, y
    <2>5. PICK k \in 1..9 : x[k] < y[k] /\ \A l \in 1..k - 1 : x[l] = y[l]
      BY <2>1 DEF LexLess, Keys
    <2>6. x[1] <= y[1]
      <3>1. x[1] \in Int /\ y[1] \in Int
        BY <2>1 DEF Keys
      <3> QED
        BY <2>5, <3>1
    <2> QED
      BY <2>2, <2>4, <2>6
  <1>11. \A i, j \in 1..Len(o) : i # j => o[i] # o[j]
    <2> SUFFICES ASSUME NEW i \in 1..Len(o), NEW j \in 1..Len(o), i # j PROVE o[i] # o[j]
      OBVIOUS
    <2>1. i < j \/ j < i
      BY <1>8
    <2> QED
      BY <1>10, <2>1
  <1>12. ArrivesIn(o, S, arrival)
    BY <1>8, <1>10, <1>11 DEF ArrivesIn
  <1> QED
    BY <1>5, <1>12 DEF S

(* Positions that go with those before them are the ones before a cut.      *)
LEMMA CutAt ==
    ASSUME NEW n \in Nat, NEW Z, Z \subseteq 1..n, NEW T, T \subseteq Z,
           \A k \in Z, l \in T : k < l => k \in T
    PROVE  \E m \in 1..n + 1 : \A k \in Z : k < m <=> k \in T
  <1>1. CASE T = {}
    <2>1. \A k \in Z : ~(k < 1)
      OBVIOUS
    <2>2. 1 \in 1..n + 1
      OBVIOUS
    <2> QED
      BY <1>1, <2>1, <2>2
  <1>2. CASE T # {}
    <2>1. T \subseteq 1..n
      OBVIOUS
    <2>2. PICK l \in T : \A k \in T : l >= k
      BY <1>2, <2>1, LastOf
    <2>3. l \in 1..n /\ l + 1 \in 1..n + 1
      BY <2>1
    <2>4. ASSUME NEW k \in Z PROVE k < l + 1 <=> k \in T
      <3>1. k \in Int /\ l \in Int
        BY <2>3
      <3>2. k \in T => l >= k
        BY <2>2
      <3>3. k < l + 1 => k = l \/ k < l
        BY <3>1
      <3> QED
        BY <3>1, <3>2, <3>3
    <2> QED
      BY <2>3, <2>4
  <1> QED
    BY <1>1, <1>2

(* A window whose actions are all accepted, and an arrival of its events    *)
(* in which none overtakes one of its zone.                                 *)
AllAccepted(in, E, arrival) ==
    /\ Run(in, 1..Len(in.schedule)) /\ Admissible(in.graph)
    /\ in.graph \in StateGraphs /\ EventRecords(E) /\ arrival \in SetToSeqs(E)
    /\ in.schedule \in Seq(EvaluateRules(in.graph, E))
    /\ \A a \in EvaluateRules(in.graph, E) : \E k \in 1..Len(in.schedule) : in.schedule[k] = a
    /\ \A k, l \in 1..Len(in.schedule) :
          k < l /\ in.schedule[k].slot[1] = in.schedule[l].slot[1]
            => Arrived(in.schedule[k], arrival) <= Arrived(in.schedule[l], arrival)

(* At the end of a unit exactly the actions of the events that have arrived *)
(* are written.                                                             *)
LEMMA UnitsAreEvents ==
    ASSUME NEW g \in StateGraphs, NEW E, EventRecords(E), NEW arrival \in SetToSeqs(E),
           NEW o, ArrivesIn(o, EvaluateRules(g, E), arrival),
           NEW i \in 1..Len(o), EndsUnit(o, i, TRUE), NEW j \in 1..Len(o)
    PROVE  j < i + 1 <=> Arrived(o[j], arrival) <= Arrived(o[i], arrival)
  <1> DEFINE t(k) == Arrived(o[k], arrival)
  <1>1. Len(o) \in Nat /\ \A k \in 1..Len(o) : o[k] \in EvaluateRules(g, E)
    BY DEF ArrivesIn
  <1>2. \A k \in 1..Len(o) : t(k) \in Int /\ arrival[t(k)].eid = EventOf(o[k])
    BY <1>1, BindingNames, ArrivesWith
  <1>3. \A k, l \in 1..Len(o) : k < l => t(k) <= t(l)
    BY DEF ArrivesIn
  <1>4. i < Len(o) => EventOf(o[i]) # EventOf(o[i + 1])
    BY <1>1 DEF EndsUnit
  <1> HIDE DEF t
  <1>5. ASSUME j < i + 1 PROVE t(j) <= t(i)
    <2>1. j = i \/ j < i
      BY <1>1, <1>5
    <2> QED
      BY <1>2, <1>3, <2>1
  <1>6. ASSUME ~(j < i + 1) PROVE ~(t(j) <= t(i))
    <2>1. i < Len(o) /\ i + 1 \in 1..Len(o) /\ i < i + 1 /\ (j = i + 1 \/ i + 1 < j)
      BY <1>1, <1>6
    <2>2. t(i) <= t(i + 1) /\ t(i) # t(i + 1)
      BY <1>2, <1>3, <1>4, <2>1
    <2>3. t(i + 1) <= t(j)
      BY <1>2, <1>3, <2>1
    <2>4. t(i) \in Int /\ t(j) \in Int /\ t(i + 1) \in Int
      BY <1>2, <2>1
    <2> QED
      BY <2>2, <2>3, <2>4
  <1> QED
    BY <1>5, <1>6 DEF t

(* So the graph is admissible there: zone by zone it is one that the run    *)
(* has passed through.                                                      *)
LEMMA UnitsAdmissible ==
    ASSUME BuildingProfile, NEW in, NEW E, NEW arrival, AllAccepted(in, E, arrival),
           NEW o, ArrivesIn(o, EvaluateRules(in.graph, E), arrival),
           NEW i \in 1..Len(o), EndsUnit(o, i, TRUE)
    PROVE  Admissible(OverlayOf(Reordered(in, o), Earlier(1..Len(o), i + 1)))
  <1> DEFINE q == in.schedule
             S == EvaluateRules(in.graph, E)
             io == Reordered(in, o)
             L == 1..Len(o)
             h == OverlayOf(io, Earlier(L, i + 1))
             t == Arrived(o[i], arrival)
  <1>1. PICK n \in Nat : n = Len(q)
    BY DEF AllAccepted, Run, Input
  <1> DEFINE K == 1..n
  <1>2. /\ Run(in, K) /\ Admissible(in.graph)
        /\ \A k \in K : q[k] \in S
        /\ \A j \in L : o[j] \in S
        /\ \A k \in K : \E j \in L : o[j] = q[k]
        /\ \A j \in L : \E k \in K : q[k] = o[j]
    <2>1. Run(in, K) /\ Admissible(in.graph)
      BY <1>1 DEF AllAccepted
    <2>2. q \in Seq(S) /\ \A a \in S : \E k \in K : q[k] = a
      BY <1>1 DEF AllAccepted
    <2>3. o \in Seq(S) /\ \A a \in S : \E j \in L : o[j] = a
      BY DEF ArrivesIn
    <2> HIDE DEF S, q
    <2>4. \A k \in K : q[k] \in S
      BY <1>1, <2>2
    <2>5. \A j \in L : o[j] \in S
      BY <2>3
    <2> QED
      BY <2>1, <2>2, <2>3, <2>4, <2>5
  <1>3. \A k, l \in K : k < l /\ q[k].slot[1] = q[l].slot[1]
                          => Arrived(q[k], arrival) <= Arrived(q[l], arrival)
    BY <1>1 DEF AllAccepted
  <1>4. /\ in.graph \in StateGraphs /\ EventRecords(E) /\ arrival \in SetToSeqs(E)
        /\ t \in Int
        /\ \A k \in K : Arrived(q[k], arrival) \in Int
    <2>1. \A a \in S : Arrived(a, arrival) \in Int
      BY BindingNames, ArrivesWith DEF AllAccepted
    <2> QED
      BY <1>2, <2>1 DEF AllAccepted
  <1>5. \A j \in L : j < i + 1 <=> Arrived(o[j], arrival) <= t
    BY <1>4, UnitsAreEvents
  <1>6. io.graph = in.graph /\ io.schedule = o
    BY DEF Reordered
  <1> HIDE DEF q, S, io, L, h, t, K
  <1>7. ASSUME NEW z \in Zones PROVE ZoneAdmissible(h, z)
    <2> DEFINE Z == {k \in K : q[k].slot[1] = z}
               T == {k \in Z : Arrived(q[k], arrival) <= t}
    <2>1. \A k \in Z, l \in T : k < l => k \in T
      <3> SUFFICES ASSUME NEW k \in Z, NEW l \in T, k < l PROVE Arrived(q[k], arrival) <= t
        OBVIOUS
      <3>1. Arrived(q[k], arrival) <= Arrived(q[l], arrival) /\ Arrived(q[l], arrival) <= t
        BY <1>3
      <3> QED
        BY <1>4, <3>1
    <2>2. Z \subseteq 1..n /\ T \subseteq Z
      BY DEF K
    <2>3. \A k \in K : q[k].slot[1] = z => (k \in Z /\ (k \in T <=> Arrived(q[k], arrival) <= t))
      OBVIOUS
    <2> HIDE DEF Z, T
    <2>4. PICK m \in 1..n + 1 : \A k \in Z : k < m <=> k \in T
      BY <2>1, <2>2, CutAt
    <2>5. \A k \in K : q[k].slot[1] = z => (k < m <=> Arrived(q[k], arrival) <= t)
      BY <2>3, <2>4
    <2>6. ASSUME NEW s, s[1] = z
          PROVE  SameWrites(in, Earlier(K, m), io, Earlier(L, i + 1), s)
      <3>1. ASSUME NEW k \in Earlier(K, m), q[k].slot = s
            PROVE  \E j \in Earlier(L, i + 1) : o[j] = q[k]
        <4>1. k \in K /\ k < m
          BY DEF Earlier
        <4>2. PICK j \in L : o[j] = q[k]
          BY <1>2, <4>1
        <4>3. j < i + 1
          BY <1>5, <2>5, <2>6, <3>1, <4>1, <4>2
        <4> QED
          BY <4>2, <4>3 DEF Earlier
      <3>2. ASSUME NEW j \in Earlier(L, i + 1), o[j].slot = s
            PROVE  \E k \in Earlier(K, m) : q[k] = o[j]
        <4>1. j \in L /\ j < i + 1
          BY DEF Earlier
        <4>2. PICK k \in K : q[k] = o[j]
          BY <1>2, <4>1
        <4>3. k < m
          BY <1>5, <2>5, <2>6, <3>2, <4>1, <4>2
        <4> QED
          BY <4>2, <4>3 DEF Earlier
      <3> QED
        BY <1>6, <3>1, <3>2 DEF SameWrites, q
    <2> DEFINE g == OverlayOf(in, Earlier(K, m))
    <2>7. SameZone(g, h, z)
      <3> SUFFICES ASSUME NEW s \in HvacSlots, s[1] = z PROVE g[s] = h[s]
        BY DEF SameZone
      <3>1. s \in Slots
        BY DEF BuildingProfile
      <3> QED
        BY <1>6, <2>6, <3>1, OverlayReads DEF h
    <2>8. Admissible(g)
      BY <1>1, <1>2, <2>4, RunAdmissible DEF q
    <2> HIDE DEF g
    <2>9. ZoneAdmissible(g, z)
      BY <2>8, ByZone DEF BuildingProfile
    <2> QED
      BY <2>7, <2>9, ZoneReads
  <1>8. Admissible(h)
    BY <1>7, ByZone DEF BuildingProfile
  <1> QED
    BY <1>8 DEF h, io, L

(* The order of arrival of a window all accepted is one the resolver could  *)
(* be given: the same actions, each with a slot of its own.                 *)
LEMMA ArrivalInput ==
    ASSUME NEW in, NEW E, NEW arrival, AllAccepted(in, E, arrival),
           NEW o, ArrivesIn(o, EvaluateRules(in.graph, E), arrival)
    PROVE  /\ Reordered(in, o) \in Input /\ o \in Seq(Actions)
           /\ SameActions(in.schedule, Len(in.schedule), o, Len(o))
           /\ \A i, j \in 1..Len(o) : i < j => o[i].slot # o[j].slot
  <1> DEFINE q == in.schedule
             S == EvaluateRules(in.graph, E)
  <1>1. PICK n \in Nat : n = Len(q)
    BY DEF AllAccepted, Run, Input
  <1>2. Run(in, 1..n) /\ in \in Input /\ q \in Seq(Actions)
    BY <1>1 DEF AllAccepted, Run, Input
  <1>3. q \in Seq(S) /\ \A a \in S : \E k \in 1..n : q[k] = a
    BY <1>1 DEF AllAccepted
  <1>4. o \in Seq(S) /\ \A a \in S : \E j \in 1..Len(o) : o[j] = a
    BY DEF ArrivesIn
  <1>5. \A i, j \in 1..Len(o) : i # j => o[i] # o[j]
    BY DEF ArrivesIn
  <1> HIDE DEF S, q
  <1>6. \A k \in 1..n : q[k] \in S /\ q[k] \in Actions
    BY <1>1, <1>2, <1>3
  <1>7. S \subseteq Actions
    BY <1>3, <1>6
  <1>8. PICK m \in Nat : m = Len(o) /\ DOMAIN o = 1..m
    BY <1>4
  <1>9. \A j \in 1..m : o[j] \in S
    BY <1>4, <1>8
  <1>10. o \in Seq(Actions)
    BY <1>4, <1>7
  <1>11. Reordered(in, o) \in Input
    BY <1>2, <1>10 DEF Reordered, Input
  <1>12. \A i \in 1..m : \E k \in 1..n : q[k] = o[i]
    BY <1>3, <1>9
  <1>13. \A k \in 1..n : \E i \in 1..m : o[i] = q[k]
    BY <1>4, <1>6, <1>8
  <1>14. ASSUME NEW i \in 1..m, NEW j \in 1..m, i < j PROVE o[i].slot # o[j].slot
    <2>1. PICK k \in 1..n : q[k] = o[i]
      BY <1>12
    <2>2. PICK l \in 1..n : q[l] = o[j]
      BY <1>12
    <2>3. o[i] # o[j]
      BY <1>5, <1>8, <1>14
    <2>4. k < l \/ l < k
      BY <2>1, <2>2, <2>3
    <2> QED
      BY <1>2, <2>1, <2>2, <2>4, RunSlots DEF q
  <1> QED
    BY <1>1, <1>8, <1>10, <1>11, <1>12, <1>13, <1>14 DEF SameActions, q

(* Written by whole events in such an order, the window comes to the same.  *)
LEMMA WholeEventsAgree ==
    ASSUME BuildingProfile, NEW in, NEW E, NEW arrival, AllAccepted(in, E, arrival),
           NEW o, ArrivesIn(o, EvaluateRules(in.graph, E), arrival)
    PROVE  WritesEnd(o, in.graph, TRUE).working = OverlayOf(in, 1..Len(in.schedule))
  <1> DEFINE io == Reordered(in, o)
             W(k) == OverlayOf(io, Earlier(1..Len(o), k + 1))
  <1>1. /\ io \in Input /\ o \in Seq(Actions)
        /\ SameActions(in.schedule, Len(in.schedule), o, Len(o))
        /\ \A i, j \in 1..Len(o) : i < j => o[i].slot # o[j].slot
    BY ArrivalInput
  <1>2. PICK m \in Nat : m = Len(o)
    BY <1>1
  <1>3. io.graph = in.graph /\ io.schedule = o /\ in \in Input /\ in.graph \in Graph
    BY DEF Reordered, AllAccepted, Run, Input
  <1> HIDE DEF io
  <1>4. PICK r \in [0..m -> ArrivalState] : ArrivalRun(o, in.graph, TRUE, r)
    BY <1>1, <1>2, <1>3, ArrivalRunExists
  <1>5. W(0) = in.graph
    <2>1. Earlier(1..m, 0 + 1) = {}
      BY NothingEarlier
    <2> QED
      BY <1>1, <1>2, <1>3, <2>1, OverlayOfNone
  <1>6. ASSUME NEW k \in 1..m PROVE W(k) = Apply(W(k - 1), o[k])
    <2> DEFINE L == 1..m
    <2>1. OverlayAdds(io, L, k)
      BY <1>1, <1>2, <1>3, OverlayGrows
    <2>2. \A j \in Earlier(L, k) : io.schedule[j].slot # io.schedule[k].slot
      BY <1>1, <1>2, <1>3 DEF Earlier
    <2>3. k \in L
      OBVIOUS
    <2> HIDE DEF L
    <2>4. OverlayOf(io, Earlier(L, k + 1)) = Apply(OverlayOf(io, Earlier(L, k)), io.schedule[k])
      BY <2>1, <2>2, <2>3 DEF OverlayAdds
    <2>5. k - 1 + 1 = k
      OBVIOUS
    <2> QED
      BY <1>2, <1>3, <2>4, <2>5 DEF L
  <1>7. ASSUME NEW k \in 1..m, EndsUnit(o, k, TRUE) PROVE Admissible(W(k))
    BY <1>2, <1>7, UnitsAdmissible DEF io
  <1> HIDE DEF W
  <1> DEFINE Ends(k) == k > 0 => EndsUnit(o, k, TRUE)
             T == {k \in 0..m : r[k].candidate = W(k) /\ (Ends(k) => r[k].working = W(k))}
  <1>8. 0 \in T
    BY <1>4, <1>5 DEF ArrivalRun
  <1>9. ASSUME NEW k \in 1..m, k - 1 \in T PROVE k \in T
    <2>1. r[k - 1].candidate = W(k - 1)
      BY <1>9
    <2>2. r[k] = WriteStep(o, TRUE, r[k - 1], k)
      BY <1>2, <1>4 DEF ArrivalRun
    <2>3. Apply(r[k - 1].candidate, o[k]) = W(k)
      BY <1>6, <2>1
    <2>4. CASE EndsUnit(o, k, TRUE)
      <3>1. Admissible(W(k))
        BY <1>7, <2>4
      <3>2. r[k].candidate = W(k) /\ r[k].working = W(k)
        BY <2>2, <2>3, <2>4, <3>1 DEF WriteStep
      <3> HIDE DEF Ends
      <3> QED
        BY <3>2
    <2>5. CASE ~EndsUnit(o, k, TRUE)
      <3>1. r[k].candidate = W(k)
        BY <2>2, <2>3, <2>5 DEF WriteStep
      <3>2. k > 0
        OBVIOUS
      <3>3. ~Ends(k)
        BY <2>5, <3>2, Zenon
      <3> HIDE DEF Ends
      <3> QED
        BY <3>1, <3>3
    <2> QED
      BY <2>4, <2>5
  <1> HIDE DEF T, Ends
  <1>10. m \in T
    BY <1>8, <1>9, CountsUp
  <1>11. Ends(m)
    BY <1>2 DEF Ends, EndsUnit
  <1>12. r[m].working = W(m)
    BY <1>10, <1>11 DEF T
  <1>13. W(m) = OverlayOf(io, 1..Len(io.schedule))
    <2>1. Earlier(1..m, m + 1) = 1..m
      BY EarlierAll
    <2> QED
      BY <1>2, <1>3, <2>1 DEF W
  <1>14. OverlayOf(io, 1..Len(io.schedule)) = OverlayOf(in, 1..Len(in.schedule))
    BY <1>1, <1>3, AllWritten
  <1> QED
    BY <1>2, <1>4, <1>12, <1>13, <1>14 DEF ArrivalRun

(* A finished step compares as the strategies are compared.                 *)
LEMMA FinishedStrategies ==
    ASSUME BuildingProfile, IInv, DecisionsJustified, VerdictsExact, RequestInv
    PROVE  StrategiesAgree
  <1> SUFFICES ASSUME Finished, Admissible(input.graph) PROVE StrategiesAgree
    BY Zenon DEF StrategiesAgree, Compared
  <1> DEFINE q == input.schedule
             g == input.graph
             E == request.events
             S == EvaluateRules(g, E)
             shacl == ShaclGated(g, q)
             After(arrival, perEvent) == ArrivalValidated(g, EnabledActions, arrival, perEvent)
  <1>1. PICK n \in Nat : n = Len(q) /\ DOMAIN q = 1..n
    BY StepRun
  <1>2. /\ Run(input, accepted) /\ current = OverlayOf(input, accepted)
        /\ g \in StateGraphs /\ EventRecords(E) /\ q = ScheduleActions(S)
    BY StepRun
  <1>3. /\ q \in Seq(S) /\ \A a \in S : \E i \in 1..n : q[i] = a
    BY <1>1, <1>2, WindowSchedule
  <1>4. EnabledActions = S
    <2> HIDE DEF S, q
    <2>1. \A i \in 1..n : q[i] \in S
      BY <1>1, <1>3
    <2>2. ToSet(q) = S
      BY <1>1, <1>3, <2>1 DEF ToSet
    <2> QED
      BY <2>2 DEF EnabledActions, q
  <1>5. g \in Graph /\ S \subseteq Actions
    <2>1. g \in Graph /\ \A i \in 1..n : q[i] \in Actions
      BY <1>1, <1>2 DEF Run, Input
    <2> HIDE DEF S, q
    <2> QED
      BY <1>3, <2>1
  <1>6. \A arrival \in Arrivals : ArrivesIn(ArrivalOrder(S, arrival), S, arrival)
    BY <1>2, ArrivalSorted DEF Arrivals
  <1>7. \A arrival, perEvent :
           After(arrival, perEvent) = WritesEnd(ArrivalOrder(S, arrival), g, perEvent).working
    BY <1>4, ArrivalFolds
  <1>8. ASSUME \A k \in DOMAIN decisions : decisions[k].reason \in {"admissible", "inadmissible"}
        PROVE  shacl.graph = current /\ ToSet(shacl.taken) = {q[k] : k \in accepted}
    <2>1. OnlyShapes(input, accepted)
      BY <1>8, ReasonsOnlyShapes
    <2> QED
      BY <1>2, <2>1, ShapesAgree
  <1>9. ASSUME accepted = DOMAIN q
        PROVE  /\ shacl.taken = q /\ Ungated(g, q) = {current}
               /\ \A arrival \in Arrivals : ArrivesInZones(arrival) => After(arrival, TRUE) = current
    <2>1. accepted = 1..Len(q)
      BY <1>1, <1>9
    <2>2. shacl.taken = q
      BY <1>2, <2>1, ShapesTakeAll
    <2>3. Ungated(g, q) = {current}
      BY <1>2, <2>1, UngatedAgrees
    <2>4. ASSUME NEW arrival \in Arrivals, ArrivesInZones(arrival)
          PROVE  After(arrival, TRUE) = current
      <3>1. AllAccepted(input, E, arrival)
        <4>1. \A k, l \in 1..n :
                 k < l /\ q[k].slot[1] = q[l].slot[1] => Arrived(q[k], arrival) <= Arrived(q[l], arrival)
          BY <1>1, <2>4, Zenon DEF ArrivesInZones
        <4>2. arrival \in SetToSeqs(E)
          BY DEF Arrivals
        <4> QED
          BY <1>1, <1>2, <1>3, <2>1, <4>1, <4>2 DEF AllAccepted
      <3>2. WritesEnd(ArrivalOrder(S, arrival), g, TRUE).working = OverlayOf(input, 1..Len(q))
        BY <1>6, <3>1, WholeEventsAgree
      <3> QED
        BY <1>2, <1>7, <2>1, <3>2
    <2> QED
      BY <2>2, <2>3, <2>4
  <1>10. ASSUME NEW arrival \in Arrivals, NEW perEvent \in BOOLEAN
         PROVE  Admissible(After(arrival, perEvent))
    <2> DEFINE o == ArrivalOrder(S, arrival)
    <2>1. o \in Seq(S)
      BY <1>6 DEF ArrivesIn
    <2> HIDE DEF o, S
    <2>2. o \in Seq(Actions)
      BY <1>5, <2>1
    <2>3. Admissible(WritesEnd(o, g, perEvent).working)
      BY <1>5, <2>2, ArrivalAdmissible
    <2> QED
      BY <1>7, <2>3 DEF o
  <1> QED
    BY <1>8, <1>9, <1>10, Zenon DEF StrategiesAgree

(* In every step of the building from an admissible graph, what the         *)
(* comparison attributes to a gate is due to it, whatever the window: the   *)
(* shapes alone come to the same where only they refuse, the order and the  *)
(* gates make no difference where nothing is refused, and whatever is       *)
(* written as it arrives ends admissible.                                   *)
THEOREM StrategiesAreComparable ==
    ASSUME BuildingProfile
    PROVE  HvacSpec => []StrategiesAgree
  <1>1. IInv /\ DecisionsJustified /\ VerdictsExact /\ RequestInv => StrategiesAgree
    BY FinishedStrategies
  <1>2. HvacSpec => Spec /\ []RequestInv
    BY StepResolves
  <1> QED
    BY <1>1, <1>2, ResolverInvariant, ResolverJustified, VerdictsInvariant, PTL

-----------------------------------------------------------------------------
(* The increments of a run. *)

(* The run's parameters are those of the building: one start, admissible,   *)
(* and the actions that the log's events may enable.                        *)
RunProfile ==
    /\ Slots = HvacSlots /\ DOMAIN RolePrecedence \subseteq Roles
    /\ \A g : Admissible(g) <=> HvacAdmissible(g)
    /\ \A g, a : PolicyOK(g, a) <=> HvacPolicyOK(g, a)
    /\ \A g \in Graph : HvacAdmissible(g) => EvaluateRules(g, Log) \subseteq Actions
    /\ \E in : Inputs = {in} /\ HvacAdmissible(in.graph)

(* A log of the experiment's kind, in its unoccupied zones: no occupant     *)
(* sets them, no peak caps them, and all requests for a zone ask for one    *)
(* setpoint that an operator may ask for.                                   *)
RequestLog ==
    /\ EventRecords(Log)
    /\ \A e \in Log : ~Occupied[e.zone] =>
         /\ e.type # "OccupantSetpointRequest" /\ e.type # "DemandResponsePeak"
         /\ e.type = "PreheatRequest" => e.arg \in MinSetpoint..RoleMax["operator"]
    /\ \A e, f \in Log :
         ~Occupied[e.zone] /\ e.zone = f.zone /\ e.type = "PreheatRequest"
             /\ f.type = "PreheatRequest" => e.arg = f.arg

(* Rule r4: an event adds a degree to the setpoint of its zone.             *)
IsIncrement(r) ==
    /\ r.role = "occupant" /\ Rank(r) = 2 /\ r.type = "OccupancyDetected"
    /\ r.binds /\ r.match = "setpoint" /\ r.target = "setpoint" /\ r.value = "add_one"

(* Rule r7: an operator asks for a setpoint.                                *)
IsRequest(r) ==
    /\ r.role = "operator" /\ Rank(r) = 1 /\ r.type = "PreheatRequest"
    /\ r.binds /\ r.match = "setpoint" /\ r.target = "setpoint" /\ r.value = "copy_arg"

(* Who writes setpoints.                                                    *)
LEMMA SetpointRules ==
    /\ \A r \in Rules :
         /\ r.rid = 4 => IsIncrement(r)
         /\ r.rid = 7 => IsRequest(r)
         /\ r.target = "setpoint" =>
              r.rid \in {4, 7} \/ r.type \in {"OccupantSetpointRequest", "DemandResponsePeak"}
    /\ \E r \in Rules : r.rid = 4
    /\ \E r \in Rules : r.rid = 7
  <1> DEFINE r1 == Rule(1, 2, "OccupantSetpointRequest", "setpoint", TRUE, "setpoint", "add_arg")
             r2 == Rule(2, 1, "DemandResponsePeak", "setpoint", TRUE, "setpoint", "copy_arg")
             r3 == Rule(3, 1, "CO2Spike", "vent", FALSE, "vent", "copy_arg")
             r4 == Rule(4, 2, "OccupancyDetected", "setpoint", TRUE, "setpoint", "add_one")
             r5 == Rule(5, 1, "EmergencyAlarm", "emergency", FALSE, "emergency", "copy_arg")
             r6 == Rule(6, 0, "EmergencyAlarm", "vent", FALSE, "vent", "emergency_mode")
             r7 == Rule(7, 1, "PreheatRequest", "setpoint", TRUE, "setpoint", "copy_arg")
             r8 == Rule(8, 1, "DemandResponsePeak", "vent", FALSE, "vent", "off_mode")
  <1>1. /\ EventRole["OccupancyDetected"] = "occupant" /\ EventRole["PreheatRequest"] = "operator"
        /\ RolePrecedence["operator"] = 1 /\ RolePrecedence["occupant"] = 2
    BY DEF EventRole, RolePrecedence
  <1>2. IsIncrement(r4) /\ IsRequest(r7) /\ r4.rid = 4 /\ r7.rid = 7
    BY <1>1 DEF Rule, IsIncrement, IsRequest, Rank
  <1>3. /\ r1.rid = 1 /\ r2.rid = 2 /\ r3.rid = 3 /\ r5.rid = 5 /\ r6.rid = 6 /\ r8.rid = 8
        /\ r1.type = "OccupantSetpointRequest" /\ r2.type = "DemandResponsePeak"
        /\ r3.target # "setpoint" /\ r5.target # "setpoint" /\ r6.target # "setpoint"
        /\ r8.target # "setpoint"
    BY DEF Rule
  <1>4. Rules = {r1, r2, r3, r4, r5, r6, r7, r8}
    BY DEF Rules
  <1> HIDE DEF r1, r2, r3, r4, r5, r6, r7, r8
  <1>5. ASSUME NEW r \in Rules
        PROVE  /\ r.rid = 4 => IsIncrement(r)
               /\ r.rid = 7 => IsRequest(r)
               /\ r.target = "setpoint" =>
                    r.rid \in {4, 7} \/ r.type \in {"OccupantSetpointRequest", "DemandResponsePeak"}
    <2>1. \/ r = r1 \/ r = r2 \/ r = r3 \/ r = r4 \/ r = r5 \/ r = r6 \/ r = r7 \/ r = r8
      BY <1>4
    <2> QED
      BY <1>2, <1>3, <2>1
  <1> QED
    BY <1>2, <1>4, <1>5

(* An admissible graph is one of the building's, with one setpoint a zone.  *)
LEMMA AdmissibleState ==
    ASSUME NEW g \in Graph, Slots = HvacSlots, HvacAdmissible(g)
    PROVE  /\ g \in StateGraphs
           /\ \A z \in Zones : \E v \in 18..26 : Setpoint(g, z) = {v}
  <1>1. DOMAIN g = HvacSlots /\ g = [s \in HvacSlots |-> g[s]]
    BY DEF Graph
  <1>2. ASSUME NEW z \in Zones
        PROVE  /\ Setpoint(g, z) \subseteq 18..26 /\ Cardinality(Setpoint(g, z)) = 1
               /\ Vent(g, z) \subseteq 0..3 /\ EmergencyState(g, z) \subseteq {0, 1}
    BY DEF HvacAdmissible, ZoneSetpointShape, ZoneVentilationShape, EmergencyStateShape,
           Off, Normal, High, Emergency
  <1>3. ASSUME NEW s \in HvacSlots PROVE g[s] \subseteq Small
    <2>1. PICK z \in Zones, p \in {"setpoint", "vent", "emergency"} : s = <<z, p>>
      BY DEF HvacSlots
    <2>2. g[s] \subseteq 18..26 \/ g[s] \subseteq 0..3 \/ g[s] \subseteq {0, 1}
      BY <1>2, <2>1 DEF Setpoint, Vent, EmergencyState
    <2> QED
      BY <2>2 DEF Small
  <1>4. g \in StateGraphs
    BY <1>1, <1>3 DEF StateGraphs
  <1>5. ASSUME NEW z \in Zones PROVE \E v \in 18..26 : Setpoint(g, z) = {v}
    <2>1. 18 \in Int /\ 26 \in Int
      OBVIOUS
    <2>2. IsFiniteSet(18..26)
      BY <2>1, FS_Interval, Zenon
    <2>3. IsFiniteSet(Setpoint(g, z))
      BY <1>2, <2>2, FS_Subset
    <2>4. PICK v : Setpoint(g, z) = {v}
      BY <1>2, <2>3, FS_Singleton
    <2> QED
      BY <1>2, <2>4
  <1> QED
    BY <1>4, <1>5

(* Action a is an increment or a request for zone z, from an event of E.    *)
IncrementOf(a, E, z, v) ==
    /\ a.rid = 4 /\ a.role = "occupant" /\ a.roleRank = 2 /\ a.value = v + 1
    /\ \E e \in E : e.zone = z /\ e.type = "OccupancyDetected" /\ a.bind[4] = e.eid

RequestOf(a, E, z) ==
    /\ a.rid = 7 /\ a.role = "operator" /\ a.roleRank = 1
    /\ \E e \in E : e.zone = z /\ e.type = "PreheatRequest" /\ a.value = e.arg

(* The actions on a setpoint are increments and requests.                   *)
LEMMA SetpointActions ==
    ASSUME RequestLog, NEW g \in StateGraphs, NEW E, E \subseteq Log,
           NEW z \in Zones, ~Occupied[z], NEW v \in Int, Setpoint(g, z) = {v},
           NEW a \in EvaluateRules(g, E)
    PROVE  /\ a.slot = <<z, "setpoint">> => IncrementOf(a, E, z, v) \/ RequestOf(a, E, z)
           /\ a.rid = 4 => \A e \in Log : a.bind[4] = e.eid => a.slot = <<e.zone, "setpoint">>
  <1>1. EventRecords(E)
    BY FS_Subset DEF RequestLog, EventRecords
  <1>2. PICK r \in Rules, e \in E : \E row \in Rows(g, r, e) :
             /\ a = CreateAction(r, row, e) /\ Parts(a, r, row, e)
             /\ row \in Small /\ e.type = r.type
    BY <1>1, EvaluatedMade
  <1>3. PICK row \in Rows(g, r, e) : Parts(a, r, row, e) /\ row \in Small /\ e.type = r.type
    BY <1>2
  <1>4. e \in Log /\ e.eid \in Int /\ e.arg \in Small /\ \A f \in Log : e.eid = f.eid => e = f
    BY DEF RequestLog, EventRecords, Small
  <1>5. a.bind[4] = e.eid
    <2>1. Bound(BindKey(r, row, e), Text(IF r.rid \in {1, 2} THEN e.arg ELSE 0), e.eid, Text(row))
      BY <1>3, <1>4, BindTyped
    <2> QED
      BY <1>3, <2>1 DEF Bound, Parts
  <1>6. a.rid = r.rid /\ a.role = r.role /\ a.roleRank = Rank(r)
        /\ a.slot = <<e.zone, r.target>> /\ a.value = BuildActionValue(r, row, e)
    BY <1>3 DEF Parts
  <1>7. ASSUME a.slot = <<z, "setpoint">>
        PROVE  IncrementOf(a, E, z, v) \/ RequestOf(a, E, z)
    <2>1. e.zone = z /\ r.target = "setpoint"
      BY <1>6, <1>7
    <2>2. r.rid \in {4, 7}
      BY <1>3, <1>4, <2>1, SetpointRules DEF RequestLog
    <2>3. CASE r.rid = 4
      <3>1. IsIncrement(r)
        BY <2>3, SetpointRules
      <3>2. row = v
        BY <2>1, <3>1 DEF Rows, IsIncrement, Setpoint
      <3>3. a.value = v + 1
        BY <1>6, <3>1, <3>2 DEF BuildActionValue, IsIncrement
      <3> QED
        BY <1>3, <1>5, <1>6, <2>1, <2>3, <3>1, <3>3 DEF IncrementOf, IsIncrement
    <2>4. CASE r.rid = 7
      <3>1. IsRequest(r)
        BY <2>4, SetpointRules
      <3>2. a.value = e.arg
        BY <1>6, <3>1 DEF BuildActionValue, IsRequest
      <3> QED
        BY <1>3, <1>6, <2>1, <2>4, <3>1, <3>2 DEF RequestOf, IsRequest
    <2> QED
      BY <2>2, <2>3, <2>4
  <1>8. ASSUME a.rid = 4, NEW f \in Log, a.bind[4] = f.eid
        PROVE  a.slot = <<f.zone, "setpoint">>
    <2>1. f = e
      BY <1>4, <1>5, <1>8
    <2>2. IsIncrement(r)
      BY <1>6, <1>8, SetpointRules
    <2> QED
      BY <1>6, <2>1, <2>2 DEF IsIncrement
  <1> QED
    BY <1>7, <1>8

(* Rule rid proposes a setpoint for the zone.                               *)
Proposes(g, E, z, rid) ==
    \E a \in EvaluateRules(g, E) : a.slot = <<z, "setpoint">> /\ a.rid = rid

(* Every occupancy event and every request of the window is behind one.     *)
LEMMA SetpointActionsMade ==
    ASSUME NEW g, NEW E, NEW z, ~Occupied[z], NEW v, Setpoint(g, z) = {v}, NEW e \in E, e.zone = z
    PROVE  /\ e.type = "OccupancyDetected" => Proposes(g, E, z, 4)
           /\ e.type = "PreheatRequest" => Proposes(g, E, z, 7)
  <1>1. ASSUME NEW r \in Rules, r.type = e.type, r.binds, r.match = "setpoint", r.target = "setpoint"
        PROVE  Proposes(g, E, z, r.rid)
    <2> DEFINE a == CreateAction(r, v, e)
    <2>1. v \in Rows(g, r, e)
      BY <1>1 DEF Rows, Setpoint
    <2>2. a \in EvaluateRules(g, E)
      BY <2>1, EvaluatedIff DEF Made
    <2>3. a.slot = <<z, "setpoint">> /\ a.rid = r.rid
      BY <1>1, CreatedParts DEF Parts
    <2> QED
      BY <2>2, <2>3 DEF Proposes
  <1>2. ASSUME e.type = "OccupancyDetected"
        PROVE  Proposes(g, E, z, 4)
    <2>1. PICK r \in Rules : r.rid = 4 /\ IsIncrement(r)
      BY SetpointRules
    <2> QED
      BY <1>1, <1>2, <2>1 DEF IsIncrement
  <1>3. ASSUME e.type = "PreheatRequest"
        PROVE  Proposes(g, E, z, 7)
    <2>1. PICK r \in Rules : r.rid = 7 /\ IsRequest(r)
      BY SetpointRules
    <2> QED
      BY <1>1, <1>3, <2>1 DEF IsRequest
  <1> QED
    BY <1>2, <1>3

(* The action of a schedule on the setpoint of an unoccupied zone is        *)
(* accepted when its value is the role's to set and it is the first.        *)
LEMMA SetpointGate ==
    ASSUME RunProfile, NEW in, NEW K, Run(in, K), Admissible(in.graph),
           in.active = ActiveRoles["default"], NEW z \in Zones, ~Occupied[z],
           NEW k \in 1..Len(in.schedule), in.schedule[k].slot = <<z, "setpoint">>,
           in.schedule[k].role \in {"occupant", "operator"}, in.schedule[k].value \in Int
    PROVE  k \in K <=>
             /\ in.schedule[k].value \in MinSetpoint..RoleMax[in.schedule[k].role]
             /\ \A j \in Earlier(K, k) : in.schedule[j].slot # <<z, "setpoint">>
  <1> DEFINE a == in.schedule[k]
             g == OverlayOf(in, Earlier(K, k))
             h == Apply(g, a)
  <1>1. Gates(in, Earlier(K, k), g, a) <=> k \in K
    BY DEF Run, JustifiedBy
  <1>2. HvacAdmissible(g) /\ DOMAIN g = HvacSlots
    <2>1. k \in 1..Len(in.schedule) + 1
      BY DEF Run, Input
    <2> QED
      BY <2>1, RunAdmissible DEF RunProfile, OverlayOf
  <1> HIDE DEF a, g, h
  <1>3. a.role \in in.active
    BY DEF ActiveRoles, RolePrecedence, a
  <1>4. a.slot = <<z, "setpoint">> /\ a.slot \in HvacSlots /\ a.slot[1] = z /\ a.slot[2] = "setpoint"
    BY DEF a, HvacSlots
  <1>5. PolicyOK(g, a) <=> a.value \in MinSetpoint..RoleMax[a.role]
    BY <1>4 DEF RunProfile, HvacPolicyOK
  <1>6. ASSUME a.value \in MinSetpoint..RoleMax[a.role] PROVE Admissible(h)
    <2>1. a.value \in 18..26
      BY <1>6 DEF a, MinSetpoint, RoleMax
    <2>2. /\ <<z, "vent">> \in HvacSlots /\ <<z, "vent">> # a.slot
          /\ <<z, "emergency">> \in HvacSlots /\ <<z, "emergency">> # a.slot
      BY <1>4 DEF HvacSlots
    <2>3. /\ Setpoint(h, z) = {a.value} /\ Vent(h, z) = Vent(g, z)
          /\ EmergencyState(h, z) = EmergencyState(g, z)
      BY <1>2, <1>4, <2>2 DEF Apply, Setpoint, Vent, EmergencyState, h
    <2>4. Cardinality({a.value}) = 1
      BY FS_Singleton
    <2>5. z # "A"
      BY DEF Occupied
    <2>6. ZoneAdmissible(g, z)
      BY <1>2, ByZone
    <2>7. ZoneAdmissible(h, z)
      BY <2>1, <2>3, <2>4, <2>5, <2>6
         DEF ZoneAdmissible, ZoneSetpointShape, ZoneVentilationShape, EmergencyStateShape,
             EmergencyVentLockShape
    <2>8. HvacAdmissible(h)
      BY <1>2, <1>4, <2>7, WriteByZone DEF h
    <2> QED
      BY <2>8 DEF RunProfile
  <1>7. k \in K <=> /\ a.value \in MinSetpoint..RoleMax[a.role]
                    /\ \A j \in Earlier(K, k) : in.schedule[j].slot # <<z, "setpoint">>
    BY <1>1, <1>3, <1>4, <1>5, <1>6 DEF Gates, h
  <1> QED
    BY <1>7 DEF a

(* No action of K writes the slot; action m of K alone writes it.           *)
Unwritten(q, K, s) == \A k \in K : q[k].slot # s

WrittenBy(q, K, s, m) == m \in K /\ q[m].slot = s /\ \A k \in K : q[k].slot = s => k = m

(* Of the actions on the slot, those of T are accepted unless K holds one   *)
(* before them.                                                             *)
FirstOfT(q, n, K, s, T) ==
    /\ T \subseteq 1..n /\ \A k \in T : q[k].slot = s
    /\ \A k \in 1..n : q[k].slot = s =>
         (k \in K <=> k \in T /\ \A j \in Earlier(K, k) : q[j].slot # s)

(* Of the positions T at which a slot may be written, the first writes it.  *)
LEMMA FirstWrites ==
    ASSUME NEW q, NEW n \in Nat, NEW K, K \subseteq 1..n, NEW s, NEW T, FirstOfT(q, n, K, s, T)
    PROVE  /\ T = {} => Unwritten(q, K, s)
           /\ \A m \in T : (\A j \in T : m <= j) => WrittenBy(q, K, s, m)
  <1>1. \A k \in K : q[k].slot = s => k \in T
    BY DEF FirstOfT
  <1>2. ASSUME NEW m \in T, \A j \in T : m <= j
        PROVE  WrittenBy(q, K, s, m)
    <2>1. \A j \in Earlier(K, m) : q[j].slot # s
      <3> SUFFICES ASSUME NEW j \in Earlier(K, m), q[j].slot = s PROVE FALSE
        OBVIOUS
      <3>1. j \in T /\ j < m
        BY <1>1 DEF Earlier
      <3>2. m <= j /\ m \in Int /\ j \in Int
        BY <1>2, <3>1 DEF FirstOfT
      <3> QED
        BY <3>1, <3>2
    <2>2. m \in K /\ q[m].slot = s
      BY <2>1 DEF FirstOfT
    <2>3. ASSUME NEW k \in K, q[k].slot = s, k # m PROVE FALSE
      <3>1. k \in T /\ m <= k /\ m \in Int /\ k \in Int
        BY <1>1, <1>2, <2>3 DEF FirstOfT
      <3>2. m \in Earlier(K, k)
        BY <2>2, <2>3, <3>1 DEF Earlier
      <3>3. k \in 1..n /\ \A j \in Earlier(K, k) : q[j].slot # s
        BY <2>3 DEF FirstOfT
      <3> QED
        BY <2>2, <3>2, <3>3
    <2> QED
      BY <2>2, <2>3 DEF WrittenBy
  <1> QED
    BY <1>1, <1>2 DEF Unwritten

(* What is written to a slot once is there, and what is not written stays.  *)
LEMMA WrittenSlot ==
    ASSUME NEW in, NEW K, NEW s \in Slots
    PROVE  /\ Unwritten(in.schedule, K, s) => OverlayOf(in, K)[s] = in.graph[s]
           /\ \A m \in K : WrittenBy(in.schedule, K, s, m) =>
                OverlayOf(in, K)[s] = {in.schedule[m].value}
  <1>1. ASSUME NEW m \in K, WrittenBy(in.schedule, K, s, m)
        PROVE  OverlayOf(in, K)[s] = {in.schedule[m].value}
    <2>1. {k \in K : in.schedule[k].slot = s} = {m}
      BY <1>1 DEF WrittenBy
    <2> QED
      BY <1>1, <2>1 DEF OverlayOf
  <1> QED
    BY <1>1 DEF OverlayOf, Unwritten

(* In a schedule, the requests for a zone come before the increments.       *)
LEMMA RequestsFirst ==
    ASSUME NEW g \in StateGraphs, NEW E, EventRecords(E),
           NEW a \in EvaluateRules(g, E), NEW b \in EvaluateRules(g, E),
           a.roleRank = 1, b.roleRank = 2, LexLess(ScheduleKey(b), ScheduleKey(a))
    PROVE  FALSE
  <1> DEFINE x == ScheduleKey(a)
             y == ScheduleKey(b)
  <1>1. ASSUME NEW c \in EvaluateRules(g, E)
        PROVE  ScheduleKey(c) \in Keys(11) /\ ScheduleKey(c)[1] = c.roleRank
    <2>1. PICK r \in Rules, e \in E : \E row \in Rows(g, r, e) :
               Parts(c, r, row, e) /\ KeyOf(ScheduleKey(c), r, row, e)
      BY EvaluatedMade
    <2> QED
      BY <2>1 DEF Parts, KeyOf
  <1>2. x \in Keys(11) /\ y \in Keys(11) /\ x[1] = 1 /\ y[1] = 2
    BY <1>1
  <1> HIDE DEF x, y
  <1>3. PICK i \in 1..11 : y[i] < x[i] /\ \A j \in 1..i - 1 : y[j] = x[j]
    BY <1>2 DEF LexLess, Keys, x, y
  <1>4. CASE i = 1
    BY <1>2, <1>3, <1>4
  <1>5. CASE i # 1
    <2>1. 1 \in 1..i - 1
      BY <1>5
    <2> QED
      BY <1>2, <1>3, <2>1
  <1> QED
    BY <1>4, <1>5

(* The call of a step from graph g with the events E.                       *)
StepIn(g, E) ==
    [graph |-> g, active |-> ActiveRoles["default"], schedule |-> ScheduleActions(EvaluateRules(g, E))]

(* The step's window holds a request for the zone, or an occupancy event.   *)
HoldsOf(E, z, type) == {e \in E : e.type = type /\ e.zone = z}

Asked(E, z) == HoldsOf(E, z, "PreheatRequest") # {}

Detected(E, z) == HoldsOf(E, z, "OccupancyDetected") # {}

(* The zone is below the occupant's limit.                                  *)
BelowLimit(g, z) == \A v \in Setpoint(g, z) : v < RoleMax["occupant"]

(* Of the actions taken, one adds a degree for an event of the zone.        *)
Fires(taken, z) ==
    \E a \in taken : a.rid = 4 /\ a.bind[4] \in {e.eid : e \in {e \in Log : e.zone = z}}

(* A step from g to h that took these actions accounts for the zone.        *)
AccountsFor(g, E, taken, h, z) ==
    /\ Fires(taken, z) <=> Detected(E, z) /\ BelowLimit(g, z) /\ ~Asked(E, z)
    /\ \E x : {a \in taken : a.slot = <<z, "setpoint">>} \subseteq {x}
    /\ Setpoint(h, z) =
         IF Asked(E, z) THEN {e.arg : e \in HoldsOf(E, z, "PreheatRequest")}
         ELSE IF Fires(taken, z) THEN {v + 1 : v \in Setpoint(g, z)}
         ELSE Setpoint(g, z)

(* In an unoccupied zone the first request of the schedule is taken, and    *)
(* without one the first increment that leaves the occupant's range alone.  *)
LEMMA StepAccounts ==
    ASSUME RunProfile, RequestLog, NEW g \in Graph, HvacAdmissible(g), NEW E, E \subseteq Log,
           NEW K, Run(StepIn(g, E), K), NEW z \in Zones, ~Occupied[z]
    PROVE  LET in == StepIn(g, E) IN
           AccountsFor(g, E, {in.schedule[k] : k \in K}, OverlayOf(in, K), z)
  <1> DEFINE in == StepIn(g, E)
             q == in.schedule
             S == EvaluateRules(g, E)
             s == <<z, "setpoint">>
             taken == {q[k] : k \in K}
             h == OverlayOf(in, K)
  <1>1. PICK n \in Nat : n = Len(q)
    BY DEF Run, Input
  <1>2. /\ K \subseteq 1..n /\ in.graph = g /\ in.active = ActiveRoles["default"]
        /\ q = ScheduleActions(S) /\ Run(in, K) /\ Admissible(g)
    BY <1>1 DEF Run, StepIn, RunProfile
  <1>3. EventRecords(E) /\ g \in StateGraphs /\ s \in Slots /\ s \in HvacSlots
    BY FS_Subset, AdmissibleState DEF RequestLog, EventRecords, RunProfile, HvacSlots
  <1>4. PICK v \in 18..26 : Setpoint(g, z) = {v} /\ g[s] = {v}
    BY AdmissibleState DEF RunProfile, Setpoint
  <1>5. q \in Seq(S) /\ \A a \in S : \E i \in 1..n : q[i] = a
    BY <1>1, <1>2, <1>3, WindowSchedule
  <1>6. \A i, j \in 1..n : i < j => LexLess(ScheduleKey(q[i]), ScheduleKey(q[j]))
    BY <1>1, <1>2, <1>3, WindowSchedule
  <1> HIDE DEF in, S, h
  <1>7. \A k \in 1..n : q[k] \in S
    BY <1>1, <1>5
  <1> DEFINE R == {k \in 1..n : q[k].slot = s /\ q[k].rid = 7}
             I == {k \in 1..n : q[k].slot = s /\ q[k].rid = 4}
             T == {k \in 1..n : k \in R \/ (k \in I /\ v < 23)}
  <1>8. /\ \A k \in 1..n : q[k].slot = s => IncrementOf(q[k], E, z, v) \/ RequestOf(q[k], E, z)
        /\ \A k \in 1..n : q[k].rid = 4 =>
              \A e \in Log : q[k].bind[4] = e.eid => q[k].slot = <<e.zone, "setpoint">>
    BY <1>3, <1>4, <1>7, SetpointActions DEF S
  <1>9. /\ \A k \in R : RequestOf(q[k], E, z)
        /\ \A k \in I : IncrementOf(q[k], E, z, v)
        /\ \A k \in 1..n : q[k].slot = s => k \in R \/ k \in I
    BY <1>8 DEF IncrementOf, RequestOf
  <1>10. Asked(E, z) <=> R # {}
    <2>1. ASSUME Asked(E, z) PROVE R # {}
      <3>1. PICK e \in E : e.type = "PreheatRequest" /\ e.zone = z
        BY <2>1 DEF Asked, HoldsOf
      <3>2. Setpoint(g, z) = {v}
        BY <1>4
      <3>3. Proposes(g, E, z, 7)
        BY <3>1, <3>2, SetpointActionsMade
      <3>4. PICK a \in S : a.slot = s /\ a.rid = 7
        BY <3>3 DEF S, Proposes
      <3> QED
        BY <1>5, <3>4
    <2> QED
      BY <1>9, <2>1 DEF RequestOf, Asked, HoldsOf
  <1>11. Detected(E, z) <=> I # {}
    <2>1. ASSUME Detected(E, z) PROVE I # {}
      <3>1. PICK e \in E : e.type = "OccupancyDetected" /\ e.zone = z
        BY <2>1 DEF Detected, HoldsOf
      <3>2. Setpoint(g, z) = {v}
        BY <1>4
      <3>3. Proposes(g, E, z, 4)
        BY <3>1, <3>2, SetpointActionsMade
      <3>4. PICK a \in S : a.slot = s /\ a.rid = 4
        BY <3>3 DEF S, Proposes
      <3> QED
        BY <1>5, <3>4
    <2> QED
      BY <1>9, <2>1 DEF IncrementOf, Detected, HoldsOf
  <1>12. BelowLimit(g, z) <=> v < 23
    BY <1>4 DEF BelowLimit, RoleMax
  <1>13. Fires(taken, z) <=> \E k \in K : k \in I
    <2>1. ASSUME Fires(taken, z) PROVE \E k \in K : k \in I
      <3>1. PICK k \in K, e \in Log : e.zone = z /\ q[k].rid = 4 /\ q[k].bind[4] = e.eid
        BY <2>1 DEF Fires
      <3>2. k \in 1..n
        BY <1>2
      <3> QED
        BY <1>8, <3>1, <3>2
    <2>2. ASSUME NEW k \in K, k \in I PROVE Fires(taken, z)
      <3>1. PICK e \in E : e.zone = z /\ q[k].bind[4] = e.eid
        BY <1>9, <2>2 DEF IncrementOf
      <3>2. q[k] \in taken /\ q[k].rid = 4 /\ e \in Log
        BY <2>2
      <3> QED
        BY <3>1, <3>2 DEF Fires
    <2> QED
      BY <2>1, <2>2
  <1>14. \A k \in R, i \in I : k < i
    <2> SUFFICES ASSUME NEW k \in R, NEW i \in I, ~(k < i) PROVE FALSE
      OBVIOUS
    <2>1. q[k].roleRank = 1 /\ q[i].roleRank = 2
      BY <1>9 DEF RequestOf, IncrementOf
    <2>2. i < k
      BY <2>1
    <2>3. LexLess(ScheduleKey(q[i]), ScheduleKey(q[k]))
      BY <1>6, <2>2
    <2>4. q[k] \in EvaluateRules(g, E) /\ q[i] \in EvaluateRules(g, E)
      BY <1>7 DEF S
    <2> HIDE DEF q
    <2> QED
      BY <1>3, <2>1, <2>3, <2>4, RequestsFirst
  <1>15. \A k \in R : q[k].role = "operator" /\ q[k].value \in MinSetpoint..RoleMax["operator"]
    <2> SUFFICES ASSUME NEW k \in R
                 PROVE  q[k].role = "operator" /\ q[k].value \in MinSetpoint..RoleMax["operator"]
      OBVIOUS
    <2>1. PICK e \in E : e.zone = z /\ e.type = "PreheatRequest" /\ q[k].value = e.arg
      BY <1>9 DEF RequestOf
    <2> QED
      BY <1>9, <2>1 DEF RequestOf, RequestLog
  <1>16. \A k \in I : /\ q[k].role = "occupant" /\ q[k].value = v + 1
                      /\ q[k].value \in MinSetpoint..RoleMax["occupant"] <=> v < 23
    BY <1>9 DEF IncrementOf, MinSetpoint, RoleMax
  <1>17. ASSUME NEW k \in 1..n, q[k].slot = s
         PROVE  k \in K <=> k \in T /\ \A j \in Earlier(K, k) : q[j].slot # s
    <2>1. k \in R \/ k \in I
      BY <1>9, <1>17
    <2>2. q[k].role \in {"occupant", "operator"} /\ q[k].value \in Int
      BY <1>15, <1>16, <2>1 DEF MinSetpoint, RoleMax
    <2>3. k \in K <=> /\ q[k].value \in MinSetpoint..RoleMax[q[k].role]
                      /\ \A j \in Earlier(K, k) : q[j].slot # s
      BY <1>1, <1>2, <1>17, <2>2, SetpointGate
    <2>4. q[k].value \in MinSetpoint..RoleMax[q[k].role] <=> k \in T
      BY <1>15, <1>16, <2>1
    <2> QED
      BY <2>3, <2>4
  <1>18. FirstOfT(q, n, K, s, T)
    <2>1. T \subseteq 1..n /\ \A k \in T : q[k].slot = s
      OBVIOUS
    <2> HIDE DEF T, q, s
    <2> QED
      BY <1>17, <2>1 DEF FirstOfT
  <1>19. T # {} => \E m \in T : \A j \in T : m <= j
    <2>1. T \subseteq Nat
      OBVIOUS
    <2> HIDE DEF T
    <2> QED
      BY <2>1, FirstOf
  <1>20. R \subseteq T /\ T \subseteq 1..n /\ \A k \in R \cup I : q[k].slot = s
    OBVIOUS
  <1>21. \A k \in T : k \in R \/ (k \in I /\ v < 23)
    OBVIOUS
  <1>22. v < 23 => I \subseteq T
    OBVIOUS
  <1>23. \A k : ~(k \in R /\ k \in I)
    OBVIOUS
  <1> HIDE DEF R, I, T
  <1>24. CASE T = {}
    <2>0. Unwritten(q, K, s)
      BY <1>2, <1>18, <1>24, FirstWrites
    <2>1. \A k \in K : q[k].slot # s
      BY <2>0 DEF Unwritten
    <2>2. ~Asked(E, z) /\ ~Fires(taken, z) /\ ~(Detected(E, z) /\ BelowLimit(g, z))
      BY <1>10, <1>11, <1>12, <1>13, <1>20, <1>22, <1>24, <2>1
    <2>3. h[s] = g[s]
      BY <1>2, <1>3, <2>0, WrittenSlot DEF h
    <2>4. \E x : {a \in taken : a.slot = s} \subseteq {x}
      BY <2>1
    <2> QED
      BY <2>2, <2>3, <2>4 DEF AccountsFor, Setpoint, h, in
  <1>25. CASE T # {}
    <2>1. PICK m \in T : \A j \in T : m <= j
      BY <1>19, <1>25
    <2>0. WrittenBy(q, K, s, m)
      BY <1>2, <1>18, <2>1, FirstWrites
    <2>2. m \in K /\ \A k \in K : q[k].slot = s => k = m
      BY <2>0 DEF WrittenBy
    <2>3. q[m].slot = s
      BY <1>20, <1>21, <2>1
    <2>4. h[s] = {q[m].value}
      BY <1>3, <2>0, <2>2, WrittenSlot DEF h
    <2>5. \E x : {a \in taken : a.slot = s} \subseteq {x}
      <3>1. \A a \in taken : a.slot = s => a = q[m]
        BY <2>2
      <3> HIDE DEF taken
      <3> QED
        BY <3>1
    <2>6. Fires(taken, z) <=> m \in I
      BY <1>13, <1>20, <2>2
    <2>7. CASE m \in R
      <3>1. Asked(E, z) /\ ~Fires(taken, z)
        BY <1>10, <1>23, <2>6, <2>7
      <3>2. PICK e \in E : e.zone = z /\ e.type = "PreheatRequest" /\ q[m].value = e.arg
        BY <1>9, <2>7 DEF RequestOf
      <3>3. {f.arg : f \in HoldsOf(E, z, "PreheatRequest")} = {e.arg}
        <4>1. e \in HoldsOf(E, z, "PreheatRequest")
          BY <3>2 DEF HoldsOf
        <4>2. \A f \in HoldsOf(E, z, "PreheatRequest") : f.arg = e.arg
          BY <3>2 DEF HoldsOf, RequestLog
        <4> QED
          BY <4>1, <4>2
      <3> QED
        BY <2>4, <2>5, <3>1, <3>2, <3>3 DEF AccountsFor, Setpoint, h, in
    <2>8. CASE m \in I /\ v < 23
      <3>1. R = {}
        <4> SUFFICES ASSUME NEW k \in R PROVE FALSE
          OBVIOUS
        <4>1. k < m /\ m <= k /\ k \in Int /\ m \in Int
          BY <1>14, <1>20, <2>1, <2>8
        <4> QED
          BY <4>1
      <3>2. ~Asked(E, z) /\ Fires(taken, z) /\ Detected(E, z) /\ BelowLimit(g, z)
        BY <1>10, <1>11, <1>12, <2>6, <2>8, <3>1
      <3>3. {w + 1 : w \in Setpoint(g, z)} = {v + 1} /\ q[m].value = v + 1
        BY <1>4, <1>16, <2>8
      <3> QED
        BY <2>4, <2>5, <3>2, <3>3 DEF AccountsFor, Setpoint, h, in
    <2> QED
      BY <1>21, <2>1, <2>7, <2>8
  <1> QED
    BY <1>24, <1>25

(* The graph step k of these steps starts from.                             *)
GraphBefore(st, k) == IF k = 1 THEN Start ELSE st[k - 1].graph

(* A step done: a resolution, from an admissible graph, of the schedule of  *)
(* its events, with what it took and what it left.                          *)
Stepped(g, st) ==
    /\ g \in Graph /\ HvacAdmissible(g) /\ st.events \subseteq Log
    /\ \E K : /\ Run(StepIn(g, st.events), K)
              /\ st.graph = OverlayOf(StepIn(g, st.events), K)
              /\ st.taken = {StepIn(g, st.events).schedule[k] : k \in K}

(* A step is resolved from what the one before it left.                     *)
Chained ==
    /\ running => input = StepIn(GraphBefore(steps, Len(steps) + 1), selected)
    /\ ~running => current = GraphBefore(steps, Len(steps) + 1)
    /\ \A k \in DOMAIN steps : Stepped(GraphBefore(steps, k), steps[k])

(* The inductive invariant of a run.                                        *)
StepsInv ==
    DeliveryInv /\ IInv /\ DecisionsJustified /\ HvacAdmissible(input.graph) /\ Chained

(* More events enable more actions.                                         *)
LEMMA MoreEvents ==
    ASSUME NEW g, NEW E, NEW F, E \subseteq F
    PROVE  EvaluateRules(g, E) \subseteq EvaluateRules(g, F)
  <1> SUFFICES ASSUME NEW a \in EvaluateRules(g, E) PROVE a \in EvaluateRules(g, F)
    OBVIOUS
  <1>1. PICK r \in Rules, e \in E : \E row \in Rows(g, r, e) : Made(a, g, r, row, e)
    BY EvaluatedIff
  <1>2. e \in F
    OBVIOUS
  <1> QED
    BY <1>1, <1>2, EvaluatedIff

(* The call of a step is one of the resolver's.                             *)
LEMMA StepCalls ==
    ASSUME RunProfile, RequestLog, NEW g \in Graph, HvacAdmissible(g), NEW E, E \subseteq Log
    PROVE  StepIn(g, E) \in Input
  <1>1. EventRecords(E) /\ g \in StateGraphs
    BY FS_Subset, AdmissibleState DEF RequestLog, EventRecords, RunProfile
  <1>2. ScheduleActions(EvaluateRules(g, E)) \in Seq(EvaluateRules(g, E))
    BY <1>1, WindowSchedule
  <1>3. EvaluateRules(g, E) \subseteq EvaluateRules(g, Log)
    BY MoreEvents
  <1>4. EvaluateRules(g, E) \subseteq Actions
    BY <1>3 DEF RunProfile
  <1> DEFINE S == EvaluateRules(g, E)
             q == ScheduleActions(S)
  <1>5. q \in Seq(Actions)
    <2>1. q \in Seq(S) /\ S \subseteq Actions
      BY <1>2, <1>4
    <2> HIDE DEF S, q
    <2> QED
      BY <2>1
  <1>6. ActiveRoles["default"] \subseteq Roles
    BY DEF ActiveRoles, RunProfile
  <1> HIDE DEF q
  <1> QED
    BY <1>5, <1>6 DEF StepIn, Input, q

(* The window of a step is of the log.                                      *)
LEMMA WindowOfLog == ASSUME DeliveryInv PROVE InWindow \subseteq Log
  BY DEF DeliveryInv, DeliveryTypeOK, InWindow, Visible

(* The run starts with nothing resolved, on the start graph.                *)
LEMMA RunBegins == ASSUME RunProfile, RunInit PROVE StepsInv
  <1>1. DeliveryInv
    BY DeliveryInitially
  <1>2. Init /\ steps = <<>> /\ running = FALSE
    BY DEF RunInit
  <1>3. IInv /\ DecisionsJustified
    BY <1>2, InitHolds DEF Init, DecisionsJustified
  <1>4. PICK in : Inputs = {in} /\ HvacAdmissible(in.graph)
    BY DEF RunProfile
  <1>5. input = in /\ current = in.graph
    BY <1>2, <1>4 DEF Init
  <1>6. Start = in.graph
    BY <1>4 DEF Start
  <1>7. Len(steps) + 1 = 1 /\ DOMAIN steps = {}
    BY <1>2
  <1>8. Chained
    BY <1>2, <1>5, <1>6, <1>7 DEF Chained, GraphBefore
  <1> QED
    BY <1>1, <1>3, <1>4, <1>5, <1>8 DEF StepsInv

(* A step begins as a call of the resolver on the state the last one left.  *)
LEMMA BeginKeeps == ASSUME RunProfile, RequestLog, StepsInv, BeginStep PROVE StepsInv'
  <1>1. DeliveryInv'
    BY BeginStepStep DEF StepsInv
  <1>2. /\ ~running /\ running' = TRUE /\ selected' = InWindow /\ steps' = steps
        /\ input' = StepIn(current, InWindow) /\ current' = current
        /\ accepted' = {} /\ winner' = [s \in Slots |-> 0] /\ decisions' = <<>>
    BY DEF BeginStep, StepIn
  <1>3. current \in Graph /\ HvacAdmissible(current) /\ InWindow \subseteq Log
    <2>1. Admissible(current)
      BY DEF StepsInv, IInv, AdmissibilityKept, RunProfile
    <2> QED
      BY <2>1, WindowOfLog DEF StepsInv, IInv, TypeOK, RunProfile
  <1>4. input' \in Input /\ input'.graph = current
    BY <1>2, <1>3, StepCalls DEF StepIn
  <1>5. Begun'
    BY <1>2, <1>4 DEF Begun
  <1>6. (IInv /\ DecisionsJustified)'
    <2>1. Sound'
      BY <1>5, BegunSound
    <2> QED
      BY <2>1 DEF Sound
  <1>7. HvacAdmissible(input.graph)'
    BY <1>3, <1>4
  <1>8. current = GraphBefore(steps, Len(steps) + 1)
        /\ \A k \in DOMAIN steps : Stepped(GraphBefore(steps, k), steps[k])
    BY <1>2 DEF StepsInv, Chained
  <1>9. Chained'
    BY <1>2, <1>8 DEF Chained
  <1> QED
    BY <1>1, <1>6, <1>7, <1>9 DEF StepsInv

(* An event that arrives changes neither the state nor the steps.           *)
LEMMA ArriveKeeps == ASSUME StepsInv, NEW e \in Log, Arrive(e) PROVE StepsInv'
  <1>1. DeliveryInv'
    BY ArriveStep DEF StepsInv
  <1>2. UNCHANGED <<resolverVars, running, selected, steps>>
    BY DEF Arrive
  <1>3. (IInv /\ DecisionsJustified)'
    BY <1>2, NextKeeps, VerdictsKeep DEF StepsInv
  <1> QED
    BY <1>1, <1>2, <1>3 DEF StepsInv, Chained, resolverVars

(* The decisions of a step leave its call as it is.                         *)
LEMMA DecisionKeeps == ASSUME StepsInv, Resolve PROVE StepsInv'
  <1>1. running /\ Next /\ UNCHANGED <<mode, arrived, consumed, running, selected, steps>>
    BY DEF Resolve
  <1>2. DeliveryInv'
    BY <1>1, DeliveryUnchanged DEF StepsInv
  <1>3. (IInv /\ DecisionsJustified)'
    BY <1>1, NextKeeps, VerdictsKeep DEF StepsInv
  <1>4. input' = input
    BY <1>1, OneVerdict DEF StepsInv
  <1>5. Chained'
    BY <1>1, <1>4 DEF StepsInv, Chained
  <1> QED
    BY <1>2, <1>3, <1>4, <1>5 DEF StepsInv

(* A step that ends is a resolution from what the one before it left, and   *)
(* leaves what the next one starts from.                                    *)
LEMMA EndKeeps == ASSUME RunProfile, StepsInv, EndStep PROVE StepsInv'
  <1> DEFINE n == Len(steps) + 1
             x == [log |-> arrived, events |-> selected, graph |-> current,
                   taken |-> {input.schedule[k] : k \in accepted}]
             g == GraphBefore(steps, n)
  <1>1. /\ running /\ running' = FALSE /\ ~Pending /\ steps' = Append(steps, x)
        /\ UNCHANGED resolverVars
    BY DEF EndStep
  <1>2. DeliveryInv'
    BY EndStepStep DEF StepsInv
  <1>3. (IInv /\ DecisionsJustified)'
    BY <1>1, NextKeeps, VerdictsKeep DEF StepsInv
  <1>4. input = StepIn(g, selected) /\ input.graph = g
    BY <1>1 DEF StepsInv, Chained, StepIn
  <1>5. Run(input, accepted)
    <2>1. decisions \in Seq(Decision) /\ accepted \subseteq 1..Len(decisions)
          /\ input \in Input /\ Len(decisions) <= Len(input.schedule)
      BY DEF StepsInv, IInv, TypeOK
    <2>2. input.schedule \in Seq(Actions)
      BY <2>1 DEF Input
    <2>3. Len(decisions) = Len(input.schedule)
      BY <1>1, <2>1, <2>2 DEF Pending, Turn
    <2> QED
      BY <2>1, <2>3, JustifiedMeans DEF StepsInv, Run
  <1>6. current = OverlayOf(input, accepted)
    BY CurrentIsOverlay DEF StepsInv, Overlay, OverlayOf
  <1>7. x.events = selected /\ x.graph = current /\ x.taken = {input.schedule[k] : k \in accepted}
    OBVIOUS
  <1> HIDE DEF x
  <1>8. selected \subseteq Log
    BY <1>1, WindowOfLog DEF StepsInv, DeliveryInv, SelectedIs
  <1>9. g \in Graph /\ HvacAdmissible(g)
    BY <1>4 DEF StepsInv, IInv, TypeOK, Input
  <1>10. Stepped(g, x)
    BY <1>4, <1>5, <1>6, <1>7, <1>8, <1>9 DEF Stepped
  <1>11. /\ Len(steps) \in Nat /\ DOMAIN steps = 1..Len(steps)
         /\ DOMAIN steps' = 1..n
         /\ \A k \in DOMAIN steps : steps'[k] = steps[k]
         /\ steps'[n] = x
    BY <1>1, AppendAny DEF StepsInv, DeliveryInv, DeliveryTypeOK
  <1>12. Len(steps') = n
    <2>1. IsSeq(steps')
      BY <1>2 DEF DeliveryInv, DeliveryTypeOK
    <2>2. Len(steps') \in Nat /\ DOMAIN steps' = 1..Len(steps')
      BY <2>1, AppendAny
    <2>3. n \in Nat
      BY <1>11
    <2> QED
      BY <1>11, <2>2, <2>3
  <1>13. \A k \in 1..n : GraphBefore(steps', k) = GraphBefore(steps, k)
    <2> SUFFICES ASSUME NEW k \in 1..n, k # 1 PROVE steps'[k - 1] = steps[k - 1]
      BY DEF GraphBefore
    <2>1. k - 1 \in DOMAIN steps
      BY <1>11
    <2> QED
      BY <1>11, <2>1
  <1>14. GraphBefore(steps', n + 1) = current
    <2>1. n + 1 # 1 /\ n + 1 - 1 = n
      BY <1>11
    <2> QED
      BY <1>7, <1>11, <2>1 DEF GraphBefore
  <1>15. ASSUME NEW k \in 1..n PROVE Stepped(GraphBefore(steps', k), steps'[k])
    <2>1. CASE k = n
      BY <1>10, <1>11, <1>13, <2>1
    <2>2. CASE k # n
      <3>1. k \in DOMAIN steps
        BY <1>11, <2>2
      <3>2. Stepped(GraphBefore(steps, k), steps[k])
        BY <3>1 DEF StepsInv, Chained
      <3> QED
        BY <1>11, <1>13, <3>1, <3>2
    <2> QED
      BY <2>1, <2>2
  <1>16. Chained'
    <2> HIDE DEF n
    <2> QED
      BY <1>1, <1>11, <1>12, <1>14, <1>15 DEF Chained, resolverVars
  <1> QED
    BY <1>1, <1>2, <1>3, <1>16 DEF StepsInv, resolverVars

(* Every step of a run keeps the invariant.                                 *)
LEMMA RunKeeps == ASSUME RunProfile, RequestLog, StepsInv, [RunNext]_runVars PROVE StepsInv'
  <1>1. CASE \E e \in Log \ arrived : Arrive(e)
    BY <1>1, ArriveKeeps
  <1>2. CASE BeginStep
    BY <1>2, BeginKeeps
  <1>3. CASE Resolve
    BY <1>3, DecisionKeeps
  <1>4. CASE EndStep
    BY <1>4, EndKeeps
  <1>5. CASE UNCHANGED runVars
    <2>1. UNCHANGED <<resolverVars, mode, arrived, consumed, running, selected, steps>>
      BY <1>5 DEF runVars
    <2>2. DeliveryInv'
      BY <2>1, DeliveryUnchanged DEF StepsInv
    <2>3. (IInv /\ DecisionsJustified)'
      BY <2>1, NextKeeps, VerdictsKeep DEF StepsInv
    <2> QED
      BY <2>1, <2>2, <2>3 DEF StepsInv, Chained, resolverVars
  <1> QED
    BY <1>1, <1>2, <1>3, <1>4, <1>5 DEF RunNext

(* The increments of one zone, as the property has them.                    *)
ZoneAccounted(z) ==
    LET asked    == {k \in DOMAIN steps : Held(k, z, "PreheatRequest") # {}}
        occupied == {k \in DOMAIN steps : Held(k, z, "OccupancyDetected") # {}}
        below    == {k \in DOMAIN steps :
                       \A v \in Setpoint(Before(k), z) : v < RoleMax["occupant"]}
        fired    == Firings({e.eid : e \in {e \in Log : e.zone = z}})
    IN  /\ fired = (occupied \cap below) \ asked
        /\ \A k \in DOMAIN steps :
             /\ Cardinality({a \in steps[k].taken : a.slot = <<z, "setpoint">>}) <= 1
             /\ Setpoint(steps[k].graph, z) =
                  IF k \in asked THEN {e.arg : e \in Held(k, z, "PreheatRequest")}
                  ELSE IF k \in fired THEN {v + 1 : v \in Setpoint(Before(k), z)}
                  ELSE Setpoint(Before(k), z)

(* A run of steps that account for a zone accounts for it.                  *)
LEMMA ZoneAccounts ==
    ASSUME NEW z,
           \A k \in DOMAIN steps :
               AccountsFor(Before(k), steps[k].events, steps[k].taken, steps[k].graph, z)
    PROVE  ZoneAccounted(z)
  <1> DEFINE asked    == {k \in DOMAIN steps : Held(k, z, "PreheatRequest") # {}}
             occupied == {k \in DOMAIN steps : Held(k, z, "OccupancyDetected") # {}}
             below    == {k \in DOMAIN steps :
                            \A v \in Setpoint(Before(k), z) : v < RoleMax["occupant"]}
             fired    == Firings({e.eid : e \in {e \in Log : e.zone = z}})
  <1>1. ASSUME NEW k \in DOMAIN steps
        PROVE  /\ k \in asked <=> Asked(steps[k].events, z)
               /\ k \in occupied <=> Detected(steps[k].events, z)
               /\ k \in below <=> BelowLimit(Before(k), z)
               /\ k \in fired <=> Fires(steps[k].taken, z)
               /\ Held(k, z, "PreheatRequest") = HoldsOf(steps[k].events, z, "PreheatRequest")
    BY DEF Held, HoldsOf, Asked, Detected, BelowLimit, Fires, Firings
  <1>2. fired \subseteq DOMAIN steps /\ occupied \subseteq DOMAIN steps
    BY DEF Firings
  <1> HIDE DEF asked, occupied, below, fired
  <1>3. fired = (occupied \cap below) \ asked
    BY <1>1, <1>2 DEF AccountsFor
  <1>4. ASSUME NEW k \in DOMAIN steps
        PROVE  Cardinality({a \in steps[k].taken : a.slot = <<z, "setpoint">>}) <= 1
    <2> DEFINE W == {a \in steps[k].taken : a.slot = <<z, "setpoint">>}
    <2>1. PICK x : W \subseteq {x}
      BY <1>4 DEF AccountsFor
    <2> HIDE DEF W
    <2>2. IsFiniteSet({x}) /\ Cardinality({x}) = 1
      BY FS_Singleton
    <2>3. Cardinality(W) <= Cardinality({x})
      BY <2>1, <2>2, FS_Subset
    <2> QED
      BY <2>2, <2>3 DEF W
  <1>5. ASSUME NEW k \in DOMAIN steps
        PROVE  Setpoint(steps[k].graph, z) =
                  IF k \in asked THEN {e.arg : e \in Held(k, z, "PreheatRequest")}
                  ELSE IF k \in fired THEN {v + 1 : v \in Setpoint(Before(k), z)}
                  ELSE Setpoint(Before(k), z)
    BY <1>1 DEF AccountsFor
  <1> QED
    BY <1>3, <1>4, <1>5 DEF ZoneAccounted, asked, occupied, below, fired

(* In a run over a log of the experiment's kind, a window's occupancy       *)
(* events raise the setpoint of an unoccupied zone by one degree together,  *)
(* whatever their number and their delivery, unless an operator asks for a  *)
(* setpoint or the zone is at its limit; and nothing else moves it.         *)
THEOREM IncrementsAreAccounted ==
    ASSUME RunProfile, RequestLog
    PROVE  RunSpec => []IncrementsAccounted
  <1>1. StepsInv => IncrementsAccounted
    <2> SUFFICES ASSUME StepsInv, NEW z \in Zones, ~Occupied[z] PROVE ZoneAccounted(z)
      BY DEF IncrementsAccounted, ZoneAccounted
    <2>1. ASSUME NEW k \in DOMAIN steps
          PROVE  AccountsFor(Before(k), steps[k].events, steps[k].taken, steps[k].graph, z)
      <3>1. Before(k) = GraphBefore(steps, k)
        BY DEF Before, GraphBefore
      <3>2. Stepped(Before(k), steps[k])
        BY <3>1 DEF StepsInv, Chained
      <3> QED
        BY <3>2, StepAccounts DEF Stepped
    <2> QED
      BY <2>1, ZoneAccounts
  <1>2. RunInit => StepsInv
    BY RunBegins
  <1>3. StepsInv /\ [RunNext]_runVars => StepsInv'
    BY RunKeeps
  <1> QED
    BY <1>1, <1>2, <1>3, PTL DEF RunSpec
=============================================================================
