--------------------------- MODULE ChargingProofs ---------------------------
(***************************************************************************)
(* The charging cluster, ev/experiment_ev.py: for any points, window,      *)
(* input graph and either precedence, with numbers of at most two digits.  *)
(*                                                                         *)
(* Faults and grid signals come through because of where the precedence    *)
(* and the priorities put what they enable, and because each lowers powers *)
(* before it changes a state: lowering a power keeps every graph within    *)
(* the budget, which takes the sum of the powers apart.                    *)
(*                                                                         *)
(* The last part is about the oracle of the generated matrix: it follows,  *)
(* for a window of one command and at most one signal, what the command    *)
(* finds when its turn comes and what the window ends with.                *)
(***************************************************************************)
EXTENDS EvWorkloads, ResolverProofs

(* What a rule is. *)
IsRule(r, rid, priority, type, role, slot, value) ==
    /\ r.rid = rid /\ r.priority = priority /\ r.type = type /\ r.role = role
    /\ r.slot = slot /\ r.value = value

(* The nine rules. *)
RuleTable(r) ==
    \/ IsRule(r, 1, 1, "ChargeRequest", "driver", "power", 0)
    \/ IsRule(r, 2, 1, "FleetSchedule", "fleet", "power", 0)
    \/ IsRule(r, 3, 2, "CapacitySignal", "grid", "power", 0)
    \/ IsRule(r, 4, 1, "GridEmergency", "grid", "state", Curtailed)
    \/ IsRule(r, 5, 0, "GridEmergency", "grid", "power", CurtailedPower)
    \/ IsRule(r, 6, 0, "PlugIn", "driver", "connector", Plugged)
    \/ IsRule(r, 7, 1, "DepartureSoon", "fleet", "power", MaxPower)
    \/ IsRule(r, 8, 1, "FaultDetected", "safety", "connector", OutOfService)
    \/ IsRule(r, 9, 0, "FaultDetected", "safety", "power", 0)

(* The rules of ev/data/rules_ev.json, each with an identifier of its own.  *)
LEMMA EvRuleFacts ==
    /\ \A r \in EvRules : RuleTable(r) /\ r.rid \in 1..9
    /\ \A r, q \in EvRules : r.rid = q.rid => r = q
    /\ \A rid \in {4, 5, 8, 9} : \E r \in EvRules : r.rid = rid
    /\ IsFiniteSet(EvRules)
  <1> DEFINE r1 == EvRule(1, 1, "ChargeRequest", "power", 0)
             r2 == EvRule(2, 1, "FleetSchedule", "power", 0)
             r3 == EvRule(3, 2, "CapacitySignal", "power", 0)
             r4 == EvRule(4, 1, "GridEmergency", "state", Curtailed)
             r5 == EvRule(5, 0, "GridEmergency", "power", CurtailedPower)
             r6 == EvRule(6, 0, "PlugIn", "connector", Plugged)
             r7 == EvRule(7, 1, "DepartureSoon", "power", MaxPower)
             r8 == EvRule(8, 1, "FaultDetected", "connector", OutOfService)
             r9 == EvRule(9, 0, "FaultDetected", "power", 0)
  <1>1. EvRules = {r1, r2, r3, r4, r5, r6, r7, r8, r9}
    BY DEF EvRules
  <1>2. /\ EvEventRole["ChargeRequest"] = "driver" /\ EvEventRole["PlugIn"] = "driver"
        /\ EvEventRole["FleetSchedule"] = "fleet" /\ EvEventRole["DepartureSoon"] = "fleet"
        /\ EvEventRole["CapacitySignal"] = "grid" /\ EvEventRole["GridEmergency"] = "grid"
        /\ EvEventRole["FaultDetected"] = "safety"
    BY DEF EvEventRole
  <1>3. /\ IsRule(r1, 1, 1, "ChargeRequest", "driver", "power", 0)
        /\ IsRule(r2, 2, 1, "FleetSchedule", "fleet", "power", 0)
        /\ IsRule(r3, 3, 2, "CapacitySignal", "grid", "power", 0)
        /\ IsRule(r4, 4, 1, "GridEmergency", "grid", "state", Curtailed)
        /\ IsRule(r5, 5, 0, "GridEmergency", "grid", "power", CurtailedPower)
        /\ IsRule(r6, 6, 0, "PlugIn", "driver", "connector", Plugged)
        /\ IsRule(r7, 7, 1, "DepartureSoon", "fleet", "power", MaxPower)
        /\ IsRule(r8, 8, 1, "FaultDetected", "safety", "connector", OutOfService)
        /\ IsRule(r9, 9, 0, "FaultDetected", "safety", "power", 0)
    BY <1>2 DEF EvRule, IsRule
  <1> HIDE DEF r1, r2, r3, r4, r5, r6, r7, r8, r9
  <1>4. /\ r1.rid = 1 /\ r2.rid = 2 /\ r3.rid = 3 /\ r4.rid = 4 /\ r5.rid = 5
        /\ r6.rid = 6 /\ r7.rid = 7 /\ r8.rid = 8 /\ r9.rid = 9
    BY <1>3 DEF IsRule
  <1>5. \A r \in EvRules : RuleTable(r) /\ r.rid \in 1..9
    BY <1>1, <1>3, <1>4 DEF RuleTable
  <1>6. \A r, q \in EvRules : r.rid = q.rid => r = q
    BY <1>1, <1>4
  <1>7. \A rid \in {4, 5, 8, 9} : \E r \in EvRules : r.rid = rid
    BY <1>1, <1>4
  <1>8. IsFiniteSet(EvRules)
    <2>1. [r \in EvRules |-> r.rid] \in Injection(EvRules, 1..9)
      BY <1>5, <1>6 DEF Injection, IsInjective
    <2>2. 1 \in Int /\ 9 \in Int
      OBVIOUS
    <2>3. IsFiniteSet(1..9)
      BY <2>2, FS_Interval, Zenon
    <2> QED
      BY <2>1, <2>3, FS_Injection
  <1> QED
    BY <1>5, <1>6, <1>7, <1>8

(* a is the action that rule r makes of event e for a subject x.            *)
EvMade(a, g, rank, r, x, e) == x \in Subjects(g, r, e) /\ a = EvCreateAction(r, x, e, rank)

(* Rule evaluation makes an action of each rule, event and subject.         *)
LEMMA EvEvaluatedIff ==
    ASSUME NEW g, NEW E, NEW rank, NEW a
    PROVE  a \in EvEvaluateRules(g, E, rank) <=>
               \E r \in EvRules, e \in E : \E x \in Subjects(g, r, e) : EvMade(a, g, rank, r, x, e)
  BY DEF EvEvaluateRules, EvMade

(* A query binds the event's point, the feeder or, for a reduction, points  *)
(* of the cluster.                                                          *)
LEMMA SubjectsTyped ==
    ASSUME NEW g, NEW r \in EvRules, NEW E, EvEventRecords(E), NEW e \in E
    PROVE  /\ IsFiniteSet(Subjects(g, r, e))
           /\ Subjects(g, r, e) \subseteq ChargingPoints \cup {Feeder}
           /\ Subjects(g, r, e) # {} => e.type = r.type
           /\ \A x \in Subjects(g, r, e) :
                CASE r.rid = 4 -> x = Feeder
                  [] r.rid = 5 -> x \in ChargingPoints
                  [] OTHER -> x = e.cp
  <1>1. e.cp \in ChargingPoints \cup {Feeder}
    BY DEF EvEventRecords
  <1>2. Subjects(g, r, e) \subseteq ChargingPoints \cup {Feeder}
    BY <1>1 DEF Subjects
  <1>3. IsFiniteSet(ChargingPoints \cup {Feeder})
    BY ChargingConstants, FS_AddElement
  <1>4. IsFiniteSet(Subjects(g, r, e))
    BY <1>2, <1>3, FS_Subset
  <1>5. \A x \in Subjects(g, r, e) :
                CASE r.rid = 4 -> x = Feeder
                  [] r.rid = 5 -> x \in ChargingPoints
                  [] OTHER -> x = e.cp
    BY DEF Subjects
  <1>6. r.type # e.type => Subjects(g, r, e) = {}
    BY DEF Subjects
  <1> QED
    BY <1>2, <1>4, <1>5, <1>6

(* The key of the action of a rule for a subject and an event.              *)
EvKeyOf(k, r, x, e, rank) ==
    /\ k \in Keys(9)
    /\ k[1] = rank[r.role] /\ k[2] = r.priority /\ k[3] = e.ts /\ k[4] = r.rid
    /\ k[8] = x /\ k[9] = e.eid

(* A role has a place in either precedence.                                 *)
LEMMA RanksTyped ==
    ASSUME NEW rank \in Precedences
    PROVE  /\ rank["safety"] = 0
           /\ \/ rank["grid"] = 1 /\ rank["fleet"] = 2
              \/ rank["fleet"] = 1 /\ rank["grid"] = 2
           /\ rank["driver"] = 3
  BY DEF Precedences, ROLE_RANK, FleetOverGrid

(* The role of a rule is one of the four.                                   *)
LEMMA RuleRole ==
    ASSUME NEW r \in EvRules
    PROVE  r.role \in {"safety", "grid", "fleet", "driver"} /\ r.priority \in 0..2
  BY EvRuleFacts DEF RuleTable, IsRule

(* The key of an action names the rule, the subject and the event.          *)
LEMMA EvKeys ==
    ASSUME NEW r \in EvRules, NEW rank \in Precedences, NEW x \in Int,
           NEW e, e.eid \in Int, e.ts \in Int, e.arg \in -99..99
    PROVE  EvKeyOf(ScheduleKey(EvCreateAction(r, x, e, rank)), r, x, e, rank)
  <1>1. PICK t : t = IF r.rid = 3 THEN Text(e.arg) ELSE Text(0)
    OBVIOUS
  <1>2. t \in Seq(Int) /\ Len(t) = 3
    <2>1. 0 \in -99..99
      OBVIOUS
    <2> QED
      BY <1>1, <2>1, TextLength
  <1>3. PICK u : u = <<x, e.eid>>
    OBVIOUS
  <1>4. u \in Seq(Int) /\ Len(u) = 2 /\ u[1] = x /\ u[2] = e.eid
    BY <1>3
  <1>5. PICK b : b = t \o u
    OBVIOUS
  <1>6. Follows(b, t, 3, u, 2)
    <2>1. Follows(t \o u, t, Len(t), u, Len(u))
      BY <1>2, <1>4, JoinedAs
    <2> QED
      BY <1>2, <1>4, <1>5, <2>1, Zenon
  <1>7. b \in Seq(Int) /\ Len(b) = 5 /\ b[4] = x /\ b[5] = e.eid
    <2>1. b[3 + 1] = u[1] /\ b[3 + 2] = u[2]
      BY <1>6 DEF Follows
    <2> QED
      BY <1>4, <1>6, <2>1 DEF Follows
  <1>8. PICK a : a = EvCreateAction(r, x, e, rank)
    OBVIOUS
  <1>9. /\ a.rid = r.rid /\ a.priority = r.priority /\ a.roleRank = rank[r.role]
        /\ a.ts = e.ts /\ a.bind = EvBindKey(r, x, e)
    BY <1>8 DEF EvCreateAction
  <1>10. a.bind = b
    BY <1>1, <1>3, <1>5, <1>9, Zenon DEF EvBindKey
  <1>11. r.rid \in Int /\ r.priority \in Int /\ rank[r.role] \in Int
    BY EvRuleFacts, RuleRole, RanksTyped
  <1>12. PICK k : k = ScheduleKey(a)
    OBVIOUS
  <1>13. /\ k \in Keys(9)
         /\ k[1] = a.roleRank /\ k[2] = a.priority /\ k[3] = a.ts /\ k[4] = a.rid
         /\ \A i \in 1..5 : k[4 + i] = b[i]
    <2>1. a.roleRank \in Int /\ a.priority \in Int /\ a.ts \in Int /\ a.rid \in Int
      BY <1>9, <1>11
    <2>2. a.bind \in Seq(Int) /\ Len(a.bind) = 5 /\ 5 \in Nat
      BY <1>7, <1>10
    <2>3. /\ k \in Keys(4 + 5)
          /\ k[1] = a.roleRank /\ k[2] = a.priority /\ k[3] = a.ts /\ k[4] = a.rid
          /\ \A i \in 1..5 : k[4 + i] = a.bind[i]
      BY <1>12, <2>1, <2>2, KeyParts, Zenon
    <2>4. 4 + 5 = 9
      OBVIOUS
    <2> QED
      BY <1>10, <2>3, <2>4, Zenon
  <1>14. k[4 + 4] = b[4] /\ k[4 + 5] = b[5]
    BY <1>13
  <1>15. EvKeyOf(k, r, x, e, rank)
    BY <1>7, <1>9, <1>13, <1>14 DEF EvKeyOf
  <1> QED
    BY <1>8, <1>12, <1>15

(* A window enables finitely many actions.                                  *)
LEMMA EvEvaluatedFinite ==
    ASSUME NEW g, NEW E, EvEventRecords(E), NEW rank
    PROVE  IsFiniteSet(EvEvaluateRules(g, E, rank))
  <1> DEFINE A(e, r) == {EvCreateAction(r, x, e, rank) : x \in Subjects(g, r, e)}
             B(e) == UNION {A(e, r) : r \in EvRules}
  <1>1. ASSUME NEW e \in E PROVE IsFiniteSet(B(e))
    <2>1. ASSUME NEW r \in EvRules PROVE IsFiniteSet(A(e, r))
      <3> DEFINE f == [x \in Subjects(g, r, e) |-> EvCreateAction(r, x, e, rank)]
      <3>1. A(e, r) = {f[x] : x \in Subjects(g, r, e)}
        OBVIOUS
      <3>2. IsFiniteSet(Subjects(g, r, e))
        BY SubjectsTyped
      <3> HIDE DEF f, A
      <3> QED
        BY <3>1, <3>2, ImageFinite
    <2> HIDE DEF A
    <2>2. IsFiniteSet({A(e, r) : r \in EvRules})
      <3> DEFINE f == [r \in EvRules |-> A(e, r)]
      <3>1. {A(e, r) : r \in EvRules} = {f[r] : r \in EvRules}
        OBVIOUS
      <3>2. IsFiniteSet(EvRules)
        BY EvRuleFacts
      <3> HIDE DEF f, B
      <3> QED
        BY <3>1, <3>2, ImageFinite, Zenon
    <2> QED
      BY <2>1, <2>2, FS_UNION
  <1>2. IsFiniteSet(E)
    BY DEF EvEventRecords
  <1>3. EvEvaluateRules(g, E, rank) = UNION {B(e) : e \in E}
    BY DEF EvEvaluateRules
  <1> HIDE DEF A, B
  <1>4. IsFiniteSet({B(e) : e \in E})
    <2> DEFINE f == [e \in E |-> B(e)]
    <2>1. {B(e) : e \in E} = {f[e] : e \in E}
      OBVIOUS
    <2> HIDE DEF f
    <2> QED
      BY <1>2, <2>1, ImageFinite
  <1> QED
    BY <1>1, <1>3, <1>4, FS_UNION

(* What an evaluated action is made of.                                     *)
LEMMA EvEvaluatedMade ==
    ASSUME NEW g, NEW E, EvEventRecords(E), NEW rank \in Precedences,
           NEW a \in EvEvaluateRules(g, E, rank)
    PROVE  \E r \in EvRules, e \in E : \E x \in Subjects(g, r, e) :
             /\ a = EvCreateAction(r, x, e, rank)
             /\ EvKeyOf(ScheduleKey(a), r, x, e, rank)
  <1>1. PICK r \in EvRules, e \in E : \E x \in Subjects(g, r, e) : EvMade(a, g, rank, r, x, e)
    BY EvEvaluatedIff
  <1>2. PICK x \in Subjects(g, r, e) : a = EvCreateAction(r, x, e, rank)
    BY <1>1 DEF EvMade
  <1>3. x \in Int
    BY SubjectsTyped, ChargingConstants DEF Feeder
  <1>4. e.eid \in Int /\ e.ts \in Int /\ e.arg \in -99..99
    BY DEF EvEventRecords
  <1> QED
    BY <1>2, <1>3, <1>4, EvKeys

(* No two actions of a window share a key.                                  *)
LEMMA EvKeyed ==
    ASSUME NEW g, NEW E, EvEventRecords(E), NEW rank \in Precedences
    PROVE  Keyed(EvEvaluateRules(g, E, rank), 9)
  <1> DEFINE S == EvEvaluateRules(g, E, rank)
  <1>1. \A a \in S : ScheduleKey(a) \in Keys(9)
    BY EvEvaluatedMade DEF EvKeyOf
  <1>2. ASSUME NEW a \in S, NEW b \in S, ScheduleKey(a) = ScheduleKey(b)
        PROVE  a = b
    <2>1. PICK r \in EvRules, e \in E : \E x \in Subjects(g, r, e) :
             /\ a = EvCreateAction(r, x, e, rank)
             /\ EvKeyOf(ScheduleKey(a), r, x, e, rank)
      BY EvEvaluatedMade
    <2>2. PICK x \in Subjects(g, r, e) :
             /\ a = EvCreateAction(r, x, e, rank)
             /\ EvKeyOf(ScheduleKey(a), r, x, e, rank)
      BY <2>1
    <2>3. PICK q \in EvRules, f \in E : \E y \in Subjects(g, q, f) :
             /\ b = EvCreateAction(q, y, f, rank)
             /\ EvKeyOf(ScheduleKey(b), q, y, f, rank)
      BY EvEvaluatedMade
    <2>4. PICK y \in Subjects(g, q, f) :
             /\ b = EvCreateAction(q, y, f, rank)
             /\ EvKeyOf(ScheduleKey(b), q, y, f, rank)
      BY <2>3
    <2>5. PICK k : k = ScheduleKey(a)
      OBVIOUS
    <2>6. EvKeyOf(k, r, x, e, rank) /\ EvKeyOf(k, q, y, f, rank)
      BY <1>2, <2>2, <2>4, <2>5
    <2>7. r.rid = q.rid /\ e.eid = f.eid /\ x = y
      BY <2>6 DEF EvKeyOf
    <2>8. r = q /\ e = f
      BY <2>7, EvRuleFacts DEF EvEventRecords
    <2> QED
      BY <2>2, <2>4, <2>7, <2>8
  <1> QED
    BY <1>1, <1>2 DEF Keyed

(* The schedule of a window is its actions in the order of their keys, and  *)
(* so of their ranks and, where these are equal, of their priorities.       *)
LEMMA EvWindowSchedule ==
    ASSUME NEW g, NEW E, EvEventRecords(E), NEW rank \in Precedences
    PROVE  LET S == EvEvaluateRules(g, E, rank)
               s == ScheduleActions(S) IN
           /\ s \in Seq(S)
           /\ \A a \in S : \E i \in 1..Len(s) : s[i] = a
           /\ \A i, j \in 1..Len(s) : i < j => LexLess(ScheduleKey(s[i]), ScheduleKey(s[j]))
  <1> DEFINE S == EvEvaluateRules(g, E, rank)
  <1>1. \A a \in S : ScheduleKey(a) \in Keys(9)
    BY EvKeyed DEF Keyed
  <1>2. \A a, b \in S : ScheduleKey(a) = ScheduleKey(b) => a = b
    BY EvKeyed DEF Keyed
  <1>3. IsFiniteSet(S) /\ 9 \in Nat
    BY EvEvaluatedFinite
  <1> HIDE DEF S
  <1>4. LET s == ScheduleActions(S) IN
           /\ s \in Seq(S)
           /\ \A a \in S : \E i \in 1..Len(s) : s[i] = a
           /\ \A i, j \in 1..Len(s) : i < j => LexLess(ScheduleKey(s[i]), ScheduleKey(s[j]))
    BY <1>1, <1>2, <1>3, ScheduleIsSorted
  <1> QED
    BY <1>4 DEF S
(* a has the rule, priority, role and target property of one rule.          *)
Is(a, rid, priority, role, property) ==
    a.rid = rid /\ a.priority = priority /\ a.role = role /\ a.slot[2] = property

(* What an action may be.                                                   *)
Kind(a) ==
    \/ Is(a, 1, 1, "driver", "power")
    \/ Is(a, 2, 1, "fleet", "power")
    \/ Is(a, 3, 2, "grid", "power")
    \/ Is(a, 4, 1, "grid", "state") /\ a.value = Curtailed /\ a.slot = <<Feeder, "state">>
    \/ Is(a, 5, 0, "grid", "power") /\ a.value = CurtailedPower
    \/ Is(a, 6, 0, "driver", "connector")
    \/ Is(a, 7, 1, "fleet", "power")
    \/ Is(a, 8, 1, "safety", "connector") /\ a.value = OutOfService
    \/ Is(a, 9, 0, "safety", "power") /\ a.value = 0

(* Every action is one of these, and ranks as its role does.                *)
LEMMA EvKinds ==
    ASSUME NEW g, NEW E, EvEventRecords(E), NEW rank \in Precedences,
           NEW a \in EvEvaluateRules(g, E, rank)
    PROVE  Kind(a) /\ a.roleRank = rank[a.role]
  <1>1. PICK r \in EvRules, e \in E : \E x \in Subjects(g, r, e) :
             a = EvCreateAction(r, x, e, rank)
    BY EvEvaluatedMade
  <1>2. PICK x \in Subjects(g, r, e) : a = EvCreateAction(r, x, e, rank)
    BY <1>1
  <1>3. /\ a.rid = r.rid /\ a.priority = r.priority /\ a.role = r.role
        /\ a.roleRank = rank[r.role] /\ a.slot = <<x, r.slot>>
        /\ a.value = IF r.rid \in {1, 2, 3} THEN e.arg ELSE r.value
    BY <1>2 DEF EvCreateAction
  <1>4. a.slot[2] = r.slot
    BY <1>3
  <1>5. r.rid = 4 => x = Feeder
    BY SubjectsTyped
  <1>6. RuleTable(r)
    BY EvRuleFacts
  <1>7. Kind(a)
    BY <1>3, <1>4, <1>5, <1>6 DEF RuleTable, IsRule, Kind, Is
  <1> QED
    BY <1>3, <1>7

(* a comes no later than b by rank and priority.                            *)
NoLater(a, b) ==
    a.roleRank < b.roleRank \/ (a.roleRank = b.roleRank /\ a.priority <= b.priority)

(* a comes before b by rank and priority.                                   *)
Before(a, b) ==
    a.roleRank < b.roleRank \/ (a.roleRank = b.roleRank /\ a.priority < b.priority)

(* The order of the schedule is that of ranks, and then of priorities.      *)
LEMMA ScheduleRanks ==
    ASSUME NEW g, NEW E, EvEventRecords(E), NEW rank \in Precedences,
           NEW s, s = ScheduleActions(EvEvaluateRules(g, E, rank)),
           NEW i \in 1..Len(s), NEW j \in 1..Len(s)
    PROVE  /\ i < j => NoLater(s[i], s[j])
           /\ Before(s[i], s[j]) => i < j
  <1> DEFINE S == EvEvaluateRules(g, E, rank)
  <1>1. /\ s \in Seq(S)
        /\ \A k, l \in 1..Len(s) : k < l => LexLess(ScheduleKey(s[k]), ScheduleKey(s[l]))
    BY EvWindowSchedule
  <1>2. ASSUME NEW k \in 1..Len(s)
        PROVE  /\ ScheduleKey(s[k]) \in Keys(9)
               /\ ScheduleKey(s[k])[1] = s[k].roleRank
               /\ ScheduleKey(s[k])[2] = s[k].priority
               /\ s[k].roleRank \in Int /\ s[k].priority \in Int
    <2>1. s[k] \in S
      BY <1>1
    <2>2. PICK r \in EvRules, e \in E : \E x \in Subjects(g, r, e) :
             /\ s[k] = EvCreateAction(r, x, e, rank)
             /\ EvKeyOf(ScheduleKey(s[k]), r, x, e, rank)
      BY <2>1, EvEvaluatedMade
    <2>3. s[k].priority = r.priority /\ s[k].roleRank = rank[r.role]
      BY <2>2 DEF EvCreateAction
    <2>4. r.priority \in Int /\ rank[r.role] \in Int
      BY RuleRole, RanksTyped
    <2> QED
      BY <2>2, <2>3, <2>4 DEF EvKeyOf
  <1>3. ASSUME NEW k \in 1..Len(s), NEW l \in 1..Len(s), k < l
        PROVE  NoLater(s[k], s[l])
    <2>1. PICK x, y : x = ScheduleKey(s[k]) /\ y = ScheduleKey(s[l])
      OBVIOUS
    <2>2. LexLess(x, y) /\ x \in Keys(9) /\ y \in Keys(9)
      BY <1>1, <1>2, <1>3, <2>1
    <2>3. PICK n \in 1..9 : x[n] < y[n] /\ \A m \in 1..n - 1 : x[m] = y[m]
      BY <2>2 DEF LexLess, Keys
    <2>4. x[1] < y[1] \/ (x[1] = y[1] /\ x[2] <= y[2])
      <3>1. x[2] \in Int /\ y[2] \in Int
        BY <2>2 DEF Keys
      <3>2. CASE n = 1
        BY <2>3, <3>2
      <3>3. CASE n = 2
        BY <2>3, <3>1, <3>3
      <3>4. CASE n > 2
        BY <2>3, <3>1, <3>4
      <3> QED
        BY <3>2, <3>3, <3>4
    <2> QED
      BY <1>2, <2>1, <2>4 DEF NoLater
  <1>4. ASSUME Before(s[i], s[j]), ~(i < j)
        PROVE  FALSE
    <2>1. CASE i = j
      BY <1>2, <1>4, <2>1 DEF Before
    <2>2. CASE j < i
      BY <1>2, <1>3, <1>4, <2>2 DEF Before, NoLater
    <2> QED
      BY <1>1, <1>4, <2>1, <2>2
  <1> QED
    BY <1>3, <1>4

-----------------------------------------------------------------------------
(* The sum of the powers.                                                   *)

(* f adds the weights w over the subsets of S.                              *)
Adds(w, S, f) ==
    /\ f \in [SUBSET S -> Int]
    /\ f = [s \in SUBSET S |->
              IF s = {} THEN 0
              ELSE w[CHOOSE x \in s : TRUE] + f[s \ {CHOOSE x \in s : TRUE}]]

(* Two sums over a set take the same element of it first.                   *)
LEMMA AddsBoth ==
    ASSUME NEW S, NEW v, NEW w, NEW f, NEW h, Adds(v, S, f), Adds(w, S, h),
           NEW s \in SUBSET S, s # {}
    PROVE  \E x \in s : f[s] = v[x] + f[s \ {x}] /\ h[s] = w[x] + h[s \ {x}]
  <1>1. PICK x : x = CHOOSE y \in s : TRUE
    OBVIOUS
  <1>2. x \in s
    BY <1>1
  <1>3. f[s] = IF s = {} THEN 0
               ELSE v[CHOOSE y \in s : TRUE] + f[s \ {CHOOSE y \in s : TRUE}]
    BY Zenon DEF Adds
  <1>4. h[s] = IF s = {} THEN 0
               ELSE w[CHOOSE y \in s : TRUE] + h[s \ {CHOOSE y \in s : TRUE}]
    BY Zenon DEF Adds
  <1>5. f[s] = v[x] + f[s \ {x}]
    BY <1>1, <1>3, Zenon
  <1>6. h[s] = w[x] + h[s \ {x}]
    BY <1>1, <1>4, Zenon
  <1> QED
    BY <1>2, <1>5, <1>6

(* A finite set of weights can be added.                                    *)
LEMMA SumExists ==
    ASSUME NEW S, IsFiniteSet(S), NEW w \in [S -> Int]
    PROVE  \E f : Adds(w, S, f)
  <1> DEFINE c == [s \in SUBSET S |-> CHOOSE x \in s : TRUE]
             op == [p \in S \X Int |-> w[p[1]] + p[2]]
  <1>1. Picks(c, S)
    BY DEF Picks
  <1>2. op \in [S \X Int -> Int]
    OBVIOUS
  <1>3. 0 \in Int
    OBVIOUS
  <1>4. PICK f \in [SUBSET S -> Int] : IsFold(c, op, 0, f, SUBSET S)
    <2> HIDE DEF c, op
    <2> QED
      BY <1>1, <1>2, <1>3, FoldExists
  <1> DEFINE step(s) == IF s = {} THEN 0
                        ELSE w[CHOOSE x \in s : TRUE] + f[s \ {CHOOSE x \in s : TRUE}]
  <1>5. ASSUME NEW s \in SUBSET S
        PROVE  FoldStep(c, op, 0, f, s) = step(s)
    <2>1. CASE s = {}
      BY <2>1 DEF FoldStep
    <2>2. CASE s # {}
      <3> DEFINE x == CHOOSE y \in s : TRUE
      <3>1. x \in s /\ c[s] = x
        BY <2>2
      <3> HIDE DEF x, c
      <3>2. f[s \ {x}] \in Int
        OBVIOUS
      <3>3. op[<<x, f[s \ {x}]>>] = w[x] + f[s \ {x}]
        BY <3>1, <3>2
      <3> QED
        BY <2>2, <3>1, <3>3 DEF FoldStep, x
    <2> QED
      BY <2>1, <2>2
  <1>6. f = [s \in SUBSET S |-> FoldStep(c, op, 0, f, s)]
    BY <1>4 DEF IsFold
  <1> HIDE DEF c, op, step
  <1>7. f = [s \in SUBSET S |-> step(s)]
    BY <1>5, <1>6
  <1>8. Adds(w, S, f)
    BY <1>4, <1>7, Zenon DEF Adds, step
  <1> QED
    BY <1>8

(* The equation of the sum of the powers, as the definition has it.         *)
SumsPowers(g, f) ==
    f = [s \in SUBSET ChargingPoints |->
            IF s = {} THEN 0
            ELSE SumSet(Power(g, CHOOSE x \in s : TRUE)) + f[s \ {CHOOSE x \in s : TRUE}]]

(* The equation has at most one solution.                                   *)
LEMMA SumUnique ==
    ASSUME NEW g, NEW f, NEW h, SumsPowers(g, f), SumsPowers(g, h)
    PROVE  f = h
  <1> DEFINE S == ChargingPoints
             T == {s \in SUBSET S : f[s] # h[s]}
             N == {Cardinality(s) : s \in T}
  <1>1. ASSUME NEW s \in SUBSET S PROVE IsFiniteSet(s) /\ Cardinality(s) \in Nat
    BY ChargingConstants, FS_Subset, FS_CardinalityType
  <1>2. ASSUME T # {} PROVE FALSE
    <2>1. N # {} /\ N \subseteq Nat
      BY <1>1, <1>2
    <2>2. PICK n \in N : \A m \in N : n <= m
      BY <2>1, FirstOf, Zenon
    <2>3. PICK s \in T : Cardinality(s) = n
      BY <2>2
    <2>4. s # {}
      <3>1. f[{}] = 0 /\ h[{}] = 0
        BY DEF SumsPowers
      <3> QED
        BY <2>3, <3>1
    <2>5. PICK x : x = CHOOSE y \in s : TRUE
      OBVIOUS
    <2>6. x \in s
      BY <2>4, <2>5
    <2>7. s \ {x} \in SUBSET S /\ Cardinality(s \ {x}) < Cardinality(s)
      BY <1>1, <2>3, <2>6, FS_RemoveElement
    <2>8. s \ {x} \notin T
      <3>1. Cardinality(s \ {x}) \in Nat /\ Cardinality(s) \in Nat
        BY <1>1, <2>3, <2>7
      <3> QED
        BY <2>2, <2>3, <2>7, <3>1
    <2>9. f[s \ {x}] = h[s \ {x}]
      BY <2>7, <2>8
    <2>10. /\ f[s] = SumSet(Power(g, x)) + f[s \ {x}]
           /\ h[s] = SumSet(Power(g, x)) + h[s \ {x}]
      <3> HIDE DEF T, N
      <3>1. s \in SUBSET ChargingPoints
        BY <2>3 DEF T
      <3>2. f[s] = SumSet(Power(g, CHOOSE y \in s : TRUE)) + f[s \ {CHOOSE y \in s : TRUE}]
        BY <2>4, <3>1 DEF SumsPowers
      <3>3. h[s] = SumSet(Power(g, CHOOSE y \in s : TRUE)) + h[s \ {CHOOSE y \in s : TRUE}]
        BY <2>4, <3>1 DEF SumsPowers
      <3> QED
        BY <2>5, <3>2, <3>3, Zenon
    <2> QED
      BY <2>3, <2>9, <2>10
  <1>3. \A s \in SUBSET S : f[s] = h[s]
    BY <1>2
  <1> HIDE DEF T, N
  <1>4. f = [s \in SUBSET S |-> f[s]] /\ h = [s \in SUBSET S |-> h[s]]
    BY DEF SumsPowers
  <1> QED
    BY <1>3, <1>4

(* The sum of the powers of a graph adds what each point states.            *)
LEMMA TotalIs ==
    ASSUME NEW g, \A cp \in ChargingPoints : SumSet(Power(g, cp)) \in Int
    PROVE  \E f : /\ Adds([cp \in ChargingPoints |-> SumSet(Power(g, cp))], ChargingPoints, f)
                  /\ TotalPower(g) = f[ChargingPoints]
  <1> DEFINE S == ChargingPoints
             w == [cp \in S |-> SumSet(Power(g, cp))]
             it == CHOOSE f : SumsPowers(g, f)
             first(s) == CHOOSE x \in s : TRUE
             one(h, s) == IF s = {} THEN 0 ELSE w[first(s)] + h[s \ {first(s)}]
             two(h, s) == IF s = {} THEN 0 ELSE SumSet(Power(g, first(s))) + h[s \ {first(s)}]
  <1>1. PICK f : Adds(w, S, f)
    <2>1. w \in [S -> Int]
      OBVIOUS
    <2> HIDE DEF w
    <2> QED
      BY <2>1, ChargingConstants, SumExists
  <1>2. ASSUME NEW h, NEW s \in SUBSET S PROVE one(h, s) = two(h, s)
    <2>1. CASE s = {}
      BY <2>1
    <2>2. CASE s # {}
      <3>1. first(s) \in S
        BY <2>2
      <3> HIDE DEF first
      <3>2. w[first(s)] = SumSet(Power(g, first(s)))
        BY <3>1
      <3> QED
        BY <2>2, <3>2
    <2> QED
      BY <2>1, <2>2
  <1>3. ASSUME NEW h PROVE SumsPowers(g, h) <=> h = [s \in SUBSET S |-> two(h, s)]
    BY DEF SumsPowers
  <1>4. ASSUME NEW h PROVE Adds(w, S, h) <=>
                             h \in [SUBSET S -> Int] /\ h = [s \in SUBSET S |-> one(h, s)]
    BY DEF Adds
  <1>5. TotalPower(g) = it[S]
    <2>1. TotalPower(g) = (CHOOSE h : h = [s \in SUBSET ChargingPoints |->
            IF s = {} THEN 0
            ELSE SumSet(Power(g, CHOOSE x \in s : TRUE))
                   + h[s \ {CHOOSE x \in s : TRUE}]])[ChargingPoints]
      BY DEF TotalPower, MapThenSumSet, MapThenFoldSet
    <2> QED
      BY <2>1, Zenon DEF SumsPowers
  <1>6. SumsPowers(g, f)
    <2> HIDE DEF w, first
    <2>1. f = [s \in SUBSET S |-> one(f, s)]
      BY <1>1, <1>4
    <2> HIDE DEF one, two
    <2>2. f = [s \in SUBSET S |-> two(f, s)]
      BY <1>2, <2>1
    <2> QED
      BY <1>3, <2>2
  <1>7. SumsPowers(g, it)
    BY <1>6, Zenon
  <1>8. it = f
    BY <1>6, <1>7, SumUnique
  <1> QED
    BY <1>1, <1>5, <1>8

(* The sum of one number is that number.                                    *)
LEMMA SumOfOne ==
    ASSUME NEW p \in Int
    PROVE  SumSet({p}) = p
  <1> DEFINE Rec(f) == f = [s \in SUBSET {p} |->
                              IF s = {} THEN 0
                              ELSE (CHOOSE x \in s : TRUE) + f[s \ {CHOOSE x \in s : TRUE}]]
             it == CHOOSE f : Rec(f)
             mine == [s \in SUBSET {p} |-> IF s = {} THEN 0 ELSE p]
  <1>1. SumSet({p}) = it[{p}]
    BY DEF SumSet, FoldSet, MapThenFoldSet
  <1>2. Rec(mine)
    <2>1. ASSUME NEW s \in SUBSET {p}
          PROVE  mine[s] = IF s = {} THEN 0
                           ELSE (CHOOSE x \in s : TRUE) + mine[s \ {CHOOSE x \in s : TRUE}]
      <3>1. CASE s = {}
        BY <3>1
      <3>2. CASE s # {}
        <4>1. s = {p}
          BY <3>2
        <4>2. (CHOOSE x \in s : TRUE) = p
          BY <4>1
        <4>3. mine[s] = p /\ mine[s \ {p}] = 0 /\ p + 0 = p
          BY <4>1
        <4> HIDE DEF mine
        <4> QED
          BY <3>2, <4>2, <4>3, Zenon
      <3> QED
        BY <3>1, <3>2
    <2>2. mine = [s \in SUBSET {p} |-> mine[s]]
      OBVIOUS
    <2> HIDE DEF mine
    <2> QED
      BY <2>1, <2>2
  <1>3. Rec(it)
    BY <1>2, Zenon
  <1> HIDE DEF it, mine
  <1>4. it[{}] = 0 /\ it[{p}] = p + it[{}]
    <2>1. (CHOOSE x \in {p} : TRUE) = p /\ {p} \ {p} = {}
      OBVIOUS
    <2> QED
      BY <1>3, <2>1
  <1> QED
    BY <1>1, <1>4

(* Adding less at every point gives no more in total.                       *)
LEMMA AddsLess ==
    ASSUME NEW S, IsFiniteSet(S), NEW v \in [S -> Int], NEW w \in [S -> Int],
           \A x \in S : v[x] <= w[x],
           NEW f, NEW h, Adds(v, S, f), Adds(w, S, h)
    PROVE  f[S] \in Int /\ h[S] \in Int /\ f[S] <= h[S]
  <1> DEFINE T == {s \in SUBSET S : ~(f[s] <= h[s])}
             N == {Cardinality(s) : s \in T}
  <1>1. ASSUME NEW s \in SUBSET S
        PROVE  IsFiniteSet(s) /\ Cardinality(s) \in Nat /\ f[s] \in Int /\ h[s] \in Int
    BY FS_Subset, FS_CardinalityType DEF Adds
  <1>2. ASSUME T # {} PROVE FALSE
    <2>1. N # {} /\ N \subseteq Nat
      BY <1>1, <1>2
    <2>2. PICK n \in N : \A m \in N : n <= m
      BY <2>1, FirstOf, Zenon
    <2>3. PICK s \in T : Cardinality(s) = n
      BY <2>2
    <2>4. s # {}
      <3>1. f[{}] = 0 /\ h[{}] = 0
        BY DEF Adds
      <3> QED
        BY <2>3, <3>1
    <2>5. s \in SUBSET S
      BY <2>3
    <2>6. PICK x \in s : f[s] = v[x] + f[s \ {x}] /\ h[s] = w[x] + h[s \ {x}]
      BY <2>4, <2>5, AddsBoth
    <2>7. s \ {x} \in SUBSET S /\ Cardinality(s \ {x}) < Cardinality(s)
      BY <1>1, <2>3, <2>6, FS_RemoveElement
    <2>8. f[s \ {x}] <= h[s \ {x}]
      <3>1. Cardinality(s \ {x}) \in Nat /\ Cardinality(s) \in Nat
        BY <1>1, <2>3, <2>7
      <3> QED
        BY <2>2, <2>3, <2>7, <3>1
    <2>9. /\ v[x] \in Int /\ w[x] \in Int /\ v[x] <= w[x]
          /\ f[s \ {x}] \in Int /\ h[s \ {x}] \in Int
      <3>1. x \in S
        BY <2>3, <2>6
      <3> QED
        BY <1>1, <2>7, <3>1
    <2> QED
      BY <2>3, <2>6, <2>8, <2>9
  <1> QED
    BY <1>1, <1>2

(* Each point has one power.                                                *)
OnePower(g) == \A cp \in ChargingPoints : \E p \in Int : Power(g, cp) = {p}

(* No point has more power in h than in g.                                  *)
Lowered(g, h) ==
    \A cp \in ChargingPoints : \A p \in Power(g, cp), q \in Power(h, cp) : q <= p

(* Where no point has more power, the feeder has no more load.              *)
LEMMA TotalFalls ==
    ASSUME NEW g, NEW h, OnePower(g), OnePower(h), Lowered(g, h)
    PROVE  TotalPower(h) <= TotalPower(g) /\ TotalPower(h) \in Int /\ TotalPower(g) \in Int
  <1> DEFINE v == [cp \in ChargingPoints |-> SumSet(Power(h, cp))]
             w == [cp \in ChargingPoints |-> SumSet(Power(g, cp))]
  <1>1. ASSUME NEW cp \in ChargingPoints
        PROVE  SumSet(Power(h, cp)) \in Int /\ SumSet(Power(g, cp)) \in Int
               /\ SumSet(Power(h, cp)) <= SumSet(Power(g, cp))
    <2>1. PICK p \in Int : Power(g, cp) = {p}
      BY DEF OnePower
    <2>2. PICK q \in Int : Power(h, cp) = {q}
      BY DEF OnePower
    <2>3. SumSet(Power(g, cp)) = p /\ SumSet(Power(h, cp)) = q
      BY <2>1, <2>2, SumOfOne
    <2>4. q <= p
      BY <2>1, <2>2 DEF Lowered
    <2> QED
      BY <2>3, <2>4
  <1>2. /\ v \in [ChargingPoints -> Int] /\ w \in [ChargingPoints -> Int]
        /\ \A x \in ChargingPoints : v[x] <= w[x]
    BY <1>1
  <1>3. PICK f : Adds(v, ChargingPoints, f) /\ TotalPower(h) = f[ChargingPoints]
    BY <1>1, TotalIs
  <1>4. PICK e : Adds(w, ChargingPoints, e) /\ TotalPower(g) = e[ChargingPoints]
    BY <1>1, TotalIs
  <1> HIDE DEF v, w
  <1>5. LET S == ChargingPoints IN f[S] \in Int /\ e[S] \in Int /\ f[S] <= e[S]
    BY <1>2, <1>3, <1>4, ChargingConstants, AddsLess, Zenon
  <1> QED
    BY <1>3, <1>4, <1>5

-----------------------------------------------------------------------------
(* What keeps a graph admissible.                                           *)

(* The shapes ask for one power a point.                                    *)
LEMMA AdmissibleOnePower ==
    ASSUME NEW g, EvAdmissible(g)
    PROVE  /\ OnePower(g)
           /\ \A cp \in ChargingPoints : \E p \in 0..22 : Power(g, cp) = {p}
  <1> SUFFICES ASSUME NEW cp \in ChargingPoints
               PROVE  \E p \in 0..22 : Power(g, cp) = {p}
    BY DEF OnePower
  <1>1. Cardinality(Power(g, cp)) = 1 /\ Power(g, cp) \subseteq 0..22
    BY DEF EvAdmissible, ChargingPowerShape, MaxPower
  <1>2. IsFiniteSet(Power(g, cp))
    <2>1. 0 \in Int /\ 22 \in Int
      OBVIOUS
    <2>2. IsFiniteSet(0..22)
      BY <2>1, FS_Interval, Zenon
    <2> QED
      BY <1>1, <2>2, FS_Subset
  <1>3. PICK p : Power(g, cp) = {p}
    BY <1>1, <1>2, FS_Singleton
  <1> QED
    BY <1>1, <1>3

(* A point may always draw less.                                            *)
LEMMA LowerKeepsAdmissible ==
    ASSUME NEW g, DOMAIN g = EvSlots, EvAdmissible(g), NEW cp \in ChargingPoints,
           NEW p, Power(g, cp) = {p}, NEW v \in 0..p
    PROVE  EvAdmissible([g EXCEPT ![<<cp, "power">>] = {v}])
  <1> DEFINE h == [g EXCEPT ![<<cp, "power">>] = {v}]
  <1>1. ASSUME NEW x \in ChargingPoints
        PROVE  /\ Power(h, x) = IF x = cp THEN {v} ELSE Power(g, x)
               /\ Connector(h, x) = Connector(g, x)
    BY DEF Power, Connector, EvSlots
  <1>2. FeederState(h) = FeederState(g)
    BY DEF FeederState, EvSlots
  <1> HIDE DEF h
  <1>3. p \in 0..22 /\ v \in 0..22
    <2>1. p \in 0..22
      BY DEF EvAdmissible, ChargingPowerShape, MaxPower
    <2> QED
      BY <2>1
  <1>4. Cardinality({v}) = 1
    BY FS_Singleton
  <1>5. ASSUME NEW x \in ChargingPoints
        PROVE  ChargingPowerShape(h, x) /\ ConnectorStateShape(h, x)
               /\ ConnectorPowerCoherenceShape(h, x)
    <2>1. ChargingPowerShape(h, x)
      BY <1>1, <1>3, <1>4 DEF EvAdmissible, ChargingPowerShape, MaxPower
    <2>2. ConnectorStateShape(h, x)
      BY <1>1 DEF EvAdmissible, ConnectorStateShape
    <2>3. CASE x = cp
      <3>1. \A c \in Connector(g, cp) : (c = OutOfService => p = 0)
                                         /\ (p > 0 => c \in {Plugged, Charging})
        BY DEF EvAdmissible, ConnectorPowerCoherenceShape
      <3> QED
        BY <1>1, <1>3, <2>1, <2>2, <2>3, <3>1 DEF ConnectorPowerCoherenceShape
    <2>4. CASE x # cp
      BY <1>1, <2>1, <2>2, <2>4 DEF EvAdmissible, ConnectorPowerCoherenceShape
    <2> QED
      BY <2>1, <2>2, <2>3, <2>4
  <1>6. FeederStateShape(h)
    BY <1>2 DEF EvAdmissible, FeederStateShape
  <1>7. FeederBudgetShape(h)
    <2>1. OnePower(g)
      BY AdmissibleOnePower
    <2>2. OnePower(h)
      BY <1>1, <1>3, <2>1 DEF OnePower
    <2>3. Lowered(g, h)
      <3> SUFFICES ASSUME NEW x \in ChargingPoints, NEW a \in Power(g, x), NEW b \in Power(h, x)
                   PROVE  b <= a
        BY DEF Lowered
      <3>1. a \in Int
        BY <2>1 DEF OnePower
      <3>2. CASE x = cp
        BY <1>1, <1>3, <3>2
      <3>3. CASE x # cp
        <4>1. b = a
          BY <1>1, <2>1, <3>3 DEF OnePower
        <4> QED
          BY <3>1, <4>1
      <3> QED
        BY <3>2, <3>3
    <2>4. TotalPower(g) <= 50
      BY DEF EvAdmissible, FeederBudgetShape, FeederBudget
    <2> QED
      BY <2>1, <2>2, <2>3, <2>4, TotalFalls DEF FeederBudgetShape, FeederBudget
  <1>8. CurtailmentConsistencyShape(h)
    <2> SUFFICES ASSUME Curtailed \in FeederState(g), NEW x \in ChargingPoints,
                        NEW q \in Power(h, x)
                 PROVE  q <= 5
      BY <1>2 DEF CurtailmentConsistencyShape, CurtailedPower
    <2>1. \A a \in Power(g, x) : a <= 5
      BY DEF EvAdmissible, CurtailmentConsistencyShape, CurtailedPower
    <2>2. CASE x = cp
      BY <1>1, <1>3, <2>1, <2>2
    <2>3. CASE x # cp
      BY <1>1, <2>1, <2>3
    <2> QED
      BY <2>2, <2>3
  <1> QED
    BY <1>5, <1>6, <1>7, <1>8 DEF EvAdmissible, h

(* Where no power changes, neither does the load of the feeder.             *)
LEMMA SameBudget ==
    ASSUME NEW g, NEW h, EvAdmissible(g),
           \A cp \in ChargingPoints : Power(h, cp) = Power(g, cp)
    PROVE  FeederBudgetShape(h)
  <1>1. OnePower(g)
    BY AdmissibleOnePower
  <1>2. OnePower(h) /\ Lowered(g, h)
    BY <1>1 DEF OnePower, Lowered
  <1>3. TotalPower(g) <= 50
    BY DEF EvAdmissible, FeederBudgetShape, FeederBudget
  <1> QED
    BY <1>1, <1>2, <1>3, TotalFalls DEF FeederBudgetShape, FeederBudget

(* A point that draws nothing may be taken out of service.                  *)
LEMMA OutOfServiceKeepsAdmissible ==
    ASSUME NEW g, DOMAIN g = EvSlots, EvAdmissible(g), NEW cp \in ChargingPoints,
           Power(g, cp) = {0}
    PROVE  EvAdmissible([g EXCEPT ![<<cp, "connector">>] = {OutOfService}])
  <1> DEFINE h == [g EXCEPT ![<<cp, "connector">>] = {OutOfService}]
  <1>1. ASSUME NEW x \in ChargingPoints
        PROVE  /\ Connector(h, x) = IF x = cp THEN {OutOfService} ELSE Connector(g, x)
               /\ Power(h, x) = Power(g, x)
    BY DEF Power, Connector, EvSlots
  <1>2. FeederState(h) = FeederState(g)
    BY DEF FeederState, EvSlots
  <1> HIDE DEF h
  <1>3. Cardinality({OutOfService}) = 1
    BY FS_Singleton
  <1>4. ASSUME NEW x \in ChargingPoints
        PROVE  ChargingPowerShape(h, x) /\ ConnectorStateShape(h, x)
               /\ ConnectorPowerCoherenceShape(h, x)
    <2>1. ChargingPowerShape(h, x)
      BY <1>1 DEF EvAdmissible, ChargingPowerShape
    <2>2. ConnectorStateShape(h, x)
      BY <1>1, <1>3 DEF EvAdmissible, ConnectorStateShape
    <2>3. ConnectorPowerCoherenceShape(h, x)
      BY <1>1 DEF EvAdmissible, ConnectorPowerCoherenceShape
    <2> QED
      BY <2>1, <2>2, <2>3
  <1>5. FeederStateShape(h)
    BY <1>2 DEF EvAdmissible, FeederStateShape
  <1>6. FeederBudgetShape(h)
    BY <1>1, SameBudget
  <1>7. CurtailmentConsistencyShape(h)
    BY <1>1, <1>2 DEF EvAdmissible, CurtailmentConsistencyShape
  <1> QED
    BY <1>4, <1>5, <1>6, <1>7 DEF EvAdmissible, h

(* With every point at 5 kW or less the feeder may be curtailed.            *)
LEMMA CurtailKeepsAdmissible ==
    ASSUME NEW g, DOMAIN g = EvSlots, EvAdmissible(g),
           \A cp \in ChargingPoints : \A p \in Power(g, cp) : p <= CurtailedPower
    PROVE  EvAdmissible([g EXCEPT ![<<Feeder, "state">>] = {Curtailed}])
  <1> DEFINE h == [g EXCEPT ![<<Feeder, "state">>] = {Curtailed}]
  <1>1. ASSUME NEW x \in ChargingPoints
        PROVE  Connector(h, x) = Connector(g, x) /\ Power(h, x) = Power(g, x)
    BY DEF Power, Connector, EvSlots
  <1>2. FeederState(h) = {Curtailed}
    BY DEF FeederState, EvSlots
  <1> HIDE DEF h
  <1>3. Cardinality({Curtailed}) = 1
    BY FS_Singleton
  <1>4. ASSUME NEW x \in ChargingPoints
        PROVE  ChargingPowerShape(h, x) /\ ConnectorStateShape(h, x)
               /\ ConnectorPowerCoherenceShape(h, x)
    BY <1>1 DEF EvAdmissible, ChargingPowerShape, ConnectorStateShape,
                ConnectorPowerCoherenceShape
  <1>5. FeederStateShape(h)
    BY <1>2, <1>3 DEF FeederStateShape
  <1>6. FeederBudgetShape(h)
    BY <1>1, SameBudget
  <1>7. CurtailmentConsistencyShape(h)
    BY <1>1, <1>2 DEF CurtailmentConsistencyShape
  <1> QED
    BY <1>4, <1>5, <1>6, <1>7 DEF EvAdmissible, h

-----------------------------------------------------------------------------
(* The resolution of a window.                                              *)

(* The charging cluster as an instance of the resolver.                     *)
ChargingProfile ==
    /\ Slots = EvSlots
    /\ Inputs = EvInputs
    /\ \A g : Admissible(g) <=> EvAdmissible(g)
    /\ \A g, a : PolicyOK(g, a) <=> EvPolicyOK(g, a)

(* A resolution of the window's schedule, with every verdict justified and  *)
(* every state on the way admissible.                                       *)
ResolvedRequest(in, K, E, rank) ==
    /\ EvAdmissible(in.graph) /\ DOMAIN in.graph = EvSlots
    /\ {"safety", "grid"} \subseteq in.active
    /\ EvEventRecords(E) /\ rank \in Precedences
    /\ in.schedule = ScheduleActions(EvEvaluateRules(in.graph, E, rank))
    /\ K \subseteq 1..Len(in.schedule)
    /\ \A k \in 1..Len(in.schedule) :
         /\ in.schedule[k].slot \in EvSlots
         /\ JustifiedBy(in, K, k) /\ EvAdmissible(OverlayOf(in, Earlier(K, k)))

(* The actions on the schedule are those the window enables.                *)
LEMMA Scheduled ==
    ASSUME NEW in, NEW K, NEW E, NEW rank, ResolvedRequest(in, K, E, rank)
    PROVE  LET S == EvEvaluateRules(in.graph, E, rank) IN
           /\ \A k \in 1..Len(in.schedule) : in.schedule[k] \in S
           /\ \A a \in S : \E i \in 1..Len(in.schedule) : in.schedule[i] = a
           /\ \A i, j \in 1..Len(in.schedule) :
                Before(in.schedule[i], in.schedule[j]) => i < j
           /\ \A i, j \in 1..Len(in.schedule) :
                i < j => NoLater(in.schedule[i], in.schedule[j])
  <1>1. PICK s, S : s = in.schedule /\ S = EvEvaluateRules(in.graph, E, rank)
    OBVIOUS
  <1>2. /\ EvEventRecords(E) /\ rank \in Precedences
        /\ s = ScheduleActions(EvEvaluateRules(in.graph, E, rank))
    BY <1>1 DEF ResolvedRequest
  <1>3. s \in Seq(S) /\ \A a \in S : \E i \in 1..Len(s) : s[i] = a
    BY <1>1, <1>2, EvWindowSchedule
  <1>4. \A i, j \in 1..Len(s) : (Before(s[i], s[j]) => i < j) /\ (i < j => NoLater(s[i], s[j]))
    BY <1>2, ScheduleRanks
  <1> QED
    BY <1>1, <1>3, <1>4

(* Some accepted action before k has slot x.                                *)
Written(in, K, k, x) == \E j \in K : j < k /\ in.schedule[j].slot = x

(* How the action k stands to the state g before it: it is accepted when    *)
(* its gates are open there, and what was not written is as in the input.   *)
StandsAt(in, K, rank, k, a, g) ==
    /\ Kind(a) /\ a.roleRank = rank[a.role] /\ a.slot \in EvSlots
    /\ EvAdmissible(g) /\ DOMAIN g = EvSlots
    /\ k \in K <=> /\ a.role \in in.active
                   /\ EvPolicyOK(g, a)
                   /\ ~Written(in, K, k, a.slot)
                   /\ EvAdmissible([g EXCEPT ![a.slot] = {a.value}])
    /\ \A x \in EvSlots : ~Written(in, K, k, x) => g[x] = in.graph[x]
    /\ \A x \in EvSlots : Written(in, K, k, x) =>
         \A v \in g[x] : \E j \in K : /\ j < k /\ in.schedule[j].slot = x
                                     /\ in.schedule[j].value = v

(* Every action of a resolution stands so.                                  *)
LEMMA ResolvedAt ==
    ASSUME ChargingProfile, NEW in, NEW K, NEW E, NEW rank, ResolvedRequest(in, K, E, rank),
           NEW k \in 1..Len(in.schedule)
    PROVE  StandsAt(in, K, rank, k, in.schedule[k], OverlayOf(in, Earlier(K, k)))
  <1>1. PICK a, g : a = in.schedule[k] /\ g = OverlayOf(in, Earlier(K, k))
    OBVIOUS
  <1>2. a \in EvEvaluateRules(in.graph, E, rank)
    BY <1>1, Scheduled
  <1>3. EvEventRecords(E) /\ rank \in Precedences
    BY DEF ResolvedRequest
  <1>4. Kind(a) /\ a.roleRank = rank[a.role]
    BY <1>2, <1>3, EvKinds
  <1>5. a.slot \in EvSlots /\ EvAdmissible(g) /\ JustifiedBy(in, K, k)
    BY <1>1 DEF ResolvedRequest
  <1>6. /\ DOMAIN g = EvSlots
        /\ \A x \in EvSlots : g[x] =
              IF \E j \in Earlier(K, k) : in.schedule[j].slot = x
              THEN {in.schedule[j].value : j \in {j \in Earlier(K, k) : in.schedule[j].slot = x}}
              ELSE in.graph[x]
    BY <1>1 DEF OverlayOf, ChargingProfile
  <1>7. k \in K <=> Gates(in, Earlier(K, k), g, a)
    BY <1>1, <1>5 DEF JustifiedBy
  <1>8. Apply(g, a) = [g EXCEPT ![a.slot] = {a.value}]
    BY DEF Apply
  <1>9. k \in K <=> /\ a.role \in in.active
                   /\ EvPolicyOK(g, a)
                   /\ ~Written(in, K, k, a.slot)
                   /\ EvAdmissible([g EXCEPT ![a.slot] = {a.value}])
    BY <1>7, <1>8 DEF Gates, Earlier, Written, ChargingProfile
  <1>10. \A x \in EvSlots : ~Written(in, K, k, x) => g[x] = in.graph[x]
    BY <1>6 DEF Earlier, Written
  <1>11. ASSUME NEW x \in EvSlots, Written(in, K, k, x), NEW v \in g[x]
         PROVE  \E j \in K : /\ j < k /\ in.schedule[j].slot = x
                             /\ in.schedule[j].value = v
    BY <1>6, <1>11 DEF Earlier, Written
  <1>12. StandsAt(in, K, rank, k, a, g)
    BY <1>4, <1>5, <1>6, <1>9, <1>10, <1>11 DEF StandsAt
  <1> QED
    BY <1>1, <1>12

(* Every action on the schedule is of its kind.                             *)
LEMMA KindAt ==
    ASSUME NEW in, NEW K, NEW E, NEW rank, ResolvedRequest(in, K, E, rank),
           NEW k \in 1..Len(in.schedule)
    PROVE  Kind(in.schedule[k]) /\ in.schedule[k].roleRank = rank[in.schedule[k].role]
  <1>1. EvEventRecords(E) /\ rank \in Precedences
    BY DEF ResolvedRequest
  <1>2. in.schedule[k] \in EvEvaluateRules(in.graph, E, rank)
    BY Scheduled
  <1> QED
    BY <1>1, <1>2, EvKinds

(* Some action on the schedule is of the rule and has the target.           *)
OnSchedule(in, rid, slot) ==
    \E i \in 1..Len(in.schedule) : in.schedule[i].rid = rid /\ in.schedule[i].slot = slot

(* The action a rule enables is on the schedule.                            *)
LEMMA EnabledIsScheduled ==
    ASSUME NEW in, NEW K, NEW E, NEW rank, ResolvedRequest(in, K, E, rank),
           NEW r \in EvRules, NEW e \in E, NEW x \in Subjects(in.graph, r, e)
    PROVE  OnSchedule(in, r.rid, <<x, r.slot>>)
  <1>1. PICK a : a = EvCreateAction(r, x, e, rank)
    OBVIOUS
  <1>2. a \in EvEvaluateRules(in.graph, E, rank)
    BY <1>1, EvEvaluatedIff DEF EvMade
  <1>3. PICK i \in 1..Len(in.schedule) : in.schedule[i] = a
    BY <1>2, Scheduled
  <1>4. a.rid = r.rid /\ a.slot = <<x, r.slot>>
    BY <1>1 DEF EvCreateAction
  <1> QED
    BY <1>3, <1>4 DEF OnSchedule

(* A safety action ranks before all others, and sets a power to zero or     *)
(* takes its point out of service.                                          *)
LEMMA SafetyFirst ==
    ASSUME NEW rank \in Precedences, NEW a, Kind(a), a.roleRank = rank[a.role],
           NEW b, Kind(b), b.roleRank = rank[b.role], b.role = "safety", NoLater(a, b)
    PROVE  /\ a.role = "safety"
           /\ a.slot[2] = "power" => a.rid = 9 /\ a.value = 0
           /\ a.slot[2] = "connector" => a.rid = 8 /\ a.value = OutOfService
  <1>1. b.roleRank = 0
    BY RanksTyped
  <1>2. a.role \in {"safety", "grid", "fleet", "driver"} /\ a.roleRank <= 0
    <2>1. a.role \in {"safety", "grid", "fleet", "driver"}
      BY DEF Kind, Is
    <2>2. a.roleRank \in Int
      BY <2>1, RanksTyped
    <2> QED
      BY <1>1, <2>1, <2>2 DEF NoLater
  <1>3. a.role = "safety"
    BY <1>2, RanksTyped
  <1> QED
    BY <1>3 DEF Kind, Is

(* A point whose power is lowered by an action on the schedule, before      *)
(* which nothing has written it, has it lowered.                            *)
LEMMA LoweringAccepted ==
    ASSUME ChargingProfile, NEW in, NEW K, NEW E, NEW rank, ResolvedRequest(in, K, E, rank),
           NEW cp \in ChargingPoints, NEW m \in 1..Len(in.schedule),
           in.schedule[m].slot = <<cp, "power">>,
           \/ in.schedule[m].rid = 9
           \/ in.schedule[m].rid = 5 /\ \E p \in Power(in.graph, cp) : p > 5,
           ~Written(in, K, m, <<cp, "power">>)
    PROVE  m \in K
  <1>1. PICK a, g : a = in.schedule[m] /\ StandsAt(in, K, rank, m, a, g)
    BY ResolvedAt
  <1>2. <<cp, "power">> \in EvSlots
    BY DEF EvSlots
  <1>3. g[<<cp, "power">>] = in.graph[<<cp, "power">>]
    BY <1>1, <1>2 DEF StandsAt
  <1>4. PICK p \in 0..22 : Power(g, cp) = {p}
    BY <1>1, AdmissibleOnePower DEF StandsAt
  <1>5. Power(in.graph, cp) = {p}
    BY <1>3, <1>4 DEF Power
  <1>6. a.slot[2] = "power" /\ a.value \in 0..p /\ a.value <= 5
        /\ ((a.role = "safety" /\ a.value = 0) \/ a.role = "grid")
    <2>1. CASE a.rid = 9
      BY <1>1, <1>4, <2>1 DEF StandsAt, Kind, Is
    <2>2. CASE a.rid = 5 /\ p > 5
      BY <1>1, <1>4, <2>2 DEF StandsAt, Kind, Is, CurtailedPower
    <2> QED
      BY <1>1, <1>5, <2>1, <2>2
  <1>7. EvPolicyOK(g, a)
    BY <1>4, <1>6 DEF EvPolicyOK, MinPower, RoleMaxPower
  <1>8. EvAdmissible([g EXCEPT ![a.slot] = {a.value}])
    <2>1. EvAdmissible(g) /\ DOMAIN g = EvSlots
      BY <1>1 DEF StandsAt
    <2>2. PICK v \in 0..p : v = a.value
      BY <1>6
    <2>3. EvAdmissible([g EXCEPT ![<<cp, "power">>] = {v}])
      BY <1>4, <2>1, LowerKeepsAdmissible
    <2>4. a.slot = <<cp, "power">>
      BY <1>1
    <2> QED
      BY <2>2, <2>3, <2>4
  <1>9. a.role \in in.active
    BY <1>6 DEF ResolvedRequest
  <1> QED
    BY <1>1, <1>7, <1>8, <1>9 DEF StandsAt

(* Where a fault takes its point out of service, the point draws nothing.   *)
LEMMA FaultLowers ==
    ASSUME ChargingProfile, NEW in, NEW K, NEW E, NEW rank, ResolvedRequest(in, K, E, rank),
           NEW e \in E, e.type = "FaultDetected",
           NEW i \in 1..Len(in.schedule), in.schedule[i].rid = 8,
           NEW g, StandsAt(in, K, rank, i, in.schedule[i], g)
    PROVE  Power(g, e.cp) = {0}
  <1> DEFINE P == <<e.cp, "power">>
             s == in.schedule
  <1>1. e.cp \in ChargingPoints
    BY DEF ResolvedRequest, EvEventRecords
  <1>2. P \in EvSlots /\ rank \in Precedences
    BY <1>1 DEF EvSlots, ResolvedRequest
  <1>3. Kind(s[i]) /\ s[i].roleRank = rank[s[i].role] /\ EvAdmissible(g)
    BY DEF StandsAt
  <1>4. s[i].role = "safety" /\ s[i].priority = 1
    BY <1>3 DEF Kind, Is
  <1>5. PICK p \in 0..22 : Power(g, e.cp) = {p}
    BY <1>1, <1>3, AdmissibleOnePower
  <1>6. CASE Written(in, K, i, P)
    <2>1. p \in g[P]
      BY <1>5 DEF Power
    <2>2. PICK j \in K : j < i /\ s[j].slot = P /\ s[j].value = p
      BY <1>2, <1>6, <2>1 DEF StandsAt
    <2>3. j \in 1..Len(s)
      BY DEF ResolvedRequest
    <2>4. NoLater(s[j], s[i])
      BY <2>2, <2>3, Scheduled
    <2>5. Kind(s[j]) /\ s[j].roleRank = rank[s[j].role]
      BY <2>3, KindAt
    <2>6. s[j].slot[2] = "power"
      BY <2>2
    <2>7. s[j].value = 0
      BY <1>2, <1>3, <1>4, <2>4, <2>5, <2>6, SafetyFirst
    <2> QED
      BY <1>5, <2>2, <2>7
  <1>7. CASE ~Written(in, K, i, P)
    <2> SUFFICES ASSUME p > 0 PROVE FALSE
      BY <1>5
    <2>1. Power(in.graph, e.cp) = {p}
      BY <1>2, <1>5, <1>7 DEF StandsAt, Power
    <2>2. PICK r \in EvRules : r.rid = 9
      BY EvRuleFacts
    <2>3. r.type = "FaultDetected" /\ r.slot = "power"
      BY <2>2, EvRuleFacts DEF RuleTable, IsRule
    <2>4. e.cp \in Subjects(in.graph, r, e)
      BY <2>1, <2>2, <2>3 DEF Subjects
    <2>5. PICK m \in 1..Len(s) : s[m].rid = 9 /\ s[m].slot = P
      <3>1. OnSchedule(in, r.rid, <<e.cp, r.slot>>)
        BY <2>4, EnabledIsScheduled, Zenon
      <3> QED
        BY <2>2, <2>3, <3>1 DEF OnSchedule
    <2>6. Kind(s[m]) /\ s[m].roleRank = rank[s[m].role]
      BY KindAt
    <2>7. s[m].role = "safety" /\ s[m].priority = 0
      BY <2>5, <2>6 DEF Kind, Is
    <2>8. Before(s[m], s[i])
      BY <1>3, <1>4, <2>6, <2>7 DEF Before
    <2>9. m < i
      BY <2>8, Scheduled
    <2>10. ~Written(in, K, m, P)
      BY <1>7, <2>9 DEF Written, ResolvedRequest
    <2>11. m \in K
      BY <1>1, <2>5, <2>10, LoweringAccepted
    <2> QED
      BY <1>7, <2>5, <2>9, <2>11 DEF Written
  <1> QED
    BY <1>6, <1>7

(* Some accepted action has the slot and writes the value.                  *)
Takes(in, K, slot, value) ==
    \E k \in K : in.schedule[k].slot = slot /\ in.schedule[k].value = value

(* A fault takes its point out of service.                                  *)
LEMMA FaultTakes ==
    ASSUME ChargingProfile, NEW in, NEW K, NEW E, NEW rank, ResolvedRequest(in, K, E, rank),
           NEW e \in E, e.type = "FaultDetected"
    PROVE  Takes(in, K, <<e.cp, "connector">>, OutOfService)
  <1> DEFINE C == <<e.cp, "connector">>
             s == in.schedule
  <1>1. e.cp \in ChargingPoints
    BY DEF ResolvedRequest, EvEventRecords
  <1>2. C \in EvSlots /\ rank \in Precedences
    BY <1>1 DEF EvSlots, ResolvedRequest
  <1>3. PICK r \in EvRules : r.rid = 8
    BY EvRuleFacts
  <1>4. r.type = "FaultDetected" /\ r.slot = "connector"
    BY <1>3, EvRuleFacts DEF RuleTable, IsRule
  <1>5. e.cp \in Subjects(in.graph, r, e)
    <2>1. in.graph[C] # {}
      <3>1. Cardinality(Connector(in.graph, e.cp)) = 1
        BY <1>1 DEF ResolvedRequest, EvAdmissible, ConnectorStateShape
      <3> QED
        BY <3>1, FS_EmptySet DEF Connector
    <2> QED
      BY <1>3, <1>4, <2>1 DEF Subjects
  <1>6. PICK i \in 1..Len(s) : s[i].rid = 8 /\ s[i].slot = C
    <2>1. OnSchedule(in, r.rid, <<e.cp, r.slot>>)
      BY <1>5, EnabledIsScheduled, Zenon
    <2> QED
      BY <1>3, <1>4, <2>1 DEF OnSchedule
  <1>7. PICK g : StandsAt(in, K, rank, i, s[i], g)
    BY ResolvedAt
  <1>8. Kind(s[i]) /\ s[i].roleRank = rank[s[i].role] /\ EvAdmissible(g) /\ DOMAIN g = EvSlots
    BY <1>7 DEF StandsAt
  <1>9. s[i].role = "safety" /\ s[i].value = OutOfService
    BY <1>6, <1>8 DEF Kind, Is
  <1>10. Power(g, e.cp) = {0}
    BY <1>6, <1>7, FaultLowers
  <1>11. EvAdmissible([g EXCEPT ![s[i].slot] = {s[i].value}])
    BY <1>1, <1>6, <1>8, <1>9, <1>10, OutOfServiceKeepsAdmissible
  <1>12. EvPolicyOK(g, s[i])
    BY <1>6 DEF EvPolicyOK
  <1>13. s[i].role \in in.active
    BY <1>9 DEF ResolvedRequest
  <1>14. i \in K \/ Written(in, K, i, C)
    BY <1>6, <1>7, <1>11, <1>12, <1>13 DEF StandsAt
  <1>15. CASE Written(in, K, i, C)
    <2>1. PICK j \in K : j < i /\ s[j].slot = C
      BY <1>15 DEF Written
    <2>2. j \in 1..Len(s)
      BY DEF ResolvedRequest
    <2>3. NoLater(s[j], s[i])
      BY <2>1, <2>2, Scheduled
    <2>4. Kind(s[j]) /\ s[j].roleRank = rank[s[j].role]
      BY <2>2, KindAt
    <2>5. s[j].slot[2] = "connector"
      BY <2>1
    <2>6. s[j].value = OutOfService
      BY <1>2, <1>8, <1>9, <2>3, <2>4, <2>5, SafetyFirst
    <2> QED
      BY <2>1, <2>6 DEF Takes
  <1> QED
    BY <1>6, <1>9, <1>14, <1>15 DEF Takes

(* A fleet action above 5 kW goes before the grid.                          *)
FleetInTheWay(in, K, rank) ==
    /\ rank = FleetOverGrid
    /\ \E k \in K : in.schedule[k].role = "fleet" /\ in.schedule[k].value > CurtailedPower

(* Before the feeder's curtailment only such a fleet action sets a power    *)
(* above 5 kW.                                                              *)
LEMMA BeforeCurtailment ==
    ASSUME NEW rank \in Precedences, NEW a, Kind(a), a.roleRank = rank[a.role],
           NEW b, Kind(b), b.roleRank = rank[b.role], b.rid = 4, NoLater(a, b),
           a.slot[2] = "power"
    PROVE  \/ a.value \in {0, CurtailedPower}
           \/ rank = FleetOverGrid /\ a.role = "fleet"
  <1>1. b.role = "grid" /\ b.priority = 1
    BY DEF Kind, Is
  <1>2. \/ rank["grid"] = 1 /\ rank["fleet"] = 2
        \/ rank["grid"] = 2 /\ rank["fleet"] = 1 /\ rank = FleetOverGrid
    BY DEF Precedences, ROLE_RANK, FleetOverGrid
  <1>3. rank["driver"] = 3
    BY RanksTyped
  <1>4. CASE a.role = "driver"
    BY <1>1, <1>2, <1>3, <1>4 DEF NoLater
  <1>5. CASE a.role = "fleet"
    BY <1>1, <1>2, <1>5 DEF NoLater
  <1>6. CASE a.role = "safety"
    BY <1>6 DEF Kind, Is
  <1>7. CASE a.role = "grid"
    <2>1. a.roleRank = b.roleRank /\ a.roleRank \in Int
      BY <1>1, <1>2, <1>7
    <2>2. a.priority <= 1
      BY <1>1, <2>1 DEF NoLater
    <2> QED
      BY <1>7, <2>2 DEF Kind, Is
  <1> QED
    BY <1>4, <1>5, <1>6, <1>7 DEF Kind, Is

(* Where the feeder's curtailment stands, every point is at 5 kW or less.   *)
LEMMA EmergencyLowers ==
    ASSUME ChargingProfile, NEW in, NEW K, NEW E, NEW rank, ResolvedRequest(in, K, E, rank),
           ~FleetInTheWay(in, K, rank), NEW e \in E, e.type = "GridEmergency",
           NEW i \in 1..Len(in.schedule), in.schedule[i].rid = 4,
           NEW g, StandsAt(in, K, rank, i, in.schedule[i], g), NEW cp \in ChargingPoints
    PROVE  \A p \in Power(g, cp) : p <= CurtailedPower
  <1> DEFINE P == <<cp, "power">>
             s == in.schedule
  <1>1. P \in EvSlots /\ rank \in Precedences
    BY DEF EvSlots, ResolvedRequest
  <1>2. Kind(s[i]) /\ s[i].roleRank = rank[s[i].role] /\ EvAdmissible(g)
    BY DEF StandsAt
  <1>3. s[i].role = "grid" /\ s[i].priority = 1
    BY <1>2 DEF Kind, Is
  <1>4. PICK p \in 0..22 : Power(g, cp) = {p}
    BY <1>2, AdmissibleOnePower
  <1>5. CASE Written(in, K, i, P)
    <2>1. p \in g[P]
      BY <1>4 DEF Power
    <2>2. PICK j \in K : j < i /\ s[j].slot = P /\ s[j].value = p
      BY <1>1, <1>5, <2>1 DEF StandsAt
    <2>3. j \in 1..Len(s)
      BY DEF ResolvedRequest
    <2>4. NoLater(s[j], s[i])
      BY <2>2, <2>3, Scheduled
    <2>5. Kind(s[j]) /\ s[j].roleRank = rank[s[j].role]
      BY <2>3, KindAt
    <2>6. s[j].slot[2] = "power"
      BY <2>2
    <2>7. s[j].value \in {0, CurtailedPower} \/ (rank = FleetOverGrid /\ s[j].role = "fleet")
      BY <1>1, <1>2, <2>4, <2>5, <2>6, BeforeCurtailment
    <2>8. p \in {0, CurtailedPower} \/ ~(p > CurtailedPower)
      BY <2>2, <2>7 DEF FleetInTheWay
    <2> QED
      BY <1>4, <2>8 DEF CurtailedPower
  <1>6. CASE ~Written(in, K, i, P)
    <2> SUFFICES ASSUME p > 5 PROVE FALSE
      BY <1>4 DEF CurtailedPower
    <2>1. Power(in.graph, cp) = {p}
      BY <1>1, <1>4, <1>6 DEF StandsAt, Power
    <2>2. PICK r \in EvRules : r.rid = 5
      BY EvRuleFacts
    <2>3. r.type = "GridEmergency" /\ r.slot = "power"
      BY <2>2, EvRuleFacts DEF RuleTable, IsRule
    <2>4. cp \in Subjects(in.graph, r, e)
      BY <2>1, <2>2, <2>3 DEF Subjects, CurtailedPower
    <2>5. PICK m \in 1..Len(s) : s[m].rid = 5 /\ s[m].slot = P
      <3>1. OnSchedule(in, r.rid, <<cp, r.slot>>)
        BY <2>4, EnabledIsScheduled, Zenon
      <3> QED
        BY <2>2, <2>3, <3>1 DEF OnSchedule
    <2>6. Kind(s[m]) /\ s[m].roleRank = rank[s[m].role]
      BY KindAt
    <2>7. s[m].role = "grid" /\ s[m].priority = 0
      BY <2>5, <2>6 DEF Kind, Is
    <2>8. Before(s[m], s[i])
      BY <1>2, <1>3, <2>6, <2>7 DEF Before
    <2>9. m < i
      BY <2>8, Scheduled
    <2>10. ~Written(in, K, m, P)
      BY <1>6, <2>9 DEF Written, ResolvedRequest
    <2>11. m \in K
      BY <2>1, <2>5, <2>10, LoweringAccepted
    <2> QED
      BY <1>6, <2>5, <2>9, <2>11 DEF Written
  <1> QED
    BY <1>5, <1>6

(* A grid emergency curtails the feeder.                                    *)
LEMMA EmergencyTakes ==
    ASSUME ChargingProfile, NEW in, NEW K, NEW E, NEW rank, ResolvedRequest(in, K, E, rank),
           ~FleetInTheWay(in, K, rank), NEW e \in E, e.type = "GridEmergency"
    PROVE  Takes(in, K, <<Feeder, "state">>, Curtailed)
  <1> DEFINE F == <<Feeder, "state">>
             s == in.schedule
  <1>1. F \in EvSlots /\ rank \in Precedences
    BY DEF EvSlots, ResolvedRequest
  <1>2. PICK r \in EvRules : r.rid = 4
    BY EvRuleFacts
  <1>3. r.type = "GridEmergency" /\ r.slot = "state"
    BY <1>2, EvRuleFacts DEF RuleTable, IsRule
  <1>4. Feeder \in Subjects(in.graph, r, e)
    <2>1. FeederState(in.graph) # {}
      <3>1. Cardinality(FeederState(in.graph)) = 1
        BY DEF ResolvedRequest, EvAdmissible, FeederStateShape
      <3> QED
        BY <3>1, FS_EmptySet
    <2> QED
      BY <1>2, <1>3, <2>1 DEF Subjects
  <1>5. PICK i \in 1..Len(s) : s[i].rid = 4 /\ s[i].slot = F
    <2>1. OnSchedule(in, r.rid, <<Feeder, r.slot>>)
      BY <1>4, EnabledIsScheduled, Zenon
    <2> QED
      BY <1>2, <1>3, <2>1 DEF OnSchedule
  <1>6. PICK g : StandsAt(in, K, rank, i, s[i], g)
    BY ResolvedAt
  <1>7. Kind(s[i]) /\ EvAdmissible(g) /\ DOMAIN g = EvSlots
    BY <1>6 DEF StandsAt
  <1>8. s[i].role = "grid" /\ s[i].value = Curtailed
    BY <1>5, <1>7 DEF Kind, Is
  <1>9. \A cp \in ChargingPoints : \A p \in Power(g, cp) : p <= CurtailedPower
    BY <1>5, <1>6, EmergencyLowers
  <1>10. EvAdmissible([g EXCEPT ![s[i].slot] = {s[i].value}])
    BY <1>5, <1>7, <1>8, <1>9, CurtailKeepsAdmissible
  <1>11. EvPolicyOK(g, s[i])
    BY <1>5 DEF EvPolicyOK
  <1>12. s[i].role \in in.active
    BY <1>8 DEF ResolvedRequest
  <1>13. i \in K \/ Written(in, K, i, F)
    BY <1>5, <1>6, <1>10, <1>11, <1>12 DEF StandsAt
  <1>14. CASE Written(in, K, i, F)
    <2>1. PICK j \in K : j < i /\ s[j].slot = F
      BY <1>14 DEF Written
    <2>2. j \in 1..Len(s)
      BY DEF ResolvedRequest
    <2>3. Kind(s[j]) /\ s[j].slot[2] = "state"
      BY <2>1, <2>2, KindAt
    <2>4. s[j].value = Curtailed
      BY <2>3 DEF Kind, Is
    <2> QED
      BY <2>1, <2>4 DEF Takes
  <1> QED
    BY <1>5, <1>8, <1>13, <1>14 DEF Takes

-----------------------------------------------------------------------------
(* The requested step. *)

(* The resolver is given the schedule of the requested step.                *)
EvRequestInv == request \in Requests /\ input = EvStepInput(request)

(* Every request is a window of events under one of the precedences.        *)
LEMMA RequestsTyped ==
    \A q \in Requests :
        EvEventRecords(q.events) /\ q.rank \in Precedences /\ q.active \in ActiveSets
  <1> SUFFICES ASSUME NEW q \in Requests
               PROVE  EvEventRecords(q.events) /\ q.rank \in Precedences /\ q.active \in ActiveSets
    OBVIOUS
  <1>1. CASE q \in Workloads
    BY <1>1, EvStepConstants
  <1>2. CASE q \notin Workloads
    <2>1. q.events \subseteq WindowEvents /\ q.rank \in Precedences /\ q.active \in ActiveSets
      BY <1>2 DEF Requests
    <2>2. IsFiniteSet(q.events)
      BY <2>1, EvStepConstants, FS_Subset DEF EvEventRecords
    <2> QED
      BY <2>1, <2>2, EvStepConstants DEF EvEventRecords
  <1> QED
    BY <1>1, <1>2

(* What a request gives the resolver is one of its inputs.                  *)
LEMMA StepInputTyped ==
    ASSUME ChargingProfile, NEW q \in Requests
    PROVE  EvStepInput(q) \in EvInputs /\ EvStepInput(q) \in Input
  <1>1. EvStepInput(q) \in EvInputs
    <2>1. CASE q \in Workloads
      BY <2>1 DEF EvInputs
    <2>2. CASE q \notin Workloads
      <3>1. /\ q.graph \in StartGraphs /\ q.events \in SUBSET WindowEvents
            /\ q.rank \in Precedences /\ q.active \in ActiveSets
        BY <2>2 DEF Requests
      <3> QED
        BY <3>1 DEF EvStepInput, EvInputs
    <2> QED
      BY <2>1, <2>2
  <1> QED
    BY <1>1, ResolverConstants DEF ChargingProfile

(* A step is a resolution of the schedule of its events.                    *)
LEMMA EvStepResolves ==
    ASSUME ChargingProfile
    PROVE  EvSpec => Spec /\ []EvRequestInv
  <1>1. PipelineInit => Init /\ EvRequestInv
    <2> SUFFICES ASSUME PipelineInit PROVE input \in EvInputs
      BY DEF PipelineInit, Init, EvRequestInv, ChargingProfile
    <2> QED
      BY StepInputTyped DEF PipelineInit
  <1>2. [EvNext]_evVars => [Next]_resolverVars
    BY DEF evVars, resolverVars, EvNext
  <1>3. EvRequestInv /\ [EvNext]_evVars => EvRequestInv'
    <2> SUFFICES ASSUME EvRequestInv, [EvNext]_evVars
                 PROVE  UNCHANGED <<input, request>>
      BY DEF EvRequestInv, EvStepInput
    <2> QED
      BY DEF evVars, resolverVars, EvNext, Next, RejectRole, RejectPolicy, RejectShadowed,
             RejectInadmissible, Reject, Accept
  <1> QED
    BY <1>1, <1>2, <1>3, PTL DEF EvSpec, Spec

(* The invariants of the resolver and of the request.                       *)
StepInv == IInv /\ DecisionsJustified /\ VerdictsExact /\ PrefixesAdmissible /\ EvRequestInv

(* A finished step is the resolution of its request.                        *)
LEMMA FinishedIsResolved ==
    ASSUME ChargingProfile, StepInv, Finished, Admissible(request.graph)
    PROVE  /\ ResolvedRequest(input, accepted, request.events, request.rank)
           /\ EvAdmissible(current)
           /\ \A k \in accepted : current[input.schedule[k].slot] = {input.schedule[k].value}
  <1>1. /\ request \in Requests
        /\ input.graph = request.graph
        /\ input.schedule = ScheduleActions(EvEvaluateRules(input.graph, request.events, request.rank))
        /\ input.active = request.active
    BY DEF StepInv, EvRequestInv, EvStepInput
  <1>2. /\ EvEventRecords(request.events) /\ request.rank \in Precedences
        /\ request.active \in ActiveSets
    BY <1>1, RequestsTyped
  <1>3. {"safety", "grid"} \subseteq input.active
    BY <1>1, <1>2 DEF ActiveSets, ROLE_RANK
  <1>4. EvAdmissible(input.graph) /\ DOMAIN input.graph = EvSlots
    BY <1>1 DEF StepInv, IInv, TypeOK, Input, Graph, ChargingProfile
  <1>5. Len(decisions) = Len(input.schedule) /\ Len(input.schedule) \in Nat
    BY DEF Finished, StepInv, IInv, TypeOK, Input
  <1>6. accepted \subseteq 1..Len(input.schedule)
    BY <1>5 DEF StepInv, IInv, TypeOK
  <1>7. ASSUME NEW k \in 1..Len(input.schedule)
        PROVE  /\ input.schedule[k].slot \in EvSlots
               /\ JustifiedBy(input, accepted, k)
               /\ EvAdmissible(OverlayOf(input, Earlier(accepted, k)))
    <2>1. input.schedule[k] \in Actions
      BY DEF StepInv, IInv, TypeOK, Input
    <2>2. input.schedule[k].slot \in EvSlots
      BY <2>1, ResolverConstants DEF ChargingProfile
    <2>3. JustifiedBy(input, accepted, k)
      BY <1>5, JustifiedMeans DEF StepInv
    <2>4. k \in 1..Turn
      BY <1>5 DEF Turn
    <2>5. EvAdmissible(OverlayOf(input, Earlier(accepted, k)))
      BY <1>1, <2>4 DEF StepInv, PrefixesAdmissible, ChargingProfile
    <2> QED
      BY <2>2, <2>3, <2>5
  <1>8. EvAdmissible(current)
    BY <1>1 DEF StepInv, IInv, AdmissibilityKept, ChargingProfile
  <1>9. ASSUME NEW k \in accepted
        PROVE  current[input.schedule[k].slot] = {input.schedule[k].value}
    <2>1. PICK s \in Slots : s = input.schedule[k].slot
      BY <1>6, <1>7 DEF ChargingProfile
    <2> QED
      BY <2>1 DEF StepInv, IInv, SlotsInv, FreeSlot, TakenSlot, SlotOf, ValueOf
  <1> QED
    BY <1>1, <1>2, <1>3, <1>4, <1>6, <1>7, <1>8, <1>9 DEF ResolvedRequest

(* The invariants hold throughout a step.                                   *)
LEMMA EvStepInvariant ==
    ASSUME ChargingProfile
    PROVE  EvSpec => []StepInv
  <1>1. EvSpec => Spec /\ []EvRequestInv
    BY EvStepResolves
  <1>2. Spec => []IInv /\ []DecisionsJustified /\ []PrefixesAdmissible /\ []VerdictsExact
    BY ResolverInvariant, ResolverJustified, PrefixesInvariant, VerdictsInvariant, PTL
  <1>3. StepInv <=> IInv /\ DecisionsJustified /\ VerdictsExact /\ PrefixesAdmissible /\ EvRequestInv
    BY DEF StepInv
  <1> QED
    BY <1>1, <1>2, <1>3, PTL

(* A finished step has isolated the points at fault.                        *)
LEMMA FinishedIsolates ==
    ASSUME ChargingProfile, StepInv
    PROVE  FaultIsolates
  <1> SUFFICES ASSUME Finished, Admissible(request.graph), NEW e \in Happened("FaultDetected")
               PROVE  Connector(current, e.cp) = {OutOfService} /\ Power(current, e.cp) = {0}
    BY DEF FaultIsolates
  <1>1. /\ ResolvedRequest(input, accepted, request.events, request.rank)
        /\ EvAdmissible(current)
        /\ \A k \in accepted : current[input.schedule[k].slot] = {input.schedule[k].value}
    BY FinishedIsResolved
  <1>2. e \in request.events /\ e.type = "FaultDetected"
    BY DEF Happened
  <1>3. PICK k \in accepted : /\ input.schedule[k].slot = <<e.cp, "connector">>
                             /\ input.schedule[k].value = OutOfService
    <2>1. ResolvedRequest(input, accepted, request.events, request.rank)
      BY <1>1
    <2>2. Takes(input, accepted, <<e.cp, "connector">>, OutOfService)
      BY <1>2, <2>1, FaultTakes
    <2> QED
      BY <2>2 DEF Takes
  <1>4. Connector(current, e.cp) = {OutOfService}
    BY <1>1, <1>3 DEF Connector
  <1>5. e.cp \in ChargingPoints
    BY <1>1, <1>2 DEF ResolvedRequest, EvEventRecords
  <1>6. \E p : Power(current, e.cp) = {p}
    <2>1. EvAdmissible(current)
      BY <1>1
    <2> QED
      BY <1>5, <2>1, AdmissibleOnePower, Zenon
  <1>7. \A p \in Power(current, e.cp) : p = 0
    BY <1>1, <1>4, <1>5 DEF EvAdmissible, ConnectorPowerCoherenceShape
  <1> QED
    BY <1>4, <1>6, <1>7

(* A finished step has curtailed the feeder in an emergency, or a fleet     *)
(* action was in the way.                                                   *)
LEMMA FinishedCurtails ==
    ASSUME ChargingProfile, StepInv
    PROVE  EmergencyCurtails
  <1> SUFFICES ASSUME Finished, Admissible(request.graph), Happened("GridEmergency") # {},
                      ~FleetInTheWay(input, accepted, request.rank)
               PROVE  FeederState(current) = {Curtailed}
    BY DEF EmergencyCurtails, FleetInTheWay
  <1>1. /\ ResolvedRequest(input, accepted, request.events, request.rank)
        /\ \A k \in accepted : current[input.schedule[k].slot] = {input.schedule[k].value}
    BY FinishedIsResolved
  <1>2. PICK e \in request.events : e.type = "GridEmergency"
    BY DEF Happened
  <1>3. PICK k \in accepted : /\ input.schedule[k].slot = <<Feeder, "state">>
                             /\ input.schedule[k].value = Curtailed
    BY <1>1, <1>2, EmergencyTakes DEF Takes
  <1> QED
    BY <1>1, <1>3 DEF FeederState

(* A capacity signal commands a power of some point.                        *)
LEMMA CapacityAction ==
    ASSUME ChargingProfile, NEW in, NEW K, NEW E, NEW rank, ResolvedRequest(in, K, E, rank),
           NEW k \in 1..Len(in.schedule), in.schedule[k].rid = 3
    PROVE  \E cp \in ChargingPoints :
             /\ in.schedule[k].slot = <<cp, "power">> /\ in.schedule[k].role = "grid"
             /\ in.schedule[k].value \in Int
  <1>1. in.schedule[k] \in EvEvaluateRules(in.graph, E, rank)
    BY Scheduled
  <1>2. EvEventRecords(E) /\ rank \in Precedences
    BY DEF ResolvedRequest
  <1>3. PICK r \in EvRules, e \in E : \E x \in Subjects(in.graph, r, e) :
             in.schedule[k] = EvCreateAction(r, x, e, rank)
    BY <1>1, <1>2, EvEvaluatedMade
  <1>4. r.rid = 3 /\ in.schedule[k].value = e.arg
    BY <1>3 DEF EvCreateAction
  <1>5. in.schedule[k].value \in Int
    <2>1. e.arg \in -99..99
      BY <1>2, Zenon DEF EvEventRecords
    <2>2. \A n \in -99..99 : n \in Int
      OBVIOUS
    <2> QED
      BY <1>4, <2>1, <2>2, Zenon
  <1>6. Kind(in.schedule[k]) /\ in.schedule[k].slot \in EvSlots
    BY KindAt DEF ResolvedRequest
  <1>7. in.schedule[k].slot[2] = "power" /\ in.schedule[k].role = "grid"
    BY <1>6 DEF Kind, Is
  <1>8. PICK cp \in ChargingPoints : in.schedule[k].slot = <<cp, "power">>
    BY <1>6, <1>7 DEF EvSlots
  <1> QED
    BY <1>5, <1>7, <1>8

(* An action before a capacity signal for its point is the grid's, or a     *)
(* fault's.                                                                 *)
LEMMA BeforeCapacity ==
    ASSUME NEW a, Kind(a), a.roleRank = ROLE_RANK[a.role],
           NEW b, b.roleRank = ROLE_RANK[b.role], b.role = "grid", NoLater(a, b),
           a.slot[2] = "power"
    PROVE  a.role = "grid" \/ a.value = 0
  <1>1. /\ ROLE_RANK["grid"] = 1 /\ ROLE_RANK["fleet"] = 2
        /\ ROLE_RANK["driver"] = 3
    BY DEF ROLE_RANK
  <1>2. a.role \notin {"fleet", "driver"}
    BY <1>1 DEF NoLater
  <1> QED
    BY <1>2 DEF Kind, Is

(* A finished step has held every capacity signal, or refused it.           *)
LEMMA FinishedHolds ==
    ASSUME ChargingProfile, StepInv
    PROVE  CapacityHeld
  <1> SUFFICES ASSUME Finished, Admissible(request.graph), request.rank = ROLE_RANK,
                      NEW k \in 1..Len(decisions), input.schedule[k].rid = 3
               PROVE  \/ \A p \in current[input.schedule[k].slot] : p <= input.schedule[k].value
                      \/ decisions[k].reason = "policy" /\ input.schedule[k].value < MinPower
                      \/ decisions[k].reason = "inadmissible"
                      \/ /\ decisions[k].reason = "shadowed"
                         /\ input.schedule[decisions[k].blockedBy].role = "grid"
    BY DEF CapacityHeld
  <1>1. /\ ResolvedRequest(input, accepted, request.events, request.rank)
        /\ EvAdmissible(current)
        /\ \A j \in accepted : current[input.schedule[j].slot] = {input.schedule[j].value}
    BY FinishedIsResolved
  <1>2. k \in 1..Len(input.schedule)
    BY DEF Finished
  <1> PICK a, g : a = input.schedule[k] /\ g = OverlayOf(input, Earlier(accepted, k))
    OBVIOUS
  <1>3. PICK cp \in ChargingPoints :
          a.slot = <<cp, "power">> /\ a.role = "grid" /\ a.value \in Int
    BY <1>1, <1>2, CapacityAction
  <1>4. decisions[k] = Verdict(input, Earlier(accepted, k), a, g)
    BY DEF StepInv, VerdictsExact, VerdictOf
  <1>5. a.role \in input.active
    BY <1>1, <1>3 DEF ResolvedRequest
  <1>6. CASE ~EvPolicyOK(g, a)
    <2>1. decisions[k].reason = "policy"
      BY <1>4, <1>5, <1>6 DEF Verdict, Recorded, ChargingProfile
    <2>2. a.value < 0 \/ a.value > 22
      <3>1. a.slot[2] = "power" /\ RoleMaxPower[a.role] = 22
        BY <1>3 DEF RoleMaxPower
      <3>2. a.value \notin 0..22
        BY <1>6, <3>1 DEF EvPolicyOK, MinPower
      <3>3. \A v \in Int : v \notin 0..22 => v < 0 \/ v > 22
        OBVIOUS
      <3> QED
        BY <1>3, <3>2, <3>3, Zenon
    <2>3. CASE a.value < 0
      BY <1>3, <2>1, <2>3 DEF MinPower
    <2>4. CASE a.value > 22
      <3>1. PICK p \in 0..22 : Power(current, cp) = {p}
        BY <1>1, AdmissibleOnePower
      <3> QED
        BY <1>3, <2>4, <3>1 DEF Power
    <2> QED
      BY <2>2, <2>3, <2>4
  <1>7. CASE EvPolicyOK(g, a) /\ Blocking(input, Earlier(accepted, k), a) # {}
    <2> DEFINE j == CHOOSE j \in Blocking(input, Earlier(accepted, k), a) : TRUE
    <2>1. decisions[k].reason = "shadowed" /\ decisions[k].blockedBy = j
      BY <1>4, <1>5, <1>7 DEF Verdict, Recorded, ChargingProfile
    <2>2. j \in Blocking(input, Earlier(accepted, k), a)
      BY <1>7
    <2> HIDE DEF j
    <2>3. j \in accepted /\ j < k /\ input.schedule[j].slot = a.slot
      BY <2>2 DEF Blocking, Earlier
    <2>4. j \in 1..Len(input.schedule)
      BY <1>1, <2>3 DEF ResolvedRequest
    <2>5. NoLater(input.schedule[j], a)
      BY <1>1, <1>2, <1>3, <2>3, <2>4, Scheduled
    <2>6. /\ Kind(input.schedule[j])
          /\ input.schedule[j].roleRank = ROLE_RANK[input.schedule[j].role]
          /\ a.roleRank = ROLE_RANK[a.role]
      BY <1>1, <1>2, <1>3, <2>4, KindAt
    <2>7. input.schedule[j].slot[2] = "power"
      BY <1>3, <2>3
    <2>8. input.schedule[j].role = "grid" \/ input.schedule[j].value = 0
      BY <1>3, <2>5, <2>6, <2>7, BeforeCapacity
    <2>9. CASE input.schedule[j].value = 0
      <3>1. current[a.slot] = {0}
        BY <1>1, <2>3, <2>9
      <3>2. 0 <= a.value
        BY <1>3, <1>7 DEF EvPolicyOK, MinPower, RoleMaxPower
      <3> QED
        BY <1>3, <3>1, <3>2
    <2> QED
      BY <2>1, <2>8, <2>9
  <1>8. CASE EvPolicyOK(g, a) /\ Blocking(input, Earlier(accepted, k), a) = {}
    <2>1. CASE ~Admissible(Apply(g, a))
      BY <1>4, <1>5, <1>8, <2>1 DEF Verdict, Recorded, ChargingProfile
    <2>2. CASE Admissible(Apply(g, a))
      <3>1. JustifiedBy(input, accepted, k)
        BY <1>1, <1>2 DEF ResolvedRequest
      <3>2. k \in accepted
        BY <1>3, <1>5, <1>8, <2>2, <3>1
           DEF JustifiedBy, Gates, Blocking, ChargingProfile
      <3>3. current[a.slot] = {a.value}
        BY <1>1, <1>3, <3>2
      <3> QED
        BY <1>3, <3>3
    <2> QED
      BY <2>1, <2>2
  <1> QED
    BY <1>6, <1>7, <1>8

(* In every step from an admissible state a fault takes its point out of    *)
(* service and its power to zero, whatever else the window asks for.        *)
THEOREM FaultsIsolate ==
    ASSUME ChargingProfile
    PROVE  EvSpec => []FaultIsolates
  <1>1. StepInv => FaultIsolates
    BY FinishedIsolates
  <1> QED
    BY <1>1, EvStepInvariant, PTL

(* In every step from an admissible state a grid emergency ends with the    *)
(* feeder curtailed, unless the precedence puts a fleet action first.       *)
THEOREM EmergenciesCurtail ==
    ASSUME ChargingProfile
    PROVE  EvSpec => []EmergencyCurtails
  <1>1. StepInv => EmergencyCurtails
    BY FinishedCurtails
  <1> QED
    BY <1>1, EvStepInvariant, PTL

(* In every step under the default precedence a capacity signal bounds the  *)
(* power of its point, or was refused, or another grid action came first.   *)
THEOREM CapacitiesHold ==
    ASSUME ChargingProfile
    PROVE  EvSpec => []CapacityHeld
  <1>1. StepInv => CapacityHeld
    BY FinishedHolds
  <1> QED
    BY <1>1, EvStepInvariant, PTL

-----------------------------------------------------------------------------
(* The replay of a trace. *)

(* The fields of a trace. *)
TraceFields ==
    {"shapes", "rank", "active", "graph", "digest", "actions", "schedule", "decisions", "accepted",
     "successor"}

(* The traces t and u differ at most in the fields F.                       *)
SameBut(t, u, F) ==
    /\ DOMAIN u = TraceFields
    /\ \A f \in TraceFields \ F : u[f] = t[f]

(* t is the trace of a step: a resolution of the schedule of the window.    *)
StepTrace(t) ==
    \E q \in Requests :
        LET in == EvStepInput(q) IN
        /\ DOMAIN t = TraceFields
        /\ t.shapes = Shipped /\ t.rank = q.rank /\ t.active = in.active
        /\ t.graph = in.graph /\ t.digest = in.graph
        /\ t.actions = EvEvaluateRules(q.graph, q.events, q.rank)
        /\ t.schedule = in.schedule
        /\ Resolution(in, t.accepted, t.decisions)
        /\ t.successor = OverlayOf(in, t.accepted)

(* The fields of how the step was to be done, and of what it did.           *)
SettingFields == {"shapes", "rank", "active", "actions"}
OutcomeFields == {"decisions", "accepted", "successor"}

(* A version of a trace, altered at most once.                              *)
Version(t, u) ==
    \/ SameBut(t, u, {"graph", "digest"})
    \/ SameBut(t, u, {"graph"})
    \/ SameBut(t, u, SettingFields)
    \/ SameBut(t, u, OutcomeFields)

(* An edit changes one group of fields.                                     *)
LEMMA EditedVersion ==
    ASSUME NEW t, DOMAIN t = TraceFields, NEW u \in Edited(t)
    PROVE  Version(t, u)
  <1>1. ASSUME NEW v \in Disguised(t)
        PROVE  \E g : v = [t EXCEPT !.graph = g, !.digest = g]
    BY DEF Disguised
  <1>2. CASE u \in Disguised(t)
    <2>1. PICK g : u = [t EXCEPT !.graph = g, !.digest = g]
      BY <1>1, <1>2
    <2> QED
      BY <2>1 DEF Version, SameBut, TraceFields
  <1>3. CASE \E v \in Disguised(t) : u = [t EXCEPT !.graph = v.graph]
    <2>1. PICK g : u = [t EXCEPT !.graph = g]
      BY <1>3
    <2> QED
      BY <2>1 DEF Version, SameBut, TraceFields
  <1>4. CASE \E v \in Disguised(t) : u = [t EXCEPT !.successor = v.graph]
    <2>1. PICK g : u = [t EXCEPT !.successor = g]
      BY <1>4
    <2> QED
      BY <2>1 DEF Version, SameBut, TraceFields, OutcomeFields
  <1>5. CASE \E r \in Precedences : u = [t EXCEPT !.rank = r]
    BY <1>5 DEF Version, SameBut, TraceFields, SettingFields
  <1>6. CASE \E r \in ActiveSets : u = [t EXCEPT !.active = r]
    BY <1>6 DEF Version, SameBut, TraceFields, SettingFields
  <1>7. CASE \E w : u = [t EXCEPT !.shapes = w]
    BY <1>7 DEF Version, SameBut, TraceFields, SettingFields
  <1>8. CASE \E w : u = [t EXCEPT !.actions = w]
    BY <1>8 DEF Version, SameBut, TraceFields, SettingFields
  <1>9. CASE \E k \in t.accepted : u = [t EXCEPT !.accepted = @ \ {k}]
    BY <1>9 DEF Version, SameBut, TraceFields, OutcomeFields
  <1>10. CASE \E k \in DOMAIN t.decisions : u = [t EXCEPT !.decisions[k].reason = "policy"]
    <2>1. \E w : u = [t EXCEPT !.decisions = w]
      BY <1>10
    <2> QED
      BY <2>1 DEF Version, SameBut, TraceFields, OutcomeFields
  <1>11. \/ u \in Disguised(t)
         \/ \E v \in Disguised(t) : u = [t EXCEPT !.graph = v.graph]
         \/ \E v \in Disguised(t) : u = [t EXCEPT !.successor = v.graph]
         \/ \E r \in Precedences : u = [t EXCEPT !.rank = r]
         \/ \E r \in ActiveSets : u = [t EXCEPT !.active = r]
         \/ \E w \in {Building, NotTurtle, Missing} : u = [t EXCEPT !.shapes = w]
         \/ \E a \in t.actions : u = [t EXCEPT !.actions = @ \ {a}]
         \/ \E a \in t.actions : u = [t EXCEPT !.actions = (@ \ {a}) \cup {[a EXCEPT !.value = 1]}]
         \/ \E a \in t.actions : u = [t EXCEPT !.actions = (@ \ {a}) \cup {[a EXCEPT !.priority = 3]}]
         \/ \E k \in t.accepted : u = [t EXCEPT !.accepted = @ \ {k}]
         \/ \E k \in DOMAIN t.decisions : u = [t EXCEPT !.decisions[k].reason = "policy"]
    BY DEF Edited
  <1> QED
    BY <1>2, <1>3, <1>4, <1>5, <1>6, <1>7, <1>8, <1>9, <1>10, <1>11

(* The replay resolves what was recorded.                                   *)
SameProblem ==
    /\ trace.graph = original.graph /\ trace.actions = original.actions
    /\ trace.rank = original.rank /\ trace.active = original.active

(* What a replay resolves.                                                  *)
ReplayInput ==
    [graph |-> trace.graph, schedule |-> ScheduleActions(Reranked(trace)), active |-> trace.active]

(* What the replay has resolved so far. *)
Replayed ==
    /\ trace.shapes = Shipped
    /\ input = ReplayInput
    /\ FirstFromInput
    /\ SameProblem => Sound

(* The saved trace is a step's, and the trace at hand a version of it.      *)
TraceInv ==
    /\ StepTrace(original)
    /\ Version(original, trace)
    /\ ~altered => trace = original

(* The inductive invariant of a step, its trace and the replay.             *)
EvReplayInv ==
    /\ phase \in {"run", "saved", "replay", "done"}
    /\ phase # "replay" => shapesPath = Shipped
    /\ phase = "replay" => previous = Shipped /\ shapesPath = trace.shapes
    /\ phase = "run" => EvRequestInv /\ Sound /\ ~altered
    /\ phase # "run" => TraceInv
    /\ phase = "replay" /\ trace.shapes = Shipped => Replayed
    /\ phase = "done" =>
         \/ trace.shapes # Shipped /\ failed # {}
         \/ Replayed /\ Finished /\ failed = EvFailed

(* The roles rank as the recorded precedence has them already.              *)
LEMMA RerankedIsSame ==
    ASSUME NEW t, NEW g, NEW E, EvEventRecords(E), t.rank \in Precedences,
           t.actions = EvEvaluateRules(g, E, t.rank)
    PROVE  Reranked(t) = t.actions
  <1>1. ASSUME NEW a \in t.actions
        PROVE  [a EXCEPT !.roleRank = t.rank[a.role]] = a
    <2>1. PICK r \in EvRules, e \in E : \E x \in Subjects(g, r, e) :
             a = EvCreateAction(r, x, e, t.rank)
      BY EvEvaluatedMade
    <2>2. PICK x : a = EvCreateAction(r, x, e, t.rank)
      BY <2>1
    <2> QED
      BY <2>2 DEF EvCreateAction
  <1> QED
    BY <1>1 DEF Reranked

(* The saved trace is the trace of the step.                                *)
LEMMA SavedTrace ==
    ASSUME EvRequestInv, Sound, Finished
    PROVE  StepTrace(EvTrace)
  <1>1. /\ request \in Requests /\ input = EvStepInput(request)
        /\ input.graph = request.graph
    BY DEF EvRequestInv, EvStepInput
  <1>2. Resolution(input, accepted, decisions) /\ current = OverlayOf(input, accepted)
    BY FinishedResolution DEF Sound, Finished
  <1> DEFINE t == EvTrace
  <1>3. DOMAIN t = TraceFields
    BY DEF EvTrace, TraceFields
  <1>4. /\ t.shapes = Shipped /\ t.rank = request.rank /\ t.active = input.active
        /\ t.graph = input.graph /\ t.digest = input.graph
        /\ t.actions = EvEvaluateRules(request.graph, request.events, request.rank)
        /\ t.schedule = input.schedule /\ t.accepted = accepted /\ t.decisions = decisions
        /\ t.successor = current
    BY DEF EvTrace
  <1> HIDE DEF t
  <1>5. StepTrace(t)
    BY <1>1, <1>2, <1>3, <1>4, Zenon DEF StepTrace
  <1> QED
    BY <1>5 DEF t

(* A replay of the recorded problem is given the input of the step.         *)
LEMMA ReplayIsStep ==
    ASSUME TraceInv, SameProblem
    PROVE  \E q \in Requests :
             /\ ReplayInput = EvStepInput(q)
             /\ original.schedule = EvStepInput(q).schedule
             /\ Resolution(EvStepInput(q), original.accepted, original.decisions)
             /\ original.successor = OverlayOf(EvStepInput(q), original.accepted)
  <1>1. PICK q \in Requests :
          /\ original.rank = q.rank /\ original.active = EvStepInput(q).active
          /\ original.graph = EvStepInput(q).graph
          /\ original.actions = EvEvaluateRules(q.graph, q.events, q.rank)
          /\ original.schedule = EvStepInput(q).schedule
          /\ Resolution(EvStepInput(q), original.accepted, original.decisions)
          /\ original.successor = OverlayOf(EvStepInput(q), original.accepted)
    BY DEF TraceInv, StepTrace
  <1>2. Reranked(trace) = EvEvaluateRules(q.graph, q.events, q.rank)
    BY <1>1, RequestsTyped, RerankedIsSame DEF SameProblem
  <1>3. ReplayInput = EvStepInput(q)
    BY <1>1, <1>2 DEF SameProblem, ReplayInput, EvStepInput
  <1> QED
    BY <1>1, <1>3

(* Nothing of a trace depends on the resolver's variables.                  *)
LEMMA TraceUnchanged ==
    ASSUME TraceInv, UNCHANGED <<trace, original, altered>>
    PROVE  TraceInv'
  BY DEF TraceInv, StepTrace, Version, SameBut

(* A replay reads the trace only.                                           *)
LEMMA ReplayReads ==
    ASSUME UNCHANGED <<trace, original>>
    PROVE  ReplayInput' = ReplayInput /\ SameProblem' = SameProblem
  BY DEF ReplayInput, Reranked, SameProblem

(* The replay starts the resolver on what the trace records.                *)
LEMMA ReplayTraceKeeps ==
    ASSUME ChargingProfile, EvReplayInv, ReplayTrace
    PROVE  EvReplayInv'
  <1>1. /\ phase = "saved" /\ phase' = "replay"
        /\ previous' = shapesPath /\ shapesPath' = trace.shapes
        /\ input' = ReplayInput /\ current' = trace.graph
        /\ accepted' = {} /\ winner' = [s \in Slots |-> 0] /\ decisions' = <<>>
        /\ UNCHANGED <<trace, original, altered>>
    BY DEF ReplayTrace, ReplayInput
  <1>2. TraceInv /\ TraceInv'
    BY <1>1, TraceUnchanged DEF EvReplayInv
  <1>3. ReplayInput' = ReplayInput /\ SameProblem' = SameProblem
    BY <1>1, ReplayReads
  <1>4. input'.graph = current'
    BY <1>1 DEF ReplayInput
  <1>5. FirstFromInput'
    <2>1. <<>> \in Seq({})
      OBVIOUS
    <2> QED
      BY <1>1, <1>4, <2>1 DEF FirstFromInput, IsSeq
  <1>6. SameProblem => Sound'
    <2>1. SameProblem => ReplayInput \in Input
      BY <1>2, ReplayIsStep, StepInputTyped
    <2>2. SameProblem => Begun'
      BY <1>1, <1>4, <2>1 DEF Begun
    <2> QED
      BY <2>2, BegunSound
  <1>7. trace'.shapes = Shipped => Replayed'
    BY <1>1, <1>3, <1>5, <1>6 DEF Replayed
  <1>8. previous' = Shipped /\ shapesPath' = trace'.shapes
    BY <1>1 DEF EvReplayInv
  <1> QED
    BY <1>1, <1>2, <1>7, <1>8 DEF EvReplayInv

(* Under the shapes of the cluster the resolver does what it always does.   *)
LEMMA ShippedResolves ==
    ASSUME EvResolveNext, shapesPath = Shipped
    PROVE  Next
  <1>1. shapesPath # Building
    BY DEF Shipped, Building
  <1>2. EvNext
    BY <1>1, Zenon DEF EvResolveNext
  <1> QED
    BY <1>2, Zenon DEF EvNext

(* The resolver's steps keep both executions sound.                         *)
LEMMA EvResolveKeeps ==
    ASSUME EvReplayInv, EvResolveNext
    PROVE  EvReplayInv'
  <1>1. UNCHANGED <<request, phase, trace, original, altered, shapesPath, previous, failed>>
    BY DEF EvResolveNext, EvNext, evReplayVars
  <1>2. CASE phase = "run"
    <2>0. Next
      <3>1. shapesPath = Shipped
        BY <1>2 DEF EvReplayInv
      <3> QED
        BY <3>1, ShippedResolves, Zenon
    <2>1. Sound'
      BY <2>0, <1>2, SoundKept DEF EvReplayInv
    <2>2. input' = input
      BY <2>0 DEF Next, RejectRole, RejectPolicy, RejectShadowed, RejectInadmissible, Reject, Accept
    <2>3. EvRequestInv'
      BY <1>1, <1>2, <2>2 DEF EvReplayInv, EvRequestInv, EvStepInput
    <2> QED
      BY <1>1, <1>2, <2>1, <2>3 DEF EvReplayInv
  <1>3. CASE phase = "replay"
    <2>1. TraceInv' /\ trace' = trace
      BY <1>1, <1>3, TraceUnchanged DEF EvReplayInv
    <2>2. ASSUME trace.shapes = Shipped PROVE Replayed'
      <3>0. Replayed /\ shapesPath = Shipped
        BY <1>3, <2>2 DEF EvReplayInv
      <3>1. Next /\ Replayed
        BY <3>0, ShippedResolves, Zenon
      <3>2. FirstFromInput' /\ input' = input
        BY <3>1, FirstKept DEF Replayed
      <3>3. SameProblem => Sound'
        BY <3>1, SoundKept DEF Replayed
      <3>4. ReplayInput' = ReplayInput /\ SameProblem' = SameProblem
        BY <1>1, ReplayReads
      <3> QED
        BY <1>1, <3>1, <3>2, <3>3, <3>4 DEF Replayed
    <2> QED
      BY <1>1, <1>3, <2>1, <2>2 DEF EvReplayInv
  <1> QED
    BY <1>2, <1>3 DEF EvResolveNext

(* What is saved is the trace of the step.                                  *)
LEMMA RecordKeeps ==
    ASSUME EvReplayInv, RecordTrace
    PROVE  EvReplayInv'
  <1>1. /\ phase = "run" /\ Finished /\ phase' = "saved"
        /\ trace' = EvTrace /\ original' = EvTrace /\ altered' = altered
        /\ shapesPath' = shapesPath
    BY DEF RecordTrace
  <1>2. StepTrace(EvTrace)
    BY <1>1, SavedTrace DEF EvReplayInv
  <1> DEFINE t == EvTrace
  <1>3. DOMAIN t = TraceFields
    BY <1>2 DEF StepTrace
  <1> HIDE DEF t
  <1>4. Version(t, t)
    BY <1>3 DEF Version, SameBut
  <1>5. TraceInv'
    <2>1. StepTrace(original')
      BY <1>1, <1>2
    <2>2. StepTrace(original') <=> StepTrace(original)'
      BY DEF StepTrace
    <2>3. Version(original', trace')
      BY <1>1, <1>4 DEF t
    <2>4. Version(original', trace') <=> Version(original, trace)'
      BY DEF Version, SameBut
    <2> QED
      BY <1>1, <2>1, <2>2, <2>3, <2>4 DEF TraceInv
  <1> QED
    BY <1>1, <1>5 DEF EvReplayInv

(* One edit makes a version of the trace.                                   *)
LEMMA EditKeeps ==
    ASSUME EvReplayInv, EditTrace
    PROVE  EvReplayInv'
  <1>1. /\ phase = "saved" /\ ~altered /\ altered' = TRUE
        /\ trace' \in Edited(trace)
        /\ UNCHANGED <<phase, original, shapesPath>>
    BY DEF EditTrace
  <1>2. TraceInv /\ trace = original
    BY <1>1 DEF EvReplayInv, TraceInv
  <1>3. DOMAIN original = TraceFields
    BY <1>2 DEF TraceInv, StepTrace
  <1>4. Version(original, trace')
    BY <1>1, <1>2, <1>3, EditedVersion
  <1>5. TraceInv'
    <2>1. StepTrace(original)' <=> StepTrace(original)
      BY <1>1 DEF StepTrace
    <2>2. Version(original, trace)' <=> Version(original, trace')
      BY <1>1 DEF Version, SameBut
    <2> QED
      BY <1>1, <1>2, <1>4, <2>1, <2>2 DEF TraceInv
  <1> QED
    BY <1>1, <1>5 DEF EvReplayInv

(* The comparisons are made at the end of a replay.                         *)
LEMMA ReturnsKeeps ==
    ASSUME EvReplayInv, ReplayReturns
    PROVE  EvReplayInv'
  <1>1. /\ phase = "replay" /\ Finished /\ phase' = "done"
        /\ failed' = EvFailed /\ shapesPath' = previous
        /\ UNCHANGED <<evVars, trace, original, altered>>
    BY DEF ReplayReturns
  <1>2. UNCHANGED resolverVars
    BY <1>1 DEF evVars
  <1>3. TraceInv'
    BY <1>1, TraceUnchanged DEF EvReplayInv
  <1>4. Finished' /\ EvFailed' = EvFailed
    BY <1>1, <1>2 DEF Finished, EvFailed, resolverVars
  <1>5. ASSUME trace.shapes = Shipped PROVE Replayed'
    <2>1. ReplayInput' = ReplayInput /\ SameProblem' = SameProblem
      BY <1>1, ReplayReads
    <2>2. Replayed
      BY <1>1, <1>5 DEF EvReplayInv
    <2>3. FirstFromInput' = FirstFromInput
      BY <1>2 DEF resolverVars, FirstFromInput
    <2>4. Sound => Sound'
      BY <1>2, SoundKept
    <2>5. input' = input
      BY <1>2 DEF resolverVars
    <2> QED
      BY <1>1, <2>1, <2>2, <2>3, <2>4, <2>5 DEF Replayed
  <1>6. ASSUME trace.shapes # Shipped PROVE trace'.shapes # Shipped /\ failed' # {}
    <2>1. "dependencies" \in EvFailed
      BY <1>6 DEF EvFailed
    <2> QED
      BY <1>1, <1>6, <2>1
  <1>7. phase' = "done" /\ failed' = EvFailed' /\ shapesPath' = Shipped
    BY <1>1, <1>4 DEF EvReplayInv
  <1> QED
    BY <1>3, <1>4, <1>5, <1>6, <1>7 DEF EvReplayInv

(* A replay that raises before it sets the shapes has not touched them; one *)
(* that raises while it resolves has restored them.                         *)
LEMMA ReplayRaisesKeeps ==
    ASSUME EvReplayInv, ReplayTraceRaises \/ ReplayRaises
    PROVE  EvReplayInv'
  <1>1. /\ phase' = "done" /\ failed' = {"raised"}
        /\ UNCHANGED <<trace, original, altered>>
    BY DEF ReplayTraceRaises, ReplayRaises
  <1>2. /\ phase \in {"saved", "replay"}
        /\ trace.shapes # Shipped /\ shapesPath' = Shipped
    BY DEF ReplayTraceRaises, ReplayRaises, HashRaises, EvReplayInv, Shipped, Missing, NotTurtle
  <1>3. TraceInv'
    BY <1>1, <1>2, TraceUnchanged DEF EvReplayInv
  <1> QED
    BY <1>1, <1>2, <1>3 DEF EvReplayInv

(* A step that changes nothing keeps everything.                            *)
LEMMA EvStutterKeeps ==
    ASSUME EvReplayInv, UNCHANGED <<evVars, evReplayVars>>
    PROVE  EvReplayInv'
  <1>1. /\ UNCHANGED <<phase, trace, original, altered, shapesPath, previous, failed>>
        /\ UNCHANGED resolverVars /\ UNCHANGED request
    BY DEF evVars, evReplayVars
  <1>2. UNCHANGED <<input, current, accepted, winner, decisions>>
    BY <1>1 DEF resolverVars
  <1>3. phase # "run" => TraceInv'
    BY <1>1, TraceUnchanged DEF EvReplayInv
  <1>4. Sound => Sound'
    BY <1>1, SoundKept
  <1>5. EvRequestInv' = EvRequestInv /\ Finished' = Finished /\ EvFailed' = EvFailed
    BY <1>1, <1>2 DEF EvRequestInv, EvStepInput, Finished, EvFailed
  <1>6. Replayed => Replayed'
    <2>1. ReplayInput' = ReplayInput /\ SameProblem' = SameProblem
      BY <1>1, ReplayReads
    <2>2. FirstFromInput' = FirstFromInput
      BY <1>2 DEF FirstFromInput
    <2> QED
      BY <1>1, <1>2, <1>4, <2>1, <2>2 DEF Replayed
  <1> QED
    BY <1>1, <1>3, <1>4, <1>5, <1>6 DEF EvReplayInv

(* The step that is recorded begins with nothing resolved.                  *)
LEMMA EvReplayBegins ==
    ASSUME ChargingProfile, EvReplayInit
    PROVE  EvReplayInv
  <1>1. PipelineInit /\ phase = "run" /\ altered = FALSE /\ shapesPath = Shipped
    BY DEF EvReplayInit
  <1>2. request \in Requests /\ input = EvStepInput(request)
    BY <1>1 DEF PipelineInit
  <1>3. Begun
    BY <1>1, <1>2, StepInputTyped DEF PipelineInit, Begun
  <1> QED
    BY <1>1, <1>2, <1>3, BegunHolds DEF EvReplayInv, EvRequestInv, Sound

(* The invariant holds through recording, alteration and replay.            *)
LEMMA EvReplayInvariant ==
    ASSUME ChargingProfile
    PROVE  EvReplaySpec => []EvReplayInv
  <1>1. EvReplayInit => EvReplayInv
    BY EvReplayBegins
  <1>2. EvReplayInv /\ [EvReplayNext]_<<evVars, evReplayVars>> => EvReplayInv'
    <2> SUFFICES ASSUME EvReplayInv, [EvReplayNext]_<<evVars, evReplayVars>>
                 PROVE  EvReplayInv'
      OBVIOUS
    <2>1. CASE EvResolveNext
      BY <2>1, EvResolveKeeps
    <2>2. CASE RecordTrace
      BY <2>2, RecordKeeps
    <2>3. CASE EditTrace
      BY <2>3, EditKeeps
    <2>4. CASE ReplayTrace
      BY <2>4, ReplayTraceKeeps
    <2>5. CASE ReplayTraceRaises \/ ReplayRaises
      BY <2>5, ReplayRaisesKeeps
    <2>6. CASE ReplayReturns
      BY <2>6, ReturnsKeeps
    <2>7. CASE UNCHANGED <<evVars, evReplayVars>>
      BY <2>7, EvStutterKeeps
    <2> QED
      BY <2>1, <2>2, <2>3, <2>4, <2>5, <2>6, <2>7 DEF EvReplayNext
  <1> QED
    BY <1>1, <1>2, PTL DEF EvReplaySpec

-----------------------------------------------------------------------------
(* The comparisons of a replay, all of which succeed.                       *)
AllPass ==
    /\ trace.graph = trace.digest /\ trace.shapes = Shipped
    /\ Identities(input.schedule) = Identities(trace.schedule)
    /\ Shown(input.schedule, decisions) = Shown(trace.schedule, trace.decisions)
    /\ accepted = trace.accepted
    /\ current = trace.successor

(* No check fails when they do.                                             *)
LEMMA EvChecksMean == EvFailed = {} <=> AllPass
  <1> DEFINE checks ==
        [ dependencies |-> trace.graph = trace.digest /\ trace.shapes = Shipped,
          schedule     |-> Identities(input.schedule) = Identities(trace.schedule),
          decisions    |-> Shown(input.schedule, decisions) = Shown(trace.schedule, trace.decisions),
          accepted     |-> accepted = trace.accepted,
          digest       |-> current = trace.successor ]
  <1>1. EvFailed = {c \in DOMAIN checks : ~checks[c]}
    BY DEF EvFailed
  <1>2. DOMAIN checks = {"dependencies", "schedule", "decisions", "accepted", "digest"}
    OBVIOUS
  <1>3. /\ checks["dependencies"] = (trace.graph = trace.digest /\ trace.shapes = Shipped)
        /\ checks["schedule"] = (Identities(input.schedule) = Identities(trace.schedule))
        /\ checks["decisions"] =
             (Shown(input.schedule, decisions) = Shown(trace.schedule, trace.decisions))
        /\ checks["accepted"] = (accepted = trace.accepted)
        /\ checks["digest"] = (current = trace.successor)
    OBVIOUS
  <1> HIDE DEF checks
  <1>4. EvFailed = {} <=> \A c \in DOMAIN checks : checks[c]
    BY <1>1
  <1> QED
    BY <1>2, <1>3, <1>4 DEF AllPass

(* The replay of the recorded problem has the recorded outcome.             *)
LEMMA SameOutcome ==
    ASSUME TraceInv, Replayed, Finished, SameProblem
    PROVE  /\ input.schedule = original.schedule
           /\ accepted = original.accepted /\ decisions = original.decisions
           /\ current = original.successor
  <1>1. PICK q \in Requests :
             /\ input = EvStepInput(q)
             /\ original.schedule = EvStepInput(q).schedule
             /\ Resolution(EvStepInput(q), original.accepted, original.decisions)
             /\ original.successor = OverlayOf(EvStepInput(q), original.accepted)
    BY ReplayIsStep DEF Replayed
  <1>2. Resolution(input, accepted, decisions) /\ current = OverlayOf(input, accepted)
    BY FinishedResolution DEF Replayed, Sound, Finished
  <1>3. accepted = original.accepted /\ decisions = original.decisions
    BY <1>1, <1>2, ResolutionUnique
  <1> QED
    BY <1>1, <1>2, <1>3

(* A replay of another graph records another graph: in its first decision,  *)
(* or in its successor when there is nothing to decide.                     *)
LEMMA GraphTold ==
    ASSUME ChargingProfile, TraceInv, Replayed, AllPass,
           SameBut(original, trace, {"graph", "digest"})
    PROVE  trace.graph = original.graph
  <1>1. PICK q \in Requests :
          /\ original.graph = EvStepInput(q).graph
          /\ Resolution(EvStepInput(q), original.accepted, original.decisions)
          /\ original.successor = OverlayOf(EvStepInput(q), original.accepted)
    BY DEF TraceInv, StepTrace
  <1>2. /\ trace.decisions = original.decisions /\ trace.successor = original.successor
        /\ input.graph = trace.graph
    BY DEF SameBut, TraceFields, Replayed, ReplayInput
  <1>3. EvStepInput(q).graph \in Graph
    BY StepInputTyped DEF Input
  <1>4. OverlayOf(EvStepInput(q), {}) = original.graph
    BY <1>1, <1>3 DEF OverlayOf, Graph
  <1> DEFINE D == original.decisions
             m == Shown(input.schedule, decisions)
             n == Shown(trace.schedule, D)
  <1>5. /\ m = n /\ DOMAIN m = DOMAIN decisions /\ DOMAIN n = DOMAIN D
        /\ \A k \in DOMAIN decisions : m[k][6] = decisions[k]
        /\ \A k \in DOMAIN D : n[k][6] = D[k]
    BY <1>2 DEF AllPass, Shown
  <1>6. DOMAIN decisions = DOMAIN D /\ \A k \in DOMAIN D : decisions[k] = D[k]
    BY <1>5
  <1>7. /\ IsSeq(decisions) /\ DOMAIN D = 1..Len(D) /\ Len(D) \in Nat
        /\ original.accepted \subseteq 1..Len(D)
    BY <1>1 DEF Replayed, FirstFromInput, Resolution
  <1>8. CASE Len(D) = 0
    <2>1. original.accepted = {}
      BY <1>7, <1>8
    <2>2. decisions = <<>>
      BY <1>6, <1>7, <1>8 DEF IsSeq
    <2> QED
      BY <1>1, <1>2, <1>4, <2>1, <2>2 DEF AllPass, Replayed, FirstFromInput
  <1>9. CASE Len(D) # 0
    <2>1. 1 \in 1..Len(D) /\ decisions # <<>>
      BY <1>6, <1>7, <1>9
    <2>2. D[1] = VerdictOf(EvStepInput(q), original.accepted, 1)
      BY <1>1, <2>1 DEF Resolution
    <2>3. Earlier(original.accepted, 1) = {}
      BY <1>7 DEF Earlier
    <2>4. D[1].pre = original.graph
      BY <1>4, <2>2, <2>3 DEF VerdictOf, Verdict, Recorded
    <2> QED
      BY <1>2, <1>6, <1>7, <2>1, <2>4 DEF Replayed, FirstFromInput
  <1> QED
    BY <1>8, <1>9

(* A replay without a failed check tells of the recorded execution.         *)
LEMMA PassingTells ==
    ASSUME ChargingProfile, TraceInv, Replayed, Finished, AllPass
    PROVE  /\ trace.graph = original.graph
           /\ trace.successor = original.successor
           /\ trace.accepted = original.accepted
           /\ Shown(input.schedule, decisions) = Shown(original.schedule, original.decisions)
  <1>1. CASE SameBut(original, trace, {"graph", "digest"})
    <2>1. trace.graph = original.graph
      BY <1>1, GraphTold
    <2> QED
      BY <1>1, <2>1 DEF SameBut, TraceFields, AllPass
  <1>2. CASE SameBut(original, trace, {"graph"})
    <2>1. original.digest = original.graph
      BY DEF TraceInv, StepTrace
    <2> QED
      BY <1>2, <2>1 DEF SameBut, TraceFields, AllPass
  <1>3. CASE SameBut(original, trace, SettingFields)
    BY <1>3 DEF SameBut, TraceFields, SettingFields, AllPass
  <1>4. CASE SameBut(original, trace, OutcomeFields)
    <2>1. SameProblem /\ trace.graph = original.graph
      BY <1>4 DEF SameBut, TraceFields, OutcomeFields, SameProblem
    <2> QED
      BY <2>1, SameOutcome DEF AllPass
  <1> QED
    BY <1>1, <1>2, <1>3, <1>4 DEF TraceInv, Version

(* A replay of a charging step tells whether its trace is the one recorded, *)
(* for any points, windows and precedence and any edit that is modelled,    *)
(* and the module has its shapes again, whether the replay returned, raised *)
(* before it switched them or raised under the recorded ones.               *)
THEOREM ChargingReplaysTell ==
    ASSUME ChargingProfile
    PROVE  EvReplaySpec => []EvReplayTells
  <1>1. EvReplayInv => EvReplayTells
    <2> SUFFICES ASSUME EvReplayInv, phase = "done"
                 PROVE  EvReplayTells
      BY DEF EvReplayTells
    <2>1. TraceInv /\ shapesPath = Shipped
      BY DEF EvReplayInv
    <2>2. CASE trace.shapes # Shipped /\ failed # {}
      <3>1. altered /\ failed # {}
        BY <2>1, <2>2 DEF TraceInv, StepTrace
      <3> QED
        BY <2>1, <3>1 DEF EvReplayTells
    <2>3. CASE Replayed /\ Finished /\ failed = EvFailed
      <3>1. ASSUME ~altered PROVE failed = {}
        <4>1. trace = original /\ SameProblem
          BY <2>1, <3>1 DEF TraceInv, SameProblem
        <4>2. original.graph = original.digest
          BY <2>1 DEF TraceInv, StepTrace
        <4>3. AllPass
          BY <2>1, <2>3, <4>1, <4>2, SameOutcome DEF AllPass, Replayed
        <4> QED
          BY <2>3, <4>3, EvChecksMean
      <3>2. failed = {} => AllPass
        BY <2>3, EvChecksMean
      <3> QED
        BY <2>1, <2>3, <3>1, <3>2, PassingTells DEF EvReplayTells
    <2> QED
      BY <2>2, <2>3 DEF EvReplayInv
  <1> QED
    BY <1>1, EvReplayInvariant, PTL

-----------------------------------------------------------------------------
(* The second implementation on the steps of the charging cluster. *)

(* Its guard refuses what the first implementation's refuses.               *)
LEMMA SameGuard ==
    ASSUME ChargingProfile, NEW g, NEW a, a.role \in DOMAIN RoleMaxPower, a.value \in Int
    PROVE  /\ Second!PolicyFails(a) <=> ~PolicyOK(g, a)
           /\ Second!PolicyFails(a) => Second!PolicyVerdict(a) \in PolicyReasons
  <1> DEFINE v == Second!PolicyVerdict(a)
             cap == RoleMaxPower[a.role]
  <1>1. cap \in Int /\ MinPower \in Int
    BY DEF RoleMaxPower, MinPower
  <1>2. PolicyOK(g, a) <=> (a.slot[2] = "power" => a.value \in MinPower..cap)
    BY DEF ChargingProfile, EvPolicyOK
  <1>3. v = IF a.slot[2] # "power" THEN "policy_guard_not_applicable"
            ELSE IF a.value < MinPower THEN "policy_min_violation"
            ELSE IF a.value > cap THEN "policy_role_cap_violation"
            ELSE "policy_guard_passed"
    BY DEF Second!PolicyVerdict
  <1>4. Second!PolicyFails(a) <=> v \in {"policy_min_violation", "policy_role_cap_violation"}
    BY DEF Second!PolicyFails
  <1> HIDE DEF v, cap
  <1>5. Second!PolicyFails(a) <=> a.slot[2] = "power" /\ (a.value < MinPower \/ a.value > cap)
    BY <1>3, <1>4
  <1>6. Second!PolicyFails(a) <=> ~PolicyOK(g, a)
    BY <1>1, <1>2, <1>5
  <1> QED
    BY <1>4, <1>6 DEF v, PolicyReasons

(* What its guard says of the actions of an input.                          *)
GuardOf(in) == [k \in DOMAIN in.schedule |-> Second!PolicyVerdict(in.schedule[k])]

(* The actions of the input have a role with a cap.                         *)
Capped(in) ==
    \A k \in 1..Len(in.schedule) :
        in.schedule[k].role \in DOMAIN RoleMaxPower /\ in.schedule[k].value \in Int

(* Its gates are those of the proofs about the second implementation, with  *)
(* the shapes and the guard of the charging cluster.                        *)
LEMMA SameGates ==
    ASSUME ChargingProfile, NEW st, NEW a, NEW active
    PROVE  Second!Gates(st, a, active) = SecondGates(st, a, active, Second!PolicyVerdict(a))
  <1> DEFINE w == Tried(st, a).working
             yes == SecondRecord(KeptWrite(st, a), a, TRUE, "admissible")
             no == SecondRecord(TakenBack(st, a), a, FALSE, "inadmissible")
  <1>1. Second!TryWrite(st, a) = IF EvAdmissible(w) THEN yes ELSE no
    BY Zenon DEF Second!TryWrite, Second!Record, SecondRecord, Second!Revert, TakenBack,
                 Tried, KeptWrite, Second!ApplySingleSlot, Apply
  <1>2. SecondWrite(st, a) = IF Admissible(w) THEN yes ELSE no
    BY Zenon DEF SecondWrite
  <1> HIDE DEF w, yes, no
  <1>3. Second!TryWrite(st, a) = SecondWrite(st, a)
    BY <1>1, <1>2 DEF ChargingProfile
  <1> QED
    BY <1>3, Zenon DEF Second!Gates, SecondGates, Second!PolicyFails, PolicyReasons,
                       Second!Record, SecondRecord

(* The equation of its run over a schedule.                                 *)
Folds(it, in) ==
    it = [s \in SUBSET DOMAIN in.schedule |->
            IF s = {} THEN Second!Begin(in.graph)
            ELSE LET x == Second!Max(s)
                 IN  Second!Gates(it[s \ {x}], in.schedule[x], in.active)]

(* The second implementation's run satisfies it.                            *)
LEMMA SameRuns ==
    ASSUME ChargingProfile, NEW in \in Input, NEW it
    PROVE  Folds(it, in) <=> SecondRuns(it, in, GuardOf(in))
  <1> DEFINE one(s) == IF s = {} THEN Second!Begin(in.graph)
                       ELSE LET x == Second!Max(s)
                            IN  Second!Gates(it[s \ {x}], in.schedule[x], in.active)
             other(s) == IF s = {} THEN [working |-> in.graph, writtenTargets |-> {},
                                         accepted |-> <<>>, decisions |-> <<>>]
                         ELSE LET x == LastIn(s)
                              IN  SecondGates(it[s \ {x}], in.schedule[x], in.active,
                                              GuardOf(in)[x])
  <1>1. PICK n \in Nat : DOMAIN in.schedule = 1..n
    BY DEF Input
  <1>2. ASSUME NEW s \in SUBSET DOMAIN in.schedule
        PROVE  one(s) = other(s)
    <2>1. CASE s = {}
      BY <2>1, Zenon DEF Second!Begin
    <2>2. CASE s # {}
      <3>1. Second!Max(s) = LastIn(s)
        BY Zenon DEF Second!Max, LastIn
      <3>2. LastIn(s) \in s
        <4>1. \E i \in s : \A j \in s : i >= j
          BY <1>1, <2>2, LastOf
        <4> QED
          BY <4>1, Zenon DEF LastIn
      <3>3. GuardOf(in)[LastIn(s)] = Second!PolicyVerdict(in.schedule[LastIn(s)])
        BY <3>2 DEF GuardOf
      <3> QED
        BY <2>2, <3>1, <3>3, SameGates, Zenon
    <2> QED
      BY <2>1, <2>2
  <1> HIDE DEF one, other
  <1>3. [s \in SUBSET DOMAIN in.schedule |-> one(s)]
          = [s \in SUBSET DOMAIN in.schedule |-> other(s)]
    BY <1>2
  <1>4. Folds(it, in) <=> it = [s \in SUBSET DOMAIN in.schedule |-> one(s)]
    BY Zenon DEF Folds, one
  <1>5. SecondRuns(it, in, GuardOf(in)) <=> it = [s \in SUBSET DOMAIN in.schedule |-> other(s)]
    BY Zenon DEF SecondRuns, other
  <1> QED
    BY <1>3, <1>4, <1>5

(* The second implementation comes to the end of the schedule where the     *)
(* first does.                                                              *)
LEMMA SecondResolves ==
    ASSUME ChargingProfile, NEW in \in Input, Capped(in), NEW K, NEW D, Resolution(in, K, D),
           NEW S, Second!MakeSchedule(S) = in.schedule
    PROVE  EndsAs(in, K, D, Second!Resolve(in.graph, S, in.active))
  <1> DEFINE v == GuardOf(in)
             it == CHOOSE f : Folds(f, in)
  <1>1. Second!Resolve(in.graph, S, in.active) = it[DOMAIN in.schedule]
    BY Zenon DEF Second!Resolve, Second!FoldLeft, Second!MapThenFoldSet, Folds
  <1>2. GuardsAlike(in, v)
    <2>1. ASSUME NEW k \in 1..Len(in.schedule), NEW g \in Graph
          PROVE  v[k] \in PolicyReasons <=> ~PolicyOK(g, in.schedule[k])
      <3>1. v[k] = Second!PolicyVerdict(in.schedule[k])
        BY DEF GuardOf, Input
      <3>2. v[k] \in PolicyReasons <=> Second!PolicyFails(in.schedule[k])
        BY <3>1, Zenon DEF Second!PolicyFails, PolicyReasons
      <3> HIDE DEF v
      <3> QED
        BY <3>2, SameGuard DEF Capped
    <2> QED
      BY <2>1 DEF GuardsAlike
  <1>3. Folds(it, in)
    <2>1. \E f : Folds(f, in)
      BY <1>2, SecondRunExists, SameRuns
    <2> QED
      BY <2>1, Zenon
  <1> HIDE DEF it, v
  <1>4. SecondRuns(it, in, v)
    BY <1>3, SameRuns DEF v
  <1>5. EndsAs(in, K, D, it[DOMAIN in.schedule])
    BY <1>2, <1>4, SecondRunEnds
  <1> QED
    BY <1>1, <1>5

(* Its counting, its insertion and so its sorting are those of the first's  *)
(* proofs, which have one definition for every instance.                    *)
LEMMA SameCount ==
    ASSUME NEW S
    PROVE  Second!Cardinality(S) = Cardinality(S)
  BY Zenon DEF Second!Cardinality, Cardinality

(* Both insert an action at the same place.                                 *)
LEMMA SameInsertion ==
    ASSUME NEW a, NEW q
    PROVE  Second!Insert(a, q) = Inserted(a, q)
  BY SameCount, Zenon DEF Second!KeyOf, ScheduleKey, Second!Insert, Second!InsertAt, Inserted,
                          PutAt, Lower, Second!LexLess, LexLess

(* Both sort a set of actions to the same schedule.                         *)
LEMMA SameSort ==
    ASSUME NEW S
    PROVE  Second!MakeSchedule(S) = (CHOOSE it : SortsBy(it, S))[S]
  BY SameInsertion, Zenon DEF Second!MakeSchedule, Second!FoldSet, Second!MapThenFoldSet, SortsBy

(* It sorts the actions of a window, in whatever order it gets them, into   *)
(* the schedule of the first.                                               *)
LEMMA SameSchedule ==
    ASSUME NEW g, NEW E, EvEventRecords(E), NEW rank \in Precedences,
           NEW q, q = ScheduleActions(EvEvaluateRules(g, E, rank))
    PROVE  Second!MakeSchedule({q[k] : k \in DOMAIN q}) = q
  <1> DEFINE A == EvEvaluateRules(g, E, rank)
  <1>1. /\ q \in Seq(A) /\ \A a \in A : \E i \in 1..Len(q) : q[i] = a
    <2>1. PICK s, S : s = q /\ S = EvEvaluateRules(g, E, rank)
      OBVIOUS
    <2>2. /\ EvEventRecords(E) /\ rank \in Precedences
          /\ s = ScheduleActions(EvEvaluateRules(g, E, rank))
      BY <2>1
    <2>3. s \in Seq(S) /\ \A a \in S : \E i \in 1..Len(s) : s[i] = a
      BY <2>1, <2>2, EvWindowSchedule
    <2> QED
      BY <2>1, <2>3, Zenon
  <1>2. IsFiniteSet(A) /\ Keyed(A, 9)
    BY EvEvaluatedFinite, EvKeyed
  <1> HIDE DEF A
  <1>3. {q[k] : k \in DOMAIN q} = A
    BY <1>1
  <1>4. (CHOOSE it : SortsBy(it, A))[A] = ScheduleActions(A)
    BY <1>2, SortIsSchedule
  <1> QED
    BY <1>3, <1>4, SameSort, Zenon DEF A

(* The actions of a window are of the rules' roles.                         *)
LEMMA WindowCapped ==
    ASSUME NEW in, NEW E, EvEventRecords(E), NEW rank \in Precedences,
           in.schedule = ScheduleActions(EvEvaluateRules(in.graph, E, rank))
    PROVE  Capped(in)
  <1> DEFINE q == in.schedule
             A == EvEvaluateRules(in.graph, E, rank)
  <1>1. q \in Seq(A)
    <2>1. ScheduleActions(A) \in Seq(A)
      BY EvWindowSchedule
    <2> QED
      BY <2>1
  <1>2. ASSUME NEW a \in A
        PROVE  a.role \in DOMAIN RoleMaxPower /\ a.value \in Int
    <2>1. PICK r \in EvRules, e \in E : \E x : a = EvCreateAction(r, x, e, rank)
      BY EvEvaluatedMade
    <2>2. a.role = r.role /\ a.value \in {e.arg, r.value}
      BY <2>1 DEF EvCreateAction
    <2>3. r.role \in DOMAIN RoleMaxPower
      BY RuleRole DEF RoleMaxPower
    <2>4. r.value \in Int
      BY EvRuleFacts DEF RuleTable, IsRule, Curtailed, CurtailedPower, Plugged, MaxPower,
                         OutOfService
    <2>5. e.arg \in Int
      BY DEF EvEventRecords
    <2> QED
      BY <2>2, <2>3, <2>4, <2>5
  <1> HIDE DEF q, A
  <1>3. \A k \in 1..Len(q) : q[k] \in A
    BY <1>1
  <1> QED
    BY <1>2, <1>3 DEF Capped, q

(* A finished step compares equal.                                          *)
LEMMA FinishedAgrees ==
    ASSUME ChargingProfile, EvRequestInv, Sound
    PROVE  EvImplementationsAgree
  <1> SUFFICES ASSUME Finished
               PROVE  EvCompare(Second!Resolve(input.graph,
                                  {input.schedule[k] : k \in DOMAIN input.schedule}, input.active))
    BY DEF EvImplementationsAgree
  <1> DEFINE E == request.events
             rank == request.rank
             S == {input.schedule[k] : k \in DOMAIN input.schedule}
             st == Second!Resolve(input.graph, S, input.active)
  <1>1. /\ request \in Requests /\ input \in Input
        /\ input.schedule = ScheduleActions(EvEvaluateRules(input.graph, E, rank))
    BY DEF EvRequestInv, EvStepInput, Sound, IInv, TypeOK
  <1>2. EvEventRecords(E) /\ rank \in Precedences
    BY <1>1, RequestsTyped
  <1> HIDE DEF E, rank
  <1>3. Second!MakeSchedule(S) = input.schedule
    BY <1>1, <1>2, SameSchedule
  <1>4. Capped(input)
    BY <1>1, <1>2, WindowCapped
  <1>5. Resolution(input, accepted, decisions) /\ current = OverlayOf(input, accepted)
    BY FinishedResolution DEF Finished, Sound
  <1> HIDE DEF S
  <1>6. EndsAs(input, accepted, decisions, st)
    BY <1>1, <1>3, <1>4, <1>5, SecondResolves
  <1> HIDE DEF st
  <1>7. /\ st \in SecondState
        /\ st.working = OverlayOf(input, accepted)
        /\ Len(st.decisions) = Len(decisions)
        /\ \A k \in 1..Len(decisions) :
              SameDecision(input, accepted, decisions, st.decisions[k], k)
    BY <1>6, Zenon DEF EndsAs
  <1>8. PICK n \in Nat : /\ n = Len(decisions) /\ n = Len(input.schedule)
                         /\ DOMAIN decisions = 1..n /\ DOMAIN input.schedule = 1..n
                         /\ DOMAIN st.decisions = 1..n
    BY <1>1, <1>5, <1>7 DEF Resolution, Input, SecondState
  <1>9. [k \in DOMAIN st.decisions |-> st.decisions[k].action] = input.schedule
    <2>1. input.schedule = [k \in 1..n |-> input.schedule[k]]
      BY <1>1, <1>8 DEF Input
    <2>2. \A k \in 1..n : st.decisions[k].action = input.schedule[k]
      BY <1>7, <1>8 DEF SameDecision
    <2> QED
      BY <1>8, <2>1, <2>2
  <1>10. ASSUME NEW r, NEW p, SameReason(r, p)
         PROVE  p = CASE r \in {"policy_min_violation", "policy_role_cap_violation"} -> "policy"
                      [] r = "shadowed_by_prior_accepted_action" -> "shadowed"
                      [] OTHER -> r
    BY <1>10 DEF SameReason, PolicyReasons
  <1>11. ASSUME NEW k \in DOMAIN decisions
         PROVE  LET d == st.decisions[k] IN
                /\ d.accepted = (k \in accepted)
                /\ decisions[k].reason =
                     CASE d.reason \in {"policy_min_violation", "policy_role_cap_violation"}
                            -> "policy"
                       [] d.reason = "shadowed_by_prior_accepted_action" -> "shadowed"
                       [] OTHER -> d.reason
                /\ d.post = decisions[k].post
    <2>1. SameDecision(input, accepted, decisions, st.decisions[k], k)
      BY <1>7, <1>8
    <2> QED
      BY <1>10, <2>1, Zenon DEF SameDecision
  <1>12. EvCompare(st)
    BY <1>5, <1>7, <1>9, <1>11, Zenon DEF EvCompare
  <1> QED
    BY <1>12 DEF st, S

(* In every step of the charging cluster, under either precedence, the      *)
(* second implementation, given the actions in no order, takes the          *)
(* decisions of the first for the same reasons and passes through the same  *)
(* graphs.                                                                  *)
THEOREM ChargingImplementationsAgree ==
    ASSUME ChargingProfile
    PROVE  EvReplaySpec => []EvImplementationsAgree
  <1>1. EvReplayInv => EvImplementationsAgree
    BY FinishedAgrees DEF EvReplayInv, EvImplementationsAgree
  <1> QED
    BY <1>1, EvReplayInvariant, PTL

-----------------------------------------------------------------------------
(* The sum when one power changes.                                          *)

(* v is w but for the weight of x, which is d more.                         *)
Shifted(w, v, S, x, d) ==
    /\ w \in [S -> Int] /\ v \in [S -> Int] /\ x \in S /\ d \in Int
    /\ \A y \in S : v[y] = IF y = x THEN w[y] + d ELSE w[y]

(* The sum h over S is the sum f and d more.                                *)
SumsDiffer(f, h, S, d) == f[S] \in Int /\ h[S] = f[S] + d

(* One weight that is d more makes the sum d more.                          *)
LEMMA AddsShifted ==
    ASSUME NEW S, IsFiniteSet(S), NEW w, NEW v, NEW x, NEW d, Shifted(w, v, S, x, d),
           NEW f, NEW h, Adds(w, S, f), Adds(v, S, h)
    PROVE  SumsDiffer(f, h, S, d)
  <1>1. w \in [S -> Int] /\ v \in [S -> Int] /\ x \in S /\ d \in Int
    BY DEF Shifted
  <1> DEFINE Off(s) == IF x \in s THEN d ELSE 0
             T == {s \in SUBSET S : h[s] # f[s] + Off(s)}
             N == {Cardinality(s) : s \in T}
  <1>2. ASSUME NEW s \in SUBSET S
        PROVE  IsFiniteSet(s) /\ Cardinality(s) \in Nat /\ f[s] \in Int /\ h[s] \in Int
    BY FS_Subset, FS_CardinalityType DEF Adds
  <1>3. Off({}) = 0 /\ Off(S) = d /\ \A s : Off(s) \in Int
    BY <1>1
  <1>4. ASSUME NEW s, NEW y \in s
        PROVE  Off(s) = (IF y = x THEN d ELSE Off(s \ {y})) /\ (y = x => Off(s \ {y}) = 0)
    OBVIOUS
  <1> HIDE DEF Off
  <1>5. ASSUME T # {} PROVE FALSE
    <2>1. N # {} /\ N \subseteq Nat
      BY <1>2, <1>5
    <2>2. PICK n \in N : \A m \in N : n <= m
      BY <2>1, FirstOf, Zenon
    <2>3. PICK s \in T : Cardinality(s) = n
      BY <2>2
    <2>4. s # {}
      <3>1. f[{}] = 0 /\ h[{}] = 0
        BY DEF Adds
      <3> QED
        BY <1>3, <2>3, <3>1
    <2>5. s \in SUBSET S
      BY <2>3
    <2>6. PICK y \in s : f[s] = w[y] + f[s \ {y}] /\ h[s] = v[y] + h[s \ {y}]
      BY <2>4, <2>5, AddsBoth
    <2>7. s \ {y} \in SUBSET S /\ Cardinality(s \ {y}) < Cardinality(s)
      BY <1>2, <2>3, <2>6, FS_RemoveElement
    <2>8. h[s \ {y}] = f[s \ {y}] + Off(s \ {y})
      <3>1. Cardinality(s \ {y}) \in Nat /\ Cardinality(s) \in Nat
        BY <1>2, <2>3, <2>7
      <3> QED
        BY <2>2, <2>3, <2>7, <3>1
    <2>9. /\ v[y] \in Int /\ w[y] \in Int /\ v[y] = IF y = x THEN w[y] + d ELSE w[y]
          /\ f[s \ {y}] \in Int /\ h[s \ {y}] \in Int
      <3>1. y \in S
        BY <2>3, <2>6
      <3> QED
        BY <1>2, <1>1, <2>7, <3>1 DEF Shifted
    <2>10. Off(s) = (IF y = x THEN d ELSE Off(s \ {y})) /\ (y = x => Off(s \ {y}) = 0)
      BY <1>4
    <2>11. Off(s \ {y}) \in Int /\ h[s] # f[s] + Off(s)
      BY <1>3, <2>3
    <2> HIDE DEF T, N
    <2> QED
      BY <1>1, <2>6, <2>8, <2>9, <2>10, <2>11
  <1>6. h[S] = f[S] + Off(S)
    BY <1>5
  <1> QED
    BY <1>3, <1>2, <1>6 DEF SumsDiffer

(* From g to h only one point's power changes, from p to q.                 *)
PowerMoves(g, h, cp, p, q) ==
    /\ Power(g, cp) = {p} /\ Power(h, cp) = {q}
    /\ \A x \in ChargingPoints \ {cp} : Power(h, x) = Power(g, x)

(* The load of the feeder changes by what the one point does.               *)
LEMMA TotalShifts ==
    ASSUME NEW g, NEW h, NEW cp \in ChargingPoints, NEW p \in Int, NEW q \in Int,
           OnePower(g), PowerMoves(g, h, cp, p, q)
    PROVE  TotalPower(g) \in Int /\ TotalPower(h) = TotalPower(g) - p + q
  <1> DEFINE w == [x \in ChargingPoints |-> SumSet(Power(g, x))]
             v == [x \in ChargingPoints |-> SumSet(Power(h, x))]
  <1>1. PICK d \in Int : d = q - p
    OBVIOUS
  <1>2. ASSUME NEW x \in ChargingPoints
        PROVE  /\ SumSet(Power(g, x)) \in Int /\ SumSet(Power(h, x)) \in Int
               /\ SumSet(Power(h, x)) = IF x = cp THEN SumSet(Power(g, x)) + d
                                        ELSE SumSet(Power(g, x))
    <2>1. PICK a \in Int : Power(g, x) = {a}
      BY DEF OnePower
    <2>2. SumSet(Power(g, x)) = a
      BY <2>1, SumOfOne
    <2>3. CASE x = cp
      <3>1. a = p
        BY <2>1, <2>3 DEF PowerMoves
      <3>2. SumSet(Power(h, x)) = q
        BY <2>3, SumOfOne DEF PowerMoves
      <3> QED
        BY <1>1, <2>2, <2>3, <3>1, <3>2
    <2>4. CASE x # cp
      BY <2>2, <2>4 DEF PowerMoves
    <2> QED
      BY <2>3, <2>4
  <1>3. Shifted(w, v, ChargingPoints, cp, d)
    BY <1>1, <1>2 DEF Shifted
  <1>4. PICK f : Adds(v, ChargingPoints, f) /\ TotalPower(h) = f[ChargingPoints]
    BY <1>2, TotalIs
  <1>5. PICK e : Adds(w, ChargingPoints, e) /\ TotalPower(g) = e[ChargingPoints]
    BY <1>2, TotalIs
  <1> HIDE DEF v, w
  <1>6. SumsDiffer(e, f, ChargingPoints, d)
    BY <1>3, <1>4, <1>5, ChargingConstants, AddsShifted, Zenon
  <1> QED
    BY <1>1, <1>4, <1>5, <1>6 DEF SumsDiffer

(* Where no point draws power, neither does the feeder.                     *)
LEMMA IdleTotal ==
    ASSUME NEW g, \A cp \in ChargingPoints : Power(g, cp) = {0}
    PROVE  TotalPower(g) = 0
  <1> DEFINE w == [x \in ChargingPoints |-> SumSet(Power(g, x))]
  <1>1. \A x \in ChargingPoints : SumSet(Power(g, x)) = 0
    BY SumOfOne
  <1>2. PICK f : Adds(w, ChargingPoints, f) /\ TotalPower(g) = f[ChargingPoints]
    BY <1>1, TotalIs
  <1> DEFINE z == [s \in SUBSET ChargingPoints |-> 0]
  <1>3. w \in [ChargingPoints -> Int] /\ \A x \in ChargingPoints : w[x] = 0
    BY <1>1
  <1> HIDE DEF w
  <1>4. Adds(w, ChargingPoints, z)
    <2>1. ASSUME NEW s \in SUBSET ChargingPoints
          PROVE  z[s] = IF s = {} THEN 0
                        ELSE w[CHOOSE x \in s : TRUE] + z[s \ {CHOOSE x \in s : TRUE}]
      <3>1. CASE s = {}
        BY <3>1
      <3>2. CASE s # {}
        <4> DEFINE y == CHOOSE x \in s : TRUE
        <4>1. y \in s
          BY <3>2
        <4> HIDE DEF y
        <4>2. w[y] = 0 /\ z[s \ {y}] = 0 /\ z[s] = 0
          BY <1>3, <4>1
        <4>3. w[y] + z[s \ {y}] = 0
          BY <4>2
        <4> HIDE DEF z
        <4> QED
          BY <3>2, <4>2, <4>3 DEF y
      <3> QED
        BY <3>1, <3>2
    <2>2. z = [s \in SUBSET ChargingPoints |-> z[s]] /\ z \in [SUBSET ChargingPoints -> Int]
      OBVIOUS
    <2> HIDE DEF z
    <2> QED
      BY <2>1, <2>2 DEF Adds
  <1>5. z[ChargingPoints] = 0
    OBVIOUS
  <1> HIDE DEF z
  <1>6. LET S == ChargingPoints IN f[S] \in Int /\ z[S] \in Int /\ f[S] <= z[S] /\ z[S] <= f[S]
    <2>1. \A x \in ChargingPoints : w[x] <= w[x]
      BY <1>3
    <2> QED
      BY <1>2, <1>3, <1>4, <2>1, ChargingConstants, AddsLess, Zenon
  <1> QED
    BY <1>2, <1>5, <1>6

(* A point may be set to a power within its range exactly when it is in     *)
(* use, the feeder's state allows it, and the budget does.                  *)
LEMMA PowerWrite ==
    ASSUME NEW g, DOMAIN g = EvSlots, EvAdmissible(g), NEW cp \in ChargingPoints,
           NEW p, Power(g, cp) = {p}, NEW v \in 0..22
    PROVE  EvAdmissible([g EXCEPT ![<<cp, "power">>] = {v}]) <=>
             /\ v = 0 \/ Connector(g, cp) \subseteq {Plugged, Charging}
             /\ Curtailed \in FeederState(g) => v <= 5
             /\ TotalPower(g) - p + v <= 50
  <1> DEFINE h == [g EXCEPT ![<<cp, "power">>] = {v}]
  <1>1. ASSUME NEW x \in ChargingPoints
        PROVE  /\ Power(h, x) = IF x = cp THEN {v} ELSE Power(g, x)
               /\ Connector(h, x) = Connector(g, x)
    BY DEF Power, Connector, EvSlots
  <1>2. FeederState(h) = FeederState(g)
    BY DEF FeederState, EvSlots
  <1> HIDE DEF h
  <1>3. p \in 0..22 /\ OnePower(g)
    <2>1. p \in 0..22
      BY DEF EvAdmissible, ChargingPowerShape, MaxPower
    <2> QED
      BY <2>1, AdmissibleOnePower
  <1>4. TotalPower(h) = TotalPower(g) - p + v
    <2>1. p \in Int /\ v \in Int /\ Power(h, cp) = {v}
      BY <1>1, <1>3
    <2>2. PowerMoves(g, h, cp, p, v)
      BY <1>1, <2>1 DEF PowerMoves
    <2> QED
      BY <1>3, <2>1, <2>2, TotalShifts
  <1>5. ASSUME NEW x \in ChargingPoints
        PROVE  /\ ChargingPowerShape(h, x) /\ ConnectorStateShape(h, x)
               /\ x # cp => ConnectorPowerCoherenceShape(h, x)
    <2>1. ConnectorStateShape(h, x)
      BY <1>1 DEF EvAdmissible, ConnectorStateShape
    <2>2. CASE x = cp
      <3>1. Cardinality({v}) = 1
        BY FS_Singleton
      <3> QED
        BY <1>1, <2>1, <2>2, <3>1 DEF ChargingPowerShape, MaxPower
    <2>3. CASE x # cp
      BY <1>1, <2>1, <2>3 DEF EvAdmissible, ChargingPowerShape, ConnectorPowerCoherenceShape
    <2> QED
      BY <2>2, <2>3
  <1>6. ConnectorPowerCoherenceShape(h, cp) <=>
          (v = 0 \/ Connector(g, cp) \subseteq {Plugged, Charging})
    BY <1>1 DEF ConnectorPowerCoherenceShape, OutOfService, Plugged, Charging
  <1>7. FeederStateShape(h)
    BY <1>2 DEF EvAdmissible, FeederStateShape
  <1>8. FeederBudgetShape(h) <=> TotalPower(g) - p + v <= 50
    BY <1>4 DEF FeederBudgetShape, FeederBudget
  <1>9. CurtailmentConsistencyShape(h) <=> (Curtailed \in FeederState(g) => v <= 5)
    BY <1>1, <1>2 DEF EvAdmissible, CurtailmentConsistencyShape, CurtailedPower
  <1> QED
    BY <1>5, <1>6, <1>7, <1>8, <1>9 DEF EvAdmissible, h

(* A free point may be plugged in.                                          *)
LEMMA PlugKeepsAdmissible ==
    ASSUME NEW g, DOMAIN g = EvSlots, EvAdmissible(g), NEW cp \in ChargingPoints,
           Connector(g, cp) = {Free}
    PROVE  EvAdmissible([g EXCEPT ![<<cp, "connector">>] = {Plugged}])
  <1> DEFINE h == [g EXCEPT ![<<cp, "connector">>] = {Plugged}]
  <1>1. ASSUME NEW x \in ChargingPoints
        PROVE  /\ Connector(h, x) = IF x = cp THEN {Plugged} ELSE Connector(g, x)
               /\ Power(h, x) = Power(g, x)
    BY DEF Power, Connector, EvSlots
  <1>2. FeederState(h) = FeederState(g)
    BY DEF FeederState, EvSlots
  <1> HIDE DEF h
  <1>3. Cardinality({Plugged}) = 1
    BY FS_Singleton
  <1>4. ASSUME NEW x \in ChargingPoints
        PROVE  ChargingPowerShape(h, x) /\ ConnectorStateShape(h, x)
               /\ ConnectorPowerCoherenceShape(h, x)
    <2>1. ChargingPowerShape(h, x)
      BY <1>1 DEF EvAdmissible, ChargingPowerShape
    <2>2. ConnectorStateShape(h, x)
      BY <1>1, <1>3 DEF EvAdmissible, ConnectorStateShape
    <2>3. ConnectorPowerCoherenceShape(h, x)
      BY <1>1 DEF EvAdmissible, ConnectorPowerCoherenceShape, Plugged, OutOfService
    <2> QED
      BY <2>1, <2>2, <2>3
  <1>5. FeederStateShape(h)
    BY <1>2 DEF EvAdmissible, FeederStateShape
  <1>6. FeederBudgetShape(h)
    BY <1>1, SameBudget
  <1>7. CurtailmentConsistencyShape(h)
    BY <1>1, <1>2 DEF EvAdmissible, CurtailmentConsistencyShape
  <1> QED
    BY <1>4, <1>5, <1>6, <1>7 DEF EvAdmissible, h

-----------------------------------------------------------------------------
(* One command for a point, and at most one signal.                         *)

(* The event type of a signal; there is none without one.                   *)
SignalType(name) == IF name \in DOMAIN SignalOf THEN SignalOf[name] ELSE "none"

CommandTypes == {"ChargeRequest", "FleetSchedule", "CapacitySignal"}

(* The window of a resolution is the command c and at most the signal.      *)
OneCommand(in, K, E, c, name) ==
    /\ ResolvedRequest(in, K, E, ROLE_RANK)
    /\ in.active = DOMAIN ROLE_RANK
    /\ c \in E /\ c.type \in CommandTypes /\ c.arg \in 0..22
    /\ TotalPower(in.graph) + c.arg <= 50
    /\ name \in DOMAIN SignalOf \cup {"none"}
    /\ \A e \in E : e = c \/ (e.type = SignalType(name) /\ e.cp \in {c.cp, Feeder})
    /\ name # "none" => \E e \in E : e.type = SignalType(name)

(* What the command makes.                                                  *)
OfCommand(a, c) ==
    /\ a.rid \in {1, 2, 3} /\ a.role = EvEventRole[c.type]
    /\ a.slot = <<c.cp, "power">> /\ a.value = c.arg

(* What the signal makes.                                                   *)
OfSignal(a, in, c, name) ==
    \/ name = "plug" /\ a.rid = 6 /\ a.slot = <<c.cp, "connector">> /\ a.value = Plugged
         /\ Free \in Connector(in.graph, c.cp)
    \/ name = "fault" /\ a.rid \in {8, 9}
    \/ name = "emergency" /\ a.rid = 4
    \/ name = "emergency" /\ a.rid = 5
         /\ \E x \in ChargingPoints : /\ a.slot = <<x, "power">>
                                      /\ \E p \in Power(in.graph, x) : p > CurtailedPower

(* The names of the signals.                                                *)
LEMMA SignalTypes ==
    /\ DOMAIN SignalOf = {"plug", "fault", "emergency"}
    /\ SignalType("plug") = "PlugIn" /\ SignalType("fault") = "FaultDetected"
    /\ SignalType("emergency") = "GridEmergency" /\ SignalType("none") = "none"
  BY DEF SignalType, SignalOf

(* The command is for a charging point.                                     *)
LEMMA CommandTyped ==
    ASSUME NEW in, NEW K, NEW E, NEW c, NEW name, OneCommand(in, K, E, c, name)
    PROVE  /\ c.cp \in ChargingPoints /\ EvEventRecords(E)
           /\ <<c.cp, "power">> \in EvSlots /\ <<c.cp, "connector">> \in EvSlots
           /\ EvEventRole[c.type] \in {"driver", "fleet", "grid"}
           /\ ResolvedRequest(in, K, E, ROLE_RANK) /\ ROLE_RANK \in Precedences
  <1>1. EvEventRecords(E) /\ c \in E /\ c.type \in CommandTypes
    BY DEF OneCommand, ResolvedRequest
  <1>2. c.cp \in ChargingPoints
    BY <1>1 DEF EvEventRecords, CommandTypes
  <1>3. EvEventRole[c.type] \in {"driver", "fleet", "grid"}
    BY <1>1 DEF CommandTypes, EvEventRole
  <1> QED
    BY <1>1, <1>2, <1>3 DEF OneCommand, EvSlots, Precedences

(* Every action of the schedule is the command's or the signal's.           *)
LEMMA OfWindow ==
    ASSUME NEW in, NEW K, NEW E, NEW c, NEW name, OneCommand(in, K, E, c, name),
           NEW k \in 1..Len(in.schedule)
    PROVE  OfCommand(in.schedule[k], c) \/ OfSignal(in.schedule[k], in, c, name)
  <1>1. PICK a : a = in.schedule[k] /\ a \in EvEvaluateRules(in.graph, E, ROLE_RANK)
    BY CommandTyped, Scheduled
  <1>2. PICK r \in EvRules, e \in E : \E x \in Subjects(in.graph, r, e) :
             EvMade(a, in.graph, ROLE_RANK, r, x, e)
    BY <1>1, EvEvaluatedIff
  <1>3. PICK x \in Subjects(in.graph, r, e) : a = EvCreateAction(r, x, e, ROLE_RANK)
    BY <1>2 DEF EvMade
  <1>4. /\ a.rid = r.rid /\ a.role = r.role /\ a.slot = <<x, r.slot>>
        /\ a.value = IF r.rid \in {1, 2, 3} THEN e.arg ELSE r.value
    BY <1>3 DEF EvCreateAction
  <1>5. RuleTable(r) /\ e.type = r.type /\ EvEventRecords(E)
    <2>1. EvEventRecords(E)
      BY CommandTyped, Zenon
    <2>2. r.type # e.type => Subjects(in.graph, r, e) = {}
      BY DEF Subjects
    <2> QED
      BY <1>3, <2>1, <2>2, EvRuleFacts
  <1>6. CASE e = c
    <2>1. c.type \in CommandTypes
      BY DEF OneCommand
    <2>2. r.rid \in {1, 2, 3} /\ r.slot = "power" /\ r.role = EvEventRole[c.type]
      BY <1>5, <1>6, <2>1 DEF RuleTable, IsRule, CommandTypes, EvEventRole
    <2>3. x = e.cp
      BY <1>3, <1>5, <2>2, SubjectsTyped
    <2> QED
      BY <1>1, <1>4, <1>6, <2>2, <2>3 DEF OfCommand
  <1>7. CASE e # c
    <2>1. e.type = SignalType(name) /\ e.cp \in {c.cp, Feeder}
      BY <1>7 DEF OneCommand
    <2>2. e.type \in DOMAIN EvEventRole
      BY <1>5 DEF EvEventRecords
    <2>3. \/ name = "plug" /\ r.type = "PlugIn"
          \/ name = "fault" /\ r.type = "FaultDetected"
          \/ name = "emergency" /\ r.type = "GridEmergency"
      <3>1. name \in {"plug", "fault", "emergency", "none"}
        BY SignalTypes DEF OneCommand
      <3>2. e.type # "none"
        BY <2>2 DEF EvEventRole
      <3> QED
        BY <1>5, <2>1, <3>1, <3>2, SignalTypes
    <2>4. CASE name = "plug" /\ r.type = "PlugIn"
      <3>1. r.rid = 6 /\ r.slot = "connector" /\ r.value = Plugged
        BY <1>5, <2>4 DEF RuleTable, IsRule
      <3>2. x = e.cp /\ Free \in Connector(in.graph, x)
        BY <1>3, <3>1 DEF Subjects
      <3>3. e.cp \in ChargingPoints /\ Feeder \notin ChargingPoints
        BY <1>5, <2>4, ChargingConstants DEF EvEventRecords
      <3> QED
        BY <1>1, <1>4, <2>1, <2>4, <3>1, <3>2, <3>3 DEF OfSignal
    <2>5. CASE name = "fault" /\ r.type = "FaultDetected"
      <3>1. r.rid \in {8, 9}
        BY <1>5, <2>5 DEF RuleTable, IsRule
      <3> QED
        BY <1>1, <1>4, <2>5, <3>1 DEF OfSignal
    <2>6. CASE name = "emergency" /\ r.type = "GridEmergency"
      <3>1. r.rid = 4 \/ (r.rid = 5 /\ r.slot = "power")
        BY <1>5, <2>6 DEF RuleTable, IsRule
      <3>2. r.rid = 5 => x \in ChargingPoints /\ \E p \in Power(in.graph, x) : p > CurtailedPower
        BY <1>3 DEF Subjects
      <3> QED
        BY <1>1, <1>4, <2>6, <3>1, <3>2 DEF OfSignal
    <2> QED
      BY <2>3, <2>4, <2>5, <2>6
  <1> QED
    BY <1>6, <1>7

(* The command is on the schedule.                                          *)
LEMMA CommandIsScheduled ==
    ASSUME NEW in, NEW K, NEW E, NEW c, NEW name, OneCommand(in, K, E, c, name)
    PROVE  \E k \in 1..Len(in.schedule) :
              in.schedule[k].rid \in {1, 2, 3} /\ in.schedule[k].slot = <<c.cp, "power">>
  <1>1. PICK r \in EvRules : r.type = c.type /\ r.rid \in {1, 2, 3} /\ r.slot = "power"
    <2>1. /\ EvRule(1, 1, "ChargeRequest", "power", 0) \in EvRules
          /\ EvRule(2, 1, "FleetSchedule", "power", 0) \in EvRules
          /\ EvRule(3, 2, "CapacitySignal", "power", 0) \in EvRules
      BY DEF EvRules
    <2>2. ASSUME NEW i \in {1, 2, 3}, NEW pr, NEW t
          PROVE  LET r == EvRule(i, pr, t, "power", 0) IN
                 r.type = t /\ r.rid = i /\ r.slot = "power"
      BY DEF EvRule
    <2> QED
      BY <2>1, <2>2 DEF OneCommand, CommandTypes
  <1>2. ResolvedRequest(in, K, E, ROLE_RANK) /\ c.cp \in ChargingPoints /\ c \in E
    BY CommandTyped DEF OneCommand
  <1>3. in.graph[<<c.cp, "power">>] # {}
    <2>1. EvAdmissible(in.graph)
      BY <1>2 DEF ResolvedRequest
    <2>2. PICK p : Power(in.graph, c.cp) = {p}
      BY <1>2, <2>1, AdmissibleOnePower, Zenon
    <2> QED
      BY <2>2 DEF Power
  <1>4. c.cp \in Subjects(in.graph, r, c)
    BY <1>1, <1>3 DEF Subjects
  <1>5. OnSchedule(in, r.rid, <<c.cp, r.slot>>)
    BY <1>2, <1>4, EnabledIsScheduled, Zenon
  <1> QED
    BY <1>1, <1>5 DEF OnSchedule

-----------------------------------------------------------------------------
(* How the one command stands.                                              *)

(* Before the command nothing has more power than in the input, unless it   *)
(* was granted already.                                                     *)
LEMMA CommandFits ==
    ASSUME NEW in, NEW K, NEW E, NEW c, NEW name, OneCommand(in, K, E, c, name),
           NEW k \in 1..Len(in.schedule), ~Written(in, K, k, <<c.cp, "power">>),
           NEW g, StandsAt(in, K, ROLE_RANK, k, in.schedule[k], g)
    PROVE  \E p \in 0..22 : /\ Power(g, c.cp) = {p} /\ Power(in.graph, c.cp) = {p}
                            /\ TotalPower(g) \in Int
                            /\ TotalPower(g) - p + c.arg <= 50
  <1> DEFINE s == in.schedule
             P(x) == <<x, "power">>
  <1>1. /\ EvAdmissible(g) /\ \A x \in EvSlots : ~Written(in, K, k, x) => g[x] = in.graph[x]
        /\ EvAdmissible(in.graph) /\ c.cp \in ChargingPoints /\ K \subseteq 1..Len(s)
        /\ \A x \in EvSlots : Written(in, K, k, x) =>
             \A v \in g[x] : \E j \in K : j < k /\ s[j].slot = x /\ s[j].value = v
    BY CommandTyped DEF StandsAt, ResolvedRequest
  <1>2. PICK p \in 0..22 : Power(g, c.cp) = {p}
    BY <1>1, AdmissibleOnePower
  <1>3. Power(in.graph, c.cp) = {p}
    BY <1>1, <1>2 DEF Power, EvSlots
  <1>4. OnePower(g) /\ OnePower(in.graph)
    BY <1>1, AdmissibleOnePower
  <1>5. Lowered(in.graph, g)
    <2> SUFFICES ASSUME NEW x \in ChargingPoints, NEW a \in Power(in.graph, x),
                        NEW b \in Power(g, x)
                 PROVE  b <= a
      BY DEF Lowered
    <2>1. PICK q \in 0..22 : Power(in.graph, x) = {q}
      BY <1>1, AdmissibleOnePower
    <2>2. a = q
      BY <2>1
    <2>3. P(x) \in EvSlots
      BY DEF EvSlots
    <2>4. CASE ~Written(in, K, k, P(x))
      BY <1>1, <2>1, <2>2, <2>3, <2>4 DEF Power
    <2>5. CASE Written(in, K, k, P(x))
      <3>1. PICK j \in K : j < k /\ s[j].slot = P(x) /\ s[j].value = b
        BY <1>1, <2>3, <2>5 DEF Power
      <3>2. j \in 1..Len(s) /\ s[j].slot[2] = "power" /\ s[j].slot[1] = x
        BY <1>1, <3>1
      <3>3. x # c.cp
        BY <2>5
      <3>4. ~OfCommand(s[j], c)
        BY <3>2, <3>3 DEF OfCommand
      <3>5. OfSignal(s[j], in, c, name)
        BY <3>2, <3>4, OfWindow
      <3>6. Kind(s[j])
        BY <3>2, CommandTyped, KindAt
      <3>7. CASE s[j].rid = 9
        BY <2>1, <2>2, <3>1, <3>6, <3>7 DEF Kind, Is
      <3>8. CASE s[j].rid = 5
        <4>1. s[j].value = 5
          BY <3>6, <3>8 DEF Kind, Is, CurtailedPower
        <4>2. PICK y \in ChargingPoints : /\ s[j].slot = P(y)
                                         /\ \E z \in Power(in.graph, y) : z > 5
          BY <3>5, <3>8 DEF OfSignal, CurtailedPower
        <4>3. y = x
          BY <3>2, <4>2
        <4> QED
          BY <2>1, <2>2, <3>1, <4>1, <4>2, <4>3
      <3>9. s[j].rid \in {5, 9}
        BY <3>2, <3>5, <3>6 DEF OfSignal, Kind, Is
      <3> QED
        BY <3>7, <3>8, <3>9
    <2> QED
      BY <2>4, <2>5
  <1>6. TotalPower(g) <= TotalPower(in.graph) /\ TotalPower(g) \in Int
        /\ TotalPower(in.graph) \in Int
    BY <1>4, <1>5, TotalFalls
  <1>7. TotalPower(in.graph) + c.arg <= 50 /\ c.arg \in 0..22
    BY DEF OneCommand
  <1>8. TotalPower(g) - p + c.arg <= 50
    <2>1. PICK t, u, v : t = TotalPower(g) /\ u = TotalPower(in.graph) /\ v = c.arg
      OBVIOUS
    <2>2. t \in Int /\ u \in Int /\ v \in 0..22 /\ t <= u /\ u + v <= 50 /\ p \in 0..22
      BY <1>6, <1>7, <2>1
    <2>3. t - p + v <= 50
      BY <2>2
    <2> QED
      BY <2>1, <2>3, Zenon
  <1> QED
    BY <1>2, <1>3, <1>6, <1>8

(* The command, not granted before, is granted exactly when its point is in *)
(* use and the feeder's state allows it.                                    *)
LEMMA CommandVerdict ==
    ASSUME ChargingProfile, NEW in, NEW K, NEW E, NEW c, NEW name,
           OneCommand(in, K, E, c, name),
           NEW k \in 1..Len(in.schedule), OfCommand(in.schedule[k], c),
           NEW g, StandsAt(in, K, ROLE_RANK, k, in.schedule[k], g),
           ~Written(in, K, k, <<c.cp, "power">>)
    PROVE  k \in K <=> /\ c.arg = 0 \/ Connector(g, c.cp) \subseteq {Plugged, Charging}
                       /\ Curtailed \in FeederState(g) => c.arg <= 5
  <1>1. PICK a : a = in.schedule[k]
    OBVIOUS
  <1>2. a.slot = <<c.cp, "power">> /\ a.value = c.arg /\ a.role = EvEventRole[c.type]
    BY <1>1 DEF OfCommand
  <1>3. /\ c.cp \in ChargingPoints /\ c.arg \in 0..22
        /\ a.role \in {"driver", "fleet", "grid"} /\ in.active = DOMAIN ROLE_RANK
    <2>1. c.cp \in ChargingPoints /\ EvEventRole[c.type] \in {"driver", "fleet", "grid"}
      BY CommandTyped, Zenon
    <2> QED
      BY <1>2, <2>1 DEF OneCommand
  <1>4. PICK p \in 0..22 : Power(g, c.cp) = {p} /\ TotalPower(g) - p + c.arg <= 50
    BY CommandFits
  <1>5. a.role \in in.active
    BY <1>3 DEF ROLE_RANK
  <1>6. EvPolicyOK(g, a)
    <2>1. RoleMaxPower[a.role] = 22
      BY <1>3 DEF RoleMaxPower
    <2> QED
      BY <1>2, <1>3, <2>1 DEF EvPolicyOK, MinPower
  <1>7. /\ EvAdmissible(g) /\ DOMAIN g = EvSlots
        /\ k \in K <=> /\ a.role \in in.active
                       /\ EvPolicyOK(g, a)
                       /\ ~Written(in, K, k, a.slot)
                       /\ EvAdmissible([g EXCEPT ![a.slot] = {a.value}])
    BY <1>1 DEF StandsAt
  <1>8. k \in K <=> EvAdmissible([g EXCEPT ![<<c.cp, "power">>] = {c.arg}])
    BY <1>2, <1>5, <1>6, <1>7
  <1>9. EvAdmissible([g EXCEPT ![<<c.cp, "power">>] = {c.arg}]) <=>
             /\ c.arg = 0 \/ Connector(g, c.cp) \subseteq {Plugged, Charging}
             /\ Curtailed \in FeederState(g) => c.arg <= 5
             /\ TotalPower(g) - p + c.arg <= 50
    BY <1>3, <1>4, <1>7, PowerWrite
  <1> QED
    BY <1>4, <1>8, <1>9

(* Only an emergency touches the feeder's state, and only a plug-in or a    *)
(* fault the connector.                                                     *)
LEMMA WhoWrites ==
    ASSUME NEW in, NEW K, NEW E, NEW c, NEW name, OneCommand(in, K, E, c, name),
           NEW j \in 1..Len(in.schedule)
    PROVE  LET a == in.schedule[j] IN
           /\ a.slot[2] = "state" => name = "emergency" /\ a.rid = 4 /\ a.value = Curtailed
           /\ a.slot[2] = "connector" /\ name # "fault" =>
                /\ name = "plug" /\ a.rid = 6 /\ a.value = Plugged
                /\ a.slot = <<c.cp, "connector">> /\ Free \in Connector(in.graph, c.cp)
           /\ a.slot[2] = "power" /\ ~OfCommand(a, c) => name \in {"fault", "emergency"}
           /\ a.slot[2] = "power" /\ ~OfCommand(a, c) /\ name = "emergency" =>
                /\ a.rid = 5 /\ a.value = CurtailedPower
                /\ \E x \in ChargingPoints : /\ a.slot = <<x, "power">>
                                             /\ \E p \in Power(in.graph, x) : p > CurtailedPower
  <1>1. PICK a : a = in.schedule[j]
    OBVIOUS
  <1>2. Kind(a)
    BY <1>1, CommandTyped, KindAt
  <1>3. OfCommand(a, c) \/ OfSignal(a, in, c, name)
    BY <1>1, OfWindow
  <1>4. OfCommand(a, c) => a.slot[2] = "power"
    BY DEF OfCommand
  <1>5. OfSignal(a, in, c, name) =>
           /\ a.slot[2] = "state" => name = "emergency" /\ a.rid = 4 /\ a.value = Curtailed
           /\ a.slot[2] = "connector" /\ name # "fault" =>
                /\ name = "plug" /\ a.rid = 6 /\ a.value = Plugged
                /\ a.slot = <<c.cp, "connector">> /\ Free \in Connector(in.graph, c.cp)
           /\ a.slot[2] = "power" => name \in {"fault", "emergency"}
           /\ a.slot[2] = "power" /\ name = "emergency" =>
                /\ a.rid = 5 /\ a.value = CurtailedPower
                /\ \E x \in ChargingPoints : /\ a.slot = <<x, "power">>
                                             /\ \E p \in Power(in.graph, x) : p > CurtailedPower
    BY <1>2 DEF OfSignal, Kind, Is
  <1> QED
    BY <1>1, <1>3, <1>4, <1>5

(* The command follows what the grid does in an emergency, and a driver's   *)
(* command the plug-in.                                                     *)
LEMMA CommandFollows ==
    ASSUME NEW in, NEW K, NEW E, NEW c, NEW name, OneCommand(in, K, E, c, name),
           NEW k \in 1..Len(in.schedule), OfCommand(in.schedule[k], c),
           NEW j \in 1..Len(in.schedule)
    PROVE  /\ in.schedule[j].rid \in {4, 5} => j < k
           /\ in.schedule[j].rid = 6 => (j < k <=> EvEventRole[c.type] = "driver")
  <1>1. PICK a, b : a = in.schedule[j] /\ b = in.schedule[k]
    OBVIOUS
  <1>2. /\ Kind(a) /\ a.roleRank = ROLE_RANK[a.role]
        /\ Kind(b) /\ b.roleRank = ROLE_RANK[b.role]
    <2>1. ResolvedRequest(in, K, E, ROLE_RANK)
      BY DEF OneCommand
    <2> QED
      BY <1>1, <2>1, KindAt
  <1>3. b.rid \in {1, 2, 3} /\ b.role = EvEventRole[c.type]
    BY <1>1 DEF OfCommand
  <1>4. ROLE_RANK["grid"] = 1 /\ ROLE_RANK["fleet"] = 2 /\ ROLE_RANK["driver"] = 3
    BY DEF ROLE_RANK
  <1>5. (Before(a, b) => j < k) /\ (Before(b, a) => k < j)
    BY <1>1, CommandTyped, Scheduled
  <1>6. a.rid \in {4, 5} => Before(a, b)
    BY <1>2, <1>3, <1>4 DEF Kind, Is, Before
  <1>7. a.rid = 6 => IF b.role = "driver" THEN Before(a, b) ELSE Before(b, a)
    BY <1>2, <1>3, <1>4 DEF Kind, Is, Before
  <1> QED
    BY <1>1, <1>3, <1>5, <1>6, <1>7

(* The one element of a set is one of any set it is in.                     *)
LEMMA OneOf ==
    ASSUME NEW S, NEW T, IsFiniteSet(T), S \subseteq T, Cardinality(S) = 1
    PROVE  \E v \in T : S = {v}
  <1>1. IsFiniteSet(S)
    BY FS_Subset
  <1>2. PICK v : S = {v}
    BY <1>1, FS_Singleton
  <1> QED
    BY <1>2

(* Each point has one connector state, and the feeder one state.            *)
OneConnector(g, cp) == \E v \in 0..3 : Connector(g, cp) = {v}
OneFeederState(g) == \E f \in 0..1 : FeederState(g) = {f}

(* The shapes ask for that.                                                 *)
LEMMA OneState ==
    ASSUME NEW g, EvAdmissible(g)
    PROVE  OneFeederState(g) /\ \A cp \in ChargingPoints : OneConnector(g, cp)
  <1>1. IsFiniteSet(0..3) /\ IsFiniteSet(0..1)
    <2>1. 0 \in Int /\ 3 \in Int /\ 1 \in Int
      OBVIOUS
    <2> QED
      BY <2>1, FS_Interval, Zenon
  <1>2. ASSUME NEW cp \in ChargingPoints PROVE OneConnector(g, cp)
    <2>1. Cardinality(Connector(g, cp)) = 1 /\ Connector(g, cp) \subseteq 0..3
      BY DEF EvAdmissible, ConnectorStateShape, Free, Plugged, Charging, OutOfService
    <2> QED
      BY <1>1, <2>1, OneOf, Zenon DEF OneConnector
  <1>3. Cardinality(FeederState(g)) = 1 /\ FeederState(g) \subseteq 0..1
    BY DEF EvAdmissible, FeederStateShape, Uncurtailed, Curtailed
  <1> QED
    BY <1>1, <1>2, <1>3, OneOf, Zenon DEF OneFeederState

(* The command finds the feeder curtailed in an emergency, and as it was    *)
(* otherwise.                                                               *)
LEMMA CommandSeesFeeder ==
    ASSUME ChargingProfile, NEW in, NEW K, NEW E, NEW c, NEW name,
           OneCommand(in, K, E, c, name),
           NEW k \in 1..Len(in.schedule), OfCommand(in.schedule[k], c),
           NEW g, StandsAt(in, K, ROLE_RANK, k, in.schedule[k], g)
    PROVE  FeederState(g) = IF name = "emergency" THEN {Curtailed} ELSE FeederState(in.graph)
  <1> DEFINE F == <<Feeder, "state">>
             s == in.schedule
  <1>1. /\ ResolvedRequest(in, K, E, ROLE_RANK) /\ EvAdmissible(g)
        /\ \A x \in EvSlots : ~Written(in, K, k, x) => g[x] = in.graph[x]
        /\ \A x \in EvSlots : Written(in, K, k, x) =>
             \A v \in g[x] : \E j \in K : j < k /\ s[j].slot = x /\ s[j].value = v
    BY CommandTyped DEF StandsAt
  <1>2. F \in EvSlots /\ K \subseteq 1..Len(s) /\ F[2] = "state"
    BY <1>1 DEF EvSlots, ResolvedRequest
  <1>3. CASE name # "emergency"
    <2>1. ~Written(in, K, k, F)
      BY <1>2, <1>3, WhoWrites DEF Written
    <2> QED
      BY <1>1, <1>2, <1>3, <2>1 DEF FeederState
  <1>4. CASE name = "emergency"
    <2>1. PICK e \in E : e.type = "GridEmergency"
      BY <1>4, SignalTypes DEF OneCommand
    <2>2. ~FleetInTheWay(in, K, ROLE_RANK)
      <3>1. ROLE_RANK["grid"] = 1 /\ FleetOverGrid["grid"] = 2
        BY DEF ROLE_RANK, FleetOverGrid
      <3> QED
        BY <3>1 DEF FleetInTheWay
    <2>3. PICK j \in K : s[j].slot = F /\ s[j].value = Curtailed
      <3>1. Takes(in, K, F, Curtailed)
        BY <1>1, <2>1, <2>2, EmergencyTakes, Zenon
      <3> QED
        BY <3>1 DEF Takes
    <2>4. j < k
      <3>1. s[j].rid = 4
        BY <1>2, <2>3, WhoWrites
      <3> QED
        BY <1>2, <3>1, CommandFollows
    <2>5. \A v \in g[F] : v = Curtailed
      <3>1. Written(in, K, k, F)
        BY <2>3, <2>4 DEF Written
      <3> SUFFICES ASSUME NEW v \in g[F] PROVE v = Curtailed
        OBVIOUS
      <3>2. PICK i \in K : s[i].slot = F /\ s[i].value = v
        BY <1>1, <1>2, <3>1
      <3> QED
        BY <1>2, <3>2, WhoWrites
    <2>6. FeederState(g) # {}
      <3>1. OneFeederState(g)
        BY <1>1, OneState, Zenon
      <3> QED
        BY <3>1 DEF OneFeederState
    <2> QED
      BY <1>4, <2>5, <2>6 DEF FeederState
  <1> QED
    BY <1>3, <1>4

(* A free point is plugged in.                                              *)
LEMMA PlugTakes ==
    ASSUME ChargingProfile, NEW in, NEW K, NEW E, NEW c, NEW name,
           OneCommand(in, K, E, c, name), name = "plug", Connector(in.graph, c.cp) = {Free}
    PROVE  Takes(in, K, <<c.cp, "connector">>, Plugged)
  <1> DEFINE C == <<c.cp, "connector">>
             s == in.schedule
  <1>1. /\ ResolvedRequest(in, K, E, ROLE_RANK) /\ C \in EvSlots /\ c.cp \in ChargingPoints
        /\ K \subseteq 1..Len(s) /\ in.active = DOMAIN ROLE_RANK /\ EvEventRecords(E)
    <2>1. ResolvedRequest(in, K, E, ROLE_RANK) /\ C \in EvSlots /\ c.cp \in ChargingPoints
      BY CommandTyped, Zenon
    <2> QED
      BY <2>1 DEF ResolvedRequest, OneCommand
  <1>2. PICK e \in E : e.type = "PlugIn" /\ e.cp = c.cp
    <2>1. PICK e \in E : e.type = "PlugIn"
      BY SignalTypes DEF OneCommand
    <2>2. e # c
      BY <2>1 DEF OneCommand, CommandTypes
    <2>3. e.cp \in {c.cp, Feeder}
      BY <2>2 DEF OneCommand
    <2>4. e.cp \in ChargingPoints /\ Feeder \notin ChargingPoints
      BY <1>1, <2>1, ChargingConstants DEF EvEventRecords
    <2> QED
      BY <2>1, <2>3, <2>4
  <1>3. PICK r \in EvRules : r.rid = 6 /\ r.type = "PlugIn" /\ r.slot = "connector"
    <2>1. EvRule(6, 0, "PlugIn", "connector", Plugged) \in EvRules
      BY DEF EvRules
    <2> QED
      BY <2>1 DEF EvRule
  <1>4. c.cp \in Subjects(in.graph, r, e)
    BY <1>2, <1>3 DEF Subjects
  <1>5. PICK i \in 1..Len(s) : s[i].rid = 6 /\ s[i].slot = C
    <2>1. OnSchedule(in, r.rid, <<c.cp, r.slot>>)
      BY <1>1, <1>4, EnabledIsScheduled, Zenon
    <2> QED
      BY <1>3, <2>1 DEF OnSchedule
  <1>6. PICK g : StandsAt(in, K, ROLE_RANK, i, s[i], g)
    BY <1>1, ResolvedAt
  <1>7. /\ Kind(s[i]) /\ EvAdmissible(g) /\ DOMAIN g = EvSlots
        /\ ~Written(in, K, i, C) => g[C] = in.graph[C]
    BY <1>1, <1>6 DEF StandsAt
  <1>8. s[i].value = Plugged /\ s[i].role = "driver" /\ C[2] = "connector"
    <2>1. C[2] = "connector"
      OBVIOUS
    <2>2. s[i].role = "driver"
      BY <1>5, <1>7 DEF Kind, Is
    <2>3. s[i].value = Plugged
      BY <1>5, <2>1, WhoWrites
    <2> QED
      BY <2>1, <2>2, <2>3
  <1>9. CASE Written(in, K, i, C)
    <2>1. PICK j \in K : s[j].slot = C
      BY <1>9 DEF Written
    <2>2. s[j].value = Plugged
      BY <1>1, <1>8, <2>1, WhoWrites
    <2> QED
      BY <2>1, <2>2 DEF Takes
  <1>10. CASE ~Written(in, K, i, C)
    <2>1. Connector(g, c.cp) = {Free}
      BY <1>7, <1>10 DEF Connector
    <2>2. EvAdmissible([g EXCEPT ![s[i].slot] = {s[i].value}])
      BY <1>1, <1>5, <1>7, <1>8, <2>1, PlugKeepsAdmissible
    <2>3. EvPolicyOK(g, s[i])
      BY <1>5, <1>8 DEF EvPolicyOK
    <2>4. s[i].role \in in.active
      BY <1>1, <1>8 DEF ROLE_RANK
    <2>5. i \in K
      BY <1>5, <1>6, <1>10, <2>2, <2>3, <2>4 DEF StandsAt
    <2> QED
      BY <1>5, <1>8, <2>5 DEF Takes
  <1> QED
    BY <1>9, <1>10

(* The connector as a command finds it.                                     *)
ConnectorFound(in, c, name) ==
    IF name = "plug" /\ EvEventRole[c.type] = "driver" /\ Connector(in.graph, c.cp) = {Free}
    THEN {Plugged} ELSE Connector(in.graph, c.cp)

(* Without a fault, only a driver's command finds its point just plugged    *)
(* in.                                                                      *)
LEMMA CommandSeesConnector ==
    ASSUME ChargingProfile, NEW in, NEW K, NEW E, NEW c, NEW name,
           OneCommand(in, K, E, c, name), name # "fault",
           NEW k \in 1..Len(in.schedule), OfCommand(in.schedule[k], c),
           NEW g, StandsAt(in, K, ROLE_RANK, k, in.schedule[k], g)
    PROVE  Connector(g, c.cp) = ConnectorFound(in, c, name)
  <1> DEFINE C == <<c.cp, "connector">>
             s == in.schedule
  <1>1. /\ ResolvedRequest(in, K, E, ROLE_RANK) /\ C \in EvSlots /\ c.cp \in ChargingPoints
    BY CommandTyped, Zenon
  <1>2. /\ EvAdmissible(g) /\ EvAdmissible(in.graph)
        /\ \A x \in EvSlots : ~Written(in, K, k, x) => g[x] = in.graph[x]
        /\ \A x \in EvSlots : Written(in, K, k, x) =>
             \A v \in g[x] : \E j \in K : j < k /\ s[j].slot = x /\ s[j].value = v
        /\ K \subseteq 1..Len(s) /\ C[2] = "connector"
    BY <1>1 DEF StandsAt, ResolvedRequest
  <1>3. PICK v : Connector(in.graph, c.cp) = {v}
    <2>1. OneConnector(in.graph, c.cp)
      BY <1>1, <1>2, OneState, Zenon
    <2> QED
      BY <2>1 DEF OneConnector
  <1>4. PICK w : Connector(g, c.cp) = {w}
    <2>1. OneConnector(g, c.cp)
      BY <1>1, <1>2, OneState, Zenon
    <2> QED
      BY <2>1 DEF OneConnector
  <1>5. ASSUME NEW j \in K, s[j].slot = C
        PROVE  /\ name = "plug" /\ s[j].rid = 6 /\ s[j].value = Plugged /\ v = Free
               /\ j < k <=> EvEventRole[c.type] = "driver"
    <2>1. j \in 1..Len(s)
      BY <1>2
    <2>2. /\ name = "plug" /\ s[j].rid = 6 /\ s[j].value = Plugged
          /\ Free \in Connector(in.graph, c.cp)
      BY <1>2, <1>5, <2>1, WhoWrites
    <2>3. j < k <=> EvEventRole[c.type] = "driver"
      BY <2>1, <2>2, CommandFollows
    <2> QED
      BY <1>3, <2>2, <2>3
  <1>6. CASE Written(in, K, k, C)
    <2>1. w \in g[C]
      BY <1>4 DEF Connector
    <2>2. PICK j \in K : j < k /\ s[j].slot = C /\ s[j].value = w
      <3> HIDE DEF C
      <3> QED
        BY <1>1, <1>2, <1>6, <2>1
    <2> QED
      BY <1>3, <1>4, <1>5, <2>2 DEF ConnectorFound
  <1>7. CASE ~Written(in, K, k, C)
    <2>1. w = v
      BY <1>1, <1>2, <1>3, <1>4, <1>7 DEF Connector
    <2>2. ASSUME name = "plug", EvEventRole[c.type] = "driver", v = Free
          PROVE  FALSE
      <3>1. PICK j \in K : s[j].slot = C
        BY <1>3, <2>2, PlugTakes DEF Takes
      <3>2. j < k
        BY <1>5, <2>2, <3>1
      <3> QED
        BY <1>7, <3>1, <3>2 DEF Written
    <2> QED
      BY <1>3, <1>4, <2>1, <2>2 DEF ConnectorFound
  <1> QED
    BY <1>6, <1>7

-----------------------------------------------------------------------------
(* What the window with one command ends with.                              *)

(* cur is the end of the resolution: accepted writes are in it, and what    *)
(* none wrote is as in the input.                                           *)
EndOf(in, K, cur) ==
    /\ EvAdmissible(cur)
    /\ \A k \in K : cur[in.schedule[k].slot] = {in.schedule[k].value}
    /\ \A x \in EvSlots : (\A k \in K : in.schedule[k].slot # x) => cur[x] = in.graph[x]

(* What is taken stands at the end.                                         *)
LEMMA TakenStands ==
    ASSUME NEW in, NEW K, NEW cur, EndOf(in, K, cur), NEW slot, NEW v, Takes(in, K, slot, v)
    PROVE  cur[slot] = {v}
  BY DEF EndOf, Takes

(* The command is allowed: its point is in use, or is plugged in for it,    *)
(* and the feeder, which an emergency curtails, permits the power.          *)
Allowed(in, c, name) ==
    /\ \/ c.arg = 0
       \/ Connector(in.graph, c.cp) \subseteq {Plugged, Charging}
       \/ name = "plug" /\ EvEventRole[c.type] = "driver" /\ Connector(in.graph, c.cp) = {Free}
    /\ (IF name = "emergency" THEN TRUE ELSE FeederState(in.graph) = {Curtailed}) => c.arg <= 5

(* Where only commands write the point's power, it ends with the command's  *)
(* where that is allowed, and as it was otherwise.                          *)
LEMMA CommandDecides ==
    ASSUME ChargingProfile, NEW in, NEW K, NEW E, NEW c, NEW name,
           OneCommand(in, K, E, c, name), name # "fault",
           NEW cur, EndOf(in, K, cur),
           \A j \in 1..Len(in.schedule) :
               in.schedule[j].slot = <<c.cp, "power">> => OfCommand(in.schedule[j], c)
    PROVE  Power(cur, c.cp) = IF Allowed(in, c, name) THEN {c.arg} ELSE Power(in.graph, c.cp)
  <1> DEFINE P == <<c.cp, "power">>
             s == in.schedule
  <1>1. /\ ResolvedRequest(in, K, E, ROLE_RANK) /\ P \in EvSlots /\ c.cp \in ChargingPoints
    BY CommandTyped, Zenon
  <1>2. K \subseteq 1..Len(s) /\ EvAdmissible(in.graph)
    BY <1>1 DEF ResolvedRequest
  <1>3. ASSUME NEW k \in 1..Len(s), s[k].slot = P, ~Written(in, K, k, P)
        PROVE  k \in K <=> Allowed(in, c, name)
    <2>1. OfCommand(s[k], c)
      BY <1>3
    <2>2. PICK g : StandsAt(in, K, ROLE_RANK, k, s[k], g)
      BY <1>1, ResolvedAt
    <2>3. k \in K <=> /\ c.arg = 0 \/ Connector(g, c.cp) \subseteq {Plugged, Charging}
                      /\ Curtailed \in FeederState(g) => c.arg <= 5
      BY <1>3, <2>1, <2>2, CommandVerdict
    <2>4. FeederState(g) = IF name = "emergency" THEN {Curtailed} ELSE FeederState(in.graph)
      BY <2>1, <2>2, CommandSeesFeeder
    <2>5. Connector(g, c.cp) = ConnectorFound(in, c, name)
      BY <1>3, <2>1, <2>2, CommandSeesConnector
    <2>6. Curtailed \in FeederState(in.graph) <=> FeederState(in.graph) = {Curtailed}
      <3>1. OneFeederState(in.graph)
        BY <1>2, OneState, Zenon
      <3> QED
        BY <3>1 DEF OneFeederState
    <2> QED
      BY <2>3, <2>4, <2>5, <2>6 DEF Allowed, ConnectorFound
  <1>4. CASE \E k \in K : s[k].slot = P
    <2> DEFINE T == {k \in K : s[k].slot = P}
    <2>1. T # {} /\ T \subseteq Nat
      <3>1. K \subseteq Nat
        BY <1>2
      <3> HIDE DEF P
      <3> QED
        BY <1>4, <3>1
    <2>2. PICK k \in T : \A j \in T : k <= j
      BY <2>1, FirstOf, Zenon
    <2>3. k \in 1..Len(s) /\ s[k].slot = P /\ k \in K
      BY <1>2, <2>2
    <2>4. ~Written(in, K, k, P)
      <3>1. ASSUME NEW j \in K, j < k, s[j].slot = P PROVE FALSE
        <4>1. j \in Nat /\ k \in Nat /\ k <= j
          BY <1>2, <2>2, <2>3, <3>1
        <4> QED
          BY <3>1, <4>1
      <3> QED
        BY <3>1 DEF Written
    <2>5. Allowed(in, c, name)
      BY <1>3, <2>3, <2>4
    <2>6. cur[P] = {s[k].value} /\ s[k].value = c.arg
      BY <2>3 DEF EndOf, OfCommand
    <2> QED
      BY <2>5, <2>6 DEF Power
  <1>5. CASE \A k \in K : s[k].slot # P
    <2>1. PICK k \in 1..Len(s) : s[k].slot = P
      BY CommandIsScheduled
    <2>2. k \notin K /\ ~Written(in, K, k, P)
      BY <1>5, <2>1 DEF Written
    <2>3. ~Allowed(in, c, name)
      BY <1>3, <2>1, <2>2
    <2>4. cur[P] = in.graph[P]
      BY <1>1, <1>5 DEF EndOf
    <2> QED
      BY <2>3, <2>4 DEF Power
  <1> QED
    BY <1>4, <1>5

(* The connector ends out of service after a fault, plugged in where it was *)
(* free, and as it was otherwise.                                           *)
LEMMA ConnectorEnds ==
    ASSUME ChargingProfile, NEW in, NEW K, NEW E, NEW c, NEW name,
           OneCommand(in, K, E, c, name), NEW cur, EndOf(in, K, cur)
    PROVE  Connector(cur, c.cp) =
             CASE name = "fault" -> {OutOfService}
               [] name = "plug" /\ Connector(in.graph, c.cp) = {Free} -> {Plugged}
               [] OTHER -> Connector(in.graph, c.cp)
  <1> DEFINE C == <<c.cp, "connector">>
             s == in.schedule
  <1>1. /\ ResolvedRequest(in, K, E, ROLE_RANK) /\ C \in EvSlots /\ c.cp \in ChargingPoints
    BY CommandTyped, Zenon
  <1>2. K \subseteq 1..Len(s) /\ EvAdmissible(in.graph) /\ C[2] = "connector"
    BY <1>1 DEF ResolvedRequest
  <1>3. CASE name = "fault"
    <2>1. PICK e \in E : e.type = "FaultDetected"
      BY <1>3, SignalTypes DEF OneCommand
    <2>2. e.cp = c.cp
      <3>1. e # c
        BY <2>1 DEF OneCommand, CommandTypes
      <3>2. e.cp \in {c.cp, Feeder}
        BY <3>1 DEF OneCommand
      <3>3. e.cp \in ChargingPoints /\ Feeder \notin ChargingPoints
        BY <1>1, <2>1, ChargingConstants DEF ResolvedRequest, EvEventRecords
      <3> QED
        BY <3>2, <3>3
    <2>3. Takes(in, K, C, OutOfService)
      BY <1>1, <2>1, <2>2, FaultTakes
    <2>4. cur[C] = {OutOfService}
      <3> HIDE DEF C
      <3> QED
        BY <2>3, TakenStands
    <2> QED
      BY <1>3, <2>4 DEF Connector
  <1>4. CASE name = "plug" /\ Connector(in.graph, c.cp) = {Free}
    <2>1. Takes(in, K, C, Plugged)
      BY <1>4, PlugTakes
    <2>2. cur[C] = {Plugged}
      <3> HIDE DEF C
      <3> QED
        BY <2>1, TakenStands
    <2> QED
      BY <1>4, <2>2 DEF Connector
  <1>5. CASE name # "fault" /\ ~(name = "plug" /\ Connector(in.graph, c.cp) = {Free})
    <2>1. OneConnector(in.graph, c.cp)
      BY <1>1, <1>2, OneState, Zenon
    <2>2. \A k \in K : s[k].slot # C
      BY <1>2, <1>5, <2>1, WhoWrites DEF OneConnector
    <2>3. cur[C] = in.graph[C]
      BY <1>1, <2>2 DEF EndOf
    <2> QED
      BY <1>5, <2>3 DEF Connector
  <1> QED
    BY <1>3, <1>4, <1>5

(* The feeder ends curtailed in an emergency, and as it was otherwise.      *)
LEMMA FeederEnds ==
    ASSUME ChargingProfile, NEW in, NEW K, NEW E, NEW c, NEW name,
           OneCommand(in, K, E, c, name), NEW cur, EndOf(in, K, cur)
    PROVE  FeederState(cur) = IF name = "emergency" THEN {Curtailed} ELSE FeederState(in.graph)
  <1> DEFINE F == <<Feeder, "state">>
             s == in.schedule
  <1>1. ResolvedRequest(in, K, E, ROLE_RANK)
    BY DEF OneCommand
  <1>2. K \subseteq 1..Len(s) /\ F \in EvSlots /\ F[2] = "state"
    BY <1>1 DEF ResolvedRequest, EvSlots
  <1>3. CASE name = "emergency"
    <2>1. PICK e \in E : e.type = "GridEmergency"
      BY <1>3, SignalTypes DEF OneCommand
    <2>2. ~FleetInTheWay(in, K, ROLE_RANK)
      <3>1. ROLE_RANK["grid"] = 1 /\ FleetOverGrid["grid"] = 2
        BY DEF ROLE_RANK, FleetOverGrid
      <3> QED
        BY <3>1 DEF FleetInTheWay
    <2>3. Takes(in, K, F, Curtailed)
      BY <1>1, <2>1, <2>2, EmergencyTakes, Zenon
    <2>4. cur[F] = {Curtailed}
      BY <2>3, TakenStands, Zenon
    <2> QED
      BY <1>3, <2>4 DEF FeederState
  <1>4. CASE name # "emergency"
    <2>1. \A k \in K : s[k].slot # F
      BY <1>2, <1>4, WhoWrites
    <2>2. cur[F] = in.graph[F]
      BY <1>2, <2>1 DEF EndOf
    <2> QED
      BY <1>4, <2>2 DEF FeederState
  <1> QED
    BY <1>3, <1>4

(* The power p of the command's point before the step, and what it is after.*)
PowerBefore(in, c, p) == Power(in.graph, c.cp) = {p}

PowerAfter(in, c, name, p) ==
    CASE name = "fault" -> {0}
      [] name = "emergency" /\ p > CurtailedPower -> {CurtailedPower}
      [] OTHER -> IF Allowed(in, c, name) THEN {c.arg} ELSE {p}

(* The power ends at zero after a fault, reduced in an emergency, and as    *)
(* the command decides otherwise.                                           *)
LEMMA PowerEnds ==
    ASSUME ChargingProfile, NEW in, NEW K, NEW E, NEW c, NEW name,
           OneCommand(in, K, E, c, name), NEW cur, EndOf(in, K, cur),
           NEW p, PowerBefore(in, c, p)
    PROVE  Power(cur, c.cp) = PowerAfter(in, c, name, p)
  <1> DEFINE P == <<c.cp, "power">>
             s == in.schedule
  <1>1. /\ ResolvedRequest(in, K, E, ROLE_RANK) /\ P \in EvSlots /\ c.cp \in ChargingPoints
    BY CommandTyped, Zenon
  <1>2. K \subseteq 1..Len(s) /\ EvAdmissible(in.graph) /\ P[2] = "power"
    BY <1>1 DEF ResolvedRequest
  <1>3. Power(in.graph, c.cp) = {p}
    BY DEF PowerBefore
  <1>4. CASE name = "fault"
    <2>1. Connector(cur, c.cp) = {OutOfService}
      BY <1>4, ConnectorEnds
    <2>2. EvAdmissible(cur)
      BY DEF EndOf
    <2>3. PICK q \in 0..22 : Power(cur, c.cp) = {q}
      BY <1>1, <2>2, AdmissibleOnePower
    <2>4. q = 0
      BY <1>1, <2>1, <2>2, <2>3 DEF EvAdmissible, ConnectorPowerCoherenceShape
    <2> QED
      BY <1>4, <2>3, <2>4 DEF PowerAfter
  <1>5. CASE name = "emergency" /\ p > CurtailedPower
    <2>1. PICK e \in E : e.type = "GridEmergency"
      BY <1>5, SignalTypes DEF OneCommand
    <2>2. PICK r \in EvRules : r.rid = 5
      BY EvRuleFacts
    <2>3. r.type = "GridEmergency" /\ r.slot = "power"
      BY <2>2, EvRuleFacts DEF RuleTable, IsRule
    <2>4. c.cp \in Subjects(in.graph, r, e)
      BY <1>3, <1>1, <1>5, <2>1, <2>2, <2>3 DEF Subjects
    <2>5. PICK i \in 1..Len(s) : s[i].rid = 5 /\ s[i].slot = P
      <3>1. OnSchedule(in, r.rid, <<c.cp, r.slot>>)
        BY <1>1, <2>4, EnabledIsScheduled, Zenon
      <3> QED
        BY <2>2, <2>3, <3>1 DEF OnSchedule
    <2>6. ASSUME NEW j \in 1..Len(s), s[j].slot = P, OfCommand(s[j], c) PROVE i < j
      BY <2>5, <2>6, CommandFollows
    <2>7. Takes(in, K, P, CurtailedPower)
      <3>1. CASE Written(in, K, i, P)
        <4>1. PICK j \in K : j < i /\ s[j].slot = P
          BY <3>1 DEF Written
        <4>2. j \in 1..Len(s) /\ ~OfCommand(s[j], c)
          BY <1>2, <2>6, <4>1
        <4>3. s[j].value = CurtailedPower
          BY <1>2, <1>5, <4>1, <4>2, WhoWrites
        <4> QED
          BY <4>1, <4>3 DEF Takes
      <3>2. CASE ~Written(in, K, i, P)
        <4>1. \E q \in Power(in.graph, c.cp) : q > 5
          BY <1>3, <1>5 DEF CurtailedPower
        <4>2. i \in K
          BY <1>1, <2>5, <3>2, <4>1, LoweringAccepted
        <4>3. Kind(s[i])
          BY <1>1, KindAt
        <4>4. s[i].value = CurtailedPower
          BY <2>5, <4>3 DEF Kind, Is
        <4> QED
          BY <2>5, <4>2, <4>4 DEF Takes
      <3> QED
        BY <3>1, <3>2
    <2>8. cur[P] = {CurtailedPower}
      <3> HIDE DEF P
      <3> QED
        BY <2>7, TakenStands
    <2> QED
      BY <1>5, <2>8 DEF Power, PowerAfter
  <1>6. CASE name # "fault" /\ ~(name = "emergency" /\ p > CurtailedPower)
    <2>1. ASSUME NEW j \in 1..Len(s), s[j].slot = P, ~OfCommand(s[j], c) PROVE FALSE
      <3>1. name = "emergency"
        BY <1>2, <1>6, <2>1, WhoWrites
      <3>2. PICK x \in ChargingPoints : /\ s[j].slot = <<x, "power">>
                                        /\ \E q \in Power(in.graph, x) : q > CurtailedPower
        BY <1>2, <2>1, <3>1, WhoWrites
      <3>3. x = c.cp
        BY <2>1, <3>2
      <3> QED
        BY <1>3, <1>6, <3>1, <3>2, <3>3
    <2>2. Power(cur, c.cp) = IF Allowed(in, c, name) THEN {c.arg} ELSE Power(in.graph, c.cp)
      BY <1>6, <2>1, CommandDecides
    <2> QED
      BY <1>3, <1>6, <2>2 DEF PowerAfter
  <1> QED
    BY <1>4, <1>5, <1>6

-----------------------------------------------------------------------------
(* The states a step passes through are admissible where it begins so.      *)
EvPrefixesInv == phase = "run" => PrefixesAdmissible

(* At the beginning of a call only the input has been passed through.       *)
LEMMA BegunPrefixes == Begun => PrefixesAdmissible
  <1> SUFFICES ASSUME Begun, Admissible(input.graph), NEW k \in 1..Turn
               PROVE  Admissible(OverlayOf(input, Earlier(accepted, k)))
    BY DEF PrefixesAdmissible
  <1>1. Earlier(accepted, k) = {} /\ input.graph \in Graph
    BY DEF Begun, Earlier, Input
  <1>2. OverlayOf(input, {}) = input.graph
    BY <1>1 DEF OverlayOf, Graph
  <1> QED
    BY <1>1, <1>2

(* The invariant holds throughout, since only the resolver's steps change   *)
(* a step.                                                                  *)
LEMMA EvPrefixesInvariant ==
    ASSUME ChargingProfile
    PROVE  EvReplaySpec => []EvPrefixesInv
  <1>1. EvReplayInit => EvPrefixesInv
    <2> SUFFICES ASSUME EvReplayInit PROVE PrefixesAdmissible
      BY DEF EvPrefixesInv
    <2>1. Begun
      BY StepInputTyped DEF EvReplayInit, PipelineInit, Begun
    <2> QED
      BY <2>1, BegunPrefixes
  <1>2. EvReplayInv /\ EvPrefixesInv /\ [EvReplayNext]_<<evVars, evReplayVars>> => EvPrefixesInv'
    <2> SUFFICES ASSUME EvReplayInv, EvPrefixesInv, [EvReplayNext]_<<evVars, evReplayVars>>
                 PROVE  EvPrefixesInv'
      OBVIOUS
    <2>1. ASSUME phase = "run", phase' = "run", [Next]_resolverVars PROVE EvPrefixesInv'
      <3>1. IInv /\ PrefixesAdmissible
        BY <2>1 DEF EvReplayInv, Sound, EvPrefixesInv
      <3>2. PrefixesAdmissible'
        BY <2>1, <3>1, PrefixesKeep
      <3> QED
        BY <3>2 DEF EvPrefixesInv
    <2>2. phase' # "run" => EvPrefixesInv'
      BY DEF EvPrefixesInv
    <2>3. CASE EvResolveNext
      <3>1. phase' = phase
        BY <2>3 DEF EvResolveNext, evReplayVars
      <3>2. phase = "run" => shapesPath = Shipped
        BY DEF EvReplayInv
      <3>3. phase = "run" => Next
        BY <2>3, <3>2, ShippedResolves, Zenon
      <3> QED
        BY <2>1, <2>2, <3>1, <3>3
    <2>4. CASE UNCHANGED <<evVars, evReplayVars>>
      <3>1. UNCHANGED resolverVars /\ phase' = phase
        BY <2>4 DEF evVars, evReplayVars
      <3> QED
        BY <2>1, <2>2, <3>1
    <2>5. CASE \/ RecordTrace \/ EditTrace \/ ReplayTraceRaises \/ ReplayTrace
               \/ ReplayReturns \/ ReplayRaises
      <3>1. phase' # "run"
        BY <2>5 DEF RecordTrace, EditTrace, ReplayTraceRaises, ReplayTrace, ReplayReturns, ReplayRaises
      <3> QED
        BY <2>2, <3>1
    <2> QED
      BY <2>3, <2>4, <2>5 DEF EvReplayNext
  <1> QED
    BY <1>1, <1>2, EvReplayInvariant, PTL DEF EvReplaySpec

(* A finished step from an admissible state is the resolution of its        *)
(* request, and ends with the accepted writes.                              *)
LEMMA FinishedEnds ==
    ASSUME ChargingProfile, StepInv, Finished, Admissible(input.graph)
    PROVE  /\ ResolvedRequest(input, accepted, request.events, request.rank)
           /\ EndOf(input, accepted, current)
           /\ input.graph = request.graph /\ input.active = request.active
  <1>1. input.graph = request.graph /\ input.active = request.active
    BY DEF StepInv, EvRequestInv, EvStepInput
  <1>2. /\ ResolvedRequest(input, accepted, request.events, request.rank)
        /\ EvAdmissible(current)
        /\ \A k \in accepted : current[input.schedule[k].slot] = {input.schedule[k].value}
    BY <1>1, FinishedIsResolved
  <1>3. current = OverlayOf(input, accepted)
    BY FinishedResolution DEF Finished, StepInv
  <1>4. \A x \in EvSlots : (\A k \in accepted : input.schedule[k].slot # x) =>
                               current[x] = input.graph[x]
    BY <1>3 DEF OverlayOf, ChargingProfile
  <1> QED
    BY <1>1, <1>2, <1>4 DEF EndOf

-----------------------------------------------------------------------------
(* The oracle of the one-point matrix.                                      *)

(* The only signal of the window has the name it goes by.                   *)
LEMMA SignalNamed ==
    ASSUME NEW e, Signals = {e}
    PROVE  SignalName \in DOMAIN SignalOf /\ e.type = SignalType(SignalName)
  <1>1. PICK s \in DOMAIN SignalOf : SignalOf[s] = e.type
    BY DEF Signals
  <1>2. \E q \in DOMAIN SignalOf : \A x \in Signals : SignalOf[q] = x.type
    BY <1>1
  <1>3. SignalName = CHOOSE q \in DOMAIN SignalOf : \A x \in Signals : SignalOf[q] = x.type
    BY DEF SignalName
  <1>4. SignalName \in DOMAIN SignalOf /\ \A x \in Signals : SignalOf[SignalName] = x.type
    BY <1>2, <1>3, Zenon
  <1> QED
    BY <1>4 DEF SignalType

(* A step of one point is one command and at most one signal.               *)
LEMMA OnePointIsCommand ==
    ASSUME ResolvedRequest(input, accepted, request.events, request.rank),
           input.active = request.active, OnePoint, NEW c \in Commands
    PROVE  OneCommand(input, accepted, request.events, c, SignalName)
  <1>1. /\ Cardinality(Commands) = 1 /\ Cardinality(Signals) <= 1
        /\ request.events = Commands \cup Signals
        /\ \A e \in Signals : e.cp \in {c.cp, Feeder}
        /\ c.arg \in MinPower..MaxPower
        /\ TotalPower(input.graph) + c.arg <= FeederBudget
        /\ request.rank = ROLE_RANK /\ request.active = DOMAIN ROLE_RANK
    BY DEF OnePoint
  <1>2. IsFiniteSet(Commands) /\ IsFiniteSet(Signals)
    <2>1. IsFiniteSet(request.events)
      BY DEF ResolvedRequest, EvEventRecords
    <2> QED
      BY <1>1, <2>1, FS_Subset
  <1>3. Commands = {c}
    BY <1>1, <1>2, FS_Singleton
  <1>4. c.type \in CommandTypes /\ c \in request.events
    BY DEF Commands, CommandOf, CommandTypes
  <1>5. CASE Signals = {}
    <2>1. SignalName = "none"
      BY <1>5 DEF SignalName
    <2> QED
      BY <1>1, <1>3, <1>4, <1>5, <2>1 DEF OneCommand, MinPower, MaxPower, FeederBudget
  <1>6. CASE Signals # {}
    <2>1. Cardinality(Signals) = 1
      <3>1. Cardinality(Signals) # 0 /\ Cardinality(Signals) \in Nat
        BY <1>2, <1>6, FS_EmptySet, FS_CardinalityType
      <3> QED
        BY <1>1, <3>1
    <2>2. PICK e : Signals = {e}
      BY <1>2, <2>1, FS_Singleton
    <2>3. SignalName \in DOMAIN SignalOf /\ e.type = SignalType(SignalName)
      BY <2>2, SignalNamed
    <2>4. /\ \A x \in request.events :
               x = c \/ (x.type = SignalType(SignalName) /\ x.cp \in {c.cp, Feeder})
          /\ e \in request.events
      BY <1>1, <1>3, <2>2, <2>3
    <2> QED
      BY <1>1, <1>4, <2>3, <2>4 DEF OneCommand, MinPower, MaxPower, FeederBudget
  <1> QED
    BY <1>5, <1>6

(* A finished step of one point ends as the oracle says.                    *)
LEMMA OneStepAgrees ==
    ASSUME ChargingProfile, NEW in, NEW K, NEW E, NEW c, NEW name,
           OneCommand(in, K, E, c, name), NEW cur, EndOf(in, K, cur),
           NEW p \in Power(in.graph, c.cp), NEW k \in Connector(in.graph, c.cp),
           NEW f \in FeederState(in.graph)
    PROVE  <<Power(cur, c.cp), Connector(cur, c.cp), FeederState(cur)>>
                = MatrixOracle(k, p, f, EvEventRole[c.type], c.arg, name)
  <1>1. ResolvedRequest(in, K, E, ROLE_RANK) /\ c.cp \in ChargingPoints
    BY CommandTyped, Zenon
  <1>2. EvAdmissible(in.graph)
    BY <1>1 DEF ResolvedRequest
  <1>3. Power(in.graph, c.cp) = {p}
    <2>1. \E q \in 0..22 : Power(in.graph, c.cp) = {q}
      BY <1>1, <1>2, AdmissibleOnePower, Zenon
    <2> QED
      BY <2>1
  <1>4. Connector(in.graph, c.cp) = {k} /\ FeederState(in.graph) = {f}
    <2>1. OneConnector(in.graph, c.cp) /\ OneFeederState(in.graph)
      BY <1>1, <1>2, OneState, Zenon
    <2> QED
      BY <2>1 DEF OneConnector, OneFeederState
  <1>5. Connector(cur, c.cp) = {CASE name = "fault" -> OutOfService
                                  [] name = "plug" /\ k = Free -> Plugged
                                  [] OTHER -> k}
    <2>1. Connector(in.graph, c.cp) = {Free} <=> k = Free
      BY <1>4
    <2>2. Connector(cur, c.cp) =
             CASE name = "fault" -> {OutOfService}
               [] name = "plug" /\ Connector(in.graph, c.cp) = {Free} -> {Plugged}
               [] OTHER -> Connector(in.graph, c.cp)
      BY ConnectorEnds
    <2> QED
      BY <1>4, <2>1, <2>2
  <1>6. FeederState(cur) = {IF name = "emergency" THEN Curtailed ELSE f}
    <2>1. FeederState(cur) = IF name = "emergency" THEN {Curtailed} ELSE FeederState(in.graph)
      BY FeederEnds
    <2> QED
      BY <1>4, <2>1
  <1>7. Allowed(in, c, name) <=>
           /\ c.arg = 0 \/ ReadyForCommand(k, EvEventRole[c.type], name)
           /\ (IF name = "emergency" THEN Curtailed ELSE f) = Curtailed => c.arg <= CurtailedPower
    BY <1>4 DEF Allowed, ReadyForCommand, CurtailedPower
  <1>8. Power(cur, c.cp) = PowerAfter(in, c, name, p)
    <2>1. PowerBefore(in, c, p)
      BY <1>3 DEF PowerBefore
    <2> QED
      BY <2>1, PowerEnds
  <1> DEFINE feeder == IF name = "emergency" THEN Curtailed ELSE f
             allowed == /\ c.arg = 0 \/ ReadyForCommand(k, EvEventRole[c.type], name)
                        /\ feeder = Curtailed => c.arg <= CurtailedPower
             connector == CASE name = "fault" -> OutOfService
                            [] name = "plug" /\ k = Free -> Plugged
                            [] OTHER -> k
             power == CASE name = "fault" -> 0
                        [] name = "emergency" /\ p > CurtailedPower -> CurtailedPower
                        [] OTHER -> IF allowed THEN c.arg ELSE p
  <1>9. Power(cur, c.cp) = {power}
    BY <1>7, <1>8 DEF PowerAfter
  <1>10. Connector(cur, c.cp) = {connector} /\ FeederState(cur) = {feeder}
    BY <1>5, <1>6
  <1>11. MatrixOracle(k, p, f, EvEventRole[c.type], c.arg, name)
           = <<{power}, {connector}, {feeder}>>
    BY DEF MatrixOracle
  <1> HIDE DEF power, connector, feeder
  <1> QED
    BY <1>9, <1>10, <1>11

-----------------------------------------------------------------------------
(* The budget boundary.                                                     *)

(* Three requests from the base state, the third of v.                      *)
ThreeRequests(in, K, v) ==
    /\ v \in {9, 10, 11}
    /\ ResolvedRequest(in, K, BudgetRun(v).events, ROLE_RANK)
    /\ in.graph = BudgetRun(v).graph /\ in.active = DOMAIN ROLE_RANK

(* What the n-th request asks for.                                          *)
Asked(n, v) == IF n = 3 THEN v ELSE 20

(* a is the action of the n-th request.                                     *)
Asks(a, n, v) ==
    /\ a.rid = 1 /\ a.role = "driver" /\ a.slot = <<n, "power">> /\ a.value = Asked(n, v)
    /\ a.roleRank = 3 /\ a.priority = 1 /\ a.ts = 1 /\ a.bind = Text(0) \o <<n, n>>

(* The events are one request for each of the points 1 to 3.                *)
LEMMA BudgetEvents ==
    ASSUME NEW v
    PROVE  /\ BudgetRun(v).graph = PrimedState(<<>>, <<>>)
           /\ \A e \in BudgetRun(v).events : \E n \in 1..3 :
                /\ e.eid = n /\ e.cp = n /\ e.type = "ChargeRequest" /\ e.ts = 1
                /\ e.arg = Asked(n, v)
           /\ \A n \in 1..3 : \E e \in BudgetRun(v).events : e.cp = n /\ e.type = "ChargeRequest"
  <1>1. BudgetRun(v).events =
           {At(1, "ChargeRequest", 1, 20), At(2, "ChargeRequest", 2, 20),
            At(3, "ChargeRequest", 3, v)}
    BY DEF BudgetRun, Run
  <1>2. BudgetRun(v).graph = PrimedState(<<>>, <<>>)
    BY DEF BudgetRun, Run
  <1>3. ASSUME NEW n \in 1..3
        PROVE  LET e == At(n, "ChargeRequest", n, Asked(n, v)) IN
               /\ e.eid = n /\ e.cp = n /\ e.type = "ChargeRequest" /\ e.ts = 1
               /\ e.arg = Asked(n, v)
    BY DEF At
  <1>4. Asked(1, v) = 20 /\ Asked(2, v) = 20 /\ Asked(3, v) = v
    BY DEF Asked
  <1> QED
    BY <1>1, <1>2, <1>3, <1>4

(* The base state: no point draws power, each is plugged in, and the feeder *)
(* is not curtailed.                                                        *)
LEMMA BaseState ==
    ASSUME NEW g, g = PrimedState(<<>>, <<>>)
    PROVE  /\ \A cp \in ChargingPoints : Power(g, cp) = {0} /\ Connector(g, cp) = {Plugged}
           /\ FeederState(g) = {Uncurtailed}
  <1>1. DOMAIN <<>> = {}
    OBVIOUS
  <1>2. ASSUME NEW s \in EvSlots
        PROVE  /\ s[2] = "power" => g[s] = {0}
               /\ s[2] = "connector" => g[s] = {Plugged}
               /\ s[2] = "state" => g[s] = {Uncurtailed}
    BY <1>1 DEF PrimedState
  <1> QED
    BY <1>2 DEF Power, Connector, FeederState, EvSlots

(* The actions of the schedule are those of the requests.                   *)
LEMMA AllAsk ==
    ASSUME NEW in, NEW K, NEW v, ThreeRequests(in, K, v)
    PROVE  /\ 1..3 \subseteq ChargingPoints
           /\ \A k \in 1..Len(in.schedule) : \E n \in 1..3 : Asks(in.schedule[k], n, v)
           /\ \A n \in 1..3 : \E k \in 1..Len(in.schedule) : Asks(in.schedule[k], n, v)
  <1> DEFINE E == BudgetRun(v).events
  <1>1. /\ ResolvedRequest(in, K, E, ROLE_RANK) /\ EvEventRecords(E)
        /\ ROLE_RANK \in Precedences /\ EvAdmissible(in.graph)
    BY DEF ThreeRequests, ResolvedRequest
  <1>2. /\ \A e \in E : \E n \in 1..3 :
                /\ e.eid = n /\ e.cp = n /\ e.type = "ChargeRequest" /\ e.ts = 1
                /\ e.arg = Asked(n, v)
        /\ \A n \in 1..3 : \E e \in E : e.cp = n /\ e.type = "ChargeRequest"
    BY BudgetEvents
  <1> HIDE DEF E
  <1>3. 1..3 \subseteq ChargingPoints
    BY <1>1, <1>2 DEF EvEventRecords
  <1>4. ASSUME NEW k \in 1..Len(in.schedule)
        PROVE  \E n \in 1..3 : Asks(in.schedule[k], n, v)
    <2>1. PICK a : a = in.schedule[k] /\ a \in EvEvaluateRules(in.graph, E, ROLE_RANK)
      BY <1>1, Scheduled
    <2>2. PICK r \in EvRules, e \in E : \E x \in Subjects(in.graph, r, e) :
               EvMade(a, in.graph, ROLE_RANK, r, x, e)
      BY <2>1, EvEvaluatedIff
    <2>3. PICK x \in Subjects(in.graph, r, e) : a = EvCreateAction(r, x, e, ROLE_RANK)
      BY <2>2 DEF EvMade
    <2>4. PICK n \in 1..3 : /\ e.eid = n /\ e.cp = n /\ e.type = "ChargeRequest" /\ e.ts = 1
                            /\ e.arg = Asked(n, v)
      BY <1>2
    <2>5. r.type = "ChargeRequest" /\ RuleTable(r)
      <3>1. r.type # e.type => Subjects(in.graph, r, e) = {}
        BY DEF Subjects
      <3> QED
        BY <2>3, <2>4, <3>1, EvRuleFacts
    <2>6. r.rid = 1 /\ r.priority = 1 /\ r.role = "driver" /\ r.slot = "power"
      BY <2>5 DEF RuleTable, IsRule
    <2>7. x = n
      BY <1>1, <2>3, <2>4, <2>6, SubjectsTyped
    <2>8. /\ a.rid = r.rid /\ a.priority = r.priority /\ a.role = r.role
          /\ a.roleRank = ROLE_RANK[r.role] /\ a.ts = e.ts
          /\ a.bind = Text(0) \o <<x, e.eid>>
          /\ a.slot = <<x, r.slot>> /\ a.value = e.arg
      BY <2>3, <2>6 DEF EvCreateAction, EvBindKey
    <2>9. ROLE_RANK["driver"] = 3
      BY DEF ROLE_RANK
    <2>10. Asks(a, n, v)
      BY <2>4, <2>6, <2>7, <2>8, <2>9, Zenon DEF Asks
    <2> QED
      BY <2>1, <2>10
  <1>5. ASSUME NEW n \in 1..3
        PROVE  \E k \in 1..Len(in.schedule) : Asks(in.schedule[k], n, v)
    <2>1. PICK e \in E : e.cp = n /\ e.type = "ChargeRequest"
      BY <1>2
    <2>2. PICK r \in EvRules : r.rid = 1 /\ r.type = "ChargeRequest" /\ r.slot = "power"
      <3>1. EvRule(1, 1, "ChargeRequest", "power", 0) \in EvRules
        BY DEF EvRules
      <3> QED
        BY <3>1 DEF EvRule
    <2>3. Power(in.graph, n) # {}
      <3>1. n \in ChargingPoints
        BY <1>3
      <3>2. \E q \in 0..22 : Power(in.graph, n) = {q}
        BY <1>1, <3>1, AdmissibleOnePower, Zenon
      <3> QED
        BY <3>2
    <2>4. n \in Subjects(in.graph, r, e)
      BY <2>1, <2>2, <2>3 DEF Subjects, Power
    <2>5. OnSchedule(in, r.rid, <<n, r.slot>>)
      BY <1>1, <2>4, EnabledIsScheduled, Zenon
    <2>6. PICK k \in 1..Len(in.schedule) : in.schedule[k].slot = <<n, "power">>
      BY <2>2, <2>5 DEF OnSchedule
    <2>7. PICK m \in 1..3 : Asks(in.schedule[k], m, v)
      BY <1>4
    <2>8. m = n
      BY <2>6, <2>7 DEF Asks
    <2> QED
      BY <2>7, <2>8
  <1> QED
    BY <1>3, <1>4, <1>5

(* The key of a request's action.                                           *)
AskKey(k, n) ==
    /\ k \in Keys(9)
    /\ k[1] = 3 /\ k[2] = 1 /\ k[3] = 1 /\ k[4] = 1
    /\ \A i \in 1..3 : k[4 + i] = Text(0)[i]
    /\ k[8] = n /\ k[9] = n

(* Two such keys differ only in the number of the request.                  *)
LEMMA AskKeys ==
    ASSUME NEW a, NEW n \in 1..3, NEW v, Asks(a, n, v)
    PROVE  AskKey(ScheduleKey(a), n)
  <1>1. PICK t, u : t = Text(0) /\ u = <<n, n>>
    OBVIOUS
  <1>2. t \in Seq(Int) /\ Len(t) = 3
    <2>1. 0 \in -99..99
      OBVIOUS
    <2> QED
      BY <1>1, <2>1, TextLength
  <1>3. u \in Seq(Int) /\ Len(u) = 2 /\ u[1] = n /\ u[2] = n
    BY <1>1
  <1>4. PICK b : b = t \o u /\ b = a.bind
    BY <1>1 DEF Asks
  <1>5. Follows(b, t, 3, u, 2)
    <2>1. Follows(t \o u, t, Len(t), u, Len(u))
      BY <1>2, <1>3, JoinedAs
    <2> QED
      BY <1>2, <1>3, <1>4, <2>1, Zenon
  <1>6. /\ b \in Seq(Int) /\ Len(b) = 5 /\ \A i \in 1..3 : b[i] = t[i]
        /\ b[4] = n /\ b[5] = n
    <2>1. b[3 + 1] = u[1] /\ b[3 + 2] = u[2]
      BY <1>5 DEF Follows
    <2> QED
      BY <1>3, <1>5, <2>1 DEF Follows
  <1>7. PICK k : k = ScheduleKey(a)
    OBVIOUS
  <1>8. /\ k \in Keys(4 + 5)
        /\ k[1] = a.roleRank /\ k[2] = a.priority /\ k[3] = a.ts /\ k[4] = a.rid
        /\ \A i \in 1..5 : k[4 + i] = b[i]
    <2>1. a.roleRank = 3 /\ a.priority = 1 /\ a.ts = 1 /\ a.rid = 1
      BY DEF Asks
    <2>2. a.roleRank \in Int /\ a.priority \in Int /\ a.ts \in Int /\ a.rid \in Int
      BY <2>1
    <2>3. a.bind \in Seq(Int) /\ Len(a.bind) = 5 /\ 5 \in Nat
      BY <1>4, <1>6
    <2>4. /\ k \in Keys(4 + 5)
          /\ k[1] = a.roleRank /\ k[2] = a.priority /\ k[3] = a.ts /\ k[4] = a.rid
          /\ \A i \in 1..5 : k[4 + i] = a.bind[i]
      BY <1>7, <2>2, <2>3, KeyParts, Zenon
    <2> QED
      BY <1>4, <2>4, Zenon
  <1>9. /\ \A i \in 1..3 : k[4 + i] = t[i]
        /\ k[8] = n /\ k[9] = n
    <2>1. \A i \in 1..3 : k[4 + i] = b[i]
      BY <1>8
    <2>2. k[4 + 4] = b[4] /\ k[4 + 5] = b[5]
      BY <1>8
    <2> QED
      BY <1>6, <2>1, <2>2
  <1>10. AskKey(k, n)
    <2>1. 4 + 5 = 9
      OBVIOUS
    <2>2. k \in Keys(9)
      BY <1>8, <2>1, Zenon
    <2>3. k[1] = 3 /\ k[2] = 1 /\ k[3] = 1 /\ k[4] = 1
      BY <1>8 DEF Asks
    <2> QED
      BY <1>1, <1>9, <2>2, <2>3 DEF AskKey
  <1> QED
    BY <1>7, <1>10

(* The requests are scheduled in the order of their points.                 *)
LEMMA AskOrder ==
    ASSUME NEW in, NEW K, NEW v, ThreeRequests(in, K, v),
           NEW i \in 1..Len(in.schedule), NEW j \in 1..Len(in.schedule),
           NEW n \in 1..3, NEW m \in 1..3, Asks(in.schedule[i], n, v), Asks(in.schedule[j], m, v)
    PROVE  i < j <=> n < m
  <1>1. /\ EvEventRecords(BudgetRun(v).events) /\ ROLE_RANK \in Precedences
        /\ in.schedule = ScheduleActions(EvEvaluateRules(in.graph, BudgetRun(v).events, ROLE_RANK))
    <2>1. ResolvedRequest(in, K, BudgetRun(v).events, ROLE_RANK)
      BY DEF ThreeRequests
    <2> QED
      BY <2>1, Zenon DEF ResolvedRequest
  <1>2. \A p, q \in 1..Len(in.schedule) :
            p < q => LexLess(ScheduleKey(in.schedule[p]), ScheduleKey(in.schedule[q]))
    <2>1. PICK s, E : s = in.schedule /\ E = BudgetRun(v).events
      OBVIOUS
    <2>2. EvEventRecords(E) /\ s = ScheduleActions(EvEvaluateRules(in.graph, E, ROLE_RANK))
      BY <1>1, <2>1
    <2>3. \A p, q \in 1..Len(s) : p < q => LexLess(ScheduleKey(s[p]), ScheduleKey(s[q]))
      BY <1>1, <2>2, EvWindowSchedule
    <2> QED
      BY <2>1, <2>3
  <1>3. ASSUME NEW x, NEW y, NEW p \in 1..3, NEW q \in 1..3, AskKey(x, p), AskKey(y, q),
               LexLess(x, y)
        PROVE  p < q
    <2>1. PICK l \in DOMAIN x : x[l] < y[l]
      BY <1>3 DEF LexLess
    <2>2. l \in 1..9
      BY <1>3 DEF AskKey, Keys
    <2>3. x[5] = y[5] /\ x[6] = y[6] /\ x[7] = y[7]
      <3>1. \A d \in 1..3 : x[4 + d] = y[4 + d]
        BY <1>3 DEF AskKey
      <3>2. x[4 + 1] = y[4 + 1] /\ x[4 + 2] = y[4 + 2] /\ x[4 + 3] = y[4 + 3]
        BY <3>1
      <3> QED
        BY <3>2
    <2>4. \A d \in 1..9 : x[d] \in Int /\ y[d] \in Int
      <3>1. x \in Keys(9) /\ y \in Keys(9)
        BY <1>3 DEF AskKey
      <3> QED
        BY <3>1 DEF Keys
    <2>5. l \in {8, 9}
      <3>1. x[1] = y[1] /\ x[2] = y[2] /\ x[3] = y[3] /\ x[4] = y[4]
        BY <1>3 DEF AskKey
      <3>2. l # 1 /\ l # 2 /\ l # 3 /\ l # 4 /\ l # 5 /\ l # 6 /\ l # 7
        <4>1. x[l] # y[l]
          <5>1. PICK a, b : a = x[l] /\ b = y[l]
            OBVIOUS
          <5>2. a \in Int /\ b \in Int /\ a < b
            BY <2>1, <2>2, <2>4, <5>1
          <5> QED
            BY <5>1, <5>2
        <4> QED
          BY <2>3, <3>1, <4>1
      <3> QED
        BY <2>2, <3>2
    <2> QED
      BY <1>3, <2>1, <2>5 DEF AskKey
  <1>4. PICK x, y : x = ScheduleKey(in.schedule[i]) /\ y = ScheduleKey(in.schedule[j])
    OBVIOUS
  <1>5. AskKey(x, n) /\ AskKey(y, m)
    BY <1>4, AskKeys
  <1>6. (i < j => LexLess(x, y)) /\ (j < i => LexLess(y, x))
    BY <1>2, <1>4
  <1>7. (i < j => n < m) /\ (j < i => m < n)
    BY <1>3, <1>5, <1>6
  <1>8. i = j => n = m
    BY DEF Asks
  <1> QED
    BY <1>7, <1>8

(* The first of the requests up to the m-th are granted in g, and nothing   *)
(* else has changed.                                                        *)
GrantedUpTo(g, m) ==
    /\ DOMAIN g = EvSlots /\ EvAdmissible(g)
    /\ \A cp \in ChargingPoints : Power(g, cp) = {IF cp \in 1..m THEN 20 ELSE 0}
    /\ \A cp \in ChargingPoints : Connector(g, cp) = {Plugged}
    /\ FeederState(g) = {Uncurtailed}

(* Without any granted there is no load.                                    *)
LEMMA NoLoad ==
    ASSUME NEW g, GrantedUpTo(g, 0)
    PROVE  TotalPower(g) = 0
  <1>1. \A cp \in ChargingPoints : Power(g, cp) = {0}
    BY DEF GrantedUpTo
  <1> QED
    BY <1>1, IdleTotal

(* One more granted adds 20 to the load.                                    *)
LEMMA GrantedLoad ==
    ASSUME NEW m \in Nat, NEW n \in ChargingPoints, n = m + 1,
           NEW f, GrantedUpTo(f, m), NEW g, GrantedUpTo(g, n)
    PROVE  TotalPower(g) = TotalPower(f) - 0 + 20
  <1>1. OnePower(f)
    BY AdmissibleOnePower DEF GrantedUpTo
  <1>2. Power(f, n) = {0} /\ Power(g, n) = {20}
    BY DEF GrantedUpTo
  <1>3. ASSUME NEW x \in ChargingPoints \ {n}
        PROVE  Power(g, x) = Power(f, x)
    <2>1. x \in Nat
      BY ChargingConstants
    <2>2. x \in 1..n <=> x \in 1..m
      BY <2>1
    <2> QED
      BY <2>2 DEF GrantedUpTo
  <1>4. PowerMoves(f, g, n, 0, 20)
    BY <1>2, <1>3 DEF PowerMoves
  <1>5. 0 \in Int /\ 20 \in Int
    OBVIOUS
  <1> QED
    BY <1>1, <1>4, <1>5, TotalShifts

(* Which requests are granted: the first two, and the third within budget.  *)
Granted(n, v) == n \in {1, 2} \/ 40 + v <= 50

(* A request is decided by the budget that those before it leave.           *)
LEMMA AskVerdict ==
    ASSUME ChargingProfile, NEW in, NEW K, NEW v, ThreeRequests(in, K, v),
           NEW k \in 1..Len(in.schedule), NEW n \in 1..3, Asks(in.schedule[k], n, v),
           NEW g, StandsAt(in, K, ROLE_RANK, k, in.schedule[k], g),
           GrantedUpTo(g, n - 1), TotalPower(g) = 20 * (n - 1)
    PROVE  k \in K <=> Granted(n, v)
  <1>1. PICK a : a = in.schedule[k]
    OBVIOUS
  <1>2. a.slot = <<n, "power">> /\ a.value = Asked(n, v) /\ a.role = "driver"
    BY <1>1 DEF Asks
  <1>3. Asked(n, v) \in 0..22 /\ v \in {9, 10, 11} /\ in.active = DOMAIN ROLE_RANK
    BY DEF ThreeRequests, Asked
  <1>4. n \in ChargingPoints
    BY AllAsk
  <1>5. Power(g, n) = {0} /\ Connector(g, n) = {Plugged} /\ FeederState(g) = {Uncurtailed}
        /\ DOMAIN g = EvSlots /\ EvAdmissible(g)
    BY <1>4 DEF GrantedUpTo
  <1>6. EvAdmissible([g EXCEPT ![<<n, "power">>] = {Asked(n, v)}]) <=>
             /\ Asked(n, v) = 0 \/ Connector(g, n) \subseteq {Plugged, Charging}
             /\ Curtailed \in FeederState(g) => Asked(n, v) <= 5
             /\ TotalPower(g) - 0 + Asked(n, v) <= 50
    BY <1>3, <1>4, <1>5, PowerWrite
  <1>7. EvAdmissible([g EXCEPT ![<<n, "power">>] = {Asked(n, v)}]) <=> Granted(n, v)
    <2>1. Curtailed \notin FeederState(g) /\ Connector(g, n) \subseteq {Plugged, Charging}
      BY <1>5 DEF Curtailed, Uncurtailed
    <2>2. 20 * (n - 1) - 0 + Asked(n, v) <= 50 <=> Granted(n, v)
      BY <1>3 DEF Asked, Granted
    <2> QED
      BY <1>6, <2>1, <2>2
  <1>8. ~Written(in, K, k, <<n, "power">>)
    <2> SUFFICES ASSUME NEW j \in K, j < k, in.schedule[j].slot = <<n, "power">> PROVE FALSE
      BY DEF Written
    <2>1. j \in 1..Len(in.schedule)
      BY DEF ThreeRequests, ResolvedRequest
    <2>2. PICK m \in 1..3 : Asks(in.schedule[j], m, v)
      BY <2>1, AllAsk
    <2>3. m = n
      BY <2>2 DEF Asks
    <2> QED
      BY <2>1, <2>2, <2>3, AskOrder
  <1>9. EvPolicyOK(g, a)
    <2>1. RoleMaxPower["driver"] = 22
      BY DEF RoleMaxPower
    <2> QED
      BY <1>2, <1>3, <2>1 DEF EvPolicyOK, MinPower
  <1>10. a.role \in in.active
    BY <1>2, <1>3 DEF ROLE_RANK
  <1>11. k \in K <=> /\ a.role \in in.active
                     /\ EvPolicyOK(g, a)
                     /\ ~Written(in, K, k, a.slot)
                     /\ EvAdmissible([g EXCEPT ![a.slot] = {a.value}])
    BY <1>1 DEF StandsAt
  <1> QED
    BY <1>2, <1>7, <1>8, <1>9, <1>10, <1>11

(* Before the n-th request, those before it are granted if they are         *)
(* accepted, and nothing else has changed.                                  *)
LEMMA AskFinds ==
    ASSUME ChargingProfile, NEW in, NEW K, NEW v, ThreeRequests(in, K, v),
           NEW k \in 1..Len(in.schedule), NEW n \in 1..3, Asks(in.schedule[k], n, v),
           \A j \in 1..Len(in.schedule), m \in 1..3 :
               m < n /\ Asks(in.schedule[j], m, v) => j \in K,
           NEW g, StandsAt(in, K, ROLE_RANK, k, in.schedule[k], g)
    PROVE  GrantedUpTo(g, n - 1)
  <1> DEFINE s == in.schedule
             P(x) == <<x, "power">>
  <1>1. /\ DOMAIN g = EvSlots /\ EvAdmissible(g)
        /\ \A x \in EvSlots : ~Written(in, K, k, x) => g[x] = in.graph[x]
        /\ \A x \in EvSlots : Written(in, K, k, x) =>
             \A w \in g[x] : \E j \in K : j < k /\ s[j].slot = x /\ s[j].value = w
        /\ K \subseteq 1..Len(s) /\ v \in {9, 10, 11}
    BY DEF StandsAt, ThreeRequests, ResolvedRequest
  <1>2. in.graph = PrimedState(<<>>, <<>>)
    BY BudgetEvents DEF ThreeRequests
  <1>3. /\ \A cp \in ChargingPoints : Power(in.graph, cp) = {0} /\ Connector(in.graph, cp) = {Plugged}
        /\ FeederState(in.graph) = {Uncurtailed}
    BY <1>2, BaseState
  <1>4. ASSUME NEW j \in K, j < k
        PROVE  \E m \in 1..3 : m < n /\ s[j].slot = P(m) /\ s[j].value = 20
    <2>1. j \in 1..Len(s)
      BY <1>1
    <2>2. PICK m \in 1..3 : Asks(s[j], m, v)
      BY <2>1, AllAsk
    <2>3. m < n
      BY <1>4, <2>1, <2>2, AskOrder
    <2> QED
      BY <2>2, <2>3 DEF Asks, Asked
  <1>5. ASSUME NEW x \in EvSlots, x[2] # "power" PROVE g[x] = in.graph[x]
    BY <1>1, <1>4, <1>5 DEF Written
  <1>6. ASSUME NEW cp \in ChargingPoints
        PROVE  Power(g, cp) = {IF cp \in 1..(n - 1) THEN 20 ELSE 0}
    <2>1. P(cp) \in EvSlots
      BY DEF EvSlots
    <2>2. CASE cp \in 1..(n - 1)
      <3>1. cp \in 1..3 /\ cp < n
        BY <2>2
      <3>2. PICK j \in 1..Len(s) : Asks(s[j], cp, v)
        BY <3>1, AllAsk
      <3>3. j \in K /\ j < k
        BY <3>1, <3>2, AskOrder
      <3>4. Written(in, K, k, P(cp))
        BY <3>2, <3>3 DEF Written, Asks
      <3>5. \A w \in g[P(cp)] : w = 20
        BY <1>1, <1>4, <2>1, <3>4
      <3>6. PICK q : Power(g, cp) = {q}
        BY <1>1, AdmissibleOnePower
      <3> QED
        BY <2>2, <3>5, <3>6 DEF Power
    <2>3. CASE cp \notin 1..(n - 1)
      <3>1. ~Written(in, K, k, P(cp))
        <4> SUFFICES ASSUME NEW j \in K, j < k, s[j].slot = P(cp) PROVE FALSE
          BY DEF Written
        <4>1. PICK m \in 1..3 : m < n /\ s[j].slot = P(m)
          BY <1>4
        <4>2. m = cp
          BY <4>1
        <4> QED
          BY <2>3, <4>1, <4>2
      <3>2. g[P(cp)] = in.graph[P(cp)]
        BY <1>1, <2>1, <3>1
      <3> QED
        BY <1>3, <2>3, <3>2 DEF Power
    <2> QED
      BY <2>2, <2>3
  <1>7. \A cp \in ChargingPoints : Connector(g, cp) = {Plugged}
    BY <1>3, <1>5 DEF Connector, EvSlots
  <1>8. FeederState(g) = {Uncurtailed}
    BY <1>3, <1>5 DEF FeederState, EvSlots
  <1> QED
    BY <1>1, <1>6, <1>7, <1>8 DEF GrantedUpTo

(* The first two requests are granted, and the third where it fits.         *)
LEMMA BudgetDecides ==
    ASSUME ChargingProfile, NEW in, NEW K, NEW v, ThreeRequests(in, K, v),
           NEW k \in 1..Len(in.schedule), NEW n \in 1..3, Asks(in.schedule[k], n, v)
    PROVE  k \in K <=> Granted(n, v)
  <1> DEFINE s == in.schedule
             State(i) == OverlayOf(in, Earlier(K, i))
  <1>1. \A i \in 1..Len(s) : StandsAt(in, K, ROLE_RANK, i, s[i], State(i))
    BY ResolvedAt DEF ThreeRequests
  <1>2. 1..3 \subseteq ChargingPoints /\ \A m \in 1..3 : \E i \in 1..Len(s) : Asks(s[i], m, v)
    BY AllAsk
  <1> HIDE DEF State
  <1>3. ASSUME NEW i \in 1..Len(s), Asks(s[i], 1, v)
        PROVE  GrantedUpTo(State(i), 0)
    <2>1. 1 \in 1..3 /\ 1 - 1 = 0 /\ \A m \in 1..3 : ~(m < 1)
      OBVIOUS
    <2>2. GrantedUpTo(State(i), 1 - 1)
      BY <1>1, <1>3, <2>1, AskFinds
    <2> QED
      BY <2>1, <2>2
  <1>5. ASSUME NEW i \in 1..Len(s), Asks(s[i], 1, v) PROVE i \in K
    <2>1. GrantedUpTo(State(i), 0) /\ TotalPower(State(i)) = 0
      BY <1>3, <1>5, NoLoad
    <2>2. 1 \in 1..3 /\ 1 - 1 = 0 /\ 20 * (1 - 1) = 0 /\ Granted(1, v)
      BY DEF Granted
    <2> QED
      BY <1>1, <1>5, <2>1, <2>2, AskVerdict
  <1>6. PICK i \in 1..Len(s) : Asks(s[i], 1, v)
    BY <1>2
  <1>7. ASSUME NEW j \in 1..Len(s), Asks(s[j], 2, v)
        PROVE  GrantedUpTo(State(j), 1)
    <2>1. 2 \in 1..3 /\ 2 - 1 = 1 /\ \A m \in 1..3 : m < 2 => m = 1
      OBVIOUS
    <2>2. GrantedUpTo(State(j), 2 - 1)
      BY <1>1, <1>5, <1>7, <2>1, AskFinds
    <2> QED
      BY <2>1, <2>2
  <1>8. PICK j \in 1..Len(s) : Asks(s[j], 2, v)
    BY <1>2
  <1>9. ASSUME NEW g, GrantedUpTo(g, 1) PROVE TotalPower(g) = 20
    <2>1. GrantedUpTo(State(i), 0) /\ TotalPower(State(i)) = 0
      BY <1>3, <1>6, NoLoad
    <2>2. 1 \in ChargingPoints /\ 0 \in Nat /\ 1 = 0 + 1
      BY <1>2
    <2>3. TotalPower(g) = TotalPower(State(i)) - 0 + 20
      BY <1>9, <2>1, <2>2, GrantedLoad
    <2> QED
      BY <2>1, <2>3
  <1>10. ASSUME NEW l \in 1..Len(s), Asks(s[l], 2, v) PROVE l \in K
    <2>1. GrantedUpTo(State(l), 1) /\ TotalPower(State(l)) = 20
      BY <1>7, <1>9, <1>10
    <2>2. 2 \in 1..3 /\ 2 - 1 = 1 /\ 20 * (2 - 1) = 20 /\ Granted(2, v)
      BY DEF Granted
    <2> QED
      BY <1>1, <1>10, <2>1, <2>2, AskVerdict
  <1>11. ASSUME NEW l \in 1..Len(s), Asks(s[l], 3, v) PROVE l \in K <=> Granted(3, v)
    <2>1. 3 \in 1..3 /\ 3 - 1 = 2 /\ 20 * (3 - 1) = 40 /\ \A m \in 1..3 : m < 3 => m \in {1, 2}
      OBVIOUS
    <2>2. GrantedUpTo(State(l), 3 - 1)
      BY <1>1, <1>5, <1>10, <1>11, <2>1, AskFinds
    <2>3. GrantedUpTo(State(l), 2)
      BY <2>1, <2>2
    <2>4. TotalPower(State(l)) = 40
      <3>1. GrantedUpTo(State(j), 1) /\ TotalPower(State(j)) = 20
        BY <1>7, <1>8, <1>9
      <3>2. 2 \in ChargingPoints /\ 1 \in Nat /\ 2 = 1 + 1
        BY <1>2
      <3>3. TotalPower(State(l)) = TotalPower(State(j)) - 0 + 20
        BY <2>3, <3>1, <3>2, GrantedLoad
      <3> QED
        BY <3>1, <3>3
    <2> QED
      BY <1>1, <1>11, <2>1, <2>2, <2>4, AskVerdict
  <1>12. n = 1 \/ n = 2 \/ n = 3
    OBVIOUS
  <1> QED
    BY <1>5, <1>10, <1>11, <1>12 DEF Granted

(* What the three requests end with.                                        *)
LEMMA BudgetEnds ==
    ASSUME ChargingProfile, NEW in, NEW K, NEW v, ThreeRequests(in, K, v),
           NEW cur, EndOf(in, K, cur), NEW n \in 1..3
    PROVE  Power(cur, n) = {IF Granted(n, v) THEN Asked(n, v) ELSE 0}
  <1> DEFINE P == <<n, "power">>
             s == in.schedule
  <1>1. /\ in.graph = PrimedState(<<>>, <<>>)
        /\ n \in ChargingPoints /\ K \subseteq 1..Len(s)
    BY BudgetEvents, AllAsk DEF ThreeRequests, ResolvedRequest
  <1>2. PICK k \in 1..Len(s) : Asks(s[k], n, v)
    BY AllAsk
  <1>3. k \in K <=> Granted(n, v)
    BY <1>2, BudgetDecides
  <1>4. s[k].slot = P /\ s[k].value = Asked(n, v)
    BY <1>2 DEF Asks
  <1>5. CASE Granted(n, v)
    <2>1. cur[s[k].slot] = {s[k].value}
      BY <1>3, <1>5 DEF EndOf
    <2> QED
      BY <1>4, <1>5, <2>1 DEF Power
  <1>6. CASE ~Granted(n, v)
    <2>1. ASSUME NEW j \in K, s[j].slot = P PROVE FALSE
      <3>1. j \in 1..Len(s)
        BY <1>1
      <3>2. PICK m \in 1..3 : Asks(s[j], m, v)
        BY <3>1, AllAsk
      <3>3. m = n
        BY <2>1, <3>2 DEF Asks
      <3> QED
        BY <1>6, <3>1, <3>2, <3>3, BudgetDecides
    <2>2. P \in EvSlots
      BY <1>1 DEF EvSlots
    <2>3. cur[P] = in.graph[P]
      BY <2>1, <2>2 DEF EndOf
    <2>4. Power(in.graph, n) = {0}
      BY <1>1, BaseState
    <2> QED
      BY <1>6, <2>3, <2>4 DEF Power
  <1> QED
    BY <1>5, <1>6

(* The base state is admissible, whatever the number of points.             *)
LEMMA BaseAdmissible ==
    ASSUME NEW g, g = PrimedState(<<>>, <<>>)
    PROVE  EvAdmissible(g)
  <1>1. /\ \A cp \in ChargingPoints : Power(g, cp) = {0} /\ Connector(g, cp) = {Plugged}
        /\ FeederState(g) = {Uncurtailed}
    BY BaseState
  <1>2. TotalPower(g) = 0
    BY <1>1, IdleTotal
  <1>3. Cardinality({0}) = 1 /\ Cardinality({Plugged}) = 1 /\ Cardinality({Uncurtailed}) = 1
    BY FS_Singleton
  <1>4. ASSUME NEW cp \in ChargingPoints
        PROVE  /\ ChargingPowerShape(g, cp) /\ ConnectorStateShape(g, cp)
               /\ ConnectorPowerCoherenceShape(g, cp)
    <2>1. Power(g, cp) = {0} /\ Connector(g, cp) = {Plugged}
      BY <1>1
    <2>2. ChargingPowerShape(g, cp)
      <3>1. {0} \subseteq 0..22
        OBVIOUS
      <3>2. Cardinality(Power(g, cp)) = 1 /\ Power(g, cp) \subseteq 0..22
        BY <1>3, <2>1, <3>1, Zenon
      <3> QED
        BY <3>2 DEF ChargingPowerShape, MaxPower
    <2>3. ConnectorStateShape(g, cp)
      BY <1>3, <2>1 DEF ConnectorStateShape
    <2>4. ConnectorPowerCoherenceShape(g, cp)
      BY <2>1 DEF ConnectorPowerCoherenceShape, OutOfService, Plugged
    <2> QED
      BY <2>2, <2>3, <2>4
  <1>5. FeederStateShape(g) /\ CurtailmentConsistencyShape(g)
    BY <1>1, <1>3 DEF FeederStateShape, CurtailmentConsistencyShape, Curtailed, Uncurtailed
  <1>6. FeederBudgetShape(g)
    BY <1>2 DEF FeederBudgetShape, FeederBudget
  <1> QED
    BY <1>4, <1>5, <1>6 DEF EvAdmissible

(* Where the budget binds, it binds exactly.                                *)
LEMMA FinishedBudget ==
    ASSUME ChargingProfile, StepInv, Finished
    PROVE  BudgetIsExact
  <1> SUFFICES ASSUME NEW v \in {9, 10, 11}, request = BudgetRun(v)
               PROVE  <<Power(current, 1), Power(current, 2), Power(current, 3)>>
                        = <<{20}, {20}, {IF 40 + v <= FeederBudget THEN v ELSE 0}>>
    BY DEF BudgetIsExact
  <1>1. /\ request.graph = PrimedState(<<>>, <<>>) /\ request.rank = ROLE_RANK
        /\ request.active = DOMAIN ROLE_RANK
    BY BudgetEvents DEF BudgetRun, Run
  <1>2. input.graph = request.graph
    BY DEF StepInv, EvRequestInv, EvStepInput
  <1>3. Admissible(input.graph)
    BY <1>1, <1>2, BaseAdmissible DEF ChargingProfile
  <1>4. /\ ResolvedRequest(input, accepted, request.events, request.rank)
        /\ EndOf(input, accepted, current)
        /\ input.graph = request.graph /\ input.active = request.active
    BY <1>3, FinishedEnds
  <1>5. ThreeRequests(input, accepted, v)
    BY <1>1, <1>4 DEF ThreeRequests
  <1>6. \A n \in 1..3 : Power(current, n) = {IF Granted(n, v) THEN Asked(n, v) ELSE 0}
    BY <1>4, <1>5, BudgetEnds
  <1>7. /\ Granted(1, v) /\ Granted(2, v) /\ (Granted(3, v) <=> 40 + v <= FeederBudget)
        /\ Asked(1, v) = 20 /\ Asked(2, v) = 20 /\ Asked(3, v) = v
    BY DEF Granted, Asked, FeederBudget
  <1> QED
    BY <1>6, <1>7

(* A finished step of one point ends as the oracle says.                    *)
LEMMA FinishedOracle ==
    ASSUME ChargingProfile, StepInv, Finished, Admissible(input.graph), OnePoint,
           NEW c \in Commands,
           NEW p \in Power(input.graph, c.cp), NEW k \in Connector(input.graph, c.cp),
           NEW f \in FeederState(input.graph)
    PROVE  <<Power(current, c.cp), Connector(current, c.cp), FeederState(current)>>
                = MatrixOracle(k, p, f, EvEventRole[c.type], c.arg, SignalName)
  <1>1. /\ ResolvedRequest(input, accepted, request.events, request.rank)
        /\ EndOf(input, accepted, current)
        /\ input.active = request.active
    BY FinishedEnds
  <1>2. OneCommand(input, accepted, request.events, c, SignalName)
    BY <1>1, OnePointIsCommand
  <1>3. PICK name, cur : name = SignalName /\ cur = current
    OBVIOUS
  <1>4. <<Power(cur, c.cp), Connector(cur, c.cp), FeederState(cur)>>
          = MatrixOracle(k, p, f, EvEventRole[c.type], c.arg, name)
    BY <1>1, <1>2, <1>3, OneStepAgrees
  <1> QED
    BY <1>3, <1>4

(* Every step that is one command for a point and at most one signal ends   *)
(* as the oracle of the generated matrix says, and where the budget binds   *)
(* it binds exactly, whatever the number of points and of workloads.        *)
THEOREM OracleMatches ==
    ASSUME ChargingProfile
    PROVE  EvReplaySpec => []OracleAgrees
  <1>1. EvReplayInv /\ EvPrefixesInv => OracleAgrees
    <2> SUFFICES ASSUME EvReplayInv, EvPrefixesInv, RunFinished
                 PROVE  OracleAgrees
      BY DEF OracleAgrees
    <2>1. StepInv /\ Finished
      BY DEF RunFinished, EvReplayInv, EvPrefixesInv, Sound, StepInv
    <2>2. BudgetIsExact
      BY <2>1, FinishedBudget
    <2>3. ASSUME Admissible(input.graph), OnePoint, NEW c \in Commands,
                 NEW p \in Power(input.graph, c.cp), NEW k \in Connector(input.graph, c.cp),
                 NEW f \in FeederState(input.graph)
          PROVE  <<Power(current, c.cp), Connector(current, c.cp), FeederState(current)>>
                     = MatrixOracle(k, p, f, EvEventRole[c.type], c.arg, SignalName)
      BY <2>1, <2>3, FinishedOracle
    <2> QED
      BY <2>2, <2>3 DEF OracleAgrees
  <1> QED
    BY <1>1, EvReplayInvariant, EvPrefixesInvariant, PTL
=============================================================================
