------------------------------ MODULE Schedule ------------------------------
(***************************************************************************)
(* The deterministic scheduler of src/rule_engine.py, which both profiles  *)
(* use: actions are ordered by role rank, priority, timestamp, rule,       *)
(* binding key and identity.                                               *)
(***************************************************************************)
EXTENDS Integers, Sequences, FiniteSets

(* Mutant: the timestamp leads the key. *)
ScheduleKeyByTime(a) == <<a.ts, a.roleRank, a.priority, a.rid>> \o a.bind

(* The identity that ends the key never decides: two actions with equal     *)
(* rule and binding are one action.                                         *)
ScheduleKey(a) == <<a.roleRank, a.priority, a.ts, a.rid>> \o a.bind

(* Keys are compared component by component; all have the same length. *)
LexLess(x, y) ==
    \E i \in DOMAIN x : x[i] < y[i] /\ \A j \in 1..i - 1 : x[j] = y[j]

(* The elements of the domain in the order of their keys, all different. *)
SortedBy(key) ==
    LET keys  == {key[a] : a \in DOMAIN key}
        place == [x \in keys |-> Cardinality({y \in keys : LexLess(y, x)}) + 1]
    IN  [i \in 1..Cardinality(DOMAIN key) |-> CHOOSE a \in DOMAIN key : place[key[a]] = i]

ScheduleActions(actions) == SortedBy([a \in actions |-> ScheduleKey(a)])

(* A binding key is JSON text, so its numbers are compared as text: 10 is   *)
(* before 5 and before 1.  A number of at most two digits is three          *)
(* characters, in which the sign (-1) precedes the digits and the escape    *)
(* of the closing quote (10) follows them.                                  *)
Text(n) ==
    LET m == IF n < 0 THEN -n ELSE n
        digits == IF m < 10 THEN <<m>> ELSE <<m \div 10, m % 10>>
        signed == IF n < 0 THEN <<-1>> \o digits ELSE digits
    IN  [i \in 1..3 |-> IF i \in DOMAIN signed THEN signed[i] ELSE 10]
=============================================================================
