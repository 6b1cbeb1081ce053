------------------------ MODULE IndependentResolver ------------------------
(***************************************************************************)
(* The second implementation of scheduling and resolution,                 *)
(* src/independent_resolver.py, which shares no code with the first: it    *)
(* sorts the unordered actions itself, writes into one working graph and   *)
(* takes the write back when the shapes reject it.                         *)
(***************************************************************************)
EXTENDS Schedule, SequencesExt

CONSTANTS Slots,
          IndependentAdmissible(_),     \* pySHACL called directly
          Domain                        \* the guarded property and its limits

(* schedule_key and make_schedule: the actions may come in any order, so    *)
(* each is inserted where its key belongs.                                  *)
KeyOf(a) == <<a.roleRank, a.priority, a.ts, a.rid>> \o a.bind

Insert(a, sorted) ==
    LET before == {i \in DOMAIN sorted : LexLess(KeyOf(sorted[i]), KeyOf(a))}
    IN  InsertAt(sorted, Cardinality(before) + 1, a)

MakeSchedule(actions) == FoldSet(Insert, <<>>, actions)

-----------------------------------------------------------------------------
(* policy_guard: the limits apply to commands on one property and, of the   *)
(* roles, to those with a cap; the minimum is looked at first.              *)
PolicyVerdict(a) ==
    IF a.slot[2] # Domain.property \/ a.role \notin DOMAIN Domain.cap
    THEN "policy_guard_not_applicable"
    ELSE IF a.value < Domain.minimum THEN "policy_min_violation"
    ELSE IF a.value > Domain.cap[a.role] THEN "policy_role_cap_violation"
    ELSE "policy_guard_passed"

PolicyFails(a) == PolicyVerdict(a) \in {"policy_min_violation", "policy_role_cap_violation"}

(* apply_single_slot. *)
ApplySingleSlot(g, a) == [g EXCEPT ![a.slot] = {a.value}]

(* The locals of resolve() before the first action. *)
Begin(g) == [working |-> g, writtenTargets |-> {}, accepted |-> <<>>, decisions |-> <<>>]

Record(st, a, accept, reason) ==
    [st EXCEPT !.decisions =
        Append(@, [action |-> a, accepted |-> accept, reason |-> reason, post |-> st.working])]

(* Mutant: the rejected value is removed and the earlier ones stay lost. *)
RevertEmpty(st, a, before) == [st EXCEPT !.working[a.slot] = {}]

(* The written slot gets back the values it had. *)
Revert(st, a, before) == [st EXCEPT !.working[a.slot] = before]

(* Gate (iv): write, validate, keep or revert. *)
TryWrite(st, a) ==
    LET before  == st.working[a.slot]
        written == [st EXCEPT !.working = ApplySingleSlot(@, a)]
    IN  IF IndependentAdmissible(written.working)
        THEN Record([written EXCEPT !.writtenTargets = @ \cup {a.slot},
                                    !.accepted = Append(@, a)], a, TRUE, "admissible")
        ELSE Record(Revert(written, a, before), a, FALSE, "inadmissible")

Gates(st, a, active) ==
    IF a.role \notin active THEN Record(st, a, FALSE, "inactive_role")
    ELSE IF PolicyFails(a) THEN Record(st, a, FALSE, PolicyVerdict(a))
    ELSE IF a.slot \in st.writtenTargets
         THEN Record(st, a, FALSE, "shadowed_by_prior_accepted_action")
    ELSE TryWrite(st, a)

Resolve(g, actions, active) ==
    FoldLeft(LAMBDA st, a : Gates(st, a, active), Begin(g), MakeSchedule(actions))
=============================================================================
