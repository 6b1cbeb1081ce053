--------------------------- MODULE ResolverProofs ---------------------------
(***************************************************************************)
(* Proofs about the resolver for every set of slots, values and actions,   *)
(* every admissibility regime and every policy guard.                      *)
(*                                                                         *)
(* TypeOK and the properties are not inductive together: that the          *)
(* successor is an overlay of the accepted writes needs accepted_targets   *)
(* to name the one accepted action of each slot, which is SlotsInv.        *)
(*                                                                         *)
(* The second part is about schedules of actions with keys of one length,  *)
(* and the third about the second implementation, whose schedule and whose *)
(* run over it are those of the first.                                     *)
(***************************************************************************)
EXTENDS Resolver, Schedule, FiniteSetTheorems, SequenceTheorems, WellFoundedInduction, TLAPS

(* The slot and the value of a scheduled action.                            *)
SlotOf(k) == input.schedule[k].slot
ValueOf(k) == input.schedule[k].value

(* A free slot is as in the input and no accepted action has it.            *)
FreeSlot(s) ==
    /\ current[s] = input.graph[s]
    /\ \A k \in accepted : SlotOf(k) # s

(* A taken slot holds the value of the only accepted action that has it.    *)
TakenSlot(s) ==
    /\ winner[s] \in accepted
    /\ SlotOf(winner[s]) = s
    /\ current[s] = {ValueOf(winner[s])}
    /\ \A k \in accepted : SlotOf(k) = s => k = winner[s]

(* Each slot is free or taken.                                              *)
SlotsInv ==
    \A s \in Slots :
        /\ winner[s] = 0 => FreeSlot(s)
        /\ winner[s] # 0 => TakenSlot(s)

(* The inductive invariant of a resolution.                                 *)
IInv ==
    /\ TypeOK
    /\ SlotsInv
    /\ AdmissibilityKept
    /\ NoLostUpdate

-----------------------------------------------------------------------------
(* The action on turn is well formed and its slot is one of the slots.      *)
LEMMA ActionTyped ==
    ASSUME TypeOK, Pending
    PROVE  /\ Turn \in 1..Len(input.schedule)
           /\ Action \in Actions
           /\ Action.slot \in Slots
           /\ Action.value \in Values
           /\ Action.role \in Roles
  <1>1. Len(decisions) \in Nat /\ Len(input.schedule) \in Nat
    BY DEF TypeOK, Input
  <1>2. Turn \in 1..Len(input.schedule)
    BY <1>1 DEF Pending, Turn
  <1>3. Action \in Actions
    BY <1>2 DEF TypeOK, Input, Action
  <1> QED
    BY <1>2, <1>3, ResolverConstants

(* A rewrite of a slot yields a graph, and changes that slot only.          *)
LEMMA ApplyGraph ==
    ASSUME NEW g \in Graph, NEW a, a.slot \in Slots, a.value \in Values
    PROVE  /\ Apply(g, a) \in Graph
           /\ Apply(g, a)[a.slot] = {a.value}
           /\ \A s \in Slots : s # a.slot => Apply(g, a)[s] = g[s]
  BY DEF Apply, Graph

(* One more decision keeps those already there.                             *)
LEMMA DecisionAppended ==
    ASSUME TypeOK, NEW reason \in Reasons, NEW g \in Graph, NEW b \in Nat,
           Decide(reason, g, b)
    PROVE  /\ decisions' \in Seq(Decision)
           /\ Len(decisions') = Turn
           /\ \A k \in 1..Len(decisions) : decisions'[k] = decisions[k]
           /\ decisions'[Turn] = [reason |-> reason, pre |-> current, post |-> g,
                                  blockedBy |-> b]
  <1> DEFINE d == [reason |-> reason, pre |-> current, post |-> g, blockedBy |-> b]
  <1>1. d \in Decision
    BY DEF TypeOK, Decision
  <1>2. decisions \in Seq(Decision)
    BY DEF TypeOK
  <1>3. decisions' = Append(decisions, d)
    BY DEF Decide
  <1> HIDE DEF d
  <1>4. /\ decisions' \in Seq(Decision)
        /\ Len(decisions') = Len(decisions) + 1
        /\ \A k \in 1..Len(decisions) : decisions'[k] = decisions[k]
        /\ decisions'[Len(decisions) + 1] = d
    BY <1>1, <1>2, <1>3
  <1> QED
    BY <1>4 DEF d, Turn

(* A rejection leaves everything but the decisions as it is.                *)
LEMMA RejectKeeps ==
    ASSUME IInv, Pending, NEW reason \in Reasons, NEW b \in Nat, Reject(reason, b)
    PROVE  IInv'
  <1>1. current \in Graph
    BY DEF IInv, TypeOK
  <1>2. /\ decisions' \in Seq(Decision)
        /\ Len(decisions') = Turn
        /\ \A k \in 1..Len(decisions) : decisions'[k] = decisions[k]
    BY <1>1, DecisionAppended DEF IInv, Reject
  <1>3. /\ Len(decisions) \in Nat
        /\ UNCHANGED <<input, current, accepted, winner>>
    BY DEF IInv, TypeOK, Reject
  <1>4. TypeOK'
    BY <1>2, <1>3 DEF IInv, TypeOK, Turn, Pending
  <1>5. SlotsInv' /\ AdmissibilityKept'
    BY <1>3 DEF IInv, SlotsInv, FreeSlot, TakenSlot, SlotOf, ValueOf, AdmissibilityKept
  <1>6. NoLostUpdate'
    BY <1>2, <1>3 DEF IInv, TypeOK, NoLostUpdate
  <1> QED
    BY <1>4, <1>5, <1>6 DEF IInv

(* An accepted action takes a slot that was free.                           *)
LEMMA AcceptKeeps ==
    ASSUME IInv, Accept
    PROVE  IInv'
  <1> DEFINE a == Action
             n == Turn
  <1>1. /\ n \in 1..Len(input.schedule)
        /\ a.slot \in Slots
        /\ a.value \in Values
    BY ActionTyped DEF IInv, Accept
  <1>2. /\ Apply(current, a) \in Graph
        /\ Apply(current, a)[a.slot] = {a.value}
        /\ \A s \in Slots : s # a.slot => Apply(current, a)[s] = current[s]
    BY <1>1, ApplyGraph DEF IInv, TypeOK
  <1>3. /\ decisions' \in Seq(Decision)
        /\ Len(decisions') = n
        /\ \A k \in 1..Len(decisions) : decisions'[k] = decisions[k]
        /\ decisions'[n].pre = current
    <2>1. Decide("admissible", Apply(current, a), 0)
      BY DEF Accept
    <2>2. "admissible" \in Reasons /\ 0 \in Nat
      BY DEF Reasons
    <2>3. TypeOK
      BY DEF IInv
    <2>4. /\ decisions' \in Seq(Decision)
          /\ Len(decisions') = Turn
          /\ \A k \in 1..Len(decisions) : decisions'[k] = decisions[k]
          /\ decisions'[Turn] = [reason |-> "admissible", pre |-> current,
                                 post |-> Apply(current, a), blockedBy |-> 0]
      BY <1>2, <2>1, <2>2, <2>3, DecisionAppended
    <2> QED
      BY <2>4
  <1>4. /\ input' = input
        /\ current' = Apply(current, a)
        /\ accepted' = accepted \cup {n}
        /\ winner' = [winner EXCEPT ![a.slot] = n]
        /\ winner[a.slot] = 0
        /\ Admissible(Apply(current, a))
    BY DEF Accept, Shadowed
  <1>5. /\ Len(decisions) \in Nat
        /\ n = Len(decisions) + 1
        /\ accepted \subseteq 1..Len(decisions)
        /\ winner \in [Slots -> 0..Len(decisions)]
        /\ input \in Input
    BY DEF IInv, TypeOK, Turn
  <1>6. a = input.schedule[n]
    BY DEF Action
  <1> HIDE DEF a, n
  <1>7. n # 0 /\ n \notin accepted /\ \A k \in accepted : k # n
    BY <1>5
  <1>8. /\ winner'[a.slot] = n
        /\ \A s \in Slots : s # a.slot => winner'[s] = winner[s]
    BY <1>1, <1>4, <1>5
  <1>9. TypeOK'
    <2>1. accepted' \subseteq 1..Len(decisions')
      <3>1. n \in 1..n /\ 1..Len(decisions) \subseteq 1..n
        BY <1>5
      <3> QED
        BY <1>3, <1>4, <1>5, <3>1
    <2>2. winner' \in [Slots -> 0..Len(decisions')]
      BY <1>1, <1>3, <1>4, <1>5
    <2>3. Len(decisions') <= Len(input'.schedule)
      BY <1>1, <1>3, <1>4
    <2> QED
      BY <1>2, <1>3, <1>4, <1>5, <2>1, <2>2, <2>3 DEF TypeOK
  <1>10. SlotsInv'
    <2> SUFFICES ASSUME NEW s \in Slots
                 PROVE  /\ winner'[s] = 0 => FreeSlot(s)'
                        /\ winner'[s] # 0 => TakenSlot(s)'
      BY DEF SlotsInv
    <2>1. CASE s = a.slot
      <3>1. \A k \in accepted : input.schedule[k].slot # s
        BY <1>4, <2>1 DEF IInv, SlotsInv, FreeSlot, SlotOf
      <3> QED
        BY <1>2, <1>4, <1>6, <1>7, <1>8, <2>1, <3>1 DEF TakenSlot, SlotOf, ValueOf
    <2>2. CASE s # a.slot
      <3>1. winner'[s] = winner[s] /\ current'[s] = current[s]
        BY <1>2, <1>4, <1>8, <2>2
      <3>2. /\ winner[s] = 0 => FreeSlot(s)
            /\ winner[s] # 0 => TakenSlot(s)
        BY DEF IInv, SlotsInv
      <3>3. input'.schedule[n].slot # s
        BY <1>4, <1>6, <2>2
      <3> QED
        BY <1>4, <3>1, <3>2, <3>3 DEF FreeSlot, TakenSlot, SlotOf, ValueOf
    <2> QED
      BY <2>1, <2>2
  <1>11. AdmissibilityKept'
    BY <1>4 DEF AdmissibilityKept
  <1>12. NoLostUpdate'
    <2> SUFFICES ASSUME NEW k \in accepted'
                 PROVE  LET s == input'.schedule[k].slot IN
                        decisions'[k].pre[s] = input'.graph[s]
      BY DEF NoLostUpdate
    <2>1. CASE k \in accepted
      BY <1>3, <1>4, <1>5, <2>1 DEF IInv, NoLostUpdate
    <2>2. CASE k = n
      <3>1. current[a.slot] = input.graph[a.slot]
        BY <1>1, <1>4 DEF IInv, SlotsInv, FreeSlot
      <3> QED
        BY <1>3, <1>4, <1>6, <2>2, <3>1
    <2> QED
      BY <1>4, <2>1, <2>2
  <1> QED
    BY <1>9, <1>10, <1>11, <1>12 DEF IInv

-----------------------------------------------------------------------------
(* The initial state satisfies the invariant: no slot is taken.             *)
LEMMA InitHolds == Init => IInv
  <1> SUFFICES ASSUME Init PROVE IInv
    OBVIOUS
  <1>1. input \in Input
    BY ResolverConstants DEF Init
  <1>2. TypeOK
    BY <1>1 DEF Init, TypeOK, Input
  <1>3. SlotsInv
    BY DEF Init, SlotsInv, FreeSlot
  <1>4. AdmissibilityKept /\ NoLostUpdate
    BY DEF Init, AdmissibilityKept, NoLostUpdate
  <1> QED
    BY <1>2, <1>3, <1>4 DEF IInv

(* Every gate keeps the invariant.                                          *)
LEMMA NextKeeps == IInv /\ [Next]_resolverVars => IInv'
  <1> SUFFICES ASSUME IInv, [Next]_resolverVars PROVE IInv'
    OBVIOUS
  <1>1. CASE RejectRole
    BY <1>1, RejectKeeps DEF RejectRole, Reasons
  <1>2. CASE RejectPolicy
    BY <1>2, RejectKeeps DEF RejectPolicy, Reasons
  <1>3. CASE RejectShadowed
    <2>1. Action.slot \in Slots
      BY <1>3, ActionTyped DEF RejectShadowed, IInv
    <2>2. winner[Action.slot] \in Nat
      BY <2>1 DEF IInv, TypeOK
    <2> QED
      BY <1>3, <2>2, RejectKeeps DEF RejectShadowed, Reasons
  <1>4. CASE RejectInadmissible
    BY <1>4, RejectKeeps DEF RejectInadmissible, Reasons
  <1>5. CASE Accept
    BY <1>5, AcceptKeeps
  <1>6. CASE UNCHANGED resolverVars
    BY <1>6 DEF resolverVars, IInv, TypeOK, SlotsInv, FreeSlot, TakenSlot, SlotOf,
                ValueOf, AdmissibilityKept, NoLostUpdate
  <1> QED
    BY <1>1, <1>2, <1>3, <1>4, <1>5, <1>6 DEF Next

(* The invariant holds throughout a resolution.                             *)
THEOREM ResolverInvariant == Spec => []IInv
  BY InitHolds, NextKeeps, PTL DEF Spec

(* The resolver's state is well typed: a winner is always an action already *)
(* decided, and there are never more decisions than scheduled actions.      *)
THEOREM ResolverTypeCorrect == Spec => []TypeOK
  <1>1. IInv => TypeOK
    BY DEF IInv
  <1> QED
    BY <1>1, ResolverInvariant, PTL

(* An admissible state stays admissible through every prefix of the         *)
(* schedule, and one accepted action is enough to make it so.               *)
THEOREM ResolverAdmissibility == Spec => []AdmissibilityKept
  <1>1. IInv => AdmissibilityKept
    BY DEF IInv
  <1> QED
    BY <1>1, ResolverInvariant, PTL

(* Under the invariant the state is the overlay of the accepted writes.      *)
LEMMA CurrentIsOverlay ==
    ASSUME IInv
    PROVE  current = Overlay(accepted)
  <1>1. current = [s \in Slots |-> current[s]]
    BY DEF IInv, TypeOK, Graph
  <1> SUFFICES ASSUME NEW s \in Slots
               PROVE  current[s] = IF \E k \in accepted : input.schedule[k].slot = s
                                   THEN {input.schedule[k].value :
                                          k \in {k \in accepted : input.schedule[k].slot = s}}
                                   ELSE input.graph[s]
    BY <1>1 DEF Overlay
  <1>2. CASE winner[s] = 0
    BY <1>2 DEF IInv, SlotsInv, FreeSlot, SlotOf
  <1>3. CASE winner[s] # 0
    <2>1. TakenSlot(s)
      BY <1>3 DEF IInv, SlotsInv
    <2>2. {k \in accepted : input.schedule[k].slot = s} = {winner[s]}
      BY <2>1 DEF TakenSlot, SlotOf
    <2> QED
      BY <2>1, <2>2 DEF TakenSlot, SlotOf, ValueOf
  <1> QED
    BY <1>2, <1>3

(* The successor is the input overlaid with the accepted writes, each of    *)
(* them still in place.                                                     *)
THEOREM ResolverOverlay == Spec => []SuccessorIsOverlay
  <1>1. IInv => SuccessorIsOverlay
    BY CurrentIsOverlay DEF SuccessorIsOverlay
  <1> QED
    BY <1>1, ResolverInvariant, PTL

(* The overlay and the verdict as functions of the input and the accepted    *)
(* set, so that a step's effect on them is a matter of equals for equals.   *)
OverlayOf(in, K) ==
    [s \in Slots |->
        IF \E k \in K : in.schedule[k].slot = s
        THEN {in.schedule[k].value : k \in {k \in K : in.schedule[k].slot = s}}
        ELSE in.graph[s]]

(* The accepted actions before action k.                                    *)
Earlier(K, k) == {j \in K : j < k}

(* The four gates open for action a in state g after the accepted actions   *)
(* K.                                                                       *)
Gates(in, K, g, a) ==
    /\ a.role \in in.active
    /\ PolicyOK(g, a)
    /\ \A j \in K : in.schedule[j].slot # a.slot
    /\ Admissible(Apply(g, a))

(* Action k is in K exactly when its gates open on what K accepts before    *)
(* it.                                                                      *)
JustifiedBy(in, K, k) ==
    k \in K <=> Gates(in, Earlier(K, k), OverlayOf(in, Earlier(K, k)), in.schedule[k])

(* The property, in those terms.                                            *)
LEMMA JustifiedMeans ==
    DecisionsJustified <=> \A k \in 1..Len(decisions) : JustifiedBy(input, accepted, k)
  BY DEF DecisionsJustified, JustifiedBy, Gates, Earlier, Overlay, OverlayOf

(* A slot is shadowed exactly when an accepted action has it.               *)
LEMMA ShadowedIff ==
    ASSUME IInv, Pending
    PROVE  Shadowed <=> \E j \in accepted : input.schedule[j].slot = Action.slot
  <1>1. Action.slot \in Slots
    BY ActionTyped DEF IInv
  <1> QED
    BY <1>1 DEF IInv, SlotsInv, FreeSlot, TakenSlot, SlotOf, Shadowed

(* A step decides one more action, accepting it exactly when the gates open. *)
LEMMA OneVerdict ==
    ASSUME IInv, Next
    PROVE  /\ Pending
           /\ input' = input
           /\ Len(decisions') = Turn
           /\ accepted' = accepted \/ accepted' = accepted \cup {Turn}
           /\ Turn \in accepted' <=>
                /\ Action.role \in input.active
                /\ PolicyOK(current, Action)
                /\ ~Shadowed
                /\ Admissible(Apply(current, Action))
  <1>1. Turn \notin accepted /\ decisions \in Seq(Decision)
    BY DEF IInv, TypeOK, Turn
  <1>2. ASSUME NEW reason, NEW g, NEW b, Decide(reason, g, b)
        PROVE  Len(decisions') = Turn
    BY <1>1, <1>2 DEF Decide, Turn
  <1>3. CASE RejectRole
    BY <1>1, <1>2, <1>3 DEF RejectRole, Reject, RoleActive
  <1>4. CASE RejectPolicy
    BY <1>1, <1>2, <1>4 DEF RejectPolicy, Reject
  <1>5. CASE RejectShadowed
    BY <1>1, <1>2, <1>5 DEF RejectShadowed, Reject
  <1>6. CASE RejectInadmissible
    BY <1>1, <1>2, <1>6 DEF RejectInadmissible, Reject
  <1>7. CASE Accept
    BY <1>1, <1>2, <1>7 DEF Accept, RoleActive
  <1> QED
    BY <1>3, <1>4, <1>5, <1>6, <1>7 DEF Next

(* A verdict is never revised, and each new one is justified.               *)
LEMMA VerdictsKeep ==
    ASSUME IInv, DecisionsJustified, [Next]_resolverVars
    PROVE  DecisionsJustified'
  <1>1. DecisionsJustified' <=>
            \A k \in 1..Len(decisions') : JustifiedBy(input', accepted', k)
    BY DEF DecisionsJustified, JustifiedBy, Gates, Earlier, Overlay, OverlayOf
  <1>2. \A k \in 1..Len(decisions) : JustifiedBy(input, accepted, k)
    BY JustifiedMeans
  <1>3. CASE UNCHANGED resolverVars
    BY <1>1, <1>2, <1>3 DEF resolverVars
  <1>4. CASE Next
    <2>1. /\ Pending
          /\ input' = input
          /\ Len(decisions') = Turn
          /\ accepted' = accepted \/ accepted' = accepted \cup {Turn}
          /\ Turn \in accepted' <=>
                /\ Action.role \in input.active
                /\ PolicyOK(current, Action)
                /\ ~Shadowed
                /\ Admissible(Apply(current, Action))
      BY <1>4, OneVerdict
    <2>2. /\ Len(decisions) \in Nat
          /\ Turn = Len(decisions) + 1
          /\ accepted \subseteq 1..Len(decisions)
      BY DEF IInv, TypeOK, Turn
    <2> SUFFICES ASSUME NEW k \in 1..Len(decisions') PROVE JustifiedBy(input', accepted', k)
      BY <1>1
    <2>3. CASE k = Turn
      <3>1. Earlier(accepted', k) = accepted
        BY <2>1, <2>2, <2>3 DEF Earlier
      <3>2. OverlayOf(input', Earlier(accepted', k)) = current
        BY <2>1, <3>1, CurrentIsOverlay DEF Overlay, OverlayOf
      <3>3. input'.schedule[k] = Action
        BY <2>1, <2>3 DEF Action
      <3>4. Shadowed <=> \E j \in accepted : input.schedule[j].slot = Action.slot
        BY <2>1, ShadowedIff
      <3>5. Gates(input', accepted, current, Action) <=> Turn \in accepted'
        BY <2>1, <3>4 DEF Gates
      <3> QED
        BY <2>3, <3>1, <3>2, <3>3, <3>5 DEF JustifiedBy
    <2>4. CASE k # Turn
      <3>1. k \in 1..Len(decisions)
        BY <2>1, <2>2, <2>4
      <3>2. /\ Earlier(accepted', k) = Earlier(accepted, k)
            /\ k \in accepted' <=> k \in accepted
        BY <2>1, <2>2, <3>1 DEF Earlier
      <3>3. JustifiedBy(input, accepted, k)
        BY <1>2, <3>1
      <3> QED
        BY <2>1, <3>2, <3>3 DEF JustifiedBy
    <2> QED
      BY <2>3, <2>4
  <1> QED
    BY <1>3, <1>4

(* Every recorded verdict is the one its gates give on the overlay of the   *)
(* actions accepted before it: a trace's decisions can be recomputed from   *)
(* its input, as replay does.                                               *)
THEOREM ResolverJustified == Spec => []DecisionsJustified
  <1>1. Init => DecisionsJustified
    BY DEF Init, DecisionsJustified
  <1>2. IInv /\ DecisionsJustified /\ [Next]_resolverVars => DecisionsJustified'
    BY VerdictsKeep
  <1> QED
    BY <1>1, <1>2, ResolverInvariant, PTL DEF Spec

(* An accepted action replaces the value its rule was evaluated on.         *)
THEOREM ResolverNoLostUpdate == Spec => []NoLostUpdate
  <1>1. IInv => NoLostUpdate
    BY DEF IInv
  <1> QED
    BY <1>1, ResolverInvariant, PTL

(* The state is admissible before each action of an admissible run.         *)
PrefixesAdmissible ==
    Admissible(input.graph) =>
        \A k \in 1..Turn : Admissible(OverlayOf(input, Earlier(accepted, k)))

(* After a step, too, the state is the overlay of the accepted writes.      *)
LEMMA OverlayAfter == IInv' => (current = Overlay(accepted))'
  <1>1. IInv => current = Overlay(accepted)
    BY CurrentIsOverlay
  <1> QED
    BY <1>1, PTL

(* Every step keeps the states on the way admissible.                       *)
LEMMA PrefixesKeep ==
    ASSUME IInv, PrefixesAdmissible, [Next]_resolverVars
    PROVE  PrefixesAdmissible'
  <1>1. PrefixesAdmissible' <=>
            (Admissible(input'.graph) =>
                \A k \in 1..Turn' : Admissible(OverlayOf(input', Earlier(accepted', k))))
    BY DEF PrefixesAdmissible, Earlier, OverlayOf
  <1>2. CASE UNCHANGED resolverVars
    BY <1>1, <1>2 DEF resolverVars, PrefixesAdmissible, Turn
  <1>3. CASE Next
    <2>1. /\ Pending
          /\ input' = input
          /\ Len(decisions') = Turn
          /\ accepted' = accepted \/ accepted' = accepted \cup {Turn}
      BY <1>3, OneVerdict
    <2>2. Turn \in Nat /\ Turn = Len(decisions) + 1 /\ accepted \subseteq 1..Len(decisions)
          /\ Len(decisions) \in Nat /\ Turn' = Turn + 1
      BY <2>1 DEF IInv, TypeOK, Turn
    <2>3. IInv'
      BY NextKeeps
    <2> SUFFICES ASSUME Admissible(input.graph), NEW k \in 1..Turn'
                 PROVE  Admissible(OverlayOf(input', Earlier(accepted', k)))
      BY <1>1, <2>1
    <2>4. CASE k = Turn'
      <3>1. Earlier(accepted', k) = accepted'
        <4>1. accepted' \subseteq 1..Len(decisions')
          BY <2>3 DEF IInv, TypeOK
        <4>2. accepted' \subseteq 1..Turn
          BY <2>1, <4>1
        <4>3. k = Turn + 1
          BY <2>2, <2>4
        <4>4. \A j \in accepted' : j < k
          BY <2>2, <4>2, <4>3
        <4> QED
          BY <4>4 DEF Earlier
      <3>2. (current = Overlay(accepted))'
        BY <2>3, OverlayAfter
      <3>3. current' = OverlayOf(input', accepted')
        BY <3>2 DEF Overlay, OverlayOf
      <3>4. Admissible(current')
        BY <2>1, <2>3 DEF IInv, AdmissibilityKept
      <3> QED
        BY <3>1, <3>3, <3>4
    <2>5. CASE k # Turn'
      <3>1. k \in 1..Turn
        BY <2>2, <2>5
      <3>2. Earlier(accepted', k) = Earlier(accepted, k)
        BY <2>1, <2>2, <3>1 DEF Earlier
      <3> QED
        BY <2>1, <3>1, <3>2 DEF PrefixesAdmissible
    <2> QED
      BY <2>4, <2>5
  <1> QED
    BY <1>2, <1>3

(* Every state on the way of a run that starts admissible is admissible.    *)
LEMMA PrefixesInvariant == Spec => []PrefixesAdmissible
  <1>1. Init => PrefixesAdmissible
    <2> SUFFICES ASSUME Init, Admissible(input.graph), NEW k \in 1..Turn
                 PROVE  Admissible(OverlayOf(input, Earlier(accepted, k)))
      BY DEF PrefixesAdmissible
    <2>1. Earlier(accepted, k) = {}
      BY DEF Init, Earlier
    <2>2. input.graph \in Graph
      BY ResolverConstants DEF Init, Input
    <2>3. OverlayOf(input, {}) = input.graph
      BY <2>2 DEF OverlayOf, Graph
    <2> QED
      BY <2>1, <2>3
  <1>2. IInv /\ PrefixesAdmissible /\ [Next]_resolverVars => PrefixesAdmissible'
    BY PrefixesKeep
  <1> QED
    BY <1>1, <1>2, ResolverInvariant, PTL DEF Spec

-----------------------------------------------------------------------------
(* Resolution is deterministic. *)

(* A non-empty set of positions has a first one.                            *)
LEMMA FirstOf ==
    ASSUME NEW T, T \subseteq Nat, T # {}
    PROVE  \E i \in T : \A j \in T : i <= j
  <1>1. PICK i \in T : \A j \in T : ~(<<j, i>> \in OpToRel(<, Nat))
    BY NatLessThanWellFounded, WFMin
  <1>2. \A j \in T : ~(j < i)
    BY <1>1 DEF OpToRel
  <1> QED
    BY <1>2

(* The record of a decision, as a function of the input and of what was     *)
(* accepted before.                                                         *)
Recorded(reason, g, h, blockedBy) ==
    [reason |-> reason, pre |-> g, post |-> h, blockedBy |-> blockedBy]

(* The accepted actions with the slot of a.                                 *)
Blocking(in, K, a) == {j \in K : in.schedule[j].slot = a.slot}

(* The record of the first gate that fails, or of the acceptance.           *)
Verdict(in, K, a, g) ==
    IF a.role \notin in.active THEN Recorded("inactive_role", g, g, 0)
    ELSE IF ~PolicyOK(g, a) THEN Recorded("policy", g, g, 0)
    ELSE IF Blocking(in, K, a) # {}
         THEN Recorded("shadowed", g, g, CHOOSE j \in Blocking(in, K, a) : TRUE)
    ELSE IF ~Admissible(Apply(g, a)) THEN Recorded("inadmissible", g, g, 0)
    ELSE Recorded("admissible", g, Apply(g, a), 0)

(* The record of action k, from what K accepts before it.                   *)
VerdictOf(in, K, k) ==
    Verdict(in, Earlier(K, k), in.schedule[k], OverlayOf(in, Earlier(K, k)))

(* Every decision is the record its gates give.                             *)
VerdictsExact == \A k \in 1..Len(decisions) : decisions[k] = VerdictOf(input, accepted, k)

(* A step appends the record its gates give.                                *)
LEMMA OneRecord ==
    ASSUME IInv, Next
    PROVE  decisions' = Append(decisions, Verdict(input, accepted, Action, current))
  <1>1. Pending
    BY OneVerdict
  <1>2. Shadowed <=> Blocking(input, accepted, Action) # {}
    BY <1>1, ShadowedIff DEF Blocking
  <1>3. ASSUME Shadowed
        PROVE  (CHOOSE j \in Blocking(input, accepted, Action) : TRUE) = winner[Action.slot]
    <2>1. Action.slot \in Slots
      BY <1>1, ActionTyped DEF IInv
    <2>2. Blocking(input, accepted, Action) = {winner[Action.slot]}
      BY <1>3, <2>1 DEF Shadowed, IInv, SlotsInv, TakenSlot, SlotOf, Blocking
    <2> QED
      BY <2>2
  <1>4. CASE RejectRole
    BY <1>4 DEF RejectRole, Reject, Decide, RoleActive, Verdict, Recorded
  <1>5. CASE RejectPolicy
    BY <1>5 DEF RejectPolicy, Reject, Decide, RoleActive, Verdict, Recorded
  <1>6. CASE RejectShadowed
    BY <1>2, <1>3, <1>6 DEF RejectShadowed, Reject, Decide, RoleActive, Verdict, Recorded
  <1>7. CASE RejectInadmissible
    BY <1>2, <1>7 DEF RejectInadmissible, Reject, Decide, RoleActive, Verdict, Recorded
  <1>8. CASE Accept
    BY <1>2, <1>8 DEF Accept, Decide, RoleActive, Verdict, Recorded
  <1> QED
    BY <1>4, <1>5, <1>6, <1>7, <1>8 DEF Next

(* Records are never revised, and each new one is exact.                    *)
LEMMA VerdictsExactKeep ==
    ASSUME IInv, VerdictsExact, [Next]_resolverVars
    PROVE  VerdictsExact'
  <1>1. VerdictsExact' <=>
            \A k \in 1..Len(decisions') : decisions'[k] = VerdictOf(input', accepted', k)
    BY DEF VerdictsExact, VerdictOf, Verdict, Blocking, Earlier, OverlayOf
  <1>2. \A k \in 1..Len(decisions) : decisions[k] = VerdictOf(input, accepted, k)
    BY DEF VerdictsExact
  <1>3. CASE UNCHANGED resolverVars
    BY <1>1, <1>2, <1>3 DEF resolverVars
  <1>4. CASE Next
    <2>1. /\ input' = input
          /\ Len(decisions') = Turn
          /\ accepted' = accepted \/ accepted' = accepted \cup {Turn}
      BY <1>4, OneVerdict
    <2>2. /\ Len(decisions) \in Nat
          /\ Turn = Len(decisions) + 1
          /\ accepted \subseteq 1..Len(decisions)
      BY DEF IInv, TypeOK, Turn
    <2> DEFINE v == Verdict(input, accepted, Action, current)
    <2>3. decisions' = Append(decisions, v)
      BY <1>4, OneRecord
    <2> HIDE DEF v
    <2>4. /\ \A k \in 1..Len(decisions) : decisions'[k] = decisions[k]
          /\ decisions'[Turn] = v
      BY <2>2, <2>3 DEF IInv, TypeOK
    <2> SUFFICES ASSUME NEW k \in 1..Len(decisions')
                 PROVE  decisions'[k] = VerdictOf(input', accepted', k)
      BY <1>1
    <2>5. CASE k = Turn
      <3>1. Earlier(accepted', k) = accepted
        <4>1. \A j \in accepted : j < Turn
          BY <2>2
        <4>2. ~(Turn < Turn)
          BY <2>2
        <4> QED
          BY <2>1, <2>5, <4>1, <4>2 DEF Earlier
      <3>2. OverlayOf(input, accepted) = current
        BY CurrentIsOverlay DEF Overlay, OverlayOf
      <3>3. input.schedule[k] = Action
        BY <2>5 DEF Action
      <3> QED
        BY <2>1, <2>4, <2>5, <3>1, <3>2, <3>3 DEF VerdictOf, v
    <2>6. CASE k # Turn
      <3>1. k \in 1..Len(decisions)
        BY <2>1, <2>2, <2>6
      <3>2. Earlier(accepted', k) = Earlier(accepted, k)
        BY <2>1, <2>2, <3>1 DEF Earlier
      <3> QED
        BY <1>2, <2>1, <2>4, <3>1, <3>2 DEF VerdictOf
    <2> QED
      BY <2>5, <2>6
  <1> QED
    BY <1>3, <1>4

(* Every record is exact throughout a resolution.                           *)
LEMMA VerdictsInvariant == Spec => []VerdictsExact
  <1>1. Init => VerdictsExact
    BY DEF Init, VerdictsExact
  <1>2. IInv /\ VerdictsExact /\ [Next]_resolverVars => VerdictsExact'
    BY VerdictsExactKeep
  <1> QED
    BY <1>1, <1>2, ResolverInvariant, PTL DEF Spec

(* The outcome of a resolution that has come to its end.                    *)
Resolution(in, K, D) ==
    /\ D \in Seq(Decision) /\ Len(D) = Len(in.schedule)
    /\ K \subseteq 1..Len(D)
    /\ \A k \in 1..Len(D) : JustifiedBy(in, K, k) /\ D[k] = VerdictOf(in, K, k)

(* Resolution is deterministic: an input has one accepted set and one list  *)
(* of decisions.                                                            *)
THEOREM ResolutionUnique ==
    ASSUME NEW in, NEW K, NEW D, NEW L, NEW F, Resolution(in, K, D), Resolution(in, L, F)
    PROVE  K = L /\ D = F
  <1>1. /\ Len(D) \in Nat /\ Len(F) = Len(D)
        /\ D = [k \in 1..Len(D) |-> D[k]] /\ F = [k \in 1..Len(D) |-> F[k]]
    BY DEF Resolution
  <1> DEFINE n == Len(D)
             T == {k \in 1..n : ~(k \in K <=> k \in L)}
  <1>2. K \subseteq 1..n /\ L \subseteq 1..n
    BY <1>1 DEF Resolution
  <1>3. T = {}
    <2> SUFFICES ASSUME T # {} PROVE FALSE
      OBVIOUS
    <2>1. T \subseteq Nat
      BY <1>1
    <2>2. PICK k \in T : \A j \in T : k <= j
      BY <2>1, FirstOf
    <2>3. \A j \in 1..n : j < k => (j \in K <=> j \in L)
      BY <1>1, <2>2
    <2>4. Earlier(K, k) = Earlier(L, k)
      BY <1>2, <2>3 DEF Earlier
    <2>5. JustifiedBy(in, K, k) /\ JustifiedBy(in, L, k)
      BY <1>1 DEF Resolution
    <2> QED
      BY <2>2, <2>4, <2>5 DEF JustifiedBy
  <1>4. K = L
    BY <1>2, <1>3
  <1>5. \A k \in 1..n : D[k] = F[k]
    BY <1>1, <1>4 DEF Resolution
  <1> HIDE DEF n, T
  <1> QED
    BY <1>1, <1>4, <1>5 DEF n

(* A call of the resolver, with nothing decided yet.                        *)
Begun ==
    /\ input \in Input
    /\ current = input.graph
    /\ accepted = {}
    /\ winner = [s \in Slots |-> 0]
    /\ decisions = <<>>

(* Nothing decided is rightly decided, whatever the call.                   *)
LEMMA BegunHolds == Begun => IInv /\ DecisionsJustified /\ VerdictsExact
  <1> SUFFICES ASSUME Begun PROVE IInv /\ DecisionsJustified /\ VerdictsExact
    OBVIOUS
  <1>1. TypeOK
    BY DEF Begun, TypeOK, Input
  <1>2. SlotsInv
    BY DEF Begun, SlotsInv, FreeSlot
  <1>3. AdmissibilityKept /\ NoLostUpdate /\ DecisionsJustified /\ VerdictsExact
    BY DEF Begun, AdmissibilityKept, NoLostUpdate, DecisionsJustified, VerdictsExact
  <1> QED
    BY <1>1, <1>2, <1>3 DEF IInv

(* A finished call is a resolution of its input.                            *)
LEMMA FinishedResolution ==
    ASSUME IInv, DecisionsJustified, VerdictsExact, Len(decisions) = Len(input.schedule)
    PROVE  Resolution(input, accepted, decisions) /\ current = OverlayOf(input, accepted)
  <1>1. current = OverlayOf(input, accepted)
    BY CurrentIsOverlay DEF Overlay, OverlayOf
  <1>2. decisions \in Seq(Decision) /\ accepted \subseteq 1..Len(decisions)
    BY DEF IInv, TypeOK
  <1> QED
    BY <1>1, <1>2, JustifiedMeans DEF Resolution, VerdictsExact

-----------------------------------------------------------------------------
(* A resolution done again from what was recorded of it.                    *)

(* s is a sequence of whatever elements.                                    *)
IsSeq(s) == \E S : s \in Seq(S)

(* A sequence with one more element, whatever the elements are.             *)
LEMMA AppendAny ==
    ASSUME NEW s, IsSeq(s), NEW x
    PROVE  /\ IsSeq(Append(s, x))
           /\ Len(s) \in Nat /\ DOMAIN s = 1..Len(s)
           /\ DOMAIN Append(s, x) = 1..(Len(s) + 1)
           /\ \A k \in DOMAIN s : Append(s, x)[k] = s[k]
           /\ Append(s, x)[Len(s) + 1] = x
  <1>1. PICK S : s \in Seq(S)
    BY DEF IsSeq
  <1>2. s \in Seq(S \cup {x}) /\ x \in S \cup {x}
    BY <1>1
  <1>3. Append(s, x) \in Seq(S \cup {x})
    BY <1>2
  <1> QED
    BY <1>2, <1>3 DEF IsSeq

(* The first decision recorded starts from the input graph.                 *)
FirstFromInput ==
    /\ IsSeq(decisions)
    /\ current = input.graph \/ decisions # <<>>
    /\ decisions # <<>> => decisions[1].pre = input.graph

(* The resolver's invariants.                                               *)
Sound == IInv /\ DecisionsJustified /\ VerdictsExact

(* A replay starts with nothing resolved. *)
LEMMA BegunSound == Begun' => Sound'
  <1>1. Begun => Sound
    BY BegunHolds DEF Sound
  <1> QED
    BY <1>1, PTL

(* A step of the resolution keeps the verdicts sound.                       *)
LEMMA SoundKept ==
    ASSUME Sound, [Next]_resolverVars
    PROVE  Sound'
  BY NextKeeps, VerdictsKeep, VerdictsExactKeep DEF Sound

(* Every step appends one decision.                                         *)
LEMMA FirstKept ==
    ASSUME FirstFromInput, Next
    PROVE  FirstFromInput' /\ input' = input
  <1>1. \E reason, g, b : Decide(reason, g, b) /\ input' = input
    BY DEF Next, RejectRole, RejectPolicy, RejectShadowed, RejectInadmissible, Reject, Accept
  <1>2. PICK d : decisions' = Append(decisions, d) /\ d.pre = current /\ input' = input
    BY <1>1 DEF Decide
  <1>3. /\ IsSeq(decisions')
        /\ Len(decisions) \in Nat /\ DOMAIN decisions = 1..Len(decisions)
        /\ DOMAIN decisions' = 1..(Len(decisions) + 1)
        /\ \A k \in DOMAIN decisions : decisions'[k] = decisions[k]
        /\ decisions'[Len(decisions) + 1] = d
    BY <1>2, AppendAny DEF FirstFromInput
  <1>4. decisions' # <<>>
    <2>1. 1 \in DOMAIN decisions'
      BY <1>3
    <2> QED
      BY <2>1
  <1>5. decisions'[1].pre = input.graph
    <2>1. CASE decisions = <<>>
      BY <1>2, <1>3, <2>1 DEF FirstFromInput
    <2>2. CASE decisions # <<>>
      <3>1. 1 \in DOMAIN decisions
        <4>1. Len(decisions) # 0
          BY <2>2 DEF FirstFromInput, IsSeq
        <4> QED
          BY <1>3, <4>1
      <3> QED
        BY <1>3, <2>2, <3>1 DEF FirstFromInput
    <2> QED
      BY <2>1, <2>2
  <1> QED
    BY <1>2, <1>3, <1>4, <1>5 DEF FirstFromInput

-----------------------------------------------------------------------------
(* The schedule: LexLess is a total order, ScheduleActions sorts by it, and *)
(* the parts a key is put together from can be read off it.                 *)

(* Keys of one length. *)
Keys(n) == [1..n -> Int]

(* Among keys of one length, LexLess is a strict total order.               *)
LEMMA LexOrder ==
    ASSUME NEW n \in Nat
    PROVE  /\ \A x \in Keys(n) : ~LexLess(x, x)
           /\ \A x, y \in Keys(n) : x = y \/ LexLess(x, y) \/ LexLess(y, x)
           /\ \A x, y, w \in Keys(n) : LexLess(x, y) /\ LexLess(y, w) => LexLess(x, w)
  <1>1. \A x \in Keys(n) : ~LexLess(x, x)
    BY DEF LexLess, Keys
  <1>2. ASSUME NEW x \in Keys(n), NEW y \in Keys(n), x # y
        PROVE  LexLess(x, y) \/ LexLess(y, x)
    <2> DEFINE T == {i \in 1..n : x[i] # y[i]}
    <2>1. T # {} /\ T \subseteq Nat
      BY <1>2 DEF Keys
    <2>2. PICK i \in T : \A j \in T : i <= j
      BY <2>1, FirstOf
    <2>3. \A j \in 1..i - 1 : x[j] = y[j]
      BY <2>2
    <2>4. x[i] < y[i] \/ y[i] < x[i]
      BY <2>2 DEF Keys
    <2> QED
      BY <2>2, <2>3, <2>4 DEF LexLess, Keys
  <1>3. ASSUME NEW x \in Keys(n), NEW y \in Keys(n), NEW w \in Keys(n),
               LexLess(x, y), LexLess(y, w)
        PROVE  LexLess(x, w)
    <2>1. PICK i \in 1..n : x[i] < y[i] /\ \A j \in 1..i - 1 : x[j] = y[j]
      BY <1>3 DEF LexLess, Keys
    <2>2. PICK k \in 1..n : y[k] < w[k] /\ \A j \in 1..k - 1 : y[j] = w[j]
      BY <1>3 DEF LexLess, Keys
    <2>3. /\ x[i] \in Int /\ y[i] \in Int /\ w[i] \in Int
          /\ x[k] \in Int /\ y[k] \in Int /\ w[k] \in Int
          /\ DOMAIN x = 1..n
      BY DEF Keys
    <2>4. CASE i <= k
      <3>1. x[i] < w[i] /\ \A j \in 1..i - 1 : x[j] = w[j]
        BY <2>1, <2>2, <2>3, <2>4
      <3> QED
        BY <2>3, <3>1 DEF LexLess
    <2>5. CASE k < i
      <3>1. x[k] < w[k] /\ \A j \in 1..k - 1 : x[j] = w[j]
        BY <2>1, <2>2, <2>3, <2>5
      <3> QED
        BY <2>3, <3>1 DEF LexLess
    <2> QED
      BY <2>4, <2>5
  <1> QED
    BY <1>1, <1>2, <1>3

-----------------------------------------------------------------------------
(* The keys of K before x.                                                  *)
Below(K, x) == {y \in K : LexLess(y, x)}

(* The place of a key in the order of K: one more than the keys before it.                           *)
Place(K, x) == Cardinality(Below(K, x)) + 1

(* The places of finitely many keys of one length are 1, 2, ... in order.   *)
LEMMA PlacesInOrder ==
    ASSUME NEW n \in Nat, NEW K \in SUBSET Keys(n), IsFiniteSet(K)
    PROVE  /\ Cardinality(K) \in Nat
           /\ \A x \in K : Place(K, x) \in 1..Cardinality(K)
           /\ \A x, y \in K : LexLess(x, y) => Place(K, x) < Place(K, y)
           /\ \A x, y \in K : Place(K, x) = Place(K, y) => x = y
           /\ \A i \in 1..Cardinality(K) : \E x \in K : Place(K, x) = i
  <1>1. Cardinality(K) \in Nat
    BY FS_CardinalityType
  <1>2. ASSUME NEW x \in K
        PROVE  /\ Below(K, x) \in SUBSET K /\ x \notin Below(K, x)
               /\ IsFiniteSet(Below(K, x)) /\ Cardinality(Below(K, x)) \in Nat
    <2>1. Below(K, x) \in SUBSET K
      BY DEF Below
    <2>2. x \notin Below(K, x)
      BY LexOrder DEF Below
    <2> QED
      BY <2>1, <2>2, FS_Subset, FS_CardinalityType
  <1>3. ASSUME NEW x \in K
        PROVE  Place(K, x) \in 1..Cardinality(K)
    <2>1. Cardinality(Below(K, x)) <= Cardinality(K) /\ Cardinality(Below(K, x)) # Cardinality(K)
      BY <1>2, FS_Subset
    <2> QED
      BY <1>1, <1>2, <2>1 DEF Place
  <1>4. ASSUME NEW x \in K, NEW y \in K, LexLess(x, y)
        PROVE  Place(K, x) < Place(K, y)
    <2>1. Below(K, x) \in SUBSET Below(K, y)
      BY <1>4, LexOrder DEF Below
    <2>2. x \in Below(K, y)
      BY <1>4 DEF Below
    <2>3. /\ Cardinality(Below(K, x)) <= Cardinality(Below(K, y))
          /\ Cardinality(Below(K, x)) # Cardinality(Below(K, y))
      BY <1>2, <2>1, <2>2, FS_Subset
    <2> QED
      BY <1>2, <2>3 DEF Place
  <1>5. ASSUME NEW x \in K, NEW y \in K, Place(K, x) = Place(K, y)
        PROVE  x = y
    <2>1. ~LexLess(x, y) /\ ~LexLess(y, x)
      BY <1>3, <1>4, <1>5
    <2> QED
      BY <2>1, LexOrder
  <1>6. ASSUME NEW i \in 1..Cardinality(K)
        PROVE  \E x \in K : Place(K, x) = i
    <2> DEFINE f == [x \in K |-> Place(K, x)]
               N == 1..Cardinality(K)
    <2>1. f \in Injection(K, N)
      BY <1>3, <1>5 DEF Injection, IsInjective
    <2>2. IsFiniteSet(N) /\ Cardinality(N) = Cardinality(K)
      BY <1>1, FS_Interval
    <2>3. f \in Surjection(K, N)
      BY <2>1, <2>2, FS_Injection
    <2> QED
      BY <2>3 DEF Surjection
  <1> QED
    BY <1>1, <1>3, <1>4, <1>5, <1>6

(* Finitely many elements with different keys are sorted into a sequence    *)
(* that holds each of them once, in the order of their keys.                *)
LEMMA SortsByKey ==
    ASSUME NEW S, IsFiniteSet(S), NEW n \in Nat, NEW key \in [S -> Keys(n)],
           \A a, b \in S : key[a] = key[b] => a = b
    PROVE  LET s == SortedBy(key) IN
           /\ s \in Seq(S)
           /\ \A a \in S : \E i \in 1..Len(s) : s[i] = a
           /\ \A i, j \in 1..Len(s) : i < j => LexLess(key[s[i]], key[s[j]])
  <1> DEFINE K == {key[a] : a \in DOMAIN key}
             s == SortedBy(key)
             m == Cardinality(DOMAIN key)
             place == [x \in K |-> Cardinality({y \in K : LexLess(y, x)}) + 1]
  <1>1. K \in SUBSET Keys(n)
    OBVIOUS
  <1>2. IsFiniteSet(K) /\ Cardinality(K) = m
    <2>1. key \in [S -> K] /\ \A a, b \in S : key[a] = key[b] => a = b
      OBVIOUS
    <2>2. \A x \in K : \E a \in S : key[a] = x
      OBVIOUS
    <2> HIDE DEF K
    <2>3. key \in Bijection(S, K)
      BY <2>1, <2>2 DEF Bijection, Injection, IsInjective, Surjection
    <2> QED
      BY <2>3, FS_Bijection DEF ExistsBijection
  <1>3. s = [i \in 1..m |-> CHOOSE a \in DOMAIN key : place[key[a]] = i]
    BY Zenon DEF SortedBy
  <1>4. /\ m \in Nat
        /\ \A a \in S : key[a] \in K
        /\ \A x \in K : \E a \in S : x = key[a]
        /\ \A x \in K : place[x] = Place(K, x)
    BY <1>1, <1>2, PlacesInOrder DEF Place, Below
  <1> HIDE DEF K, s, place
  <1>5. ASSUME NEW i \in 1..m
        PROVE  s[i] \in S /\ Place(K, key[s[i]]) = i
    <2>1. PICK x \in K : Place(K, x) = i
      BY <1>1, <1>2, PlacesInOrder
    <2>2. \E a \in S : place[key[a]] = i
      BY <1>4, <2>1
    <2>3. s[i] \in S /\ place[key[s[i]]] = i
      BY <1>3, <2>2
    <2> QED
      BY <1>4, <2>3
  <1>6. s \in Seq(S) /\ Len(s) = m
    BY <1>3, <1>4, <1>5
  <1>7. ASSUME NEW a \in S
        PROVE  \E i \in 1..m : s[i] = a
    <2> DEFINE i == Place(K, key[a])
    <2>1. i \in 1..m
      BY <1>1, <1>2, <1>4, PlacesInOrder
    <2>2. key[s[i]] = key[a]
      BY <1>1, <1>2, <1>4, <1>5, <2>1, PlacesInOrder
    <2> QED
      BY <1>5, <2>1, <2>2
  <1>8. ASSUME NEW i \in 1..m, NEW j \in 1..m, i < j
        PROVE  LexLess(key[s[i]], key[s[j]])
    <2> DEFINE x == key[s[i]]
               y == key[s[j]]
    <2>1. x \in K /\ y \in K /\ Place(K, x) = i /\ Place(K, y) = j
      BY <1>4, <1>5
    <2> HIDE DEF x, y
    <2>2. x # y /\ ~LexLess(y, x)
      BY <1>1, <1>2, <1>8, <2>1, PlacesInOrder
    <2>3. LexLess(x, y)
      BY <1>1, <2>1, <2>2, LexOrder
    <2> QED
      BY <2>3 DEF x, y
  <1> QED
    BY <1>6, <1>7, <1>8 DEF s

(* So the schedule of actions with different keys is sorted.                *)
LEMMA ScheduleIsSorted ==
    ASSUME NEW S, IsFiniteSet(S), NEW n \in Nat,
           \A a \in S : ScheduleKey(a) \in Keys(n),
           \A a, b \in S : ScheduleKey(a) = ScheduleKey(b) => a = b
    PROVE  LET s == ScheduleActions(S) IN
           /\ s \in Seq(S)
           /\ \A a \in S : \E i \in 1..Len(s) : s[i] = a
           /\ \A i, j \in 1..Len(s) : i < j => LexLess(ScheduleKey(s[i]), ScheduleKey(s[j]))
  <1> DEFINE key == [a \in S |-> ScheduleKey(a)]
             s == SortedBy(key)
  <1>1. /\ key \in [S -> Keys(n)] /\ \A a \in S : key[a] = ScheduleKey(a)
        /\ \A a, b \in S : key[a] = key[b] => a = b
    OBVIOUS
  <1> HIDE DEF key, s
  <1>2. /\ s \in Seq(S)
        /\ \A a \in S : \E i \in 1..Len(s) : s[i] = a
        /\ \A i, j \in 1..Len(s) : i < j => LexLess(key[s[i]], key[s[j]])
    BY <1>1, SortsByKey DEF s
  <1>3. ScheduleActions(S) = s
    BY DEF ScheduleActions, s, key
  <1>4. \A i \in 1..Len(s) : key[s[i]] = ScheduleKey(s[i])
    <2>1. \A i \in 1..Len(s) : s[i] \in S
      BY <1>2
    <2> QED
      BY <1>1, <2>1, Zenon
  <1>5. ASSUME NEW i \in 1..Len(s), NEW j \in 1..Len(s), i < j
        PROVE  LexLess(ScheduleKey(s[i]), ScheduleKey(s[j]))
    <2>1. LexLess(key[s[i]], key[s[j]])
      BY <1>2, <1>5
    <2>2. key[s[i]] = ScheduleKey(s[i]) /\ key[s[j]] = ScheduleKey(s[j])
      BY <1>4
    <2> QED
      BY <2>1, <2>2, Zenon
  <1> QED
    BY <1>2, <1>3, <1>5, Zenon

(* n is written with the digits a and b.                                    *)
TwoDigits(n, a, b) == a \in 1..9 /\ b \in 0..9 /\ n = 10 * a + b

(* What the text of a number of at most two digits looks like. *)
Looks(n, s) ==
    \/ n \in 0..9 /\ s[1] = n /\ s[2] = 10 /\ s[3] = 10
    \/ \E a, b \in 0..9 : TwoDigits(n, a, b) /\ s[1] = a /\ s[2] = b /\ s[3] = 10
    \/ -n \in 1..9 /\ s[1] = -1 /\ s[2] = -n /\ s[3] = 10
    \/ \E a, b \in 0..9 : TwoDigits(-n, a, b) /\ s[1] = -1 /\ s[2] = a /\ s[3] = b

(* r is a sequence of members of S: s, of length m, and then t, of length   *)
(* k.                                                                       *)
InParts(r, S, s, m, t, k) ==
    /\ r \in Seq(S) /\ Len(r) = m + k
    /\ \A i \in 1..m : r[i] = s[i]
    /\ \A i \in 1..k : r[m + i] = t[i]

(* The elements of two sequences put together. *)
LEMMA Joined ==
    ASSUME NEW S, NEW m \in Nat, NEW k \in Nat, NEW s \in Seq(S), NEW t \in Seq(S),
           Len(s) = m, Len(t) = k
    PROVE  InParts(s \o t, S, s, m, t, k)
  <1>1. /\ s \o t \in Seq(S)
        /\ Len(s \o t) = Len(s) + Len(t)
        /\ \A i \in 1..Len(s) + Len(t) :
             (s \o t)[i] = IF i <= Len(s) THEN s[i] ELSE t[i - Len(s)]
    BY ConcatProperties, Zenon
  <1> DEFINE u == s \o t
  <1> HIDE DEF u
  <1>2. /\ u \in Seq(S) /\ Len(u) = m + k
        /\ \A i \in 1..m + k : u[i] = IF i <= m THEN s[i] ELSE t[i - m]
    BY <1>1 DEF u
  <1>3. ASSUME NEW i \in 1..m PROVE u[i] = s[i]
    BY <1>2
  <1>4. ASSUME NEW i \in 1..k PROVE u[m + i] = t[i]
    <2>1. m + i \in 1..m + k /\ ~(m + i <= m) /\ (m + i) - m = i
      OBVIOUS
    <2> QED
      BY <1>2, <2>1
  <1> QED
    BY <1>2, <1>3, <1>4 DEF u, InParts

(* A number from 10 to 99 is written with its quotient and its remainder.   *)
LEMMA Digits ==
    ASSUME NEW n \in 10..99
    PROVE  TwoDigits(n, n \div 10, n % 10)
  BY DEF TwoDigits

(* The text of a number of at most two digits has three positions and looks *)
(* as Looks says.                                                           *)
LEMMA TextTyped ==
    ASSUME NEW n \in -99..99
    PROVE  Text(n) \in [1..3 -> -1..10] /\ Looks(n, Text(n))
  <1> DEFINE m == IF n < 0 THEN -n ELSE n
             digits == IF m < 10 THEN <<m>> ELSE <<m \div 10, m % 10>>
             signed == IF n < 0 THEN <<-1>> \o digits ELSE digits
             d1 == m \div 10
             d2 == m % 10
  <1>1. Text(n) = [i \in 1..3 |-> IF i \in DOMAIN signed THEN signed[i] ELSE 10]
    BY DEF Text
  <1>2. CASE n \in 0..9
    <2>1. signed = <<n>>
      BY <1>2
    <2> HIDE DEF signed
    <2> QED
      BY <1>1, <1>2, <2>1 DEF Looks
  <1>3. CASE n \in 10..99
    <2>1. signed = <<d1, d2>> /\ m = n
      BY <1>3
    <2>2. TwoDigits(n, d1, d2)
      BY <1>3, <2>1, Digits
    <2> HIDE DEF signed, d1, d2, m
    <2>3. d1 \in 0..9 /\ d2 \in 0..9
      BY <2>2 DEF TwoDigits
    <2>4. Text(n)[1] = d1 /\ Text(n)[2] = d2 /\ Text(n)[3] = 10 /\ Text(n) \in [1..3 -> -1..10]
      BY <1>1, <2>1, <2>3
    <2> QED
      BY <2>2, <2>3, <2>4 DEF Looks
  <1>4. CASE -n \in 1..9
    <2>1. m = -n /\ m < 10 /\ n < 0
      BY <1>4
    <2>2. signed = <<-1>> \o <<m>>
      BY <2>1
    <2> HIDE DEF signed, m
    <2>3. Len(signed) = 2 /\ signed \in Seq(Int) /\ signed[1] = -1 /\ signed[2] = m
      <3>1. /\ <<-1>> \in Seq(Int) /\ Len(<<-1>>) = 1 /\ <<-1>>[1] = -1
            /\ <<m>> \in Seq(Int) /\ Len(<<m>>) = 1 /\ <<m>>[1] = m
        BY <1>4, <2>1
      <3> QED
        BY <2>2, <3>1, Joined DEF InParts
    <2> QED
      BY <1>1, <1>4, <2>1, <2>3 DEF Looks
  <1>5. CASE -n \in 10..99
    <2>1. m = -n /\ ~(m < 10) /\ n < 0
      BY <1>5
    <2>2. signed = <<-1>> \o <<d1, d2>>
      BY <2>1
    <2>3. TwoDigits(-n, d1, d2)
      BY <1>5, <2>1, Digits
    <2> HIDE DEF signed, d1, d2, m
    <2>4. d1 \in 0..9 /\ d2 \in 0..9
      BY <2>3 DEF TwoDigits
    <2>5. /\ Len(signed) = 3 /\ signed \in Seq(Int)
          /\ signed[1] = -1 /\ signed[2] = d1 /\ signed[3] = d2
      <3>1. /\ <<-1>> \in Seq(Int) /\ Len(<<-1>>) = 1 /\ <<-1>>[1] = -1
            /\ <<d1, d2>> \in Seq(Int) /\ Len(<<d1, d2>>) = 2
            /\ <<d1, d2>>[1] = d1 /\ <<d1, d2>>[2] = d2
        BY <2>4
      <3> QED
        BY <2>2, <3>1, Joined DEF InParts
    <2>6. Text(n)[1] = -1 /\ Text(n)[2] = d1 /\ Text(n)[3] = d2 /\ Text(n) \in [1..3 -> -1..10]
      BY <1>1, <2>4, <2>5
    <2> QED
      BY <2>3, <2>4, <2>6 DEF Looks
  <1> QED
    BY <1>2, <1>3, <1>4, <1>5

(* The text of such a number is a sequence of length 3.                     *)
LEMMA TextLength ==
    ASSUME NEW n \in -99..99
    PROVE  Text(n) \in Seq(Int) /\ Len(Text(n)) = 3
  <1>1. Text(n) \in [1..3 -> -1..10]
    BY TextTyped
  <1>2. \A i \in 1..3 : Text(n)[i] \in Int
    BY <1>1
  <1>3. Text(n) = [i \in 1..3 |-> Text(n)[i]]
    BY <1>1
  <1> DEFINE u == Text(n)
  <1> HIDE DEF u
  <1>4. u = [i \in 1..3 |-> u[i]] /\ \A i \in 1..3 : u[i] \in Int
    BY <1>2, <1>3 DEF u
  <1>5. u \in Seq(Int) /\ Len(u) = 3
    BY <1>4
  <1> QED
    BY <1>5 DEF u

(* The number that looks so.                                                *)
Read(s) ==
    IF s[3] # 10 THEN -(10 * s[2] + s[3])
    ELSE IF s[1] = -1 THEN -s[2]
    ELSE IF s[2] = 10 THEN s[1] ELSE 10 * s[1] + s[2]

(* It can be read.                                                          *)
LEMMA ReadsBack ==
    ASSUME NEW n \in -99..99, NEW s, Looks(n, s)
    PROVE  n = Read(s)
  <1>1. CASE n \in 0..9 /\ s[1] = n /\ s[2] = 10 /\ s[3] = 10
    BY <1>1 DEF Read
  <1>2. ASSUME NEW a \in 0..9, NEW b \in 0..9, TwoDigits(n, a, b),
               s[1] = a, s[2] = b, s[3] = 10
        PROVE  n = Read(s)
    BY <1>2 DEF Read, TwoDigits
  <1>3. CASE -n \in 1..9 /\ s[1] = -1 /\ s[2] = -n /\ s[3] = 10
    BY <1>3 DEF Read
  <1>4. ASSUME NEW a \in 0..9, NEW b \in 0..9, TwoDigits(-n, a, b),
               s[1] = -1, s[2] = a, s[3] = b
        PROVE  n = Read(s)
    BY <1>4 DEF Read, TwoDigits
  <1> QED
    BY <1>1, <1>2, <1>3, <1>4 DEF Looks

(* Numbers with the same text are the same.                                 *)
LEMMA TextInjective ==
    ASSUME NEW n \in -99..99, NEW k \in -99..99, \A i \in 1..3 : Text(n)[i] = Text(k)[i]
    PROVE  n = k
  <1>1. Text(n)[1] = Text(k)[1] /\ Text(n)[2] = Text(k)[2] /\ Text(n)[3] = Text(k)[3]
    OBVIOUS
  <1>2. n = Read(Text(n)) /\ k = Read(Text(k))
    BY TextTyped, ReadsBack
  <1>3. Read(Text(n)) = Read(Text(k))
    BY <1>1 DEF Read
  <1> QED
    BY <1>2, <1>3

(* w is s, of length m, followed by t, of length k.                         *)
Follows(w, s, m, t, k) ==
    /\ w \in Seq(Int) /\ Len(w) = m + k
    /\ \A i \in 1..m : w[i] = s[i]
    /\ \A i \in 1..k : w[m + i] = t[i]

(* A concatenation is its first part followed by its second.                *)
LEMMA JoinedAs ==
    ASSUME NEW s \in Seq(Int), NEW t \in Seq(Int)
    PROVE  Follows(s \o t, s, Len(s), t, Len(t))
  <1>1. Len(s) \in Nat /\ Len(t) \in Nat
    OBVIOUS
  <1> QED
    BY <1>1, Joined DEF Follows, InParts

(* A sequence of numbers is a key of its length.                            *)
LEMMA SequenceIsKey ==
    ASSUME NEW w \in Seq(Int), NEW n \in Nat, Len(w) = n
    PROVE  w \in Keys(n)
  BY DEF Keys

(* b is s, k and t one after the other, s and t of length 3.                *)
Bound(b, s, k, t) ==
    /\ b \in Seq(Int) /\ Len(b) = 7 /\ b[4] = k
    /\ \A i \in 1..3 : b[i] = s[i] /\ b[4 + i] = t[i]

(* Three parts put together are one after the other.                        *)
LEMMA ThreeParts ==
    ASSUME NEW s \in Seq(Int), Len(s) = 3, NEW k \in Int, NEW t \in Seq(Int), Len(t) = 3
    PROVE  Bound((s \o <<k>>) \o t, s, k, t)
  <1>0. PICK w : w = (s \o <<k>>) \o t
    OBVIOUS
  <1>1. PICK u : u = <<k>>
    OBVIOUS
  <1>2. u \in Seq(Int) /\ Len(u) = 1 /\ u[1] = k
    BY <1>1
  <1>3. PICK v : v = s \o u
    OBVIOUS
  <1>4. Follows(v, s, 3, u, 1)
    <2>1. Follows(s \o u, s, Len(s), u, Len(u))
      BY <1>2, JoinedAs
    <2> QED
      BY <1>2, <1>3, <2>1, Zenon
  <1>5. v \in Seq(Int) /\ Len(v) = 4 /\ v[4] = k /\ \A i \in 1..3 : v[i] = s[i]
    BY <1>2, <1>4 DEF Follows
  <1>6. Follows(w, v, 4, t, 3)
    <2>1. Follows(v \o t, v, Len(v), t, Len(t))
      BY <1>5, JoinedAs
    <2>2. w = v \o t
      BY <1>0, <1>1, <1>3, Zenon
    <2> QED
      BY <1>5, <2>1, <2>2, Zenon
  <1>7. Bound(w, s, k, t)
    BY <1>5, <1>6 DEF Follows, Bound
  <1> QED
    BY <1>0, <1>7, Zenon

(* A key is four numbers and a binding.                                     *)
LEMMA KeyParts ==
    ASSUME NEW a, a.roleRank \in Int, a.priority \in Int, a.ts \in Int, a.rid \in Int,
           NEW n \in Nat, a.bind \in Seq(Int), Len(a.bind) = n
    PROVE  LET k == ScheduleKey(a) IN
           /\ k \in Keys(4 + n)
           /\ k[1] = a.roleRank /\ k[2] = a.priority /\ k[3] = a.ts /\ k[4] = a.rid
           /\ \A i \in 1..n : k[4 + i] = a.bind[i]
  <1> DEFINE h == <<a.roleRank, a.priority, a.ts, a.rid>>
             k == ScheduleKey(a)
  <1>1. h \in Seq(Int) /\ Len(h) = 4
        /\ h[1] = a.roleRank /\ h[2] = a.priority /\ h[3] = a.ts /\ h[4] = a.rid
    OBVIOUS
  <1>2. k = h \o a.bind
    BY DEF ScheduleKey
  <1> HIDE DEF h, k
  <1>3. Follows(k, h, 4, a.bind, n)
    <2>1. Follows(h \o a.bind, h, Len(h), a.bind, Len(a.bind))
      BY <1>1, JoinedAs
    <2> QED
      BY <1>1, <1>2, <2>1, Zenon
  <1>4. k \in Keys(4 + n)
    <2>1. k \in Seq(Int) /\ Len(k) = 4 + n
      BY <1>3 DEF Follows
    <2> QED
      BY <2>1, SequenceIsKey
  <1>5. /\ \A i \in 1..4 : k[i] = h[i]
        /\ \A i \in 1..n : k[4 + i] = a.bind[i]
    BY <1>3 DEF Follows
  <1>6. k[1] = h[1] /\ k[2] = h[2] /\ k[3] = h[3] /\ k[4] = h[4]
    BY <1>5
  <1>7. ScheduleKey(a) = k
    BY DEF k
  <1> QED
    BY <1>1, <1>4, <1>5, <1>6, <1>7, Zenon

(* A finite set has finite images.                                          *)
LEMMA ImageFinite ==
    ASSUME NEW S, IsFiniteSet(S), NEW f
    PROVE  IsFiniteSet({f[x] : x \in S})
  <1> DEFINE T == {f[x] : x \in S}
             h == [x \in S |-> f[x]]
  <1>1. h \in Surjection(S, T)
    BY DEF Surjection
  <1> QED
    BY <1>1, FS_Surjection

-----------------------------------------------------------------------------
(* Folds over finite sets, whose definition is recursive: that there is a   *)
(* function with the recursive equation follows by induction on the size of *)
(* the sets, for any order of choice and any operation on a set of values.  *)

(* The value of a fold at s from those at smaller sets: c[s] is the element *)
(* of s taken last, which op combines with the fold of the others.          *)
FoldStep(c, op, base, f, s) ==
    IF s = {} THEN base ELSE op[<<c[s], f[s \ {c[s]}]>>]

(* The subsets of S with at most n elements.                                *)
Level(S, n) == {s \in SUBSET S : Cardinality(s) <= n}

(* c takes each set apart.                                                 *)
Picks(c, S) == \A s \in SUBSET S : s # {} => c[s] \in s

(* f is the fold of every set in D.                                         *)
IsFold(c, op, base, f, D) == f = [s \in D |-> FoldStep(c, op, base, f, s)]

(* Without the element taken, a set is one smaller.                         *)
LEMMA Smaller ==
    ASSUME NEW S, IsFiniteSet(S), NEW c, Picks(c, S),
           NEW n \in Nat, NEW s \in Level(S, n), s # {}
    PROVE  /\ n # 0 /\ c[s] \in S /\ s \ {c[s]} \in Level(S, n - 1)
           /\ Cardinality(s \ {c[s]}) < Cardinality(s)
  <1>1. c[s] \in s /\ s \in SUBSET S /\ Cardinality(s) <= n
    BY DEF Picks, Level
  <1>2. IsFiniteSet(s)
    BY <1>1, FS_Subset
  <1>3. /\ Cardinality(s) \in Nat /\ Cardinality(s \ {c[s]}) = Cardinality(s) - 1
        /\ Cardinality(s \ {c[s]}) \in Nat
    BY <1>1, <1>2, FS_RemoveElement, FS_CardinalityType
  <1> QED
    BY <1>1, <1>3 DEF Level

(* The recursive equation has a solution.                                   *)
LEMMA FoldExists ==
    ASSUME NEW S, IsFiniteSet(S), NEW V, NEW c, Picks(c, S),
           NEW base \in V, NEW op \in [S \X V -> V]
    PROVE  \E f \in [SUBSET S -> V] : IsFold(c, op, base, f, SUBSET S)
  <1> DEFINE Good(n, f) == f \in [Level(S, n) -> V] /\ IsFold(c, op, base, f, Level(S, n))
             T == {n \in Nat : ~\E f : Good(n, f)}
  <1>1. T = {}
    <2> SUFFICES ASSUME T # {} PROVE FALSE
      OBVIOUS
    <2>1. PICK n \in T : \A m \in T : n <= m
      BY FirstOf
    <2> DEFINE g(f) == [s \in Level(S, n) |-> FoldStep(c, op, base, f, s)]
    <2>2. PICK f : n = 0 \/ Good(n - 1, f)
      <3>1. n = 0 \/ (n - 1 \in Nat /\ n - 1 \notin T)
        BY <2>1
      <3> QED
        BY <3>1
    <2>3. ASSUME NEW s \in Level(S, n), s # {}
          PROVE  /\ c[s] \in S /\ s \ {c[s]} \in Level(S, n - 1) /\ s \ {c[s]} \in Level(S, n)
                 /\ f[s \ {c[s]}] \in V /\ g(f)[s \ {c[s]}] = f[s \ {c[s]}]
      <3>1. /\ n # 0 /\ c[s] \in S /\ s \ {c[s]} \in Level(S, n - 1)
        BY <2>3, Smaller
      <3>2. s \ {c[s]} \in Level(S, n)
        <4>1. Cardinality(s \ {c[s]}) \in Nat
          BY FS_Subset, FS_CardinalityType DEF Level
        <4> QED
          BY <3>1, <4>1 DEF Level
      <3>3. Good(n - 1, f)
        BY <2>2, <3>1
      <3>4. f[s \ {c[s]}] \in V /\ f[s \ {c[s]}] = FoldStep(c, op, base, f, s \ {c[s]})
        BY <3>1, <3>3 DEF IsFold
      <3> QED
        BY <3>1, <3>2, <3>4
    <2>4. g(f) \in [Level(S, n) -> V]
      <3>1. ASSUME NEW s \in Level(S, n) PROVE FoldStep(c, op, base, f, s) \in V
        BY <2>3 DEF FoldStep
      <3> QED
        BY <3>1
    <2>5. \A s \in Level(S, n) : FoldStep(c, op, base, g(f), s) = FoldStep(c, op, base, f, s)
      BY <2>3 DEF FoldStep
    <2>6. Good(n, g(f))
      BY <2>4, <2>5 DEF IsFold
    <2> QED
      BY <2>1, <2>6
  <1>2. Cardinality(S) \in Nat
    BY FS_CardinalityType
  <1>3. Level(S, Cardinality(S)) = SUBSET S
    BY FS_Subset DEF Level
  <1>4. PICK f : Good(Cardinality(S), f)
    BY <1>1, <1>2
  <1> QED
    BY <1>3, <1>4
-----------------------------------------------------------------------------
(* Sorting by insertion: the second implementation starts from the actions  *)
(* in no order.                                                             *)

(* q holds each element of s once, in the order of the keys.                *)
Sorted(q, s) ==
    /\ q \in Seq(s)
    /\ \A a \in s : \E i \in 1..Len(q) : q[i] = a
    /\ \A i, j \in 1..Len(q) : i < j => LexLess(ScheduleKey(q[i]), ScheduleKey(q[j]))

(* The elements of S have different keys of one length.                     *)
Keyed(S, n) ==
    /\ \A a \in S : ScheduleKey(a) \in Keys(n)
    /\ \A a, b \in S : ScheduleKey(a) = ScheduleKey(b) => a = b

(* A set has one sorted sequence: where two of them part, each would have   *)
(* the other's element later on.                                            *)
LEMMA SortedPrefix ==
    ASSUME NEW S, NEW n \in Nat, Keyed(S, n), NEW p, NEW q, Sorted(p, S), Sorted(q, S)
    PROVE  Len(p) <= Len(q) /\ \A i \in 1..Len(p) : p[i] = q[i]
  <1>1. /\ Len(p) \in Nat /\ Len(q) \in Nat
        /\ \A i \in 1..Len(p) : p[i] \in S
        /\ \A i \in 1..Len(q) : q[i] \in S
    BY DEF Sorted
  <1> DEFINE T == {i \in 1..Len(p) : ~(i <= Len(q) /\ p[i] = q[i])}
  <1>2. ASSUME T # {} PROVE FALSE
    <2>1. PICK i \in T : \A j \in T : i <= j
      <3>1. T \subseteq Nat
        BY <1>1
      <3> HIDE DEF T
      <3> QED
        BY <1>2, <3>1, FirstOf
    <2>2. i \in 1..Len(p) /\ \A j \in 1..Len(p) : j < i => j <= Len(q) /\ p[j] = q[j]
      BY <1>1, <2>1
    <2>3. ~(i <= Len(q) /\ p[i] = q[i])
      BY <2>1
    <2> HIDE DEF T
    <2>4. ASSUME NEW a \in S PROVE ~LexLess(ScheduleKey(a), ScheduleKey(a))
      BY LexOrder DEF Keyed
    <2>5. PICK j \in 1..Len(q) : q[j] = p[i]
      BY <1>1, <2>2 DEF Sorted
    <2>6. ~(j < i)
      <3> SUFFICES ASSUME j < i PROVE FALSE
        OBVIOUS
      <3>1. j \in 1..Len(p) /\ p[j] = p[i]
        BY <1>1, <2>2, <2>5
      <3>2. LexLess(ScheduleKey(p[j]), ScheduleKey(p[i]))
        BY <2>2, <3>1 DEF Sorted
      <3> QED
        BY <1>1, <2>2, <2>4, <3>1, <3>2
    <2>7. i \in 1..Len(q) /\ i < j
      BY <1>1, <2>2, <2>3, <2>5, <2>6
    <2>8. LexLess(ScheduleKey(q[i]), ScheduleKey(p[i]))
      BY <2>5, <2>7 DEF Sorted
    <2>9. PICK k \in 1..Len(p) : p[k] = q[i]
      BY <1>1, <2>7 DEF Sorted
    <2>10. ~(k < i)
      <3> SUFFICES ASSUME k < i PROVE FALSE
        OBVIOUS
      <3>1. k \in 1..Len(q) /\ q[k] = q[i]
        BY <1>1, <2>2, <2>9
      <3>2. LexLess(ScheduleKey(q[k]), ScheduleKey(q[i]))
        BY <2>7, <3>1 DEF Sorted
      <3> QED
        BY <1>1, <2>4, <2>7, <3>1, <3>2
    <2>11. i < k
      BY <1>1, <2>2, <2>3, <2>7, <2>9, <2>10
    <2>12. LexLess(ScheduleKey(p[i]), ScheduleKey(q[i]))
      BY <2>2, <2>9, <2>11 DEF Sorted
    <2>13. /\ ScheduleKey(p[i]) \in Keys(n) /\ ScheduleKey(q[i]) \in Keys(n)
      BY <1>1, <2>2, <2>7 DEF Keyed
    <2> QED
      BY <2>8, <2>12, <2>13, LexOrder
  <1>3. \A i \in 1..Len(p) : i <= Len(q) /\ p[i] = q[i]
    BY <1>2
  <1> HIDE DEF T
  <1>4. Len(p) <= Len(q)
    <2>1. CASE Len(p) = 0
      BY <1>1, <2>1
    <2>2. CASE Len(p) # 0
      <3>1. Len(p) \in 1..Len(p)
        BY <1>1, <2>2
      <3> QED
        BY <1>3, <3>1
    <2> QED
      BY <2>1, <2>2
  <1> QED
    BY <1>3, <1>4

(* So the sorted sequence is the schedule.                                  *)
LEMMA SortedUnique ==
    ASSUME NEW S, NEW n \in Nat, Keyed(S, n), NEW p, NEW q, Sorted(p, S), Sorted(q, S)
    PROVE  p = q
  <1>1. /\ Len(p) <= Len(q) /\ Len(q) <= Len(p)
        /\ \A i \in 1..Len(p) : p[i] = q[i]
    BY SortedPrefix
  <1>2. p \in Seq(S) /\ q \in Seq(S)
    BY DEF Sorted
  <1>3. /\ Len(p) \in Nat /\ Len(q) \in Nat
        /\ p = [i \in 1..Len(p) |-> p[i]] /\ q = [i \in 1..Len(q) |-> q[i]]
    BY <1>2
  <1>4. Len(p) = Len(q)
    <2>1. Len(p) \in Nat /\ Len(q) \in Nat
      BY <1>3
    <2> QED
      BY <1>1, <2>1
  <1> QED
    BY <1>1, <1>3, <1>4

(* The positions of q whose elements come before a.                         *)
Lower(a, q) == {i \in DOMAIN q : LexLess(ScheduleKey(q[i]), ScheduleKey(a))}

(* a is put behind the elements before it.                                  *)
PutAt(q, i, a) == SubSeq(q, 1, i - 1) \o <<a>> \o SubSeq(q, i, Len(q))

Inserted(a, q) == PutAt(q, Cardinality(Lower(a, q)) + 1, a)

(* r is a sequence of members of S: q with a put behind its first m.        *)
Spliced(r, S, q, m, a) ==
    /\ r \in Seq(S) /\ Len(r) = Len(q) + 1
    /\ \A i \in 1..m : r[i] = q[i]
    /\ r[m + 1] = a
    /\ \A i \in m + 1..Len(q) : r[i + 1] = q[i]

(* What a sequence holds after an insertion.                                *)
LEMMA PutAtHolds ==
    ASSUME NEW S, NEW q \in Seq(S), NEW a \in S, NEW m \in 0..Len(q)
    PROVE  Spliced(PutAt(q, m + 1, a), S, q, m, a)
  <1> DEFINE u == SubSeq(q, 1, m)
             v == SubSeq(q, m + 1, Len(q))
             w == u \o <<a>>
  <1>1. Len(q) \in Nat /\ m \in Nat /\ m <= Len(q)
    OBVIOUS
  <1>2. u \in Seq(S) /\ Len(u) = m /\ \A i \in 1..m : u[i] = q[i]
    BY <1>1
  <1>3. v \in Seq(S) /\ Len(v) = Len(q) - m /\ \A i \in 1..Len(q) - m : v[i] = q[m + i]
    BY <1>1
  <1>4. PutAt(q, m + 1, a) = w \o v
    <2>1. (m + 1) - 1 = m
      BY <1>1
    <2> QED
      BY <2>1 DEF PutAt
  <1> HIDE DEF u, v
  <1>5. w \in Seq(S) /\ Len(w) = m + 1 /\ (\A i \in 1..m : w[i] = u[i]) /\ w[m + 1] = a
    BY <1>1, <1>2
  <1> HIDE DEF w
  <1>6. /\ w \o v \in Seq(S) /\ Len(w \o v) = (m + 1) + (Len(q) - m)
        /\ \A i \in 1..m + 1 : (w \o v)[i] = w[i]
        /\ \A i \in 1..Len(q) - m : (w \o v)[m + 1 + i] = v[i]
    <2>1. m + 1 \in Nat /\ Len(q) - m \in Nat
      BY <1>1
    <2>2. PICK k \in Nat : k = m + 1
      BY <2>1
    <2>3. PICK l \in Nat : l = Len(q) - m
      BY <2>1
    <2>4. InParts(w \o v, S, w, k, v, l)
      <3>1. w \in Seq(S) /\ Len(w) = k
        BY <1>5, <2>2
      <3>2. v \in Seq(S) /\ Len(v) = l
        BY <1>3, <2>3
      <3> QED
        BY <3>1, <3>2, Joined
    <2> QED
      BY <2>2, <2>3, <2>4, Zenon DEF InParts
  <1>7. PICK r : r = PutAt(q, m + 1, a) /\ r = w \o v
    BY <1>4
  <1>8. /\ r \in Seq(S) /\ Len(r) = Len(q) + 1
        /\ \A i \in 1..m : r[i] = q[i]
        /\ r[m + 1] = a
    <2>1. /\ r \in Seq(S) /\ Len(r) = (m + 1) + (Len(q) - m)
          /\ \A i \in 1..m + 1 : r[i] = w[i]
      BY <1>6, <1>7, Zenon
    <2>2. (m + 1) + (Len(q) - m) = Len(q) + 1
      BY <1>1
    <2>3. m + 1 \in 1..m + 1 /\ \A i \in 1..m : i \in 1..m + 1
      BY <1>1
    <2>4. r[m + 1] = a
      BY <1>5, <2>1, <2>3
    <2>5. ASSUME NEW i \in 1..m PROVE r[i] = q[i]
      BY <1>2, <1>5, <2>1, <2>3
    <2> QED
      BY <2>1, <2>2, <2>4, <2>5
  <1>9. ASSUME NEW i \in m + 1..Len(q) PROVE r[i + 1] = q[i]
    <2>1. i - m \in 1..Len(q) - m /\ m + (i - m) = i /\ (m + 1) + (i - m) = i + 1
      BY <1>1
    <2>2. r[(m + 1) + (i - m)] = v[i - m] /\ v[i - m] = q[m + (i - m)]
      BY <1>3, <1>6, <1>7, <2>1
    <2> QED
      BY <2>1, <2>2
  <1> QED
    BY <1>7, <1>8, <1>9 DEF Spliced

(* A set of positions with every position before one of its own is an       *)
(* interval.                                                                *)
LEMMA ClosedIsInterval ==
    ASSUME NEW n \in Nat, NEW B \in SUBSET (1..n),
           \A i \in B, j \in 1..n : j < i => j \in B
    PROVE  \E m \in 0..n : B = 1..m /\ Cardinality(B) = m
  <1> DEFINE T == {i \in 1..n + 1 : i \notin B}
  <1>1. n + 1 \in T /\ T \subseteq Nat
    OBVIOUS
  <1>2. PICK k \in T : \A j \in T : k <= j
    <2> HIDE DEF T
    <2> QED
      BY <1>1, FirstOf
  <1>3. k - 1 \in 0..n
    BY <1>2
  <1>4. B = 1..k - 1
    <2>1. ASSUME NEW j \in 1..k - 1 PROVE j \in B
      BY <1>2
    <2>2. ASSUME NEW j \in B, j \notin 1..k - 1 PROVE FALSE
      <3>1. k <= j /\ k \in 1..n /\ k \notin B
        BY <1>2, <2>2
      <3> QED
        BY <2>2, <3>1
    <2> QED
      BY <2>1, <2>2
  <1>5. Cardinality(1..k - 1) = k - 1
    BY <1>3, FS_Interval
  <1> QED
    BY <1>3, <1>4, <1>5

(* Insertion keeps a sequence sorted.                                       *)
LEMMA InsertedSorted ==
    ASSUME NEW S, NEW n \in Nat, Keyed(S, n), NEW s \in SUBSET S, NEW q, Sorted(q, s),
           NEW a \in S, a \notin s
    PROVE  Sorted(Inserted(a, q), s \cup {a})
  <1>1. /\ q \in Seq(s) /\ Len(q) \in Nat /\ DOMAIN q = 1..Len(q)
        /\ \A i \in 1..Len(q) : q[i] \in s /\ q[i] \in S
    BY DEF Sorted
  <1>2. ASSUME NEW i \in 1..Len(q), NEW j \in 1..Len(q), i < j
        PROVE  LexLess(ScheduleKey(q[i]), ScheduleKey(q[j]))
    BY <1>2 DEF Sorted
  <1> DEFINE key(b) == ScheduleKey(b)
             B == Lower(a, q)
  <1>3. /\ key(a) \in Keys(n)
        /\ \A i \in 1..Len(q) : key(q[i]) \in Keys(n) /\ key(q[i]) # key(a)
    BY <1>1 DEF Keyed
  <1> HIDE DEF key
  <1>4. \A i \in B, j \in 1..Len(q) : j < i => j \in B
    <2> SUFFICES ASSUME NEW i \in B, NEW j \in 1..Len(q), j < i PROVE j \in B
      OBVIOUS
    <2>1. i \in 1..Len(q) /\ LexLess(key(q[i]), key(a))
      BY <1>1 DEF Lower, key
    <2>2. LexLess(key(q[j]), key(q[i]))
      BY <1>2, <2>1 DEF key
    <2>3. LexLess(key(q[j]), key(a))
      BY <1>3, <2>1, <2>2, LexOrder
    <2> QED
      BY <1>1, <2>3 DEF Lower, key
  <1>5. PICK m \in 0..Len(q) : B = 1..m /\ Cardinality(B) = m
    <2>1. B \in SUBSET (1..Len(q))
      BY <1>1 DEF Lower
    <2> HIDE DEF B
    <2> QED
      BY <1>1, <1>4, <2>1, ClosedIsInterval
  <1>6. \A i \in 1..m : LexLess(key(q[i]), key(a))
    BY <1>5 DEF Lower, key
  <1>7. \A i \in m + 1..Len(q) : LexLess(key(a), key(q[i]))
    <2> SUFFICES ASSUME NEW i \in m + 1..Len(q) PROVE LexLess(key(a), key(q[i]))
      OBVIOUS
    <2>1. i \in 1..Len(q) /\ i \notin 1..m
      BY <1>1
    <2>2. ~LexLess(key(q[i]), key(a))
      BY <1>1, <1>5, <2>1 DEF Lower, key
    <2> QED
      BY <1>3, <2>1, <2>2, LexOrder
  <1> DEFINE r == PutAt(q, m + 1, a)
             u == s \cup {a}
  <1>8. Inserted(a, q) = r
    BY <1>5 DEF Inserted
  <1>9. q \in Seq(u) /\ a \in u
    BY <1>1
  <1> HIDE DEF u
  <1>10. /\ r \in Seq(u) /\ Len(r) = Len(q) + 1
         /\ \A i \in 1..m : r[i] = q[i]
         /\ r[m + 1] = a
         /\ \A i \in m + 1..Len(q) : r[i + 1] = q[i]
    <2> HIDE DEF r
    <2>1. Spliced(PutAt(q, m + 1, a), u, q, m, a)
      BY <1>9, PutAtHolds
    <2>2. Spliced(r, u, q, m, a)
      BY <2>1 DEF r
    <2> QED
      BY <2>2 DEF Spliced
  <1> HIDE DEF r, B
  <1>11. ASSUME NEW i \in 1..Len(r)
         PROVE  \/ i \in 1..m /\ r[i] = q[i]
                \/ i = m + 1 /\ r[i] = a
                \/ i - 1 \in m + 1..Len(q) /\ r[i] = q[i - 1]
    <2>1. i \in 1..m \/ i = m + 1 \/ i - 1 \in m + 1..Len(q)
      BY <1>1, <1>10
    <2>2. CASE i - 1 \in m + 1..Len(q)
      <3>1. r[(i - 1) + 1] = q[i - 1] /\ (i - 1) + 1 = i
        BY <1>10, <2>2
      <3> QED
        BY <2>2, <3>1
    <2> QED
      BY <1>10, <2>1, <2>2
  <1>12. ASSUME NEW i \in 1..Len(r), NEW j \in 1..Len(r), i < j
         PROVE  LexLess(key(r[i]), key(r[j]))
    <2>1. m \in Nat /\ m <= Len(q)
      BY <1>1
    <2>2. CASE i \in 1..m /\ r[i] = q[i]
      <3>1. CASE j \in 1..m /\ r[j] = q[j]
        BY <1>1, <1>2, <1>12, <2>1, <2>2, <3>1 DEF key
      <3>2. CASE j = m + 1 /\ r[j] = a
        BY <1>6, <2>2, <3>2
      <3>3. CASE j - 1 \in m + 1..Len(q) /\ r[j] = q[j - 1]
        BY <1>1, <1>2, <1>12, <2>1, <2>2, <3>3 DEF key
      <3> QED
        BY <1>11, <3>1, <3>2, <3>3
    <2>3. CASE i = m + 1 /\ r[i] = a
      <3>1. j - 1 \in m + 1..Len(q) /\ r[j] = q[j - 1]
        <4>1. j \in Nat /\ m + 1 < j
          BY <1>1, <1>10, <1>12, <2>3
        <4>2. j \notin 1..m /\ j # m + 1
          BY <2>1, <4>1
        <4> QED
          BY <1>11, <4>2
      <3> QED
        BY <1>7, <2>3, <3>1
    <2>4. CASE i - 1 \in m + 1..Len(q) /\ r[i] = q[i - 1]
      <3>1. j - 1 \in m + 1..Len(q) /\ r[j] = q[j - 1]
        <4>1. j \in Nat /\ i \in Nat /\ m + 1 < j
          BY <1>1, <1>10, <1>12, <2>1, <2>4
        <4>2. j \notin 1..m /\ j # m + 1
          BY <2>1, <4>1
        <4> QED
          BY <1>11, <4>2
      <3> QED
        BY <1>1, <1>2, <1>12, <2>1, <2>4, <3>1 DEF key
    <2> QED
      BY <1>11, <2>2, <2>3, <2>4
  <1>13. ASSUME NEW b \in u PROVE \E i \in 1..Len(r) : r[i] = b
    <2>1. CASE b = a
      <3>1. m + 1 \in 1..Len(r)
        BY <1>1, <1>10
      <3> QED
        BY <1>10, <2>1, <3>1
    <2>2. CASE b # a
      <3>1. PICK i \in 1..Len(q) : q[i] = b
        BY <2>2 DEF Sorted, u
      <3>2. CASE i \in 1..m
        <4>1. i \in 1..Len(r)
          BY <1>1, <1>10
        <4> QED
          BY <1>10, <3>1, <3>2, <4>1
      <3>3. CASE i \in m + 1..Len(q)
        <4>1. i + 1 \in 1..Len(r)
          BY <1>1, <1>10
        <4> QED
          BY <1>10, <3>1, <3>3, <4>1
      <3> QED
        BY <1>1, <3>2, <3>3
    <2> QED
      BY <2>1, <2>2
  <1> QED
    BY <1>8, <1>10, <1>12, <1>13 DEF Sorted, u, key

(* The equation of sorting a set by insertion, its elements in any order.   *)
SortsBy(it, S) ==
    it = [s \in SUBSET S |->
            IF s = {} THEN <<>>
            ELSE Inserted(CHOOSE x \in s : TRUE, it[s \ {CHOOSE x \in s : TRUE}])]

(* It makes each set a sorted sequence.                                     *)
LEMMA SortsEach ==
    ASSUME NEW S, IsFiniteSet(S), NEW n \in Nat, Keyed(S, n), NEW it, SortsBy(it, S)
    PROVE  \A s \in SUBSET S : Sorted(it[s], s)
  <1> DEFINE T == {s \in SUBSET S : ~Sorted(it[s], s)}
             N == {Cardinality(s) : s \in T}
  <1>1. ASSUME NEW s \in SUBSET S PROVE IsFiniteSet(s) /\ Cardinality(s) \in Nat
    BY FS_Subset, FS_CardinalityType
  <1>2. ASSUME T # {} PROVE FALSE
    <2>1. N # {} /\ N \subseteq Nat
      BY <1>1, <1>2
    <2>2. PICK k \in N : \A m \in N : k <= m
      BY <2>1, FirstOf, Zenon
    <2>3. PICK s \in T : Cardinality(s) = k
      BY <2>2
    <2>4. s \in SUBSET S /\ ~Sorted(it[s], s)
      BY <2>3
    <2>5. s # {}
      <3> SUFFICES ASSUME s = {} PROVE FALSE
        OBVIOUS
      <3>1. it[s] = <<>>
        BY <2>4 DEF SortsBy
      <3> QED
        BY <2>4, <3>1 DEF Sorted
    <2>6. PICK x : x = CHOOSE y \in s : TRUE
      OBVIOUS
    <2>7. x \in s /\ x \in S
      BY <2>4, <2>5, <2>6
    <2>8. s \ {x} \in SUBSET S /\ Cardinality(s \ {x}) < Cardinality(s)
      BY <1>1, <2>4, <2>7, FS_RemoveElement
    <2>9. Sorted(it[s \ {x}], s \ {x})
      <3>1. Cardinality(s \ {x}) \in Nat /\ Cardinality(s) \in Nat
        BY <1>1, <2>4, <2>8
      <3>2. s \ {x} \notin T
        BY <2>2, <2>3, <2>8, <3>1
      <3> QED
        BY <2>8, <3>2
    <2>10. it[s] = Inserted(x, it[s \ {x}])
      <3>1. it[s] = IF s = {} THEN <<>>
                    ELSE Inserted(CHOOSE y \in s : TRUE, it[s \ {CHOOSE y \in s : TRUE}])
        BY <2>4, Zenon DEF SortsBy
      <3> QED
        BY <2>5, <2>6, <3>1, Zenon
    <2>11. Sorted(it[s], (s \ {x}) \cup {x})
      BY <2>7, <2>8, <2>9, <2>10, InsertedSorted
    <2>12. (s \ {x}) \cup {x} = s
      BY <2>7
    <2> QED
      BY <2>4, <2>11, <2>12
  <1> QED
    BY <1>2

(* Some it does.                                                            *)
LEMMA SortsExist ==
    ASSUME NEW S, IsFiniteSet(S)
    PROVE  \E it : SortsBy(it, S)
  <1> DEFINE c == [s \in SUBSET S |-> CHOOSE x \in s : TRUE]
             op == [p \in S \X Seq(S) |-> Inserted(p[1], p[2])]
  <1>1. Picks(c, S)
    BY DEF Picks
  <1>2. ASSUME NEW a \in S, NEW q \in Seq(S) PROVE Inserted(a, q) \in Seq(S)
    <2>1. /\ Len(q) \in Nat /\ Lower(a, q) \in SUBSET (1..Len(q))
      <3>1. Len(q) \in Nat /\ DOMAIN q = 1..Len(q)
        OBVIOUS
      <3> QED
        BY <3>1 DEF Lower
    <2>2. IsFiniteSet(1..Len(q)) /\ Cardinality(1..Len(q)) = Len(q)
      <3>1. PICK k \in Nat : k = Len(q)
        BY <2>1
      <3>2. IsFiniteSet(1..k) /\ Cardinality(1..k) = k
        BY FS_Interval
      <3> QED
        BY <3>1, <3>2
    <2>3. /\ Cardinality(Lower(a, q)) \in Nat /\ Cardinality(Lower(a, q)) <= Len(q)
      BY <2>1, <2>2, FS_Subset, FS_CardinalityType
    <2>4. PICK m \in 0..Len(q) : m = Cardinality(Lower(a, q))
      BY <2>1, <2>3
    <2>5. Spliced(PutAt(q, m + 1, a), S, q, m, a)
      BY PutAtHolds
    <2> QED
      BY <2>4, <2>5 DEF Inserted, Spliced
  <1>3. op \in [S \X Seq(S) -> Seq(S)]
    BY <1>2
  <1>4. <<>> \in Seq(S)
    OBVIOUS
  <1>5. PICK f \in [SUBSET S -> Seq(S)] : IsFold(c, op, <<>>, f, SUBSET S)
    <2> HIDE DEF c, op
    <2> QED
      BY <1>1, <1>3, <1>4, FoldExists
  <1> DEFINE step(s) == IF s = {} THEN <<>>
                        ELSE Inserted(CHOOSE x \in s : TRUE, f[s \ {CHOOSE x \in s : TRUE}])
  <1>6. ASSUME NEW s \in SUBSET S
        PROVE  FoldStep(c, op, <<>>, f, s) = step(s)
    <2>1. CASE s = {}
      BY <2>1 DEF FoldStep
    <2>2. CASE s # {}
      <3> DEFINE x == CHOOSE y \in s : TRUE
      <3>1. x \in s /\ c[s] = x
        BY <2>2
      <3> HIDE DEF x, c
      <3>2. f[s \ {x}] \in Seq(S)
        OBVIOUS
      <3>3. op[<<x, f[s \ {x}]>>] = Inserted(x, f[s \ {x}])
        BY <3>1, <3>2
      <3> QED
        BY <2>2, <3>1, <3>3 DEF FoldStep, x
    <2> QED
      BY <2>1, <2>2
  <1>7. f = [s \in SUBSET S |-> FoldStep(c, op, <<>>, f, s)]
    BY <1>5 DEF IsFold
  <1> HIDE DEF c, op, step
  <1>8. f = [s \in SUBSET S |-> step(s)]
    BY <1>6, <1>7
  <1>9. SortsBy(f, S)
    BY <1>8, Zenon DEF SortsBy, step
  <1> QED
    BY <1>9

(* Sorting the actions by insertion gives the schedule.                     *)
LEMMA SortIsSchedule ==
    ASSUME NEW S, IsFiniteSet(S), NEW n \in Nat, Keyed(S, n)
    PROVE  (CHOOSE it : SortsBy(it, S))[S] = ScheduleActions(S)
  <1> DEFINE it == CHOOSE f : SortsBy(f, S)
  <1>1. SortsBy(it, S)
    BY SortsExist, Zenon
  <1> HIDE DEF it
  <1>2. Sorted(it[S], S)
    BY <1>1, SortsEach
  <1>3. Sorted(ScheduleActions(S), S)
    BY ScheduleIsSorted DEF Sorted, Keyed
  <1>4. it[S] = ScheduleActions(S)
    BY <1>2, <1>3, SortedUnique
  <1> QED
    BY <1>4 DEF it

-----------------------------------------------------------------------------
(* The second implementation, as far as its gates go: it keeps the graph it *)
(* writes, the targets written, the accepted actions and its decisions.     *)

PolicyReasons == {"policy_min_violation", "policy_role_cap_violation"}

SecondReasons ==
    {"inactive_role", "policy_min_violation", "policy_role_cap_violation",
     "shadowed_by_prior_accepted_action", "inadmissible", "admissible"}

SecondDecision ==
    [action : Actions, accepted : BOOLEAN, reason : SecondReasons, post : Graph]

SecondState ==
    [working : Graph, writtenTargets : SUBSET Slots, accepted : Seq(Actions),
     decisions : Seq(SecondDecision)]

(* t has one more decision than st: the one on a.                           *)
Notes(st, t, a, accept, reason) ==
    t.decisions = Append(st.decisions, [action |-> a, accepted |-> accept, reason |-> reason,
                                        post |-> t.working])

(* t is st with one more decision, on a.                                    *)
Noted(st, t, a, accept, reason) ==
    /\ t \in SecondState /\ Notes(st, t, a, accept, reason)
    /\ t.working = st.working /\ t.writtenTargets = st.writtenTargets
    /\ t.accepted = st.accepted

(* a is refused: t is otherwise as st.                                      *)
Refuses(st, t, a, reason) ==
    /\ t.working = st.working /\ t.writtenTargets = st.writtenTargets
    /\ t.accepted = st.accepted
    /\ Notes(st, t, a, FALSE, reason)

(* a is taken.                                                              *)
Grants(st, t, a) ==
    /\ t.working = Apply(st.working, a)
    /\ t.writtenTargets = st.writtenTargets \cup {a.slot}
    /\ t.accepted = Append(st.accepted, a)
    /\ Notes(st, t, a, TRUE, "admissible")

(* One action in the second implementation, from st to t.                   *)
SecondStep(in, st, a, t) ==
    IF a.role \notin in.active THEN Refuses(st, t, a, "inactive_role")
    ELSE IF ~PolicyOK(st.working, a) THEN \E r \in PolicyReasons : Refuses(st, t, a, r)
    ELSE IF a.slot \in st.writtenTargets
         THEN Refuses(st, t, a, "shadowed_by_prior_accepted_action")
    ELSE IF ~Admissible(Apply(st.working, a)) THEN Refuses(st, t, a, "inadmissible")
    ELSE Grants(st, t, a)

(* The reasons of the two implementations that stand for each other.        *)
SameReason(r, q) ==
    \/ r \in PolicyReasons /\ q = "policy"
    \/ r = "shadowed_by_prior_accepted_action" /\ q = "shadowed"
    \/ r \in {"inactive_role", "inadmissible", "admissible"} /\ q = r

(* d is the decision on action k of a resolution that accepts K and records *)
(* D.                                                                       *)
SameDecision(in, K, D, d, k) ==
    /\ d.action = in.schedule[k]
    /\ d.accepted = (k \in K)
    /\ d.post = D[k].post
    /\ SameReason(d.reason, D[k].reason)

(* How many of K are accepted by action k.                                  *)
Nth(K, k) == Cardinality(K \cap 1..k)

(* q holds the actions of K up to k, in their order.                        *)
InOrder(in, K, q, k) ==
    /\ Len(q) = Nth(K, k)
    /\ \A i \in 1..Len(q) : \E j \in K : j <= k /\ Nth(K, j) = i /\ q[i] = in.schedule[j]

(* st is where a resolution that accepts K is after k actions.              *)
Matches(in, K, D, st, k) ==
    /\ st \in SecondState
    /\ st.working = OverlayOf(in, Earlier(K, k + 1))
    /\ st.writtenTargets = {in.schedule[j].slot : j \in Earlier(K, k + 1)}
    /\ Len(st.decisions) = k
    /\ \A j \in 1..k : SameDecision(in, K, D, st.decisions[j], j)
    /\ InOrder(in, K, st.accepted, k)

(* The places of the accepted actions.                                      *)
LEMMA PlaceCounts ==
    ASSUME NEW K, NEW n \in Nat, K \subseteq 1..n, NEW k \in 1..n
    PROVE  /\ Nth(K, k) \in Nat /\ Nth(K, k - 1) \in Nat
           /\ k \in K => Nth(K, k) = Nth(K, k - 1) + 1
           /\ k \notin K => Nth(K, k) = Nth(K, k - 1)
  <1> DEFINE B == K \cap 1..k - 1
  <1>1. IsFiniteSet(B) /\ IsFiniteSet(K \cap 1..k)
    <2>1. k \in Nat /\ k - 1 \in Nat
      OBVIOUS
    <2>2. IsFiniteSet(1..k) /\ IsFiniteSet(1..k - 1)
      BY <2>1, FS_Interval
    <2> QED
      BY <2>2, FS_Subset
  <1>2. Cardinality(B) \in Nat /\ Cardinality(K \cap 1..k) \in Nat
    BY <1>1, FS_CardinalityType
  <1>3. CASE k \in K
    <2>1. K \cap 1..k = B \cup {k} /\ k \notin B
      BY <1>3
    <2> HIDE DEF B
    <2>2. Cardinality(B \cup {k}) = Cardinality(B) + 1
      BY <1>1, <2>1, FS_AddElement
    <2> QED
      BY <1>2, <1>3, <2>1, <2>2 DEF Nth, B
  <1>4. CASE k \notin K
    <2>1. K \cap 1..k = B
      BY <1>4
    <2> QED
      BY <1>2, <1>4, <2>1 DEF Nth
  <1> QED
    BY <1>3, <1>4

(* No two accepted actions have one place.                                  *)
LEMMA PlaceDistinct ==
    ASSUME NEW K, NEW n \in Nat, K \subseteq 1..n, NEW i \in K, NEW j \in K, i < j
    PROVE  Nth(K, i) # Nth(K, j)
  <1>1. i \in 1..n /\ j \in 1..n /\ j - 1 \in Nat
    OBVIOUS
  <1>2. Nth(K, j) = Nth(K, j - 1) + 1 /\ Nth(K, j - 1) \in Nat /\ Nth(K, i) \in Nat
    BY <1>1, PlaceCounts
  <1>3. Nth(K, i) <= Nth(K, j - 1)
    <2>1. PICK B : B = K \cap 1..i
      OBVIOUS
    <2>2. PICK C : C = K \cap 1..j - 1
      OBVIOUS
    <2>3. B \subseteq C
      BY <1>1, <2>1, <2>2
    <2>4. IsFiniteSet(C)
      <3>1. IsFiniteSet(1..j - 1)
        BY <1>1, FS_Interval
      <3>2. C \subseteq 1..j - 1
        BY <2>2
      <3> QED
        BY <3>1, <3>2, FS_Subset
    <2>5. Cardinality(B) <= Cardinality(C)
      BY <2>3, <2>4, FS_Subset
    <2> QED
      BY <2>1, <2>2, <2>5 DEF Nth
  <1> QED
    BY <1>2, <1>3

(* The accepted actions in their order, as the comparison has them.         *)
LEMMA AcceptedInOrder ==
    ASSUME NEW in, NEW n \in Nat, NEW K, K \subseteq 1..n, NEW A, NEW q \in Seq(A),
           InOrder(in, K, q, n)
    PROVE  q = [i \in 1..Cardinality(K) |->
                  in.schedule[CHOOSE k \in K : Cardinality(K \cap 1..k) = i]]
  <1>1. K \cap 1..n = K
    OBVIOUS
  <1>2. Len(q) = Cardinality(K)
    BY <1>1 DEF InOrder, Nth
  <1>3. q = [i \in 1..Len(q) |-> q[i]]
    OBVIOUS
  <1>4. ASSUME NEW i \in 1..Len(q)
        PROVE  q[i] = in.schedule[CHOOSE k \in K : Nth(K, k) = i]
    <2>1. PICK j \in K : Nth(K, j) = i /\ q[i] = in.schedule[j]
      BY <1>4 DEF InOrder
    <2> DEFINE l == CHOOSE k \in K : Nth(K, k) = i
    <2>2. l \in K /\ Nth(K, l) = i
      BY <2>1
    <2> HIDE DEF l
    <2>3. l = j
      <3>1. ~(l < j) /\ ~(j < l)
        BY <2>1, <2>2, PlaceDistinct
      <3> QED
        BY <2>1, <2>2, <3>1
    <2> QED
      BY <2>1, <2>3 DEF l
  <1>5. \A i \in 1..Len(q) :
            q[i] = in.schedule[CHOOSE k \in K : Cardinality(K \cap 1..k) = i]
    BY <1>4, Zenon DEF Nth
  <1> QED
    BY <1>2, <1>3, <1>5

(* The next accepted action takes the next place.                           *)
LEMMA InOrderGrows ==
    ASSUME NEW in, NEW n \in Nat, NEW K, K \subseteq 1..n, NEW k \in 1..n, NEW A,
           NEW q \in Seq(A), InOrder(in, K, q, k - 1)
    PROVE  /\ k \notin K => InOrder(in, K, q, k)
           /\ k \in K /\ in.schedule[k] \in A => InOrder(in, K, Append(q, in.schedule[k]), k)
  <1>1. /\ Nth(K, k) \in Nat /\ Nth(K, k - 1) \in Nat
        /\ k \in K => Nth(K, k) = Nth(K, k - 1) + 1
        /\ k \notin K => Nth(K, k) = Nth(K, k - 1)
    BY PlaceCounts
  <1>2. /\ Len(q) = Nth(K, k - 1) /\ Len(q) \in Nat
        /\ \A i \in 1..Len(q) :
              \E j \in K : j <= k - 1 /\ Nth(K, j) = i /\ q[i] = in.schedule[j]
    BY DEF InOrder
  <1>3. \A j \in K : j <= k - 1 => j <= k
    OBVIOUS
  <1>4. \A i \in 1..Len(q) : \E j \in K : j <= k /\ Nth(K, j) = i /\ q[i] = in.schedule[j]
    BY <1>2, <1>3
  <1>5. CASE k \notin K
    BY <1>1, <1>2, <1>4, <1>5 DEF InOrder
  <1>6. ASSUME k \in K, in.schedule[k] \in A
        PROVE  InOrder(in, K, Append(q, in.schedule[k]), k)
    <2> DEFINE a == in.schedule[k]
               r == Append(q, a)
    <2> HIDE DEF a
    <2>1. /\ Len(r) = Len(q) + 1 /\ r[Len(q) + 1] = a
          /\ \A i \in 1..Len(q) : r[i] = q[i]
      BY <1>6 DEF a
    <2> HIDE DEF r
    <2>2. Len(r) = Nth(K, k)
      BY <1>1, <1>2, <1>6, <2>1
    <2>3. ASSUME NEW i \in 1..Len(r)
          PROVE  \E j \in K : j <= k /\ Nth(K, j) = i /\ r[i] = in.schedule[j]
      <3>1. CASE i \in 1..Len(q)
        BY <1>4, <2>1, <3>1
      <3>2. CASE i = Len(q) + 1
        BY <1>2, <1>6, <2>1, <2>2, <3>2 DEF a
      <3> QED
        BY <1>2, <2>1, <3>1, <3>2
    <2> QED
      BY <2>2, <2>3 DEF InOrder, r, a
  <1> QED
    BY <1>5, <1>6

(* What a step leaves as it was is still as it should be.                   *)
LEMMA DecisionsGrow ==
    ASSUME NEW in, NEW K, NEW D, NEW k \in Nat \ {0}, NEW a, NEW r, NEW accept,
           NEW st \in SecondState, NEW t \in SecondState,
           Len(st.decisions) = k - 1,
           \A j \in 1..k - 1 : SameDecision(in, K, D, st.decisions[j], j),
           Notes(st, t, in.schedule[k], accept, r),
           accept = (k \in K), t.working = D[k].post, SameReason(r, D[k].reason)
    PROVE  /\ Len(t.decisions) = k
           /\ \A j \in 1..k : SameDecision(in, K, D, t.decisions[j], j)
  <1> DEFINE d == [action |-> in.schedule[k], accepted |-> accept, reason |-> r,
                   post |-> t.working]
  <1>1. SameDecision(in, K, D, d, k)
    BY DEF SameDecision
  <1>2. t.decisions = Append(st.decisions, d)
    BY DEF Notes
  <1> HIDE DEF d
  <1>3. st.decisions \in Seq(SecondDecision)
    BY DEF SecondState
  <1>4. PICK q : q = st.decisions
    OBVIOUS
  <1>5. q \in Seq(SecondDecision) /\ Len(q) = k - 1
    BY <1>3, <1>4
  <1>6. PICK p : p = Append(q, d)
    OBVIOUS
  <1>7. Len(p) = k /\ p[k] = d /\ \A j \in 1..k - 1 : p[j] = q[j]
    BY <1>5, <1>6
  <1>8. ASSUME NEW j \in 1..k PROVE SameDecision(in, K, D, p[j], j)
    <2>1. CASE j = k
      BY <1>1, <1>7, <2>1
    <2>2. CASE j # k
      <3>1. j \in 1..k - 1
        BY <2>2
      <3> QED
        BY <1>4, <1>7, <3>1
    <2> QED
      BY <2>1, <2>2
  <1> QED
    BY <1>2, <1>4, <1>6, <1>7, <1>8

(* What action k adds to the overlay of the accepted actions.               *)
OverlayAdds(in, K, k) ==
    /\ k \notin K => Earlier(K, k + 1) = Earlier(K, k)
    /\ k \in K => Earlier(K, k + 1) = Earlier(K, k) \cup {k}
    /\ (\A j \in Earlier(K, k) : in.schedule[j].slot # in.schedule[k].slot) =>
          OverlayOf(in, Earlier(K, k) \cup {k})
            = Apply(OverlayOf(in, Earlier(K, k)), in.schedule[k])

(* The overlay grows by one write for each accepted action.                 *)
LEMMA OverlayGrows ==
    ASSUME NEW in \in Input, NEW n \in Nat, n = Len(in.schedule), NEW K, K \subseteq 1..n,
           NEW k \in 1..n
    PROVE  OverlayAdds(in, K, k)
  <1>0. (\A j \in K : j < k + 1 <=> j < k \/ j = k) /\ ~(k < k)
    BY SMT
  <1>1. k \notin K => Earlier(K, k + 1) = Earlier(K, k)
    BY <1>0, Zenon DEF Earlier
  <1>2. k \in K => Earlier(K, k + 1) = Earlier(K, k) \cup {k}
    <2>1. ASSUME k \in K, NEW j
          PROVE  j \in Earlier(K, k + 1) <=> j \in Earlier(K, k) \cup {k}
      BY <1>0, <2>1, Zenon DEF Earlier
    <2> QED
      BY <2>1
  <1>3. ASSUME \A j \in Earlier(K, k) : in.schedule[j].slot # in.schedule[k].slot
        PROVE  OverlayOf(in, Earlier(K, k) \cup {k})
                 = Apply(OverlayOf(in, Earlier(K, k)), in.schedule[k])
    <2> DEFINE E == Earlier(K, k)
               sl(j) == in.schedule[j].slot
               v(j) == in.schedule[j].value
               a == in.schedule[k]
               g == OverlayOf(in, E)
               h == OverlayOf(in, E \cup {k})
    <2>1. \A j \in E : sl(j) # a.slot
      BY <1>3
    <2>2. g = [s \in Slots |-> IF \E j \in E : sl(j) = s THEN {v(j) : j \in {j \in E : sl(j) = s}}
                               ELSE in.graph[s]]
      BY DEF OverlayOf
    <2>3. h = [s \in Slots |-> IF \E j \in E \cup {k} : sl(j) = s
                               THEN {v(j) : j \in {j \in E \cup {k} : sl(j) = s}}
                               ELSE in.graph[s]]
      BY DEF OverlayOf
    <2>4. Apply(g, a) = [s \in Slots |-> IF s = a.slot THEN {a.value} ELSE g[s]]
      BY <2>2 DEF Apply
    <2>5. sl(k) = a.slot /\ v(k) = a.value
      OBVIOUS
    <2> HIDE DEF E, sl, v, a, g, h
    <2>6. ASSUME NEW s \in Slots PROVE h[s] = IF s = a.slot THEN {a.value} ELSE g[s]
      <3>1. CASE s = a.slot
        <4>1. {j \in E \cup {k} : sl(j) = s} = {k}
          BY <2>1, <2>5, <3>1
        <4>2. h[s] = {v(j) : j \in {j \in E \cup {k} : sl(j) = s}}
          BY <2>3, <2>5, <3>1
        <4>3. h[s] = {v(j) : j \in {k}}
          BY <4>1, <4>2
        <4> QED
          BY <2>5, <3>1, <4>3
      <3>2. CASE s # a.slot
        <4>1. {j \in E \cup {k} : sl(j) = s} = {j \in E : sl(j) = s}
          BY <2>5, <3>2
        <4>2. (\E j \in E \cup {k} : sl(j) = s) <=> (\E j \in E : sl(j) = s)
          BY <2>5, <3>2
        <4> QED
          BY <2>2, <2>3, <3>2, <4>1, <4>2
      <3> QED
        BY <3>1, <3>2
    <2>7. h = [s \in Slots |-> h[s]]
      BY <2>3
    <2>8. h = Apply(g, a)
      BY <2>4, <2>6, <2>7
    <2> QED
      BY <2>8 DEF h, g, a, E
  <1> QED
    BY <1>1, <1>2, <1>3 DEF OverlayAdds

(* Where the gates of the second implementation lead, in terms of what the  *)
(* first accepts and records: its verdict on an action is the first's.      *)
LEMMA StepVerdict ==
    ASSUME NEW in, NEW K, NEW D, NEW k, JustifiedBy(in, K, k), D[k] = VerdictOf(in, K, k),
           NEW st, st.working = OverlayOf(in, Earlier(K, k)),
           st.writtenTargets = {in.schedule[j].slot : j \in Earlier(K, k)},
           NEW t, SecondStep(in, st, in.schedule[k], t)
    PROVE  \/ /\ k \notin K /\ D[k].post = st.working
              /\ \E r : Refuses(st, t, in.schedule[k], r) /\ SameReason(r, D[k].reason)
           \/ /\ k \in K /\ D[k].post = Apply(st.working, in.schedule[k])
              /\ D[k].reason = "admissible"
              /\ \A j \in Earlier(K, k) : in.schedule[j].slot # in.schedule[k].slot
              /\ Grants(st, t, in.schedule[k])
  <1> DEFINE a == in.schedule[k]
             E == Earlier(K, k)
             g == st.working
             shadow == a.slot \in st.writtenTargets
             c == CHOOSE j \in Blocking(in, E, a) : TRUE
  <1>1. shadow <=> \E j \in E : in.schedule[j].slot = a.slot
    OBVIOUS
  <1>2. shadow <=> Blocking(in, E, a) # {}
    BY <1>1 DEF Blocking
  <1>3. k \in K <=> /\ a.role \in in.active /\ PolicyOK(g, a) /\ ~shadow
                    /\ Admissible(Apply(g, a))
    BY <1>1 DEF JustifiedBy, Gates
  <1>4. D[k] = Verdict(in, E, a, g)
    BY DEF VerdictOf
  <1>5. ASSUME NEW r, NEW h, NEW b, D[k] = Recorded(r, g, h, b)
        PROVE  D[k].reason = r /\ D[k].post = h
    BY <1>5 DEF Recorded
  <1>6. SecondStep(in, st, a, t)
    OBVIOUS
  <1> HIDE DEF a, E, g, shadow, c
  <1>7. CASE a.role \notin in.active
    <2>1. D[k] = Recorded("inactive_role", g, g, 0)
      BY <1>4, <1>7, Zenon DEF Verdict
    <2>2. Refuses(st, t, a, "inactive_role")
      BY <1>6, <1>7, Zenon DEF SecondStep
    <2>3. SameReason("inactive_role", D[k].reason)
      BY <1>5, <2>1 DEF SameReason
    <2> QED
      BY <1>3, <1>5, <1>7, <2>1, <2>2, <2>3 DEF g, a
  <1>8. CASE a.role \in in.active /\ ~PolicyOK(g, a)
    <2>1. D[k] = Recorded("policy", g, g, 0)
      BY <1>4, <1>8, Zenon DEF Verdict
    <2>2. PICK r \in PolicyReasons : Refuses(st, t, a, r)
      BY <1>6, <1>8, Zenon DEF SecondStep, g
    <2>3. SameReason(r, D[k].reason)
      BY <1>5, <2>1 DEF SameReason
    <2> QED
      BY <1>3, <1>5, <1>8, <2>1, <2>2, <2>3 DEF g, a
  <1>9. CASE a.role \in in.active /\ PolicyOK(g, a) /\ shadow
    <2>1. D[k] = Recorded("shadowed", g, g, c)
      BY <1>2, <1>4, <1>9, Zenon DEF Verdict, c
    <2>2. Refuses(st, t, a, "shadowed_by_prior_accepted_action")
      BY <1>6, <1>9, Zenon DEF SecondStep, g, shadow
    <2>3. SameReason("shadowed_by_prior_accepted_action", D[k].reason)
      BY <1>5, <2>1 DEF SameReason
    <2> QED
      BY <1>3, <1>5, <1>9, <2>1, <2>2, <2>3 DEF g, a
  <1>10. CASE a.role \in in.active /\ PolicyOK(g, a) /\ ~shadow /\ ~Admissible(Apply(g, a))
    <2>1. D[k] = Recorded("inadmissible", g, g, 0)
      BY <1>2, <1>4, <1>10, Zenon DEF Verdict
    <2>2. Refuses(st, t, a, "inadmissible")
      BY <1>6, <1>10, Zenon DEF SecondStep, g, shadow
    <2>3. SameReason("inadmissible", D[k].reason)
      BY <1>5, <2>1 DEF SameReason
    <2> QED
      BY <1>3, <1>5, <1>10, <2>1, <2>2, <2>3 DEF g, a
  <1>11. CASE a.role \in in.active /\ PolicyOK(g, a) /\ ~shadow /\ Admissible(Apply(g, a))
    <2>1. D[k] = Recorded("admissible", g, Apply(g, a), 0)
      BY <1>2, <1>4, <1>11, Zenon DEF Verdict
    <2>2. Grants(st, t, a)
      BY <1>6, <1>11, Zenon DEF SecondStep, g, shadow
    <2>3. k \in K /\ \A j \in E : in.schedule[j].slot # a.slot
      BY <1>1, <1>3, <1>11
    <2> QED
      BY <1>5, <2>1, <2>2, <2>3 DEF g, a, E
  <1> QED
    BY <1>7, <1>8, <1>9, <1>10, <1>11

(* A step keeps to the first implementation.                                *)
LEMMA StepMatches ==
    ASSUME NEW in \in Input, NEW K, NEW D, Resolution(in, K, D), NEW k \in 1..Len(D),
           NEW st, Matches(in, K, D, st, k - 1),
           NEW t \in SecondState, SecondStep(in, st, in.schedule[k], t)
    PROVE  Matches(in, K, D, t, k)
  <1> DEFINE n == Len(D)
             a == in.schedule[k]
  <1>1. /\ n \in Nat /\ n = Len(in.schedule) /\ K \subseteq 1..n
        /\ JustifiedBy(in, K, k) /\ D[k] = VerdictOf(in, K, k)
    BY DEF Resolution
  <1>2. k \in Nat \ {0} /\ k - 1 \in Nat /\ (k - 1) + 1 = k
    BY <1>1
  <1>3. /\ st \in SecondState
        /\ st.working = OverlayOf(in, Earlier(K, k))
        /\ st.writtenTargets = {in.schedule[j].slot : j \in Earlier(K, k)}
        /\ Len(st.decisions) = k - 1
        /\ \A j \in 1..k - 1 : SameDecision(in, K, D, st.decisions[j], j)
        /\ InOrder(in, K, st.accepted, k - 1)
    BY <1>2 DEF Matches
  <1>4. a \in Actions
    BY <1>1 DEF Input
  <1>5. st.accepted \in Seq(Actions)
    BY <1>3 DEF SecondState
  <1> HIDE DEF n
  <1>6. /\ k \notin K => Earlier(K, k + 1) = Earlier(K, k)
        /\ k \in K => Earlier(K, k + 1) = Earlier(K, k) \cup {k}
        /\ (\A j \in Earlier(K, k) : in.schedule[j].slot # in.schedule[k].slot) =>
              OverlayOf(in, Earlier(K, k) \cup {k})
                = Apply(OverlayOf(in, Earlier(K, k)), in.schedule[k])
    <2>1. OverlayAdds(in, K, k)
      BY <1>1, OverlayGrows DEF n
    <2> QED
      BY <2>1, Zenon DEF OverlayAdds
  <1>7. /\ k \notin K => InOrder(in, K, st.accepted, k)
        /\ k \in K => InOrder(in, K, Append(st.accepted, a), k)
    BY <1>1, <1>3, <1>4, <1>5, InOrderGrows DEF n
  <1>8. \/ /\ k \notin K /\ D[k].post = st.working
           /\ \E r : Refuses(st, t, a, r) /\ SameReason(r, D[k].reason)
        \/ /\ k \in K /\ D[k].post = Apply(st.working, a)
           /\ D[k].reason = "admissible"
           /\ \A j \in Earlier(K, k) : in.schedule[j].slot # a.slot
           /\ Grants(st, t, a)
    BY <1>1, <1>3, StepVerdict
  <1>9. ASSUME NEW accept, NEW r, Notes(st, t, a, accept, r), accept = (k \in K),
               t.working = D[k].post, SameReason(r, D[k].reason)
        PROVE  /\ Len(t.decisions) = k
               /\ \A j \in 1..k : SameDecision(in, K, D, t.decisions[j], j)
    BY <1>2, <1>3, <1>9, DecisionsGrow
  <1>10. CASE k \notin K
    <2>1. PICK r : Refuses(st, t, a, r) /\ SameReason(r, D[k].reason)
      BY <1>8, <1>10
    <2>2. D[k].post = st.working
      BY <1>8, <1>10
    <2>3. /\ t.working = st.working /\ t.writtenTargets = st.writtenTargets
          /\ t.accepted = st.accepted /\ Notes(st, t, a, FALSE, r)
      BY <2>1 DEF Refuses
    <2>4. FALSE = (k \in K)
      BY <1>10
    <2>5. /\ Len(t.decisions) = k
          /\ \A j \in 1..k : SameDecision(in, K, D, t.decisions[j], j)
      BY <1>9, <2>1, <2>2, <2>3, <2>4
    <2> QED
      BY <1>3, <1>6, <1>7, <1>10, <2>3, <2>5 DEF Matches
  <1>11. CASE k \in K
    <2>1. /\ D[k].post = Apply(st.working, a) /\ D[k].reason = "admissible"
          /\ \A j \in Earlier(K, k) : in.schedule[j].slot # a.slot
          /\ Grants(st, t, a)
      BY <1>8, <1>11
    <2>2. /\ t.working = Apply(st.working, a)
          /\ t.writtenTargets = st.writtenTargets \cup {a.slot}
          /\ t.accepted = Append(st.accepted, a)
          /\ Notes(st, t, a, TRUE, "admissible")
      BY <2>1 DEF Grants
    <2>3. TRUE = (k \in K)
      BY <1>11, Zenon
    <2>4. SameReason("admissible", D[k].reason)
      BY <2>1 DEF SameReason
    <2>5. /\ Len(t.decisions) = k
          /\ \A j \in 1..k : SameDecision(in, K, D, t.decisions[j], j)
      BY <1>9, <2>1, <2>2, <2>3, <2>4
    <2>6. t.working = OverlayOf(in, Earlier(K, k + 1))
      BY <1>3, <1>6, <1>11, <2>1, <2>2
    <2>7. t.writtenTargets = {in.schedule[j].slot : j \in Earlier(K, k + 1)}
      BY <1>3, <1>6, <1>11, <2>2
    <2> QED
      BY <1>7, <1>11, <2>2, <2>5, <2>6, <2>7 DEF Matches
  <1> QED
    BY <1>10, <1>11

(* The second implementation has decided nothing yet.                       *)
SecondBegun(in, st) ==
    st = [working |-> in.graph, writtenTargets |-> {}, accepted |-> <<>>, decisions |-> <<>>]

(* A run of the second implementation ends where the first does.            *)
LEMMA SecondAgrees ==
    ASSUME NEW in \in Input, NEW K, NEW D, Resolution(in, K, D), NEW s, SecondBegun(in, s[0]),
           \A k \in 1..Len(D) : s[k - 1] \in SecondState =>
                s[k] \in SecondState /\ SecondStep(in, s[k - 1], in.schedule[k], s[k])
    PROVE  Matches(in, K, D, s[Len(D)], Len(D))
  <1> DEFINE n == Len(D)
             T == {k \in 0..n : ~Matches(in, K, D, s[k], k)}
  <1>1. n \in Nat /\ K \subseteq 1..n
    BY DEF Resolution
  <1>2. Matches(in, K, D, s[0], 0)
    <2>1. Earlier(K, 0 + 1) = {}
      <3>1. \A j \in K : ~(j < 0 + 1)
        BY <1>1
      <3> QED
        BY <3>1 DEF Earlier
    <2>2. in.graph \in Graph
      BY DEF Input
    <2>3. OverlayOf(in, {}) = in.graph
      BY <2>2 DEF OverlayOf, Graph
    <2>4. K \cap 1..0 = {}
      BY <1>1
    <2>5. Nth(K, 0) = 0
      BY <2>4, FS_EmptySet DEF Nth
    <2>6. /\ s[0] \in SecondState /\ s[0].working = in.graph /\ s[0].writtenTargets = {}
          /\ s[0].accepted = <<>> /\ s[0].decisions = <<>>
      BY <2>2 DEF SecondBegun, SecondState
    <2> QED
      <3>1. Len(s[0].decisions) = 0 /\ Len(s[0].accepted) = 0
        BY <2>6
      <3>2. InOrder(in, K, s[0].accepted, 0)
        BY <2>5, <3>1 DEF InOrder
      <3>3. s[0].writtenTargets = {in.schedule[j].slot : j \in Earlier(K, 0 + 1)}
        BY <2>1, <2>6
      <3>4. \A j \in 1..0 : SameDecision(in, K, D, s[0].decisions[j], j)
        OBVIOUS
      <3> QED
        BY <2>1, <2>3, <2>6, <3>1, <3>2, <3>3, <3>4 DEF Matches
  <1>3. ASSUME T # {} PROVE FALSE
    <2>1. PICK k \in T : \A j \in T : k <= j
      <3>1. T \subseteq Nat
        BY <1>1
      <3> HIDE DEF T
      <3> QED
        BY <1>3, <3>1, FirstOf
    <2>2. k \in 1..n
      BY <1>1, <1>2, <2>1
    <2>3. Matches(in, K, D, s[k - 1], k - 1)
      BY <1>1, <2>1, <2>2
    <2>4. ~Matches(in, K, D, s[k], k)
      BY <2>1
    <2> HIDE DEF T
    <2>5. s[k - 1] \in SecondState
      BY <2>3 DEF Matches
    <2>6. s[k] \in SecondState /\ SecondStep(in, s[k - 1], in.schedule[k], s[k])
      BY <2>2, <2>5
    <2> QED
      BY <2>2, <2>3, <2>4, <2>6, StepMatches
  <1> QED
    BY <1>1, <1>3

(* st is where a resolution that accepts K and records D ends, as the       *)
(* comparison of the two implementations has it.                            *)
EndsAs(in, K, D, st) ==
    /\ st \in SecondState
    /\ st.working = OverlayOf(in, K)
    /\ Len(st.decisions) = Len(D)
    /\ \A k \in 1..Len(D) : SameDecision(in, K, D, st.decisions[k], k)
    /\ st.accepted = [i \in 1..Cardinality(K) |->
                        in.schedule[CHOOSE k \in K : Cardinality(K \cap 1..k) = i]]

(* The second implementation ends there after the last action.              *)
LEMMA EndsAlike ==
    ASSUME NEW in, NEW K, NEW D, Resolution(in, K, D), NEW st, Matches(in, K, D, st, Len(D))
    PROVE  EndsAs(in, K, D, st)
  <1> DEFINE n == Len(D)
  <1>1. n \in Nat /\ K \subseteq 1..n
    BY DEF Resolution
  <1>2. Earlier(K, n + 1) = K
    <2>1. \A j \in K : j < n + 1
      BY <1>1
    <2> QED
      BY <2>1 DEF Earlier
  <1>3. /\ st \in SecondState
        /\ st.accepted \in Seq(Actions) /\ InOrder(in, K, st.accepted, n)
        /\ st.working = OverlayOf(in, K)
        /\ Len(st.decisions) = n
        /\ \A k \in 1..n : SameDecision(in, K, D, st.decisions[k], k)
    BY <1>2 DEF Matches, SecondState
  <1> HIDE DEF n
  <1>4. st.accepted = [i \in 1..Cardinality(K) |->
                         in.schedule[CHOOSE k \in K : Cardinality(K \cap 1..k) = i]]
    BY <1>1, <1>3, AcceptedInOrder
  <1> QED
    BY <1>3, <1>4 DEF n, EndsAs

(* A set of positions has a last one.                                       *)
LEMMA LastOf ==
    ASSUME NEW n \in Nat, NEW T, T \subseteq 1..n, T # {}
    PROVE  \E i \in T : \A j \in T : i >= j
  <1> DEFINE U == {n - i : i \in T}
  <1>1. U \subseteq Nat /\ U # {}
    <2>1. \A i \in 1..n : n - i \in Nat
      OBVIOUS
    <2>2. \A i \in T : n - i \in Nat
      BY <2>1
    <2>3. PICK i : i \in T
      OBVIOUS
    <2>4. n - i \in U
      BY <2>3
    <2> QED
      BY <2>2, <2>4
  <1>2. PICK u \in U : \A v \in U : u <= v
    <2> HIDE DEF U
    <2> QED
      BY <1>1, FirstOf
  <1>3. PICK i \in T : u = n - i
    BY <1>2
  <1>4. ASSUME NEW j \in T PROVE i >= j
    <2>1. n - j \in U
      OBVIOUS
    <2>2. n - i <= n - j
      BY <1>2, <1>3, <2>1
    <2>3. i \in Nat /\ j \in Nat
      OBVIOUS
    <2> QED
      BY <2>2, <2>3
  <1> QED
    BY <1>4

-----------------------------------------------------------------------------
(* What the second implementation does at a gate, for any shapes and any    *)
(* verdict of its guard, and that it is a step as above.                    *)

(* The decision on a is added to st. *)
SecondRecord(st, a, accept, reason) ==
    [st EXCEPT !.decisions =
        Append(@, [action |-> a, accepted |-> accept, reason |-> reason, post |-> st.working])]

(* a is written, and the write is kept or the slot gets back what it had.   *)
Tried(st, a) == [st EXCEPT !.working = Apply(@, a)]

KeptWrite(st, a) ==
    [Tried(st, a) EXCEPT !.writtenTargets = @ \cup {a.slot}, !.accepted = Append(@, a)]

TakenBack(st, a) == [Tried(st, a) EXCEPT !.working[a.slot] = st.working[a.slot]]

SecondWrite(st, a) ==
    IF Admissible(Tried(st, a).working)
    THEN SecondRecord(KeptWrite(st, a), a, TRUE, "admissible")
    ELSE SecondRecord(TakenBack(st, a), a, FALSE, "inadmissible")

(* The gates; v is what the guard says of a.                                *)
SecondGates(st, a, active, v) ==
    IF a.role \notin active THEN SecondRecord(st, a, FALSE, "inactive_role")
    ELSE IF v \in PolicyReasons THEN SecondRecord(st, a, FALSE, v)
    ELSE IF a.slot \in st.writtenTargets
         THEN SecondRecord(st, a, FALSE, "shadowed_by_prior_accepted_action")
    ELSE SecondWrite(st, a)

(* The decision it notes.                                                   *)
LEMMA NotesDecision ==
    ASSUME NEW st \in SecondState, NEW a \in Actions, NEW accept \in BOOLEAN, NEW r \in SecondReasons
    PROVE  Noted(st, SecondRecord(st, a, accept, r), a, accept, r)
  <1> DEFINE d == [action |-> a, accepted |-> accept, reason |-> r, post |-> st.working]
             ds == Append(st.decisions, d)
             t == [st EXCEPT !.decisions = ds]
  <1>1. SecondRecord(st, a, accept, r) = t
    BY DEF SecondRecord
  <1>2. d \in SecondDecision
    BY DEF SecondState, SecondDecision
  <1>3. /\ st.working \in Graph /\ st.writtenTargets \in SUBSET Slots
        /\ st.accepted \in Seq(Actions) /\ st.decisions \in Seq(SecondDecision)
    BY DEF SecondState
  <1> HIDE DEF d
  <1>4. ds \in Seq(SecondDecision)
    BY <1>2, <1>3
  <1> HIDE DEF ds
  <1>5. t = [working |-> st.working, writtenTargets |-> st.writtenTargets,
             accepted |-> st.accepted, decisions |-> ds]
    BY DEF SecondState
  <1> HIDE DEF t
  <1>6. t \in SecondState
    BY <1>3, <1>4, <1>5 DEF SecondState
  <1>7. /\ t.working = st.working /\ t.writtenTargets = st.writtenTargets
        /\ t.accepted = st.accepted /\ t.decisions = ds
    BY <1>5
  <1> QED
    BY <1>1, <1>6, <1>7 DEF Noted, Notes, ds, d

(* A write is kept when the shapes accept it and taken back when they       *)
(* reject it.                                                               *)
LEMMA WriteTried ==
    ASSUME NEW st \in SecondState, NEW a \in Actions
    PROVE  LET t == SecondWrite(st, a) IN
           /\ t \in SecondState
           /\ Admissible(Apply(st.working, a)) => Grants(st, t, a)
           /\ ~Admissible(Apply(st.working, a)) => Refuses(st, t, a, "inadmissible")
  <1> DEFINE g == st.working
             w == Apply(g, a)
             written == Tried(st, a)
             kept == KeptWrite(st, a)
             back == TakenBack(st, a)
             yes == SecondRecord(kept, a, TRUE, "admissible")
             no == SecondRecord(st, a, FALSE, "inadmissible")
             t == SecondWrite(st, a)
  <1>1. /\ g \in Graph /\ st.writtenTargets \in SUBSET Slots
        /\ st.accepted \in Seq(Actions) /\ st.decisions \in Seq(SecondDecision)
        /\ st = [working |-> g, writtenTargets |-> st.writtenTargets,
                 accepted |-> st.accepted, decisions |-> st.decisions]
    BY DEF SecondState
  <1>2. a.slot \in Slots /\ a.value \in Values
    BY ResolverConstants
  <1>3. w \in Graph
    BY <1>1, <1>2, ApplyGraph
  <1>4. [w EXCEPT ![a.slot] = g[a.slot]] = g
    <2>1. g = [s \in Slots |-> g[s]] /\ DOMAIN g = Slots
      BY <1>1 DEF Graph
    <2>2. w = [s \in Slots |-> IF s = a.slot THEN {a.value} ELSE g[s]]
      BY <2>1 DEF Apply
    <2>3. [w EXCEPT ![a.slot] = g[a.slot]] = [s \in Slots |-> IF s = a.slot THEN g[a.slot] ELSE w[s]]
      BY <2>2
    <2> HIDE DEF w, g
    <2>4. \A s \in Slots : (IF s = a.slot THEN g[a.slot] ELSE w[s]) = g[s]
      BY <2>2
    <2> QED
      BY <2>1, <2>3, <2>4
  <1>5. t = IF Admissible(written.working) THEN yes
            ELSE SecondRecord(back, a, FALSE, "inadmissible")
    BY Zenon DEF SecondWrite
  <1> HIDE DEF w
  <1>6. written = [working |-> w, writtenTargets |-> st.writtenTargets,
                   accepted |-> st.accepted, decisions |-> st.decisions]
    <2>1. written = [st EXCEPT !.working = w]
      BY DEF Tried, w
    <2> QED
      BY <1>1, <2>1
  <1> HIDE DEF g, written
  <1>7. written.working = w
    BY <1>6
  <1>8. kept = [working |-> w, writtenTargets |-> st.writtenTargets \cup {a.slot},
                accepted |-> Append(st.accepted, a), decisions |-> st.decisions]
    <2>1. written.writtenTargets = st.writtenTargets /\ written.accepted = st.accepted
      BY <1>6
    <2> DEFINE x == written.writtenTargets \cup {a.slot}
               q == Append(written.accepted, a)
    <2>2. kept = [[written EXCEPT !.writtenTargets = x] EXCEPT !.accepted = q]
      BY DEF KeptWrite, written
    <2> HIDE DEF x, q, kept
    <2>3. kept = [working |-> w, writtenTargets |-> x, accepted |-> q, decisions |-> st.decisions]
      BY <1>6, <2>2
    <2> QED
      BY <2>1, <2>3, Zenon DEF x, q
  <1>9. back = st
    <2>1. back = [written EXCEPT !.working[a.slot] = g[a.slot]]
      BY DEF TakenBack, written, g
    <2> HIDE DEF back
    <2>2. back = [working |-> [w EXCEPT ![a.slot] = g[a.slot]],
                  writtenTargets |-> st.writtenTargets,
                  accepted |-> st.accepted, decisions |-> st.decisions]
      BY <1>6, <2>1
    <2> QED
      BY <1>1, <1>4, <2>2
  <1> HIDE DEF kept, back
  <1>10. kept \in SecondState
    <2>1. Append(st.accepted, a) \in Seq(Actions)
      BY <1>1
    <2> QED
      BY <1>1, <1>2, <1>3, <1>8, <2>1 DEF SecondState
  <1>11. Noted(kept, yes, a, TRUE, "admissible")
    <2>1. "admissible" \in SecondReasons
      BY DEF SecondReasons
    <2> QED
      BY <1>10, <2>1, NotesDecision, Zenon
  <1>12. Noted(st, no, a, FALSE, "inadmissible")
    <2>1. "inadmissible" \in SecondReasons
      BY DEF SecondReasons
    <2> QED
      BY <2>1, NotesDecision, Zenon
  <1> HIDE DEF yes, no
  <1>13. yes \in SecondState /\ Grants(st, yes, a)
    BY <1>8, <1>11 DEF Noted, Grants, Notes, g, w
  <1>14. no \in SecondState /\ Refuses(st, no, a, "inadmissible")
    BY <1>12 DEF Noted, Refuses
  <1>15. t = IF Admissible(w) THEN yes ELSE no
    BY <1>5, <1>7, <1>9, Zenon DEF no
  <1> HIDE DEF t
  <1>16. /\ t \in SecondState
         /\ Admissible(w) => Grants(st, t, a)
         /\ ~Admissible(w) => Refuses(st, t, a, "inadmissible")
    BY <1>13, <1>14, <1>15
  <1> QED
    BY <1>16, Zenon DEF t, g, w

(* An action passes the gates of the second implementation.                 *)
LEMMA GatesStep ==
    ASSUME NEW in, NEW st \in SecondState, NEW a \in Actions,
           NEW v, v \in PolicyReasons <=> ~PolicyOK(st.working, a)
    PROVE  LET t == SecondGates(st, a, in.active, v) IN
           t \in SecondState /\ SecondStep(in, st, a, t)
  <1> DEFINE t == SecondGates(st, a, in.active, v)
             g == st.working
             Ends(r) == t = SecondRecord(st, a, FALSE, r)
             Refused(r) == t \in SecondState /\ Refuses(st, t, a, r)
  <1>1. ASSUME NEW r \in SecondReasons, Ends(r)
        PROVE  Refused(r)
    <2>1. Noted(st, SecondRecord(st, a, FALSE, r), a, FALSE, r)
      BY NotesDecision, Zenon
    <2>2. Noted(st, t, a, FALSE, r)
      BY <1>1, <2>1, Zenon
    <2> HIDE DEF t
    <2> QED
      BY <2>2, Zenon DEF Noted, Refuses
  <1>2. v \in PolicyReasons <=> ~PolicyOK(g, a)
    OBVIOUS
  <1>3. CASE a.role \notin in.active
    <2>1. Ends("inactive_role")
      BY <1>3, Zenon DEF SecondGates
    <2>2. Refused("inactive_role")
      <3>1. "inactive_role" \in SecondReasons
        BY DEF SecondReasons
      <3> HIDE DEF Ends, Refused
      <3> QED
        BY <1>1, <2>1, <3>1, Zenon
    <2> QED
      BY <1>3, <2>2, Zenon DEF SecondStep
  <1>4. CASE a.role \in in.active /\ ~PolicyOK(g, a)
    <2>1. PICK r \in PolicyReasons : r = v
      BY <1>2, <1>4
    <2>2. Ends(r)
      BY <1>2, <1>4, <2>1, Zenon DEF SecondGates
    <2>3. r \in SecondReasons
      BY <2>1 DEF PolicyReasons, SecondReasons
    <2>4. Refused(r)
      <3> HIDE DEF Ends, Refused
      <3> QED
        BY <1>1, <2>2, <2>3, Zenon
    <2> QED
      BY <1>4, <2>1, <2>4, Zenon DEF SecondStep
  <1>5. CASE a.role \in in.active /\ PolicyOK(g, a) /\ a.slot \in st.writtenTargets
    <2>1. Ends("shadowed_by_prior_accepted_action")
      BY <1>2, <1>5, Zenon DEF SecondGates
    <2>2. Refused("shadowed_by_prior_accepted_action")
      <3>1. "shadowed_by_prior_accepted_action" \in SecondReasons
        BY DEF SecondReasons
      <3> HIDE DEF Ends, Refused
      <3> QED
        BY <1>1, <2>1, <3>1, Zenon
    <2> QED
      BY <1>5, <2>2, Zenon DEF SecondStep
  <1>6. CASE a.role \in in.active /\ PolicyOK(g, a) /\ a.slot \notin st.writtenTargets
    <2>1. t = SecondWrite(st, a)
      BY <1>2, <1>6, Zenon DEF SecondGates
    <2>2. /\ t \in SecondState
          /\ Admissible(Apply(g, a)) => Grants(st, t, a)
          /\ ~Admissible(Apply(g, a)) => Refuses(st, t, a, "inadmissible")
      BY <2>1, WriteTried, Zenon
    <2> QED
      BY <1>6, <2>2, Zenon DEF SecondStep
  <1> QED
    BY <1>3, <1>4, <1>5, <1>6

(* The last of some positions. *)
LastIn(s) == CHOOSE i \in s : \A j \in s : i >= j

(* it holds what the second implementation comes to on each set of actions  *)
(* of the schedule, the last of them taken last; v is what its guard says   *)
(* of each.                                                                 *)
SecondRuns(it, in, v) ==
    it = [s \in SUBSET DOMAIN in.schedule |->
            IF s = {} THEN [working |-> in.graph, writtenTargets |-> {}, accepted |-> <<>>,
                            decisions |-> <<>>]
            ELSE LET x == LastIn(s)
                 IN  SecondGates(it[s \ {x}], in.schedule[x], in.active, v[x])]

(* The guard refuses the actions that the first implementation's refuses.   *)
GuardsAlike(in, v) ==
    \A k \in 1..Len(in.schedule) : \A g \in Graph :
        v[k] \in PolicyReasons <=> ~PolicyOK(g, in.schedule[k])

(* There is such a run.                                                     *)
LEMMA SecondRunExists ==
    ASSUME NEW in \in Input, NEW v, GuardsAlike(in, v)
    PROVE  \E it : SecondRuns(it, in, v)
  <1> DEFINE q == in.schedule
             act == in.active
             base == [working |-> in.graph, writtenTargets |-> {}, accepted |-> <<>>,
                      decisions |-> <<>>]
  <1>1. PICK n \in Nat : n = Len(q) /\ DOMAIN q = 1..n
    BY DEF Input
  <1> DEFINE S == 1..n
             c == [s \in SUBSET S |-> LastIn(s)]
             op == [p \in S \X SecondState |-> SecondGates(p[2], q[p[1]], act, v[p[1]])]
  <1>2. ASSUME NEW s \in SUBSET S, s # {} PROVE LastIn(s) \in s
    <2>1. \E i \in s : \A j \in s : i >= j
      BY <1>2, LastOf
    <2> QED
      BY <2>1, Zenon DEF LastIn
  <1>3. Picks(c, S)
    BY <1>2 DEF Picks
  <1>4. ASSUME NEW x \in S, NEW st \in SecondState
        PROVE  SecondGates(st, q[x], act, v[x]) \in SecondState
    <2>1. q[x] \in Actions /\ st.working \in Graph
      BY <1>1 DEF Input, SecondState
    <2>2. v[x] \in PolicyReasons <=> ~PolicyOK(st.working, q[x])
      BY <1>1, <2>1 DEF GuardsAlike
    <2> QED
      BY <2>1, <2>2, GatesStep
  <1>5. op \in [S \X SecondState -> SecondState]
    BY <1>4
  <1>6. base \in SecondState
    BY DEF SecondState, Input
  <1>7. IsFiniteSet(S)
    BY FS_Interval
  <1>8. PICK f \in [SUBSET S -> SecondState] : IsFold(c, op, base, f, SUBSET S)
    <2> HIDE DEF c, op, base, S
    <2> QED
      BY <1>3, <1>5, <1>6, <1>7, FoldExists
  <1> DEFINE step(s) == IF s = {} THEN base
                        ELSE LET x == LastIn(s) IN SecondGates(f[s \ {x}], q[x], act, v[x])
  <1>9. ASSUME NEW s \in SUBSET S
        PROVE  FoldStep(c, op, base, f, s) = step(s)
    <2>1. CASE s = {}
      BY <2>1 DEF FoldStep
    <2>2. CASE s # {}
      <3> DEFINE x == LastIn(s)
      <3>1. x \in s /\ c[s] = x
        BY <1>2, <2>2
      <3> HIDE DEF x, c
      <3>2. x \in S /\ f[s \ {x}] \in SecondState
        BY <3>1
      <3>3. op[<<x, f[s \ {x}]>>] = SecondGates(f[s \ {x}], q[x], act, v[x])
        BY <3>2
      <3> HIDE DEF op
      <3> QED
        BY <2>2, <3>1, <3>3, Zenon DEF FoldStep, x
    <2> QED
      BY <2>1, <2>2
  <1>10. f = [s \in SUBSET S |-> FoldStep(c, op, base, f, s)]
    BY <1>8 DEF IsFold
  <1> HIDE DEF c, op, step
  <1>11. f = [s \in SUBSET S |-> step(s)]
    BY <1>9, <1>10
  <1>12. SecondRuns(f, in, v)
    BY <1>1, <1>11, Zenon DEF SecondRuns, step
  <1> QED
    BY <1>12

(* Every such run ends as the first implementation does.                    *)
LEMMA SecondRunEnds ==
    ASSUME NEW in \in Input, NEW v, GuardsAlike(in, v), NEW K, NEW D, Resolution(in, K, D),
           NEW it, SecondRuns(it, in, v)
    PROVE  EndsAs(in, K, D, it[DOMAIN in.schedule])
  <1> DEFINE q == in.schedule
             act == in.active
  <1>1. PICK n \in Nat : n = Len(D) /\ n = Len(q) /\ DOMAIN q = 1..n
    BY DEF Resolution, Input
  <1> DEFINE s == [k \in 0..n |-> it[1..k]]
  <1>2. SecondBegun(in, s[0])
    <2>1. 1..0 = {} /\ {} \in SUBSET DOMAIN q
      OBVIOUS
    <2>2. SecondBegun(in, it[{}])
      BY <2>1, Zenon DEF SecondRuns, SecondBegun
    <2>3. s[0] = it[{}]
      BY <2>1
    <2> QED
      BY <2>2, <2>3
  <1>3. ASSUME NEW k \in 1..n PROVE s[k] = SecondGates(s[k - 1], q[k], act, v[k])
    <2>1. 1..k \in SUBSET DOMAIN q /\ 1..k # {}
      <3>1. 1..k \subseteq 1..n /\ k \in 1..k
        BY <1>1
      <3> QED
        BY <1>1, <3>1
    <2>2. it[1..k] = SecondGates(it[(1..k) \ {LastIn(1..k)}], q[LastIn(1..k)], act,
                                 v[LastIn(1..k)])
      BY <2>1, Zenon DEF SecondRuns
    <2>3. LastIn(1..k) = k
      <3> DEFINE m == LastIn(1..k)
      <3>1. k \in 1..k /\ \A j \in 1..k : k >= j
        OBVIOUS
      <3>2. m \in 1..k /\ \A j \in 1..k : m >= j
        BY <3>1, Zenon DEF LastIn
      <3> HIDE DEF m
      <3>3. m >= k /\ m \in 1..k
        BY <3>1, <3>2
      <3>4. m = k
        BY <3>3
      <3> QED
        BY <3>4 DEF m
    <2>4. (1..k) \ {k} = 1..k - 1
      OBVIOUS
    <2>5. s[k] = it[1..k] /\ s[k - 1] = it[1..k - 1]
      OBVIOUS
    <2> HIDE DEF s
    <2> QED
      BY <2>2, <2>3, <2>4, <2>5
  <1>4. s[n] = it[1..n]
    OBVIOUS
  <1> HIDE DEF s
  <1>5. \A k \in 1..Len(D) : s[k - 1] \in SecondState =>
             s[k] \in SecondState /\ SecondStep(in, s[k - 1], in.schedule[k], s[k])
    <2> SUFFICES ASSUME NEW k \in 1..n, s[k - 1] \in SecondState
                 PROVE  s[k] \in SecondState /\ SecondStep(in, s[k - 1], q[k], s[k])
      BY <1>1
    <2>1. q[k] \in Actions /\ s[k - 1].working \in Graph
      BY <1>1 DEF Input, SecondState
    <2>2. s[k] = SecondGates(s[k - 1], q[k], in.active, v[k])
      BY <1>3
    <2>3. v[k] \in PolicyReasons <=> ~PolicyOK(s[k - 1].working, q[k])
      BY <1>1, <2>1 DEF GuardsAlike
    <2> QED
      BY <2>1, <2>2, <2>3, GatesStep
  <1>6. Matches(in, K, D, s[Len(D)], Len(D))
    BY <1>2, <1>5, SecondAgrees
  <1> QED
    BY <1>1, <1>4, <1>6, EndsAlike
=============================================================================
