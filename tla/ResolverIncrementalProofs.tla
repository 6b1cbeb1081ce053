--------------------- MODULE ResolverIncrementalProofs ---------------------
(***************************************************************************)
(* Working in place with focused checks is the cloning resolver, for every *)
(* profile whose compiled checker is sound: on graphs of its fragment it   *)
(* never passes what the validator refuses, and after a write that keeps   *)
(* to the fragment the verdict on the written zone is the verdict on the   *)
(* graph.                                                                  *)
(*                                                                         *)
(* The second part shows both facts for the building's compiled checker,   *)
(* for every graph over any finite set of values.                          *)
(***************************************************************************)
EXTENDS CompiledResolver, FiniteSetTheorems, TLAPS

KernelSound ==
    /\ \A g \in R!Graph : FastEligible(g) /\ FullCheck(g) => Admissible(g)
    /\ \A g \in R!Graph, a \in Actions :
         LET h == R!Apply(g, a) IN
         FastEligible(g) /\ Admissible(g) /\ Preserves(h, a)
           => FastEligible(h) /\ (FocusedCheck(h, a) <=> Admissible(h))

(* A write in progress passed the other gates, and the old values of its    *)
(* slot are all that stands between the working graph and the one before.   *)
WriteInv ==
    writing =>
        /\ Pending /\ RoleActive /\ ~Shadowed
        /\ PolicyOK(Current, Action)
        /\ Current \in R!Graph
        /\ work = R!Apply(Current, Action)

IInv == TypeOK /\ WriteInv /\ FocusJustified

-----------------------------------------------------------------------------
(* The action on turn is one of the actions, with one of the slots.         *)
LEMMA ActionTyped ==
    ASSUME TypeOK, Pending
    PROVE  /\ Turn \in 1..Len(input.schedule)
           /\ Turn = Len(decisions) + 1 /\ Len(decisions) \in Nat
           /\ Action \in Actions
           /\ Action.slot \in Slots
           /\ Action.value \in Values
  <1>1. Len(decisions) \in Nat /\ Len(input.schedule) \in Nat
    BY DEF TypeOK, R!Input
  <1>2. Turn \in 1..Len(input.schedule)
    BY <1>1 DEF Pending, Turn
  <1>3. Action \in Actions
    BY <1>2 DEF TypeOK, R!Input, Action
  <1> QED
    BY <1>1, <1>2, <1>3, IncrementalConstants DEF Turn

(* Outside a write the readers' graph is the working graph.                 *)
LEMMA CurrentIdle == ASSUME ~writing PROVE Current = work
  BY DEF Current

(* During a write it is the graph the write would be undone to.             *)
LEMMA CurrentWriting == ASSUME writing PROVE Current = Restored
  BY DEF Current

(* The verdict of the check in use is the validator's.                      *)
LEMMA VerdictSound ==
    ASSUME KernelSound, IInv, writing
    PROVE  /\ Conforms <=> Admissible(R!Apply(Current, Action))
           /\ UsesFast => FastEligible(work)
  <1>1. /\ work = R!Apply(Current, Action)
        /\ Current \in R!Graph
        /\ Pending
    BY DEF IInv, WriteInv
  <1>2. Action \in Actions
    BY <1>1, ActionTyped DEF IInv
  <1>3. CASE UsesFast
    <2>1. FastEligible(Current) /\ Admissible(Current) /\ Preserves(work, Action)
      BY <1>3 DEF UsesFast, IInv, FocusJustified
    <2>2. FastEligible(work) /\ (FocusedCheck(work, Action) <=> Admissible(work))
      BY <1>1, <1>2, <2>1 DEF KernelSound
    <2> QED
      BY <1>1, <1>3, <2>2 DEF Conforms
  <1>4. CASE ~UsesFast
    BY <1>1, <1>4 DEF Conforms
  <1> QED
    BY <1>3, <1>4

(* One more decision keeps the sequence typed.                              *)
LEMMA Appended ==
    ASSUME TypeOK, NEW d \in R!Decision, decisions' = Append(decisions, d)
    PROVE  decisions' \in Seq(R!Decision) /\ Len(decisions') = Len(decisions) + 1
  BY DEF TypeOK

-----------------------------------------------------------------------------
(* A rejection before the write is the same rejection by the resolver.      *)
LEMMA RejectStep ==
    ASSUME IInv, ~writing, Pending, NEW reason \in R!Reasons, NEW b \in Nat,
           Reject(reason, b)
    PROVE  IInv' /\ R!Reject(reason, b)
  <1>1. UNCHANGED <<input, work, saved, writing, focused, accepted, winner>>
    BY DEF Reject
  <1>2. Current = work /\ Current' = work
    BY <1>1, CurrentIdle DEF Current
  <1> DEFINE d == [reason |-> reason, pre |-> work, post |-> work, blockedBy |-> b]
  <1>3. d \in R!Decision /\ decisions' = Append(decisions, d)
    BY DEF Reject, Decide, IInv, TypeOK, R!Decision
  <1> HIDE DEF d
  <1>4. decisions' \in Seq(R!Decision) /\ Len(decisions') = Len(decisions) + 1
    BY <1>3, Appended DEF IInv
  <1>5. Len(decisions) \in Nat
    BY DEF IInv, TypeOK
  <1>6. TypeOK'
    BY <1>1, <1>4, <1>5 DEF IInv, TypeOK
  <1>7. WriteInv' /\ FocusJustified'
    BY <1>1, <1>2 DEF WriteInv, FocusJustified, IInv
  <1>8. R!Reject(reason, b)
    BY <1>1, <1>2, <1>3 DEF R!Reject, R!Decide, d
  <1> QED
    BY <1>6, <1>7, <1>8 DEF IInv

(* Writing into the working graph is invisible to the resolver.             *)
LEMMA WriteStep ==
    ASSUME IInv, Write
    PROVE  IInv' /\ UNCHANGED R!resolverVars
  <1>1. /\ ~writing /\ Pending /\ RoleActive /\ PolicyOK(work, Action) /\ ~Shadowed
        /\ saved' = work[Action.slot]
        /\ work' = [work EXCEPT ![Action.slot] = {Action.value}]
        /\ writing' = TRUE
        /\ UNCHANGED <<input, focused, accepted, winner, decisions>>
    BY DEF Write
  <1>2. Action.slot \in Slots /\ Action.value \in Values
    BY <1>1, ActionTyped DEF IInv
  <1>3. work \in R!Graph /\ work \in [Slots -> SUBSET Values]
    BY DEF IInv, TypeOK, R!Graph
  <1>4. Action' = Action /\ Turn' = Turn
    BY <1>1 DEF Action, Turn
  <1>5. Current = work
    BY <1>1, CurrentIdle
  <1>6. Restored' = work
    <2> DEFINE sl == Action.slot
               v == Action.value
    <2>1. Restored' = [work' EXCEPT ![sl] = (work'[sl] \ {v}) \cup saved']
      BY <1>4 DEF Restored
    <2>2. sl \in Slots /\ saved' = work[sl] /\ work' = [work EXCEPT ![sl] = {v}]
      BY <1>1, <1>2
    <2> HIDE DEF sl, v
    <2>3. work'[sl] \ {v} = {}
      BY <1>3, <2>2
    <2>4. (work'[sl] \ {v}) \cup saved' = work[sl]
      BY <2>2, <2>3
    <2>5. Restored' = [work' EXCEPT ![sl] = work[sl]]
      BY <2>1, <2>4
    <2> QED
      BY <1>3, <2>2, <2>5
  <1>7. Current' = work
    BY <1>1, <1>6 DEF Current
  <1>8. work' \in R!Graph /\ saved' \in SUBSET Values
    BY <1>1, <1>2, <1>3 DEF R!Graph
  <1>9. TypeOK'
    BY <1>1, <1>2, <1>4, <1>8 DEF IInv, TypeOK, Pending
  <1>10. WriteInv'
    BY <1>1, <1>3, <1>4, <1>7 DEF WriteInv, Pending, RoleActive, Shadowed, R!Apply
  <1>11. FocusJustified'
    BY <1>1, <1>5, <1>7 DEF FocusJustified, IInv
  <1> QED
    BY <1>1, <1>5, <1>7, <1>9, <1>10, <1>11 DEF IInv, R!resolverVars

(* A write that passes its check is the resolver's acceptance.              *)
LEMMA KeepStep ==
    ASSUME KernelSound, IInv, Keep
    PROVE  IInv' /\ R!Accept
  <1>1. /\ writing /\ Conforms
        /\ focused' = UsesFast
        /\ accepted' = accepted \cup {Turn}
        /\ winner' = [winner EXCEPT ![Action.slot] = Turn]
        /\ Decide("admissible", Restored, work, 0)
        /\ writing' = FALSE
        /\ saved' = {}
        /\ UNCHANGED <<input, work>>
    BY DEF Keep
  <1>2. /\ Pending /\ RoleActive /\ ~Shadowed
        /\ PolicyOK(Current, Action)
        /\ Current \in R!Graph
        /\ work = R!Apply(Current, Action)
    BY <1>1 DEF IInv, WriteInv
  <1>3. Admissible(work) /\ (UsesFast => FastEligible(work))
    BY <1>1, <1>2, VerdictSound
  <1>4. Current = Restored /\ Current' = work
    BY <1>1, CurrentWriting DEF Current
  <1>5. /\ Turn = Len(decisions) + 1 /\ Len(decisions) \in Nat
        /\ Action.slot \in Slots
    BY <1>2, ActionTyped DEF IInv
  <1> DEFINE d == [reason |-> "admissible", pre |-> Current, post |-> work, blockedBy |-> 0]
  <1>6. d \in R!Decision /\ decisions' = Append(decisions, d)
    BY <1>1, <1>2, <1>4 DEF Decide, IInv, TypeOK, R!Decision, R!Reasons
  <1>7. R!Accept
    BY <1>1, <1>2, <1>3, <1>4, <1>6
       DEF R!Accept, R!Pending, R!Turn, R!RoleActive, R!Action, R!Shadowed, R!Decide,
           Pending, Turn, RoleActive, Action, Shadowed
  <1> HIDE DEF d
  <1>8. decisions' \in Seq(R!Decision) /\ Len(decisions') = Len(decisions) + 1
    BY <1>6, Appended DEF IInv
  <1>9. TypeOK'
    <2>1. Turn \in 1..Len(decisions') /\ 1..Len(decisions) \subseteq 1..Len(decisions')
      BY <1>5, <1>8
    <2>2. accepted' \subseteq 1..Len(decisions')
      BY <1>1, <2>1 DEF IInv, TypeOK
    <2>3. winner' \in [Slots -> 0..Len(decisions')]
      BY <1>1, <1>5, <1>8 DEF IInv, TypeOK
    <2>4. focused' \in BOOLEAN
      BY <1>1 DEF UsesFast, IInv, TypeOK
    <2> QED
      BY <1>1, <1>8, <2>2, <2>3, <2>4 DEF IInv, TypeOK
  <1>10. WriteInv' /\ FocusJustified'
    BY <1>1, <1>3, <1>4 DEF WriteInv, FocusJustified
  <1> QED
    BY <1>7, <1>9, <1>10 DEF IInv

(* A write that fails its check and is undone is the resolver's rejection.  *)
LEMMA UndoStep ==
    ASSUME KernelSound, IInv, Undo
    PROVE  IInv' /\ R!RejectInadmissible
  <1>1. /\ writing /\ ~Conforms
        /\ work' = Restored
        /\ Decide("inadmissible", Restored, Restored, 0)
        /\ writing' = FALSE
        /\ saved' = {}
        /\ UNCHANGED <<input, focused, accepted, winner>>
    BY DEF Undo
  <1>2. /\ Pending /\ RoleActive /\ ~Shadowed
        /\ PolicyOK(Current, Action)
        /\ Current \in R!Graph
    BY <1>1 DEF IInv, WriteInv
  <1>3. ~Admissible(R!Apply(Current, Action))
    BY <1>1, VerdictSound
  <1>4. Current = Restored /\ Current' = Current
    BY <1>1, CurrentWriting DEF Current
  <1> DEFINE d == [reason |-> "inadmissible", pre |-> Current, post |-> Current, blockedBy |-> 0]
  <1>5. d \in R!Decision /\ decisions' = Append(decisions, d)
    BY <1>1, <1>2, <1>4 DEF Decide, R!Decision, R!Reasons
  <1>6. R!RejectInadmissible
    BY <1>1, <1>2, <1>3, <1>4, <1>5
       DEF R!RejectInadmissible, R!Reject, R!Pending, R!Turn, R!RoleActive, R!Action,
           R!Shadowed, R!Decide, Pending, Turn, RoleActive, Action, Shadowed
  <1> HIDE DEF d
  <1>7. decisions' \in Seq(R!Decision) /\ Len(decisions') = Len(decisions) + 1
    BY <1>5, Appended DEF IInv
  <1>8. TypeOK'
    <2>1. Len(decisions) \in Nat
      BY DEF IInv, TypeOK
    <2>2. work' \in R!Graph
      BY <1>1, <1>2, <1>4
    <2>3. accepted' \subseteq 1..Len(decisions') /\ winner' \in [Slots -> 0..Len(decisions')]
      <3>1. 1..Len(decisions) \subseteq 1..Len(decisions')
        BY <1>7, <2>1
      <3>2. 0..Len(decisions) \subseteq 0..Len(decisions')
        BY <1>7, <2>1
      <3> QED
        BY <1>1, <3>1, <3>2 DEF IInv, TypeOK
    <2> QED
      BY <1>1, <1>7, <2>2, <2>3 DEF IInv, TypeOK
  <1>9. WriteInv' /\ FocusJustified'
    BY <1>1, <1>4 DEF WriteInv, FocusJustified, IInv
  <1> QED
    BY <1>6, <1>8, <1>9 DEF IInv

-----------------------------------------------------------------------------
(* Every start is a start of the resolver.                                  *)
LEMMA InitMaps ==
    ASSUME KernelSound, Init
    PROVE  IInv /\ R!Init
  <1>1. input \in R!Input /\ work = input.graph /\ Current = work
    BY IncrementalConstants DEF Init, Current
  <1>2. work \in R!Graph
    BY <1>1 DEF R!Input
  <1>3. TypeOK /\ WriteInv
    <2>1. focused \in BOOLEAN
      BY DEF Init
    <2>2. /\ decisions \in Seq(R!Decision) /\ Len(decisions) = 0
          /\ accepted = {} /\ saved = {} /\ writing = FALSE
      BY DEF Init
    <2>3. winner \in [Slots -> 0..Len(decisions)]
      BY <2>2 DEF Init
    <2> QED
      BY <1>1, <1>2, <2>1, <2>2, <2>3 DEF TypeOK, WriteInv
  <1>4. FocusJustified
    BY <1>1, <1>2 DEF Init, FocusJustified, KernelSound
  <1>5. R!Init
    <2>1. input \in AnyInput
      BY <1>1 DEF AnyInput, R!Input, R!Graph
    <2> QED
      BY <1>1, <2>1 DEF Init, R!Init
  <1> QED
    BY <1>3, <1>4, <1>5 DEF IInv

(* Every step is a step of the resolver, or none.                           *)
LEMMA NextMaps ==
    ASSUME KernelSound, IInv, [Next]_incrementalVars
    PROVE  IInv' /\ [R!Next]_(R!resolverVars)
  <1>1. CASE RejectRole
    <2>1. IInv' /\ R!Reject("inactive_role", 0)
      BY <1>1, RejectStep DEF RejectRole, R!Reasons
    <2> QED
      BY <1>1, <2>1 DEF RejectRole, R!Next, R!RejectRole, R!Pending, R!Turn, R!RoleActive,
                        R!Action, Pending, Turn, RoleActive, Action
  <1>2. CASE RejectPolicy
    <2>1. IInv' /\ R!Reject("policy", 0)
      BY <1>2, RejectStep DEF RejectPolicy, R!Reasons
    <2>2. Current = work
      BY <1>2, CurrentIdle DEF RejectPolicy
    <2> QED
      BY <1>2, <2>1, <2>2
         DEF RejectPolicy, R!Next, R!RejectPolicy, R!Pending, R!Turn, R!RoleActive, R!Action,
             Pending, Turn, RoleActive, Action
  <1>3. CASE RejectShadowed
    <2>1. Action.slot \in Slots
      BY <1>3, ActionTyped DEF RejectShadowed, IInv
    <2>2. winner[Action.slot] \in Nat
      BY <2>1 DEF IInv, TypeOK
    <2>3. IInv' /\ R!Reject("shadowed", winner[Action.slot])
      BY <1>3, <2>2, RejectStep DEF RejectShadowed, R!Reasons
    <2>4. Current = work
      BY <1>3, CurrentIdle DEF RejectShadowed
    <2> QED
      BY <1>3, <2>3, <2>4
         DEF RejectShadowed, R!Next, R!RejectShadowed, R!Pending, R!Turn, R!RoleActive,
             R!Action, R!Shadowed, Pending, Turn, RoleActive, Action, Shadowed
  <1>4. CASE Write
    BY <1>4, WriteStep
  <1>5. CASE Keep
    BY <1>5, KeepStep DEF R!Next
  <1>6. CASE Undo
    BY <1>6, UndoStep DEF R!Next
  <1>7. CASE UNCHANGED incrementalVars
    <2>1. Current' = Current
      BY <1>7 DEF incrementalVars, Current, Restored, Action, Turn
    <2>2. IInv'
      BY <1>7, <2>1 DEF incrementalVars, IInv, TypeOK, WriteInv, FocusJustified, Pending,
                        Turn, Action, RoleActive, Shadowed
    <2> QED
      BY <1>7, <2>1, <2>2 DEF incrementalVars, R!resolverVars
  <1> QED
    BY <1>1, <1>2, <1>3, <1>4, <1>5, <1>6, <1>7 DEF Next

(* The invariant holds of every behaviour.                                  *)
LEMMA IncrementalInvariant ==
    ASSUME KernelSound
    PROVE  Spec => []IInv
  <1>1. Init => IInv
    BY InitMaps
  <1>2. IInv /\ [Next]_incrementalVars => IInv'
    BY NextMaps
  <1> QED
    BY <1>1, <1>2, PTL DEF Spec

(* Focused checks are only made while the rest of the graph is known to be  *)
(* admissible and in the fragment.                                          *)
THEOREM IncrementalFocus ==
    ASSUME KernelSound
    PROVE  Spec => []FocusJustified
  <1>1. IInv => FocusJustified
    BY DEF IInv
  <1> QED
    BY <1>1, IncrementalInvariant, PTL

(* The incremental resolver implements the resolver: the same decisions in  *)
(* the same order, and the same successor.                                  *)
THEOREM IncrementalRefinement ==
    ASSUME KernelSound
    PROVE  Spec => ImplementsResolver
  <1>1. Init => IInv /\ R!Init
    BY InitMaps
  <1>2. IInv /\ [Next]_incrementalVars => IInv' /\ [R!Next]_(R!resolverVars)
    BY NextMaps
  <1> QED
    BY <1>1, <1>2, PTL DEF Spec, ImplementsResolver, R!Spec

-----------------------------------------------------------------------------
(* The building as an instance of the resolver, with its compiled checker.  *)
CompiledBuilding ==
    /\ \A g : Admissible(g) <=> ShaclConforms(g)
    /\ \A g : FastEligible(g) <=> Eligible(g)
    /\ \A g : FullCheck(g) <=> FastConformsAll(g)
    /\ \A g, a : FocusedCheck(g, a) <=> FastConformsZone(g, a)
    /\ \A g, a : Preserves(g, a) <=> PreservedByWrite(g, a)

FastGraph == [FastSlots -> SUBSET Values]

(* What a zone's own shapes ask of it, and what the kernel asks.            *)
ZoneShapes(g, z) ==
    /\ ZoneSetpointShape(g, z)
    /\ ZoneVentilationShape(g, z)
    /\ EmergencyStateShape(g, z)
    /\ EmergencyVentLockShape(g, z)

ZoneKernel(g, z) == KernelSetpoint(g, z) /\ KernelVent(g, z) /\ KernelEmergency(g, z)

ZoneAShapes(g) == ZoneAComfortCapShape(g) /\ ZoneAEmergencyVentShape(g)

Written(g, a) == [g EXCEPT ![a.slot] = {a.value}]

-----------------------------------------------------------------------------
(* A slot of a graph holds a finite set, and one value is a singleton.      *)
LEMMA SlotFinite ==
    ASSUME NEW g \in FastGraph, NEW s \in FastSlots
    PROVE  /\ g[s] \subseteq Values
           /\ Cardinality(g[s]) = 1 <=> \E x : g[s] = {x}
  <1>1. g[s] \in SUBSET Values
    BY DEF FastGraph
  <1>2. IsFiniteSet(g[s])
    BY <1>1, BuildingConstants, FS_Subset
  <1> QED
    BY <1>1, <1>2, FS_Singleton

(* A slot that must hold one value of a range holds one of them.            *)
LEMMA SingleIn ==
    ASSUME NEW g \in FastGraph, NEW s \in FastSlots
    PROVE  \A S : Cardinality(g[s]) = 1 /\ g[s] \subseteq S <=> \E x \in S : g[s] = {x}
  BY SlotFinite

(* On one zone, the kernel and the zone's shapes agree.                     *)
LEMMA ZoneAgrees ==
    ASSUME NEW g \in FastGraph, NEW z \in {"A", "B", "C"}
    PROVE  ZoneKernel(g, z) <=> ZoneShapes(g, z)
  <1>1. /\ <<z, "setpoint">> \in FastSlots
        /\ <<z, "vent">> \in FastSlots
        /\ <<z, "emergency">> \in FastSlots
    BY DEF FastSlots
  <1>2. \A S : Cardinality(Setpoint(g, z)) = 1 /\ Setpoint(g, z) \subseteq S
                <=> \E x \in S : Setpoint(g, z) = {x}
    BY <1>1, SingleIn DEF Setpoint
  <1>3. \A S : Cardinality(Vent(g, z)) = 1 /\ Vent(g, z) \subseteq S
                <=> \E x \in S : Vent(g, z) = {x}
    BY <1>1, SingleIn DEF Vent
  <1>4. \A S : Cardinality(EmergencyState(g, z)) = 1 /\ EmergencyState(g, z) \subseteq S
                <=> \E x \in S : EmergencyState(g, z) = {x}
    BY <1>1, SingleIn DEF EmergencyState
  <1>5. KernelSetpoint(g, z) <=> ZoneSetpointShape(g, z)
    BY <1>2 DEF KernelSetpoint, ZoneSetpointShape
  <1>6. KernelVent(g, z) <=> ZoneVentilationShape(g, z)
    BY <1>3 DEF KernelVent, ZoneVentilationShape
  <1>7. (\E b \in {0, 1} : EmergencyState(g, z) = {b}) <=> EmergencyStateShape(g, z)
    BY <1>4 DEF EmergencyStateShape
  <1>8. ASSUME EmergencyStateShape(g, z), ZoneVentilationShape(g, z)
        PROVE  EmergencyVentLockShape(g, z) <=>
                 (EmergencyState(g, z) = {1} /\ Cardinality(Vent(g, z)) = 1
                    => Vent(g, z) = {Emergency})
    <2>1. PICK b \in {0, 1} : EmergencyState(g, z) = {b}
      BY <1>7, <1>8
    <2>2. PICK m : Vent(g, z) = {m}
      BY <1>1, <1>8, SlotFinite DEF ZoneVentilationShape, Vent
    <2>3. 1 \in EmergencyState(g, z) <=> EmergencyState(g, z) = {1}
      BY <2>1
    <2>4. Vent(g, z) \subseteq {Emergency} <=> Vent(g, z) = {Emergency}
      BY <2>2
    <2> QED
      BY <1>8, <2>3, <2>4 DEF EmergencyVentLockShape, ZoneVentilationShape
  <1> QED
    BY <1>5, <1>6, <1>7, <1>8 DEF ZoneKernel, ZoneShapes, KernelEmergency

(* The kernel's loop over zone A's setpoints is zone A's own two shapes.    *)
LEMMA ZoneAAgrees ==
    ASSUME NEW g
    PROVE  KernelZoneA(g) <=> ZoneAShapes(g)
  BY DEF KernelZoneA, ZoneAShapes, ZoneAComfortCapShape, ZoneAEmergencyVentShape

(* On the fragment the targets are the two typed zones, and the validator's *)
(* verdict is that of their shapes.                                         *)
LEMMA FragmentConforms ==
    ASSUME NEW g \in FastGraph, Eligible(g)
    PROVE  /\ Targets(g) = {"A", "B"}
           /\ ShaclConforms(g) <=>
                ZoneShapes(g, "A") /\ ZoneShapes(g, "B") /\ ZoneAShapes(g)
  <1>1. Targets(g) = {"A", "B"}
    BY DEF Eligible, Targets, Zones
  <1> QED
    BY <1>1 DEF ShaclConforms, ZoneShapes, ZoneAShapes

(* Checking every zone of a graph of the fragment is validating it.         *)
LEMMA FullCheckAgrees ==
    ASSUME NEW g \in FastGraph, Eligible(g)
    PROVE  FastConformsAll(g) <=> ShaclConforms(g)
  <1>1. Targets(g) \cup {"A"} = {"A", "B"} /\ Targets(g) = {"A", "B"}
    BY FragmentConforms
  <1>2. FastConformsAll(g) <=> ZoneKernel(g, "A") /\ ZoneKernel(g, "B") /\ KernelZoneA(g)
    BY <1>1 DEF FastConformsAll, FastConforms, ZoneKernel
  <1> QED
    BY <1>2, ZoneAgrees, ZoneAAgrees, FragmentConforms

(* A preserving write stays in the fragment and leaves the other zone's     *)
(* shapes, and if it is not zone A's, zone A's own, as they were.           *)
LEMMA WriteIsLocal ==
    ASSUME NEW g \in FastGraph, NEW a \in Actions,
           Eligible(g), PreservedByWrite(Written(g, a), a)
    PROVE  LET h == Written(g, a)
           IN  /\ h \in FastGraph
               /\ Eligible(h)
               /\ a.slot[1] \in {"A", "B"}
               /\ \A z \in {"A", "B"} \ {a.slot[1]} : ZoneShapes(h, z) <=> ZoneShapes(g, z)
               /\ a.slot[1] # "A" => (ZoneAShapes(h) <=> ZoneAShapes(g))
  <1> DEFINE h == Written(g, a)
  <1>0. a.slot \in FastSlots /\ a.value \in Values
    BY BuildingConstants, IncrementalConstants
  <1>1. a.slot[2] \in ZoneProperties /\ a.slot[1] \in {"A", "B"}
    BY DEF PreservedByWrite, Zones
  <1>2. h \in FastGraph
    BY <1>0 DEF FastGraph, Written
  <1>3. \A s \in FastSlots : s # a.slot => h[s] = g[s]
    BY DEF FastGraph, Written
  <1> HIDE DEF h
  <1>4. /\ AnnexSlot \in FastSlots /\ AnnexSlot # a.slot
        /\ \A p \in ZoneProperties : <<"C", p>> \in FastSlots /\ <<"C", p>> # a.slot
    BY <1>1 DEF AnnexSlot, FastSlots, ZoneProperties
  <1>5. Eligible(h)
    BY <1>3, <1>4 DEF Eligible
  <1>6. ASSUME NEW z \in {"A", "B"}, z # a.slot[1]
        PROVE  /\ Setpoint(h, z) = Setpoint(g, z)
               /\ Vent(h, z) = Vent(g, z)
               /\ EmergencyState(h, z) = EmergencyState(g, z)
    <2>1. /\ <<z, "setpoint">> \in FastSlots /\ <<z, "setpoint">> # a.slot
          /\ <<z, "vent">> \in FastSlots /\ <<z, "vent">> # a.slot
          /\ <<z, "emergency">> \in FastSlots /\ <<z, "emergency">> # a.slot
      BY <1>6 DEF FastSlots
    <2> QED
      BY <1>3, <2>1 DEF Setpoint, Vent, EmergencyState
  <1>7. \A z \in {"A", "B"} \ {a.slot[1]} : ZoneShapes(h, z) <=> ZoneShapes(g, z)
    BY <1>6 DEF ZoneShapes, ZoneSetpointShape, ZoneVentilationShape, EmergencyStateShape,
                EmergencyVentLockShape
  <1>8. a.slot[1] # "A" => (ZoneAShapes(h) <=> ZoneAShapes(g))
    BY <1>6 DEF ZoneAShapes, ZoneAComfortCapShape, ZoneAEmergencyVentShape
  <1> QED
    BY <1>1, <1>2, <1>5, <1>7, <1>8 DEF h

(* Checking the written zone of such a write is validating the graph.       *)
LEMMA FocusedCheckAgrees ==
    ASSUME NEW g \in FastGraph, NEW a \in Actions,
           Eligible(g), ShaclConforms(g), PreservedByWrite(Written(g, a), a)
    PROVE  /\ Eligible(Written(g, a))
           /\ FastConformsZone(Written(g, a), a) <=> ShaclConforms(Written(g, a))
  <1> DEFINE h == Written(g, a)
  <1>1. /\ h \in FastGraph /\ Eligible(h)
        /\ a.slot[1] \in {"A", "B"}
        /\ \A z \in {"A", "B"} \ {a.slot[1]} : ZoneShapes(h, z) <=> ZoneShapes(g, z)
        /\ a.slot[1] # "A" => (ZoneAShapes(h) <=> ZoneAShapes(g))
    BY WriteIsLocal
  <1> HIDE DEF h
  <1>2. ZoneShapes(g, "A") /\ ZoneShapes(g, "B") /\ ZoneAShapes(g)
    BY FragmentConforms
  <1>3. /\ Targets(h) = {"A", "B"}
        /\ ShaclConforms(h) <=> ZoneShapes(h, "A") /\ ZoneShapes(h, "B") /\ ZoneAShapes(h)
    BY <1>1, FragmentConforms
  <1>4. FastConformsZone(h, a) <=>
          ZoneKernel(h, a.slot[1]) /\ (a.slot[1] = "A" => KernelZoneA(h))
    BY <1>1, <1>3 DEF FastConformsZone, FastConforms, ZoneKernel
  <1>5. FastConformsZone(h, a) <=>
          ZoneShapes(h, a.slot[1]) /\ (a.slot[1] = "A" => ZoneAShapes(h))
    BY <1>1, <1>4, ZoneAgrees, ZoneAAgrees
  <1>6. Eligible(h) /\ (FastConformsZone(h, a) <=> ShaclConforms(h))
    BY <1>1, <1>2, <1>3, <1>5
  <1> QED
    BY <1>6 DEF h

-----------------------------------------------------------------------------
(* The hypothesis of the theorems above holds of the building: the compiled *)
(* checker never passes what the shapes refuse, and its verdict on the      *)
(* written zone is theirs on the graph.                                     *)
THEOREM BuildingKernelSound ==
    ASSUME CompiledBuilding
    PROVE  KernelSound
  <1>1. R!Graph = FastGraph /\ \A g, a : R!Apply(g, a) = Written(g, a)
    BY BuildingConstants DEF R!Graph, R!Apply, FastGraph, Written
  <1>2. ASSUME NEW g \in R!Graph, FastEligible(g), FullCheck(g)
        PROVE  Admissible(g)
    BY <1>1, <1>2, FullCheckAgrees DEF CompiledBuilding
  <1>3. ASSUME NEW g \in R!Graph, NEW a \in Actions,
               FastEligible(g), Admissible(g), Preserves(R!Apply(g, a), a)
        PROVE  /\ FastEligible(R!Apply(g, a))
               /\ FocusedCheck(R!Apply(g, a), a) <=> Admissible(R!Apply(g, a))
    BY <1>1, <1>3, FocusedCheckAgrees DEF CompiledBuilding
  <1> QED
    BY <1>2, <1>3 DEF KernelSound

(* The working graph is a graph of the building, and a write in progress is *)
(* one write away from the graph it would be undone to.                     *)
LEMMA BuildingWrites ==
    ASSUME IInv
    PROVE  /\ work \in FastGraph
           /\ writing => /\ Action \in Actions
                         /\ Restored \in FastGraph
                         /\ work = Written(Restored, Action)
  <1>1. work \in FastGraph
    BY BuildingConstants DEF IInv, TypeOK, R!Graph, FastGraph
  <1>2. ASSUME writing
        PROVE  Restored \in FastGraph /\ work = Written(Restored, Action)
    BY <1>2, BuildingConstants, CurrentWriting
       DEF IInv, WriteInv, R!Graph, R!Apply, FastGraph, Written
  <1>3. ASSUME writing
        PROVE  Action \in Actions
    BY <1>3, ActionTyped DEF IInv, WriteInv
  <1> QED
    BY <1>1, <1>2, <1>3

(* The two claims of the compiled checker hold of every graph the invariant *)
(* admits.                                                                  *)
LEMMA ChecksAgree ==
    ASSUME IInv
    PROVE  KernelAgrees /\ FocusSuffices
  <1>1. KernelAgrees
    BY BuildingWrites, FullCheckAgrees DEF KernelAgrees
  <1>2. ASSUME writing, Eligible(Restored), ShaclConforms(Restored),
               PreservedByWrite(work, Action)
        PROVE  Eligible(work) /\ (FastConformsZone(work, Action) <=> ShaclConforms(work))
    BY <1>2, BuildingWrites, FocusedCheckAgrees
  <1> QED
    BY <1>1, <1>2 DEF FocusSuffices

(* On every graph the resolver works on, whatever the schedule and however  *)
(* many zones are at fault, the compiled checker gives the verdict of the   *)
(* reference validator as long as the graph is in its fragment.             *)
THEOREM KernelAlwaysAgrees ==
    ASSUME CompiledBuilding
    PROVE  Spec => []KernelAgrees
  <1>1. IInv => KernelAgrees
    BY ChecksAgree
  <1>2. KernelSound
    BY BuildingKernelSound
  <1> QED
    BY <1>1, <1>2, IncrementalInvariant, PTL

(* Whatever was written, checking the written zone is enough.               *)
THEOREM FocusAlwaysSuffices ==
    ASSUME CompiledBuilding
    PROVE  Spec => []FocusSuffices
  <1>1. IInv => FocusSuffices
    BY ChecksAgree
  <1>2. KernelSound
    BY BuildingKernelSound
  <1> QED
    BY <1>1, <1>2, IncrementalInvariant, PTL

(* Focused checks of the building are only made while the rest of the graph *)
(* conforms to the shapes and is in the fragment.                           *)
THEOREM BuildingFocus ==
    ASSUME CompiledBuilding
    PROVE  Spec => []FocusJustified
  BY BuildingKernelSound, IncrementalFocus

(* The building's in-place resolver with focused checks implements the      *)
(* cloning resolver with the full validator.                                *)
THEOREM BuildingRefinement ==
    ASSUME CompiledBuilding
    PROVE  Spec => ImplementsResolver
  BY BuildingKernelSound, IncrementalRefinement
=============================================================================
