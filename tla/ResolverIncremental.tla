------------------------ MODULE ResolverIncremental ------------------------
(***************************************************************************)
(* The incremental resolver, src/resolver_incremental.py: the contract of  *)
(* Resolver on one working graph, which an action rewrites in place before *)
(* it is checked and which is put back when the check fails.  While the    *)
(* graph stays in the fragment the compiled checker supports, only the     *)
(* zone that was written is checked; any other write is checked by the     *)
(* reference validator.                                                    *)
(***************************************************************************)
EXTENDS Naturals, Sequences

CONSTANTS Slots, Values, Actions, Roles, Admissible(_), PolicyOK(_, _), Inputs,
          FastEligible(_),      \* the compiled checker is selected for this graph
          FullCheck(_),         \* its verdict on all zones
          FocusedCheck(_, _),   \* its verdict on the zone of an action
          Preserves(_, _)       \* a write stays in its fragment (checked on the written graph)

VARIABLES input,
          work,         \* current_graph, rewritten in place
          saved,        \* old_triples: the values the write in progress removed
          writing,      \* a write is in the graph and not yet checked
          focused,      \* use_incremental
          accepted, winner, decisions

incrementalVars == <<input, work, saved, writing, focused, accepted, winner, decisions>>

Turn == Len(decisions) + 1

Pending == Turn <= Len(input.schedule)

Action == input.schedule[Turn]

RoleActive == Action.role \in input.active

Shadowed == winner[Action.slot] # 0

(* The graph without the write in progress. *)
Restored == [work EXCEPT ![Action.slot] = (@ \ {Action.value}) \cup saved]

Current == IF writing THEN Restored ELSE work

(* The resolver it implements takes any input. *)
AnyInput == [graph : [Slots -> SUBSET Values], schedule : Seq(Actions), active : SUBSET Roles]

R == INSTANCE Resolver WITH current <- Current, Inputs <- AnyInput

ASSUME IncrementalConstants ==
    /\ \A a \in Actions : a.slot \in Slots /\ a.value \in Values /\ a.role \in Roles
    /\ \A in \in Inputs : in \in R!Input

-----------------------------------------------------------------------------
(* Mutant: the full check of the input is skipped. *)
InitUnchecked ==
    /\ input \in Inputs
    /\ work = input.graph
    /\ focused = FastEligible(input.graph)
    /\ saved = {}
    /\ writing = FALSE
    /\ accepted = {}
    /\ winner = [s \in Slots |-> 0]
    /\ decisions = <<>>

(* The focused check is used only if the whole graph passes the full one.   *)
Init ==
    /\ input \in Inputs
    /\ work = input.graph
    /\ focused = (FastEligible(input.graph) /\ FullCheck(input.graph))
    /\ saved = {}
    /\ writing = FALSE
    /\ accepted = {}
    /\ winner = [s \in Slots |-> 0]
    /\ decisions = <<>>

Decide(reason, g, h, blockedBy) ==
    decisions' = Append(decisions, [reason |-> reason, pre |-> g, post |-> h,
                                    blockedBy |-> blockedBy])

Reject(reason, blockedBy) ==
    /\ Decide(reason, work, work, blockedBy)
    /\ UNCHANGED <<input, work, saved, writing, focused, accepted, winner>>

RejectRole ==
    /\ ~writing /\ Pending /\ ~RoleActive
    /\ Reject("inactive_role", 0)

RejectPolicy ==
    /\ ~writing /\ Pending /\ RoleActive
    /\ ~PolicyOK(work, Action)
    /\ Reject("policy", 0)

RejectShadowed ==
    /\ ~writing /\ Pending /\ RoleActive /\ PolicyOK(work, Action)
    /\ Shadowed
    /\ Reject("shadowed", winner[Action.slot])

(* The write goes into the working graph. *)
Write ==
    /\ ~writing /\ Pending /\ RoleActive /\ PolicyOK(work, Action) /\ ~Shadowed
    /\ saved' = work[Action.slot]
    /\ work' = [work EXCEPT ![Action.slot] = {Action.value}]
    /\ writing' = TRUE
    /\ UNCHANGED <<input, focused, accepted, winner, decisions>>

UsesFast == focused /\ Preserves(work, Action)

Conforms == IF UsesFast THEN FocusedCheck(work, Action) ELSE Admissible(work)

(* The write stays; one outside the fragment ends focused checking.         *)
Keep ==
    /\ writing /\ Conforms
    /\ focused' = UsesFast
    /\ accepted' = accepted \cup {Turn}
    /\ winner' = [winner EXCEPT ![Action.slot] = Turn]
    /\ Decide("admissible", Restored, work, 0)
    /\ writing' = FALSE
    /\ saved' = {}
    /\ UNCHANGED <<input, work>>

(* Mutant: the old values are added again, the new one is not removed. *)
UndoKeepsWrite ==
    /\ writing /\ ~Conforms
    /\ work' = [work EXCEPT ![Action.slot] = @ \cup saved]
    /\ Decide("inadmissible", Restored, Restored, 0)
    /\ writing' = FALSE
    /\ saved' = {}
    /\ UNCHANGED <<input, focused, accepted, winner>>

(* The written triple is removed and the old ones are added again.          *)
Undo ==
    /\ writing /\ ~Conforms
    /\ work' = Restored
    /\ Decide("inadmissible", Restored, Restored, 0)
    /\ writing' = FALSE
    /\ saved' = {}
    /\ UNCHANGED <<input, focused, accepted, winner>>

Next == RejectRole \/ RejectPolicy \/ RejectShadowed \/ Write \/ Keep \/ Undo

Spec == Init /\ [][Next]_incrementalVars

-----------------------------------------------------------------------------
(* Properties. *)

TypeOK ==
    /\ input \in R!Input
    /\ work \in R!Graph
    /\ saved \in SUBSET Values
    /\ writing \in BOOLEAN /\ focused \in BOOLEAN
    /\ writing => Pending /\ Action.slot \in Slots
    /\ accepted \subseteq 1..Len(decisions)
    /\ winner \in [Slots -> 0..Len(decisions)]
    /\ decisions \in Seq(R!Decision)

(* Focused checks are only ever made against a graph whose other zones are  *)
(* known to be admissible and in the fragment.                              *)
FocusJustified == focused => Admissible(Current) /\ FastEligible(Current)

(* The incremental resolver makes the decisions of the cloning resolver and *)
(* returns its successor, for every schedule and every start, valid or not. *)
ImplementsResolver == R!Spec
=============================================================================
