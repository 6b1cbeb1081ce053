--------------------------- MODULE StepStoreDamage ---------------------------
(***************************************************************************)
(* The step store on a file system that damages the files of a committed   *)
(* step: what verify_current() notices, what it does not, and what         *)
(* recover() then deletes.  The damage is that of the repository's         *)
(* regression tests (truncated parent link, cycle, hollow snapshot,        *)
(* changed digest), a lost or altered state, and a change of any other     *)
(* field of a trace that the model has.                                    *)
(***************************************************************************)
EXTENDS StepStore, Naturals

CONSTANT Scenarios      \* bound: the kinds of damage, and how many files it hits

(* What nothing in the store compares: the ledger, what the trace says of   *)
(* its input graph, whether it has a snapshot.  (The ledger stands for the  *)
(* decisions too, which no reader of the store looks at.)                   *)
UnreadKinds == {"altered-ledger", "altered-input-graph", "dropped-snapshot"}

(* A link behind the head that leads nowhere, or to another step that       *)
(* produced the same graph: the walk goes on from there as if it were the   *)
(* parent.                                                                  *)
ShortcutKinds == {"cut-link", "skip-link"}

AllKinds == UnreadKinds \cup ShortcutKinds \cup
            {"lost-trace", "lost-state", "altered-state", "altered-digest", "altered-input",
             "hollow-snapshot", "head-link", "self-link", "wrong-link"}

ASSUME DamageConstants == Scenarios \subseteq [kinds : SUBSET AllKinds, files : Nat]

VARIABLES archive,      \* history: what the last commit of each step was to write
          scenario,     \* the damage of this behaviour
          damaged       \* how many files have been damaged

damageVars == <<vars, archive, scenario, damaged>>

DamageInit ==
    /\ Init
    /\ archive = [i \in StepId |-> None]
    /\ scenario \in Scenarios
    /\ damaged = 0

(* A step of the store; what a call commits is noted when CURRENT is        *)
(* switched to its step.                                                    *)
StoreStep ==
    /\ Next
    /\ archive' = IF current' = current THEN archive
                  ELSE [archive EXCEPT ![job.step] = [trace |-> job.trace, state |-> job.graph]]
    /\ UNCHANGED <<scenario, damaged>>

-----------------------------------------------------------------------------
(* The environment. *)

LoseTrace(i) ==
    /\ "lost-trace" \in scenario.kinds
    /\ traces' = [traces EXCEPT ![i] = None]
    /\ UNCHANGED states

LoseState(i) ==
    /\ "lost-state" \in scenario.kinds
    /\ states' = [states EXCEPT ![i] = None]
    /\ UNCHANGED traces

AlterState(i) ==
    /\ "altered-state" \in scenario.kinds
    /\ \E g \in Graphs \ {states[i]} : states' = [states EXCEPT ![i] = g]
    /\ UNCHANGED traces

AlterDigest(i) ==
    /\ "altered-digest" \in scenario.kinds /\ traces[i] # None
    /\ \E g \in Graphs \ {traces[i].successorDigest} :
           traces' = [traces EXCEPT ![i].successorDigest = g]
    /\ UNCHANGED states

(* The step's input digest, which the walk compares with the graph the      *)
(* parent produced: for a first step there is none.                         *)
AlterInput(i) ==
    /\ "altered-input" \in scenario.kinds /\ traces[i] # None
    /\ \E g \in Graphs \ {traces[i].inputDigest} :
           traces' = [traces EXCEPT ![i].inputDigest = g]
    /\ UNCHANGED states

AlterLedger(i) ==
    /\ "altered-ledger" \in scenario.kinds /\ traces[i] # None
    /\ \E l \in (Ledgers \cup {None}) \ {traces[i].ledger} :
           traces' = [traces EXCEPT ![i].ledger = l]
    /\ UNCHANGED states

(* What the trace says of its input graph. *)
AlterInputGraph(i) ==
    /\ "altered-input-graph" \in scenario.kinds /\ traces[i] # None
    /\ \E g \in (Graphs \cup {None}) \ {traces[i].inputGraph} :
           traces' = [traces EXCEPT ![i].inputGraph = g]
    /\ UNCHANGED states

(* The trace's embedded snapshot, where it has one, tells of another graph. *)
HollowSnapshot(i) ==
    /\ "hollow-snapshot" \in scenario.kinds /\ traces[i] # None /\ traces[i].successorGraph # None
    /\ \E g \in Graphs \ {traces[i].successorGraph} :
           traces' = [traces EXCEPT ![i].successorGraph = g]
    /\ UNCHANGED states

(* The embedded snapshot is gone. *)
DropSnapshot(i) ==
    /\ "dropped-snapshot" \in scenario.kinds /\ traces[i] # None /\ traces[i].successorGraph # None
    /\ traces' = [traces EXCEPT ![i].successorGraph = None]
    /\ UNCHANGED states

Relink(i, p) ==
    /\ traces[i] # None /\ traces[i].parent # p
    /\ traces' = [traces EXCEPT ![i].parent = p]
    /\ UNCHANGED states

(* The step CURRENT names, while no commit is in progress that would make   *)
(* it an earlier one.                                                       *)
IsHead(i) == i = current.step /\ writer \notin Staging

(* The parent link of the head is cut or redirected. *)
RelinkHead(i) ==
    /\ "head-link" \in scenario.kinds /\ IsHead(i)
    /\ \E p \in committed \cup {None} : Relink(i, p)

(* A trace names itself as its parent. *)
SelfLink(i) == "self-link" \in scenario.kinds /\ Relink(i, i)

(* The parent link of a step behind the head is cut. *)
CutLink(i) == "cut-link" \in scenario.kinds /\ ~IsHead(i) /\ Relink(i, None)

(* It leads to another step, which produced the graph this one starts from, *)
(* an earlier step among them.                                              *)
SkipLink(i) ==
    /\ "skip-link" \in scenario.kinds /\ ~IsHead(i) /\ traces[i] # None
    /\ \E p \in committed \ {i} :
         /\ archive[p].trace.successorDigest = traces[i].inputDigest
         /\ Relink(i, p)

(* It leads to a step that produced another graph. *)
WrongLink(i) ==
    /\ "wrong-link" \in scenario.kinds /\ ~IsHead(i) /\ traces[i] # None
    /\ \E p \in committed \ {i} :
         /\ archive[p].trace.successorDigest # traces[i].inputDigest
         /\ Relink(i, p)

Damage ==
    /\ damaged < scenario.files
    /\ damaged' = damaged + 1
    /\ \E i \in committed :
         \/ LoseTrace(i) \/ LoseState(i) \/ AlterState(i) \/ AlterDigest(i) \/ AlterInput(i)
         \/ AlterLedger(i) \/ AlterInputGraph(i) \/ HollowSnapshot(i) \/ DropSnapshot(i)
         \/ RelinkHead(i) \/ SelfLink(i) \/ CutLink(i) \/ SkipLink(i) \/ WrongLink(i)
    /\ UNCHANGED <<current, dirs, writer, job, keep, committed, archive, scenario>>

DamageNext == StoreStep \/ Damage

DamageSpec == DamageInit /\ [][DamageNext]_damageVars

-----------------------------------------------------------------------------
(* Properties. *)

(* The files of a step have what the store relies on: its state, the digest *)
(* and snapshot of it, its parent, and the input that parent produced.      *)
AsCommitted(i) ==
    LET was == archive[i].trace
    IN  /\ states[i] = archive[i].state
        /\ traces[i] # None
        /\ traces[i].successorDigest = was.successorDigest
        /\ traces[i].successorGraph \in {None, was.successorGraph}
        /\ traces[i].parent = was.parent
        /\ was.parent # None => traces[i].inputDigest = was.inputDigest

(* A store that verifies, one file of which may have been damaged, still    *)
(* has every step it ever committed, with the state, the link and the       *)
(* digests it was committed with: verify_current() notices such damage      *)
(* wherever it is on the chain, even when it happens between the checks of  *)
(* a call and its switch.  It does not notice a shortcut in the chain, nor  *)
(* what AsCommitted leaves out: the ledger, the input a first step names,   *)
(* what a trace says of its input graph, a dropped snapshot, and the        *)
(* decisions, which the model does not have.                                *)
DamageIsNoticed ==
    scenario.files = 1 /\ scenario.kinds \cap ShortcutKinds = {} /\ StoreVerifies =>
        \A i \in committed : AsCommitted(i)

(* Altered files do not cover for each other, nor for a cut link: no reader *)
(* of a store that verifies is given a state that was never committed.      *)
(* Every step left on the chain has the state it was last committed with,   *)
(* even if the cut made the store forget older steps.                       *)
StatesAreGenuine ==
    StoreVerifies => \A i \in Chain : i \in committed /\ states[i] = archive[i].state

(* "Committed history is never deleted": recovery, even of a store with a   *)
(* file damaged before or while it runs, removes no directory of a          *)
(* committed step.  The store falls short of it where a link behind the     *)
(* head is cut, or redirected to an earlier step that produced the same     *)
(* graph (the shortcuts).                                                   *)
HistoryNotDeleted ==
    [][scenario.files = 1 => committed \cap dirs \subseteq dirs']_damageVars
=============================================================================
