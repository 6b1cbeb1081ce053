------------------------ MODULE StepStoreDamageProofs ------------------------
(***************************************************************************)
(* Theorems about the step store on a file system that damages files, for  *)
(* any graphs, windows, ledgers, submissions and scenarios.                *)
(*                                                                         *)
(* Two invariants.  However many files are damaged, but for input digests  *)
(* and redirected links, the steps the store can still be read from hold   *)
(* what they were committed with (GenuineInv).  If it is one file and not  *)
(* a shortcut, what CURRENT ever named is the history the archive tells    *)
(* of, and at most one step of it differs from the files in what the store *)
(* relies on, in a way verify_current() meets (ShadowInv).                 *)
(***************************************************************************)
EXTENDS StepStoreDamage, StepStoreProofs

(* What the archive notes of a step. *)
Artefacts == [trace : Trace, state : Graphs]

DamageTypeOK ==
    /\ TypeOK
    /\ archive \in [StepId -> Artefacts \cup {None}]
    /\ scenario \in Scenarios
    /\ damaged \in Nat /\ damaged <= scenario.files

-----------------------------------------------------------------------------
(* Any number of damaged files. *)

(* The kinds of damage by which a step comes to start from another graph,   *)
(* or from another step.                                                    *)
ForgingKinds == {"altered-input", "skip-link", "wrong-link"}

NotForged == scenario.kinds \cap ForgingKinds = {}

(* The parent a step is linked to: CURRENT has the link of its own step.    *)
Linked(cur, tr, i) == i = cur.step \/ tr[i] # None

Link(cur, tr, i) == IF i = cur.step THEN cur.parent ELSE tr[i].parent

LinkClosed(cur, tr, S) ==
    \A i \in S : Linked(cur, tr, i) => Link(cur, tr, i) \in S \cup {None}

(* The steps reached from CURRENT over those links.                         *)
Live(cur, tr) ==
    IF cur = None THEN {}
    ELSE {i \in StepId : \A S \in SUBSET StepId :
                             cur.step \in S /\ LinkClosed(cur, tr, S) => i \in S}

(* CURRENT tells of a committed step, and what its state was.               *)
PointerInv ==
    current # None =>
        /\ current.step \in committed
        /\ current.parent \in committed \cup {None}
        /\ archive[current.step] \in Artefacts
        /\ archive[current.step].state = current.successorDigest

(* Every trace names a committed parent, and the input of its identifier.   *)
TracesInv ==
    \A i \in committed : traces[i] # None =>
        /\ traces[i].parent \in committed \cup {None}
        /\ traces[i].inputDigest = i[1]

(* The parent of a live step was last committed with the state the step     *)
(* starts from, unless the link is cut or leads to the step itself.         *)
StartsFrom(cur, tr, arch, i) ==
    Linked(cur, tr, i) /\ Link(cur, tr, i) \notin {None, i} =>
        /\ arch[Link(cur, tr, i)] \in Artefacts
        /\ arch[Link(cur, tr, i)].state = i[1]

LinksInv == \A i \in Live(current, traces) : StartsFrom(current, traces, archive, i)

(* The step of a call is not a live one and extends the step CURRENT names, *)
(* whose trace was found to have the link of CURRENT.                       *)
CallInv ==
    writer \in Staging =>
        /\ job.step \notin Live(current, traces)
        /\ job.trace.inputDigest = job.step[1]
        /\ job.trace.parent = ParentOfNext
        /\ writer # "trace" /\ job.step \notin committed => traces[job.step] = job.trace
        /\ current # None =>
             /\ current.successorDigest = job.step[1]
             /\ traces[current.step] # None =>
                  traces[current.step].parent \in {None, current.step, current.parent}

(* Recovery keeps every live step. *)
SweepInv == writer = "sweep" => Live(current, traces) \subseteq keep

GenuineInv ==
    DamageTypeOK /\ NotForged /\ PointerInv /\ TracesInv /\ LinksInv /\ CallInv /\ SweepInv

-----------------------------------------------------------------------------
(* One damaged file, and not a shortcut. *)

OneFile == scenario.files = 1 /\ scenario.kinds \cap ShortcutKinds = {}

Archived(i) == archive[i].trace

(* The committed steps as the archive tells of them.                        *)
ArchiveInv ==
    /\ committed = {} <=> current = None
    /\ current # None =>
         /\ current.step \in committed
         /\ archive[current.step].state = current.successorDigest
         /\ Archived(current.step).parent = current.parent
         /\ \E i \in committed : Archived(i).parent = None
    /\ \A i \in committed :
         /\ i \in dirs
         /\ archive[i] \in Artefacts
         /\ Archived(i).successorDigest = archive[i].state
         /\ Archived(i).successorGraph \in {None, archive[i].state}
         /\ Archived(i).inputDigest = i[1]
         /\ Archived(i).inputGraph \in {None, i[1]}
         /\ Archived(i).parent # None =>
              /\ Archived(i).parent \in committed
              /\ Archived(Archived(i).parent).successorDigest = Archived(i).inputDigest

(* No set closed under the archived links misses a committed step.          *)
ReachArchived ==
    current # None =>
        \A S \in SUBSET StepId :
            /\ current.step \in S
            /\ \A i \in S \cap committed : Archived(i).parent \in S \cup {None}
            => committed \subseteq S

(* The steps from CURRENT down to a committed one, each but that one linked *)
(* to another of them.                                                      *)
Reaches(S, i) ==
    /\ S \subseteq committed
    /\ current.step \in S /\ i \in S
    /\ \A j \in S \ {i} : Archived(j).parent \in S

PathInv == \A i \in committed : \E S \in SUBSET StepId : Reaches(S, i)

(* The ways a file of a step differs from what was committed that the store *)
(* relies on: the last but one is a link to a step that did not produce the *)
(* graph the trace starts from.                                             *)
Differs(i) ==
    \/ traces[i] = None
    \/ traces[i].parent = Archived(i).parent /\ ~StepVerifies(i)
    \/ i = current.step /\ writer \notin Staging /\ traces[i].parent # current.parent
    \/ /\ traces[i].parent \in committed \ {i}
       /\ Archived(traces[i].parent).successorDigest # traces[i].inputDigest
    \/ traces[i].parent = i /\ Archived(i).parent # i

(* Every artefact of the step is as it was committed.                       *)
Untouched(i) == archive[i] = [trace |-> traces[i], state |-> states[i]]

DamageInv ==
    \/ damaged = 0 /\ \A i \in committed : Untouched(i)
    \/ /\ damaged = 1
       /\ \E d \in committed :
            /\ Differs(d) \/ AsCommitted(d)
            /\ \A i \in committed \ {d} : Untouched(i)

ShadowInv ==
    /\ DamageTypeOK
    /\ OneFile => ArchiveInv /\ ReachArchived /\ PathInv /\ JobInv /\ KeepInv /\ DamageInv

-----------------------------------------------------------------------------
(* What damage does to the files. *)

(* The file of one committed step is damaged in one of the ways.            *)
Hits(d) ==
    \/ LoseTrace(d) \/ LoseState(d) \/ AlterState(d) \/ AlterDigest(d) \/ AlterInput(d)
    \/ AlterLedger(d) \/ AlterInputGraph(d) \/ HollowSnapshot(d) \/ DropSnapshot(d)
    \/ RelinkHead(d) \/ SelfLink(d) \/ CutLink(d) \/ SkipLink(d) \/ WrongLink(d)

(* A parent link changes to the step itself, to none, or, outside a commit, *)
(* from the step CURRENT names to any committed one.                        *)
NewParent(d, p) ==
    \/ p = traces[d].parent
    \/ p = d /\ p # traces[d].parent
    \/ p = None
    \/ /\ p \in committed \cup {None} /\ p # traces[d].parent
       /\ d = current.step /\ writer \notin Staging

(* A trace that is present is a trace.                                      *)
LEMMA TraceTyped ==
    ASSUME DamageTypeOK, NEW d \in committed, traces[d] # None
    PROVE  traces[d] \in Trace
  BY DEF DamageTypeOK, TypeOK

(* Another parent link. *)
LEMMA RelinkHits ==
    ASSUME DamageTypeOK, NEW d \in committed, NEW p \in StepId \cup {None}, Relink(d, p)
    PROVE  /\ states' = states
           /\ traces[d] # None /\ traces'[d] \in Trace
           /\ traces' = [traces EXCEPT ![d] = traces'[d]]
           /\ traces'[d].inputDigest = traces[d].inputDigest
           /\ traces'[d].parent = p /\ p # traces[d].parent
  <1>1. traces[d] \in Trace /\ traces \in [StepId -> Trace \cup {None}] /\ d \in StepId
    BY TraceTyped DEF DamageTypeOK, TypeOK, Relink
  <1>2. traces' = [traces EXCEPT ![d] = [traces[d] EXCEPT !.parent = p]]
    BY DEF Relink
  <1>3. [traces[d] EXCEPT !.parent = p] \in Trace
    BY <1>1 DEF Trace
  <1> QED
    BY <1>1, <1>2, <1>3 DEF Relink, Trace

(* Another field of the trace. *)
LEMMA FieldHits ==
    ASSUME DamageTypeOK, NEW d \in committed, traces[d] # None, states' = states,
           NEW t \in Trace, t.parent = traces[d].parent,
           traces' = [traces EXCEPT ![d] = t]
    PROVE  /\ traces' = [traces EXCEPT ![d] = traces'[d]]
           /\ states' = [states EXCEPT ![d] = states'[d]]
           /\ traces'[d] \in Trace \cup {None} /\ states'[d] \in Graphs \cup {None}
           /\ traces'[d] = t /\ NewParent(d, traces'[d].parent)
  BY DEF DamageTypeOK, TypeOK, NewParent

(* Damage reaches the files of one step, and keeps its input digest and,    *)
(* but for cuts and the head, its link, where it is not of the forging      *)
(* kinds.                                                                   *)
LEMMA HitsEffect ==
    ASSUME DamageTypeOK, NEW d \in committed, Hits(d)
    PROVE  /\ traces' = [traces EXCEPT ![d] = traces'[d]]
           /\ states' = [states EXCEPT ![d] = states'[d]]
           /\ traces'[d] \in Trace \cup {None} /\ states'[d] \in Graphs \cup {None}
           /\ traces'[d] # None => traces[d] # None
           /\ NotForged /\ traces'[d] # None =>
                /\ traces'[d].inputDigest = traces[d].inputDigest
                /\ NewParent(d, traces'[d].parent)
  <1>1. /\ traces \in [StepId -> Trace \cup {None}]
        /\ states \in [StepId -> Graphs \cup {None}]
        /\ d \in StepId /\ committed \subseteq StepId
    BY DEF DamageTypeOK, TypeOK
  <1>2. CASE LoseTrace(d)
    BY <1>1, <1>2 DEF LoseTrace
  <1>3. CASE LoseState(d) \/ AlterState(d)
    BY <1>1, <1>3 DEF LoseState, AlterState, NewParent
  <1>4. CASE AlterDigest(d)
    <2>1. PICK g \in Graphs : traces' = [traces EXCEPT ![d].successorDigest = g]
      BY <1>4 DEF AlterDigest
    <2>2. traces[d] \in Trace /\ states' = states /\ traces[d] # None
      BY <1>4, TraceTyped DEF AlterDigest
    <2> DEFINE t == [traces[d] EXCEPT !.successorDigest = g]
    <2>3. t \in Trace /\ t.parent = traces[d].parent /\ t.inputDigest = traces[d].inputDigest
      BY <2>2 DEF Trace
    <2>4. traces' = [traces EXCEPT ![d] = t]
      BY <2>1
    <2> HIDE DEF t
    <2> QED
      BY <2>2, <2>3, <2>4, FieldHits
  <1>5. CASE HollowSnapshot(d) \/ DropSnapshot(d)
    <2>1. PICK g \in Graphs \cup {None} : traces' = [traces EXCEPT ![d].successorGraph = g]
      BY <1>5 DEF HollowSnapshot, DropSnapshot
    <2>2. traces[d] \in Trace /\ states' = states /\ traces[d] # None
      BY <1>5, TraceTyped DEF HollowSnapshot, DropSnapshot
    <2> DEFINE t == [traces[d] EXCEPT !.successorGraph = g]
    <2>3. t \in Trace /\ t.parent = traces[d].parent /\ t.inputDigest = traces[d].inputDigest
      BY <2>2 DEF Trace
    <2>4. traces' = [traces EXCEPT ![d] = t]
      BY <2>1
    <2> HIDE DEF t
    <2> QED
      BY <2>2, <2>3, <2>4, FieldHits
  <1>6. CASE AlterInput(d)
    <2>1. PICK g \in Graphs : traces' = [traces EXCEPT ![d].inputDigest = g]
      BY <1>6 DEF AlterInput
    <2>2. traces[d] \in Trace /\ states' = states /\ traces[d] # None /\ ~NotForged
      BY <1>6, TraceTyped DEF AlterInput, NotForged, ForgingKinds
    <2> DEFINE t == [traces[d] EXCEPT !.inputDigest = g]
    <2>3. t \in Trace /\ t.parent = traces[d].parent
      BY <2>2 DEF Trace
    <2>4. traces' = [traces EXCEPT ![d] = t]
      BY <2>1
    <2> HIDE DEF t
    <2> QED
      BY <2>2, <2>3, <2>4, FieldHits
  <1>7. CASE AlterLedger(d)
    <2>1. PICK l \in Ledgers \cup {None} : traces' = [traces EXCEPT ![d].ledger = l]
      BY <1>7 DEF AlterLedger
    <2>2. traces[d] \in Trace /\ states' = states /\ traces[d] # None
      BY <1>7, TraceTyped DEF AlterLedger
    <2> DEFINE t == [traces[d] EXCEPT !.ledger = l]
    <2>3. t \in Trace /\ t.parent = traces[d].parent /\ t.inputDigest = traces[d].inputDigest
      BY <2>2 DEF Trace
    <2>4. traces' = [traces EXCEPT ![d] = t]
      BY <2>1
    <2> HIDE DEF t
    <2> QED
      BY <2>2, <2>3, <2>4, FieldHits
  <1>8. CASE AlterInputGraph(d)
    <2>1. PICK g \in Graphs \cup {None} : traces' = [traces EXCEPT ![d].inputGraph = g]
      BY <1>8 DEF AlterInputGraph
    <2>2. traces[d] \in Trace /\ states' = states /\ traces[d] # None
      BY <1>8, TraceTyped DEF AlterInputGraph
    <2> DEFINE t == [traces[d] EXCEPT !.inputGraph = g]
    <2>3. t \in Trace /\ t.parent = traces[d].parent /\ t.inputDigest = traces[d].inputDigest
      BY <2>2 DEF Trace
    <2>4. traces' = [traces EXCEPT ![d] = t]
      BY <2>1
    <2> HIDE DEF t
    <2> QED
      BY <2>2, <2>3, <2>4, FieldHits
  <1>9. CASE RelinkHead(d)
    <2>1. PICK p \in committed \cup {None} : Relink(d, p)
      BY <1>9 DEF RelinkHead
    <2> QED
      BY <1>1, <1>9, <2>1, RelinkHits DEF RelinkHead, IsHead, NewParent
  <1>10. CASE SelfLink(d)
    BY <1>1, <1>10, RelinkHits DEF SelfLink, NewParent
  <1>11. CASE CutLink(d)
    BY <1>1, <1>11, RelinkHits DEF CutLink, NewParent
  <1>12. CASE SkipLink(d) \/ WrongLink(d)
    <2>1. PICK p \in committed : Relink(d, p)
      BY <1>12 DEF SkipLink, WrongLink
    <2>2. ~NotForged
      BY <1>12 DEF SkipLink, WrongLink, NotForged, ForgingKinds
    <2> QED
      BY <1>1, <2>1, <2>2, RelinkHits
  <1> QED
    BY <1>2, <1>3, <1>4, <1>5, <1>6, <1>7, <1>8, <1>9, <1>10, <1>11, <1>12 DEF Hits

(* Damage leaves all else as it is, and is counted.                         *)
LEMMA DamageUnchanged ==
    ASSUME Damage
    PROVE  /\ UNCHANGED <<current, dirs, writer, job, keep, committed, archive, scenario>>
           /\ damaged < scenario.files /\ damaged' = damaged + 1
           /\ \E d \in committed : Hits(d)
  BY DEF Damage, Hits

-----------------------------------------------------------------------------
(* Types. *)

(* Only the switch moves CURRENT, and then the archive notes the call.      *)
LEMMA ArchiveStep ==
    ASSUME StoreStep
    PROVE  /\ ~SwitchPointer => current' = current
           /\ current' = current => archive' = archive
           /\ current' # current =>
                archive' = [archive EXCEPT ![job.step] = [trace |-> job.trace, state |-> job.graph]]
           /\ UNCHANGED <<scenario, damaged>>
  BY DEF StoreStep, Next, Write, Recovery, BeginCommit, WriteTrace, WriteState, BeginRecover,
         SweepTrace, SweepState, SweepDir, EndRecover, Crash, files

(* Every step, of the store or of the damage, keeps the types.              *)
LEMMA DamageTypeStep ==
    ASSUME DamageTypeOK, [DamageNext]_damageVars
    PROVE  DamageTypeOK'
  <1>1. CASE StoreStep
    <2>1. TypeOK'
      BY <1>1, TypeStep DEF StoreStep, DamageTypeOK
    <2>2. archive' \in [StepId -> Artefacts \cup {None}]
      <3>1. CASE current' = current
        BY <1>1, <3>1, ArchiveStep DEF DamageTypeOK
      <3>2. CASE current' # current
        <4>1. job.step \in StepId /\ job.trace \in Trace /\ job.graph \in Graphs
          BY <1>1, <3>2, ArchiveStep, JobPresent DEF SwitchPointer, Staging, DamageTypeOK
        <4>2. [trace |-> job.trace, state |-> job.graph] \in Artefacts
          BY <4>1 DEF Artefacts
        <4> QED
          BY <1>1, <3>2, <4>1, <4>2, ArchiveStep DEF DamageTypeOK
      <3> QED
        BY <3>1, <3>2
    <2> QED
      BY <1>1, <2>1, <2>2, ArchiveStep DEF DamageTypeOK
  <1>2. CASE Damage
    <2>1. PICK d \in committed : Hits(d)
      BY <1>2, DamageUnchanged
    <2>2. d \in StepId /\ traces' \in [StepId -> Trace \cup {None}]
          /\ states' \in [StepId -> Graphs \cup {None}]
      BY <2>1, HitsEffect DEF DamageTypeOK, TypeOK
    <2>3. TypeOK'
      BY <1>2, <2>2, DamageUnchanged DEF DamageTypeOK, TypeOK
    <2>4. damaged' \in Nat /\ damaged' <= scenario'.files
      <3>1. scenario.files \in Nat
        BY DamageConstants DEF DamageTypeOK
      <3> QED
        BY <1>2, <3>1, DamageUnchanged DEF DamageTypeOK
    <2> QED
      BY <1>2, <2>3, <2>4, DamageUnchanged DEF DamageTypeOK
  <1>3. CASE UNCHANGED damageVars
    BY <1>3, TypeStep DEF DamageTypeOK, damageVars
  <1> QED
    BY <1>1, <1>2, <1>3 DEF DamageNext

-----------------------------------------------------------------------------
(* The live steps. *)

(* The live steps hold the current one and follow their links.              *)
LEMMA LiveClosed ==
    ASSUME NEW cur \in Pointer, NEW tr \in [StepId -> Trace \cup {None}]
    PROVE  /\ Live(cur, tr) \subseteq StepId
           /\ cur.step \in Live(cur, tr)
           /\ LinkClosed(cur, tr, Live(cur, tr))
  <1>1. cur # None /\ cur.step \in StepId
    BY StoreConstants DEF Pointer
  <1>2. \A i : i \in Live(cur, tr) <=>
          i \in StepId /\ \A S \in SUBSET StepId :
                            cur.step \in S /\ LinkClosed(cur, tr, S) => i \in S
    BY <1>1 DEF Live
  <1>3. ASSUME NEW i \in Live(cur, tr), Linked(cur, tr, i), Link(cur, tr, i) # None
        PROVE  Link(cur, tr, i) \in Live(cur, tr)
    <2>1. Link(cur, tr, i) \in StepId
      BY <1>2, <1>3 DEF Link, Linked, Pointer, Trace
    <2>2. ASSUME NEW S \in SUBSET StepId, cur.step \in S, LinkClosed(cur, tr, S)
          PROVE  Link(cur, tr, i) \in S
      <3>1. i \in S
        BY <1>2, <2>2
      <3> QED
        BY <1>3, <2>2, <3>1 DEF LinkClosed
    <2> QED
      BY <1>2, <2>1, <2>2
  <1>4. LinkClosed(cur, tr, Live(cur, tr))
    BY <1>3 DEF LinkClosed
  <1> QED
    BY <1>1, <1>2, <1>4

(* They are the least such set.                                             *)
LEMMA LiveLeast ==
    ASSUME NEW cur \in Pointer, NEW tr, NEW S \in SUBSET StepId,
           cur.step \in S, LinkClosed(cur, tr, S)
    PROVE  Live(cur, tr) \subseteq S
  BY StoreConstants DEF Live

(* Links that are cut, or lead back to their own step, reach no further.    *)
LEMMA LiveShrinks ==
    ASSUME NEW cur \in Pointer \cup {None},
           NEW tr \in [StepId -> Trace \cup {None}], NEW tt \in [StepId -> Trace \cup {None}],
           \A i \in Live(cur, tr) : i # cur.step /\ tt[i] # None =>
               tr[i] # None /\ tt[i].parent \in {None, i, tr[i].parent}
    PROVE  Live(cur, tt) \subseteq Live(cur, tr)
  <1>1. CASE cur = None
    BY <1>1 DEF Live
  <1>2. CASE cur \in Pointer
    <2>1. LinkClosed(cur, tt, Live(cur, tr))
      BY <1>2, LiveClosed DEF LinkClosed, Linked, Link
    <2> QED
      BY <1>2, <2>1, LiveClosed, LiveLeast
  <1> QED
    BY <1>1, <1>2

(* A store that verifies is read along the live steps. *)
LEMMA ChainLive ==
    ASSUME TypeOK, StoreVerifies
    PROVE  Chain = Live(current, traces)
  <1>1. CASE current = None
    BY <1>1 DEF Chain, Live
  <1>2. CASE current # None
    <2>1. current.step \in Chain
      BY <1>2 DEF Chain, TypeOK, Pointer
    <2>2. traces[current.step] # None /\ traces[current.step].parent = current.parent
      BY <1>2, <2>1 DEF StoreVerifies, Intact
    <2>3. \A S \in SUBSET StepId :
            current.step \in S => (ParentClosed(S) <=> LinkClosed(current, traces, S))
      BY <2>2 DEF ParentClosed, LinkClosed, Linked, Link
    <2> QED
      BY <1>2, <2>3 DEF Chain, Live
  <1> QED
    BY <1>1, <1>2

-----------------------------------------------------------------------------
(* Any number of damaged files: each step keeps the invariant. *)

(* CURRENT and the archive stay, and live links are kept, cut or looped.    *)
LEMMA LinksKept ==
    ASSUME GenuineInv, TypeOK', UNCHANGED <<current, archive>>,
           \A i \in Live(current, traces) : i # current.step /\ traces'[i] # None =>
               traces[i] # None /\ traces'[i].parent \in {None, i, traces[i].parent}
    PROVE  Live(current', traces') \subseteq Live(current, traces) /\ LinksInv'
  <1>1. /\ current \in Pointer \cup {None}
        /\ traces \in [StepId -> Trace \cup {None}]
        /\ traces' \in [StepId -> Trace \cup {None}]
    BY DEF GenuineInv, DamageTypeOK, TypeOK
  <1>2. Live(current, traces') \subseteq Live(current, traces)
    BY <1>1, LiveShrinks
  <1>3. ASSUME NEW i \in Live(current, traces')
        PROVE  StartsFrom(current, traces', archive, i)
    <2>1. StartsFrom(current, traces, archive, i)
      BY <1>2, <1>3 DEF GenuineInv, LinksInv
    <2> QED
      BY <1>2, <1>3, <2>1 DEF StartsFrom, Linked, Link
  <1> QED
    BY <1>2, <1>3 DEF LinksInv

(* Steps that write no trace and do not move CURRENT. *)
LEMMA TracesLeft ==
    ASSUME GenuineInv, TypeOK', UNCHANGED <<current, archive, traces, committed>>
    PROVE  PointerInv' /\ TracesInv' /\ LinksInv'
           /\ Live(current', traces') = Live(current, traces)
  BY LinksKept DEF GenuineInv, PointerInv, TracesInv

(* The checks of a call are made on a store that verifies. *)
LEMMA BeginGenuine ==
    ASSUME GenuineInv, TypeOK', NEW s \in Submissions, BeginCommit(s),
           UNCHANGED archive
    PROVE  PointerInv' /\ TracesInv' /\ LinksInv' /\ CallInv' /\ SweepInv'
  <1>1. UNCHANGED <<current, archive, traces, committed>> /\ writer' = "trace"
        /\ job' = [step |-> StepOf(s), graph |-> s.graph, trace |-> TraceOf(s)]
    BY DEF BeginCommit
  <1>2. Chain = Live(current, traces)
    BY ChainLive DEF BeginCommit, Accepts, GenuineInv, DamageTypeOK
  <1>3. StepOf(s) \notin Live(current, traces)
    BY <1>2 DEF BeginCommit, Accepts, IsDuplicate
  <1>4. StepOf(s)[1] = s.input /\ (current # None => current.successorDigest = s.input)
    BY DEF BeginCommit, Accepts, ExtendsCurrent, StepOf
  <1>5. current # None => traces[current.step].parent = current.parent
    BY DEF BeginCommit, Accepts, StoreVerifies, Intact
  <1>6. ParentOfNext' = ParentOfNext
    BY <1>1 DEF ParentOfNext
  <1>7. CallInv'
    BY <1>1, <1>3, <1>4, <1>5, <1>6 DEF CallInv, TraceOf
  <1> QED
    BY <1>1, <1>7, TracesLeft DEF SweepInv

(* A trace is written for a step that is not live. *)
LEMMA WriteTraceGenuine ==
    ASSUME GenuineInv, TypeOK', WriteTrace, UNCHANGED archive
    PROVE  PointerInv' /\ TracesInv' /\ LinksInv' /\ CallInv' /\ SweepInv'
  <1>1. /\ UNCHANGED <<current, archive, committed, job>>
        /\ writer = "trace" /\ writer' = "state"
        /\ traces' = [traces EXCEPT ![job.step] = job.trace]
    BY DEF WriteTrace
  <1>2. /\ job.step \in StepId /\ traces \in [StepId -> Trace \cup {None}]
        /\ job.step \notin Live(current, traces)
        /\ committed \subseteq StepId
    BY <1>1, JobPresent DEF GenuineInv, DamageTypeOK, CallInv, TypeOK, Staging
  <1>3. traces'[job.step] = job.trace /\ \A i \in StepId \ {job.step} : traces'[i] = traces[i]
    BY <1>1, <1>2
  <1>4. Live(current, traces) \subseteq StepId
    BY DEF Live
  <1>5. Live(current', traces') \subseteq Live(current, traces) /\ LinksInv'
    BY <1>1, <1>2, <1>3, <1>4, LinksKept
  <1>6. ParentOfNext \in committed \cup {None}
    BY DEF ParentOfNext, GenuineInv, PointerInv
  <1>7. /\ job.trace.inputDigest = job.step[1]
        /\ job.trace.parent = ParentOfNext
    BY <1>1 DEF GenuineInv, CallInv, Staging
  <1>8. TracesInv'
    BY <1>1, <1>2, <1>3, <1>6, <1>7 DEF GenuineInv, TracesInv
  <1>9. current # None => current.step \in Live(current, traces)
    BY LiveClosed DEF GenuineInv, DamageTypeOK, TypeOK
  <1>10. current # None =>
          /\ current.successorDigest = job.step[1]
          /\ traces'[current.step] # None =>
               traces'[current.step].parent \in {None, current.step, current.parent}
    BY <1>1, <1>2, <1>3, <1>4, <1>9 DEF GenuineInv, CallInv, Staging
  <1>11. ParentOfNext' = ParentOfNext
    BY <1>1 DEF ParentOfNext
  <1>12. CallInv'
    BY <1>1, <1>2, <1>3, <1>5, <1>7, <1>10, <1>11 DEF CallInv
  <1>13. PointerInv' /\ SweepInv'
    BY <1>1 DEF GenuineInv, PointerInv, SweepInv
  <1> QED
    BY <1>5, <1>8, <1>12, <1>13

(* The switch makes the step of the call the head of the live ones. *)
LEMMA SwitchGenuine ==
    ASSUME GenuineInv, TypeOK', SwitchPointer,
           archive' = [archive EXCEPT ![job.step] = [trace |-> job.trace, state |-> job.graph]]
    PROVE  PointerInv' /\ TracesInv' /\ LinksInv' /\ CallInv' /\ SweepInv'
  <1> DEFINE n == job.step
             L == Live(current, traces)
  <1>1. /\ current' = [step |-> n, successorDigest |-> job.graph, parent |-> job.trace.parent]
        /\ committed' = committed \cup {n} /\ UNCHANGED traces
        /\ writer = "pointer" /\ writer' = "idle"
    BY DEF SwitchPointer
  <1>2. /\ n \in StepId /\ n \notin L
        /\ job.trace \in Trace /\ job.graph \in Graphs
        /\ job.trace.inputDigest = n[1]
        /\ job.trace.parent = ParentOfNext
        /\ n \notin committed => traces[n] = job.trace
    BY <1>1, JobPresent DEF GenuineInv, DamageTypeOK, CallInv, Staging
  <1>3. /\ current' \in Pointer
        /\ current \in Pointer \cup {None}
        /\ traces \in [StepId -> Trace \cup {None}]
    <2>1. job.trace.parent \in StepId \cup {None}
      BY <1>2 DEF Trace
    <2> QED
      BY <1>1, <1>2, <2>1 DEF GenuineInv, DamageTypeOK, TypeOK, Pointer
  <1>4. current # None =>
          /\ current.step \in L /\ current.parent \in L \cup {None}
          /\ current.step \in committed /\ archive[current.step] \in Artefacts
          /\ archive[current.step].state = n[1]
          /\ traces[current.step] # None =>
               traces[current.step].parent \in {None, current.step, current.parent}
    <2>1. ASSUME current # None
          PROVE  current.step \in L /\ current.parent \in L \cup {None}
      BY <1>3, <2>1, LiveClosed DEF LinkClosed, Linked, Link
    <2> QED
      BY <1>1, <2>1 DEF GenuineInv, PointerInv, CallInv, Staging
  <1>5. ParentOfNext \in (L \cap committed) \cup {None}
    BY <1>4 DEF ParentOfNext
  <1>6. ASSUME NEW i \in L, traces[i] # None, traces[i].parent \notin {None, i}
        PROVE  /\ traces[i].parent \in L
               /\ archive[traces[i].parent] \in Artefacts
               /\ archive[traces[i].parent].state = i[1]
    <2>1. current # None
      BY <1>6 DEF Live
    <2>2. LinkClosed(current, traces, L)
      BY <1>3, <2>1, LiveClosed
    <2>3. StartsFrom(current, traces, archive, i)
      BY <1>6 DEF GenuineInv, LinksInv
    <2>4. CASE i = current.step
      BY <1>4, <1>6, <2>1, <2>3, <2>4 DEF StartsFrom, Linked, Link
    <2>5. CASE i # current.step
      BY <1>6, <2>2, <2>3, <2>5 DEF StartsFrom, Linked, Link, LinkClosed
    <2> QED
      BY <2>4, <2>5
  <1>7. \A i \in L : archive'[i] = archive[i]
    <2>1. L \subseteq StepId /\ archive \in [StepId -> Artefacts \cup {None}]
      BY DEF Live, GenuineInv, DamageTypeOK
    <2> QED
      BY <1>2, <2>1
  <1>8. archive'[n] = [trace |-> job.trace, state |-> job.graph] /\ archive'[n] \in Artefacts
    BY <1>2 DEF GenuineInv, DamageTypeOK, Artefacts
  <1>9. Live(current', traces') \subseteq L \cup {n}
    <2>1. L \cup {n} \subseteq StepId
      BY <1>2 DEF Live
    <2>2. LinkClosed(current', traces, L \cup {n})
      <3>1. current'.step = n /\ current'.parent \in L \cup {None}
        BY <1>1, <1>2, <1>5
      <3>2. \A i \in L : traces[i] # None => traces[i].parent \in L \cup {i, None}
        BY <1>6
      <3> QED
        BY <1>2, <3>1, <3>2 DEF LinkClosed, Linked, Link
    <2> QED
      BY <1>1, <1>3, <2>1, <2>2, LiveLeast
  <1>10. StartsFrom(current', traces', archive', n)
    <2>1. current'.step = n /\ current'.parent = ParentOfNext
      BY <1>1, <1>2
    <2>2. ParentOfNext # None => archive'[ParentOfNext] \in Artefacts
                                 /\ archive'[ParentOfNext].state = n[1]
      BY <1>4, <1>7 DEF ParentOfNext
    <2> QED
      BY <2>1, <2>2 DEF StartsFrom, Linked, Link
  <1>11. ASSUME NEW i \in L
         PROVE  StartsFrom(current', traces', archive', i)
    <2>1. current'.step = n /\ i # n
      BY <1>1, <1>2, <1>11
    <2> QED
      BY <1>1, <1>6, <1>7, <1>11, <2>1 DEF StartsFrom, Linked, Link
  <1>12. LinksInv'
    BY <1>9, <1>10, <1>11 DEF LinksInv
  <1>13. PointerInv'
    <2>1. /\ current'.step = n /\ current'.successorDigest = job.graph
          /\ current'.parent = ParentOfNext
      BY <1>1, <1>2
    <2> QED
      BY <1>1, <1>5, <1>8, <2>1 DEF PointerInv
  <1>14. TracesInv'
    BY <1>1, <1>2, <1>5 DEF GenuineInv, TracesInv
  <1>15. CallInv' /\ SweepInv'
    BY <1>1 DEF CallInv, SweepInv, Staging
  <1> QED
    BY <1>12, <1>13, <1>14, <1>15

(* Recovery starts from a store that verifies, and deletes no live step.    *)
LEMMA RecoverGenuine ==
    ASSUME GenuineInv, TypeOK', Recovery, UNCHANGED archive
    PROVE  PointerInv' /\ TracesInv' /\ LinksInv' /\ CallInv' /\ SweepInv'
  <1>1. CASE BeginRecover
    <2>1. UNCHANGED <<current, archive, traces, committed>> /\ writer' = "sweep" /\ keep' = Chain
      BY <1>1 DEF BeginRecover, files
    <2>2. Chain = Live(current, traces)
      BY <1>1, ChainLive DEF BeginRecover, GenuineInv, DamageTypeOK
    <2> QED
      BY <2>1, <2>2, TracesLeft DEF CallInv, SweepInv, Staging
  <1>2. ASSUME NEW i \in StepId, SweepTrace(i)
        PROVE  PointerInv' /\ TracesInv' /\ LinksInv' /\ CallInv' /\ SweepInv'
    <2>1. /\ UNCHANGED <<current, archive, committed, keep, writer>>
          /\ traces' = [traces EXCEPT ![i] = None]
          /\ writer = "sweep" /\ i \notin Live(current, traces)
      BY <1>2 DEF SweepTrace, GenuineInv, SweepInv
    <2>2. \A j \in StepId : traces'[j] = IF j = i THEN None ELSE traces[j]
      BY <2>1 DEF GenuineInv, DamageTypeOK, TypeOK
    <2>3. Live(current, traces) \subseteq StepId /\ committed \subseteq StepId
      BY DEF Live, GenuineInv, DamageTypeOK, TypeOK
    <2>4. Live(current', traces') \subseteq Live(current, traces) /\ LinksInv'
      BY <2>1, <2>2, <2>3, LinksKept
    <2>5. PointerInv' /\ TracesInv'
      BY <2>1, <2>2, <2>3 DEF GenuineInv, PointerInv, TracesInv
    <2> QED
      BY <2>1, <2>4, <2>5 DEF GenuineInv, CallInv, SweepInv, Staging
  <1>3. ASSUME NEW i \in StepId, SweepState(i) \/ SweepDir(i)
        PROVE  PointerInv' /\ TracesInv' /\ LinksInv' /\ CallInv' /\ SweepInv'
    <2>1. UNCHANGED <<current, archive, traces, committed, keep, writer>> /\ writer = "sweep"
      BY <1>3 DEF SweepState, SweepDir
    <2> QED
      BY <2>1, TracesLeft DEF GenuineInv, CallInv, SweepInv, Staging
  <1>4. CASE EndRecover
    <2>1. UNCHANGED <<current, archive, traces, committed>> /\ writer' = "idle"
      BY <1>4 DEF EndRecover, files
    <2> QED
      BY <2>1, TracesLeft DEF CallInv, SweepInv, Staging
  <1> QED
    BY <1>1, <1>2, <1>3, <1>4 DEF Recovery

(* The store's own steps keep what is read genuine.                         *)
LEMMA StoreGenuine ==
    ASSUME GenuineInv, StoreStep
    PROVE  GenuineInv'
  <1>1. DamageTypeOK' /\ TypeOK' /\ NotForged'
    BY DamageTypeStep, ArchiveStep DEF GenuineInv, DamageTypeOK, DamageNext, NotForged
  <1>2. ~SwitchPointer => UNCHANGED <<current, archive>>
    BY ArchiveStep
  <1>3. ASSUME NEW s \in Submissions, BeginCommit(s)
        PROVE  GenuineInv'
    <2>1. UNCHANGED archive
      BY <1>3, ArchiveStep DEF BeginCommit
    <2> QED
      BY <1>1, <1>3, <2>1, BeginGenuine DEF GenuineInv
  <1>4. CASE WriteTrace
    <2>1. UNCHANGED archive
      BY <1>4, ArchiveStep DEF WriteTrace
    <2> QED
      BY <1>1, <1>4, <2>1, WriteTraceGenuine DEF GenuineInv
  <1>5. CASE WriteState
    <2>1. UNCHANGED <<current, archive, traces, committed, job, keep>>
          /\ writer = "state" /\ writer' = "pointer"
      BY <1>5, ArchiveStep DEF WriteState
    <2>2. ParentOfNext' = ParentOfNext
      BY <2>1 DEF ParentOfNext
    <2>3. CallInv' /\ SweepInv'
      BY <1>1, <2>1, <2>2, TracesLeft DEF GenuineInv, CallInv, SweepInv, Staging
    <2> QED
      BY <1>1, <2>1, <2>3, TracesLeft DEF GenuineInv
  <1>6. CASE SwitchPointer
    <2>1. current' # current
      \* the step of the call is not a live one, the step CURRENT names is
      <3>1. job.step \notin Live(current, traces) /\ current'.step = job.step
        BY <1>6 DEF SwitchPointer, GenuineInv, CallInv, Staging
      <3>2. current' \in Pointer
        BY <1>1, <1>6, JobPresent, StoreConstants DEF SwitchPointer, TypeOK, GenuineInv,
           DamageTypeOK, Staging, Trace, Pointer
      <3>3. current \in Pointer => current.step \in Live(current, traces)
        BY LiveClosed DEF GenuineInv, DamageTypeOK, TypeOK
      <3> QED
        BY <3>1, <3>2, <3>3
    <2> QED
      BY <1>1, <1>6, <2>1, ArchiveStep, SwitchGenuine DEF GenuineInv
  <1>7. CASE Recovery
    <2>1. UNCHANGED archive
      BY <1>7, ArchiveStep DEF Recovery, BeginRecover, SweepTrace, SweepState, SweepDir,
         EndRecover, files
    <2> QED
      BY <1>1, <1>7, <2>1, RecoverGenuine DEF GenuineInv
  <1>8. CASE Crash
    <2>1. UNCHANGED <<current, archive, traces, committed>> /\ writer' = "idle"
      BY <1>8, ArchiveStep DEF Crash, files
    <2> QED
      BY <1>1, <2>1, TracesLeft DEF GenuineInv, CallInv, SweepInv, Staging
  <1> QED
    BY <1>3, <1>4, <1>5, <1>6, <1>7, <1>8 DEF StoreStep, Next, Write

(* Damage cuts or loops links, and redirects only the one CURRENT repeats.  *)
LEMMA DamageGenuine ==
    ASSUME GenuineInv, Damage
    PROVE  GenuineInv'
  <1>1. DamageTypeOK' /\ TypeOK' /\ NotForged'
    BY DamageTypeStep, DamageUnchanged DEF GenuineInv, DamageTypeOK, DamageNext, NotForged
  <1>2. PICK d \in committed : Hits(d)
    BY DamageUnchanged
  <1>3. UNCHANGED <<current, dirs, writer, job, keep, committed, archive, scenario>>
    BY DamageUnchanged
  <1>4. /\ d \in StepId /\ committed \subseteq StepId
        /\ \A i \in StepId \ {d} : traces'[i] = traces[i]
        /\ traces'[d] # None =>
             /\ traces[d] # None
             /\ traces'[d].inputDigest = traces[d].inputDigest
             /\ NewParent(d, traces'[d].parent)
    BY <1>2, HitsEffect DEF GenuineInv, DamageTypeOK, TypeOK
  <1>5. Live(current, traces) \subseteq StepId
    BY DEF Live
  <1>6. Live(current', traces') \subseteq Live(current, traces) /\ LinksInv'
    BY <1>1, <1>3, <1>4, <1>5, LinksKept DEF NewParent
  <1>7. TracesInv'
    BY <1>2, <1>3, <1>4 DEF GenuineInv, TracesInv, NewParent
  <1>8. ParentOfNext' = ParentOfNext
    BY <1>3 DEF ParentOfNext
  <1>9. ASSUME writer \in Staging, job.step \notin committed
        PROVE  traces'[job.step] = traces[job.step]
    BY <1>4, <1>9, JobPresent DEF GenuineInv, DamageTypeOK
  <1>10. ASSUME writer \in Staging, current # None, traces'[current.step] # None
         PROVE  traces'[current.step].parent \in {None, current.step, current.parent}
    <2>1. /\ current.step \in StepId
          /\ traces[current.step] # None =>
               traces[current.step].parent \in {None, current.step, current.parent}
      BY <1>10 DEF GenuineInv, DamageTypeOK, TypeOK, Pointer, CallInv
    <2> QED
      BY <1>4, <1>10, <2>1 DEF NewParent
  <1>11. CallInv'
    BY <1>3, <1>6, <1>8, <1>9, <1>10 DEF GenuineInv, CallInv
  <1>12. PointerInv' /\ SweepInv'
    BY <1>3, <1>6 DEF GenuineInv, PointerInv, SweepInv
  <1> QED
    BY <1>1, <1>6, <1>7, <1>11, <1>12 DEF GenuineInv

(* An empty store is typed.                                                 *)
LEMMA DamageTypeInitially == ASSUME DamageInit PROVE DamageTypeOK
  <1>1. TypeOK
    BY DEF DamageInit, Init, TypeOK, Staging
  <1>2. scenario.files \in Nat
    BY DamageConstants DEF DamageInit
  <1> QED
    BY <1>1, <1>2 DEF DamageInit, DamageTypeOK

(* No scenario is of the forging kinds.                                     *)
NoForging == \A sc \in Scenarios : sc.kinds \cap ForgingKinds = {}

(* An empty store reads nothing that is not genuine.                        *)
LEMMA GenuineInitially == ASSUME DamageInit, NoForging PROVE GenuineInv
  <1>1. current = None /\ committed = {} /\ writer = "idle" /\ NotForged
    BY DEF DamageInit, Init, NoForging, NotForged
  <1>2. Live(current, traces) = {}
    BY <1>1 DEF Live
  <1> QED
    BY <1>1, <1>2, DamageTypeInitially
       DEF GenuineInv, PointerInv, TracesInv, LinksInv, CallInv, SweepInv, Staging

(* Every step keeps what is read genuine.                                   *)
LEMMA GenuineInductive == ASSUME GenuineInv, [DamageNext]_damageVars PROVE GenuineInv'
  <1>1. CASE UNCHANGED damageVars
    <2>1. UNCHANGED <<current, dirs, traces, states, writer, job, keep, committed, archive>>
      BY <1>1 DEF damageVars, vars
    <2>2. DamageTypeOK' /\ NotForged'
      BY <1>1, DamageTypeStep DEF GenuineInv, NotForged, damageVars
    <2>3. PointerInv' /\ TracesInv' /\ LinksInv'
      BY <2>1, <2>2, TracesLeft DEF DamageTypeOK
    <2>4. CallInv' /\ SweepInv'
      BY <2>1 DEF GenuineInv, CallInv, SweepInv, ParentOfNext
    <2> QED
      BY <2>2, <2>3, <2>4 DEF GenuineInv
  <1> QED
    BY <1>1, StoreGenuine, DamageGenuine DEF DamageNext

(* However many files of committed steps are lost, altered or cut off, and  *)
(* at whatever moments, a store that verifies gives its readers the states  *)
(* its steps were last committed with: the state of a step on the chain is  *)
(* what CURRENT tells of it, or the input of the step that follows.  The    *)
(* input digests must be left alone, and no link behind the head may lead   *)
(* to another step: those alter what a step is said to start from.          *)
THEOREM GenuineStates ==
    ASSUME NoForging
    PROVE  DamageSpec => []StatesAreGenuine
  <1>1. GenuineInv => StatesAreGenuine
    <2> SUFFICES ASSUME GenuineInv, StoreVerifies, NEW i \in Chain
                 PROVE  i \in committed /\ states[i] = archive[i].state
      BY DEF StatesAreGenuine
    <2>1. /\ current # None /\ current \in Pointer /\ current.step \in committed
          /\ committed \subseteq StepId
      BY DEF Chain, GenuineInv, DamageTypeOK, TypeOK, PointerInv
    <2>2. Chain = Live(current, traces) /\ Chain \subseteq StepId
      BY ChainLive DEF GenuineInv, DamageTypeOK, Chain
    <2>3. Intact(Chain) /\ StepVerifies(i) /\ states[current.step] = current.successorDigest
      BY <2>1 DEF StoreVerifies
    <2>4. i \in committed
      <3>1. ParentClosed(committed)
        BY DEF ParentClosed, GenuineInv, TracesInv
      <3> QED
        BY <2>1, <3>1 DEF Chain
    <2>5. CASE i = current.step
      BY <2>1, <2>3, <2>4, <2>5 DEF GenuineInv, PointerInv
    <2>6. CASE i # current.step
      <3>1. PICK j \in Chain \ {i} : traces[j] # None /\ traces[j].parent = i
        \* otherwise the chain without i would be closed
        <4>1. current.step \in Chain \ {i}
          BY <2>1, <2>6 DEF Chain
        <4>2. ~ParentClosed(Chain \ {i})
          BY <2>1, <2>2, <4>1 DEF Chain
        <4>3. \A j \in Chain : traces[j].parent \in Chain \cup {None}
          <5>1. LinkClosed(current, traces, Chain)
            BY <2>1, <2>2, LiveClosed DEF GenuineInv, DamageTypeOK, TypeOK
          <5> QED
            BY <2>3, <5>1 DEF LinkClosed, Linked, Link, Intact
        <4> QED
          BY <4>2, <4>3 DEF ParentClosed
      <3>2. i # None
        BY <2>2, StoreConstants
      <3>3. traces[i].successorDigest = traces[j].inputDigest
        BY <2>3, <3>1, <3>2 DEF Intact
      <3>4. StartsFrom(current, traces, archive, j) /\ Link(current, traces, j) = i
        BY <2>2, <2>3, <3>1 DEF GenuineInv, LinksInv, Link, Intact
      <3>5. archive[i].state = j[1]
        BY <3>1, <3>2, <3>4 DEF StartsFrom, Linked
      <3>6. j \in committed
        <4>1. ParentClosed(committed)
          BY DEF ParentClosed, GenuineInv, TracesInv
        <4> QED
          BY <2>1, <3>1, <4>1 DEF Chain
      <3>7. traces[j].inputDigest = j[1]
        BY <3>1, <3>6 DEF GenuineInv, TracesInv
      <3> QED
        BY <2>3, <2>4, <3>3, <3>5, <3>7 DEF StepVerifies
    <2> QED
      BY <2>5, <2>6
  <1>2. DamageInit => GenuineInv
    BY GenuineInitially
  <1> QED
    BY <1>1, <1>2, GenuineInductive, PTL DEF DamageSpec

-----------------------------------------------------------------------------
(* One damaged file: a store that verifies has none. *)

(* What was archived of a committed step is typed.                          *)
LEMMA CommittedTyped ==
    ASSUME DamageTypeOK, ArchiveInv
    PROVE  /\ committed \subseteq StepId /\ None \notin committed
           /\ \A i \in committed :
                /\ Archived(i) \in Trace /\ archive[i].state \in Graphs
                /\ Untouched(i) <=> traces[i] = Archived(i) /\ states[i] = archive[i].state
                /\ Untouched(i) => traces[i] # None
           /\ current # None => current \in Pointer
  <1>1. committed \subseteq StepId /\ None \notin committed
    BY StoreConstants DEF DamageTypeOK, TypeOK
  <1>2. ASSUME NEW i \in committed
        PROVE  /\ Archived(i) \in Trace /\ archive[i].state \in Graphs
               /\ Untouched(i) <=> traces[i] = Archived(i) /\ states[i] = archive[i].state
    BY DEF ArchiveInv, Artefacts, Archived, Untouched
  <1> QED
    BY <1>1, <1>2, StoreConstants DEF DamageTypeOK, TypeOK

(* No committed step is archived as its own parent: the path to it would    *)
(* hold every committed step and no first one.                              *)
LEMMA NotOwnParent ==
    ASSUME DamageTypeOK, ArchiveInv, ReachArchived, PathInv, NEW d \in committed
    PROVE  Archived(d).parent # d
  <1> SUFFICES ASSUME Archived(d).parent = d PROVE FALSE
    OBVIOUS
  <1>1. PICK S \in SUBSET StepId : Reaches(S, d)
    BY DEF PathInv
  <1>2. \A i \in S : Archived(i).parent \in S
    BY <1>1 DEF Reaches
  <1>3. committed \subseteq S
    BY <1>1, <1>2 DEF Reaches, ReachArchived, ArchiveInv
  <1>4. PICK r \in committed : Archived(r).parent = None
    BY DEF ArchiveInv
  <1>5. None \in S
    BY <1>2, <1>3, <1>4
  <1> QED
    BY <1>1, <1>5, CommittedTyped DEF Reaches

(* A step that differs is on the chain, and verify_current() meets it.      *)
LEMMA DifferenceNoticed ==
    ASSUME DamageTypeOK, ArchiveInv, ReachArchived, PathInv,
           NEW d \in committed, Differs(d), \A i \in committed \ {d} : Untouched(i)
    PROVE  ~StoreVerifies
  <1> SUFFICES ASSUME StoreVerifies PROVE FALSE
    OBVIOUS
  <1>1. current # None /\ current.step \in committed /\ current.step \in StepId
    BY CommittedTyped DEF ArchiveInv
  <1>2. \A i \in committed \ {d} : traces[i] = Archived(i) /\ traces[i] # None
    BY CommittedTyped
  <1>3. d \in Chain
    <2>1. ASSUME NEW S \in SUBSET StepId, current.step \in S, ParentClosed(S), d \notin S
          PROVE  FALSE
      <3>1. \A i \in S \cap committed : Archived(i).parent \in S \cup {None}
        BY <1>2, <2>1 DEF ParentClosed
      <3> QED
        BY <1>1, <2>1, <3>1 DEF ReachArchived
    <2> QED
      BY <1>1, <2>1, CommittedTyped DEF Chain
  <1>4. Intact(Chain) /\ StepVerifies(d) /\ current.step \in Chain
    BY <1>1, <1>3 DEF StoreVerifies, Chain
  <1>5. traces[d] # None /\ traces[current.step].parent = current.parent
    BY <1>3, <1>4 DEF Intact
  <1>6. traces[d].parent = d /\ Archived(d).parent # d
    <2>1. ASSUME NEW p \in committed \ {d}, p = traces[d].parent,
                 Archived(p).successorDigest # traces[d].inputDigest
          PROVE  FALSE
      <3>1. p # None /\ traces[p] = Archived(p)
        BY <1>2, CommittedTyped
      <3> QED
        BY <1>3, <1>4, <2>1, <3>1 DEF Intact
    <2> QED
      BY <1>4, <1>5, <2>1 DEF Differs
  \* the walk comes to d and goes on there: it has no first step
  <1>7. PICK S \in SUBSET StepId : Reaches(S, d)
    BY DEF PathInv
  <1>8. \A j \in S : traces[j].parent \in S
    BY <1>2, <1>6, <1>7 DEF Reaches
  <1>9. Chain \subseteq S
    BY <1>1, <1>7, <1>8 DEF Chain, ParentClosed, Reaches
  <1>10. None \notin S
    BY <1>7, CommittedTyped DEF Reaches
  <1> QED
    BY <1>4, <1>8, <1>9, <1>10 DEF Intact

(* An untouched step is as committed.                                       *)
LEMMA UntouchedIsCommitted ==
    ASSUME DamageTypeOK, ArchiveInv, NEW i \in committed, Untouched(i)
    PROVE  AsCommitted(i)
  BY CommittedTyped DEF AsCommitted, Archived

(* With one file damaged at most, the steps of a store that verifies have   *)
(* what it relies on, and the chain is the history.                         *)
LEMMA VerifiedAsCommitted ==
    ASSUME ShadowInv, OneFile, StoreVerifies
    PROVE  /\ \A i \in committed : AsCommitted(i)
           /\ Chain = committed
  <1>1. DamageTypeOK /\ ArchiveInv /\ ReachArchived /\ PathInv /\ DamageInv
    BY DEF ShadowInv
  <1>2. \A i \in committed : AsCommitted(i)
    BY <1>1, DifferenceNoticed, UntouchedIsCommitted DEF DamageInv
  <1>3. \A i \in committed : traces[i] # None /\ traces[i].parent = Archived(i).parent
    BY <1>2 DEF AsCommitted, Archived
  <1>4. Chain = committed
    <2>1. CASE current = None
      BY <1>1, <2>1 DEF Chain, ArchiveInv
    <2>2. CASE current # None
      <3>1. committed \in SUBSET StepId /\ current.step \in committed
        BY <1>1, <2>2, CommittedTyped DEF ArchiveInv
      <3>2. ParentClosed(committed)
        BY <1>1, <1>3 DEF ParentClosed, ArchiveInv
      <3>3. Chain \subseteq committed
        BY <2>2, <3>1, <3>2 DEF Chain
      <3>4. ASSUME NEW S \in SUBSET StepId, current.step \in S, ParentClosed(S)
            PROVE  committed \subseteq S
        <4>1. \A i \in S \cap committed : Archived(i).parent \in S \cup {None}
          BY <1>3, <3>4 DEF ParentClosed
        <4> QED
          BY <1>1, <2>2, <3>4, <4>1 DEF ReachArchived
      <3>5. committed \subseteq Chain
        BY <2>2, <3>1, <3>4 DEF Chain
      <3> QED
        BY <3>3, <3>5
    <2> QED
      BY <2>1, <2>2
  <1> QED
    BY <1>2, <1>4

-----------------------------------------------------------------------------
(* One damaged file: each step keeps the invariant. *)

(* A step that leaves the committed files alone. *)
LEMMA OffHistoryShadow ==
    ASSUME ShadowInv, OneFile, OffHistory, UNCHANGED <<archive, scenario, damaged>>,
           writer' \in Staging => writer \in Staging \/ StoreVerifies
    PROVE  ArchiveInv' /\ ReachArchived' /\ PathInv' /\ DamageInv'
  <1>1. /\ UNCHANGED <<current, committed, archive, damaged>>
        /\ \A i \in committed : traces'[i] = traces[i] /\ states'[i] = states[i]
        /\ committed \cap dirs \subseteq dirs'
    BY DEF OffHistory
  <1>2. ArchiveInv'
    BY <1>1 DEF ShadowInv, ArchiveInv, Archived
  <1>3. ReachArchived' /\ PathInv'
    BY <1>1 DEF ShadowInv, ReachArchived, PathInv, Reaches, Archived
  <1>4. \A i \in committed : Untouched(i)' <=> Untouched(i)
    BY <1>1 DEF Untouched
  <1>5. ASSUME damaged = 0, \A i \in committed : Untouched(i)
        PROVE  DamageInv'
    BY <1>1, <1>4, <1>5 DEF DamageInv
  <1>6. ASSUME damaged = 1, NEW d \in committed, AsCommitted(d),
               \A i \in committed \ {d} : Untouched(i)
        PROVE  DamageInv'
    <2>1. AsCommitted(d)'
      BY <1>1, <1>6 DEF AsCommitted
    <2> QED
      BY <1>1, <1>4, <1>6, <2>1 DEF DamageInv
  <1>7. ASSUME damaged = 1, NEW d \in committed, Differs(d),
               \A i \in committed \ {d} : Untouched(i)
        PROVE  DamageInv'
    <2>1. ~StoreVerifies
      BY <1>7, DifferenceNoticed DEF ShadowInv
    <2>2. StepVerifies(d)' <=> StepVerifies(d)
      BY <1>1 DEF StepVerifies
    <2>3. Differs(d)'
      BY <1>1, <1>7, <2>1, <2>2 DEF Differs, Archived
    <2> QED
      BY <1>1, <1>4, <1>7, <2>3 DEF DamageInv
  <1> QED
    BY <1>2, <1>3, <1>5, <1>6, <1>7 DEF ShadowInv, DamageInv

(* The step of the call joins the history as it was submitted. *)
LEMMA SwitchShadow ==
    ASSUME ShadowInv, OneFile, SwitchPointer, UNCHANGED <<scenario, damaged>>,
           archive' = [archive EXCEPT ![job.step] = [trace |-> job.trace, state |-> job.graph]]
    PROVE  ArchiveInv' /\ ReachArchived' /\ PathInv' /\ DamageInv'
  <1>0. PICK n : n = job.step
    OBVIOUS
  <1>1. /\ current' = [step |-> n, successorDigest |-> job.graph, parent |-> job.trace.parent]
        /\ committed' = committed \cup {n}
        /\ UNCHANGED <<traces, states, dirs>>
        /\ writer = "pointer"
    BY <1>0 DEF SwitchPointer
  <1>2. /\ n \in StepId /\ n \notin committed /\ n \in dirs
        /\ traces[n] = job.trace /\ states[n] = job.graph
        /\ job.trace \in Trace /\ job.graph \in Graphs
        /\ job.trace.parent = ParentOfNext
        /\ job.trace.inputDigest = n[1]
        /\ job.trace.successorDigest = job.graph
    BY <1>0, SwitchedJob DEF ShadowInv, DamageTypeOK, Job
  <1>3. /\ job.trace.inputGraph \in {None, n[1]} /\ job.trace.successorGraph \in {None, job.graph}
        /\ current # None => current.successorDigest = n[1]
    <2>1. job # None
      BY <1>1 DEF ShadowInv, DamageTypeOK, TypeOK, Staging
    <2> QED
      BY <1>0, <2>1 DEF ShadowInv, JobInv
  <1>4. /\ archive'[n] = [trace |-> job.trace, state |-> job.graph]
        /\ archive'[n] \in Artefacts
        /\ \A i \in committed : archive'[i] = archive[i]
    BY <1>0, <1>2 DEF ShadowInv, DamageTypeOK, TypeOK, Artefacts
  <1>5. /\ archive'[n].trace = job.trace
        /\ \A i \in committed : archive'[i].trace = Archived(i)
    BY <1>4 DEF Archived
  <1>6. /\ current' # None /\ current'.step = n /\ current'.successorDigest = job.graph
        /\ current'.parent = job.trace.parent
    <2>1. current' \in Pointer
      BY <1>1, <1>2 DEF Pointer, Trace
    <2> QED
      BY <1>1, <2>1, StoreConstants
  <1>7. current # None => current.step \in committed /\ current.step # None
    BY CommittedTyped DEF ShadowInv, ArchiveInv
  <1>8. job.trace.parent # None =>
          /\ job.trace.parent \in committed
          /\ Archived(job.trace.parent).successorDigest = n[1]
    BY <1>2, <1>3, <1>7 DEF ParentOfNext, ShadowInv, ArchiveInv
  <1>9. ArchiveInv'
    <2>1. \A i \in committed :
            /\ i \in dirs' /\ archive'[i] \in Artefacts
            /\ archive'[i].trace.successorDigest = archive'[i].state
            /\ archive'[i].trace.successorGraph \in {None, archive'[i].state}
            /\ archive'[i].trace.inputDigest = i[1]
            /\ archive'[i].trace.inputGraph \in {None, i[1]}
            /\ archive'[i].trace.parent # None =>
                 /\ archive'[i].trace.parent \in committed
                 /\ archive'[archive'[i].trace.parent].trace.successorDigest = archive'[i].trace.inputDigest
      BY <1>1, <1>4, <1>5 DEF ShadowInv, ArchiveInv, Archived
    <2>2. /\ n \in dirs' /\ archive'[n] \in Artefacts
          /\ archive'[n].trace.successorDigest = archive'[n].state
          /\ archive'[n].trace.successorGraph \in {None, archive'[n].state}
          /\ archive'[n].trace.inputDigest = n[1]
          /\ archive'[n].trace.inputGraph \in {None, n[1]}
          /\ archive'[n].trace.parent # None =>
               /\ archive'[n].trace.parent \in committed
               /\ archive'[archive'[n].trace.parent].trace.successorDigest = archive'[n].trace.inputDigest
      BY <1>1, <1>2, <1>3, <1>4, <1>5, <1>8 DEF Archived
    <2>3. \E i \in committed' : archive'[i].trace.parent = None
      <3>1. CASE current = None
        BY <1>1, <1>2, <1>5, <3>1 DEF ParentOfNext
      <3>2. CASE current # None
        BY <1>1, <1>5, <3>2 DEF ShadowInv, ArchiveInv
      <3> QED
        BY <3>1, <3>2
    <2>4. /\ current'.step \in committed' /\ archive'[current'.step].state = current'.successorDigest
          /\ archive'[current'.step].trace.parent = current'.parent
      BY <1>1, <1>4, <1>5, <1>6 DEF Archived
    <2> QED
      BY <1>1, <1>6, <2>1, <2>2, <2>3, <2>4 DEF ArchiveInv, Archived
  <1>10. ReachArchived'
    <2> SUFFICES ASSUME NEW S \in SUBSET StepId, n \in S,
                        \A i \in S \cap committed' : archive'[i].trace.parent \in S \cup {None}
                 PROVE  committed \subseteq S
      BY <1>1, <1>6 DEF ReachArchived, Archived
    <2>1. CASE current = None
      BY <2>1 DEF ShadowInv, ArchiveInv
    <2>2. CASE current # None
      <3>1. current.step \in S
        BY <1>1, <1>2, <1>5, <1>7, <2>2 DEF ParentOfNext
      <3>2. \A i \in S \cap committed : Archived(i).parent \in S \cup {None}
        BY <1>1, <1>5
      <3> QED
        BY <2>2, <3>1, <3>2 DEF ShadowInv, ReachArchived
    <2> QED
      BY <2>1, <2>2
  <1>11. PathInv'
    <2>1. Reaches({n}, n)'
      BY <1>1, <1>6 DEF Reaches
    <2>2. ASSUME NEW i \in committed
          PROVE  \E S \in SUBSET StepId : Reaches(S, i)'
      <3>1. PICK S \in SUBSET StepId : Reaches(S, i)
        BY DEF ShadowInv, PathInv
      <3>2. job.trace.parent = current.step /\ current.step \in S
        BY <1>2, <3>1 DEF ParentOfNext, ShadowInv, ArchiveInv, Reaches
      <3>3. \A j \in (S \cup {n}) \ {i} : archive'[j].trace.parent \in S
        BY <1>5, <3>1, <3>2 DEF Reaches
      <3>4. Reaches(S \cup {n}, i)'
        BY <1>1, <1>6, <3>1, <3>3 DEF Reaches, Archived
      <3>5. S \cup {n} \in SUBSET StepId
        BY <1>2
      <3> QED
        BY <3>4, <3>5
    <2>3. \A i \in committed' : \E S \in SUBSET StepId : Reaches(S, i)'
      <3>1. {n} \in SUBSET StepId
        BY <1>2
      <3> QED
        BY <1>1, <2>1, <2>2, <3>1
    <2> QED
      BY <2>3 DEF PathInv
  <1>12. DamageInv'
    <2>1. \A i \in committed : Untouched(i)' <=> Untouched(i)
      BY <1>1, <1>4 DEF Untouched
    <2>2. Untouched(n)'
      BY <1>1, <1>2, <1>4 DEF Untouched
    <2>3. ASSUME NEW d \in committed, Differs(d)
          PROVE  Differs(d)'
      <3>1. StepVerifies(d)' <=> StepVerifies(d)
        BY <1>1 DEF StepVerifies
      <3>2. \A p \in committed \ {d} :
              p \in committed' \ {d} /\ Archived(p)' = Archived(p)
        BY <1>1, <1>5 DEF Archived
      <3> QED
        BY <1>1, <1>5, <2>3, <3>1, <3>2 DEF Differs, Staging, Archived
    <2>4. ASSUME NEW d \in committed, AsCommitted(d)
          PROVE  AsCommitted(d)'
      BY <1>1, <1>4, <2>4 DEF AsCommitted
    <2> QED
      BY <1>1, <2>1, <2>2, <2>3, <2>4 DEF ShadowInv, DamageInv
  <1> QED
    BY <1>9, <1>10, <1>11, <1>12

(* The store's steps keep the archive in step, and sweep nothing committed. *)
LEMMA StoreShadow ==
    ASSUME ShadowInv, OneFile, StoreStep
    PROVE  /\ ShadowInv'
           /\ committed \cap dirs \subseteq dirs'
  <1>1. DamageTypeOK' /\ [Next]_vars /\ UNCHANGED <<scenario, damaged>>
    BY DamageTypeStep, ArchiveStep DEF ShadowInv, DamageNext, StoreStep
  <1>2. TypeOK /\ JobInv /\ KeepInv
    BY DEF ShadowInv, DamageTypeOK
  <1>3. StoreVerifies => Chain = committed
    BY VerifiedAsCommitted
  <1>4. JobInv' /\ KeepInv'
    BY <1>1, <1>2, <1>3, JobStep, KeepStep
  <1>5. CASE OffHistory
    <2>1. UNCHANGED archive
      BY <1>5, ArchiveStep DEF OffHistory
    <2>2. writer' \in Staging => writer \in Staging \/ StoreVerifies
      BY DEF StoreStep, Next, Write, Recovery, BeginCommit, Accepts, WriteTrace, WriteState,
             SwitchPointer, BeginRecover, SweepTrace, SweepState, SweepDir, EndRecover, Crash,
             Staging
    <2> QED
      BY <1>1, <1>4, <1>5, <2>1, <2>2, OffHistoryShadow DEF ShadowInv, OffHistory
  <1>6. CASE SwitchPointer
    <2>1. job.step \notin committed /\ current'.step = job.step /\ committed' # {}
      BY <1>2, <1>6, SwitchedJob DEF SwitchPointer
    <2>2. current' # current
      <3>1. CASE current = None
        <4>1. job.trace.parent \in StepId \cup {None} /\ job.step \in StepId
              /\ job.graph \in Graphs
          BY <1>2, <1>6, SwitchedJob DEF Job, Trace
        <4>2. current' \in Pointer
          BY <1>6, <4>1 DEF SwitchPointer, Pointer
        <4> QED
          BY <3>1, <4>2, StoreConstants
      <3>2. CASE current # None
        BY <2>1, <3>2 DEF ShadowInv, ArchiveInv
      <3> QED
        BY <3>1, <3>2
    <2>3. dirs' = dirs
      BY <1>6 DEF SwitchPointer
    <2> QED
      BY <1>1, <1>4, <1>6, <2>2, <2>3, ArchiveStep, SwitchShadow DEF ShadowInv
  <1> QED
    BY <1>1, <1>2, <1>5, <1>6, OffHistoryStep

(* The first damage makes its step differ from what was committed, or is of *)
(* no matter to the store.                                                  *)
LEMMA HitDiffers ==
    ASSUME ShadowInv, OneFile, NEW d \in committed, Hits(d),
           \A i \in committed : Untouched(i),
           UNCHANGED <<current, writer, archive, committed>>
    PROVE  Differs(d)' \/ AsCommitted(d)'
  <1>1. /\ traces \in [StepId -> Trace \cup {None}] /\ states \in [StepId -> Graphs \cup {None}]
        /\ d \in StepId
        /\ traces[d] = Archived(d) /\ traces[d] \in Trace
        /\ states[d] = archive[d].state /\ states[d] \in Graphs
    BY CommittedTyped DEF ShadowInv, DamageTypeOK, TypeOK
  <1>2. /\ traces[d].successorDigest = states[d]
        /\ traces[d].successorGraph \in {None, states[d]}
        /\ d = current.step /\ current # None => traces[d].parent = current.parent
    BY <1>1 DEF ShadowInv, ArchiveInv
  <1>3. Archived(d)' = traces[d] /\ None \notin Graphs
    BY <1>1, StoreConstants DEF Archived
  <1>4. CASE LoseTrace(d)
    BY <1>1, <1>4 DEF LoseTrace, Differs
  <1>5. CASE LoseState(d) \/ AlterState(d)
    <2>1. traces' = traces /\ states'[d] # states[d]
      BY <1>1, <1>3, <1>5 DEF LoseState, AlterState
    <2>2. ~StepVerifies(d)'
      BY <1>2, <2>1 DEF StepVerifies
    <2> QED
      BY <1>3, <2>1, <2>2 DEF Differs
  <1>6. CASE AlterDigest(d)
    <2>1. PICK g \in Graphs \ {states[d]} : traces' = [traces EXCEPT ![d].successorDigest = g]
      BY <1>2, <1>6 DEF AlterDigest
    <2>2. states' = states
      BY <1>6 DEF AlterDigest
    <2>3. traces'[d] = [traces[d] EXCEPT !.successorDigest = g]
      BY <1>1, <2>1
    <2>4. traces'[d].parent = traces[d].parent /\ traces'[d].successorDigest = g
      BY <1>1, <2>3 DEF Trace
    <2>5. ~StepVerifies(d)'
      BY <2>1, <2>2, <2>4 DEF StepVerifies
    <2> QED
      BY <1>3, <2>4, <2>5 DEF Differs
  <1>7. CASE HollowSnapshot(d)
    <2>1. PICK g \in Graphs \ {traces[d].successorGraph} :
            traces' = [traces EXCEPT ![d].successorGraph = g]
      BY <1>7 DEF HollowSnapshot
    <2>2. states' = states /\ traces[d].successorGraph = states[d]
      BY <1>2, <1>7 DEF HollowSnapshot
    <2>3. traces'[d] = [traces[d] EXCEPT !.successorGraph = g]
      BY <1>1, <2>1
    <2>4. traces'[d].parent = traces[d].parent /\ traces'[d].successorGraph = g
      BY <1>1, <2>3 DEF Trace
    <2>5. ~StepVerifies(d)'
      BY <1>3, <2>1, <2>2, <2>4 DEF StepVerifies
    <2> QED
      BY <1>3, <2>4, <2>5 DEF Differs
  <1>8. CASE RelinkHead(d)
    <2>1. PICK p \in committed \cup {None} : Relink(d, p)
      BY <1>8 DEF RelinkHead
    <2>2. p \in StepId \cup {None} /\ current # None
      BY <2>1, CommittedTyped DEF ShadowInv, ArchiveInv
    <2>3. traces'[d].parent # traces[d].parent
      BY <2>1, <2>2, RelinkHits DEF ShadowInv
    <2> QED
      BY <1>2, <1>8, <2>2, <2>3 DEF Differs, RelinkHead, IsHead
  <1>9. CASE SelfLink(d)
    <2>1. traces'[d].parent = d /\ d # traces[d].parent
      BY <1>1, <1>9, RelinkHits DEF SelfLink, ShadowInv
    <2> QED
      BY <1>3, <2>1 DEF Differs
  <1>10. CASE AlterInput(d)
    <2>1. PICK g \in Graphs \ {traces[d].inputDigest} :
            traces' = [traces EXCEPT ![d].inputDigest = g]
      BY <1>10 DEF AlterInput
    <2>2. states' = states
      BY <1>10 DEF AlterInput
    <2>3. traces'[d] = [traces[d] EXCEPT !.inputDigest = g] /\ traces'[d] \in Trace
      BY <1>1, <2>1 DEF Trace
    <2>4. /\ traces'[d].parent = traces[d].parent /\ traces'[d].inputDigest = g
          /\ traces'[d].successorDigest = traces[d].successorDigest
          /\ traces'[d].successorGraph = traces[d].successorGraph
      BY <1>1, <2>3 DEF Trace
    <2>5. CASE Archived(d).parent = None
      BY <1>1, <2>2, <2>3, <2>4, <2>5, StoreConstants DEF AsCommitted, Archived
    <2>6. CASE Archived(d).parent # None
      <3>1. PICK q \in committed \ {d} :
              q = Archived(d).parent /\ Archived(q).successorDigest = Archived(d).inputDigest
        BY <2>6, NotOwnParent DEF ShadowInv, ArchiveInv
      <3>2. Archived(q)' = Archived(q)
        BY DEF Archived
      <3>3. traces'[d].parent = q /\ traces'[d].inputDigest # Archived(d).inputDigest
        BY <1>1, <2>1, <2>4, <3>1
      <3> QED
        BY <3>1, <3>2, <3>3 DEF Differs
    <2> QED
      BY <2>5, <2>6
  <1>11. CASE AlterLedger(d)
    <2>1. PICK l \in Ledgers \cup {None} : traces' = [traces EXCEPT ![d].ledger = l]
      BY <1>11 DEF AlterLedger
    <2>2. states' = states
      BY <1>11 DEF AlterLedger
    <2>3. traces'[d] = [traces[d] EXCEPT !.ledger = l] /\ traces'[d] \in Trace
      BY <1>1, <2>1 DEF Trace
    <2>4. /\ traces'[d].parent = traces[d].parent
          /\ traces'[d].inputDigest = traces[d].inputDigest
          /\ traces'[d].successorDigest = traces[d].successorDigest
          /\ traces'[d].successorGraph = traces[d].successorGraph
      BY <1>1, <2>3 DEF Trace
    <2> QED
      BY <1>1, <2>2, <2>3, <2>4, StoreConstants DEF AsCommitted, Archived
  <1>12. CASE AlterInputGraph(d)
    <2>1. PICK g \in Graphs \cup {None} : traces' = [traces EXCEPT ![d].inputGraph = g]
      BY <1>12 DEF AlterInputGraph
    <2>2. states' = states
      BY <1>12 DEF AlterInputGraph
    <2>3. traces'[d] = [traces[d] EXCEPT !.inputGraph = g] /\ traces'[d] \in Trace
      BY <1>1, <2>1 DEF Trace
    <2>4. /\ traces'[d].parent = traces[d].parent
          /\ traces'[d].inputDigest = traces[d].inputDigest
          /\ traces'[d].successorDigest = traces[d].successorDigest
          /\ traces'[d].successorGraph = traces[d].successorGraph
      BY <1>1, <2>3 DEF Trace
    <2> QED
      BY <1>1, <2>2, <2>3, <2>4, StoreConstants DEF AsCommitted, Archived
  <1>13. CASE DropSnapshot(d)
    <2>1. traces' = [traces EXCEPT ![d].successorGraph = None] /\ states' = states
      BY <1>13 DEF DropSnapshot
    <2>2. traces'[d] = [traces[d] EXCEPT !.successorGraph = None] /\ traces'[d] \in Trace
      BY <1>1, <2>1 DEF Trace
    <2>3. /\ traces'[d].parent = traces[d].parent
          /\ traces'[d].inputDigest = traces[d].inputDigest
          /\ traces'[d].successorDigest = traces[d].successorDigest
          /\ traces'[d].successorGraph = None
      BY <1>1, <2>2 DEF Trace
    <2> QED
      BY <1>1, <2>1, <2>2, <2>3, StoreConstants DEF AsCommitted, Archived
  <1>14. CASE WrongLink(d)
    <2>1. PICK p \in committed \ {d} :
            Archived(p).successorDigest # traces[d].inputDigest /\ Relink(d, p)
      BY <1>14 DEF WrongLink, Archived
    <2>2. traces'[d].parent = p /\ traces'[d].inputDigest = traces[d].inputDigest
      BY <2>1, RelinkHits, CommittedTyped DEF ShadowInv
    <2>3. Archived(p)' = Archived(p)
      BY DEF Archived
    <2> QED
      BY <2>1, <2>2, <2>3 DEF Differs
  <1>15. ~CutLink(d) /\ ~SkipLink(d)
    BY DEF CutLink, SkipLink, OneFile, ShortcutKinds
  <1> QED
    BY <1>4, <1>5, <1>6, <1>7, <1>8, <1>9, <1>10, <1>11, <1>12, <1>13, <1>14, <1>15 DEF Hits

(* Damage to one file keeps the archive in step.                            *)
LEMMA DamageShadow ==
    ASSUME ShadowInv, OneFile, Damage
    PROVE  ShadowInv'
  <1>1. DamageTypeOK'
    BY DamageTypeStep DEF ShadowInv, DamageNext
  <1>2. PICK d \in committed : Hits(d)
    BY DamageUnchanged
  <1>3. /\ UNCHANGED <<current, dirs, writer, job, keep, committed, archive, scenario>>
        /\ damaged = 0 /\ damaged' = 1
    <2>1. damaged \in Nat /\ damaged < 1
      BY DamageUnchanged DEF ShadowInv, DamageTypeOK, OneFile
    <2> QED
      BY <2>1, DamageUnchanged
  <1>4. \A i \in committed : Untouched(i)
    BY <1>3 DEF ShadowInv, DamageInv
  <1>5. /\ committed \subseteq StepId
        /\ \A i \in StepId \ {d} : traces'[i] = traces[i] /\ states'[i] = states[i]
    BY <1>2, HitsEffect DEF ShadowInv, DamageTypeOK, TypeOK
  <1>6. ArchiveInv' /\ ReachArchived' /\ PathInv' /\ KeepInv'
    BY <1>3 DEF ShadowInv, ArchiveInv, ReachArchived, PathInv, Reaches, Archived, KeepInv
  <1>7. JobInv'
    <2>1. ParentOfNext' = ParentOfNext
      BY <1>3 DEF ParentOfNext
    <2>2. job # None => job.step \in StepId \ {d}
      BY <1>2, JobPresent DEF ShadowInv, DamageTypeOK, TypeOK, JobInv
    <2> QED
      BY <1>3, <1>5, <2>1, <2>2 DEF ShadowInv, JobInv
  <1>8. DamageInv'
    <2>1. \A i \in committed \ {d} : Untouched(i)'
      BY <1>3, <1>4, <1>5 DEF Untouched
    <2>2. Differs(d)' \/ AsCommitted(d)'
      BY <1>2, <1>3, <1>4, HitDiffers
    <2> QED
      BY <1>3, <2>1, <2>2 DEF DamageInv
  <1> QED
    BY <1>1, <1>3, <1>6, <1>7, <1>8 DEF ShadowInv

(* An empty store is in step with its archive.                              *)
LEMMA ShadowInitially == ASSUME DamageInit PROVE ShadowInv
  <1>1. /\ current = None /\ committed = {} /\ writer = "idle" /\ job = None
        /\ damaged = 0
    BY DEF DamageInit, Init
  <1>2. DamageTypeOK
    BY DamageTypeInitially
  <1> QED
    BY <1>1, <1>2
       DEF ShadowInv, ArchiveInv, ReachArchived, PathInv, JobInv, KeepInv, DamageInv

(* Every step keeps the archive in step, and sweeps nothing committed.      *)
LEMMA ShadowInductive ==
    ASSUME ShadowInv, [DamageNext]_damageVars
    PROVE  /\ ShadowInv'
           /\ OneFile => committed \cap dirs \subseteq dirs'
  <1>1. DamageTypeOK' /\ (OneFile' <=> OneFile)
    <2>1. DamageTypeOK'
      BY DamageTypeStep DEF ShadowInv
    <2>2. scenario' = scenario
      BY ArchiveStep, DamageUnchanged DEF DamageNext, damageVars
    <2> QED
      BY <2>1, <2>2 DEF OneFile
  <1>2. CASE ~OneFile
    BY <1>1, <1>2 DEF ShadowInv
  <1>3. CASE OneFile /\ StoreStep
    BY <1>3, StoreShadow
  <1>4. CASE OneFile /\ Damage
    BY <1>4, DamageShadow, DamageUnchanged
  <1>5. CASE UNCHANGED damageVars
    <2>1. UNCHANGED <<current, dirs, traces, states, writer, job, keep, committed, archive,
                      scenario, damaged>>
      BY <1>5 DEF damageVars, vars
    <2>2. /\ ArchiveInv => ArchiveInv'
          /\ ReachArchived => ReachArchived'
          /\ PathInv => PathInv'
          /\ JobInv => JobInv'
          /\ KeepInv => KeepInv'
      BY <2>1 DEF ArchiveInv, ReachArchived, PathInv, Reaches, Archived, JobInv, ParentOfNext,
                  KeepInv
    <2>3. DamageInv => DamageInv'
      BY <2>1 DEF DamageInv, Differs, StepVerifies, Untouched, AsCommitted, Archived
    <2> QED
      BY <1>1, <2>1, <2>2, <2>3 DEF ShadowInv
  <1> QED
    BY <1>2, <1>3, <1>4, <1>5 DEF DamageNext

(* One file of one committed step is lost, altered or relinked, at any      *)
(* moment of a commit or a recovery, and not by a shortcut.  While          *)
(* verify_current() succeeds, every step has the state, the link and the    *)
(* digests it was committed with.                                           *)
THEOREM DamageNoticed == DamageSpec => []DamageIsNoticed
  <1>1. ShadowInv => DamageIsNoticed
    BY VerifiedAsCommitted DEF DamageIsNoticed, OneFile
  <1> QED
    BY <1>1, ShadowInitially, ShadowInductive, PTL DEF DamageSpec

(* Where no scenario of one file makes a shortcut of the chain, recovery    *)
(* deletes no directory of a committed step, whatever else is damaged       *)
(* before or while it runs.                                                 *)
THEOREM NothingDeleted ==
    ASSUME \A sc \in Scenarios : sc.files = 1 => sc.kinds \cap ShortcutKinds = {}
    PROVE  DamageSpec => HistoryNotDeleted
  <1>1. ShadowInv /\ [DamageNext]_damageVars =>
          [scenario.files = 1 => committed \cap dirs \subseteq dirs']_damageVars
    <2> SUFFICES ASSUME ShadowInv, [DamageNext]_damageVars, scenario.files = 1
                 PROVE  committed \cap dirs \subseteq dirs'
      OBVIOUS
    <2>1. OneFile
      BY DEF OneFile, ShadowInv, DamageTypeOK
    <2> QED
      BY <2>1, ShadowInductive
  <1> QED
    BY <1>1, ShadowInitially, ShadowInductive, PTL DEF DamageSpec, HistoryNotDeleted
=============================================================================
