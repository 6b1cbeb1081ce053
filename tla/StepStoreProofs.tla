--------------------------- MODULE StepStoreProofs ---------------------------
(***************************************************************************)
(* Theorems about the step store, for any graphs, windows, ledgers and     *)
(* submissions.                                                            *)
(*                                                                         *)
(* The chain on disk is the smallest parent-closed set that holds the step *)
(* CURRENT names.  That it is the committed history cannot be shown by     *)
(* induction along the chain; instead the invariant says that EVERY        *)
(* parent-closed set that holds CURRENT's step contains the history, which *)
(* each step preserves.                                                    *)
(***************************************************************************)
EXTENDS StepStore, TLAPS

-----------------------------------------------------------------------------
(* The inductive invariant. *)

(* The committed steps: their files agree, and their parents are committed. *)
HistoryInv ==
    /\ committed = {} <=> current = None
    /\ current # None =>
         /\ current.step \in committed
         /\ states[current.step] = current.successorDigest
         /\ traces[current.step].parent = current.parent
         /\ \E i \in committed : traces[i].parent = None
    /\ \A i \in committed :
         /\ i \in dirs
         /\ StepVerifies(i)
         /\ traces[i].inputDigest = i[1]
         /\ traces[i].inputGraph \in {None, i[1]}
         /\ traces[i].parent # None =>
              /\ traces[i].parent \in committed
              /\ traces[traces[i].parent].successorDigest = traces[i].inputDigest

(* No parent-closed set that holds CURRENT's step misses a committed one. *)
ReachInv ==
    current # None =>
        \A S \in SUBSET StepId : current.step \in S /\ ParentClosed(S) => committed \subseteq S

(* The call in progress writes a new step that extends CURRENT. *)
JobInv ==
    job # None =>
        /\ job.step \notin committed
        /\ job.step \in dirs
        /\ job.trace.inputDigest = job.step[1]
        /\ job.trace.inputGraph \in {None, job.step[1]}
        /\ job.trace.successorDigest = job.graph
        /\ job.trace.successorGraph \in {None, job.graph}
        /\ job.trace.parent = ParentOfNext
        /\ current # None => current.successorDigest = job.step[1]
        /\ writer \in {"state", "pointer"} => traces[job.step] = job.trace
        /\ writer = "pointer" => states[job.step] = job.graph

(* Recovery keeps exactly the committed steps. *)
KeepInv == writer = "sweep" => keep = committed

IInv == TypeOK /\ HistoryInv /\ ReachInv /\ JobInv /\ KeepInv

-----------------------------------------------------------------------------
(* Lemmas. *)

(* The chain read from disk is the committed history. *)
LEMMA ChainLemma ==
    ASSUME TypeOK, HistoryInv, ReachInv
    PROVE  Chain = committed
<1>1. CASE current = None
  BY <1>1 DEF Chain, HistoryInv
<1>2. CASE current # None
  <2>1. committed \in SUBSET StepId /\ current.step \in committed
    BY <1>2 DEF TypeOK, HistoryInv
  <2>2. ParentClosed(committed)
    BY DEF ParentClosed, HistoryInv
  <2>3. Chain \subseteq committed
    BY <1>2, <2>1, <2>2 DEF Chain
  <2>4. committed \subseteq Chain
    BY <1>2, <2>1 DEF Chain, ReachInv
  <2> QED
    BY <2>3, <2>4
<1> QED
  BY <1>1, <1>2

(* A store with that history verifies. *)
LEMMA VerifyLemma ==
    ASSUME TypeOK, HistoryInv, ReachInv
    PROVE  StoreVerifies
<1>1. Chain = committed
  BY ChainLemma
<1>2. ASSUME current # None PROVE Intact(committed)
  BY <1>2 DEF Intact, HistoryInv, StepVerifies
<1> QED
  BY <1>1, <1>2 DEF StoreVerifies, HistoryInv

(* What a submission makes of a call. *)
LEMMA SubmissionType ==
    ASSUME TypeOK, NEW s \in Submissions
    PROVE  /\ StepOf(s) \in StepId
           /\ TraceOf(s) \in Trace
           /\ [step |-> StepOf(s), graph |-> s.graph, trace |-> TraceOf(s)] \in Job
<1>1. s \in Submission
  BY StoreConstants
<1>2. StepOf(s) \in StepId
  BY <1>1 DEF StepOf, StepId, Submission
<1>3. ParentOfNext \in StepId \cup {None}
  BY DEF ParentOfNext, TypeOK, Pointer
<1>4. TraceOf(s) \in Trace
  BY <1>1, <1>3 DEF TraceOf, Trace, Submission
<1> QED
  BY <1>1, <1>2, <1>4 DEF Job, Submission

(* While a call is in progress there is a job; a write is part of a call. *)
LEMMA JobPresent ==
    ASSUME TypeOK, writer \in Staging
    PROVE  /\ job \in Job
           /\ job.step \in StepId /\ job.graph \in Graphs /\ job.trace \in Trace
BY DEF TypeOK, Job

(* Every step of the store keeps the types.                                 *)
LEMMA TypeStep ==
    ASSUME TypeOK, [Next]_vars
    PROVE  TypeOK'
<1>1. ASSUME NEW s \in Submissions, BeginCommit(s)
      PROVE  TypeOK'
  BY <1>1, SubmissionType, StoreConstants DEF BeginCommit, TypeOK, Staging
<1>2. CASE WriteTrace
  BY <1>2, JobPresent DEF WriteTrace, TypeOK, Staging
<1>3. CASE WriteState
  BY <1>3, JobPresent DEF WriteState, TypeOK, Staging
<1>4. CASE SwitchPointer
  <2>1. job \in Job /\ job.trace.parent \in StepId \cup {None}
    BY <1>4, JobPresent DEF SwitchPointer, Staging, Trace
  <2>2. current' \in Pointer
    BY <1>4, <2>1 DEF SwitchPointer, Pointer, Job
  <2> QED
    BY <1>4, <2>1, <2>2 DEF SwitchPointer, TypeOK, Staging, Job
<1>5. CASE BeginRecover
  <2>1. Chain \subseteq StepId
    BY DEF Chain
  <2> QED
    BY <1>5, <2>1 DEF BeginRecover, TypeOK, Staging, files
<1>6. ASSUME NEW i \in StepId, SweepTrace(i) \/ SweepState(i) \/ SweepDir(i)
      PROVE  TypeOK'
  BY <1>6 DEF SweepTrace, SweepState, SweepDir, TypeOK, Staging
<1>7. CASE EndRecover
  BY <1>7 DEF EndRecover, TypeOK, Staging, files
<1>8. CASE Crash
  BY <1>8 DEF Crash, TypeOK, Staging, files
<1>9. CASE UNCHANGED vars
  BY <1>9 DEF TypeOK, vars
<1> QED
  BY <1>1, <1>2, <1>3, <1>4, <1>5, <1>6, <1>7, <1>8, <1>9 DEF Next, Write, Recovery

(* Every variable keeps its type. *)
THEOREM TypeCorrect == Spec => []TypeOK
<1>1. Init => TypeOK
  BY DEF Init, TypeOK, Staging
<1>2. TypeOK /\ [Next]_vars => TypeOK'
  BY TypeStep
<1> QED
  BY <1>1, <1>2, PTL DEF Spec

-----------------------------------------------------------------------------
(* Preservation of the history. *)

(* A step that leaves CURRENT and the committed files alone. *)
OffHistory ==
    /\ UNCHANGED <<current, committed>>
    /\ \A i \in committed : traces'[i] = traces[i] /\ states'[i] = states[i]
    /\ committed \cap dirs \subseteq dirs'

(* Every step but the pointer switch is one: a write goes to a step that is *)
(* not committed, and a sweep to a directory outside the chain.             *)
LEMMA OffHistoryStep ==
    ASSUME TypeOK, JobInv, KeepInv, [Next]_vars
    PROVE  OffHistory \/ SwitchPointer
<1>1. ASSUME NEW s \in Submissions, BeginCommit(s)
      PROVE  OffHistory
  BY <1>1 DEF BeginCommit, OffHistory
<1>2. CASE WriteTrace
  <2>1. job # None /\ job.step \notin committed /\ job.step \in StepId
    BY <1>2, JobPresent DEF WriteTrace, JobInv, TypeOK, Staging
  <2>2. committed \subseteq StepId /\ traces \in [StepId -> Trace \cup {None}]
    BY DEF TypeOK
  <2> QED
    BY <1>2, <2>1, <2>2 DEF WriteTrace, OffHistory
<1>3. CASE WriteState
  <2>1. job # None /\ job.step \notin committed /\ job.step \in StepId
    BY <1>3, JobPresent DEF WriteState, JobInv, TypeOK, Staging
  <2>2. committed \subseteq StepId /\ states \in [StepId -> Graphs \cup {None}]
    BY DEF TypeOK
  <2> QED
    BY <1>3, <2>1, <2>2 DEF WriteState, OffHistory
<1>4. CASE BeginRecover
  BY <1>4 DEF BeginRecover, OffHistory, files
<1>5. ASSUME NEW i \in StepId, SweepTrace(i) \/ SweepState(i) \/ SweepDir(i)
      PROVE  OffHistory
  <2>1. i \notin committed
    BY <1>5 DEF SweepTrace, SweepState, SweepDir, KeepInv
  <2> QED
    BY <1>5, <2>1 DEF SweepTrace, SweepState, SweepDir, OffHistory, TypeOK
<1>6. CASE EndRecover
  BY <1>6 DEF EndRecover, OffHistory, files
<1>7. CASE Crash
  BY <1>7 DEF Crash, OffHistory, files
<1>8. CASE UNCHANGED vars
  BY <1>8 DEF vars, OffHistory
<1> QED
  BY <1>1, <1>2, <1>3, <1>4, <1>5, <1>6, <1>7, <1>8 DEF Next, Write, Recovery

(* The job that is switched to, once both its files are written. *)
LEMMA SwitchedJob ==
    ASSUME TypeOK, JobInv, SwitchPointer
    PROVE  /\ job \in Job /\ job # None /\ job.step \in StepId
           /\ job.step \notin committed /\ job.step \in dirs
           /\ traces[job.step] = job.trace
           /\ states[job.step] = job.graph
           /\ job.trace.parent = ParentOfNext
           /\ job.trace.inputDigest = job.step[1]
           /\ job.trace.successorDigest = job.graph
<1>1. job # None /\ job \in Job /\ job.step \in StepId /\ writer = "pointer"
  BY JobPresent DEF SwitchPointer, TypeOK, Staging
<1> QED
  BY <1>1 DEF JobInv

(* Every step keeps the committed history readable.                         *)
LEMMA HistoryStep ==
    ASSUME IInv, [Next]_vars
    PROVE  HistoryInv'
<1> USE DEF IInv
<1>1. CASE OffHistory
  <2>1. \A i \in committed : StepVerifies(i)' <=> StepVerifies(i)
    BY <1>1 DEF OffHistory, StepVerifies
  <2> QED
    BY <1>1, <2>1 DEF OffHistory, HistoryInv
<1>2. CASE SwitchPointer
  <2> DEFINE j == job.step
  <2>1. /\ current' = [step |-> j, successorDigest |-> job.graph, parent |-> job.trace.parent]
        /\ committed' = committed \cup {j}
        /\ UNCHANGED <<dirs, traces, states>>
    BY <1>2 DEF SwitchPointer
  <2>2. /\ job \in Job /\ j \in StepId /\ j \in dirs
        /\ traces[j] = job.trace /\ states[j] = job.graph
    BY <1>2, SwitchedJob
  <2>3. current' # None /\ traces[j] # None /\ states[j] # None
    <3>1. TypeOK'
      BY TypeStep
    <3>2. job.trace \in Trace /\ job.graph \in Graphs
      BY <2>2 DEF Job
    <3>3. current' \in Pointer
      BY <2>1, <2>2, <3>2 DEF Pointer, Trace
    <3> QED
      BY <2>2, <3>2, <3>3, StoreConstants
  <2>4. \A i \in committed \cup {j} : StepVerifies(i)'
    <3>1. job.trace.successorDigest = job.graph /\ job.trace.successorGraph \in {None, job.graph}
      BY <1>2, SwitchedJob DEF JobInv
    <3> QED
      BY <2>1, <2>2, <2>3, <3>1 DEF StepVerifies, HistoryInv
  <2>5. traces[j].inputDigest = j[1] /\ traces[j].inputGraph \in {None, j[1]}
    BY <1>2, <2>2, SwitchedJob DEF JobInv
  <2>6. traces[j].parent = ParentOfNext
    BY <1>2, SwitchedJob
  <2>7. \E i \in committed' : traces'[i].parent = None
    BY <2>1, <2>6 DEF ParentOfNext, HistoryInv
  <2>8. ASSUME traces[j].parent # None
        PROVE  /\ traces[j].parent \in committed
               /\ traces[traces[j].parent].successorDigest = traces[j].inputDigest
    <3>1. current # None /\ traces[j].parent = current.step
      BY <2>6, <2>8 DEF ParentOfNext
    <3>2. states[current.step] = j[1] /\ StepVerifies(current.step)
      BY <1>2, <3>1, SwitchedJob DEF HistoryInv, JobInv
    <3> QED
      BY <2>5, <3>1, <3>2 DEF StepVerifies, HistoryInv
  <2>9. \A i \in committed \cup {j} :
          /\ i \in dirs
          /\ traces[i].inputDigest = i[1]
          /\ traces[i].inputGraph \in {None, i[1]}
          /\ traces[i].parent # None =>
               /\ traces[i].parent \in committed
               /\ traces[traces[i].parent].successorDigest = traces[i].inputDigest
    BY <2>2, <2>5, <2>8 DEF HistoryInv
  <2>10. /\ current'.step \in committed'
         /\ states'[current'.step] = current'.successorDigest
         /\ traces'[current'.step].parent = current'.parent
    BY <2>1, <2>2
  <2> HIDE DEF j
  <2> QED
    BY <2>1, <2>3, <2>4, <2>7, <2>9, <2>10 DEF HistoryInv
<1> QED
  BY <1>1, <1>2, OffHistoryStep

(* Every step keeps the pointer able to reach every committed step.         *)
LEMMA ReachStep ==
    ASSUME IInv, [Next]_vars
    PROVE  ReachInv'
<1> USE DEF IInv
<1> SUFFICES ASSUME current' # None, NEW S \in SUBSET StepId,
                    current'.step \in S, ParentClosed(S)'
             PROVE  committed' \subseteq S
  BY DEF ReachInv
<1>1. CASE OffHistory
  \* S need not be closed before the step, but its committed part is.
  <2> DEFINE T == S \cap committed
  <2>1. T \in SUBSET StepId /\ current.step \in T
    BY <1>1 DEF OffHistory, HistoryInv
  <2>2. ParentClosed(T)
    BY <1>1 DEF OffHistory, ParentClosed, HistoryInv
  <2> QED
    BY <1>1, <2>1, <2>2 DEF OffHistory, ReachInv
<1>2. CASE SwitchPointer
  <2>1. /\ current'.step = job.step
        /\ committed' = committed \cup {job.step}
        /\ ParentClosed(S)
    BY <1>2 DEF SwitchPointer, ParentClosed
  <2>2. traces[job.step] # None /\ traces[job.step].parent = ParentOfNext
    <3>1. job.trace # None
      BY <1>2, SwitchedJob, StoreConstants DEF Job
    <3> QED
      BY <1>2, <3>1, SwitchedJob
  <2>3. ParentOfNext \in S \cup {None}
    BY <2>1, <2>2 DEF ParentClosed
  <2>4. CASE current = None
    BY <2>1, <2>4 DEF HistoryInv
  <2>5. CASE current # None
    <3>1. current.step # None
      BY <2>5, StoreConstants DEF TypeOK, Pointer
    <3>2. current.step \in S
      BY <2>3, <2>5, <3>1 DEF ParentOfNext
    <3> QED
      BY <2>1, <2>5, <3>2 DEF ReachInv
  <2> QED
    BY <2>4, <2>5
<1> QED
  BY <1>1, <1>2, OffHistoryStep

-----------------------------------------------------------------------------
(* Preservation of what is known of a call and of a recovery in progress. *)

(* The checks of commit_step establish what the writes rely on. *)
LEMMA BeginJob ==
    ASSUME StoreVerifies => Chain = committed, NEW s \in Submissions, BeginCommit(s)
    PROVE  JobInv'
<1>1. Chain = committed
  BY DEF BeginCommit, Accepts
<1>2. s \in Submission
  BY StoreConstants
<1>3. job' = [step |-> StepOf(s), graph |-> s.graph, trace |-> TraceOf(s)]
  BY DEF BeginCommit
<1>4. StepOf(s) \notin committed
  BY <1>1 DEF BeginCommit, Accepts, IsDuplicate
<1>5. StepOf(s)[1] = s.input
  BY DEF StepOf
<1>6. current # None => current.successorDigest = s.input
  BY DEF BeginCommit, Accepts, ExtendsCurrent
<1>7. s.successorGraph \in {None, s.graph} /\ s.inputGraph \in {None, s.input}
  BY DEF BeginCommit, Accepts, WellFormed
<1>8. /\ UNCHANGED <<current, committed>> /\ writer' = "trace"
      /\ StepOf(s) \in dirs' /\ ParentOfNext' = ParentOfNext
  BY DEF BeginCommit, ParentOfNext
<1> QED
  BY <1>3, <1>4, <1>5, <1>6, <1>7, <1>8 DEF JobInv, TraceOf

(* Every step keeps the commit or recovery in progress consistent.          *)
LEMMA JobStep ==
    ASSUME TypeOK, JobInv, StoreVerifies => Chain = committed, [Next]_vars
    PROVE  JobInv'
<1>1. ASSUME NEW s \in Submissions, BeginCommit(s)
      PROVE  JobInv'
  BY <1>1, BeginJob
<1>2. CASE WriteTrace
  <2>1. traces'[job.step] = job.trace
    BY <1>2, JobPresent DEF WriteTrace, TypeOK, Staging
  <2> QED
    BY <1>2, <2>1 DEF WriteTrace, JobInv, ParentOfNext
<1>3. CASE WriteState
  <2>1. states'[job.step] = job.graph
    BY <1>3, JobPresent DEF WriteState, TypeOK, Staging
  <2> QED
    BY <1>3, <2>1 DEF WriteState, JobInv, ParentOfNext
<1>4. CASE SwitchPointer
  BY <1>4 DEF SwitchPointer, JobInv
<1>5. CASE BeginRecover
  BY <1>5 DEF BeginRecover, TypeOK, Staging, JobInv
<1>6. ASSUME NEW i \in StepId, SweepTrace(i) \/ SweepState(i) \/ SweepDir(i)
      PROVE  JobInv'
  BY <1>6 DEF SweepTrace, SweepState, SweepDir, TypeOK, Staging, JobInv
<1>7. CASE EndRecover
  BY <1>7 DEF EndRecover, TypeOK, Staging, JobInv
<1>8. CASE Crash
  BY <1>8 DEF Crash, JobInv
<1>9. CASE UNCHANGED vars
  BY <1>9 DEF vars, JobInv, ParentOfNext
<1> QED
  BY <1>1, <1>2, <1>3, <1>4, <1>5, <1>6, <1>7, <1>8, <1>9 DEF Next, Write, Recovery

(* Every step keeps what a recovery may not sweep.                          *)
LEMMA KeepStep ==
    ASSUME KeepInv, StoreVerifies => Chain = committed, [Next]_vars
    PROVE  KeepInv'
<1>1. BeginRecover => Chain = committed
  BY DEF BeginRecover
<1>2. ASSUME NEW s \in Submissions, BeginCommit(s)
      PROVE  KeepInv'
  BY <1>2 DEF BeginCommit, KeepInv
<1>3. CASE Write
  BY <1>3 DEF Write, WriteTrace, WriteState, SwitchPointer, KeepInv
<1>4. CASE Recovery
  BY <1>1, <1>4 DEF Recovery, BeginRecover, SweepTrace, SweepState, SweepDir, EndRecover,
                    files, KeepInv
<1>5. CASE Crash
  BY <1>5 DEF Crash, KeepInv
<1>6. CASE UNCHANGED vars
  BY <1>6 DEF vars, KeepInv
<1> QED
  BY <1>2, <1>3, <1>4, <1>5, <1>6 DEF Next

-----------------------------------------------------------------------------
(* Theorems. *)

(* The invariant holds of every reachable state. *)
THEOREM Inductive == Spec => []IInv
<1>1. Init => IInv
  BY DEF Init, IInv, TypeOK, Staging, HistoryInv, ReachInv, JobInv, KeepInv
<1>2. IInv /\ [Next]_vars => IInv'
  BY ChainLemma, TypeStep, HistoryStep, ReachStep, JobStep, KeepStep DEF IInv
<1> QED
  BY <1>1, <1>2, PTL DEF Spec

(* At every point, between any two file writes of a commit or a recovery    *)
(* and after any crash, CURRENT and every committed predecessor verify.     *)
THEOREM Consistency == Spec => []AlwaysVerifies
<1>1. IInv => AlwaysVerifies
  BY VerifyLemma DEF IInv, AlwaysVerifies
<1> QED
  BY <1>1, Inductive, PTL

(* The chain found by walking the parent links on disk is exactly the       *)
(* history of the steps CURRENT has named.                                  *)
THEOREM History == Spec => []ChainIsHistory
<1>1. IInv => ChainIsHistory
  BY ChainLemma DEF IInv, ChainIsHistory
<1> QED
  BY <1>1, Inductive, PTL

(* Every committed trace describes the step it is filed under. *)
THEOREM TraceIdentity == Spec => []TraceMatchesId
<1>1. IInv => TraceMatchesId
  BY DEF IInv, HistoryInv, TraceMatchesId
<1> QED
  BY <1>1, Inductive, PTL

(* No step of a commit, of a crash, of a retry or of a recovery touches the *)
(* artefacts of a committed step.                                           *)
THEOREM Immutability == Spec => CommittedImmutable
<1>1. IInv /\ [Next]_vars =>
        [\A i \in committed : traces'[i] = traces[i] /\ states'[i] = states[i] /\ i \in dirs']_vars
  <2> SUFFICES ASSUME IInv, [Next]_vars, NEW i \in committed
               PROVE  traces'[i] = traces[i] /\ states'[i] = states[i] /\ i \in dirs'
    OBVIOUS
  <2>1. i \in dirs
    BY DEF IInv, HistoryInv
  <2>2. CASE OffHistory
    BY <2>1, <2>2 DEF OffHistory
  <2>3. CASE SwitchPointer
    BY <2>1, <2>3 DEF SwitchPointer
  <2> QED
    BY <2>2, <2>3, OffHistoryStep DEF IInv
<1> QED
  BY <1>1, Inductive, PTL DEF Spec, CommittedImmutable

(* The store implements the append-only log: what a reader sees on the      *)
(* chain only ever grows, by one new step that starts from the graph the    *)
(* last one produced.                                                       *)
THEOREM Refinement == Spec => ImplementsLog
<1> DEFINE entry(i) == [graph |-> states[i], parent |-> traces[i].parent, ledger |-> traces[i].ledger]
<1>1. Init => Log!Init
  BY DEF Init, Log!Init, HeadView, LogView, Chain, Log!StepId, StepId
<1>2. IInv => Chain = committed
  BY ChainLemma DEF IInv
<1>3. IInv' => (Chain = committed)'
  BY <1>2, PTL
<1>4. ASSUME IInv, IInv', [Next]_vars
      PROVE  [Log!Next]_(Log!logVars)
  <2>1. LogView = [i \in StepId |-> IF i \in committed THEN entry(i) ELSE None]
    BY <1>4, <1>2 DEF LogView
  <2>2. LogView' = [i \in StepId |-> IF i \in committed' THEN entry(i)' ELSE None]
    <3>1. Chain' = committed'
      BY <1>4, <1>3
    <3> QED
      BY <3>1 DEF LogView
  <2>3. CASE OffHistory
    <3>1. HeadView' = HeadView
      BY <2>3 DEF OffHistory, HeadView
    <3>2. LogView' = LogView
      BY <2>1, <2>2, <2>3 DEF OffHistory
    <3> QED
      BY <3>1, <3>2 DEF Log!logVars
  <2>4. CASE SwitchPointer
    <3> DEFINE j == job.step
               g == job.graph
               l == job.trace.ledger
    <3>1. /\ j \in StepId /\ g \in Graphs /\ l \in Ledgers \cup {None}
          /\ j \notin committed
      BY <1>4, <2>4, SwitchedJob DEF IInv, Job, Trace
    <3>2. HeadView' = j
      BY <2>4, <1>4, SwitchedJob, StoreConstants DEF SwitchPointer, HeadView, IInv, TypeOK, Pointer, HistoryInv
    <3>3. LogView[j] = None
      BY <2>1, <3>1
    <3>4. ASSUME HeadView # None
          PROVE  LogView[HeadView].graph = j[1]
      <4>1. current # None /\ HeadView = current.step
        BY <3>4 DEF HeadView
      <4>2. current.step \in committed /\ current.step \in StepId
        BY <1>4, <4>1 DEF IInv, HistoryInv, TypeOK
      <4>3. states[current.step] = j[1]
        BY <1>4, <2>4, <4>1, SwitchedJob DEF IInv, HistoryInv, JobInv
      <4> QED
        BY <2>1, <4>1, <4>2, <4>3
    <3>5. LogView' = [LogView EXCEPT ![j] = [graph |-> g, parent |-> HeadView, ledger |-> l]]
      <4>1. /\ committed' = committed \cup {j}
            /\ UNCHANGED <<traces, states>>
        BY <2>4 DEF SwitchPointer
      <4>2. entry(j) = [graph |-> g, parent |-> HeadView, ledger |-> l]
        BY <1>4, <2>4, SwitchedJob DEF IInv, ParentOfNext, HeadView
      <4>3. \A i : entry(i)' = [graph |-> states'[i], parent |-> traces'[i].parent, ledger |-> traces'[i].ledger]
        OBVIOUS
      <4> QED
        BY <2>1, <2>2, <3>1, <4>1, <4>2
    <3>6. Log!Append(j, g, l)
      BY <3>2, <3>3, <3>4, <3>5 DEF Log!Append
    <3> QED
      BY <3>1, <3>6 DEF Log!Next, Log!StepId, StepId
  <2> QED
    BY <1>4, <2>3, <2>4, OffHistoryStep DEF IInv
<1> QED
  BY <1>1, <1>4, Inductive, PTL DEF Spec, ImplementsLog, Log!Spec
=============================================================================
