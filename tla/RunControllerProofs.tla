------------------------- MODULE RunControllerProofs -------------------------
(***************************************************************************)
(* Theorems about restart-safe evaluation steps, for any graphs, windows,  *)
(* records, identifiers and engine.                                        *)
(*                                                                         *)
(* The controller's steps are steps of the store, so the invariant of      *)
(* StepStoreProofs holds; to it the invariant here adds what the call in   *)
(* progress owes to the ledger CURRENT names, which no one changes until   *)
(* the pointer is switched, and what the committed steps have evaluated.   *)
(***************************************************************************)
EXTENDS RunController, TLAPS

SP == INSTANCE StepStoreProofs WITH Submissions <- EngineSubmissions

-----------------------------------------------------------------------------
(* The inductive invariant. *)

TypeInv ==
    /\ arrived \subseteq Records
    /\ ran \in [SP!StepId -> [mode : Modes, events : SUBSET Records] \cup {None}]

(* The call in progress evaluated what ran says, and under consume-once     *)
(* delivery none of it is on the ledger it resumed from.                    *)
CallInv ==
    job # None =>
        /\ ran[job.step] # None
        /\ job.graph = Engine[<<job.step[1], ran[job.step].events>>]
        /\ ran[job.step].mode = "consume_once" =>
             /\ IdsOf(ran[job.step].events) \cap SP!CurrentLedger({}) = {}
             /\ job.trace.ledger = SP!CurrentLedger({}) \cup IdsOf(ran[job.step].events)

(* So did each committed step. *)
EvaluatedInv ==
    \A i \in committed : ran[i] # None /\ states[i] = Engine[<<i[1], ran[i].events>>]

(* If all steps are consume-once steps, the ledger is what they evaluated,  *)
(* and they evaluated no identifier twice.                                  *)
LedgerInv ==
    Modes = {"consume_once"} =>
        /\ SP!CurrentLedger({}) = UNION {IdsOf(ran[i].events) : i \in committed}
        /\ \A i, j \in committed :
             i # j => IdsOf(ran[i].events) \cap IdsOf(ran[j].events) = {}

RunInv == SP!IInv /\ TypeInv /\ CallInv /\ EvaluatedInv /\ LedgerInv

-----------------------------------------------------------------------------
(* The controller's steps are steps of the store. *)

(* The controller resumes from a graph and a ledger. *)
LEMMA Resumes ==
    ASSUME SP!IInv
    PROVE  /\ SP!CurrentState(InitialGraph) \in Graphs
           /\ SP!CurrentLedger({}) \in Ledgers
<1>1. CASE current = None
  BY <1>1, ControllerConstants DEF SP!CurrentState, SP!CurrentLedger, Ledgers
<1>2. CASE current # None
  <2>1. /\ current.step \in SP!StepId
        /\ current.step \in committed
        /\ states[current.step] = current.successorDigest
        /\ current.successorDigest \in Graphs
    BY <1>2 DEF SP!IInv, SP!TypeOK, SP!HistoryInv, SP!Pointer
  <2>2. traces[current.step] = None \/ traces[current.step].ledger \in Ledgers \cup {None}
    BY <2>1 DEF SP!IInv, SP!TypeOK, SP!Trace
  <2> QED
    BY <1>2, <2>1, <2>2 DEF SP!CurrentState, SP!CurrentLedger, Ledgers
<1> QED
  BY <1>1, <1>2

(* What a call submits is one of the submissions of the store. *)
LEMMA Submits ==
    ASSUME SP!IInv, TypeInv, NEW w \in Windows, NEW m \in Modes
    PROVE  /\ Visible(w, m) \subseteq Records
           /\ LedgerAfter(w, m) \in Ledgers
           /\ Submitted(w, m) \in EngineSubmissions
<1>1. Visible(w, m) \subseteq Records
  BY DEF Visible, TypeInv
<1>2. Store!CurrentLedger({}) \in Ledgers /\ Store!CurrentState(InitialGraph) \in Graphs
  BY Resumes DEF Store!CurrentLedger, SP!CurrentLedger, Store!CurrentState, SP!CurrentState
<1>3. LedgerAfter(w, m) \in Ledgers
  BY <1>1, <1>2 DEF LedgerAfter, LedgerBefore, Ledgers, IdsOf, Eids
<1> QED
  BY <1>1, <1>2, <1>3 DEF Submitted, EngineSubmissions

(* The two names of the store are one. *)
LEMMA SameCalls ==
    ASSUME NEW s
    PROVE  Store!BeginCommit(s) <=> SP!BeginCommit(s)
BY DEF Store!BeginCommit, SP!BeginCommit, Store!Accepts, SP!Accepts, Store!WellFormed, SP!WellFormed,
       Store!StoreVerifies, SP!StoreVerifies, Store!Chain, SP!Chain, Store!Intact, SP!Intact,
       Store!ParentClosed, SP!ParentClosed, Store!StepVerifies, SP!StepVerifies, Store!StepId, SP!StepId,
       Store!IsDuplicate, SP!IsDuplicate, Store!ExtendsCurrent, SP!ExtendsCurrent,
       Store!StepOf, SP!StepOf, Store!TraceOf, SP!TraceOf, Store!ParentOfNext, SP!ParentOfNext

(* So are what they read of it. *)
LEMMA SameReading ==
    /\ Store!Chain = SP!Chain
    /\ Store!StoreVerifies <=> SP!StoreVerifies
BY DEF Store!StoreVerifies, SP!StoreVerifies, Store!Chain, SP!Chain, Store!Intact, SP!Intact,
       Store!ParentClosed, SP!ParentClosed, Store!StepVerifies, SP!StepVerifies, Store!StepId, SP!StepId

(* The steps of the two instances of the store are the same.                *)
LEMMA SameWork ==
    /\ Store!Write <=> SP!Write
    /\ Store!Recovery <=> SP!Recovery
    /\ Store!Crash <=> SP!Crash
BY DEF Store!Write, SP!Write, Store!WriteTrace, SP!WriteTrace, Store!WriteState, SP!WriteState,
       Store!SwitchPointer, SP!SwitchPointer, Store!Recovery, SP!Recovery,
       Store!BeginRecover, SP!BeginRecover, Store!SweepTrace, SP!SweepTrace, Store!SweepState, SP!SweepState,
       Store!SweepDir, SP!SweepDir, Store!EndRecover, SP!EndRecover, Store!Crash, SP!Crash,
       Store!StoreVerifies, SP!StoreVerifies, Store!Chain, SP!Chain, Store!Intact, SP!Intact,
       Store!ParentClosed, SP!ParentClosed, Store!StepVerifies, SP!StepVerifies, Store!StepId, SP!StepId,
       Store!files, SP!files

(* Every step of a run is one of the store, or leaves the store alone.      *)
LEMMA StepOfStore ==
    ASSUME SP!IInv, TypeInv, [RunNext]_runVars
    PROVE  [SP!Next]_(SP!vars)
<1>1. ASSUME NEW r \in Records, Arrive(r)
      PROVE  UNCHANGED SP!vars
  BY <1>1 DEF Arrive, storeVars, SP!vars
<1>2. ASSUME NEW w \in Windows, NEW m \in Modes, RunStep(w, m)
      PROVE  SP!Next
  BY <1>2, Submits, SameCalls DEF RunStep, SP!Next
<1>3. CASE StoreWork
  BY <1>3, SameWork DEF StoreWork, SP!Next
<1>4. CASE UNCHANGED runVars
  BY <1>4 DEF runVars, storeVars, SP!vars
<1> QED
  BY <1>1, <1>2, <1>3, <1>4 DEF RunNext

(* The assumption StepStoreProofs makes of its constants.                   *)
LEMMA Constants ==
    /\ None \notin Graphs \cup Ledgers \cup SP!StepId
    /\ None \notin SP!Trace /\ None \notin SP!Pointer /\ None \notin SP!Job
    /\ EngineSubmissions \subseteq SP!Submission
<1>1. ASSUME NEW s \in EngineSubmissions
      PROVE  s \in SP!Submission
  <2>1. PICK g \in Graphs, w \in Windows, E \in SUBSET Records, l \in Ledgers :
           s = Evaluation(g, w, E, l)
    BY <1>1 DEF EngineSubmissions
  <2>2. Engine[<<g, E>>] \in Graphs
    BY ControllerConstants
  <2> QED
    BY <2>1, <2>2 DEF Evaluation, SP!Submission
<1> QED
  BY <1>1, ControllerConstants
     DEF Store!StepId, Store!Trace, Store!Pointer, Store!Job, SP!StepId, SP!Trace, SP!Pointer, SP!Job

(* The store's steps keep its invariant.                                    *)
LEMMA StoreKeepsInv ==
    ASSUME SP!IInv, [SP!Next]_(SP!vars)
    PROVE  SP!IInv'
<1>1. SP!TypeOK /\ SP!HistoryInv /\ SP!ReachInv /\ SP!JobInv /\ SP!KeepInv
  BY DEF SP!IInv
<1>2. SP!Chain = committed
  BY <1>1, SP!ChainLemma, Constants
<1> QED
  BY <1>1, <1>2, SP!TypeStep, SP!HistoryStep, SP!ReachStep, SP!JobStep, SP!KeepStep, Constants
     DEF SP!IInv

-----------------------------------------------------------------------------
(* Preservation. *)

(* Nothing but a pointer switch changes what the next call resumes from.    *)
LEMMA LedgerKept ==
    ASSUME SP!IInv, SP!OffHistory
    PROVE  SP!CurrentLedger({})' = SP!CurrentLedger({})
<1>1. current # None => current.step \in committed
  BY DEF SP!IInv, SP!HistoryInv
<1> QED
  BY <1>1 DEF SP!OffHistory, SP!CurrentLedger

(* A step of the store that is neither a call nor a switch goes on with the *)
(* call in progress or ends it.                                             *)
LEMMA WorkKeepsJob ==
    ASSUME SP!Write \/ SP!Recovery \/ SP!Crash
    PROVE  SP!SwitchPointer \/ job' = job \/ job' = None
BY DEF SP!Write, SP!WriteTrace, SP!WriteState, SP!Recovery, SP!BeginRecover, SP!SweepTrace,
       SP!SweepState, SP!SweepDir, SP!EndRecover, SP!Crash

(* A step that leaves the history alone keeps the ledgers.                  *)
LEMMA QuietStep ==
    ASSUME RunInv, SP!OffHistory, job' = job \/ job' = None, UNCHANGED ran
    PROVE  CallInv' /\ EvaluatedInv' /\ LedgerInv'
<1>1. SP!CurrentLedger({})' = SP!CurrentLedger({})
  BY LedgerKept DEF RunInv
<1>2. CallInv'
  BY <1>1 DEF RunInv, CallInv
<1>3. EvaluatedInv'
  BY DEF RunInv, EvaluatedInv, SP!OffHistory
<1>4. LedgerInv'
  BY <1>1 DEF RunInv, LedgerInv, SP!OffHistory
<1> QED
  BY <1>2, <1>3, <1>4

(* A call evaluates what is not on the ledger and owes it to the ledger.    *)
LEMMA CallStep ==
    ASSUME RunInv, NEW w \in Windows, NEW m \in Modes, RunStep(w, m)
    PROVE  TypeInv' /\ CallInv' /\ EvaluatedInv' /\ LedgerInv'
<1> DEFINE s == Submitted(w, m)
           i == <<s.input, s.window>>
           E == Visible(w, m)
<1>1. s \in EngineSubmissions /\ E \subseteq Records
  BY Submits DEF RunInv
<1>2. SP!BeginCommit(s) /\ UNCHANGED arrived
  BY SameCalls DEF RunStep
<1>3. i \in SP!StepId /\ i = Store!StepOf(s) /\ i = SP!StepOf(s)
  BY <1>1, Constants DEF SP!StepId, SP!Submission, Store!StepOf, SP!StepOf
<1>4. ran' = [ran EXCEPT ![i] = [mode |-> m, events |-> E]]
  BY <1>3 DEF RunStep
<1>5. i \notin committed
  BY <1>2, <1>3, SP!ChainLemma, Constants DEF RunInv, SP!IInv, SP!BeginCommit, SP!Accepts, SP!IsDuplicate
<1>6. UNCHANGED <<current, committed, states, traces>>
  BY <1>2 DEF SP!BeginCommit
<1>7. \A k \in committed : k \in SP!StepId /\ k # i /\ ran'[k] = ran[k]
  BY <1>4, <1>5 DEF RunInv, TypeInv, SP!IInv, SP!TypeOK
<1>8. ran'[i] = [mode |-> m, events |-> E] /\ ran'[i] # None
  BY <1>1, <1>3, <1>4, ControllerConstants DEF RunInv, TypeInv
<1>9. TypeInv'
  BY <1>1, <1>2, <1>3, <1>4 DEF RunInv, TypeInv
<1>10. SP!CurrentLedger({})' = SP!CurrentLedger({}) /\ SP!CurrentLedger({}) = Store!CurrentLedger({})
  BY <1>6 DEF SP!CurrentLedger, Store!CurrentLedger
<1>11. CallInv'
  <2>1. job'.step = i /\ job'.graph = Engine[<<i[1], E>>] /\ job'.trace.ledger = LedgerAfter(w, m)
    BY <1>2, <1>3 DEF SP!BeginCommit, SP!TraceOf, Submitted, Evaluation
  <2>2. m = "consume_once" =>
          /\ IdsOf(E) \cap SP!CurrentLedger({}) = {}
          /\ LedgerAfter(w, m) = SP!CurrentLedger({}) \cup IdsOf(E)
    BY <1>10 DEF LedgerAfter, LedgerBefore, Visible, IdsOf
  <2> QED
    BY <1>8, <1>10, <2>1, <2>2 DEF CallInv
<1>12. EvaluatedInv'
  BY <1>6, <1>7 DEF RunInv, EvaluatedInv
<1>13. LedgerInv'
  BY <1>6, <1>7, <1>10 DEF RunInv, LedgerInv
<1> QED
  BY <1>9, <1>11, <1>12, <1>13

(* The switch puts on the ledger what the step evaluated, once.             *)
LEMMA SwitchStep ==
    ASSUME RunInv, SP!SwitchPointer, UNCHANGED <<arrived, ran>>
    PROVE  CallInv' /\ EvaluatedInv' /\ LedgerInv'
<1> DEFINE j == job.step
<1>1. /\ job # None /\ j \in SP!StepId /\ j \notin committed
      /\ traces[j] = job.trace /\ states[j] = job.graph /\ traces[j] # None
      /\ job.trace \in SP!Trace
  BY SP!SwitchedJob, Constants DEF RunInv, SP!IInv, SP!Job
<1>2. /\ committed' = committed \cup {j} /\ job' = None /\ current'.step = j /\ current' # None
      /\ UNCHANGED <<traces, states>>
  <2>1. /\ committed' = committed \cup {j} /\ job' = None
        /\ current' = [step |-> j, successorDigest |-> job.graph, parent |-> job.trace.parent]
        /\ UNCHANGED <<traces, states>>
    BY DEF SP!SwitchPointer
  <2>2. current' # None
    BY SP!TypeStep, <2>1, <1>1, Constants DEF SP!Pointer, RunInv, SP!IInv, SP!TypeOK, SP!Job, SP!Trace
  <2> QED
    BY <2>1, <2>2
<1>3. CallInv'
  BY <1>2 DEF CallInv
<1>4. ran[j] # None /\ job.graph = Engine[<<j[1], ran[j].events>>]
  BY <1>1 DEF RunInv, CallInv
<1>5. EvaluatedInv'
  BY <1>1, <1>2, <1>4 DEF RunInv, EvaluatedInv
<1>6. ASSUME Modes = {"consume_once"}
      PROVE  /\ SP!CurrentLedger({})' = SP!CurrentLedger({}) \cup IdsOf(ran[j].events)
             /\ IdsOf(ran[j].events) \cap SP!CurrentLedger({}) = {}
  <2>1. ran[j].mode = "consume_once" /\ IdsOf(ran[j].events) \subseteq Eids
    BY <1>1, <1>4, <1>6 DEF RunInv, TypeInv, IdsOf, Eids
  <2>2. /\ IdsOf(ran[j].events) \cap SP!CurrentLedger({}) = {}
        /\ job.trace.ledger = SP!CurrentLedger({}) \cup IdsOf(ran[j].events)
    BY <1>1, <2>1 DEF RunInv, CallInv
  <2>3. job.trace.ledger # None
    BY <2>1, <2>2, Resumes, ControllerConstants DEF RunInv, Ledgers
  <2> QED
    BY <1>1, <1>2, <2>2, <2>3 DEF SP!CurrentLedger
<1>7. LedgerInv'
  <2> SUFFICES ASSUME Modes = {"consume_once"}
               PROVE  /\ SP!CurrentLedger({})' = UNION {IdsOf(ran'[i].events) : i \in committed'}
                      /\ \A i, k \in committed' :
                           i # k => IdsOf(ran'[i].events) \cap IdsOf(ran'[k].events) = {}
    BY DEF LedgerInv
  <2>1. /\ SP!CurrentLedger({}) = UNION {IdsOf(ran[i].events) : i \in committed}
        /\ \A i, k \in committed : i # k => IdsOf(ran[i].events) \cap IdsOf(ran[k].events) = {}
    BY DEF RunInv, LedgerInv
  <2>2. \A i \in committed : IdsOf(ran[i].events) \cap IdsOf(ran[j].events) = {}
    BY <1>6, <2>1
  <2>3. ran' = ran
    OBVIOUS
  <2>4. UNION {IdsOf(ran[i].events) : i \in committed \cup {j}}
          = (UNION {IdsOf(ran[i].events) : i \in committed}) \cup IdsOf(ran[j].events)
    <3> DEFINE F(i) == IdsOf(ran[i].events)
    <3> HIDE DEF F
    <3>1. UNION {F(i) : i \in committed \cup {j}} = (UNION {F(i) : i \in committed}) \cup F(j)
      OBVIOUS
    <3> QED
      BY <3>1 DEF F
  <2>5. SP!CurrentLedger({})' = UNION {IdsOf(ran'[i].events) : i \in committed'}
    BY <1>2, <1>6, <2>1, <2>3, <2>4
  <2>6. ASSUME NEW i \in committed', NEW k \in committed', i # k
        PROVE  IdsOf(ran'[i].events) \cap IdsOf(ran'[k].events) = {}
    <3>1. CASE i \in committed /\ k \in committed
      BY <2>1, <2>3, <2>6, <3>1
    <3>2. CASE i = j \/ k = j
      BY <1>2, <2>2, <2>3, <2>6, <3>2
    <3> QED
      BY <1>2, <3>1, <3>2
  <2> QED
    BY <2>5, <2>6
<1> QED
  BY <1>3, <1>5, <1>7

(* Every step of the controller keeps its invariant.                        *)
LEMMA RunInvStep ==
    ASSUME RunInv, [RunNext]_runVars
    PROVE  RunInv'
<1>1. [SP!Next]_(SP!vars)
  BY StepOfStore DEF RunInv
<1>2. SP!IInv'
  BY <1>1, StoreKeepsInv DEF RunInv
<1>3. SP!OffHistory \/ SP!SwitchPointer
  BY <1>1, SP!OffHistoryStep, Constants DEF RunInv, SP!IInv
<1>4. ASSUME NEW r \in Records, Arrive(r)
      PROVE  TypeInv' /\ CallInv' /\ EvaluatedInv' /\ LedgerInv'
  <2>1. SP!OffHistory /\ job' = job /\ UNCHANGED ran
    BY <1>4 DEF Arrive, storeVars, SP!OffHistory
  <2> QED
    BY <1>4, <2>1, QuietStep DEF Arrive, RunInv, TypeInv
<1>5. ASSUME NEW w \in Windows, NEW m \in Modes, RunStep(w, m)
      PROVE  TypeInv' /\ CallInv' /\ EvaluatedInv' /\ LedgerInv'
  BY <1>5, CallStep
<1>6. ASSUME StoreWork
      PROVE  TypeInv' /\ CallInv' /\ EvaluatedInv' /\ LedgerInv'
  <2>1. (SP!Write \/ SP!Recovery \/ SP!Crash) /\ UNCHANGED <<arrived, ran>>
    BY <1>6, SameWork DEF StoreWork
  <2>2. TypeInv'
    BY <2>1 DEF RunInv, TypeInv
  <2> QED
    BY <1>3, <2>1, <2>2, WorkKeepsJob, QuietStep, SwitchStep
<1>7. ASSUME UNCHANGED runVars
      PROVE  TypeInv' /\ CallInv' /\ EvaluatedInv' /\ LedgerInv'
  <2>1. SP!OffHistory /\ job' = job /\ UNCHANGED <<arrived, ran>>
    BY <1>7 DEF runVars, storeVars, SP!OffHistory
  <2> QED
    BY <2>1, QuietStep DEF RunInv, TypeInv
<1> QED
  BY <1>2, <1>4, <1>5, <1>6, <1>7 DEF RunNext, RunInv

-----------------------------------------------------------------------------
(* Theorems. *)

(* The invariant holds of every reachable state. *)
THEOREM RunInductive == RunSpec => []RunInv
<1>1. RunInit => SP!Init
  BY DEF RunInit, Store!Init, SP!Init, Store!StepId, SP!StepId
<1>2. SP!Init => SP!IInv
  BY DEF SP!Init, SP!IInv, SP!TypeOK, SP!Staging, SP!HistoryInv, SP!ReachInv, SP!JobInv, SP!KeepInv
<1>3. RunInit => TypeInv /\ CallInv /\ EvaluatedInv /\ LedgerInv
  BY DEF RunInit, Store!Init, Store!StepId, SP!StepId, SP!CurrentLedger, TypeInv, CallInv, EvaluatedInv, LedgerInv
<1>4. RunInit => RunInv
  BY <1>1, <1>2, <1>3 DEF RunInv
<1>5. RunInv /\ [RunNext]_runVars => RunInv'
  BY RunInvStep
<1> QED
  BY <1>4, <1>5, PTL DEF RunSpec

(* A run uses the store as the store's specification allows, so that what   *)
(* StepStoreProofs shows of the store holds of every run.                   *)
THEOREM RunUsesStore == RunSpec => SP!Spec
<1>1. RunInit => SP!Init
  BY DEF RunInit, Store!Init, SP!Init, Store!StepId, SP!StepId
<1>2. RunInv /\ [RunNext]_runVars => [SP!Next]_(SP!vars)
  BY StepOfStore DEF RunInv
<1> QED
  BY <1>1, <1>2, RunInductive, PTL DEF RunSpec, SP!Spec

(* Every committed state is what the engine makes of the state it follows   *)
(* and the events recorded as evaluated, in either delivery mode.           *)
THEOREM RunStateMatchesEvents == RunSpec => []StateMatchesEvents
<1>1. RunInv => StateMatchesEvents
  BY DEF RunInv, EvaluatedInv, StateMatchesEvents
<1> QED
  BY <1>1, RunInductive, PTL

(* When every caller uses consume-once delivery, the ledger a restart       *)
(* resumes from is exactly what committed steps have evaluated.             *)
THEOREM RunLedgerIsExact ==
    ASSUME Modes = {"consume_once"}
    PROVE  RunSpec => []LedgerIsExact
<1>1. RunInv => LedgerIsExact
  BY DEF RunInv, LedgerInv, LedgerIsExact, SP!CurrentLedger, Store!CurrentLedger
<1> QED
  BY <1>1, RunInductive, PTL

(* When every caller uses consume-once delivery, at most one committed step *)
(* evaluates an event identifier, whatever overlaps, crashes or is retried. *)
THEOREM RunAtMostOnce ==
    ASSUME Modes = {"consume_once"}
    PROVE  RunSpec => []AtMostOnce
<1>1. RunInv => AtMostOnce
  BY DEF RunInv, LedgerInv, AtMostOnce, OnceSteps
<1> QED
  BY <1>1, RunInductive, PTL

(* A call that shows no two records of one identifier is refused only when  *)
(* the very step is committed: the store verifies, its chain is the         *)
(* history, and the call starts from the graph CURRENT's state file holds.  *)
THEOREM RunCallsGoThrough == RunSpec => []CallsGoThrough
<1>1. ASSUME RunInv, NEW w \in Windows, NEW m \in Modes,
             <<Store!CurrentState(InitialGraph), w>> \notin committed
      PROVE  Store!Accepts(Submitted(w, m))
  <2> DEFINE s == Submitted(w, m)
  <2>1. /\ s.input = Store!CurrentState(InitialGraph) /\ s.window = w
        /\ s.inputGraph = s.input /\ s.successorGraph = s.graph
    BY DEF Submitted, Evaluation
  <2>2. Store!StoreVerifies
    <3>1. SP!StoreVerifies
      BY <1>1, SP!VerifyLemma, Constants DEF RunInv, SP!IInv
    <3> QED
      BY <3>1, SameReading
  <2>3. Store!Chain = committed
    <3>1. SP!Chain = committed
      BY <1>1, SP!ChainLemma, Constants DEF RunInv, SP!IInv
    <3> QED
      BY <3>1, SameReading
  <2>4. ~Store!IsDuplicate(s)
    BY <1>1, <2>1, <2>3 DEF Store!IsDuplicate, Store!StepOf
  <2>5. Store!ExtendsCurrent(s)
    BY <1>1, <2>1 DEF Store!ExtendsCurrent, Store!CurrentState, RunInv, SP!IInv, SP!HistoryInv
  <2>6. Store!WellFormed(s)
    BY <2>1 DEF Store!WellFormed
  <2> QED
    BY <2>2, <2>4, <2>5, <2>6 DEF Store!Accepts
<1>2. RunInv => CallsGoThrough
  BY <1>1 DEF CallsGoThrough
<1> QED
  BY <1>2, RunInductive, PTL
=============================================================================
