------------------------------ MODULE StepStore ------------------------------
(***************************************************************************)
(* The crash-safe store of evaluation steps, src/persistence.py.           *)
(*                                                                         *)
(* A step directory steps/<id>/ holds trace.json and state.nt; the CURRENT *)
(* file names the last committed step.  Every file is written to a         *)
(* temporary name, fsynced and renamed, so a file write is one step here   *)
(* and a crash falls between writes.  A graph stands for its canonical     *)
(* N-Triples text and for the digest of that text (SHA-256 is taken as     *)
(* injective); an absent file, field or pointer is None.                   *)
(***************************************************************************)
CONSTANTS Graphs,       \* state graphs
          Windows,      \* window identifiers
          Ledgers,      \* processed-event ledgers a caller may pass
          None,         \* absent file, field or pointer
          Submissions   \* the arguments commit_step may be called with

(* The identifier of a step is a hash of its input digest and window id. *)
StepId == Graphs \X Windows

(* Arguments of commit_step; inputGraph and successorGraph are what the    *)
(* trace itself says of the two graphs, each optional.                     *)
Submission == [input : Graphs, window : Windows, graph : Graphs,
               inputGraph : Graphs \cup {None}, successorGraph : Graphs \cup {None},
               ledger : Ledgers \cup {None}]

(* trace.json: the fields commit_step adds and the two it checks. *)
Trace == [inputDigest : Graphs, successorDigest : Graphs, parent : StepId \cup {None},
          inputGraph : Graphs \cup {None}, successorGraph : Graphs \cup {None},
          ledger : Ledgers \cup {None}]

Pointer == [step : StepId, successorDigest : Graphs, parent : StepId \cup {None}]

(* What a commit_step call has decided to write. *)
Job == [step : StepId, graph : Graphs, trace : Trace]

(* None is told apart from every value it stands in for. *)
ASSUME StoreConstants ==
    /\ None \notin Graphs \cup Ledgers \cup StepId
    /\ None \notin Trace /\ None \notin Pointer /\ None \notin Job
    /\ Submissions \subseteq Submission

VARIABLES current,    \* the CURRENT file
          dirs,       \* the step directories that exist
          traces,     \* step id -> its trace.json
          states,     \* step id -> its state.nt
          writer,     \* where the single writer is: idle, or the write it does next
          job,        \* the commit_step call in progress, None when there is none
          keep,       \* the chain recover() computed before it deletes
          committed   \* history: the steps CURRENT has ever named

files == <<current, dirs, traces, states>>
vars == <<current, dirs, traces, states, writer, job, keep, committed>>

Staging == {"trace", "state", "pointer"}

TypeOK ==
    /\ current \in Pointer \cup {None}
    /\ dirs \subseteq StepId
    /\ traces \in [StepId -> Trace \cup {None}]
    /\ states \in [StepId -> Graphs \cup {None}]
    /\ writer \in {"idle", "sweep"} \cup Staging
    /\ job \in Job \cup {None}
    /\ job # None <=> writer \in Staging
    /\ keep \subseteq StepId
    /\ committed \subseteq StepId

-----------------------------------------------------------------------------
(* Reading the store. *)

(* S is closed under following the parent link of the traces on disk. *)
ParentClosed(S) ==
    \A i \in S : traces[i] # None => traces[i].parent \in S \cup {None}

(* committed_chain(): every step reached from CURRENT over parent links,    *)
(* the smallest parent-closed set that holds CURRENT's step.                *)
Chain ==
    IF current = None THEN {}
    ELSE LET closed == {S \in SUBSET StepId : current.step \in S /\ ParentClosed(S)}
         IN  {i \in StepId : \A S \in closed : i \in S}

(* Mutant: the link between CURRENT and its trace is not compared. *)
IntactNoHeadLink(C) ==
    /\ \A i \in C : traces[i] # None
    /\ \E i \in C : traces[i].parent = None
    /\ \A i \in C : LET p == traces[i].parent
                    IN  p # None => traces[p].successorDigest = traces[i].inputDigest

(* chain_status()["intact"] for the chain C: no missing trace; the walk     *)
(* ends at a first step (a cycle has none); CURRENT and its trace agree on  *)
(* the parent; each step starts from the graph its parent produced.         *)
Intact(C) ==
    /\ \A i \in C : traces[i] # None
    /\ \E i \in C : traces[i].parent = None
    /\ traces[current.step].parent = current.parent
    /\ \A i \in C : LET p == traces[i].parent
                    IN  p # None => traces[p].successorDigest = traces[i].inputDigest

(* Mutant: the state file is not compared with the digest of the trace. *)
StepVerifiesTraceOnly(i) ==
    /\ states[i] # None /\ traces[i] # None
    /\ traces[i].successorGraph \in {None, traces[i].successorDigest}

(* verify_step(id): both files are there, and the digest of the state is    *)
(* the one the trace records, twice where the trace embeds the snapshot.    *)
StepVerifies(i) ==
    /\ states[i] # None /\ traces[i] # None
    /\ traces[i].successorDigest = states[i]
    /\ traces[i].successorGraph \in {None, states[i]}

(* Mutant: only the step CURRENT names is verified. *)
HeadVerifies ==
    current # None =>
        StepVerifies(current.step) /\ states[current.step] = current.successorDigest

(* verify_current() *)
StoreVerifies ==
    current # None =>
        LET C == Chain
        IN  /\ Intact(C)
            /\ states[current.step] = current.successorDigest
            /\ \A i \in C : StepVerifies(i)

(* current_ledger() and current_state(), neither of which verifies first. *)
CurrentLedger(empty) ==
    IF current = None \/ traces[current.step] = None \/ traces[current.step].ledger = None
    THEN empty ELSE traces[current.step].ledger

CurrentState(initial) == IF current = None THEN initial ELSE states[current.step]

-----------------------------------------------------------------------------
Init ==
    /\ current = None
    /\ dirs = {}
    /\ traces = [i \in StepId |-> None]
    /\ states = [i \in StepId |-> None]
    /\ writer = "idle"
    /\ job = None
    /\ keep = {}
    /\ committed = {}

-----------------------------------------------------------------------------
(* commit_step *)

StepOf(s) == <<s.input, s.window>>

(* Mutant: only one of the two graphs a trace embeds is compared. *)
WellFormedInputOnly(s) == s.inputGraph \in {None, s.input}

(* The submitted pair describes one step: what the trace says of its        *)
(* successor and of its input is what is submitted.                         *)
WellFormed(s) ==
    /\ s.successorGraph \in {None, s.graph}
    /\ s.inputGraph \in {None, s.input}

(* Mutants: only the last step counts as committed; a staged one counts. *)
IsDuplicateOfHead(s) == current # None /\ StepOf(s) = current.step
IsDuplicateDir(s) == StepOf(s) \in dirs

(* The duplicate check, which comes before the parent check. *)
IsDuplicate(s) == StepOf(s) \in Chain

(* The parent check: the step starts from the graph CURRENT produced. *)
ExtendsCurrent(s) == current # None => current.successorDigest = s.input

(* The calls commit_step does not refuse. *)
Accepts(s) ==
    /\ WellFormed(s)
    /\ StoreVerifies
    /\ ~IsDuplicate(s)
    /\ ExtendsCurrent(s)

(* Mutants: the parent's parent; no parent at all. *)
ParentOfNextSkips == IF current = None THEN None ELSE current.parent
ParentOfNextUnset == None

ParentOfNext == IF current = None THEN None ELSE current.step

TraceOf(s) ==
    [inputDigest |-> s.input, successorDigest |-> s.graph, parent |-> ParentOfNext,
     inputGraph |-> s.inputGraph, successorGraph |-> s.successorGraph, ledger |-> s.ledger]

(* A call passes every check; its directory is made (or is there already,   *)
(* with what a crashed attempt left in it).  A refused call changes nothing.*)
BeginCommit(s) ==
    /\ writer = "idle"
    /\ Accepts(s)
    /\ job' = [step |-> StepOf(s), graph |-> s.graph, trace |-> TraceOf(s)]
    /\ dirs' = dirs \cup {StepOf(s)}
    /\ writer' = "trace"
    /\ UNCHANGED <<current, traces, states, keep, committed>>

WriteTrace ==
    /\ writer = "trace"
    /\ traces' = [traces EXCEPT ![job.step] = job.trace]
    /\ writer' = "state"
    /\ UNCHANGED <<current, dirs, states, job, keep, committed>>

(* Mutant: a state file that is already there is left alone. *)
WriteStateOnce ==
    /\ writer = "state"
    /\ states' = IF states[job.step] # None THEN states
                 ELSE [states EXCEPT ![job.step] = job.graph]
    /\ writer' = "pointer"
    /\ UNCHANGED <<current, dirs, traces, job, keep, committed>>

WriteState ==
    /\ writer = "state"
    /\ states' = [states EXCEPT ![job.step] = job.graph]
    /\ writer' = "pointer"
    /\ UNCHANGED <<current, dirs, traces, job, keep, committed>>

(* Mutant: the call does not let go of what it has committed. *)
SwitchPointerKeepsJob ==
    /\ writer = "pointer"
    /\ current' = [step |-> job.step, successorDigest |-> job.graph, parent |-> job.trace.parent]
    /\ committed' = committed \cup {job.step}
    /\ writer' = "idle"
    /\ UNCHANGED <<dirs, traces, states, job, keep>>

SwitchPointer ==
    /\ writer = "pointer"
    /\ current' = [step |-> job.step, successorDigest |-> job.graph, parent |-> job.trace.parent]
    /\ committed' = committed \cup {job.step}
    /\ job' = None
    /\ writer' = "idle"
    /\ UNCHANGED <<dirs, traces, states, keep>>

-----------------------------------------------------------------------------
(* recover *)

(* Mutant: recovery keeps the step CURRENT names and nothing else. *)
BeginRecoverHeadOnly ==
    /\ writer = "idle"
    /\ StoreVerifies
    /\ keep' = IF current = None THEN {} ELSE {current.step}
    /\ writer' = "sweep"
    /\ UNCHANGED <<files, job, committed>>

(* Recovery of a store that verifies: the chain is computed once.  A store  *)
(* that does not verify is reported and left as it is.                      *)
BeginRecover ==
    /\ writer = "idle"
    /\ StoreVerifies
    /\ keep' = Chain
    /\ writer' = "sweep"
    /\ UNCHANGED <<files, job, committed>>

(* shutil.rmtree of a directory that is not on the chain: its files, in the *)
(* order the file system lists them, then the directory.                    *)
SweepTrace(i) ==
    /\ writer = "sweep" /\ i \in dirs \ keep /\ traces[i] # None
    /\ traces' = [traces EXCEPT ![i] = None]
    /\ UNCHANGED <<current, dirs, states, writer, job, keep, committed>>

SweepState(i) ==
    /\ writer = "sweep" /\ i \in dirs \ keep /\ states[i] # None
    /\ states' = [states EXCEPT ![i] = None]
    /\ UNCHANGED <<current, dirs, traces, writer, job, keep, committed>>

SweepDir(i) ==
    /\ writer = "sweep" /\ i \in dirs \ keep /\ traces[i] = None /\ states[i] = None
    /\ dirs' = dirs \ {i}
    /\ UNCHANGED <<current, traces, states, writer, job, keep, committed>>

EndRecover ==
    /\ writer = "sweep" /\ dirs \subseteq keep
    /\ keep' = {}
    /\ writer' = "idle"
    /\ UNCHANGED <<files, job, committed>>

-----------------------------------------------------------------------------
(* The process stops between two writes; what it held in memory is gone. *)
Crash ==
    /\ writer # "idle"
    /\ writer' = "idle"
    /\ job' = None
    /\ keep' = {}
    /\ UNCHANGED <<files, committed>>

Write == WriteTrace \/ WriteState \/ SwitchPointer

Recovery ==
    \/ BeginRecover
    \/ \E i \in StepId : SweepTrace(i) \/ SweepState(i) \/ SweepDir(i)
    \/ EndRecover

Next ==
    \/ \E s \in Submissions : BeginCommit(s)
    \/ Write
    \/ Recovery
    \/ Crash

Spec == Init /\ [][Next]_vars

-----------------------------------------------------------------------------
(* Properties. *)

(* At every point, between any two writes of a commit or a recovery and     *)
(* after any crash, the store verifies: CURRENT, the state and trace it     *)
(* names and every predecessor agree (the consistency invariant of          *)
(* persistence.py).                                                         *)
AlwaysVerifies == StoreVerifies

(* The chain a reader walks on disk is the committed history: a staged or   *)
(* half-deleted directory never shortens, extends or forks it.              *)
ChainIsHistory == Chain = committed

(* Neither a later commit that crashes, nor a retry, nor a recovery alters  *)
(* or removes the artefacts of a step once CURRENT has named it.            *)
CommittedImmutable ==
    [][\A i \in committed : traces'[i] = traces[i] /\ states'[i] = states[i] /\ i \in dirs']_vars

(* Every committed trace describes the step it is filed under: the input it *)
(* names is the input of the identifier.                                    *)
TraceMatchesId ==
    \A i \in committed : traces[i] # None =>
        traces[i].inputDigest = i[1] /\ traces[i].inputGraph \in {None, i[1]}

(* The readers' view of the files: the steps on the chain, last step first  *)
(* named by CURRENT, is an append-only log.                                 *)
HeadView == IF current = None THEN None ELSE current.step

LogView ==
    LET C == Chain
    IN  [i \in StepId |->
            IF i \in C
            THEN [graph |-> states[i], parent |-> traces[i].parent, ledger |-> traces[i].ledger]
            ELSE None]

Log == INSTANCE StepLog WITH head <- HeadView, log <- LogView

ImplementsLog == Log!Spec
=============================================================================
