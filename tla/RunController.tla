---------------------------- MODULE RunController ----------------------------
(***************************************************************************)
(* Restart-safe evaluation steps, src/run_controller.py, over the store of *)
(* StepStore: each call resumes from the committed state and ledger,       *)
(* leaves out the events already on the ledger, evaluates what the window  *)
(* still shows and commits state, trace and ledger as one step.            *)
(*                                                                         *)
(* What an evaluation makes of a graph and a set of events is the constant *)
(* Engine: rules, schedule and resolution have modules of their own.       *)
(***************************************************************************)
EXTENDS Naturals

CONSTANTS Graphs,        \* state graphs
          InitialGraph,  \* the graph an empty store starts from
          Windows,       \* window identifiers: the bounds of a window
          Records,       \* event records
          EidOf,         \* the identifier of each record
          Covers,        \* the records whose timestamp lies in each window
          Engine,        \* (graph, set of visible records) -> successor graph
          Modes,         \* the delivery modes callers use
          None

Eids == {EidOf[r] : r \in Records}

IdsOf(R) == {EidOf[r] : r \in R}

Ledgers == SUBSET Eids

VARIABLES current, dirs, traces, states, writer, job, keep, committed,
          arrived,      \* the event log handed to the calls
          ran           \* step id -> mode and visible events of its last evaluation

storeVars == <<current, dirs, traces, states, writer, job, keep, committed>>
runVars == <<storeVars, arrived, ran>>

(* What run_committed_step submits when it evaluates the records E. *)
Evaluation(g, w, E, ledger) ==
    [input |-> g, window |-> w, graph |-> Engine[<<g, E>>],
     inputGraph |-> g, successorGraph |-> Engine[<<g, E>>], ledger |-> ledger]

EngineSubmissions ==
    {Evaluation(g, w, E, l) : g \in Graphs, w \in Windows, E \in SUBSET Records, l \in Ledgers}

Store == INSTANCE StepStore WITH Submissions <- EngineSubmissions

(* None is told apart from every value it stands in for.                    *)
ASSUME ControllerConstants ==
    /\ InitialGraph \in Graphs
    /\ Covers \in [Windows -> SUBSET Records]
    /\ Engine \in [Graphs \X SUBSET Records -> Graphs]
    /\ Modes \subseteq {"consume_once", "redelivery"}
    /\ None \notin Graphs /\ (\A l \in Ledgers : l # None) /\ None \notin Store!StepId
    /\ None \notin Store!Trace /\ None \notin Store!Pointer /\ None \notin Store!Job
    /\ None \notin [mode : Modes, events : SUBSET Records]

RunInit ==
    /\ Store!Init
    /\ arrived = {}
    /\ ran = [i \in Store!StepId |-> None]

(* An event reaches the log. *)
Arrive(r) ==
    /\ r \notin arrived
    /\ arrived' = arrived \cup {r}
    /\ UNCHANGED <<storeVars, ran>>

-----------------------------------------------------------------------------
(* run_committed_step *)

(* Mutant: the ledger is not carried from one step to the next. *)
LedgerBeforeEmpty(m) == {}

LedgerBefore(m) == IF m = "consume_once" THEN Store!CurrentLedger({}) ELSE {}

(* The candidates the window selects: exact membership in the ledger. *)
Visible(w, m) == {r \in arrived \cap Covers[w] : EidOf[r] \notin LedgerBefore(m)}

(* Mutant: the ledger holds the last step's events only. *)
LedgerAfterReplaced(w, m) == IdsOf(Visible(w, m))

LedgerAfter(w, m) ==
    IF m = "consume_once" THEN LedgerBefore(m) \cup IdsOf(Visible(w, m)) ELSE {}

(* validate_event_records: one identifier, one record. *)
Consistent(E) == \A r, s \in E : EidOf[r] = EidOf[s] => r = s

Submitted(w, m) ==
    Evaluation(Store!CurrentState(InitialGraph), w, Visible(w, m), LedgerAfter(w, m))

(* A call that is not refused, up to the first write.  A call whose window  *)
(* shows two records of one identifier raises, and changes nothing.         *)
RunStep(w, m) ==
    /\ Consistent(Visible(w, m))
    /\ Store!BeginCommit(Submitted(w, m))
    /\ ran' = [ran EXCEPT ![Store!StepOf(Submitted(w, m))] =
                   [mode |-> m, events |-> Visible(w, m)]]
    /\ UNCHANGED arrived

(* The rest of the call, its crash, and a recovery are the store's. *)
StoreWork ==
    /\ Store!Write \/ Store!Recovery \/ Store!Crash
    /\ UNCHANGED <<arrived, ran>>

RunNext ==
    \/ \E r \in Records : Arrive(r)
    \/ \E w \in Windows, m \in Modes : RunStep(w, m)
    \/ StoreWork

RunSpec == RunInit /\ [][RunNext]_runVars

-----------------------------------------------------------------------------
(* Properties. *)

OnceSteps == {i \in committed : ran[i].mode = "consume_once"}

(* At most one committed consume-once step evaluates an event identifier,   *)
(* whatever windows overlap, whatever crashed and was retried, and whatever *)
(* arrived between a crash and the retry.                                   *)
AtMostOnce ==
    \A i, j \in OnceSteps : i # j => IdsOf(ran[i].events) \cap IdsOf(ran[j].events) = {}

(* The ledger a restart resumes from is exactly what committed steps have   *)
(* evaluated: nothing a crashed step saw, nothing forgotten.                *)
LedgerIsExact ==
    Store!CurrentLedger({}) = UNION {IdsOf(ran[i].events) : i \in committed}

(* Every committed state is what the engine makes of the state it follows   *)
(* and of the events its trace lists, even when an earlier attempt at the   *)
(* same step had seen other events.                                         *)
StateMatchesEvents ==
    \A i \in committed : states[i] = Engine[<<i[1], ran[i].events>>]

(* Whatever crashed before, a call is refused for one of two reasons only:  *)
(* its window shows two records of one identifier, or the very step, from   *)
(* the same graph over the same window, is committed.  Nothing that an      *)
(* attempt has staged makes its retry, or another call, look inconsistent,  *)
(* duplicate or stale.                                                      *)
CallsGoThrough ==
    writer = "idle" =>
        \A w \in Windows, m \in Modes :
            \/ ~Consistent(Visible(w, m))
            \/ <<Store!CurrentState(InitialGraph), w>> \in committed
            \/ Store!Accepts(Submitted(w, m))
=============================================================================
