--------------------------- MODULE RestartDelivery ---------------------------
(***************************************************************************)
(* The straight-line scenarios of src/experiment_restart_delivery.py: a    *)
(* process that calls run_committed_step for one anchor after another,     *)
(* crashes where the call is told to, opens the store again, recovers or   *)
(* not, and calls again.  A call that raises a ValueError ends the script, *)
(* for no caller of run_committed_step catches it.                         *)
(*                                                                         *)
(* A script is a sequence of statements.  The experiment's own scripts are *)
(* among those the instance runs; the others crash elsewhere, or more than *)
(* once, or hand a later call a longer log.                                *)
(***************************************************************************)
EXTENDS RunController, WindowSelection, FiniteSets, Sequences

CONSTANTS Scripts,      \* the scripts, one of which the process runs
          Timestamp     \* the time of each record

(* run_committed_step for an anchor, a crash point or "none"; recover(); a  *)
(* log that has grown before the next call.                                 *)
Run(anchor, mode, crash) == [op |-> "run", anchor |-> anchor, mode |-> mode, crash |-> crash]
Recover == [op |-> "recover"]
Log(R) == [op |-> "log", records |-> R]

IsRun(s) == s.op = "run"

(* The windows are those of the scripts' anchors, and cover what selection  *)
(* gives.                                                                   *)
ASSUME ScriptConstants ==
    /\ Timestamp \in [Records -> Nat]
    /\ \A script \in Scripts : \A k \in DOMAIN script :
         IsRun(script[k]) =>
           /\ script[k].mode \in Modes
           /\ WindowAt(script[k].anchor) \in Windows
    /\ \A w \in Windows : Covers[w] = {r \in Records : Selects(w, Timestamp[r])}

VARIABLES script,       \* the script that runs
          at,           \* the statement it is at
          raised        \* a call has raised a ValueError

scriptVars == <<runVars, script, at, raised>>

ScriptInit == RunInit /\ script \in Scripts /\ at = 1 /\ raised = FALSE

Ended == raised \/ at \notin DOMAIN script

(* The statement that is executed next, or is being executed. *)
Executing(op) == ~Ended /\ script[at].op = op

Window == WindowAt(script[at].anchor)
Mode == script[at].mode

-----------------------------------------------------------------------------
GrowLog ==
    /\ Executing("log")
    /\ arrived' = arrived \cup script[at].records
    /\ at' = at + 1
    /\ UNCHANGED <<storeVars, ran, script, raised>>

Call ==
    /\ Executing("run")
    /\ RunStep(Window, Mode)
    /\ UNCHANGED <<script, at, raised>>

(* The window shows two records of one identifier, or the step is refused   *)
(* as inconsistent, duplicate or stale: the ValueError ends the script.     *)
CallRaises ==
    /\ Executing("run") /\ writer = "idle"
    /\ ~(Consistent(Visible(Window, Mode)) /\ Store!Accepts(Submitted(Window, Mode)))
    /\ raised' = TRUE
    /\ UNCHANGED <<runVars, script, at>>

(* The write after which the call is told to crash is done.                 *)
AtCrashPoint ==
    \/ script[at].crash = "trace" /\ writer = "state"
    \/ script[at].crash = "state" /\ writer = "pointer"

WriteFiles ==
    /\ Store!WriteTrace \/ Store!WriteState
    /\ ~AtCrashPoint
    /\ UNCHANGED <<arrived, ran, script, at, raised>>

(* The call commits and returns. *)
Return ==
    /\ Store!SwitchPointer /\ ~AtCrashPoint
    /\ at' = at + 1
    /\ UNCHANGED <<arrived, ran, script, raised>>

(* CrashPoint is raised and caught, and the store is opened again. *)
Restart ==
    /\ writer \in {"state", "pointer"} /\ AtCrashPoint
    /\ Store!Crash
    /\ at' = at + 1
    /\ UNCHANGED <<arrived, ran, script, raised>>

BeginRecovery ==
    /\ Executing("recover")
    /\ Store!BeginRecover
    /\ UNCHANGED <<arrived, ran, script, at, raised>>

Sweep ==
    /\ \E i \in Store!StepId : Store!SweepTrace(i) \/ Store!SweepState(i) \/ Store!SweepDir(i)
    /\ UNCHANGED <<arrived, ran, script, at, raised>>

EndRecovery ==
    /\ Store!EndRecover
    /\ at' = at + 1
    /\ UNCHANGED <<arrived, ran, script, raised>>

ScriptNext ==
    \/ GrowLog \/ Call \/ CallRaises \/ WriteFiles \/ Return \/ Restart
    \/ BeginRecovery \/ Sweep \/ EndRecovery

(* One thread executes the script, statement by statement, to its end.      *)
ScriptSpec == ScriptInit /\ [][ScriptNext]_scriptVars /\ WF_scriptVars(ScriptNext)

-----------------------------------------------------------------------------
(* Properties. *)

RunsOf(mode) == {k \in DOMAIN script : IsRun(script[k]) /\ script[k].mode = mode}

(* The runs of the script that the script does not crash. *)
Calls(mode) == {k \in RunsOf(mode) : script[k].crash = "none"}

(* What the events that any of the script's calls covers make, each once.   *)
CoveredOnce ==
    Engine[<<InitialGraph, UNION {Covers[WindowAt(script[k].anchor)] : k \in Calls("consume_once")}>>]

(* What n evaluations of the whole log make of the initial graph. *)
Redelivered[n \in Nat] ==
    IF n = 0 THEN InitialGraph ELSE Engine[<<Redelivered[n - 1], Records>>]

(* Every scenario comes to an end with the outcome the experiment asserts:  *)
(* under consume-once delivery the events are applied once and are on the   *)
(* ledger, whether a call crashed before, a crashed attempt was recovered   *)
(* or not, or a call came once too often and raised as a duplicate; under   *)
(* redelivery no call raises, and each applies them once more.              *)
ScenariosHold ==
    <>(/\ Ended /\ writer = "idle"
       /\ Calls("consume_once") # {} =>
            /\ Store!CurrentState(InitialGraph) = CoveredOnce
            /\ Store!CurrentLedger({}) = Eids
       /\ Calls("redelivery") # {} =>
            /\ ~raised
            /\ Store!CurrentState(InitialGraph) = Redelivered[Cardinality(Calls("redelivery"))])

(* "Late events (never covered by a later window) are dropped", and no      *)
(* other: a record in the log before a call whose window covers it is       *)
(* eventually on the committed ledger.                                      *)
CoveredIsDelivered ==
    \A r \in Records :
        (/\ r \in arrived /\ writer = "idle"
         /\ Executing("run") /\ Selects(Window, Timestamp[r]))
            ~> EidOf[r] \in Store!CurrentLedger({})
=============================================================================
