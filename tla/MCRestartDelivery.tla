------------------------- MODULE MCRestartDelivery -------------------------
(* The log of the experiment: two records of one occupancy event, under     *)
(* identifiers of their own and at one time, which is the lower bound of    *)
(* the second anchor's window; a step that sees either raises the setpoint  *)
(* by one degree.                                                           *)
EXTENDS RestartDelivery

MCGraphs == 0..3
MCTimestamp == [r \in Records |-> 0]
MCEidOf == [r \in Records |-> r]
MCEngine ==
    [p \in MCGraphs \X SUBSET Records |-> IF p[2] = {} \/ p[1] = 3 THEN p[1] ELSE p[1] + 1]

Anchors == {4, 5}
MCWindows == {WindowAt(a) : a \in Anchors}
MCCovers == [w \in MCWindows |-> {r \in Records : Selects(w, MCTimestamp[r])}]

(* A call that crashes or not, with a recovery after it or none. *)
Attempts(mode) ==
    LET calls == {<<Run(a, mode, c)>> : a \in Anchors, c \in {"none", "trace", "state"}}
    IN  calls \cup {call \o <<Recover>> : call \in calls}

(* One or two attempts, and a call that does not crash. *)
ScriptsOf(mode) ==
    {<<Log(Records)>> \o first \o second \o <<Run(a, mode, "none")>> :
        first \in Attempts(mode), second \in Attempts(mode) \cup {<<>>}, a \in Anchors}

MCScripts == UNION {ScriptsOf(mode) : mode \in Modes}

(* Two anchors, each with the log it finds. *)
LateScripts ==
    {<<Log(R), Run(4, "consume_once", "none"), Log(S), Run(5, "consume_once", "none")>> :
        R \in SUBSET Records, S \in SUBSET Records}
=============================================================================
