------------------------------- MODULE StepLog -------------------------------
(***************************************************************************)
(* What the step store promises to its readers, with no files, no staging  *)
(* and no crashes: an append-only history of evaluation steps.  Each step  *)
(* is identified by the graph it started from and the window it evaluated, *)
(* is recorded once, starts from the graph the previous step produced, and *)
(* is never altered or removed.  StepStore implements this specification.  *)
(***************************************************************************)
CONSTANTS Graphs,     \* state graphs, each standing for its canonical text
          Windows,    \* window identifiers
          Ledgers,    \* values of the processed-event ledger of a step
          None        \* "no such step", "nothing recorded"

VARIABLES head,       \* the last committed step, None before the first
          log         \* step id -> what was recorded for it, None if not committed

logVars == <<head, log>>

StepId == Graphs \X Windows

Entry == [graph : Graphs, parent : StepId \cup {None}, ledger : Ledgers \cup {None}]

Init ==
    /\ head = None
    /\ log = [i \in StepId |-> None]

(* One evaluation step is appended: it is new, and it starts from the graph *)
(* the last step produced.                                                  *)
Append(i, g, l) ==
    /\ head' = i
    /\ log[i] = None
    /\ head # None => log[head].graph = i[1]
    /\ log' = [log EXCEPT ![i] = [graph |-> g, parent |-> head, ledger |-> l]]

Next == \E i \in StepId, g \in Graphs, l \in Ledgers \cup {None} : Append(i, g, l)

Spec == Init /\ [][Next]_logVars
=============================================================================
