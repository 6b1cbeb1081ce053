SPECIFICATION DamageSpec
CONSTANTS
    g1 = g1
    Graphs = {g1, g2}
    Windows = {w1, w2}
    Ledgers = {l1}
    None = None
    Submissions <- MCSubmissions
    Scenarios <- MCCutLink
PROPERTY HistoryNotDeleted
CHECK_DEADLOCK FALSE
