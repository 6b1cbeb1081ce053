SPECIFICATION RunSpec
CONSTANTS
    Graphs <- MCGraphs
    InitialGraph = 0
    Windows <- MCWindows
    Records = {"a", "b", "c", "x"}
    EidOf <- MCEidOf
    Covers <- MCCovers
    Engine <- MCEngine
    Modes = {"consume_once"}
    None = None
INVARIANTS AtMostOnce LedgerIsExact StateMatchesEvents CallsGoThrough
