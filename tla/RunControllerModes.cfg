SPECIFICATION RunSpec
CONSTANTS
    Graphs <- MCGraphs
    InitialGraph = 0
    Windows <- MCWindows
    Records = {"a", "b"}
    EidOf <- MCEidOf
    Covers <- MCCovers
    Engine <- MCEngine
    Modes = {"consume_once", "redelivery"}
    None = None
INVARIANT AtMostOnce
