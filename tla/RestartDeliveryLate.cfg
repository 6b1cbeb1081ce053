SPECIFICATION ScriptSpec
CONSTANTS
    Graphs <- MCGraphs
    InitialGraph = 0
    Windows <- MCWindows
    Records = {"a", "b"}
    EidOf <- MCEidOf
    Covers <- MCCovers
    Engine <- MCEngine
    Modes = {"consume_once", "redelivery"}
    None = None
    WindowType = "tumbling"
    Length = 10
    StepLength = 10
    Scripts <- LateScripts
    Timestamp <- MCTimestamp
PROPERTY CoveredIsDelivered
CHECK_DEADLOCK FALSE
