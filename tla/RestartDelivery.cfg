SPECIFICATION ScriptSpec
CONSTANTS
    Graphs <- MCGraphs
    InitialGraph = 0
    Windows <- MCWindows
    Records = {"a", "b"}
    EidOf <- MCEidOf
    Covers <- MCCovers
    Engine <- MCEngine
    Modes = {"consume_once", "redelivery"}
    None = None
    WindowType = "sliding"
    Length = 5
    StepLength = 1
    Scripts <- MCScripts
    Timestamp <- MCTimestamp
PROPERTY ScenariosHold
CHECK_DEADLOCK FALSE
