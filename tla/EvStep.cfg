SPECIFICATION EvReplaySpec
CONSTANTS
    ChargingPoints = {1, 2, 3}
    Slots <- EvSlots
    Values <- ValuesBound
    Actions <- EvActions
    Roles = {"safety", "grid", "fleet", "driver"}
    Admissible <- EvAdmissible
    PolicyOK <- EvPolicyOK
    Inputs <- EvInputs
    StartGraphs <- MCStartGraphs
    WindowEvents <- MCWindowEvents
    MaxSaved = 2
    Workloads <- HarnessRuns
INVARIANTS
    EmergencyCurtails
    FaultIsolates
    CapacityHeld
    EvImplementationsAgree
    EvReplayTells
    OracleAgrees
    OperationalOutcomes
CHECK_DEADLOCK FALSE
