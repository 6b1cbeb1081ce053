SPECIFICATION ReplaySpec
CONSTANTS
    Slots <- HvacSlots
    Values <- ValuesBound
    Actions <- HvacActions
    Roles = {"emergency", "operator", "occupant"}
    Admissible <- HvacAdmissible
    PolicyOK <- HvacPolicyOK
    Inputs <- HvacInputs
    StartGraphs <- MCStartGraphs
    WindowEvents <- MCWindowEvents
    MaxSaved = 2
    MaxCompared = 3
    ReplayRegimes = {"unset", "incremental"}
INVARIANTS
    AdmissibilityKept
    SuccessorIsOverlay
    NoLostUpdate
    DecisionsJustified
    EmergencyHandled
    ImplementationsAgree
    ReplayReproduces
    PassedTraceIsGenuine
    ZonesCommute
    TiesKeepAlarms
    StrategiesAgree
CHECK_DEADLOCK FALSE
