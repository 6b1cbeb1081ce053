SPECIFICATION RunSpec
CONSTANTS
    Slots <- HvacSlots
    Values <- MCValues
    Actions <- MCActions
    Roles = {"emergency", "operator", "occupant"}
    Admissible <- HvacAdmissible
    PolicyOK <- HvacPolicyOK
    Inputs <- MCInputs
    WindowType = "sliding"
    Length = 10
    StepLength = 2
    Log <- MCLog
    Anchors <- MCAnchors
    DeliveryModes = {"redelivery", "consume_once"}
INVARIANTS DeliveredByMode IncrementsAccounted
CHECK_DEADLOCK FALSE
