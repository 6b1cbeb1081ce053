SPECIFICATION Spec
CONSTANTS
    Slots <- FastSlots
    Values <- MCValues
    Actions <- MCActions
    Roles = {"emergency", "operator", "occupant"}
    Admissible <- ShaclConforms
    PolicyOK <- HvacPolicyOK
    Inputs <- MCInputs
    FastEligible <- Eligible
    FullCheck <- FastConformsAll
    FocusedCheck <- FastConformsZone
    Preserves <- PreservedByWrite
    MaxSchedule = 3
INVARIANTS FocusJustified KernelAgrees FocusSuffices
PROPERTIES ImplementsResolver
CHECK_DEADLOCK FALSE
