SPECIFICATION Spec
CONSTANTS
    Versions = {"older", "newer"}
    Commands <- MCCommands
    Regime <- MCRegime
    Writes <- MCWrites
    RequiredTraces = {"trace"}
    FullTraces = {"trace", "role"}
    OtherTraces = {"other"}
    NameRegime <- MCNameRegime
    None = None
    Torn = Torn
    MaxStarts = 3
    MaxEdits = 2
    MaxManual = 1
INVARIANTS
    VerifiedIsGenuine
    NothingLeftBehind
    UnfinishedIsNoEvidence
CHECK_DEADLOCK FALSE
