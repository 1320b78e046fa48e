SPECIFICATION FairSpec
CONSTANTS
    Contexts = {"desk", "game", "idle"}
    Resolve <- Resolutions
    InitialContext = "desk"
    NoSig = "-"
    Unknown = "?"
    MaxGens = 4
    MaxFaults = 1
INVARIANTS
    RefsResolve
    RolloverAgrees
    AppliesNewest
PROPERTIES
    ApplyEnds
CHECK_DEADLOCK FALSE
