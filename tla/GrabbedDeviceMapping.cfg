SPECIFICATION Spec
CONSTANTS
    Keys = {k1, k2}
    k1 = k1
    k2 = k2
    Targets = {t1, t2}
    t1 = t1
    t2 = t2
    Mappings <- SessionMappings
    DefaultOutput = FALSE
    Buttons = {}
    WriteFailures = FALSE
    DrainLimit = 2
    MaxUnread = 2
    Operations = {"map", "record", "error", "lose"}
INVARIANTS
    TypeOK
    NoStuckOutput
    HeldFollowsHardware
