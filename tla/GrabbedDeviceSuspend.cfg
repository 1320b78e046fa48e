SPECIFICATION Spec
CONSTANTS
    Keys = {k1, k2}
    k1 = k1
    k2 = k2
    Targets = {t1}
    t1 = t1
    Mappings <- SharedMappings
    DefaultOutput = TRUE
    Buttons = {k1, k2}
    WriteFailures = TRUE
    DrainLimit = 2
    MaxUnread = 2
    Operations = {"sleep", "mask", "block", "error", "repeat"}
INVARIANTS
    DownIsTracked
    NoStuckOutput
    WithheldAwaitsRelease
PROPERTIES
    QuietWhileClosed
