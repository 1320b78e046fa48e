SPECIFICATION FairSpec
CONSTANTS
    Keys = {k1, k2}
    k1 = k1
    k2 = k2
    Targets = {t1}
    t1 = t1
    Mappings <- RoutedMappings
    DefaultOutput = TRUE
    Buttons = {k1}
    WriteFailures = FALSE
    DrainLimit = 1
    MaxUnread = 1
    Operations = {"map", "block", "suppress"}
PROPERTIES
    EventuallyReleased
