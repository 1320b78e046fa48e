SPECIFICATION FairSpec
CONSTANTS
    Keys = {"hold", "once", "flip"}
    Binding <- Bindings
    Profiles = {"nav"}
    MaxPresses = 3
    MaxFaults = 1
INVARIANTS
    ActivationIsTracked
    AppliesActive
PROPERTIES
    EndsForItsReason
    HoldEnds
CHECK_DEADLOCK FALSE
