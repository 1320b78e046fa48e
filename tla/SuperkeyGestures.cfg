SPECIFICATION FairSpec
CONSTANTS
    Outputs = {"a", "b"}
    Configs <- MCConfigs
    MaxQueue = 3
    MaxLate = 2
    Operations = {"retire", "stop"}
INVARIANTS
    PressedIsAccounted
    IdleReleased
    HoldIsFinal
PROPERTIES
    GestureEnds

