SPECIFICATION FairSpec
CONSTANTS
    MaxQueue = 4
    Faults = {"timeout"}
INVARIANTS
    PausedWhileSleeping
    SettledAgreement
PROPERTIES
    CleanLoneSuspend
    ResumesAfterWake
