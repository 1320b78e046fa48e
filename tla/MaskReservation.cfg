SPECIFICATION Spec
CONSTANTS
    Usb = TRUE
    MaxFaults = 2
INVARIANTS
    QuiescedBeforeRebind
    JournalMatchesPhase
    StopHolds
PROPERTIES
    ActivationEnds
    RecoveryEnds
