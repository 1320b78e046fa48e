SPECIFICATION Spec
CONSTANTS
    MaxQueue = 3
    Faults = {"mask", "reconnect", "timeout"}
INVARIANTS
    PendingMatchesQueue
    StopFinishesCleanup
