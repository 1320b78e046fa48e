CONSTANTS
    Kinds = {"usb", "deck", "bluetooth"}
    MaxGeneration = 3
    MaxFaults = 2
SPECIFICATION Spec
INVARIANT BaselineIsOriginal
PROPERTIES KeepsUndoLog AccessReturns
CHECK_DEADLOCK FALSE
