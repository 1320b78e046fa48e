SPECIFICATION AdmissionSpec
CONSTANTS
    MaxStops = 3
    AsksDuringStop = FALSE
INVARIANTS
    StopStaysClosed
CHECK_DEADLOCK FALSE
