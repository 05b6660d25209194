SPECIFICATION Spec
CONSTANTS
    Callers = {c1}
    NoCaller = NoCaller
    MaxSeq = 3
    SetupAgain = FALSE
CHECK_DEADLOCK FALSE
INVARIANTS
    SetupOkMeansGranted
