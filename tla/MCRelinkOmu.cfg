SPECIFICATION FairSpec
CONSTANTS
    Local = Local
    Omu = Omu
    Remote = {}
    Callers = {}
    Fragile = {Local, Omu}
    Slots = 2
    SSO = TRUE
    HasOmu = TRUE
CHECK_DEADLOCK FALSE
INVARIANTS
    ToldDownIsPending
    StoppedIsIdle
PROPERTIES
    DownIsResolved
