SPECIFICATION Spec
CONSTANTS
    Local = Local
    Omu = Omu
    Remote = {}
    Callers = {}
    Fragile = {Local}
    Slots = 2
    SSO = FALSE
    HasOmu = FALSE
CHECK_DEADLOCK FALSE
INVARIANTS
    OpenedIsUsable
