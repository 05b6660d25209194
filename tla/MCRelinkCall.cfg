SPECIFICATION Spec
CONSTANTS
    Local = Local
    Omu = Omu
    Remote = {r1}
    Callers = {c1, c2}
    Fragile = {r1}
    Slots = 2
    SSO = TRUE
    HasOmu = FALSE
CHECK_DEADLOCK FALSE
SYMMETRY Symmetry
INVARIANTS
    TypeOK
    DownIsQueued
