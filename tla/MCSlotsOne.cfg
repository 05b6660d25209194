SPECIFICATION FairSpec
CONSTANTS
    Slots = {0}
    a = a
    b = b
    Accounts = {a, b}
    Threads = {t1, t2}
    Logins <- AllLogins
    Failures = {"smu", "user"}
    None = None
    SlotRests = TRUE
PROPERTIES
    CallReturns
