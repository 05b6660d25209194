SPECIFICATION Spec
CONSTANTS
    Slots = {0, 1}
    a = a
    b = b
    Accounts = {a, b}
    Threads = {t1, t2}
    Logins <- AllLogins
    Failures = {"smu", "user"}
    None = None
    SlotRests = TRUE
INVARIANTS
    TypeOK
    FreeIsEmpty
    SessionIsWhole
    PasswordUserOnce
