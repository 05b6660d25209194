SPECIFICATION FairSpec
CONSTANTS
    Starts = {n1, n2, n3}
    Null = Null
    LoginFails = FALSE
INVARIANTS
    TypeOK
    ListedIsLive
    LoggedOutIsEmpty
PROPERTIES
    ImplementsTrigger
    StopReturns
