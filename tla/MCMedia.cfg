SPECIFICATION FairSpec
CONSTANTS
    Objects = {o1, o2}
    Clients = {c1, c2}
    Event = Event
    Null = Null
    Exceptions = TRUE
    StartsRest = TRUE
INVARIANTS
    TypeOK
    
    
PROPERTIES
    CallReturns
