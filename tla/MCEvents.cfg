SPECIFICATION FairSpec
CONSTANTS
    Sessions = {s1}
    Callbacks = {f1, f2}
    Client = Client
    Dispatcher = Dispatcher
    Capacity = 2
    Kinds = {"realplay", "playback"}
    Null = Null
    CleansUpAlone = TRUE
INVARIANTS
    TypeOK
    CalledIsRegistered
    CleanedUpIsQuiet
PROPERTIES
    PostedIsTaken
    CleanupReturns
    ImplementsFeed
