SPECIFICATION FairSpec
CONSTANTS
    Threads = {1, 2}
    Services = {s1}
    MaxDispatchers = 2
    Kinds = {"AVAILABILITY", "MESSAGE", "STATE"}
    MaxHandlers = 1
    MaxStarts = 1
    LongHandlers = FALSE
    Signals = TRUE
    Prompt = FALSE
    NoHandler = NoHandler
    User = User
    NoThread = NoThread
    s1 = s1
PROPERTY StopEndsStart
CHECK_DEADLOCK FALSE
