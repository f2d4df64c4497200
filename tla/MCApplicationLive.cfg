SPECIFICATION LiveSpec
CONSTANTS
    Threads = {1, 2}
    Services = {s1}
    MaxDispatchers = 2
    Kinds = {"AVAILABILITY", "MESSAGE", "STATE"}
    MaxHandlers = 2
    MaxStarts = 2
    LongHandlers = FALSE
    Signals = FALSE
    Prompt = FALSE
    NoHandler = NoHandler
    User = User
    NoThread = NoThread
    s1 = s1
PROPERTIES StopEndsStart EveryHandlerStarts StateHandlersStart
CHECK_DEADLOCK FALSE
