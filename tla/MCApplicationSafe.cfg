SPECIFICATION SafeSpec
CONSTANTS
    Threads = {1, 2, 3}
    Services = {s1}
    MaxDispatchers = 2
    Kinds = {"STATE"}
    MaxHandlers = 3
    MaxStarts = 2
    LongHandlers = TRUE
    Signals = TRUE
    Prompt = FALSE
    NoHandler = NoHandler
    User = User
    NoThread = NoThread
    s1 = s1
    Instances <- MCInstances
    Versions <- MCVersions
    HandlerSets <- MCHandlerSets
    ANY = ANY
INVARIANTS NobodyLeftBehind FutureForEveryCount ServiceOrder RunningIsSound 
CHECK_DEADLOCK FALSE
