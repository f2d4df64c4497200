SPECIFICATION MCSpec
CONSTANTS
    Pids = {1, 2}
    Requests = {r1, r2}
    LiveRequests = {r1}
    NoRequest = NoRequest
    Calls = {"FIND_SERVICE"}
    MaxToggles = 1
    BufferSize = 2
    r1 = r1
    r2 = r2
INVARIANTS QuietAtReplacement SameInstanceAnswers
PROPERTIES  GatewayIsServed RequestIsAnswered
CHECK_DEADLOCK FALSE
