CONSTANTS
    BufferSize = 2
    Pids = {1, 2}
    Requests = {r1}
    NoRequest = NoRequest
    Calls = {"OFFER_SERVICE", "EVENT"}
    MaxToggles = 0
SPECIFICATION Spec
INVARIANTS OffersReachRouting
CHECK_DEADLOCK FALSE
