SPECIFICATION SuiteSpec
CONSTANTS
    Subscribers = {e1}
    Clients = {c1, c2}
    ClientSets = {{c1}, {c2}}
    max_remote_subscribers_ = 1
    MaxId = 65535
    MaxEntries = 3
    MaxDisruptions = 0
    e1 = e1
    c1 = c1
    c2 = c2
    repetitions_max_ = 1
    SessionMax = 2
    Ttl = 1
    MaxUpsets = 2
    MaxQueued = 1
CHECK_DEADLOCK FALSE
INVARIANT CollectedNotBroadcast
