SPECIFICATION Spec
CONSTANTS
    Subscribers = {e1, e2, e3}
    Clients = {c1}
    ClientSets = {{c1}}
    max_remote_subscribers_ = 1
    MaxId = 65535
    MaxEntries = 3
    MaxDisruptions = 1
    e1 = e1
    e2 = e2
    e3 = e3
    c1 = c1
SYMMETRY Symmetry
INVARIANT NoFalseRefusal
INVARIANT AcknowledgedWasAccepted
INVARIANT SubscribeSettles
CHECK_DEADLOCK FALSE
