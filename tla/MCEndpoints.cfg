SPECIFICATION Spec
CONSTANTS
    MaxMessages = 3
    MaxFaults = 1
    MaxRestarts = 1
    tcp_restart_aborts_max_ = 1
    Configurations <- MCConfigurations
    max_message_size_ = 2
    queue_limit_ = 3
    SixHours = 100
    MaxSends = 3
    MaxSendTime = 3
    MaxLate = 1
    Messages <- MCMessages
    SegmentLength = 2
    max_tp_message_size_ = 6
    FiveSeconds = 1
    MaxArrivals = 4
    MaxReopens = 1
INVARIANTS SendingIsReal EachTravelsOnce   DeletedInTime
PROPERTIES MessagesInOrder Reconnects  EveryTrainDeparts
CHECK_DEADLOCK FALSE
