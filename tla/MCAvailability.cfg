SPECIFICATION AvailabilitySpec
CONSTANTS
    Instances <- MCInstances
    Versions <- MCVersions
    HandlerSets <- MCHandlerSets
    ANY = ANY
INVARIANTS OnlyAppearedReported
CHECK_DEADLOCK FALSE
