SPECIFICATION Spec
CONSTANTS
    Clients = {"a", "b"}
    MaxCommands = 4
    MaxFailures = 1
    MaxSent = 1
    MaxEvents = 2
    Applications = {"a", "b"}
    MaxStimuli = 3
    MaxMessages = 1
INVARIANTS OfferCanAnswer  RetryIsDue  SubscriberIsServed
PROPERTIES CommandsProcessed ProviderReplaced RegistersAgain HostForgets SubscriptionFollows
CHECK_DEADLOCK FALSE
