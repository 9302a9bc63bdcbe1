\* Two publishers, three rows in batches of up to two, two faults; Kafka refuses
\* the oldest row every time.
SPECIFICATION FairSpec
CONSTANTS
    old = old
    new = new
    Publishers <- MCPublishers
    Events = {1, 2, 3}
    Refused = {1}
    BatchSize = 2
    MaxFaults = 2
INVARIANTS
    PublishedIsDelivered
    PublishedHasNoError
    CopiesAreExplained
PROPERTIES
    PublishedIsNotSentAgain
    EveryRowIsPublished
CHECK_DEADLOCK FALSE
