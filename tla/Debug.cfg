CONSTANTS
    Tab = {t1, t2}
    Cap = 2
    MaxEntries = 4
SPECIFICATION FairSpec
INVARIANTS
    TypeOK
    StreamInOrder
    NewestKept
    SubscribersAreStreams
PROPERTIES
    StreamsEndAfterShutdown
