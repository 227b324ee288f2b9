CONSTANTS
    N = 3
    Faults = {"raises_cancelled", "exit_raises"}
SPECIFICATION FairSpec
INVARIANTS
    QueueInv
    OrderedEventsAccounted
PROPERTIES
    HandlersStartOnce
    OrderedEventsProcessed
    TasksEndAfterDisconnect
