CONSTANTS
    N = 2
    Faults = {"exit_raises"}
SPECIFICATION FairSpec
PROPERTIES
    OrderedEventsAlwaysProcessed
