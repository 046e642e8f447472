\* Four events through a buffer of two, with Close at any time.
CONSTANTS
    BufSize = 2
    MaxEvents = 4
    NoEvent = NoEvent
SPECIFICATION FairSpec
INVARIANTS
    EveryEventAccounted
    TransportIsExclusive
PROPERTIES
    ShutdownReturns
CHECK_DEADLOCK FALSE
