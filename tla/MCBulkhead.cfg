SPECIFICATION FairSpec
CONSTANTS
    c1 = c1
    c2 = c2
    c3 = c3
    c4 = c4
    Callers = {c1, c2, c3, c4}
    MaxConcurrent = 2
    MaxWait = 1
INVARIANTS
    SlotsHeld
    NoIdleSlot
PROPERTIES
    ImplementsSemaphore
    WaitEnds
