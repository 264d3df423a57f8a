\* Ten machines with timers, Always and raised events.
\* A harness whose flush has panicked is not called again.
SPECIFICATION FairSpec
CONSTANTS
    Machines <- Tested
    FlushLimit = 8
    MaxTick = 3
    MaxLeaves = 4
INVARIANTS
    ActiveAndOnTime
PROPERTIES
    AgreesWithRuntime
    EveryCallEnds
CHECK_DEADLOCK FALSE
