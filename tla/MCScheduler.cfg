\* Two states, one of them with two timers, three calls of Start, a channel of
\* one slot. A stopped service, or one that has used its calls, takes no more
\* steps.
SPECIFICATION FairSpec
CONSTANTS
    State <- MCState
    Timer <- MCTimer
    Owner <- MCOwner
    TimerBuffer = 1
    MaxStarts = 3
INVARIANTS
    TypeOK
    TimersMatchActive
    NoOrphanTimer
    QuietAfterTeardown
    FireIsLiveOrCancelled
PROPERTIES
    TimerReachesRun
CHECK_DEADLOCK FALSE
