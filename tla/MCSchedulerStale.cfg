\* The event of a timer waits in the channel while its state is left and entered
\* again. The service stops.
SPECIFICATION ExitFirst
CONSTANTS
    State <- MCState
    Timer <- MCTimer
    Owner <- MCOwner
    TimerBuffer = 1
    MaxStarts = 3
INVARIANTS
    NoStaleFire
CHECK_DEADLOCK FALSE
