\* A region handles the event on which its parallel state is left.
\* An interpreter that has exited takes no more steps.
SPECIFICATION Spec
CONSTANTS
    Machines <- TornOnly
    MaxAlwaysIter = 4
    TimerBuffer = 1
    MaxLeaves = 4
INVARIANTS
    RegionsTogether
CHECK_DEADLOCK FALSE
