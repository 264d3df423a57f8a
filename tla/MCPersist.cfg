\* Six machines, one of which has later releases.
\* A process that crashes before the first checkpoint is not started again.
SPECIFICATION PersistSpec
CONSTANTS
    Machines <- Saved
    Releases <- LaterReleases
    MaxAlwaysIter = 4
    TimerBuffer = 1
    MaxLeaves = 3
INVARIANTS
    RestoredConsistent
    ResumesWhereItRested
PROPERTIES
    MacrostepEnds
CHECK_DEADLOCK FALSE
