\* All machines over small trees, and ten more: fixtures, examples, and
\* machines that combine the features.
\* An interpreter that has exited takes no more steps.
SPECIFICATION Spec
CONSTANTS
    Machines <- LibraryAndSmall
    MaxAlwaysIter = 4
    TimerBuffer = 1
    MaxLeaves = 4
INVARIANTS
    TypeOK
    LegalConfiguration
    LifecycleFollowsConfiguration
    ExitsAndEntriesInOrder
PROPERTIES
    ImplementsStatechart
    DoneTellsTruth
CHECK_DEADLOCK FALSE
