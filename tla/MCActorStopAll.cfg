\* A Spawn that races Stop of the System.
\* A system whose actors have all stopped takes no more steps.
SPECIFICATION Spec
CONSTANTS
    r1 = r1
    r2 = r2
    Ref = {r1}
    Id = {"a"}
    Options <- AllOptions
    Senders = {}
    Closers = {c1}
    NoRef = NoRef
    MaxPanics = 0
    MaxSends = 0
INVARIANTS
    SystemStopStopsAll
CHECK_DEADLOCK FALSE
