\* Two calls of Spawn, for one name or two, with the fairness of FairSpec.
\* A system whose actors have all stopped takes no more steps.
SPECIFICATION FairActors
CONSTANTS
    r1 = r1
    r2 = r2
    Ref = {r1, r2}
    Id = {"a", "b"}
    Options <- AllOptions
    Senders = {s1}
    Closers = {c1}
    NoRef = NoRef
    MaxPanics = 2
    MaxSends = 1
INVARIANTS
    TypeOK
    NothingLeftBehind
    OneServiceAtATime
    RestartsWithinLimit
    OneActorPerName
PROPERTIES
    RefusedForAReason
    EveryStopReturns
    PanicIsRepaired
CHECK_DEADLOCK FALSE
