\* A goroutine and callbacks that subscribe and unsubscribe.
\* Nothing is left to do after the last snapshot.
SPECIFICATION Spec
CONSTANTS
    Callers = {c1}
    Run = run
    MaxSubs = 3
    MaxSnaps = 3
INVARIANTS
    NoUpdateMissed
PROPERTIES
    EveryCallReturns
CHECK_DEADLOCK FALSE
