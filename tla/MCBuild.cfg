\* Every definition of a few calls.
\* Build is the last call.
SPECIFICATION Spec
CONSTANTS
    Names <- ThreeNames
    Unknown = "z"
    Event = "E"
    Options <- PlainOrGuarded
    MaxStates = 3
    MaxDetails = 1
INVARIANTS
    BuildIsSound
    ErrorsAreTrue
CHECK_DEADLOCK FALSE
