\* Transitions with a guard followed by an action.
\* Build is the last call.
SPECIFICATION Spec
CONSTANTS
    Names <- ThreeNames
    Unknown = "z"
    Event = "E"
    Options <- GuardedThenDo
    MaxStates = 2
    MaxDetails = 1
INVARIANTS
    GuardsKept
CHECK_DEADLOCK FALSE
