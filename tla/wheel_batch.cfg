\* Two timers on the smallest wheel; T->time wraps.
SPECIFICATION Spec
CONSTANTS
    TIME_NEAR_SHIFT = 1
    TIME_LEVEL_SHIFT = 1
    Nodes = {n1, n2}
    Delays <- EdgeDelays
    MaxLag = 1
INVARIANTS NodesOK FiresOnTime
SYMMETRY Symmetry
CHECK_DEADLOCK FALSE
