\* One timer on a wheel of four-slot levels, added at every time: the outer levels and progress.
SPECIFICATION LiveSpec
CONSTANTS
    TIME_NEAR_SHIFT = 1
    TIME_LEVEL_SHIFT = 2
    Nodes = {n1}
    Delays <- WideDelays
    MaxLag = 1
INVARIANTS OverdueOnlyInZeroSlots
PROPERTIES PlacedTimerEnds
