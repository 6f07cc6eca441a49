\* Ten keys: with fewer no deletion climbs below the root.
SPECIFICATION Spec
CONSTANTS
    Keys = {1, 2, 3, 4, 5, 6, 7, 8, 9, 10}
    nil = nil
INVARIANTS KeysOK RulesUntilClimb
PROPERTIES RoundsEnd
CHECK_DEADLOCK FALSE
