\* Two producers: a push that loaded an old read index fills the last slot.
SPECIFICATION Spec
CONSTANTS
    Producers = {p1, p2}
    Consumers = {c1}
    Q_SIZE = 2
    Items = {a}
    Blank = blank
    WORD = 8
    LoadsReorder = FALSE
    MaxIndex = 4
INVARIANTS IndexBound
SYMMETRY Symmetry
CHECK_DEADLOCK FALSE
