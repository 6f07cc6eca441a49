\* One producer, two consumers.
SPECIFICATION LiveSpec
CONSTANTS
    Producers = {p1}
    Consumers = {c1, c2}
    Q_SIZE = 3
    Items = {a, b}
    Blank = blank
    WORD = 8
    LoadsReorder = FALSE
    MaxIndex = 4
INVARIANTS TypeOK IndexBound UnclaimedItemsIntact ClaimedItemsIntact
PROPERTIES ImplementsFifo EveryItemTaken
