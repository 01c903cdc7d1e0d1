CONSTANTS
    Items = {i1,i2,i3}
    Wrappers = {w1,w2,w3}
    Timeouts = {1,2}
    MayThrow = TRUE
    MaxTime = 2
SPECIFICATION Spec
SYMMETRY Symmetry
INVARIANTS ListsAreSorted NoSpuriousTimeout IdleItemsWatched
CHECK_DEADLOCK FALSE
