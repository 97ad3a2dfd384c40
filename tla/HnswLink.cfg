SPECIFICATION Spec
CONSTANTS
    NumNodes = 3
    MaxLevel = 1
    M = 1
    M0 = 2
    Stripes = 2
    MaxFailed = 1
    Linkers = {p, q}
    Walkers = {w}
    None = None
SYMMETRY Symmetry
CHECK_DEADLOCK FALSE
INVARIANTS
    SlotsAreSafe
    ListsAreIntact
    LevelsAreJoined
    LinkersNeverStuck
