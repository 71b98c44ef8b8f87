SPECIFICATION Spec
CONSTANTS
    Clients = {c1, c2}
    Keys = {k1, k2, k3}
    Vals = {v1, v2}
    NoVal = NoVal
    None = None
    MaxEntry = 2
    MaxCrash = 2
INVARIANTS NvTypeOK SavedCovers RestKept
PROPERTY ImplementsStore

SYMMETRY Symmetry
