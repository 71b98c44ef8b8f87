SPECIFICATION Spec
CONSTANTS
    Apps = {a1, a2, a3, a4}
    NoApp = NoApp
    SeqNos = {1, 2, 3, 4}
    Capacity = 2
    MaxMembers = 4
INVARIANTS ArrayOK Ownership
PROPERTY ImplementsRegistry
SYMMETRY Symmetry
CHECK_DEADLOCK FALSE
