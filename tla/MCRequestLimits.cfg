SPECIFICATION Spec
CONSTANTS
    Handlers = {h1, h2, h3}
    Slots = 2
    Permits = 1
    Addresses = {a}
    Window <- MCWindow
    Limit <- MCLimit
    Capacity = 3
SYMMETRY Symmetric
INVARIANTS TypeOK PermitsReturn WindowHeld
