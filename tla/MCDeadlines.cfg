SPECIFICATION Spec
CONSTANTS
    Handlers = {h1, h2}
    Pins = {p1, p2}
    Long = long
    Nobody = nobody
    Tones <- MCTones
    Instants = {1, 99}
    Left <- MCLeft
    MaxNew = 1
SYMMETRY Symmetric
INVARIANTS TypeOK RotationKept
PROPERTIES TimersKept
