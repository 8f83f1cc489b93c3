SPECIFICATION Spec
CONSTANTS
  Handlers = {h1, h2, h3}
  Scopes = {s1, s2}
  Cap = 2
  Slots = 2
  ScopeLimit = 1
  GlobalLimit = 2
  Lifetimes = {2}
  MaxTime = 5
SYMMETRY MCSymmetry
INVARIANTS
  TypeOK
  CapRespected
  FailuresBounded
PROPERTIES
  NoResurrection
  NoBlindWrite
CHECK_DEADLOCK FALSE
