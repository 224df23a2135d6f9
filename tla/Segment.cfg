\* Two processes on one name, three creates in all.
CONSTANTS
  Objects = {p, q}
  MaxCreates = 3
SPECIFICATION Spec
INVARIANTS
  TypeOK
  OneRingOneGuard
  CreateReturnsUsable
  RestartSucceeds
  NothingLeftBehind
