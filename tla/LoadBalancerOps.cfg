SPECIFICATION Spec
CONSTANTS
  Roles = {r1, r2, r3}
  Calls = {c1, c2, c3, c4}
  NoRole = NoRole
SYMMETRY CallSymmetry
INVARIANTS
  ActiveIsOpen
  EvenTurns
