SPECIFICATION Spec
CONSTANTS
  Authors = {a1}
  Keys = {k1, k2}
  Creds = {c1, c2}
  Requests = {r1, r2}
  Idems = {i1, i2, i3}
  None = None
SYMMETRY Symmetry
INVARIANTS
  RevocationAvailable
CHECK_DEADLOCK FALSE
