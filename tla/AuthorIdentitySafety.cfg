SPECIFICATION Spec
CONSTANTS
  Authors = {a1, a2}
  Keys = {k1, k2, k3}
  Creds = {c1, c2, c3}
  Requests = {r1, r2}
  Idems = {i1, i2, i3, i4}
  None = None
SYMMETRY Symmetry
INVARIANTS
  IdentityTold
PROPERTIES
  ImplementsIdentity
CHECK_DEADLOCK FALSE
