SPECIFICATION Spec
CONSTANTS
  Digests = {d1, d2}
  Callers = {c1, c2, c3}
  None = None
  MaxFaults = 3
SYMMETRY Symmetry
INVARIANTS
  ObjectsAreSafe
PROPERTIES
  ImplementsPromise
