SPECIFICATION Spec
CONSTANTS
  Generators = {g1, g2}
  Nobody = Nobody
  Environments <- OncePerSource
SYMMETRY Runs
CONSTRAINT RaceOrStart
INVARIANTS
  FailureLeavesNothing
  SuccessIsWhole
  UpAsConfigured
PROPERTIES
  OthersKept
