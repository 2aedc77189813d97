SPECIFICATION UploadSpec
CONSTANTS
  Components <- SomeComponents
  Fold <- SomeFold
  Forbidden = {".."}
  Manifest = "skill.yaml"
  Paths <- SomePaths
  Sizes = {0, 1, 2}
  MaxMembers = 3
  MaxPath = 3
  MaxFile = 2
  MaxTotal = 2
  MaxManifest = 1
  ArchiveSizes = {1, 2}
  ExpandedSizes = {16, 17}
  Block = 2
  RecordSize = 8
  Headers <- SomeHeaders
  MaxArchive = 1
  MaxExpanded = 16
  TriggerNames = {"heat", "smoke"}
  ActionNames = {"vent", "notify"}
  Triggers <- EveryAndAnother
  MaxEntries = 2
INVARIANTS
  VerdictRight
  RebuiltRefusedForSize
  AuthorityContained
  ListedIsHarmless
CONSTRAINT
  OneOfThemPlain
CHECK_DEADLOCK FALSE
