SPECIFICATION Spec
CONSTANTS
  a1 = a1
  s1 = s1
  s2 = s2
  Authors = {a1}
  Skills = {s1, s2}
  Uploads <- TwoUploads
  Idems = {i1, i2}
  Requests = {r1, r2}
  Downloads = {q1}
  MaxDownloads = 1
  MaxDamage = 1
  None = None
SYMMETRY Symmetry
INVARIANTS
  SentRightly
  RecordsHaveObjects
  AnswersAreTrue
  OnePublicationPerKey
CONSTRAINT
  RaceOrDownload
