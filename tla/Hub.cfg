SPECIFICATION HubSpec
CONSTANTS
  a1 = a1
  s1 = s1
  Skills = {s1}
  Workers = {w1}
  Admin = Admin
  Author = Author
  Gone = Gone
  None = None
  MaxAttempts = 2
  MaxFaults = 1
  Authors = {a1}
  Uploads <- BothTiers
  Idems = {i1}
  Requests = {r1}
  Downloads = {q1}
  MaxDownloads = 1
  MaxDamage = 1
INVARIANTS
  UploadsFound
  ServedRightly
PROPERTIES
  ImplementsPublication
CHECK_DEADLOCK FALSE
CONSTRAINT
  PublishedOnce
