SPECIFICATION FairSpec
CONSTANTS
  Skills = {s1}
  Workers = {w1, w2}
  Admin = Admin
  Author = Author
  Gone = Gone
  None = None
  MaxAttempts = 3
  MaxFaults = 2
INVARIANTS
  ListedRightly
  CallBudget
  LogsAgree
  NothingStranded
  PollsRecorded
  GuardsSilent
PROPERTIES
  FencedCommit
  ImplementsLifecycle
  EventuallySettled
CHECK_DEADLOCK FALSE
