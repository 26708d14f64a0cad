SPECIFICATION Spec
CONSTANTS
  Posts = {p1}
  Edits = {}
  Retractions = {}
  Restores = {}
  Toggles = {}
  Members = {}
  Clients = {k1, k2}
  Alarm = alarm
  None = None
  MaxFinalizations = 2
  Target <- MCTarget
  Workloads <- RevokedPost
CHECK_DEADLOCK FALSE
INVARIANTS CommittedContentKept
