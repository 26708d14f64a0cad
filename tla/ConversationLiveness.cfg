SPECIFICATION FairSpec
CONSTANTS
  Posts = {p1}
  Edits = {}
  Retractions = {r1}
  Restores = {x1}
  Toggles = {g1}
  Members = {}
  Clients = {k1}
  Alarm = alarm
  None = None
  MaxFinalizations = 2
  Target <- MCTarget
  Workloads <- WholeLife
CHECK_DEADLOCK FALSE
PROPERTIES  PendingResolves DueIsErased
