SPECIFICATION Spec
CONSTANTS
  Posts = {p1}
  Edits = {e1}
  Retractions = {r1, r2}
  Restores = {x1}
  Toggles = {g1}
  Members = {m1}
  Clients = {k1, k2}
  Alarm = alarm
  None = None
  MaxFinalizations = 2
  Target <- MCTarget
  Workloads <- OneKindAtATime
CHECK_DEADLOCK FALSE
INVARIANTS TypeOK PendingIsOneSuccessor ErasureFollowsRetraction CommittedIsFenced ProjectedIsFinal WorkIsArmed
PROPERTIES KeepsLog
SYMMETRY Symmetry
