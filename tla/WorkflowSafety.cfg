SPECIFICATION Spec
CONSTANTS
  cron = cron  dense = dense  every = every
  Pods = {p1, p2}
  Crons = {cron, dense}
  Intervals = {every}
  Triggers = {t1}
  CreatedAt <- MCCreatedAt
  Period <- MCPeriod
  Interval = 3
  Window = 2
  Drift = 1
  Horizon = 7
  MaxConcurrent = 1
  None = None
  Workloads <- Schedules
SYMMETRY Symmetry
CHECK_DEADLOCK FALSE
INVARIANTS TypeOK SchedulesKeepPace OneRunPerInstant TriggerExecutesOnce NothingLostSilently
