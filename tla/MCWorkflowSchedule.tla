------------------------ MODULE MCWorkflowSchedule ------------------------
(* WorkflowSchedule for TLC: a cron sparser than the window, one denser    *)
(* (an expression with seconds), and an interval workflow.                 *)
EXTENDS WorkflowSchedule, TLC

CONSTANTS cron, dense, every

MCCreatedAt == [w \in Workflows |-> IF w = every THEN 2 ELSE 1]
MCPeriod == [w \in Crons |-> IF w = dense THEN 1 ELSE 4]

Load(workflows, triggers, faults, limit, until) ==
    [workflows |-> workflows, triggers |-> triggers, faults |-> faults, limit |-> limit,
     until |-> until]

\* Each schedule on its own, with the failures it is exposed to; both
\* together; and a manual trigger beside them.
Schedules ==
    {Load(Intervals, {}, {"crash", "database", "owner", "disable"}, 2, Horizon),
     Load({cron}, {}, {"crash", "database", "owner", "disable"}, 1, Horizon),
     Load({dense}, {}, {}, 0, 5),
     Load({}, Triggers, {"crash", "database"}, 2, Horizon),
     Load({cron, every}, {}, {}, 0, Horizon)}

\* Nothing fails; ticks are late.
QuietCron == {Load({cron}, {}, {}, 0, Horizon)}

Symmetry == Permutations(Pods)
===========================================================================
