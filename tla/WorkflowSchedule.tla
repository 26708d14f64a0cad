------------------------- MODULE WorkflowSchedule -------------------------
(***************************************************************************)
(* The workflow engine of the relay's pods: the loop that fires cron and   *)
(* interval workflows through the durable claim of their schedule instant, *)
(* the manual trigger command, and the runs both of them create.           *)
(*                                                                         *)
(* A pod examines the listed workflows one after another; each step is the *)
(* stretch between two database calls.  A call that fails may still have   *)
(* taken effect.  The pods share the database and the clock; now is the    *)
(* instant a tick began, which the whole tick works with.                  *)
(*                                                                         *)
(* Left out: definitions that do not parse, workflows without a channel or *)
(* deleted during a tick, communities (each has its own schedules), clock  *)
(* skew, event and webhook triggers, which only create a run, and what the *)
(* steps of a run do.                                                      *)
(***************************************************************************)
EXTENDS Integers, Sequences, FiniteSets, FiniteSetsExt

CONSTANTS
    Pods,
    Crons, Intervals,  \* workflows with a cron or an interval schedule
    Triggers,          \* manual trigger commands, each a signed event
    CreatedAt,         \* created_at of each workflow, the order of the list
    Period,            \* the instants of cron w are the multiples of Period[w]
    Interval,
    Window,            \* the 60 seconds of the sleep and of the cron window
    Drift,             \* how late a tick may be
    Horizon,           \* the clock stops here at the latest
    MaxConcurrent,     \* config.max_concurrent
    None,
    Workloads          \* what a behaviour may be about, see Workload

Workflows == Crons \cup Intervals
Time == 0..Horizon

\* The workflows that exist, the triggers clients send, the failures the
\* environment has, how many of them may happen, and when the clock stops.
Workload == [workflows : SUBSET Workflows, triggers : SUBSET Triggers,
             faults : SUBSET {"crash", "database", "owner", "disable"}, limit : Nat,
             until : Nat]

ASSUME ScheduleAssumption ==
    /\ Crons \cap Intervals = {}
    /\ CreatedAt \in [Workflows -> Nat]
    /\ Period \in [Crons -> Nat \ {0}] /\ Interval \in Nat \ {0} /\ Window \in Nat \ {0}
    /\ Drift \in Nat /\ Horizon \in Nat /\ MaxConcurrent \in Nat \ {0}
    /\ None \notin Workflows \cup Triggers \cup Pods \cup Time
    /\ \A t \in Triggers : t \notin Workflows \X Time
    /\ Workloads \subseteq Workload

VARIABLES
    clock,
    enabled,      \* the workflows list_all_enabled_workflows returns
    claims,       \* scheduled_workflow_fires: <<workflow, scheduled_for>> -> run
    runs,         \* workflow_runs, with the task that executes each
    stored,       \* trigger commands whose event is committed
    command,      \* the handler that holds a trigger's open transaction
    last_fired,   \* WorkflowEngine.last_fired of each pod
    pod,          \* the scheduler loop of each pod
    clean,        \* since when a pod has examined a workflow without failure
    env           \* the workload, the failures it still has and has had

vars == <<clock, enabled, claims, runs, stored, command, last_fired, pod, clean, env>>

NoCommand == [at |-> "none", pod |-> None, run |-> 0]

\* The loop before its first tick; wake is when the sleep ends.  While a
\* workflow is examined, it is out of todo, the rest of the list.
Asleep(t) == [at |-> "sleep", now |-> t, wake |-> t + Window, listed |-> {},
              todo |-> {}, workflow |-> None, instant |-> 0, run |-> 0]

Down == [Asleep(0) EXCEPT !.at = "down"]

Unseen == [from |-> None, to |-> None, gaps |-> {}, blind |-> FALSE]

Init ==
    /\ env \in {[load |-> l, left |-> l.limit, hit |-> {}] : l \in Workloads}
    /\ clock = 0
    /\ enabled = env.load.workflows
    /\ claims = <<>>
    /\ runs = <<>>
    /\ stored = {}
    /\ command = [t \in Triggers |-> NoCommand]
    /\ last_fired = [p \in Pods |-> [w \in Intervals |-> None]]
    /\ pod = [p \in Pods |-> Asleep(0)]
    /\ clean = [p \in Pods |-> [w \in Workflows |-> Unseen]]

Fails(f) ==
    /\ f \in env.load.faults /\ env.left > 0
    /\ env' = [env EXCEPT !.left = @ - 1, !.hit = @ \cup {f}]

-----------------------------------------------------------------------------
(* What is due *)

Multiples(n) == {t \in Time : t % n = 0}

\* Variant: a window that is open at both ends.
cron_window_open(w, now) ==
    {t \in Multiples(Period[w]) : t > now - Window /\ t < now}

\* cron_fire_instant: the first instant after now - 60 s, if it is not after now.
\* An expression with a seconds field has more than one in a window.
cron_fire_instant(w, now) ==
    {t \in Multiples(Period[w]) : /\ t > now - Window /\ t <= now
                                  /\ \A u \in Multiples(Period[w]) : u > now - Window => t <= u}

\* interval_fire_instant: the boundary of the interval's bucket now is in.
interval_fire_instant(now) == {t \in Multiples(Interval) : t <= now /\ now < t + Interval}

Elapsed(now, last) == IF now > last THEN now - last ELSE last - now

interval_should_fire(last, now) == last # None /\ Elapsed(now, last) >= Interval

\* latest_scheduled_workflow_fire: MAX(scheduled_for) of the claims.
latest_scheduled_workflow_fire(w) ==
    LET at == {c[2] : c \in {d \in DOMAIN claims : d[1] = w}}
    IN  IF at = {} THEN None ELSE Max(at)

-----------------------------------------------------------------------------
(* The scheduler loop *)

\* p went through w at its tick and nothing failed, except, when it is blind,
\* the read of its anchor; gaps are the times after the tick before that its
\* window does not reach back to.
ExaminedSoFar(c, now, blind) ==
    IF c.to = None THEN [from |-> now, to |-> now, gaps |-> {}, blind |-> blind]
    ELSE [from |-> c.from, to |-> now, blind |-> c.blind \/ blind,
          gaps |-> c.gaps \cup {t \in Time : c.to < t /\ t <= now - Window}]

Seen(p, w, blind) ==
    clean' = [clean EXCEPT ![p] = [clean[p] EXCEPT ![w] =
                  ExaminedSoFar(clean[p][w], pod[p].now, blind)]]

Examined(p, w) == Seen(p, w, FALSE)

Unexamined(p, w) == clean' = [clean EXCEPT ![p] = [clean[p] EXCEPT ![w] = Unseen]]

\* w is the next workflow of the list.
Listed(p, w) == w \in pod[p].todo /\ \A v \in pod[p].todo : CreatedAt[w] <= CreatedAt[v]

\* The instant a pod has resolved for the workflow it examines.
Fire(p) == <<pod[p].workflow, pod[p].instant>>

\* w is due at instant t: on to its owner's authority and the claim.
Due(p, w, t) ==
    pod' = [pod EXCEPT ![p] = [pod[p] EXCEPT !.at = "claim", !.todo = pod[p].todo \ {w},
                                             !.workflow = w, !.instant = t]]

\* continue: the rest of the list, without w.
Skip(p, w) ==
    pod' = [pod EXCEPT ![p] = [pod[p] EXCEPT !.at = "loop", !.todo = pod[p].todo \ {w},
                                             !.workflow = None]]

\* Variant: the next due instant is kept instead of the last.
FiredNext(p, w) ==
    last_fired' = IF w \in Intervals
                  THEN [last_fired EXCEPT ![p][w] = pod[p].now + Interval] ELSE last_fired

\* last_fired.insert, for intervals only.
Fired(p, w) ==
    last_fired' = IF w \in Intervals THEN [last_fired EXCEPT ![p][w] = pod[p].now]
                                     ELSE last_fired

\* The sleep is over: list_all_enabled_workflows.
Tick(p) ==
    /\ pod[p].at = "sleep" /\ clock >= pod[p].wake
    /\ \/ /\ pod' = [pod EXCEPT ![p] = [pod[p] EXCEPT !.at = "loop", !.now = clock,
                                                   !.listed = enabled, !.todo = enabled]]
          /\ clean' = [clean EXCEPT ![p] = [w \in Workflows |->
                          IF w \in enabled THEN clean[p][w] ELSE Unseen]]
          /\ UNCHANGED env
       \/ /\ Fails("database")
          /\ pod' = [pod EXCEPT ![p] = Asleep(clock)]
          /\ clean' = [clean EXCEPT ![p] = [w \in Workflows |-> Unseen]]
    /\ UNCHANGED <<clock, enabled, claims, runs, stored, command, last_fired>>

ExamineCron(p, w) ==
    /\ pod[p].at = "loop" /\ Listed(p, w) /\ w \in Crons
    /\ \/ /\ cron_fire_instant(w, pod[p].now) = {}
          /\ Skip(p, w) /\ Examined(p, w)
       \/ /\ \E t \in cron_fire_instant(w, pod[p].now) : Due(p, w, t)
          /\ UNCHANGED clean
    /\ UNCHANGED <<clock, enabled, claims, runs, stored, command, last_fired, env>>

\* Variant: a workflow that never fired keeps no anchor.
interval_prefilter_unseeded(p, w, last) == UNCHANGED last_fired

\* The suppressed branch of interval_prefilter_should_fire.
interval_prefilter_suppress(p, w, last) ==
    last_fired' = IF last = None THEN [last_fired EXCEPT ![p][w] = pod[p].now]
                                 ELSE last_fired

\* A failed read of the anchor counts as no anchor.
ExamineInterval(p, w) ==
    /\ pod[p].at = "loop" /\ Listed(p, w) /\ w \in Intervals
    /\ LET now == pod[p].now
           Prefilter(last, blind) ==
               IF interval_should_fire(last, now)
               THEN /\ \E t \in interval_fire_instant(now) : Due(p, w, t)
                    /\ UNCHANGED <<last_fired, clean>>
               ELSE /\ interval_prefilter_suppress(p, w, last)
                    /\ Skip(p, w) /\ Seen(p, w, blind)
       IN  IF last_fired[p][w] # None
           THEN Prefilter(last_fired[p][w], FALSE) /\ UNCHANGED env
           ELSE \/ Prefilter(latest_scheduled_workflow_fire(w), FALSE) /\ UNCHANGED env
                \/ Fails("database") /\ Prefilter(None, TRUE)
    /\ UNCHANGED <<clock, enabled, claims, runs, stored, command>>

\* Variant: the owner's authority is checked after the claim.
OwnerRefusedLate(p) ==
    /\ pod[p].at = "create"
    /\ Fails("owner")
    /\ Skip(p, pod[p].workflow) /\ Unexamined(p, pod[p].workflow)
    /\ UNCHANGED <<clock, enabled, claims, runs, stored, command, last_fired>>

\* The owner's authority is checked before the claim: a refusal claims nothing.
OwnerRefused(p) ==
    /\ pod[p].at = "claim"
    /\ Fails("owner")
    /\ Skip(p, pod[p].workflow) /\ Unexamined(p, pod[p].workflow)
    /\ UNCHANGED <<clock, enabled, claims, runs, stored, command, last_fired>>

\* Variant: every pod takes the claim.
FreeForAll(fire) == TRUE

\* The INSERT ... ON CONFLICT DO NOTHING of claim_scheduled_workflow_fire.
Free(fire) == fire \notin DOMAIN claims

Claimed(fire) == IF Free(fire) THEN [f \in DOMAIN claims \cup {fire} |->
                                       IF f = fire THEN 0 ELSE claims[f]] ELSE claims

claim_scheduled_workflow_fire(p) ==
    /\ pod[p].at = "claim"
    /\ LET w == pod[p].workflow
       IN  IF Free(Fire(p))
           THEN /\ claims' = Claimed(Fire(p))
                /\ pod' = [pod EXCEPT ![p].at = "create"]
                /\ UNCHANGED <<last_fired, clean>>
           ELSE Fired(p, w) /\ Skip(p, w) /\ Examined(p, w) /\ UNCHANGED claims
    /\ UNCHANGED <<clock, enabled, runs, stored, command, env>>

\* The claim's answer is an error; the row may be there.
ClaimFails(p) ==
    /\ pod[p].at = "claim"
    /\ Fails("database")
    /\ claims' \in {claims, Claimed(Fire(p))}
    /\ Skip(p, pod[p].workflow) /\ Unexamined(p, pod[p].workflow)
    /\ UNCHANGED <<clock, enabled, runs, stored, command, last_fired>>

\* A row of workflow_runs and the task that is to execute it.
NewRun(cause, p) == [cause |-> cause, pod |-> p, status |-> "pending", task |-> "none"]

\* create_workflow_run; on an error the claim stays and the instant is over,
\* whether or not the row is there.
create_workflow_run(p) ==
    /\ pod[p].at = "create"
    /\ LET w == pod[p].workflow
           created == Append(runs, NewRun(Fire(p), p))
       IN  \/ /\ runs' = created
              /\ pod' = [pod EXCEPT ![p] = [pod[p] EXCEPT !.at = "attach", !.run = Len(created)]]
              /\ UNCHANGED <<clean, env>>
           \/ /\ Fails("database")
              /\ runs' \in {runs, created}
              /\ Skip(p, w) /\ Unexamined(p, w)
    /\ UNCHANGED <<clock, enabled, claims, stored, command, last_fired>>

\* attach_scheduled_workflow_run, which may fail; then the run is spawned.
attach_scheduled_workflow_run(p) ==
    /\ pod[p].at = "attach"
    /\ LET w == pod[p].workflow
       IN  /\ \/ /\ claims' = [claims EXCEPT ![Fire(p)] = IF @ = 0 THEN pod[p].run ELSE @]
                 /\ UNCHANGED env
              \/ Fails("database") /\ UNCHANGED claims
           /\ Fired(p, w) /\ Skip(p, w) /\ Examined(p, w)
           /\ runs' = [runs EXCEPT ![pod[p].run].task = "spawned"]
    /\ UNCHANGED <<clock, enabled, stored, command>>

\* The list is done: prune last_fired, sleep.
EndTick(p) ==
    /\ pod[p].at = "loop" /\ pod[p].todo = {}
    /\ last_fired' = [last_fired EXCEPT ![p] = [w \in Intervals |->
                         IF w \in pod[p].listed THEN @[w] ELSE None]]
    /\ pod' = [pod EXCEPT ![p] = [Asleep(clock) EXCEPT !.now = pod[p].now]]
    /\ UNCHANGED <<clock, enabled, claims, runs, stored, command, clean, env>>

-----------------------------------------------------------------------------
(* Runs *)

Holding(p) == {i \in DOMAIN runs : runs[i].pod = p /\ runs[i].task = "steps"}

SetRun(i, status, task) == runs' = [runs EXCEPT ![i] = [runs[i] EXCEPT !.status = status, !.task = task]]

\* execute_run up to its steps: a permit and the status running, or the
\* error finalize_run stores.
StartRun(i) ==
    /\ runs[i].task = "spawned"
    /\ IF Cardinality(Holding(runs[i].pod)) < MaxConcurrent
       THEN \/ SetRun(i, "running", "steps") /\ UNCHANGED env
            \/ Fails("database") /\ SetRun(i, runs[i].status, "failed")
       ELSE SetRun(i, runs[i].status, "failed") /\ UNCHANGED env
    /\ UNCHANGED <<clock, enabled, claims, stored, command, last_fired, pod, clean>>

\* The steps end, fail, time out or reach an approval gate, which fails the run.
EndSteps(i, outcome) ==
    /\ runs[i].task = "steps"
    /\ SetRun(i, runs[i].status, outcome)
    /\ UNCHANGED <<clock, enabled, claims, stored, command, last_fired, pod, clean, env>>

\* finalize_run: an update that fails is only logged.
finalize_run(i) ==
    /\ runs[i].task \in {"completed", "failed"}
    /\ \/ SetRun(i, runs[i].task, "done") /\ UNCHANGED env
       \/ Fails("database") /\ SetRun(i, runs[i].status, "done")
    /\ UNCHANGED <<clock, enabled, claims, stored, command, last_fired, pod, clean>>

-----------------------------------------------------------------------------
(* The manual trigger command *)

\* persist_command_event inserts the event in an open transaction; another
\* insert of the same event waits for it and is a duplicate once it commits.
PersistCommand(p, t) ==
    /\ pod[p].at # "down"
    /\ t \in env.load.triggers \ stored /\ command[t].at = "none"
    /\ command' = [command EXCEPT ![t] = [at |-> "persisted", pod |-> p, run |-> 0]]
    /\ UNCHANGED <<clock, enabled, claims, runs, stored, last_fired, pod, clean, env>>

\* Variant: execution is spawned before the event is committed.
TriggeredRunSpawned(t) == [NewRun(t, command[t].pod) EXCEPT !.task = "spawned"]

TriggeredRun(t) == NewRun(t, command[t].pod)

\* create_workflow_run, outside the transaction; an error drops it.
CreateTriggered(t) ==
    /\ command[t].at = "persisted"
    /\ LET created == Append(runs, TriggeredRun(t))
       IN  \/ /\ runs' = created
              /\ command' = [command EXCEPT ![t] = [command[t] EXCEPT !.at = "created", !.run = Len(created)]]
              /\ UNCHANGED env
           \/ /\ Fails("database")
              /\ runs' \in {runs, created}
              /\ command' = [command EXCEPT ![t] = NoCommand]
    /\ UNCHANGED <<clock, enabled, claims, stored, last_fired, pod, clean>>

\* The commit; on an error nothing is spawned, whether or not it took effect.
CommitCommand(t) ==
    /\ command[t].at = "created"
    /\ \/ /\ stored' = stored \cup {t}
          /\ runs' = [runs EXCEPT ![command[t].run].task = "spawned"]
          /\ UNCHANGED env
       \/ /\ Fails("database")
          /\ stored' \in {stored, stored \cup {t}}
          /\ UNCHANGED runs
    /\ command' = [command EXCEPT ![t] = NoCommand]
    /\ UNCHANGED <<clock, enabled, claims, last_fired, pod, clean>>

-----------------------------------------------------------------------------
(* The environment *)

\* Time passes, but the next tick of a pod is at most Drift late.
Advance ==
    /\ clock < Horizon /\ clock < env.load.until
    /\ \A p \in Pods : pod[p].at # "down" => clock < pod[p].now + Window + Drift
    /\ clock' = clock + 1
    /\ UNCHANGED <<enabled, claims, runs, stored, command, last_fired, pod, clean, env>>

\* A pod dies: its memory and tasks are gone, its transactions roll back.
Crash(p) ==
    /\ Fails("crash")
    /\ pod[p].at # "down"
    /\ pod' = [pod EXCEPT ![p] = Down]
    /\ last_fired' = [last_fired EXCEPT ![p] = [w \in Intervals |-> None]]
    /\ clean' = [clean EXCEPT ![p] = [w \in Workflows |-> Unseen]]
    /\ runs' = [i \in DOMAIN runs |->
                  IF runs[i].pod = p /\ runs[i].task # "none"
                  THEN [runs[i] EXCEPT !.task = "done"] ELSE runs[i]]
    /\ command' = [t \in Triggers |-> IF command[t].pod = p THEN NoCommand ELSE command[t]]
    /\ UNCHANGED <<clock, enabled, claims, stored>>

\* A pod starts: the loop sleeps before its first tick.
Start(p) ==
    /\ pod[p].at = "down"
    /\ pod' = [pod EXCEPT ![p] = Asleep(clock)]
    /\ UNCHANGED <<clock, enabled, claims, runs, stored, command, last_fired, clean, env>>

\* A workflow is disabled, or enabled again.
SetEnabled(w) ==
    /\ Fails("disable")
    /\ w \in env.load.workflows
    /\ enabled' = IF w \in enabled THEN enabled \ {w} ELSE enabled \cup {w}
    /\ UNCHANGED <<clock, claims, runs, stored, command, last_fired, pod, clean>>

Loop(p) ==
    \/ Tick(p) \/ (\E w \in Workflows : ExamineCron(p, w) \/ ExamineInterval(p, w))
    \/ OwnerRefused(p)
    \/ claim_scheduled_workflow_fire(p) \/ ClaimFails(p)
    \/ create_workflow_run(p) \/ attach_scheduled_workflow_run(p) \/ EndTick(p)

Next ==
    \/ \E p \in Pods : Loop(p) \/ Crash(p) \/ Start(p)
    \/ \E i \in DOMAIN runs : \/ StartRun(i) \/ finalize_run(i)
                              \/ \E o \in {"completed", "failed"} : EndSteps(i, o)
    \/ \E p \in Pods, t \in Triggers : PersistCommand(p, t)
    \/ \E t \in Triggers : CreateTriggered(t) \/ CommitCommand(t)
    \/ \E w \in Workflows : SetEnabled(w)
    \/ Advance

Spec == Init /\ [][Next]_vars

-----------------------------------------------------------------------------
(* Properties *)

Fires == Workflows \X Time
RunIds == 1..Len(runs)

Run == [cause : Fires \cup Triggers, pod : Pods,
        status : {"pending", "running", "completed", "failed"},
        task : {"none", "spawned", "steps", "completed", "failed", "done"}]

Pod == [at : {"down", "sleep", "loop", "claim", "create", "attach"}, now : Time, wake : Nat,
        listed : SUBSET Workflows, todo : SUBSET Workflows,
        workflow : Workflows \cup {None}, instant : Time, run : Nat]

\* Every variable has its type, and a claim names a run of its own instant.
TypeOK ==
    /\ clock \in Time /\ enabled \subseteq Workflows /\ stored \subseteq Triggers
    /\ runs \in Seq(Run)
    /\ DOMAIN claims \subseteq Fires /\ claims \in [DOMAIN claims -> 0..Len(runs)]
    /\ \A f \in DOMAIN claims : claims[f] # 0 => runs[claims[f]].cause = f
    /\ command \in [Triggers -> [at : {"none", "persisted", "created"},
                                 pod : Pods \cup {None}, run : Nat]]
    /\ last_fired \in [Pods -> [Intervals -> Time \cup {None}]]
    /\ pod \in [Pods -> Pod]

\* A schedule instant is fired at most once, whatever pods tick together,
\* crash or get no answer from the database.
OneRunPerInstant ==
    \A i, j \in RunIds : runs[i].cause = runs[j].cause /\ runs[i].cause \in Fires => i = j

\* A trigger command is executed at most once, however often a client sends
\* it again after an error or a crash.
TriggerExecutesOnce ==
    \A i, j \in RunIds :
        /\ runs[i].cause = runs[j].cause /\ runs[i].cause \in Triggers
        /\ runs[i].task # "none" /\ runs[j].task # "none"
        => i = j

InProgress(f) == \E p \in Pods : pod[p].at = "create" /\ f = Fire(p)

Handled(i) ==
    \/ runs[i].status \in {"completed", "failed"}
    \/ runs[i].task \notin {"none", "done"}
    \/ \E p \in Pods : pod[p].at = "attach" /\ pod[p].run = i
    \/ \E t \in Triggers : command[t].at = "created" /\ command[t].run = i

\* Without a crash or a database error no claimed instant and no run is lost,
\* also when an owner loses authority, a workflow is disabled or every permit
\* is taken.
NothingLostSilently ==
    env.hit \cap {"crash", "database"} = {} =>
        /\ \A f \in DOMAIN claims : InProgress(f) \/ \E i \in RunIds : runs[i].cause = f
        /\ \A i \in RunIds : Handled(i)

\* p has gone through w for an interval and its last claim is two intervals old.
Stalled(p, w) ==
    LET c == clean[p][w]
    IN  /\ c.from # None /\ c.to >= c.from + Interval
        /\ ~\E f \in DOMAIN claims : f[1] = w /\ f[2] + 2 * Interval > c.to

\* An interval workflow keeps firing: a pod that has examined it for an
\* interval without a failure finds a claim less than two intervals old.
IntervalKeepsUp == \A p \in Pods, w \in Intervals : ~clean[p][w].blind => ~Stalled(p, w)

\* The cron instants among the ticks of p that no pod has claimed.
Unclaimed(p, w) ==
    {t \in Multiples(Period[w]) : /\ clean[p][w].from # None
                                  /\ t > clean[p][w].from /\ t <= clean[p][w].to
                                  /\ <<w, t>> \notin DOMAIN claims}

\* An instant of w less than a window before t is claimed.
FiredJustBefore(w, t) ==
    \E u \in Multiples(Period[w]) : u < t /\ t < u + Window /\ <<w, u>> \in DOMAIN claims

\* A cron leaves out an instant for two reasons only: the sleep and the scan
\* took longer than the window and it fell between two windows, or
\* cron_fire_instant had an earlier one in the same window.
CronMissesAccountedFor ==
    \A p \in Pods, w \in Crons :
        \A t \in Unclaimed(p, w) : t \in clean[p][w].gaps \/ FiredJustBefore(w, t)

\* Schedules keep their pace: however late the ticks of an undisturbed pod, an
\* interval is never two intervals behind, and a cron leaves out only what no
\* window reaches or what shares a window with an instant that fires, also
\* after a restart or a lost claim.
SchedulesKeepPace == IntervalKeepsUp /\ CronMissesAccountedFor

\* A late tick misses no cron instant: the window tolerates its drift.
DriftLeavesNoGap == \A p \in Pods, w \in Crons : Unclaimed(p, w) = {}
=============================================================================
