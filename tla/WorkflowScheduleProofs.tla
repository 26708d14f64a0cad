----------------------- MODULE WorkflowScheduleProofs -----------------------
(***************************************************************************)
(* What the scheduler and the trigger command guarantee for every number   *)
(* of pods, workflows and triggers, every period and every order of        *)
(* crashes, lost answers and retries.                                      *)
(***************************************************************************)
EXTENDS WorkflowSchedule, TLAPS

\* A run of a schedule instant rests on a claim of that instant.
FiresClaimed ==
    \A i \in RunIds : runs[i].cause \in Fires => runs[i].cause \in DOMAIN claims

\* A pod past the claim holds it: no run of the instant exists before it
\* creates one, and the one it attaches is the one it created.
PodsOK ==
    \A p \in Pods :
      /\ pod[p].at \in {"claim", "create", "attach"} => pod[p].workflow \in Workflows
      /\ pod[p].at \in {"create", "attach"} => Fire(p) \in DOMAIN claims
      /\ pod[p].at = "create" => \A i \in RunIds : runs[i].cause # Fire(p)
      /\ pod[p].at = "attach" => pod[p].run \in RunIds /\ runs[pod[p].run].cause = Fire(p)

\* No two pods are about to create a run of the same instant.
OneCreator ==
    \A p, q \in Pods :
      pod[p].at = "create" /\ pod[q].at = "create" /\ Fire(p) = Fire(q) => p = q

\* An open transaction belongs to a pod and to a command that is not committed,
\* and the run it has created is a run of that command.
CommandsOK ==
    \A t \in Triggers :
      /\ command[t].at # "none" => t \notin stored /\ command[t].pod \in Pods
      /\ command[t].at = "created" =>
           command[t].run \in RunIds /\ runs[command[t].run].cause = t

\* Only a committed command has a run that was spawned.
SpawnedIsStored ==
    \A i \in RunIds :
      runs[i].cause \in Triggers /\ runs[i].task # "none" => runs[i].cause \in stored

IndInv ==
    /\ TypeOK
    /\ FiresClaimed
    /\ PodsOK
    /\ OneCreator
    /\ OneRunPerInstant
    /\ CommandsOK
    /\ SpawnedIsStored
    /\ TriggerExecutesOnce

-----------------------------------------------------------------------------
\* What a step does that creates no run and spawns none of a command: the
\* runs keep their causes.
RunsKept ==
    /\ Len(runs') = Len(runs)
    /\ \A i \in RunIds :
         /\ runs'[i].cause = runs[i].cause
         /\ runs'[i].task # "none" => runs[i].task # "none" \/ runs[i].cause \in Fires

\* What a step does that moves no pod past a claim.
PodsKept ==
    \A p \in Pods :
      /\ pod'[p].at \in {"create", "attach"} => pod'[p] = pod[p]
      /\ pod'[p].at = "claim" => pod'[p].workflow \in Workflows

\* No handler opens a transaction or creates a run.
CommandsKept ==
    /\ stored' = stored
    /\ \A t \in Triggers : command'[t] = command[t] \/ command'[t].at = "none"

\* The members of a sequence of runs are runs.
LEMMA RunsAreRuns ==
    ASSUME TypeOK
    PROVE  /\ Len(runs) \in Nat /\ DOMAIN runs = RunIds
           /\ \A i \in RunIds : runs[i] \in Run
BY DEF TypeOK, RunIds

\* A relay with no claims and no runs satisfies the invariant.
LEMMA InitIndInv == Init => IndInv
<1> SUFFICES ASSUME Init PROVE IndInv
    OBVIOUS
<1>1. runs = <<>> /\ RunIds = {} /\ Len(runs) = 0
    BY DEF Init, RunIds
<1>2. claims = <<>> /\ DOMAIN claims = {}
    BY DEF Init
<1>3. runs \in Seq(Run)
    BY <1>1
<1>4. claims \in [DOMAIN claims -> 0..Len(runs)]
    BY <1>2
<1>5. enabled \subseteq Workflows
    BY ScheduleAssumption DEF Init, Workload
<1>6. pod \in [Pods -> Pod]
    BY ScheduleAssumption DEF Init, Asleep, Pod, Time
<1>7. /\ clock \in Time /\ stored \subseteq Triggers
      /\ last_fired \in [Pods -> [Intervals -> Time \cup {None}]]
      /\ command \in [Triggers -> [at : {"none", "persisted", "created"},
                                   pod : Pods \cup {None}, run : Nat]]
    BY ScheduleAssumption DEF Init, NoCommand, Time
<1>8. TypeOK
    BY <1>2, <1>3, <1>4, <1>5, <1>6, <1>7 DEF TypeOK
<1>9. PodsOK /\ OneCreator
    BY DEF Init, Asleep, PodsOK, OneCreator
<1>10. CommandsOK
    BY DEF Init, NoCommand, CommandsOK
<1> QED BY <1>1, <1>8, <1>9, <1>10
        DEF IndInv, FiresClaimed, OneRunPerInstant, SpawnedIsStored, TriggerExecutesOnce

\* Steps that create no run, spawn none of a command and move no pod past a claim.
LEMMA QuietStep ==
    ASSUME IndInv, TypeOK', RunsKept, PodsKept, CommandsKept,
           DOMAIN claims \subseteq DOMAIN claims'
    PROVE  IndInv'
<1> USE DEF IndInv
<1>1. RunIds' = RunIds
    BY DEF RunsKept, RunIds
<1>2. FiresClaimed'
    BY <1>1 DEF FiresClaimed, RunsKept
<1>3. PodsOK'
    BY <1>1 DEF PodsOK, RunsKept, PodsKept, Fire
<1>4. OneCreator'
    BY DEF OneCreator, PodsKept, Fire
<1>5. OneRunPerInstant'
    BY <1>1 DEF OneRunPerInstant, RunsKept
<1>6. CommandsOK'
    BY <1>1 DEF CommandsOK, RunsKept, CommandsKept
<1>7. \A t \in Triggers : t \notin Fires
    BY ScheduleAssumption DEF Fires
<1>8. SpawnedIsStored'
    BY <1>1, <1>7 DEF SpawnedIsStored, RunsKept, CommandsKept
<1>9. TriggerExecutesOnce'
    BY <1>1, <1>7 DEF TriggerExecutesOnce, RunsKept
<1> QED BY <1>2, <1>3, <1>4, <1>5, <1>6, <1>8, <1>9

\* The instants a schedule resolves are on the clock.
LEMMA InstantsAreTimes ==
    ASSUME NEW w, NEW now
    PROVE  cron_fire_instant(w, now) \subseteq Time /\ interval_fire_instant(now) \subseteq Time
BY DEF cron_fire_instant, interval_fire_instant, Multiples

\* A pod that goes to sleep, at the start or at the end of a tick.
LEMMA SleepIsPod ==
    ASSUME NEW t \in Time
    PROVE  Asleep(t) \in Pod /\ Asleep(t).at = "sleep"
BY ScheduleAssumption DEF Asleep, Pod, Time

\* Leaving a workflow keeps the pods typed and moves none past a claim.
LEMMA SkipKeeps ==
    ASSUME TypeOK, NEW p \in Pods, NEW w, Skip(p, w), PodsOK
    PROVE  pod' \in [Pods -> Pod] /\ PodsKept
<1> DEFINE new == [pod[p] EXCEPT !.at = "loop", !.todo = pod[p].todo \ {w}, !.workflow = None]
<1>1. pod' = [pod EXCEPT ![p] = new]
    BY DEF Skip
<1>2. pod \in [Pods -> Pod]
    BY DEF TypeOK
<1>3. new \in Pod /\ new.at = "loop"
    BY <1>2 DEF Pod
<1> HIDE DEF new
<1> QED BY <1>1, <1>2, <1>3 DEF PodsKept, PodsOK

\* So does finding a workflow due.
LEMMA DueKeeps ==
    ASSUME TypeOK, NEW p \in Pods, NEW w \in Workflows, NEW t \in Time, Due(p, w, t), PodsOK
    PROVE  pod' \in [Pods -> Pod] /\ PodsKept
<1> DEFINE new == [pod[p] EXCEPT !.at = "claim", !.todo = pod[p].todo \ {w}, !.workflow = w,
                                !.instant = t]
<1>1. pod' = [pod EXCEPT ![p] = new]
    BY DEF Due
<1>2. pod \in [Pods -> Pod]
    BY DEF TypeOK
<1>3. new \in Pod /\ new.at = "claim" /\ new.workflow = w
    BY <1>2 DEF Pod
<1> HIDE DEF new
<1> QED BY <1>1, <1>2, <1>3 DEF PodsKept, PodsOK

\* last_fired holds instants of the clock.
LEMMA FiredKeeps ==
    ASSUME TypeOK, NEW p \in Pods, NEW w, Fired(p, w)
    PROVE  last_fired' \in [Pods -> [Intervals -> Time \cup {None}]]
<1>1. pod[p].now \in Time
    BY DEF TypeOK, Pod
<1> QED BY <1>1 DEF TypeOK, Fired

\* A step of the loop that leaves runs, commands and claims alone.
LEMMA LoopQuiet ==
    ASSUME IndInv, PodsKept, pod' \in [Pods -> Pod],
           last_fired' \in [Pods -> [Intervals -> Time \cup {None}]],
           UNCHANGED <<clock, enabled, claims, runs, stored, command>>
    PROVE  IndInv'
<1>1. TypeOK'
    BY DEF IndInv, TypeOK
<1> QED BY <1>1, QuietStep DEF RunsKept, CommandsKept, RunIds

\* Listing the workflows and examining one of them.
LEMMA ExamineSteps ==
    ASSUME IndInv, NEW p \in Pods,
           \/ Tick(p) \/ EndTick(p) \/ OwnerRefused(p)
           \/ \E w \in Workflows : ExamineCron(p, w) \/ ExamineInterval(p, w)
    PROVE  IndInv'
<1>0. TypeOK /\ PodsOK
    BY DEF IndInv
<1>1. last_fired \in [Pods -> [Intervals -> Time \cup {None}]] /\ pod[p] \in Pod
    BY <1>0 DEF TypeOK
<1>2. clock \in Time /\ enabled \subseteq Workflows /\ pod \in [Pods -> Pod]
    BY <1>0 DEF TypeOK
<1>3. CASE Tick(p)
  <2> DEFINE new == [pod[p] EXCEPT !.at = "loop", !.now = clock, !.listed = enabled,
                                  !.todo = enabled]
  <2>0. new \in Pod /\ new.at = "loop"
    BY <1>1, <1>2 DEF Pod
  <2>3. pod' = [pod EXCEPT ![p] = new] \/ pod' = [pod EXCEPT ![p] = Asleep(clock)]
    BY <1>3 DEF Tick
  <2> HIDE DEF new
  <2>1. pod' \in [Pods -> Pod] /\ PodsKept
    BY <1>0, <1>2, <2>0, <2>3, SleepIsPod DEF PodsKept, PodsOK
  <2> QED BY <1>1, <1>3, <2>1, LoopQuiet DEF Tick
<1>4. CASE EndTick(p)
  <2>1. last_fired' \in [Pods -> [Intervals -> Time \cup {None}]]
    BY <1>1, <1>4 DEF EndTick
  <2> DEFINE new == [Asleep(clock) EXCEPT !.now = pod[p].now]
  <2>0. new \in Pod /\ new.at = "sleep"
    BY <1>1, <1>2, SleepIsPod DEF Pod
  <2>3. pod' = [pod EXCEPT ![p] = new]
    BY <1>4 DEF EndTick
  <2> HIDE DEF new
  <2>2. pod' \in [Pods -> Pod] /\ PodsKept
    BY <1>0, <1>2, <2>0, <2>3 DEF PodsKept, PodsOK
  <2> QED BY <1>4, <2>1, <2>2, LoopQuiet DEF EndTick
<1>5. CASE OwnerRefused(p)
    BY <1>0, <1>1, <1>5, SkipKeeps, LoopQuiet DEF OwnerRefused
<1>6. ASSUME NEW w \in Workflows, ExamineCron(p, w)
      PROVE  IndInv'
  <2>1. Skip(p, w) \/ \E t \in Time : Due(p, w, t)
    BY <1>6, InstantsAreTimes DEF ExamineCron
  <2> QED BY <1>0, <1>1, <1>6, <2>1, SkipKeeps, DueKeeps, LoopQuiet DEF ExamineCron
<1>7. ASSUME NEW w \in Workflows, ExamineInterval(p, w)
      PROVE  IndInv'
  <2>1. PICK last : \/ /\ \E t \in interval_fire_instant(pod[p].now) : Due(p, w, t)
                       /\ UNCHANGED last_fired
                    \/ interval_prefilter_suppress(p, w, last) /\ Skip(p, w)
    BY <1>7 DEF ExamineInterval
  <2>2. last_fired' \in [Pods -> [Intervals -> Time \cup {None}]]
    BY <1>1, <2>1 DEF interval_prefilter_suppress, Pod
  <2>3. Skip(p, w) \/ \E t \in Time : Due(p, w, t)
    BY <2>1, InstantsAreTimes
  <2> QED BY <1>0, <1>7, <2>2, <2>3, SkipKeeps, DueKeeps, LoopQuiet DEF ExamineInterval
<1> QED BY <1>3, <1>4, <1>5, <1>6, <1>7

\* A claim that is inserted is the only change of the table, and names no run.
LEMMA ClaimedKeeps ==
    ASSUME TypeOK, NEW f \in Fires
    PROVE  /\ DOMAIN claims \subseteq DOMAIN Claimed(f) /\ DOMAIN Claimed(f) \subseteq Fires
           /\ Claimed(f) \in [DOMAIN Claimed(f) -> 0..Len(runs)]
           /\ \A g \in DOMAIN Claimed(f) :
                Claimed(f)[g] # 0 => runs[Claimed(f)[g]].cause = g
           /\ Free(f) => DOMAIN Claimed(f) = DOMAIN claims \cup {f}
<1>1. Len(runs) \in Nat
    BY RunsAreRuns
<1>2. /\ DOMAIN claims \subseteq Fires /\ claims \in [DOMAIN claims -> 0..Len(runs)]
      /\ \A g \in DOMAIN claims : claims[g] # 0 => runs[claims[g]].cause = g
    BY DEF TypeOK
<1>3. CASE Free(f)
    BY <1>1, <1>2, <1>3 DEF Claimed
<1>4. CASE ~Free(f)
    BY <1>1, <1>2, <1>4 DEF Claimed
<1> QED BY <1>3, <1>4

\* The claim: the instant was free, so no run of it exists and no pod is
\* about to create one; or it was taken, and the pod goes on.
LEMMA ClaimSteps ==
    ASSUME IndInv, NEW p \in Pods, claim_scheduled_workflow_fire(p) \/ ClaimFails(p)
    PROVE  IndInv'
<1>0. TypeOK /\ PodsOK
    BY DEF IndInv
<1>1. pod \in [Pods -> Pod]
    BY <1>0 DEF TypeOK
<1>2. pod[p].at = "claim" /\ pod[p].workflow \in Workflows /\ Fire(p) \in Fires
    BY <1>0, <1>1 DEF claim_scheduled_workflow_fire, ClaimFails, PodsOK, Fire, Fires, Pod
<1>3. CASE ClaimFails(p)
  <2>1. pod' \in [Pods -> Pod] /\ PodsKept
    BY <1>0, <1>3, SkipKeeps DEF ClaimFails
  <2>2. claims' = claims \/ claims' = Claimed(Fire(p))
    BY <1>3 DEF ClaimFails
  <2>3. /\ DOMAIN claims' \subseteq Fires /\ claims' \in [DOMAIN claims' -> 0..Len(runs)]
        /\ \A g \in DOMAIN claims' : claims'[g] # 0 => runs[claims'[g]].cause = g
    <3>1. CASE claims' = claims
      BY <1>0, <3>1 DEF TypeOK
    <3>2. CASE claims' = Claimed(Fire(p))
      BY <1>0, <1>2, <3>2, ClaimedKeeps
    <3> QED BY <2>2, <3>1, <3>2
  <2>4. DOMAIN claims \subseteq DOMAIN claims'
    BY <1>0, <1>2, <2>2, ClaimedKeeps
  <2>5. TypeOK'
    BY <1>0, <1>3, <2>1, <2>3 DEF TypeOK, ClaimFails
  <2> QED BY <1>3, <2>1, <2>4, <2>5, QuietStep DEF ClaimFails, RunsKept, CommandsKept, RunIds
<1>4. CASE claim_scheduled_workflow_fire(p) /\ ~Free(Fire(p))
  <2>1. pod' \in [Pods -> Pod] /\ PodsKept
    BY <1>0, <1>4, SkipKeeps DEF claim_scheduled_workflow_fire
  <2>2. last_fired' \in [Pods -> [Intervals -> Time \cup {None}]]
    BY <1>0, <1>4, FiredKeeps DEF claim_scheduled_workflow_fire
  <2> QED BY <1>4, <2>1, <2>2, LoopQuiet DEF claim_scheduled_workflow_fire
<1>5. CASE claim_scheduled_workflow_fire(p) /\ Free(Fire(p))
  <2>1. /\ pod' = [pod EXCEPT ![p].at = "create"] /\ claims' = Claimed(Fire(p))
        /\ UNCHANGED <<clock, enabled, runs, stored, command, last_fired>>
    BY <1>5 DEF claim_scheduled_workflow_fire
  <2>2. DOMAIN claims' = DOMAIN claims \cup {Fire(p)} /\ Fire(p) \notin DOMAIN claims
    BY <1>0, <1>2, <1>5, <2>1, ClaimedKeeps DEF Free
  <2>3. /\ pod' \in [Pods -> Pod] /\ Fire(p)' = Fire(p) /\ pod'[p].at = "create"
        /\ pod'[p].workflow = pod[p].workflow
        /\ \A q \in Pods \ {p} : pod'[q] = pod[q] /\ Fire(q)' = Fire(q)
    BY <1>1, <1>2, <2>1 DEF Pod, Fire
  <2>4. TypeOK'
    <3>1. /\ DOMAIN claims' \subseteq Fires /\ claims' \in [DOMAIN claims' -> 0..Len(runs)]
          /\ \A g \in DOMAIN claims' : claims'[g] # 0 => runs[claims'[g]].cause = g
      BY <1>0, <1>2, <2>1, ClaimedKeeps
    <3> QED BY <1>0, <2>1, <2>3, <3>1 DEF TypeOK
  <2>5. RunIds' = RunIds
    BY <2>1 DEF RunIds
  <2>6. \A i \in RunIds : runs[i].cause # Fire(p)
    BY <1>2, <2>2 DEF IndInv, FiresClaimed
  <2>7. FiresClaimed'
    BY <2>1, <2>2, <2>5 DEF IndInv, FiresClaimed
  <2>8. PodsOK'
    BY <1>0, <1>2, <2>1, <2>2, <2>3, <2>5, <2>6 DEF PodsOK
  <2>9. OneCreator'
    BY <1>0, <2>2, <2>3 DEF IndInv, OneCreator, PodsOK
  <2>10. OneRunPerInstant' /\ CommandsOK' /\ SpawnedIsStored' /\ TriggerExecutesOnce'
    BY <2>1, <2>5 DEF IndInv, OneRunPerInstant, CommandsOK, SpawnedIsStored,
                      TriggerExecutesOnce
  <2> QED BY <2>4, <2>7, <2>8, <2>9, <2>10 DEF IndInv
<1> QED BY <1>3, <1>4, <1>5

\* Appending a run that is not spawned: the others stay where they are.
LEMMA AppendRun ==
    ASSUME TypeOK, NEW c \in Fires \cup Triggers, NEW p \in Pods,
           runs' = Append(runs, NewRun(c, p))
    PROVE  /\ runs' \in Seq(Run) /\ Len(runs') = Len(runs) + 1 /\ Len(runs) \in Nat
           /\ RunIds' = RunIds \cup {Len(runs) + 1}
           /\ \A i \in RunIds : runs'[i] = runs[i]
           /\ runs'[Len(runs) + 1].cause = c /\ runs'[Len(runs) + 1].task = "none"
<1>1. runs \in Seq(Run) /\ NewRun(c, p) \in Run
    BY DEF TypeOK, NewRun, Run
<1>2. NewRun(c, p).cause = c /\ NewRun(c, p).task = "none"
    BY DEF NewRun
<1> QED BY <1>1, <1>2 DEF RunIds

\* The invariants of the runs survive a new one whose instant, if it has one,
\* is claimed and has no run yet.
LEMMA AppendKeeps ==
    ASSUME IndInv, NEW c, NEW n, UNCHANGED <<claims, stored>>,
           RunIds' = RunIds \cup {n}, \A i \in RunIds : runs'[i] = runs[i],
           runs'[n].cause = c, runs'[n].task = "none",
           c \in Fires => c \in DOMAIN claims /\ \A i \in RunIds : runs[i].cause # c
    PROVE  FiresClaimed' /\ OneRunPerInstant' /\ SpawnedIsStored' /\ TriggerExecutesOnce'
<1>1. FiresClaimed'
    BY DEF IndInv, FiresClaimed
<1>2. OneRunPerInstant'
    BY DEF IndInv, OneRunPerInstant
<1>3. SpawnedIsStored'
    BY DEF IndInv, SpawnedIsStored
<1>4. TriggerExecutesOnce'
    BY DEF IndInv, TriggerExecutesOnce
<1> QED BY <1>1, <1>2, <1>3, <1>4

\* The types survive it as well.
LEMMA AppendType ==
    ASSUME TypeOK, NEW c \in Fires \cup Triggers, NEW p \in Pods,
           runs' = Append(runs, NewRun(c, p)), pod' \in [Pods -> Pod],
           command' \in [Triggers -> [at : {"none", "persisted", "created"},
                                      pod : Pods \cup {None}, run : Nat]],
           UNCHANGED <<clock, enabled, claims, stored, last_fired>>
    PROVE  TypeOK'
<1>1. /\ runs' \in Seq(Run) /\ Len(runs') = Len(runs) + 1 /\ Len(runs) \in Nat
      /\ \A i \in RunIds : runs'[i] = runs[i]
    BY AppendRun
<1>2. claims \in [DOMAIN claims -> 0..Len(runs)]
    BY DEF TypeOK
<1>3. claims' \in [DOMAIN claims' -> 0..Len(runs')]
    BY <1>1, <1>2
<1>4. \A f \in DOMAIN claims' : claims'[f] # 0 => runs'[claims'[f]].cause = f
    BY <1>1, <1>2 DEF TypeOK, RunIds
<1> QED BY <1>1, <1>3, <1>4 DEF TypeOK

\* The run of a claimed instant is created, or the call fails with or without
\* the row: the pod that created it is the only one that could.
LEMMA CreateStep ==
    ASSUME IndInv, NEW p \in Pods, create_workflow_run(p)
    PROVE  IndInv'
<1>0. TypeOK /\ PodsOK /\ OneCreator
    BY DEF IndInv
<1>1. pod \in [Pods -> Pod] /\ last_fired \in [Pods -> [Intervals -> Time \cup {None}]]
    BY <1>0 DEF TypeOK
<1>2. /\ pod[p].at = "create" /\ Fire(p) \in Fires /\ Fire(p) \in DOMAIN claims
      /\ \A i \in RunIds : runs[i].cause # Fire(p)
    BY <1>0, <1>1 DEF create_workflow_run, PodsOK, Fire, Fires, Pod
<1>3. UNCHANGED <<clock, enabled, claims, stored, command, last_fired>>
    BY DEF create_workflow_run
<1>4. CASE runs' = runs /\ Skip(p, pod[p].workflow)
    BY <1>0, <1>1, <1>3, <1>4, SkipKeeps, LoopQuiet
<1>5. CASE runs' = Append(runs, NewRun(Fire(p), p))
  <2>1. PICK n \in Nat : /\ n = Len(runs') /\ RunIds' = RunIds \cup {n}
                         /\ \A i \in RunIds : runs'[i] = runs[i]
                         /\ runs'[n].cause = Fire(p) /\ runs'[n].task = "none"
    <3>1. /\ Len(runs') = Len(runs) + 1 /\ Len(runs) \in Nat
          /\ RunIds' = RunIds \cup {Len(runs) + 1}
          /\ \A i \in RunIds : runs'[i] = runs[i]
          /\ runs'[Len(runs) + 1].cause = Fire(p) /\ runs'[Len(runs) + 1].task = "none"
      BY <1>0, <1>2, <1>5, AppendRun
    <3>2. Len(runs) + 1 \in Nat
      BY <3>1
    <3> WITNESS Len(runs) + 1 \in Nat
    <3> QED BY <3>1
  <2> DEFINE new == [pod[p] EXCEPT !.at = "attach", !.run = n]
  <2>2. /\ new \in Pod /\ new.at = "attach" /\ new.run = n
        /\ new.workflow = pod[p].workflow /\ new.instant = pod[p].instant
    BY <1>1 DEF Pod
  <2>3. pod' = [pod EXCEPT ![p] = new] \/ Skip(p, pod[p].workflow)
    BY <1>5, <2>1 DEF create_workflow_run
  <2> HIDE DEF new
  <2>4. /\ pod' \in [Pods -> Pod]
        /\ \A q \in Pods : pod'[q].at \in {"claim", "create"} => q # p /\ pod'[q] = pod[q]
        /\ \A q \in Pods : pod'[q].at = "attach" =>
             \/ q # p /\ pod'[q] = pod[q]
             \/ q = p /\ pod'[q] = new
    <3>1. CASE pod' = [pod EXCEPT ![p] = new]
      BY <1>1, <2>2, <3>1
    <3>2. CASE Skip(p, pod[p].workflow)
      <4>1. pod' \in [Pods -> Pod] /\ pod'[p].at = "loop" /\ \A q \in Pods \ {p} : pod'[q] = pod[q]
        BY <1>0, <1>1, <3>2, SkipKeeps DEF Skip, Pod
      <4> QED BY <4>1
    <3> QED BY <2>3, <3>1, <3>2
  <2>5. \A q \in Pods : pod'[q] = pod[q] => Fire(q)' = Fire(q)
    BY DEF Fire
  <2>6. pod'[p] = new => Fire(p)' = Fire(p)
    BY <2>2 DEF Fire
  <2>7. FiresClaimed' /\ OneRunPerInstant' /\ SpawnedIsStored' /\ TriggerExecutesOnce'
    BY <1>2, <1>3, <2>1, AppendKeeps
  <2>8. TypeOK'
    <3>1. command' \in [Triggers -> [at : {"none", "persisted", "created"},
                                     pod : Pods \cup {None}, run : Nat]]
      BY <1>0, <1>3 DEF TypeOK
    <3> QED BY <1>0, <1>2, <1>3, <1>5, <2>4, <3>1, AppendType
  <2>9. OneCreator'
    BY <1>0, <2>4, <2>5 DEF OneCreator
  <2>10. PodsOK'
    <3> SUFFICES ASSUME NEW q \in Pods
                 PROVE  /\ pod'[q].at \in {"claim", "create", "attach"} =>
                             pod'[q].workflow \in Workflows
                        /\ pod'[q].at \in {"create", "attach"} => Fire(q)' \in DOMAIN claims'
                        /\ pod'[q].at = "create" => \A i \in RunIds' : runs'[i].cause # Fire(q)'
                        /\ pod'[q].at = "attach" => /\ pod'[q].run \in RunIds'
                                                    /\ runs'[pod'[q].run].cause = Fire(q)'
      BY DEF PodsOK
    <3>1. CASE q # p /\ pod'[q] = pod[q]
      BY <1>0, <1>2, <1>3, <2>1, <2>5, <3>1 DEF PodsOK, OneCreator
    <3>2. CASE q = p /\ pod'[q] = new
      BY <1>0, <1>2, <1>3, <2>1, <2>2, <2>6, <3>2 DEF PodsOK
    <3> QED BY <2>4, <3>1, <3>2
  <2>11. CommandsOK'
    BY <1>3, <2>1 DEF IndInv, CommandsOK
  <2> QED BY <2>7, <2>8, <2>9, <2>10, <2>11 DEF IndInv
<1> QED BY <1>4, <1>5 DEF create_workflow_run

\* Changing the status and the task of one run.
LEMMA RunUpdate ==
    ASSUME TypeOK, NEW i \in RunIds, NEW r \in Run, r.cause = runs[i].cause,
           runs' = [runs EXCEPT ![i] = r]
    PROVE  /\ runs' \in Seq(Run) /\ Len(runs') = Len(runs) /\ RunIds' = RunIds
           /\ runs'[i] = r /\ \A j \in RunIds : j # i => runs'[j] = runs[j]
           /\ \A j \in RunIds : runs'[j].cause = runs[j].cause
<1>1. runs \in Seq(Run) /\ i \in 1..Len(runs)
    BY DEF TypeOK, RunIds
<1>2. runs' \in Seq(Run) /\ Len(runs') = Len(runs)
    BY <1>1
<1>3. runs'[i] = r /\ \A j \in RunIds : j # i => runs'[j] = runs[j]
    BY <1>1 DEF RunIds
<1> QED BY <1>2, <1>3 DEF RunIds

\* The types survive a change of runs that keeps their number and causes.
LEMMA RunsType ==
    ASSUME TypeOK, runs' \in Seq(Run), Len(runs') = Len(runs),
           \A i \in RunIds : runs'[i].cause = runs[i].cause,
           pod' \in [Pods -> Pod],
           command' \in [Triggers -> [at : {"none", "persisted", "created"},
                                      pod : Pods \cup {None}, run : Nat]],
           last_fired' \in [Pods -> [Intervals -> Time \cup {None}]],
           stored' \subseteq Triggers, UNCHANGED <<clock, enabled, claims>>
    PROVE  TypeOK'
<1>1. Len(runs) \in Nat /\ claims \in [DOMAIN claims -> 0..Len(runs)]
    BY RunsAreRuns DEF TypeOK
<1>2. \A f \in DOMAIN claims : claims[f] # 0 => claims[f] \in RunIds
    BY <1>1 DEF RunIds
<1>3. \A f \in DOMAIN claims : claims[f] # 0 => runs[claims[f]].cause = f
    BY DEF TypeOK
<1>4. \A f \in DOMAIN claims' : claims'[f] # 0 => runs'[claims'[f]].cause = f
    BY <1>2, <1>3
<1> QED BY <1>1, <1>4 DEF TypeOK

\* A task executes: its run was spawned before.
LEMMA RunSteps ==
    ASSUME IndInv, NEW i \in DOMAIN runs,
           \/ StartRun(i) \/ finalize_run(i)
           \/ \E o \in {"completed", "failed"} : EndSteps(i, o)
    PROVE  IndInv'
<1>0. TypeOK
    BY DEF IndInv
<1>1. i \in RunIds /\ runs[i] \in Run
    BY <1>0, RunsAreRuns
<1>2. PICK status \in {"pending", "running", "completed", "failed"},
           task \in {"none", "spawned", "steps", "completed", "failed", "done"} :
        SetRun(i, status, task)
  <2>0. runs[i].status \in {"pending", "running", "completed", "failed"}
    BY <1>1 DEF Run
  <2>1. CASE StartRun(i)
    <3>1. SetRun(i, "running", "steps") \/ SetRun(i, runs[i].status, "failed")
      BY <2>1 DEF StartRun
    <3> QED BY <2>0, <3>1, Zenon
  <2>2. CASE finalize_run(i)
    <3>1. /\ runs[i].task \in {"completed", "failed"}
          /\ SetRun(i, runs[i].task, "done") \/ SetRun(i, runs[i].status, "done")
      BY <2>2 DEF finalize_run
    <3> QED BY <2>0, <3>1, Zenon
  <2>3. CASE \E o \in {"completed", "failed"} : EndSteps(i, o)
    <3>1. \E o \in {"completed", "failed"} : SetRun(i, runs[i].status, o)
      BY <2>3 DEF EndSteps
    <3> QED BY <2>0, <3>1, Zenon
  <2> QED BY <2>1, <2>2, <2>3
<1>3. UNCHANGED <<clock, enabled, claims, stored, command, last_fired, pod>>
    BY DEF StartRun, finalize_run, EndSteps
<1>4. runs[i].task # "none"
    BY DEF StartRun, finalize_run, EndSteps
<1> DEFINE r == [runs[i] EXCEPT !.status = status, !.task = task]
<1>5. r \in Run /\ r.cause = runs[i].cause
    BY <1>1 DEF Run
<1>6. runs' = [runs EXCEPT ![i] = r]
    BY <1>2 DEF SetRun
<1> HIDE DEF r
<1>7. /\ runs' \in Seq(Run) /\ Len(runs') = Len(runs)
      /\ \A j \in RunIds : j # i => runs'[j] = runs[j]
      /\ \A j \in RunIds : runs'[j].cause = runs[j].cause
    BY <1>0, <1>1, <1>5, <1>6, RunUpdate
<1>8. TypeOK'
  <2>1. /\ pod' \in [Pods -> Pod] /\ stored' \subseteq Triggers
        /\ command' \in [Triggers -> [at : {"none", "persisted", "created"},
                                      pod : Pods \cup {None}, run : Nat]]
        /\ last_fired' \in [Pods -> [Intervals -> Time \cup {None}]]
    BY <1>0, <1>3 DEF TypeOK
  <2> QED BY <1>0, <1>3, <1>7, <2>1, RunsType
<1>9. RunsKept
    BY <1>4, <1>7 DEF RunsKept
<1>10. PodsKept
    BY <1>3 DEF PodsKept, IndInv, PodsOK
<1> QED BY <1>3, <1>8, <1>9, <1>10, QuietStep DEF CommandsKept

\* The claim learns its run and the run is spawned.
LEMMA AttachStep ==
    ASSUME IndInv, NEW p \in Pods, attach_scheduled_workflow_run(p)
    PROVE  IndInv'
<1>0. TypeOK /\ PodsOK
    BY DEF IndInv
<1>1. /\ pod \in [Pods -> Pod] /\ pod[p].at = "attach" /\ Fire(p) \in DOMAIN claims
      /\ pod[p].run \in RunIds /\ runs[pod[p].run].cause = Fire(p) /\ Fire(p) \in Fires
    BY <1>0 DEF attach_scheduled_workflow_run, TypeOK, PodsOK
<1>2. pod' \in [Pods -> Pod] /\ PodsKept
    BY <1>0, SkipKeeps DEF attach_scheduled_workflow_run
<1>3. last_fired' \in [Pods -> [Intervals -> Time \cup {None}]]
    BY <1>0, FiredKeeps DEF attach_scheduled_workflow_run
<1> DEFINE n == pod[p].run
           r == [runs[n] EXCEPT !.task = "spawned"]
<1>4. r \in Run /\ r.cause = runs[n].cause
    BY <1>0, <1>1, RunsAreRuns DEF Run
<1>5. runs' = [runs EXCEPT ![n] = r]
    BY DEF attach_scheduled_workflow_run
<1>6. n \in RunIds
    BY <1>1
<1> HIDE DEF r, n
<1>7. /\ runs' \in Seq(Run) /\ Len(runs') = Len(runs) /\ RunIds' = RunIds
      /\ \A j \in RunIds : j # n => runs'[j] = runs[j]
      /\ \A j \in RunIds : runs'[j].cause = runs[j].cause
    BY <1>0, <1>4, <1>5, <1>6, RunUpdate
<1>8. /\ DOMAIN claims \subseteq Fires /\ claims \in [DOMAIN claims -> 0..Len(runs)]
      /\ \A f \in DOMAIN claims : claims[f] # 0 => runs[claims[f]].cause = f
    BY <1>0 DEF TypeOK
<1>9. /\ DOMAIN claims' = DOMAIN claims
      /\ \A f \in DOMAIN claims :
           claims'[f] = claims[f] \/ (claims'[f] = n /\ f = Fire(p))
      /\ claims' = [f \in DOMAIN claims' |-> claims'[f]]
  <2>1. CASE claims' = [claims EXCEPT ![Fire(p)] = IF claims[Fire(p)] = 0 THEN n
                                                   ELSE claims[Fire(p)]]
    BY <1>1, <1>8, <2>1
  <2>2. CASE claims' = claims
    BY <1>8, <2>2
  <2> QED BY <2>1, <2>2 DEF attach_scheduled_workflow_run, n
<1>10. Len(runs) \in Nat /\ RunIds = 1..Len(runs)
    BY <1>0, RunsAreRuns DEF RunIds
<1>11. \A f \in DOMAIN claims' :
         /\ claims'[f] \in 0..Len(runs')
         /\ claims'[f] # 0 => claims'[f] \in RunIds /\ runs[claims'[f]].cause = f
  <2>1. n \in 1..Len(runs) /\ runs[n].cause = Fire(p)
    BY <1>1, <1>6, <1>10 DEF n
  <2> SUFFICES ASSUME NEW f \in DOMAIN claims
               PROVE  /\ claims'[f] \in 0..Len(runs)
                      /\ claims'[f] # 0 => /\ claims'[f] \in 1..Len(runs)
                                          /\ runs[claims'[f]].cause = f
    BY <1>7, <1>9, <1>10
  <2>2. CASE claims'[f] = claims[f]
    BY <1>8, <1>10, <2>2
  <2>3. CASE claims'[f] = n /\ f = Fire(p)
    BY <1>10, <2>1, <2>3
  <2> QED BY <1>9, <2>2, <2>3
<1>12. TypeOK'
  <2>1. claims' \in [DOMAIN claims' -> 0..Len(runs')]
    BY <1>9, <1>11
  <2>2. \A f \in DOMAIN claims' : claims'[f] # 0 => runs'[claims'[f]].cause = f
    BY <1>7, <1>11
  <2> QED BY <1>0, <1>2, <1>3, <1>7, <1>8, <1>9, <2>1, <2>2
          DEF TypeOK, attach_scheduled_workflow_run
<1>13. RunsKept
    BY <1>1, <1>7 DEF RunsKept, n
<1>14. CommandsKept
    BY DEF attach_scheduled_workflow_run, CommandsKept
<1> QED BY <1>2, <1>9, <1>12, <1>13, <1>14, QuietStep

\* A pod dies or starts, a workflow is switched, time passes, a trigger's
\* transaction opens.
LEMMA QuietSteps ==
    ASSUME IndInv, \/ \E p \in Pods : Start(p)
                   \/ \E w \in Workflows : SetEnabled(w)
                   \/ Advance
    PROVE  IndInv'
<1>0. TypeOK /\ PodsOK
    BY DEF IndInv
<1>1. pod \in [Pods -> Pod] /\ clock \in Time /\ enabled \subseteq Workflows
    BY <1>0 DEF TypeOK
<1>2. UNCHANGED <<claims, runs, stored, command, last_fired>>
    BY DEF Start, SetEnabled, Advance
<1>3. clock' \in Time
    BY <1>1, ScheduleAssumption DEF Start, SetEnabled, Advance, Time
<1>4. enabled' \subseteq Workflows
    BY <1>1 DEF Start, SetEnabled, Advance
<1>5. pod' \in [Pods -> Pod] /\ PodsKept
  <2>1. CASE \E p \in Pods : Start(p)
    BY <1>0, <1>1, <2>1, SleepIsPod DEF Start, PodsKept, PodsOK
  <2>2. CASE UNCHANGED pod
    BY <1>0, <1>1, <2>2 DEF PodsKept, PodsOK
  <2> QED BY <2>1, <2>2 DEF SetEnabled, Advance
<1>6. TypeOK'
    BY <1>0, <1>2, <1>3, <1>4, <1>5 DEF TypeOK
<1>7. RunsKept /\ CommandsKept
    BY <1>2 DEF RunsKept, CommandsKept, RunIds
<1> QED BY <1>2, <1>5, <1>6, <1>7, QuietStep

\* A pod dies: it is past no claim any more, its transactions are rolled back
\* and its tasks are over.
LEMMA CrashStep ==
    ASSUME IndInv, NEW p \in Pods, Crash(p)
    PROVE  IndInv'
<1>0. TypeOK /\ PodsOK
    BY DEF IndInv
<1>1. pod \in [Pods -> Pod] /\ Down \in Pod /\ Down.at = "down"
  <2>1. 0 \in Time
    BY ScheduleAssumption DEF Time
  <2>2. Asleep(0) \in Pod
    BY <2>1, SleepIsPod
  <2>3. Down \in Pod /\ Down.at = "down"
    BY <2>2 DEF Down, Pod
  <2> QED BY <1>0, <2>3 DEF TypeOK
<1>2. pod' \in [Pods -> Pod] /\ PodsKept
    BY <1>0, <1>1 DEF Crash, PodsKept, PodsOK
<1>3. Len(runs) \in Nat /\ DOMAIN runs = 1..Len(runs) /\ RunIds = 1..Len(runs)
    BY <1>0, RunsAreRuns DEF RunIds
<1>4. \A i \in RunIds :
        /\ runs'[i] \in Run /\ runs'[i].cause = runs[i].cause
        /\ runs'[i].task # "none" => runs[i].task # "none"
  <2> SUFFICES ASSUME NEW i \in RunIds
               PROVE  /\ runs'[i] \in Run /\ runs'[i].cause = runs[i].cause
                      /\ runs'[i].task # "none" => runs[i].task # "none"
    OBVIOUS
  <2>1. runs[i] \in Run /\ i \in DOMAIN runs
    BY <1>0, RunsAreRuns
  <2>2. \/ runs'[i] = runs[i]
        \/ runs'[i] = [runs[i] EXCEPT !.task = "done"] /\ runs[i].task # "none"
    BY <2>1 DEF Crash
  <2> QED BY <2>1, <2>2 DEF Run
<1>5. runs' = [i \in 1..Len(runs) |-> runs'[i]]
    BY <1>3 DEF Crash
<1>6. runs' \in Seq(Run) /\ Len(runs') = Len(runs)
    BY <1>3, <1>4, <1>5
<1>7. command' \in [Triggers -> [at : {"none", "persisted", "created"},
                                 pod : Pods \cup {None}, run : Nat]]
    BY <1>0 DEF Crash, TypeOK, NoCommand
<1>8. last_fired' \in [Pods -> [Intervals -> Time \cup {None}]]
    BY <1>0 DEF Crash, TypeOK
<1>9. UNCHANGED <<clock, enabled, claims, stored>> /\ stored' \subseteq Triggers
    BY <1>0 DEF Crash, TypeOK
<1>10. TypeOK'
    BY <1>0, <1>2, <1>4, <1>6, <1>7, <1>8, <1>9, RunsType
<1>11. RunsKept
    BY <1>4, <1>6 DEF RunsKept
<1>12. CommandsKept
    BY <1>9 DEF Crash, CommandsKept, NoCommand
<1> QED BY <1>2, <1>9, <1>10, <1>11, <1>12, QuietStep

\* A command's transaction opens: its event is not committed.
LEMMA PersistStep ==
    ASSUME IndInv, NEW p \in Pods, NEW t \in Triggers, PersistCommand(p, t)
    PROVE  IndInv'
<1>0. TypeOK
    BY DEF IndInv
<1> DEFINE new == [at |-> "persisted", pod |-> p, run |-> 0]
<1>1. /\ command' = [command EXCEPT ![t] = new] /\ t \notin stored
      /\ UNCHANGED <<clock, enabled, claims, runs, stored, last_fired, pod>>
    BY DEF PersistCommand
<1>2. /\ new.at = "persisted" /\ new.pod = p
      /\ new \in [at : {"none", "persisted", "created"}, pod : Pods \cup {None}, run : Nat]
    OBVIOUS
<1> HIDE DEF new
<1>3. TypeOK'
    BY <1>0, <1>1, <1>2 DEF TypeOK
<1>4. RunIds' = RunIds /\ \A q \in Pods : Fire(q)' = Fire(q)
    BY <1>1 DEF RunIds, Fire
<1>5. FiresClaimed' /\ OneRunPerInstant' /\ SpawnedIsStored' /\ TriggerExecutesOnce'
    BY <1>1, <1>4 DEF IndInv, FiresClaimed, OneRunPerInstant, SpawnedIsStored,
                      TriggerExecutesOnce
<1>6. PodsOK' /\ OneCreator'
    BY <1>1, <1>4 DEF IndInv, PodsOK, OneCreator
<1>7. CommandsOK'
    BY <1>0, <1>1, <1>2, <1>4 DEF IndInv, CommandsOK, TypeOK
<1> QED BY <1>3, <1>5, <1>6, <1>7 DEF IndInv

\* The run of a command is created, or the call fails and the transaction is
\* dropped, with or without the row.
LEMMA CreateTriggeredStep ==
    ASSUME IndInv, NEW t \in Triggers, CreateTriggered(t)
    PROVE  IndInv'
<1>0. TypeOK /\ PodsOK /\ CommandsOK
    BY DEF IndInv
<1>1. /\ command \in [Triggers -> [at : {"none", "persisted", "created"},
                                   pod : Pods \cup {None}, run : Nat]]
      /\ pod \in [Pods -> Pod]
    BY <1>0 DEF TypeOK
<1>2. UNCHANGED <<clock, enabled, claims, stored, last_fired, pod>>
    BY DEF CreateTriggered
<1>3. command[t].at = "persisted" /\ command[t].pod \in Pods
    BY <1>0 DEF CreateTriggered, CommandsOK
<1>4. CASE runs' = runs /\ command' = [command EXCEPT ![t] = NoCommand]
  <2>1. TypeOK'
    BY <1>0, <1>1, <1>2, <1>4 DEF TypeOK, NoCommand
  <2>2. RunsKept /\ CommandsKept /\ PodsKept
    BY <1>0, <1>1, <1>2, <1>4
       DEF RunsKept, CommandsKept, PodsKept, RunIds, NoCommand, PodsOK
  <2> QED BY <1>2, <2>1, <2>2, QuietStep
<1>5. CASE runs' = Append(runs, NewRun(t, command[t].pod))
  <2>1. PICK n \in Nat : /\ n = Len(runs') /\ RunIds' = RunIds \cup {n}
                         /\ n \notin RunIds
                         /\ \A i \in RunIds : runs'[i] = runs[i]
                         /\ runs'[n].cause = t /\ runs'[n].task = "none"
    <3>1. /\ Len(runs') = Len(runs) + 1 /\ Len(runs) \in Nat
          /\ RunIds' = RunIds \cup {Len(runs) + 1}
          /\ \A i \in RunIds : runs'[i] = runs[i]
          /\ runs'[Len(runs) + 1].cause = t /\ runs'[Len(runs) + 1].task = "none"
      BY <1>0, <1>3, <1>5, AppendRun
    <3>2. Len(runs) + 1 \in Nat /\ Len(runs) + 1 \notin RunIds
      BY <3>1 DEF RunIds
    <3> WITNESS Len(runs) + 1 \in Nat
    <3> QED BY <3>1, <3>2
  <2> DEFINE new == [command[t] EXCEPT !.at = "created", !.run = n]
  <2>2. /\ new.at = "created" /\ new.run = n /\ new.pod = command[t].pod
        /\ new \in [at : {"none", "persisted", "created"}, pod : Pods \cup {None}, run : Nat]
    BY <1>1
  <2>3. \/ command' = [command EXCEPT ![t] = new]
        \/ command' = [command EXCEPT ![t] = NoCommand]
    BY <1>5, <2>1 DEF CreateTriggered, TriggeredRun
  <2> HIDE DEF new
  <2>4. command' \in [Triggers -> [at : {"none", "persisted", "created"},
                                   pod : Pods \cup {None}, run : Nat]]
    BY <1>1, <2>2, <2>3 DEF NoCommand
  <2>5. TypeOK'
    BY <1>0, <1>1, <1>2, <1>3, <1>5, <2>4, AppendType
  <2>6. t \notin Fires
    BY ScheduleAssumption DEF Fires
  <2>7. FiresClaimed' /\ OneRunPerInstant' /\ SpawnedIsStored' /\ TriggerExecutesOnce'
    BY <1>2, <2>1, <2>6, AppendKeeps
  <2>8. \A q \in Pods : Fire(q)' = Fire(q)
    BY <1>2 DEF Fire
  <2>9. \A q \in Pods : pod[q].at \in {"create", "attach"} => Fire(q) # t
    BY <1>0, <2>6 DEF PodsOK, TypeOK
  <2>10. PodsOK' /\ OneCreator'
    BY <1>0, <1>2, <2>1, <2>8, <2>9 DEF IndInv, PodsOK, OneCreator
  <2>11. CommandsOK'
    <3>1. CASE command' = [command EXCEPT ![t] = new]
      BY <1>0, <1>1, <1>2, <1>3, <2>1, <2>2, <3>1 DEF CommandsOK
    <3>2. CASE command' = [command EXCEPT ![t] = NoCommand]
      BY <1>0, <1>1, <1>2, <2>1, <3>2 DEF CommandsOK, NoCommand
    <3> QED BY <2>3, <3>1, <3>2
  <2> QED BY <2>5, <2>7, <2>10, <2>11 DEF IndInv
<1> QED BY <1>4, <1>5 DEF CreateTriggered, TriggeredRun

\* The commit spawns the run, or fails, with or without effect, and spawns
\* nothing: no other run of the command was spawned before.
LEMMA CommitStep ==
    ASSUME IndInv, NEW t \in Triggers, CommitCommand(t)
    PROVE  IndInv'
<1>0. TypeOK /\ PodsOK /\ CommandsOK
    BY DEF IndInv
<1>1. /\ command \in [Triggers -> [at : {"none", "persisted", "created"},
                                   pod : Pods \cup {None}, run : Nat]]
      /\ pod \in [Pods -> Pod] /\ stored \subseteq Triggers
    BY <1>0 DEF TypeOK
<1>2. /\ UNCHANGED <<clock, enabled, claims, last_fired, pod>>
      /\ command' = [command EXCEPT ![t] = NoCommand]
    BY DEF CommitCommand
<1> DEFINE n == command[t].run
           r == [runs[n] EXCEPT !.task = "spawned"]
<1>3. n \in RunIds /\ runs[n].cause = t /\ t \notin stored
    BY <1>0 DEF CommitCommand, CommandsOK
<1>4. r \in Run /\ r.cause = runs[n].cause
    BY <1>0, <1>3, RunsAreRuns DEF Run
<1>5. \/ runs' = [runs EXCEPT ![n] = r] /\ stored' = stored \cup {t}
      \/ runs' = runs /\ (stored' = stored \/ stored' = stored \cup {t})
    BY DEF CommitCommand
<1> HIDE DEF r, n
<1>6. /\ runs' \in Seq(Run) /\ Len(runs') = Len(runs) /\ RunIds' = RunIds
      /\ \A j \in RunIds : j # n => runs'[j] = runs[j]
      /\ \A j \in RunIds : runs'[j].cause = runs[j].cause
  <2>1. CASE runs' = [runs EXCEPT ![n] = r]
    BY <1>0, <1>3, <1>4, <2>1, RunUpdate
  <2>2. CASE runs' = runs
    BY <1>0, <2>2 DEF TypeOK, RunIds
  <2> QED BY <1>5, <2>1, <2>2
<1>7. stored' \in {stored, stored \cup {t}} /\ (runs' = runs \/ stored' = stored \cup {t})
    BY <1>5
<1>8. command' \in [Triggers -> [at : {"none", "persisted", "created"},
                                 pod : Pods \cup {None}, run : Nat]]
    BY <1>1, <1>2 DEF NoCommand
<1>9. TypeOK'
  <2>1. /\ pod' \in [Pods -> Pod] /\ stored' \subseteq Triggers
        /\ last_fired' \in [Pods -> [Intervals -> Time \cup {None}]]
    BY <1>0, <1>2, <1>7 DEF TypeOK
  <2> QED BY <1>0, <1>2, <1>6, <1>8, <2>1, RunsType
<1>10. FiresClaimed' /\ OneRunPerInstant'
    BY <1>2, <1>6 DEF IndInv, FiresClaimed, OneRunPerInstant
<1>11. PodsOK' /\ OneCreator'
  <2>1. \A q \in Pods : Fire(q)' = Fire(q)
    BY <1>2 DEF Fire
  <2> QED BY <1>2, <1>6, <2>1 DEF IndInv, PodsOK, OneCreator
<1>12. CommandsOK'
    BY <1>0, <1>1, <1>2, <1>6, <1>7 DEF CommandsOK, NoCommand
<1>13. SpawnedIsStored'
    BY <1>3, <1>6, <1>7 DEF IndInv, SpawnedIsStored
<1>14. TriggerExecutesOnce'
  <2>1. \A j \in RunIds : runs[j].cause = t => runs[j].task = "none"
    BY <1>3 DEF IndInv, SpawnedIsStored
  <2> QED BY <1>3, <1>6, <2>1 DEF IndInv, TriggerExecutesOnce
<1> QED BY <1>9, <1>10, <1>11, <1>12, <1>13, <1>14 DEF IndInv

\* Every step of the relay's pods keeps the invariant.
LEMMA StepIndInv == IndInv /\ [Next]_vars => IndInv'
<1> SUFFICES ASSUME IndInv, [Next]_vars PROVE IndInv'
    OBVIOUS
<1>1. ASSUME NEW p \in Pods, Loop(p) \/ Crash(p)
      PROVE  IndInv'
    BY <1>1, ExamineSteps, ClaimSteps, CreateStep, AttachStep, CrashStep DEF Loop
<1>2. ASSUME NEW t \in Triggers,
             (\E p \in Pods : PersistCommand(p, t)) \/ CreateTriggered(t) \/ CommitCommand(t)
      PROVE  IndInv'
    BY <1>2, PersistStep, CreateTriggeredStep, CommitStep
<1>3. CASE UNCHANGED vars
  <2>1. /\ UNCHANGED <<clock, enabled, claims, runs, stored, command, last_fired, pod>>
        /\ PodsKept
    BY <1>3 DEF vars, IndInv, PodsOK, PodsKept
  <2>2. /\ pod' \in [Pods -> Pod]
        /\ last_fired' \in [Pods -> [Intervals -> Time \cup {None}]]
    BY <2>1 DEF IndInv, TypeOK
  <2> QED BY <2>1, <2>2, LoopQuiet
<1> QED BY <1>1, <1>2, <1>3, RunSteps, QuietSteps DEF Next

\* Whatever the pods, the clock, the database and the clients do, the
\* invariant holds.
LEMMA AlwaysIndInv == Spec => []IndInv
BY InitIndInv, StepIndInv, PTL DEF Spec

\* The tables and the memory of every pod always have their types, and a claim
\* that names a run names one of its own instant: attach_scheduled_workflow_run
\* never links a fire to another workflow's run.
THEOREM TypeCorrect == Spec => []TypeOK
<1>1. IndInv => TypeOK
    BY DEF IndInv
<1> QED BY <1>1, AlwaysIndInv, PTL

\* However many pods tick together, crash between the claim and the run or get
\* no answer to either, the claim of scheduled_workflow_fires lets one schedule
\* instant create at most one run.
THEOREM InstantFiresOnce == Spec => []OneRunPerInstant
<1>1. IndInv => OneRunPerInstant
    BY DEF IndInv
<1> QED BY <1>1, AlwaysIndInv, PTL

\* A trigger command a client repeats after an error or a crash may create
\* several rows, but the uncommitted event keeps all but one from being
\* executed.
THEOREM TriggerFiresOnce == Spec => []TriggerExecutesOnce
<1>1. IndInv => TriggerExecutesOnce
    BY DEF IndInv
<1> QED BY <1>1, AlwaysIndInv, PTL
=============================================================================
