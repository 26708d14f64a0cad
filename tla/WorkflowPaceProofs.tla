------------------------- MODULE WorkflowPaceProofs -------------------------
(***************************************************************************)
(* That the scheduler loses nothing in silence and keeps its pace, for     *)
(* every number of pods and workflows, every interval, window and drift.   *)
(*                                                                         *)
(* What a pod knows of a workflow is its anchor in last_fired and what     *)
(* clean records of its ticks; both are related to the claims in the       *)
(* database, which only grow.  So the invariant is stated pod by pod, over *)
(* values: a step of one pod leaves that of the others alone.              *)
(***************************************************************************)
EXTENDS WorkflowScheduleProofs, WellFoundedInduction

\* What clean keeps of the ticks of a pod.
Examination == [from : Time \cup {None}, to : Time \cup {None},
                gaps : SUBSET Time, blind : BOOLEAN]

\* The failures are counted, and the ones that happened are remembered.
EnvOK == env \in [load : Workload, left : Nat,
                  hit : SUBSET {"crash", "database", "owner", "disable"}]

\* The examinations began before they ended, and not after the tick.
SeenOK(c, now) ==
    /\ c.from = None <=> c.to = None
    /\ c.from # None => c.from <= c.to /\ c.to <= now

\* A claim of w less than n old at instant t.
Claim(w, t, n, D) == \E f \in D : f[1] = w /\ f[2] + n > t

\* The anchor l of an interval workflow stems from a claim, or from the first
\* tick that knew of none, when the pod began or a read failed; a pod without
\* an anchor that has examined w has read a claim.
IntervalPace(w, now, c, l, D) ==
    /\ l # None => l <= now
    /\ l # None => \/ Claim(w, l, Interval, D)
                   \/ c.from # None => l <= c.from \/ c.blind
    /\ l = None /\ c.from # None => \E f \in D : f[1] = w
    /\ ~c.blind /\ c.from # None /\ c.to >= c.from + Interval =>
           Claim(w, c.to, 2 * Interval, D)

\* The pod has left out no cron instant but one that no window reached or one
\* that had an earlier, claimed instant in its window.
CronPace(w, c, D) ==
    c.from # None =>
        \A t \in Multiples(Period[w]) : t > c.from /\ t <= c.to =>
            \/ <<w, t>> \in D
            \/ t \in c.gaps
            \/ \E u \in Multiples(Period[w]) : u < t /\ t < u + Window /\ <<w, u>> \in D

\* The instant a pod has resolved is the one its tick calls for.
Resolved(w, now) ==
    IF w \in Intervals THEN interval_fire_instant(now) ELSE cron_fire_instant(w, now)

\* A pod q with examinations c and anchors l, when D is claimed at time t.
Pace(q, c, l, D, t) ==
    /\ q.now <= t
    /\ q.at \in {"loop", "claim", "create", "attach"} =>
           q.todo \subseteq q.listed /\ \A w \in Workflows \ q.listed : c[w] = Unseen
    /\ q.at \in {"claim", "create", "attach"} =>
           q.workflow \in q.listed /\ q.instant \in Resolved(q.workflow, q.now)
    /\ \A w \in Workflows : SeenOK(c[w], q.now)
    /\ \A w \in Intervals : IntervalPace(w, q.now, c[w], l[w], D)
    /\ \A w \in Crons : CronPace(w, c[w], D)

PaceInv ==
    /\ EnvOK
    /\ clean \in [Pods -> [Workflows -> Examination]]
    /\ \A p \in Pods : Pace(pod[p], clean[p], last_fired[p], DOMAIN claims, clock)

-----------------------------------------------------------------------------
\* A set of naturals has a smallest member.
LEMMA SmallestOf ==
    ASSUME NEW T, T \subseteq Nat, T # {}
    PROVE  \E x \in T : \A y \in T : x <= y
<1>1. PICK x \in T : \A y \in T : ~(<<y, x>> \in OpToRel(<, Nat))
    BY NatLessThanWellFounded, WFMin
<1>2. ASSUME NEW y \in T PROVE x <= y
  <2>1. ~(<<y, x>> \in OpToRel(<, Nat)) /\ <<y, x>> \in Nat \X Nat
    BY <1>1
  <2>2. ~(y < x)
    BY <2>1 DEF OpToRel
  <2> QED BY <2>2
<1> QED BY <1>2

\* A bounded set of naturals has a largest member.
LEMMA LargestOf ==
    ASSUME NEW H \in Nat, NEW T, T \subseteq 0..H, T # {}
    PROVE  \E x \in T : \A y \in T : x >= y
<1> DEFINE U == {H - t : t \in T}
<1>1. \A t \in T : H - t \in Nat /\ H - t \in U
    OBVIOUS
<1>2. \A u \in U : \E t \in T : u = H - t
    OBVIOUS
<1>3. U \subseteq Nat /\ U # {}
    BY <1>1
<1> HIDE DEF U
<1>4. PICK x \in U : \A y \in U : x <= y
    BY <1>3, SmallestOf
<1>5. PICK t \in T : x = H - t
    BY <1>2
<1>6. ASSUME NEW y \in T PROVE t >= y
  <2>1. x <= H - y
    BY <1>1, <1>4
  <2> QED BY <1>5, <2>1
<1> QED BY <1>6

\* latest_scheduled_workflow_fire reads a claim of the workflow if there is one.
LEMMA LatestIsClaim ==
    ASSUME TypeOK, NEW w \in Workflows
    PROVE  LET last == latest_scheduled_workflow_fire(w)
           IN  /\ (\E f \in DOMAIN claims : f[1] = w) => last # None
               /\ last # None => \E f \in DOMAIN claims : f[1] = w /\ f[2] = last
<1> DEFINE own == {d \in DOMAIN claims : d[1] = w}
           at == {c[2] : c \in own}
<1>1. DOMAIN claims \subseteq Fires
    BY DEF TypeOK
<1>2. at \subseteq Time
    BY <1>1 DEF Fires
<1>3. latest_scheduled_workflow_fire(w) = IF at = {} THEN None ELSE Max(at)
    BY DEF latest_scheduled_workflow_fire
<1>4. (\E f \in DOMAIN claims : f[1] = w) => at # {}
    OBVIOUS
<1>5. \A t \in at : \E f \in DOMAIN claims : f[1] = w /\ f[2] = t
    OBVIOUS
<1> HIDE DEF at
<1>6. ASSUME at # {} PROVE Max(at) \in at
  <2>1. \E x \in at : \A y \in at : x >= y
    BY <1>2, <1>6, LargestOf, ScheduleAssumption DEF Time
  <2> QED BY <2>1 DEF Max
<1> QED BY <1>2, <1>3, <1>4, <1>5, <1>6, ScheduleAssumption

\* Multiples of a number are at least that number apart.
LEMMA MultiplesApart ==
    ASSUME NEW n \in Nat \ {0}, NEW u \in Nat, NEW v \in Nat,
           u % n = 0, v % n = 0, v < u
    PROVE  u - v >= n
<1> DEFINE a == u \div n  b == v \div n  c == a - b - 1
<1>1. u = n * a /\ a \in Int
    OBVIOUS
<1>2. v = n * b /\ b \in Int
    OBVIOUS
<1> HIDE DEF a, b
<1>3. u - v = n * (a - b)
    BY <1>1, <1>2
<1>4. a - b > 0
    BY <1>1, <1>2, <1>3
<1>5. c \in Nat /\ a - b = c + 1
    BY <1>1, <1>2, <1>4
<1> HIDE DEF c
<1>6. n * (c + 1) = n * c + n /\ n * c >= 0
    BY <1>5
<1> QED BY <1>3, <1>5, <1>6

\* An instant in the window of a tick is the one the tick fires or comes after
\* it, less than a window later.
LEMMA WindowHasFirst ==
    ASSUME NEW w \in Crons, NEW now \in Time, NEW t \in Multiples(Period[w]),
           t > now - Window, t <= now
    PROVE  \E u \in cron_fire_instant(w, now) : u = t \/ (u < t /\ t < u + Window)
<1> DEFINE T == {x \in Multiples(Period[w]) : x > now - Window}
<1>1. /\ now \in Nat /\ t \in Nat /\ Window \in Nat
      /\ Multiples(Period[w]) \subseteq Nat
    BY ScheduleAssumption DEF Multiples, Time
<1>2. T \subseteq Nat /\ t \in T
    BY <1>1
<1>3. PICK u \in T : \A y \in T : u <= y
    BY <1>2, SmallestOf
<1>4. u \in Nat /\ u <= t /\ u > now - Window /\ u \in Multiples(Period[w])
    BY <1>1, <1>2, <1>3
<1>5. u \in cron_fire_instant(w, now)
    BY <1>1, <1>3, <1>4 DEF cron_fire_instant
<1>6. u = t \/ (u < t /\ t < u + Window)
    BY <1>1, <1>4
<1> QED BY <1>5, <1>6

-----------------------------------------------------------------------------
\* What a tick adds to the times of the ones before it.
LEMMA SoFarTimes ==
    ASSUME NEW now \in Time, NEW c \in Examination, SeenOK(c, now),
           NEW e, e.to = now, e.from = IF c.to = None THEN now ELSE c.from
    PROVE  /\ SeenOK(e, now) /\ e.to = now /\ e.from # None
           /\ e.from \in Time /\ e.from <= now
           /\ c.from = None => e.from = now
           /\ c.from # None => e.from = c.from /\ c.to \in Time
<1>1. None \notin Time /\ now \in Nat /\ \A t \in Time : t \in Nat
    BY ScheduleAssumption DEF Time
<1>2. CASE c.to = None
  <2>1. e.from = now /\ e.to = now /\ c.from = None
    BY <1>2 DEF SeenOK
  <2> QED BY <1>1, <2>1 DEF SeenOK
<1>3. CASE c.to # None
  <2>1. e.from = c.from /\ e.to = now
    BY <1>3
  <2>2. c.from \in Time /\ c.to \in Time /\ c.from <= c.to /\ c.to <= now /\ c.from # None
    BY <1>1, <1>3 DEF Examination, SeenOK
  <2>3. c.from \in Nat /\ c.to \in Nat /\ c.from <= now
    BY <2>2, ScheduleAssumption DEF Time
  <2> QED BY <1>1, <2>1, <2>2, <2>3 DEF SeenOK
<1> QED BY <1>2, <1>3

\* What it adds to their marks.
LEMMA SoFarMarks ==
    ASSUME NEW now \in Time, NEW c \in Examination, SeenOK(c, now), NEW blind \in BOOLEAN,
           NEW e, e = ExaminedSoFar(c, now, blind)
    PROVE  /\ e \in Examination
           /\ blind => e.blind
           /\ c.from # None => /\ c.blind => e.blind
                               /\ c.gaps \subseteq e.gaps
                               /\ \A t \in Time : c.to < t /\ t <= now - Window => t \in e.gaps
<1>1. CASE c.to = None
    BY <1>1 DEF ExaminedSoFar, Examination, SeenOK
<1>2. CASE c.to # None
  <2> DEFINE g == {t \in Time : c.to < t /\ t <= now - Window}
  <2>1. e = [from |-> c.from, to |-> now, blind |-> c.blind \/ blind, gaps |-> c.gaps \cup g]
    BY <1>2 DEF ExaminedSoFar
  <2>2. c.gaps \cup g \in SUBSET Time /\ (c.blind \/ blind) \in BOOLEAN
    BY DEF Examination
  <2>3. e \in Examination
    BY <2>1, <2>2 DEF Examination
  <2>4. e.gaps = c.gaps \cup g /\ e.blind = (c.blind \/ blind)
    BY <2>1
  <2> QED BY <2>3, <2>4
<1> QED BY <1>1, <1>2

\* A tick that finds or makes the claim of its bucket keeps the interval's pace.
LEMMA IntervalFired ==
    ASSUME NEW w, NEW now \in Time, NEW c \in Examination, SeenOK(c, now),
           NEW blind \in BOOLEAN, NEW D, D \subseteq Fires, Claim(w, now, Interval, D)
    PROVE  IntervalPace(w, now, ExaminedSoFar(c, now, blind), now, D)
<1> DEFINE e == ExaminedSoFar(c, now, blind)
<1>0. e = ExaminedSoFar(c, now, blind)
    OBVIOUS
<1> HIDE DEF e
<1>1. e.to = now
    BY <1>0 DEF ExaminedSoFar
<1>2. PICK f \in D : f[1] = w /\ f[2] + Interval > now
    BY DEF Claim
<1>3. f[2] \in Nat /\ Interval \in Nat /\ now \in Nat /\ now # None
    BY <1>2, ScheduleAssumption DEF Fires, Time
<1>4. f[2] + 2 * Interval > now
    BY <1>2, <1>3
<1>5. Claim(w, e.to, 2 * Interval, D)
    BY <1>1, <1>2, <1>4 DEF Claim
<1>6. IntervalPace(w, now, e, now, D)
    BY <1>3, <1>5 DEF IntervalPace
<1> QED BY <1>0, <1>6

\* A tick that is suppressed by an anchor of the pod or, when it has none, by
\* the last claim keeps the interval's pace, and so does the first one.
LEMMA IntervalSuppressed ==
    ASSUME NEW w, NEW now \in Time, NEW c \in Examination, SeenOK(c, now),
           NEW D, D \subseteq Fires, NEW l \in Time \cup {None},
           NEW last \in Time \cup {None}, NEW blind \in BOOLEAN,
           IntervalPace(w, now, c, l, D),
           ~interval_should_fire(last, now),
           l # None => last = l,
           l = None /\ last # None => \E f \in D : f[1] = w /\ f[2] = last,
           l = None /\ last = None => blind \/ ~\E f \in D : f[1] = w,
           NEW m, m = IF last = None THEN now ELSE l
    PROVE  IntervalPace(w, now, ExaminedSoFar(c, now, blind), m, D)
<1> DEFINE e == ExaminedSoFar(c, now, blind)
<1>0. e = ExaminedSoFar(c, now, blind)
    OBVIOUS
<1> HIDE DEF e
<1>1. /\ None \notin Time /\ now \in Nat /\ Interval \in Nat \ {0} /\ (\A t \in Time : t \in Nat)
      /\ \A f \in D : f[2] \in Nat
    BY ScheduleAssumption DEF Time, Fires
<1>2. (blind => e.blind) /\ (c.from # None => (c.blind => e.blind))
    BY <1>0, SoFarMarks
<1>11. /\ e.to = now /\ e.from # None /\ e.from \in Time /\ e.from <= now
       /\ c.from = None => e.from = now
       /\ c.from # None => e.from = c.from
  <2>1. e.to = now /\ e.from = IF c.to = None THEN now ELSE c.from
    BY <1>0 DEF ExaminedSoFar
  <2> QED BY <2>1, SoFarTimes
<1>10. /\ e.to = now /\ e.from # None /\ e.from \in Nat /\ e.from <= now
       /\ c.from = None => e.from = now
       /\ c.from # None => e.from = c.from
    BY <1>1, <1>11
<1>3. last # None => last \in Nat /\ now < last + Interval
    BY <1>1 DEF interval_should_fire, Elapsed
<1>4. m # None /\ c.from = None => m <= e.from
    BY <1>1, <1>2, <1>10 DEF IntervalPace
<1>5. m # None => m <= now
    BY <1>1 DEF IntervalPace
<1>6. m # None => Claim(w, m, Interval, D) \/ m <= e.from \/ e.blind
  <2>1. CASE last = None
    BY <1>1, <1>2, <1>10, <2>1 DEF IntervalPace
  <2>2. CASE last # None
    BY <1>2, <1>10, <1>4, <2>2 DEF IntervalPace
  <2> QED BY <2>1, <2>2
<1>7. m = None => \E f \in D : f[1] = w
    BY <1>1
<1>8. ASSUME ~e.blind, e.to >= e.from + Interval
      PROVE  Claim(w, e.to, 2 * Interval, D)
  <2>1. c.from # None /\ e.from = c.from /\ ~c.blind /\ ~blind
    BY <1>1, <1>2, <1>10, <1>8
  <2>2. last # None
    BY <1>1, <1>2, <1>10, <1>8, <2>1 DEF IntervalPace
  <2>3. PICK f \in D : f[1] = w /\ now < f[2] + 2 * Interval
    <3>1. CASE l = None
      <4>1. PICK f \in D : f[1] = w /\ f[2] = last
        BY <2>2, <3>1
      <4>2. now < f[2] + 2 * Interval
        BY <1>1, <1>3, <2>2, <4>1
      <4> QED BY <4>1, <4>2
    <3>2. CASE l # None
      <4>1. ~(l <= c.from)
        BY <1>1, <1>2, <1>10, <1>3, <1>8, <2>1, <3>2
      <4>2. Claim(w, l, Interval, D)
        BY <2>1, <3>2, <4>1 DEF IntervalPace
      <4>3. PICK f \in D : f[1] = w /\ f[2] + Interval > l
        BY <4>2 DEF Claim
      <4>4. now < f[2] + 2 * Interval
        BY <1>1, <1>3, <3>2, <4>3
      <4> QED BY <4>3, <4>4
    <3> QED BY <3>1, <3>2
  <2>4. f[2] + 2 * Interval > now
    BY <1>1, <2>3
  <2> QED BY <1>10, <2>3, <2>4 DEF Claim
<1>9. IntervalPace(w, now, e, m, D)
    BY <1>5, <1>6, <1>7, <1>8 DEF IntervalPace
<1> QED BY <1>0, <1>9

\* A tick that has claimed the cron instant of its window, or has found none
\* in it, leaves out no other since the tick before.
LEMMA CronExamined ==
    ASSUME NEW w \in Crons, NEW now \in Time, NEW c \in Examination, SeenOK(c, now),
           NEW D, CronPace(w, c, D), NEW blind \in BOOLEAN,
           \A t \in cron_fire_instant(w, now) : <<w, t>> \in D
    PROVE  CronPace(w, ExaminedSoFar(c, now, blind), D)
<1> DEFINE e == ExaminedSoFar(c, now, blind)
<1>0. e = ExaminedSoFar(c, now, blind)
    OBVIOUS
<1> HIDE DEF e
<1>1. /\ None \notin Time /\ now \in Nat /\ Window \in Nat /\ (\A t \in Time : t \in Nat)
      /\ Multiples(Period[w]) \subseteq Nat /\ Multiples(Period[w]) \subseteq Time
    BY ScheduleAssumption DEF Time, Multiples
<1>2. c.from # None => /\ c.gaps \subseteq e.gaps
                       /\ \A t \in Time : c.to < t /\ t <= now - Window => t \in e.gaps
    BY <1>0, SoFarMarks
<1>6. /\ e.to = now /\ e.from \in Time
      /\ c.from = None => e.from = now
      /\ c.from # None => e.from = c.from /\ c.to \in Time
  <2>1. e.to = now /\ e.from = IF c.to = None THEN now ELSE c.from
    BY <1>0 DEF ExaminedSoFar
  <2> QED BY <2>1, SoFarTimes
<1>5. /\ e.to = now /\ e.from \in Nat
      /\ c.from = None => e.from = now
      /\ c.from # None => e.from = c.from /\ c.to \in Nat
    BY <1>1, <1>6
<1>3. ASSUME NEW t \in Multiples(Period[w]), t > e.from, t <= e.to
      PROVE  \/ <<w, t>> \in D
             \/ t \in e.gaps
             \/ \E u \in Multiples(Period[w]) : u < t /\ t < u + Window /\ <<w, u>> \in D
  <2>1. c.from # None
    BY <1>1, <1>5, <1>3
  <2>2. CASE t <= c.to
    BY <1>2, <1>5, <1>3, <2>1, <2>2 DEF CronPace
  <2>3. CASE ~(t <= c.to) /\ t <= now - Window
    BY <1>1, <1>2, <1>5, <1>3, <2>1, <2>3
  <2>4. CASE t > now - Window
    <3>1. PICK u \in cron_fire_instant(w, now) : u = t \/ (u < t /\ t < u + Window)
      BY <1>3, <1>5, <2>4, WindowHasFirst
    <3>2. u \in Multiples(Period[w]) /\ <<w, u>> \in D
      BY <3>1 DEF cron_fire_instant
    <3> QED BY <3>1, <3>2
  <2>5. t \in Nat /\ c.to \in Nat /\ now - Window \in Int
    BY <1>1, <1>5, <2>1
  <2>6. t <= c.to \/ (~(t <= c.to) /\ t <= now - Window) \/ t > now - Window
    BY <2>5
  <2> QED BY <2>2, <2>3, <2>4, <2>6
<1>4. CronPace(w, e, D)
    BY <1>3 DEF CronPace
<1> QED BY <1>0, <1>4

-----------------------------------------------------------------------------
\* The record of a pod's ticks stays one.
LEMMA ExaminedTypes ==
    ASSUME NEW now \in Time, NEW c \in Examination, SeenOK(c, now), NEW blind \in BOOLEAN
    PROVE  /\ ExaminedSoFar(c, now, blind) \in Examination
           /\ SeenOK(ExaminedSoFar(c, now, blind), now)
<1> DEFINE e == ExaminedSoFar(c, now, blind)
<1>1. e \in Examination
    BY SoFarMarks
<1>2. e.to = now /\ e.from = IF c.to = None THEN now ELSE c.from
    BY DEF ExaminedSoFar
<1> HIDE DEF e
<1>3. SeenOK(e, now)
    BY <1>2, SoFarTimes
<1> QED BY <1>1, <1>3 DEF e

\* A workflow that has not been seen since a failure.
LEMMA UnseenKeeps ==
    ASSUME NEW w, NEW now, NEW c, NEW l, NEW D, IntervalPace(w, now, c, l, D)
    PROVE  IntervalPace(w, now, Unseen, l, D)
BY DEF IntervalPace, Unseen

\* Nothing is owed for one, and it is typed.
LEMMA UnseenTypes ==
    ASSUME NEW w, NEW now, NEW D
    PROVE  Unseen \in Examination /\ SeenOK(Unseen, now) /\ CronPace(w, Unseen, D)
BY DEF Unseen, Examination, SeenOK, CronPace

\* Claims stay and time passes: what the pods know stays true.
LEMMA PaceGrows ==
    ASSUME NEW q \in Pod, NEW c, NEW l, NEW D, NEW E, D \subseteq E,
           NEW t \in Time, NEW u \in Time, t <= u, Pace(q, c, l, D, t)
    PROVE  Pace(q, c, l, E, u)
<1>1. q.now <= u
  <2>1. q.now \in Nat /\ t \in Nat /\ u \in Nat /\ q.now <= t
    BY ScheduleAssumption DEF Pod, Pace, Time
  <2> QED BY <2>1
<1>2. \A w \in Intervals : IntervalPace(w, q.now, c[w], l[w], E)
    BY DEF Pace, IntervalPace, Claim
<1>3. \A w \in Crons : CronPace(w, c[w], E)
    BY DEF Pace, CronPace
<1> QED BY <1>1, <1>2, <1>3 DEF Pace

\* A pod on its way from a due instant to its run.
LEMMA FiringPace ==
    ASSUME NEW q, NEW r, NEW c, NEW l, NEW D, NEW t, Pace(q, c, l, D, t),
           q.at \in {"loop", "claim", "create", "attach"},
           r.at \in {"claim", "create", "attach"}, r.now = q.now,
           r.listed = q.listed, r.todo \subseteq q.todo,
           r.workflow \in q.listed, r.instant \in Resolved(r.workflow, q.now)
    PROVE  Pace(r, c, l, D, t)
BY DEF Pace

\* The pod leaves w: what it now records of w must keep the pace.
LEMMA SkipPace ==
    ASSUME NEW q \in Pod, NEW c \in [Workflows -> Examination], NEW l, NEW D, NEW t,
           Pace(q, c, l, D, t), q.at \in {"loop", "claim", "create", "attach"},
           NEW w \in q.listed, NEW e, SeenOK(e, q.now),
           NEW m, \A v \in Intervals : v # w => m[v] = l[v],
           w \in Intervals => IntervalPace(w, q.now, e, m[w], D),
           w \in Crons => CronPace(w, e, D)
    PROVE  Pace([q EXCEPT !.at = "loop", !.todo = q.todo \ {w}, !.workflow = None],
                [c EXCEPT ![w] = e], m, D, t)
<1> DEFINE r == [q EXCEPT !.at = "loop", !.todo = q.todo \ {w}, !.workflow = None]
           d == [c EXCEPT ![w] = e]
<1>1. r.at = "loop" /\ r.now = q.now /\ r.todo = q.todo \ {w} /\ r.listed = q.listed
    BY DEF Pod
<1>2. \A v \in Workflows : d[v] = IF v = w THEN e ELSE c[v]
    OBVIOUS
<1> HIDE DEF r, d
<1>3. Crons \subseteq Workflows /\ Intervals \subseteq Workflows
    BY DEF Workflows
<1>4. r.now <= t /\ r.todo \subseteq r.listed /\ \A v \in Workflows \ r.listed : d[v] = Unseen
    BY <1>1, <1>2 DEF Pace
<1>5. \A v \in Workflows : SeenOK(d[v], r.now)
    BY <1>1, <1>2 DEF Pace
<1>6. \A v \in Intervals : IntervalPace(v, r.now, d[v], m[v], D)
    BY <1>1, <1>2, <1>3 DEF Pace
<1>7. \A v \in Crons : CronPace(v, d[v], D)
    BY <1>1, <1>2, <1>3 DEF Pace
<1>8. Pace(r, d, m, D, t)
    BY <1>1, <1>4, <1>5, <1>6, <1>7 DEF Pace
<1> QED BY <1>8 DEF r, d

\* The claim of a resolved instant is the one its schedule asks for.
LEMMA ResolvedIsClaim ==
    ASSUME NEW w, NEW now \in Time, NEW i \in Resolved(w, now), NEW D, <<w, i>> \in D
    PROVE  /\ w \in Intervals => Claim(w, now, Interval, D)
           /\ w \notin Intervals => \A t \in cron_fire_instant(w, now) : <<w, t>> \in D
<1>1. CASE w \in Intervals
  <2>1. i \in Nat /\ now < i + Interval
    BY <1>1, ScheduleAssumption DEF Resolved, interval_fire_instant, Multiples, Time
  <2>2. <<w, i>>[1] = w /\ <<w, i>>[2] + Interval > now
    BY <2>1, ScheduleAssumption DEF Time
  <2> QED BY <1>1, <2>2 DEF Claim
<1>2. CASE w \notin Intervals
  <2>1. ASSUME NEW t \in cron_fire_instant(w, now) PROVE t = i
    <3>1. i \in cron_fire_instant(w, now)
      BY <1>2 DEF Resolved
    <3>2. t \in Nat /\ i \in Nat /\ t <= i /\ i <= t
      BY <3>1, ScheduleAssumption DEF cron_fire_instant, Multiples, Time
    <3> QED BY <3>2
  <2> QED BY <1>2, <2>1
<1> QED BY <1>1, <1>2

\* A pod leaves a workflow whose instant is claimed, by it or by another.
LEMMA ClaimedPace ==
    ASSUME NEW q \in Pod, NEW c \in [Workflows -> Examination],
           NEW l \in [Intervals -> Time \cup {None}], NEW D, D \subseteq Fires, NEW t,
           Pace(q, c, l, D, t), q.at \in {"claim", "create", "attach"},
           q.workflow \in Workflows, <<q.workflow, q.instant>> \in D,
           NEW blind \in BOOLEAN, NEW w, w = q.workflow,
           NEW m, m = IF w \in Intervals THEN [l EXCEPT ![w] = q.now] ELSE l
    PROVE  Pace([q EXCEPT !.at = "loop", !.todo = q.todo \ {w}, !.workflow = None],
                [c EXCEPT ![w] = ExaminedSoFar(c[w], q.now, blind)], m, D, t)
<1> DEFINE e == ExaminedSoFar(c[w], q.now, blind)
<1>1. /\ q.now \in Time /\ c[w] \in Examination /\ SeenOK(c[w], q.now)
      /\ w \in q.listed /\ q.instant \in Resolved(w, q.now) /\ <<w, q.instant>> \in D
    BY DEF Pod, Pace
<1>2. SeenOK(e, q.now)
    BY <1>1, ExaminedTypes
<1>3. ASSUME w \in Intervals PROVE IntervalPace(w, q.now, e, m[w], D)
  <2>1. m[w] = q.now /\ Claim(w, q.now, Interval, D)
    BY <1>1, <1>3, ResolvedIsClaim
  <2> QED BY <1>1, <2>1, IntervalFired
<1>4. ASSUME w \in Crons PROVE CronPace(w, e, D)
  <2>1. w \notin Intervals /\ CronPace(w, c[w], D)
    BY <1>4, ScheduleAssumption DEF Pace
  <2>2. \A i \in cron_fire_instant(w, q.now) : <<w, i>> \in D
    BY <1>1, <2>1, ResolvedIsClaim
  <2> QED BY <1>1, <1>4, <2>1, <2>2, CronExamined
<1>5. \A v \in Intervals : v # w => m[v] = l[v]
    OBVIOUS
<1> HIDE DEF e
<1>6. Pace([q EXCEPT !.at = "loop", !.todo = q.todo \ {w}, !.workflow = None],
           [c EXCEPT ![w] = e], m, D, t)
    BY <1>1, <1>2, <1>3, <1>4, <1>5, SkipPace
<1> QED BY <1>6 DEF e

-----------------------------------------------------------------------------
\* A failure is counted and remembered.
LEMMA FailsKeeps ==
    ASSUME EnvOK, NEW f, Fails(f)
    PROVE  EnvOK' /\ f \in env'.hit /\ env.hit \subseteq env'.hit
<1>1. f \in {"crash", "database", "owner", "disable"} /\ env.left - 1 \in Nat
    BY DEF EnvOK, Fails, Workload
<1>2. env' = [env EXCEPT !.left = env.left - 1, !.hit = env.hit \cup {f}]
    BY DEF Fails
<1>3. env'.hit = env.hit \cup {f}
    BY <1>2 DEF EnvOK
<1>4. EnvOK'
    BY <1>1, <1>2 DEF EnvOK
<1> QED BY <1>3, <1>4

\* A step of one pod.
LEMMA OnePod ==
    ASSUME PaceInv, IndInv, IndInv', EnvOK', NEW p \in Pods,
           NEW c \in [Workflows -> Examination], clean' = [clean EXCEPT ![p] = c],
           \A q \in Pods : q # p => pod'[q] = pod[q] /\ last_fired'[q] = last_fired[q],
           DOMAIN claims \subseteq DOMAIN claims', clock' = clock,
           Pace(pod'[p], c, last_fired'[p], DOMAIN claims', clock)
    PROVE  PaceInv'
<1>1. clean' \in [Pods -> [Workflows -> Examination]] /\ clean'[p] = c
    BY DEF PaceInv
<1>2. ASSUME NEW q \in Pods PROVE Pace(pod'[q], clean'[q], last_fired'[q], DOMAIN claims', clock')
  <2>1. CASE q = p
    BY <1>1, <2>1
  <2>2. CASE q # p
    <3>1. /\ pod'[q] = pod[q] /\ last_fired'[q] = last_fired[q] /\ clean'[q] = clean[q]
          /\ pod[q] \in Pod /\ clock \in Time /\ clock <= clock
      BY <2>2, ScheduleAssumption DEF PaceInv, IndInv, TypeOK, Time
    <3>2. Pace(pod[q], clean[q], last_fired[q], DOMAIN claims, clock)
      BY DEF PaceInv
    <3>3. Pace(pod[q], clean[q], last_fired[q], DOMAIN claims', clock)
      BY <3>1, <3>2, PaceGrows
    <3> QED BY <3>1, <3>3
  <2> QED BY <2>1, <2>2
<1> QED BY <1>1, <1>2 DEF PaceInv

\* A step that leaves the pods, what they know and the claims alone.
LEMMA NoPod ==
    ASSUME PaceInv, IndInv, IndInv', EnvOK', UNCHANGED <<pod, clean, last_fired, claims>>,
           clock <= clock'
    PROVE  PaceInv'
<1>1. ASSUME NEW q \in Pods PROVE Pace(pod'[q], clean'[q], last_fired'[q], DOMAIN claims', clock')
  <2>1. Pace(pod[q], clean[q], last_fired[q], DOMAIN claims, clock)
    BY DEF PaceInv
  <2>2. pod[q] \in Pod /\ clock \in Time /\ clock' \in Time
    BY DEF IndInv, TypeOK
  <2>3. Pace(pod[q], clean[q], last_fired[q], DOMAIN claims, clock')
    BY <2>1, <2>2, PaceGrows
  <2> QED BY <2>3
<1> QED BY <1>1 DEF PaceInv

\* What is known of a pod.
LEMMA PodFacts ==
    ASSUME PaceInv, IndInv, NEW p \in Pods
    PROVE  /\ pod[p] \in Pod /\ pod[p].now \in Time
           /\ clean[p] \in [Workflows -> Examination]
           /\ last_fired[p] \in [Intervals -> Time \cup {None}]
           /\ Pace(pod[p], clean[p], last_fired[p], DOMAIN claims, clock)
           /\ DOMAIN claims \subseteq Fires /\ clock \in Time
BY DEF PaceInv, IndInv, TypeOK, Pod

\* A pod that has seen no workflow and has no anchors.
LEMMA FreshPace ==
    ASSUME NEW q \in Pod, q.at \in {"sleep", "down"}, NEW l \in [Intervals -> Time \cup {None}],
           NEW D, NEW t \in Time, q.now <= t,
           \A w \in Intervals : l[w] # None => l[w] <= q.now
    PROVE  Pace(q, [w \in Workflows |-> Unseen], l, D, t)
<1> DEFINE c == [w \in Workflows |-> Unseen]
<1>1. \A w \in Workflows : c[w] = Unseen
    OBVIOUS
<1>2. Crons \subseteq Workflows /\ Intervals \subseteq Workflows
    BY DEF Workflows
<1> HIDE DEF c
<1>3. \A w \in Workflows : SeenOK(c[w], q.now)
    BY <1>1, UnseenTypes
<1>4. \A w \in Crons : CronPace(w, c[w], D)
    BY <1>1, <1>2, UnseenTypes
<1>5. \A w \in Intervals : IntervalPace(w, q.now, c[w], l[w], D)
    BY <1>1, <1>2 DEF IntervalPace, Unseen
<1>6. Pace(q, c, l, D, t)
    BY <1>3, <1>4, <1>5 DEF Pace
<1> QED BY <1>6 DEF c

\* A tick begins, or fails to read the list.
LEMMA TickPace ==
    ASSUME PaceInv, IndInv, IndInv', NEW p \in Pods, Tick(p)
    PROVE  PaceInv'
<1> DEFINE q == pod[p]  l == last_fired[p]  D == DOMAIN claims
<1>0. UNCHANGED <<clock, enabled, claims, last_fired>>
    BY DEF Tick
<1>1. /\ q \in Pod /\ q.now \in Time /\ clock \in Time /\ pod \in [Pods -> Pod]
      /\ clean[p] \in [Workflows -> Examination] /\ l \in [Intervals -> Time \cup {None}]
      /\ Pace(q, clean[p], l, D, clock) /\ enabled \subseteq Workflows
    BY PodFacts DEF IndInv, TypeOK
<1>2. \A t \in Time : t \in Nat
    BY ScheduleAssumption DEF Time
<1>3. q.now <= clock
    BY <1>1 DEF Pace
<1>4. \A w \in Intervals : l[w] # None => l[w] \in Time /\ l[w] <= clock
  <2>1. ASSUME NEW w \in Intervals, l[w] # None PROVE l[w] \in Time /\ l[w] <= clock
    <3>1. l[w] \in Time /\ l[w] <= q.now
      BY <1>1, <2>1 DEF Pace, IntervalPace
    <3> QED BY <1>1, <1>2, <1>3, <3>1
  <2> QED BY <2>1
<1>5. CASE /\ pod' = [pod EXCEPT ![p] = [pod[p] EXCEPT !.at = "loop", !.now = clock,
                                                   !.listed = enabled, !.todo = enabled]]
           /\ clean' = [clean EXCEPT ![p] = [w \in Workflows |->
                           IF w \in enabled THEN clean[p][w] ELSE Unseen]]
           /\ UNCHANGED env
  <2> DEFINE r == [pod[p] EXCEPT !.at = "loop", !.now = clock, !.listed = enabled, !.todo = enabled]
             c == [w \in Workflows |-> IF w \in enabled THEN clean[p][w] ELSE Unseen]
  <2>1. r.at = "loop" /\ r.now = clock /\ r.listed = enabled /\ r.todo = enabled
    BY <1>1 DEF Pod
  <2>2. \A w \in Workflows : c[w] = IF w \in enabled THEN clean[p][w] ELSE Unseen
    OBVIOUS
  <2>3. c \in [Workflows -> Examination]
    BY <1>1, UnseenTypes
  <2>4. pod'[p] = r /\ clean' = [clean EXCEPT ![p] = c]
    BY <1>1, <1>5
  <2> HIDE DEF r, c
  <2>5. \A w \in Workflows : SeenOK(c[w], clock)
    <3>1. ASSUME NEW w \in Workflows PROVE SeenOK(c[w], clock)
      <4>1. CASE w \notin enabled
        BY <2>2, <4>1, UnseenTypes
      <4>2. CASE w \in enabled
        <5>1. c[w] = clean[p][w] /\ SeenOK(c[w], q.now) /\ c[w] \in Examination
          BY <1>1, <2>2, <2>3, <4>2 DEF Pace
        <5>2. c[w].from # None => c[w].to \in Time /\ c[w].to <= clock
          BY <1>1, <1>2, <1>3, <5>1 DEF SeenOK, Examination
        <5> QED BY <5>1, <5>2 DEF SeenOK
      <4> QED BY <4>1, <4>2
    <3> QED BY <3>1
  <2>6. \A w \in Intervals : IntervalPace(w, clock, c[w], l[w], D)
    <3>1. ASSUME NEW w \in Intervals PROVE IntervalPace(w, clock, c[w], l[w], D)
      <4>1. IntervalPace(w, q.now, clean[p][w], l[w], D) /\ w \in Workflows
        BY <1>1 DEF Pace, Workflows
      <4>2. IntervalPace(w, clock, clean[p][w], l[w], D)
        BY <1>4, <4>1 DEF IntervalPace
      <4> QED BY <2>2, <4>1, <4>2, UnseenKeeps
    <3> QED BY <3>1
  <2>7. \A w \in Crons : CronPace(w, c[w], D)
    <3>1. ASSUME NEW w \in Crons PROVE CronPace(w, c[w], D)
      <4>1. CronPace(w, clean[p][w], D) /\ w \in Workflows
        BY <1>1 DEF Pace, Workflows
      <4> QED BY <2>2, <4>1, UnseenTypes
    <3> QED BY <3>1
  <2>8. clock <= clock
    BY <1>1, <1>2
  <2>9. Pace(r, c, l, D, clock)
    BY <2>1, <2>2, <2>5, <2>6, <2>7, <2>8 DEF Pace
  <2>10. EnvOK'
    BY <1>5 DEF PaceInv, EnvOK
  <2>11. \A o \in Pods : o # p => pod'[o] = pod[o]
    BY <1>5
  <2> QED BY <1>0, <2>3, <2>4, <2>9, <2>10, <2>11, OnePod
<1>6. CASE /\ Fails("database")
           /\ pod' = [pod EXCEPT ![p] = Asleep(clock)]
           /\ clean' = [clean EXCEPT ![p] = [w \in Workflows |-> Unseen]]
  <2> DEFINE c == [w \in Workflows |-> Unseen]
  <2>1. c \in [Workflows -> Examination]
    BY UnseenTypes
  <2>2. Asleep(clock) \in Pod /\ Asleep(clock).at = "sleep" /\ Asleep(clock).now = clock /\ clock <= clock
    BY <1>1, <1>2, SleepIsPod DEF Asleep
  <2>3. Pace(Asleep(clock), c, l, D, clock)
    BY <1>1, <1>4, <2>2, FreshPace
  <2>4. pod'[p] = Asleep(clock) /\ \A o \in Pods : o # p => pod'[o] = pod[o]
    BY <1>1, <1>6
  <2>5. EnvOK'
    BY <1>6, FailsKeeps DEF PaceInv
  <2> HIDE DEF c
  <2>6. clean' = [clean EXCEPT ![p] = c]
    BY <1>6 DEF c
  <2> QED BY <1>0, <2>1, <2>3, <2>4, <2>5, <2>6, OnePod
<1> QED BY <1>5, <1>6 DEF Tick

\* A pod leaves a workflow it has looked at, with what it now knows of it.
LEMMA LeavesPace ==
    ASSUME PaceInv, IndInv, IndInv', EnvOK', NEW p \in Pods, NEW w \in pod[p].listed,
           pod[p].at \in {"loop", "claim", "create", "attach"}, w \in Workflows,
           Skip(p, w), NEW e \in Examination,
           clean' = [clean EXCEPT ![p] = [clean[p] EXCEPT ![w] = e]],
           \A q \in Pods : q # p => last_fired'[q] = last_fired[q],
           DOMAIN claims \subseteq DOMAIN claims', clock' = clock,
           Pace([pod[p] EXCEPT !.at = "loop", !.todo = pod[p].todo \ {w}, !.workflow = None],
                [clean[p] EXCEPT ![w] = e], last_fired'[p], DOMAIN claims', clock)
    PROVE  PaceInv'
<1> DEFINE r == [pod[p] EXCEPT !.at = "loop", !.todo = pod[p].todo \ {w}, !.workflow = None]
           c == [clean[p] EXCEPT ![w] = e]
<1>1. pod' = [pod EXCEPT ![p] = r]
    BY DEF Skip
<1>2. c \in [Workflows -> Examination]
    BY PodFacts
<1> HIDE DEF r, c
<1>3. pod'[p] = r /\ \A q \in Pods : q # p => pod'[q] = pod[q]
    BY <1>1 DEF IndInv, TypeOK
<1>4. clean' = [clean EXCEPT ![p] = c] /\ Pace(r, c, last_fired'[p], DOMAIN claims', clock)
    BY DEF r, c
<1> QED BY <1>2, <1>3, <1>4, OnePod

\* A pod finds a workflow due.
LEMMA DuePace ==
    ASSUME PaceInv, IndInv, IndInv', NEW p \in Pods, pod[p].at = "loop",
           NEW w \in pod[p].todo, NEW t \in Resolved(w, pod[p].now), Due(p, w, t),
           EnvOK', UNCHANGED <<clean, last_fired, claims, clock>>
    PROVE  PaceInv'
<1> DEFINE r == [pod[p] EXCEPT !.at = "claim", !.todo = pod[p].todo \ {w},
                               !.workflow = w, !.instant = t]
<1>1. pod' = [pod EXCEPT ![p] = r]
    BY DEF Due
<1>2. /\ r.at = "claim" /\ r.now = pod[p].now /\ r.listed = pod[p].listed
      /\ r.todo \subseteq pod[p].todo /\ r.workflow = w /\ r.instant = t
    BY PodFacts DEF Pod
<1> HIDE DEF r
<1>3. pod'[p] = r /\ \A q \in Pods : q # p => pod'[q] = pod[q]
    BY <1>1 DEF IndInv, TypeOK
<1>4. w \in pod[p].listed /\ Pace(pod[p], clean[p], last_fired[p], DOMAIN claims, clock)
    BY PodFacts DEF Pace
<1>5. Pace(r, clean[p], last_fired[p], DOMAIN claims, clock)
    BY <1>2, <1>4, FiringPace
<1>6. clean' = [clean EXCEPT ![p] = clean[p]] /\ clean[p] \in [Workflows -> Examination]
    BY PodFacts DEF PaceInv
<1> QED BY <1>3, <1>5, <1>6, OnePod

\* A pod looks at a cron workflow.
LEMMA ExamineCronPace ==
    ASSUME PaceInv, IndInv, IndInv', NEW p \in Pods, NEW w \in Workflows, ExamineCron(p, w)
    PROVE  PaceInv'
<1> DEFINE now == pod[p].now
<1>0. /\ UNCHANGED <<clock, enabled, claims, last_fired, env>>
      /\ pod[p].at = "loop" /\ w \in pod[p].todo /\ w \in Crons /\ w \notin Intervals
    BY ScheduleAssumption DEF ExamineCron, Listed
<1>1. EnvOK'
    BY <1>0 DEF PaceInv, EnvOK
<1>2. CASE cron_fire_instant(w, now) = {} /\ Skip(p, w) /\ Examined(p, w)
  <2>1. PICK b \in BOOLEAN : Seen(p, w, b)
    <3>1. FALSE \in BOOLEAN /\ Seen(p, w, FALSE)
      BY <1>2 DEF Examined
    <3> QED BY <3>1
  <2> DEFINE x == ExaminedSoFar(clean[p][w], now, b)
  <2>2. /\ Pace(pod[p], clean[p], last_fired[p], DOMAIN claims, clock)
        /\ pod[p] \in Pod /\ now \in Time /\ clean[p] \in [Workflows -> Examination]
        /\ w \in pod[p].listed
        /\ clean[p][w] \in Examination /\ SeenOK(clean[p][w], now)
        /\ CronPace(w, clean[p][w], DOMAIN claims)
    BY <1>0, PodFacts DEF Pace
  <2>3. x \in Examination /\ SeenOK(x, now)
    BY <2>2, ExaminedTypes
  <2>4. CronPace(w, x, DOMAIN claims)
    BY <1>0, <1>2, <2>2, CronExamined
  <2>5. clean' = [clean EXCEPT ![p] = [clean[p] EXCEPT ![w] = x]]
    BY <2>1 DEF Seen
  <2> HIDE DEF x
  <2>6. Pace([pod[p] EXCEPT !.at = "loop", !.todo = pod[p].todo \ {w}, !.workflow = None],
             [clean[p] EXCEPT ![w] = x], last_fired[p], DOMAIN claims, clock)
    BY <1>0, <2>2, <2>3, <2>4, SkipPace
  <2> QED BY <1>0, <1>1, <1>2, <2>2, <2>3, <2>5, <2>6, LeavesPace
<1>3. CASE (\E t \in cron_fire_instant(w, now) : Due(p, w, t)) /\ UNCHANGED clean
  <2>1. PICK t \in cron_fire_instant(w, now) : Due(p, w, t)
    BY <1>3
  <2>2. t \in Resolved(w, now)
    BY <1>0 DEF Resolved
  <2> QED BY <1>0, <1>1, <1>3, <2>1, <2>2, DuePace
<1> QED BY <1>2, <1>3 DEF ExamineCron

\* A suppressed tick of an interval workflow.
LEMMA SuppressPace ==
    ASSUME PaceInv, IndInv, IndInv', EnvOK', NEW p \in Pods, NEW w \in Intervals,
           pod[p].at = "loop", w \in pod[p].todo,
           NEW last \in Time \cup {None}, NEW blind \in BOOLEAN,
           ~interval_should_fire(last, pod[p].now),
           last_fired[p][w] # None => last = last_fired[p][w],
           last_fired[p][w] = None /\ last # None =>
               \E f \in DOMAIN claims : f[1] = w /\ f[2] = last,
           last_fired[p][w] = None /\ last = None =>
               blind \/ ~\E f \in DOMAIN claims : f[1] = w,
           interval_prefilter_suppress(p, w, last), Skip(p, w), Seen(p, w, blind),
           UNCHANGED <<clock, claims>>
    PROVE  PaceInv'
<1> DEFINE now == pod[p].now  x == ExaminedSoFar(clean[p][w], now, blind)
           l == last_fired[p][w]  D == DOMAIN claims  m == IF last = None THEN now ELSE l
<1>1. /\ Pace(pod[p], clean[p], last_fired[p], D, clock) /\ D \subseteq Fires
      /\ pod[p] \in Pod /\ now \in Time /\ clean[p] \in [Workflows -> Examination]
      /\ last_fired[p] \in [Intervals -> Time \cup {None}]
    BY PodFacts
<1>2. /\ w \in Workflows /\ w \in pod[p].listed /\ w \notin Crons
      /\ clean[p][w] \in Examination /\ SeenOK(clean[p][w], now)
      /\ l \in Time \cup {None} /\ IntervalPace(w, now, clean[p][w], l, D)
    BY <1>1, ScheduleAssumption DEF Pace, Workflows
<1>3. x \in Examination /\ SeenOK(x, now)
    BY <1>1, <1>2, ExaminedTypes
<1>4. clean' = [clean EXCEPT ![p] = [clean[p] EXCEPT ![w] = x]]
    BY DEF Seen
<1>5. last_fired'[p][w] = m /\ \A v \in Intervals : v # w => last_fired'[p][v] = last_fired[p][v]
    BY DEF interval_prefilter_suppress, IndInv, TypeOK
<1>6. \A q \in Pods : q # p => last_fired'[q] = last_fired[q]
    BY DEF interval_prefilter_suppress, IndInv, TypeOK
<1> HIDE DEF now, l, m, D
<1>7. IntervalPace(w, now, x, m, D)
  <2>1. m = IF last = None THEN now ELSE l
    BY DEF m
  <2>2. /\ ~interval_should_fire(last, now) /\ (l # None => last = l)
        /\ l = None /\ last # None => \E f \in D : f[1] = w /\ f[2] = last
        /\ l = None /\ last = None => blind \/ ~\E f \in D : f[1] = w
    BY DEF now, l, D
  <2> QED BY <1>1, <1>2, <2>1, <2>2, IntervalSuppressed
<1> HIDE DEF x
<1> USE DEF now, D
<1>8. Pace([pod[p] EXCEPT !.at = "loop", !.todo = pod[p].todo \ {w}, !.workflow = None],
           [clean[p] EXCEPT ![w] = x], last_fired'[p], DOMAIN claims, clock)
    BY <1>1, <1>2, <1>3, <1>5, <1>7, SkipPace
<1> QED BY <1>1, <1>2, <1>3, <1>4, <1>6, <1>8, LeavesPace

\* A pod looks at an interval workflow.
LEMMA ExamineIntervalPace ==
    ASSUME PaceInv, IndInv, IndInv', NEW p \in Pods, NEW w \in Workflows, ExamineInterval(p, w)
    PROVE  PaceInv'
<1> DEFINE now == pod[p].now
           Prefilter(last, blind) ==
               IF interval_should_fire(last, now)
               THEN /\ \E t \in interval_fire_instant(now) : Due(p, w, t)
                    /\ UNCHANGED <<last_fired, clean>>
               ELSE /\ interval_prefilter_suppress(p, w, last)
                    /\ Skip(p, w) /\ Seen(p, w, blind)
           latest == latest_scheduled_workflow_fire(w)
<1>0. /\ UNCHANGED <<clock, enabled, claims>>
      /\ pod[p].at = "loop" /\ w \in pod[p].todo /\ w \in Intervals
    BY DEF ExamineInterval, Listed
<1>1. ASSUME NEW last \in Time \cup {None}, NEW blind \in BOOLEAN, Prefilter(last, blind), EnvOK',
             last_fired[p][w] # None => last = last_fired[p][w],
             last_fired[p][w] = None /\ last # None =>
                 \E f \in DOMAIN claims : f[1] = w /\ f[2] = last,
             last_fired[p][w] = None /\ last = None =>
                 blind \/ ~\E f \in DOMAIN claims : f[1] = w
      PROVE  PaceInv'
  <2>1. CASE interval_should_fire(last, now)
    <3>1. PICK t \in interval_fire_instant(now) : Due(p, w, t)
      BY <1>1, <2>1
    <3>2. t \in Resolved(w, now)
      BY <1>0 DEF Resolved
    <3> QED BY <1>0, <1>1, <2>1, <3>1, <3>2, DuePace
  <2>2. CASE ~interval_should_fire(last, now)
    BY <1>0, <1>1, <2>2, SuppressPace
  <2> QED BY <2>1, <2>2
<1>2. UNCHANGED env => EnvOK'
    BY DEF PaceInv, EnvOK
<1>3. /\ last_fired[p][w] \in Time \cup {None} /\ TypeOK
      /\ DOMAIN claims \subseteq Fires
    BY <1>0, PodFacts DEF IndInv
<1>4. /\ (\E f \in DOMAIN claims : f[1] = w) => latest # None
      /\ latest # None => \E f \in DOMAIN claims : f[1] = w /\ f[2] = latest
    BY <1>3, LatestIsClaim
<1>5. latest \in Time \cup {None}
    BY <1>3, <1>4 DEF Fires
<1>6. \/ last_fired[p][w] # None /\ Prefilter(last_fired[p][w], FALSE) /\ UNCHANGED env
      \/ last_fired[p][w] = None /\ Prefilter(latest, FALSE) /\ UNCHANGED env
      \/ last_fired[p][w] = None /\ Fails("database") /\ Prefilter(None, TRUE)
    BY DEF ExamineInterval
<1>7. Fails("database") => EnvOK'
    BY FailsKeeps DEF PaceInv
<1> HIDE DEF Prefilter, latest
<1>8. FALSE \in BOOLEAN /\ TRUE \in BOOLEAN
    OBVIOUS
<1>9. CASE last_fired[p][w] # None /\ Prefilter(last_fired[p][w], FALSE) /\ UNCHANGED env
    BY <1>1, <1>2, <1>3, <1>8, <1>9
<1>10. CASE last_fired[p][w] = None /\ Prefilter(latest, FALSE) /\ UNCHANGED env
    BY <1>1, <1>2, <1>4, <1>5, <1>8, <1>10
<1>11. CASE last_fired[p][w] = None /\ Fails("database") /\ Prefilter(None, TRUE)
    BY <1>1, <1>7, <1>8, <1>11
<1> QED BY <1>6, <1>9, <1>10, <1>11

\* A pod gives up a workflow after a failure.
LEMMA GivesUpPace ==
    ASSUME PaceInv, IndInv, IndInv', EnvOK', NEW p \in Pods,
           pod[p].at \in {"claim", "create"}, NEW w, w = pod[p].workflow,
           Skip(p, w), Unexamined(p, w),
           DOMAIN claims \subseteq DOMAIN claims', UNCHANGED <<clock, last_fired>>
    PROVE  PaceInv'
<1> DEFINE D == DOMAIN claims'
<1>1. /\ pod[p] \in Pod /\ clean[p] \in [Workflows -> Examination] /\ clock \in Time
      /\ clock <= clock
      /\ Pace(pod[p], clean[p], last_fired[p], DOMAIN claims, clock)
    BY PodFacts, ScheduleAssumption DEF Time
<1>2. Pace(pod[p], clean[p], last_fired[p], D, clock)
    BY <1>1, PaceGrows
<1>3. w \in Workflows /\ w \in pod[p].listed
    BY <1>1 DEF IndInv, PodsOK, Pace
<1>4. Unseen \in Examination /\ SeenOK(Unseen, pod[p].now) /\ CronPace(w, Unseen, D)
    BY UnseenTypes
<1>5. w \in Intervals => IntervalPace(w, pod[p].now, Unseen, last_fired[p][w], D)
    BY <1>2, UnseenKeeps DEF Pace
<1>6. clean' = [clean EXCEPT ![p] = [clean[p] EXCEPT ![w] = Unseen]]
    BY DEF Unexamined
<1>7. Pace([pod[p] EXCEPT !.at = "loop", !.todo = pod[p].todo \ {w}, !.workflow = None],
           [clean[p] EXCEPT ![w] = Unseen], last_fired[p], D, clock)
    BY <1>1, <1>2, <1>3, <1>4, <1>5, SkipPace
<1> QED BY <1>3, <1>4, <1>6, <1>7, LeavesPace

\* A pod leaves a workflow whose instant is claimed.
LEMMA DonePace ==
    ASSUME PaceInv, IndInv, IndInv', EnvOK', NEW p \in Pods,
           pod[p].at \in {"claim", "attach"}, NEW w, w = pod[p].workflow,
           Fire(p) \in DOMAIN claims, DOMAIN claims' = DOMAIN claims,
           Fired(p, w), Skip(p, w), Examined(p, w), UNCHANGED clock
    PROVE  PaceInv'
<1> DEFINE D == DOMAIN claims  now == pod[p].now  l == last_fired[p]
<1>1. PICK b \in BOOLEAN : Seen(p, w, b)
  <2>1. FALSE \in BOOLEAN /\ Seen(p, w, FALSE)
    BY DEF Examined
  <2> QED BY <2>1
<1>2. /\ pod[p] \in Pod /\ now \in Time /\ clean[p] \in [Workflows -> Examination]
      /\ l \in [Intervals -> Time \cup {None}] /\ D \subseteq Fires
      /\ Pace(pod[p], clean[p], l, D, clock)
    BY PodFacts
<1>3. /\ w \in Workflows /\ w \in pod[p].listed /\ <<w, pod[p].instant>> \in D
      /\ clean[p][w] \in Examination /\ SeenOK(clean[p][w], now)
    BY <1>2 DEF IndInv, PodsOK, Pace, Fire
<1> DEFINE x == ExaminedSoFar(clean[p][w], now, b)
           m == IF w \in Intervals THEN [l EXCEPT ![w] = now] ELSE l
<1>4. x \in Examination
    BY <1>2, <1>3, ExaminedTypes
<1>5. clean' = [clean EXCEPT ![p] = [clean[p] EXCEPT ![w] = x]]
    BY <1>1 DEF Seen
<1>6. last_fired'[p] = m /\ \A q \in Pods : q # p => last_fired'[q] = last_fired[q]
    BY <1>2 DEF Fired, IndInv, TypeOK
<1>7. Pace([pod[p] EXCEPT !.at = "loop", !.todo = pod[p].todo \ {w}, !.workflow = None],
           [clean[p] EXCEPT ![w] = x], m, D, clock)
  <2>1. /\ m = IF w \in Intervals THEN [l EXCEPT ![w] = now] ELSE l
        /\ pod[p].workflow \in Workflows /\ <<pod[p].workflow, pod[p].instant>> \in D
        /\ pod[p].at \in {"claim", "create", "attach"}
    BY <1>3
  <2> HIDE DEF m
  <2> QED BY <1>2, <2>1, ClaimedPace
<1> HIDE DEF x, m
<1> QED BY <1>3, <1>4, <1>5, <1>6, <1>7, LeavesPace

\* A pod moves on towards the run of the instant it works on.
LEMMA MovesPace ==
    ASSUME PaceInv, IndInv, IndInv', EnvOK', NEW p \in Pods,
           pod[p].at \in {"claim", "create"}, NEW r \in Pod, pod' = [pod EXCEPT ![p] = r],
           r.at \in {"create", "attach"}, r.now = pod[p].now, r.listed = pod[p].listed,
           r.todo = pod[p].todo, r.workflow = pod[p].workflow, r.instant = pod[p].instant,
           DOMAIN claims \subseteq DOMAIN claims', UNCHANGED <<clock, last_fired, clean>>
    PROVE  PaceInv'
<1>1. /\ pod[p] \in Pod /\ clean[p] \in [Workflows -> Examination] /\ clock \in Time
      /\ clock <= clock
      /\ Pace(pod[p], clean[p], last_fired[p], DOMAIN claims, clock)
    BY PodFacts, ScheduleAssumption DEF Time
<1>2. Pace(pod[p], clean[p], last_fired[p], DOMAIN claims', clock)
    BY <1>1, PaceGrows
<1>3. r.workflow \in pod[p].listed /\ r.instant \in Resolved(r.workflow, pod[p].now)
    BY <1>1 DEF Pace
<1>4. Pace(r, clean[p], last_fired[p], DOMAIN claims', clock)
    BY <1>2, <1>3, FiringPace
<1>5. pod'[p] = r /\ \A q \in Pods : q # p => pod'[q] = pod[q]
    BY DEF IndInv, TypeOK
<1>6. clean' = [clean EXCEPT ![p] = clean[p]]
    BY DEF PaceInv
<1> QED BY <1>1, <1>4, <1>5, <1>6, OnePod

\* The claim keeps what is claimed.
LEMMA ClaimsGrow ==
    ASSUME NEW f
    PROVE  DOMAIN claims \subseteq DOMAIN Claimed(f)
BY DEF Claimed

\* From the owner's authority to the run.
LEMMA FirePace ==
    ASSUME PaceInv, IndInv, IndInv', NEW p \in Pods,
           \/ OwnerRefused(p) \/ claim_scheduled_workflow_fire(p) \/ ClaimFails(p)
           \/ create_workflow_run(p) \/ attach_scheduled_workflow_run(p)
    PROVE  PaceInv'
<1>0. (UNCHANGED env => EnvOK') /\ (\A f : Fails(f) => EnvOK')
    BY FailsKeeps DEF PaceInv, EnvOK
<1>1. pod[p] \in Pod
    BY PodFacts
<1>2. CASE OwnerRefused(p)
  <2>1. EnvOK' /\ DOMAIN claims \subseteq DOMAIN claims'
    BY <1>0, <1>2 DEF OwnerRefused
  <2> QED BY <1>2, <2>1, GivesUpPace DEF OwnerRefused
<1>3. CASE claim_scheduled_workflow_fire(p)
  <2>1. pod[p].at = "claim" /\ UNCHANGED <<clock, env>> /\ EnvOK'
    BY <1>0, <1>3 DEF claim_scheduled_workflow_fire
  <2>2. CASE Free(Fire(p))
    <3> DEFINE r == [pod[p] EXCEPT !.at = "create"]
    <3>1. /\ claims' = Claimed(Fire(p)) /\ pod' = [pod EXCEPT ![p] = r]
          /\ UNCHANGED <<last_fired, clean>>
      BY <1>3, <2>2 DEF claim_scheduled_workflow_fire
    <3>2. /\ r \in Pod /\ r.at = "create" /\ r.now = pod[p].now /\ r.listed = pod[p].listed
          /\ r.todo = pod[p].todo /\ r.workflow = pod[p].workflow /\ r.instant = pod[p].instant
      BY <1>1 DEF Pod
    <3> HIDE DEF r
    <3>3. DOMAIN claims \subseteq DOMAIN claims'
      BY <3>1, ClaimsGrow
    <3> QED BY <2>1, <3>1, <3>2, <3>3, MovesPace
  <2>3. CASE ~Free(Fire(p))
    <3>1. /\ Fired(p, pod[p].workflow) /\ Skip(p, pod[p].workflow)
          /\ Examined(p, pod[p].workflow) /\ UNCHANGED claims /\ Fire(p) \in DOMAIN claims
      BY <1>3, <2>3 DEF claim_scheduled_workflow_fire, Free
    <3> QED BY <2>1, <3>1, DonePace
  <2> QED BY <2>2, <2>3
<1>4. CASE ClaimFails(p)
  <2>1. /\ EnvOK' /\ pod[p].at = "claim" /\ UNCHANGED <<clock, last_fired>>
        /\ Skip(p, pod[p].workflow) /\ Unexamined(p, pod[p].workflow)
        /\ claims' = claims \/ claims' = Claimed(Fire(p))
    BY <1>0, <1>4 DEF ClaimFails
  <2>2. DOMAIN claims \subseteq DOMAIN claims'
    BY <2>1, ClaimsGrow
  <2> QED BY <2>1, <2>2, GivesUpPace
<1>5. CASE create_workflow_run(p)
  <2> DEFINE created == Append(runs, NewRun(Fire(p), p))
  <2>1. pod[p].at = "create" /\ UNCHANGED <<clock, claims, last_fired>>
    BY <1>5 DEF create_workflow_run
  <2>2. CASE /\ pod' = [pod EXCEPT ![p] = [pod[p] EXCEPT !.at = "attach", !.run = Len(created)]]
             /\ UNCHANGED <<clean, env>>
    <3> DEFINE r == [pod[p] EXCEPT !.at = "attach", !.run = Len(created)]
    <3>1. /\ r.at = "attach" /\ r.now = pod[p].now /\ r.listed = pod[p].listed
          /\ r.todo = pod[p].todo /\ r.workflow = pod[p].workflow /\ r.instant = pod[p].instant
      BY <1>1 DEF Pod
    <3>2. pod' = [pod EXCEPT ![p] = r]
      BY <2>2
    <3>3. r = pod'[p] /\ pod'[p] \in Pod
      BY <3>2 DEF IndInv, TypeOK
    <3> HIDE DEF r
    <3> QED BY <1>0, <2>1, <2>2, <3>1, <3>2, <3>3, MovesPace
  <2>3. CASE Fails("database") /\ Skip(p, pod[p].workflow) /\ Unexamined(p, pod[p].workflow)
    BY <1>0, <2>1, <2>3, GivesUpPace
  <2> QED BY <1>5, <2>2, <2>3 DEF create_workflow_run
<1>6. CASE attach_scheduled_workflow_run(p)
  <2>1. /\ pod[p].at = "attach" /\ UNCHANGED clock /\ Fired(p, pod[p].workflow)
        /\ Skip(p, pod[p].workflow) /\ Examined(p, pod[p].workflow)
    BY <1>6 DEF attach_scheduled_workflow_run
  <2>2. EnvOK' /\ DOMAIN claims' = DOMAIN claims
    BY <1>0, <1>6 DEF attach_scheduled_workflow_run
  <2>3. Fire(p) \in DOMAIN claims
    BY <2>1 DEF IndInv, PodsOK
  <2> QED BY <2>1, <2>2, <2>3, DonePace
<1> QED BY <1>2, <1>3, <1>4, <1>5, <1>6

\* The end of a tick, a crash and a start.
LEMMA SleepPace ==
    ASSUME PaceInv, IndInv, IndInv', NEW p \in Pods, EndTick(p) \/ Crash(p) \/ Start(p)
    PROVE  PaceInv'
<1> DEFINE q == pod[p]  l == last_fired[p]  D == DOMAIN claims
<1>0. (UNCHANGED env => EnvOK') /\ (\A f : Fails(f) => EnvOK')
    BY FailsKeeps DEF PaceInv, EnvOK
<1>1. /\ q \in Pod /\ q.now \in Time /\ clock \in Time
      /\ clean[p] \in [Workflows -> Examination] /\ l \in [Intervals -> Time \cup {None}]
      /\ Pace(q, clean[p], l, D, clock)
    BY PodFacts
<1>2. clock <= clock /\ 0 <= clock
    BY <1>1, ScheduleAssumption DEF Time
<1>3. CASE EndTick(p)
  <2> DEFINE m == [w \in Intervals |-> IF w \in q.listed THEN l[w] ELSE None]
             r == [Asleep(clock) EXCEPT !.now = q.now]
  <2>1. /\ q.at = "loop" /\ pod' = [pod EXCEPT ![p] = r]
        /\ last_fired' = [last_fired EXCEPT ![p] = m] /\ UNCHANGED <<clock, claims, clean, env>>
    BY <1>3 DEF EndTick
  <2>2. r.at = "sleep" /\ r.now = q.now
    BY DEF Asleep
  <2> HIDE DEF r
  <2>3. /\ pod'[p] = r /\ last_fired'[p] = m /\ clean' = [clean EXCEPT ![p] = clean[p]]
        /\ \A o \in Pods : o # p => pod'[o] = pod[o] /\ last_fired'[o] = last_fired[o]
    BY <2>1 DEF IndInv, TypeOK, PaceInv
  <2>4. \A w \in Intervals : IntervalPace(w, r.now, clean[p][w], m[w], D)
    <3>1. ASSUME NEW w \in Intervals PROVE IntervalPace(w, q.now, clean[p][w], m[w], D)
      <4>1. IntervalPace(w, q.now, clean[p][w], l[w], D) /\ w \in Workflows
        BY <1>1 DEF Pace, Workflows
      <4>2. CASE w \in q.listed
        BY <4>1, <4>2
      <4>3. CASE w \notin q.listed
        <5>1. clean[p][w] = Unseen
          BY <1>1, <2>1, <4>1, <4>3 DEF Pace
        <5>2. Unseen.from = None
          BY DEF Unseen
        <5>3. m[w] = None
          BY <4>3
        <5> QED BY <5>1, <5>2, <5>3 DEF IntervalPace
      <4> QED BY <4>2, <4>3
    <3> QED BY <2>2, <3>1
  <2> HIDE DEF m
  <2>5. Pace(r, clean[p], m, D, clock)
    BY <1>1, <2>2, <2>4 DEF Pace
  <2> QED BY <1>0, <1>1, <2>1, <2>3, <2>5, OnePod
<1>4. CASE Crash(p)
  <2> DEFINE m == [w \in Intervals |-> None]  c == [w \in Workflows |-> Unseen]
  <2>1. /\ pod' = [pod EXCEPT ![p] = Down] /\ last_fired' = [last_fired EXCEPT ![p] = m]
        /\ clean' = [clean EXCEPT ![p] = c] /\ UNCHANGED <<clock, claims>> /\ EnvOK'
    BY <1>0, <1>4 DEF Crash
  <2>2. Down \in Pod /\ Down.at = "down" /\ Down.now = 0
    BY ScheduleAssumption DEF Down, Asleep, Pod, Time
  <2>3. c \in [Workflows -> Examination] /\ m \in [Intervals -> Time \cup {None}]
    BY UnseenTypes
  <2>4. Pace(Down, c, m, D, clock)
    BY <1>1, <1>2, <2>2, <2>3, FreshPace
  <2> HIDE DEF m, c
  <2>5. /\ pod'[p] = Down /\ last_fired'[p] = m
        /\ \A o \in Pods : o # p => pod'[o] = pod[o] /\ last_fired'[o] = last_fired[o]
    BY <2>1 DEF IndInv, TypeOK
  <2> QED BY <2>1, <2>3, <2>4, <2>5, OnePod
<1>5. CASE Start(p)
  <2>1. /\ q.at = "down" /\ pod' = [pod EXCEPT ![p] = Asleep(clock)]
        /\ UNCHANGED <<clock, claims, last_fired, clean, env>>
    BY <1>5 DEF Start
  <2> DEFINE r == Asleep(clock)
  <2>2. r.at = "sleep" /\ r.now = clock
    BY DEF Asleep
  <2> HIDE DEF r
  <2>3. pod'[p] = r /\ clean' = [clean EXCEPT ![p] = clean[p]]
        /\ \A o \in Pods : o # p => pod'[o] = pod[o] /\ last_fired'[o] = last_fired[o]
    BY <2>1 DEF IndInv, TypeOK, PaceInv, r
  <2>4. \A w \in Workflows : SeenOK(clean[p][w], clock)
    <3>1. ASSUME NEW w \in Workflows PROVE SeenOK(clean[p][w], clock)
      <4>1. SeenOK(clean[p][w], q.now) /\ clean[p][w] \in Examination /\ q.now <= clock
        BY <1>1 DEF Pace
      <4>2. clean[p][w].from # None => clean[p][w].to \in Time
        BY <4>1 DEF SeenOK, Examination
      <4>3. \A t \in Time : t \in Nat
        BY ScheduleAssumption DEF Time
      <4>4. clean[p][w].from # None => clean[p][w].to <= clock
        BY <1>1, <4>1, <4>2, <4>3 DEF SeenOK
      <4> QED BY <4>1, <4>4 DEF SeenOK
    <3> QED BY <3>1
  <2>5. \A w \in Intervals : IntervalPace(w, clock, clean[p][w], l[w], D)
    <3>1. ASSUME NEW w \in Intervals PROVE IntervalPace(w, clock, clean[p][w], l[w], D)
      <4>1. IntervalPace(w, q.now, clean[p][w], l[w], D) /\ q.now <= clock
        BY <1>1 DEF Pace
      <4>2. l[w] # None => l[w] \in Time
        BY <1>1
      <4>3. \A t \in Time : t \in Nat
        BY ScheduleAssumption DEF Time
      <4>4. l[w] # None => l[w] <= clock
        BY <1>1, <4>1, <4>2, <4>3 DEF IntervalPace
      <4> QED BY <4>1, <4>4 DEF IntervalPace
    <3> QED BY <3>1
  <2>6. Pace(r, clean[p], l, D, clock)
    BY <1>1, <1>2, <2>2, <2>4, <2>5 DEF Pace
  <2> QED BY <1>0, <1>1, <2>1, <2>3, <2>6, OnePod
<1> QED BY <1>3, <1>4, <1>5

-----------------------------------------------------------------------------
\* Every step keeps the pace of every pod.
LEMMA StepPace ==
    ASSUME PaceInv, IndInv, IndInv', [Next]_vars
    PROVE  PaceInv'
<1>0. (UNCHANGED env => EnvOK') /\ (\A f : Fails(f) => EnvOK')
    BY FailsKeeps DEF PaceInv, EnvOK
<1>1. clock \in Nat /\ clock <= clock
    BY ScheduleAssumption DEF IndInv, TypeOK, Time
<1>2. ASSUME NEW p \in Pods, Loop(p) \/ Crash(p) \/ Start(p) PROVE PaceInv'
    BY <1>2, TickPace, ExamineCronPace, ExamineIntervalPace, FirePace, SleepPace DEF Loop
<1>3. ASSUME NEW i \in DOMAIN runs,
             StartRun(i) \/ finalize_run(i) \/ \E o \in {"completed", "failed"} : EndSteps(i, o)
      PROVE  PaceInv'
  <2>1. UNCHANGED <<pod, clean, last_fired, claims, clock>> /\ EnvOK'
    BY <1>0, <1>3 DEF StartRun, finalize_run, EndSteps
  <2> QED BY <1>1, <2>1, NoPod
<1>4. ASSUME NEW p \in Pods, NEW t \in Triggers, PersistCommand(p, t) PROVE PaceInv'
  <2>1. UNCHANGED <<pod, clean, last_fired, claims, clock>> /\ EnvOK'
    BY <1>0, <1>4 DEF PersistCommand
  <2> QED BY <1>1, <2>1, NoPod
<1>5. ASSUME NEW t \in Triggers, CreateTriggered(t) \/ CommitCommand(t) PROVE PaceInv'
  <2>1. UNCHANGED <<pod, clean, last_fired, claims, clock>> /\ EnvOK'
    BY <1>0, <1>5 DEF CreateTriggered, CommitCommand
  <2> QED BY <1>1, <2>1, NoPod
<1>6. ASSUME NEW w \in Workflows, SetEnabled(w) PROVE PaceInv'
  <2>1. UNCHANGED <<pod, clean, last_fired, claims, clock>> /\ EnvOK'
    BY <1>0, <1>6 DEF SetEnabled
  <2> QED BY <1>1, <2>1, NoPod
<1>7. ASSUME Advance PROVE PaceInv'
  <2>1. UNCHANGED <<pod, clean, last_fired, claims, env>> /\ clock' = clock + 1
    BY <1>7 DEF Advance
  <2> QED BY <1>0, <1>1, <2>1, NoPod
<1>8. ASSUME UNCHANGED vars PROVE PaceInv'
    BY <1>0, <1>1, <1>8, NoPod DEF vars
<1> QED BY <1>2, <1>3, <1>4, <1>5, <1>6, <1>7, <1>8 DEF Next

\* The pods start in step.
LEMMA InitPace == Init => PaceInv
<1> SUFFICES ASSUME Init PROVE PaceInv
    OBVIOUS
<1>1. EnvOK
    BY ScheduleAssumption DEF Init, EnvOK, Workload
<1> DEFINE c == [w \in Workflows |-> Unseen]  m == [w \in Intervals |-> None]
<1>2. c \in [Workflows -> Examination] /\ m \in [Intervals -> Time \cup {None}]
    BY UnseenTypes
<1>3. /\ clean = [p \in Pods |-> c] /\ last_fired = [p \in Pods |-> m]
      /\ pod = [p \in Pods |-> Asleep(0)] /\ clock = 0 /\ clock \in Time /\ 0 <= clock
    BY ScheduleAssumption DEF Init, Time
<1>4. Asleep(0) \in Pod /\ Asleep(0).at = "sleep" /\ Asleep(0).now = 0
    BY <1>3, SleepIsPod DEF Asleep
<1>5. Pace(Asleep(0), c, m, DOMAIN claims, clock)
    BY <1>2, <1>3, <1>4, FreshPace
<1> HIDE DEF c, m
<1> QED BY <1>1, <1>2, <1>3, <1>5 DEF PaceInv

\* What every pod knows of its workflows agrees with the claims, always.
LEMMA AlwaysPace == Spec => [](IndInv /\ PaceInv)
<1>1. Init => IndInv /\ PaceInv
    BY InitIndInv, InitPace
<1>2. IndInv /\ PaceInv /\ [Next]_vars => (IndInv /\ PaceInv)'
    BY StepIndInv, StepPace
<1> QED BY <1>1, <1>2, PTL DEF Spec

\* An interval workflow keeps firing: whatever pods crash, restart, lose a
\* claim to another or begin late, one that has examined it for an interval
\* without a failure finds a claim less than two intervals old.
THEOREM IntervalsKeepFiring == Spec => []IntervalKeepsUp
<1>1. PaceInv => IntervalKeepsUp
  <2> SUFFICES ASSUME PaceInv, NEW p \in Pods, NEW w \in Intervals, ~clean[p][w].blind
               PROVE  ~Stalled(p, w)
    BY DEF IntervalKeepsUp
  <2>1. IntervalPace(w, pod[p].now, clean[p][w], last_fired[p][w], DOMAIN claims)
    BY DEF PaceInv, Pace
  <2> QED BY <2>1 DEF IntervalPace, Stalled, Claim
<1> QED BY <1>1, AlwaysPace, PTL

\* Whatever the density of a cron expression and however late the ticks, an
\* instant that an undisturbed pod leaves out fell between two windows of
\* cron_fire_instant or shared one with an instant that was claimed; and
\* intervals keep firing.
THEOREM PaceIsKept == Spec => []SchedulesKeepPace
<1>1. PaceInv => CronMissesAccountedFor
  <2> SUFFICES ASSUME PaceInv, NEW p \in Pods, NEW w \in Crons, NEW t \in Unclaimed(p, w)
               PROVE  t \in clean[p][w].gaps \/ FiredJustBefore(w, t)
    BY DEF CronMissesAccountedFor
  <2>1. CronPace(w, clean[p][w], DOMAIN claims)
    BY DEF PaceInv, Pace
  <2> QED BY <2>1 DEF CronPace, Unclaimed, FiredJustBefore
<1>2. IntervalKeepsUp /\ CronMissesAccountedFor => SchedulesKeepPace
    BY DEF SchedulesKeepPace
<1> QED BY <1>1, <1>2, AlwaysPace, IntervalsKeepFiring, PTL

\* Where no two instants of a cron are less than a window apart, as for every
\* five-field expression, only the drift of the ticks leaves one out.
THEOREM SparseCronsMissOnlyGaps ==
    Spec => [](\A p \in Pods, w \in Crons :
                 Period[w] >= Window => Unclaimed(p, w) \subseteq clean[p][w].gaps)
<1>1. ASSUME SchedulesKeepPace
      PROVE  \A p \in Pods, w \in Crons :
               Period[w] >= Window => Unclaimed(p, w) \subseteq clean[p][w].gaps
  <2> SUFFICES ASSUME NEW p \in Pods, NEW w \in Crons, Period[w] >= Window,
                      NEW t \in Unclaimed(p, w)
               PROVE  t \in clean[p][w].gaps
    OBVIOUS
  <2>1. ASSUME NEW u \in Multiples(Period[w]), u < t, t < u + Window PROVE FALSE
    <3>1. /\ u \in Nat /\ t \in Nat /\ u % Period[w] = 0 /\ t % Period[w] = 0
          /\ Period[w] \in Nat \ {0} /\ Window \in Nat
      BY ScheduleAssumption DEF Unclaimed, Multiples, Time
    <3>2. t - u >= Period[w]
      BY <2>1, <3>1, MultiplesApart
    <3> QED BY <2>1, <3>1, <3>2
  <2>2. t \in clean[p][w].gaps \/ FiredJustBefore(w, t)
    BY <1>1 DEF SchedulesKeepPace, CronMissesAccountedFor
  <2> QED BY <2>1, <2>2 DEF FiredJustBefore
<1> QED BY <1>1, PaceIsKept, PTL

-----------------------------------------------------------------------------
\* Every claimed instant has its run or is about to get it.
ClaimsServed ==
    \A f \in DOMAIN claims : InProgress(f) \/ \E i \in RunIds : runs[i].cause = f

\* Every run has ended or will.
RunsHandled == \A i \in RunIds : Handled(i)

\* Steps that touch no run, no claim and nobody who is about to use one.
LEMMA QuietLoss ==
    ASSUME ClaimsServed, RunsHandled, UNCHANGED runs, DOMAIN claims' = DOMAIN claims,
           \A p \in Pods : pod[p].at \in {"create", "attach"} => pod'[p] = pod[p],
           \A t \in Triggers : command[t].at = "created" => command'[t] = command[t]
    PROVE  ClaimsServed' /\ RunsHandled'
<1>1. RunIds' = RunIds
    BY DEF RunIds
<1>2. ClaimsServed'
    BY <1>1 DEF ClaimsServed, InProgress, Fire
<1>3. RunsHandled'
    BY <1>1 DEF RunsHandled, Handled
<1> QED BY <1>2, <1>3

\* A task of one run goes on.
LEMMA RunLoss ==
    ASSUME ClaimsServed, RunsHandled, IndInv, NEW i \in RunIds, NEW s, NEW k, SetRun(i, s, k),
           s \in {"completed", "failed"} \/ k \notin {"none", "done"},
           UNCHANGED <<claims, pod, command>>
    PROVE  ClaimsServed' /\ RunsHandled'
<1> DEFINE r == [runs[i] EXCEPT !.status = s, !.task = k]
<1>1. runs \in Seq(Run) /\ i \in 1..Len(runs) /\ runs[i] \in Run /\ DOMAIN runs = 1..Len(runs)
    BY DEF IndInv, TypeOK, RunIds
<1>2. r.status = s /\ r.task = k /\ r.cause = runs[i].cause
    BY <1>1 DEF Run
<1>3. runs' = [runs EXCEPT ![i] = r]
    BY DEF SetRun
<1> HIDE DEF r
<1>4. /\ DOMAIN runs' = DOMAIN runs /\ Len(runs') = Len(runs)
      /\ runs'[i] = r /\ \A j \in RunIds : j # i => runs'[j] = runs[j]
    BY <1>1, <1>3 DEF RunIds
<1>5. RunIds' = RunIds
    BY <1>4 DEF RunIds
<1>6. ClaimsServed'
    BY <1>2, <1>4, <1>5 DEF ClaimsServed, InProgress, Fire
<1>7. RunsHandled'
    BY <1>2, <1>4, <1>5 DEF RunsHandled, Handled
<1> QED BY <1>6, <1>7

\* A run is created and somebody remembers it.
LEMMA CreateLoss ==
    ASSUME ClaimsServed, RunsHandled, IndInv, NEW r, runs' = Append(runs, r), UNCHANGED claims,
           \A f : InProgress(f) => InProgress(f)' \/ r.cause = f,
           \A i \in RunIds : Handled(i) => Handled(i)',
           NEW n, n = Len(runs) + 1, Handled(n)'
    PROVE  ClaimsServed' /\ RunsHandled'
<1>1. runs \in Seq(Run) /\ Len(runs) \in Nat
    BY DEF IndInv, TypeOK
<1>2. /\ Len(runs') = Len(runs) + 1 /\ runs'[Len(runs) + 1] = r
      /\ \A i \in 1..Len(runs) : runs'[i] = runs[i]
    BY <1>1
<1>3. /\ \A i \in RunIds : i \in RunIds' /\ runs'[i] = runs[i]
      /\ Len(runs) + 1 \in RunIds'
      /\ \A i \in RunIds' : i \in RunIds \/ i = Len(runs) + 1
    BY <1>1, <1>2 DEF RunIds
<1>4. ClaimsServed'
    BY <1>2, <1>3 DEF ClaimsServed
<1>5. RunsHandled'
    BY <1>1, <1>3 DEF RunsHandled
<1> QED BY <1>4, <1>5

\* Without a crash or a database error no claim and no run is lost by a step.
LEMMA StepLoss ==
    ASSUME IndInv, IndInv', ClaimsServed, RunsHandled, [Next]_vars,
           ~Fails("crash"), ~Fails("database")
    PROVE  ClaimsServed' /\ RunsHandled'
<1>0. /\ pod \in [Pods -> Pod] /\ runs \in Seq(Run) /\ DOMAIN runs = RunIds
      /\ Len(runs) \in Nat
    BY DEF IndInv, TypeOK, RunIds
<1>1. ASSUME NEW p \in Pods, Tick(p) \/ EndTick(p) \/ Start(p) \/ OwnerRefused(p)
      PROVE  ClaimsServed' /\ RunsHandled'
  <2>1. /\ UNCHANGED <<runs, claims, command>> /\ pod[p].at \notin {"create", "attach"}
        /\ \A q \in Pods : q # p => pod'[q] = pod[q]
    BY <1>0, <1>1 DEF Tick, EndTick, Start, OwnerRefused, Skip
  <2> QED BY <2>1, QuietLoss
<1>2. ASSUME NEW p \in Pods, NEW w \in Workflows, ExamineCron(p, w) \/ ExamineInterval(p, w)
      PROVE  ClaimsServed' /\ RunsHandled'
  <2>1. /\ UNCHANGED <<runs, claims, command>> /\ pod[p].at \notin {"create", "attach"}
    BY <1>2 DEF ExamineCron, ExamineInterval
  <2>2. \A q \in Pods : q # p => pod'[q] = pod[q]
    BY <1>0, <1>2 DEF ExamineCron, ExamineInterval, Skip, Due
  <2> QED BY <2>1, <2>2, QuietLoss
<1>3. ASSUME NEW p \in Pods, claim_scheduled_workflow_fire(p)
      PROVE  ClaimsServed' /\ RunsHandled'
  <2>0. pod[p].at = "claim" /\ UNCHANGED <<runs, command>> /\ RunIds' = RunIds
    BY <1>3 DEF claim_scheduled_workflow_fire, RunIds
  <2>1. CASE Free(Fire(p))
    <3>1. claims' = Claimed(Fire(p)) /\ pod' = [pod EXCEPT ![p] = [pod[p] EXCEPT !.at = "create"]]
      BY <1>3, <2>1 DEF claim_scheduled_workflow_fire
    <3>2. DOMAIN claims' = DOMAIN claims \cup {Fire(p)}
      BY <2>1, <3>1 DEF Claimed
    <3>3. /\ pod'[p].at = "create" /\ pod'[p].workflow = pod[p].workflow
          /\ pod'[p].instant = pod[p].instant
          /\ \A q \in Pods : q # p => pod'[q] = pod[q]
      BY <1>0, <3>1 DEF Pod
    <3>4. ClaimsServed'
      BY <2>0, <3>2, <3>3 DEF ClaimsServed, InProgress, Fire
    <3>5. RunsHandled'
      BY <2>0, <3>3 DEF RunsHandled, Handled
    <3> QED BY <3>4, <3>5
  <2>2. CASE ~Free(Fire(p))
    <3>1. UNCHANGED claims /\ \A q \in Pods : q # p => pod'[q] = pod[q]
      BY <1>0, <1>3, <2>2 DEF claim_scheduled_workflow_fire, Skip
    <3> QED BY <2>0, <3>1, QuietLoss
  <2> QED BY <2>1, <2>2
<1>4. ASSUME NEW p \in Pods, create_workflow_run(p)
      PROVE  ClaimsServed' /\ RunsHandled'
  <2> DEFINE r == NewRun(Fire(p), p)
  <2>1. /\ pod[p].at = "create" /\ runs' = Append(runs, r) /\ UNCHANGED <<claims, command>>
        /\ pod' = [pod EXCEPT ![p] = [pod[p] EXCEPT !.at = "attach", !.run = Len(Append(runs, r))]]
    BY <1>4 DEF create_workflow_run
  <2>2. Len(Append(runs, r)) = Len(runs) + 1 /\ r.cause = Fire(p)
    BY <1>0 DEF NewRun
  <2>3. /\ pod'[p].at = "attach" /\ pod'[p].run = Len(runs) + 1
        /\ \A q \in Pods : q # p => pod'[q] = pod[q]
    BY <1>0, <2>1, <2>2 DEF Pod
  <2>4. \A f : InProgress(f) => InProgress(f)' \/ r.cause = f
    BY <2>2, <2>3 DEF InProgress, Fire
  <2>5. \A i \in RunIds : Handled(i) => Handled(i)'
    <3>1. \A i \in RunIds : runs'[i] = runs[i]
      BY <1>0, <2>1 DEF RunIds
    <3> QED BY <2>1, <2>3, <3>1 DEF Handled
  <2>7. PICK n \in Nat : n = Len(runs) + 1
    BY <1>0
  <2>6. Handled(n)'
    BY <2>3, <2>7 DEF Handled
  <2> HIDE DEF r
  <2> QED BY <2>1, <2>4, <2>5, <2>6, <2>7, CreateLoss
<1>5. ASSUME NEW p \in Pods, attach_scheduled_workflow_run(p)
      PROVE  ClaimsServed' /\ RunsHandled'
  <2> DEFINE n == pod[p].run
  <2>1. /\ pod[p].at = "attach" /\ UNCHANGED command /\ n \in RunIds
        /\ runs' = [runs EXCEPT ![n] = [runs[n] EXCEPT !.task = "spawned"]]
        /\ DOMAIN claims' = DOMAIN claims
        /\ \A q \in Pods : q # p => pod'[q] = pod[q]
    BY <1>0, <1>5 DEF attach_scheduled_workflow_run, Skip, IndInv, PodsOK
  <2>2. /\ Len(runs') = Len(runs) /\ runs[n] \in Run
        /\ runs'[n] = [runs[n] EXCEPT !.task = "spawned"]
        /\ \A j \in RunIds : j # n => runs'[j] = runs[j]
    BY <1>0, <2>1 DEF RunIds
  <2>3. runs'[n].task = "spawned" /\ runs'[n].cause = runs[n].cause
    BY <2>2 DEF Run
  <2>4. RunIds' = RunIds
    BY <2>2 DEF RunIds
  <2>5. ClaimsServed'
    BY <2>1, <2>2, <2>3, <2>4 DEF ClaimsServed, InProgress, Fire
  <2>6. RunsHandled'
    BY <2>1, <2>2, <2>3, <2>4 DEF RunsHandled, Handled
  <2> QED BY <2>5, <2>6
<1>6. ASSUME NEW i \in DOMAIN runs, StartRun(i) \/ finalize_run(i)
      PROVE  ClaimsServed' /\ RunsHandled'
  <2>1. /\ UNCHANGED <<claims, pod, command>>
        /\ \E s, k : /\ SetRun(i, s, k)
                     /\ s \in {"completed", "failed"} \/ k \notin {"none", "done"}
    BY <1>6 DEF StartRun, finalize_run
  <2> QED BY <1>0, <2>1, RunLoss
<1>7. ASSUME NEW i \in DOMAIN runs, NEW o \in {"completed", "failed"}, EndSteps(i, o)
      PROVE  ClaimsServed' /\ RunsHandled'
  <2>1. UNCHANGED <<claims, pod, command>> /\ SetRun(i, runs[i].status, o) /\ o \notin {"none", "done"}
    BY <1>7 DEF EndSteps
  <2> QED BY <1>0, <2>1, RunLoss
<1>8. ASSUME NEW p \in Pods, NEW t \in Triggers, PersistCommand(p, t)
      PROVE  ClaimsServed' /\ RunsHandled'
  <2>1. UNCHANGED <<runs, claims, pod>> /\ command[t].at = "none"
        /\ \A u \in Triggers : u # t => command'[u] = command[u]
    BY <1>8 DEF PersistCommand, IndInv, TypeOK
  <2> QED BY <2>1, QuietLoss
<1>9. ASSUME NEW t \in Triggers, CreateTriggered(t)
      PROVE  ClaimsServed' /\ RunsHandled'
  <2> DEFINE r == TriggeredRun(t)
  <2>1. /\ command[t].at = "persisted" /\ runs' = Append(runs, r) /\ UNCHANGED <<claims, pod>>
        /\ command' = [command EXCEPT ![t] = [command[t] EXCEPT !.at = "created",
                                                !.run = Len(Append(runs, r))]]
    BY <1>9 DEF CreateTriggered
  <2>2. Len(Append(runs, r)) = Len(runs) + 1
    BY <1>0
  <2> HIDE DEF r
  <2>3. /\ command'[t].at = "created" /\ command'[t].run = Len(runs) + 1
        /\ \A u \in Triggers : u # t => command'[u] = command[u]
    BY <2>1, <2>2 DEF IndInv, TypeOK
  <2>4. \A f : InProgress(f) => InProgress(f)' \/ r.cause = f
    BY <2>1 DEF InProgress, Fire
  <2>5. \A i \in RunIds : Handled(i) => Handled(i)'
    <3>1. \A i \in RunIds : runs'[i] = runs[i]
      BY <1>0, <2>1 DEF RunIds
    <3> QED BY <2>1, <2>3, <3>1 DEF Handled
  <2>7. PICK n \in Nat : n = Len(runs) + 1
    BY <1>0
  <2>6. Handled(n)'
    BY <2>3, <2>7 DEF Handled
  <2> QED BY <2>1, <2>4, <2>5, <2>6, <2>7, CreateLoss
<1>10. ASSUME NEW t \in Triggers, CommitCommand(t)
       PROVE  ClaimsServed' /\ RunsHandled'
  <2> DEFINE n == command[t].run
  <2>1. /\ command[t].at = "created" /\ UNCHANGED <<claims, pod>> /\ n \in RunIds
        /\ runs' = [runs EXCEPT ![n] = [runs[n] EXCEPT !.task = "spawned"]]
        /\ \A u \in Triggers : u # t => command'[u] = command[u]
    BY <1>10 DEF CommitCommand, IndInv, TypeOK, CommandsOK
  <2>2. /\ Len(runs') = Len(runs) /\ runs[n] \in Run
        /\ runs'[n] = [runs[n] EXCEPT !.task = "spawned"]
        /\ \A j \in RunIds : j # n => runs'[j] = runs[j]
    BY <1>0, <2>1 DEF RunIds
  <2>3. runs'[n].task = "spawned" /\ runs'[n].cause = runs[n].cause
    BY <2>2 DEF Run
  <2>4. RunIds' = RunIds
    BY <2>2 DEF RunIds
  <2>5. ClaimsServed'
    BY <2>1, <2>2, <2>3, <2>4 DEF ClaimsServed, InProgress, Fire
  <2>6. RunsHandled'
    BY <2>1, <2>2, <2>3, <2>4 DEF RunsHandled, Handled
  <2> QED BY <2>5, <2>6
<1>11. ASSUME Advance \/ (\E w \in Workflows : SetEnabled(w)) \/ UNCHANGED vars
       PROVE  ClaimsServed' /\ RunsHandled'
  <2>1. UNCHANGED <<runs, claims, pod, command>>
    BY <1>11 DEF Advance, SetEnabled, vars
  <2> QED BY <2>1, QuietLoss
<1>12. \A p \in Pods : ~Crash(p) /\ ~ClaimFails(p)
    BY DEF Crash, ClaimFails
<1> QED BY <1>1, <1>2, <1>3, <1>4, <1>5, <1>6, <1>7, <1>8, <1>9, <1>10, <1>11, <1>12
        DEF Next, Loop

\* The failures a step adds are the ones it has.
LEMMA HitsAreFailures ==
    ASSUME EnvOK, [Next]_vars
    PROVE  env.hit \subseteq env'.hit /\ (\A f : Fails(f) => f \in env'.hit)
<1>1. ASSUME NEW p \in Pods, Loop(p) \/ Crash(p) \/ Start(p)
      PROVE  UNCHANGED env \/ \E f : Fails(f)
  <2>1. ASSUME NEW w \in Workflows, ExamineCron(p, w) \/ ExamineInterval(p, w)
        PROVE  UNCHANGED env \/ \E f : Fails(f)
    BY <2>1 DEF ExamineCron, ExamineInterval
  <2>2. ASSUME Tick(p) \/ OwnerRefused(p) \/ claim_scheduled_workflow_fire(p) \/ ClaimFails(p)
        PROVE  UNCHANGED env \/ \E f : Fails(f)
    BY <2>2 DEF Tick, OwnerRefused, claim_scheduled_workflow_fire, ClaimFails
  <2>3. ASSUME \/ create_workflow_run(p) \/ attach_scheduled_workflow_run(p) \/ EndTick(p)
               \/ Crash(p) \/ Start(p)
        PROVE  UNCHANGED env \/ \E f : Fails(f)
    BY <2>3 DEF create_workflow_run, attach_scheduled_workflow_run, EndTick, Crash, Start
  <2> QED BY <1>1, <2>1, <2>2, <2>3 DEF Loop
<1>2. ASSUME NEW i, StartRun(i) \/ finalize_run(i) \/ \E o : EndSteps(i, o)
      PROVE  UNCHANGED env \/ \E f : Fails(f)
    BY <1>2 DEF StartRun, finalize_run, EndSteps
<1>3. ASSUME NEW t \in Triggers, CreateTriggered(t) \/ CommitCommand(t) \/ \E p : PersistCommand(p, t)
      PROVE  UNCHANGED env \/ \E f : Fails(f)
    BY <1>3 DEF PersistCommand, CreateTriggered, CommitCommand
<1>4. ASSUME (\E w : SetEnabled(w)) \/ Advance \/ UNCHANGED vars
      PROVE  UNCHANGED env \/ \E f : Fails(f)
    BY <1>4 DEF SetEnabled, Advance, vars
<1>5. UNCHANGED env \/ \E f : Fails(f)
    BY <1>1, <1>2, <1>3, <1>4 DEF Next
<1> QED BY <1>5, FailsKeeps

\* Without a crash or a database error no claimed instant and no run is lost:
\* every claim gets its run, and every run is executed or fails for the record,
\* whatever owners lose their authority, workflows are disabled or permits
\* are taken.
THEOREM NothingIsLost == Spec => []NothingLostSilently
<1>1. NothingLostSilently <=>
          (env.hit \cap {"crash", "database"} = {} => ClaimsServed /\ RunsHandled)
    BY DEF NothingLostSilently, ClaimsServed, RunsHandled
<1>2. Init => NothingLostSilently
    BY DEF Init, NothingLostSilently, RunIds
<1>3. IndInv /\ PaceInv /\ NothingLostSilently /\ [Next]_vars /\ IndInv' => NothingLostSilently'
  <2> SUFFICES ASSUME IndInv, PaceInv, NothingLostSilently, [Next]_vars, IndInv',
                      env'.hit \cap {"crash", "database"} = {}
               PROVE  ClaimsServed' /\ RunsHandled'
    BY DEF NothingLostSilently, ClaimsServed, RunsHandled
  <2>1. env.hit \subseteq env'.hit /\ (\A f : Fails(f) => f \in env'.hit)
    BY HitsAreFailures DEF PaceInv
  <2>2. ~Fails("crash") /\ ~Fails("database") /\ env.hit \cap {"crash", "database"} = {}
    BY <2>1
  <2>3. ClaimsServed /\ RunsHandled
    BY <1>1, <2>2
  <2> QED BY <2>2, <2>3, StepLoss
<1> QED BY <1>2, <1>3, AlwaysPace, PTL DEF Spec

=============================================================================
