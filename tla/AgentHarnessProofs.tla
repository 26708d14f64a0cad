------------------------ MODULE AgentHarnessProofs ------------------------
(***************************************************************************)
(* The safety properties of AgentHarness for any channels, any number of   *)
(* events, slots, failures and commands, and all limits of the queue.      *)
(*                                                                         *)
(* The operators of the queue are described once by what they do to the    *)
(* sets of events in its tables; the invariant is then about sets: every   *)
(* event is in one table, in one turn, or let go of.                       *)
(***************************************************************************)
EXTENDS AgentHarness, FiniteSetTheorems, WellFoundedInduction, TLAPS

-----------------------------------------------------------------------------
(* Types *)

QueueState ==
    [queues : [Channels -> Seq(Events)], cancelled : [Channels -> Seq(Events)],
     withheld : [Channels -> Seq(Events)], inFlight : SUBSET Channels,
     overdue : SUBSET Channels, retryAfter : [Channels -> {"none", "pending", "elapsed"}],
     retryCount : [Channels -> 0..MaxRetries], shed : SUBSET Events,
     lost : SUBSET Events, returned : SUBSET Events]

Signals == {"none", "cancel", "rotate", "switch", "steer", "interrupt"}

Outcomes == {"ok", "error", "auth", "fatal", "hard", "cancelled", "drain"}

TaskState ==
    [ch : Channels \cup {Heartbeat}, events : Seq(Events), cancelled : Seq(Events),
     phase : Running \cup {"none", "done", "panicked"}, ctl : Signals,
     rx : {"open", "closed"}, box : Events \cup {NoEvent}, sent : Events \cup {NoEvent},
     outcome : Outcomes \cup {"none"},
     back : {"no", "yes"}]

Circuit == [crashes : 0..CrashThreshold, open : {"closed", "open", "cooled"}]

Ack == [e : Events, kind : {"success", "release", "fallback"}]

-----------------------------------------------------------------------------
(* The inductive invariant *)

\* No event twice in a sequence.
Once(s) == \A i, j \in DOMAIN s : s[i] = s[j] => i = j

\* The events of c delivered before n.
Past(c, n) == {e \in 1..(n - 1) : ChannelOf[e] = c}

Waiting(u, c) == Elems(u.queues[c]) \cup Elems(u.cancelled[c]) \cup Elems(u.withheld[c])
Held(u) == {e \in Events : e \in Waiting(u, ChannelOf[e])}
Withheld(u) == {e \in Events : e \in Elems(u.withheld[ChannelOf[e]])}
Batch(b) == Elems(b.events) \cup Elems(b.cancelled)

\* The tables of a channel in a queue: each of its events in one of them, once.
ChannelOK(u, c, n) ==
    /\ Waiting(u, c) \subseteq Past(c, n) \ u.shed
    /\ Once(u.queues[c]) /\ Once(u.cancelled[c]) /\ Once(u.withheld[c])
    /\ Elems(u.queues[c]) \cap Elems(u.cancelled[c]) = {}
    /\ Elems(u.queues[c]) \cap Elems(u.withheld[c]) = {}
    /\ Elems(u.cancelled[c]) \cap Elems(u.withheld[c]) = {}
    /\ Len(u.queues[c]) <= MaxPending

QueueOK(u, n) ==
    /\ u \in QueueState
    /\ u.overdue \subseteq u.inFlight
    /\ u.shed \subseteq 1..(n - 1)
    /\ \A c \in Channels : ChannelOK(u, c, n)

\* A batch of c: what a turn runs, and what its result brings back.
BatchOK(b, c, n) ==
    /\ Batch(b) \subseteq Past(c, n)
    /\ Once(b.events) /\ Once(b.cancelled)
    /\ Elems(b.events) \cap Elems(b.cancelled) = {}

Types ==
    /\ config \in Configs
    /\ pc \in {"select", "joins", "dispatch", "exiting", "exited"}
    /\ next \in 1..(NumEvents + 1)
    /\ idle \subseteq Slots /\ respawning \subseteq Slots
    /\ tasks \in [Slots -> TaskState]
    /\ \A s \in Slots : TaskOn(s) \/ tasks[s] = NoTask
    /\ \A s \in Slots : tasks[s].ch # Heartbeat => tasks[s].events # <<>>
    /\ \A s \in Slots : tasks[s].ch = Heartbeat =>
         tasks[s].events = <<>> /\ tasks[s].cancelled = <<>> /\ tasks[s].rx = "closed"
    /\ respawned \in [Slots -> {"none", "ok", "failed"}]
    /\ sessions \in [Slots -> SUBSET Channels]
    /\ circuit \in [Slots -> Circuit]
    /\ \A s \in Slots : circuit[s].open = "closed" => circuit[s].crashes < CrashThreshold
    /\ removed \subseteq Channels
    /\ life \in {"listening", "waking", "failed", "due", "ready"}
    /\ faults \in 0..config.maxFaults /\ commands \in 0..config.maxCommands

\* An event is waiting, in one turn, or let go of.
Homes ==
    /\ QueueOK(q, next)
    /\ \A s \in Slots : BatchOK(tasks[s], tasks[s].ch, next)
    /\ \A s \in Slots : Batch(tasks[s]) \cap (Held(q) \cup q.shed) = {}
    /\ \A r, s \in Slots : r # s => Batch(tasks[r]) \cap Batch(tasks[s]) = {}
    /\ pc # "exited" => \A e \in 1..(next - 1) :
         \/ e \in q.shed \cup Held(q)
         \/ \E s \in Slots : e \in Batch(tasks[s])

\* A request to steer is in one place, and is answered once.
Requests ==
    /\ acks \subseteq Ack
    /\ \A a \in acks : a.e < next
    /\ steered \subseteq 1..(next - 1)
    /\ \A a, b \in acks : a.e = b.e => a = b
    /\ \A a \in acks : a.e \in steered <=> a.kind = "success"
    /\ \A s \in Slots : \A e \in {tasks[s].box, tasks[s].sent} \ {NoEvent} :
         /\ e < next /\ e \notin steered
         /\ \A a \in acks : a.e # e
         /\ \A r \in Slots \ {s} : e \notin {tasks[r].box, tasks[r].sent}
    /\ \A s \in Slots : tasks[s].box = tasks[s].sent => tasks[s].box = NoEvent

\* The requests a task holds.
Asked(t) == {t.box, t.sent} \ {NoEvent}

\* Events out of the way of every flush.
Parked(u) == Withheld(u) \cup u.shed

\* An event that was sent as a steer stays out of the way until its answer is
\* read, unless the deadline of its channel expires: it is then put back, and
\* the channel counts as late until all its answers are read.
OnTime ==
    /\ late \subseteq Channels /\ q.overdue \subseteq late
    /\ \A s \in Slots : \A e \in Asked(tasks[s]) :
         /\ ChannelOf[e] = tasks[s].ch
         /\ e \in Parked(q) \cup q.returned
         /\ e \in Parked(q) \/ ChannelOf[e] \in late
    /\ steered \subseteq Parked(q) \cup q.returned
    /\ \A a \in acks : a.kind = "success" => a.e \in Parked(q) \/ ChannelOf[a.e] \in late

\* Before it wakes, a pool has no agent, no turn and no respawn, and the queue
\* holds only events that no turn has seen.
Asleep ==
    life # "ready" =>
      /\ idle = {} /\ respawning = {}
      /\ \A s \in Slots : ~TaskOn(s)

Unseen ==
    life # "ready" => \A c \in Channels : q.cancelled[c] = <<>> /\ q.withheld[c] = <<>>

\* A throttled channel has work that waits for it, unless its turns overlapped.
Throttled ==
    \A c \in Channels \ late :
      /\ c \in q.inFlight => q.cancelled[c] = <<>> /\ q.retryAfter[c] # "pending"
      /\ q.retryAfter[c] = "pending" =>
           life = "ready" /\ q.queues[c] # <<>> /\ q.cancelled[c] = <<>>

\* The pool's part of the invariant, and the queue's.
PoolInv == Types /\ SlotExclusive /\ SessionsStripped /\ Asleep

HarnessInv ==
    /\ PoolInv /\ Homes /\ Requests
    /\ Unseen /\ OnTime /\ Throttled /\ TurnsMatchMarks

-----------------------------------------------------------------------------
(* Sequences of events *)

\* The members of a sequence are its values.
LEMMA ElemsIn ==
    ASSUME NEW s \in Seq(Events)
    PROVE  /\ Elems(s) \subseteq Events
           /\ \A i \in DOMAIN s : s[i] \in Elems(s)
           /\ s = <<>> <=> Elems(s) = {}
<1>1. Elems(s) \subseteq Events /\ \A i \in DOMAIN s : s[i] \in Elems(s)
  BY DEF Elems
<1>2. ASSUME s = <<>> PROVE Elems(s) = {}
  BY <1>2 DEF Elems
<1>3. ASSUME s # <<>> PROVE Elems(s) # {}
  <2>1. 1 \in DOMAIN s BY <1>3
  <2> QED BY <2>1, <1>1
<1> QED BY <1>1, <1>2, <1>3

\* The empty sequence.
LEMMA ElemsOfNone == Elems(<<>>) = {} /\ Once(<<>>)
BY DEF Elems, Once

\* Events in front of others.
LEMMA ElemsOfConcat ==
    ASSUME NEW s \in Seq(Events), NEW t \in Seq(Events)
    PROVE  /\ s \o t \in Seq(Events)
           /\ Elems(s \o t) = Elems(s) \cup Elems(t)
           /\ Once(s) /\ Once(t) /\ Elems(s) \cap Elems(t) = {} => Once(s \o t)
<1>1. s \o t \in Seq(Events) /\ Len(s \o t) = Len(s) + Len(t)
  OBVIOUS
<1>2. \A i \in 1..Len(s) : (s \o t)[i] = s[i]
  OBVIOUS
<1>3. \A i \in 1..Len(t) : (s \o t)[Len(s) + i] = t[i]
  OBVIOUS
<1>4. \A i \in 1..(Len(s) + Len(t)) :
        \/ i \in 1..Len(s) /\ (s \o t)[i] = s[i]
        \/ i - Len(s) \in 1..Len(t) /\ (s \o t)[i] = t[i - Len(s)]
  <2> SUFFICES ASSUME NEW i \in 1..(Len(s) + Len(t)), i \notin 1..Len(s)
               PROVE  i - Len(s) \in 1..Len(t) /\ (s \o t)[i] = t[i - Len(s)]
    BY <1>2
  <2>1. i - Len(s) \in 1..Len(t) /\ Len(s) + (i - Len(s)) = i
    OBVIOUS
  <2> QED BY <2>1, <1>3
<1>5. Elems(s \o t) = Elems(s) \cup Elems(t)
  <2>1. Elems(s \o t) \subseteq Elems(s) \cup Elems(t)
    BY <1>1, <1>4 DEF Elems
  <2>2. Elems(s) \subseteq Elems(s \o t)
    BY <1>1, <1>2 DEF Elems
  <2>3. ASSUME NEW i \in 1..Len(t) PROVE t[i] \in Elems(s \o t)
    <3>1. Len(s) + i \in DOMAIN (s \o t) BY <1>1
    <3> QED BY <3>1, <1>3 DEF Elems
  <2> QED BY <2>1, <2>2, <2>3 DEF Elems
<1>6. ASSUME Once(s), Once(t), Elems(s) \cap Elems(t) = {} PROVE Once(s \o t)
  <2> SUFFICES ASSUME NEW i \in 1..(Len(s) + Len(t)), NEW j \in 1..(Len(s) + Len(t)),
                      (s \o t)[i] = (s \o t)[j]
               PROVE  i = j
    BY <1>1 DEF Once
  <2>1. \A k \in 1..Len(s), l \in 1..Len(t) : s[k] # t[l]
    <3>1. \A k \in 1..Len(s) : s[k] \in Elems(s)
      BY ElemsIn
    <3>2. \A l \in 1..Len(t) : t[l] \in Elems(t)
      BY ElemsIn
    <3> QED BY <3>1, <3>2, <1>6
  <2>2. CASE i \in 1..Len(s) /\ j \in 1..Len(s)
    BY <2>2, <1>2, <1>6 DEF Once
  <2>3. CASE i - Len(s) \in 1..Len(t) /\ j - Len(s) \in 1..Len(t)
    <3>1. (s \o t)[i] = t[i - Len(s)] /\ (s \o t)[j] = t[j - Len(s)]
      BY <2>3, <1>4
    <3>2. DOMAIN t = 1..Len(t) OBVIOUS
    <3>3. t[i - Len(s)] = t[j - Len(s)] BY <3>1
    <3>4. i - Len(s) = j - Len(s) BY <3>2, <3>3, <2>3, <1>6 DEF Once
    <3> QED BY <3>4
  <2> QED BY <2>1, <2>2, <2>3, <1>4
<1> QED BY <1>1, <1>5, <1>6

\* The first n events and the rest.
LEMMA ElemsOfCut ==
    ASSUME NEW s \in Seq(Events), NEW n \in 0..Len(s)
    PROVE  /\ SubSeq(s, 1, n) \in Seq(Events) /\ SubSeq(s, n + 1, Len(s)) \in Seq(Events)
           /\ Len(SubSeq(s, 1, n)) = n
           /\ Len(SubSeq(s, n + 1, Len(s))) = Len(s) - n
           /\ Elems(s) = Elems(SubSeq(s, 1, n)) \cup Elems(SubSeq(s, n + 1, Len(s)))
           /\ Once(s) => /\ Once(SubSeq(s, 1, n)) /\ Once(SubSeq(s, n + 1, Len(s)))
                         /\ Elems(SubSeq(s, 1, n)) \cap Elems(SubSeq(s, n + 1, Len(s))) = {}
<1> DEFINE a == SubSeq(s, 1, n)
           b == SubSeq(s, n + 1, Len(s))
<1>1. a \in Seq(Events) /\ Len(a) = n /\ \A i \in 1..n : a[i] = s[i]
  OBVIOUS
<1>2. b \in Seq(Events) /\ Len(b) = Len(s) - n /\ \A i \in 1..(Len(s) - n) : b[i] = s[n + i]
  OBVIOUS
<1> HIDE DEF a, b
<1>3. \A k \in 1..Len(s) : \/ k \in 1..n /\ s[k] = a[k]
                           \/ k - n \in 1..(Len(s) - n) /\ s[k] = b[k - n]
  <2> SUFFICES ASSUME NEW k \in 1..Len(s), k \notin 1..n
               PROVE  k - n \in 1..(Len(s) - n) /\ s[k] = b[k - n]
    BY <1>1
  <2>1. k - n \in 1..(Len(s) - n) /\ n + (k - n) = k OBVIOUS
  <2> QED BY <2>1, <1>2
<1>4. Elems(s) = Elems(a) \cup Elems(b)
  <2>1. Elems(s) \subseteq Elems(a) \cup Elems(b)
    <3>1. DOMAIN s = 1..Len(s) /\ DOMAIN a = 1..n /\ DOMAIN b = 1..(Len(s) - n)
      BY <1>1, <1>2
    <3> QED BY <3>1, <1>3 DEF Elems
  <2>2. Elems(a) \subseteq Elems(s)
    BY <1>1 DEF Elems
  <2>3. Elems(b) \subseteq Elems(s)
    <3> SUFFICES ASSUME NEW i \in 1..(Len(s) - n) PROVE b[i] \in Elems(s)
      BY <1>2 DEF Elems
    <3>1. n + i \in DOMAIN s OBVIOUS
    <3>2. b[i] = s[n + i] BY <1>2
    <3> QED BY <3>1, <3>2, ElemsIn
  <2> QED BY <2>1, <2>2, <2>3
<1>5. ASSUME Once(s) PROVE Once(a) /\ Once(b) /\ Elems(a) \cap Elems(b) = {}
  <2>1. Once(a)
    BY <1>5, <1>1 DEF Once
  <2>2. \A i \in 1..(Len(s) - n) : n + i \in 1..Len(s)
    OBVIOUS
  <2>3. Once(b)
    <3> SUFFICES ASSUME NEW i \in 1..(Len(s) - n), NEW j \in 1..(Len(s) - n), b[i] = b[j]
                 PROVE  i = j
      BY <1>2 DEF Once
    <3>1. s[n + i] = s[n + j] BY <1>2
    <3>2. n + i = n + j BY <3>1, <2>2, <1>5 DEF Once
    <3> QED BY <3>2
  <2>4. ASSUME NEW i \in 1..n, NEW j \in 1..(Len(s) - n), a[i] = b[j] PROVE FALSE
    <3>1. s[i] = s[n + j] BY <2>4, <1>1, <1>2
    <3>2. i = n + j BY <3>1, <2>2, <1>5 DEF Once
    <3> QED BY <3>2
  <2>5. Elems(a) \cap Elems(b) = {}
    BY <2>4, <1>1, <1>2 DEF Elems
  <2> QED BY <2>1, <2>3, <2>5
<1> QED BY <1>1, <1>2, <1>4, <1>5 DEF a, b

\* An event behind others.
LEMMA ElemsOfAppend ==
    ASSUME NEW s \in Seq(Events), NEW e \in Events
    PROVE  /\ Append(s, e) \in Seq(Events) /\ Len(Append(s, e)) = Len(s) + 1
           /\ Elems(Append(s, e)) = Elems(s) \cup {e}
           /\ Once(s) /\ e \notin Elems(s) => Once(Append(s, e))
<1>1. /\ Append(s, e) \in Seq(Events) /\ Len(Append(s, e)) = Len(s) + 1
      /\ \A i \in 1..Len(s) : Append(s, e)[i] = s[i]
      /\ Append(s, e)[Len(s) + 1] = e
  OBVIOUS
<1> DEFINE t == Append(s, e)
<1> HIDE DEF t
<1>2. DOMAIN t = 1..(Len(s) + 1) /\ DOMAIN s = 1..Len(s)
  BY <1>1 DEF t
<1>3. Elems(t) = Elems(s) \cup {e}
  BY <1>1, <1>2 DEF t, Elems
<1>4. ASSUME Once(s), e \notin Elems(s) PROVE Once(t)
  <2>1. \A i \in 1..Len(s) : s[i] # e BY <1>4, <1>2 DEF Elems
  <2> QED BY <2>1, <1>1, <1>2, <1>4 DEF t, Once
<1> QED BY <1>1, <1>3, <1>4 DEF t

\* The first event taken away.
LEMMA ElemsOfTail ==
    ASSUME NEW s \in Seq(Events), s # <<>>
    PROVE  /\ Tail(s) \in Seq(Events) /\ Len(Tail(s)) = Len(s) - 1
           /\ Head(s) \in Elems(s)
           /\ Elems(s) = Elems(Tail(s)) \cup {Head(s)}
           /\ Once(s) => Once(Tail(s)) /\ Head(s) \notin Elems(Tail(s))
<1> DEFINE t == Tail(s)
<1>1. /\ t \in Seq(Events) /\ Len(t) = Len(s) - 1 /\ Len(s) \in Nat \ {0}
      /\ \A i \in 1..(Len(s) - 1) : t[i] = s[i + 1]
      /\ Head(s) = s[1]
  OBVIOUS
<1> HIDE DEF t
<1>2. DOMAIN t = 1..(Len(s) - 1) /\ DOMAIN s = 1..Len(s)
  BY <1>1
<1>3. Elems(t) \subseteq Elems(s) /\ Head(s) \in Elems(s)
  <2>1. 1 \in DOMAIN s /\ \A i \in 1..(Len(s) - 1) : i + 1 \in DOMAIN s BY <1>1, <1>2
  <2>2. Head(s) \in Elems(s) BY <1>1, <2>1, ElemsIn
  <2>3. \A i \in DOMAIN t : t[i] \in Elems(s) BY <1>1, <1>2, <2>1, ElemsIn
  <2> QED BY <2>2, <2>3 DEF Elems
<1>4. ASSUME NEW k \in 1..Len(s) PROVE s[k] \in Elems(t) \cup {Head(s)}
  <2>1. CASE k = 1 BY <2>1, <1>1
  <2>2. CASE k # 1
    <3>1. k - 1 \in 1..(Len(s) - 1) /\ (k - 1) + 1 = k BY <2>2, <1>1
    <3>2. s[k] = t[k - 1] /\ k - 1 \in DOMAIN t BY <3>1, <1>1, <1>2
    <3> QED BY <3>2 DEF Elems
  <2> QED BY <2>1, <2>2
<1>5. ASSUME Once(s) PROVE Once(t) /\ Head(s) \notin Elems(t)
  <2>1. \A i \in 1..(Len(s) - 1) : i + 1 \in 1..Len(s) /\ i + 1 # 1
    BY <1>1
  <2>2. \A i, j \in 1..Len(s) : s[i] = s[j] => i = j
    BY <1>5, <1>2 DEF Once
  <2>3. Head(s) \notin Elems(t)
    <3>1. \A i \in 1..(Len(s) - 1) : t[i] # s[1]
      BY <2>1, <2>2, <1>1
    <3> QED BY <3>1, <1>1, <1>2 DEF Elems
  <2>4. ASSUME NEW i \in 1..(Len(s) - 1), NEW j \in 1..(Len(s) - 1), t[i] = t[j] PROVE i = j
    <3>1. s[i + 1] = s[j + 1] BY <2>4, <1>1
    <3>2. i + 1 = j + 1 BY <3>1, <2>1, <2>2
    <3> QED BY <3>2
  <2>5. Once(t) BY <2>4, <1>2 DEF Once
  <2> QED BY <2>3, <2>5
<1>6. Elems(s) = Elems(t) \cup {Head(s)}
  BY <1>3, <1>4, <1>2 DEF Elems
<1> QED BY <1>1, <1>3, <1>5, <1>6 DEF t

\* remove at the position of an event, retain of the others.
LEMMA ElemsOfWithout ==
    ASSUME NEW s \in Seq(Events), NEW e, Once(s)
    PROVE  /\ Without(s, e) \in Seq(Events) /\ Len(Without(s, e)) <= Len(s)
           /\ Elems(Without(s, e)) = Elems(s) \ {e}
           /\ Once(Without(s, e))
<1>1. CASE e \notin Elems(s)
  BY <1>1 DEF Without
<1>2. CASE e \in Elems(s)
  <2> DEFINE i == CHOOSE i \in DOMAIN s : s[i] = e
             a == SubSeq(s, 1, i - 1)
             b == SubSeq(s, i + 1, Len(s))
             f == SubSeq(s, 1, i)
  <2>1. i \in 1..Len(s) /\ s[i] = e
    BY <1>2 DEF Elems
  <2>2. Without(s, e) = a \o b
    BY <1>2 DEF Without
  <2> HIDE DEF i
  <2>3. i - 1 \in 0..Len(s) /\ i \in 0..Len(s) /\ (i - 1) + 1 = i
    BY <2>1
  <2>4. a \in Seq(Events) /\ Len(a) = i - 1 /\ Once(a)
    BY <2>3, ElemsOfCut
  <2>5. /\ b \in Seq(Events) /\ Len(b) = Len(s) - i /\ Once(b)
        /\ f \in Seq(Events) /\ Len(f) = i /\ Once(f)
        /\ Elems(s) = Elems(f) \cup Elems(b) /\ Elems(f) \cap Elems(b) = {}
    BY <2>3, ElemsOfCut
  <2>6. (\A k \in 1..(i - 1) : a[k] = s[k]) /\ (\A k \in 1..i : f[k] = s[k])
    BY <2>1
  <2> HIDE DEF a, b, f
  <2>7. DOMAIN a = 1..(i - 1) /\ DOMAIN f = 1..i
    BY <2>4, <2>5
  <2>8. Elems(f) = Elems(a) \cup {e}
    BY <2>6, <2>7, <2>1 DEF Elems
  <2>9. e \notin Elems(a)
    BY <2>6, <2>7, <2>1 DEF Elems, Once
  <2>10. /\ a \o b \in Seq(Events) /\ Elems(a \o b) = Elems(a) \cup Elems(b) /\ Once(a \o b)
    BY <2>4, <2>5, <2>8, ElemsOfConcat
  <2>11. Len(a \o b) = Len(a) + Len(b)
    <3>1. a \in Seq(Events) /\ b \in Seq(Events) BY <2>4, <2>5
    <3> QED BY <3>1
  <2>12. Len(a \o b) <= Len(s)
    BY <2>11, <2>4, <2>5, <2>1
  <2> QED BY <2>2, <2>5, <2>8, <2>9, <2>10, <2>12
<1> QED BY <1>1, <1>2

\* The cap of a queue: what it keeps and what is popped.
LEMMA ElemsUnderCap ==
    ASSUME NEW s \in Seq(Events)
    PROVE  /\ Kept(s) \in Seq(Events) /\ Len(Kept(s)) <= MaxPending
           /\ Elems(s) = Elems(Kept(s)) \cup Popped(s)
           /\ s # <<>> => Kept(s) # <<>>
           /\ Once(s) => Once(Kept(s)) /\ Elems(Kept(s)) \cap Popped(s) = {}
           /\ Len(s) <= MaxPending => Kept(s) = s /\ Popped(s) = {}
<1>1. MaxPending \in Nat /\ MaxPending # 0 /\ Len(s) \in Nat
  BY HarnessAssumption
<1>2. CASE Len(s) <= MaxPending
  <2>1. Smaller(Len(s), MaxPending) = Len(s)
    BY <1>1, <1>2 DEF Smaller
  <2>2. Kept(s) = s
    BY <2>1 DEF Kept
  <2>3. SubSeq(s, MaxPending + 1, Len(s)) = <<>>
    BY <1>1, <1>2
  <2>4. Popped(s) = {}
    BY <2>3, ElemsOfNone DEF Popped
  <2> QED BY <2>2, <2>4, <1>2
<1>3. CASE ~(Len(s) <= MaxPending)
  <2>1. Smaller(Len(s), MaxPending) = MaxPending /\ MaxPending \in 0..Len(s)
    BY <1>1, <1>3 DEF Smaller
  <2>2. Kept(s) = SubSeq(s, 1, MaxPending)
    BY <2>1 DEF Kept
  <2>3. Popped(s) = Elems(SubSeq(s, MaxPending + 1, Len(s)))
    BY DEF Popped
  <2>4. Len(SubSeq(s, 1, MaxPending)) = MaxPending /\ SubSeq(s, 1, MaxPending) \in Seq(Events)
    BY <2>1, ElemsOfCut
  <2>5. SubSeq(s, 1, MaxPending) # <<>>
    BY <2>4, <1>1
  <2>6. /\ Elems(s) = Elems(Kept(s)) \cup Popped(s)
        /\ Once(s) => Once(Kept(s)) /\ Elems(Kept(s)) \cap Popped(s) = {}
    BY <2>1, <2>2, <2>3, ElemsOfCut
  <2>7. Kept(s) \in Seq(Events) /\ Len(Kept(s)) = MaxPending /\ Kept(s) # <<>>
    BY <2>2, <2>4, <2>5
  <2> QED BY <2>6, <2>7, <1>1, <1>3
<1> QED BY <1>2, <1>3

-----------------------------------------------------------------------------
(* The stable sort of a batch *)

\* A set of naturals has a smallest member.
LEMMA SmallestOf ==
    ASSUME NEW T, T \subseteq Nat, T # {}
    PROVE  \E x \in T : \A y \in T : x <= y
<1>1. PICK x \in T : \A y \in T : ~(<<y, x>> \in OpToRel(<, Nat))
    BY NatLessThanWellFounded, WFMin
<1>2. ASSUME NEW y \in T PROVE x <= y
  <2>1. ~(<<y, x>> \in OpToRel(<, Nat)) /\ <<y, x>> \in Nat \X Nat
    BY <1>1
  <2>2. ~(y < x)
    BY <2>1 DEF OpToRel
  <2> QED BY <2>2
<1> QED BY <1>2

\* p puts the n keys k in order, equal ones as they were.
Sorts(p, k, n) ==
    /\ p \in [1..n -> 1..n]
    /\ \A i \in 1..n : \E j \in 1..n : p[j] = i
    /\ \A i, j \in 1..n : i < j => \/ k[p[i]] < k[p[j]]
                                   \/ k[p[i]] = k[p[j]] /\ p[i] < p[j]

\* A key more is inserted behind the keys that are not greater.
LEMMA InsertOne ==
    ASSUME NEW n \in Nat, NEW k \in [1..(n + 1) -> Nat], NEW p, Sorts(p, k, n)
    PROVE  \E r : Sorts(r, k, n + 1)
<1> DEFINE x == k[n + 1]
           T == {j \in 1..(n + 1) : j = n + 1 \/ k[p[j]] > x}
<1>1. p \in [1..n -> 1..n] /\ x \in Nat /\ \A i \in 1..n : k[i] \in Nat /\ k[p[i]] \in Nat
  <2>1. p \in [1..n -> 1..n] BY DEF Sorts
  <2>2. n + 1 \in 1..(n + 1) /\ \A i \in 1..n : i \in 1..(n + 1) OBVIOUS
  <2>3. \A i \in 1..n : p[i] \in 1..n BY <2>1
  <2> QED BY <2>1, <2>2, <2>3
<1>2. PICK m \in T : \A j \in T : m <= j
  <2>1. T \subseteq Nat /\ n + 1 \in T OBVIOUS
  <2> QED BY <2>1, SmallestOf
<1>3. m \in 1..(n + 1) /\ (m = n + 1 \/ k[p[m]] > x)
  BY <1>2
<1>4. ASSUME NEW j \in 1..n, j < m PROVE k[p[j]] <= x
  <2>1. j \notin T /\ j \in 1..(n + 1) BY <1>2, <1>3, <1>4
  <2>2. ~(k[p[j]] > x) BY <2>1
  <2>3. k[p[j]] \in Nat /\ x \in Nat BY <1>1
  <2> HIDE DEF x
  <2> QED BY <2>2, <2>3
<1>5. ASSUME NEW j \in 1..n, j >= m PROVE k[p[j]] > x
  <2>1. m \in 1..n /\ k[p[m]] > x BY <1>3, <1>5
  <2>2. k[p[j]] \in Nat /\ k[p[m]] \in Nat /\ x \in Nat BY <1>1, <2>1
  <2>3. m < j => k[p[m]] < k[p[j]] \/ k[p[m]] = k[p[j]] BY <2>1 DEF Sorts
  <2>4. m < j \/ m = j BY <2>1, <1>5
  <2>5. CASE m = j BY <2>1, <2>5
  <2>6. CASE m < j
    <3> DEFINE y == k[p[j]]
               z == k[p[m]]
    <3>1. y \in Nat /\ z \in Nat /\ x \in Nat /\ z > x /\ (z < y \/ z = y)
      BY <2>1, <2>2, <2>3, <2>6
    <3> HIDE DEF x, y, z
    <3>2. y > x BY <3>1
    <3> QED BY <3>2 DEF y
  <2> QED BY <2>4, <2>5, <2>6
<1> DEFINE r == [i \in 1..(n + 1) |-> IF i < m THEN p[i] ELSE IF i = m THEN n + 1 ELSE p[i - 1]]
<1> HIDE DEF x, T
<1>6. \A i \in 1..(n + 1) : \/ i < m /\ i \in 1..n /\ r[i] = p[i]
                            \/ i = m /\ r[i] = n + 1
                            \/ i > m /\ i - 1 \in 1..n /\ i - 1 >= m /\ r[i] = p[i - 1]
  BY <1>3
<1>7. r \in [1..(n + 1) -> 1..(n + 1)]
  <2>1. \A i \in 1..n : p[i] \in 1..(n + 1)
    <3>1. \A i \in 1..n : p[i] \in 1..n BY <1>1
    <3> QED BY <3>1
  <2>2. \A i \in 1..(n + 1) : r[i] \in 1..(n + 1) BY <1>6, <2>1
  <2> QED BY <2>2
<1> HIDE DEF r
<1>8. ASSUME NEW i \in 1..(n + 1) PROVE \E j \in 1..(n + 1) : r[j] = i
  <2>1. CASE i = n + 1
    BY <2>1, <1>3, <1>6
  <2>2. CASE i \in 1..n
    <3>1. PICK j \in 1..n : p[j] = i BY <2>2 DEF Sorts
    <3>2. CASE j < m
      <4>1. j \in 1..(n + 1) BY <3>1
      <4>2. r[j] = p[j] BY <4>1, <3>2, <1>3, <1>6
      <4> QED BY <4>1, <4>2, <3>1
    <3>3. CASE j >= m
      <4>1. j + 1 \in 1..(n + 1) /\ j + 1 > m /\ (j + 1) - 1 = j BY <3>1, <3>3, <1>3
      <4>2. r[j + 1] = p[j] BY <4>1, <1>3, <1>6
      <4> QED BY <4>1, <4>2, <3>1
    <3> QED BY <3>2, <3>3, <1>3
  <2> QED BY <2>1, <2>2
<1>9. ASSUME NEW i \in 1..(n + 1), NEW j \in 1..(n + 1), i < j
      PROVE  k[r[i]] < k[r[j]] \/ (k[r[i]] = k[r[j]] /\ r[i] < r[j])
  <2>1. \A a, b \in 1..n : a < b => k[p[a]] < k[p[b]] \/ (k[p[a]] = k[p[b]] /\ p[a] < p[b])
    BY DEF Sorts
  <2>2. \A a \in 1..n : p[a] < n + 1
    BY <1>1
  <2>3. k[n + 1] = x /\ m \in 1..(n + 1)
    BY <1>3 DEF x
  <2>4. CASE j < m
    <3>1. i \in 1..n /\ j \in 1..n /\ r[i] = p[i] /\ r[j] = p[j] BY <2>4, <1>6, <1>9, <2>3
    <3> QED BY <3>1, <2>1, <1>9
  <2>5. CASE j = m
    <3>1. i \in 1..n /\ r[i] = p[i] /\ r[j] = n + 1 /\ i < m BY <2>5, <1>6, <1>9, <2>3
    <3>2. k[p[i]] <= x BY <3>1, <1>4
    <3>3. k[p[i]] \in Nat /\ p[i] < n + 1 BY <3>1, <1>1, <2>2
    <3>4. k[p[i]] < x \/ k[p[i]] = x BY <3>2, <3>3, <1>1
    <3> QED BY <3>1, <3>3, <3>4, <2>3
  <2>6. CASE j > m /\ i < m
    <3>1. i \in 1..n /\ r[i] = p[i] /\ j - 1 \in 1..n /\ j - 1 >= m /\ r[j] = p[j - 1]
      BY <2>6, <1>6, <1>9, <2>3
    <3>2. i < j - 1 BY <3>1, <2>6, <2>3
    <3> QED BY <3>1, <3>2, <2>1
  <2>7. CASE j > m /\ i = m
    <3>1. r[i] = n + 1 /\ j - 1 \in 1..n /\ j - 1 >= m /\ r[j] = p[j - 1]
      BY <2>7, <1>6, <1>9, <2>3
    <3>2. k[p[j - 1]] > x BY <3>1, <1>5
    <3>3. k[p[j - 1]] \in Nat BY <3>1, <1>1
    <3> QED BY <3>1, <3>2, <3>3, <2>3, <1>1
  <2>8. CASE j > m /\ i > m
    <3>1. i - 1 \in 1..n /\ j - 1 \in 1..n /\ r[i] = p[i - 1] /\ r[j] = p[j - 1] /\ i - 1 < j - 1
      BY <2>8, <1>6, <1>9, <2>3
    <3> QED BY <3>1, <2>1
  <2> QED BY <2>3, <2>4, <2>5, <2>6, <2>7, <2>8
<1>10. Sorts(r, k, n + 1)
  BY <1>7, <1>8, <1>9 DEF Sorts
<1> QED BY <1>10

\* So every number of keys can be put in order: there is no smallest number of
\* keys that cannot.
LEMMA SortExists ==
    ASSUME NEW n \in Nat, NEW k \in [1..n -> Nat]
    PROVE  \E p : Sorts(p, k, n)
<1> DEFINE T == {i \in Nat : \E l \in [1..i -> Nat] : ~\E p : Sorts(p, l, i)}
<1>1. T = {}
  <2> SUFFICES ASSUME T # {} PROVE FALSE OBVIOUS
  <2>1. PICK i \in T : \A j \in T : i <= j
    <3>1. T \subseteq Nat OBVIOUS
    <3> QED BY <3>1, SmallestOf
  <2>2. i \in Nat BY <2>1
  <2>3. PICK l \in [1..i -> Nat] : ~\E p : Sorts(p, l, i) BY <2>1
  <2>4. CASE i = 0
    <3>1. 1..i = {} BY <2>4
    <3>2. Sorts([j \in 1..i |-> j], l, i) BY <3>1 DEF Sorts
    <3> QED BY <3>2, <2>3
  <2>5. CASE i # 0
    <3>1. i - 1 \in Nat /\ (i - 1) + 1 = i BY <2>2, <2>5
    <3> DEFINE h == i - 1
               g == [j \in 1..h |-> l[j]]
    <3>2. h \in Nat /\ h + 1 = i /\ h < i BY <3>1, <2>2
    <3>3. g \in [1..h -> Nat] BY <3>2, <2>3
    <3> HIDE DEF h
    <3>4. h \notin T
      <4> HIDE DEF T
      <4> QED BY <3>2, <2>1, <2>2
    <3>5. PICK p : Sorts(p, g, h) BY <3>3, <3>4, <3>2
    <3>6. \A j \in 1..h : p[j] \in 1..h BY <3>5 DEF Sorts
    <3>7. Sorts(p, l, h)
      <4>1. \A j \in 1..h : g[p[j]] = l[p[j]] BY <3>6
      <4> HIDE DEF g
      <4>2. /\ p \in [1..h -> 1..h]
            /\ \A j \in 1..h : \E m \in 1..h : p[m] = j
            /\ \A a, b \in 1..h : a < b => \/ g[p[a]] < g[p[b]]
                                           \/ g[p[a]] = g[p[b]] /\ p[a] < p[b]
        BY <3>5 DEF Sorts
      <4>3. ASSUME NEW a \in 1..h, NEW b \in 1..h, a < b
            PROVE  l[p[a]] < l[p[b]] \/ (l[p[a]] = l[p[b]] /\ p[a] < p[b])
        <5>1. g[p[a]] = l[p[a]] /\ g[p[b]] = l[p[b]] BY <4>1
        <5>2. g[p[a]] < g[p[b]] \/ (g[p[a]] = g[p[b]] /\ p[a] < p[b]) BY <4>2, <4>3
        <5> QED BY <5>1, <5>2
      <4> QED BY <4>2, <4>3 DEF Sorts
    <3>8. l \in [1..(h + 1) -> Nat] BY <3>2, <2>3
    <3>9. \E r : Sorts(r, l, h + 1) BY <3>2, <3>7, <3>8, InsertOne
    <3> QED BY <3>9, <3>2, <2>3
  <2> QED BY <2>4, <2>5
<1> QED BY <1>1

\* A sorted batch has the events of the unsorted one, each as often.
LEMMA ElemsOfSort ==
    ASSUME NEW s \in Seq(Events)
    PROVE  /\ SortByCreation(s) \in Seq(Events)
           /\ Elems(SortByCreation(s)) = Elems(s)
           /\ Once(s) => Once(SortByCreation(s))
<1> DEFINE n == Len(s)
           k == [i \in 1..n |-> CreatedAt[s[i]]]
           p == Order(s)
<1>1. n \in Nat /\ DOMAIN s = 1..n /\ \A i \in 1..n : s[i] \in Events
  OBVIOUS
<1>2. k \in [1..n -> Nat]
  BY <1>1, HarnessAssumption
<1>3. PICK r : Sorts(r, k, n)
  BY <1>1, <1>2, SortExists
<1>4. /\ p \in [1..n -> 1..n]
      /\ \A i \in 1..n : \E j \in 1..n : p[j] = i
      /\ \A i, j \in 1..n : i < j => \/ CreatedAt[s[p[i]]] < CreatedAt[s[p[j]]]
                                     \/ CreatedAt[s[p[i]]] = CreatedAt[s[p[j]]] /\ p[i] < p[j]
  <2>1. \A i \in 1..n : r[i] \in 1..n /\ k[r[i]] = CreatedAt[s[r[i]]]
    BY <1>3 DEF Sorts
  <2> DEFINE P(f) == /\ \A i \in DOMAIN s : \E j \in DOMAIN s : f[j] = i
                     /\ \A i, j \in DOMAIN s : i < j =>
                          \/ CreatedAt[s[f[i]]] < CreatedAt[s[f[j]]]
                          \/ CreatedAt[s[f[i]]] = CreatedAt[s[f[j]]] /\ f[i] < f[j]
  <2>2. ASSUME NEW i \in 1..n, NEW j \in 1..n, i < j
        PROVE  \/ CreatedAt[s[r[i]]] < CreatedAt[s[r[j]]]
               \/ CreatedAt[s[r[i]]] = CreatedAt[s[r[j]]] /\ r[i] < r[j]
    <3>1. k[r[i]] < k[r[j]] \/ (k[r[i]] = k[r[j]] /\ r[i] < r[j])
      BY <1>3, <2>2 DEF Sorts
    <3> HIDE DEF k, n
    <3> QED BY <3>1, <2>1
  <2>3. r \in [1..n -> 1..n] /\ \A i \in 1..n : \E j \in 1..n : r[j] = i
    BY <1>3 DEF Sorts
  <2> HIDE DEF n
  <2>4. r \in [DOMAIN s -> DOMAIN s] /\ P(r)
    BY <2>2, <2>3, <1>1
  <2>5. p = CHOOSE f \in [DOMAIN s -> DOMAIN s] : P(f)
    BY DEF Order
  <2> HIDE DEF p, P
  <2>6. p \in [DOMAIN s -> DOMAIN s] /\ P(p)
    BY <2>4, <2>5
  <2> QED BY <2>6, <1>1 DEF P
<1>5. \A i, j \in 1..n : p[i] = p[j] => i = j
  <2> SUFFICES ASSUME NEW i \in 1..n, NEW j \in 1..n, p[i] = p[j], i < j PROVE FALSE
    BY <1>1
  <2> HIDE DEF p, n
  <2>1. p[i] \in 1..n /\ s[p[i]] \in Events /\ CreatedAt[s[p[i]]] \in Nat
    BY <1>1, <1>4, HarnessAssumption
  <2>2. \/ CreatedAt[s[p[i]]] < CreatedAt[s[p[j]]]
        \/ CreatedAt[s[p[i]]] = CreatedAt[s[p[j]]] /\ p[i] < p[j]
    BY <1>4
  <2>3. p[j] = p[i] OBVIOUS
  <2>4. n \in Nat BY <1>1
  <2> QED BY <2>1, <2>2, <2>3, <2>4
<1> HIDE DEF p, k
<1>6. SortByCreation(s) = [i \in 1..n |-> s[p[i]]]
  BY <1>1 DEF SortByCreation, p
<1> DEFINE t == SortByCreation(s)
<1>7. t \in Seq(Events) /\ DOMAIN t = 1..n /\ \A i \in 1..n : t[i] = s[p[i]]
  BY <1>1, <1>4, <1>6
<1> HIDE DEF t, n
<1>8. Elems(t) = Elems(s)
  BY <1>1, <1>4, <1>7 DEF Elems
<1>9. ASSUME Once(s) PROVE Once(t)
  <2> SUFFICES ASSUME NEW i \in 1..n, NEW j \in 1..n, t[i] = t[j] PROVE i = j
    BY <1>7 DEF Once
  <2>1. p[i] \in DOMAIN s /\ p[j] \in DOMAIN s BY <1>1, <1>4
  <2>2. s[p[i]] = s[p[j]] BY <1>7
  <2>3. p[i] = p[j] BY <1>9, <2>1, <2>2 DEF Once
  <2> QED BY <1>5, <2>3
<1> QED BY <1>7, <1>8, <1>9 DEF t

-----------------------------------------------------------------------------
(* The operators of the queue: their fields *)

\* Two queues that differ in the tables of c at most.
Elsewhere(u, v, c) ==
    \A d \in Channels \ {c} : /\ v.queues[d] = u.queues[d]
                              /\ v.cancelled[d] = u.cancelled[d]
                              /\ v.withheld[d] = u.withheld[d]

\* The marks and timers of a queue.
SameMarks(u, v) ==
    /\ v.inFlight = u.inFlight /\ v.overdue = u.overdue
    /\ v.retryAfter = u.retryAfter /\ v.retryCount = u.retryCount

\* Events delivered are events.
LEMMA PastIn ==
    ASSUME NEW c, NEW n \in 1..(NumEvents + 1)
    PROVE  Past(c, n) \subseteq Events
BY HarnessAssumption DEF Past, Events

\* A batch put back at the front of a channel, under the cap.
LEMMA PutFrontFields ==
    ASSUME NEW u \in QueueState, NEW c \in Channels, NEW s \in Seq(Events)
    PROVE  LET v == PutFront(u, c, s) IN
           /\ v \in QueueState
           /\ v.queues[c] = Kept(s \o u.queues[c])
           /\ v.cancelled = u.cancelled /\ v.withheld = u.withheld
           /\ v.shed = u.shed \cup Popped(s \o u.queues[c])
           /\ v.returned = u.returned
           /\ Elsewhere(u, v, c) /\ SameMarks(u, v)
<1>1. u.queues[c] \in Seq(Events) BY DEF QueueState
<1>2. s \o u.queues[c] \in Seq(Events) BY <1>1, ElemsOfConcat
<1> DEFINE k == Kept(s \o u.queues[c])
           x == Popped(s \o u.queues[c])
<1>3. k \in Seq(Events) /\ x \subseteq Events
  BY <1>2, ElemsUnderCap, ElemsIn
<1>4. PutFront(u, c, s) = [u EXCEPT !.queues[c] = k, !.shed = u.shed \cup x]
  BY DEF PutFront
<1> HIDE DEF k, x
<1>5. [u EXCEPT !.queues[c] = k, !.shed = u.shed \cup x] \in QueueState
  BY <1>3 DEF QueueState
<1> QED BY <1>4, <1>5 DEF k, x, QueueState, Elsewhere, SameMarks

\* An arrival: let go of in drop mode mid-turn, else queued, in the place of
\* the oldest when the channel is full.
LEMMA PushFields ==
    ASSUME NEW u \in QueueState, NEW e \in Events
    PROVE  LET c == ChannelOf[e]
               v == push(u, e)
               full == Len(u.queues[c]) >= MaxPending
           IN
           /\ c \in Channels
           /\ v \in QueueState
           /\ v.cancelled = u.cancelled /\ v.withheld = u.withheld
           /\ v.returned = u.returned
           /\ Elsewhere(u, v, c) /\ SameMarks(u, v)
           /\ \/ c \in u.inFlight /\ v.queues[c] = u.queues[c] /\ v.shed = u.shed \cup {e}
              \/ /\ ~full /\ v.queues[c] = Append(u.queues[c], e) /\ v.shed = u.shed
              \/ /\ full /\ v.queues[c] = Append(Tail(u.queues[c]), e)
                 /\ v.shed = u.shed \cup {Head(u.queues[c])} /\ u.queues[c] # <<>>
<1> DEFINE c == ChannelOf[e]
           full == Len(u.queues[c]) >= MaxPending
<1>1. c \in Channels /\ u.queues[c] \in Seq(Events) /\ u.queues \in [Channels -> Seq(Events)]
  BY HarnessAssumption DEF QueueState
<1> HIDE DEF c
<1>2. CASE config.handling = "drop" /\ c \in u.inFlight
  <2>1. push(u, e) = [u EXCEPT !.shed = @ \cup {e}]
    BY <1>2 DEF push, Shed, c
  <2> DEFINE v == [u EXCEPT !.shed = @ \cup {e}]
  <2>2. v \in QueueState
    <3>1. u.shed \cup {e} \in SUBSET Events BY DEF QueueState
    <3> QED BY <3>1 DEF QueueState
  <2>3. /\ v.queues = u.queues /\ v.cancelled = u.cancelled /\ v.withheld = u.withheld
        /\ v.returned = u.returned /\ SameMarks(u, v) /\ v.shed = u.shed \cup {e}
    BY DEF QueueState, SameMarks
  <2> HIDE DEF v
  <2>4. push(u, e) = v BY <2>1 DEF v
  <2> QED BY <2>2, <2>3, <2>4, <1>1, <1>2 DEF Elsewhere, c
<1>3. CASE ~(config.handling = "drop" /\ c \in u.inFlight) /\ ~full
  <2>1. push(u, e) = [u EXCEPT !.queues[c] = Append(u.queues[c], e), !.shed = u.shed]
    BY <1>3 DEF push, c
  <2>2. Append(u.queues[c], e) \in Seq(Events) BY <1>1
  <2> DEFINE s == Append(u.queues[c], e)
             v == [u EXCEPT !.queues[c] = s, !.shed = u.shed]
  <2> HIDE DEF s
  <2>3. v \in QueueState BY <2>2, <1>1 DEF QueueState, s
  <2>4. /\ v.queues[c] = s /\ v.cancelled = u.cancelled /\ v.withheld = u.withheld
        /\ v.returned = u.returned /\ SameMarks(u, v) /\ v.shed = u.shed
        /\ Elsewhere(u, v, c)
    BY <1>1 DEF QueueState, SameMarks, Elsewhere
  <2> HIDE DEF v
  <2>5. push(u, e) = v BY <2>1 DEF v, s
  <2> QED BY <2>3, <2>4, <2>5, <1>1, <1>3 DEF s, c
<1>4. CASE ~(config.handling = "drop" /\ c \in u.inFlight) /\ full
  <2>1. push(u, e) = [u EXCEPT !.queues[c] = Append(Tail(u.queues[c]), e),
                               !.shed = u.shed \cup {Head(u.queues[c])}]
    BY <1>4 DEF push, c
  <2>2. u.queues[c] # <<>>
    BY <1>1, <1>4, HarnessAssumption
  <2>3. Append(Tail(u.queues[c]), e) \in Seq(Events) /\ Head(u.queues[c]) \in Events
    BY <1>1, <2>2
  <2> DEFINE s == Append(Tail(u.queues[c]), e)
             x == u.shed \cup {Head(u.queues[c])}
             v == [u EXCEPT !.queues[c] = s, !.shed = x]
  <2>4. x \subseteq Events BY <2>3 DEF QueueState
  <2> HIDE DEF s, x
  <2>5. v \in QueueState BY <2>3, <2>4, <1>1 DEF QueueState, s
  <2>6. /\ v.queues[c] = s /\ v.cancelled = u.cancelled /\ v.withheld = u.withheld
        /\ v.returned = u.returned /\ SameMarks(u, v) /\ v.shed = x
        /\ Elsewhere(u, v, c)
    BY <1>1 DEF QueueState, SameMarks, Elsewhere
  <2> HIDE DEF v
  <2>7. push(u, e) = v BY <2>1 DEF v, s, x
  <2> QED BY <2>2, <2>5, <2>6, <2>7, <1>1, <1>4 DEF s, x, c
<1> QED BY <1>2, <1>3, <1>4

\* Expired deadlines: the channel is free, its withheld steers are queued.
LEMMA ExpireFields ==
    ASSUME NEW u \in QueueState
    PROVE  LET v == expire(u)
               back(c) == IF c \in u.overdue THEN u.withheld[c] ELSE <<>>
           IN
           /\ v \in QueueState
           /\ v.inFlight = u.inFlight \ u.overdue /\ v.overdue = {}
           /\ v.cancelled = u.cancelled
           /\ v.returned = u.returned \cup UNION {Elems(back(c)) : c \in Channels}
           /\ v.retryAfter = u.retryAfter /\ v.retryCount = u.retryCount
           /\ \A c \in Channels :
                /\ v.queues[c] = Kept(back(c) \o u.queues[c])
                /\ v.withheld[c] = IF c \in u.overdue THEN <<>> ELSE u.withheld[c]
           /\ v.shed = u.shed \cup UNION {Popped(back(c) \o u.queues[c]) : c \in Channels}
<1> DEFINE back(c) == IF c \in u.overdue THEN u.withheld[c] ELSE <<>>
           k == [c \in Channels |-> Kept(back(c) \o u.queues[c])]
           w == [c \in Channels |-> IF c \in u.overdue THEN <<>> ELSE u.withheld[c]]
           x == UNION {Popped(back(c) \o u.queues[c]) : c \in Channels}
           y == UNION {Elems(back(c)) : c \in Channels}
<1>1. \A c \in Channels : u.queues[c] \in Seq(Events) /\ back(c) \in Seq(Events)
  BY DEF QueueState
<1>2. \A c \in Channels : back(c) \o u.queues[c] \in Seq(Events)
  BY <1>1, ElemsOfConcat
<1>3. \A c \in Channels : /\ Kept(back(c) \o u.queues[c]) \in Seq(Events)
                          /\ Popped(back(c) \o u.queues[c]) \subseteq Events
  BY <1>2, ElemsUnderCap, ElemsIn
<1>4. expire(u) = [u EXCEPT !.inFlight = u.inFlight \ u.overdue, !.overdue = {},
                            !.queues = k, !.withheld = w, !.shed = u.shed \cup x,
                            !.returned = u.returned \cup y]
  BY DEF expire
<1>5. /\ k \in [Channels -> Seq(Events)] /\ w \in [Channels -> Seq(Events)]
      /\ x \subseteq Events /\ y \subseteq Events
  <2>1. \A c \in Channels : Elems(back(c)) \subseteq Events BY <1>1, ElemsIn
  <2> QED BY <1>3, <2>1 DEF QueueState
<1>6. /\ \A c \in Channels : k[c] = Kept(back(c) \o u.queues[c])
      /\ \A c \in Channels : w[c] = IF c \in u.overdue THEN <<>> ELSE u.withheld[c]
  OBVIOUS
<1> HIDE DEF k, w, x, y
<1> DEFINE v == [u EXCEPT !.inFlight = u.inFlight \ u.overdue, !.overdue = {},
                          !.queues = k, !.withheld = w, !.shed = u.shed \cup x,
                          !.returned = u.returned \cup y]
<1>7. /\ v \in QueueState
      /\ v.inFlight = u.inFlight \ u.overdue /\ v.overdue = {}
      /\ v.cancelled = u.cancelled /\ v.returned = u.returned \cup y
      /\ v.retryAfter = u.retryAfter /\ v.retryCount = u.retryCount
      /\ v.queues = k /\ v.withheld = w /\ v.shed = u.shed \cup x
  BY <1>5 DEF QueueState
<1> HIDE DEF v
<1>8. expire(u) = v BY <1>4 DEF v
<1> QED BY <1>6, <1>7, <1>8 DEF x, y

\* A turn that is over frees its channel and keeps a backoff that is pending.
LEMMA MarkCompleteFields ==
    ASSUME NEW u \in QueueState, NEW c \in Channels
    PROVE  LET v == mark_complete(u, c) IN
           /\ v \in QueueState
           /\ v.inFlight = u.inFlight \ {c} /\ v.overdue = u.overdue \ {c}
           /\ v.queues = u.queues /\ v.cancelled = u.cancelled /\ v.withheld = u.withheld
           /\ v.shed = u.shed /\ v.returned = u.returned
           /\ \A d \in Channels : v.retryAfter[d] = "pending" <=> u.retryAfter[d] = "pending"
<1> DEFINE a == IF u.retryAfter[c] = "pending" THEN u.retryAfter[c] ELSE "none"
           b == IF u.retryAfter[c] = "pending" THEN u.retryCount[c] ELSE 0
           v == [u EXCEPT !.inFlight = @ \ {c}, !.overdue = @ \ {c},
                          !.retryAfter[c] = a, !.retryCount[c] = b]
<1>1. a \in {"none", "pending", "elapsed"} /\ b \in 0..MaxRetries
  BY HarnessAssumption DEF QueueState
<1>2. a = "pending" <=> u.retryAfter[c] = "pending"
  OBVIOUS
<1>3. mark_complete(u, c) = v
  BY DEF mark_complete, QueueState
<1> HIDE DEF a, b
<1>4. v \in QueueState
  BY <1>1 DEF QueueState
<1>5. /\ v.inFlight = u.inFlight \ {c} /\ v.overdue = u.overdue \ {c}
      /\ v.queues = u.queues /\ v.cancelled = u.cancelled /\ v.withheld = u.withheld
      /\ v.shed = u.shed /\ v.returned = u.returned
      /\ \A d \in Channels : v.retryAfter[d] = IF d = c THEN a ELSE u.retryAfter[d]
  BY DEF QueueState
<1> HIDE DEF v
<1> QED BY <1>2, <1>3, <1>4, <1>5

\* Events the queue lets go of.
LEMMA ShedFields ==
    ASSUME NEW u \in QueueState, NEW S \in SUBSET Events
    PROVE  LET v == Shed(u, S) IN
           /\ v \in QueueState
           /\ v.queues = u.queues /\ v.cancelled = u.cancelled /\ v.withheld = u.withheld
           /\ v.shed = u.shed \cup S /\ v.returned = u.returned
           /\ SameMarks(u, v)
<1>1. u.shed \cup S \in SUBSET Events BY DEF QueueState
<1>2. Shed(u, S) \in QueueState BY <1>1 DEF QueueState, Shed
<1> QED BY <1>2 DEF QueueState, Shed, SameMarks

\* The cancelled events of a batch that is put back without them.
LEMMA LoseFields ==
    ASSUME NEW u \in QueueState, NEW S \in SUBSET Events
    PROVE  LET v == Lose(u, S) IN
           /\ v \in QueueState
           /\ v.queues = u.queues /\ v.cancelled = u.cancelled /\ v.withheld = u.withheld
           /\ v.shed = u.shed \cup S /\ v.returned = u.returned
           /\ SameMarks(u, v)
<1>1. u.shed \cup S \in SUBSET Events /\ u.lost \cup S \in SUBSET Events BY DEF QueueState
<1>2. Lose(u, S) \in QueueState BY <1>1 DEF QueueState, Lose
<1> QED BY <1>2 DEF QueueState, Lose, SameMarks

\* A batch put back at the front of its channel without its cancelled events.
LEMMA PutBackFields ==
    ASSUME NEW u \in QueueState, NEW c \in Channels, NEW b,
           b.events \in Seq(Events), b.cancelled \in Seq(Events)
    PROVE  LET v == Lose(PutFront(u, c, b.events), Elems(b.cancelled)) IN
           /\ v \in QueueState
           /\ v.queues[c] = Kept(b.events \o u.queues[c])
           /\ v.cancelled = u.cancelled /\ v.withheld = u.withheld
           /\ v.shed = u.shed \cup Popped(b.events \o u.queues[c]) \cup Elems(b.cancelled)
           /\ v.returned = u.returned
           /\ Elsewhere(u, v, c) /\ SameMarks(u, v)
<1> DEFINE w == PutFront(u, c, b.events)
           S == Elems(b.cancelled)
           v == Lose(w, S)
<1>1. /\ w \in QueueState
      /\ w.queues[c] = Kept(b.events \o u.queues[c])
      /\ w.cancelled = u.cancelled /\ w.withheld = u.withheld
      /\ w.shed = u.shed \cup Popped(b.events \o u.queues[c])
      /\ w.returned = u.returned
      /\ Elsewhere(u, w, c) /\ SameMarks(u, w)
  BY PutFrontFields
<1>2. S \in SUBSET Events BY ElemsIn
<1> HIDE DEF w, S
<1>3. /\ v \in QueueState
      /\ v.queues = w.queues /\ v.cancelled = w.cancelled /\ v.withheld = w.withheld
      /\ v.shed = w.shed \cup S /\ v.returned = w.returned
      /\ SameMarks(w, v)
  BY <1>1, <1>2, LoseFields
<1> HIDE DEF v
<1>4. Elsewhere(u, v, c) /\ SameMarks(u, v) BY <1>1, <1>3 DEF Elsewhere, SameMarks
<1>5. v.shed = u.shed \cup Popped(b.events \o u.queues[c]) \cup S BY <1>1, <1>3
<1> QED BY <1>1, <1>3, <1>4, <1>5 DEF v, w, S

\* A failed batch: a dead letter, or queued again behind a backoff.
LEMMA RequeueFields ==
    ASSUME NEW u \in QueueState, NEW c \in Channels, NEW b,
           b.events \in Seq(Events), b.cancelled \in Seq(Events)
    PROVE  LET v == requeue(u, c, b) IN
           /\ v \in QueueState
           /\ v.inFlight = u.inFlight /\ v.overdue = u.overdue
           /\ v.cancelled = u.cancelled /\ v.withheld = u.withheld
           /\ v.returned = u.returned
           /\ \A d \in Channels \ {c} : v.retryAfter[d] = u.retryAfter[d]
           /\ Elsewhere(u, v, c)
           /\ \/ /\ v.queues = u.queues /\ v.retryAfter[c] = "none"
                 /\ v.shed = u.shed \cup Batch(b)
              \/ /\ v.queues[c] = Kept(b.events \o u.queues[c]) /\ v.retryAfter[c] = "pending"
                 /\ v.shed = u.shed \cup Popped(b.events \o u.queues[c]) \cup Elems(b.cancelled)
<1>0. u.retryCount[c] \in 0..MaxRetries /\ MaxRetries \in Nat
  BY HarnessAssumption DEF QueueState
<1>1. CASE u.retryCount[c] + 1 > MaxRetries
  <2> DEFINE w == [u EXCEPT !.retryCount[c] = 0, !.retryAfter[c] = "none"]
             S == Batch(b)
  <2>1. S \in SUBSET Events BY ElemsIn DEF Batch
  <2>2. requeue(u, c, b) = Shed(w, S) BY <1>1 DEF requeue, Batch
  <2>3. w \in QueueState
    <3>1. 0 \in 0..MaxRetries BY <1>0
    <3> QED BY <3>1 DEF QueueState
  <2>4. /\ w.queues = u.queues /\ w.cancelled = u.cancelled /\ w.withheld = u.withheld
        /\ w.shed = u.shed /\ w.returned = u.returned
        /\ w.inFlight = u.inFlight /\ w.overdue = u.overdue
        /\ w.retryAfter[c] = "none"
        /\ \A d \in Channels \ {c} : w.retryAfter[d] = u.retryAfter[d]
    BY DEF QueueState
  <2> HIDE DEF w, S
  <2> DEFINE v == Shed(w, S)
  <2>5. /\ v \in QueueState
        /\ v.queues = w.queues /\ v.cancelled = w.cancelled /\ v.withheld = w.withheld
        /\ v.shed = w.shed \cup S /\ v.returned = w.returned
        /\ SameMarks(w, v)
    BY <2>1, <2>3, ShedFields
  <2> HIDE DEF v
  <2>6. requeue(u, c, b) = v BY <2>2 DEF v
  <2> QED BY <2>4, <2>5, <2>6 DEF SameMarks, Elsewhere, S
<1>2. CASE ~(u.retryCount[c] + 1 > MaxRetries)
  <2> DEFINE w == Lose(PutFront(u, c, b.events), Elems(b.cancelled))
             v == [w EXCEPT !.retryCount[c] = @ + 1, !.retryAfter[c] = "pending"]
  <2>1. /\ w \in QueueState
        /\ w.queues[c] = Kept(b.events \o u.queues[c])
        /\ w.cancelled = u.cancelled /\ w.withheld = u.withheld
        /\ w.shed = u.shed \cup Popped(b.events \o u.queues[c]) \cup Elems(b.cancelled)
        /\ w.returned = u.returned
        /\ Elsewhere(u, w, c) /\ SameMarks(u, w)
    BY PutBackFields
  <2>2. requeue(u, c, b) = v BY <1>2 DEF requeue
  <2> HIDE DEF w
  <2>3. w.retryCount[c] + 1 \in 0..MaxRetries BY <2>1, <1>0, <1>2 DEF SameMarks
  <2>4. v \in QueueState BY <2>1, <2>3 DEF QueueState
  <2>5. /\ v.queues = w.queues /\ v.cancelled = w.cancelled /\ v.withheld = w.withheld
        /\ v.shed = w.shed /\ v.returned = w.returned
        /\ v.inFlight = w.inFlight /\ v.overdue = w.overdue
        /\ v.retryAfter[c] = "pending"
        /\ \A d \in Channels \ {c} : v.retryAfter[d] = w.retryAfter[d]
    BY <2>1 DEF QueueState
  <2> HIDE DEF v
  <2> QED BY <2>1, <2>2, <2>4, <2>5 DEF SameMarks, Elsewhere
<1> QED BY <1>1, <1>2

\* A batch cut short is stored with the cancelled events.
LEMMA CancelFields ==
    ASSUME NEW u \in QueueState, NEW c \in Channels, NEW b,
           b.events \in Seq(Events), b.cancelled \in Seq(Events)
    PROVE  LET v == requeue_as_cancelled(u, c, b) IN
           /\ v \in QueueState
           /\ v.queues = u.queues /\ v.withheld = u.withheld
           /\ v.cancelled[c] = u.cancelled[c] \o (b.cancelled \o b.events)
           /\ v.shed = u.shed /\ v.returned = u.returned
           /\ Elsewhere(u, v, c) /\ SameMarks(u, v)
<1> DEFINE cut == b.cancelled \o b.events
           s == u.cancelled[c] \o cut
           v == [u EXCEPT !.cancelled[c] = s]
<1>1. cut \in Seq(Events)
  BY ElemsOfConcat
<1>2. u.cancelled[c] \in Seq(Events) BY DEF QueueState
<1>3. requeue_as_cancelled(u, c, b) = v BY DEF requeue_as_cancelled
<1> HIDE DEF cut
<1>4. s \in Seq(Events)
  BY <1>1, <1>2, ElemsOfConcat
<1> HIDE DEF s
<1>6. v \in QueueState BY <1>4 DEF QueueState
<1>7. /\ v.queues = u.queues /\ v.withheld = u.withheld /\ v.cancelled[c] = s
      /\ v.shed = u.shed /\ v.returned = u.returned
      /\ Elsewhere(u, v, c) /\ SameMarks(u, v)
  BY DEF QueueState, Elsewhere, SameMarks
<1> HIDE DEF v
<1> QED BY <1>3, <1>6, <1>7 DEF s, cut

\* The channel the harness was removed from.
LEMMA DrainFields ==
    ASSUME NEW u \in QueueState, NEW c \in Channels
    PROVE  LET v == drain_channel(u, c) IN
           /\ v \in QueueState
           /\ v.queues[c] = <<>> /\ v.cancelled[c] = <<>> /\ v.withheld[c] = <<>>
           /\ v.shed = u.shed \cup Waiting(u, c) /\ v.returned = u.returned
           /\ v.inFlight = u.inFlight /\ v.overdue = u.overdue
           /\ v.retryAfter[c] = "none"
           /\ \A d \in Channels \ {c} : v.retryAfter[d] = u.retryAfter[d]
           /\ Elsewhere(u, v, c)
<1> DEFINE w == [u EXCEPT !.queues[c] = <<>>, !.cancelled[c] = <<>>, !.withheld[c] = <<>>,
                          !.retryAfter[c] = "none", !.retryCount[c] = 0]
           S == Elems(u.queues[c] \o u.cancelled[c] \o u.withheld[c])
<1>1. u.queues[c] \in Seq(Events) /\ u.cancelled[c] \in Seq(Events) /\ u.withheld[c] \in Seq(Events)
  BY DEF QueueState
<1>2. S = Waiting(u, c) /\ S \in SUBSET Events
  <2>1. /\ u.queues[c] \o u.cancelled[c] \in Seq(Events)
        /\ Elems(u.queues[c] \o u.cancelled[c]) = Elems(u.queues[c]) \cup Elems(u.cancelled[c])
    BY <1>1, ElemsOfConcat
  <2>2. S = Elems(u.queues[c] \o u.cancelled[c]) \cup Elems(u.withheld[c])
    BY <1>1, <2>1, ElemsOfConcat
  <2> QED BY <1>1, <2>1, <2>2, ElemsIn DEF Waiting
<1>3. drain_channel(u, c) = Shed(w, S) BY DEF drain_channel
<1>4. w \in QueueState
  <2>1. <<>> \in Seq(Events) /\ 0 \in 0..MaxRetries BY HarnessAssumption
  <2> QED BY <2>1 DEF QueueState
<1>5. /\ w.queues[c] = <<>> /\ w.cancelled[c] = <<>> /\ w.withheld[c] = <<>>
      /\ w.shed = u.shed /\ w.returned = u.returned
      /\ w.inFlight = u.inFlight /\ w.overdue = u.overdue
      /\ w.retryAfter[c] = "none"
      /\ \A d \in Channels \ {c} : w.retryAfter[d] = u.retryAfter[d]
      /\ Elsewhere(u, w, c)
  BY DEF QueueState, Elsewhere
<1> DEFINE v == Shed(w, S)
<1> HIDE DEF w, S
<1>6. /\ v \in QueueState
      /\ v.queues = w.queues /\ v.cancelled = w.cancelled /\ v.withheld = w.withheld
      /\ v.shed = w.shed \cup S /\ v.returned = w.returned
      /\ SameMarks(w, v)
  BY <1>2, <1>4, ShedFields
<1> HIDE DEF v
<1>7. drain_channel(u, c) = v BY <1>3 DEF v
<1> QED BY <1>2, <1>5, <1>6, <1>7 DEF SameMarks, Elsewhere

\* A steer sent to the agent leaves the queue for the side table.
LEMMA WithholdFields ==
    ASSUME NEW u \in QueueState, NEW e \in Events,
           Once(u.queues[ChannelOf[e]]), e \in Elems(u.queues[ChannelOf[e]])
    PROVE  LET v == mark_native_steer_pending(u, e)
               c == ChannelOf[e]
           IN
           /\ v \in QueueState
           /\ v.queues[c] = Without(u.queues[c], e)
           /\ v.withheld[c] = Append(u.withheld[c], e)
           /\ v.cancelled = u.cancelled
           /\ v.shed = u.shed /\ v.returned = u.returned
           /\ Elsewhere(u, v, c) /\ SameMarks(u, v)
<1> DEFINE c == ChannelOf[e]
           s == Without(u.queues[c], e)
           t == Append(u.withheld[c], e)
           v == [u EXCEPT !.queues[c] = s, !.withheld[c] = t]
<1>1. c \in Channels BY HarnessAssumption
<1>2. mark_native_steer_pending(u, e) = v BY DEF mark_native_steer_pending
<1>3. u.queues[c] \in Seq(Events) /\ u.withheld[c] \in Seq(Events) BY <1>1 DEF QueueState
<1>4. s \in Seq(Events) /\ t \in Seq(Events) BY <1>3, ElemsOfWithout, ElemsOfAppend
<1> HIDE DEF c, s, t
<1>5. v \in QueueState BY <1>1, <1>4 DEF QueueState
<1>6. /\ v.queues[c] = s /\ v.withheld[c] = t /\ v.cancelled = u.cancelled
      /\ v.shed = u.shed /\ v.returned = u.returned
      /\ Elsewhere(u, v, c) /\ SameMarks(u, v)
  BY <1>1 DEF QueueState, Elsewhere, SameMarks
<1> HIDE DEF v
<1> QED BY <1>2, <1>5, <1>6 DEF c, s, t

\* A steer that did not land goes back to the front of the queue.
LEMMA ReleaseFields ==
    ASSUME NEW u \in QueueState, NEW e \in Events,
           Once(u.withheld[ChannelOf[e]]), e \in Elems(u.withheld[ChannelOf[e]])
    PROVE  LET v == release_native_steer(u, e)
               c == ChannelOf[e]
           IN
           /\ v \in QueueState
           /\ v.queues[c] = Kept(<<e>> \o u.queues[c])
           /\ v.withheld[c] = Without(u.withheld[c], e)
           /\ v.cancelled = u.cancelled
           /\ v.shed = u.shed \cup Popped(<<e>> \o u.queues[c])
           /\ v.returned = u.returned
           /\ Elsewhere(u, v, c) /\ SameMarks(u, v)
<1> DEFINE c == ChannelOf[e]
           t == Without(u.withheld[c], e)
           w == [u EXCEPT !.withheld[c] = t]
           v == PutFront(w, c, <<e>>)
<1>1. c \in Channels BY HarnessAssumption
<1>2. release_native_steer(u, e) = v BY DEF release_native_steer
<1>3. u.withheld[c] \in Seq(Events) BY <1>1 DEF QueueState
<1>4. t \in Seq(Events) /\ <<e>> \in Seq(Events) BY <1>3, ElemsOfWithout
<1> HIDE DEF c, t
<1>5. w \in QueueState BY <1>1, <1>4 DEF QueueState
<1>6. /\ w.queues = u.queues /\ w.withheld[c] = t /\ w.cancelled = u.cancelled
      /\ w.shed = u.shed /\ w.returned = u.returned
      /\ Elsewhere(u, w, c) /\ SameMarks(u, w)
  BY <1>1 DEF QueueState, Elsewhere, SameMarks
<1> HIDE DEF w
<1>7. /\ v \in QueueState
      /\ v.queues[c] = Kept(<<e>> \o w.queues[c])
      /\ v.cancelled = w.cancelled /\ v.withheld = w.withheld
      /\ v.shed = w.shed \cup Popped(<<e>> \o w.queues[c])
      /\ v.returned = w.returned
      /\ Elsewhere(w, v, c) /\ SameMarks(w, v)
  BY <1>1, <1>4, <1>5, PutFrontFields
<1> HIDE DEF v
<1> QED BY <1>2, <1>6, <1>7 DEF c, t, Elsewhere, SameMarks

\* A steer that landed leaves the queue and the side table.
LEMMA RemoveFields ==
    ASSUME NEW u \in QueueState, NEW e \in Events,
           Once(u.queues[ChannelOf[e]]), Once(u.withheld[ChannelOf[e]])
    PROVE  LET v == remove_event(u, e)
               c == ChannelOf[e]
           IN
           /\ v \in QueueState
           /\ v.queues[c] = Without(u.queues[c], e)
           /\ v.withheld[c] = Without(u.withheld[c], e)
           /\ v.cancelled = u.cancelled
           /\ v.shed = u.shed \cup ({e} \cap (Elems(u.queues[c]) \cup Elems(u.withheld[c])))
           /\ v.returned = u.returned
           /\ Elsewhere(u, v, c) /\ SameMarks(u, v)
<1> DEFINE c == ChannelOf[e]
           s == Without(u.queues[c], e)
           t == Without(u.withheld[c], e)
           w == [u EXCEPT !.queues[c] = s, !.withheld[c] = t]
           S == {e} \cap Elems(u.queues[c] \o u.withheld[c])
           v == Shed(w, S)
<1>1. c \in Channels BY HarnessAssumption
<1>2. remove_event(u, e) = v BY DEF remove_event
<1>3. u.queues[c] \in Seq(Events) /\ u.withheld[c] \in Seq(Events) BY <1>1 DEF QueueState
<1>4. s \in Seq(Events) /\ t \in Seq(Events) BY <1>3, ElemsOfWithout
<1>5. S = {e} \cap (Elems(u.queues[c]) \cup Elems(u.withheld[c])) /\ S \in SUBSET Events
  BY <1>3, ElemsOfConcat
<1> HIDE DEF c, s, t
<1>6. w \in QueueState BY <1>1, <1>4 DEF QueueState
<1>7. /\ w.queues[c] = s /\ w.withheld[c] = t /\ w.cancelled = u.cancelled
      /\ w.shed = u.shed /\ w.returned = u.returned
      /\ Elsewhere(u, w, c) /\ SameMarks(u, w)
  BY <1>1 DEF QueueState, Elsewhere, SameMarks
<1> HIDE DEF w, S
<1>8. /\ v \in QueueState
      /\ v.queues = w.queues /\ v.cancelled = w.cancelled /\ v.withheld = w.withheld
      /\ v.shed = w.shed \cup S /\ v.returned = w.returned
      /\ SameMarks(w, v)
  BY <1>5, <1>6, ShedFields
<1> HIDE DEF v
<1> QED BY <1>2, <1>5, <1>7, <1>8 DEF c, s, t, Elsewhere, SameMarks

\* A landed steer gives the turn a new deadline.
LEMMA ExtendFields ==
    ASSUME NEW u \in QueueState, NEW c
    PROVE  LET v == extend_in_flight_deadline(u, c) IN
           /\ v \in QueueState
           /\ v.queues = u.queues /\ v.cancelled = u.cancelled /\ v.withheld = u.withheld
           /\ v.shed = u.shed /\ v.returned = u.returned
           /\ v.inFlight = u.inFlight /\ v.overdue = u.overdue \ {c}
           /\ v.retryAfter = u.retryAfter
<1>1. extend_in_flight_deadline(u, c) \in QueueState BY DEF QueueState, extend_in_flight_deadline
<1> QED BY <1>1 DEF QueueState, extend_in_flight_deadline

\* Compaction forgets elapsed backoffs and counts that no longer matter.
LEMMA CompactFields ==
    ASSUME NEW u \in QueueState
    PROVE  LET v == compact_expired_state(u) IN
           /\ v \in QueueState
           /\ v.queues = u.queues /\ v.cancelled = u.cancelled /\ v.withheld = u.withheld
           /\ v.shed = u.shed /\ v.returned = u.returned
           /\ v.inFlight = u.inFlight /\ v.overdue = u.overdue
           /\ \A d \in Channels : v.retryAfter[d] = "pending" <=> u.retryAfter[d] = "pending"
<1> DEFINE a == [c \in Channels |-> IF u.retryAfter[c] = "pending" THEN u.retryAfter[c] ELSE "none"]
           b == [c \in Channels |->
                  IF u.retryAfter[c] = "pending" \/ u.queues[c] # <<>> \/ c \in u.inFlight
                  THEN u.retryCount[c] ELSE 0]
           v == [u EXCEPT !.retryAfter = a, !.retryCount = b]
<1>1. a \in [Channels -> {"none", "pending", "elapsed"}] /\ b \in [Channels -> 0..MaxRetries]
  BY HarnessAssumption DEF QueueState
<1>2. \A d \in Channels : a[d] = "pending" <=> u.retryAfter[d] = "pending"
  OBVIOUS
<1>3. compact_expired_state(u) = v BY DEF compact_expired_state
<1> HIDE DEF a, b
<1>4. v \in QueueState BY <1>1 DEF QueueState
<1>5. /\ v.queues = u.queues /\ v.cancelled = u.cancelled /\ v.withheld = u.withheld
      /\ v.shed = u.shed /\ v.returned = u.returned
      /\ v.inFlight = u.inFlight /\ v.overdue = u.overdue /\ v.retryAfter = a
  BY DEF QueueState
<1> HIDE DEF v
<1> QED BY <1>2, <1>3, <1>4, <1>5

\* A flush takes the head of the queue and all that was cancelled.
LEMMA FlushFields ==
    ASSUME NEW u \in QueueState, NEW c \in Channels
    PROVE  LET v == flush_next(u, c) IN
           /\ v \in QueueState
           /\ Taken(u, c) \in 0..Len(u.queues[c])
           /\ v.queues[c] = IF c \in ReadyChannels(u)
                            THEN SubSeq(u.queues[c], Taken(u, c) + 1, Len(u.queues[c]))
                            ELSE u.queues[c]
           /\ v.cancelled[c] = <<>> /\ v.withheld = u.withheld
           /\ v.shed = u.shed /\ v.returned = u.returned
           /\ v.inFlight = u.inFlight \cup {c} /\ v.overdue = u.overdue \ {c}
           /\ v.retryAfter = u.retryAfter
           /\ Elsewhere(u, v, c)
<1> DEFINE n == Taken(u, c)
           s == IF c \in ReadyChannels(u) THEN SubSeq(u.queues[c], n + 1, Len(u.queues[c]))
                ELSE u.queues[c]
           v == [u EXCEPT !.queues[c] = s, !.cancelled[c] = <<>>,
                          !.inFlight = @ \cup {c}, !.overdue = @ \ {c}]
<1>1. u.queues[c] \in Seq(Events) /\ Len(u.queues[c]) \in Nat /\ MaxBatch \in Nat
  BY HarnessAssumption DEF QueueState
<1>2. n \in 0..Len(u.queues[c]) BY <1>1 DEF Taken, Smaller
<1>3. s \in Seq(Events) BY <1>1, <1>2, ElemsOfCut
<1>4. flush_next(u, c) = v BY DEF flush_next, QueueState
<1> HIDE DEF s
<1>5. v \in QueueState
  <2>1. <<>> \in Seq(Events) OBVIOUS
  <2> QED BY <2>1, <1>3 DEF QueueState
<1>6. /\ v.queues[c] = s /\ v.cancelled[c] = <<>> /\ v.withheld = u.withheld
      /\ v.shed = u.shed /\ v.returned = u.returned
      /\ v.inFlight = u.inFlight \cup {c} /\ v.overdue = u.overdue \ {c}
      /\ v.retryAfter = u.retryAfter
      /\ Elsewhere(u, v, c)
  BY DEF QueueState, Elsewhere
<1> HIDE DEF v
<1> QED BY <1>2, <1>4, <1>5, <1>6 DEF s

-----------------------------------------------------------------------------
(* The operators of the queue: where the events go *)

\* v is u after it was given the events B: they and its own are in its tables or
\* let go of, and nothing else is.
Keeps(u, v, B, n) ==
    /\ QueueOK(v, n)
    /\ u.shed \subseteq v.shed /\ u.returned \subseteq v.returned
    /\ Held(v) \cup v.shed \subseteq Held(u) \cup u.shed \cup B
    /\ Held(u) \cup B \subseteq Held(v) \cup v.shed

\* Events wait in the tables of their own channel.
LEMMA WaitingIsHeld ==
    ASSUME NEW n \in 1..(NumEvents + 1), NEW u, QueueOK(u, n), NEW c \in Channels, NEW e,
           e \in Waiting(u, c)
    PROVE  e \in Events /\ e \in Held(u) /\ ChannelOf[e] = c /\ e < n /\ e \notin u.shed
<1>1. e \in Past(c, n) /\ e \notin u.shed BY DEF QueueOK, ChannelOK
<1>2. e \in Events BY <1>1, PastIn
<1>3. ChannelOf[e] = c /\ e \in 1..(n - 1) BY <1>1 DEF Past
<1>4. e < n BY <1>3, HarnessAssumption
<1> QED BY <1>1, <1>2, <1>3, <1>4 DEF Held

\* A step in the tables of one channel leaves the others as they were.
LEMMA OneChannel ==
    ASSUME NEW n \in 1..(NumEvents + 1), NEW u, QueueOK(u, n), NEW v \in QueueState,
           NEW c \in Channels, NEW B,
           Elsewhere(u, v, c), ChannelOK(v, c, n), v.overdue \subseteq v.inFlight,
           u.shed \subseteq v.shed, v.shed \subseteq u.shed \cup Past(c, n),
           u.returned \subseteq v.returned, B \subseteq Past(c, n),
           Waiting(v, c) \cup v.shed \subseteq Waiting(u, c) \cup u.shed \cup B,
           Waiting(u, c) \cup B \subseteq Waiting(v, c) \cup v.shed
    PROVE  Keeps(u, v, B, n)
<1>1. ASSUME NEW d \in Channels \ {c} PROVE ChannelOK(v, d, n) /\ Waiting(v, d) = Waiting(u, d)
  <2>1. /\ v.queues[d] = u.queues[d] /\ v.cancelled[d] = u.cancelled[d]
        /\ v.withheld[d] = u.withheld[d] /\ d # c
    BY <1>1 DEF Elsewhere
  <2>2. ChannelOK(u, d, n) BY DEF QueueOK
  <2>3. Waiting(v, d) = Waiting(u, d) BY <2>1 DEF Waiting
  <2>4. Past(c, n) \cap Past(d, n) = {} BY <2>1 DEF Past
  <2>5. Waiting(v, d) \subseteq Past(d, n) \ v.shed BY <2>2, <2>3, <2>4 DEF ChannelOK
  <2> QED BY <2>1, <2>2, <2>3, <2>5 DEF ChannelOK
<1>2. v.shed \subseteq 1..(n - 1)
  BY DEF QueueOK, Past
<1>3. QueueOK(v, n)
  BY <1>1, <1>2 DEF QueueOK
<1>4. \A e \in Events : ChannelOf[e] \in Channels
  BY HarnessAssumption
<1>5. \A e \in Past(c, n) : e \in Events /\ ChannelOf[e] = c
  BY PastIn DEF Past
<1>6. ASSUME NEW e \in Held(v) PROVE e \in Held(u) \cup u.shed \cup B
  <2>1. e \in Events /\ e \in Waiting(v, ChannelOf[e]) BY <1>6 DEF Held
  <2>2. CASE ChannelOf[e] = c
    <3>1. e \in Waiting(u, c) \cup u.shed \cup B BY <2>1, <2>2
    <3> QED BY <2>1, <2>2, <3>1 DEF Held
  <2>3. CASE ChannelOf[e] # c
    BY <2>1, <2>3, <1>1, <1>4 DEF Held
  <2> QED BY <2>2, <2>3
<1>7. ASSUME NEW e \in Held(u) \cup B PROVE e \in Held(v) \cup v.shed
  <2>1. CASE e \in B
    <3>1. e \in Events /\ ChannelOf[e] = c BY <1>5, <2>1
    <3> QED BY <2>1, <3>1 DEF Held
  <2>2. CASE e \in Held(u) /\ ChannelOf[e] = c
    <3>1. e \in Events /\ e \in Waiting(u, c) BY <2>2 DEF Held
    <3> QED BY <2>2, <3>1 DEF Held
  <2>3. CASE e \in Held(u) /\ ChannelOf[e] # c
    <3>1. e \in Events /\ e \in Waiting(u, ChannelOf[e]) BY <2>3 DEF Held
    <3> QED BY <2>3, <3>1, <1>1, <1>4 DEF Held
  <2> QED BY <1>7, <2>1, <2>2, <2>3
<1>8. ASSUME NEW e \in v.shed PROVE e \in Held(u) \cup u.shed \cup B
  <2>1. e \in Waiting(u, c) \cup u.shed \cup B BY <1>8
  <2>2. e \in Waiting(u, c) => e \in Held(u) BY WaitingIsHeld
  <2> QED BY <2>1, <2>2
<1> QED BY <1>3, <1>6, <1>7, <1>8 DEF Keeps

\* A step that leaves the tables alone.
LEMMA SameTables ==
    ASSUME NEW n, NEW u, QueueOK(u, n), NEW v \in QueueState,
           v.queues = u.queues, v.cancelled = u.cancelled, v.withheld = u.withheld,
           v.shed = u.shed, v.returned = u.returned, v.overdue \subseteq v.inFlight
    PROVE  Keeps(u, v, {}, n) /\ QueueOK(v, n) /\ Held(v) = Held(u)
<1>1. \A c \in Channels : Waiting(v, c) = Waiting(u, c)
  BY DEF Waiting
<1>2. \A c \in Channels : ChannelOK(v, c, n)
  BY <1>1 DEF QueueOK, ChannelOK
<1>3. Held(v) = Held(u)
  <2>1. \A e \in Events : ChannelOf[e] \in Channels BY HarnessAssumption
  <2> QED BY <1>1, <2>1 DEF Held
<1>4. QueueOK(v, n) BY <1>2 DEF QueueOK
<1> QED BY <1>3, <1>4 DEF Keeps

\* Two steps in a row.
LEMMA KeepsBoth ==
    ASSUME NEW n, NEW u, NEW v, NEW w, NEW A, NEW B, Keeps(u, v, A, n), Keeps(v, w, B, n)
    PROVE  Keeps(u, w, A \cup B, n)
BY DEF Keeps

\* A queue knows nothing of the event that comes next.
LEMMA NextIsNew ==
    ASSUME NEW n \in 1..NumEvents, NEW u, QueueOK(u, n)
    PROVE  QueueOK(u, n + 1) /\ n \notin Held(u) \cup u.shed
<1>0. n \in Nat /\ n + 1 \in 1..(NumEvents + 1) /\ n \in 1..(NumEvents + 1)
  BY HarnessAssumption
<1>1. \A c \in Channels : Past(c, n) \subseteq Past(c, n + 1) /\ n \notin Past(c, n)
  BY <1>0 DEF Past
<1>2. \A c \in Channels : ChannelOK(u, c, n + 1)
  BY <1>1 DEF QueueOK, ChannelOK
<1>3. u.shed \subseteq 1..((n + 1) - 1) /\ n \notin u.shed
  BY <1>0 DEF QueueOK
<1>4. QueueOK(u, n + 1) BY <1>2, <1>3 DEF QueueOK
<1>5. n \notin Held(u)
  <2>1. \A e \in Events : ChannelOf[e] \in Channels BY HarnessAssumption
  <2> QED BY <2>1, <1>1 DEF Held, QueueOK, ChannelOK
<1> QED BY <1>3, <1>4, <1>5

\* Events put back in front of the queue of their channel.
LEMMA PutFrontKeeps ==
    ASSUME NEW n \in 1..(NumEvents + 1), NEW u, QueueOK(u, n), NEW c \in Channels,
           NEW s \in Seq(Events), Once(s), Elems(s) \subseteq Past(c, n),
           Elems(s) \cap (Held(u) \cup u.shed) = {}
    PROVE  Keeps(u, PutFront(u, c, s), Elems(s), n)
<1> DEFINE v == PutFront(u, c, s)
           t == s \o u.queues[c]
<1>1. u \in QueueState /\ ChannelOK(u, c, n) /\ u.overdue \subseteq u.inFlight BY DEF QueueOK
<1>2. /\ v \in QueueState /\ v.queues[c] = Kept(t)
      /\ v.cancelled = u.cancelled /\ v.withheld = u.withheld
      /\ v.shed = u.shed \cup Popped(t) /\ v.returned = u.returned
      /\ Elsewhere(u, v, c) /\ SameMarks(u, v)
  BY <1>1, PutFrontFields
<1>3. u.queues[c] \in Seq(Events) BY <1>1 DEF QueueState
<1>4. Elems(s) \cap Waiting(u, c) = {} /\ Elems(s) \cap u.shed = {}
  BY WaitingIsHeld
<1>5. t \in Seq(Events) /\ Elems(t) = Elems(s) \cup Elems(u.queues[c]) /\ Once(t)
  BY <1>1, <1>3, <1>4, ElemsOfConcat DEF ChannelOK, Waiting
<1> HIDE DEF v, t
<1>6. /\ Len(Kept(t)) <= MaxPending /\ Once(Kept(t))
      /\ Elems(t) = Elems(Kept(t)) \cup Popped(t) /\ Elems(Kept(t)) \cap Popped(t) = {}
  BY <1>5, ElemsUnderCap
<1>7. /\ Waiting(v, c) = Elems(Kept(t)) \cup Elems(u.cancelled[c]) \cup Elems(u.withheld[c])
      /\ Waiting(u, c) = Elems(u.queues[c]) \cup Elems(u.cancelled[c]) \cup Elems(u.withheld[c])
  BY <1>2 DEF Waiting
<1>8. /\ Waiting(u, c) \subseteq Past(c, n) \ u.shed
      /\ Elems(u.queues[c]) \cap Elems(u.cancelled[c]) = {}
      /\ Elems(u.queues[c]) \cap Elems(u.withheld[c]) = {}
  BY <1>1 DEF ChannelOK
<1>9. /\ Waiting(v, c) \subseteq Past(c, n) \ v.shed
      /\ Elems(Kept(t)) \cap Elems(u.cancelled[c]) = {}
      /\ Elems(Kept(t)) \cap Elems(u.withheld[c]) = {}
      /\ Popped(t) \subseteq Past(c, n)
  BY <1>2, <1>4, <1>5, <1>6, <1>7, <1>8
<1>10. ChannelOK(v, c, n)
  BY <1>1, <1>2, <1>6, <1>9 DEF ChannelOK
<1>11. /\ Waiting(v, c) \cup v.shed \subseteq Waiting(u, c) \cup u.shed \cup Elems(s)
       /\ Waiting(u, c) \cup Elems(s) \subseteq Waiting(v, c) \cup v.shed
  BY <1>2, <1>5, <1>6, <1>7
<1>12. v.overdue \subseteq v.inFlight /\ u.shed \subseteq v.shed /\ u.returned \subseteq v.returned
  BY <1>1, <1>2 DEF SameMarks
<1>13. Keeps(u, v, Elems(s), n)
  BY <1>2, <1>9, <1>10, <1>11, <1>12, OneChannel
<1> QED BY <1>13 DEF v

\* The relay's next event.
LEMMA PushKeeps ==
    ASSUME NEW n \in 1..NumEvents, NEW u, QueueOK(u, n)
    PROVE  Keeps(u, push(u, n), {n}, n + 1)
<1> DEFINE v == push(u, n)
           c == ChannelOf[n]
           x == u.queues[c]
<1>0. n \in Events /\ n + 1 \in 1..(NumEvents + 1) /\ n \in Nat
  BY HarnessAssumption DEF Events
<1>1. QueueOK(u, n + 1) /\ n \notin Held(u) \cup u.shed
  BY NextIsNew
<1>2. u \in QueueState /\ c \in Channels /\ u.overdue \subseteq u.inFlight
  BY <1>0, HarnessAssumption DEF QueueOK
<1>3. /\ v \in QueueState
      /\ v.cancelled = u.cancelled /\ v.withheld = u.withheld
      /\ v.returned = u.returned
      /\ Elsewhere(u, v, c) /\ SameMarks(u, v)
      /\ \/ v.queues[c] = x /\ v.shed = u.shed \cup {n}
         \/ Len(x) < MaxPending /\ v.queues[c] = Append(x, n) /\ v.shed = u.shed
         \/ /\ x # <<>> /\ v.queues[c] = Append(Tail(x), n)
            /\ v.shed = u.shed \cup {Head(x)}
  <2>1. Len(x) \in Nat BY <1>2 DEF QueueState
  <2>2. MaxPending \in Nat BY HarnessAssumption
  <2> QED BY <1>0, <1>2, <2>1, <2>2, PushFields
<1>4. ChannelOK(u, c, n + 1) BY <1>1, <1>2 DEF QueueOK
<1>5. x \in Seq(Events) /\ Once(x) /\ Len(x) <= MaxPending /\ Len(x) \in Nat /\ MaxPending \in Nat
  BY <1>2, <1>4, HarnessAssumption DEF QueueState, ChannelOK
<1>6. n \notin Waiting(u, c) /\ n \notin u.shed
  BY <1>0, <1>1, <1>2, WaitingIsHeld
<1>7. n \in Past(c, n + 1) BY <1>0 DEF Past
<1> HIDE DEF v, x
<1>8. \E y \in Seq(Events), z \in SUBSET Events :
        /\ v.queues[c] = y /\ v.shed = u.shed \cup z
        /\ Once(y) /\ Len(y) <= MaxPending /\ y \in Seq(Events)
        /\ Elems(y) \cup z = Elems(x) \cup {n} /\ Elems(y) \cap z = {}
  <2>0. n \notin Elems(x) BY <1>6 DEF Waiting, x
  <2>1. CASE v.queues[c] = x /\ v.shed = u.shed \cup {n}
    <3>1. {n} \in SUBSET Events /\ Elems(x) \cap {n} = {} BY <2>0, <1>0
    <3> QED BY <3>1, <2>1, <1>5
  <2>2. CASE Len(x) < MaxPending /\ v.queues[c] = Append(x, n) /\ v.shed = u.shed
    <3>1. /\ Append(x, n) \in Seq(Events) /\ Len(Append(x, n)) <= MaxPending
          /\ Elems(Append(x, n)) = Elems(x) \cup {n} /\ Once(Append(x, n))
      BY <2>0, <2>2, <1>0, <1>5, ElemsOfAppend
    <3>2. v.shed = u.shed \cup {} /\ {} \in SUBSET Events BY <2>2
    <3>3. /\ Elems(Append(x, n)) \cup {} = Elems(x) \cup {n}
          /\ Elems(Append(x, n)) \cap {} = {}
      BY <3>1
    <3> QED BY <3>1, <3>2, <3>3, <2>2
  <2>3. CASE x # <<>> /\ v.queues[c] = Append(Tail(x), n) /\ v.shed = u.shed \cup {Head(x)}
    <3>1. /\ Tail(x) \in Seq(Events) /\ Len(Tail(x)) = Len(x) - 1 /\ Head(x) \in Elems(x)
          /\ Elems(x) = Elems(Tail(x)) \cup {Head(x)}
          /\ Once(Tail(x)) /\ Head(x) \notin Elems(Tail(x))
      BY <2>3, <1>5, ElemsOfTail
    <3>2. /\ Append(Tail(x), n) \in Seq(Events) /\ Len(Append(Tail(x), n)) = Len(Tail(x)) + 1
          /\ Elems(Append(Tail(x), n)) = Elems(Tail(x)) \cup {n} /\ Once(Append(Tail(x), n))
      BY <3>1, <2>0, <1>0, ElemsOfAppend
    <3>3. Len(Append(Tail(x), n)) <= MaxPending /\ {Head(x)} \in SUBSET Events
      BY <3>1, <3>2, <1>5, ElemsIn
    <3>4. /\ Elems(Append(Tail(x), n)) \cup {Head(x)} = Elems(x) \cup {n}
          /\ Elems(Append(Tail(x), n)) \cap {Head(x)} = {}
      BY <3>1, <3>2, <2>0
    <3> QED BY <3>2, <3>3, <3>4, <2>3
  <2> QED BY <1>3, <2>1, <2>2, <2>3
<1>9. PICK y \in Seq(Events), z \in SUBSET Events :
        /\ v.queues[c] = y /\ v.shed = u.shed \cup z
        /\ Once(y) /\ Len(y) <= MaxPending /\ y \in Seq(Events)
        /\ Elems(y) \cup z = Elems(x) \cup {n} /\ Elems(y) \cap z = {}
  BY <1>8
<1>10. /\ Waiting(v, c) = Elems(y) \cup Elems(u.cancelled[c]) \cup Elems(u.withheld[c])
       /\ Waiting(u, c) = Elems(x) \cup Elems(u.cancelled[c]) \cup Elems(u.withheld[c])
  BY <1>3, <1>9 DEF Waiting, x
<1>11. /\ Waiting(u, c) \subseteq Past(c, n + 1) \ u.shed
       /\ Elems(x) \cap Elems(u.cancelled[c]) = {}
       /\ Elems(x) \cap Elems(u.withheld[c]) = {}
  BY <1>4 DEF ChannelOK, x
<1>12. /\ Waiting(v, c) \subseteq Past(c, n + 1) \ v.shed
       /\ Elems(y) \cap Elems(u.cancelled[c]) = {}
       /\ Elems(y) \cap Elems(u.withheld[c]) = {}
       /\ v.shed \subseteq u.shed \cup Past(c, n + 1)
  BY <1>6, <1>7, <1>9, <1>10, <1>11
<1>13. ChannelOK(v, c, n + 1)
  BY <1>3, <1>4, <1>9, <1>12 DEF ChannelOK
<1>14. /\ Waiting(v, c) \cup v.shed \subseteq Waiting(u, c) \cup u.shed \cup {n}
       /\ Waiting(u, c) \cup {n} \subseteq Waiting(v, c) \cup v.shed
  BY <1>9, <1>10
<1>15. v.overdue \subseteq v.inFlight /\ u.shed \subseteq v.shed /\ u.returned \subseteq v.returned
  BY <1>2, <1>3, <1>9 DEF SameMarks
<1>16. {n} \subseteq Past(c, n + 1) BY <1>7
<1>17. Keeps(u, v, {n}, n + 1)
  BY <1>0, <1>1, <1>2, <1>3, <1>12, <1>13, <1>14, <1>15, <1>16, OneChannel
<1> QED BY <1>17 DEF v

\* Events that are lost.
LEMMA LoseKeeps ==
    ASSUME NEW n \in 1..(NumEvents + 1), NEW u, QueueOK(u, n), NEW S,
           S \subseteq 1..(n - 1), S \subseteq Events, S \cap Held(u) = {}
    PROVE  Keeps(u, Lose(u, S), S, n)
<1> DEFINE v == Lose(u, S)
<1>1. u \in QueueState /\ u.overdue \subseteq u.inFlight BY DEF QueueOK
<1>2. /\ v \in QueueState
      /\ v.queues = u.queues /\ v.cancelled = u.cancelled /\ v.withheld = u.withheld
      /\ v.shed = u.shed \cup S /\ v.returned = u.returned
      /\ SameMarks(u, v)
  BY <1>1, LoseFields
<1> HIDE DEF v
<1>3. \A c \in Channels : Waiting(v, c) = Waiting(u, c) /\ S \cap Waiting(u, c) = {}
  BY <1>2, WaitingIsHeld DEF Waiting
<1>4. \A c \in Channels : ChannelOK(v, c, n)
  BY <1>2, <1>3 DEF QueueOK, ChannelOK
<1>5. Held(v) = Held(u)
  <2>1. \A e \in Events : ChannelOf[e] \in Channels BY HarnessAssumption
  <2> QED BY <1>3, <2>1 DEF Held
<1>6. QueueOK(v, n) BY <1>1, <1>2, <1>4 DEF QueueOK, SameMarks
<1>7. Keeps(u, v, S, n) BY <1>2, <1>5, <1>6 DEF Keeps
<1> QED BY <1>7 DEF v

\* A batch put back without its cancelled events.
LEMMA PutBackKeeps ==
    ASSUME NEW n \in 1..(NumEvents + 1), NEW u, QueueOK(u, n), NEW c \in Channels, NEW b,
           b.events \in Seq(Events), b.cancelled \in Seq(Events),
           BatchOK(b, c, n), Batch(b) \cap (Held(u) \cup u.shed) = {}
    PROVE  Keeps(u, Lose(PutFront(u, c, b.events), Elems(b.cancelled)), Batch(b), n)
<1> DEFINE w == PutFront(u, c, b.events)
           S == Elems(b.cancelled)
<1>1. /\ Batch(b) \subseteq Past(c, n) /\ Once(b.events)
      /\ Elems(b.events) \cap S = {} /\ Batch(b) = Elems(b.events) \cup S
  BY DEF BatchOK, Batch
<1>2. Keeps(u, w, Elems(b.events), n)
  BY <1>1, PutFrontKeeps
<1>3. S \subseteq Past(c, n) /\ S \subseteq Events BY <1>1, PastIn
<1>4. S \subseteq 1..(n - 1) BY <1>3 DEF Past
<1> HIDE DEF w, S
<1>5. S \cap Held(w) = {} BY <1>1, <1>2 DEF Keeps
<1>6. QueueOK(w, n) BY <1>2 DEF Keeps
<1>7. Keeps(w, Lose(w, S), S, n) BY <1>3, <1>4, <1>5, <1>6, LoseKeeps
<1>8. Keeps(u, Lose(w, S), Elems(b.events) \cup S, n) BY <1>2, <1>7, KeepsBoth
<1> QED BY <1>1, <1>8 DEF w, S

\* What a failed turn brings back is queued again or becomes a dead letter.
LEMMA RequeueKeeps ==
    ASSUME NEW n \in 1..(NumEvents + 1), NEW u, QueueOK(u, n), NEW c \in Channels, NEW b,
           b.events \in Seq(Events), b.cancelled \in Seq(Events),
           BatchOK(b, c, n), Batch(b) \cap (Held(u) \cup u.shed) = {}
    PROVE  Keeps(u, requeue(u, c, b), Batch(b), n)
<1> DEFINE v == requeue(u, c, b)
           w == Lose(PutFront(u, c, b.events), Elems(b.cancelled))
<1>1. u \in QueueState /\ ChannelOK(u, c, n) /\ u.overdue \subseteq u.inFlight BY DEF QueueOK
<1>2. /\ v \in QueueState
      /\ v.inFlight = u.inFlight /\ v.overdue = u.overdue
      /\ v.cancelled = u.cancelled /\ v.withheld = u.withheld
      /\ v.returned = u.returned
      /\ Elsewhere(u, v, c)
      /\ \/ v.queues = u.queues /\ v.shed = u.shed \cup Batch(b)
         \/ /\ v.queues[c] = Kept(b.events \o u.queues[c])
            /\ v.shed = u.shed \cup Popped(b.events \o u.queues[c]) \cup Elems(b.cancelled)
  BY <1>1, RequeueFields
<1>3. Batch(b) \subseteq Past(c, n)
  BY DEF BatchOK
<1>4. Batch(b) \cap Waiting(u, c) = {} /\ Batch(b) \cap u.shed = {}
  BY WaitingIsHeld
<1> HIDE DEF v
<1>5. CASE v.queues = u.queues /\ v.shed = u.shed \cup Batch(b)
  <2>1. Waiting(v, c) = Waiting(u, c) BY <1>2, <1>5 DEF Waiting
  <2>2. ChannelOK(v, c, n) BY <1>1, <1>2, <1>4, <1>5, <2>1 DEF ChannelOK
  <2>3. Keeps(u, v, Batch(b), n)
    BY <1>1, <1>2, <1>3, <1>5, <2>1, <2>2, OneChannel
  <2> QED BY <2>3 DEF v
<1>6. CASE /\ v.queues[c] = Kept(b.events \o u.queues[c])
           /\ v.shed = u.shed \cup Popped(b.events \o u.queues[c]) \cup Elems(b.cancelled)
  <2>2. Keeps(u, w, Batch(b), n)
    BY PutBackKeeps
  <2>3. /\ w \in QueueState
        /\ w.queues[c] = Kept(b.events \o u.queues[c])
        /\ w.cancelled = u.cancelled /\ w.withheld = u.withheld
        /\ w.shed = u.shed \cup Popped(b.events \o u.queues[c]) \cup Elems(b.cancelled)
        /\ w.returned = u.returned
        /\ Elsewhere(u, w, c) /\ SameMarks(u, w)
    BY <1>1, PutBackFields
  <2> HIDE DEF w
  <2>4. v.queues = w.queues
    <3>1. \A d \in Channels : v.queues[d] = w.queues[d] BY <1>2, <1>6, <2>3 DEF Elsewhere
    <3>2. v.queues \in [Channels -> Seq(Events)] /\ w.queues \in [Channels -> Seq(Events)]
      BY <1>2, <2>3 DEF QueueState
    <3> QED BY <3>1, <3>2
  <2>5. QueueOK(w, n) BY <2>2 DEF Keeps
  <2>6. Keeps(w, v, {}, n)
    BY <1>1, <1>2, <1>6, <2>3, <2>4, <2>5, SameTables
  <2>7. Keeps(u, v, Batch(b), n)
    <3>1. Keeps(u, v, Batch(b) \cup {}, n) BY <2>2, <2>6, KeepsBoth
    <3> QED BY <3>1
  <2> QED BY <2>7 DEF v
<1> QED BY <1>2, <1>5, <1>6 DEF v

\* What a turn cut short brings back is stored as cancelled.
LEMMA CancelKeeps ==
    ASSUME NEW n \in 1..(NumEvents + 1), NEW u, QueueOK(u, n), NEW c \in Channels, NEW b,
           b.events \in Seq(Events), b.cancelled \in Seq(Events),
           BatchOK(b, c, n), Batch(b) \cap (Held(u) \cup u.shed) = {}
    PROVE  Keeps(u, requeue_as_cancelled(u, c, b), Batch(b), n)
<1> DEFINE v == requeue_as_cancelled(u, c, b)
           cut == b.cancelled \o b.events
           s == u.cancelled[c] \o cut
<1>1. u \in QueueState /\ ChannelOK(u, c, n) /\ u.overdue \subseteq u.inFlight BY DEF QueueOK
<1>2. /\ v \in QueueState
      /\ v.queues = u.queues /\ v.withheld = u.withheld /\ v.cancelled[c] = s
      /\ v.shed = u.shed /\ v.returned = u.returned
      /\ Elsewhere(u, v, c) /\ SameMarks(u, v)
  <2>1. /\ v \in QueueState
        /\ v.queues = u.queues /\ v.withheld = u.withheld
        /\ v.cancelled[c] = u.cancelled[c] \o (b.cancelled \o b.events)
        /\ v.shed = u.shed /\ v.returned = u.returned
        /\ Elsewhere(u, v, c) /\ SameMarks(u, v)
    BY <1>1, CancelFields, Zenon
  <2> HIDE DEF v
  <2> QED BY <2>1
<1>3. /\ Batch(b) \subseteq Past(c, n) /\ Once(b.events) /\ Once(b.cancelled)
      /\ Elems(b.events) \cap Elems(b.cancelled) = {}
  BY DEF BatchOK
<1>4. Batch(b) \cap Waiting(u, c) = {} /\ Batch(b) \cap u.shed = {}
  BY WaitingIsHeld
<1>5. cut \in Seq(Events) /\ Elems(cut) = Batch(b) /\ Once(cut)
  BY <1>3, ElemsOfConcat DEF Batch
<1>6. u.cancelled[c] \in Seq(Events) /\ Once(u.cancelled[c])
  BY <1>1 DEF QueueState, ChannelOK
<1> HIDE DEF v, cut
<1>7. Elems(s) = Elems(u.cancelled[c]) \cup Batch(b) /\ Once(s)
  BY <1>4, <1>5, <1>6, ElemsOfConcat DEF Waiting
<1> HIDE DEF s
<1>8. Waiting(v, c) = Waiting(u, c) \cup Batch(b)
  BY <1>2, <1>7 DEF Waiting
<1>9. ChannelOK(v, c, n)
  BY <1>1, <1>2, <1>3, <1>4, <1>7, <1>8 DEF ChannelOK, Waiting
<1>10. v.overdue \subseteq v.inFlight BY <1>1, <1>2 DEF SameMarks
<1>11. Keeps(u, v, Batch(b), n)
  BY <1>2, <1>3, <1>8, <1>9, <1>10, OneChannel
<1> QED BY <1>11 DEF v

\* A batch that is let go of.
LEMMA ShedKeeps ==
    ASSUME NEW n \in 1..(NumEvents + 1), NEW u, QueueOK(u, n), NEW S,
           S \subseteq 1..(n - 1), S \subseteq Events, S \cap Held(u) = {}
    PROVE  Keeps(u, Shed(u, S), S, n)
<1> DEFINE v == Shed(u, S)
<1>1. u \in QueueState /\ u.overdue \subseteq u.inFlight BY DEF QueueOK
<1>2. /\ v \in QueueState
      /\ v.queues = u.queues /\ v.cancelled = u.cancelled /\ v.withheld = u.withheld
      /\ v.shed = u.shed \cup S /\ v.returned = u.returned
      /\ SameMarks(u, v)
  BY <1>1, ShedFields
<1> HIDE DEF v
<1>3. \A c \in Channels : Waiting(v, c) = Waiting(u, c) /\ S \cap Waiting(u, c) = {}
  BY <1>2, WaitingIsHeld DEF Waiting
<1>4. \A c \in Channels : ChannelOK(v, c, n)
  BY <1>2, <1>3 DEF QueueOK, ChannelOK
<1>5. Held(v) = Held(u)
  <2>1. \A e \in Events : ChannelOf[e] \in Channels BY HarnessAssumption
  <2> QED BY <1>3, <2>1 DEF Held
<1>6. QueueOK(v, n) BY <1>1, <1>2, <1>4 DEF QueueOK, SameMarks
<1>7. Keeps(u, v, S, n) BY <1>2, <1>5, <1>6 DEF Keeps
<1> QED BY <1>7 DEF v

\* A channel the agent was removed from.
LEMMA DrainKeeps ==
    ASSUME NEW n \in 1..(NumEvents + 1), NEW u, QueueOK(u, n), NEW c \in Channels
    PROVE  Keeps(u, drain_channel(u, c), {}, n)
<1> DEFINE v == drain_channel(u, c)
<1>1. u \in QueueState /\ ChannelOK(u, c, n) /\ u.overdue \subseteq u.inFlight BY DEF QueueOK
<1>2. /\ v \in QueueState
      /\ v.queues[c] = <<>> /\ v.cancelled[c] = <<>> /\ v.withheld[c] = <<>>
      /\ v.shed = u.shed \cup Waiting(u, c) /\ v.returned = u.returned
      /\ v.inFlight = u.inFlight /\ v.overdue = u.overdue
      /\ Elsewhere(u, v, c)
  BY <1>1, DrainFields
<1> HIDE DEF v
<1>3. Waiting(v, c) = {} /\ Len(v.queues[c]) = 0
  BY <1>2, ElemsOfNone DEF Waiting
<1>4. ChannelOK(v, c, n)
  <2>1. /\ Once(v.queues[c]) /\ Once(v.cancelled[c]) /\ Once(v.withheld[c])
        /\ Elems(v.queues[c]) = {} /\ Elems(v.cancelled[c]) = {} /\ Elems(v.withheld[c]) = {}
    BY <1>2, ElemsOfNone
  <2>2. Len(v.queues[c]) <= MaxPending BY <1>3, HarnessAssumption
  <2> QED BY <1>3, <2>1, <2>2 DEF ChannelOK
<1>5. Waiting(u, c) \subseteq Past(c, n) BY <1>1 DEF ChannelOK
<1>6. Keeps(u, v, {}, n)
  BY <1>1, <1>2, <1>3, <1>4, <1>5, OneChannel
<1> QED BY <1>6 DEF v

\* An event sent to the turn as a steer is withheld from the queue.
LEMMA WithholdKeeps ==
    ASSUME NEW n \in 1..(NumEvents + 1), NEW u, QueueOK(u, n), NEW e \in Events
    PROVE  Keeps(u, mark_native_steer_pending(u, e), {}, n)
<1> DEFINE v == mark_native_steer_pending(u, e)
           c == ChannelOf[e]
<1>1. u \in QueueState /\ c \in Channels /\ u.overdue \subseteq u.inFlight
  BY HarnessAssumption DEF QueueOK
<1>2. CASE e \notin Elems(u.queues[c])
  <2>1. v = u BY <1>2 DEF mark_native_steer_pending
  <2> QED BY <2>1 DEF Keeps
<1>3. CASE e \in Elems(u.queues[c])
  <2>1. ChannelOK(u, c, n) /\ Once(u.queues[c]) /\ Once(u.withheld[c])
    BY <1>1 DEF QueueOK, ChannelOK
  <2>2. /\ v \in QueueState
        /\ v.queues[c] = Without(u.queues[c], e)
        /\ v.withheld[c] = Append(u.withheld[c], e)
        /\ v.cancelled = u.cancelled
        /\ v.shed = u.shed /\ v.returned = u.returned
        /\ Elsewhere(u, v, c) /\ SameMarks(u, v)
    BY <1>1, <1>3, <2>1, WithholdFields
  <2> HIDE DEF v, c
  <2>3. u.queues[c] \in Seq(Events) /\ u.withheld[c] \in Seq(Events)
    BY <1>1 DEF QueueState
  <2>4. e \notin Elems(u.withheld[c]) /\ e \notin Elems(u.cancelled[c])
    BY <1>3, <2>1 DEF ChannelOK
  <2>5. /\ Elems(v.queues[c]) = Elems(u.queues[c]) \ {e} /\ Once(v.queues[c])
        /\ Len(v.queues[c]) <= Len(u.queues[c])
    BY <2>1, <2>2, <2>3, ElemsOfWithout
  <2>6. Elems(v.withheld[c]) = Elems(u.withheld[c]) \cup {e} /\ Once(v.withheld[c])
    BY <2>1, <2>2, <2>3, <2>4, ElemsOfAppend
  <2>7. Waiting(v, c) = Waiting(u, c)
    BY <1>3, <2>2, <2>5, <2>6 DEF Waiting
  <2>8. Len(v.queues[c]) <= MaxPending
    <3>1. Len(u.queues[c]) <= MaxPending BY <2>1 DEF ChannelOK
    <3>2. v.queues[c] \in Seq(Events) BY <2>2, <1>1 DEF QueueState
    <3>3. Len(v.queues[c]) \in Nat /\ Len(u.queues[c]) \in Nat /\ MaxPending \in Nat
      BY <3>2, <2>3, HarnessAssumption
    <3> QED BY <3>1, <3>3, <2>5
  <2>9. ChannelOK(v, c, n)
    BY <2>1, <2>2, <2>4, <2>5, <2>6, <2>7, <2>8 DEF ChannelOK
  <2>10. v.overdue \subseteq v.inFlight BY <1>1, <2>2 DEF SameMarks
  <2>11. Keeps(u, v, {}, n)
    BY <1>1, <2>2, <2>7, <2>9, <2>10, OneChannel
  <2> QED BY <2>11 DEF v
<1> QED BY <1>2, <1>3

\* A withheld event goes back to the front of the queue.
LEMMA ReleaseKeeps ==
    ASSUME NEW n \in 1..(NumEvents + 1), NEW u, QueueOK(u, n), NEW e \in Events
    PROVE  Keeps(u, release_native_steer(u, e), {}, n)
<1> DEFINE v == release_native_steer(u, e)
           c == ChannelOf[e]
           t == <<e>> \o u.queues[c]
<1>1. u \in QueueState /\ c \in Channels /\ u.overdue \subseteq u.inFlight
  BY HarnessAssumption DEF QueueOK
<1>2. CASE e \notin Elems(u.withheld[c])
  <2>1. v = u BY <1>2 DEF release_native_steer
  <2> QED BY <2>1 DEF Keeps
<1>3. CASE e \in Elems(u.withheld[c])
  <2>1. ChannelOK(u, c, n) /\ Once(u.queues[c]) /\ Once(u.withheld[c])
    BY <1>1 DEF QueueOK, ChannelOK
  <2>2. /\ v \in QueueState
        /\ v.queues[c] = Kept(t)
        /\ v.withheld[c] = Without(u.withheld[c], e)
        /\ v.cancelled = u.cancelled
        /\ v.shed = u.shed \cup Popped(t) /\ v.returned = u.returned
        /\ Elsewhere(u, v, c) /\ SameMarks(u, v)
    BY <1>1, <1>3, <2>1, ReleaseFields
  <2>3. u.queues[c] \in Seq(Events) /\ u.withheld[c] \in Seq(Events) /\ <<e>> \in Seq(Events)
    BY <1>1 DEF QueueState
  <2>4. e \notin Elems(u.queues[c]) /\ e \notin Elems(u.cancelled[c])
    BY <1>3, <2>1 DEF ChannelOK
  <2>5. Elems(<<e>>) = {e} /\ Once(<<e>>) BY DEF Elems, Once
  <2>6. t \in Seq(Events) /\ Elems(t) = {e} \cup Elems(u.queues[c]) /\ Once(t)
    <3>1. t \in Seq(Events) /\ Elems(t) = Elems(<<e>>) \cup Elems(u.queues[c])
      BY <2>3, ElemsOfConcat
    <3>2. Elems(<<e>>) \cap Elems(u.queues[c]) = {} BY <2>4, <2>5
    <3>3. Once(t) BY <2>1, <2>3, <2>5, <3>2, ElemsOfConcat
    <3> QED BY <2>5, <3>1, <3>3
  <2> HIDE DEF v, c, t
  <2>7. /\ Len(Kept(t)) <= MaxPending /\ Once(Kept(t))
        /\ Elems(t) = Elems(Kept(t)) \cup Popped(t) /\ Elems(Kept(t)) \cap Popped(t) = {}
    BY <2>6, ElemsUnderCap
  <2>8. Elems(v.withheld[c]) = Elems(u.withheld[c]) \ {e} /\ Once(v.withheld[c])
    BY <2>1, <2>2, <2>3, ElemsOfWithout
  <2>9. /\ Waiting(v, c) = Elems(Kept(t)) \cup Elems(u.cancelled[c]) \cup (Elems(u.withheld[c]) \ {e})
        /\ Waiting(u, c) = Elems(u.queues[c]) \cup Elems(u.cancelled[c]) \cup Elems(u.withheld[c])
    BY <2>2, <2>8 DEF Waiting
  <2>10. /\ Waiting(u, c) \subseteq Past(c, n) \ u.shed
         /\ Elems(u.queues[c]) \cap Elems(u.cancelled[c]) = {}
         /\ Elems(u.queues[c]) \cap Elems(u.withheld[c]) = {}
         /\ Elems(u.cancelled[c]) \cap Elems(u.withheld[c]) = {}
    BY <2>1 DEF ChannelOK
  <2>11. Popped(t) \cap (Elems(u.cancelled[c]) \cup (Elems(u.withheld[c]) \ {e})) = {}
    BY <1>3, <2>6, <2>7, <2>10, <2>4
  <2>12. Waiting(v, c) \cup Popped(t) = Waiting(u, c)
    BY <1>3, <2>6, <2>7, <2>9
  <2>13. Waiting(v, c) \subseteq Past(c, n) \ v.shed
    BY <2>2, <2>7, <2>9, <2>10, <2>11, <2>12
  <2>14. /\ Elems(v.queues[c]) \cap Elems(v.cancelled[c]) = {}
         /\ Elems(v.queues[c]) \cap Elems(v.withheld[c]) = {}
         /\ Elems(v.cancelled[c]) \cap Elems(v.withheld[c]) = {}
    BY <2>2, <2>4, <2>6, <2>7, <2>8, <2>10
  <2>15. ChannelOK(v, c, n)
    BY <2>1, <2>2, <2>7, <2>8, <2>13, <2>14 DEF ChannelOK
  <2>16. v.overdue \subseteq v.inFlight BY <1>1, <2>2 DEF SameMarks
  <2>17. Popped(t) \subseteq Past(c, n) BY <2>10, <2>12
  <2>18. Keeps(u, v, {}, n)
    BY <1>1, <2>2, <2>12, <2>15, <2>16, <2>17, OneChannel
  <2> QED BY <2>18 DEF v
<1> QED BY <1>2, <1>3

\* An event an agent accepted as a steer is let go of.
LEMMA RemoveKeeps ==
    ASSUME NEW n \in 1..(NumEvents + 1), NEW u, QueueOK(u, n), NEW e \in Events
    PROVE  Keeps(u, remove_event(u, e), {}, n)
<1> DEFINE v == remove_event(u, e)
           c == ChannelOf[e]
           S == {e} \cap (Elems(u.queues[c]) \cup Elems(u.withheld[c]))
<1>1. u \in QueueState /\ c \in Channels /\ u.overdue \subseteq u.inFlight
  BY HarnessAssumption DEF QueueOK
<1>2. ChannelOK(u, c, n) /\ Once(u.queues[c]) /\ Once(u.withheld[c])
  BY <1>1 DEF QueueOK, ChannelOK
<1>3. /\ v \in QueueState
      /\ v.queues[c] = Without(u.queues[c], e)
      /\ v.withheld[c] = Without(u.withheld[c], e)
      /\ v.cancelled = u.cancelled
      /\ v.shed = u.shed \cup S
      /\ v.returned = u.returned
      /\ Elsewhere(u, v, c) /\ SameMarks(u, v)
  BY <1>1, <1>2, RemoveFields
<1>4. u.queues[c] \in Seq(Events) /\ u.withheld[c] \in Seq(Events)
  BY <1>1 DEF QueueState
<1> HIDE DEF v, c
<1>5. /\ Elems(v.queues[c]) = Elems(u.queues[c]) \ {e} /\ Once(v.queues[c])
      /\ Len(v.queues[c]) <= Len(u.queues[c])
  BY <1>2, <1>3, <1>4, ElemsOfWithout
<1>6. Elems(v.withheld[c]) = Elems(u.withheld[c]) \ {e} /\ Once(v.withheld[c])
  BY <1>2, <1>3, <1>4, ElemsOfWithout
<1>7. Len(v.queues[c]) <= MaxPending
  <2>1. Len(u.queues[c]) <= MaxPending BY <1>2 DEF ChannelOK
  <2>2. v.queues[c] \in Seq(Events) BY <1>3, <1>1 DEF QueueState
  <2>3. Len(v.queues[c]) \in Nat /\ Len(u.queues[c]) \in Nat /\ MaxPending \in Nat
    BY <2>2, <1>4, HarnessAssumption
  <2> QED BY <2>1, <2>3, <1>5
<1>8. /\ Waiting(v, c) = (Elems(u.queues[c]) \ {e}) \cup Elems(u.cancelled[c]) \cup (Elems(u.withheld[c]) \ {e})
      /\ Waiting(u, c) = Elems(u.queues[c]) \cup Elems(u.cancelled[c]) \cup Elems(u.withheld[c])
  BY <1>3, <1>5, <1>6 DEF Waiting
<1>9. /\ Waiting(u, c) \subseteq Past(c, n) \ u.shed
      /\ Elems(u.queues[c]) \cap Elems(u.cancelled[c]) = {}
      /\ Elems(u.queues[c]) \cap Elems(u.withheld[c]) = {}
      /\ Elems(u.cancelled[c]) \cap Elems(u.withheld[c]) = {}
  BY <1>2 DEF ChannelOK
<1>10. Waiting(v, c) \cup S = Waiting(u, c) /\ Waiting(v, c) \cap S = {}
  BY <1>8, <1>9
<1> HIDE DEF S
<1>11. Waiting(v, c) \subseteq Past(c, n) \ v.shed /\ S \subseteq Past(c, n)
  BY <1>3, <1>9, <1>10
<1>12. ChannelOK(v, c, n)
  BY <1>2, <1>3, <1>5, <1>6, <1>7, <1>9, <1>11 DEF ChannelOK
<1>13. v.overdue \subseteq v.inFlight BY <1>1, <1>3 DEF SameMarks
<1>14. Keeps(u, v, {}, n)
  BY <1>1, <1>3, <1>10, <1>11, <1>12, <1>13, OneChannel
<1> QED BY <1>14 DEF v

\* Steers withheld past their channel's deadline go back to its queue.
LEMMA ExpireKeeps ==
    ASSUME NEW n \in 1..(NumEvents + 1), NEW u, QueueOK(u, n)
    PROVE  Keeps(u, expire(u), {}, n)
<1> DEFINE v == expire(u)
           back(c) == IF c \in u.overdue THEN u.withheld[c] ELSE <<>>
           t(c) == back(c) \o u.queues[c]
<1>1. u \in QueueState BY DEF QueueOK
<1>2. /\ v \in QueueState /\ v.overdue = {}
      /\ v.cancelled = u.cancelled /\ u.returned \subseteq v.returned
      /\ \A c \in Channels :
           /\ v.queues[c] = Kept(t(c))
           /\ v.withheld[c] = IF c \in u.overdue THEN <<>> ELSE u.withheld[c]
      /\ v.shed = u.shed \cup UNION {Popped(t(c)) : c \in Channels}
  BY <1>1, ExpireFields
<1> HIDE DEF v
<1>3. ASSUME NEW c \in Channels
      PROVE  /\ Kept(t(c)) \in Seq(Events) /\ Len(Kept(t(c))) <= MaxPending /\ Once(Kept(t(c)))
             /\ Once(v.withheld[c])
             /\ Elems(Kept(t(c))) \cup Popped(t(c)) \cup Elems(v.withheld[c])
                  = Elems(u.queues[c]) \cup Elems(u.withheld[c])
             /\ Elems(Kept(t(c))) \cap Popped(t(c)) = {}
             /\ Elems(v.withheld[c]) \cap (Elems(Kept(t(c))) \cup Popped(t(c))) = {}
  <2>1. ChannelOK(u, c, n) BY DEF QueueOK
  <2>2. u.queues[c] \in Seq(Events) /\ u.withheld[c] \in Seq(Events) BY <1>1 DEF QueueState
  <2>3. /\ Once(u.queues[c]) /\ Once(u.withheld[c])
        /\ Elems(u.queues[c]) \cap Elems(u.withheld[c]) = {}
    BY <2>1 DEF ChannelOK
  <2>4. /\ back(c) \in Seq(Events) /\ Once(back(c)) /\ Once(v.withheld[c])
        /\ Elems(back(c)) \cup Elems(v.withheld[c]) = Elems(u.withheld[c])
        /\ Elems(back(c)) \cap Elems(v.withheld[c]) = {}
    <3>1. CASE c \in u.overdue
      BY <3>1, <1>2, <2>2, <2>3, ElemsOfNone
    <3>2. CASE c \notin u.overdue
      BY <3>2, <1>2, <2>2, <2>3, ElemsOfNone
    <3> QED BY <3>1, <3>2
  <2> HIDE DEF back
  <2>5. t(c) \in Seq(Events) /\ Elems(t(c)) = Elems(back(c)) \cup Elems(u.queues[c]) /\ Once(t(c))
    BY <2>2, <2>3, <2>4, ElemsOfConcat
  <2> HIDE DEF t
  <2>6. /\ Kept(t(c)) \in Seq(Events) /\ Len(Kept(t(c))) <= MaxPending /\ Once(Kept(t(c)))
        /\ Elems(t(c)) = Elems(Kept(t(c))) \cup Popped(t(c))
        /\ Elems(Kept(t(c))) \cap Popped(t(c)) = {}
    BY <2>5, ElemsUnderCap
  <2> QED BY <2>3, <2>4, <2>5, <2>6
<1> HIDE DEF t
<1>4. ASSUME NEW c \in Channels
      PROVE  /\ Waiting(v, c) \cup Popped(t(c)) = Waiting(u, c)
             /\ Waiting(v, c) \cap Popped(t(c)) = {}
             /\ Popped(t(c)) \subseteq Past(c, n)
  <2>1. ChannelOK(u, c, n) BY DEF QueueOK
  <2>2. /\ Waiting(v, c) = Elems(Kept(t(c))) \cup Elems(u.cancelled[c]) \cup Elems(v.withheld[c])
        /\ Waiting(u, c) = Elems(u.queues[c]) \cup Elems(u.cancelled[c]) \cup Elems(u.withheld[c])
    BY <1>2 DEF Waiting
  <2>3. Waiting(u, c) \subseteq Past(c, n)
    BY <2>1 DEF ChannelOK
  <2>4. /\ Elems(u.queues[c]) \cap Elems(u.cancelled[c]) = {}
        /\ Elems(u.cancelled[c]) \cap Elems(u.withheld[c]) = {}
    BY <2>1 DEF ChannelOK
  <2>5. Waiting(v, c) \cup Popped(t(c)) = Waiting(u, c) BY <2>2, <1>3
  <2>6. Popped(t(c)) \cap Elems(u.cancelled[c]) = {} BY <2>4, <1>3
  <2>7. Waiting(v, c) \cap Popped(t(c)) = {} BY <2>2, <2>6, <1>3
  <2> QED BY <2>3, <2>5, <2>7
<1>5. ASSUME NEW c \in Channels PROVE ChannelOK(v, c, n)
  <2>1. ChannelOK(u, c, n) BY DEF QueueOK
  <2>2. \A d \in Channels : d # c => Past(c, n) \cap Past(d, n) = {} BY DEF Past
  <2>3. Waiting(v, c) \subseteq Past(c, n) \ u.shed BY <1>4, <2>1 DEF ChannelOK
  <2>4. \A d \in Channels : Waiting(v, c) \cap Popped(t(d)) = {} BY <1>4, <2>2, <2>3
  <2>5. Waiting(v, c) \subseteq Past(c, n) \ v.shed BY <1>2, <2>3, <2>4
  <2>6. v.queues[c] = Kept(t(c)) /\ v.cancelled[c] = u.cancelled[c] BY <1>2
  <2>7. /\ Elems(v.queues[c]) \cap Elems(v.cancelled[c]) = {}
        /\ Elems(v.queues[c]) \cap Elems(v.withheld[c]) = {}
        /\ Elems(v.cancelled[c]) \cap Elems(v.withheld[c]) = {}
    BY <2>1, <2>6, <1>3 DEF ChannelOK
  <2> QED BY <1>2, <1>3, <2>1, <2>5, <2>6, <2>7 DEF ChannelOK
<1>6. UNION {Popped(t(c)) : c \in Channels} \subseteq Held(u)
  <2>1. ASSUME NEW c \in Channels, NEW e \in Popped(t(c)) PROVE e \in Held(u)
    BY <2>1, <1>4, WaitingIsHeld
  <2> QED BY <2>1
<1>7. v.shed \subseteq 1..(n - 1)
  BY <1>2, <1>4 DEF QueueOK, Past
<1>8. QueueOK(v, n) BY <1>2, <1>5, <1>7 DEF QueueOK
<1>9. \A e \in Events : ChannelOf[e] \in Channels BY HarnessAssumption
<1>10. Held(v) \subseteq Held(u) BY <1>4, <1>9 DEF Held
<1>11. Held(u) \subseteq Held(v) \cup v.shed BY <1>2, <1>4, <1>9 DEF Held
<1>12. Keeps(u, v, {}, n) BY <1>2, <1>6, <1>8, <1>10, <1>11 DEF Keeps
<1> QED BY <1>12 DEF v

\* A batch leaves the queue as a whole.
LEMMA FlushGives ==
    ASSUME NEW n \in 1..(NumEvents + 1), NEW u, QueueOK(u, n), NEW c \in Channels,
           c \in ReadyChannels(u) \cup CancelledChannels(u)
    PROVE  LET v == flush_next(u, c)
               b == FlushBatch(u, c)
           IN
           /\ QueueOK(v, n) /\ v.shed = u.shed /\ v.returned = u.returned
           /\ b.events \in Seq(Events) /\ b.cancelled \in Seq(Events) /\ b.events # <<>>
           /\ BatchOK(b, c, n)
           /\ Held(u) = Held(v) \cup Batch(b) /\ Held(v) \cap Batch(b) = {}
<1> DEFINE v == flush_next(u, c)
           b == FlushBatch(u, c)
           x == u.queues[c]
           k == Taken(u, c)
           rest == SubSeq(x, k + 1, Len(x))
<1>1. u \in QueueState /\ ChannelOK(u, c, n) /\ u.overdue \subseteq u.inFlight
  BY DEF QueueOK
<1>2. /\ x \in Seq(Events) /\ u.cancelled[c] \in Seq(Events) /\ Once(x) /\ Once(u.cancelled[c])
      /\ Len(x) <= MaxPending /\ Len(x) \in Nat /\ MaxPending \in Nat
  BY <1>1, HarnessAssumption DEF QueueState, ChannelOK
<1>3. /\ v \in QueueState /\ k \in 0..Len(x)
      /\ v.queues[c] = IF c \in ReadyChannels(u) THEN rest ELSE x
      /\ v.cancelled[c] = <<>> /\ v.withheld = u.withheld
      /\ v.shed = u.shed /\ v.returned = u.returned
      /\ v.inFlight = u.inFlight \cup {c} /\ v.overdue = u.overdue \ {c}
      /\ Elsewhere(u, v, c)
  BY <1>1, FlushFields
<1>4. /\ b.events \in Seq(Events) /\ b.cancelled \in Seq(Events) /\ b.events # <<>>
      /\ Once(b.events) /\ Once(b.cancelled) /\ Once(v.queues[c])
      /\ Len(v.queues[c]) <= MaxPending
      /\ Elems(b.events) \cup Elems(b.cancelled) \cup Elems(v.queues[c]) =
           Elems(x) \cup Elems(u.cancelled[c])
      /\ Elems(b.events) \cap Elems(b.cancelled) = {}
      /\ Elems(v.queues[c]) \cap (Elems(b.events) \cup Elems(b.cancelled)) = {}
  <2>0. Elems(x) \cap Elems(u.cancelled[c]) = {}
    BY <1>1 DEF ChannelOK
  <2>1. CASE c \in ReadyChannels(u)
    <3> DEFINE f == SubSeq(x, 1, k)
    <3>1. b.events = SortByCreation(f) /\ b.cancelled = u.cancelled[c]
      BY <2>1 DEF FlushBatch
    <3>2. v.queues[c] = rest BY <1>3, <2>1
    <3>3. /\ f \in Seq(Events) /\ rest \in Seq(Events)
          /\ Len(f) = k /\ Len(rest) = Len(x) - k
          /\ Elems(x) = Elems(f) \cup Elems(rest)
          /\ Once(f) /\ Once(rest) /\ Elems(f) \cap Elems(rest) = {}
      BY <1>2, <1>3, ElemsOfCut
    <3> HIDE DEF f, rest
    <3>4. /\ b.events \in Seq(Events) /\ Elems(b.events) = Elems(f) /\ Once(b.events)
      BY <3>1, <3>3, ElemsOfSort
    <3>5. k # 0
      <4>1. x # <<>> /\ Len(x) # 0 BY <2>1, <1>2 DEF ReadyChannels
      <4> QED BY <4>1, <1>2, HarnessAssumption DEF Taken, Smaller
    <3>6. Elems(f) # {}
      <4>1. f # <<>> BY <3>3, <3>5
      <4> QED BY <4>1, <3>3, ElemsIn
    <3>7. b.events # <<>> BY <3>4, <3>6, ElemsIn
    <3>8. Len(rest) <= MaxPending BY <3>3, <1>2, <1>3
    <3> HIDE DEF b, x
    <3> QED BY <3>1, <3>2, <3>3, <3>4, <3>7, <3>8, <2>0, <1>2
  <2>2. CASE c \notin ReadyChannels(u)
    <3>1. b.events = u.cancelled[c] /\ b.cancelled = <<>> /\ v.queues[c] = x
      BY <1>3, <2>2 DEF FlushBatch
    <3>2. u.cancelled[c] # <<>> BY <2>2 DEF CancelledChannels
    <3>3. <<>> \in Seq(Events) OBVIOUS
    <3> HIDE DEF b, v, x
    <3> QED BY <3>1, <3>2, <3>3, <2>0, <1>2, ElemsOfNone
  <2> QED BY <2>1, <2>2
<1> HIDE DEF v, b, rest
<1>5. /\ Waiting(v, c) = Elems(v.queues[c]) \cup Elems(u.withheld[c])
      /\ Waiting(u, c) = Elems(x) \cup Elems(u.cancelled[c]) \cup Elems(u.withheld[c])
  BY <1>3, ElemsOfNone DEF Waiting
<1>6. /\ Waiting(u, c) \subseteq Past(c, n) \ u.shed
      /\ Elems(x) \cap Elems(u.withheld[c]) = {}
      /\ Elems(u.cancelled[c]) \cap Elems(u.withheld[c]) = {}
  BY <1>1 DEF ChannelOK
<1>7. Waiting(u, c) = Waiting(v, c) \cup Batch(b) /\ Waiting(v, c) \cap Batch(b) = {}
  BY <1>4, <1>5, <1>6 DEF Batch
<1>8. BatchOK(b, c, n)
  BY <1>4, <1>6, <1>7 DEF BatchOK
<1>9. ChannelOK(v, c, n)
  <2>1. Waiting(v, c) \subseteq Past(c, n) \ v.shed BY <1>3, <1>6, <1>7
  <2>2. Elems(v.queues[c]) \cap Elems(v.withheld[c]) = {} BY <1>3, <1>4, <1>6
  <2>3. Elems(v.cancelled[c]) = {} /\ Once(v.cancelled[c]) BY <1>3, ElemsOfNone
  <2>4. Once(v.withheld[c]) BY <1>1, <1>3 DEF ChannelOK
  <2> QED BY <1>4, <2>1, <2>2, <2>3, <2>4 DEF ChannelOK
<1>10. ASSUME NEW d \in Channels \ {c} PROVE Waiting(v, d) = Waiting(u, d) /\ ChannelOK(v, d, n)
  <2>1. /\ v.queues[d] = u.queues[d] /\ v.cancelled[d] = u.cancelled[d]
        /\ v.withheld[d] = u.withheld[d]
    BY <1>3 DEF Elsewhere
  <2>2. ChannelOK(u, d, n) BY DEF QueueOK
  <2>3. Waiting(v, d) = Waiting(u, d) BY <2>1 DEF Waiting
  <2> QED BY <1>3, <2>1, <2>2, <2>3 DEF ChannelOK
<1>11. QueueOK(v, n)
  BY <1>1, <1>3, <1>9, <1>10 DEF QueueOK
<1>12. \A e \in Events : ChannelOf[e] \in Channels BY HarnessAssumption
<1>13. \A e \in Batch(b) : e \in Events /\ ChannelOf[e] = c
  BY <1>6, <1>7, PastIn DEF Past
<1>14. Held(u) = Held(v) \cup Batch(b)
  <2>1. ASSUME NEW e \in Events, ChannelOf[e] = c PROVE e \in Held(u) <=> e \in Held(v) \cup Batch(b)
    BY <2>1, <1>7 DEF Held
  <2>2. ASSUME NEW e \in Events, ChannelOf[e] # c PROVE e \in Held(u) <=> e \in Held(v) \cup Batch(b)
    BY <2>2, <1>10, <1>12, <1>13 DEF Held
  <2>3. Held(u) \subseteq Events /\ Held(v) \subseteq Events /\ Batch(b) \subseteq Events
    BY <1>13 DEF Held
  <2> QED BY <2>1, <2>2, <2>3
<1>15. Held(v) \cap Batch(b) = {}
  BY <1>7, <1>13 DEF Held
<1> QED BY <1>3, <1>4, <1>8, <1>11, <1>14, <1>15 DEF v, b

-----------------------------------------------------------------------------
(* Prompt tasks *)

\* A turn keeps its channel and its batch until it is handled.
SameTurns ==
    \A s \in Slots : /\ tasks'[s].ch = tasks[s].ch
                     /\ tasks'[s].events = tasks[s].events
                     /\ tasks'[s].cancelled = tasks[s].cancelled
                     /\ tasks'[s].phase = "none" <=> tasks[s].phase = "none"
                     /\ tasks[s].phase = "none" => tasks'[s] = tasks[s]

\* What a turn's end makes of its task.
Ended(t, r) ==
    /\ r \in TaskState
    /\ r.ch = t.ch /\ r.events = t.events /\ r.cancelled = t.cancelled
    /\ r.rx = "closed" /\ r.box = NoEvent /\ r.sent = NoEvent

\* The task of one slot changes.
LEMMA OneTask ==
    ASSUME tasks \in [Slots -> TaskState], NEW s \in Slots, NEW t \in TaskState,
           tasks' = [tasks EXCEPT ![s] = t]
    PROVE  /\ tasks' \in [Slots -> TaskState]
           /\ tasks'[s] = t
           /\ \A r \in Slots \ {s} : tasks'[r] = tasks[r]
OBVIOUS

\* The steer receiver of a turn is dropped.
LEMMA CloseSteerFields ==
    ASSUME NEW t \in TaskState, NEW p \in {"prompting", "done", "panicked"}
    PROVE  /\ Ended(t, [CloseSteer(t) EXCEPT !.phase = p])
           /\ [CloseSteer(t) EXCEPT !.phase = p].phase = p
<1>1. CloseSteer(t) \in TaskState
  BY DEF CloseSteer, TaskState
<1>2. [CloseSteer(t) EXCEPT !.phase = p] \in TaskState
  BY <1>1 DEF TaskState, Running
<1> QED BY <1>1, <1>2 DEF CloseSteer, TaskState, Ended

\* The task that waits with its result.
LEMMA ResultFields ==
    ASSUME NEW t \in TaskState, NEW o \in Outcomes,
           NEW b \in {"no", "yes"}
    PROVE  LET r == [CloseSteer(t) EXCEPT !.phase = "done", !.outcome = o, !.back = b] IN
           /\ Ended(t, r) /\ r.phase = "done"
<1> DEFINE y == CloseSteer(t)
<1>1. y \in TaskState
  BY DEF CloseSteer, TaskState
<1> HIDE DEF y
<1>2. [y EXCEPT !.phase = "done", !.outcome = o, !.back = b] \in TaskState
  <2> DEFINE a == [y EXCEPT !.phase = "done"]
             z == [a EXCEPT !.outcome = o]
  <2>1. a \in TaskState BY <1>1 DEF TaskState
  <2> HIDE DEF a
  <2>2. z \in TaskState BY <2>1 DEF TaskState
  <2> HIDE DEF z
  <2>3. [z EXCEPT !.back = b] \in TaskState BY <2>2, SMTT(30) DEF TaskState
  <2> QED BY <2>3 DEF a, z
<1> USE DEF y
<1> QED BY <1>1, <1>2 DEF CloseSteer, TaskState, Ended

\* A turn that sends its result: its batch stays with it.
LEMMA SendResultStep ==
    ASSUME Types, NEW s \in Slots, TaskOn(s),
           NEW o \in Outcomes,
           NEW b \in {"no", "yes"}, NEW held \in SUBSET sessions[s],
           SendResult(s, o, b, held)
    PROVE  /\ tasks' \in [Slots -> TaskState] /\ SameTurns
           /\ Ended(tasks[s], tasks'[s]) /\ tasks'[s].phase = "done"
           /\ \A r \in Slots \ {s} : tasks'[r] = tasks[r]
           /\ acks' = acks \cup Unanswered(tasks[s])
           /\ sessions' \in [Slots -> SUBSET Channels]
           /\ \A r \in Slots : sessions'[r] \subseteq sessions[r]
           /\ UNCHANGED <<config, pc, next, q, idle, respawnVars, removed, life, steered, late, commands>>
<1> DEFINE t == tasks[s]
           r == [CloseSteer(t) EXCEPT !.phase = "done", !.outcome = o, !.back = b]
<1>1. tasks \in [Slots -> TaskState] /\ t \in TaskState /\ sessions \in [Slots -> SUBSET Channels]
  BY DEF Types
<1>2. Ended(t, r) /\ r.phase = "done" BY <1>1, ResultFields
<1>3. tasks' = [tasks EXCEPT ![s] = r] BY DEF SendResult
<1>4. r \in TaskState BY <1>2 DEF Ended
<1> HIDE DEF r
<1>5. /\ tasks' \in [Slots -> TaskState] /\ tasks'[s] = r
      /\ \A x \in Slots \ {s} : tasks'[x] = tasks[x]
  BY <1>1, <1>3, <1>4, OneTask
<1>6. SameTurns
  BY <1>2, <1>5 DEF SameTurns, Ended, TaskOn
<1>7. /\ sessions' \in [Slots -> SUBSET Channels]
      /\ \A x \in Slots : sessions'[x] \subseteq sessions[x]
  BY <1>1 DEF SendResult
<1>8. /\ acks' = acks \cup Unanswered(tasks[s])
      /\ UNCHANGED <<config, pc, next, q, idle, respawnVars, removed, life, steered, late, commands>>
  BY DEF SendResult
<1> QED BY <1>2, <1>5, <1>6, <1>7, <1>8

\* A step of a turn of slot s by itself.
TurnStep(s) ==
    /\ TaskOn(s)
    /\ tasks' \in [Slots -> TaskState] /\ SameTurns
    /\ \A r \in Slots \ {s} : tasks'[r] = tasks[r]
    /\ tasks'[s].rx \in {tasks[s].rx, "closed"}
    /\ sessions' \in [Slots -> SUBSET Channels]
    /\ \A r \in Slots \ {s} : sessions'[r] = sessions[r]
    /\ faults' \in 0..config.maxFaults
    /\ UNCHANGED <<config, pc, next, q, idle, respawnVars, removed, life, late, commands>>

\* A failure is counted, and the configuration bounds how many there are.
LEMMA SpendCounts ==
    ASSUME Types, Spend
    PROVE  faults' \in 0..config.maxFaults
<1>1. config.maxFaults \in Nat BY HarnessAssumption DEF Types
<1>2. faults \in 0..config.maxFaults BY DEF Types
<1> QED BY <1>1, <1>2 DEF Spend

\* The result of a turn is such a step.
LEMMA SendResultIsTurn ==
    ASSUME Types, NEW s \in Slots, TaskOn(s), NEW o \in Outcomes,
           NEW b \in {"no", "yes"}, NEW held \in SUBSET sessions[s],
           SendResult(s, o, b, held), faults' \in 0..config.maxFaults
    PROVE  TurnStep(s)
<1>1. /\ tasks' \in [Slots -> TaskState] /\ SameTurns
      /\ Ended(tasks[s], tasks'[s])
      /\ \A r \in Slots \ {s} : tasks'[r] = tasks[r]
      /\ sessions' \in [Slots -> SUBSET Channels]
      /\ UNCHANGED <<config, pc, next, q, idle, respawnVars, removed, life, steered, late, commands>>
  BY SendResultStep
<1>2. sessions \in [Slots -> SUBSET Channels] BY DEF Types
<1>3. \A r \in Slots \ {s} : sessions'[r] = sessions[r] BY <1>2 DEF SendResult
<1> QED BY <1>1, <1>3 DEF TurnStep, Ended

\* The ends of a turn as results.
LEMMA TurnEnds ==
    ASSUME Types, NEW s \in Slots, TurnCompletes(s) \/ TurnFails(s) \/ TurnIsCut(s)
    PROVE  /\ TaskOn(s)
           /\ \E o \in Outcomes, b \in {"no", "yes"}, held \in SUBSET sessions[s] :
                SendResult(s, o, b, held)
           /\ faults' \in 0..config.maxFaults
<1>0. faults \in 0..config.maxFaults /\ sessions[s] \subseteq Channels BY DEF Types
<1>1. CASE TurnCompletes(s)
  BY <1>0, <1>1 DEF TurnCompletes, TaskOn, Outcomes
<1>2. CASE TurnFails(s)
  <2>1. TaskOn(s) BY <1>2 DEF TurnFails, TaskOn, Running
  <2>2. Spend BY <1>2 DEF TurnFails
  <2>3. faults' \in 0..config.maxFaults BY <2>2, SpendCounts
  <2>4. \A o : IfQueue(o) \in {"no", "yes"} BY DEF IfQueue
  <2>5. PICK o \in {"error", "auth", "fatal", "hard"} :
          \E held \in CASE o \in {"fatal", "hard"} -> {{}}
                        [] tasks[s].phase = "starting" -> {sessions[s]}
                        [] tasks[s].phase = "greeting" -> {sessions[s] \ {tasks[s].ch}}
                        [] OTHER -> {sessions[s], sessions[s] \ {tasks[s].ch}} :
            SendResult(s, o, IfQueue(o), held)
    BY <1>2 DEF TurnFails
  <2>6. o \in Outcomes BY DEF Outcomes
  <2>7. PICK held \in CASE o \in {"fatal", "hard"} -> {{}}
                        [] tasks[s].phase = "starting" -> {sessions[s]}
                        [] tasks[s].phase = "greeting" -> {sessions[s] \ {tasks[s].ch}}
                        [] OTHER -> {sessions[s], sessions[s] \ {tasks[s].ch}} :
            SendResult(s, o, IfQueue(o), held)
    BY <2>5
  <2>8. held \in SUBSET sessions[s]
    <3>1. CASE o \in {"fatal", "hard"} BY <2>7, <3>1
    <3>2. CASE o \notin {"fatal", "hard"} /\ tasks[s].phase = "starting" BY <2>7, <3>2
    <3>3. CASE o \notin {"fatal", "hard"} /\ tasks[s].phase = "greeting" BY <2>7, <3>3
    <3>4. CASE /\ o \notin {"fatal", "hard"}
               /\ tasks[s].phase # "starting" /\ tasks[s].phase # "greeting"
      BY <2>7, <3>4
    <3> QED BY <3>1, <3>2, <3>3, <3>4
  <2> QED BY <2>1, <2>3, <2>4, <2>6, <2>7, <2>8
<1>3. CASE TurnIsCut(s)
  <2>1. TaskOn(s) BY <1>3 DEF TurnIsCut, TaskOn
  <2>2. faults' \in 0..config.maxFaults BY <1>0, <1>3, SpendCounts DEF TurnIsCut
  <2>3. \A c : Requeued(c) \in {"no", "yes"} BY DEF Requeued, IfQueue
  <2>4. sessions[s] \ {tasks[s].ch} \in SUBSET sessions[s] /\ sessions[s] \in SUBSET sessions[s]
    OBVIOUS
  <2>5. CASE SendResult(s, "cancelled", Requeued(tasks[s].ctl), sessions[s] \ {tasks[s].ch})
    BY <2>1, <2>2, <2>3, <2>4, <2>5 DEF Outcomes
  <2>6. CASE \E o \in {"drain", "fatal", "error"} :
               SendResult(s, o, Requeued(tasks[s].ctl), sessions[s] \ {tasks[s].ch})
    BY <2>1, <2>2, <2>3, <2>4, <2>6 DEF Outcomes
  <2>7. CASE \E held \in {sessions[s] \ {tasks[s].ch}, sessions[s]} : SendResult(s, "ok", "no", held)
    BY <2>1, <2>2, <2>4, <2>7 DEF Outcomes
  <2> QED BY <1>3, <2>5, <2>6, <2>7 DEF TurnIsCut
<1> QED BY <1>1, <1>2, <1>3

\* Every step a turn takes is a TurnStep.
LEMMA TurnSteps ==
    ASSUME Types, NEW s \in Slots,
           \/ SessionReady(s) \/ GreetingDone(s) \/ ReadSteer(s) \/ AnswerSteer(s)
           \/ TurnCompletes(s) \/ TurnFails(s) \/ TaskPanics(s) \/ TurnIsCut(s)
    PROVE  TurnStep(s)
<1> DEFINE t == tasks[s]
<1>0. /\ tasks \in [Slots -> TaskState] /\ t \in TaskState
      /\ sessions \in [Slots -> SUBSET Channels] /\ faults \in 0..config.maxFaults
  BY DEF Types
<1>1. CASE SessionReady(s)
  <2> DEFINE p == IF config.greeting = "initial_message" /\ t.ch # Heartbeat /\ t.ch \notin sessions[s]
                  THEN "greeting" ELSE "prompting"
             r == [t EXCEPT !.phase = p]
  <2>1. p \in Running /\ p # "none" BY DEF Running
  <2>2. tasks' = [tasks EXCEPT ![s] = r] /\ t.phase = "starting"
    BY <1>1 DEF SessionReady
  <2>3. /\ sessions' = [sessions EXCEPT ![s] = @ \cup ({t.ch} \cap Channels)]
        /\ UNCHANGED <<config, pc, next, q, idle, respawnVars, removed, life, late, faults, commands>>
    BY <1>1 DEF SessionReady
  <2> HIDE DEF p
  <2>4. r \in TaskState /\ r.ch = t.ch /\ r.events = t.events /\ r.cancelled = t.cancelled
        /\ r.phase = p /\ r.rx = t.rx
    BY <1>0, <2>1 DEF TaskState
  <2> HIDE DEF r
  <2>5. /\ tasks' \in [Slots -> TaskState] /\ tasks'[s] = r
        /\ \A x \in Slots \ {s} : tasks'[x] = tasks[x]
    BY <1>0, <2>2, <2>4, OneTask
  <2>6. SameTurns BY <2>1, <2>2, <2>4, <2>5 DEF SameTurns
  <2>7. sessions' \in [Slots -> SUBSET Channels] /\ \A x \in Slots \ {s} : sessions'[x] = sessions[x]
    BY <1>0, <2>3
  <2>8. TaskOn(s) BY <2>2 DEF TaskOn
  <2> QED BY <1>0, <2>3, <2>4, <2>5, <2>6, <2>7, <2>8 DEF TurnStep
<1>2. CASE GreetingDone(s) \/ TaskPanics(s)
  <2>1. PICK p \in {"prompting", "done", "panicked"} :
          tasks' = [tasks EXCEPT ![s] = [CloseSteer(t) EXCEPT !.phase = p]]
    BY <1>2 DEF GreetingDone, TaskPanics
  <2> DEFINE r == [CloseSteer(t) EXCEPT !.phase = p]
  <2>2. Ended(t, r) /\ r.phase = p BY <1>0, CloseSteerFields
  <2>3. TaskOn(s) /\ faults' \in 0..config.maxFaults
    BY <1>0, <1>2, SpendCounts DEF GreetingDone, TaskPanics, TaskOn, Running
  <2>4. UNCHANGED <<config, pc, next, q, idle, sessions, respawnVars, removed, life, late, commands>>
    BY <1>2 DEF GreetingDone, TaskPanics
  <2>5. r \in TaskState BY <2>2 DEF Ended
  <2> HIDE DEF r
  <2>6. /\ tasks' \in [Slots -> TaskState] /\ tasks'[s] = r
        /\ \A x \in Slots \ {s} : tasks'[x] = tasks[x]
    BY <1>0, <2>1, <2>5, OneTask DEF r
  <2>7. SameTurns BY <2>2, <2>3, <2>6 DEF SameTurns, Ended, TaskOn
  <2> QED BY <1>0, <2>2, <2>3, <2>4, <2>6, <2>7 DEF TurnStep, Ended
<1>3. CASE ReadSteer(s) \/ AnswerSteer(s)
  <2>1. PICK x \in Events \cup {NoEvent}, y \in Events \cup {NoEvent} :
          tasks' = [tasks EXCEPT ![s] = [t EXCEPT !.box = x, !.sent = y]]
    <3>1. t.box \in Events \cup {NoEvent} /\ t.sent \in Events \cup {NoEvent} BY <1>0 DEF TaskState
    <3>2. CASE ReadSteer(s) /\ tasks' = [tasks EXCEPT ![s].box = NoEvent, ![s].sent = t.box]
      BY <3>1, <3>2, <1>0
    <3>3. CASE tasks' = [tasks EXCEPT ![s].box = NoEvent]
      <4>1. [t EXCEPT !.box = NoEvent] = [t EXCEPT !.box = NoEvent, !.sent = t.sent]
        BY <1>0 DEF TaskState
      <4> QED BY <3>1, <3>3, <4>1
    <3>4. CASE AnswerSteer(s)
      <4>1. [t EXCEPT !.sent = NoEvent] = [t EXCEPT !.box = t.box, !.sent = NoEvent]
        BY <1>0 DEF TaskState
      <4> QED BY <3>1, <3>4, <4>1 DEF AnswerSteer
    <3> QED BY <1>3, <3>2, <3>3, <3>4 DEF ReadSteer
  <2> DEFINE r == [t EXCEPT !.box = x, !.sent = y]
  <2>2. r \in TaskState /\ r.ch = t.ch /\ r.events = t.events /\ r.cancelled = t.cancelled
        /\ r.phase = t.phase /\ r.rx = t.rx
    BY <1>0 DEF TaskState
  <2>3. TaskOn(s) BY <1>3 DEF ReadSteer, AnswerSteer, TaskOn
  <2>4. UNCHANGED <<config, pc, next, q, idle, sessions, respawnVars, removed, life, late, faults, commands>>
    BY <1>3 DEF ReadSteer, AnswerSteer
  <2> HIDE DEF r
  <2>5. /\ tasks' \in [Slots -> TaskState] /\ tasks'[s] = r
        /\ \A z \in Slots \ {s} : tasks'[z] = tasks[z]
    BY <1>0, <2>1, <2>2, OneTask DEF r
  <2>6. SameTurns BY <2>2, <2>3, <2>5 DEF SameTurns, TaskOn
  <2> QED BY <1>0, <2>2, <2>3, <2>4, <2>5, <2>6 DEF TurnStep
<1>4. CASE TurnCompletes(s) \/ TurnFails(s) \/ TurnIsCut(s)
  BY <1>4, TurnEnds, SendResultIsTurn
<1> QED BY <1>1, <1>2, <1>3, <1>4

\* The control oneshots of turns: all else stays.
OnlySignals ==
    /\ tasks' \in [Slots -> TaskState]
    /\ \A s \in Slots : /\ tasks'[s].ch = tasks[s].ch
                        /\ tasks'[s].events = tasks[s].events
                        /\ tasks'[s].cancelled = tasks[s].cancelled
                        /\ tasks'[s].phase = tasks[s].phase
                        /\ tasks'[s].rx = tasks[s].rx
                        /\ tasks'[s].box = tasks[s].box
                        /\ tasks'[s].sent = tasks[s].sent
                        /\ tasks[s].phase = "none" => tasks'[s] = tasks[s]

\* A signal goes to a turn that runs, and to an idle slot never.
LEMMA SignalOne ==
    ASSUME Types, NEW s \in Slots, TaskOn(s), NEW x \in Signals,
           tasks' = [tasks EXCEPT ![s].ctl = x]
    PROVE  OnlySignals
<1> DEFINE t == tasks[s]
           r == [t EXCEPT !.ctl = x]
<1>1. tasks \in [Slots -> TaskState] /\ t \in TaskState BY DEF Types
<1>2. /\ r \in TaskState /\ r.ch = t.ch /\ r.events = t.events /\ r.cancelled = t.cancelled
      /\ r.phase = t.phase /\ r.rx = t.rx /\ r.box = t.box /\ r.sent = t.sent
  BY <1>1 DEF TaskState
<1>3. tasks' = [tasks EXCEPT ![s] = r] OBVIOUS
<1> HIDE DEF r
<1>4. /\ tasks' \in [Slots -> TaskState] /\ tasks'[s] = r
      /\ \A z \in Slots \ {s} : tasks'[z] = tasks[z]
  BY <1>1, <1>2, <1>3, OneTask
<1> QED BY <1>2, <1>4 DEF OnlySignals, TaskOn

\* Nothing but a signal passes to the tasks.
LEMMA SignalledStep ==
    ASSUME Types, NEW c, NEW x \in Signals, tasks' \in Signalled(tasks, c, x)
    PROVE  OnlySignals
<1> DEFINE free == {s \in Slots : tasks[s].phase # "none" /\ tasks[s].ch = c}
<1>1. CASE tasks' = tasks
  BY <1>1 DEF OnlySignals, Types
<1>2. CASE \E s \in free : tasks' = [tasks EXCEPT ![s].ctl = IF @ = "none" THEN x ELSE @]
  <2>1. PICK s \in free : tasks' = [tasks EXCEPT ![s].ctl = IF @ = "none" THEN x ELSE @]
    BY <1>2
  <2>2. tasks \in [Slots -> TaskState] /\ s \in Slots /\ TaskOn(s) BY DEF Types, TaskOn
  <2>3. tasks[s].ctl \in Signals BY <2>2 DEF TaskState
  <2>4. PICK y \in Signals : tasks' = [tasks EXCEPT ![s].ctl = y]
    BY <2>1, <2>2, <2>3
  <2> QED BY <2>2, <2>4, SignalOne
<1> QED BY <1>1, <1>2 DEF Signalled

\* The turns keep their channels and batches when they are signalled.
LEMMA SignalsKeepTurns ==
    ASSUME OnlySignals
    PROVE  SameTurns
BY DEF OnlySignals, SameTurns

\* A steer request goes into the box of a turn.
LEMMA BoxStep ==
    ASSUME Types, NEW s \in Slots, TaskOn(s), NEW e \in Events,
           tasks' = [tasks EXCEPT ![s].box = e]
    PROVE  /\ tasks' \in [Slots -> TaskState] /\ SameTurns
           /\ \A r \in Slots \ {s} : tasks'[r] = tasks[r]
           /\ tasks'[s].box = e /\ tasks'[s].sent = tasks[s].sent
           /\ tasks'[s].rx = tasks[s].rx /\ tasks'[s].phase = tasks[s].phase
<1> DEFINE t == tasks[s]
           r == [t EXCEPT !.box = e]
<1>1. tasks \in [Slots -> TaskState] /\ t \in TaskState BY DEF Types
<1>2. /\ r \in TaskState /\ r.ch = t.ch /\ r.events = t.events /\ r.cancelled = t.cancelled
      /\ r.phase = t.phase /\ r.rx = t.rx /\ r.box = e /\ r.sent = t.sent
  BY <1>1 DEF TaskState
<1>3. tasks' = [tasks EXCEPT ![s] = r] OBVIOUS
<1> HIDE DEF r
<1>4. /\ tasks' \in [Slots -> TaskState] /\ tasks'[s] = r
      /\ \A z \in Slots \ {s} : tasks'[z] = tasks[z]
  BY <1>1, <1>2, <1>3, OneTask
<1> QED BY <1>2, <1>4 DEF SameTurns, TaskOn

\* A slot without a task holds no batch and no request.
LEMMA NoTaskFields ==
    /\ NoTask \in TaskState /\ NoTask.ch = Heartbeat /\ NoTask.phase = "none"
    /\ NoTask.events = <<>> /\ NoTask.cancelled = <<>> /\ NoTask.rx = "closed"
    /\ NoTask.box = NoEvent /\ NoTask.sent = NoEvent /\ NoTask.ctl = "none"
BY DEF NoTask, TaskState, Signals, Running

\* A turn that starts, and the heartbeat's own.
NewTurn(c, x, y) ==
    [NoTask EXCEPT !.ch = c, !.events = x, !.cancelled = y, !.phase = "starting", !.rx = "open"]

\* The fields of a new turn.
LEMMA StartFields ==
    ASSUME NEW c \in Channels, NEW x \in Seq(Events), NEW y \in Seq(Events)
    PROVE  LET t == NewTurn(c, x, y) IN
           /\ t \in TaskState /\ t.ch = c /\ t.events = x /\ t.cancelled = y
           /\ t.phase = "starting" /\ t.rx = "open" /\ t.box = NoEvent /\ t.sent = NoEvent
BY DEF NewTurn, NoTask, TaskState, Signals, Running

\* The task of a heartbeat has no channel and no batch.
LEMMA HeartbeatFields ==
    LET t == [NoTask EXCEPT !.phase = "starting"] IN
    /\ t \in TaskState /\ t.ch = Heartbeat /\ t.events = <<>> /\ t.cancelled = <<>>
    /\ t.phase = "starting" /\ t.rx = "closed" /\ t.box = NoEvent /\ t.sent = NoEvent
<1> DEFINE r == [NoTask EXCEPT !.phase = "starting"]
           z == [ch |-> Heartbeat, events |-> <<>>, cancelled |-> <<>>, phase |-> "starting",
                 ctl |-> "none", rx |-> "closed", box |-> NoEvent, sent |-> NoEvent,
                 outcome |-> "none", back |-> "no"]
<1>1. r = z BY DEF NoTask
<1>2. <<>> \in Seq(Events) OBVIOUS
<1>3. z \in TaskState BY <1>2 DEF TaskState, Signals, Running
<1>4. /\ z.ch = Heartbeat /\ z.events = <<>> /\ z.cancelled = <<>>
      /\ z.phase = "starting" /\ z.rx = "closed" /\ z.box = NoEvent /\ z.sent = NoEvent
  OBVIOUS
<1> QED BY <1>1, <1>3, <1>4

-----------------------------------------------------------------------------
(* The pool *)

\* The first of some slots is one of them.
LEMMA LeastIsIn ==
    ASSUME NEW S, S \subseteq Slots, S # {}
    PROVE  Least(S) \in S
<1>1. S \subseteq Nat BY HarnessAssumption DEF Slots
<1>2. \E x \in S : \A y \in S : x <= y BY <1>1, SmallestOf
<1> QED BY <1>2 DEF Least

\* A claim takes an idle agent.
LEMMA ClaimIsIdle ==
    ASSUME idle \subseteq Slots, idle # {}, NEW c
    PROVE  try_claim(c) \in idle
<1> DEFINE affine == {s \in idle : c \in sessions[s]}
<1>1. affine \subseteq Slots OBVIOUS
<1>2. affine # {} => Least(affine) \in affine BY <1>1, LeastIsIn
<1>3. Least(idle) \in idle BY LeastIsIn
<1> QED BY <1>2, <1>3 DEF try_claim

\* The circuit of a slot after a crash.
LEMMA CrashFields ==
    ASSUME NEW k \in Circuit, k.open = "closed" => k.crashes < CrashThreshold
    PROVE  LET r == record_crash(k) IN
           r \in Circuit /\ (r.open = "closed" => r.crashes < CrashThreshold)
<1>0. CrashThreshold \in Nat \ {0} /\ k.crashes \in 0..CrashThreshold /\ k.open \in {"closed", "open", "cooled"}
  BY HarnessAssumption DEF Circuit
<1>1. CASE k.open = "cooled"
  <2>1. record_crash(k) = [crashes |-> CrashThreshold - 1, open |-> "closed"]
    BY <1>1 DEF record_crash
  <2> QED BY <1>0, <2>1 DEF Circuit
<1>2. CASE k.open = "open"
  <2>1. record_crash(k) = k BY <1>2 DEF record_crash
  <2> QED BY <1>2, <2>1
<1>3. CASE k.open = "closed"
  <2>1. record_crash(k) = [crashes |-> k.crashes + 1,
                           open |-> IF k.crashes + 1 >= CrashThreshold THEN "open" ELSE "closed"]
    BY <1>3 DEF record_crash
  <2>2. k.crashes + 1 \in 0..CrashThreshold BY <1>0, <1>3
  <2> QED BY <1>0, <1>3, <2>1, <2>2 DEF Circuit
<1> QED BY <1>0, <1>1, <1>2, <1>3

\* Steps that leave every agent and every turn where it is.
LEMMA PoolKeeps ==
    ASSUME PoolInv, tasks' \in [Slots -> TaskState], SameTurns,
           \A s \in Slots : tasks'[s].rx \in {tasks[s].rx, "closed"},
           config' = config, pc' \in {"select", "joins", "dispatch", "exiting", "exited"},
           next' \in 1..(NumEvents + 1), faults' \in 0..config.maxFaults,
           commands' \in 0..config.maxCommands,
           sessions' \in [Slots -> SUBSET Channels],
           \A s \in idle : sessions'[s] \subseteq sessions[s],
           UNCHANGED <<idle, respawnVars, removed, life>>
    PROVE  PoolInv'
<1>1. \A s \in Slots : TaskOn(s)' <=> TaskOn(s)
  BY DEF SameTurns, TaskOn
<1>2. Types'
  <2>1. \A s \in Slots : TaskOn(s)' \/ tasks'[s] = NoTask
    BY <1>1 DEF PoolInv, Types, SameTurns, TaskOn
  <2>2. \A s \in Slots : tasks'[s].ch # Heartbeat => tasks'[s].events # <<>>
    BY DEF PoolInv, Types, SameTurns
  <2>3. \A s \in Slots : tasks'[s].ch = Heartbeat =>
          tasks'[s].events = <<>> /\ tasks'[s].cancelled = <<>> /\ tasks'[s].rx = "closed"
    BY DEF PoolInv, Types, SameTurns
  <2>4. \A s \in Slots : circuit'[s].open = "closed" => circuit'[s].crashes < CrashThreshold
    BY DEF PoolInv, Types, respawnVars
  <2> QED BY <2>1, <2>2, <2>3, <2>4 DEF PoolInv, Types, respawnVars
<1>3. SlotExclusive'
  BY <1>1 DEF PoolInv, SlotExclusive, Types, respawnVars
<1>4. SessionsStripped'
  BY DEF PoolInv, SessionsStripped, Types
<1>5. Asleep'
  BY <1>1 DEF PoolInv, Asleep, respawnVars
<1> QED BY <1>2, <1>3, <1>4, <1>5 DEF PoolInv

\* Tasks that do not change.
LEMMA SameTasks ==
    ASSUME Types, tasks' = tasks
    PROVE  SameTurns /\ tasks' \in [Slots -> TaskState] /\ OnlySignals
BY DEF SameTurns, Types, OnlySignals

\* A turn that starts takes its agent out of the pool.
LEMMA PoolStarts ==
    ASSUME PoolInv, NEW s \in idle, NEW t \in TaskState, t.phase # "none",
           t.ch # Heartbeat => t.events # <<>>,
           t.ch = Heartbeat => t.events = <<>> /\ t.cancelled = <<>> /\ t.rx = "closed",
           tasks' = [tasks EXCEPT ![s] = t], idle' = idle \ {s},
           pc' \in {"select", "joins", "dispatch", "exiting", "exited"},
           UNCHANGED <<config, next, sessions, respawnVars, removed, life, faults, commands>>
    PROVE  PoolInv'
<1>0. s \in Slots /\ tasks \in [Slots -> TaskState] /\ idle \subseteq Slots BY DEF PoolInv, Types
<1>1. /\ tasks' \in [Slots -> TaskState] /\ tasks'[s] = t
      /\ \A r \in Slots \ {s} : tasks'[r] = tasks[r]
  BY <1>0, OneTask
<1>2. \A r \in Slots \ {s} : TaskOn(r)' <=> TaskOn(r)
  BY <1>1 DEF TaskOn
<1>3. life = "ready" BY DEF PoolInv, Asleep
<1>4. Types'
  <2>1. \A r \in Slots : TaskOn(r)' \/ tasks'[r] = NoTask
    BY <1>1 DEF PoolInv, Types, TaskOn
  <2>2. \A r \in Slots : tasks'[r].ch # Heartbeat => tasks'[r].events # <<>>
    BY <1>1 DEF PoolInv, Types
  <2>3. \A r \in Slots : tasks'[r].ch = Heartbeat =>
          tasks'[r].events = <<>> /\ tasks'[r].cancelled = <<>> /\ tasks'[r].rx = "closed"
    BY <1>1 DEF PoolInv, Types
  <2>4. \A r \in Slots : circuit'[r].open = "closed" => circuit'[r].crashes < CrashThreshold
    BY DEF PoolInv, Types, respawnVars
  <2> QED BY <1>0, <1>1, <2>1, <2>2, <2>3, <2>4 DEF PoolInv, Types, respawnVars
<1>5. SlotExclusive'
  BY <1>0, <1>1, <1>2 DEF PoolInv, SlotExclusive, Types, respawnVars
<1>6. SessionsStripped'
  BY DEF PoolInv, SessionsStripped
<1>7. Asleep'
  BY <1>3 DEF Asleep
<1> QED BY <1>4, <1>5, <1>6, <1>7 DEF PoolInv

\* A turn that is handled leaves its slot without a task; its agent is back in
\* the pool, being replaced, or given up.
LEMMA PoolReturns ==
    ASSUME PoolInv, NEW s \in Slots, TaskOn(s), tasks' = [tasks EXCEPT ![s] = NoTask],
           \/ /\ idle' = idle \cup {s} /\ UNCHANGED respawnVars
              /\ sessions'[s] \cap removed = {}
           \/ /\ circuit' = [circuit EXCEPT ![s] = record_crash(circuit[s])]
              /\ respawning' \in {respawning, respawning \cup {s}}
              /\ UNCHANGED <<idle, respawned>>,
           sessions' \in [Slots -> SUBSET Channels],
           \A r \in Slots \ {s} : sessions'[r] = sessions[r],
           pc' \in {"select", "joins", "dispatch", "exiting", "exited"},
           UNCHANGED <<config, next, removed, life, faults, commands>>
    PROVE  PoolInv'
<1>0. /\ tasks \in [Slots -> TaskState] /\ idle \subseteq Slots /\ respawning \subseteq Slots
      /\ circuit \in [Slots -> Circuit] /\ NoTask \in TaskState
  BY NoTaskFields DEF PoolInv, Types
<1>1. /\ tasks' \in [Slots -> TaskState] /\ tasks'[s] = NoTask
      /\ \A r \in Slots \ {s} : tasks'[r] = tasks[r]
  BY <1>0, OneTask
<1>2. /\ \A r \in Slots \ {s} : TaskOn(r)' <=> TaskOn(r)
      /\ ~TaskOn(s)'
  BY <1>1, NoTaskFields DEF TaskOn
<1>3. life = "ready" BY DEF PoolInv, Asleep
<1>4. s \notin idle /\ s \notin respawning BY DEF PoolInv, SlotExclusive
<1>5. /\ circuit' \in [Slots -> Circuit]
      /\ \A r \in Slots : circuit'[r].open = "closed" => circuit'[r].crashes < CrashThreshold
  <2>1. CASE circuit' = circuit BY <1>0, <2>1 DEF PoolInv, Types
  <2>2. CASE circuit' = [circuit EXCEPT ![s] = record_crash(circuit[s])]
    <3>1. circuit[s] \in Circuit /\ (circuit[s].open = "closed" => circuit[s].crashes < CrashThreshold)
      BY <1>0 DEF PoolInv, Types
    <3> DEFINE k == record_crash(circuit[s])
    <3>2. k \in Circuit /\ (k.open = "closed" => k.crashes < CrashThreshold)
      BY <3>1, CrashFields
    <3> HIDE DEF k
    <3> QED BY <1>0, <2>2, <3>2 DEF PoolInv, Types, k
  <2> QED BY <2>1, <2>2 DEF respawnVars
<1>6. Types'
  <2>1. \A r \in Slots : TaskOn(r)' \/ tasks'[r] = NoTask
    BY <1>1, <1>2 DEF PoolInv, Types
  <2>2. \A r \in Slots : tasks'[r].ch # Heartbeat => tasks'[r].events # <<>>
    BY <1>1, NoTaskFields DEF PoolInv, Types
  <2>3. \A r \in Slots : tasks'[r].ch = Heartbeat =>
          tasks'[r].events = <<>> /\ tasks'[r].cancelled = <<>> /\ tasks'[r].rx = "closed"
    BY <1>1, NoTaskFields DEF PoolInv, Types
  <2>4. idle' \subseteq Slots /\ respawning' \subseteq Slots /\ respawned' = respawned
    BY <1>0 DEF respawnVars
  <2> QED BY <1>1, <1>5, <2>1, <2>2, <2>3, <2>4 DEF PoolInv, Types
<1>7. SlotExclusive'
  BY <1>0, <1>2, <1>4 DEF PoolInv, SlotExclusive, Types, respawnVars
<1>8. SessionsStripped'
  BY <1>0, <1>4 DEF PoolInv, SessionsStripped
<1>9. Asleep'
  BY <1>3 DEF Asleep
<1> QED BY <1>6, <1>7, <1>8, <1>9 DEF PoolInv

\* Steps that move no turn: agents may come, go and be replaced.
LEMMA PoolMoves ==
    ASSUME PoolInv, tasks' = tasks, config' = config,
           next' = next, pc' \in {"select", "joins", "dispatch", "exiting", "exited"},
           faults' \in 0..config.maxFaults, commands' \in 0..config.maxCommands,
           idle' \subseteq Slots, respawning' \subseteq Slots, removed' \subseteq Channels,
           life' \in {"listening", "waking", "failed", "due", "ready"},
           respawned' \in [Slots -> {"none", "ok", "failed"}],
           sessions' \in [Slots -> SUBSET Channels],
           circuit' \in [Slots -> Circuit],
           \A s \in Slots : circuit'[s].open = "closed" => circuit'[s].crashes < CrashThreshold,
           \A s \in idle' : ~TaskOn(s) /\ s \notin respawning',
           \A s \in respawning' : ~TaskOn(s),
           \A s \in Slots : respawned'[s] # "none" => s \in respawning',
           \A s \in idle' : sessions'[s] \cap removed' = {},
           life' # "ready" => idle' = {} /\ respawning' = {} /\ \A s \in Slots : ~TaskOn(s)
    PROVE  PoolInv'
<1>1. \A s \in Slots : TaskOn(s)' <=> TaskOn(s) BY DEF TaskOn
<1>2. Types' BY <1>1 DEF PoolInv, Types
<1>3. SlotExclusive' BY <1>1 DEF SlotExclusive
<1>4. SessionsStripped' BY DEF SessionsStripped
<1>5. Asleep' BY <1>1 DEF Asleep
<1> QED BY <1>2, <1>3, <1>4, <1>5 DEF PoolInv

-----------------------------------------------------------------------------
(* The handlers, in the terms of the invariant *)

\* The relay's event is queued, or withheld and sent to the turn as a steer.
LEMMA RelayStep ==
    ASSUME Types, QueueOK(q, next), RelayEvent
    PROVE  /\ next \in 1..NumEvents /\ next \in Events /\ next' = next + 1
           /\ next' \in 1..(NumEvents + 1)
           /\ ChannelOf[next] \in Channels
           /\ tasks' \in [Slots -> TaskState] /\ SameTurns
           /\ pc' \in {"dispatch", "select"}
           /\ \A s \in Slots : tasks'[s].rx = tasks[s].rx /\ tasks'[s].phase = tasks[s].phase
           /\ \/ q' = push(q, next) /\ OnlySignals
              \/ /\ config.handling = "steer" /\ ChannelOf[next] \in q.inFlight
                 /\ q' = mark_native_steer_pending(push(q, next), next)
                 /\ \E s \in Slots :
                      /\ tasks[s].ch = ChannelOf[next] /\ TaskOn(s) /\ tasks[s].box = NoEvent
                      /\ tasks'[s].box = next /\ tasks'[s].sent = tasks[s].sent
                      /\ \A r \in Slots \ {s} : tasks'[r] = tasks[r]
           /\ UNCHANGED <<config, idle, sessions, respawnVars, acks, removed, life, steered, late,
                          faults, commands>>
<1> DEFINE c == ChannelOf[next]
           u == push(q, next)
           mid == c \in u.inFlight /\ config.handling \in {"steer", "interrupt"}
           native == mid /\ config.handling = "steer"
<1>1. next \in 1..NumEvents /\ next \in Events /\ next' = next + 1 /\ next' \in 1..(NumEvents + 1)
  <2>1. next \in 1..(NumEvents + 1) /\ next <= NumEvents /\ next' = next + 1
    BY DEF Types, RelayEvent
  <2> QED BY <2>1, HarnessAssumption DEF Events
<1>2. c \in Channels BY <1>1, HarnessAssumption
<1>3. u.inFlight = q.inFlight
  <2>1. q \in QueueState BY DEF QueueOK
  <2> QED BY <1>1, <2>1, PushFields DEF SameMarks
<1>4. /\ pc' \in {"dispatch", "select"}
      /\ UNCHANGED <<config, idle, sessions, respawnVars, acks, removed, life, steered, late, faults, commands>>
  BY DEF RelayEvent
<1>5. \/ ~mid /\ q' = u /\ tasks' = tasks
      \/ native /\ \E s \in TasksOf(c) : /\ TakesSteer(s)
                                         /\ tasks' = [tasks EXCEPT ![s].box = next]
                                         /\ q' = mark_native_steer_pending(u, next)
      \/ mid /\ q' = u /\ tasks' \in Signalled(tasks, c, config.handling)
  BY DEF RelayEvent
<1>6. CASE q' = u /\ tasks' = tasks
  BY <1>1, <1>2, <1>4, <1>6, SameTasks
<1>7. CASE mid /\ q' = u /\ tasks' \in Signalled(tasks, c, config.handling)
  <2>1. config.handling \in Signals BY <1>7 DEF Signals
  <2>2. OnlySignals BY <1>7, <2>1, SignalledStep
  <2>3. tasks' \in [Slots -> TaskState]
        /\ \A s \in Slots : tasks'[s].rx = tasks[s].rx /\ tasks'[s].phase = tasks[s].phase
    BY <2>2 DEF OnlySignals
  <2> QED BY <1>1, <1>2, <1>4, <1>7, <2>2, <2>3, SignalsKeepTurns
<1>8. CASE native /\ \E s \in TasksOf(c) : /\ TakesSteer(s)
                                           /\ tasks' = [tasks EXCEPT ![s].box = next]
                                           /\ q' = mark_native_steer_pending(u, next)
  <2>1. PICK s \in TasksOf(c) : /\ TakesSteer(s)
                                /\ tasks' = [tasks EXCEPT ![s].box = next]
                                /\ q' = mark_native_steer_pending(u, next)
    BY <1>8
  <2>2. s \in Slots /\ TaskOn(s) /\ tasks[s].ch = c /\ tasks[s].box = NoEvent
    BY <2>1 DEF TasksOf, TakesSteer
  <2>3. /\ tasks' \in [Slots -> TaskState] /\ SameTurns
        /\ \A r \in Slots \ {s} : tasks'[r] = tasks[r]
        /\ tasks'[s].box = next /\ tasks'[s].sent = tasks[s].sent
        /\ tasks'[s].rx = tasks[s].rx /\ tasks'[s].phase = tasks[s].phase
    BY <1>1, <2>1, <2>2, BoxStep
  <2>4. config.handling = "steer" /\ c \in q.inFlight BY <1>3, <1>8
  <2> QED BY <1>1, <1>2, <1>4, <2>1, <2>2, <2>3, <2>4
<1> QED BY <1>5, <1>6, <1>7, <1>8

\* A channel flush_next picks has work and no turn that is marked.
LEMMA ChoiceIsReady ==
    ASSUME NEW u, NEW c \in FlushChoices(u)
    PROVE  /\ c \in Channels /\ c \notin u.inFlight
           /\ c \in ReadyChannels(u) \cup CancelledChannels(u)
<1>1. CASE ReadyChannels(u) = {}
  BY <1>1 DEF FlushChoices, CancelledChannels
<1>2. CASE ReadyChannels(u) # {}
  BY <1>2 DEF FlushChoices, ReadyChannels
<1> QED BY <1>1, <1>2

\* One turn of dispatch_pending: nothing to flush, a batch that finds no agent
\* and goes back, or a turn that starts.
LEMMA DispatchStep ==
    ASSUME PoolInv, QueueOK(q, next), DispatchNext
    PROVE  /\ UNCHANGED <<config, next, sessions, respawnVars, acks, removed, life, steered, late,
                          faults, commands>>
           /\ \/ q' = expire(q) /\ pc' = "select" /\ UNCHANGED <<idle, tasks>>
              \/ \E c \in FlushChoices(expire(q)) :
                   /\ q' = mark_complete(requeue_preserve_timestamps(
                             flush_next(expire(q), c), c, FlushBatch(expire(q), c)), c)
                   /\ pc' = "select" /\ UNCHANGED <<idle, tasks>>
              \/ \E c \in FlushChoices(expire(q)), s \in idle :
                   /\ q' = flush_next(expire(q), c) /\ pc' = "dispatch"
                   /\ idle' = idle \ {s}
                   /\ tasks' \in [Slots -> TaskState]
                   /\ \A r \in Slots \ {s} : tasks'[r] = tasks[r]
                   /\ tasks' = [tasks EXCEPT ![s] = tasks'[s]]
                   /\ tasks'[s].ch = c /\ tasks'[s].phase = "starting"
                   /\ tasks'[s].events = FlushBatch(expire(q), c).events
                   /\ tasks'[s].cancelled = FlushBatch(expire(q), c).cancelled
                   /\ tasks'[s].rx = "open" /\ tasks'[s].box = NoEvent /\ tasks'[s].sent = NoEvent
<1> DEFINE u == expire(q)
<1>1. UNCHANGED <<config, next, sessions, respawnVars, acks, removed, life, steered, late, faults, commands>>
  BY DEF DispatchNext
<1>2. CASE FlushChoices(u) = {}
  BY <1>1, <1>2 DEF DispatchNext
<1>3. CASE FlushChoices(u) # {}
  <2>1. PICK c \in FlushChoices(u) :
          IF idle = {}
          THEN /\ q' = mark_complete(requeue_preserve_timestamps(flush_next(u, c), c, FlushBatch(u, c)), c)
               /\ pc' = "select"
               /\ UNCHANGED <<idle, tasks>>
          ELSE /\ q' = flush_next(u, c) /\ pc' = "dispatch"
               /\ idle' = idle \ {try_claim(c)}
               /\ tasks' = [tasks EXCEPT ![try_claim(c)] =
                    [NoTask EXCEPT !.ch = c, !.events = FlushBatch(u, c).events,
                                   !.cancelled = FlushBatch(u, c).cancelled,
                                   !.phase = "starting", !.rx = "open"]]
    BY <1>3 DEF DispatchNext
  <2>2. CASE idle = {}
    BY <1>1, <2>1, <2>2
  <2>3. CASE idle # {}
    <3> DEFINE s == try_claim(c)
               b == FlushBatch(u, c)
               t == NewTurn(c, b.events, b.cancelled)
    <3>1. idle \subseteq Slots /\ tasks \in [Slots -> TaskState] /\ next \in 1..(NumEvents + 1)
      BY DEF PoolInv, Types
    <3>2. s \in idle /\ s \in Slots BY <2>3, <3>1, ClaimIsIdle
    <3>3. c \in Channels /\ c \in ReadyChannels(u) \cup CancelledChannels(u)
      BY ChoiceIsReady
    <3>4. QueueOK(u, next) BY <3>1, ExpireKeeps DEF Keeps
    <3>5. b.events \in Seq(Events) /\ b.cancelled \in Seq(Events)
      BY <3>1, <3>3, <3>4, FlushGives
    <3>6. /\ t \in TaskState /\ t.ch = c /\ t.events = b.events /\ t.cancelled = b.cancelled
          /\ t.phase = "starting" /\ t.rx = "open" /\ t.box = NoEvent /\ t.sent = NoEvent
      BY <3>3, <3>5, StartFields
    <3>7. q' = flush_next(u, c) /\ pc' = "dispatch" /\ idle' = idle \ {s}
          /\ tasks' = [tasks EXCEPT ![s] = t]
      BY <2>1, <2>3 DEF NewTurn
    <3> HIDE DEF t, s, b, u
    <3>8. /\ tasks' \in [Slots -> TaskState] /\ tasks'[s] = t
          /\ \A r \in Slots \ {s} : tasks'[r] = tasks[r]
      BY <3>1, <3>2, <3>6, <3>7, OneTask
    <3> QED BY <1>1, <3>2, <3>6, <3>7, <3>8 DEF b, u
  <2> QED BY <2>2, <2>3
<1> QED BY <1>2, <1>3

\* The heartbeat's turn, if it starts one.
LEMMA HeartbeatStep ==
    ASSUME Types, HeartbeatTick
    PROVE  /\ q' = expire(q) /\ pc' \in {"select", "dispatch"} /\ life = "ready"
           /\ UNCHANGED <<config, next, sessions, respawnVars, acks, removed, life, steered, late,
                          faults, commands>>
           /\ \/ UNCHANGED <<idle, tasks>>
              \/ \E s \in idle :
                   /\ idle' = idle \ {s}
                   /\ tasks' \in [Slots -> TaskState]
                   /\ \A r \in Slots \ {s} : tasks'[r] = tasks[r]
                   /\ tasks' = [tasks EXCEPT ![s] = tasks'[s]]
                   /\ tasks'[s].ch = Heartbeat /\ tasks'[s].phase = "starting"
                   /\ tasks'[s].events = <<>> /\ tasks'[s].cancelled = <<>>
                   /\ tasks'[s].rx = "closed" /\ tasks'[s].box = NoEvent /\ tasks'[s].sent = NoEvent
<1>1. /\ q' = expire(q) /\ pc' \in {"select", "dispatch"} /\ life = "ready"
      /\ UNCHANGED <<config, next, sessions, respawnVars, acks, removed, life, steered, late, faults, commands>>
  BY DEF HeartbeatTick
<1>2. CASE UNCHANGED <<idle, tasks>>
  BY <1>1, <1>2
<1>3. CASE /\ idle # {}
           /\ idle' = idle \ {Least(idle)}
           /\ tasks' = [tasks EXCEPT ![Least(idle)] = [NoTask EXCEPT !.phase = "starting"]]
  <2> DEFINE s == Least(idle)
             t == [NoTask EXCEPT !.phase = "starting"]
  <2>1. idle \subseteq Slots /\ tasks \in [Slots -> TaskState] BY DEF Types
  <2>2. s \in idle /\ s \in Slots BY <1>3, <2>1, LeastIsIn
  <2>3. /\ t \in TaskState /\ t.ch = Heartbeat /\ t.events = <<>> /\ t.cancelled = <<>>
        /\ t.phase = "starting" /\ t.rx = "closed" /\ t.box = NoEvent /\ t.sent = NoEvent
    BY HeartbeatFields
  <2>4. idle' = idle \ {s} /\ tasks' = [tasks EXCEPT ![s] = t] BY <1>3
  <2> HIDE DEF s, t
  <2>5. /\ tasks' \in [Slots -> TaskState] /\ tasks'[s] = t
        /\ \A r \in Slots \ {s} : tasks'[r] = tasks[r]
    BY <2>1, <2>2, <2>3, <2>4, OneTask
  <2> QED BY <1>1, <2>2, <2>3, <2>4, <2>5
<1> QED BY <1>2, <1>3 DEF HeartbeatTick

\* The agent of a handled turn.
LEMMA ReturnStep ==
    ASSUME PoolInv, NEW s \in Slots, HandleResult(s) \/ HandlePanic(s)
    PROVE  /\ TaskOn(s) /\ tasks' = [tasks EXCEPT ![s] = NoTask]
           /\ pc' \in {"select", "joins", "dispatch", "exiting"}
           /\ \/ /\ idle' = idle \cup {s} /\ UNCHANGED respawnVars
                 /\ sessions'[s] \cap removed = {}
              \/ /\ circuit' = [circuit EXCEPT ![s] = record_crash(circuit[s])]
                 /\ respawning' \in {respawning, respawning \cup {s}}
                 /\ UNCHANGED <<idle, respawned>>
           /\ sessions' \in [Slots -> SUBSET Channels]
           /\ \A r \in Slots \ {s} : sessions'[r] = sessions[r]
           /\ late' = late \ Settled(s, q')
           /\ UNCHANGED <<config, next, acks, removed, life, steered, faults, commands>>
<1>0. sessions \in [Slots -> SUBSET Channels] BY DEF PoolInv, Types
<1>1. CASE HandleResult(s)
  <2>1. /\ TaskOn(s) /\ tasks' = [tasks EXCEPT ![s] = NoTask]
        /\ late' = late \ Settled(s, q')
        /\ UNCHANGED <<config, next, acks, removed, life, steered, faults, commands>>
    BY <1>1 DEF HandleResult, TaskOn
  <2>2. CASE tasks[s].outcome \in {"fatal", "hard", "drain"}
    BY <1>0, <1>1, <2>1, <2>2 DEF HandleResult, SpawnRespawn
  <2>3. CASE tasks[s].outcome \notin {"fatal", "hard", "drain"}
    BY <1>0, <1>1, <2>1, <2>3 DEF HandleResult, Stripped
  <2> QED BY <2>2, <2>3
<1>2. CASE HandlePanic(s)
  BY <1>0, <1>2 DEF HandlePanic, SpawnRespawn, TaskOn
<1> QED BY <1>1, <1>2

\* Every step keeps agents, turns and replacements apart, returned agents free
\* of sessions they lost, and a sleeping pool empty.
LEMMA PoolStep ==
    ASSUME PoolInv, QueueOK(q, next), [Next]_vars
    PROVE  PoolInv'
<1>0. /\ Types /\ SlotExclusive /\ SessionsStripped /\ Asleep
      /\ config.maxFaults \in Nat /\ config.maxCommands \in Nat
  <2>1. Types /\ SlotExclusive /\ SessionsStripped /\ Asleep BY DEF PoolInv
  <2>2. config \in Configs BY <2>1 DEF Types
  <2> QED BY <2>1, <2>2, HarnessAssumption
<1> DEFINE PCs == {"select", "joins", "dispatch", "exiting", "exited"}
<1>1. /\ config \in Configs /\ pc \in PCs /\ next \in 1..(NumEvents + 1)
      /\ idle \subseteq Slots /\ respawning \subseteq Slots
      /\ tasks \in [Slots -> TaskState]
      /\ respawned \in [Slots -> {"none", "ok", "failed"}]
      /\ sessions \in [Slots -> SUBSET Channels]
      /\ circuit \in [Slots -> Circuit]
      /\ \A s \in Slots : circuit[s].open = "closed" => circuit[s].crashes < CrashThreshold
      /\ removed \subseteq Channels
      /\ life \in {"listening", "waking", "failed", "due", "ready"}
      /\ faults \in 0..config.maxFaults /\ commands \in 0..config.maxCommands
  BY <1>0 DEF Types
<1>2. commands < config.maxCommands => commands + 1 \in 0..config.maxCommands
  BY <1>0, <1>1
<1>3. /\ \A s \in idle : ~TaskOn(s) /\ s \notin respawning
      /\ \A s \in respawning : ~TaskOn(s)
      /\ \A s \in Slots : respawned[s] # "none" => s \in respawning
      /\ \A s \in idle : sessions[s] \cap removed = {}
      /\ life # "ready" => idle = {} /\ respawning = {} /\ \A s \in Slots : ~TaskOn(s)
  BY <1>0 DEF SlotExclusive, SessionsStripped, Asleep
<1>5. CASE \E s \in Slots :
             \/ SessionReady(s) \/ GreetingDone(s) \/ ReadSteer(s) \/ AnswerSteer(s)
             \/ TurnCompletes(s) \/ TurnFails(s) \/ TaskPanics(s) \/ TurnIsCut(s)
  <2>1. PICK s \in Slots : TurnStep(s) BY <1>0, <1>5, TurnSteps
  <2>2. \A r \in Slots : tasks'[r].rx \in {tasks[r].rx, "closed"}
    BY <2>1 DEF TurnStep
  <2>3. \A r \in idle : sessions'[r] \subseteq sessions[r]
    BY <1>1, <1>3, <2>1 DEF TurnStep
  <2> QED BY <1>1, <2>1, <2>2, <2>3, PoolKeeps DEF TurnStep
<1>6. CASE \E s \in Slots : RespawnDone(s)
  <2>1. PICK s \in Slots : RespawnDone(s) BY <1>6
  <2>2. faults' \in 0..config.maxFaults BY <1>0, <1>1, <2>1, SpendCounts DEF RespawnDone
  <2>3. PICK x \in {"ok", "failed"} : respawned' = [respawned EXCEPT ![s] = x]
    BY <2>1 DEF RespawnDone
  <2>4. respawned' \in [Slots -> {"none", "ok", "failed"}]
        /\ \A r \in Slots : respawned'[r] # "none" => r \in respawning
    BY <1>1, <1>3, <2>1, <2>3 DEF RespawnDone
  <2>5. UNCHANGED <<config, pc, next, q, poolVars, circuit, respawning, acks, removed,
                    life, steered, late, commands>>
    BY <2>1 DEF RespawnDone
  <2> QED BY <1>1, <1>3, <2>2, <2>4, <2>5, PoolMoves DEF poolVars
<1>7. CASE RelayEvent
  <2>1. \A s \in Slots : tasks'[s].rx \in {tasks[s].rx, "closed"}
    BY <1>0, <1>7, RelayStep
  <2> QED BY <1>0, <1>1, <1>7, <2>1, RelayStep, PoolKeeps
<1>8. CASE DispatchNext
  <2>1. CASE UNCHANGED <<idle, tasks>>
    BY <1>0, <1>1, <1>8, <2>1, DispatchStep, PoolKeeps, SameTasks
  <2>2. CASE ~ UNCHANGED <<idle, tasks>>
    <3>1. PICK c \in FlushChoices(expire(q)), s \in idle :
                   /\ pc' = "dispatch"
                   /\ idle' = idle \ {s}
                   /\ tasks' \in [Slots -> TaskState]
                   /\ tasks' = [tasks EXCEPT ![s] = tasks'[s]]
                   /\ tasks'[s].ch = c /\ tasks'[s].phase = "starting"
                   /\ tasks'[s].events = FlushBatch(expire(q), c).events
      BY <1>8, <2>2, DispatchStep
    <3>2. UNCHANGED <<config, next, sessions, respawnVars, acks, removed, life, steered, late,
                      faults, commands>>
      BY <1>8, DispatchStep
    <3>3. c \in Channels /\ c \in ReadyChannels(expire(q)) \cup CancelledChannels(expire(q))
      BY ChoiceIsReady
    <3>4. QueueOK(expire(q), next) BY <1>1, ExpireKeeps DEF Keeps
    <3>5. FlushBatch(expire(q), c).events # <<>> BY <1>1, <3>3, <3>4, FlushGives
    <3>6. c # Heartbeat BY <3>3, HarnessAssumption
    <3>7. tasks'[s] \in TaskState /\ tasks'[s].events # <<>> /\ tasks'[s].ch # Heartbeat
          /\ tasks'[s].phase # "none"
      BY <1>1, <3>1, <3>5, <3>6
    <3> QED BY <3>1, <3>2, <3>7, PoolStarts
  <2> QED BY <2>1, <2>2
<1>9. CASE HeartbeatTick
  <2>1. CASE UNCHANGED <<idle, tasks>>
    BY <1>0, <1>1, <1>9, <2>1, HeartbeatStep, PoolKeeps, SameTasks
  <2>2. CASE ~ UNCHANGED <<idle, tasks>>
    <3>1. PICK s \in idle :
                   /\ idle' = idle \ {s}
                   /\ tasks' \in [Slots -> TaskState]
                   /\ tasks' = [tasks EXCEPT ![s] = tasks'[s]]
                   /\ tasks'[s].ch = Heartbeat /\ tasks'[s].phase = "starting"
                   /\ tasks'[s].events = <<>> /\ tasks'[s].cancelled = <<>>
                   /\ tasks'[s].rx = "closed"
      BY <1>0, <1>9, <2>2, HeartbeatStep
    <3>2. /\ pc' \in {"select", "dispatch"}
          /\ UNCHANGED <<config, next, sessions, respawnVars, acks, removed, life, steered, late,
                      faults, commands>>
      BY <1>0, <1>9, HeartbeatStep
    <3>3. tasks'[s] \in TaskState /\ tasks'[s].phase # "none"
      BY <1>1, <3>1
    <3> QED BY <3>1, <3>2, <3>3, PoolStarts
  <2> QED BY <2>1, <2>2
<1>10. CASE \E s \in Slots : HandleResult(s) \/ HandlePanic(s)
  <2>1. PICK s \in Slots : HandleResult(s) \/ HandlePanic(s) BY <1>10
  <2> QED BY <2>1, ReturnStep, PoolReturns
<1>11. CASE \E a \in acks : HandleSteerAck(a)
  <2>1. PICK a \in acks : HandleSteerAck(a) BY <1>11
  <2>2. tasks' = tasks \/ tasks' \in Signalled(tasks, ChannelOf[a.e], "steer")
    BY <2>1 DEF HandleSteerAck
  <2>3. OnlySignals BY <1>0, <2>2, SignalledStep, SameTasks DEF Signals
  <2>4. /\ tasks' \in [Slots -> TaskState] /\ SameTurns
        /\ \A s \in Slots : tasks'[s].rx \in {tasks[s].rx, "closed"}
    BY <2>3, SignalsKeepTurns DEF OnlySignals
  <2>5. pc' = "dispatch" /\ UNCHANGED <<config, next, idle, sessions, respawnVars, removed, life, steered, late,
                   faults, commands>>
    BY <2>1 DEF HandleSteerAck
  <2> QED BY <1>1, <2>4, <2>5, PoolKeeps
<1>12. CASE \E c \in Channels, ctl \in {"cancel", "rotate", "switch"} : OwnerCommand(c, ctl)
  <2>1. PICK c \in Channels, ctl \in {"cancel", "rotate", "switch"} : OwnerCommand(c, ctl) BY <1>12
  <2>2. OnlySignals
    <3>1. CASE tasks' = tasks BY <1>0, <3>1, SameTasks
    <3>2. CASE \E s \in TasksOf(c) : tasks' = [tasks EXCEPT ![s].ctl = ctl]
      BY <1>0, <3>2, SignalOne DEF TasksOf, Signals
    <3> QED BY <2>1, <3>1, <3>2 DEF OwnerCommand
  <2>3. /\ sessions' \in [Slots -> SUBSET Channels]
        /\ \A s \in idle : sessions'[s] \subseteq sessions[s]
    <3>1. CASE sessions' = sessions BY <1>1, <3>1
    <3>2. CASE \E drop : sessions' = [s \in Slots |-> IF s \in drop THEN sessions[s] \ {c} ELSE sessions[s]]
      BY <1>1, <3>2
    <3> QED BY <2>1, <3>1, <3>2 DEF OwnerCommand
  <2>4. /\ tasks' \in [Slots -> TaskState] /\ SameTurns
        /\ \A s \in Slots : tasks'[s].rx \in {tasks[s].rx, "closed"}
    BY <2>2, SignalsKeepTurns DEF OnlySignals
  <2>5. /\ commands' \in 0..config.maxCommands
        /\ UNCHANGED <<config, pc, next, idle, respawnVars, acks, removed, life, steered, late, faults>>
    BY <1>2, <2>1 DEF OwnerCommand
  <2> QED BY <1>1, <2>3, <2>4, <2>5, PoolKeeps
<1>13. CASE CollectRespawns
  <2> DEFINE ok == {s \in Slots : respawned[s] = "ok"}
             failed == {s \in Slots : respawned[s] = "failed"}
  <2>1. /\ respawning' = respawning \ (ok \cup failed)
        /\ respawned' = [s \in Slots |-> "none"]
        /\ idle' = idle \cup ok
        /\ sessions' = [s \in Slots |-> IF s \in ok THEN {} ELSE sessions[s]]
        /\ circuit' = [s \in Slots |-> IF s \in failed THEN [circuit[s] EXCEPT !.open = "open"]
                                       ELSE circuit[s]]
        /\ pc' \in {"dispatch", "select"}
        /\ UNCHANGED <<config, next, tasks, removed, life, faults, commands>>
    BY <1>13 DEF CollectRespawns
  <2>2. \A s \in ok \cup failed : s \in respawning BY <1>3
  <2>3. /\ circuit' \in [Slots -> Circuit]
        /\ \A s \in Slots : circuit'[s].open = "closed" => circuit'[s].crashes < CrashThreshold
    <3>1. \A s \in Slots : [circuit[s] EXCEPT !.open = "open"] \in Circuit
      BY <1>1 DEF Circuit
    <3>2. \A s \in Slots : [circuit[s] EXCEPT !.open = "open"].open = "open"
      BY <1>1 DEF Circuit
    <3> QED BY <1>1, <2>1, <3>1, <3>2
  <2>4. /\ \A s \in idle' : ~TaskOn(s) /\ s \notin respawning'
        /\ \A s \in respawning' : ~TaskOn(s)
    BY <1>3, <2>1, <2>2
  <2>5. \A s \in Slots : respawned'[s] # "none" => s \in respawning' BY <2>1
  <2>6. /\ sessions' \in [Slots -> SUBSET Channels]
        /\ \A s \in idle' : sessions'[s] \cap removed' = {}
    BY <1>1, <1>3, <2>1
  <2>7. life' # "ready" => idle' = {} /\ respawning' = {} /\ \A s \in Slots : ~TaskOn(s)
    BY <1>3, <2>1, <2>2
  <2>8. idle' \subseteq Slots /\ respawning' \subseteq Slots
        /\ respawned' \in [Slots -> {"none", "ok", "failed"}]
    BY <1>1, <2>1
  <2> QED BY <1>1, <2>1, <2>3, <2>4, <2>5, <2>6, <2>7, <2>8, PoolMoves
<1>14. CASE Maintain
  <2>1. PICK empty \in SUBSET (Slots \ respawning) :
          /\ \A s \in empty : ~slot_alive(s)
          /\ respawning' = respawning \cup empty
          /\ circuit' = [s \in Slots |-> IF s \in empty /\ circuit[s].open = "cooled"
                                         THEN record_crash(circuit[s]) ELSE circuit[s]]
    BY <1>14 DEF Maintain
  <2>2. /\ pc' \in {"dispatch", "select"} /\ life = "ready"
        /\ UNCHANGED <<config, next, poolVars, respawned, acks, removed, life, steered, late, faults, commands>>
    BY <1>14 DEF Maintain
  <2>3. \A s \in empty : ~TaskOn(s) /\ s \notin idle BY <2>1 DEF slot_alive
  <2>4. \A s \in Slots : /\ record_crash(circuit[s]) \in Circuit
                         /\ record_crash(circuit[s]).open = "closed" =>
                              record_crash(circuit[s]).crashes < CrashThreshold
    BY <1>1, CrashFields
  <2>5. /\ circuit' \in [Slots -> Circuit]
        /\ \A s \in Slots : circuit'[s].open = "closed" => circuit'[s].crashes < CrashThreshold
    BY <1>1, <2>1, <2>4
  <2>6. /\ \A s \in idle' : ~TaskOn(s) /\ s \notin respawning'
        /\ \A s \in respawning' : ~TaskOn(s)
        /\ \A s \in Slots : respawned'[s] # "none" => s \in respawning'
        /\ respawning' \subseteq Slots
    BY <1>1, <1>3, <2>1, <2>2, <2>3 DEF poolVars
  <2> QED BY <1>1, <1>3, <2>2, <2>5, <2>6, PoolMoves DEF poolVars
<1>15. CASE StartWake
  BY <1>1, <1>3, <1>15, PoolMoves DEF StartWake, poolVars, respawnVars
<1>16. CASE WakeDone
  <2>0. /\ life = "waking" /\ idle = {} /\ respawning = {} /\ \A s \in Slots : ~TaskOn(s)
    BY <1>3, <1>16 DEF WakeDone
  <2>1. UNCHANGED <<config, next, q, tasks, respawnVars, acks, removed, steered, late, commands>>
    BY <1>16 DEF WakeDone
  <2>2. CASE life' = "failed" /\ Spend /\ UNCHANGED <<idle, sessions, pc>>
    BY <1>0, <1>1, <1>3, <2>0, <2>1, <2>2, SpendCounts, PoolMoves DEF respawnVars
  <2>3. CASE /\ idle' \subseteq Slots /\ (Spend \/ UNCHANGED faults)
             /\ sessions' = [s \in Slots |-> {}]
             /\ life' = "ready" /\ pc' = "dispatch"
    <3>1. faults' \in 0..config.maxFaults BY <1>0, <1>1, <2>3, SpendCounts
    <3>2. sessions' \in [Slots -> SUBSET Channels] /\ \A s \in idle' : sessions'[s] \cap removed = {}
      BY <2>3
    <3>3. \A s \in idle' : ~TaskOn(s) /\ s \notin respawning BY <2>0, <2>3
    <3> QED BY <1>0, <1>1, <1>3, <2>0, <2>1, <2>3, <3>1, <3>2, <3>3, PoolMoves DEF respawnVars
  <2> QED BY <1>16, <2>2, <2>3 DEF WakeDone
<1>17. CASE IdleSleep
  <2>1. /\ \A s \in Slots : ~TaskOn(s)
        /\ respawning = {} /\ idle' = {} /\ sessions' = [s \in Slots |-> {}] /\ life' = "listening"
        /\ UNCHANGED <<config, pc, next, q, tasks, respawnVars, acks, removed, steered, late, faults, commands>>
    BY <1>17 DEF IdleSleep
  <2>2. sessions' \in [Slots -> SUBSET Channels] BY <2>1
  <2> QED BY <1>1, <1>3, <2>1, <2>2, PoolMoves DEF respawnVars
<1>18. CASE Shutdown
  BY <1>1, <1>2, <1>3, <1>18, PoolMoves DEF Shutdown, poolVars, respawnVars
<1>19. CASE Exit
  <2>1. /\ pc' = "exited" /\ idle' = {} /\ tasks' = [s \in Slots |-> NoTask]
        /\ sessions' = [s \in Slots |-> {}]
        /\ circuit' = [s \in Slots |-> [crashes |-> 0, open |-> "closed"]]
        /\ respawning' = {} /\ respawned' = [s \in Slots |-> "none"]
        /\ removed' = {} /\ life' = "listening"
        /\ UNCHANGED <<config, next, faults, commands>>
    BY <1>19 DEF Exit
  <2>2. \A s \in Slots : tasks'[s] = NoTask /\ ~TaskOn(s)' BY <2>1, NoTaskFields DEF TaskOn
  <2>3. /\ tasks' \in [Slots -> TaskState] /\ sessions' \in [Slots -> SUBSET Channels]
        /\ respawned' \in [Slots -> {"none", "ok", "failed"}]
    BY <2>1, NoTaskFields
  <2>4. /\ circuit' \in [Slots -> Circuit]
        /\ \A s \in Slots : circuit'[s].open = "closed" => circuit'[s].crashes < CrashThreshold
    BY <2>1, HarnessAssumption DEF Circuit
  <2>5. Types' BY <1>1, <2>1, <2>2, <2>3, <2>4, NoTaskFields DEF Types
  <2>6. SlotExclusive' /\ SessionsStripped' /\ Asleep'
    BY <2>1, <2>2 DEF SlotExclusive, SessionsStripped, Asleep
  <2> QED BY <2>5, <2>6 DEF PoolInv
<1>20. CASE \E c \in Channels : MemberRemoved(c)
  <2>1. PICK c \in Channels : MemberRemoved(c) BY <1>20
  <2>2. /\ commands' \in 0..config.maxCommands /\ removed' = removed \cup {c}
        /\ sessions' = [s \in Slots |-> IF s \in idle /\ life = "ready"
                                        THEN sessions[s] \ {c} ELSE sessions[s]]
        /\ UNCHANGED <<config, pc, next, idle, tasks, respawnVars, acks, life, steered, late, faults>>
    BY <1>2, <2>1 DEF MemberRemoved
  <2>3. sessions' \in [Slots -> SUBSET Channels] BY <1>1, <2>2
  <2>4. \A s \in idle : sessions'[s] \cap removed' = {}
    BY <1>1, <1>3, <2>2
  <2> QED BY <1>1, <1>3, <2>2, <2>3, <2>4, PoolMoves DEF respawnVars
<1>21. CASE \E c \in Channels : MemberAdded(c)
  <2>1. PICK c \in Channels : removed' = removed \ {c} BY <1>21 DEF MemberAdded
  <2>2. UNCHANGED <<config, pc, next, q, poolVars, respawnVars, acks, life, steered, late, faults, commands>>
    BY <1>21 DEF MemberAdded
  <2> QED BY <1>1, <1>3, <2>1, <2>2, PoolMoves DEF respawnVars, poolVars
<1>22. CASE \E c \in Channels : RetryElapses(c) \/ DeadlinePasses(c)
  <2>1. UNCHANGED <<config, pc, next, poolVars, respawnVars, removed, life, commands>>
    BY <1>22 DEF RetryElapses, DeadlinePasses
  <2>2. faults' \in 0..config.maxFaults
    BY <1>0, <1>1, <1>22, SpendCounts DEF RetryElapses, DeadlinePasses
  <2> QED BY <1>1, <1>3, <2>1, <2>2, PoolMoves DEF respawnVars, poolVars
<1>23. CASE \E s \in Slots : CircuitCools(s)
  <2>1. PICK s \in Slots : CircuitCools(s) BY <1>23
  <2>2. UNCHANGED <<config, pc, next, poolVars, respawning, respawned, removed, life, faults, commands>>
    BY <2>1 DEF CircuitCools
  <2>3. /\ circuit' \in [Slots -> Circuit]
        /\ \A r \in Slots : circuit'[r].open = "closed" => circuit'[r].crashes < CrashThreshold
    <3>1. circuit[s] \in Circuit /\ CrashThreshold \in Nat /\ circuit[s].crashes \in 0..CrashThreshold
      BY <1>1, HarnessAssumption DEF Circuit
    <3>2. CASE circuit' = [circuit EXCEPT ![s].open = "cooled"]
      <4>1. [circuit[s] EXCEPT !.open = "cooled"] \in Circuit
            /\ [circuit[s] EXCEPT !.open = "cooled"].open = "cooled"
        BY <3>1 DEF Circuit
      <4> QED BY <1>1, <3>2, <4>1
    <3>3. CASE circuit[s].crashes > 0 /\ circuit' = [circuit EXCEPT ![s].crashes = @ - 1]
      <4> DEFINE k == [circuit[s] EXCEPT !.crashes = circuit[s].crashes - 1]
      <4>1. circuit[s].crashes - 1 \in 0..CrashThreshold /\ circuit[s].crashes - 1 < circuit[s].crashes
        BY <3>1, <3>3
      <4>2. k \in Circuit /\ k.open = circuit[s].open /\ k.crashes = circuit[s].crashes - 1
        BY <3>1, <4>1 DEF Circuit
      <4>3. k.open = "closed" => k.crashes < CrashThreshold
        BY <1>1, <3>1, <4>1, <4>2
      <4>4. circuit' = [circuit EXCEPT ![s] = k] BY <1>1, <3>3
      <4> HIDE DEF k
      <4> QED BY <1>1, <4>2, <4>3, <4>4
    <3> QED BY <2>1, <3>2, <3>3 DEF CircuitCools
  <2> QED BY <1>1, <1>3, <2>2, <2>3, PoolMoves DEF poolVars
<1>24. CASE WakeRetryDue
  BY <1>1, <1>3, <1>24, PoolMoves DEF WakeRetryDue, poolVars, respawnVars
<1>25. CASE AtRest \/ UNCHANGED vars
  BY <1>1, <1>3, <1>25, PoolMoves DEF AtRest, vars
<1> QED BY <1>5, <1>6, <1>7, <1>8, <1>9, <1>10, <1>11, <1>12, <1>13, <1>14, <1>15, <1>16,
           <1>17, <1>18, <1>19, <1>20, <1>21, <1>22, <1>23, <1>24, <1>25
        DEF Next, MainLoop, Time, Task

-----------------------------------------------------------------------------
(* Every event has one home *)

\* Steps of the queue that take nothing from a turn and give it nothing.
LEMMA HomesKept ==
    ASSUME Homes, Types, SameTurns, next' = next, Keeps(q, q', {}, next),
           pc' # "exited" => pc # "exited"
    PROVE  Homes'
<1>1. \A s \in Slots : /\ Batch(tasks'[s]) = Batch(tasks[s])
                       /\ tasks'[s].events = tasks[s].events
                       /\ tasks'[s].cancelled = tasks[s].cancelled
                       /\ tasks'[s].ch = tasks[s].ch
  BY DEF SameTurns, Batch
<1>2. /\ QueueOK(q', next) /\ q.shed \subseteq q'.shed /\ q.returned \subseteq q'.returned
      /\ Held(q') \cup q'.shed \subseteq Held(q) \cup q.shed
      /\ Held(q) \subseteq Held(q') \cup q'.shed
  BY DEF Keeps
<1>3. \A s \in Slots : BatchOK(tasks'[s], tasks'[s].ch, next')
  <2> SUFFICES ASSUME NEW s \in Slots PROVE BatchOK(tasks'[s], tasks'[s].ch, next')
    OBVIOUS
  <2>1. BatchOK(tasks[s], tasks[s].ch, next) BY DEF Homes
  <2> QED BY <1>1, <1>2, <2>1 DEF BatchOK
<1>4. \A s \in Slots : Batch(tasks'[s]) \cap (Held(q') \cup q'.shed) = {}
  BY <1>1, <1>2 DEF Homes
<1>5. \A r, s \in Slots : r # s => Batch(tasks'[r]) \cap Batch(tasks'[s]) = {}
  BY <1>1 DEF Homes
<1>6. ASSUME pc' # "exited", NEW e \in 1..(next - 1)
      PROVE  \/ e \in q'.shed \cup Held(q')
             \/ \E s \in Slots : e \in Batch(tasks'[s])
  <2>1. \/ e \in q.shed \cup Held(q)
        \/ \E s \in Slots : e \in Batch(tasks[s])
    BY <1>6 DEF Homes
  <2> QED BY <1>1, <1>2, <2>1
<1> QED BY <1>2, <1>3, <1>4, <1>5, <1>6 DEF Homes

\* The relay's event is new to every turn.
LEMMA HomesFed ==
    ASSUME Homes, Types, SameTurns, next \in 1..NumEvents, next' = next + 1,
           Keeps(q, q', {next}, next + 1), pc' # "exited" => pc # "exited"
    PROVE  Homes'
<1>0. next \in Nat BY HarnessAssumption
<1>1. \A s \in Slots : /\ Batch(tasks'[s]) = Batch(tasks[s])
                       /\ tasks'[s].events = tasks[s].events
                       /\ tasks'[s].cancelled = tasks[s].cancelled
                       /\ tasks'[s].ch = tasks[s].ch
  BY DEF SameTurns, Batch
<1>2. /\ QueueOK(q', next + 1) /\ q.shed \subseteq q'.shed /\ q.returned \subseteq q'.returned
      /\ Held(q') \cup q'.shed \subseteq Held(q) \cup q.shed \cup {next}
      /\ Held(q) \cup {next} \subseteq Held(q') \cup q'.shed
  BY DEF Keeps
<1>3. \A s \in Slots : BatchOK(tasks'[s], tasks'[s].ch, next')
  <2> SUFFICES ASSUME NEW s \in Slots PROVE BatchOK(tasks'[s], tasks'[s].ch, next')
    OBVIOUS
  <2>1. BatchOK(tasks[s], tasks[s].ch, next) BY DEF Homes
  <2>2. Past(tasks[s].ch, next) \subseteq Past(tasks[s].ch, next + 1) BY <1>0 DEF Past
  <2> QED BY <1>1, <1>2, <2>1, <2>2 DEF BatchOK
<1>4. \A s \in Slots : next \notin Batch(tasks[s])
  BY <1>0 DEF Homes, BatchOK, Past
<1>5. \A s \in Slots : Batch(tasks'[s]) \cap (Held(q') \cup q'.shed) = {}
  BY <1>1, <1>2, <1>4 DEF Homes
<1>6. \A r, s \in Slots : r # s => Batch(tasks'[r]) \cap Batch(tasks'[s]) = {}
  BY <1>1 DEF Homes
<1>7. ASSUME pc' # "exited", NEW e \in 1..(next' - 1)
      PROVE  \/ e \in q'.shed \cup Held(q')
             \/ \E s \in Slots : e \in Batch(tasks'[s])
  <2>1. e \in 1..(next - 1) \/ e = next BY <1>0, <1>7
  <2>2. e = next \/ e \in q.shed \cup Held(q)
        \/ \E s \in Slots : e \in Batch(tasks[s])
    BY <1>7, <2>1 DEF Homes
  <2> QED BY <1>1, <1>2, <2>2
<1> QED BY <1>2, <1>3, <1>5, <1>6, <1>7 DEF Homes

\* A turn that is handled gives its batch to the queue.
LEMMA HomesReturned ==
    ASSUME Homes, Types, NEW s \in Slots, tasks' = [tasks EXCEPT ![s] = NoTask],
           next' = next, Keeps(q, q', Batch(tasks[s]), next), pc # "exited"
    PROVE  Homes'
<1>0. Batch(NoTask) = {} BY NoTaskFields, ElemsOfNone DEF Batch
<1>1. /\ tasks'[s] = NoTask /\ Batch(tasks'[s]) = {}
      /\ \A r \in Slots \ {s} : tasks'[r] = tasks[r]
  <2>1. tasks \in [Slots -> TaskState] /\ NoTask \in TaskState BY NoTaskFields DEF Types
  <2> QED BY <1>0, <2>1, OneTask
<1> DEFINE B == Batch(tasks[s])
<1>2. /\ QueueOK(q', next) /\ q.shed \subseteq q'.shed /\ q.returned \subseteq q'.returned
      /\ Held(q') \cup q'.shed \subseteq Held(q) \cup q.shed \cup B
      /\ Held(q) \cup B \subseteq Held(q') \cup q'.shed
  BY DEF Keeps
<1>3. \A r \in Slots : BatchOK(tasks'[r], tasks'[r].ch, next')
  <2> SUFFICES ASSUME NEW r \in Slots PROVE BatchOK(tasks'[r], tasks'[r].ch, next')
    OBVIOUS
  <2>1. CASE r = s
    BY <1>1, <2>1, NoTaskFields, ElemsOfNone DEF BatchOK, Batch
  <2>2. CASE r # s
    <3>1. BatchOK(tasks[r], tasks[r].ch, next) BY DEF Homes
    <3> QED BY <1>1, <1>2, <2>2, <3>1 DEF BatchOK
  <2> QED BY <2>1, <2>2
<1>4. ASSUME NEW r \in Slots PROVE Batch(tasks'[r]) \cap (Held(q') \cup q'.shed) = {}
  <2>1. CASE r = s BY <1>1, <2>1
  <2>2. CASE r # s
    <3>1. Batch(tasks'[r]) = Batch(tasks[r]) BY <1>1, <2>2
    <3>2. Batch(tasks[r]) \cap B = {} BY <2>2 DEF Homes
    <3>3. Batch(tasks[r]) \cap (Held(q) \cup q.shed) = {} BY DEF Homes
    <3> QED BY <1>2, <3>1, <3>2, <3>3
  <2> QED BY <2>1, <2>2
<1>5. \A x, y \in Slots : x # y => Batch(tasks'[x]) \cap Batch(tasks'[y]) = {}
  BY <1>1 DEF Homes
<1>6. ASSUME NEW e \in 1..(next - 1)
      PROVE  \/ e \in q'.shed \cup Held(q')
             \/ \E r \in Slots : e \in Batch(tasks'[r])
  <2>1. \/ e \in q.shed \cup Held(q)
        \/ e \in B
        \/ \E r \in Slots \ {s} : e \in Batch(tasks[r])
    BY DEF Homes
  <2> QED BY <1>1, <1>2, <2>1
<1> QED BY <1>2, <1>3, <1>4, <1>5, <1>6 DEF Homes

\* A turn that starts takes its batch from the queue.
LEMMA HomesStarted ==
    ASSUME Homes, Types, NEW s \in Slots, ~TaskOn(s), NEW u, Keeps(q, u, {}, next),
           \A r \in Slots \ {s} : tasks'[r] = tasks[r],
           next' = next, QueueOK(q', next), q'.shed = u.shed, q'.returned = u.returned,
           BatchOK(tasks'[s], tasks'[s].ch, next),
           Held(u) = Held(q') \cup Batch(tasks'[s]), Held(q') \cap Batch(tasks'[s]) = {},
           pc' # "exited" => pc # "exited"
    PROVE  Homes'
<1> DEFINE B == Batch(tasks'[s])
<1>0. Batch(tasks[s]) = {} BY NoTaskFields, ElemsOfNone DEF Batch, Types
<1>1. /\ QueueOK(u, next) /\ q.shed \subseteq u.shed /\ q.returned \subseteq u.returned
      /\ Held(u) \cup u.shed \subseteq Held(q) \cup q.shed
      /\ Held(q) \subseteq Held(u) \cup u.shed
  BY DEF Keeps
<1>2. Held(u) \cap u.shed = {}
  <2>1. \A e \in Events : ChannelOf[e] \in Channels BY HarnessAssumption
  <2> QED BY <1>1, <2>1 DEF Held, QueueOK, ChannelOK
<1>3. ASSUME NEW r \in Slots PROVE BatchOK(tasks'[r], tasks'[r].ch, next')
  <2>1. CASE r = s BY <2>1
  <2>2. CASE r # s
    <3>1. BatchOK(tasks[r], tasks[r].ch, next) BY DEF Homes
    <3> QED BY <1>1, <2>2, <3>1 DEF BatchOK
  <2> QED BY <2>1, <2>2
<1>4. ASSUME NEW r \in Slots \ {s}
      PROVE  /\ Batch(tasks'[r]) = Batch(tasks[r])
             /\ Batch(tasks'[r]) \cap B = {}
             /\ Batch(tasks'[r]) \cap (Held(q') \cup q'.shed) = {}
  <2>1. Batch(tasks[r]) \cap (Held(q) \cup q.shed) = {} BY DEF Homes
  <2> QED BY <1>1, <2>1
<1>5. B \cap (Held(q') \cup q'.shed) = {}
  BY <1>2
<1>6. \A x, y \in Slots : x # y => Batch(tasks'[x]) \cap Batch(tasks'[y]) = {}
  <2> SUFFICES ASSUME NEW x \in Slots, NEW y \in Slots, x # y
               PROVE  Batch(tasks'[x]) \cap Batch(tasks'[y]) = {}
    OBVIOUS
  <2>1. CASE x = s BY <2>1, <1>4
  <2>2. CASE y = s BY <2>2, <1>4
  <2>3. CASE x # s /\ y # s
    <3>1. Batch(tasks[x]) \cap Batch(tasks[y]) = {} BY DEF Homes
    <3> QED BY <2>3, <3>1, <1>4
  <2> QED BY <2>1, <2>2, <2>3
<1>7. ASSUME pc' # "exited", NEW e \in 1..(next - 1)
      PROVE  \/ e \in q'.shed \cup Held(q')
             \/ \E r \in Slots : e \in Batch(tasks'[r])
  <2>1. \/ e \in q.shed \cup Held(q)
        \/ \E r \in Slots \ {s} : e \in Batch(tasks[r])
    BY <1>0, <1>7 DEF Homes
  <2> QED BY <1>1, <1>4, <2>1
<1> QED BY <1>3, <1>4, <1>5, <1>6, <1>7 DEF Homes

-----------------------------------------------------------------------------
(* The operators of the queue in the order the handlers call them *)

\* What goes back to the front of a queue leaves it with something to flush.
LEMMA KeptSome ==
    ASSUME NEW s \in Seq(Events), NEW t \in Seq(Events), s # <<>>
    PROVE  Kept(s \o t) # <<>>
<1> DEFINE x == s \o t
           k == Smaller(Len(x), MaxPending)
<1>1. x \in Seq(Events) /\ Len(x) = Len(s) + Len(t) OBVIOUS
<1>2. Len(s) \in Nat /\ Len(t) \in Nat /\ Len(s) # 0 /\ MaxPending \in Nat \ {0}
  BY HarnessAssumption
<1>3. k \in 1..Len(x) BY <1>1, <1>2 DEF Smaller
<1> HIDE DEF x, k
<1>4. SubSeq(x, 1, k) \in Seq(Events) /\ Len(SubSeq(x, 1, k)) = k
  BY <1>1, <1>3
<1>5. Len(SubSeq(x, 1, k)) # 0 BY <1>3, <1>4
<1>6. Kept(x) = SubSeq(x, 1, k) BY DEF Kept, k
<1> QED BY <1>4, <1>5, <1>6 DEF x

\* Only a channel past its deadline expires, and its withheld events return.
LEMMA ExpireOnTime ==
    ASSUME NEW n \in 1..(NumEvents + 1), NEW u, QueueOK(u, n)
    PROVE  LET v == expire(u) IN
           /\ v.inFlight = u.inFlight \ u.overdue /\ v.overdue = {}
           /\ v.cancelled = u.cancelled /\ v.retryAfter = u.retryAfter
           /\ \A c \in Channels \ u.overdue :
                v.queues[c] = u.queues[c] /\ v.withheld[c] = u.withheld[c]
           /\ \A c \in u.overdue : Elems(u.withheld[c]) \subseteq v.returned
           /\ u.returned \subseteq v.returned
<1> DEFINE v == expire(u)
           back(c) == IF c \in u.overdue THEN u.withheld[c] ELSE <<>>
<1>1. u \in QueueState BY DEF QueueOK
<1>2. /\ v.inFlight = u.inFlight \ u.overdue /\ v.overdue = {}
      /\ v.cancelled = u.cancelled /\ v.retryAfter = u.retryAfter
      /\ \A c \in Channels : /\ v.queues[c] = Kept(back(c) \o u.queues[c])
                             /\ v.withheld[c] = IF c \in u.overdue THEN <<>> ELSE u.withheld[c]
      /\ v.returned = u.returned \cup UNION {Elems(back(c)) : c \in Channels}
  BY <1>1, ExpireFields
<1> HIDE DEF v
<1>4. \A c \in u.overdue : c \in Channels /\ back(c) = u.withheld[c]
  BY <1>1 DEF QueueState
<1>5. \A c \in Channels \ u.overdue : back(c) = <<>>
  OBVIOUS
<1> HIDE DEF back
<1>6. ASSUME NEW c \in u.overdue PROVE Elems(u.withheld[c]) \subseteq v.returned
  <2>1. c \in Channels /\ Elems(back(c)) = Elems(u.withheld[c]) BY <1>4
  <2>2. Elems(back(c)) \subseteq v.returned BY <1>2, <2>1
  <2> QED BY <2>1, <2>2
<1>3. ASSUME NEW c \in Channels PROVE Kept(<<>> \o u.queues[c]) = u.queues[c]
  <2> DEFINE s == u.queues[c]
  <2>1. s \in Seq(Events) /\ Len(s) <= MaxPending BY <1>1 DEF QueueOK, ChannelOK, QueueState
  <2>2. MaxPending \in Nat BY HarnessAssumption
  <2>3. <<>> \o s = s BY <2>1
  <2>4. Smaller(Len(s), MaxPending) = Len(s) BY <2>1, <2>2 DEF Smaller
  <2>5. SubSeq(s, 1, Len(s)) = s BY <2>1
  <2> QED BY <2>3, <2>4, <2>5 DEF Kept
<1>7. \A c \in Channels \ u.overdue : v.queues[c] = u.queues[c] /\ v.withheld[c] = u.withheld[c]
  BY <1>2, <1>3, <1>5
<1>8. u.returned \subseteq v.returned BY <1>2
<1> QED BY <1>2, <1>6, <1>7, <1>8 DEF v

\* A batch that finds no idle agent goes back; its cancelled events do not.
LEMMA DeclineKeeps ==
    ASSUME NEW n \in 1..(NumEvents + 1), NEW u, QueueOK(u, n), NEW c \in Channels,
           c \in ReadyChannels(u) \cup CancelledChannels(u), c \notin u.inFlight
    PROVE  LET x == mark_complete(requeue_preserve_timestamps(flush_next(u, c), c, FlushBatch(u, c)), c)
           IN
           /\ Keeps(u, x, {}, n)
           /\ x.inFlight = u.inFlight /\ x.overdue = u.overdue \ {c} /\ x.withheld = u.withheld
           /\ x.cancelled[c] = <<>> /\ x.queues[c] # <<>> /\ Elsewhere(u, x, c)
           /\ \A d \in Channels : x.retryAfter[d] = "pending" <=> u.retryAfter[d] = "pending"
<1> DEFINE v == flush_next(u, c)
           b == FlushBatch(u, c)
           w == Lose(PutFront(v, c, b.events), Elems(b.cancelled))
           x == mark_complete(w, c)
<1>0. requeue_preserve_timestamps(v, c, b) = w BY DEF requeue_preserve_timestamps
<1>1. u \in QueueState BY DEF QueueOK
<1>2. /\ QueueOK(v, n) /\ v.shed = u.shed /\ v.returned = u.returned
      /\ b.events \in Seq(Events) /\ b.cancelled \in Seq(Events) /\ b.events # <<>>
      /\ BatchOK(b, c, n)
      /\ Held(u) = Held(v) \cup Batch(b) /\ Held(v) \cap Batch(b) = {}
  BY FlushGives
<1>3. /\ v.cancelled[c] = <<>> /\ v.withheld = u.withheld
      /\ v.inFlight = u.inFlight \cup {c} /\ v.overdue = u.overdue \ {c}
      /\ v.retryAfter = u.retryAfter /\ Elsewhere(u, v, c)
  BY <1>1, FlushFields
<1>4. Held(u) \cap u.shed = {}
  <2>1. \A e \in Events : ChannelOf[e] \in Channels BY HarnessAssumption
  <2> QED BY <2>1 DEF Held, QueueOK, ChannelOK
<1>6. Batch(b) \cap (Held(v) \cup v.shed) = {}
  BY <1>2, <1>4
<1>7. v \in QueueState /\ v.queues[c] \in Seq(Events) BY <1>2 DEF QueueOK, QueueState
<1> HIDE DEF v, b
<1>8. Keeps(v, w, Batch(b), n)
  BY <1>2, <1>6, PutBackKeeps
<1>9. /\ w \in QueueState /\ w.queues[c] = Kept(b.events \o v.queues[c])
      /\ w.cancelled = v.cancelled /\ w.withheld = v.withheld
      /\ Elsewhere(v, w, c) /\ SameMarks(v, w)
  BY <1>2, <1>7, PutBackFields
<1>10. w.queues[c] # <<>> BY <1>2, <1>7, <1>9, KeptSome
<1> HIDE DEF w
<1>11. /\ x \in QueueState
       /\ x.inFlight = w.inFlight \ {c} /\ x.overdue = w.overdue \ {c}
       /\ x.queues = w.queues /\ x.cancelled = w.cancelled /\ x.withheld = w.withheld
       /\ x.shed = w.shed /\ x.returned = w.returned
       /\ \A d \in Channels : x.retryAfter[d] = "pending" <=> w.retryAfter[d] = "pending"
  BY <1>9, MarkCompleteFields
<1> HIDE DEF x
<1>12. QueueOK(w, n) /\ w.overdue \subseteq w.inFlight BY <1>8 DEF Keeps, QueueOK
<1>13. Keeps(w, x, {}, n) BY <1>11, <1>12, SameTables
<1>14. Keeps(v, x, Batch(b), n)
  <2>1. Keeps(v, x, Batch(b) \cup {}, n) BY <1>8, <1>13, KeepsBoth
  <2> QED BY <2>1
<1>15. Keeps(u, x, {}, n)
  BY <1>2, <1>14 DEF Keeps
<1>16. /\ x.inFlight = u.inFlight /\ x.withheld = u.withheld /\ x.cancelled[c] = <<>>
       /\ x.overdue = u.overdue \ {c}
       /\ x.queues[c] # <<>> /\ Elsewhere(u, x, c)
       /\ \A d \in Channels : x.retryAfter[d] = "pending" <=> u.retryAfter[d] = "pending"
  BY <1>3, <1>9, <1>10, <1>11 DEF SameMarks, Elsewhere
<1> QED BY <1>0, <1>15, <1>16 DEF x, w, v, b

\* The queue u took the batch B of channel c back and freed the channel.
TookBack(u, x, c, B, n) ==
    /\ Keeps(u, x, B, n)
    /\ x.inFlight = u.inFlight \ {c} /\ x.overdue = u.overdue \ {c}
    /\ x.withheld = u.withheld /\ Elsewhere(u, x, c)
    /\ \A d \in Channels \ {c} : x.retryAfter[d] = "pending" <=> u.retryAfter[d] = "pending"
    /\ x.retryAfter[c] = "pending" =>
         \/ u.retryAfter[c] = "pending"
         \/ x.queues[c] # <<>> /\ x.cancelled[c] = u.cancelled[c]

\* A turn's batch comes back in one of three ways, and its channel is free.
LEMMA ReturnKeeps ==
    ASSUME NEW n \in 1..(NumEvents + 1), NEW u, QueueOK(u, n), NEW c \in Channels, NEW b,
           b.events \in Seq(Events), b.cancelled \in Seq(Events), b.events # <<>>,
           BatchOK(b, c, n), Batch(b) \cap (Held(u) \cup u.shed) = {},
           NEW w, \/ w = Shed(u, Elems(b.events) \cup Elems(b.cancelled))
                  \/ w = requeue_as_cancelled(u, c, b) \/ w = requeue(u, c, b)
    PROVE  TookBack(u, mark_complete(w, c), c, Batch(b), n)
<1> DEFINE x == mark_complete(w, c)
<1>1. u \in QueueState /\ u.queues[c] \in Seq(Events) BY DEF QueueOK, QueueState
<1>2. /\ w \in QueueState /\ Keeps(u, w, Batch(b), n)
      /\ w.inFlight = u.inFlight /\ w.overdue = u.overdue
      /\ w.withheld = u.withheld /\ Elsewhere(u, w, c)
      /\ \A d \in Channels \ {c} : w.retryAfter[d] = "pending" <=> u.retryAfter[d] = "pending"
      /\ w.retryAfter[c] = "pending" =>
           \/ u.retryAfter[c] = "pending"
           \/ w.queues[c] # <<>> /\ w.cancelled[c] = u.cancelled[c]
  <2>1. CASE w = Shed(u, Elems(b.events) \cup Elems(b.cancelled))
    <3> DEFINE S == Elems(b.events) \cup Elems(b.cancelled)
    <3>1. S = Batch(b) BY DEF Batch
    <3>2. S \subseteq Past(c, n) BY <3>1 DEF BatchOK
    <3>3. S \subseteq Events /\ S \subseteq 1..(n - 1) BY <3>2, PastIn DEF Past
    <3>4. S \cap Held(u) = {} BY <3>1
    <3> HIDE DEF S
    <3>5. Keeps(u, Shed(u, S), S, n) BY <3>3, <3>4, ShedKeeps
    <3>6. LET v == Shed(u, S) IN
          /\ v \in QueueState
          /\ v.queues = u.queues /\ v.cancelled = u.cancelled /\ v.withheld = u.withheld
          /\ SameMarks(u, v)
      BY <1>1, <3>3, ShedFields
    <3> QED BY <2>1, <3>1, <3>5, <3>6 DEF S, SameMarks, Elsewhere
  <2>2. CASE w = requeue_as_cancelled(u, c, b)
    <3>1. Keeps(u, w, Batch(b), n) BY <2>2, CancelKeeps
    <3>2. /\ w \in QueueState /\ w.withheld = u.withheld
          /\ Elsewhere(u, w, c) /\ SameMarks(u, w)
      BY <1>1, <2>2, CancelFields
    <3> QED BY <3>1, <3>2 DEF SameMarks
  <2>3. CASE w = requeue(u, c, b)
    <3>1. Keeps(u, w, Batch(b), n) BY <2>3, RequeueKeeps
    <3>2. /\ w \in QueueState
          /\ w.inFlight = u.inFlight /\ w.overdue = u.overdue
          /\ w.cancelled = u.cancelled /\ w.withheld = u.withheld
          /\ \A d \in Channels \ {c} : w.retryAfter[d] = u.retryAfter[d]
          /\ Elsewhere(u, w, c)
          /\ \/ w.retryAfter[c] = "none"
             \/ w.queues[c] = Kept(b.events \o u.queues[c])
      BY <1>1, <2>3, RequeueFields
    <3>3. Kept(b.events \o u.queues[c]) # <<>> BY <1>1, KeptSome
    <3> QED BY <3>1, <3>2, <3>3
  <2> QED BY <2>1, <2>2, <2>3
<1>3. /\ x \in QueueState
      /\ x.inFlight = w.inFlight \ {c} /\ x.overdue = w.overdue \ {c}
      /\ x.queues = w.queues /\ x.cancelled = w.cancelled /\ x.withheld = w.withheld
      /\ x.shed = w.shed /\ x.returned = w.returned
      /\ \A d \in Channels : x.retryAfter[d] = "pending" <=> w.retryAfter[d] = "pending"
  BY <1>2, MarkCompleteFields
<1> HIDE DEF x
<1>4. QueueOK(w, n) /\ w.overdue \subseteq w.inFlight BY <1>2 DEF Keeps, QueueOK
<1>5. Keeps(w, x, {}, n) BY <1>3, <1>4, SameTables
<1>6. Keeps(u, x, Batch(b), n)
  <2>1. Keeps(u, x, Batch(b) \cup {}, n) BY <1>2, <1>5, KeepsBoth
  <2> QED BY <2>1
<1>7. TookBack(u, x, c, Batch(b), n) BY <1>2, <1>3, <1>6 DEF TookBack, Elsewhere
<1> QED BY <1>7 DEF x

\* The maintenance of the queue.
LEMMA MaintainQueue ==
    ASSUME NEW n \in 1..(NumEvents + 1), NEW u, QueueOK(u, n)
    PROVE  LET v == expire(compact_expired_state(u)) IN
           /\ Keeps(u, v, {}, n)
           /\ v.inFlight = u.inFlight \ u.overdue /\ v.overdue = {}
           /\ v.cancelled = u.cancelled
           /\ \A c \in Channels : v.retryAfter[c] = "pending" <=> u.retryAfter[c] = "pending"
           /\ \A c \in Channels \ u.overdue : /\ v.queues[c] = u.queues[c]
                                              /\ v.withheld[c] = u.withheld[c]
           /\ \A c \in u.overdue : Elems(u.withheld[c]) \subseteq v.returned
<1> DEFINE w == compact_expired_state(u)
           v == expire(w)
<1>1. u \in QueueState /\ u.overdue \subseteq u.inFlight BY DEF QueueOK
<1>2. /\ w \in QueueState
      /\ w.queues = u.queues /\ w.cancelled = u.cancelled /\ w.withheld = u.withheld
      /\ w.shed = u.shed /\ w.returned = u.returned
      /\ w.inFlight = u.inFlight /\ w.overdue = u.overdue
      /\ \A d \in Channels : w.retryAfter[d] = "pending" <=> u.retryAfter[d] = "pending"
  BY <1>1, CompactFields
<1> HIDE DEF w
<1>3. Keeps(u, w, {}, n) /\ QueueOK(w, n) BY <1>1, <1>2, SameTables
<1>4. Keeps(w, v, {}, n) BY <1>3, ExpireKeeps
<1>5. Keeps(u, v, {}, n)
  <2>1. Keeps(u, v, {} \cup {}, n) BY <1>3, <1>4, KeepsBoth
  <2> QED BY <2>1
<1>6. /\ v.inFlight = w.inFlight \ w.overdue /\ v.overdue = {}
      /\ v.cancelled = w.cancelled /\ v.retryAfter = w.retryAfter
  BY <1>2, ExpireFields
<1>7. /\ \A c \in Channels \ w.overdue : v.queues[c] = w.queues[c] /\ v.withheld[c] = w.withheld[c]
      /\ \A c \in w.overdue : Elems(w.withheld[c]) \subseteq v.returned
  BY <1>3, ExpireOnTime
<1> HIDE DEF v
<1>8. /\ v.inFlight = u.inFlight \ u.overdue /\ v.overdue = {}
      /\ v.cancelled = u.cancelled
      /\ \A c \in Channels : v.retryAfter[c] = "pending" <=> u.retryAfter[c] = "pending"
      /\ \A c \in Channels \ u.overdue : /\ v.queues[c] = u.queues[c]
                                         /\ v.withheld[c] = u.withheld[c]
      /\ \A c \in u.overdue : Elems(u.withheld[c]) \subseteq v.returned
  BY <1>2, <1>6, <1>7
<1> QED BY <1>5, <1>8 DEF v, w

\* An accepted steer: its event leaves the queue for good.
LEMMA AcceptQueue ==
    ASSUME NEW n \in 1..(NumEvents + 1), NEW u, QueueOK(u, n), NEW e \in Events
    PROVE  LET c == ChannelOf[e]
               v == remove_event(extend_in_flight_deadline(u, c), e)
           IN
           /\ Keeps(u, v, {}, n)
           /\ v.inFlight = u.inFlight /\ v.overdue \subseteq u.overdue
           /\ v.cancelled = u.cancelled /\ v.retryAfter = u.retryAfter
           /\ Elsewhere(u, v, c)
           /\ Elems(v.withheld[c]) = Elems(u.withheld[c]) \ {e}
           /\ e \in Elems(u.withheld[c]) => e \in v.shed
           /\ e \notin Elems(u.queues[c]) => v.queues[c] = u.queues[c]
<1> DEFINE c == ChannelOf[e]
           w == extend_in_flight_deadline(u, c)
           v == remove_event(w, e)
<1>1. u \in QueueState /\ u.overdue \subseteq u.inFlight /\ c \in Channels /\ ChannelOK(u, c, n)
  BY HarnessAssumption DEF QueueOK
<1>2. /\ w \in QueueState
      /\ w.queues = u.queues /\ w.cancelled = u.cancelled /\ w.withheld = u.withheld
      /\ w.shed = u.shed /\ w.returned = u.returned
      /\ w.inFlight = u.inFlight /\ w.overdue = u.overdue \ {c}
      /\ w.retryAfter = u.retryAfter
  BY <1>1, ExtendFields
<1> HIDE DEF w
<1>3. Keeps(u, w, {}, n) /\ QueueOK(w, n)
  <2>1. w.overdue \subseteq w.inFlight BY <1>1, <1>2
  <2> QED BY <1>2, <2>1, SameTables
<1>4. Keeps(w, v, {}, n) BY <1>3, RemoveKeeps
<1>5. Keeps(u, v, {}, n)
  <2>1. Keeps(u, v, {} \cup {}, n) BY <1>3, <1>4, KeepsBoth
  <2> QED BY <2>1
<1>6. Once(w.queues[c]) /\ Once(w.withheld[c]) /\ w.withheld[c] \in Seq(Events) /\ w.queues[c] \in Seq(Events)
  BY <1>1, <1>2 DEF ChannelOK, QueueState
<1>7. /\ v \in QueueState
      /\ v.queues[c] = Without(w.queues[c], e)
      /\ v.withheld[c] = Without(w.withheld[c], e)
      /\ v.cancelled = w.cancelled
      /\ v.shed = w.shed \cup ({e} \cap (Elems(w.queues[c]) \cup Elems(w.withheld[c])))
      /\ Elsewhere(w, v, c) /\ SameMarks(w, v)
  BY <1>2, <1>6, RemoveFields
<1>8. Elems(Without(w.withheld[c], e)) = Elems(w.withheld[c]) \ {e}
  BY <1>6, ElemsOfWithout
<1>9. e \notin Elems(w.queues[c]) => Without(w.queues[c], e) = w.queues[c]
  BY DEF Without
<1> HIDE DEF v
<1>10. /\ v.inFlight = u.inFlight /\ v.overdue \subseteq u.overdue
       /\ v.cancelled = u.cancelled /\ v.retryAfter = u.retryAfter
       /\ Elsewhere(u, v, c)
       /\ Elems(v.withheld[c]) = Elems(u.withheld[c]) \ {e}
       /\ e \in Elems(u.withheld[c]) => e \in v.shed
       /\ e \notin Elems(u.queues[c]) => v.queues[c] = u.queues[c]
  BY <1>2, <1>7, <1>8, <1>9 DEF SameMarks, Elsewhere
<1> QED BY <1>5, <1>10 DEF v, w

\* Any other answer: the event goes back to the queue if it is still withheld.
LEMMA ReleaseQueue ==
    ASSUME NEW n \in 1..(NumEvents + 1), NEW u, QueueOK(u, n), NEW e \in Events
    PROVE  LET c == ChannelOf[e]
               v == release_native_steer(u, e)
           IN
           /\ Keeps(u, v, {}, n)
           /\ v.inFlight = u.inFlight /\ v.overdue = u.overdue
           /\ v.cancelled = u.cancelled /\ v.retryAfter = u.retryAfter
           /\ Elsewhere(u, v, c)
           /\ Elems(v.withheld[c]) = Elems(u.withheld[c]) \ {e}
           /\ u.queues[c] # <<>> => v.queues[c] # <<>>
<1> DEFINE c == ChannelOf[e]
           v == release_native_steer(u, e)
<1>1. u \in QueueState /\ c \in Channels /\ ChannelOK(u, c, n) /\ u.queues[c] \in Seq(Events)
      /\ u.withheld[c] \in Seq(Events)
  BY HarnessAssumption DEF QueueOK, QueueState
<1>2. Keeps(u, v, {}, n) BY ReleaseKeeps
<1>3. CASE e \notin Elems(u.withheld[c])
  <2>1. v = u BY <1>3 DEF release_native_steer
  <2> QED BY <1>2, <1>3, <2>1 DEF Elsewhere
<1>4. CASE e \in Elems(u.withheld[c])
  <2>1. Once(u.withheld[c]) BY <1>1 DEF ChannelOK
  <2>2. /\ v.queues[c] = Kept(<<e>> \o u.queues[c])
        /\ v.withheld[c] = Without(u.withheld[c], e)
        /\ v.cancelled = u.cancelled
        /\ Elsewhere(u, v, c) /\ SameMarks(u, v)
    BY <1>1, <1>4, <2>1, ReleaseFields
  <2>3. Elems(Without(u.withheld[c], e)) = Elems(u.withheld[c]) \ {e}
    BY <1>1, <2>1, ElemsOfWithout
  <2>4. <<e>> \in Seq(Events) /\ <<e>> # <<>> OBVIOUS
  <2>5. Kept(<<e>> \o u.queues[c]) # <<>> BY <1>1, <2>4, KeptSome
  <2> QED BY <1>2, <2>2, <2>3, <2>5 DEF SameMarks
<1> QED BY <1>3, <1>4

\* The relay's event in the queue.
LEMMA PushQueue ==
    ASSUME NEW n \in 1..NumEvents, NEW u, QueueOK(u, n)
    PROVE  LET c == ChannelOf[n]
               v == push(u, n)
           IN
           /\ Keeps(u, v, {n}, n + 1)
           /\ v.inFlight = u.inFlight /\ v.overdue = u.overdue /\ v.cancelled = u.cancelled
           /\ v.withheld = u.withheld /\ v.retryAfter = u.retryAfter /\ Elsewhere(u, v, c)
           /\ u.queues[c] # <<>> => v.queues[c] # <<>>
           /\ n \in Elems(v.queues[c]) \cup v.shed
<1> DEFINE c == ChannelOf[n]
           v == push(u, n)
<1>1. n \in Events /\ c \in Channels /\ u \in QueueState /\ u.queues[c] \in Seq(Events)
  BY HarnessAssumption DEF Events, QueueOK, QueueState
<1>2. Keeps(u, v, {n}, n + 1) BY PushKeeps
<1>3. /\ v.cancelled = u.cancelled /\ v.withheld = u.withheld
      /\ Elsewhere(u, v, c) /\ SameMarks(u, v)
      /\ \/ v.queues[c] = u.queues[c] /\ v.shed = u.shed \cup {n}
         \/ v.queues[c] = Append(u.queues[c], n)
         \/ v.queues[c] = Append(Tail(u.queues[c]), n) /\ u.queues[c] # <<>>
  BY <1>1, PushFields
<1>4. \A s \in Seq(Events) : Append(s, n) # <<>> /\ n \in Elems(Append(s, n))
  <2> SUFFICES ASSUME NEW s \in Seq(Events) PROVE Append(s, n) # <<>> /\ n \in Elems(Append(s, n))
    OBVIOUS
  <2>1. Append(s, n) \in Seq(Events) /\ n \in Elems(Append(s, n)) BY <1>1, ElemsOfAppend
  <2> QED BY <2>1, ElemsOfNone
<1>5. u.queues[c] # <<>> => Tail(u.queues[c]) \in Seq(Events) BY <1>1
<1> QED BY <1>1, <1>2, <1>3, <1>4, <1>5 DEF SameMarks

\* The relay's event when it is sent to the turn.
LEMMA SteerQueue ==
    ASSUME NEW n \in 1..NumEvents, NEW u, QueueOK(u, n)
    PROVE  LET c == ChannelOf[n]
               v == mark_native_steer_pending(push(u, n), n)
           IN
           /\ Keeps(u, v, {n}, n + 1)
           /\ v.inFlight = u.inFlight /\ v.overdue = u.overdue /\ v.cancelled = u.cancelled
           /\ v.retryAfter = u.retryAfter /\ Elsewhere(u, v, c)
           /\ Elems(u.withheld[c]) \subseteq Elems(v.withheld[c])
           /\ n \in Elems(v.withheld[c]) \cup v.shed
<1> DEFINE c == ChannelOf[n]
           w == push(u, n)
           v == mark_native_steer_pending(w, n)
<1>0. n \in Events /\ c \in Channels /\ n + 1 \in 1..(NumEvents + 1)
  BY HarnessAssumption DEF Events
<1>1. /\ Keeps(u, w, {n}, n + 1)
      /\ w.inFlight = u.inFlight /\ w.overdue = u.overdue /\ w.cancelled = u.cancelled
      /\ w.withheld = u.withheld /\ w.retryAfter = u.retryAfter /\ Elsewhere(u, w, c)
      /\ n \in Elems(w.queues[c]) \cup w.shed
  BY PushQueue
<1> HIDE DEF w
<1>2. QueueOK(w, n + 1) /\ w \in QueueState /\ ChannelOK(w, c, n + 1) /\ w.withheld[c] \in Seq(Events)
  BY <1>0, <1>1 DEF Keeps, QueueOK, QueueState
<1>3. Keeps(w, v, {}, n + 1) BY <1>0, <1>2, WithholdKeeps
<1>4. Keeps(u, v, {n}, n + 1)
  <2>1. Keeps(u, v, {n} \cup {}, n + 1) BY <1>1, <1>3, KeepsBoth
  <2> QED BY <2>1
<1>5. CASE n \notin Elems(w.queues[c])
  <2>1. v = w BY <1>5 DEF mark_native_steer_pending
  <2>2. n \in w.shed BY <1>1, <1>5
  <2> QED BY <1>1, <1>4, <2>1, <2>2 DEF w
<1>6. CASE n \in Elems(w.queues[c])
  <2>1. Once(w.queues[c]) BY <1>2 DEF ChannelOK
  <2>2. /\ v.withheld[c] = Append(w.withheld[c], n)
        /\ v.cancelled = w.cancelled
        /\ Elsewhere(w, v, c) /\ SameMarks(w, v)
    BY <1>0, <1>2, <1>6, <2>1, WithholdFields
  <2>3. Elems(Append(w.withheld[c], n)) = Elems(w.withheld[c]) \cup {n}
    BY <1>0, <1>2, ElemsOfAppend
  <2> HIDE DEF v
  <2>4. /\ v.inFlight = u.inFlight /\ v.overdue = u.overdue /\ v.cancelled = u.cancelled
        /\ v.retryAfter = u.retryAfter /\ Elsewhere(u, v, c)
        /\ Elems(u.withheld[c]) \subseteq Elems(v.withheld[c])
        /\ n \in Elems(v.withheld[c]) \cup v.shed
    BY <1>1, <2>2, <2>3 DEF SameMarks, Elsewhere
  <2> QED BY <1>4, <2>4 DEF v, w
<1> QED BY <1>5, <1>6

\* A handled turn's batch in the queue.
LEMMA ReturnQueue ==
    ASSUME PoolInv, Homes, NEW s \in Slots, HandleResult(s) \/ HandlePanic(s)
    PROVE  /\ Keeps(q, q', Batch(tasks[s]), next) /\ pc # "exited"
           /\ tasks[s].ch = Heartbeat => q' = q
           /\ tasks[s].ch # Heartbeat =>
                LET c == tasks[s].ch IN
                /\ c \in Channels
                /\ q'.inFlight = q.inFlight \ {c} /\ q'.overdue = q.overdue \ {c}
                /\ q'.withheld = q.withheld /\ Elsewhere(q, q', c)
                /\ \A d \in Channels \ {c} :
                     q'.retryAfter[d] = "pending" <=> q.retryAfter[d] = "pending"
                /\ q'.retryAfter[c] = "pending" =>
                     \/ q.retryAfter[c] = "pending"
                     \/ q'.queues[c] # <<>> /\ q'.cancelled[c] = q.cancelled[c]
<1> DEFINE t == tasks[s]
           c == t.ch
<1>1. /\ next \in 1..(NumEvents + 1) /\ t \in TaskState
      /\ t.ch # Heartbeat => t.events # <<>>
      /\ t.ch = Heartbeat => t.events = <<>> /\ t.cancelled = <<>>
  BY DEF PoolInv, Types
<1>2. /\ t.events \in Seq(Events) /\ t.cancelled \in Seq(Events) /\ c \in Channels \cup {Heartbeat}
  BY <1>1 DEF TaskState
<1>3. /\ QueueOK(q, next) /\ BatchOK(t, c, next)
      /\ Batch(t) \cap (Held(q) \cup q.shed) = {}
  BY DEF Homes
<1>4. pc # "exited" BY DEF HandleResult, HandlePanic
<1>5. CASE c = Heartbeat
  <2>1. Batch(t) = {} BY <1>1, <1>5, ElemsOfNone DEF Batch
  <2>2. q' = q BY <1>5 DEF HandleResult, HandlePanic
  <2> QED BY <1>3, <1>4, <1>5, <2>1, <2>2 DEF Keeps
<1>6. CASE c # Heartbeat
  <2>1. c \in Channels BY <1>2, <1>6
  <2>2. PICK w : /\ \/ w = Shed(q, Elems(t.events) \cup Elems(t.cancelled))
                    \/ w = requeue_as_cancelled(q, c, t) \/ w = requeue(q, c, t)
                 /\ q' = mark_complete(w, c)
    BY <1>6 DEF HandleResult, HandlePanic, Settle
  <2>3. TookBack(q, mark_complete(w, c), c, Batch(t), next)
    <3> HIDE DEF t, c
    <3>1. t.events # <<>> /\ next \in 1..(NumEvents + 1) BY <1>1, <1>6 DEF c
    <3>2. \/ w = Shed(q, Elems(t.events) \cup Elems(t.cancelled))
          \/ w = requeue_as_cancelled(q, c, t) \/ w = requeue(q, c, t)
      BY <2>2
    <3> QED BY <1>2, <1>3, <2>1, <3>1, <3>2, ReturnKeeps
  <2>4. TookBack(q, q', c, Batch(t), next) BY <2>2, <2>3
  <2> QED BY <1>4, <1>6, <2>1, <2>4 DEF TookBack
<1> QED BY <1>5, <1>6

\* Timers of the queue.
LEMMA TimeQueue ==
    ASSUME QueueOK(q, next), NEW c \in Channels, RetryElapses(c) \/ DeadlinePasses(c)
    PROVE  /\ Keeps(q, q', {}, next)
           /\ q'.inFlight = q.inFlight
           /\ q'.queues = q.queues /\ q'.cancelled = q.cancelled /\ q'.withheld = q.withheld
           /\ q'.shed = q.shed
           /\ \A d \in Channels : q'.retryAfter[d] = "pending" => q.retryAfter[d] = "pending"
<1>1. q \in QueueState /\ q.overdue \subseteq q.inFlight BY DEF QueueOK
<1>2. CASE RetryElapses(c)
  <2> DEFINE v == [q EXCEPT !.retryAfter[c] = "elapsed"]
  <2>1. v \in QueueState BY <1>1 DEF QueueState
  <2>2. /\ v.queues = q.queues /\ v.cancelled = q.cancelled /\ v.withheld = q.withheld
        /\ v.shed = q.shed /\ v.returned = q.returned /\ v.overdue \subseteq v.inFlight
        /\ v.inFlight = q.inFlight
        /\ \A d \in Channels : v.retryAfter[d] = "pending" => q.retryAfter[d] = "pending"
    BY <1>1 DEF QueueState
  <2>3. q' = v BY <1>2 DEF RetryElapses
  <2> HIDE DEF v
  <2>4. Keeps(q, v, {}, next) BY <2>1, <2>2, SameTables
  <2> QED BY <2>2, <2>3, <2>4
<1>3. CASE DeadlinePasses(c)
  <2> DEFINE v == [q EXCEPT !.overdue = q.overdue \cup {c}]
  <2>0. c \in q.inFlight BY <1>3 DEF DeadlinePasses
  <2>1. v \in QueueState BY <1>1 DEF QueueState
  <2>2. /\ v.queues = q.queues /\ v.cancelled = q.cancelled /\ v.withheld = q.withheld
        /\ v.shed = q.shed /\ v.returned = q.returned /\ v.overdue \subseteq v.inFlight
        /\ v.inFlight = q.inFlight /\ v.retryAfter = q.retryAfter
    BY <1>1, <2>0 DEF QueueState
  <2>3. q' = v BY <1>3 DEF DeadlinePasses
  <2> HIDE DEF v
  <2>4. Keeps(q, v, {}, next) BY <2>1, <2>2, SameTables
  <2> QED BY <2>2, <2>3, <2>4
<1> QED BY <1>2, <1>3

-----------------------------------------------------------------------------
(* The steps of the queue's invariants *)

\* Steps that do not touch the queue or what a turn holds.
Quiet ==
    /\ SameTurns /\ tasks' \in [Slots -> TaskState]
    /\ UNCHANGED <<config, next, q, late>>
    /\ pc # "exited" <=> pc' # "exited"

\* Turns by themselves, respawns, commands and the life cycle are such steps.
LEMMA QuietSteps ==
    ASSUME PoolInv,
           \/ \E s \in Slots :
                \/ SessionReady(s) \/ GreetingDone(s) \/ ReadSteer(s) \/ AnswerSteer(s)
                \/ TurnCompletes(s) \/ TurnFails(s) \/ TaskPanics(s) \/ TurnIsCut(s)
                \/ RespawnDone(s) \/ CircuitCools(s)
           \/ \E c \in Channels : MemberAdded(c)
           \/ \E c \in Channels, ctl \in {"cancel", "rotate", "switch"} : OwnerCommand(c, ctl)
           \/ CollectRespawns \/ WakeDone \/ IdleSleep \/ Shutdown \/ WakeRetryDue \/ AtRest
           \/ UNCHANGED vars
    PROVE  Quiet
<1>0. Types BY DEF PoolInv
<1>1. CASE \E s \in Slots :
                \/ SessionReady(s) \/ GreetingDone(s) \/ ReadSteer(s) \/ AnswerSteer(s)
                \/ TurnCompletes(s) \/ TurnFails(s) \/ TaskPanics(s) \/ TurnIsCut(s)
  <2>1. PICK s \in Slots : TurnStep(s) BY <1>0, <1>1, TurnSteps
  <2> QED BY <2>1 DEF TurnStep, Quiet
<1>2. CASE \E c \in Channels, ctl \in {"cancel", "rotate", "switch"} : OwnerCommand(c, ctl)
  <2>1. PICK c \in Channels, ctl \in {"cancel", "rotate", "switch"} : OwnerCommand(c, ctl) BY <1>2
  <2>2. OnlySignals
    <3>1. CASE tasks' = tasks BY <1>0, <3>1, SameTasks
    <3>2. CASE \E s \in TasksOf(c) : tasks' = [tasks EXCEPT ![s].ctl = ctl]
      BY <1>0, <3>2, SignalOne DEF TasksOf, Signals
    <3> QED BY <2>1, <3>1, <3>2 DEF OwnerCommand
  <2>3. UNCHANGED <<config, pc, next, q, late>> BY <2>1 DEF OwnerCommand
  <2> QED BY <2>2, <2>3, SignalsKeepTurns DEF Quiet, OnlySignals
<1>3. ASSUME tasks' = tasks, UNCHANGED <<config, next, q, late>>, pc # "exited" <=> pc' # "exited"
      PROVE  Quiet
  BY <1>0, <1>3, SameTasks DEF Quiet
<1>4. CASE \E s \in Slots : RespawnDone(s) \/ CircuitCools(s)
  BY <1>3, <1>4 DEF RespawnDone, CircuitCools, poolVars
<1>5. CASE \E c \in Channels : MemberAdded(c)
  BY <1>3, <1>5 DEF MemberAdded, poolVars
<1>6. CASE CollectRespawns BY <1>3, <1>6 DEF CollectRespawns
<1>7. CASE WakeDone BY <1>3, <1>7 DEF WakeDone
<1>8. CASE IdleSleep BY <1>3, <1>8 DEF IdleSleep
<1>9. CASE Shutdown \/ WakeRetryDue BY <1>3, <1>9 DEF Shutdown, WakeRetryDue, poolVars
<1>10. CASE AtRest \/ UNCHANGED vars BY <1>3, <1>10 DEF AtRest, vars
<1> QED BY <1>1, <1>2, <1>4, <1>5, <1>6, <1>7, <1>8, <1>9, <1>10

\* An answer to a steer changes no turn but by a signal.
LEMMA AckStep ==
    ASSUME Types, acks \subseteq Ack, NEW a \in acks, HandleSteerAck(a)
    PROVE  /\ a.e \in Events /\ ChannelOf[a.e] \in Channels /\ OnlySignals /\ SameTurns
           /\ acks' = acks \ {a} /\ pc' = "dispatch" /\ pc = "select"
           /\ \/ a.kind = "success" /\ q' = remove_event(extend_in_flight_deadline(q, ChannelOf[a.e]), a.e)
              \/ a.kind # "success" /\ q' = release_native_steer(q, a.e)
           /\ UNCHANGED <<config, next, idle, sessions, respawnVars, removed, life, steered, late,
                          faults, commands>>
<1>1. a.e \in Events /\ ChannelOf[a.e] \in Channels BY HarnessAssumption DEF Ack
<1>2. tasks' = tasks \/ tasks' \in Signalled(tasks, ChannelOf[a.e], "steer")
  BY DEF HandleSteerAck
<1>3. OnlySignals BY <1>2, SignalledStep, SameTasks DEF Signals
<1> QED BY <1>1, <1>3, SignalsKeepTurns DEF HandleSteerAck

\* A queue that holds nothing.
LEMMA EmptyQueueOK ==
    ASSUME NEW n \in 1..(NumEvents + 1)
    PROVE  /\ QueueOK(EmptyQueue, n) /\ Held(EmptyQueue) = {} /\ EmptyQueue.shed = {}
           /\ EmptyQueue.inFlight = {} /\ EmptyQueue.overdue = {} /\ EmptyQueue.returned = {}
           /\ \A c \in Channels : /\ EmptyQueue.queues[c] = <<>> /\ EmptyQueue.cancelled[c] = <<>>
                                  /\ EmptyQueue.withheld[c] = <<>>
                                  /\ EmptyQueue.retryAfter[c] = "none"
<1> DEFINE u == EmptyQueue
<1>1. /\ u.shed = {} /\ u.inFlight = {} /\ u.overdue = {} /\ u.returned = {}
      /\ \A c \in Channels : /\ u.queues[c] = <<>> /\ u.cancelled[c] = <<>>
                             /\ u.withheld[c] = <<>> /\ u.retryAfter[c] = "none"
  BY DEF EmptyQueue
<1>2. u \in QueueState
  <2>1. <<>> \in Seq(Events) /\ 0 \in 0..MaxRetries BY HarnessAssumption
  <2> QED BY <2>1 DEF EmptyQueue, QueueState
<1> HIDE DEF u
<1>3. \A c \in Channels : Waiting(u, c) = {}
  BY <1>1, ElemsOfNone DEF Waiting
<1>4. \A c \in Channels : ChannelOK(u, c, n)
  BY <1>1, <1>3, ElemsOfNone, HarnessAssumption DEF ChannelOK
<1>5. Held(u) = {}
  <2>1. \A e \in Events : ChannelOf[e] \in Channels BY HarnessAssumption
  <2> QED BY <1>3, <2>1 DEF Held
<1> QED BY <1>1, <1>2, <1>4, <1>5 DEF QueueOK, u

\* Every step keeps every event in one home.
LEMMA HomesStep ==
    ASSUME PoolInv, Homes, acks \subseteq Ack, [Next]_vars
    PROVE  Homes'
<1>0. Types /\ next \in 1..(NumEvents + 1) /\ QueueOK(q, next)
  BY DEF PoolInv, Types, Homes
<1>1. Keeps(q, q, {}, next) BY <1>0 DEF Keeps
<1>2. CASE Quiet
  BY <1>0, <1>1, <1>2, HomesKept DEF Quiet
<1>3. CASE RelayEvent
  <2>1. /\ next \in 1..NumEvents /\ next' = next + 1 /\ SameTurns /\ pc' # "exited"
        /\ \/ q' = push(q, next)
           \/ q' = mark_native_steer_pending(push(q, next), next)
    BY <1>0, <1>3, RelayStep
  <2>2. Keeps(q, q', {next}, next + 1)
    BY <1>0, <2>1, PushQueue, SteerQueue
  <2>3. pc # "exited" BY <1>3 DEF RelayEvent
  <2> QED BY <1>0, <2>1, <2>2, <2>3, HomesFed
<1>4. CASE DispatchNext
  <2> DEFINE u == expire(q)
  <2>0. pc # "exited" /\ next' = next BY <1>4 DEF DispatchNext
  <2>1. Keeps(q, u, {}, next) /\ QueueOK(u, next) BY <1>0, ExpireKeeps DEF Keeps
  <2>2. CASE q' = u /\ tasks' = tasks
    BY <1>0, <2>0, <2>1, <2>2, SameTasks, HomesKept
  <2>3. CASE \E c \in FlushChoices(u) :
                   /\ q' = mark_complete(requeue_preserve_timestamps(
                             flush_next(u, c), c, FlushBatch(u, c)), c)
                   /\ tasks' = tasks
    <3>1. PICK c \in FlushChoices(u) :
                   /\ q' = mark_complete(requeue_preserve_timestamps(
                             flush_next(u, c), c, FlushBatch(u, c)), c)
                   /\ tasks' = tasks
      BY <2>3
    <3>2. /\ c \in Channels /\ c \notin u.inFlight
          /\ c \in ReadyChannels(u) \cup CancelledChannels(u)
      BY ChoiceIsReady
    <3> HIDE DEF u
    <3>3. Keeps(u, q', {}, next) BY <1>0, <2>1, <3>1, <3>2, DeclineKeeps
    <3>4. Keeps(q, q', {} \cup {}, next) BY <2>1, <3>3, KeepsBoth
    <3>5. Keeps(q, q', {}, next) BY <3>4
    <3> QED BY <1>0, <2>0, <3>1, <3>5, SameTasks, HomesKept
  <2>4. CASE \E c \in FlushChoices(u), s \in idle :
                   /\ q' = flush_next(u, c)
                   /\ \A r \in Slots \ {s} : tasks'[r] = tasks[r]
                   /\ tasks'[s].ch = c
                   /\ tasks'[s].events = FlushBatch(u, c).events
                   /\ tasks'[s].cancelled = FlushBatch(u, c).cancelled
    <3>1. PICK c \in FlushChoices(u), s \in idle :
                   /\ q' = flush_next(u, c)
                   /\ \A r \in Slots \ {s} : tasks'[r] = tasks[r]
                   /\ tasks'[s].ch = c
                   /\ tasks'[s].events = FlushBatch(u, c).events
                   /\ tasks'[s].cancelled = FlushBatch(u, c).cancelled
      BY <2>4
    <3>2. /\ c \in Channels /\ c \in ReadyChannels(u) \cup CancelledChannels(u)
      BY ChoiceIsReady
    <3>3. s \in Slots /\ ~TaskOn(s) BY <1>0 DEF Types, PoolInv, SlotExclusive
    <3> HIDE DEF u
    <3> DEFINE b == FlushBatch(u, c)
    <3>4. /\ QueueOK(q', next) /\ q'.shed = u.shed /\ q'.returned = u.returned
          /\ BatchOK(b, c, next)
          /\ Held(u) = Held(q') \cup Batch(b) /\ Held(q') \cap Batch(b) = {}
      BY <1>0, <2>1, <3>1, <3>2, FlushGives
    <3>5. Batch(tasks'[s]) = Batch(b) BY <3>1 DEF Batch
    <3>6. BatchOK(tasks'[s], tasks'[s].ch, next)
      BY <3>1, <3>4, <3>5 DEF BatchOK
    <3> HIDE DEF b
    <3> QED BY <1>0, <2>0, <2>1, <3>1, <3>3, <3>4, <3>5, <3>6, HomesStarted
  <2> QED BY <1>4, <1>0, <2>2, <2>3, <2>4, DispatchStep
<1>5. CASE HeartbeatTick
  <2> DEFINE u == expire(q)
  <2>0. pc # "exited" /\ next' = next BY <1>5 DEF HeartbeatTick
  <2>1. Keeps(q, u, {}, next) /\ QueueOK(u, next) BY <1>0, ExpireKeeps DEF Keeps
  <2>2. q' = u BY <1>0, <1>5, HeartbeatStep
  <2>3. CASE tasks' = tasks
    BY <1>0, <2>0, <2>1, <2>2, <2>3, SameTasks, HomesKept
  <2>4. CASE \E s \in idle :
                   /\ \A r \in Slots \ {s} : tasks'[r] = tasks[r]
                   /\ tasks'[s].events = <<>> /\ tasks'[s].cancelled = <<>>
    <3>1. PICK s \in idle :
                   /\ \A r \in Slots \ {s} : tasks'[r] = tasks[r]
                   /\ tasks'[s].events = <<>> /\ tasks'[s].cancelled = <<>>
      BY <2>4
    <3>2. s \in Slots /\ ~TaskOn(s) BY <1>0 DEF Types, PoolInv, SlotExclusive
    <3>3. Batch(tasks'[s]) = {} /\ BatchOK(tasks'[s], tasks'[s].ch, next)
      BY <3>1, ElemsOfNone DEF Batch, BatchOK
    <3> HIDE DEF u
    <3> QED BY <1>0, <2>0, <2>1, <2>2, <3>1, <3>2, <3>3, HomesStarted
  <2> QED BY <1>5, <1>0, <2>3, <2>4, HeartbeatStep
<1>6. CASE \E s \in Slots : HandleResult(s) \/ HandlePanic(s)
  <2>1. PICK s \in Slots : HandleResult(s) \/ HandlePanic(s) BY <1>6
  <2>2. tasks' = [tasks EXCEPT ![s] = NoTask] /\ next' = next BY <2>1, ReturnStep
  <2>3. Keeps(q, q', Batch(tasks[s]), next) /\ pc # "exited" BY <2>1, ReturnQueue
  <2> QED BY <1>0, <2>2, <2>3, HomesReturned
<1>7. CASE \E a \in acks : HandleSteerAck(a)
  <2>1. PICK a \in acks : HandleSteerAck(a) BY <1>7
  <2>2. /\ a.e \in Events /\ SameTurns /\ next' = next /\ pc # "exited"
        /\ \/ q' = remove_event(extend_in_flight_deadline(q, ChannelOf[a.e]), a.e)
           \/ q' = release_native_steer(q, a.e)
    BY <1>0, <2>1, AckStep
  <2>3. Keeps(q, q', {}, next) BY <1>0, <2>2, AcceptQueue, ReleaseQueue
  <2> QED BY <1>0, <2>2, <2>3, HomesKept
<1>8. CASE Maintain
  <2>1. q' = expire(compact_expired_state(q)) /\ tasks' = tasks /\ next' = next /\ pc # "exited"
    BY <1>8 DEF Maintain, poolVars
  <2>2. Keeps(q, q', {}, next) BY <1>0, <2>1, MaintainQueue
  <2> QED BY <1>0, <2>1, <2>2, SameTasks, HomesKept
<1>9. CASE StartWake
  <2>1. q' = expire(q) /\ tasks' = tasks /\ next' = next /\ pc # "exited"
    BY <1>9 DEF StartWake, poolVars
  <2>2. Keeps(q, q', {}, next) BY <1>0, <2>1, ExpireKeeps
  <2> QED BY <1>0, <2>1, <2>2, SameTasks, HomesKept
<1>10. CASE \E c \in Channels : MemberRemoved(c)
  <2>1. PICK c \in Channels : q' = drain_channel(q, c) BY <1>10 DEF MemberRemoved
  <2>2. tasks' = tasks /\ next' = next /\ pc # "exited" BY <1>10 DEF MemberRemoved
  <2>3. Keeps(q, q', {}, next) BY <1>0, <2>1, DrainKeeps
  <2> QED BY <1>0, <2>2, <2>3, SameTasks, HomesKept
<1>11. CASE \E c \in Channels : RetryElapses(c) \/ DeadlinePasses(c)
  <2>1. tasks' = tasks /\ next' = next /\ pc' = pc
    BY <1>11 DEF RetryElapses, DeadlinePasses, poolVars
  <2>2. Keeps(q, q', {}, next) BY <1>0, <1>11, TimeQueue
  <2> QED BY <1>0, <2>1, <2>2, SameTasks, HomesKept
<1>12. CASE Exit
  <2>1. q' = EmptyQueue /\ tasks' = [s \in Slots |-> NoTask] /\ pc' = "exited" /\ next' = next
    BY <1>12 DEF Exit
  <2>2. \A s \in Slots : /\ tasks'[s] = NoTask /\ Batch(tasks'[s]) = {}
                         /\ BatchOK(tasks'[s], tasks'[s].ch, next)
    BY <2>1, NoTaskFields, ElemsOfNone DEF Batch, BatchOK
  <2>3. QueueOK(q', next) /\ Held(q') = {} /\ q'.shed = {} /\ q'.returned = {}
    BY <1>0, <2>1, EmptyQueueOK
  <2> QED BY <2>1, <2>2, <2>3 DEF Homes
<1> QED BY <1>2, <1>3, <1>4, <1>5, <1>6, <1>7, <1>8, <1>9, <1>10, <1>11, <1>12, QuietSteps
        DEF Next, MainLoop, Time, Task

-----------------------------------------------------------------------------
(* Requests to steer *)

\* Steps that ask nothing new and answer nothing.
LEMMA RequestsKept ==
    ASSUME Requests, Types, next' \in 1..(NumEvents + 1), next <= next',
           acks' \subseteq acks, steered' = steered,
           \A s \in Slots : \/ tasks'[s].box = tasks[s].box /\ tasks'[s].sent = tasks[s].sent
                            \/ tasks'[s].box = NoEvent /\ tasks'[s].sent = NoEvent
    PROVE  Requests'
<1>0. next \in Nat /\ next' \in Nat BY HarnessAssumption DEF Types
<1>1. acks' \subseteq Ack BY DEF Requests
<1>2. \A a \in acks' : a.e < next'
  <2> SUFFICES ASSUME NEW a \in acks PROVE a.e < next' OBVIOUS
  <2>1. a.e \in Nat /\ a.e < next
    <3>1. a \in Ack /\ a.e < next BY DEF Requests
    <3>2. a.e \in 1..NumEvents BY <3>1 DEF Ack, Events
    <3> QED BY <3>1, <3>2, HarnessAssumption
  <2> QED BY <1>0, <2>1
<1>3. steered' \subseteq 1..(next' - 1)
  <2>1. steered \subseteq 1..(next - 1) BY DEF Requests
  <2>2. ASSUME NEW m \in Nat, NEW k \in Nat, m <= k PROVE 1..(m - 1) \subseteq 1..(k - 1)
    BY <2>2
  <2> QED BY <1>0, <2>1, <2>2
<1>4. /\ \A a, b \in acks' : a.e = b.e => a = b
      /\ \A a \in acks' : a.e \in steered' <=> a.kind = "success"
  BY DEF Requests
<1>5. ASSUME NEW s \in Slots, NEW e \in {tasks'[s].box, tasks'[s].sent} \ {NoEvent}
      PROVE  /\ e < next' /\ e \notin steered'
             /\ \A a \in acks' : a.e # e
             /\ \A r \in Slots \ {s} : e \notin {tasks'[r].box, tasks'[r].sent}
  <2>1. e \in {tasks[s].box, tasks[s].sent} \ {NoEvent} BY <1>5
  <2>2. /\ e < next /\ e \notin steered
        /\ \A a \in acks : a.e # e
        /\ \A r \in Slots \ {s} : e \notin {tasks[r].box, tasks[r].sent}
    BY <2>1 DEF Requests
  <2>3. e \in Nat
    <3>1. tasks[s] \in TaskState BY DEF Types
    <3> QED BY <2>1, <3>1 DEF TaskState, Events
  <2>4. e < next' BY <1>0, <2>2, <2>3
  <2> QED BY <2>1, <2>2, <2>4
<1>6. \A s \in Slots : tasks'[s].box = tasks'[s].sent => tasks'[s].box = NoEvent
  BY DEF Requests
<1> QED BY <1>1, <1>2, <1>3, <1>4, <1>5, <1>6 DEF Requests

\* The requests of a turn that ends are all answered: none is left behind.
LEMMA RequestsAnswered ==
    ASSUME Requests, Types, next' = next, steered' = steered, NEW s \in Slots,
           acks' = acks \cup Unanswered(tasks[s]),
           tasks'[s].box = NoEvent, tasks'[s].sent = NoEvent,
           \A r \in Slots \ {s} : tasks'[r] = tasks[r]
    PROVE  Requests'
<1> DEFINE A == {tasks[s].box, tasks[s].sent} \ {NoEvent}
<1>1. Unanswered(tasks[s]) = {[e |-> e, kind |-> "release"] : e \in A}
  BY DEF Unanswered
<1>2. \A a \in Unanswered(tasks[s]) : a = [e |-> a.e, kind |-> "release"] /\ a.e \in A /\ a.kind = "release"
  BY <1>1
<1>3. \A e \in A : /\ e < next /\ e \notin steered /\ \A a \in acks : a.e # e
                   /\ \A r \in Slots \ {s} : e \notin {tasks[r].box, tasks[r].sent}
  BY DEF Requests
<1>4. A \subseteq Events
  <2>1. tasks[s] \in TaskState BY DEF Types
  <2> QED BY <2>1 DEF TaskState
<1> HIDE DEF A
<1>5. acks' \subseteq Ack
  <2>1. \A e \in A : [e |-> e, kind |-> "release"] \in Ack BY <1>4 DEF Ack
  <2> QED BY <1>1, <2>1 DEF Requests
<1>6. \A a \in acks' : a.e < next'
  BY <1>2, <1>3 DEF Requests
<1>7. \A a, b \in acks' : a.e = b.e => a = b
  BY <1>2, <1>3 DEF Requests
<1>8. \A a \in acks' : a.e \in steered' <=> a.kind = "success"
  BY <1>2, <1>3 DEF Requests
<1>9. ASSUME NEW r \in Slots, NEW e \in {tasks'[r].box, tasks'[r].sent} \ {NoEvent}
      PROVE  /\ e < next' /\ e \notin steered'
             /\ \A a \in acks' : a.e # e
             /\ \A x \in Slots \ {r} : e \notin {tasks'[x].box, tasks'[x].sent}
  <2>1. r # s /\ tasks'[r] = tasks[r] BY <1>9
  <2>2. /\ e < next /\ e \notin steered
        /\ \A a \in acks : a.e # e
        /\ \A x \in Slots \ {r} : e \notin {tasks[x].box, tasks[x].sent}
    BY <1>9, <2>1 DEF Requests
  <2>3. e \notin A BY <2>1, <2>2 DEF A
  <2> QED BY <1>2, <1>9, <2>1, <2>2, <2>3
<1>10. \A r \in Slots : tasks'[r].box = tasks'[r].sent => tasks'[r].box = NoEvent
  BY DEF Requests
<1>11. steered' \subseteq 1..(next' - 1) BY DEF Requests
<1> QED BY <1>5, <1>6, <1>7, <1>8, <1>9, <1>10, <1>11 DEF Requests

\* One request is taken from a turn: it is answered, or kept as sent.
LEMMA RequestsMoved ==
    ASSUME Requests, Types, next' = next, NEW s \in Slots, NEW e \in Asked(tasks[s]),
           \A r \in Slots \ {s} : tasks'[r] = tasks[r],
           \/ /\ tasks'[s].box = NoEvent /\ tasks'[s].sent = e /\ tasks[s].sent = NoEvent
              /\ UNCHANGED <<acks, steered>>
           \/ /\ Asked(tasks'[s]) = Asked(tasks[s]) \ {e}
              /\ tasks'[s].box = tasks'[s].sent => tasks'[s].box = NoEvent
              /\ \E k \in {"success", "release", "fallback"} :
                   /\ acks' = acks \cup {[e |-> e, kind |-> k]}
                   /\ steered' = IF k = "success" THEN steered \cup {e} ELSE steered
    PROVE  Requests'
<1>0. next \in Nat BY HarnessAssumption DEF Types
<1>1. /\ e # NoEvent /\ e < next /\ e \notin steered /\ \A a \in acks : a.e # e
      /\ \A r \in Slots \ {s} : e \notin {tasks[r].box, tasks[r].sent}
  BY DEF Requests, Asked
<1>2. e \in Events
  <2>1. tasks[s] \in TaskState BY DEF Types
  <2> QED BY <2>1 DEF TaskState, Asked
<1>3. CASE /\ tasks'[s].box = NoEvent /\ tasks'[s].sent = e /\ tasks[s].sent = NoEvent
           /\ UNCHANGED <<acks, steered>>
  <2>1. ASSUME NEW r \in Slots, NEW x \in {tasks'[r].box, tasks'[r].sent} \ {NoEvent}
        PROVE  /\ x < next' /\ x \notin steered'
               /\ \A a \in acks' : a.e # x
               /\ \A y \in Slots \ {r} : x \notin {tasks'[y].box, tasks'[y].sent}
    <3>1. CASE r = s
      <4>1. x = e BY <1>3, <2>1, <3>1
      <4> QED BY <1>1, <1>3, <3>1, <4>1
    <3>2. CASE r # s
      <4>1. /\ x < next /\ x \notin steered
            /\ \A a \in acks : a.e # x
            /\ \A y \in Slots \ {r} : x \notin {tasks[y].box, tasks[y].sent}
        BY <2>1, <3>2 DEF Requests
      <4>2. x # e /\ x # NoEvent BY <1>1, <2>1, <3>2
      <4> QED BY <1>3, <4>1, <4>2
    <3> QED BY <3>1, <3>2
  <2>2. \A r \in Slots : tasks'[r].box = tasks'[r].sent => tasks'[r].box = NoEvent
    BY <1>3, <1>1 DEF Requests
  <2> QED BY <1>3, <2>1, <2>2 DEF Requests
<1>4. CASE /\ Asked(tasks'[s]) = Asked(tasks[s]) \ {e}
           /\ tasks'[s].box = tasks'[s].sent => tasks'[s].box = NoEvent
           /\ \E k \in {"success", "release", "fallback"} :
                /\ acks' = acks \cup {[e |-> e, kind |-> k]}
                /\ steered' = IF k = "success" THEN steered \cup {e} ELSE steered
  <2>1. PICK k \in {"success", "release", "fallback"} :
                /\ acks' = acks \cup {[e |-> e, kind |-> k]}
                /\ steered' = IF k = "success" THEN steered \cup {e} ELSE steered
    BY <1>4
  <2> DEFINE new == [e |-> e, kind |-> k]
  <2>2. new.e = e /\ new.kind = k /\ new \in Ack BY <1>2 DEF Ack
  <2>3. acks' = acks \cup {new} BY <2>1
  <2> HIDE DEF new
  <2>4. acks' \subseteq Ack /\ \A a \in acks' : a.e < next'
    BY <1>1, <2>2, <2>3 DEF Requests
  <2>5. \A a, b \in acks' : a.e = b.e => a = b
    BY <1>1, <2>2, <2>3 DEF Requests
  <2>6. \A a \in acks' : a.e \in steered' <=> a.kind = "success"
    BY <1>1, <2>1, <2>2, <2>3 DEF Requests
  <2>7. steered' \subseteq 1..(next' - 1)
    <3>1. e \in 1..(next - 1) BY <1>0, <1>1, <1>2 DEF Events
    <3> QED BY <2>1, <3>1 DEF Requests
  <2>8. ASSUME NEW r \in Slots, NEW x \in {tasks'[r].box, tasks'[r].sent} \ {NoEvent}
        PROVE  /\ x < next' /\ x \notin steered'
               /\ \A a \in acks' : a.e # x
               /\ \A y \in Slots \ {r} : x \notin {tasks'[y].box, tasks'[y].sent}
    <3>0. x # e /\ x \in {tasks[r].box, tasks[r].sent} \ {NoEvent}
      BY <1>1, <1>4, <2>8 DEF Asked
    <3>1. /\ x < next /\ x \notin steered
          /\ \A a \in acks : a.e # x
          /\ \A y \in Slots \ {r} : x \notin {tasks[y].box, tasks[y].sent}
      BY <3>0 DEF Requests
    <3>2. x \notin steered' BY <2>1, <3>0, <3>1
    <3>3. \A a \in acks' : a.e # x BY <2>2, <2>3, <3>0, <3>1
    <3>4. \A y \in Slots \ {r} : x \notin {tasks'[y].box, tasks'[y].sent}
      BY <1>4, <3>0, <3>1 DEF Asked
    <3> QED BY <3>1, <3>2, <3>3, <3>4
  <2>9. \A r \in Slots : tasks'[r].box = tasks'[r].sent => tasks'[r].box = NoEvent
    BY <1>4 DEF Requests
  <2> QED BY <2>4, <2>5, <2>6, <2>7, <2>8, <2>9 DEF Requests
<1> QED BY <1>3, <1>4

\* The task that holds the relay's event as a request.
LEMMA RequestsAdded ==
    ASSUME Requests, Types, next \in 1..NumEvents, next' = next + 1, UNCHANGED <<acks, steered>>,
           NEW s \in Slots, tasks[s].box = NoEvent, tasks'[s].box = next,
           tasks'[s].sent = tasks[s].sent, \A r \in Slots \ {s} : tasks'[r] = tasks[r]
    PROVE  Requests'
<1>0. next \in Nat /\ next # NoEvent BY HarnessAssumption DEF NoEvent
<1>1. \A r \in Slots : tasks[r].box \in Nat /\ tasks[r].sent \in Nat
  <2>1. \A r \in Slots : tasks[r] \in TaskState BY DEF Types
  <2>2. Events \cup {NoEvent} \subseteq Nat BY HarnessAssumption DEF Events, NoEvent
  <2> QED BY <2>1, <2>2 DEF TaskState
<1>2. \A r \in Slots : \A e \in {tasks[r].box, tasks[r].sent} : e # next
  <2> SUFFICES ASSUME NEW r \in Slots, NEW e \in {tasks[r].box, tasks[r].sent}, e = next PROVE FALSE
    OBVIOUS
  <2>1. e < next BY <1>0 DEF Requests
  <2> QED BY <1>0, <2>1
<1>3. \A a \in acks' : a.e \in Nat /\ a.e < next
  <2> SUFFICES ASSUME NEW a \in acks PROVE a.e \in Nat /\ a.e < next OBVIOUS
  <2>1. a \in Ack /\ a.e < next BY DEF Requests
  <2>2. a.e \in 1..NumEvents BY <2>1 DEF Ack, Events
  <2> QED BY <2>1, <2>2, HarnessAssumption
<1>4. \A a \in acks' : a.e < next' /\ a.e # next
  <2> SUFFICES ASSUME NEW a \in acks' PROVE a.e < next' /\ a.e # next OBVIOUS
  <2>1. a.e \in Nat /\ a.e < next BY <1>3
  <2> QED BY <1>0, <2>1
<1>5. steered' \subseteq 1..(next' - 1) /\ next \notin steered'
  <2>1. steered \subseteq 1..(next - 1) BY DEF Requests
  <2> QED BY <1>0, <2>1
<1>6. ASSUME NEW r \in Slots, NEW e \in {tasks'[r].box, tasks'[r].sent} \ {NoEvent}
      PROVE  /\ e < next' /\ e \notin steered'
             /\ \A a \in acks' : a.e # e
             /\ \A x \in Slots \ {r} : e \notin {tasks'[x].box, tasks'[x].sent}
  <2>1. CASE r = s /\ e = next
    <3>1. \A x \in Slots \ {s} : e \notin {tasks'[x].box, tasks'[x].sent} BY <1>2, <2>1
    <3>2. e < next' BY <1>0, <2>1
    <3> QED BY <1>4, <1>5, <2>1, <3>1, <3>2
  <2>2. CASE r # s \/ e # next
    <3>1. e \in {tasks[r].box, tasks[r].sent} \ {NoEvent} BY <1>6, <2>2
    <3>2. /\ e < next /\ e \notin steered
          /\ \A a \in acks : a.e # e
          /\ \A x \in Slots \ {r} : e \notin {tasks[x].box, tasks[x].sent}
      BY <3>1 DEF Requests
    <3>3. e \in Nat /\ e # next BY <1>1, <1>2, <3>1
    <3>4. e < next' BY <1>0, <3>2, <3>3
    <3> QED BY <3>2, <3>3, <3>4
  <2> QED BY <2>1, <2>2
<1>7. \A r \in Slots : tasks'[r].box = tasks'[r].sent => tasks'[r].box = NoEvent
  BY <1>2 DEF Requests
<1>8. acks' \subseteq Ack /\ (\A a, b \in acks' : a.e = b.e => a = b)
      /\ \A a \in acks' : a.e \in steered' <=> a.kind = "success"
  BY DEF Requests
<1> QED BY <1>4, <1>5, <1>6, <1>7, <1>8 DEF Requests

\* Every step keeps each request in one place, unanswered or answered once.
LEMMA RequestsStep ==
    ASSUME PoolInv, QueueOK(q, next), Requests, [Next]_vars
    PROVE  Requests'
<1>0. Types /\ next \in 1..(NumEvents + 1) /\ tasks \in [Slots -> TaskState]
  BY DEF PoolInv, Types
<1>1. next \in Nat /\ next <= next BY <1>0, HarnessAssumption
<1>2. acks \subseteq Ack BY DEF Requests
<1>3. ASSUME tasks' = tasks, acks' = acks, steered' = steered, next' = next
      PROVE  Requests'
  BY <1>0, <1>1, <1>3, RequestsKept
<1>4. ASSUME OnlySignals, acks' \subseteq acks, steered' = steered, next' = next
      PROVE  Requests'
  BY <1>0, <1>1, <1>4, RequestsKept DEF OnlySignals
<1>5. CASE \E s \in Slots : SessionReady(s)
  <2>1. PICK s \in Slots, p \in {"greeting", "prompting"} : tasks' = [tasks EXCEPT ![s].phase = p]
    BY <1>5 DEF SessionReady
  <2>2. \A r \in Slots : tasks'[r].box = tasks[r].box /\ tasks'[r].sent = tasks[r].sent
    BY <1>0, <2>1 DEF TaskState
  <2>3. UNCHANGED <<acks, steered, next>> BY <1>5 DEF SessionReady
  <2> QED BY <1>0, <1>1, <2>2, <2>3, RequestsKept
<1>6. CASE \E s \in Slots : GreetingDone(s) \/ TaskPanics(s)
  <2>1. PICK s \in Slots, p \in {"prompting", "done", "panicked"} :
          /\ tasks' = [tasks EXCEPT ![s] = [CloseSteer(tasks[s]) EXCEPT !.phase = p]]
          /\ acks' = acks \cup Unanswered(tasks[s])
    BY <1>6 DEF GreetingDone, TaskPanics
  <2> DEFINE r == [CloseSteer(tasks[s]) EXCEPT !.phase = p]
  <2>2. Ended(tasks[s], r) BY <1>0, CloseSteerFields
  <2>3. r \in TaskState /\ r.box = NoEvent /\ r.sent = NoEvent BY <2>2 DEF Ended
  <2> HIDE DEF r
  <2>4. /\ tasks'[s] = r /\ \A x \in Slots \ {s} : tasks'[x] = tasks[x]
    BY <1>0, <2>1, <2>3, OneTask DEF r
  <2>5. UNCHANGED <<steered, next>> BY <1>6 DEF GreetingDone, TaskPanics
  <2> QED BY <1>0, <2>1, <2>3, <2>4, <2>5, RequestsAnswered
<1>7. CASE \E s \in Slots : ReadSteer(s)
  <2>1. PICK s \in Slots : ReadSteer(s) BY <1>7
  <2> DEFINE t == tasks[s]
  <2>2. t.box # NoEvent /\ t.sent = NoEvent /\ t \in TaskState /\ UNCHANGED <<next, steered>>
    BY <1>0, <2>1 DEF ReadSteer
  <2>3. t.box \in Asked(t) BY <2>2 DEF Asked
  <2>4. CASE tasks' = [tasks EXCEPT ![s].box = NoEvent, ![s].sent = t.box] /\ UNCHANGED acks
    <3>1. /\ tasks'[s].box = NoEvent /\ tasks'[s].sent = t.box
          /\ \A r \in Slots \ {s} : tasks'[r] = tasks[r]
      BY <1>0, <2>4 DEF TaskState
    <3> QED BY <1>0, <2>2, <2>3, <2>4, <3>1, RequestsMoved
  <2>5. CASE /\ tasks' = [tasks EXCEPT ![s].box = NoEvent]
             /\ acks' = acks \cup {[e |-> t.box, kind |-> "fallback"]}
    <3>1. /\ tasks'[s].box = NoEvent /\ tasks'[s].sent = NoEvent
          /\ \A r \in Slots \ {s} : tasks'[r] = tasks[r]
      BY <1>0, <2>2, <2>5 DEF TaskState
    <3>2. Asked(tasks'[s]) = Asked(tasks[s]) \ {t.box} BY <2>2, <3>1 DEF Asked
    <3>3. \E k \in {"success", "release", "fallback"} :
                   /\ acks' = acks \cup {[e |-> t.box, kind |-> k]}
                   /\ steered' = IF k = "success" THEN steered \cup {t.box} ELSE steered
      <4> WITNESS "fallback" \in {"success", "release", "fallback"}
      <4> QED BY <2>2, <2>5
    <3> QED BY <1>0, <2>2, <2>3, <3>1, <3>2, <3>3, RequestsMoved
  <2> QED BY <2>1, <2>4, <2>5 DEF ReadSteer
<1>8. CASE \E s \in Slots : AnswerSteer(s)
  <2>1. PICK s \in Slots : AnswerSteer(s) BY <1>8
  <2> DEFINE t == tasks[s]
  <2>2. t.sent # NoEvent /\ t \in TaskState /\ next' = next /\ tasks' = [tasks EXCEPT ![s].sent = NoEvent]
    BY <1>0, <2>1 DEF AnswerSteer
  <2>3. t.sent \in Asked(t) BY <2>2 DEF Asked
  <2>4. /\ tasks'[s].box = t.box /\ tasks'[s].sent = NoEvent
        /\ \A r \in Slots \ {s} : tasks'[r] = tasks[r]
    BY <1>0, <2>2 DEF TaskState
  <2>5. t.box # t.sent BY <2>2 DEF Requests
  <2>6. Asked(tasks'[s]) = Asked(t) \ {t.sent} BY <2>4, <2>5 DEF Asked
  <2>7. \E k \in {"success", "release", "fallback"} :
                   /\ acks' = acks \cup {[e |-> t.sent, kind |-> k]}
                   /\ steered' = IF k = "success" THEN steered \cup {t.sent} ELSE steered
    BY <2>1 DEF AnswerSteer
  <2> QED BY <1>0, <2>2, <2>3, <2>4, <2>6, <2>7, RequestsMoved
<1>9. CASE \E s \in Slots : TurnCompletes(s) \/ TurnFails(s) \/ TurnIsCut(s)
  <2>1. PICK s \in Slots : TurnCompletes(s) \/ TurnFails(s) \/ TurnIsCut(s) BY <1>9
  <2>2. PICK o \in Outcomes, b \in {"no", "yes"}, held \in SUBSET sessions[s] :
          TaskOn(s) /\ SendResult(s, o, b, held)
    BY <1>0, <2>1, TurnEnds
  <2>3. /\ Ended(tasks[s], tasks'[s])
        /\ \A r \in Slots \ {s} : tasks'[r] = tasks[r]
        /\ acks' = acks \cup Unanswered(tasks[s])
        /\ UNCHANGED <<next, steered>>
    BY <1>0, <2>2, SendResultStep
  <2> QED BY <1>0, <2>3, RequestsAnswered DEF Ended
<1>10. CASE \E s \in Slots : RespawnDone(s) \/ CircuitCools(s)
  BY <1>3, <1>10 DEF RespawnDone, CircuitCools, poolVars
<1>11. CASE RelayEvent
  <2>1. /\ next \in 1..NumEvents /\ next' = next + 1 /\ next' \in 1..(NumEvents + 1)
        /\ UNCHANGED <<acks, steered>>
        /\ \/ OnlySignals
           \/ \E s \in Slots :
                      /\ tasks[s].box = NoEvent
                      /\ tasks'[s].box = next /\ tasks'[s].sent = tasks[s].sent
                      /\ \A r \in Slots \ {s} : tasks'[r] = tasks[r]
    BY <1>0, <1>11, RelayStep
  <2>2. next <= next' BY <1>1, <2>1
  <2>3. CASE OnlySignals
    BY <1>0, <2>1, <2>2, <2>3, RequestsKept DEF OnlySignals
  <2> QED BY <1>0, <2>1, <2>3, RequestsAdded
<1>12. CASE DispatchNext
  <2>1. UNCHANGED <<acks, steered, next>> BY <1>12 DEF DispatchNext
  <2>2. \/ tasks' = tasks
        \/ \E s \in Slots : /\ \A r \in Slots \ {s} : tasks'[r] = tasks[r]
                            /\ tasks'[s].box = NoEvent /\ tasks'[s].sent = NoEvent
    BY <1>0, <1>12, DispatchStep DEF PoolInv, Types
  <2> QED BY <1>0, <1>1, <2>1, <2>2, RequestsKept
<1>13. CASE HeartbeatTick
  <2>1. UNCHANGED <<acks, steered, next>> BY <1>13 DEF HeartbeatTick
  <2>2. \/ tasks' = tasks
        \/ \E s \in Slots : /\ \A r \in Slots \ {s} : tasks'[r] = tasks[r]
                            /\ tasks'[s].box = NoEvent /\ tasks'[s].sent = NoEvent
    BY <1>0, <1>13, HeartbeatStep DEF Types
  <2> QED BY <1>0, <1>1, <2>1, <2>2, RequestsKept
<1>14. CASE \E s \in Slots : HandleResult(s) \/ HandlePanic(s)
  <2>1. PICK s \in Slots : HandleResult(s) \/ HandlePanic(s) BY <1>14
  <2>2. tasks' = [tasks EXCEPT ![s] = NoTask] /\ UNCHANGED <<next, acks, steered>> BY <2>1, ReturnStep
  <2>3. \A r \in Slots : \/ tasks'[r] = tasks[r]
                         \/ tasks'[r].box = NoEvent /\ tasks'[r].sent = NoEvent
    BY <1>0, <2>2, NoTaskFields
  <2> QED BY <1>0, <1>1, <2>2, <2>3, RequestsKept
<1>15. CASE \E a \in acks : HandleSteerAck(a)
  BY <1>0, <1>2, <1>4, <1>15, AckStep
<1>16. CASE \E c \in Channels, ctl \in {"cancel", "rotate", "switch"} : OwnerCommand(c, ctl)
  <2>1. PICK c \in Channels, ctl \in {"cancel", "rotate", "switch"} : OwnerCommand(c, ctl) BY <1>16
  <2>2. OnlySignals
    <3>1. CASE tasks' = tasks BY <1>0, <3>1, SameTasks
    <3>2. CASE \E s \in TasksOf(c) : tasks' = [tasks EXCEPT ![s].ctl = ctl]
      BY <1>0, <3>2, SignalOne DEF TasksOf, Signals
    <3> QED BY <2>1, <3>1, <3>2 DEF OwnerCommand
  <2>3. UNCHANGED <<next, acks, steered>> BY <2>1 DEF OwnerCommand
  <2> QED BY <1>4, <2>2, <2>3
<1>17. CASE Exit
  <2>1. tasks' = [s \in Slots |-> NoTask] /\ acks' = {} /\ steered' = {} /\ next' = next
    BY <1>17 DEF Exit
  <2>2. \A s \in Slots : tasks'[s].box = NoEvent /\ tasks'[s].sent = NoEvent
    BY <2>1, NoTaskFields
  <2> QED BY <2>1, <2>2 DEF Requests
<1>18. CASE \/ CollectRespawns \/ Maintain \/ StartWake \/ WakeDone \/ IdleSleep \/ Shutdown
            \/ AtRest \/ WakeRetryDue \/ UNCHANGED vars
  BY <1>3, <1>18 DEF CollectRespawns, Maintain, StartWake, WakeDone, IdleSleep, Shutdown, AtRest,
                     WakeRetryDue, vars, poolVars
<1>19. CASE \E c \in Channels : MemberRemoved(c) \/ MemberAdded(c) \/ RetryElapses(c) \/ DeadlinePasses(c)
  BY <1>3, <1>19 DEF MemberRemoved, MemberAdded, RetryElapses, DeadlinePasses, poolVars
<1> QED BY <1>5, <1>6, <1>7, <1>8, <1>9, <1>10, <1>11, <1>12, <1>13, <1>14, <1>15, <1>16,
           <1>17, <1>18, <1>19
        DEF Next, MainLoop, Time, Task

-----------------------------------------------------------------------------
(* The marks of the queue and the turns of the pool *)

\* A step expires the mark of no channel but a late one.
LEMMA MarksKept ==
    ASSUME TurnsMatchMarks, SameTurns, q'.inFlight \subseteq q.inFlight,
           q.inFlight \ late \subseteq q'.inFlight, late \subseteq late'
    PROVE  TurnsMatchMarks'
<1>1. \A s \in Slots : tasks'[s].ch = tasks[s].ch /\ (TaskOn(s)' <=> TaskOn(s))
  BY DEF SameTurns, TaskOn
<1>2. \A c : TasksOf(c)' = TasksOf(c) BY <1>1 DEF TasksOf
<1>3. InFlightBacked' BY <1>2 DEF TurnsMatchMarks, InFlightBacked
<1>4. OneTurnPerChannel' BY <1>1, <1>2 DEF TurnsMatchMarks, OneTurnPerChannel
<1> QED BY <1>3, <1>4 DEF TurnsMatchMarks

\* A turn that is handled clears the mark of its channel and of no other.
LEMMA MarksReturned ==
    ASSUME TurnsMatchMarks, Types, NEW s \in Slots, TaskOn(s), late' = late \ Settled(s, q'),
           tasks' = [tasks EXCEPT ![s] = NoTask], q.inFlight \subseteq Channels,
           tasks[s].ch = Heartbeat => q' = q,
           tasks[s].ch # Heartbeat => q'.inFlight = q.inFlight \ {tasks[s].ch}
    PROVE  TurnsMatchMarks'
<1>1. /\ ~TaskOn(s)'
      /\ \A r \in Slots \ {s} : tasks'[r] = tasks[r] /\ (TaskOn(r)' <=> TaskOn(r))
  <2>1. tasks \in [Slots -> TaskState] /\ NoTask \in TaskState BY NoTaskFields DEF Types
  <2> QED BY <2>1, OneTask, NoTaskFields DEF TaskOn
<1>2. \A c : TasksOf(c)' = TasksOf(c) \ {s} BY <1>1 DEF TasksOf
<1>3. InFlightBacked'
  <2> SUFFICES ASSUME NEW c \in q'.inFlight PROVE TasksOf(c)' # {} BY DEF InFlightBacked
  <2>1. c \in q.inFlight /\ c # tasks[s].ch BY HarnessAssumption
  <2>2. TasksOf(c) # {} /\ s \notin TasksOf(c)
    BY <2>1 DEF TurnsMatchMarks, InFlightBacked, TasksOf
  <2> QED BY <1>2, <2>2
<1>4. OneTurnPerChannel'
  <2> SUFFICES ASSUME NEW r \in Slots, TaskOn(r)', tasks'[r].ch \notin late' \cup {Heartbeat}
               PROVE  /\ tasks'[r].ch \in q'.inFlight
                      /\ \A x \in Slots : TaskOn(x)' /\ tasks'[x].ch = tasks'[r].ch => x = r
    BY DEF OneTurnPerChannel, TasksOf
  <2>1. r # s /\ tasks'[r] = tasks[r] /\ TaskOn(r) BY <1>1
  <2>6. tasks[r].ch \notin late
    <3>1. r \in TasksOf(tasks[r].ch) BY <2>1 DEF TasksOf
    <3>2. tasks[r].ch \notin Settled(s, q') BY <2>1, <3>1 DEF Settled
    <3> QED BY <2>1, <3>2
  <2>2. tasks[r].ch \in q.inFlight /\ TasksOf(tasks[r].ch) = {r}
    BY <2>1, <2>6 DEF TurnsMatchMarks, OneTurnPerChannel
  <2>3. tasks[s].ch # tasks[r].ch BY <2>1, <2>2 DEF TasksOf
  <2>4. tasks'[r].ch \in q'.inFlight BY <2>1, <2>2, <2>3
  <2>5. \A x \in Slots : TaskOn(x)' /\ tasks'[x].ch = tasks'[r].ch => x = r
    BY <1>1, <2>1, <2>2 DEF TasksOf
  <2> QED BY <2>4, <2>5
<1> QED BY <1>3, <1>4 DEF TurnsMatchMarks

\* A turn that starts finds its channel unmarked, and marks it.
LEMMA MarksStarted ==
    ASSUME TurnsMatchMarks, NEW s \in Slots, ~TaskOn(s), late' = late,
           \A r \in Slots \ {s} : tasks'[r] = tasks[r], tasks'[s].phase # "none",
           NEW A, A \subseteq q.inFlight, q.inFlight \ late \subseteq A,
           NEW c, tasks'[s].ch = c,
           \/ c = Heartbeat /\ q'.inFlight = A
           \/ c \notin A /\ c # Heartbeat /\ q'.inFlight = A \cup {c}
    PROVE  TurnsMatchMarks'
<1>1. /\ TaskOn(s)'
      /\ \A r \in Slots \ {s} : tasks'[r] = tasks[r] /\ (TaskOn(r)' <=> TaskOn(r))
  BY DEF TaskOn
<1>2. /\ TasksOf(c)' = TasksOf(c) \cup {s}
      /\ \A d : d # c => TasksOf(d)' = TasksOf(d)
  BY <1>1 DEF TasksOf
<1>3. InFlightBacked'
  <2> SUFFICES ASSUME NEW d \in q'.inFlight PROVE TasksOf(d)' # {} BY DEF InFlightBacked
  <2>1. d \in A \/ d = c OBVIOUS
  <2> QED BY <1>2, <2>1 DEF TurnsMatchMarks, InFlightBacked
<1>4. OneTurnPerChannel'
  <2> SUFFICES ASSUME NEW r \in Slots, TaskOn(r)', tasks'[r].ch \notin late \cup {Heartbeat}
               PROVE  /\ tasks'[r].ch \in q'.inFlight
                      /\ \A x \in Slots : TaskOn(x)' /\ tasks'[x].ch = tasks'[r].ch => x = r
    BY DEF OneTurnPerChannel, TasksOf
  <2>1. \A x \in Slots : TaskOn(x) /\ tasks[x].ch \notin late \cup {Heartbeat} => tasks[x].ch \in A
    BY DEF TurnsMatchMarks, OneTurnPerChannel
  <2>2. CASE r = s
    <3>1. c \notin A /\ c \notin late \cup {Heartbeat} /\ c \in q'.inFlight BY <2>2
    <3>2. \A x \in Slots : TaskOn(x)' /\ tasks'[x].ch = c => x = s
      BY <1>1, <2>1, <3>1
    <3> QED BY <2>2, <3>1, <3>2
  <2>3. CASE r # s
    <3>1. tasks'[r] = tasks[r] /\ TaskOn(r) BY <1>1, <2>3
    <3>2. tasks[r].ch \in A /\ TasksOf(tasks[r].ch) = {r}
      BY <2>1, <3>1 DEF TurnsMatchMarks, OneTurnPerChannel
    <3>3. tasks[r].ch # c BY <3>1, <3>2
    <3>4. \A x \in Slots : TaskOn(x)' /\ tasks'[x].ch = tasks'[r].ch => x = r
      BY <1>1, <3>1, <3>2, <3>3 DEF TasksOf
    <3> QED BY <3>1, <3>2, <3>4
  <2> QED BY <2>2, <2>3
<1> QED BY <1>3, <1>4 DEF TurnsMatchMarks

\* Every step keeps the marks and the turns in agreement.
LEMMA MarksStep ==
    ASSUME HarnessInv, [Next]_vars
    PROVE  TurnsMatchMarks'
<1>0. /\ PoolInv /\ Types /\ Homes /\ TurnsMatchMarks /\ next \in 1..(NumEvents + 1)
      /\ QueueOK(q, next) /\ q \in QueueState /\ acks \subseteq Ack
      /\ q.overdue \subseteq late /\ late \subseteq late
  BY DEF HarnessInv, PoolInv, Types, Homes, QueueOK, Requests, OnTime
<1>1. q.inFlight \subseteq Channels BY <1>0 DEF QueueState
<1>2. CASE Quiet BY <1>0, <1>2, MarksKept DEF Quiet
<1>3. CASE RelayEvent
  <2>1. /\ next \in 1..NumEvents /\ SameTurns /\ late' = late
        /\ \/ q' = push(q, next)
           \/ q' = mark_native_steer_pending(push(q, next), next)
    BY <1>0, <1>3, RelayStep
  <2>2. /\ push(q, next).inFlight = q.inFlight
        /\ mark_native_steer_pending(push(q, next), next).inFlight = q.inFlight
    BY <1>0, <2>1, PushQueue, SteerQueue
  <2>3. q'.inFlight = q.inFlight BY <2>1, <2>2
  <2> QED BY <1>0, <2>1, <2>3, MarksKept
<1>4. LET u == expire(q) IN
      /\ u.inFlight = q.inFlight \ q.overdue
      /\ QueueOK(u, next) /\ u \in QueueState
  BY <1>0, ExpireFields, ExpireKeeps DEF Keeps
<1>5. CASE DispatchNext
  <2> DEFINE u == expire(q)
  <2>0. late' = late BY <1>5 DEF DispatchNext
  <2>1. /\ u.inFlight = q.inFlight \ q.overdue
        /\ QueueOK(u, next) /\ u \in QueueState
    BY <1>4
  <2>2. CASE q' = u /\ tasks' = tasks
    BY <1>0, <2>0, <2>1, <2>2, SameTasks, MarksKept
  <2>3. CASE \E c \in FlushChoices(u) :
                   /\ q' = mark_complete(requeue_preserve_timestamps(
                             flush_next(u, c), c, FlushBatch(u, c)), c)
                   /\ tasks' = tasks
    <3>1. PICK c \in FlushChoices(u) :
                   /\ q' = mark_complete(requeue_preserve_timestamps(
                             flush_next(u, c), c, FlushBatch(u, c)), c)
                   /\ tasks' = tasks
      BY <2>3
    <3>2. /\ c \in Channels /\ c \notin u.inFlight
          /\ c \in ReadyChannels(u) \cup CancelledChannels(u)
      BY ChoiceIsReady
    <3> HIDE DEF u
    <3>3. q'.inFlight = u.inFlight BY <1>0, <2>1, <3>1, <3>2, DeclineKeeps
    <3> QED BY <1>0, <2>0, <2>1, <3>1, <3>3, SameTasks, MarksKept
  <2>4. CASE \E c \in FlushChoices(u), s \in idle :
                   /\ q' = flush_next(u, c)
                   /\ \A r \in Slots \ {s} : tasks'[r] = tasks[r]
                   /\ tasks'[s].ch = c /\ tasks'[s].phase = "starting"
    <3>1. PICK c \in FlushChoices(u), s \in idle :
                   /\ q' = flush_next(u, c)
                   /\ \A r \in Slots \ {s} : tasks'[r] = tasks[r]
                   /\ tasks'[s].ch = c /\ tasks'[s].phase = "starting"
      BY <2>4
    <3>2. c \in Channels /\ c \notin u.inFlight BY ChoiceIsReady
    <3>3. s \in Slots /\ ~TaskOn(s) BY <1>0 DEF Types, PoolInv, SlotExclusive
    <3> HIDE DEF u
    <3>4. q'.inFlight = u.inFlight \cup {c} BY <2>1, <3>1, <3>2, FlushFields
    <3>5. c # Heartbeat BY <3>2, HarnessAssumption
    <3>6. u.inFlight \subseteq q.inFlight /\ q.inFlight \ late \subseteq u.inFlight
      BY <1>0, <2>1
    <3> QED BY <1>0, <2>0, <3>1, <3>2, <3>3, <3>4, <3>5, <3>6, MarksStarted
  <2> QED BY <1>5, <1>0, <2>2, <2>3, <2>4, DispatchStep
<1>6. CASE HeartbeatTick
  <2> DEFINE u == expire(q)
  <2>1. u.inFlight \subseteq q.inFlight /\ q.inFlight \ late \subseteq u.inFlight
    BY <1>0, <1>4
  <2>2. q' = u /\ late' = late BY <1>0, <1>6, HeartbeatStep
  <2>3. CASE tasks' = tasks
    BY <1>0, <2>1, <2>2, <2>3, SameTasks, MarksKept
  <2>4. CASE \E s \in idle :
                   /\ \A r \in Slots \ {s} : tasks'[r] = tasks[r]
                   /\ tasks'[s].ch = Heartbeat /\ tasks'[s].phase = "starting"
    <3>1. PICK s \in idle :
                   /\ \A r \in Slots \ {s} : tasks'[r] = tasks[r]
                   /\ tasks'[s].ch = Heartbeat /\ tasks'[s].phase = "starting"
      BY <2>4
    <3>2. s \in Slots /\ ~TaskOn(s) BY <1>0 DEF Types, PoolInv, SlotExclusive
    <3> HIDE DEF u
    <3>3. q'.inFlight = u.inFlight BY <2>2
    <3> QED BY <1>0, <2>1, <2>2, <3>1, <3>2, <3>3, MarksStarted
  <2> QED BY <1>6, <1>0, <2>3, <2>4, HeartbeatStep
<1>7. CASE \E s \in Slots : HandleResult(s) \/ HandlePanic(s)
  <2>1. PICK s \in Slots : HandleResult(s) \/ HandlePanic(s) BY <1>7
  <2>2. TaskOn(s) /\ tasks' = [tasks EXCEPT ![s] = NoTask] /\ late' = late \ Settled(s, q')
    BY <1>0, <2>1, ReturnStep
  <2>3. /\ tasks[s].ch = Heartbeat => q' = q
        /\ tasks[s].ch # Heartbeat => q'.inFlight = q.inFlight \ {tasks[s].ch}
    BY <1>0, <2>1, ReturnQueue
  <2> QED BY <1>0, <1>1, <2>2, <2>3, MarksReturned
<1>8. CASE \E a \in acks : HandleSteerAck(a)
  <2>1. PICK a \in acks : HandleSteerAck(a) BY <1>8
  <2>2. /\ a.e \in Events /\ SameTurns /\ late' = late
        /\ \/ q' = remove_event(extend_in_flight_deadline(q, ChannelOf[a.e]), a.e)
           \/ q' = release_native_steer(q, a.e)
    BY <1>0, <2>1, AckStep
  <2>3. q'.inFlight = q.inFlight BY <1>0, <2>2, AcceptQueue, ReleaseQueue
  <2> QED BY <1>0, <2>2, <2>3, MarksKept
<1>9. CASE Maintain
  <2>1. q' = expire(compact_expired_state(q)) /\ tasks' = tasks /\ late' = late
    BY <1>9 DEF Maintain, poolVars
  <2>2. q'.inFlight = q.inFlight \ q.overdue BY <1>0, <2>1, MaintainQueue
  <2> QED BY <1>0, <2>1, <2>2, SameTasks, MarksKept
<1>10. CASE StartWake
  <2>1. q' = expire(q) /\ tasks' = tasks /\ late' = late
    BY <1>10 DEF StartWake, poolVars
  <2> QED BY <1>0, <1>4, <2>1, SameTasks, MarksKept
<1>11. CASE \E c \in Channels : MemberRemoved(c)
  <2>1. PICK c \in Channels : q' = drain_channel(q, c) BY <1>11 DEF MemberRemoved
  <2>2. tasks' = tasks /\ late' = late BY <1>11 DEF MemberRemoved
  <2>3. q'.inFlight = q.inFlight BY <1>0, <2>1, DrainFields
  <2> QED BY <1>0, <2>2, <2>3, SameTasks, MarksKept
<1>12. CASE \E c \in Channels : RetryElapses(c) \/ DeadlinePasses(c)
  <2>1. tasks' = tasks /\ late \subseteq late'
    BY <1>12 DEF RetryElapses, DeadlinePasses, poolVars
  <2>2. q'.inFlight = q.inFlight BY <1>0, <1>12, TimeQueue
  <2> QED BY <1>0, <2>1, <2>2, SameTasks, MarksKept
<1>13. CASE Exit
  <2>1. q' = EmptyQueue /\ tasks' = [s \in Slots |-> NoTask] BY <1>13 DEF Exit
  <2>2. q'.inFlight = {} BY <1>0, <2>1, EmptyQueueOK
  <2>3. \A s \in Slots : ~TaskOn(s)' BY <2>1, NoTaskFields DEF TaskOn
  <2> QED BY <2>2, <2>3 DEF TurnsMatchMarks, OneTurnPerChannel, InFlightBacked
<1> QED BY <1>0, <1>2, <1>3, <1>5, <1>6, <1>7, <1>8, <1>9, <1>10, <1>11, <1>12, <1>13, QuietSteps
        DEF Next, MainLoop, Time, Task

-----------------------------------------------------------------------------
(* A pool that sleeps *)

\* Every step leaves a pool that is not awake with a queue no turn has seen.
LEMMA UnseenStep ==
    ASSUME HarnessInv, [Next]_vars
    PROVE  Unseen'
<1>0. /\ PoolInv /\ Types /\ Asleep /\ Unseen /\ Homes /\ next \in 1..(NumEvents + 1)
      /\ QueueOK(q, next) /\ q \in QueueState /\ acks \subseteq Ack
  BY DEF HarnessInv, PoolInv, Types, Homes, QueueOK, Requests
<1> SUFFICES ASSUME life' # "ready", NEW c \in Channels
             PROVE  q'.cancelled[c] = <<>> /\ q'.withheld[c] = <<>>
  BY DEF Unseen
<1>1. CASE IdleSleep
  <2>1. q.inFlight = {} /\ ~has_undispatched_work(q) /\ q' = q BY <1>1 DEF IdleSleep
  <2>2. q.queues[c] \o q.cancelled[c] \o q.withheld[c] = <<>>
    BY <2>1 DEF has_undispatched_work
  <2>3. q.queues[c] \in Seq(Events) /\ q.cancelled[c] \in Seq(Events) /\ q.withheld[c] \in Seq(Events)
    BY <1>0 DEF QueueState
  <2>4. q.queues[c] \o q.cancelled[c] \in Seq(Events)
    BY <2>3, ElemsOfConcat
  <2>5. /\ Elems(q.queues[c] \o q.cancelled[c] \o q.withheld[c])
             = Elems(q.queues[c] \o q.cancelled[c]) \cup Elems(q.withheld[c])
        /\ Elems(q.queues[c] \o q.cancelled[c]) = Elems(q.queues[c]) \cup Elems(q.cancelled[c])
    BY <2>3, <2>4, ElemsOfConcat
  <2>6. Elems(q.cancelled[c]) = {} /\ Elems(q.withheld[c]) = {}
    BY <2>2, <2>5, ElemsOfNone
  <2> QED BY <2>1, <2>3, <2>6, ElemsIn
<1>2. CASE Exit
  <2>1. q' = EmptyQueue BY <1>2 DEF Exit
  <2> QED BY <1>0, <2>1, EmptyQueueOK
<1>3. CASE ~IdleSleep /\ ~Exit
  <2>1. life # "ready"
    <3>1. CASE life' = life BY <3>1
    <3>2. CASE StartWake BY <3>2 DEF StartWake
    <3>3. CASE WakeDone BY <3>3 DEF WakeDone
    <3>4. CASE WakeRetryDue BY <3>4 DEF WakeRetryDue
    <3>5. CASE \E s \in Slots : Task(s)
      <4>1. PICK s \in Slots : Task(s) BY <3>5
      <4>2. CASE RespawnDone(s) BY <3>1, <4>2 DEF RespawnDone
      <4>3. CASE ~RespawnDone(s)
        <5>1. TurnStep(s) BY <1>0, <4>1, <4>3, TurnSteps DEF Task
        <5> QED BY <3>1, <5>1 DEF TurnStep
      <4> QED BY <4>2, <4>3
    <3>6. CASE \E s \in Slots : HandleResult(s) \/ HandlePanic(s)
      BY <1>0, <3>1, <3>6, ReturnStep
    <3>7. CASE \E a \in acks : HandleSteerAck(a)
      BY <3>1, <3>7 DEF HandleSteerAck
    <3>8. CASE \E d \in Channels : \/ MemberRemoved(d) \/ MemberAdded(d)
                                   \/ RetryElapses(d) \/ DeadlinePasses(d)
      BY <3>1, <3>8 DEF MemberRemoved, MemberAdded, RetryElapses, DeadlinePasses
    <3>9. CASE \E d \in Channels, ctl \in {"cancel", "rotate", "switch"} : OwnerCommand(d, ctl)
      BY <3>1, <3>9 DEF OwnerCommand
    <3>10. CASE \/ RelayEvent \/ DispatchNext \/ CollectRespawns \/ Maintain \/ HeartbeatTick
      BY <3>1, <3>10 DEF RelayEvent, DispatchNext, CollectRespawns, Maintain, HeartbeatTick
    <3>11. CASE Shutdown \/ AtRest \/ UNCHANGED vars \/ \E s \in Slots : CircuitCools(s)
      BY <3>1, <3>11 DEF Shutdown, AtRest, vars, CircuitCools
    <3> QED BY <1>3, <3>2, <3>3, <3>4, <3>5, <3>6, <3>7, <3>8, <3>9, <3>10, <3>11
            DEF Next, MainLoop, Time
  <2>2. /\ q.cancelled[c] = <<>> /\ q.withheld[c] = <<>> /\ idle = {}
        /\ \A s \in Slots : ~TaskOn(s)
    BY <1>0, <2>1 DEF Unseen, Asleep
  <2>3. CASE Quiet BY <2>2, <2>3 DEF Quiet
  <2>4. LET u == expire(q) IN
        /\ QueueOK(u, next) /\ u \in QueueState
        /\ u.cancelled[c] = <<>> /\ u.withheld[c] = <<>>
    BY <1>0, <2>2, ExpireFields, ExpireKeeps DEF Keeps
  <2>5. CASE RelayEvent
    <3>1. next \in 1..NumEvents /\ q' = push(q, next) BY <1>0, <2>2, <2>5, RelayStep
    <3> QED BY <1>0, <2>2, <3>1, PushQueue
  <2>6. CASE DispatchNext
    <3> DEFINE u == expire(q)
    <3>1. CASE q' = u BY <2>4, <3>1
    <3>2. CASE \E d \in FlushChoices(u) :
                   q' = mark_complete(requeue_preserve_timestamps(
                             flush_next(u, d), d, FlushBatch(u, d)), d)
      <4>1. PICK d \in FlushChoices(u) :
                   q' = mark_complete(requeue_preserve_timestamps(
                             flush_next(u, d), d, FlushBatch(u, d)), d)
        BY <3>2
      <4>2. /\ d \in Channels /\ d \notin u.inFlight
            /\ d \in ReadyChannels(u) \cup CancelledChannels(u)
        BY ChoiceIsReady
      <4>3. QueueOK(u, next) /\ u.cancelled[c] = <<>> /\ u.withheld[c] = <<>> BY <2>4
      <4> HIDE DEF u
      <4>4. q'.withheld = u.withheld /\ q'.cancelled[d] = <<>> /\ Elsewhere(u, q', d)
        BY <1>0, <4>1, <4>2, <4>3, DeclineKeeps
      <4> QED BY <4>3, <4>4 DEF Elsewhere
    <3> QED BY <1>0, <2>2, <2>6, <3>1, <3>2, DispatchStep
  <2>7. CASE HeartbeatTick \/ Maintain BY <2>1, <2>7 DEF HeartbeatTick, Maintain
  <2>8. CASE \E s \in Slots : HandleResult(s) \/ HandlePanic(s)
    BY <1>0, <2>2, <2>8, ReturnStep
  <2>9. CASE \E a \in acks : HandleSteerAck(a)
    <3>1. PICK a \in acks : HandleSteerAck(a) BY <2>9
    <3>2. /\ a.e \in Events /\ ChannelOf[a.e] \in Channels
          /\ \/ q' = remove_event(extend_in_flight_deadline(q, ChannelOf[a.e]), a.e)
             \/ q' = release_native_steer(q, a.e)
      BY <1>0, <3>1, AckStep
    <3> DEFINE d == ChannelOf[a.e]
    <3>3. /\ q'.cancelled = q.cancelled /\ Elsewhere(q, q', d)
          /\ Elems(q'.withheld[d]) = Elems(q.withheld[d]) \ {a.e} /\ QueueOK(q', next)
      <4>1. CASE q' = remove_event(extend_in_flight_deadline(q, d), a.e)
        <5>1. /\ q'.cancelled = q.cancelled /\ Elsewhere(q, q', d) /\ Keeps(q, q', {}, next)
              /\ Elems(q'.withheld[d]) = Elems(q.withheld[d]) \ {a.e}
          BY <1>0, <3>2, <4>1, AcceptQueue
        <5> QED BY <5>1 DEF Keeps
      <4>2. CASE q' = release_native_steer(q, a.e)
        <5>1. /\ q'.cancelled = q.cancelled /\ Elsewhere(q, q', d) /\ Keeps(q, q', {}, next)
              /\ Elems(q'.withheld[d]) = Elems(q.withheld[d]) \ {a.e}
          BY <1>0, <3>2, <4>2, ReleaseQueue
        <5> QED BY <5>1 DEF Keeps
      <4> QED BY <3>2, <4>1, <4>2
    <3>4. CASE c = d
      <4>1. Elems(q'.withheld[c]) = {} BY <2>2, <3>3, <3>4, ElemsOfNone
      <4>2. q'.withheld[c] \in Seq(Events) BY <3>3 DEF QueueOK, QueueState
      <4> QED BY <2>2, <3>3, <4>1, <4>2, ElemsIn
    <3>5. CASE c # d BY <2>2, <3>3, <3>5 DEF Elsewhere
    <3> QED BY <3>4, <3>5
  <2>10. CASE StartWake
    <3>1. q' = expire(q) BY <2>10 DEF StartWake
    <3> QED BY <2>4, <3>1
  <2>11. CASE \E d \in Channels : MemberRemoved(d)
    <3>1. PICK d \in Channels : q' = drain_channel(q, d) BY <2>11 DEF MemberRemoved
    <3>2. q'.cancelled[d] = <<>> /\ q'.withheld[d] = <<>> /\ Elsewhere(q, q', d)
      BY <1>0, <3>1, DrainFields
    <3> QED BY <2>2, <3>2 DEF Elsewhere
  <2>12. CASE \E d \in Channels : RetryElapses(d) \/ DeadlinePasses(d)
    BY <1>0, <2>2, <2>12, TimeQueue
  <2> QED BY <1>0, <1>3, <2>3, <2>5, <2>6, <2>7, <2>8, <2>9, <2>10, <2>11, <2>12, QuietSteps
          DEF Next, MainLoop, Time, Task
<1> QED BY <1>1, <1>2, <1>3

-----------------------------------------------------------------------------
(* Deadlines *)

\* What keeps the withheld tables, lets their events go or puts those of an
\* expired channel back accounts for every event out of the way.
LEMMA WithheldKept ==
    ASSUME NEW u, NEW v, u.shed \subseteq v.shed, NEW D,
           \A c \in Channels : Elems(u.withheld[c]) \subseteq
             Elems(v.withheld[c]) \cup v.shed \cup (IF c \in D THEN v.returned ELSE {})
    PROVE  \A e \in Parked(u) : e \in Parked(v) \/ (e \in v.returned /\ ChannelOf[e] \in D)
<1> SUFFICES ASSUME NEW e \in Events, e \in Elems(u.withheld[ChannelOf[e]])
             PROVE  e \in Parked(v) \/ (e \in v.returned /\ ChannelOf[e] \in D)
  BY DEF Parked, Withheld
<1>1. ChannelOf[e] \in Channels BY HarnessAssumption
<1> QED BY <1>1 DEF Parked, Withheld

\* Nothing of a channel that is late no longer is left over.
Healed(c) ==
    /\ c \notin q'.inFlight /\ q'.retryAfter[c] # "pending"
    /\ \A s \in Slots : tasks'[s].ch # c
    /\ \A a \in acks' : ChannelOf[a.e] # c

\* The events that are withheld or let go of stay so, but for the one whose
\* steer is answered by a release and those of an expired channel; a channel
\* past its deadline is late until it is healed.
LEMMA QueueOnTime ==
    ASSUME HarnessInv, [Next]_vars, ~Exit
    PROVE  /\ late' \subseteq Channels /\ q'.overdue \subseteq late'
           /\ \A c \in late \ late' : Healed(c)
           /\ q.returned \subseteq q'.returned
           /\ \A e \in Parked(q) :
                \/ e \in Parked(q')
                \/ e \in q'.returned /\ ChannelOf[e] \in late
                \/ \E a \in acks : HandleSteerAck(a) /\ a.e = e /\ a.kind # "success"
<1>0. /\ PoolInv /\ Types /\ Homes /\ next \in 1..(NumEvents + 1)
      /\ QueueOK(q, next) /\ q \in QueueState /\ acks \subseteq Ack
      /\ late \subseteq Channels /\ q.overdue \subseteq late /\ q.overdue \subseteq Channels
  BY DEF HarnessInv, PoolInv, Types, Homes, QueueOK, QueueState, Requests, OnTime
<1>1. ASSUME late' = late, q'.overdue \subseteq late, q.shed \subseteq q'.shed,
             q.returned \subseteq q'.returned,
             \A c \in Channels : Elems(q.withheld[c]) \subseteq
               Elems(q'.withheld[c]) \cup q'.shed \cup (IF c \in late THEN q'.returned ELSE {})
      PROVE  /\ late' \subseteq Channels /\ q'.overdue \subseteq late'
             /\ \A c \in late \ late' : Healed(c)
             /\ q.returned \subseteq q'.returned
             /\ \A e \in Parked(q) :
                  e \in Parked(q') \/ (e \in q'.returned /\ ChannelOf[e] \in late)
  <2>1. \A e \in Parked(q) : e \in Parked(q') \/ (e \in q'.returned /\ ChannelOf[e] \in late)
    BY <1>1, WithheldKept
  <2> QED BY <1>0, <1>1, <2>1
<1>2. CASE Quiet BY <1>0, <1>1, <1>2 DEF Quiet
<1>3. CASE RelayEvent
  <2>1. /\ next \in 1..NumEvents /\ late' = late
        /\ \/ q' = push(q, next)
           \/ q' = mark_native_steer_pending(push(q, next), next)
    BY <1>0, <1>3, RelayStep
  <2>2. CASE q' = push(q, next)
    <3>1. Keeps(q, q', {next}, next + 1) /\ q'.overdue = q.overdue /\ q'.withheld = q.withheld
      BY <1>0, <2>1, <2>2, PushQueue
    <3> QED BY <1>0, <1>1, <2>1, <3>1 DEF Keeps
  <2>3. CASE q' = mark_native_steer_pending(push(q, next), next)
    <3> DEFINE d == ChannelOf[next]
    <3>1. /\ Keeps(q, q', {next}, next + 1) /\ q'.overdue = q.overdue /\ Elsewhere(q, q', d)
          /\ Elems(q.withheld[d]) \subseteq Elems(q'.withheld[d])
      BY <1>0, <2>1, <2>3, SteerQueue
    <3>2. \A c \in Channels : Elems(q.withheld[c]) \subseteq Elems(q'.withheld[c])
      BY <3>1 DEF Elsewhere
    <3>3. q.shed \subseteq q'.shed /\ q.returned \subseteq q'.returned BY <3>1 DEF Keeps
    <3> QED BY <1>0, <1>1, <2>1, <3>1, <3>2, <3>3
  <2> QED BY <2>1, <2>2, <2>3
<1>4. LET u == expire(q) IN
      /\ QueueOK(u, next) /\ u \in QueueState /\ u.overdue = {}
      /\ q.shed \subseteq u.shed /\ q.returned \subseteq u.returned
      /\ \A c \in Channels : Elems(q.withheld[c]) \subseteq
           Elems(u.withheld[c]) \cup (IF c \in late THEN u.returned ELSE {})
  <2> DEFINE u == expire(q)
  <2>1. Keeps(q, u, {}, next) BY <1>0, ExpireKeeps
  <2>2. /\ u.overdue = {}
        /\ \A c \in Channels \ q.overdue : u.withheld[c] = q.withheld[c]
        /\ \A c \in q.overdue : Elems(q.withheld[c]) \subseteq u.returned
    BY <1>0, ExpireOnTime
  <2> HIDE DEF u
  <2>3. /\ QueueOK(u, next) /\ u \in QueueState
        /\ q.shed \subseteq u.shed /\ q.returned \subseteq u.returned
    BY <2>1 DEF Keeps, QueueOK
  <2>4. \A c \in Channels : Elems(q.withheld[c]) \subseteq
           Elems(u.withheld[c]) \cup (IF c \in late THEN u.returned ELSE {})
    BY <1>0, <2>2
  <2> QED BY <2>2, <2>3, <2>4 DEF u
<1>5. CASE DispatchNext
  <2> DEFINE u == expire(q)
  <2>0. late' = late BY <1>5 DEF DispatchNext
  <2>1. /\ QueueOK(u, next) /\ u \in QueueState /\ u.overdue = {}
        /\ q.shed \subseteq u.shed /\ q.returned \subseteq u.returned
        /\ \A c \in Channels : Elems(q.withheld[c]) \subseteq
             Elems(u.withheld[c]) \cup (IF c \in late THEN u.returned ELSE {})
    BY <1>4
  <2> HIDE DEF u
  <2>5. ASSUME q'.overdue = {}, q'.withheld = u.withheld,
               u.shed \subseteq q'.shed, u.returned \subseteq q'.returned
        PROVE  /\ late' \subseteq Channels /\ q'.overdue \subseteq late'
               /\ \A c \in late \ late' : Healed(c)
               /\ q.returned \subseteq q'.returned
               /\ \A e \in Parked(q) :
                    e \in Parked(q') \/ (e \in q'.returned /\ ChannelOf[e] \in late)
    <3>1. \A c \in Channels : Elems(q.withheld[c]) \subseteq
             Elems(q'.withheld[c]) \cup q'.shed \cup (IF c \in late THEN q'.returned ELSE {})
      BY <2>1, <2>5
    <3>2. q.shed \subseteq q'.shed /\ q.returned \subseteq q'.returned /\ q'.overdue \subseteq late
      BY <2>1, <2>5
    <3> QED BY <1>1, <2>0, <3>1, <3>2
  <2>2. CASE q' = u BY <2>1, <2>2, <2>5
  <2>3. CASE \E c \in FlushChoices(u) :
                   q' = mark_complete(requeue_preserve_timestamps(
                             flush_next(u, c), c, FlushBatch(u, c)), c)
    <3>1. PICK c \in FlushChoices(u) :
                   q' = mark_complete(requeue_preserve_timestamps(
                             flush_next(u, c), c, FlushBatch(u, c)), c)
      BY <2>3
    <3>2. /\ c \in Channels /\ c \notin u.inFlight
          /\ c \in ReadyChannels(u) \cup CancelledChannels(u)
      BY ChoiceIsReady
    <3>3. Keeps(u, q', {}, next) /\ q'.overdue = u.overdue \ {c} /\ q'.withheld = u.withheld
      BY <1>0, <2>1, <3>1, <3>2, DeclineKeeps
    <3>4. u.shed \subseteq q'.shed /\ u.returned \subseteq q'.returned BY <3>3 DEF Keeps
    <3> QED BY <2>1, <2>5, <3>3, <3>4
  <2>4. CASE \E c \in FlushChoices(u) : q' = flush_next(u, c)
    <3>1. PICK c \in FlushChoices(u) : q' = flush_next(u, c) BY <2>4
    <3>2. c \in Channels BY ChoiceIsReady
    <3>3. /\ q'.shed = u.shed /\ q'.returned = u.returned
          /\ q'.overdue = u.overdue \ {c} /\ q'.withheld = u.withheld
      BY <2>1, <3>1, <3>2, FlushFields
    <3> QED BY <2>1, <2>5, <3>3
  <2> QED BY <1>5, <1>0, <2>2, <2>3, <2>4, DispatchStep DEF u
<1>6. CASE HeartbeatTick \/ StartWake
  <2>1. q' = expire(q) /\ late' = late BY <1>6 DEF HeartbeatTick, StartWake
  <2>2. /\ q'.overdue = {} /\ q.shed \subseteq q'.shed /\ q.returned \subseteq q'.returned
        /\ \A c \in Channels : Elems(q.withheld[c]) \subseteq
             Elems(q'.withheld[c]) \cup (IF c \in late THEN q'.returned ELSE {})
    BY <1>4, <2>1
  <2>3. \A c \in Channels : Elems(q.withheld[c]) \subseteq
          Elems(q'.withheld[c]) \cup q'.shed \cup (IF c \in late THEN q'.returned ELSE {})
    BY <2>2
  <2>4. q'.overdue \subseteq late BY <2>2
  <2> QED BY <1>1, <2>1, <2>2, <2>3, <2>4
<1>7. CASE \E s \in Slots : HandleResult(s) \/ HandlePanic(s)
  <2>1. PICK s \in Slots : HandleResult(s) \/ HandlePanic(s) BY <1>7
  <2> DEFINE d == tasks[s].ch
  <2>2. Keeps(q, q', Batch(tasks[s]), next) /\ q'.withheld = q.withheld
    BY <1>0, <2>1, ReturnQueue
  <2>3. /\ TaskOn(s) /\ late' = late \ Settled(s, q') /\ acks' = acks
        /\ tasks' = [tasks EXCEPT ![s] = NoTask] /\ tasks \in [Slots -> TaskState]
    BY <1>0, <2>1, ReturnStep DEF Types
  <2>4. \A c \in Settled(s, q') : c = d /\ c \in Channels /\ c # Heartbeat
    BY <2>3, HarnessAssumption DEF Settled, TasksOf
  <2>5. /\ q'.overdue \subseteq q.overdue
        /\ d # Heartbeat => d \notin q'.overdue /\ d \notin q'.inFlight
    BY <1>0, <2>1, ReturnQueue
  <2>6. q'.overdue \subseteq late' BY <1>0, <2>3, <2>4, <2>5
  <2>7. ASSUME NEW c \in late \ late' PROVE Healed(c)
    <3>1. c \in Settled(s, q') BY <2>3, <2>7
    <3>2. c = d /\ c \in Channels /\ c # Heartbeat BY <2>4, <3>1
    <3>3. /\ TasksOf(c) = {s} /\ q'.retryAfter[c] # "pending"
          /\ \A a \in acks' : ChannelOf[a.e] # c
      BY <2>3, <3>1 DEF Settled
    <3>4. c \notin q'.inFlight BY <2>5, <3>2
    <3>5. ASSUME NEW r \in Slots PROVE tasks'[r].ch # c
      <4>1. CASE r = s
        <5>1. tasks'[r] = NoTask BY <2>3, <4>1
        <5> QED BY <3>2, <5>1, NoTaskFields
      <4>2. CASE r # s
        <5>1. tasks'[r] = tasks[r] BY <2>3, <4>2
        <5>2. r \notin TasksOf(c) BY <3>3, <4>2
        <5>3. CASE TaskOn(r) BY <5>1, <5>2, <5>3 DEF TasksOf
        <5>4. CASE ~TaskOn(r)
          <6>1. tasks[r] = NoTask BY <1>0, <5>4 DEF Types
          <6> QED BY <3>2, <5>1, <6>1, NoTaskFields
        <5> QED BY <5>3, <5>4
      <4> QED BY <4>1, <4>2
    <3> QED BY <3>3, <3>4, <3>5 DEF Healed
  <2>8. \A e \in Parked(q) : e \in Parked(q') \/ (e \in q'.returned /\ ChannelOf[e] \in late)
    <3>1. \A c \in Channels : Elems(q.withheld[c]) \subseteq
            Elems(q'.withheld[c]) \cup q'.shed \cup (IF c \in late THEN q'.returned ELSE {})
      BY <2>2
    <3>2. q.shed \subseteq q'.shed BY <2>2 DEF Keeps
    <3> QED BY <3>1, <3>2, WithheldKept
  <2>9. late' \subseteq Channels /\ q.returned \subseteq q'.returned BY <1>0, <2>2, <2>3 DEF Keeps
  <2> QED BY <2>6, <2>7, <2>8, <2>9
<1>8. CASE \E a \in acks : HandleSteerAck(a)
  <2>1. PICK a \in acks : HandleSteerAck(a) BY <1>8
  <2> DEFINE d == ChannelOf[a.e]
  <2>2. /\ a.e \in Events /\ d \in Channels /\ late' = late
        /\ \/ a.kind = "success" /\ q' = remove_event(extend_in_flight_deadline(q, d), a.e)
           \/ a.kind # "success" /\ q' = release_native_steer(q, a.e)
    BY <1>0, <2>1, AckStep
  <2>3. CASE q' = remove_event(extend_in_flight_deadline(q, d), a.e)
    <3>1. /\ Keeps(q, q', {}, next) /\ q'.overdue \subseteq q.overdue /\ Elsewhere(q, q', d)
          /\ Elems(q'.withheld[d]) = Elems(q.withheld[d]) \ {a.e}
          /\ a.e \in Elems(q.withheld[d]) => a.e \in q'.shed
      BY <1>0, <2>2, <2>3, AcceptQueue
    <3>2. \A c \in Channels : Elems(q.withheld[c]) \subseteq Elems(q'.withheld[c]) \cup q'.shed
      BY <3>1 DEF Elsewhere
    <3>3. q.shed \subseteq q'.shed /\ q.returned \subseteq q'.returned BY <3>1 DEF Keeps
    <3> QED BY <1>0, <1>1, <2>2, <3>1, <3>2, <3>3
  <2>4. CASE a.kind # "success" /\ q' = release_native_steer(q, a.e)
    <3>1. /\ Keeps(q, q', {}, next) /\ q'.overdue = q.overdue /\ Elsewhere(q, q', d)
          /\ Elems(q'.withheld[d]) = Elems(q.withheld[d]) \ {a.e}
      BY <1>0, <2>2, <2>4, ReleaseQueue
    <3>2. q.shed \subseteq q'.shed /\ q.returned \subseteq q'.returned BY <3>1 DEF Keeps
    <3>3. ASSUME NEW e \in Events, e \in Elems(q.withheld[ChannelOf[e]]), e # a.e
          PROVE  e \in Elems(q'.withheld[ChannelOf[e]])
      <4>1. ChannelOf[e] \in Channels BY HarnessAssumption
      <4> QED BY <3>1, <3>3, <4>1 DEF Elsewhere
    <3>4. \A e \in Parked(q) : e = a.e \/ e \in Parked(q')
      BY <3>2, <3>3 DEF Parked, Withheld
    <3> QED BY <1>0, <2>1, <2>2, <2>4, <3>1, <3>2, <3>4
  <2> QED BY <2>2, <2>3, <2>4
<1>9. CASE Maintain
  <2>1. q' = expire(compact_expired_state(q)) /\ late' = late BY <1>9 DEF Maintain
  <2>2. /\ Keeps(q, q', {}, next) /\ q'.overdue = {}
        /\ \A c \in Channels \ q.overdue : q'.withheld[c] = q.withheld[c]
        /\ \A c \in q.overdue : Elems(q.withheld[c]) \subseteq q'.returned
    BY <1>0, <2>1, MaintainQueue
  <2>3. \A c \in Channels : Elems(q.withheld[c]) \subseteq
          Elems(q'.withheld[c]) \cup q'.shed \cup (IF c \in late THEN q'.returned ELSE {})
    BY <1>0, <2>2
  <2>4. q'.overdue \subseteq late /\ q.shed \subseteq q'.shed /\ q.returned \subseteq q'.returned
    BY <2>2 DEF Keeps
  <2> QED BY <1>1, <2>1, <2>3, <2>4
<1>10. CASE \E c \in Channels : MemberRemoved(c)
  <2>1. PICK d \in Channels : q' = drain_channel(q, d) BY <1>10 DEF MemberRemoved
  <2>2. /\ q'.shed = q.shed \cup Waiting(q, d) /\ q'.returned = q.returned
        /\ q'.overdue = q.overdue /\ Elsewhere(q, q', d)
    BY <1>0, <2>1, DrainFields
  <2>3. \A c \in Channels : Elems(q.withheld[c]) \subseteq Elems(q'.withheld[c]) \cup q'.shed
    BY <2>2 DEF Elsewhere, Waiting
  <2>4. late' = late BY <1>10 DEF MemberRemoved
  <2> QED BY <1>0, <1>1, <2>2, <2>3, <2>4
<1>11. CASE \E c \in Channels : RetryElapses(c)
  <2>1. /\ q'.withheld = q.withheld /\ q'.shed = q.shed /\ Keeps(q, q', {}, next)
    BY <1>0, <1>11, TimeQueue
  <2>2. q'.overdue = q.overdue /\ late' = late BY <1>0, <1>11 DEF RetryElapses, QueueState
  <2>3. q.returned \subseteq q'.returned BY <2>1 DEF Keeps
  <2> QED BY <1>0, <1>1, <2>1, <2>2, <2>3
<1>12. CASE \E c \in Channels : DeadlinePasses(c)
  <2>1. PICK c \in Channels : DeadlinePasses(c) BY <1>12
  <2>2. q'.withheld = q.withheld /\ q'.shed = q.shed /\ Keeps(q, q', {}, next)
    BY <1>0, <2>1, TimeQueue
  <2>3. late' = late \cup {c} /\ q'.overdue = q.overdue \cup {c}
    BY <1>0, <2>1 DEF DeadlinePasses, QueueState
  <2>4. q.returned \subseteq q'.returned BY <2>2 DEF Keeps
  <2>5. \A e \in Parked(q) : e \in Parked(q') BY <2>2 DEF Parked, Withheld
  <2> QED BY <1>0, <2>3, <2>4, <2>5
<1> QED BY <1>0, <1>2, <1>3, <1>5, <1>6, <1>7, <1>8, <1>9, <1>10, <1>11, <1>12, QuietSteps
        DEF Next, MainLoop, Time, Task

\* A turn asks for nothing new.
RunsOn(s) ==
    \/ Asked(tasks'[s]) = {}
    \/ tasks'[s].ch = tasks[s].ch /\ Asked(tasks'[s]) \subseteq Asked(tasks[s])

\* The steps of a task answer its own requests only.
LEMMA TasksOnTime ==
    ASSUME Types, NEW s \in Slots,
           \/ SessionReady(s) \/ GreetingDone(s) \/ ReadSteer(s) \/ AnswerSteer(s)
           \/ TurnCompletes(s) \/ TurnFails(s) \/ TaskPanics(s) \/ TurnIsCut(s)
    PROVE  /\ RunsOn(s) /\ steered' \subseteq steered \cup Asked(tasks[s])
           /\ \A a \in acks' : a \in acks \/ a.kind # "success" \/ a.e \in Asked(tasks[s])
<1>0. tasks \in [Slots -> TaskState] BY DEF Types
<1>7. \A a \in Unanswered(tasks[s]) : a.kind # "success" BY DEF Unanswered
<1>1. CASE SessionReady(s)
  <2>1. PICK p \in {"greeting", "prompting"} : tasks' = [tasks EXCEPT ![s].phase = p]
    BY <1>1 DEF SessionReady
  <2>2. steered' = steered /\ acks' = acks BY <1>1 DEF SessionReady
  <2>3. tasks'[s].ch = tasks[s].ch /\ tasks'[s].box = tasks[s].box /\ tasks'[s].sent = tasks[s].sent
    BY <1>0, <2>1 DEF TaskState
  <2> QED BY <2>2, <2>3 DEF RunsOn, Asked
<1>2. CASE ReadSteer(s)
  <2>1. /\ steered' = steered
        /\ \/ tasks' = [tasks EXCEPT ![s].box = NoEvent, ![s].sent = tasks[s].box]
           \/ tasks' = [tasks EXCEPT ![s].box = NoEvent]
        /\ acks' = acks \/ acks' = acks \cup {[e |-> tasks[s].box, kind |-> "fallback"]}
    BY <1>2 DEF ReadSteer
  <2>2. /\ tasks'[s].ch = tasks[s].ch /\ tasks'[s].box = NoEvent
        /\ tasks'[s].sent \in {tasks[s].sent, tasks[s].box}
    BY <1>0, <2>1 DEF TaskState
  <2>3. \A a \in acks' : a \in acks \/ a.kind # "success" BY <2>1
  <2> QED BY <2>1, <2>2, <2>3 DEF RunsOn, Asked
<1>3. CASE AnswerSteer(s)
  <2>1. /\ tasks[s].sent # NoEvent /\ steered' \subseteq steered \cup {tasks[s].sent}
        /\ tasks' = [tasks EXCEPT ![s].sent = NoEvent]
        /\ \E k \in {"success", "release", "fallback"} :
             acks' = acks \cup {[e |-> tasks[s].sent, kind |-> k]}
    BY <1>3 DEF AnswerSteer
  <2>2. /\ tasks'[s].ch = tasks[s].ch /\ tasks'[s].box = tasks[s].box
        /\ tasks'[s].sent = NoEvent
    BY <1>0, <2>1 DEF TaskState
  <2>3. \A a \in acks' : a \in acks \/ a.e = tasks[s].sent BY <2>1
  <2> QED BY <2>1, <2>2, <2>3 DEF RunsOn, Asked
<1>4. CASE TaskPanics(s) \/ GreetingDone(s)
  <2>1. PICK p \in {"prompting", "done", "panicked"} :
          tasks' = [tasks EXCEPT ![s] = [CloseSteer(tasks[s]) EXCEPT !.phase = p]]
    BY <1>4 DEF TaskPanics, GreetingDone
  <2> DEFINE r == [CloseSteer(tasks[s]) EXCEPT !.phase = p]
  <2>2. Ended(tasks[s], r) BY <1>0, CloseSteerFields
  <2> HIDE DEF r
  <2>3. tasks'[s] = r BY <1>0, <2>1 DEF r
  <2>4. steered' = steered /\ acks' = acks \cup Unanswered(tasks[s])
    BY <1>4 DEF TaskPanics, GreetingDone
  <2> QED BY <1>7, <2>2, <2>3, <2>4 DEF RunsOn, Ended, Asked
<1>5. CASE TurnCompletes(s) \/ TurnFails(s) \/ TurnIsCut(s)
  <2>1. PICK o \in Outcomes, b \in {"no", "yes"}, held \in SUBSET sessions[s] :
          TaskOn(s) /\ SendResult(s, o, b, held)
    BY <1>5, TurnEnds
  <2>2. /\ Ended(tasks[s], tasks'[s]) /\ steered' = steered
        /\ acks' = acks \cup Unanswered(tasks[s])
    BY <2>1, SendResultStep
  <2> QED BY <1>7, <2>2 DEF RunsOn, Ended, Asked
<1> QED BY <1>1, <1>2, <1>3, <1>4, <1>5

\* A request to steer stays out of the way through a step that adds none.
LEMMA OnTimeKept ==
    ASSUME HarnessInv, [Next]_vars, ~Exit,
           \A s \in Slots : RunsOn(s),
           \/ steered' = steered /\ acks' \subseteq acks
           \/ /\ ~\E a \in acks : HandleSteerAck(a)
              /\ \E s \in Slots :
                   /\ steered' \subseteq steered \cup Asked(tasks[s])
                   /\ \A a \in acks' : a \in acks \/ a.kind # "success" \/ a.e \in Asked(tasks[s])
    PROVE  OnTime'
<1>0. /\ \A s \in Slots : \A e \in Asked(tasks[s]) :
           /\ ChannelOf[e] = tasks[s].ch
           /\ e \in Parked(q) \cup q.returned
           /\ e \in Parked(q) \/ ChannelOf[e] \in late
      /\ steered \subseteq Parked(q) \cup q.returned
      /\ \A a \in acks : a.kind = "success" => a.e \in Parked(q) \/ ChannelOf[a.e] \in late
  BY DEF HarnessInv, OnTime
<1>1. /\ late' \subseteq Channels /\ q'.overdue \subseteq late'
      /\ \A c \in late \ late' : Healed(c)
      /\ q.returned \subseteq q'.returned
      /\ \A e \in Parked(q) :
           \/ e \in Parked(q')
           \/ e \in q'.returned /\ ChannelOf[e] \in late
           \/ \E a \in acks : HandleSteerAck(a) /\ a.e = e /\ a.kind # "success"
  BY QueueOnTime
<1>2. \A a \in acks : a.kind # "success" => a.e \notin steered
  BY DEF HarnessInv, Requests
<1>3. \A a \in acks : \A s \in Slots : a.e \notin Asked(tasks[s])
  BY DEF HarnessInv, Requests, Asked
<1>8. \A a, b \in acks : a.e = b.e => a = b
  BY DEF HarnessInv, Requests
<1>4. \A s \in Slots : \A e \in Asked(tasks[s]) :
        /\ e \in Parked(q') \cup q'.returned
        /\ e \in Parked(q') \/ ChannelOf[e] \in late
  BY <1>0, <1>1, <1>3
<1>5. \A s \in Slots : \A e \in Asked(tasks'[s]) :
        /\ ChannelOf[e] = tasks'[s].ch
        /\ e \in Parked(q') \cup q'.returned
        /\ e \in Parked(q') \/ ChannelOf[e] \in late'
  <2> SUFFICES ASSUME NEW s \in Slots, NEW e \in Asked(tasks'[s])
               PROVE  /\ ChannelOf[e] = tasks'[s].ch
                      /\ e \in Parked(q') \cup q'.returned
                      /\ e \in Parked(q') \/ ChannelOf[e] \in late'
    OBVIOUS
  <2>1. tasks'[s].ch = tasks[s].ch /\ e \in Asked(tasks[s]) BY DEF RunsOn
  <2>2. ChannelOf[e] = tasks'[s].ch BY <1>0, <2>1
  <2>3. ~Healed(ChannelOf[e]) BY <2>2 DEF Healed
  <2>4. ChannelOf[e] \in late => ChannelOf[e] \in late' BY <1>1, <2>3
  <2> QED BY <1>4, <2>1, <2>2, <2>4
<1>6. steered' \subseteq Parked(q') \cup q'.returned
  <2>1. steered \subseteq Parked(q') \cup q'.returned BY <1>0, <1>1, <1>2
  <2> QED BY <1>4, <2>1
<1>7. ASSUME NEW a \in acks', a.kind = "success"
      PROVE  a.e \in Parked(q') \/ ChannelOf[a.e] \in late'
  <2>1. a.e \in Parked(q') \/ ChannelOf[a.e] \in late
    <3>1. CASE a \in acks
      <4>1. a.e \in Parked(q) \/ ChannelOf[a.e] \in late BY <1>0, <1>7, <3>1
      <4>2. ~\E b \in acks : b.e = a.e /\ b.kind # "success" BY <1>7, <1>8, <3>1
      <4> QED BY <1>1, <4>1, <4>2
    <3>2. CASE a \notin acks BY <1>4, <1>7, <3>2
    <3> QED BY <3>1, <3>2
  <2>2. ~Healed(ChannelOf[a.e]) BY DEF Healed
  <2> QED BY <1>1, <2>1, <2>2
<1> QED BY <1>1, <1>5, <1>6, <1>7 DEF OnTime, Asked, Parked, Withheld

\* Turns that are only signalled run on.
LEMMA SignalsOnTime ==
    ASSUME OnlySignals, NEW s \in Slots
    PROVE  RunsOn(s)
BY DEF OnlySignals, RunsOn, Asked

\* Every step keeps the requests to steer out of the way or their channel late.
LEMMA OnTimeStep ==
    ASSUME HarnessInv, [Next]_vars
    PROVE  OnTime'
<1>0. /\ PoolInv /\ Types /\ Homes /\ next \in 1..(NumEvents + 1)
      /\ QueueOK(q, next) /\ q \in QueueState /\ acks \subseteq Ack /\ idle \subseteq Slots
      /\ tasks \in [Slots -> TaskState]
  BY DEF HarnessInv, PoolInv, Types, Homes, QueueOK, Requests
<1>3. CASE Exit
  <2>1. /\ tasks' = [s \in Slots |-> NoTask] /\ steered' = {} /\ acks' = {} /\ late' = {}
        /\ q' = EmptyQueue
    BY <1>3 DEF Exit
  <2>2. q'.overdue = {} BY <1>0, <2>1, EmptyQueueOK
  <2>3. \A s \in Slots : Asked(tasks'[s]) = {}
    BY <2>1, NoTaskFields DEF Asked
  <2> QED BY <2>1, <2>2, <2>3 DEF OnTime, Asked
<1>4. ASSUME ~Exit, OnlySignals, steered' = steered, acks' \subseteq acks PROVE OnTime'
  BY <1>4, SignalsOnTime, OnTimeKept
<1>5. ASSUME ~Exit, tasks' = tasks, steered' = steered, acks' = acks PROVE OnTime'
  BY <1>0, <1>4, <1>5, SameTasks
<1>6. CASE \E s \in Slots : Task(s) /\ ~RespawnDone(s)
  <2>1. PICK s \in Slots : Task(s) /\ ~RespawnDone(s) BY <1>6
  <2>2. /\ RunsOn(s) /\ steered' \subseteq steered \cup Asked(tasks[s])
        /\ \A a \in acks' : a \in acks \/ a.kind # "success" \/ a.e \in Asked(tasks[s])
    BY <1>0, <2>1, TasksOnTime DEF Task
  <2>3. TurnStep(s) BY <1>0, <2>1, TurnSteps DEF Task
  <2>4. \A r \in Slots : RunsOn(r)
    BY <2>2, <2>3 DEF TurnStep, RunsOn
  <2>5. CASE ~(\E a \in acks : HandleSteerAck(a)) /\ ~Exit
    BY <2>2, <2>4, <2>5, OnTimeKept
  <2>6. ASSUME NEW a \in acks, HandleSteerAck(a) PROVE OnTime'
    <3>1. OnlySignals /\ steered' = steered /\ acks' \subseteq acks BY <1>0, <2>6, AckStep
    <3> QED BY <1>3, <1>4, <3>1
  <2> QED BY <1>3, <2>5, <2>6
<1>7. CASE RelayEvent
  <2>1. /\ next \in 1..NumEvents /\ next \in Events /\ SameTurns
        /\ steered' = steered /\ acks' = acks /\ late' = late
        /\ \/ OnlySignals
           \/ /\ q' = mark_native_steer_pending(push(q, next), next)
              /\ \E s \in Slots :
                   /\ tasks[s].ch = ChannelOf[next]
                   /\ tasks'[s].box = next /\ tasks'[s].sent = tasks[s].sent
                   /\ \A r \in Slots \ {s} : tasks'[r] = tasks[r]
    BY <1>0, <1>7, RelayStep
  <2>2. CASE OnlySignals BY <1>3, <1>4, <2>1, <2>2
  <2>3. CASE /\ q' = mark_native_steer_pending(push(q, next), next)
             /\ \E s \in Slots :
                   /\ tasks[s].ch = ChannelOf[next]
                   /\ tasks'[s].box = next /\ tasks'[s].sent = tasks[s].sent
                   /\ \A r \in Slots \ {s} : tasks'[r] = tasks[r]
    <3>1. PICK s \in Slots : /\ tasks[s].ch = ChannelOf[next]
                             /\ tasks'[s].box = next /\ tasks'[s].sent = tasks[s].sent
                             /\ \A r \in Slots \ {s} : tasks'[r] = tasks[r]
      BY <2>3
    <3>2. pc = "select" /\ next' = next + 1 BY <1>7 DEF RelayEvent
    <3>3. ~Exit BY <3>2 DEF Exit
    <3>4. ~\E a \in acks : HandleSteerAck(a)
      <4>1. next + 1 # next BY <2>1, HarnessAssumption
      <4> QED BY <3>2, <4>1 DEF HandleSteerAck
    <3>5. /\ late' \subseteq Channels /\ q'.overdue \subseteq late' /\ q.returned \subseteq q'.returned
          /\ \A e \in Parked(q) :
               e \in Parked(q') \/ (e \in q'.returned /\ ChannelOf[e] \in late)
      BY <3>3, <3>4, QueueOnTime
    <3>6. next \in Parked(q')
      BY <1>0, <2>1, <2>3, SteerQueue DEF Withheld, Parked
    <3>7. ASSUME NEW r \in Slots, NEW e \in Asked(tasks'[r])
          PROVE  \/ e \in Asked(tasks[r]) /\ tasks'[r].ch = tasks[r].ch
                 \/ e = next /\ tasks'[r].ch = ChannelOf[next]
      <4>1. tasks'[r].ch = tasks[r].ch BY <2>1 DEF SameTurns
      <4> QED BY <3>1, <3>7, <4>1 DEF Asked
    <3>8. \A r \in Slots : \A e \in Asked(tasks[r]) :
            /\ ChannelOf[e] = tasks[r].ch
            /\ e \in Parked(q') \cup q'.returned
            /\ e \in Parked(q') \/ ChannelOf[e] \in late
      BY <3>5 DEF HarnessInv, OnTime
    <3>9. steered' \subseteq Parked(q') \cup q'.returned
      BY <2>1, <3>5 DEF HarnessInv, OnTime
    <3>10. \A r \in Slots : \A e \in Asked(tasks'[r]) :
            /\ ChannelOf[e] = tasks'[r].ch
            /\ e \in Parked(q') \cup q'.returned
            /\ e \in Parked(q') \/ ChannelOf[e] \in late'
      BY <2>1, <3>6, <3>7, <3>8
    <3>11. \A a \in acks' : a.kind = "success" => a.e \in Parked(q') \/ ChannelOf[a.e] \in late'
      BY <2>1, <3>5 DEF HarnessInv, OnTime
    <3> QED BY <3>5, <3>9, <3>10, <3>11 DEF OnTime, Asked, Parked, Withheld
  <2> QED BY <2>1, <2>2, <2>3
<1>8. CASE DispatchNext \/ HeartbeatTick
  <2>1. steered' = steered /\ acks' = acks BY <1>8 DEF DispatchNext, HeartbeatTick
  <2>2. CASE tasks' = tasks BY <1>3, <1>5, <2>1, <2>2
  <2>3. CASE \E s \in idle :
               /\ \A r \in Slots \ {s} : tasks'[r] = tasks[r]
               /\ tasks'[s].box = NoEvent /\ tasks'[s].sent = NoEvent
    <3>1. PICK s \in idle :
               /\ \A r \in Slots \ {s} : tasks'[r] = tasks[r]
               /\ tasks'[s].box = NoEvent /\ tasks'[s].sent = NoEvent
      BY <2>3
    <3>2. Asked(tasks'[s]) = {} BY <3>1 DEF Asked
    <3>3. \A r \in Slots : RunsOn(r) BY <3>1, <3>2 DEF RunsOn
    <3> QED BY <1>3, <2>1, <3>3, OnTimeKept
  <2> QED BY <1>0, <1>8, <2>2, <2>3, DispatchStep, HeartbeatStep
<1>9. CASE \E s \in Slots : HandleResult(s) \/ HandlePanic(s)
  <2>1. PICK s \in Slots : HandleResult(s) \/ HandlePanic(s) BY <1>9
  <2>2. tasks' = [tasks EXCEPT ![s] = NoTask] /\ steered' = steered /\ acks' = acks
    BY <1>0, <2>1, ReturnStep
  <2>3. tasks'[s] = NoTask /\ \A r \in Slots \ {s} : tasks'[r] = tasks[r] BY <1>0, <2>2
  <2>4. Asked(tasks'[s]) = {} BY <2>3, NoTaskFields DEF Asked
  <2>5. \A r \in Slots : RunsOn(r) BY <2>3, <2>4 DEF RunsOn
  <2> QED BY <1>3, <2>2, <2>5, OnTimeKept
<1>10. CASE \E a \in acks : HandleSteerAck(a)
  <2>1. OnlySignals /\ steered' = steered /\ acks' \subseteq acks BY <1>0, <1>10, AckStep
  <2> QED BY <1>3, <1>4, <2>1
<1>11. CASE \E c \in Channels, ctl \in {"cancel", "rotate", "switch"} : OwnerCommand(c, ctl)
  <2>1. PICK c \in Channels, ctl \in {"cancel", "rotate", "switch"} : OwnerCommand(c, ctl) BY <1>11
  <2>2. OnlySignals
    <3>1. CASE tasks' = tasks BY <1>0, <3>1, SameTasks
    <3>2. CASE \E s \in TasksOf(c) : tasks' = [tasks EXCEPT ![s].ctl = ctl]
      BY <1>0, <3>2, SignalOne DEF TasksOf, Signals
    <3> QED BY <2>1, <3>1, <3>2 DEF OwnerCommand
  <2>3. steered' = steered /\ acks' = acks BY <2>1 DEF OwnerCommand
  <2> QED BY <1>3, <1>4, <2>2, <2>3
<1>12. CASE \/ CollectRespawns \/ Maintain \/ StartWake \/ WakeDone \/ IdleSleep \/ Shutdown
            \/ AtRest \/ WakeRetryDue \/ UNCHANGED vars
  BY <1>3, <1>5, <1>12 DEF CollectRespawns, Maintain, StartWake, WakeDone, IdleSleep, Shutdown,
                           AtRest, WakeRetryDue, vars, poolVars
<1>13. CASE \E c \in Channels : MemberRemoved(c) \/ MemberAdded(c) \/ RetryElapses(c) \/ DeadlinePasses(c)
  BY <1>3, <1>5, <1>13 DEF MemberRemoved, MemberAdded, RetryElapses, DeadlinePasses, poolVars
<1>14. CASE \E s \in Slots : RespawnDone(s) \/ CircuitCools(s)
  BY <1>3, <1>5, <1>14 DEF RespawnDone, CircuitCools, poolVars
<1> QED BY <1>3, <1>6, <1>7, <1>8, <1>9, <1>10, <1>11, <1>12, <1>13, <1>14
        DEF Next, MainLoop, Time, Task

\* A step that throttles no channel and keeps the work of those that are.
LEMMA ThrottledKept ==
    ASSUME Throttled, life' = life, q'.inFlight \subseteq q.inFlight,
           \A c \in late \ late' : c \notin q'.inFlight /\ q'.retryAfter[c] # "pending",
           \A c \in Channels \ late :
             /\ c \in q.inFlight => q'.cancelled[c] = q.cancelled[c]
             /\ q'.retryAfter[c] = "pending" =>
                  /\ q.retryAfter[c] = "pending"
                  /\ q.queues[c] # <<>> => q'.queues[c] # <<>>
                  /\ q.cancelled[c] = <<>> => q'.cancelled[c] = <<>>
    PROVE  Throttled'
BY DEF Throttled

\* Every step leaves a throttled channel with work that waits for its backoff.
LEMMA ThrottledStep ==
    ASSUME HarnessInv, [Next]_vars
    PROVE  Throttled'
<1>0. /\ PoolInv /\ Types /\ Asleep /\ Homes /\ Throttled /\ next \in 1..(NumEvents + 1)
      /\ QueueOK(q, next) /\ q \in QueueState /\ acks \subseteq Ack
      /\ q.inFlight \subseteq Channels
  BY DEF HarnessInv, PoolInv, Types, Homes, QueueOK, QueueState, Requests
<1>1. \A c \in late \ late' : c \notin q'.inFlight /\ q'.retryAfter[c] # "pending"
  <2>1. CASE Exit
    <3>1. late \subseteq Channels BY DEF HarnessInv, OnTime
    <3>2. q' = EmptyQueue BY <2>1 DEF Exit
    <3> QED BY <1>0, <3>1, <3>2, EmptyQueueOK
  <2>2. CASE ~Exit BY <2>2, QueueOnTime DEF Healed
  <2> QED BY <2>1, <2>2
<1>2. /\ q.overdue \subseteq late
      /\ \A a \in acks : a.kind = "success" => a.e \in Parked(q) \/ ChannelOf[a.e] \in late
  BY DEF HarnessInv, OnTime
<1>3. \A c \in Channels \ late :
        /\ c \in q.inFlight => q.cancelled[c] = <<>> /\ q.retryAfter[c] # "pending"
        /\ q.retryAfter[c] = "pending" =>
             life = "ready" /\ q.queues[c] # <<>> /\ q.cancelled[c] = <<>>
  BY <1>0 DEF Throttled
<1>4. ASSUME q' = q, life' = life PROVE Throttled'
  BY <1>0, <1>1, <1>4, ThrottledKept
<1>5. CASE Exit
  <2>1. q' = EmptyQueue BY <1>5 DEF Exit
  <2>2. q'.inFlight = {} /\ \A c \in Channels : q'.retryAfter[c] = "none"
    BY <1>0, <2>1, EmptyQueueOK
  <2> QED BY <2>2 DEF Throttled
<1>6. CASE IdleSleep
  <2>1. q.inFlight = {} /\ ~has_undispatched_work(q) /\ q' = q /\ late' = late
    BY <1>6 DEF IdleSleep
  <2>2. ASSUME NEW c \in Channels PROVE q.queues[c] = <<>>
    <3>1. q.queues[c] \o q.cancelled[c] \o q.withheld[c] = <<>>
      BY <2>1 DEF has_undispatched_work
    <3>2. q.queues[c] \in Seq(Events) /\ q.cancelled[c] \in Seq(Events) /\ q.withheld[c] \in Seq(Events)
      BY <1>0 DEF QueueState
    <3>3. q.queues[c] \o q.cancelled[c] \in Seq(Events) BY <3>2, ElemsOfConcat
    <3>4. /\ Elems(q.queues[c] \o q.cancelled[c] \o q.withheld[c])
               = Elems(q.queues[c] \o q.cancelled[c]) \cup Elems(q.withheld[c])
          /\ Elems(q.queues[c] \o q.cancelled[c]) = Elems(q.queues[c]) \cup Elems(q.cancelled[c])
      BY <3>2, <3>3, ElemsOfConcat
    <3>5. Elems(q.queues[c]) = {} BY <3>1, <3>4, ElemsOfNone
    <3> QED BY <3>2, <3>5, ElemsIn
  <2>3. \A c \in Channels \ late : q.retryAfter[c] # "pending" BY <1>3, <2>2
  <2> QED BY <2>1, <2>3 DEF Throttled
<1>7. CASE StartWake \/ WakeDone \/ WakeRetryDue
  <2>1. life # "ready" BY <1>7 DEF StartWake, WakeDone, WakeRetryDue
  <2>2. \A c \in Channels \ late : q.retryAfter[c] # "pending" BY <1>3, <2>1
  <2>3. q.inFlight = {}
    <3>1. \A s \in Slots : ~TaskOn(s) BY <1>0, <2>1 DEF Asleep
    <3> QED BY <1>0, <3>1 DEF HarnessInv, TurnsMatchMarks, InFlightBacked, TasksOf
  <2>4. q' = q \/ q' = expire(q) BY <1>7 DEF StartWake, WakeDone, WakeRetryDue
  <2>5. q'.inFlight \subseteq q.inFlight /\ q'.retryAfter = q.retryAfter
    BY <1>0, <2>4, ExpireOnTime
  <2>6. late' = late BY <1>7 DEF StartWake, WakeDone, WakeRetryDue
  <2> QED BY <2>2, <2>3, <2>5, <2>6 DEF Throttled
<1>8. CASE RelayEvent
  <2>0. life' = life BY <1>8 DEF RelayEvent
  <2> DEFINE d == ChannelOf[next]
  <2>1. /\ next \in 1..NumEvents /\ d \in Channels
        /\ \/ q' = push(q, next)
           \/ d \in q.inFlight /\ q' = mark_native_steer_pending(push(q, next), next)
    BY <1>0, <1>8, RelayStep
  <2>2. CASE q' = push(q, next)
    <3>1. /\ q'.inFlight = q.inFlight /\ q'.cancelled = q.cancelled
          /\ q'.retryAfter = q.retryAfter /\ Elsewhere(q, q', d)
          /\ q.queues[d] # <<>> => q'.queues[d] # <<>>
      BY <1>0, <2>1, <2>2, PushQueue
    <3>2. \A c \in Channels : q.queues[c] # <<>> => q'.queues[c] # <<>> BY <3>1 DEF Elsewhere
    <3> QED BY <1>0, <1>1, <2>0, <3>1, <3>2, ThrottledKept
  <2>3. CASE d \in q.inFlight /\ q' = mark_native_steer_pending(push(q, next), next)
    <3>1. /\ q'.inFlight = q.inFlight /\ q'.cancelled = q.cancelled
          /\ q'.retryAfter = q.retryAfter /\ Elsewhere(q, q', d)
      BY <1>0, <2>1, <2>3, SteerQueue
    <3>2. \A c \in Channels \ late : q'.retryAfter[c] = "pending" => c # d BY <1>3, <2>3, <3>1
    <3>3. \A c \in Channels : c # d => q'.queues[c] = q.queues[c] BY <3>1 DEF Elsewhere
    <3> QED BY <1>0, <1>1, <2>0, <3>1, <3>2, <3>3, ThrottledKept
  <2> QED BY <2>1, <2>2, <2>3
<1>9. LET u == expire(q) IN
      /\ QueueOK(u, next) /\ u \in QueueState
      /\ u.inFlight \subseteq q.inFlight /\ u.cancelled = q.cancelled /\ u.retryAfter = q.retryAfter
      /\ \A c \in Channels \ late :
           u.queues[c] = q.queues[c] /\ (c \in u.inFlight <=> c \in q.inFlight)
  <2>1. Keeps(q, expire(q), {}, next) BY <1>0, ExpireKeeps
  <2> QED BY <1>0, <1>2, <2>1, ExpireOnTime DEF Keeps, QueueOK
<1>10. CASE DispatchNext
  <2>0. life' = life /\ late' = late BY <1>10 DEF DispatchNext
  <2> DEFINE u == expire(q)
  <2>1. /\ QueueOK(u, next) /\ u \in QueueState
        /\ u.inFlight \subseteq q.inFlight /\ u.cancelled = q.cancelled /\ u.retryAfter = q.retryAfter
        /\ \A c \in Channels \ late :
             u.queues[c] = q.queues[c] /\ (c \in u.inFlight <=> c \in q.inFlight)
    BY <1>9
  <2>2. CASE q' = u BY <1>0, <1>1, <2>0, <2>1, <2>2, ThrottledKept
  <2>3. CASE \E c \in FlushChoices(u) :
                   q' = mark_complete(requeue_preserve_timestamps(
                             flush_next(u, c), c, FlushBatch(u, c)), c)
    <3>1. PICK d \in FlushChoices(u) :
                   q' = mark_complete(requeue_preserve_timestamps(
                             flush_next(u, d), d, FlushBatch(u, d)), d)
      BY <2>3
    <3>2. /\ d \in Channels /\ d \notin u.inFlight
          /\ d \in ReadyChannels(u) \cup CancelledChannels(u)
      BY ChoiceIsReady
    <3> HIDE DEF u
    <3>3. /\ q'.inFlight = u.inFlight /\ q'.cancelled[d] = <<>> /\ q'.queues[d] # <<>>
          /\ Elsewhere(u, q', d)
          /\ \A c \in Channels : q'.retryAfter[c] = "pending" <=> u.retryAfter[c] = "pending"
      BY <1>0, <2>1, <3>1, <3>2, DeclineKeeps
    <3>4. \A c \in Channels \ late : /\ c \in q.inFlight => q'.cancelled[c] = q.cancelled[c]
                                     /\ q.queues[c] # <<>> => q'.queues[c] # <<>>
                                     /\ q.cancelled[c] = <<>> => q'.cancelled[c] = <<>>
      BY <2>1, <3>2, <3>3 DEF Elsewhere
    <3> QED BY <1>0, <1>1, <2>0, <2>1, <3>3, <3>4, ThrottledKept
  <2>4. CASE \E c \in FlushChoices(u) : q' = flush_next(u, c)
    <3>1. PICK d \in FlushChoices(u) : q' = flush_next(u, d) BY <2>4
    <3>2. /\ d \in Channels /\ d \notin u.inFlight
          /\ d \in ReadyChannels(u) \cup CancelledChannels(u)
      BY ChoiceIsReady
    <3> HIDE DEF u
    <3>3. /\ q'.inFlight = u.inFlight \cup {d} /\ q'.cancelled[d] = <<>>
          /\ q'.retryAfter = u.retryAfter /\ Elsewhere(u, q', d)
      BY <2>1, <3>1, <3>2, FlushFields
    <3>4. d \notin late => u.retryAfter[d] # "pending"
      BY <1>3, <2>1, <3>2 DEF ReadyChannels, CancelledChannels
    <3>5. ASSUME NEW c \in Channels \ late, c # d
          PROVE  /\ q'.queues[c] = q.queues[c] /\ q'.cancelled[c] = q.cancelled[c]
                 /\ q'.retryAfter[c] = q.retryAfter[c] /\ (c \in q'.inFlight <=> c \in q.inFlight)
      BY <2>1, <3>3, <3>5 DEF Elsewhere
    <3> SUFFICES ASSUME NEW c \in Channels \ late
                 PROVE  /\ c \in q'.inFlight => q'.cancelled[c] = <<>> /\ q'.retryAfter[c] # "pending"
                        /\ q'.retryAfter[c] = "pending" =>
                             life' = "ready" /\ q'.queues[c] # <<>> /\ q'.cancelled[c] = <<>>
      BY <2>0 DEF Throttled
    <3>6. CASE c = d BY <3>3, <3>4, <3>6
    <3>7. CASE c # d BY <1>3, <2>0, <3>5, <3>7
    <3> QED BY <3>6, <3>7
  <2> QED BY <1>10, <1>0, <2>2, <2>3, <2>4, DispatchStep
<1>11. CASE HeartbeatTick
  <2>1. q' = expire(q) /\ life' = life BY <1>11 DEF HeartbeatTick
  <2> QED BY <1>0, <1>1, <1>9, <2>1, ThrottledKept
<1>12. CASE Maintain
  <2>1. q' = expire(compact_expired_state(q)) /\ life' = life BY <1>12 DEF Maintain
  <2>2. q'.inFlight = q.inFlight \ q.overdue /\ q'.cancelled = q.cancelled
    BY <1>0, <2>1, MaintainQueue
  <2>3. \A c \in Channels : q'.retryAfter[c] = "pending" <=> q.retryAfter[c] = "pending"
    BY <1>0, <2>1, MaintainQueue
  <2>4. \A c \in Channels \ late : q'.queues[c] = q.queues[c]
    BY <1>0, <1>2, <2>1, MaintainQueue
  <2> QED BY <1>0, <1>1, <2>1, <2>2, <2>3, <2>4, ThrottledKept
<1>13. CASE \E s \in Slots : HandleResult(s) \/ HandlePanic(s)
  <2>1. PICK s \in Slots : HandleResult(s) \/ HandlePanic(s) BY <1>13
  <2>2. /\ life' = life /\ TaskOn(s) BY <1>0, <2>1, ReturnStep
  <2>3. life = "ready" BY <1>0, <2>2 DEF Asleep
  <2>4. CASE tasks[s].ch = Heartbeat
    <3>1. q' = q BY <1>0, <2>1, <2>4, ReturnQueue
    <3> QED BY <1>4, <2>2, <3>1
  <2>5. CASE tasks[s].ch # Heartbeat
    <3> DEFINE d == tasks[s].ch
    <3>1. /\ d \in Channels
          /\ q'.inFlight = q.inFlight \ {d} /\ Elsewhere(q, q', d)
          /\ \A c \in Channels \ {d} :
               q'.retryAfter[c] = "pending" <=> q.retryAfter[c] = "pending"
          /\ q'.retryAfter[d] = "pending" =>
               \/ q.retryAfter[d] = "pending"
               \/ q'.queues[d] # <<>> /\ q'.cancelled[d] = q.cancelled[d]
      BY <1>0, <2>1, <2>5, ReturnQueue
    <3>2. d \notin late => d \in q.inFlight
      BY <2>2, <2>5 DEF HarnessInv, TurnsMatchMarks, OneTurnPerChannel
    <3>3. d \notin late => q.cancelled[d] = <<>> /\ q.retryAfter[d] # "pending" BY <1>3, <3>1, <3>2
    <3> SUFFICES ASSUME NEW c \in Channels \ late
                 PROVE  /\ c \in q'.inFlight => q'.cancelled[c] = <<>> /\ q'.retryAfter[c] # "pending"
                        /\ q'.retryAfter[c] = "pending" =>
                             life' = "ready" /\ q'.queues[c] # <<>> /\ q'.cancelled[c] = <<>>
      BY <1>1 DEF Throttled
    <3>4. CASE c = d BY <2>2, <2>3, <3>1, <3>3, <3>4
    <3>5. CASE c # d
      <4>1. q'.queues[c] = q.queues[c] /\ q'.cancelled[c] = q.cancelled[c]
        BY <3>1, <3>5 DEF Elsewhere
      <4> QED BY <1>3, <2>2, <3>1, <3>5, <4>1
    <3> QED BY <3>4, <3>5
  <2> QED BY <2>4, <2>5
<1>14. CASE \E a \in acks : HandleSteerAck(a)
  <2>1. PICK a \in acks : HandleSteerAck(a) BY <1>14
  <2> DEFINE d == ChannelOf[a.e]
  <2>2. /\ a.e \in Events /\ d \in Channels /\ life' = life
        /\ \/ a.kind = "success" /\ q' = remove_event(extend_in_flight_deadline(q, d), a.e)
           \/ a.kind # "success" /\ q' = release_native_steer(q, a.e)
    BY <1>0, <2>1, AckStep
  <2>3. CASE a.kind = "success" /\ q' = remove_event(extend_in_flight_deadline(q, d), a.e)
    <3>1. d \notin late => a.e \in Parked(q) BY <1>2, <2>3
    <3>2. d \notin late => a.e \notin Elems(q.queues[d])
      BY <1>0, <2>2, <3>1 DEF QueueOK, ChannelOK, Waiting, Parked, Withheld
    <3>3. /\ q'.inFlight = q.inFlight /\ q'.cancelled = q.cancelled
          /\ q'.retryAfter = q.retryAfter /\ Elsewhere(q, q', d)
          /\ d \notin late => q'.queues[d] = q.queues[d]
      BY <1>0, <2>2, <2>3, <3>2, AcceptQueue
    <3>4. \A c \in Channels \ late : q'.queues[c] = q.queues[c] BY <3>3 DEF Elsewhere
    <3> QED BY <1>0, <1>1, <2>2, <3>3, <3>4, ThrottledKept
  <2>4. CASE q' = release_native_steer(q, a.e)
    <3>1. /\ q'.inFlight = q.inFlight /\ q'.cancelled = q.cancelled
          /\ q'.retryAfter = q.retryAfter /\ Elsewhere(q, q', d)
          /\ q.queues[d] # <<>> => q'.queues[d] # <<>>
      BY <1>0, <2>2, <2>4, ReleaseQueue
    <3>2. \A c \in Channels : q.queues[c] # <<>> => q'.queues[c] # <<>> BY <3>1 DEF Elsewhere
    <3> QED BY <1>0, <1>1, <2>2, <3>1, <3>2, ThrottledKept
  <2> QED BY <2>2, <2>3, <2>4
<1>15. CASE \E c \in Channels : MemberRemoved(c)
  <2>1. PICK d \in Channels : q' = drain_channel(q, d) BY <1>15 DEF MemberRemoved
  <2>2. life' = life BY <1>15 DEF MemberRemoved
  <2>3. /\ q'.inFlight = q.inFlight /\ Elsewhere(q, q', d)
        /\ q'.cancelled[d] = <<>> /\ q'.retryAfter[d] = "none"
        /\ \A c \in Channels \ {d} : q'.retryAfter[c] = q.retryAfter[c]
    BY <1>0, <2>1, DrainFields
  <2>4. \A c \in Channels \ late :
          /\ c \in q.inFlight => q'.cancelled[c] = q.cancelled[c]
          /\ q'.retryAfter[c] = "pending" =>
               /\ q.retryAfter[c] = "pending"
               /\ q'.queues[c] = q.queues[c] /\ q'.cancelled[c] = q.cancelled[c]
    BY <1>3, <2>3 DEF Elsewhere
  <2> QED BY <1>0, <1>1, <2>2, <2>3, <2>4, ThrottledKept
<1>16. CASE \E c \in Channels : RetryElapses(c) \/ DeadlinePasses(c)
  <2>1. life' = life BY <1>16 DEF RetryElapses, DeadlinePasses
  <2>2. /\ q'.inFlight = q.inFlight /\ q'.queues = q.queues /\ q'.cancelled = q.cancelled
        /\ \A c \in Channels : q'.retryAfter[c] = "pending" => q.retryAfter[c] = "pending"
    BY <1>0, <1>16, TimeQueue
  <2> QED BY <1>0, <1>1, <2>1, <2>2, ThrottledKept
<1>17. CASE \E s \in Slots : Task(s)
  <2>1. PICK s \in Slots : Task(s) BY <1>17
  <2>2. CASE RespawnDone(s) BY <1>4, <2>2 DEF RespawnDone
  <2>3. CASE ~RespawnDone(s)
    <3>1. TurnStep(s) BY <1>0, <2>1, <2>3, TurnSteps DEF Task
    <3> QED BY <1>4, <3>1 DEF TurnStep
  <2> QED BY <2>2, <2>3
<1>18. CASE \/ CollectRespawns \/ Shutdown \/ AtRest \/ UNCHANGED vars
            \/ \E s \in Slots : CircuitCools(s)
  BY <1>4, <1>18 DEF CollectRespawns, Shutdown, AtRest, vars, CircuitCools
<1>19. CASE \E c \in Channels, ctl \in {"cancel", "rotate", "switch"} : OwnerCommand(c, ctl)
  BY <1>4, <1>19 DEF OwnerCommand
<1>20. CASE \E c \in Channels : MemberAdded(c)
  BY <1>4, <1>20 DEF MemberAdded
<1> QED BY <1>5, <1>6, <1>7, <1>8, <1>10, <1>11, <1>12, <1>13, <1>14, <1>15, <1>16, <1>17,
           <1>18, <1>19, <1>20
        DEF Next, MainLoop, Time

-----------------------------------------------------------------------------
(* The invariant *)

\* The harness starts in the invariant.
LEMMA HarnessStarts == Init => HarnessInv
<1> SUFFICES ASSUME Init PROVE HarnessInv
  OBVIOUS
<1>0. /\ config \in Configs /\ pc = "select" /\ next = 1 /\ q = EmptyQueue
      /\ idle \subseteq Slots /\ tasks = [s \in Slots |-> NoTask]
      /\ sessions = [s \in Slots |-> {}]
      /\ circuit = [s \in Slots |-> [crashes |-> 0, open |-> "closed"]]
      /\ respawning = {} /\ respawned = [s \in Slots |-> "none"]
      /\ acks = {} /\ removed = {} /\ steered = {} /\ late = {} /\ faults = 0 /\ commands = 0
      /\ life \in {"listening", "ready"} /\ (life # "ready" => idle = {})
  BY HarnessAssumption DEF Init
<1>1. next \in 1..(NumEvents + 1) BY <1>0, HarnessAssumption
<1>2. \A s \in Slots : tasks[s] = NoTask /\ ~TaskOn(s)
  BY <1>0, NoTaskFields DEF TaskOn
<1>3. Types
  <2>1. [crashes |-> 0, open |-> "closed"] \in Circuit /\ 0 < CrashThreshold
    BY HarnessAssumption DEF Circuit
  <2>2. config.maxFaults \in Nat /\ config.maxCommands \in Nat
    BY <1>0, HarnessAssumption
  <2>3. 0 \in 0..config.maxFaults /\ 0 \in 0..config.maxCommands
    BY <2>2
  <2>4. /\ circuit \in [Slots -> Circuit]
        /\ \A s \in Slots : circuit[s].open = "closed" => circuit[s].crashes < CrashThreshold
    BY <1>0, <2>1
  <2>5. tasks \in [Slots -> TaskState] BY <1>0, NoTaskFields
  <2>6. \A s \in Slots : tasks[s].ch = Heartbeat /\ tasks[s].events = <<>>
                         /\ tasks[s].cancelled = <<>> /\ tasks[s].rx = "closed"
    BY <1>2, NoTaskFields
  <2> QED BY <1>0, <1>1, <1>2, <2>3, <2>4, <2>5, <2>6 DEF Types
<1>4. SlotExclusive /\ SessionsStripped /\ Asleep
  BY <1>0, <1>2 DEF SlotExclusive, SessionsStripped, Asleep
<1>5. /\ QueueOK(q, next) /\ Held(q) = {} /\ q.shed = {} /\ q.inFlight = {} /\ q.overdue = {}
      /\ \A c \in Channels : /\ q.queues[c] = <<>> /\ q.cancelled[c] = <<>>
                             /\ q.withheld[c] = <<>> /\ q.retryAfter[c] = "none"
  BY <1>0, <1>1, EmptyQueueOK
<1>6. Homes
  <2>1. \A s \in Slots : /\ tasks[s].events = <<>> /\ tasks[s].cancelled = <<>>
    BY <1>2, NoTaskFields
  <2>2. \A s \in Slots : Batch(tasks[s]) = {} BY <2>1, ElemsOfNone DEF Batch
  <2>3. \A s \in Slots : BatchOK(tasks[s], tasks[s].ch, next)
    BY <2>1, <2>2, ElemsOfNone DEF BatchOK
  <2>4. 1..(next - 1) = {} BY <1>0
  <2> QED BY <1>5, <2>2, <2>3, <2>4 DEF Homes
<1>7. \A s \in Slots : /\ tasks[s].box = NoEvent /\ tasks[s].sent = NoEvent
                       /\ tasks[s].phase = "none"
  BY <1>2, NoTaskFields
<1>8. Requests BY <1>0, <1>7 DEF Requests
<1>9. OnTime
  <2>1. \A s \in Slots : Asked(tasks[s]) = {} BY <1>7 DEF Asked
  <2> QED BY <1>0, <1>5, <2>1 DEF OnTime
<1>10. Unseen /\ Throttled BY <1>5 DEF Unseen, Throttled
<1>11. TurnsMatchMarks BY <1>2, <1>5 DEF TurnsMatchMarks, OneTurnPerChannel, InFlightBacked
<1> QED BY <1>3, <1>4, <1>6, <1>8, <1>9, <1>10, <1>11 DEF HarnessInv, PoolInv

\* The invariant holds in every state the harness reaches: whatever the number
\* of channels, events, agents, failures and commands, and the queue's limits.
THEOREM HarnessInvariant == Spec => []HarnessInv
<1>1. Init => HarnessInv BY HarnessStarts
<1>2. HarnessInv /\ [Next]_vars => HarnessInv'
  <2> SUFFICES ASSUME HarnessInv, [Next]_vars PROVE HarnessInv'
    OBVIOUS
  <2>1. PoolInv /\ Homes /\ Requests /\ QueueOK(q, next) /\ acks \subseteq Ack
    BY DEF HarnessInv, Homes, Requests
  <2>2. PoolInv' BY <2>1, PoolStep
  <2>3. Homes' BY <2>1, HomesStep
  <2>4. Requests' BY <2>1, RequestsStep
  <2>5. Unseen' /\ OnTime' /\ Throttled' /\ TurnsMatchMarks'
    BY UnseenStep, OnTimeStep, ThrottledStep, MarksStep
  <2> QED BY <2>2, <2>3, <2>4, <2>5 DEF HarnessInv
<1> QED BY <1>1, <1>2, PTL DEF Spec

\* Every agent is in one place: in its slot, with a turn, or being
\* respawned, so return_agent never finds its slot taken.
THEOREM SlotsHold == Spec => []SlotExclusive
<1>1. HarnessInv => SlotExclusive BY DEF HarnessInv, PoolInv
<1> QED BY <1>1, HarnessInvariant, PTL

\* No idle agent holds a session of a channel the harness was removed from,
\* wherever the agent was when the removal came.
THEOREM SessionsHold == Spec => []SessionsStripped
<1>1. HarnessInv => SessionsStripped BY DEF HarnessInv, PoolInv
<1> QED BY <1>1, HarnessInvariant, PTL

\* The marks of the queue and the turns of the pool agree: a channel no turn of
\* which outlived its deadline has one turn at a time and is in flight while it
\* runs, and no channel is left in flight without a turn.
THEOREM TurnsHold == Spec => []TurnsMatchMarks
<1>1. HarnessInv => TurnsMatchMarks BY DEF HarnessInv
<1> QED BY <1>1, HarnessInvariant, PTL

\* A pool that sleeps or has not woken leaves no event that cannot wake it.
THEOREM SleepHolds == Spec => []SleepStrandsNothing
<1>1. HarnessInv => SleepStrandsNothing
  <2> SUFFICES ASSUME HarnessInv, life # "ready", NEW c \in Channels,
                      q.queues[c] \o q.cancelled[c] \o q.withheld[c] # <<>>,
                      c \notin late \/ q.retryAfter[c] # "pending"
               PROVE  c \in ReadyChannels(q)
    BY DEF SleepStrandsNothing
  <2>1. q \in QueueState BY DEF HarnessInv, Homes, QueueOK
  <2>2. q.queues[c] \in Seq(Events) /\ q.cancelled[c] = <<>> /\ q.withheld[c] = <<>>
    BY <2>1 DEF HarnessInv, Unseen, QueueState
  <2>3. q.queues[c] # <<>> BY <2>2
  <2>4. c \notin q.inFlight
    <3>1. \A s \in Slots : ~TaskOn(s) BY DEF HarnessInv, PoolInv, Asleep
    <3> QED BY <3>1 DEF HarnessInv, TurnsMatchMarks, InFlightBacked, TasksOf
  <2>5. q.retryAfter[c] # "pending" BY DEF HarnessInv, Throttled
  <2> QED BY <2>3, <2>4, <2>5 DEF ReadyChannels
<1> QED BY <1>1, HarnessInvariant, PTL

\* The variables have their types, and events sit only in tables of their
\* channel, after they were delivered.
THEOREM TypeCorrect == Spec => []TypeOK
<1>1. HarnessInv => TypeOK
  <2> SUFFICES ASSUME HarnessInv PROVE TypeOK
    OBVIOUS
  <2>0. /\ Types /\ Homes /\ Requests /\ QueueOK(q, next) /\ q \in QueueState
        /\ next \in 1..(NumEvents + 1)
    BY DEF HarnessInv, PoolInv, Homes, QueueOK, Types
  <2>1. DOMAIN q = DOMAIN EmptyQueue
    <3>1. EmptyQueue \in QueueState BY <2>0, EmptyQueueOK DEF QueueOK
    <3> QED BY <2>0, <3>1 DEF QueueState
  <2>2. ASSUME NEW c \in Channels
        PROVE  /\ Elems(q.queues[c] \o q.cancelled[c] \o q.withheld[c])
                    \subseteq {e \in 1..(next - 1) : ChannelOf[e] = c}
               /\ Len(q.queues[c]) <= MaxPending
               /\ q.retryAfter[c] \in {"none", "pending", "elapsed"}
               /\ q.retryCount[c] \in 0..MaxRetries
    <3>1. q.queues[c] \in Seq(Events) /\ q.cancelled[c] \in Seq(Events) /\ q.withheld[c] \in Seq(Events)
      BY <2>0 DEF QueueState
    <3>2. q.queues[c] \o q.cancelled[c] \in Seq(Events) BY <3>1, ElemsOfConcat
    <3>3. Elems(q.queues[c] \o q.cancelled[c] \o q.withheld[c]) = Waiting(q, c)
      BY <3>1, <3>2, ElemsOfConcat DEF Waiting
    <3>4. Waiting(q, c) \subseteq Past(c, next) /\ Len(q.queues[c]) <= MaxPending
      BY <2>0 DEF QueueOK, ChannelOK
    <3>5. q.retryAfter[c] \in {"none", "pending", "elapsed"} /\ q.retryCount[c] \in 0..MaxRetries
      BY <2>0 DEF QueueState
    <3> QED BY <3>3, <3>4, <3>5 DEF Past
  <2>3. q.overdue \subseteq q.inFlight /\ q.inFlight \subseteq Channels
    BY <2>0 DEF QueueOK, QueueState
  <2>4. q.lost \cup q.shed \cup q.returned \cup steered \subseteq Events /\ late \subseteq Channels
    <3>1. 1..(next - 1) \subseteq Events BY <2>0, HarnessAssumption DEF Events
    <3>2. q.lost \subseteq Events /\ q.shed \subseteq Events /\ q.returned \subseteq Events
      BY <2>0 DEF QueueState
    <3>3. late \subseteq Channels BY DEF HarnessInv, OnTime
    <3> QED BY <2>0, <3>1, <3>2, <3>3 DEF Requests
  <2>5. ASSUME NEW s \in Slots
        PROVE  /\ tasks[s].ch \in Channels \cup {Heartbeat}
               /\ Elems(tasks[s].events \o tasks[s].cancelled) \subseteq
                    {e \in 1..(next - 1) : ChannelOf[e] = tasks[s].ch}
               /\ tasks[s].phase \in Running \cup {"none", "done", "panicked"}
               /\ tasks[s].box \in Events \cup {NoEvent} /\ tasks[s].sent \in Events \cup {NoEvent}
    <3>1. tasks[s] \in TaskState BY <2>0 DEF Types
    <3>2. tasks[s].events \in Seq(Events) /\ tasks[s].cancelled \in Seq(Events) BY <3>1 DEF TaskState
    <3>3. Elems(tasks[s].events \o tasks[s].cancelled) = Batch(tasks[s])
      BY <3>2, ElemsOfConcat DEF Batch
    <3>4. Batch(tasks[s]) \subseteq Past(tasks[s].ch, next) BY <2>0 DEF Homes, BatchOK
    <3>5. /\ tasks[s].ch \in Channels \cup {Heartbeat}
          /\ tasks[s].phase \in Running \cup {"none", "done", "panicked"}
          /\ tasks[s].box \in Events \cup {NoEvent} /\ tasks[s].sent \in Events \cup {NoEvent}
      BY <3>1 DEF TaskState
    <3> QED BY <3>3, <3>4, <3>5 DEF Past
  <2>6. /\ config \in Configs
        /\ pc \in {"select", "joins", "dispatch", "exiting", "exited"}
        /\ idle \subseteq Slots /\ respawning \subseteq Slots
        /\ respawned \in [Slots -> {"none", "ok", "failed"}]
        /\ sessions \in [Slots -> SUBSET Channels]
        /\ circuit \in [Slots -> [crashes : 0..CrashThreshold, open : {"closed", "open", "cooled"}]]
        /\ removed \subseteq Channels
        /\ life \in {"listening", "waking", "failed", "due", "ready"}
        /\ faults \in 0..config.maxFaults /\ commands \in 0..config.maxCommands
    BY <2>0 DEF Types, Circuit
  <2>7. acks \subseteq [e : Events, kind : {"success", "release", "fallback"}]
    BY <2>0 DEF Requests, Ack
  <2> QED BY <2>0, <2>1, <2>2, <2>3, <2>4, <2>5, <2>6, <2>7 DEF TypeOK
<1> QED BY <1>1, HarnessInvariant, PTL

-----------------------------------------------------------------------------
(* The homes of an event, counted *)

\* In a sequence that has no event twice, an event counts once or not at all.
LEMMA CountOnce ==
    ASSUME NEW s \in Seq(Events), Once(s), NEW e
    PROVE  Count(s, e) = IF e \in Elems(s) THEN 1 ELSE 0
<1> DEFINE S == {i \in DOMAIN s : s[i] = e}
<1>1. CASE e \in Elems(s)
  <2>1. PICK i \in DOMAIN s : s[i] = e BY <1>1 DEF Elems
  <2>2. S = {i} BY <2>1 DEF Once
  <2> QED BY <1>1, <2>2, FS_Singleton DEF Count
<1>2. CASE e \notin Elems(s)
  <2>1. S = {} BY <1>2 DEF Elems
  <2> QED BY <1>2, <2>1, FS_EmptySet DEF Count
<1> QED BY <1>1, <1>2

\* The tables and the turns of an event, counted; a turn excludes a table.
LEMMA PlacesCounted ==
    ASSUME HarnessInv, NEW e \in Events
    PROVE  /\ QueuePlaces(e) = IF e \in Held(q) THEN 1 ELSE 0
           /\ TurnPlaces(e) = IF \E s \in Slots : e \in Batch(tasks[s]) THEN 1 ELSE 0
           /\ e \in Held(q) => ~\E s \in Slots : e \in Batch(tasks[s])
           /\ e \in q.shed => e \notin Held(q) /\ ~\E s \in Slots : e \in Batch(tasks[s])
<1> DEFINE c == ChannelOf[e]
<1>0. /\ Homes /\ QueueOK(q, next) /\ q \in QueueState /\ c \in Channels
      /\ tasks \in [Slots -> TaskState]
  BY HarnessAssumption DEF HarnessInv, Homes, QueueOK, PoolInv, Types
<1>1. /\ q.queues[c] \in Seq(Events) /\ q.cancelled[c] \in Seq(Events)
      /\ q.withheld[c] \in Seq(Events)
  BY <1>0 DEF QueueState
<1>2. ChannelOK(q, c, next) BY <1>0 DEF QueueOK
<1>3. QueuePlaces(e) = IF e \in Held(q) THEN 1 ELSE 0
  <2>1. /\ Count(q.queues[c], e) = IF e \in Elems(q.queues[c]) THEN 1 ELSE 0
        /\ Count(q.cancelled[c], e) = IF e \in Elems(q.cancelled[c]) THEN 1 ELSE 0
        /\ Count(q.withheld[c], e) = IF e \in Elems(q.withheld[c]) THEN 1 ELSE 0
    BY <1>1, <1>2, CountOnce DEF ChannelOK
  <2>2. e \in Held(q) <=> \/ e \in Elems(q.queues[c]) \/ e \in Elems(q.cancelled[c])
                          \/ e \in Elems(q.withheld[c])
    BY DEF Held, Waiting
  <2>3. /\ ~(e \in Elems(q.queues[c]) /\ e \in Elems(q.cancelled[c]))
        /\ ~(e \in Elems(q.queues[c]) /\ e \in Elems(q.withheld[c]))
        /\ ~(e \in Elems(q.cancelled[c]) /\ e \in Elems(q.withheld[c]))
    BY <1>2 DEF ChannelOK
  <2> QED BY <2>1, <2>2, <2>3 DEF QueuePlaces
<1>4. TurnPlaces(e) = IF \E s \in Slots : e \in Batch(tasks[s]) THEN 1 ELSE 0
  <2> DEFINE T == {s \in Slots : e \in Elems(tasks[s].events \o tasks[s].cancelled)}
  <2>1. \A s \in Slots : Elems(tasks[s].events \o tasks[s].cancelled) = Batch(tasks[s])
    <3> SUFFICES ASSUME NEW s \in Slots
                 PROVE  Elems(tasks[s].events \o tasks[s].cancelled) = Batch(tasks[s])
      OBVIOUS
    <3>1. tasks[s].events \in Seq(Events) /\ tasks[s].cancelled \in Seq(Events)
      BY <1>0 DEF TaskState
    <3> QED BY <3>1, ElemsOfConcat DEF Batch
  <2>2. CASE \E s \in Slots : e \in Batch(tasks[s])
    <3>1. PICK s \in Slots : e \in Batch(tasks[s]) BY <2>2
    <3>2. \A r \in Slots : e \in Batch(tasks[r]) => r = s BY <1>0, <3>1 DEF Homes
    <3>3. T = {s} BY <2>1, <3>1, <3>2
    <3> QED BY <2>2, <3>3, FS_Singleton DEF TurnPlaces
  <2>3. CASE ~\E s \in Slots : e \in Batch(tasks[s])
    <3>1. T = {} BY <2>1, <2>3
    <3> QED BY <2>3, <3>1, FS_EmptySet DEF TurnPlaces
  <2> QED BY <2>2, <2>3
<1>5. \A s \in Slots : e \in Batch(tasks[s]) => e \notin Held(q) /\ e \notin q.shed
  BY <1>0 DEF Homes
<1>6. e \in q.shed => e \notin Held(q)
  BY <1>2 DEF ChannelOK, Held
<1> QED BY <1>3, <1>4, <1>5, <1>6

\* An accepted event has exactly one home until it is prompted or let go of: no
\* order of steers, acks, cancels, requeues, panics, expired deadlines and
\* removals keeps it in two places, or loses it outside the places NeverLost
\* names; an accepted steer is prompted again only after an expired deadline.
THEOREM OneHome == Spec => []ExactlyOneHome
<1>1. HarnessInv => ExactlyOneHome
  <2> SUFFICES ASSUME HarnessInv PROVE ExactlyOneHome
    OBVIOUS
  <2>0. /\ Homes /\ Requests /\ QueueOK(q, next) /\ next \in 1..(NumEvents + 1)
    BY DEF HarnessInv, Homes, PoolInv, Types
  <2>1. 1..(next - 1) \subseteq Events BY <2>0, HarnessAssumption DEF Events
  <2>2. NeverLost
    <3> SUFFICES ASSUME pc # "exited", NEW e \in 1..(next - 1), e \notin q.shed
                 PROVE  Places(e) > 0
      BY DEF NeverLost
    <3>1. e \in Held(q) \/ \E s \in Slots : e \in Batch(tasks[s]) BY <2>0 DEF Homes
    <3>2. e \in Events BY <2>1
    <3>3. QueuePlaces(e) \in {0, 1} /\ TurnPlaces(e) \in {0, 1}
          /\ (QueuePlaces(e) = 1 \/ TurnPlaces(e) = 1)
      BY <3>1, <3>2, PlacesCounted
    <3> QED BY <3>3 DEF Places
  <2>3. NoDoubleHome
    <3> SUFFICES ASSUME NEW e \in Events
                 PROVE  Places(e) <= 1 /\ (e \in q.shed => Places(e) = 0)
      BY DEF NoDoubleHome
    <3>1. /\ QueuePlaces(e) \in {0, 1} /\ TurnPlaces(e) \in {0, 1}
          /\ QueuePlaces(e) = 0 \/ TurnPlaces(e) = 0
          /\ e \in q.shed => QueuePlaces(e) = 0 /\ TurnPlaces(e) = 0
      BY PlacesCounted
    <3> QED BY <3>1 DEF Places
  <2>4. SteeredOnce
    <3> SUFFICES ASSUME NEW e \in steered \ q.returned
                 PROVE  TurnPlaces(e) = 0 /\ e \notin Elems(q.queues[ChannelOf[e]])
      BY DEF SteeredOnce
    <3>1. e \in Events BY <2>0, <2>1 DEF Requests
    <3>2. e \in Withheld(q) \cup q.shed BY DEF HarnessInv, OnTime, Parked
    <3>3. ChannelOf[e] \in Channels BY <3>1, HarnessAssumption
    <3>4. ChannelOK(q, ChannelOf[e], next) BY <2>0, <3>3 DEF QueueOK
    <3>5. e \notin Elems(q.queues[ChannelOf[e]])
      BY <3>2, <3>4 DEF ChannelOK, Waiting, Withheld
    <3>6. e \in Held(q) \cup q.shed BY <3>2 DEF Held, Withheld, Waiting
    <3>7. TurnPlaces(e) = 0 BY <3>1, <3>6, PlacesCounted
    <3> QED BY <3>5, <3>7
  <2> QED BY <2>2, <2>3, <2>4 DEF ExactlyOneHome
<1> QED BY <1>1, HarnessInvariant, PTL

=============================================================================
