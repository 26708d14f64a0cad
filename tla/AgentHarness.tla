--------------------------- MODULE AgentHarness ---------------------------
(***************************************************************************)
(* The agent harness punks-acp: one main loop that turns relay events into *)
(* prompts for a pool of agent subprocesses.  Its EventQueue (queue.rs),   *)
(* its AgentPool and prompt tasks (pool.rs), and the main loop's handlers  *)
(* (lib.rs), with the lazy pool life cycle (pool_lifecycle.rs).            *)
(*                                                                         *)
(* The main loop is sequential: a select! arm is one action, and the       *)
(* dispatch_pending loop that ends most arms takes one step per batch.     *)
(* Prompt tasks, steer watchers, respawn tasks and timers run beside it.   *)
(* An event is its arrival number, which is also its received_at.          *)
(*                                                                         *)
(* Left out: the text of prompts and notices, typing and presence, the     *)
(* author gate and the filter (an event here has passed them), the         *)
(* deduplication of membership notifications, cancel reasons (they only    *)
(* frame a prompt), the lengths of delays.                                 *)
(***************************************************************************)
EXTENDS Naturals, Sequences, FiniteSets

CONSTANTS
    Channels,
    Heartbeat,       \* the source of a turn that has no channel
    NumEvents,       \* events the relay delivers
    ChannelOf,       \* the channel of each event
    CreatedAt,       \* created_at of each event, in seconds
    NumSlots,        \* config.agents
    Configs,         \* the configurations to start in, each with its bounds on the
                     \* failures of agents (maxFaults) and on owner commands and
                     \* membership changes (maxCommands)
    MaxPending,      \* MAX_PENDING_PER_CHANNEL
    MaxBatch,        \* MAX_BATCH_EVENTS
    MaxRetries,      \* MAX_RETRIES
    CrashThreshold   \* CIRCUIT_BREAKER_THRESHOLD

Events == 1..NumEvents
Slots == 1..NumSlots
NoEvent == 0

\* How events that arrive mid-turn are handled: drop and queue are the two
\* dedup modes, steer and interrupt the signals that cut a turn short.
Handlings == {"drop", "queue", "steer", "interrupt"}

ASSUME HarnessAssumption ==
    /\ NumEvents \in Nat
    /\ NumSlots \in Nat \ {0}
    /\ MaxPending \in Nat \ {0}
    /\ MaxBatch \in Nat \ {0}
    /\ MaxRetries \in Nat
    /\ CrashThreshold \in Nat \ {0}
    /\ Heartbeat \notin Channels
    /\ ChannelOf \in [Events -> Channels]
    /\ CreatedAt \in [Events -> Nat]
    /\ Configs \subseteq [handling : Handlings, pool : {"eager", "lazy"},
                          greeting : {"none", "initial_message"},
                          maxFaults : Nat, maxCommands : Nat]

VARIABLES
    config,      \* the configuration, fixed at start
    pc,          \* the main loop: "select", "joins", "dispatch", "exited"
    next,        \* the event the relay delivers next
    q,           \* the EventQueue
    idle,        \* AgentPool.agents: the slots that hold an agent
    tasks,       \* AgentPool.task_map, with each prompt task's own state
    sessions,    \* the channels each slot's agent has a session for
    circuit,     \* crash_history
    respawning,  \* the slots with respawn_in_flight
    respawned,   \* the results in the respawn channel
    acks,        \* steer acks on their way to the main loop
    removed,     \* removed_channels
    life,        \* the pool life cycle; "ready" is pool_ready
    steered,     \* events an agent accepted as a steer
    late,        \* channels with a turn that outlived its in-flight deadline, until
                 \* they have no turn, no backoff and no answer to a steer left
    faults,      \* failures so far
    commands     \* commands so far

poolVars == <<idle, tasks, sessions>>
respawnVars == <<circuit, respawning, respawned>>
vars == <<config, pc, next, q, idle, tasks, sessions, circuit, respawning,
          respawned, acks, removed, life, steered, late, faults, commands>>

Elems(s) == {s[i] : i \in DOMAIN s}
Least(S) == CHOOSE x \in S : \A y \in S : x <= y
Smaller(m, n) == IF m < n THEN m ELSE n

\* The sequence without its entry for e; an event is in a table once.
Without(s, e) ==
    LET i == CHOOSE i \in DOMAIN s : s[i] = e IN
    IF e \in Elems(s) THEN SubSeq(s, 1, i - 1) \o SubSeq(s, i + 1, Len(s)) ELSE s

-----------------------------------------------------------------------------
(***************************************************************************)
(* queue.rs.  An EventQueue is a record; shed, lost and returned are       *)
(* history: the events the queue let go of, those of them it should have   *)
(* put back, and the withheld ones an expired deadline put back.           *)
(***************************************************************************)

EmptyQueue ==
    [queues |-> [c \in Channels |-> <<>>], cancelled |-> [c \in Channels |-> <<>>],
     withheld |-> [c \in Channels |-> <<>>], inFlight |-> {}, overdue |-> {},
     retryAfter |-> [c \in Channels |-> "none"], retryCount |-> [c \in Channels |-> 0],
     shed |-> {}, lost |-> {}, returned |-> {}]

Shed(u, S) == [u EXCEPT !.shed = @ \cup S]
Lose(u, S) == [u EXCEPT !.shed = @ \cup S, !.lost = @ \cup S]

\* Variant: events pushed back are not counted against the cap.
KeptAll(s) == s

\* What a channel's queue keeps of s under the cap, and what is popped.
Kept(s) == SubSeq(s, 1, Smaller(Len(s), MaxPending))
Popped(s) == Elems(SubSeq(s, MaxPending + 1, Len(s)))

PutFront(u, c, s) ==
    [u EXCEPT !.queues[c] = Kept(s \o @), !.shed = @ \cup Popped(s \o u.queues[c])]

push(u, e) ==
    LET c == ChannelOf[e]
        full == Len(u.queues[c]) >= MaxPending
    IN  IF config.handling = "drop" /\ c \in u.inFlight THEN Shed(u, {e})
        ELSE [u EXCEPT !.queues[c] = Append(IF full THEN Tail(@) ELSE @, e),
                       !.shed = IF full THEN @ \cup {Head(u.queues[c])} ELSE @]

\* The block flush_next and has_flushable_work begin with.  The turn of an
\* expired channel runs on; steers withheld for it go back to the queue.
expire(u) ==
    LET back(c) == IF c \in u.overdue THEN u.withheld[c] ELSE <<>> IN
    [u EXCEPT !.inFlight = @ \ u.overdue, !.overdue = {},
              !.queues = [c \in Channels |-> Kept(back(c) \o @[c])],
              !.withheld = [c \in Channels |-> IF c \in u.overdue THEN <<>> ELSE @[c]],
              !.shed = @ \cup UNION {Popped(back(c) \o u.queues[c]) : c \in Channels},
              !.returned = @ \cup UNION {Elems(back(c)) : c \in Channels}]

\* Variant: a channel with a turn in flight is flushed too.
ReadyInFlight(u) == {c \in Channels : u.queues[c] # <<>> /\ u.retryAfter[c] # "pending"}

ReadyChannels(u) == {c \in Channels : /\ u.queues[c] # <<>>
                                      /\ c \notin u.inFlight
                                      /\ u.retryAfter[c] # "pending"}

CancelledChannels(u) == {c \in Channels \ u.inFlight : u.cancelled[c] # <<>>}

has_flushable_work(u) == ReadyChannels(u) \cup CancelledChannels(u) # {}

\* Variant: work throttled by a backoff does not count.
FlushableOnly(u) == has_flushable_work(u)

has_undispatched_work(u) ==
    \E c \in Channels \ u.inFlight : u.queues[c] \o u.cancelled[c] \o u.withheld[c] # <<>>

\* The channels flush_next may pick: the one with the oldest head, or failing
\* that any (a HashMap's order) with cancelled events.
FlushChoices(u) ==
    IF ReadyChannels(u) = {} THEN CancelledChannels(u)
    ELSE {c \in ReadyChannels(u) :
            \A d \in ReadyChannels(u) : Head(u.queues[c]) <= Head(u.queues[d])}

\* sort_by_key(created_at), which is stable: the places of s in the new order.
Order(s) ==
    CHOOSE p \in [DOMAIN s -> DOMAIN s] :
        /\ \A i \in DOMAIN s : \E j \in DOMAIN s : p[j] = i
        /\ \A i, j \in DOMAIN s : i < j =>
             \/ CreatedAt[s[p[i]]] < CreatedAt[s[p[j]]]
             \/ CreatedAt[s[p[i]]] = CreatedAt[s[p[j]]] /\ p[i] < p[j]

SortByCreation(s) == [i \in DOMAIN s |-> s[Order(s)[i]]]

Taken(u, c) == Smaller(Len(u.queues[c]), MaxBatch)

FlushBatch(u, c) ==
    IF c \in ReadyChannels(u)
    THEN [events |-> SortByCreation(SubSeq(u.queues[c], 1, Taken(u, c))),
          cancelled |-> u.cancelled[c]]
    ELSE [events |-> u.cancelled[c], cancelled |-> <<>>]

flush_next(u, c) ==
    [u EXCEPT !.queues[c] = IF c \in ReadyChannels(u)
                            THEN SubSeq(@, Taken(u, c) + 1, Len(@)) ELSE @,
              !.cancelled[c] = <<>>,
              !.inFlight = @ \cup {c}, !.overdue = @ \ {c}]

\* Variant: a throttled channel stays marked in flight.
MarkCompleteUnthrottled(u, c) ==
    IF u.retryAfter[c] = "pending" THEN u
    ELSE [u EXCEPT !.inFlight = @ \ {c}, !.overdue = @ \ {c},
                   !.retryAfter[c] = "none", !.retryCount[c] = 0]

mark_complete(u, c) ==
    LET throttled == u.retryAfter[c] = "pending" IN
    [u EXCEPT !.inFlight = @ \ {c}, !.overdue = @ \ {c},
              !.retryAfter[c] = IF throttled THEN @ ELSE "none",
              !.retryCount[c] = IF throttled THEN @ ELSE 0]

\* A retry keeps b.events only: the cancelled events merged into the batch are
\* not stored.
requeue(u, c, b) ==
    IF u.retryCount[c] + 1 > MaxRetries
    THEN Shed([u EXCEPT !.retryCount[c] = 0, !.retryAfter[c] = "none"],
              Elems(b.events) \cup Elems(b.cancelled))
    ELSE [Lose(PutFront(u, c, b.events), Elems(b.cancelled)) EXCEPT
            !.retryCount[c] = @ + 1, !.retryAfter[c] = "pending"]

requeue_preserve_timestamps(u, c, b) == Lose(PutFront(u, c, b.events), Elems(b.cancelled))

requeue_as_cancelled(u, c, b) ==
    [u EXCEPT !.cancelled[c] = @ \o (b.cancelled \o b.events)]

drain_channel(u, c) ==
    Shed([u EXCEPT !.queues[c] = <<>>, !.cancelled[c] = <<>>, !.withheld[c] = <<>>,
                   !.retryAfter[c] = "none", !.retryCount[c] = 0],
         Elems(u.queues[c] \o u.cancelled[c] \o u.withheld[c]))

\* Variants: the event is withheld but also left queued; it is not withheld.
WithholdCopy(u, e) == [u EXCEPT !.withheld[ChannelOf[e]] = Append(@, e)]
WithholdNothing(u, e) == u

mark_native_steer_pending(u, e) ==
    LET c == ChannelOf[e] IN
    IF e \notin Elems(u.queues[c]) THEN u
    ELSE [u EXCEPT !.queues[c] = Without(@, e), !.withheld[c] = Append(@, e)]

\* Variant: a released event is dropped from the side table only.
ReleaseDrops(u, e) == [u EXCEPT !.withheld[ChannelOf[e]] = Without(@, e)]

release_native_steer(u, e) ==
    LET c == ChannelOf[e] IN
    IF e \notin Elems(u.withheld[c]) THEN u
    ELSE PutFront([u EXCEPT !.withheld[c] = Without(@, e)], c, <<e>>)

remove_event(u, e) ==
    LET c == ChannelOf[e] IN
    Shed([u EXCEPT !.queues[c] = Without(@, e), !.withheld[c] = Without(@, e)],
         {e} \cap Elems(u.queues[c] \o u.withheld[c]))

\* A channel whose deadline has passed but is not expired yet gets a new one.
extend_in_flight_deadline(u, c) == [u EXCEPT !.overdue = @ \ {c}]

compact_expired_state(u) ==
    [u EXCEPT !.retryAfter = [c \in Channels |-> IF @[c] = "pending" THEN @[c] ELSE "none"],
              !.retryCount = [c \in Channels |->
                IF u.retryAfter[c] = "pending" \/ u.queues[c] # <<>> \/ c \in u.inFlight
                THEN @[c] ELSE 0]]

-----------------------------------------------------------------------------
(***************************************************************************)
(* pool.rs: prompt tasks.                                                  *)
(*                                                                         *)
(* ctl is the signal put in the task's control oneshot; rx is the steer    *)
(* receiver of the turn, box the request in its channel of capacity one    *)
(* and sent the request written to the agent and not answered yet.  back   *)
(* says whether the result carries the batch.                              *)
(***************************************************************************)

NoTask == [ch |-> Heartbeat, events |-> <<>>, cancelled |-> <<>>, phase |-> "none",
           ctl |-> "none", rx |-> "closed", box |-> NoEvent, sent |-> NoEvent,
           outcome |-> "none", back |-> "no"]

Running == {"starting", "greeting", "prompting"}
TaskOn(s) == tasks[s].phase # "none"
TasksOf(c) == {s \in Slots : TaskOn(s) /\ tasks[s].ch = c}

\* Variant: a turn that ends does not answer its steer requests.
LeftUnanswered(t) == {}

\* Requests of a turn whose read loop returns or is dropped: the pending one is
\* acked PromptCompletedNeutral, the unread one's sender is dropped.
Unanswered(t) == {[e |-> e, kind |-> "release"] : e \in {t.box, t.sent} \ {NoEvent}}

CloseSteer(t) == [t EXCEPT !.rx = "closed", !.box = NoEvent, !.sent = NoEvent]

Spend == faults < config.maxFaults /\ faults' = faults + 1

\* session/new, or the session the agent already has for the channel.
SessionReady(s) ==
    LET t == tasks[s]
        greets == /\ config.greeting = "initial_message"
                  /\ t.ch # Heartbeat /\ t.ch \notin sessions[s]
    IN  /\ t.phase = "starting"
        /\ tasks' = [tasks EXCEPT ![s].phase = IF greets THEN "greeting" ELSE "prompting"]
        /\ sessions' = [sessions EXCEPT ![s] = @ \cup ({t.ch} \cap Channels)]
        /\ UNCHANGED <<config, pc, next, q, idle, respawnVars, acks, removed, life,
                       steered, late, faults, commands>>

\* The initial message's turn took the steer receiver and drops it at its end.
GreetingDone(s) ==
    /\ tasks[s].phase = "greeting"
    /\ tasks' = [tasks EXCEPT ![s] = [CloseSteer(@) EXCEPT !.phase = "prompting"]]
    /\ acks' = acks \cup Unanswered(tasks[s])
    /\ UNCHANGED <<config, pc, next, q, idle, sessions, respawnVars, removed, life,
                   steered, late, faults, commands>>

\* The read loop takes a request off the channel: it is written to the agent,
\* or acked at once when it cannot be (no run id, a failed write).
ReadSteer(s) ==
    LET t == tasks[s] IN
    /\ t.phase \in {"greeting", "prompting"}
    /\ t.box # NoEvent /\ t.sent = NoEvent
    /\ \/ /\ tasks' = [tasks EXCEPT ![s].box = NoEvent, ![s].sent = t.box]
          /\ UNCHANGED acks
       \/ /\ tasks' = [tasks EXCEPT ![s].box = NoEvent]
          /\ acks' = acks \cup {[e |-> t.box, kind |-> "fallback"]}
    /\ UNCHANGED <<config, pc, next, q, idle, sessions, respawnVars, removed, life,
                   steered, late, faults, commands>>

\* The agent accepts the steer, rejects it, or has no such method.
AnswerSteer(s) ==
    LET t == tasks[s] IN
    /\ t.phase \in {"greeting", "prompting"} /\ t.sent # NoEvent
    /\ tasks' = [tasks EXCEPT ![s].sent = NoEvent]
    /\ \E kind \in {"success", "release", "fallback"} :
         /\ acks' = acks \cup {[e |-> t.sent, kind |-> kind]}
         /\ steered' = IF kind = "success" THEN steered \cup {t.sent} ELSE steered
    /\ UNCHANGED <<config, pc, next, q, idle, sessions, respawnVars, removed, life,
                   late, faults, commands>>

\* send_prompt_result.
SendResult(s, outcome, back, held) ==
    /\ tasks' = [tasks EXCEPT ![s] = [CloseSteer(@) EXCEPT
                    !.phase = "done", !.outcome = outcome, !.back = back]]
    /\ acks' = acks \cup Unanswered(tasks[s])
    /\ sessions' = [sessions EXCEPT ![s] = held]
    /\ UNCHANGED <<config, pc, next, q, idle, respawnVars, removed, life, steered, late, commands>>

IfQueue(outcome) == IF config.handling = "drop" \/ outcome = "ok" THEN "no" ELSE "yes"

\* The turn ends by itself; a full session or a stop reason rotates it.
TurnCompletes(s) ==
    LET t == tasks[s] IN
    /\ t.phase = "prompting"
    /\ \E held \in {sessions[s], sessions[s] \ {t.ch}} : SendResult(s, "ok", "no", held)
    /\ UNCHANGED faults

\* "error" is an error the agent answered with, "auth" one that names the
\* credentials, "fatal" a dead process, a broken pipe, an idle timeout or a
\* hard timeout of an agent that was active, "hard" one of an agent that was
\* not.  A dead agent keeps no session.
TurnFails(s) ==
    LET t == tasks[s] IN
    /\ t.phase \in Running
    /\ Spend
    /\ \E outcome \in {"error", "auth", "fatal", "hard"} :
         /\ outcome = "hard" => t.phase # "starting"
         /\ \E held \in CASE outcome \in {"fatal", "hard"} -> {{}}
                          [] t.phase = "starting" -> {sessions[s]}
                          [] t.phase = "greeting" -> {sessions[s] \ {t.ch}}
                          [] OTHER -> {sessions[s], sessions[s] \ {t.ch}} :
               SendResult(s, outcome, IfQueue(outcome), held)

TaskPanics(s) ==
    /\ tasks[s].phase \in Running
    /\ Spend
    /\ tasks' = [tasks EXCEPT ![s] = [CloseSteer(@) EXCEPT !.phase = "panicked"]]
    /\ acks' = acks \cup Unanswered(tasks[s])
    /\ UNCHANGED <<config, pc, next, q, idle, sessions, respawnVars, removed, life,
                   steered, late, commands>>

\* requeue_cancelled_batch: cancel and rotate drop the batch.
Requeued(ctl) == IF ctl \in {"steer", "interrupt", "switch"} THEN IfQueue("cancelled") ELSE "no"

\* The control arm of the prompt's select!: the cancel is drained, fails
\* (classify_control_cancel_failure), or finds the turn just completed.
TurnIsCut(s) ==
    LET t == tasks[s]
        rest == sessions[s] \ {t.ch}
    IN  /\ t.phase = "prompting" /\ t.ctl # "none"
        /\ \/ SendResult(s, "cancelled", Requeued(t.ctl), rest) /\ UNCHANGED faults
           \/ \E outcome \in {"drain", "fatal", "error"} :
                Spend /\ SendResult(s, outcome, Requeued(t.ctl), rest)
           \/ /\ SendResult(s, "ok", "no",
                            IF t.ctl \in {"rotate", "switch"} THEN rest ELSE sessions[s])
              /\ UNCHANGED faults

-----------------------------------------------------------------------------
(***************************************************************************)
(* lib.rs: respawns and the circuit breaker of a slot.                     *)
(***************************************************************************)

\* record_crash: the circuit after a crash of slot s, and whether a respawn
\* is allowed.
record_crash(k) ==
    CASE k.open = "cooled" -> [crashes |-> CrashThreshold - 1, open |-> "closed"]
      [] k.open = "open" -> k
      [] OTHER -> [crashes |-> k.crashes + 1,
                   open |-> IF k.crashes + 1 >= CrashThreshold THEN "open" ELSE "closed"]

\* Kills the agent of slot s and starts its replacement unless the circuit is
\* open; the loop exits when no agent lives and none is coming.
SpawnRespawn(s, live, after) ==
    LET k == record_crash(circuit[s]) IN
    /\ circuit' = [circuit EXCEPT ![s] = k]
    /\ respawning' = IF k.open = "open" THEN respawning ELSE respawning \cup {s}
    /\ pc' = IF k.open = "open" /\ live = {} /\ respawning = {} THEN "exiting" ELSE after
    /\ UNCHANGED respawned

\* The respawn task ends; RespawnGuard sends a failure for one that panics.
RespawnDone(s) ==
    /\ s \in respawning /\ respawned[s] = "none"
    /\ \/ respawned' = [respawned EXCEPT ![s] = "ok"] /\ UNCHANGED faults
       \/ respawned' = [respawned EXCEPT ![s] = "failed"] /\ Spend
    /\ UNCHANGED <<config, pc, next, q, poolVars, circuit, respawning, acks, removed,
                   life, steered, late, commands>>

\* The loop's head drains the respawn channel.
CollectRespawns ==
    LET ok == {s \in Slots : respawned[s] = "ok"}
        failed == {s \in Slots : respawned[s] = "failed"}
    IN  /\ pc = "select" /\ ok \cup failed # {}
        /\ respawning' = respawning \ (ok \cup failed)
        /\ respawned' = [s \in Slots |-> "none"]
        /\ idle' = idle \cup ok
        /\ sessions' = [s \in Slots |-> IF s \in ok THEN {} ELSE sessions[s]]
        /\ circuit' = [s \in Slots |-> IF s \in failed THEN [circuit[s] EXCEPT !.open = "open"]
                                       ELSE circuit[s]]
        /\ pc' = IF ok # {} THEN "dispatch" ELSE "select"
        /\ UNCHANGED <<config, next, q, tasks, acks, removed, life, steered, late, faults, commands>>

\* Variant: an agent that is checked out counts as dead.
SlotIsIdle(s) == s \in idle

slot_alive(s) == s \in idle \/ TaskOn(s)

\* Variant: a circuit never half-opens.
RefillClosedOnly(k) == k.open = "closed"

can_refill(k) == k.open # "open"

\* The loop's head every maintenance interval: compaction, refill of empty
\* slots (a cooled circuit half-opens), and a flush of elapsed retries.
Maintain ==
    LET empty == {s \in Slots \ respawning : ~slot_alive(s) /\ can_refill(circuit[s])}
        u == compact_expired_state(q)
    IN  /\ pc = "select" /\ life = "ready"
        /\ respawning' = respawning \cup empty
        /\ circuit' = [s \in Slots |-> IF s \in empty /\ circuit[s].open = "cooled"
                                       THEN record_crash(circuit[s]) ELSE circuit[s]]
        /\ q' = expire(u)
        /\ pc' = IF has_flushable_work(expire(u)) THEN "dispatch" ELSE "select"
        /\ UNCHANGED <<config, next, poolVars, respawned, acks, removed, life, steered, late,
                       faults, commands>>

-----------------------------------------------------------------------------
(***************************************************************************)
(* lib.rs: the main loop.                                                  *)
(***************************************************************************)

\* signal_in_flight_task: the oneshot of the channel's task, once.
Signalled(ts, c, ctl) ==
    LET free == {s \in Slots : ts[s].phase # "none" /\ ts[s].ch = c} IN
    IF free = {} THEN {ts}
    ELSE {[ts EXCEPT ![s].ctl = IF @ = "none" THEN ctl ELSE @] : s \in free}

\* pool.send_steer accepts: the channel of the turn's receiver has room.
TakesSteer(s) == tasks[s].rx = "open" /\ tasks[s].box = NoEvent

\* A relay event that passed the author gate and matched a rule: push, then
\* the mode gate, then dispatch.
RelayEvent ==
    LET e == next
        c == ChannelOf[e]
        u == push(q, e)
        mid == c \in u.inFlight /\ config.handling \in {"steer", "interrupt"}
        native == mid /\ config.handling = "steer"
    IN  /\ pc = "select" /\ next <= NumEvents
        /\ next' = next + 1
        /\ \/ /\ ~mid
              /\ q' = u /\ UNCHANGED tasks
           \/ /\ native
              /\ \E s \in TasksOf(c) :
                   /\ TakesSteer(s)
                   /\ tasks' = [tasks EXCEPT ![s].box = e]
                   /\ q' = mark_native_steer_pending(u, e)
           \/ /\ mid
              /\ \/ ~native
                 \/ \E s \in TasksOf(c) : ~TakesSteer(s)
                 \/ TasksOf(c) = {}
              /\ q' = u
              /\ tasks' \in Signalled(tasks, c, config.handling)
        /\ pc' = IF life = "ready" THEN "dispatch" ELSE "select"
        /\ UNCHANGED <<config, idle, sessions, respawnVars, acks, removed, life, steered, late,
                       faults, commands>>

\* try_claim: an agent with a session for c, else the first idle one.
try_claim(c) ==
    LET affine == {s \in idle : c \in sessions[s]} IN
    IF affine # {} THEN Least(affine) ELSE Least(idle)

\* One turn of the loop of dispatch_pending.
DispatchNext ==
    LET u == expire(q) IN
    /\ \/ pc = "dispatch"
       \/ pc = "joins" /\ \A s \in Slots : tasks[s].phase # "panicked"
    /\ \/ /\ FlushChoices(u) = {}
          /\ q' = u /\ pc' = "select"
          /\ UNCHANGED <<idle, tasks>>
       \/ \E c \in FlushChoices(u) :
            LET b == FlushBatch(u, c)
                v == flush_next(u, c)
            IN  IF idle = {}
                THEN /\ q' = mark_complete(requeue_preserve_timestamps(v, c, b), c)
                     /\ pc' = "select"
                     /\ UNCHANGED <<idle, tasks>>
                ELSE LET s == try_claim(c) IN
                     /\ q' = v /\ pc' = "dispatch"
                     /\ idle' = idle \ {s}
                     /\ tasks' = [tasks EXCEPT ![s] =
                          [NoTask EXCEPT !.ch = c, !.events = b.events,
                                         !.cancelled = b.cancelled,
                                         !.phase = "starting", !.rx = "open"]]
    /\ UNCHANGED <<config, next, sessions, respawnVars, acks, removed, life, steered, late,
                   faults, commands>>

\* The fate handle_prompt_result gives the batch of a result.
Settle(t) ==
    CASE t.back = "no" \/ t.ch \in removed \/ t.outcome \in {"hard", "auth"} ->
             Shed(q, Elems(t.events) \cup Elems(t.cancelled))
      [] t.outcome \in {"cancelled", "drain"} -> requeue_as_cancelled(q, t.ch, t)
      [] OTHER -> requeue(q, t.ch, t)

\* Variant: a returning agent keeps every session.
KeptSessions(held) == held

\* Sessions of channels the agent was removed from while it was checked out.
Stripped(held) == held \ removed

\* The channel of a turn that is over, when no other turn of it runs, the queue u
\* keeps no backoff for it and no answer to a steer of it is left to read.
Settled(s, u) == {c \in Channels : /\ TasksOf(c) = {s}
                                   /\ u.retryAfter[c] # "pending"
                                   /\ \A a \in acks : ChannelOf[a.e] # c}

HandleResult(s) ==
    LET t == tasks[s]
        live == idle \cup {r \in Slots \ {s} : TaskOn(r)}
    IN  /\ pc = "select" /\ life = "ready" /\ t.phase = "done"
        /\ q' = IF t.ch = Heartbeat THEN q ELSE mark_complete(Settle(t), t.ch)
        /\ tasks' = [tasks EXCEPT ![s] = NoTask]
        /\ IF t.outcome \in {"fatal", "hard", "drain"}
           THEN /\ SpawnRespawn(s, live, "joins")
                /\ sessions' = [sessions EXCEPT ![s] = {}]
                /\ UNCHANGED idle
           ELSE /\ idle' = idle \cup {s}
                /\ sessions' = [sessions EXCEPT ![s] = Stripped(@)]
                /\ pc' = "joins"
                /\ UNCHANGED respawnVars
        /\ late' = late \ Settled(s, q')
        /\ UNCHANGED <<config, next, acks, removed, life, steered, faults, commands>>

\* recover_panicked_agent, from the select! or while results are drained; the
\* batch is the copy TaskMeta keeps in queue mode.
HandlePanic(s) ==
    LET t == tasks[s]
        live == idle \cup {r \in Slots \ {s} : TaskOn(r)}
        u == IF config.handling = "drop" \/ t.ch \in removed
             THEN Shed(q, Elems(t.events) \cup Elems(t.cancelled))
             ELSE requeue(q, t.ch, t)
    IN  /\ pc \in {"select", "joins"} /\ t.phase = "panicked"
        /\ q' = IF t.ch = Heartbeat THEN q ELSE mark_complete(u, t.ch)
        /\ tasks' = [tasks EXCEPT ![s] = NoTask]
        /\ sessions' = [sessions EXCEPT ![s] = {}]
        /\ SpawnRespawn(s, live, IF pc = "joins" THEN "joins" ELSE "dispatch")
        /\ late' = late \ Settled(s, q')
        /\ UNCHANGED <<config, next, idle, acks, removed, life, steered, faults, commands>>

\* The SteerAck arm: success drops the withheld event, anything else releases
\* it, and a steer that never landed also signals the turn.
HandleSteerAck(a) ==
    LET c == ChannelOf[a.e] IN
    /\ pc = "select" /\ a \in acks
    /\ acks' = acks \ {a}
    /\ q' = IF a.kind = "success"
            THEN remove_event(extend_in_flight_deadline(q, c), a.e)
            ELSE release_native_steer(q, a.e)
    /\ tasks' \in IF a.kind = "fallback" THEN Signalled(tasks, c, "steer") ELSE {tasks}
    /\ pc' = "dispatch"
    /\ UNCHANGED <<config, next, idle, sessions, respawnVars, removed, life, steered, late,
                   faults, commands>>

\* The owner's !cancel, !rotate and switch_model.  A signal that finds no
\* turn, or one already signalled, lets !rotate drop the channel's idle
\* sessions; without a turn switch_model drops the first, or rejects the model.
OwnerCommand(c, ctl) ==
    LET holders == {s \in idle : c \in sessions[s]} IN
    /\ pc = "select" /\ commands < config.maxCommands
    /\ commands' = commands + 1
    /\ \/ \E s \in TasksOf(c) :
            /\ tasks[s].ctl = "none"
            /\ tasks' = [tasks EXCEPT ![s].ctl = ctl]
            /\ UNCHANGED sessions
       \/ /\ TasksOf(c) = {} \/ \E s \in TasksOf(c) : tasks[s].ctl # "none"
          /\ \E drop \in CASE ctl = "rotate" -> {holders}
                           [] ctl = "switch" /\ TasksOf(c) = {} /\ holders # {} ->
                                {{}, {Least(holders)}}
                           [] OTHER -> {{}} :
               sessions' = [s \in Slots |-> IF s \in drop THEN sessions[s] \ {c} ELSE sessions[s]]
          /\ UNCHANGED tasks
    /\ UNCHANGED <<config, pc, next, q, idle, respawnVars, acks, removed, life, steered, late, faults>>

MemberRemoved(c) ==
    /\ pc = "select" /\ commands < config.maxCommands
    /\ commands' = commands + 1
    /\ removed' = removed \cup {c}
    /\ q' = drain_channel(q, c)
    /\ sessions' = [s \in Slots |-> IF s \in idle /\ life = "ready"
                                    THEN sessions[s] \ {c} ELSE sessions[s]]
    /\ UNCHANGED <<config, pc, next, idle, tasks, respawnVars, acks, life, steered, late, faults>>

MemberAdded(c) ==
    /\ pc = "select" /\ c \in removed
    /\ removed' = removed \ {c}
    /\ UNCHANGED <<config, pc, next, q, poolVars, respawnVars, acks, life, steered, late,
                   faults, commands>>

\* The heartbeat arm: pending work first, else a turn of its own on an idle
\* agent, one at a time.
HeartbeatTick ==
    LET u == expire(q) IN
    /\ pc = "select" /\ life = "ready"
    /\ q' = u
    /\ IF has_flushable_work(u)
       THEN pc' = "dispatch" /\ UNCHANGED <<idle, tasks>>
       ELSE /\ IF idle # {} /\ TasksOf(Heartbeat) = {}
               THEN /\ idle' = idle \ {Least(idle)}
                    /\ tasks' = [tasks EXCEPT ![Least(idle)] =
                                   [NoTask EXCEPT !.phase = "starting"]]
               ELSE UNCHANGED <<idle, tasks>>
            /\ UNCHANGED pc
    /\ UNCHANGED <<config, next, sessions, respawnVars, acks, removed, life, steered, late,
                   faults, commands>>

\* The loop's head while a lazy pool is down: the first wake, or a due retry.
StartWake ==
    /\ pc = "select" /\ life \in {"listening", "due"}
    /\ has_flushable_work(expire(q))
    /\ q' = expire(q)
    /\ life' = "waking"
    /\ UNCHANGED <<config, pc, next, poolVars, respawnVars, acks, removed, steered, late,
                   faults, commands>>

\* initialize_agent_pool: a pool with at least one agent, or a failure.
WakeDone ==
    /\ pc = "select" /\ life = "waking"
    /\ \/ /\ \E live \in (SUBSET Slots) \ {{}} :
               /\ idle' = live
               /\ IF live = Slots THEN UNCHANGED faults ELSE Spend
          /\ sessions' = [s \in Slots |-> {}]
          /\ life' = "ready" /\ pc' = "dispatch"
       \/ /\ Spend
          /\ life' = "failed"
          /\ UNCHANGED <<idle, sessions, pc>>
    /\ UNCHANGED <<config, next, q, tasks, respawnVars, acks, removed, steered, late, commands>>

\* The idle-sleep reaper tears a quiet lazy pool down.
IdleSleep ==
    /\ pc = "select" /\ life = "ready" /\ config.pool = "lazy"
    /\ q.inFlight = {} /\ ~has_undispatched_work(q)
    /\ \A s \in Slots : ~TaskOn(s)
    /\ respawning = {}
    /\ idle' = {} /\ sessions' = [s \in Slots |-> {}]
    /\ life' = "listening"
    /\ UNCHANGED <<config, pc, next, q, tasks, respawnVars, acks, removed, steered, late,
                   faults, commands>>

\* The owner's !shutdown, a signal or the inactivity bound.
Shutdown ==
    /\ pc = "select" /\ commands < config.maxCommands
    /\ pc' = "exiting" /\ commands' = commands + 1
    /\ UNCHANGED <<config, next, q, poolVars, respawnVars, acks, removed, life, steered, late, faults>>

\* The end of tokio_main: every agent is reaped and the process is gone.
Exit ==
    /\ pc = "exiting"
    /\ pc' = "exited"
    /\ q' = EmptyQueue /\ idle' = {} /\ tasks' = [s \in Slots |-> NoTask]
    /\ sessions' = [s \in Slots |-> {}]
    /\ circuit' = [s \in Slots |-> [crashes |-> 0, open |-> "closed"]]
    /\ respawning' = {} /\ respawned' = [s \in Slots |-> "none"]
    /\ acks' = {} /\ removed' = {} /\ steered' = {} /\ late' = {} /\ life' = "listening"
    /\ UNCHANGED <<config, next, faults, commands>>

\* The process is gone, or asleep until the relay has another event.
AtRest == /\ pc = "exited" \/ (life \in {"listening", "due"} /\ ~has_flushable_work(q) /\ next > NumEvents)
          /\ UNCHANGED vars

-----------------------------------------------------------------------------
(***************************************************************************)
(* Time.                                                                   *)
(***************************************************************************)

RetryElapses(c) ==
    /\ q.retryAfter[c] = "pending"
    /\ q' = [q EXCEPT !.retryAfter[c] = "elapsed"]
    /\ UNCHANGED <<config, pc, next, poolVars, respawnVars, acks, removed, life, steered, late,
                   faults, commands>>

\* The in-flight deadline is the longest turn and a margin of 100 s, counted
\* from the dispatch; the turn's own cap starts at session/prompt, after the
\* session was set up and the initial message answered, and a cancel is granted
\* 30 s more.  A turn may outlive the deadline, at any point.
DeadlinePasses(c) ==
    /\ c \in q.inFlight \ q.overdue
    /\ Spend
    /\ q' = [q EXCEPT !.overdue = @ \cup {c}]
    /\ late' = late \cup {c}
    /\ UNCHANGED <<config, pc, next, poolVars, respawnVars, acks, removed, life, steered, commands>>

\* A circuit's cooldown ends, or its oldest crash leaves the window.
CircuitCools(s) ==
    /\ \/ circuit[s].open = "open" /\ circuit' = [circuit EXCEPT ![s].open = "cooled"]
       \/ circuit[s].crashes > 0 /\ circuit' = [circuit EXCEPT ![s].crashes = @ - 1]
    /\ UNCHANGED <<config, pc, next, q, poolVars, respawning, respawned, acks, removed,
                   life, steered, late, faults, commands>>

WakeRetryDue ==
    /\ life = "failed" /\ life' = "due"
    /\ UNCHANGED <<config, pc, next, q, poolVars, respawnVars, acks, removed, steered, late,
                   faults, commands>>

-----------------------------------------------------------------------------
Init ==
    /\ config \in Configs
    /\ pc = "select" /\ next = 1
    /\ q = EmptyQueue
    /\ life = IF config.pool = "lazy" THEN "listening" ELSE "ready"
    /\ idle = IF config.pool = "lazy" THEN {} ELSE Slots
    /\ tasks = [s \in Slots |-> NoTask]
    /\ sessions = [s \in Slots |-> {}]
    /\ circuit = [s \in Slots |-> [crashes |-> 0, open |-> "closed"]]
    /\ respawning = {} /\ respawned = [s \in Slots |-> "none"]
    /\ acks = {} /\ removed = {} /\ steered = {} /\ late = {}
    /\ faults = 0 /\ commands = 0

Task(s) ==
    \/ SessionReady(s) \/ GreetingDone(s) \/ ReadSteer(s) \/ AnswerSteer(s)
    \/ TurnCompletes(s) \/ TurnFails(s) \/ TaskPanics(s) \/ TurnIsCut(s)
    \/ RespawnDone(s)

MainLoop ==
    \/ RelayEvent \/ DispatchNext \/ CollectRespawns \/ Maintain \/ HeartbeatTick
    \/ StartWake \/ WakeDone \/ IdleSleep \/ Shutdown \/ Exit \/ AtRest
    \/ \E s \in Slots : HandleResult(s) \/ HandlePanic(s)
    \/ \E a \in acks : HandleSteerAck(a)
    \/ \E c \in Channels : \/ MemberRemoved(c) \/ MemberAdded(c)
                           \/ \E ctl \in {"cancel", "rotate", "switch"} : OwnerCommand(c, ctl)

Time ==
    \/ WakeRetryDue
    \/ \E c \in Channels : RetryElapses(c) \/ DeadlinePasses(c)
    \/ \E s \in Slots : CircuitCools(s)

Next == MainLoop \/ Time \/ \E s \in Slots : Task(s)

Spec == Init /\ [][Next]_vars

\* The head of the loop and the first arms of its biased select! are reached
\* again and again (the presence tick turns the loop every minute), so what
\* waits there is handled however often other arms run: strong fairness.
\* Turns end by their idle and hard timeouts, respawn and wake attempts by
\* their own: weak fairness.
Fairness ==
    /\ WF_vars(DispatchNext \/ Exit)
    /\ SF_vars(CollectRespawns)
    /\ SF_vars(Maintain)
    /\ SF_vars(StartWake \/ WakeDone \/ WakeRetryDue)
    /\ SF_vars(\E a \in acks : HandleSteerAck(a))
    /\ \A c \in Channels : WF_vars(RetryElapses(c))
    /\ \A s \in Slots :
         /\ SF_vars(HandleResult(s) \/ HandlePanic(s))
         /\ WF_vars(SessionReady(s) \/ GreetingDone(s) \/ TurnCompletes(s) \/ RespawnDone(s))
         /\ WF_vars(circuit[s].open = "open" /\ CircuitCools(s))

FairSpec == Spec /\ Fairness

-----------------------------------------------------------------------------
(***************************************************************************)
(* Properties.                                                             *)
(***************************************************************************)

\* The type of every variable; events sit only in tables of their channel.
TypeOK ==
    /\ config \in Configs
    /\ pc \in {"select", "joins", "dispatch", "exiting", "exited"}
    /\ next \in 1..(NumEvents + 1)
    /\ DOMAIN q = DOMAIN EmptyQueue
    /\ \A c \in Channels : /\ Elems(q.queues[c] \o q.cancelled[c] \o q.withheld[c])
                                \subseteq {e \in 1..(next - 1) : ChannelOf[e] = c}
                           /\ Len(q.queues[c]) <= MaxPending
                           /\ q.retryAfter[c] \in {"none", "pending", "elapsed"}
                           /\ q.retryCount[c] \in 0..MaxRetries
    /\ q.overdue \subseteq q.inFlight /\ q.inFlight \subseteq Channels
    /\ q.lost \cup q.shed \cup q.returned \cup steered \subseteq Events
    /\ idle \subseteq Slots /\ respawning \subseteq Slots
    /\ respawned \in [Slots -> {"none", "ok", "failed"}]
    /\ sessions \in [Slots -> SUBSET Channels]
    /\ circuit \in [Slots -> [crashes : 0..CrashThreshold, open : {"closed", "open", "cooled"}]]
    /\ acks \subseteq [e : Events, kind : {"success", "release", "fallback"}]
    /\ removed \subseteq Channels /\ late \subseteq Channels
    /\ life \in {"listening", "waking", "failed", "due", "ready"}
    /\ \A s \in Slots :
         /\ tasks[s].ch \in Channels \cup {Heartbeat}
         /\ Elems(tasks[s].events \o tasks[s].cancelled) \subseteq
              {e \in 1..(next - 1) : ChannelOf[e] = tasks[s].ch}
         /\ tasks[s].phase \in Running \cup {"none", "done", "panicked"}
         /\ tasks[s].box \in Events \cup {NoEvent} /\ tasks[s].sent \in Events \cup {NoEvent}
    /\ faults \in 0..config.maxFaults /\ commands \in 0..config.maxCommands

\* The places an event waits in: how often it is in each.
Count(s, e) == Cardinality({i \in DOMAIN s : s[i] = e})
QueuePlaces(e) == LET c == ChannelOf[e] IN
    Count(q.queues[c], e) + Count(q.cancelled[c], e) + Count(q.withheld[c], e)
TurnPlaces(e) == Cardinality({s \in Slots : e \in Elems(tasks[s].events \o tasks[s].cancelled)})
Places(e) == QueuePlaces(e) + TurnPlaces(e)

\* Until its turn completes, an accepted event is queued, withheld, stored as
\* cancelled or in a running turn, or the code let go of it: at the cap, in drop
\* mode, as a dead letter, on a removal or an owner's cancel, as an accepted
\* steer, or in one of the two places that put a batch back without the
\* cancelled events merged into it (q.lost).  Nothing else loses an event.
NeverLost ==
    pc # "exited" => \A e \in 1..(next - 1) : e \in q.shed \/ Places(e) > 0

\* An event whose turn was interrupted or steered away is merged into the next
\* prompt of its channel and not lost on the way.
InterruptedSurvive ==
    pc # "exited" => \A e \in 1..(next - 1) : e \in q.shed \ q.lost \/ Places(e) > 0

\* No event waits in two places at once, or anywhere after it was let go of:
\* it would be prompted twice.
NoDoubleHome ==
    \A e \in Events : Places(e) <= 1 /\ (e \in q.shed => Places(e) = 0)

\* An event an agent accepted as a steer is not prompted again, whatever the
\* order of the ack and of the turn's result; only the expiry of the channel's
\* deadline can put it back before its answer is read.
SteeredOnce ==
    \A e \in steered \ q.returned :
        TurnPlaces(e) = 0 /\ e \notin Elems(q.queues[ChannelOf[e]])

\* An accepted event has exactly one home until it is prompted or let go of,
\* through steers, cancels, requeues, panics and expired deadlines.
ExactlyOneHome == NeverLost /\ NoDoubleHome /\ SteeredOnce

\* A channel has one turn at a time, and is marked in flight while it runs,
\* unless one of its turns outlived the in-flight deadline: then the channel is
\* dispatched again beside it, until all its turns are over.
OneTurnPerChannel ==
    \A s \in Slots : TaskOn(s) /\ tasks[s].ch \notin late \cup {Heartbeat} =>
        tasks[s].ch \in q.inFlight /\ TasksOf(tasks[s].ch) = {s}

\* A channel in flight has a turn that will clear it: no channel is wedged.
InFlightBacked == \A c \in q.inFlight : TasksOf(c) # {}

\* The queue's marks and the pool's tasks agree on which channels have a turn.
TurnsMatchMarks == OneTurnPerChannel /\ InFlightBacked

\* A slot's agent is in one place: in its slot, with a turn, or being respawned.
\* return_agent never finds the slot occupied.
SlotExclusive ==
    /\ \A s \in idle : ~TaskOn(s) /\ s \notin respawning
    /\ \A s \in respawning : ~TaskOn(s)
    /\ \A s \in Slots : respawned[s] # "none" => s \in respawning

\* No agent in the pool holds a session of a channel it was removed from,
\* wherever the agent was when the removal arrived.
SessionsStripped == \A s \in idle : sessions[s] \cap removed = {}

\* A pool that sleeps, or has not woken, strands no work: what is queued is
\* flushable, so it wakes the pool.  Only where turns of a channel overlapped
\* (OneTurnPerChannel) can the backoff of one be left over.
SleepStrandsNothing ==
    life # "ready" => \A c \in Channels :
        q.queues[c] \o q.cancelled[c] \o q.withheld[c] # <<>> =>
            \/ c \in ReadyChannels(q) \cup CancelledChannels(q)
            \/ c \in late /\ q.retryAfter[c] = "pending"

\* Every accepted event leaves the harness's tables: by a completed turn, a
\* dead letter, a discard, or the end of the process.
NothingStuck == \A e \in Events : Places(e) > 0 ~> Places(e) = 0

\* A slot whose agent died is filled again, unless the pool sleeps or the
\* process ends.
SlotRecovers ==
    \A s \in Slots : (life = "ready" /\ s \notin idle) ~> (s \in idle \/ life # "ready")

====
