------------------------- MODULE RelaySubscriptions -------------------------
(* Live subscriptions of one relay pod: the registry and its fan-out index   *)
(* (punks-relay/src/subscription.rs), the handlers of REQ and CLOSE, the      *)
(* clean-up of a connection and the eviction from a channel that change it    *)
(* (handlers/req.rs, handlers/close.rs, connection.rs, handlers/              *)
(* side_effects.rs), the reference counts of the Redis topics and the task    *)
(* that keeps Redis subscribed to them (punks-pubsub/src/lib.rs,              *)
(* subscriber.rs), and the delivery of an event (handlers/event.rs).          *)
(*                                                                           *)
(* A REQ runs in a task of its own while CLOSE and the clean-up run in the    *)
(* connection's reader, so every step that another thread can come between   *)
(* is an action.  One community; every filter asks for the same kind, so the  *)
(* index has one key per topic, and an empty value stands for an absent key.  *)
(* Filters, access rules and payloads are abstracted: a request is granted    *)
(* any part of what it asks for.                                              *)
EXTENDS Naturals, FiniteSets, Sequences

CONSTANTS
    Conns,        \* WebSocket connections
    Subs,         \* subscription ids a client uses
    Channels,     \* channels, each with a Redis topic
    Global,       \* the topic of events that belong to no channel
    Reqs,         \* REQ messages, each handled by one spawned task
    Evictor,      \* the handler that evicts from a channel
    Events,       \* events accepted by the relay
    TopicOf,      \* the topic of each event
    Remote,       \* the events that another pod accepted
    MaxSubs,      \* MAX_SUBSCRIPTIONS
    Quotas,       \* bounds on what the environment does
    None

Topics == Channels \cup {Global}
Pairs == Conns \X Subs
Jobs == Reqs \cup Conns \cup {Evictor}

\* SubscriptionScope: the global feed, or some channels.
Scopes == {{Global}} \cup ((SUBSET Channels) \ {{}})

ASSUME NamesAssumption ==
    /\ Global \notin Channels
    /\ None \notin Topics \cup Conns \cup Subs \cup Reqs \cup {Evictor}
    /\ Evictor \notin Reqs \cup Conns
    /\ Reqs \cap Conns = {}
ASSUME FiniteAssumption == IsFiniteSet(Conns) /\ IsFiniteSet(Subs) /\ IsFiniteSet(Reqs)
ASSUME EventsAssumption == TopicOf \in [Events -> Topics] /\ Remote \subseteq Events
ASSUME BoundsAssumption ==
    /\ MaxSubs \in Nat
    /\ Quotas \subseteq [closes : Nat, drops : Nat, evictions : Nat, joins : Nat, faults : Nat,
                         events : SUBSET Events, scopes : SUBSET Scopes]

VARIABLES
    conn,     \* "open", "closing" or "gone"
    local,    \* ConnectionState.subscriptions: the ids that count to the limit
    subs,     \* SubscriptionRegistry.subs: the scope of each subscription, {} when absent
    index,    \* the fan-out index: topic -> subscriptions
    job,      \* the handlers under way
    desired,  \* desired_topics: local interest in each topic
    commands, \* the channel to the Redis subscriber task
    timers,   \* debounced unsubscribes that have not fired
    link,     \* the Redis pub/sub connection: "down", "joining" or "up"
    active,   \* topics subscribed on that connection
    stream,   \* messages Redis has pushed to that connection
    event,    \* how far the acceptance of each event is
    marks,    \* local_event_ids: the events whose echo is to be ignored
    fan,      \* the delivery of each event, by its dispatch and by its echo
    got,      \* history: the events sent on each subscription since its REQ
    serving,  \* history: the REQ that a registered subscription comes from
    swept,    \* history: index entries deleted along with a key found empty
    strays,   \* history: releases of a topic the subscription had given up
    unsure,   \* history: events whose mark was gone before their echo
    quota     \* bound: the CLOSE frames, disconnections, evictions, connections to
              \* Redis, failures and events that may still come, and
              \* the scopes a REQ may ask for

registryVars == <<local, subs, index>>
topicVars == <<desired, commands, timers>>
redisVars == <<link, active, stream>>
eventVars == <<event, marks, fan>>
historyVars == <<got, serving, swept, strays, unsure>>
vars == <<conn, registryVars, job, topicVars, redisVars, eventVars, historyVars, quota>>

---------------------------------------------------------------------------
(* Handlers.  `pc` is where the handler stands; `drop` the index entries it   *)
(* has to remove, `key` an index key it found empty and is about to remove,   *)
(* `rel` the topics it has to release, `todo` the topics it has to index or   *)
(* retain (for an eviction, the connections left), `post` a topic whose       *)
(* Subscribe command it is sending, `rest` and `lost` the subscriptions an    *)
(* eviction has yet to visit and has ended.                                   *)

IdleJob == [pc |-> "idle", conn |-> None, sub |-> None, scope |-> {}, drop |-> {}, key |-> None,
            rel |-> {}, todo |-> {}, post |-> None, rest |-> {}, lost |-> {}]

\* No handler holds the shard lock of a connection's subscriptions.
Free(c) == \A j \in Jobs : ~(job[j].pc = "unindex" /\ job[j].conn = c)

Registered(t) == {p \in Pairs : t \in subs[p[1]][p[2]]}

Deliveries == Events \X {"dispatch", "echo"}

Init ==
    /\ conn = [c \in Conns |-> "open"]
    /\ local = [c \in Conns |-> {}]
    /\ subs = [c \in Conns |-> [s \in Subs |-> {}]]
    /\ index = [t \in Topics |-> {}]
    /\ job = [j \in Jobs |-> IdleJob]
    /\ desired = [t \in Topics |-> 0]
    /\ commands = <<>>
    /\ timers = [t \in Topics |-> 0]
    /\ link = "down" /\ active = {} /\ stream = {}
    /\ event = [e \in Events |-> "new"]
    /\ marks = {}
    /\ fan = [d \in Deliveries |-> [pc |-> "none", cand |-> {}, matched |-> {}]]
    /\ got = [p \in Pairs |-> {}]
    /\ serving = [p \in Pairs |-> None]
    /\ swept = {}
    /\ strays = [t \in Topics |-> 0]
    /\ unsure = {}
    /\ quota \in Quotas

Spend(what) == quota[what] > 0 /\ quota' = [quota EXCEPT ![what] = @ - 1]

---------------------------------------------------------------------------
(* What a handler does next once a phase of it has nothing left.              *)

\* After the last release: a REQ retains, a CLOSE is acknowledged, a clean-up
\* deregisters the connection, an eviction goes to its next connection.
Released(j, rec) ==
    IF rec.rel # {} THEN [rec EXCEPT !.pc = "release"]
    ELSE CASE j \in Reqs   -> [rec EXCEPT !.pc = "retain", !.todo = rec.scope]
           [] j \in Conns  -> IF conn[j] = "open" THEN IdleJob
                                                 ELSE [IdleJob EXCEPT !.pc = "deregister"]
           [] j = Evictor  -> [rec EXCEPT !.pc = "visit"]

\* After the last index entry.
Unindexed(j, rec) ==
    IF rec.drop # {} \/ rec.key # None THEN rec
    ELSE CASE j \in Reqs   -> [rec EXCEPT !.pc = "insert"]
           [] j \in Conns  -> Released(j, rec)
           [] j = Evictor  -> [rec EXCEPT !.pc = "evict"]

---------------------------------------------------------------------------
(* Removal from the index: remove_from_index.                                 *)

\* Variant: the entries of every subscription of the key are removed.
UnindexAll(j, p) ==
    /\ index' = [index EXCEPT ![p[2]] = {}]
    /\ job' = [job EXCEPT ![j] = Unindexed(j, [job[j] EXCEPT !.drop = job[j].drop \ {p}])]

\* `entries.retain`, and when nothing is left the guard is dropped before the
\* key is removed: the handler remembers the key.
Unindex(j, p) ==
    LET left == index[p[2]] \ {<<job[j].conn, p[1]>>}
        key  == IF index[p[2]] # {} /\ left = {} THEN p[2] ELSE None
    IN /\ index' = [index EXCEPT ![p[2]] = left]
       /\ job' = [job EXCEPT ![j] = Unindexed(j, [job[j] EXCEPT !.drop = job[j].drop \ {p},
                                                                !.key = key])]

RemoveFromIndex(j) ==
    /\ job[j].pc \in {"unindex", "unindexFree"} /\ job[j].key = None
    /\ \E p \in job[j].drop : Unindex(j, p)
    /\ UNCHANGED <<conn, local, subs, topicVars, redisVars, eventVars, historyVars, quota>>

\* `index.remove(&key)`: whatever was pushed in between goes with it.
RemoveKey(j) ==
    LET key == job[j].key IN
    /\ key # None
    /\ index' = [index EXCEPT ![key] = {}]
    /\ swept' = swept \cup {<<p, key>> : p \in index[key]}
    /\ job' = [job EXCEPT ![j] = Unindexed(j, [job[j] EXCEPT !.key = None])]
    /\ UNCHANGED <<conn, local, subs, topicVars, redisVars, eventVars, got, serving, strays,
                   unsure, quota>>

\* remove_subscription up to the index: the entry leaves the registry, and the
\* lock is kept while there is something to remove.
TakeSubscription(j, c, s) ==
    LET found == {s} \X subs[c][s] IN
    /\ Free(c)
    /\ subs' = [subs EXCEPT ![c][s] = {}]
    /\ serving' = [serving EXCEPT ![<<c, s>>] = None]
    /\ job' = [job EXCEPT ![j] = Unindexed(j, [job[j] EXCEPT !.pc = "unindex", !.conn = c,
                                                             !.drop = found, !.rel = found])]

---------------------------------------------------------------------------
(* Topics: retain_topic and release_topic.                                    *)

\* Variant: the count is decremented whatever it is.
ReleaseUnchecked(t) ==
    /\ desired' = [desired EXCEPT ![t] = @ - 1]
    /\ timers' = [timers EXCEPT ![t] = IF desired[t] = 1 THEN @ + 1 ELSE @]

\* Releasing a topic nobody retains does nothing; releasing the last interest
\* starts the debounce.
ReleaseTopic(t) ==
    /\ desired' = [desired EXCEPT ![t] = IF @ = 0 THEN 0 ELSE @ - 1]
    /\ timers' = [timers EXCEPT ![t] = IF desired[t] = 1 THEN @ + 1 ELSE @]

Release(j) ==
    /\ job[j].pc = "release"
    /\ \E p \in job[j].rel :
         /\ ReleaseTopic(p[2])
         /\ job' = [job EXCEPT ![j] = Released(j, [job[j] EXCEPT !.rel = job[j].rel \ {p}])]
    /\ UNCHANGED <<conn, registryVars, commands, redisVars, eventVars, historyVars, quota>>

\* Variant: only the first interest in a topic is counted.
RetainFirstOnly(r) ==
    /\ job[r].pc = "retain" /\ job[r].post = None
    /\ \E t \in job[r].todo :
         /\ desired' = [desired EXCEPT ![t] = 1]
         /\ job' = [job EXCEPT ![r] = [job[r] EXCEPT
                       !.todo = job[r].todo \ {t},
                       !.post = IF desired[t] = 0 THEN t ELSE None]]
    /\ UNCHANGED <<conn, registryVars, commands, timers, redisVars, eventVars, historyVars,
                   quota>>

\* The count goes up under the lock; the first retain then sends Subscribe.
Retain(r) ==
    /\ job[r].pc = "retain" /\ job[r].post = None
    /\ \E t \in job[r].todo :
         /\ desired' = [desired EXCEPT ![t] = @ + 1]
         /\ job' = [job EXCEPT ![r] = [job[r] EXCEPT
                       !.todo = job[r].todo \ {t},
                       !.post = IF desired[t] = 0 THEN t ELSE None]]
    /\ UNCHANGED <<conn, registryVars, commands, timers, redisVars, eventVars, historyVars,
                   quota>>

PostSubscribe(r) ==
    /\ job[r].post # None
    /\ commands' = Append(commands, <<"subscribe", job[r].post>>)
    /\ job' = [job EXCEPT ![r].post = None]
    /\ UNCHANGED <<conn, registryVars, desired, timers, redisVars, eventVars, historyVars,
                   quota>>

---------------------------------------------------------------------------
(* REQ: handle_req, in a task of its own.                                     *)

\* recv_loop reads the frame and spawns the task; the reader is free at once.
SpawnReq(c, s, scope, r) ==
    /\ conn[c] = "open" /\ job[c].pc = "idle" /\ job[r].pc = "idle"
    /\ job' = [job EXCEPT ![r] = [job[r] EXCEPT !.pc = "check", !.conn = c, !.sub = s,
                                                !.scope = scope]]
    /\ UNCHANGED <<conn, registryVars, topicVars, redisVars, eventVars, historyVars, quota>>

\* The limit, then access: the task goes on with the part it is granted; when
\* that is nothing, or the database fails, it answers CLOSED.
CheckReq(r) ==
    LET c == job[r].conn IN
    /\ job[r].pc = "check"
    /\ \/ /\ job[r].sub \in local[c] \/ Cardinality(local[c]) < MaxSubs
          /\ \E granted \in (SUBSET job[r].scope) \ {{}} :
               job' = [job EXCEPT ![r] = [job[r] EXCEPT !.pc = "replace", !.scope = granted]]
       \/ job' = [job EXCEPT ![r].pc = "refused"]
    /\ UNCHANGED <<conn, registryVars, topicVars, redisVars, eventVars, historyVars, quota>>

\* The id is counted; register_with_scope: a subscription with the same id goes
\* first ...
ReplaceSubscription(r) ==
    /\ job[r].pc = "replace"
    /\ local' = [local EXCEPT ![job[r].conn] = @ \cup {job[r].sub}]
    /\ TakeSubscription(r, job[r].conn, job[r].sub)
    /\ UNCHANGED <<conn, index, topicVars, redisVars, eventVars, got, swept, strays,
                   unsure, quota>>

\* ... then the entry is inserted under a lock of its own ...
InsertSubscription(r) ==
    LET c == job[r].conn  s == job[r].sub IN
    /\ job[r].pc = "insert" /\ Free(c)
    /\ subs' = [subs EXCEPT ![c][s] = job[r].scope]
    /\ job' = [job EXCEPT ![r] = [job[r] EXCEPT !.pc = "push", !.todo = job[r].scope]]
    /\ got' = [got EXCEPT ![<<c, s>>] = {}]
    /\ serving' = [serving EXCEPT ![<<c, s>>] = r]
    /\ swept' = {w \in swept : w[1] # <<c, s>>}
    /\ UNCHANGED <<conn, local, index, topicVars, redisVars, eventVars, strays, unsure, quota>>

\* ... and pushed into the index key by key.
PushIndex(r) ==
    /\ job[r].pc = "push"
    /\ \E t \in job[r].todo :
         /\ index' = [index EXCEPT ![t] = @ \cup {<<job[r].conn, job[r].sub>>}]
         /\ job' = [job EXCEPT ![r] =
                       LET rec == [job[r] EXCEPT !.todo = job[r].todo \ {t}]
                       IN  IF rec.todo = {} THEN Released(r, rec) ELSE rec]
    /\ UNCHANGED <<conn, local, subs, topicVars, redisVars, eventVars, historyVars, quota>>

\* The history is read and sent, then EOSE.  A failed query ends it early, and
\* EOSE is sent all the same.
SendHistory(r) ==
    LET p == <<job[r].conn, job[r].sub>> IN
    /\ job[r].pc = "retain" /\ job[r].todo = {} /\ job[r].post = None
    /\ \/ /\ got' = [got EXCEPT ![p] =
                       @ \cup {e \in Events : event[e] # "new" /\ TopicOf[e] \in job[r].scope}]
          /\ job' = [job EXCEPT ![r].pc = "eose"]
          /\ UNCHANGED quota
       \/ /\ Spend("faults")
          /\ job' = [job EXCEPT ![r].pc = "eoseOnly"]
          /\ UNCHANGED got
    /\ UNCHANGED <<conn, registryVars, topicVars, redisVars, eventVars, serving, swept, strays,
                   unsure>>

---------------------------------------------------------------------------
(* CLOSE and the end of a connection, in the connection's reader.             *)

\* handle_close: the id is forgotten, the subscription removed, what it held
\* released, and CLOSED sent.
CloseSubscription(c, s) ==
    /\ conn[c] = "open" /\ job[c].pc = "idle"
    /\ Spend("closes")
    /\ local' = [local EXCEPT ![c] = @ \ {s}]
    /\ TakeSubscription(c, c, s)
    /\ UNCHANGED <<conn, index, topicVars, redisVars, eventVars, got, swept, strays, unsure>>

\* The socket closes, or the connection is cancelled: recv_loop returns.
Disconnect(c) ==
    /\ conn[c] = "open" /\ job[c].pc = "idle"
    /\ Spend("drops")
    /\ conn' = [conn EXCEPT ![c] = "closing"]
    /\ job' = [job EXCEPT ![c].pc = "cleanup"]
    /\ UNCHANGED <<registryVars, topicVars, redisVars, eventVars, historyVars>>

\* remove_connection: the whole entry leaves the registry, and its index
\* entries are removed without the lock.
RemoveConnection(c) ==
    LET found == {p \in Subs \X Topics : p[2] \in subs[c][p[1]]} IN
    /\ job[c].pc = "cleanup" /\ Free(c)
    /\ subs' = [subs EXCEPT ![c] = [s \in Subs |-> {}]]
    /\ serving' = [p \in Pairs |-> IF p[1] = c THEN None ELSE serving[p]]
    /\ job' = [job EXCEPT ![c] = Unindexed(c, [job[c] EXCEPT !.pc = "unindexFree", !.conn = c,
                                                             !.drop = found, !.rel = found])]
    /\ UNCHANGED <<conn, local, index, topicVars, redisVars, eventVars, got, swept, strays,
                   unsure, quota>>

Deregister(c) ==
    /\ job[c].pc = "deregister"
    /\ conn' = [conn EXCEPT ![c] = "gone"]
    /\ job' = [job EXCEPT ![c] = IdleJob]
    /\ UNCHANGED <<registryVars, topicVars, redisVars, eventVars, historyVars, quota>>

---------------------------------------------------------------------------
(* Eviction from a channel.                                                   *)

\* A member is removed or leaves: the member's connections; or the channel
\* closes for everyone: the connections the index has for it.
StartEviction(ch) ==
    /\ job[Evictor].pc = "idle"
    /\ Spend("evictions")
    /\ \E targets \in {{c} : c \in {d \in Conns : conn[d] # "gone"}}
                      \cup {{p[1] : p \in index[ch]}} :
         job' = [job EXCEPT ![Evictor] = [job[Evictor] EXCEPT !.pc = "visit", !.scope = {ch},
                                                              !.todo = targets]]
    /\ UNCHANGED <<conn, registryVars, topicVars, redisVars, eventVars, historyVars>>

\* remove_channel_subscriptions_scoped notes the ids that have the channel.
VisitConnection(c) ==
    LET found == {s \in Subs : job[Evictor].scope \subseteq subs[c][s]} IN
    /\ job[Evictor].pc = "visit" /\ c \in job[Evictor].todo /\ Free(c)
    /\ job' = [job EXCEPT ![Evictor] = [job[Evictor] EXCEPT
                  !.todo = job[Evictor].todo \ {c}, !.conn = c, !.rest = found, !.lost = {},
                  !.pc = IF found = {} THEN "visit" ELSE "evict"]]
    /\ UNCHANGED <<conn, registryVars, topicVars, redisVars, eventVars, historyVars, quota>>

EndEviction ==
    /\ job[Evictor].pc = "visit" /\ job[Evictor].todo = {}
    /\ job' = [job EXCEPT ![Evictor] = IdleJob]
    /\ UNCHANGED <<conn, registryVars, topicVars, redisVars, eventVars, historyVars, quota>>

\* It comes back to each id: a subscription that is gone or global is passed
\* over, any other loses the channel and counts as updated.
EvictSubscription(s) ==
    LET ev == job[Evictor]
        c == ev.conn
        ch == CHOOSE t \in ev.scope : TRUE
        left == subs[c][s] \ ev.scope
    IN /\ ev.pc = "evict" /\ s \in ev.rest /\ Free(c)
       /\ \/ /\ subs[c][s] \in {{}, {Global}}
             /\ job' = [job EXCEPT ![Evictor] = [ev EXCEPT !.rest = ev.rest \ {s}]]
             /\ UNCHANGED <<subs, serving, strays>>
          \/ /\ subs[c][s] \notin {{}, {Global}}
             /\ subs' = [subs EXCEPT ![c][s] = left]
             /\ serving' = [serving EXCEPT ![<<c, s>>] = IF left = {} THEN None ELSE @]
             /\ strays' = [strays EXCEPT ![ch] = IF ch \in subs[c][s] THEN @ ELSE @ + 1]
             /\ job' = [job EXCEPT ![Evictor] = [ev EXCEPT
                           !.pc = "unindex", !.rest = ev.rest \ {s}, !.drop = {<<s, ch>>},
                           !.rel = ev.rel \cup {<<s, ch>>},
                           !.lost = IF left = {} THEN ev.lost \cup {s} ELSE ev.lost]]
       /\ UNCHANGED <<conn, local, index, topicVars, redisVars, eventVars, got, swept, unsure,
                      quota>>

\* evict_conn_channel_subscriptions then forgets the ended ones in the
\* connection's own map and releases the channel once per update.
FinishConnection ==
    LET ev == job[Evictor] IN
    /\ ev.pc = "evict" /\ ev.rest = {}
    /\ local' = [local EXCEPT ![ev.conn] = IF conn[ev.conn] = "gone" THEN @ ELSE @ \ ev.lost]
    /\ job' = [job EXCEPT ![Evictor] = Released(Evictor, ev)]
    /\ UNCHANGED <<conn, subs, index, topicVars, redisVars, eventVars, historyVars, quota>>

---------------------------------------------------------------------------
(* The Redis subscriber task: run_subscriber and connect_and_subscribe.       *)

\* The topics with interest are read, then subscribed one after the other.
Join ==
    /\ link = "down"
    /\ Spend("joins")
    /\ link' = "joining"
    /\ active' = {t \in Topics : desired[t] > 0}
    /\ UNCHANGED <<conn, registryVars, job, topicVars, stream, eventVars, historyVars>>

Joined ==
    /\ link = "joining"
    /\ link' = "up"
    /\ UNCHANGED <<conn, registryVars, job, topicVars, active, stream, eventVars, historyVars,
                   quota>>

\* The connection ends: what Redis had pushed to it is gone.
LinkFails ==
    /\ link # "down"
    /\ Spend("faults")
    /\ link' = "down" /\ active' = {} /\ stream' = {}
    /\ UNCHANGED <<conn, registryVars, job, topicVars, eventVars, historyVars>>

\* The debounce elapses.
SendUnsubscribe(t) ==
    /\ timers[t] > 0
    /\ timers' = [timers EXCEPT ![t] = @ - 1]
    /\ commands' = Append(commands, <<"unsubscribe", t>>)
    /\ UNCHANGED <<conn, registryVars, job, desired, redisVars, eventVars, historyVars, quota>>

\* Variant: an unsubscribe does not look at the count again.
UnsubscribeAlways(command) ==
    IF command[1] = "subscribe" THEN active \cup {command[2]} ELSE active \ {command[2]}

\* What the topics subscribed are after a command.
Commanded(command) ==
    CASE command[1] = "subscribe"     -> active \cup {command[2]}
      [] command[1] = "unsubscribe"   ->
           IF desired[command[2]] = 0 THEN active \ {command[2]} ELSE active

HandleCommand ==
    /\ link = "up" /\ commands # <<>>
    /\ active' = Commanded(Head(commands))
    /\ commands' = Tail(commands)
    /\ UNCHANGED <<conn, registryVars, job, desired, timers, link, stream, eventVars, historyVars,
                   quota>>

---------------------------------------------------------------------------
(* Delivery of an event.                                                      *)

\* The event is committed, here or by another pod.
StoreEvent(e) ==
    /\ event[e] = "new" /\ e \in quota.events
    /\ event' = [event EXCEPT ![e] = "stored"]
    /\ UNCHANGED <<conn, registryVars, job, topicVars, redisVars, marks, fan, historyVars,
                   quota>>

\* Variant: the event is published without the mark.
MarkNothing(e) ==
    /\ event[e] = "stored" /\ e \notin Remote
    /\ event' = [event EXCEPT ![e] = "marked"]
    /\ UNCHANGED <<conn, registryVars, job, topicVars, redisVars, marks, fan, historyVars, quota>>

\* dispatch_persistent_event_inner marks its own event before it publishes it.
MarkEvent(e) ==
    /\ event[e] = "stored" /\ e \notin Remote
    /\ event' = [event EXCEPT ![e] = "marked"]
    /\ marks' = marks \cup {e}
    /\ UNCHANGED <<conn, registryVars, job, topicVars, redisVars, fan, historyVars, quota>>

\* local_event_ids is a cache of 60 seconds and 10 000 entries: a mark may go
\* before its echo comes.
MarkLapses(e) ==
    /\ e \in marks
    /\ Spend("faults")
    /\ marks' = marks \ {e}
    /\ unsure' = unsure \cup {e}
    /\ UNCHANGED <<conn, registryVars, job, topicVars, redisVars, event, fan, got, serving,
                   swept, strays>>

Pushed(e) == IF link # "down" /\ TopicOf[e] \in active THEN stream \cup {e} ELSE stream

\* fan_out_scoped copies the index entry of the event's topic.
Snapshot(e, way) == [fan EXCEPT ![<<e, way>>] = [pc |-> "match", cand |-> index[TopicOf[e]],
                                                matched |-> {}]]

\* A publication that reports an error may have reached Redis all the same.
PublishEvent(e) ==
    /\ event[e] = "marked"
    /\ event' = [event EXCEPT ![e] = "published"]
    /\ \/ /\ stream' = Pushed(e)
          /\ UNCHANGED <<marks, unsure, quota>>
       \/ /\ Spend("faults")
          /\ stream' \in {stream, Pushed(e)}
          /\ marks' = marks \ {e}
          /\ unsure' = unsure \cup {e}
    /\ UNCHANGED <<conn, registryVars, job, topicVars, link, active, fan, got, serving, swept,
                   strays>>

StartDispatch(e) ==
    /\ event[e] = "published" /\ e \notin Remote
    /\ event' = [event EXCEPT ![e] = "dispatched"]
    /\ fan' = Snapshot(e, "dispatch")
    /\ UNCHANGED <<conn, registryVars, job, topicVars, redisVars, marks, historyVars, quota>>

\* Another pod publishes its event.
RemotePublish(e) ==
    /\ event[e] = "stored" /\ e \in Remote
    /\ event' = [event EXCEPT ![e] = "published"]
    /\ stream' = Pushed(e)
    /\ UNCHANGED <<conn, registryVars, job, topicVars, link, active, marks, fan, historyVars,
                   quota>>

\* fan_out_pubsub_event: the echo of an event of this pod is swallowed.
ReceiveEvent(e) ==
    /\ link = "up" /\ e \in stream
    /\ stream' = stream \ {e}
    /\ marks' = marks \ {e}
    /\ fan' = IF e \in marks THEN fan ELSE Snapshot(e, "echo")
    /\ UNCHANGED <<conn, registryVars, job, topicVars, link, active, event, historyVars, quota>>

\* push_match looks every candidate up again.
MatchCandidate(d, p) ==
    LET hit == {q \in {p} : TopicOf[d[1]] \in subs[p[1]][p[2]]} IN
    /\ fan[d].pc = "match" /\ p \in fan[d].cand /\ Free(p[1])
    /\ fan' = [fan EXCEPT ![d] = [pc |-> "match", cand |-> fan[d].cand \ {p},
                                   matched |-> fan[d].matched \cup hit]]
    /\ UNCHANGED <<conn, registryVars, job, topicVars, redisVars, event, marks, historyVars,
                   quota>>

\* filter_fanout_by_access passes the connections of the community, then the
\* frames are sent.
SendMatches(d) ==
    /\ fan[d].pc = "match" /\ fan[d].cand = {}
    /\ fan' = [fan EXCEPT ![d].pc = "done"]
    /\ got' = [p \in Pairs |-> IF p \in fan[d].matched /\ conn[p[1]] # "gone"
                               THEN got[p] \cup {d[1]} ELSE got[p]]
    /\ UNCHANGED <<conn, registryVars, job, topicVars, redisVars, event, marks, serving, swept,
                   strays, unsure, quota>>

---------------------------------------------------------------------------
ReqStep(r) ==
    \/ CheckReq(r) \/ ReplaceSubscription(r) \/ InsertSubscription(r)
    \/ PushIndex(r) \/ Retain(r) \/ PostSubscribe(r) \/ SendHistory(r)

ReaderStep(c) ==
    \/ \E s \in Subs : CloseSubscription(c, s)
    \/ Disconnect(c) \/ RemoveConnection(c) \/ Deregister(c)

EvictionStep ==
    \/ \E ch \in Channels : StartEviction(ch)
    \/ \E c \in Conns : VisitConnection(c)
    \/ \E s \in Subs : EvictSubscription(s)
    \/ EndEviction \/ FinishConnection

RedisStep ==
    \/ Join \/ Joined \/ LinkFails \/ HandleCommand
    \/ \E t \in Topics : SendUnsubscribe(t)

EventStep(e) ==
    \/ StoreEvent(e) \/ MarkEvent(e) \/ MarkLapses(e) \/ PublishEvent(e) \/ StartDispatch(e)
    \/ RemotePublish(e) \/ ReceiveEvent(e)

Next ==
    \/ \E c \in Conns, s \in Subs, scope \in quota.scopes, r \in Reqs : SpawnReq(c, s, scope, r)
    \/ \E r \in Reqs : ReqStep(r)
    \/ \E c \in Conns : ReaderStep(c)
    \/ EvictionStep
    \/ \E j \in Jobs : RemoveFromIndex(j) \/ RemoveKey(j) \/ Release(j)
    \/ RedisStep
    \/ \E e \in Events : EventStep(e)
    \/ \E d \in Deliveries : SendMatches(d) \/ \E p \in Pairs : MatchCandidate(d, p)

Spec == Init /\ [][Next]_vars

---------------------------------------------------------------------------
(* Properties.                                                                *)

Jobs_ == [pc : {"idle", "check", "refused", "replace", "unindex", "unindexFree",
                "insert", "push", "release", "retain", "eose", "eoseOnly", "cleanup",
                "deregister", "visit", "evict"},
          conn : Conns \cup {None}, sub : Subs \cup {None}, scope : SUBSET Topics,
          drop : SUBSET (Subs \X Topics), key : Topics \cup {None},
          rel : SUBSET (Subs \X Topics), todo : SUBSET (Topics \cup Conns),
          post : Topics \cup {None}, rest : SUBSET Subs, lost : SUBSET Subs]

\* Types; a registered scope is the global topic alone or channels only, as the
\* SubscriptionScope enum has it.
TypeOK ==
    /\ conn \in [Conns -> {"open", "closing", "gone"}]
    /\ local \in [Conns -> SUBSET Subs]
    /\ subs \in [Conns -> [Subs -> Scopes \cup {{}}]]
    /\ index \in [Topics -> SUBSET Pairs]
    /\ \A j \in Jobs : job[j] \in Jobs_
    /\ desired \in [Topics -> Nat]
    /\ \A i \in DOMAIN commands : commands[i] \in {"subscribe", "unsubscribe"} \X Topics
    /\ timers \in [Topics -> Nat]
    /\ link \in {"down", "joining", "up"} /\ active \subseteq Topics /\ stream \subseteq Events
    /\ event \in [Events -> {"new", "stored", "marked", "published", "dispatched"}]
    /\ marks \subseteq Events
    /\ fan \in [Deliveries -> [pc : {"none", "match", "done"}, cand : SUBSET Pairs,
                               matched : SUBSET Pairs]]

\* The subscription p, registered by a REQ that has sent its history and EOSE,
\* has missed the event e although a delivery of e is over.
Missed(p, e) ==
    /\ serving[p] # None /\ job[serving[p]].pc = "eose"
    /\ conn[p[1]] = "open"
    /\ TopicOf[e] \in subs[p[1]][p[2]]
    /\ \E way \in {"dispatch", "echo"} : fan[<<e, way>>].pc = "done"
    /\ e \notin got[p]

\* A subscription that has had EOSE has every delivered event of its scope, from
\* the history or from the fan-out, however registration, replacement, eviction
\* and delivery interleave - except when its index entry was deleted with a key
\* that remove_from_index had found empty.
NoGap == \A p \in Pairs, e \in Events : Missed(p, e) => <<p, TopicOf[e]>> \in swept

\* Each subscription that has had EOSE receives the events of its scope.
EveryMatchIsReached == \A p \in Pairs, e \in Events : ~Missed(p, e)

OwedRetains(t) ==
    {r \in Reqs : \/ job[r].pc \in {"push", "release"} /\ t \in job[r].scope
                  \/ job[r].pc = "retain" /\ t \in job[r].todo}

OwedReleases(t) == {p \in Jobs \X Subs : <<p[2], t>> \in job[p[1]].rel}

\* The reference count of a topic falls behind the registry in one way only: the
\* count, with the retains under way, covers every registered subscription and
\* every release under way but for one per stale eviction, a release that
\* remove_channel_subscriptions_scoped reports for a subscription which gave the
\* channel up after the eviction had noted it.
CountCoversRegistry ==
    \A t \in Topics :
        desired[t] + Cardinality(OwedRetains(t)) + strays[t]
            >= Cardinality(Registered(t)) + Cardinality(OwedReleases(t))

\* A topic is let go only after the last local interest in it is released: one
\* with a registered subscription has a count above zero, or a REQ about to
\* retain it.
RegisteredIsCounted ==
    \A t \in Topics : Registered(t) # {} => desired[t] > 0 \/ OwedRetains(t) # {}

\* A topic with local interest is subscribed at Redis whenever the link is up
\* and no Subscribe for it is on its way: neither a debounced unsubscribe nor a
\* reconnection loses one.
InterestIsSubscribed ==
    \A t \in Topics :
        (/\ link = "up" /\ desired[t] > 0
         /\ \A r \in Reqs : job[r].post # t
         /\ \A i \in DOMAIN commands : commands[i] # <<"subscribe", t>>) => t \in active

\* An event this pod dispatched is not delivered again when Redis echoes it:
\* only one whose mark was given up with a failed publication, or was dropped by
\* the cache of local_event_ids before the echo came, goes out twice.
EchoIsSwallowed == \A e \in Events \ Remote : fan[<<e, "echo">>].pc = "none" \/ e \in unsure
=============================================================================
