---------------------- MODULE RelaySubscriptionsProofs ----------------------
(***************************************************************************)
(* What a relay pod guarantees about the echo of its own events, for every *)
(* set of connections, subscriptions, channels and events and every        *)
(* interleaving of its tasks.                                              *)
(***************************************************************************)
EXTENDS RelaySubscriptions, TLAPS

\* The part of the type invariant the argument needs.
DeliveryTypes ==
    /\ event \in [Events -> {"new", "stored", "marked", "published", "dispatched"}]
    /\ DOMAIN fan = Deliveries
    /\ \A d \in Deliveries :
         fan[d] = [pc |-> fan[d].pc, cand |-> fan[d].cand, matched |-> fan[d].matched]

\* An event of this pod is on the Redis connection only after it was marked
\* and published, and as long as it is there the mark is, unless the
\* publication had failed or the cache has dropped the mark.
EchoIsMarked ==
    \A e \in Events \ Remote :
      /\ event[e] \in {"new", "stored", "marked"} => e \notin stream
      /\ event[e] = "marked" => e \in marks \/ e \in unsure
      /\ e \in stream => e \in marks \/ e \in unsure

IndInv == DeliveryTypes /\ EchoIsMarked /\ EchoIsSwallowed

-----------------------------------------------------------------------------
\* Before any event is accepted nothing is on its way.
LEMMA InitIndInv == Init => IndInv
<1> SUFFICES ASSUME Init PROVE IndInv
    OBVIOUS
<1>1. DeliveryTypes
    BY DEF Init, DeliveryTypes
<1>2. EchoIsMarked
    BY DEF Init, EchoIsMarked
<1>3. EchoIsSwallowed
    BY DEF Init, EchoIsSwallowed, Deliveries
<1> QED BY <1>1, <1>2, <1>3 DEF IndInv

\* Steps that deliver nothing; the connection to Redis may be lost.
LEMMA Undelivered ==
    ASSUME IndInv, UNCHANGED <<event, marks, fan, unsure>>, stream' \subseteq stream
    PROVE  IndInv'
BY DEF IndInv, DeliveryTypes, EchoIsMarked, EchoIsSwallowed

\* The handlers of REQ, CLOSE, the end of a connection and the eviction touch
\* neither events nor the Redis connection.
LEMMA HandlersUndelivered ==
    ASSUME \/ \E c \in Conns, s \in Subs, scope \in quota.scopes, r \in Reqs :
                SpawnReq(c, s, scope, r)
           \/ \E r \in Reqs : ReqStep(r)
           \/ \E c \in Conns : ReaderStep(c)
           \/ EvictionStep
           \/ \E j \in Jobs : RemoveFromIndex(j) \/ RemoveKey(j) \/ Release(j)
    PROVE  UNCHANGED <<event, marks, fan, unsure, stream>>
<1>1. ASSUME NEW r \in Reqs, ReqStep(r)
      PROVE  UNCHANGED <<event, marks, fan, unsure, stream>>
    BY <1>1 DEF ReqStep, CheckReq, ReplaceSubscription, InsertSubscription, PushIndex,
                Retain, PostSubscribe, SendHistory, eventVars, redisVars, historyVars
<1>2. ASSUME NEW c \in Conns, ReaderStep(c)
      PROVE  UNCHANGED <<event, marks, fan, unsure, stream>>
    BY <1>2 DEF ReaderStep, CloseSubscription, Disconnect, RemoveConnection, Deregister,
                eventVars, redisVars, historyVars
<1>3. CASE EvictionStep
    BY <1>3 DEF EvictionStep, StartEviction, VisitConnection, EvictSubscription,
                EndEviction, FinishConnection, eventVars, redisVars, historyVars
<1>4. ASSUME NEW j \in Jobs, RemoveFromIndex(j) \/ RemoveKey(j) \/ Release(j)
      PROVE  UNCHANGED <<event, marks, fan, unsure, stream>>
    BY <1>4 DEF RemoveFromIndex, RemoveKey, Release, eventVars, redisVars, historyVars
<1>5. ASSUME NEW c \in Conns, NEW s \in Subs, NEW scope \in quota.scopes, NEW r \in Reqs,
             SpawnReq(c, s, scope, r)
      PROVE  UNCHANGED <<event, marks, fan, unsure, stream>>
    BY <1>5 DEF SpawnReq, eventVars, redisVars, historyVars
<1> QED BY <1>1, <1>2, <1>3, <1>4, <1>5

\* The subscriber task never adds to what Redis has pushed.
LEMMA RedisUndelivered ==
    ASSUME RedisStep
    PROVE  UNCHANGED <<event, marks, fan, unsure>> /\ stream' \subseteq stream
BY DEF RedisStep, Join, Joined, LinkFails, HandleCommand, SendUnsubscribe,
       eventVars, redisVars, historyVars

\* A new delivery concerns one event in one way.
LEMMA SnapshotOne ==
    ASSUME DeliveryTypes, NEW e \in Events, NEW way \in {"dispatch", "echo"},
           fan' = Snapshot(e, way)
    PROVE  /\ DOMAIN fan' = Deliveries
           /\ \A d \in Deliveries :
                fan'[d] = [pc |-> fan'[d].pc, cand |-> fan'[d].cand, matched |-> fan'[d].matched]
           /\ \A d \in Deliveries : d # <<e, way>> => fan'[d] = fan[d]
BY DEF DeliveryTypes, Snapshot, Deliveries

\* An event goes from its acceptance to its publication and, on this pod, to
\* its dispatch and its echo.
LEMMA EventSteps ==
    ASSUME IndInv, NEW e \in Events, EventStep(e)
    PROVE  IndInv'
<1> USE DEF IndInv
<1>0. \A f \in Events : <<f, "echo">> \in Deliveries /\ <<f, "dispatch">> \in Deliveries
    BY DEF Deliveries
<1>1. CASE StoreEvent(e)
    BY <1>1 DEF StoreEvent, redisVars, historyVars, DeliveryTypes, EchoIsMarked,
                EchoIsSwallowed
<1>2. CASE MarkEvent(e)
    BY <1>2 DEF MarkEvent, redisVars, historyVars, DeliveryTypes, EchoIsMarked,
                EchoIsSwallowed
<1>7. CASE MarkLapses(e)
    BY <1>7 DEF MarkLapses, redisVars, DeliveryTypes, EchoIsMarked, EchoIsSwallowed
<1>3. CASE PublishEvent(e)
  <2>1. /\ event[e] = "marked" /\ event' = [event EXCEPT ![e] = "published"]
        /\ UNCHANGED fan /\ stream' \subseteq stream \cup {e} /\ unsure \subseteq unsure'
        /\ marks \subseteq marks' \cup {e} /\ (e \in marks => e \in marks' \/ e \in unsure')
    BY <1>3 DEF PublishEvent, Pushed
  <2>2. DeliveryTypes' /\ EchoIsSwallowed'
    BY <2>1 DEF DeliveryTypes, EchoIsSwallowed
  <2>3. EchoIsMarked'
    BY <2>1 DEF DeliveryTypes, EchoIsMarked
  <2> QED BY <2>2, <2>3
<1>4. CASE StartDispatch(e)
  <2>1. /\ event[e] = "published" /\ event' = [event EXCEPT ![e] = "dispatched"]
        /\ fan' = Snapshot(e, "dispatch") /\ UNCHANGED <<marks, stream, unsure>>
    BY <1>4 DEF StartDispatch, redisVars, historyVars
  <2>2. DeliveryTypes'
    BY <2>1, SnapshotOne DEF DeliveryTypes
  <2>3. EchoIsMarked'
    BY <2>1 DEF DeliveryTypes, EchoIsMarked
  <2>4. \A f \in Events : fan'[<<f, "echo">>] = fan[<<f, "echo">>]
    BY <1>0, <2>1, SnapshotOne
  <2>5. EchoIsSwallowed'
    BY <2>1, <2>4 DEF EchoIsSwallowed
  <2> QED BY <2>2, <2>3, <2>5
<1>5. CASE RemotePublish(e)
  <2>1. /\ e \in Remote /\ event' = [event EXCEPT ![e] = "published"]
        /\ stream' \subseteq stream \cup {e} /\ UNCHANGED <<marks, fan, unsure>>
    BY <1>5 DEF RemotePublish, Pushed, historyVars
  <2> QED BY <2>1 DEF DeliveryTypes, EchoIsMarked, EchoIsSwallowed
<1>6. CASE ReceiveEvent(e)
  <2>1. /\ e \in stream /\ stream' = stream \ {e} /\ marks' = marks \ {e}
        /\ UNCHANGED <<event, unsure>>
        /\ \/ e \in marks /\ fan' = fan
           \/ e \notin marks /\ fan' = Snapshot(e, "echo")
    BY <1>6 DEF ReceiveEvent, historyVars
  <2>2. EchoIsMarked'
    BY <2>1 DEF EchoIsMarked
  <2>3. CASE fan' = fan
    BY <2>1, <2>2, <2>3 DEF DeliveryTypes, EchoIsSwallowed
  <2>4. CASE e \notin marks /\ fan' = Snapshot(e, "echo")
    <3>1. DeliveryTypes'
      BY <2>1, <2>4, SnapshotOne DEF DeliveryTypes
    <3>2. \A f \in Events : f # e => fan'[<<f, "echo">>] = fan[<<f, "echo">>]
      BY <1>0, <2>4, SnapshotOne
    <3>3. e \in Remote \/ e \in unsure
      BY <2>1, <2>4 DEF EchoIsMarked
    <3>4. EchoIsSwallowed'
      BY <2>1, <3>2, <3>3 DEF EchoIsSwallowed
    <3> QED BY <2>2, <3>1, <3>4
  <2> QED BY <2>1, <2>3, <2>4
<1> QED BY <1>1, <1>2, <1>3, <1>4, <1>5, <1>6, <1>7 DEF EventStep

\* A delivery goes on: it is not a new one.
LEMMA DeliverySteps ==
    ASSUME IndInv, NEW d \in Deliveries,
           SendMatches(d) \/ \E p \in Pairs : MatchCandidate(d, p)
    PROVE  IndInv'
<1> USE DEF IndInv
<1>1. /\ UNCHANGED <<event, marks, stream, unsure>> /\ fan[d].pc = "match"
    BY DEF SendMatches, MatchCandidate, redisVars, historyVars
<1>2. /\ DOMAIN fan' = Deliveries /\ fan'[d].pc # "none"
      /\ fan'[d] = [pc |-> fan'[d].pc, cand |-> fan'[d].cand, matched |-> fan'[d].matched]
      /\ \A f \in Deliveries : f # d => fan'[f] = fan[f]
  <2>1. CASE SendMatches(d)
    BY <2>1 DEF SendMatches, DeliveryTypes
  <2>2. ASSUME NEW p \in Pairs, MatchCandidate(d, p)
        PROVE  /\ DOMAIN fan' = Deliveries /\ fan'[d].pc # "none"
               /\ fan'[d] = [pc |-> fan'[d].pc, cand |-> fan'[d].cand,
                             matched |-> fan'[d].matched]
               /\ \A f \in Deliveries : f # d => fan'[f] = fan[f]
    <3> DEFINE new == [pc |-> "match", cand |-> fan'[d].cand, matched |-> fan'[d].matched]
    <3>1. fan' = [fan EXCEPT ![d] = new]
      BY <2>2 DEF MatchCandidate, DeliveryTypes
    <3>2. new.pc = "match" /\ new = [pc |-> new.pc, cand |-> new.cand, matched |-> new.matched]
      OBVIOUS
    <3> HIDE DEF new
    <3> QED BY <3>1, <3>2 DEF DeliveryTypes
  <2> QED BY <2>1, <2>2
<1>3. DeliveryTypes'
    BY <1>1, <1>2 DEF DeliveryTypes
<1>4. EchoIsMarked'
    BY <1>1 DEF EchoIsMarked
<1>5. EchoIsSwallowed'
    BY <1>1, <1>2 DEF EchoIsSwallowed, Deliveries
<1> QED BY <1>3, <1>4, <1>5

\* Every step keeps the invariant.
LEMMA StepIndInv == IndInv /\ [Next]_vars => IndInv'
<1> SUFFICES ASSUME IndInv, [Next]_vars PROVE IndInv'
    OBVIOUS
<1>1. CASE UNCHANGED vars
    BY <1>1, Undelivered DEF vars, eventVars, redisVars, historyVars
<1>2. CASE RedisStep
    BY <1>2, RedisUndelivered, Undelivered
<1>3. CASE UNCHANGED <<event, marks, fan, unsure, stream>>
    BY <1>3, Undelivered
<1> QED BY <1>1, <1>2, <1>3, HandlersUndelivered, EventSteps, DeliverySteps DEF Next

\* fan_out_pubsub_event never delivers an event a second time that
\* dispatch_persistent_event_inner of the same pod has marked, in whatever
\* order publication, echo, dispatch and the loss of the Redis connection
\* come, as long as the mark lives: only a failed publication, or the cache's
\* time to live or capacity, gives it up before the echo.
THEOREM EchoNeverDelivered == Spec => []EchoIsSwallowed
<1>1. IndInv => EchoIsSwallowed
    BY DEF IndInv
<1> QED BY <1>1, InitIndInv, StepIndInv, PTL DEF Spec
=============================================================================
