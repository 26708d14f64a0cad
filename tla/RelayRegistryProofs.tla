------------------------ MODULE RelayRegistryProofs ------------------------
(***************************************************************************)
(* What the subscription registry of a relay pod guarantees for every set  *)
(* of connections, subscriptions, channels, REQ tasks and events: types,   *)
(* the interest in a topic, the reference counts, and the completeness of  *)
(* the fan-out.                                                            *)
(***************************************************************************)
EXTENDS RelaySubscriptions, FiniteSetTheorems, TLAPS

-----------------------------------------------------------------------------
(* Where the handlers stand *)

ReqPcs == {"idle", "check", "refused", "replace", "unindex", "insert", "push",
           "release", "retain", "eose", "eoseOnly"}

\* A REQ task: who asks for what, and what is left to index, retain and post.
ReqOK(rec) ==
    /\ rec.pc \in ReqPcs
    /\ rec.pc # "idle" => rec.conn \in Conns /\ rec.sub \in Subs /\ rec.scope \in Scopes
    /\ rec.todo \subseteq Topics
    /\ rec.pc = "push" => rec.todo \subseteq rec.scope
    /\ rec.post # None => rec.pc = "retain"

\* The reader of a connection; it cleans up only once the connection has ended.
ReaderOK(c, state, rec) ==
    /\ rec.pc \in {"idle", "cleanup", "unindex", "unindexFree", "release", "deregister"}
    /\ rec.pc \in {"unindex", "unindexFree"} => rec.conn = c
    /\ rec.pc \in {"cleanup", "unindexFree", "deregister"} => state # "open"

\* The eviction of one channel.
EvictorOK(rec) ==
    /\ rec.pc \in {"idle", "visit", "evict", "unindex", "release"}
    /\ rec.pc # "idle" => \E ch \in Channels : rec.scope = {ch}
    /\ rec.pc \in {"evict", "unindex", "release"} => rec.conn \in Conns

JobsOK ==
    /\ DOMAIN job = Jobs
    /\ \A j \in Jobs : job[j].key # None => job[j].pc \in {"unindex", "unindexFree"}
    /\ \A r \in Reqs : ReqOK(job[r])
    /\ \A c \in Conns : ReaderOK(c, conn[c], job[c])
    /\ EvictorOK(job[Evictor])

CommandsOK == commands \in Seq({"subscribe", "unsubscribe"} \X Topics)

-----------------------------------------------------------------------------
(* Interest *)

\* InterestIsSubscribed, from the moment the connection reads the counts.
InterestInv ==
    \A t \in Topics :
        (/\ link # "down" /\ desired[t] > 0
         /\ \A r \in Reqs : job[r].post # t
         /\ \A i \in DOMAIN commands : commands[i] # <<"subscribe", t>>) => t \in active

-----------------------------------------------------------------------------
(* The fan-out *)

\* A handler that removes index entries under the lock of a connection has taken
\* their topics from the registry, and nobody registers them meanwhile.
UnindexInv ==
    \A j \in Jobs : \A p \in job[j].drop :
      job[j].pc = "unindex" => p[2] \notin subs[job[j].conn][p[1]]

\* The REQ a registered subscription comes from.
ServingInv ==
    \A p \in Pairs :
      serving[p] # None =>
        /\ serving[p] \in Reqs
        /\ job[serving[p]].pc \in {"push", "release", "retain", "eose", "eoseOnly"}
        /\ p = <<job[serving[p]].conn, job[serving[p]].sub>>
        /\ subs[p[1]][p[2]] \subseteq job[serving[p]].scope

\* A registered topic is in the index once it was pushed, unless it was swept.
IndexInv ==
    \A p \in Pairs, t \in Topics :
      /\ serving[p] # None /\ conn[p[1]] = "open" /\ t \in subs[p[1]][p[2]]
      /\ ~(job[serving[p]].pc = "push" /\ t \in job[serving[p]].todo)
      => p \in index[t] \/ <<p, t>> \in swept

\* An event that is not stored is on no way.
NewInv ==
    \A e \in Events :
      event[e] \in {"new", "stored"} =>
        e \notin stream /\ \A way \in {"dispatch", "echo"} : fan[<<e, way>>].pc = "none"

\* What a served subscription has not got, every delivery under way has for it.
DeliveryInv ==
    \A p \in Pairs, e \in Events :
      /\ serving[p] # None /\ job[serving[p]].pc = "eose" /\ conn[p[1]] = "open"
      /\ TopicOf[e] \in subs[p[1]][p[2]] /\ e \notin got[p]
      => \/ <<p, TopicOf[e]>> \in swept
         \/ \A way \in {"dispatch", "echo"} :
              \/ fan[<<e, way>>].pc = "none"
              \/ /\ fan[<<e, way>>].pc = "match"
                 /\ p \in fan[<<e, way>>].cand \cup fan[<<e, way>>].matched

HistoryTypes ==
    /\ DOMAIN got = Pairs /\ DOMAIN serving = Pairs
    /\ strays \in [Topics -> Nat]
    /\ quota \in [closes : Nat, drops : Nat, evictions : Nat, joins : Nat, faults : Nat,
                  events : SUBSET Events, scopes : SUBSET Scopes]

RegistryInv ==
    /\ TypeOK /\ JobsOK /\ CommandsOK /\ HistoryTypes
    /\ InterestInv
    /\ CountCoversRegistry
    /\ UnindexInv /\ ServingInv /\ IndexInv /\ NewInv /\ DeliveryInv

-----------------------------------------------------------------------------
(* The records of the handlers *)

\* The handlers that a REQ, a reader and the eviction are differ.
LEMMA Roles ==
    /\ \A r \in Reqs : r \in Jobs /\ r \notin Conns /\ r # Evictor
    /\ \A c \in Conns : c \in Jobs /\ c \notin Reqs /\ c # Evictor
    /\ Evictor \in Jobs /\ Evictor \notin Reqs /\ Evictor \notin Conns
    /\ \A j \in Jobs : j \in Reqs \/ j \in Conns \/ j = Evictor
BY NamesAssumption DEF Jobs

\* An idle handler.
LEMMA IdleType ==
    /\ IdleJob \in Jobs_ /\ IdleJob.pc = "idle" /\ IdleJob.key = None /\ IdleJob.rel = {}
    /\ IdleJob.drop = {} /\ IdleJob.post = None /\ IdleJob.todo = {}
BY DEF IdleJob, Jobs_

\* What Released leaves of a REQ task: it goes on to release, or to retain all.
LEMMA ReleasedReq ==
    ASSUME NEW r \in Reqs, NEW rec \in Jobs_
    PROVE  LET n == Released(r, rec) IN
           /\ n \in Jobs_
           /\ n.conn = rec.conn /\ n.sub = rec.sub /\ n.scope = rec.scope /\ n.post = rec.post
           /\ n.rel = rec.rel /\ n.drop = rec.drop /\ n.key = rec.key
           /\ \/ n.pc = "release" /\ n.todo = rec.todo
              \/ n.pc = "retain" /\ n.todo = rec.scope
<1>1. CASE rec.rel # {}
  <2>1. Released(r, rec) = [rec EXCEPT !.pc = "release"] BY <1>1 DEF Released
  <2> QED BY <2>1 DEF Jobs_
<1>2. CASE rec.rel = {}
  <2>1. Released(r, rec) = [rec EXCEPT !.pc = "retain", !.todo = rec.scope]
    BY <1>2, Roles DEF Released
  <2> QED BY <2>1 DEF Jobs_
<1> QED BY <1>1, <1>2

\* What Released leaves of a reader: more to release, or the end of a CLOSE or
\* of a clean-up.
LEMMA ReleasedReader ==
    ASSUME NEW c \in Conns, NEW rec \in Jobs_
    PROVE  LET n == Released(c, rec) IN
           /\ n \in Jobs_
           /\ \/ /\ n.pc = "release"
                 /\ n.rel = rec.rel /\ n.drop = rec.drop /\ n.key = rec.key
              \/ /\ n.pc = "idle" \/ (n.pc = "deregister" /\ conn[c] # "open")
                 /\ n.rel = {} /\ n.drop = {} /\ n.key = None
<1>1. CASE rec.rel # {}
  <2>1. Released(c, rec) = [rec EXCEPT !.pc = "release"] BY <1>1 DEF Released
  <2> QED BY <2>1 DEF Jobs_
<1>2. CASE rec.rel = {} /\ conn[c] = "open"
  <2>1. Released(c, rec) = IdleJob BY <1>2, Roles DEF Released
  <2> QED BY <2>1, IdleType
<1>3. CASE rec.rel = {} /\ conn[c] # "open"
  <2>1. Released(c, rec) = [IdleJob EXCEPT !.pc = "deregister"]
    BY <1>3, Roles DEF Released
  <2> QED BY <1>3, <2>1 DEF Jobs_, IdleJob
<1> QED BY <1>1, <1>2, <1>3

\* What Released leaves of the eviction.
LEMMA ReleasedEvictor ==
    ASSUME NEW rec \in Jobs_
    PROVE  LET n == Released(Evictor, rec) IN
           /\ n \in Jobs_
           /\ n.pc \in {"release", "visit"}
           /\ n.pc = "visit" => rec.rel = {}
           /\ n.conn = rec.conn /\ n.scope = rec.scope /\ n.todo = rec.todo
           /\ n.rel = rec.rel /\ n.drop = rec.drop /\ n.key = rec.key
<1>1. CASE rec.rel # {}
  <2>1. Released(Evictor, rec) = [rec EXCEPT !.pc = "release"] BY <1>1 DEF Released
  <2> QED BY <2>1 DEF Jobs_
<1>2. CASE rec.rel = {}
  <2>1. Released(Evictor, rec) = [rec EXCEPT !.pc = "visit"]
    BY <1>2, Roles DEF Released
  <2> QED BY <1>2, <2>1 DEF Jobs_
<1> QED BY <1>1, <1>2

\* What Unindexed leaves: the same phase while there is an entry or a key to
\* remove, else the next one.
LEMMA UnindexedType ==
    ASSUME NEW j \in Jobs, NEW rec \in Jobs_
    PROVE  LET n == Unindexed(j, rec) IN
           /\ n \in Jobs_
           /\ n.rel = rec.rel \/ (j \in Conns /\ n.rel = {})
           /\ n.drop # {} \/ n.key # None => n = rec
           /\ j \in Reqs => /\ n.conn = rec.conn /\ n.sub = rec.sub /\ n.scope = rec.scope
                            /\ n.post = rec.post /\ n.todo = rec.todo
                            /\ n = rec \/ n.pc = "insert"
           /\ j \in Conns => \/ n = rec \/ n.pc \in {"release", "idle"}
                             \/ n.pc = "deregister" /\ conn[j] # "open"
           /\ j = Evictor => /\ n.conn = rec.conn /\ n.scope = rec.scope
                             /\ n = rec \/ n.pc = "evict"
<1>1. CASE rec.drop # {} \/ rec.key # None
  BY <1>1 DEF Unindexed
<1>2. CASE ~(rec.drop # {} \/ rec.key # None)
  <2>1. CASE j \in Reqs
    <3>1. Unindexed(j, rec) = [rec EXCEPT !.pc = "insert"] BY <1>2, <2>1, Roles DEF Unindexed
    <3> QED BY <1>2, <2>1, <3>1, Roles DEF Jobs_
  <2>2. CASE j \in Conns
    <3>1. Unindexed(j, rec) = Released(j, rec) BY <1>2, <2>2, Roles DEF Unindexed
    <3> QED BY <1>2, <2>2, <3>1, Roles, ReleasedReader
  <2>3. CASE j = Evictor
    <3>1. Unindexed(j, rec) = [rec EXCEPT !.pc = "evict"] BY <1>2, <2>3, Roles DEF Unindexed
    <3> QED BY <1>2, <2>3, <3>1, Roles DEF Jobs_
  <2> QED BY <2>1, <2>2, <2>3, Roles
<1> QED BY <1>1, <1>2

-----------------------------------------------------------------------------
(* Frames: what a step keeps that it does not touch *)

\* A step of one handler.
LEMMA JobUpdate ==
    ASSUME RegistryInv, NEW j \in Jobs, NEW n, job' = [job EXCEPT ![j] = n]
    PROVE  /\ DOMAIN job' = Jobs /\ job'[j] = n
           /\ \A k \in Jobs : k # j => job'[k] = job[k]
BY DEF RegistryInv, JobsOK

\* A step of one handler keeps the handlers in order if it keeps that one and
\* opens no connection.
LEMMA JobsFrame ==
    ASSUME RegistryInv, NEW j \in Jobs, NEW n \in Jobs_, job' = [job EXCEPT ![j] = n],
           \A c \in Conns : conn'[c] = "open" => conn[c] = "open",
           n.key # None => n.pc \in {"unindex", "unindexFree"},
           j \in Reqs => ReqOK(n), j \in Conns => ReaderOK(j, conn'[j], n),
           j = Evictor => EvictorOK(n)
    PROVE  JobsOK' /\ \A k \in Jobs : job'[k] \in Jobs_
<1>1. /\ DOMAIN job' = Jobs /\ job'[j] = n
      /\ \A k \in Jobs : k # j => job'[k] = job[k]
  BY JobUpdate
<1>2. \A k \in Jobs : job'[k] \in Jobs_ BY <1>1 DEF RegistryInv, TypeOK
<1>3. \A k \in Jobs : job'[k].key # None => job'[k].pc \in {"unindex", "unindexFree"}
  BY <1>1 DEF RegistryInv, JobsOK
<1>4. \A r \in Reqs : ReqOK(job'[r]) BY <1>1, Roles DEF RegistryInv, JobsOK
<1>5. \A c \in Conns : ReaderOK(c, conn'[c], job'[c])
  BY <1>1, Roles DEF RegistryInv, JobsOK, ReaderOK
<1>6. EvictorOK(job'[Evictor]) BY <1>1, Roles DEF RegistryInv, JobsOK
<1> QED BY <1>1, <1>2, <1>3, <1>4, <1>5, <1>6 DEF JobsOK, ReqOK, ReaderOK, EvictorOK

\* A REQ that serves a subscription goes on, and does not reach EOSE.
Continues(rec, n) ==
    /\ n.conn = rec.conn /\ n.sub = rec.sub /\ n.scope = rec.scope
    /\ n.pc \in {"push", "release", "retain", "eose", "eoseOnly"}
    /\ n.pc = "eose" => rec.pc = "eose"

KeepsServing(j, n) ==
    /\ UNCHANGED <<event, stream, fan>> /\ swept \subseteq swept'
    /\ \A p \in Pairs :
         /\ serving'[p] \in {serving[p], None}
         /\ serving'[p] # None => subs'[p[1]][p[2]] \subseteq subs[p[1]][p[2]]
         /\ conn'[p[1]] = "open" => conn[p[1]] = "open"
         /\ got[p] \subseteq got'[p]
         /\ serving[p] = j => Continues(job[j], n)

\* A step that serves nobody new and delivers nothing.
LEMMA ServingFrame ==
    ASSUME RegistryInv, NEW j \in Jobs, NEW n, job' = [job EXCEPT ![j] = n], KeepsServing(j, n)
    PROVE  ServingInv' /\ NewInv' /\ DeliveryInv'
<1> USE DEF KeepsServing
<1>1. /\ job'[j] = n
      /\ \A k \in Jobs : k # j => job'[k] = job[k]
  BY JobUpdate
<1>2. \A p \in Pairs : serving[p] # None => serving[p] \in Jobs
  BY Roles DEF RegistryInv, ServingInv
<1>3. \A p \in Pairs : serving'[p] # None =>
        /\ serving'[p] = serving[p]
        /\ Continues(job[serving[p]], job'[serving[p]])
  <2> TAKE p \in Pairs
  <2> HAVE serving'[p] # None
  <2>1. serving'[p] = serving[p] /\ serving[p] # None OBVIOUS
  <2>2. CASE serving[p] = j BY <1>1, <2>1, <2>2
  <2>3. CASE serving[p] # j
    BY <1>1, <1>2, <2>1, <2>3 DEF Continues, RegistryInv, ServingInv
  <2> QED BY <2>1, <2>2, <2>3
<1>4. ServingInv'
  BY <1>3 DEF RegistryInv, ServingInv, Continues
<1>5. NewInv' BY DEF RegistryInv, NewInv
<1>6. DeliveryInv'
  BY <1>3 DEF RegistryInv, DeliveryInv, Continues
<1> QED BY <1>4, <1>5, <1>6

KeepsIndex(j, n) ==
    /\ swept \subseteq swept'
    /\ \A t \in Topics : index[t] \subseteq index'[t]
    /\ \A p \in Pairs :
         /\ serving'[p] \in {serving[p], None}
         /\ serving'[p] # None => subs'[p[1]][p[2]] \subseteq subs[p[1]][p[2]]
         /\ conn'[p[1]] = "open" => conn[p[1]] = "open"
         /\ serving[p] = j /\ job[j].pc = "push" => n.pc = "push" /\ job[j].todo \subseteq n.todo

\* A step that takes nothing out of the index.
LEMMA IndexFrame ==
    ASSUME RegistryInv, NEW j \in Jobs, NEW n, job' = [job EXCEPT ![j] = n], KeepsIndex(j, n)
    PROVE  IndexInv'
<1> USE DEF KeepsIndex
<1>1. /\ job'[j] = n
      /\ \A k \in Jobs : k # j => job'[k] = job[k]
  BY JobUpdate
<1>2. \A p \in Pairs : serving[p] # None => serving[p] \in Jobs
  BY Roles DEF RegistryInv, ServingInv
<1> SUFFICES ASSUME NEW p \in Pairs, NEW t \in Topics,
                    serving'[p] # None, conn'[p[1]] = "open", t \in subs'[p[1]][p[2]],
                    ~(job'[serving'[p]].pc = "push" /\ t \in job'[serving'[p]].todo)
             PROVE  p \in index'[t] \/ <<p, t>> \in swept'
  BY DEF IndexInv
<1>3. serving'[p] = serving[p] /\ serving[p] # None /\ t \in subs[p[1]][p[2]] /\ conn[p[1]] = "open"
  OBVIOUS
<1>4. ~(job[serving[p]].pc = "push" /\ t \in job[serving[p]].todo)
  BY <1>1, <1>2, <1>3
<1>5. p \in index[t] \/ <<p, t>> \in swept
  BY <1>3, <1>4 DEF RegistryInv, IndexInv
<1> QED BY <1>5

\* A step that registers nothing under a lock.
LEMMA UnindexFrame ==
    ASSUME RegistryInv, NEW j \in Jobs, NEW n, job' = [job EXCEPT ![j] = n],
           \A k \in Jobs : \A p \in job[k].drop :
             job[k].pc = "unindex" /\ k # j =>
               subs'[job[k].conn][p[1]] \subseteq subs[job[k].conn][p[1]],
           \A p \in n.drop : n.pc = "unindex" => p[2] \notin subs'[n.conn][p[1]]
    PROVE  UnindexInv'
<1>1. /\ job'[j] = n
      /\ \A k \in Jobs : k # j => job'[k] = job[k]
  BY JobUpdate
<1> SUFFICES ASSUME NEW k \in Jobs, NEW p \in job'[k].drop, job'[k].pc = "unindex"
             PROVE  p[2] \notin subs'[job'[k].conn][p[1]]
  BY DEF UnindexInv
<1>2. CASE k = j BY <1>1, <1>2
<1>3. CASE k # j
  <2>1. job'[k] = job[k] BY <1>1, <1>3
  <2>2. p[2] \notin subs[job[k].conn][p[1]] BY <2>1 DEF RegistryInv, UnindexInv
  <2> QED BY <1>3, <2>1, <2>2
<1> QED BY <1>2, <1>3

\* A step that adds no interest and sends nothing to the subscriber task.
LEMMA InterestFrame ==
    ASSUME RegistryInv, UNCHANGED <<link, active, commands>>,
           \A t \in Topics : desired'[t] > 0 => desired[t] > 0,
           \A r \in Reqs : job'[r].post = job[r].post
    PROVE  InterestInv' /\ CommandsOK'
BY DEF RegistryInv, InterestInv, CommandsOK

\* What is spent leaves the rest of the quota.
LEMMA Spent ==
    ASSUME RegistryInv, NEW w \in {"closes", "drops", "evictions", "joins", "faults"}, Spend(w)
    PROVE  /\ quota' \in [closes : Nat, drops : Nat, evictions : Nat, joins : Nat, faults : Nat,
                          events : SUBSET Events, scopes : SUBSET Scopes]
BY DEF RegistryInv, HistoryTypes, Spend

-----------------------------------------------------------------------------
(* Counting *)

\* A REQ task that has registered a topic and not yet retained it.
Owes(rec, t) ==
    \/ rec.pc \in {"push", "release"} /\ t \in rec.scope
    \/ rec.pc = "retain" /\ t \in rec.todo

CountsAreFinite ==
    \A t \in Topics :
      /\ IsFiniteSet(Registered(t)) /\ Cardinality(Registered(t)) \in Nat
      /\ IsFiniteSet(OwedRetains(t)) /\ Cardinality(OwedRetains(t)) \in Nat
      /\ IsFiniteSet(OwedReleases(t)) /\ Cardinality(OwedReleases(t)) \in Nat

\* The three sets that are counted are finite.
LEMMA FiniteCounts == CountsAreFinite
<1> SUFFICES ASSUME NEW t \in Topics
             PROVE  /\ IsFiniteSet(Registered(t)) /\ Cardinality(Registered(t)) \in Nat
                    /\ IsFiniteSet(OwedRetains(t)) /\ Cardinality(OwedRetains(t)) \in Nat
                    /\ IsFiniteSet(OwedReleases(t)) /\ Cardinality(OwedReleases(t)) \in Nat
  BY DEF CountsAreFinite
<1>1. IsFiniteSet(Pairs) BY FiniteAssumption, FS_Product DEF Pairs
<1>2. IsFiniteSet(Reqs \cup Conns) BY FiniteAssumption, FS_Union
<1>3. IsFiniteSet(Jobs) BY <1>2, FS_AddElement DEF Jobs
<1>4. IsFiniteSet(Jobs \X Subs) BY <1>3, FiniteAssumption, FS_Product
<1>5. Registered(t) \in SUBSET Pairs BY DEF Registered
<1>6. OwedRetains(t) \in SUBSET Reqs BY DEF OwedRetains
<1>7. OwedReleases(t) \in SUBSET (Jobs \X Subs) BY DEF OwedReleases
<1>8. IsFiniteSet(Registered(t)) BY <1>1, <1>5, FS_Subset
<1>9. IsFiniteSet(OwedRetains(t)) BY FiniteAssumption, <1>6, FS_Subset
<1>10. IsFiniteSet(OwedReleases(t)) BY <1>4, <1>7, FS_Subset
<1> QED BY <1>8, <1>9, <1>10, FS_CardinalityType

\* The same after a step.
LEMMA FiniteCountsNext == CountsAreFinite'
BY FiniteCounts, PTL

\* A subset has at most as many elements.
LEMMA Fewer ==
    ASSUME NEW S, NEW T, IsFiniteSet(T), S \subseteq T
    PROVE  IsFiniteSet(S) /\ Cardinality(S) \in Nat /\ Cardinality(T) \in Nat
           /\ Cardinality(S) <= Cardinality(T)
BY FS_Subset, FS_CardinalityType

\* The count of a topic survives when the registered subscriptions D leave and
\* no more than that many releases E become due, strays not counted.
LEMMA CountShifts ==
    ASSUME RegistryInv, NEW t \in Topics,
           desired'[t] \in Nat, strays'[t] \in Nat,
           desired'[t] >= desired[t],
           OwedRetains(t) \subseteq OwedRetains(t)',
           NEW D \in SUBSET Registered(t), NEW E, IsFiniteSet(E),
           Cardinality(E) + strays[t] <= Cardinality(D) + strays'[t],
           Registered(t)' \subseteq Registered(t) \ D,
           OwedReleases(t)' \subseteq OwedReleases(t) \cup E
    PROVE  desired'[t] + Cardinality(OwedRetains(t)') + strays'[t]
             >= Cardinality(Registered(t)') + Cardinality(OwedReleases(t)')
<1> DEFINE R1 == Registered(t)
           R2 == Registered(t)'
           L1 == OwedReleases(t)
           L2 == OwedReleases(t)'
           Q1 == OwedRetains(t)
           Q2 == OwedRetains(t)'
<1>1. /\ IsFiniteSet(R1) /\ IsFiniteSet(L1) /\ IsFiniteSet(Q1)
      /\ Cardinality(R1) \in Nat /\ Cardinality(L1) \in Nat /\ Cardinality(Q1) \in Nat
  BY FiniteCounts DEF CountsAreFinite
<1>2. /\ IsFiniteSet(R2) /\ IsFiniteSet(L2) /\ IsFiniteSet(Q2)
      /\ Cardinality(R2) \in Nat /\ Cardinality(L2) \in Nat /\ Cardinality(Q2) \in Nat
  BY FiniteCountsNext DEF CountsAreFinite
<1>3. desired[t] + Cardinality(Q1) + strays[t] >= Cardinality(R1) + Cardinality(L1)
  BY DEF RegistryInv, CountCoversRegistry
<1>4. desired[t] \in Nat /\ strays[t] \in Nat BY DEF RegistryInv, TypeOK, HistoryTypes
<1>5. D \in SUBSET R1 /\ R2 \subseteq R1 \ D /\ L2 \subseteq L1 \cup E /\ Q1 \subseteq Q2 OBVIOUS
<1> HIDE DEF R1, R2, L1, L2, Q1, Q2
<1>6. IsFiniteSet(D) /\ Cardinality(D) \in Nat BY <1>1, <1>5, Fewer
<1>7. Cardinality(E) \in Nat BY FS_CardinalityType
<1>8. Cardinality(Q1) <= Cardinality(Q2) BY <1>2, <1>5, Fewer
<1>9. R1 \cap D = D BY <1>5
<1>10. IsFiniteSet(R1 \ D) /\ Cardinality(R1 \ D) = Cardinality(R1) - Cardinality(D)
  BY <1>1, <1>9, FS_Difference
<1>11. Cardinality(R2) <= Cardinality(R1) - Cardinality(D) BY <1>5, <1>10, Fewer
<1>12. /\ IsFiniteSet(L1 \cup E)
       /\ Cardinality(L1 \cup E) = Cardinality(L1) + Cardinality(E) - Cardinality(L1 \cap E)
  BY <1>1, FS_Union
<1>13. Cardinality(L1 \cap E) \in Nat BY <1>1, FS_Intersection, FS_CardinalityType
<1>14. Cardinality(L2) <= Cardinality(L1 \cup E) BY <1>5, <1>12, Fewer
<1>15. Cardinality(L1 \cup E) <= Cardinality(L1) + Cardinality(E) BY <1>1, <1>7, <1>12, <1>13
<1>16. Cardinality(L2) <= Cardinality(L1) + Cardinality(E)
  BY <1>1, <1>2, <1>7, <1>12, <1>13, <1>14, <1>15
<1>17. desired'[t] + Cardinality(Q2) + strays'[t] >= Cardinality(R2) + Cardinality(L2)
  BY <1>1, <1>2, <1>3, <1>4, <1>6, <1>7, <1>8, <1>11, <1>16
<1> QED BY <1>17 DEF R2, L2, Q2

\* The count of a topic survives when the registered subscriptions D leave and
\* no more than that many releases E become due.
LEMMA CountMoves ==
    ASSUME RegistryInv, NEW t \in Topics,
           desired'[t] \in Nat, strays'[t] \in Nat, strays'[t] >= strays[t],
           desired'[t] >= desired[t],
           OwedRetains(t) \subseteq OwedRetains(t)',
           NEW D \in SUBSET Registered(t), NEW E, IsFiniteSet(E),
           Cardinality(E) <= Cardinality(D),
           Registered(t)' \subseteq Registered(t) \ D,
           OwedReleases(t)' \subseteq OwedReleases(t) \cup E
    PROVE  desired'[t] + Cardinality(OwedRetains(t)') + strays'[t]
             >= Cardinality(Registered(t)') + Cardinality(OwedReleases(t)')
<1>1. IsFiniteSet(D) BY FiniteCounts, Fewer DEF CountsAreFinite
<1>2. Cardinality(D) \in Nat /\ Cardinality(E) \in Nat BY <1>1, FS_CardinalityType
<1>3. strays[t] \in Nat BY DEF RegistryInv, HistoryTypes
<1>4. Cardinality(E) + strays[t] <= Cardinality(D) + strays'[t] BY <1>2, <1>3
<1> QED BY <1>4, CountShifts

\* The count of a topic survives when nothing is registered, nothing is to be
\* released, and no retain is forgotten.
LEMMA CountKeeps ==
    ASSUME RegistryInv, NEW t \in Topics,
           desired'[t] \in Nat, strays'[t] \in Nat, strays'[t] >= strays[t],
           desired'[t] >= desired[t],
           OwedRetains(t) \subseteq OwedRetains(t)',
           Registered(t)' \subseteq Registered(t),
           OwedReleases(t)' \subseteq OwedReleases(t)
    PROVE  desired'[t] + Cardinality(OwedRetains(t)') + strays'[t]
             >= Cardinality(Registered(t)') + Cardinality(OwedReleases(t)')
<1>1. IsFiniteSet({}) /\ Cardinality({}) <= Cardinality({}) BY FS_EmptySet
<1>2. {} \in SUBSET Registered(t) OBVIOUS
<1>3. Registered(t)' \subseteq Registered(t) \ {} OBVIOUS
<1>4. OwedReleases(t)' \subseteq OwedReleases(t) \cup {} OBVIOUS
<1> QED BY <1>1, <1>2, <1>3, <1>4, CountMoves

\* A step of one handler changes what that handler owes, and nothing else.
LEMMA OwedFrame ==
    ASSUME RegistryInv, NEW j \in Jobs, NEW n, job' = [job EXCEPT ![j] = n], NEW t \in Topics
    PROVE  /\ OwedRetains(t) \ {j} = OwedRetains(t)' \ {j}
           /\ j \in OwedRetains(t) <=> j \in Reqs /\ Owes(job[j], t)
           /\ j \in OwedRetains(t)' <=> j \in Reqs /\ Owes(n, t)
           /\ \A k \in Jobs, s \in Subs :
                /\ <<k, s>> \in OwedReleases(t) <=> <<s, t>> \in job[k].rel
                /\ k # j => (<<k, s>> \in OwedReleases(t)' <=> <<s, t>> \in job[k].rel)
                /\ k = j => (<<k, s>> \in OwedReleases(t)' <=> <<s, t>> \in n.rel)
           /\ OwedReleases(t) \subseteq Jobs \X Subs /\ OwedReleases(t)' \subseteq Jobs \X Subs
<1>1. /\ DOMAIN job' = Jobs /\ job'[j] = n
      /\ \A k \in Jobs : k # j => job'[k] = job[k]
  BY JobUpdate
<1>2. /\ OwedRetains(t) = {r \in Reqs : Owes(job[r], t)}
      /\ OwedRetains(t)' = {r \in Reqs : Owes(job'[r], t)}
  BY DEF OwedRetains, Owes
<1>3. \A r \in Reqs : r \in Jobs BY Roles
<1>4. OwedReleases(t)' = {p \in Jobs \X Subs : <<p[2], t>> \in job'[p[1]].rel}
  BY DEF OwedReleases
<1>5. /\ OwedRetains(t) \ {j} = OwedRetains(t)' \ {j}
      /\ j \in OwedRetains(t) <=> j \in Reqs /\ Owes(job[j], t)
      /\ j \in OwedRetains(t)' <=> j \in Reqs /\ Owes(n, t)
  BY <1>1, <1>2, <1>3
<1>6. \A k \in Jobs, s \in Subs :
                /\ <<k, s>> \in OwedReleases(t) <=> <<s, t>> \in job[k].rel
                /\ k # j => (<<k, s>> \in OwedReleases(t)' <=> <<s, t>> \in job[k].rel)
                /\ k = j => (<<k, s>> \in OwedReleases(t)' <=> <<s, t>> \in n.rel)
  BY <1>1, <1>4 DEF OwedReleases
<1> QED BY <1>4, <1>5, <1>6 DEF OwedReleases

\* A step of one handler that registers nothing, owes no new release and
\* forgets no retain keeps the counts.
LEMMA CountFrame ==
    ASSUME RegistryInv, NEW j \in Jobs, NEW n, job' = [job EXCEPT ![j] = n],
           UNCHANGED <<desired, strays>>,
           \A t \in Topics : Registered(t)' \subseteq Registered(t),
           n.rel \subseteq job[j].rel,
           \A t \in Topics : j \in Reqs /\ Owes(job[j], t) => Owes(n, t)
    PROVE  CountCoversRegistry'
<1> SUFFICES ASSUME NEW t \in Topics
             PROVE  desired'[t] + Cardinality(OwedRetains(t)') + strays'[t]
                      >= Cardinality(Registered(t)') + Cardinality(OwedReleases(t)')
  BY DEF CountCoversRegistry
<1>1. desired'[t] \in Nat /\ strays'[t] \in Nat /\ strays'[t] >= strays[t] /\ desired'[t] >= desired[t]
  BY DEF RegistryInv, TypeOK, HistoryTypes
<1>2. OwedRetains(t) \subseteq OwedRetains(t)' BY OwedFrame
<1>3. OwedReleases(t)' \subseteq OwedReleases(t)
  <2>1. ASSUME NEW p \in OwedReleases(t)' PROVE p \in OwedReleases(t)
    <3>0. p \in Jobs \X Subs BY <2>1 DEF OwedReleases
    <3>1. PICK k \in Jobs, s \in Subs : p = <<k, s>> BY <3>0
    <3>2. <<s, t>> \in job[k].rel BY <2>1, <3>1, OwedFrame
    <3> QED BY <3>1, <3>2, OwedFrame
  <2> QED BY <2>1
<1> QED BY <1>1, <1>2, <1>3, CountKeeps

\* The handler j becomes n in order, and spends at most one of the quota.
HandlerOK(j, n) ==
    /\ n \in Jobs_ /\ job' = [job EXCEPT ![j] = n]
    /\ n.key # None => n.pc \in {"unindex", "unindexFree"}
    /\ j \in Reqs => ReqOK(n)
    /\ j \in Conns => ReaderOK(j, conn'[j], n)
    /\ j = Evictor => EvictorOK(n)
    /\ \/ UNCHANGED quota
       \/ \E w \in {"closes", "drops", "evictions", "joins", "faults"} : Spend(w)

Quiet(j, n) ==
    /\ HandlerOK(j, n)
    /\ UNCHANGED <<subs, index, topicVars, redisVars, eventVars, serving, got, swept, strays>>
    /\ conn' \in [Conns -> {"open", "closing", "gone"}]
    /\ local' \in [Conns -> SUBSET Subs]
    /\ \A c \in Conns : conn'[c] = "open" => conn[c] = "open"
    /\ n.rel \subseteq job[j].rel
    /\ n.pc # "unindex"
    /\ j \in Reqs => /\ n.post = job[j].post
                     /\ \/ job[j].pc \in {"idle", "check"}
                        \/ /\ job[j].pc = "retain" /\ job[j].todo = {}
                           /\ Continues(job[j], n)

\* A step of one handler that neither changes the registry nor the counts, sends
\* nothing and delivers nothing: it may end a connection, and goes on with what
\* it has to remove and to release.
LEMMA QuietStep ==
    ASSUME RegistryInv, NEW j \in Jobs, NEW n, Quiet(j, n)
    PROVE  RegistryInv'
<1> USE DEF Quiet, HandlerOK
<1>1. JobsOK' /\ \A k \in Jobs : job'[k] \in Jobs_ BY JobsFrame
<1>2. TypeOK' BY <1>1 DEF RegistryInv, TypeOK, topicVars, redisVars, eventVars
<1>3. HistoryTypes' BY Spent DEF RegistryInv, HistoryTypes
<1>4. InterestInv' /\ CommandsOK'
  BY InterestFrame, JobUpdate, Roles DEF topicVars, redisVars
<1>5. CountCoversRegistry'
  <2>1. \A t \in Topics : Registered(t)' \subseteq Registered(t) BY DEF Registered
  <2>2. \A t \in Topics : j \in Reqs /\ Owes(job[j], t) => Owes(n, t)
    BY DEF Owes
  <2> QED BY <2>1, <2>2, CountFrame DEF topicVars
<1>6. UnindexInv' BY UnindexFrame
<1>7. \A p \in Pairs : serving[p] = j => j \in Reqs /\ job[j].pc = "retain" /\ Continues(job[j], n)
  BY NamesAssumption, Roles DEF RegistryInv, ServingInv, Jobs
<1>8. ServingInv' /\ NewInv' /\ DeliveryInv'
  <2>1. KeepsServing(j, n) BY <1>7 DEF KeepsServing, eventVars, redisVars, Pairs
  <2> QED BY <2>1, ServingFrame
<1>9. IndexInv'
  <2>1. KeepsIndex(j, n) BY <1>7 DEF KeepsIndex, Pairs
  <2> QED BY <2>1, IndexFrame
<1> QED BY <1>1, <1>2, <1>3, <1>4, <1>5, <1>6, <1>8, <1>9 DEF RegistryInv

-----------------------------------------------------------------------------
(* The handlers, step by step *)

\* A REQ is read and its task spawned.
LEMMA SpawnReqKeeps ==
    ASSUME RegistryInv, NEW c \in Conns, NEW s \in Subs, NEW scope \in quota.scopes,
           NEW r \in Reqs, SpawnReq(c, s, scope, r)
    PROVE  RegistryInv'
<1> DEFINE n == [job[r] EXCEPT !.pc = "check", !.conn = c, !.sub = s, !.scope = scope]
<1>1. r \in Jobs /\ job[r] \in Jobs_ /\ ReqOK(job[r]) /\ job[r].pc = "idle"
      /\ scope \in Scopes /\ scope \subseteq Topics /\ job[r].key = None
  BY Roles DEF RegistryInv, JobsOK, TypeOK, HistoryTypes, SpawnReq, Scopes, Topics
<1>2. /\ n \in Jobs_ /\ n.pc = "check" /\ n.conn = c /\ n.sub = s /\ n.scope = scope
      /\ n.key = None /\ n.rel = job[r].rel /\ n.post = job[r].post /\ n.todo = job[r].todo
  BY <1>1 DEF Jobs_
<1>3. job' = [job EXCEPT ![r] = n] BY DEF SpawnReq
<1> HIDE DEF n
<1>4. ReqOK(n) BY <1>1, <1>2 DEF ReqOK, ReqPcs
<1>5. HandlerOK(r, n) BY <1>2, <1>3, <1>4, Roles DEF HandlerOK, SpawnReq
<1>6. Quiet(r, n)
  BY <1>1, <1>2, <1>5 DEF Quiet, SpawnReq, RegistryInv, TypeOK, registryVars, historyVars
<1> QED BY <1>1, <1>6, QuietStep

\* A REQ is refused, or granted a part of what it asks for.
LEMMA CheckReqKeeps ==
    ASSUME RegistryInv, NEW r \in Reqs, CheckReq(r)
    PROVE  RegistryInv'
<1>1. r \in Jobs /\ job[r] \in Jobs_ /\ ReqOK(job[r]) /\ job[r].pc = "check" /\ job[r].key = None
  BY Roles DEF RegistryInv, JobsOK, TypeOK, CheckReq
<1>2. PICK n : /\ job' = [job EXCEPT ![r] = n]
               /\ \/ n = [job[r] EXCEPT !.pc = "refused"]
                  \/ \E granted \in (SUBSET job[r].scope) \ {{}} :
                       n = [job[r] EXCEPT !.pc = "replace", !.scope = granted]
  BY DEF CheckReq, RegistryInv, JobsOK
<1>3. \A granted \in (SUBSET job[r].scope) \ {{}} : granted \in Scopes /\ granted \subseteq Topics
  BY <1>1 DEF ReqOK, Scopes, Topics
<1>4. /\ n \in Jobs_ /\ n.pc \in {"refused", "replace"} /\ n.scope \in Scopes
      /\ n.conn = job[r].conn /\ n.sub = job[r].sub
      /\ n.key = None /\ n.rel = job[r].rel /\ n.post = job[r].post /\ n.todo = job[r].todo
  <2>1. CASE n = [job[r] EXCEPT !.pc = "refused"] BY <1>1, <2>1 DEF Jobs_, ReqOK
  <2>2. CASE \E granted \in (SUBSET job[r].scope) \ {{}} :
               n = [job[r] EXCEPT !.pc = "replace", !.scope = granted]
    <3>1. PICK granted \in (SUBSET job[r].scope) \ {{}} :
            n = [job[r] EXCEPT !.pc = "replace", !.scope = granted]
      BY <2>2
    <3>2. granted \in Scopes /\ granted \subseteq Topics BY <1>3
    <3> QED BY <1>1, <3>1, <3>2 DEF Jobs_
  <2> QED BY <1>2, <2>1, <2>2
<1>5. ReqOK(n) BY <1>1, <1>4 DEF ReqOK, ReqPcs
<1>6. HandlerOK(r, n) BY <1>2, <1>4, <1>5, Roles DEF HandlerOK, CheckReq
<1>7. Quiet(r, n)
  BY <1>1, <1>4, <1>6 DEF Quiet, CheckReq, RegistryInv, TypeOK, registryVars, historyVars
<1> QED BY <1>1, <1>7, QuietStep

\* A connection ends.
LEMMA DisconnectKeeps ==
    ASSUME RegistryInv, NEW c \in Conns, Disconnect(c)
    PROVE  RegistryInv'
<1> DEFINE n == [job[c] EXCEPT !.pc = "cleanup"]
<1>1. c \in Jobs /\ job[c] \in Jobs_ /\ job[c].pc = "idle" /\ job[c].key = None
  BY Roles DEF RegistryInv, JobsOK, TypeOK, Disconnect
<1>2. n \in Jobs_ /\ n.pc = "cleanup" /\ n.key = None /\ n.rel = job[c].rel BY <1>1 DEF Jobs_
<1>3. job' = [job EXCEPT ![c] = n] BY <1>1 DEF Disconnect, RegistryInv, JobsOK
<1> HIDE DEF n
<1>4. /\ conn' \in [Conns -> {"open", "closing", "gone"}]
      /\ conn'[c] = "closing" /\ \A d \in Conns : d # c => conn'[d] = conn[d]
  BY DEF Disconnect, RegistryInv, TypeOK
<1>5. ReaderOK(c, conn'[c], n) BY <1>2, <1>4 DEF ReaderOK
<1>6. HandlerOK(c, n) BY <1>2, <1>3, <1>5, Roles DEF HandlerOK, Disconnect
<1>7. \A d \in Conns : conn'[d] = "open" => conn[d] = "open" BY <1>4
<1>8. Quiet(c, n)
  BY <1>2, <1>4, <1>6, <1>7, Roles
     DEF Quiet, Disconnect, RegistryInv, TypeOK, registryVars, historyVars
<1> QED BY <1>1, <1>8, QuietStep

\* A connection is deregistered.
LEMMA DeregisterKeeps ==
    ASSUME RegistryInv, NEW c \in Conns, Deregister(c)
    PROVE  RegistryInv'
<1>1. c \in Jobs BY Roles
<1>2. job' = [job EXCEPT ![c] = IdleJob] BY DEF Deregister
<1>3. /\ conn' \in [Conns -> {"open", "closing", "gone"}]
      /\ conn'[c] = "gone" /\ \A d \in Conns : d # c => conn'[d] = conn[d]
  BY DEF Deregister, RegistryInv, TypeOK
<1>4. ReaderOK(c, conn'[c], IdleJob) BY IdleType DEF ReaderOK
<1>5. HandlerOK(c, IdleJob) BY <1>2, <1>4, IdleType, Roles DEF HandlerOK, Deregister
<1>6. \A d \in Conns : conn'[d] = "open" => conn[d] = "open" BY <1>3
<1>7. Quiet(c, IdleJob)
  BY <1>3, <1>5, <1>6, IdleType, Roles
     DEF Quiet, Deregister, RegistryInv, TypeOK, registryVars, historyVars
<1> QED BY <1>1, <1>7, QuietStep

\* An eviction begins.
LEMMA StartEvictionKeeps ==
    ASSUME RegistryInv, NEW ch \in Channels, StartEviction(ch)
    PROVE  RegistryInv'
<1>1. /\ Evictor \in Jobs /\ job[Evictor] \in Jobs_ /\ job[Evictor].pc = "idle"
      /\ job[Evictor].key = None
  BY Roles DEF RegistryInv, JobsOK, TypeOK, StartEviction
<1>2. PICK targets \in {{c} : c \in {d \in Conns : conn[d] # "gone"}} \cup {{p[1] : p \in index[ch]}} :
        job' = [job EXCEPT ![Evictor] = [job[Evictor] EXCEPT !.pc = "visit", !.scope = {ch},
                                                              !.todo = targets]]
  BY DEF StartEviction
<1>3. targets \subseteq Conns
  BY <1>2 DEF RegistryInv, TypeOK, Pairs, Topics
<1> DEFINE n == [job[Evictor] EXCEPT !.pc = "visit", !.scope = {ch}, !.todo = targets]
<1>4. n \in Jobs_ /\ n.pc = "visit" /\ n.scope = {ch} /\ n.key = None /\ n.rel = job[Evictor].rel
  BY <1>1, <1>3 DEF Jobs_, Topics
<1>5. job' = [job EXCEPT ![Evictor] = n] BY <1>2
<1> HIDE DEF n
<1>6. EvictorOK(n) BY <1>4 DEF EvictorOK
<1>7. HandlerOK(Evictor, n) BY <1>4, <1>5, <1>6, Roles DEF HandlerOK, StartEviction
<1>8. Quiet(Evictor, n)
  BY <1>4, <1>7, Roles DEF Quiet, StartEviction, RegistryInv, TypeOK, registryVars, historyVars
<1> QED BY <1>1, <1>8, QuietStep

\* An eviction notes the subscriptions of a connection that have the channel.
LEMMA VisitConnectionKeeps ==
    ASSUME RegistryInv, NEW c \in Conns, VisitConnection(c)
    PROVE  RegistryInv'
<1>1. /\ Evictor \in Jobs /\ job[Evictor] \in Jobs_ /\ job[Evictor].pc = "visit"
      /\ job[Evictor].key = None /\ EvictorOK(job[Evictor])
  BY Roles DEF RegistryInv, JobsOK, TypeOK, VisitConnection
<1> DEFINE found == {s \in Subs : job[Evictor].scope \subseteq subs[c][s]}
           next == IF found = {} THEN "visit" ELSE "evict"
           n == [job[Evictor] EXCEPT
                  !.todo = job[Evictor].todo \ {c}, !.conn = c, !.rest = found, !.lost = {},
                  !.pc = next]
<1>2. found \subseteq Subs /\ next \in {"visit", "evict"} OBVIOUS
<1>3. job' = [job EXCEPT ![Evictor] = n] BY DEF VisitConnection
<1> HIDE DEF found, next
<1>4. /\ n \in Jobs_ /\ n.pc \in {"visit", "evict"} /\ n.scope = job[Evictor].scope
      /\ n.conn = c /\ n.key = None /\ n.rel = job[Evictor].rel
  BY <1>1, <1>2 DEF Jobs_
<1> HIDE DEF n
<1>5. EvictorOK(n) BY <1>1, <1>4 DEF EvictorOK
<1>6. HandlerOK(Evictor, n) BY <1>3, <1>4, <1>5, Roles DEF HandlerOK, VisitConnection
<1>7. Quiet(Evictor, n)
  BY <1>4, <1>6, Roles DEF Quiet, VisitConnection, RegistryInv, TypeOK, registryVars, historyVars
<1> QED BY <1>1, <1>7, QuietStep

\* An eviction is over.
LEMMA EndEvictionKeeps ==
    ASSUME RegistryInv, EndEviction
    PROVE  RegistryInv'
<1>1. Evictor \in Jobs BY Roles
<1>2. EvictorOK(IdleJob) BY IdleType DEF EvictorOK
<1>3. HandlerOK(Evictor, IdleJob) BY <1>2, IdleType, Roles DEF HandlerOK, EndEviction
<1>4. Quiet(Evictor, IdleJob)
  BY <1>3, IdleType, Roles
     DEF Quiet, EndEviction, RegistryInv, TypeOK, registryVars, historyVars
<1> QED BY <1>1, <1>4, QuietStep

\* A connection has been visited: the ended subscriptions are forgotten there.
LEMMA FinishConnectionKeeps ==
    ASSUME RegistryInv, FinishConnection
    PROVE  RegistryInv'
<1> DEFINE n == Released(Evictor, job[Evictor])
<1>1. /\ Evictor \in Jobs /\ job[Evictor] \in Jobs_ /\ job[Evictor].pc = "evict"
      /\ job[Evictor].key = None /\ EvictorOK(job[Evictor])
  BY Roles DEF RegistryInv, JobsOK, TypeOK, FinishConnection
<1>2. /\ n \in Jobs_ /\ n.pc \in {"release", "visit"} /\ n.conn = job[Evictor].conn
      /\ n.scope = job[Evictor].scope /\ n.rel = job[Evictor].rel /\ n.key = None
  BY <1>1, ReleasedEvictor
<1>3. job' = [job EXCEPT ![Evictor] = n] BY DEF FinishConnection
<1> HIDE DEF n
<1>4. EvictorOK(n) BY <1>1, <1>2 DEF EvictorOK
<1>5. HandlerOK(Evictor, n) BY <1>2, <1>3, <1>4, Roles DEF HandlerOK, FinishConnection
<1>6. local' \in [Conns -> SUBSET Subs]
  BY <1>1 DEF FinishConnection, RegistryInv, TypeOK, Jobs_
<1>7. Quiet(Evictor, n)
  BY <1>2, <1>5, <1>6, Roles DEF Quiet, FinishConnection, RegistryInv, TypeOK, historyVars
<1> QED BY <1>1, <1>7, QuietStep

\* A subscription that is no longer there, or is global, is passed over.
LEMMA PassOver ==
    ASSUME RegistryInv, NEW s \in Subs, EvictSubscription(s),
           subs[job[Evictor].conn][s] \in {{}, {Global}}
    PROVE  RegistryInv'
<1> DEFINE n == [job[Evictor] EXCEPT !.rest = job[Evictor].rest \ {s}]
<1>1. /\ Evictor \in Jobs /\ job[Evictor] \in Jobs_ /\ job[Evictor].pc = "evict"
      /\ job[Evictor].key = None /\ EvictorOK(job[Evictor])
  BY Roles DEF RegistryInv, JobsOK, TypeOK, EvictSubscription
<1>2. /\ job' = [job EXCEPT ![Evictor] = n] /\ UNCHANGED <<subs, serving, strays>>
      /\ UNCHANGED <<conn, local, index, topicVars, redisVars, eventVars, got, swept, quota>>
  BY DEF EvictSubscription
<1>3. /\ n \in Jobs_ /\ n.pc = "evict" /\ n.conn = job[Evictor].conn
      /\ n.scope = job[Evictor].scope /\ n.rel = job[Evictor].rel /\ n.key = None
  BY <1>1 DEF Jobs_
<1> HIDE DEF n
<1>4. EvictorOK(n) BY <1>1, <1>3 DEF EvictorOK
<1>5. HandlerOK(Evictor, n) BY <1>2, <1>3, <1>4, Roles DEF HandlerOK
<1>6. Quiet(Evictor, n)
  BY <1>2, <1>3, <1>5, Roles DEF Quiet, RegistryInv, TypeOK
<1> QED BY <1>1, <1>6, QuietStep

\* A handler that removes index entries knows whose they are.
LEMMA UnindexConn ==
    ASSUME RegistryInv, NEW j \in Jobs, job[j].pc \in {"unindex", "unindexFree"}
    PROVE  job[j].conn \in Conns /\ job[j].drop \subseteq Subs \X Topics
<1>1. job[j] \in Jobs_ BY DEF RegistryInv, TypeOK
<1>2. job[j].drop \subseteq Subs \X Topics BY <1>1 DEF Jobs_
<1>3. job[j].conn \in Conns
  <2>1. CASE j \in Reqs BY <2>1 DEF RegistryInv, JobsOK, ReqOK
  <2>2. CASE j \in Conns BY <2>2 DEF RegistryInv, JobsOK, ReaderOK
  <2>3. CASE j = Evictor BY <2>3 DEF RegistryInv, JobsOK, EvictorOK
  <2> QED BY <2>1, <2>2, <2>3, Roles
<1> QED BY <1>2, <1>3

Withdraws(j, n) ==
    /\ HandlerOK(j, n)
    /\ UNCHANGED <<conn, index, topicVars, redisVars, eventVars, got, swept>>
    /\ subs' \in [Conns -> [Subs -> Scopes \cup {{}}]]
    /\ \A c \in Conns, s \in Subs : subs'[c][s] \subseteq subs[c][s]
    /\ DOMAIN serving' = Pairs
    /\ \A p \in Pairs : serving'[p] \in {serving[p], None}
    /\ local' \in [Conns -> SUBSET Subs]
    /\ strays' \in [Topics -> Nat]
    /\ j \in Reqs => n.post = job[j].post /\ job[j].pc = "replace"
    /\ n.pc = "unindex" => \A p \in n.drop : p[2] \notin subs'[n.conn][p[1]]

\* A step that takes topics from registered subscriptions and keeps the counts.
LEMMA WithdrawStep ==
    ASSUME RegistryInv, NEW j \in Jobs, NEW n, Withdraws(j, n), CountCoversRegistry'
    PROVE  RegistryInv'
<1> USE DEF Withdraws, HandlerOK
<1>1. JobsOK' /\ \A k \in Jobs : job'[k] \in Jobs_ BY JobsFrame
<1>2. TypeOK' BY <1>1 DEF RegistryInv, TypeOK, topicVars, redisVars, eventVars
<1>3. HistoryTypes' BY Spent DEF RegistryInv, HistoryTypes
<1>4. InterestInv' /\ CommandsOK'
  BY InterestFrame, JobUpdate, Roles DEF topicVars, redisVars
<1>5. UnindexInv'
  <2>1. \A k \in Jobs : \A p \in job[k].drop :
             job[k].pc = "unindex" /\ k # j =>
               subs'[job[k].conn][p[1]] \subseteq subs[job[k].conn][p[1]]
    BY UnindexConn
  <2> QED BY <2>1, UnindexFrame
<1>6. \A p \in Pairs : serving[p] # j
  BY NamesAssumption, Roles DEF RegistryInv, ServingInv, Jobs
<1>7. ServingInv' /\ NewInv' /\ DeliveryInv'
  <2>1. KeepsServing(j, n) BY <1>6 DEF KeepsServing, eventVars, redisVars, Pairs
  <2> QED BY <2>1, ServingFrame
<1>8. IndexInv'
  <2>1. KeepsIndex(j, n) BY <1>6 DEF KeepsIndex, Pairs
  <2> QED BY <2>1, IndexFrame
<1> QED BY <1>1, <1>2, <1>3, <1>4, <1>5, <1>7, <1>8 DEF RegistryInv

Takes(j, n, c, s, due) ==
    /\ due \subseteq subs[c][s] \ subs'[c][s]
    /\ n.rel \subseteq job[j].rel \cup ({s} \X due)
    /\ UNCHANGED desired /\ strays' \in [Topics -> Nat]
    /\ \A t \in Topics : strays'[t] >= strays[t]
    /\ j \in Reqs => \A t \in Topics : ~Owes(job[j], t)
    /\ \A q \in Pairs : q # <<c, s>> => subs'[q[1]][q[2]] = subs[q[1]][q[2]]
    /\ subs'[c][s] \subseteq subs[c][s]

\* The releases that one subscription owes in place of its registration.
LEMMA CountTaken ==
    ASSUME RegistryInv, NEW j \in Jobs, NEW n, job' = [job EXCEPT ![j] = n],
           NEW c \in Conns, NEW s \in Subs, NEW due, Takes(j, n, c, s, due)
    PROVE  CountCoversRegistry'
<1> USE DEF Takes
<1> SUFFICES ASSUME NEW t \in Topics
             PROVE  desired'[t] + Cardinality(OwedRetains(t)') + strays'[t]
                      >= Cardinality(Registered(t)') + Cardinality(OwedReleases(t)')
  BY DEF CountCoversRegistry
<1>1. desired'[t] \in Nat /\ strays'[t] \in Nat /\ strays'[t] >= strays[t] /\ desired'[t] >= desired[t]
  BY DEF RegistryInv, TypeOK, HistoryTypes
<1>2. OwedRetains(t) \subseteq OwedRetains(t)' BY OwedFrame
<1>3. Registered(t)' \subseteq Registered(t)
  <2>1. ASSUME NEW q \in Registered(t)' PROVE q \in Registered(t)
    <3>1. q \in Pairs /\ t \in subs'[q[1]][q[2]] BY <2>1 DEF Registered
    <3>2. t \in subs[q[1]][q[2]] BY <3>1 DEF Pairs
    <3> QED BY <3>1, <3>2 DEF Registered
  <2> QED BY <2>1
<1>4. OwedReleases(t)' \subseteq OwedReleases(t) \cup (IF t \in due THEN {<<j, s>>} ELSE {})
  <2>1. ASSUME NEW p \in OwedReleases(t)', p \notin OwedReleases(t)
        PROVE  t \in due /\ p = <<j, s>>
    <3>0. p \in Jobs \X Subs BY <2>1 DEF OwedReleases
    <3>1. PICK k \in Jobs, x \in Subs : p = <<k, x>> BY <3>0
    <3>2. k = j /\ <<x, t>> \in n.rel /\ <<x, t>> \notin job[k].rel BY <2>1, <3>1, OwedFrame
    <3>3. <<x, t>> \in {s} \X due BY <3>2
    <3> QED BY <3>1, <3>2, <3>3
  <2> QED BY <2>1
<1>5. CASE t \in due
  <2>1. <<c, s>> \in Registered(t) /\ <<c, s>> \notin Registered(t)'
    BY <1>5 DEF Registered, Pairs
  <2>2. {<<c, s>>} \in SUBSET Registered(t) /\ Registered(t)' \subseteq Registered(t) \ {<<c, s>>}
    BY <1>3, <2>1
  <2>3. IsFiniteSet({<<j, s>>}) /\ Cardinality({<<j, s>>}) = 1 /\ Cardinality({<<c, s>>}) = 1
    BY FS_Singleton
  <2>4. Cardinality({<<j, s>>}) <= Cardinality({<<c, s>>}) BY <2>3
  <2>5. OwedReleases(t)' \subseteq OwedReleases(t) \cup {<<j, s>>} BY <1>4, <1>5
  <2> QED BY <1>1, <1>2, <2>2, <2>3, <2>4, <2>5, CountMoves
<1>6. CASE t \notin due
  BY <1>1, <1>2, <1>3, <1>4, <1>6, CountKeeps
<1> QED BY <1>5, <1>6

\* remove_subscription takes one subscription from the registry: a REQ that
\* replaces it, or a CLOSE, owes the removal of its index entries and releases.
LEMMA TakeKeeps ==
    ASSUME RegistryInv, NEW j \in Jobs, NEW c \in Conns, NEW s \in Subs,
           TakeSubscription(j, c, s),
           UNCHANGED <<conn, index, topicVars, redisVars, eventVars, got, swept, strays>>,
           local' \in [Conns -> SUBSET Subs],
           UNCHANGED quota \/ \E w \in {"closes", "drops", "evictions", "joins", "faults"} : Spend(w),
           \/ j \in Reqs /\ job[j].pc = "replace" /\ c = job[j].conn
           \/ j = c /\ job[j].pc = "idle"
    PROVE  RegistryInv'
<1> DEFINE found == {s} \X subs[c][s]
           rec == [job[j] EXCEPT !.pc = "unindex", !.conn = c, !.drop = found, !.rel = found]
           n == Unindexed(j, rec)
<1>1. /\ job[j] \in Jobs_ /\ job[j].key = None /\ j # Evictor
      /\ j \in Reqs => ReqOK(job[j]) /\ job[j].pc = "replace" /\ c = job[j].conn
      /\ j \in Conns => j = c
  BY Roles DEF RegistryInv, JobsOK, TypeOK
<1>2. subs[c][s] \in Scopes \cup {{}} /\ subs[c][s] \subseteq Topics
  BY DEF RegistryInv, TypeOK, Scopes, Topics
<1>3. found \subseteq Subs \X Topics BY <1>2
<1>4. job' = [job EXCEPT ![j] = n] BY DEF TakeSubscription
<1>5. \A p \in found : p[1] = s OBVIOUS
<1> HIDE DEF found
<1>6. /\ rec \in Jobs_ /\ rec.pc = "unindex" /\ rec.conn = c /\ rec.drop = found /\ rec.rel = found
      /\ rec.key = None /\ rec.sub = job[j].sub /\ rec.scope = job[j].scope
      /\ rec.post = job[j].post /\ rec.todo = job[j].todo
  BY <1>1, <1>3 DEF Jobs_
<1> HIDE DEF rec
<1>7. /\ n \in Jobs_ /\ n.rel \subseteq found
      /\ n.drop # {} \/ n.key # None => n = rec
      /\ j \in Reqs => /\ n.conn = c /\ n.sub = job[j].sub /\ n.scope = job[j].scope
                       /\ n.post = job[j].post /\ n.todo = job[j].todo
                       /\ n.pc \in {"unindex", "insert"}
      /\ j \in Conns => \/ n = rec \/ n.pc \in {"release", "idle"}
                        \/ n.pc = "deregister" /\ conn[j] # "open"
  BY <1>1, <1>6, UnindexedType
<1> HIDE DEF n
<1>8. HandlerOK(j, n)
  <2>1. j \in Reqs => ReqOK(n) BY <1>1, <1>7 DEF ReqOK, ReqPcs
  <2>2. j \in Conns => ReaderOK(j, conn'[j], n) BY <1>1, <1>6, <1>7 DEF ReaderOK
  <2> QED BY <1>1, <1>4, <1>6, <1>7, <2>1, <2>2 DEF HandlerOK
<1>9. /\ subs' \in [Conns -> [Subs -> Scopes \cup {{}}]] /\ subs'[c][s] = {}
      /\ \A q \in Pairs : q # <<c, s>> => subs'[q[1]][q[2]] = subs[q[1]][q[2]]
  <2>1. subs' = [subs EXCEPT ![c][s] = {}] BY DEF TakeSubscription
  <2> QED BY <2>1 DEF RegistryInv, TypeOK, Pairs
<1>10. \A d \in Conns, x \in Subs : subs'[d][x] \subseteq subs[d][x]
  <2> TAKE d \in Conns, x \in Subs
  <2>1. <<d, x>> \in Pairs BY DEF Pairs
  <2>2. CASE <<d, x>> = <<c, s>> BY <1>9, <2>2
  <2>3. CASE <<d, x>> # <<c, s>> BY <1>9, <2>1, <2>3
  <2> QED BY <2>2, <2>3
<1>11. DOMAIN serving' = Pairs /\ \A p \in Pairs : serving'[p] \in {serving[p], None}
  BY DEF TakeSubscription, RegistryInv, HistoryTypes
<1>12. n.pc = "unindex" => \A p \in n.drop : p[2] \notin subs'[n.conn][p[1]]
  BY <1>5, <1>6, <1>7, <1>9
<1>13. Withdraws(j, n)
  BY <1>1, <1>7, <1>8, <1>9, <1>10, <1>11, <1>12 DEF Withdraws, RegistryInv, HistoryTypes
<1>14. CountCoversRegistry'
  <2>1. strays' \in [Topics -> Nat] /\ \A t \in Topics : strays'[t] >= strays[t]
    BY DEF RegistryInv, HistoryTypes
  <2>2. j \in Reqs => \A t \in Topics : ~Owes(job[j], t) BY <1>1 DEF Owes
  <2>3. n.rel \subseteq job[j].rel \cup ({s} \X subs[c][s]) BY <1>7 DEF found
  <2>4. subs[c][s] \subseteq subs[c][s] \ subs'[c][s] BY <1>9
  <2>5. Takes(j, n, c, s, subs[c][s]) BY <1>9, <2>1, <2>2, <2>3, <2>4 DEF Takes, topicVars
  <2> QED BY <1>4, <2>5, CountTaken
<1> QED BY <1>13, <1>14, WithdrawStep

\* A REQ takes the subscription of the same id away first.
LEMMA ReplaceKeeps ==
    ASSUME RegistryInv, NEW r \in Reqs, ReplaceSubscription(r)
    PROVE  RegistryInv'
<1>1. r \in Jobs /\ job[r].conn \in Conns /\ job[r].sub \in Subs /\ job[r].pc = "replace"
  BY Roles DEF ReplaceSubscription, RegistryInv, JobsOK, ReqOK
<1>2. local' \in [Conns -> SUBSET Subs] BY <1>1 DEF ReplaceSubscription, RegistryInv, TypeOK
<1> QED BY <1>1, <1>2, TakeKeeps DEF ReplaceSubscription

\* A CLOSE takes its subscription away.
LEMMA CloseKeeps ==
    ASSUME RegistryInv, NEW c \in Conns, NEW s \in Subs, CloseSubscription(c, s)
    PROVE  RegistryInv'
<1>1. c \in Jobs /\ job[c].pc = "idle" BY Roles DEF CloseSubscription
<1>2. local' \in [Conns -> SUBSET Subs] BY DEF CloseSubscription, RegistryInv, TypeOK
<1> QED BY <1>1, <1>2, TakeKeeps DEF CloseSubscription

\* The end of a connection takes all its subscriptions away.
LEMMA RemoveConnectionKeeps ==
    ASSUME RegistryInv, NEW c \in Conns, RemoveConnection(c)
    PROVE  RegistryInv'
<1> DEFINE found == {p \in Subs \X Topics : p[2] \in subs[c][p[1]]}
           rec == [job[c] EXCEPT !.pc = "unindexFree", !.conn = c, !.drop = found, !.rel = found]
           n == Unindexed(c, rec)
<1>1. /\ c \in Jobs /\ job[c] \in Jobs_ /\ job[c].key = None /\ job[c].pc = "cleanup"
      /\ conn[c] # "open"
  BY Roles DEF RegistryInv, JobsOK, TypeOK, RemoveConnection, ReaderOK
<1>2. job' = [job EXCEPT ![c] = n] BY DEF RemoveConnection
<1>3. found \subseteq Subs \X Topics OBVIOUS
<1>4. \A x \in Subs, t \in Topics : <<x, t>> \in found => t \in subs[c][x] OBVIOUS
<1> HIDE DEF found
<1>5. rec \in Jobs_ /\ rec.pc = "unindexFree" /\ rec.conn = c /\ rec.rel = found /\ rec.key = None
  BY <1>1, <1>3 DEF Jobs_
<1> HIDE DEF rec
<1>6. /\ n \in Jobs_ /\ n.rel \subseteq found
      /\ n.key # None => n = rec
      /\ n = rec \/ n.pc \in {"release", "idle", "deregister"}
  BY <1>1, <1>5, UnindexedType
<1> HIDE DEF n
<1>7. UNCHANGED <<conn, index, topicVars, redisVars, eventVars, got, swept, local, strays, quota>>
  BY DEF RemoveConnection
<1>8. HandlerOK(c, n)
  <2>1. ReaderOK(c, conn'[c], n) BY <1>1, <1>5, <1>6, <1>7 DEF ReaderOK
  <2> QED BY <1>2, <1>5, <1>6, <1>7, <2>1, Roles DEF HandlerOK
<1>9. /\ subs' \in [Conns -> [Subs -> Scopes \cup {{}}]]
      /\ \A x \in Subs : subs'[c][x] = {}
      /\ \A d \in Conns : d # c => subs'[d] = subs[d]
  <2>1. subs' = [subs EXCEPT ![c] = [x \in Subs |-> {}]] BY DEF RemoveConnection
  <2> QED BY <2>1 DEF RegistryInv, TypeOK
<1>10. \A d \in Conns, x \in Subs : subs'[d][x] \subseteq subs[d][x] BY <1>9
<1>11. DOMAIN serving' = Pairs /\ \A p \in Pairs : serving'[p] \in {serving[p], None}
  BY DEF RemoveConnection
<1>12. n.pc # "unindex" BY <1>5, <1>6
<1>13. Withdraws(c, n)
  BY <1>7, <1>8, <1>9, <1>10, <1>11, <1>12, Roles
     DEF Withdraws, RegistryInv, TypeOK, HistoryTypes
<1>14. CountCoversRegistry'
  <2> SUFFICES ASSUME NEW t \in Topics
             PROVE  desired'[t] + Cardinality(OwedRetains(t)') + strays'[t]
                      >= Cardinality(Registered(t)') + Cardinality(OwedReleases(t)')
    BY DEF CountCoversRegistry
  <2> DEFINE D == {p \in Registered(t) : p[1] = c}
  <2>1. desired'[t] \in Nat /\ strays'[t] \in Nat /\ strays'[t] >= strays[t] /\ desired'[t] >= desired[t]
    BY <1>7 DEF RegistryInv, TypeOK, HistoryTypes, topicVars
  <2>2. OwedRetains(t) \subseteq OwedRetains(t)'
    <3>1. c \notin OwedRetains(t) BY Roles DEF OwedRetains
    <3>2. OwedRetains(t) \ {c} = OwedRetains(t)' \ {c} BY <1>1, <1>2, OwedFrame
    <3> QED BY <3>1, <3>2
  <2>3. Registered(t)' \subseteq Registered(t) \ D
    <3>1. ASSUME NEW q \in Registered(t)' PROVE q \in Registered(t) /\ q[1] # c
      <4>1. q \in Pairs /\ t \in subs'[q[1]][q[2]] BY <3>1 DEF Registered
      <4>2. q[1] # c BY <1>9, <4>1 DEF Pairs
      <4>3. t \in subs[q[1]][q[2]] BY <1>9, <4>1, <4>2 DEF Pairs
      <4> QED BY <4>1, <4>2, <4>3 DEF Registered
    <3> QED BY <3>1
  <2>4. OwedReleases(t)' \subseteq OwedReleases(t) \cup D
    <3>1. ASSUME NEW p \in OwedReleases(t)', p \notin OwedReleases(t) PROVE p \in D
      <4>0. p \in Jobs \X Subs BY <3>1 DEF OwedReleases
      <4>1. PICK k \in Jobs, x \in Subs : p = <<k, x>> BY <4>0
      <4>2. k = c /\ <<x, t>> \in n.rel BY <1>1, <1>2, <3>1, <4>1, OwedFrame
      <4>3. t \in subs[c][x] BY <1>4, <1>6, <4>2
      <4> QED BY <4>1, <4>2, <4>3 DEF Registered, Pairs
    <3> QED BY <3>1
  <2>5. D \in SUBSET Registered(t) OBVIOUS
  <2>6. IsFiniteSet(D) /\ Cardinality(D) \in Nat
    BY <2>5, FiniteCounts, Fewer DEF CountsAreFinite
  <2> HIDE DEF D
  <2>7. Cardinality(D) <= Cardinality(D) BY <2>6
  <2> QED BY <2>1, <2>2, <2>3, <2>4, <2>5, <2>6, <2>7, CountMoves
<1> QED BY <1>1, <1>13, <1>14, WithdrawStep

\* An eviction takes the channel from a subscription that has it, or reports a
\* stray release.
LEMMA EvictKeeps ==
    ASSUME RegistryInv, NEW s \in Subs, EvictSubscription(s)
    PROVE  RegistryInv'
<1> DEFINE ev == job[Evictor]
           c == ev.conn
           left == subs[c][s] \ ev.scope
<1>1. CASE subs[c][s] \in {{}, {Global}} BY <1>1, PassOver
<1>2. CASE subs[c][s] \notin {{}, {Global}}
  <2>1. /\ Evictor \in Jobs /\ ev \in Jobs_ /\ ev.pc = "evict" /\ ev.key = None /\ c \in Conns
        /\ \E ch \in Channels : ev.scope = {ch}
    BY Roles DEF RegistryInv, JobsOK, TypeOK, EvictSubscription, EvictorOK
  <2>2. PICK ch \in Channels : ev.scope = {ch} BY <2>1
  <2>3. (CHOOSE t \in ev.scope : TRUE) = ch BY <2>2
  <2> DEFINE lost == IF left = {} THEN ev.lost \cup {s} ELSE ev.lost
             drop == {<<s, ch>>}
             rel == ev.rel \cup {<<s, ch>>}
             n == [ev EXCEPT !.pc = "unindex", !.rest = ev.rest \ {s}, !.drop = drop,
                             !.rel = rel, !.lost = lost]
  <2>4. /\ subs' = [subs EXCEPT ![c][s] = left]
        /\ serving' = [serving EXCEPT ![<<c, s>>] = IF left = {} THEN None ELSE @]
        /\ strays' = [strays EXCEPT ![ch] = IF ch \in subs[c][s] THEN @ ELSE @ + 1]
        /\ job' = [job EXCEPT ![Evictor] = n]
        /\ UNCHANGED <<conn, local, index, topicVars, redisVars, eventVars, got, swept, quota>>
    BY <1>2, <2>3 DEF EvictSubscription
  <2>5. /\ lost \subseteq Subs /\ ch \in Topics
        /\ drop \subseteq Subs \X Topics /\ rel \subseteq Subs \X Topics
    BY <2>1 DEF Jobs_, Topics
  <2> HIDE DEF lost, drop, rel
  <2>6a. /\ n \in Jobs_ /\ n.pc = "unindex" /\ n.drop = drop /\ n.rel = rel
         /\ n.conn = c /\ n.scope = ev.scope /\ n.key = None
    BY <2>1, <2>5 DEF Jobs_
  <2>6. /\ n \in Jobs_ /\ n.pc = "unindex" /\ n.drop = {<<s, ch>>} /\ n.rel = ev.rel \cup {<<s, ch>>}
        /\ n.conn = c /\ n.scope = ev.scope /\ n.key = None
    BY <2>6a DEF drop, rel
  <2> HIDE DEF n
  <2>7. EvictorOK(n) BY <2>1, <2>6 DEF EvictorOK
  <2>8. HandlerOK(Evictor, n) BY <2>4, <2>6, <2>7, Roles DEF HandlerOK
  <2>9. left \in Scopes \cup {{}}
    <3>1. subs[c][s] \in Scopes \cup {{}} BY <2>1 DEF RegistryInv, TypeOK
    <3> QED BY <1>2, <3>1 DEF Scopes
  <2>10. /\ subs' \in [Conns -> [Subs -> Scopes \cup {{}}]] /\ subs'[c][s] = subs[c][s] \ {ch}
         /\ \A q \in Pairs : q # <<c, s>> => subs'[q[1]][q[2]] = subs[q[1]][q[2]]
    <3>1. subs'[c][s] = left /\ subs' \in [Conns -> [Subs -> Scopes \cup {{}}]]
      BY <2>1, <2>4, <2>9 DEF RegistryInv, TypeOK
    <3>2. \A q \in Pairs : q # <<c, s>> => subs'[q[1]][q[2]] = subs[q[1]][q[2]]
      BY <2>1, <2>4 DEF RegistryInv, TypeOK, Pairs
    <3> QED BY <2>2, <3>1, <3>2
  <2>11. \A d \in Conns, x \in Subs : subs'[d][x] \subseteq subs[d][x]
    <3> TAKE d \in Conns, x \in Subs
    <3>1. <<d, x>> \in Pairs BY DEF Pairs
    <3>2. CASE <<d, x>> = <<c, s>> BY <2>10, <3>2
    <3>3. CASE <<d, x>> # <<c, s>> BY <2>10, <3>1, <3>3
    <3> QED BY <3>2, <3>3
  <2>12. DOMAIN serving' = Pairs /\ \A p \in Pairs : serving'[p] \in {serving[p], None}
    BY <2>4 DEF RegistryInv, HistoryTypes
  <2>13. /\ strays' \in [Topics -> Nat] /\ \A t \in Topics : strays'[t] >= strays[t]
         /\ ch \notin subs[c][s] => strays'[ch] = strays[ch] + 1
    BY <2>4, <2>5 DEF RegistryInv, HistoryTypes
  <2>14. \A p \in n.drop : p[2] \notin subs'[n.conn][p[1]] BY <2>6, <2>10
  <2>15. Withdraws(Evictor, n)
    BY <2>4, <2>8, <2>10, <2>11, <2>12, <2>13, <2>14, Roles DEF Withdraws, RegistryInv, TypeOK
  <2>16. CASE ch \in subs[c][s]
    <3>1. Takes(Evictor, n, c, s, {ch})
      BY <2>4, <2>6, <2>10, <2>13, <2>16, Roles DEF Takes, topicVars
    <3>2. CountCoversRegistry' BY <2>1, <2>4, <3>1, CountTaken
    <3> QED BY <2>1, <2>15, <3>2, WithdrawStep
  <2>17. CASE ch \notin subs[c][s]
    <3> SUFFICES CountCoversRegistry' BY <2>1, <2>15, WithdrawStep
    <3> SUFFICES ASSUME NEW t \in Topics
                 PROVE  desired'[t] + Cardinality(OwedRetains(t)') + strays'[t]
                          >= Cardinality(Registered(t)') + Cardinality(OwedReleases(t)')
      BY DEF CountCoversRegistry
    <3>1. desired'[t] \in Nat /\ strays'[t] \in Nat /\ desired'[t] >= desired[t] /\ strays'[t] >= strays[t]
      BY <2>4, <2>13 DEF RegistryInv, TypeOK, topicVars
    <3>2. OwedRetains(t) \subseteq OwedRetains(t)'
      <4>1. Evictor \notin OwedRetains(t) BY Roles DEF OwedRetains
      <4>2. OwedRetains(t) \ {Evictor} = OwedRetains(t)' \ {Evictor} BY <2>1, <2>4, OwedFrame
      <4> QED BY <4>1, <4>2
    <3>3. Registered(t)' \subseteq Registered(t) \ {}
      BY <2>11 DEF Registered, Pairs
    <3>4. OwedReleases(t)' \subseteq OwedReleases(t) \cup (IF t = ch THEN {<<Evictor, s>>} ELSE {})
      <4>1. ASSUME NEW p \in OwedReleases(t)', p \notin OwedReleases(t)
            PROVE  t = ch /\ p = <<Evictor, s>>
        <5>0. p \in Jobs \X Subs BY <4>1 DEF OwedReleases
        <5>1. PICK k \in Jobs, x \in Subs : p = <<k, x>> BY <5>0
        <5>2. k = Evictor /\ <<x, t>> \in n.rel /\ <<x, t>> \notin job[k].rel
          BY <2>1, <2>4, <4>1, <5>1, OwedFrame
        <5> QED BY <2>6, <5>1, <5>2
      <4> QED BY <4>1
    <3>5. CASE t = ch
      <4>1. /\ IsFiniteSet({<<Evictor, s>>}) /\ Cardinality({<<Evictor, s>>}) = 1
            /\ Cardinality({}) = 0 /\ {} \in SUBSET Registered(t)
        BY FS_Singleton, FS_EmptySet
      <4>2. strays[t] \in Nat /\ strays'[t] = strays[t] + 1
        BY <2>13, <2>17, <3>5 DEF RegistryInv, HistoryTypes
      <4>3. Cardinality({<<Evictor, s>>}) + strays[t] <= Cardinality({}) + strays'[t]
        BY <4>1, <4>2
      <4>4. OwedReleases(t)' \subseteq OwedReleases(t) \cup {<<Evictor, s>>} BY <3>4, <3>5
      <4> QED BY <3>1, <3>2, <3>3, <4>1, <4>3, <4>4, CountShifts
    <3>6. CASE t # ch
      <4>1. OwedReleases(t)' \subseteq OwedReleases(t) BY <3>4, <3>6
      <4>2. Registered(t)' \subseteq Registered(t) BY <3>3
      <4> QED BY <3>1, <3>2, <4>1, <4>2, CountKeeps
    <3> QED BY <3>5, <3>6
  <2> QED BY <2>16, <2>17
<1> QED BY <1>1, <1>2

Tidies(j, n) ==
    /\ HandlerOK(j, n)
    /\ UNCHANGED <<conn, local, subs, topicVars, redisVars, eventVars, serving, got, strays>>
    /\ index' \in [Topics -> SUBSET Pairs] /\ swept \subseteq swept'
    /\ n.rel \subseteq job[j].rel
    /\ j \in Reqs => n.post = job[j].post /\ job[j].pc = "unindex"
    /\ n.pc = "unindex" => /\ job[j].pc = "unindex" /\ n.conn = job[j].conn
                           /\ n.drop \subseteq job[j].drop

\* A step of remove_from_index changes nothing but the index.
LEMMA TidyStep ==
    ASSUME RegistryInv, NEW j \in Jobs, NEW n, Tidies(j, n), IndexInv'
    PROVE  RegistryInv'
<1> USE DEF Tidies, HandlerOK
<1>1. JobsOK' /\ \A k \in Jobs : job'[k] \in Jobs_ BY JobsFrame
<1>2. TypeOK' BY <1>1 DEF RegistryInv, TypeOK, topicVars, redisVars, eventVars
<1>3. HistoryTypes' BY Spent DEF RegistryInv, HistoryTypes
<1>4. InterestInv' /\ CommandsOK'
  BY InterestFrame, JobUpdate, Roles DEF topicVars, redisVars
<1>5. CountCoversRegistry'
  <2>1. \A t \in Topics : Registered(t)' \subseteq Registered(t) BY DEF Registered
  <2>2. \A t \in Topics : j \in Reqs /\ Owes(job[j], t) => Owes(n, t) BY DEF Owes
  <2> QED BY <2>1, <2>2, CountFrame DEF topicVars
<1>6. UnindexInv'
  <2>1. \A p \in n.drop : n.pc = "unindex" => p[2] \notin subs'[n.conn][p[1]]
    BY DEF RegistryInv, UnindexInv
  <2> QED BY <2>1, UnindexFrame
<1>7. \A p \in Pairs : serving[p] # j
  BY NamesAssumption, Roles DEF RegistryInv, ServingInv, Jobs
<1>8. ServingInv' /\ NewInv' /\ DeliveryInv'
  <2>1. KeepsServing(j, n) BY <1>7 DEF KeepsServing, eventVars, redisVars, Pairs
  <2> QED BY <2>1, ServingFrame
<1> QED BY <1>1, <1>2, <1>3, <1>4, <1>5, <1>6, <1>8 DEF RegistryInv

\* What the handler of a removal becomes is in order.
LEMMA UnindexedOK ==
    ASSUME RegistryInv, NEW j \in Jobs, NEW rec \in Jobs_,
           job[j].pc \in {"unindex", "unindexFree"},
           rec.pc = job[j].pc, rec.conn = job[j].conn, rec.sub = job[j].sub,
           rec.scope = job[j].scope, rec.todo = job[j].todo, rec.post = job[j].post,
           rec.rel = job[j].rel, rec.drop \subseteq job[j].drop,
           job' = [job EXCEPT ![j] = Unindexed(j, rec)],
           UNCHANGED <<conn, local, subs, topicVars, redisVars, eventVars, serving, got, strays,
                       quota>>,
           index' \in [Topics -> SUBSET Pairs], swept \subseteq swept'
    PROVE  Tidies(j, Unindexed(j, rec))
<1> DEFINE n == Unindexed(j, rec)
<1>1. /\ n \in Jobs_
      /\ n.rel = rec.rel \/ (j \in Conns /\ n.rel = {})
      /\ n.drop # {} \/ n.key # None => n = rec
      /\ j \in Reqs => /\ n.conn = rec.conn /\ n.sub = rec.sub /\ n.scope = rec.scope
                       /\ n.post = rec.post /\ n.todo = rec.todo
                       /\ n = rec \/ n.pc = "insert"
      /\ j \in Conns => \/ n = rec \/ n.pc \in {"release", "idle"}
                        \/ n.pc = "deregister" /\ conn[j] # "open"
      /\ j = Evictor => /\ n.conn = rec.conn /\ n.scope = rec.scope
                        /\ n = rec \/ n.pc = "evict"
  BY UnindexedType
<1>2. job' = [job EXCEPT ![j] = n] OBVIOUS
<1> HIDE DEF n
<1>3. j \in Reqs => ReqOK(n) /\ job[j].pc = "unindex"
  BY <1>1 DEF RegistryInv, JobsOK, ReqOK, ReqPcs
<1>4. j \in Conns => ReaderOK(j, conn'[j], n)
  BY <1>1 DEF RegistryInv, JobsOK, ReaderOK
<1>5. j = Evictor => EvictorOK(n)
  BY <1>1 DEF RegistryInv, JobsOK, EvictorOK
<1>6. HandlerOK(j, n) BY <1>1, <1>2, <1>3, <1>4, <1>5 DEF HandlerOK
<1>7. n.pc = "unindex" => n = rec BY <1>1, Roles
<1>8. Tidies(j, n) BY <1>1, <1>3, <1>6, <1>7 DEF Tidies
<1> QED BY <1>8 DEF n

\* remove_from_index takes out an entry whose topic the registry no longer has,
\* or one of a connection that has ended.
LEMMA RemoveFromIndexKeeps ==
    ASSUME RegistryInv, NEW j \in Jobs, RemoveFromIndex(j)
    PROVE  RegistryInv'
<1>1. PICK p \in job[j].drop : Unindex(j, p) BY DEF RemoveFromIndex
<1> DEFINE q == <<job[j].conn, p[1]>>
           left == index[p[2]] \ {q}
           key == IF index[p[2]] # {} /\ left = {} THEN p[2] ELSE None
           drop == job[j].drop \ {p}
           rec == [job[j] EXCEPT !.drop = drop, !.key = key]
<1>2. /\ job[j] \in Jobs_ /\ job[j].conn \in Conns /\ p \in Subs \X Topics
      /\ job[j].pc \in {"unindex", "unindexFree"}
  BY UnindexConn DEF RegistryInv, TypeOK, RemoveFromIndex
<1>3. key \in Topics \cup {None} /\ drop \subseteq Subs \X Topics /\ drop \subseteq job[j].drop
  BY <1>2, UnindexConn
<1>4. /\ index' = [index EXCEPT ![p[2]] = left]
      /\ job' = [job EXCEPT ![j] = Unindexed(j, rec)]
      /\ UNCHANGED <<conn, local, subs, topicVars, redisVars, eventVars, serving, got, strays, quota>>
      /\ UNCHANGED swept
  BY <1>1 DEF Unindex, RemoveFromIndex, historyVars
<1>5. /\ index' \in [Topics -> SUBSET Pairs]
      /\ \A t \in Topics, x \in Pairs : x \in index[t] /\ x \notin index'[t] => t = p[2] /\ x = q
  BY <1>2, <1>4 DEF RegistryInv, TypeOK
<1> HIDE DEF key, drop
<1>6. /\ rec \in Jobs_ /\ rec.pc = job[j].pc /\ rec.conn = job[j].conn /\ rec.sub = job[j].sub
      /\ rec.scope = job[j].scope /\ rec.todo = job[j].todo /\ rec.post = job[j].post
      /\ rec.rel = job[j].rel /\ rec.drop \subseteq job[j].drop
  BY <1>2, <1>3 DEF Jobs_
<1> HIDE DEF rec
<1>7. Tidies(j, Unindexed(j, rec)) BY <1>2, <1>4, <1>5, <1>6, UnindexedOK
<1>8. conn[q[1]] = "open" => p[2] \notin subs[q[1]][q[2]]
  <2>1. CASE job[j].pc = "unindex" BY <2>1 DEF RegistryInv, UnindexInv
  <2>2. CASE job[j].pc = "unindexFree"
    <3>1. j \in Conns
      BY <2>2, Roles DEF RegistryInv, JobsOK, ReqOK, ReqPcs, EvictorOK
    <3> QED BY <2>2, <3>1 DEF RegistryInv, JobsOK, ReaderOK
  <2> QED BY <1>2, <2>1, <2>2
<1>9. \A x \in Pairs : serving[x] # None => serving[x] \in Jobs /\ serving[x] # j
  BY Roles, <1>2 DEF RegistryInv, ServingInv
<1>10. \A k \in Jobs : k # j => job'[k] = job[k] BY <1>4, JobUpdate
<1>11. IndexInv'
  <2> SUFFICES ASSUME NEW x \in Pairs, NEW t \in Topics,
                      serving'[x] # None, conn'[x[1]] = "open", t \in subs'[x[1]][x[2]],
                      ~(job'[serving'[x]].pc = "push" /\ t \in job'[serving'[x]].todo)
               PROVE  x \in index'[t] \/ <<x, t>> \in swept'
    BY DEF IndexInv
  <2>1. job'[serving[x]] = job[serving[x]] BY <1>4, <1>9, <1>10
  <2>2. x \in index[t] \/ <<x, t>> \in swept
    BY <1>4, <2>1 DEF RegistryInv, IndexInv
  <2>3. ~(t = p[2] /\ x = q) BY <1>4, <1>8
  <2> QED BY <1>4, <1>5, <2>2, <2>3
<1> QED BY <1>7, <1>11, TidyStep

\* The key found empty is removed with whatever was pushed there since.
LEMMA RemoveKeyKeeps ==
    ASSUME RegistryInv, NEW j \in Jobs, RemoveKey(j)
    PROVE  RegistryInv'
<1> DEFINE key == job[j].key
           rec == [job[j] EXCEPT !.key = None]
<1>1. /\ job[j] \in Jobs_ /\ key \in Topics /\ job[j].pc \in {"unindex", "unindexFree"}
  BY DEF RegistryInv, TypeOK, RemoveKey, JobsOK, Jobs_
<1>2. /\ index' = [index EXCEPT ![key] = {}]
      /\ swept' = swept \cup {<<p, key>> : p \in index[key]}
      /\ job' = [job EXCEPT ![j] = Unindexed(j, rec)]
      /\ UNCHANGED <<conn, local, subs, topicVars, redisVars, eventVars, serving, got, strays, quota>>
  BY DEF RemoveKey
<1>3. /\ index' \in [Topics -> SUBSET Pairs] /\ swept \subseteq swept'
      /\ \A t \in Topics, x \in Pairs : x \in index[t] => x \in index'[t] \/ <<x, t>> \in swept'
  BY <1>1, <1>2 DEF RegistryInv, TypeOK
<1>4. /\ rec \in Jobs_ /\ rec.pc = job[j].pc /\ rec.conn = job[j].conn /\ rec.sub = job[j].sub
      /\ rec.scope = job[j].scope /\ rec.todo = job[j].todo /\ rec.post = job[j].post
      /\ rec.rel = job[j].rel /\ rec.drop \subseteq job[j].drop
  BY <1>1 DEF Jobs_
<1> HIDE DEF rec
<1>5. Tidies(j, Unindexed(j, rec)) BY <1>1, <1>2, <1>3, <1>4, UnindexedOK
<1>6. \A x \in Pairs : serving[x] # None => serving[x] \in Jobs /\ serving[x] # j
  BY Roles, <1>1 DEF RegistryInv, ServingInv
<1>7. \A k \in Jobs : k # j => job'[k] = job[k] BY <1>2, JobUpdate
<1>8. IndexInv'
  <2> SUFFICES ASSUME NEW x \in Pairs, NEW t \in Topics,
                      serving'[x] # None, conn'[x[1]] = "open", t \in subs'[x[1]][x[2]],
                      ~(job'[serving'[x]].pc = "push" /\ t \in job'[serving'[x]].todo)
               PROVE  x \in index'[t] \/ <<x, t>> \in swept'
    BY DEF IndexInv
  <2>1. job'[serving[x]] = job[serving[x]] BY <1>2, <1>6, <1>7
  <2>2. x \in index[t] \/ <<x, t>> \in swept
    BY <1>2, <2>1 DEF RegistryInv, IndexInv
  <2> QED BY <1>3, <2>2
<1> QED BY <1>5, <1>8, TidyStep

-----------------------------------------------------------------------------
(* Registering, counting and sending *)

\* One element more is at most one more to count.
LEMMA OneMore ==
    ASSUME NEW S, NEW x, IsFiniteSet(S)
    PROVE  /\ IsFiniteSet(S \cup {x}) /\ Cardinality(S \cup {x}) \in Nat
           /\ Cardinality(S \cup {x}) <= Cardinality(S) + 1
<1>1. /\ IsFiniteSet(S \cup {x})
      /\ Cardinality(S \cup {x}) = IF x \in S THEN Cardinality(S) ELSE Cardinality(S) + 1
  BY FS_AddElement
<1>2. Cardinality(S) \in Nat BY FS_CardinalityType
<1> QED BY <1>1, <1>2

\* The count of a topic survives a registration that is still to be retained.
LEMMA CountInserted ==
    ASSUME RegistryInv, NEW t \in Topics, desired'[t] = desired[t], strays'[t] = strays[t],
           NEW q, Registered(t)' \subseteq Registered(t) \cup {q},
           NEW r, r \notin OwedRetains(t), OwedRetains(t) \cup {r} \subseteq OwedRetains(t)',
           OwedReleases(t)' \subseteq OwedReleases(t)
    PROVE  desired'[t] + Cardinality(OwedRetains(t)') + strays'[t]
             >= Cardinality(Registered(t)') + Cardinality(OwedReleases(t)')
<1> DEFINE R1 == Registered(t)
           R2 == Registered(t)'
           L1 == OwedReleases(t)
           L2 == OwedReleases(t)'
           Q1 == OwedRetains(t)
           Q2 == OwedRetains(t)'
<1>1. /\ IsFiniteSet(R1) /\ IsFiniteSet(L1) /\ IsFiniteSet(Q1)
      /\ Cardinality(R1) \in Nat /\ Cardinality(L1) \in Nat /\ Cardinality(Q1) \in Nat
  BY FiniteCounts DEF CountsAreFinite
<1>2. /\ IsFiniteSet(R2) /\ IsFiniteSet(L2) /\ IsFiniteSet(Q2)
      /\ Cardinality(R2) \in Nat /\ Cardinality(L2) \in Nat /\ Cardinality(Q2) \in Nat
  BY FiniteCountsNext DEF CountsAreFinite
<1>3. desired[t] + Cardinality(Q1) + strays[t] >= Cardinality(R1) + Cardinality(L1)
  BY DEF RegistryInv, CountCoversRegistry
<1>4. desired[t] \in Nat /\ strays[t] \in Nat BY DEF RegistryInv, TypeOK, HistoryTypes
<1>5. R2 \subseteq R1 \cup {q} /\ L2 \subseteq L1 /\ Q1 \cup {r} \subseteq Q2 /\ r \notin Q1 OBVIOUS
<1> HIDE DEF R1, R2, L1, L2, Q1, Q2
<1>6. /\ IsFiniteSet(R1 \cup {q}) /\ Cardinality(R1 \cup {q}) \in Nat
      /\ Cardinality(R1 \cup {q}) <= Cardinality(R1) + 1
  BY <1>1, OneMore
<1>7. Cardinality(R2) <= Cardinality(R1 \cup {q}) BY <1>5, <1>6, Fewer
<1>8. Cardinality(Q1 \cup {r}) = Cardinality(Q1) + 1 BY <1>1, <1>5, FS_AddElement
<1>9. Cardinality(Q1 \cup {r}) <= Cardinality(Q2) BY <1>2, <1>5, Fewer
<1>10. Cardinality(L2) <= Cardinality(L1) BY <1>1, <1>5, Fewer
<1>11. desired'[t] + Cardinality(Q2) + strays'[t] >= Cardinality(R2) + Cardinality(L2)
  BY <1>1, <1>2, <1>3, <1>4, <1>6, <1>7, <1>8, <1>9, <1>10
<1> QED BY <1>11 DEF R2, L2, Q2

\* The count of a topic survives a retain.
LEMMA CountRetained ==
    ASSUME RegistryInv, NEW t \in Topics, desired'[t] = desired[t] + 1, strays'[t] = strays[t],
           NEW r, OwedRetains(t) \subseteq OwedRetains(t)' \cup {r},
           Registered(t)' \subseteq Registered(t),
           OwedReleases(t)' \subseteq OwedReleases(t)
    PROVE  desired'[t] + Cardinality(OwedRetains(t)') + strays'[t]
             >= Cardinality(Registered(t)') + Cardinality(OwedReleases(t)')
<1> DEFINE R1 == Registered(t)
           R2 == Registered(t)'
           L1 == OwedReleases(t)
           L2 == OwedReleases(t)'
           Q1 == OwedRetains(t)
           Q2 == OwedRetains(t)'
<1>1. /\ IsFiniteSet(R1) /\ IsFiniteSet(L1) /\ IsFiniteSet(Q1)
      /\ Cardinality(R1) \in Nat /\ Cardinality(L1) \in Nat /\ Cardinality(Q1) \in Nat
  BY FiniteCounts DEF CountsAreFinite
<1>2. /\ IsFiniteSet(R2) /\ IsFiniteSet(L2) /\ IsFiniteSet(Q2)
      /\ Cardinality(R2) \in Nat /\ Cardinality(L2) \in Nat /\ Cardinality(Q2) \in Nat
  BY FiniteCountsNext DEF CountsAreFinite
<1>3. desired[t] + Cardinality(Q1) + strays[t] >= Cardinality(R1) + Cardinality(L1)
  BY DEF RegistryInv, CountCoversRegistry
<1>4. desired[t] \in Nat /\ strays[t] \in Nat BY DEF RegistryInv, TypeOK, HistoryTypes
<1>5. R2 \subseteq R1 /\ L2 \subseteq L1 /\ Q1 \subseteq Q2 \cup {r} OBVIOUS
<1> HIDE DEF R1, R2, L1, L2, Q1, Q2
<1>6. /\ IsFiniteSet(Q2 \cup {r}) /\ Cardinality(Q2 \cup {r}) \in Nat
      /\ Cardinality(Q2 \cup {r}) <= Cardinality(Q2) + 1
  BY <1>2, OneMore
<1>7. Cardinality(Q1) <= Cardinality(Q2 \cup {r}) BY <1>5, <1>6, Fewer
<1>8. Cardinality(R2) <= Cardinality(R1) /\ Cardinality(L2) <= Cardinality(L1) BY <1>1, <1>5, Fewer
<1>9. desired'[t] + Cardinality(Q2) + strays'[t] >= Cardinality(R2) + Cardinality(L2)
  BY <1>1, <1>2, <1>3, <1>4, <1>6, <1>7, <1>8
<1> QED BY <1>9 DEF R2, L2, Q2

\* The count of a topic survives a release that was due.
LEMMA CountReleased ==
    ASSUME RegistryInv, NEW t \in Topics, desired'[t] \in Nat, desired'[t] + 1 >= desired[t],
           strays'[t] = strays[t],
           NEW d, d \in OwedReleases(t), OwedReleases(t)' \subseteq OwedReleases(t) \ {d},
           OwedRetains(t) \subseteq OwedRetains(t)', Registered(t)' \subseteq Registered(t)
    PROVE  desired'[t] + Cardinality(OwedRetains(t)') + strays'[t]
             >= Cardinality(Registered(t)') + Cardinality(OwedReleases(t)')
<1> DEFINE R1 == Registered(t)
           R2 == Registered(t)'
           L1 == OwedReleases(t)
           L2 == OwedReleases(t)'
           Q1 == OwedRetains(t)
           Q2 == OwedRetains(t)'
<1>1. /\ IsFiniteSet(R1) /\ IsFiniteSet(L1) /\ IsFiniteSet(Q1)
      /\ Cardinality(R1) \in Nat /\ Cardinality(L1) \in Nat /\ Cardinality(Q1) \in Nat
  BY FiniteCounts DEF CountsAreFinite
<1>2. /\ IsFiniteSet(R2) /\ IsFiniteSet(L2) /\ IsFiniteSet(Q2)
      /\ Cardinality(R2) \in Nat /\ Cardinality(L2) \in Nat /\ Cardinality(Q2) \in Nat
  BY FiniteCountsNext DEF CountsAreFinite
<1>3. desired[t] + Cardinality(Q1) + strays[t] >= Cardinality(R1) + Cardinality(L1)
  BY DEF RegistryInv, CountCoversRegistry
<1>4. desired[t] \in Nat /\ strays[t] \in Nat BY DEF RegistryInv, TypeOK, HistoryTypes
<1>5. R2 \subseteq R1 /\ L2 \subseteq L1 \ {d} /\ d \in L1 /\ Q1 \subseteq Q2 OBVIOUS
<1> HIDE DEF R1, R2, L1, L2, Q1, Q2
<1>6. IsFiniteSet(L1 \ {d}) /\ Cardinality(L1 \ {d}) = Cardinality(L1) - 1
  BY <1>1, <1>5, FS_RemoveElement
<1>7. Cardinality(L2) <= Cardinality(L1) - 1 BY <1>5, <1>6, Fewer
<1>8. Cardinality(R2) <= Cardinality(R1) /\ Cardinality(Q1) <= Cardinality(Q2)
  BY <1>1, <1>2, <1>5, Fewer
<1>9. desired'[t] + Cardinality(Q2) + strays'[t] >= Cardinality(R2) + Cardinality(L2)
  BY <1>1, <1>2, <1>3, <1>4, <1>7, <1>8
<1> QED BY <1>9 DEF R2, L2, Q2

\* What a handler owes less is owed less in all.
LEMMA OwedLess ==
    ASSUME RegistryInv, NEW j \in Jobs, NEW n, job' = [job EXCEPT ![j] = n], NEW t \in Topics,
           n.rel \subseteq job[j].rel
    PROVE  OwedReleases(t)' \subseteq OwedReleases(t)
<1>1. ASSUME NEW p \in OwedReleases(t)' PROVE p \in OwedReleases(t)
  <2>0. p \in Jobs \X Subs BY <1>1 DEF OwedReleases
  <2>1. PICK k \in Jobs, s \in Subs : p = <<k, s>> BY <2>0
  <2>2. <<s, t>> \in job[k].rel BY <1>1, <2>1, OwedFrame
  <2> QED BY <2>1, <2>2, OwedFrame
<1> QED BY <1>1

\* A REQ registers its subscription under the lock of the connection.
LEMMA InsertKeeps ==
    ASSUME RegistryInv, NEW r \in Reqs, InsertSubscription(r)
    PROVE  RegistryInv'
<1> DEFINE c == job[r].conn
           s == job[r].sub
           n == [job[r] EXCEPT !.pc = "push", !.todo = job[r].scope]
<1>1. /\ r \in Jobs /\ job[r] \in Jobs_ /\ job[r].pc = "insert" /\ job[r].key = None
      /\ ReqOK(job[r]) /\ c \in Conns /\ s \in Subs /\ job[r].scope \in Scopes
      /\ job[r].scope \subseteq Topics
  BY Roles DEF RegistryInv, JobsOK, TypeOK, InsertSubscription, ReqOK, Jobs_
<1>2. /\ Free(c) /\ subs' = [subs EXCEPT ![c][s] = job[r].scope]
      /\ job' = [job EXCEPT ![r] = n]
      /\ got' = [got EXCEPT ![<<c, s>>] = {}]
      /\ serving' = [serving EXCEPT ![<<c, s>>] = r]
      /\ swept' = {w \in swept : w[1] # <<c, s>>}
      /\ UNCHANGED <<conn, local, index, topicVars, redisVars, eventVars, strays, quota>>
  BY DEF InsertSubscription
<1>3. /\ n \in Jobs_ /\ n.pc = "push" /\ n.todo = job[r].scope /\ n.scope = job[r].scope
      /\ n.conn = c /\ n.sub = s /\ n.key = None /\ n.post = job[r].post /\ n.rel = job[r].rel
  BY <1>1 DEF Jobs_
<1> HIDE DEF n
<1>4. ReqOK(n) BY <1>1, <1>3 DEF ReqOK, ReqPcs
<1>5. HandlerOK(r, n) BY <1>2, <1>3, <1>4, Roles DEF HandlerOK
<1>6. JobsOK' /\ \A k \in Jobs : job'[k] \in Jobs_ BY <1>1, <1>2, <1>5, JobsFrame DEF HandlerOK
<1>7. /\ subs' \in [Conns -> [Subs -> Scopes \cup {{}}]] /\ subs'[c][s] = job[r].scope
      /\ \A q \in Pairs : q # <<c, s>> => subs'[q[1]][q[2]] = subs[q[1]][q[2]]
      /\ \A d \in Conns : d # c => subs'[d] = subs[d]
  BY <1>1, <1>2 DEF RegistryInv, TypeOK, Pairs
<1>8. TypeOK' BY <1>2, <1>6, <1>7 DEF RegistryInv, TypeOK, topicVars, redisVars, eventVars
<1>9. HistoryTypes' BY <1>2 DEF RegistryInv, HistoryTypes
<1>10. /\ job'[r] = n /\ \A k \in Jobs : k # r => job'[k] = job[k] BY <1>1, <1>2, JobUpdate
<1>11. InterestInv' /\ CommandsOK'
  <2>1. \A x \in Reqs : job'[x].post = job[x].post BY <1>3, <1>10, Roles
  <2> QED BY <1>2, <2>1, InterestFrame DEF topicVars, redisVars
<1>12. UnindexInv'
  <2>1. \A k \in Jobs : \A p \in job[k].drop :
             job[k].pc = "unindex" /\ k # r =>
               subs'[job[k].conn][p[1]] \subseteq subs[job[k].conn][p[1]]
    BY <1>2, <1>7, UnindexConn DEF Free
  <2> QED BY <1>1, <1>2, <1>3, <2>1, UnindexFrame
<1>13. /\ serving'[<<c, s>>] = r
       /\ \A p \in Pairs : p # <<c, s>> => /\ serving'[p] = serving[p] /\ got'[p] = got[p]
                                           /\ \A t : <<p, t>> \in swept => <<p, t>> \in swept'
  BY <1>1, <1>2 DEF RegistryInv, HistoryTypes, Pairs
<1>14. \A p \in Pairs : serving[p] # None =>
         serving[p] \in Reqs /\ serving[p] # r /\ job'[serving[p]] = job[serving[p]]
  BY <1>1, <1>10, Roles DEF RegistryInv, ServingInv
<1>15. ServingInv'
  <2> SUFFICES ASSUME NEW p \in Pairs, serving'[p] # None
               PROVE  /\ serving'[p] \in Reqs
                      /\ job'[serving'[p]].pc \in {"push", "release", "retain", "eose", "eoseOnly"}
                      /\ p = <<job'[serving'[p]].conn, job'[serving'[p]].sub>>
                      /\ subs'[p[1]][p[2]] \subseteq job'[serving'[p]].scope
    BY DEF ServingInv
  <2>1. CASE p = <<c, s>> BY <1>3, <1>7, <1>10, <1>13, <2>1
  <2>2. CASE p # <<c, s>>
    <3>1. serving'[p] = serving[p] /\ subs'[p[1]][p[2]] = subs[p[1]][p[2]] BY <1>7, <1>13, <2>2
    <3>2. job'[serving'[p]] = job[serving[p]] BY <1>14, <3>1
    <3>3. /\ serving[p] \in Reqs
          /\ job[serving[p]].pc \in {"push", "release", "retain", "eose", "eoseOnly"}
          /\ p = <<job[serving[p]].conn, job[serving[p]].sub>>
          /\ subs[p[1]][p[2]] \subseteq job[serving[p]].scope
      BY <3>1 DEF RegistryInv, ServingInv
    <3> QED BY <3>1, <3>2, <3>3
  <2> QED BY <2>1, <2>2
<1>16. IndexInv'
  <2> SUFFICES ASSUME NEW p \in Pairs, NEW t \in Topics,
                      serving'[p] # None, conn'[p[1]] = "open", t \in subs'[p[1]][p[2]],
                      ~(job'[serving'[p]].pc = "push" /\ t \in job'[serving'[p]].todo)
               PROVE  p \in index'[t] \/ <<p, t>> \in swept'
    BY DEF IndexInv
  <2>1. p # <<c, s>> BY <1>3, <1>7, <1>10, <1>13
  <2>2. p \in index[t] \/ <<p, t>> \in swept
    BY <1>2, <1>7, <1>13, <1>14, <2>1 DEF RegistryInv, IndexInv
  <2> QED BY <1>2, <1>13, <2>1, <2>2
<1>17. NewInv' BY <1>2 DEF RegistryInv, NewInv, redisVars, eventVars
<1>18. DeliveryInv'
  <2> SUFFICES ASSUME NEW p \in Pairs, NEW e \in Events,
                      serving'[p] # None, job'[serving'[p]].pc = "eose", conn'[p[1]] = "open",
                      TopicOf[e] \in subs'[p[1]][p[2]], e \notin got'[p]
               PROVE  \/ <<p, TopicOf[e]>> \in swept'
                      \/ \A way \in {"dispatch", "echo"} :
                           \/ fan'[<<e, way>>].pc = "none"
                           \/ /\ fan'[<<e, way>>].pc = "match"
                              /\ p \in fan'[<<e, way>>].cand \cup fan'[<<e, way>>].matched
    BY DEF DeliveryInv
  <2>1. p # <<c, s>> BY <1>3, <1>10, <1>13
  <2>2. fan' = fan /\ conn' = conn BY <1>2 DEF eventVars
  <2>3. /\ serving[p] # None /\ job[serving[p]].pc = "eose" /\ conn[p[1]] = "open"
        /\ TopicOf[e] \in subs[p[1]][p[2]] /\ e \notin got[p]
    BY <1>7, <1>13, <1>14, <2>1, <2>2
  <2> QED BY <1>13, <2>1, <2>2, <2>3 DEF RegistryInv, DeliveryInv
<1>19. CountCoversRegistry'
  <2> SUFFICES ASSUME NEW t \in Topics
             PROVE  desired'[t] + Cardinality(OwedRetains(t)') + strays'[t]
                      >= Cardinality(Registered(t)') + Cardinality(OwedReleases(t)')
    BY DEF CountCoversRegistry
  <2>1. desired'[t] = desired[t] /\ strays'[t] = strays[t] BY <1>2 DEF topicVars
  <2>2. OwedReleases(t)' \subseteq OwedReleases(t) BY <1>1, <1>2, <1>3, OwedLess
  <2>3. /\ OwedRetains(t) \ {r} = OwedRetains(t)' \ {r}
        /\ r \in OwedRetains(t) <=> Owes(job[r], t)
        /\ r \in OwedRetains(t)' <=> Owes(n, t)
    BY <1>1, <1>2, OwedFrame
  <2>4. r \notin OwedRetains(t) BY <1>1, <2>3 DEF Owes
  <2>5. CASE t \in job[r].scope
    <3>1. OwedRetains(t) \cup {r} \subseteq OwedRetains(t)' BY <1>3, <2>3, <2>4, <2>5 DEF Owes
    <3>2. Registered(t)' \subseteq Registered(t) \cup {<<c, s>>}
      <4>1. ASSUME NEW q \in Registered(t)', q # <<c, s>> PROVE q \in Registered(t)
        <5>1. q \in Pairs /\ t \in subs'[q[1]][q[2]] BY <4>1 DEF Registered
        <5> QED BY <1>7, <4>1, <5>1 DEF Registered
      <4> QED BY <4>1
    <3> QED BY <2>1, <2>2, <2>4, <3>1, <3>2, CountInserted
  <2>6. CASE t \notin job[r].scope
    <3>1. OwedRetains(t) \subseteq OwedRetains(t)' BY <2>3, <2>4
    <3>2. Registered(t)' \subseteq Registered(t)
      <4>1. ASSUME NEW q \in Registered(t)' PROVE q \in Registered(t)
        <5>1. q \in Pairs /\ t \in subs'[q[1]][q[2]] BY <4>1 DEF Registered
        <5>2. q # <<c, s>> BY <1>7, <2>6, <5>1
        <5> QED BY <1>7, <5>1, <5>2 DEF Registered
      <4> QED BY <4>1
    <3>3. desired'[t] \in Nat /\ strays'[t] \in Nat /\ strays'[t] >= strays[t] /\ desired'[t] >= desired[t]
      BY <2>1 DEF RegistryInv, TypeOK, HistoryTypes
    <3> QED BY <2>2, <3>1, <3>2, <3>3, CountKeeps
  <2> QED BY <2>5, <2>6
<1> QED BY <1>6, <1>8, <1>9, <1>11, <1>12, <1>15, <1>16, <1>17, <1>18, <1>19 DEF RegistryInv

\* A REQ pushes its subscription under one key of the index.
LEMMA PushKeeps ==
    ASSUME RegistryInv, NEW r \in Reqs, PushIndex(r)
    PROVE  RegistryInv'
<1>1. PICK t0 \in job[r].todo :
        /\ index' = [index EXCEPT ![t0] = @ \cup {<<job[r].conn, job[r].sub>>}]
        /\ job' = [job EXCEPT ![r] =
                       LET rec == [job[r] EXCEPT !.todo = job[r].todo \ {t0}]
                       IN  IF rec.todo = {} THEN Released(r, rec) ELSE rec]
  BY DEF PushIndex
<1> DEFINE c == job[r].conn
           s == job[r].sub
           left == job[r].todo \ {t0}
           rec == [job[r] EXCEPT !.todo = left]
           n == IF rec.todo = {} THEN Released(r, rec) ELSE rec
<1>2. /\ r \in Jobs /\ job[r] \in Jobs_ /\ job[r].pc = "push" /\ job[r].key = None
      /\ ReqOK(job[r]) /\ c \in Conns /\ s \in Subs /\ job[r].scope \in Scopes
      /\ job[r].scope \subseteq Topics /\ t0 \in Topics /\ job[r].post = None
  BY Roles DEF RegistryInv, JobsOK, TypeOK, PushIndex, ReqOK, Jobs_
<1>3. /\ job' = [job EXCEPT ![r] = n]
      /\ index' = [index EXCEPT ![t0] = @ \cup {<<c, s>>}]
      /\ UNCHANGED <<conn, local, subs, topicVars, redisVars, eventVars, got, serving, swept,
                     strays, quota>>
  BY <1>1 DEF PushIndex, historyVars
<1>4. left \subseteq job[r].todo /\ left \subseteq Topics /\ left \subseteq job[r].scope
  BY <1>2 DEF ReqOK
<1>5. \A t \in job[r].todo : t = t0 \/ t \in left OBVIOUS
<1> HIDE DEF left
<1>6. /\ rec \in Jobs_ /\ rec.pc = "push" /\ rec.todo = left /\ rec.scope = job[r].scope
      /\ rec.conn = c /\ rec.sub = s /\ rec.key = None /\ rec.post = None /\ rec.rel = job[r].rel
  BY <1>2, <1>4 DEF Jobs_
<1> HIDE DEF rec
<1>7. /\ n \in Jobs_ /\ n.scope = job[r].scope /\ n.conn = c /\ n.sub = s /\ n.key = None
      /\ n.post = None /\ n.rel = job[r].rel
      /\ \/ n.pc = "push" /\ n.todo = left
         \/ n.pc = "release" /\ left = {} /\ n.todo = {}
         \/ n.pc = "retain" /\ left = {} /\ n.todo = job[r].scope
  <2>1. CASE left = {} BY <1>6, <2>1, ReleasedReq
  <2>2. CASE left # {} BY <1>6, <2>2
  <2> QED BY <2>1, <2>2
<1> HIDE DEF n
<1>8. ReqOK(n) BY <1>2, <1>4, <1>7 DEF ReqOK, ReqPcs
<1>9. HandlerOK(r, n) BY <1>3, <1>7, <1>8, Roles DEF HandlerOK
<1>10. JobsOK' /\ \A k \in Jobs : job'[k] \in Jobs_ BY <1>2, <1>3, <1>9, JobsFrame DEF HandlerOK
<1>11. /\ index' \in [Topics -> SUBSET Pairs] /\ <<c, s>> \in index'[t0]
       /\ \A t \in Topics : index[t] \subseteq index'[t]
  BY <1>2, <1>3 DEF RegistryInv, TypeOK, Pairs
<1>12. TypeOK' BY <1>3, <1>10, <1>11 DEF RegistryInv, TypeOK, topicVars, redisVars, eventVars
<1>13. HistoryTypes' BY <1>3 DEF RegistryInv, HistoryTypes
<1>14. /\ job'[r] = n /\ \A k \in Jobs : k # r => job'[k] = job[k] BY <1>2, <1>3, JobUpdate
<1>15. InterestInv' /\ CommandsOK'
  <2>1. \A x \in Reqs : job'[x].post = job[x].post BY <1>2, <1>7, <1>14, Roles
  <2> QED BY <1>3, <2>1, InterestFrame DEF topicVars, redisVars
<1>16. UnindexInv'
  <2>1. \A p \in n.drop : n.pc = "unindex" => p[2] \notin subs'[n.conn][p[1]] BY <1>7
  <2> QED BY <1>2, <1>3, <2>1, UnindexFrame
<1>17. ServingInv' /\ NewInv' /\ DeliveryInv'
  <2>1. Continues(job[r], n) BY <1>2, <1>7 DEF Continues
  <2>2. KeepsServing(r, n) BY <1>3, <2>1 DEF KeepsServing, eventVars, redisVars
  <2> QED BY <1>2, <1>3, <2>2, ServingFrame
<1>18. IndexInv'
  <2> SUFFICES ASSUME NEW p \in Pairs, NEW t \in Topics,
                      serving'[p] # None, conn'[p[1]] = "open", t \in subs'[p[1]][p[2]],
                      ~(job'[serving'[p]].pc = "push" /\ t \in job'[serving'[p]].todo)
               PROVE  p \in index'[t] \/ <<p, t>> \in swept'
    BY DEF IndexInv
  <2>1. serving[p] # None /\ conn[p[1]] = "open" /\ t \in subs[p[1]][p[2]] /\ serving'[p] = serving[p]
    BY <1>3
  <2>2. serving[p] \in Reqs /\ serving[p] \in Jobs /\ p = <<job[serving[p]].conn, job[serving[p]].sub>>
    BY <2>1, Roles DEF RegistryInv, ServingInv
  <2>3. CASE serving[p] = r /\ t \in job[r].todo
    <3>1. t = t0 BY <1>5, <1>7, <1>14, <2>1, <2>3
    <3> QED BY <1>11, <2>2, <2>3, <3>1
  <2>4. CASE ~(serving[p] = r /\ t \in job[r].todo)
    <3>1. ~(job[serving[p]].pc = "push" /\ t \in job[serving[p]].todo)
      BY <1>14, <2>1, <2>2, <2>4
    <3>2. p \in index[t] \/ <<p, t>> \in swept BY <2>1, <3>1 DEF RegistryInv, IndexInv
    <3> QED BY <1>3, <1>11, <3>2
  <2> QED BY <2>3, <2>4
<1>19. CountCoversRegistry'
  <2>1. \A t \in Topics : Registered(t)' \subseteq Registered(t) BY <1>3 DEF Registered
  <2>2. \A t \in Topics : Owes(job[r], t) => Owes(n, t) BY <1>2, <1>7 DEF Owes
  <2>3. UNCHANGED <<desired, strays>> BY <1>3 DEF topicVars
  <2> QED BY <1>2, <1>3, <1>7, <2>1, <2>2, <2>3, CountFrame
<1> QED BY <1>10, <1>12, <1>13, <1>15, <1>16, <1>17, <1>18, <1>19 DEF RegistryInv

\* A REQ sends the stored events of its scope and EOSE: an event it does not
\* send is new, and no delivery of it has begun.
LEMMA SendHistoryKeeps ==
    ASSUME RegistryInv, NEW r \in Reqs, SendHistory(r)
    PROVE  RegistryInv'
<1> DEFINE p0 == <<job[r].conn, job[r].sub>>
           sent == {e \in Events : event[e] # "new" /\ TopicOf[e] \in job[r].scope}
           n == [job[r] EXCEPT !.pc = "eose"]
           m == [job[r] EXCEPT !.pc = "eoseOnly"]
<1>1. /\ r \in Jobs /\ job[r] \in Jobs_ /\ job[r].pc = "retain" /\ job[r].key = None
      /\ job[r].todo = {} /\ job[r].post = None /\ ReqOK(job[r]) /\ p0 \in Pairs
  BY Roles DEF RegistryInv, JobsOK, TypeOK, SendHistory, ReqOK, Pairs
<1>2. UNCHANGED <<conn, registryVars, topicVars, redisVars, eventVars, serving, swept, strays>>
  BY DEF SendHistory
<1>3. \/ job' = [job EXCEPT ![r] = n] /\ got' = [got EXCEPT ![p0] = @ \cup sent] /\ UNCHANGED quota
      \/ job' = [job EXCEPT ![r] = m] /\ Spend("faults") /\ UNCHANGED got
  BY <1>1 DEF SendHistory, RegistryInv, JobsOK
<1>4. /\ n \in Jobs_ /\ n.pc = "eose" /\ n.todo = {} /\ n.scope = job[r].scope
      /\ n.conn = job[r].conn /\ n.sub = job[r].sub /\ n.key = None /\ n.post = None
      /\ n.rel = job[r].rel
      /\ m \in Jobs_ /\ m.pc = "eoseOnly" /\ m.todo = {} /\ m.scope = job[r].scope
      /\ m.conn = job[r].conn /\ m.sub = job[r].sub /\ m.key = None /\ m.post = None
      /\ m.rel = job[r].rel
  BY <1>1 DEF Jobs_
<1> HIDE DEF n, m
<1>5. ReqOK(n) /\ ReqOK(m) BY <1>1, <1>4 DEF ReqOK, ReqPcs
<1>6. CASE job' = [job EXCEPT ![r] = m] /\ Spend("faults") /\ UNCHANGED got
  <2>1. HandlerOK(r, m) BY <1>4, <1>5, <1>6, Roles DEF HandlerOK
  <2>2. Continues(job[r], m) BY <1>4 DEF Continues
  <2>3. Quiet(r, m)
    BY <1>1, <1>2, <1>4, <1>6, <2>1, <2>2 DEF Quiet, RegistryInv, TypeOK, registryVars
  <2> QED BY <1>1, <2>3, QuietStep
<1>7. CASE job' = [job EXCEPT ![r] = n] /\ got' = [got EXCEPT ![p0] = @ \cup sent] /\ UNCHANGED quota
  <2>1. JobsOK' /\ \A k \in Jobs : job'[k] \in Jobs_
    BY <1>1, <1>2, <1>4, <1>5, <1>7, Roles, JobsFrame
  <2>2. TypeOK'
    BY <1>2, <2>1 DEF RegistryInv, TypeOK, registryVars, topicVars, redisVars, eventVars
  <2>3. HistoryTypes' BY <1>2, <1>7 DEF RegistryInv, HistoryTypes
  <2>4. /\ job'[r] = n /\ \A k \in Jobs : k # r => job'[k] = job[k] BY <1>1, <1>7, JobUpdate
  <2>5. InterestInv' /\ CommandsOK'
    <3>1. \A x \in Reqs : job'[x].post = job[x].post BY <1>1, <1>4, <2>4, Roles
    <3> QED BY <1>2, <3>1, InterestFrame DEF topicVars, redisVars
  <2>6. UnindexInv'
    <3>1. \A p \in n.drop : n.pc = "unindex" => p[2] \notin subs'[n.conn][p[1]] BY <1>4
    <3>2. UNCHANGED subs BY <1>2 DEF registryVars
    <3> QED BY <1>1, <1>7, <3>1, <3>2, UnindexFrame
  <2>7. CountCoversRegistry'
    <3>1. \A t \in Topics : Registered(t)' \subseteq Registered(t) BY <1>2 DEF Registered, registryVars
    <3>2. \A t \in Topics : Owes(job[r], t) => Owes(n, t) BY <1>1 DEF Owes
    <3>3. UNCHANGED <<desired, strays>> BY <1>2 DEF topicVars
    <3> QED BY <1>1, <1>4, <1>7, <3>1, <3>2, <3>3, CountFrame
  <2>8. IndexInv'
    <3>1. KeepsIndex(r, n) BY <1>1, <1>2 DEF KeepsIndex, registryVars
    <3> QED BY <1>1, <1>7, <3>1, IndexFrame
  <2>9. NewInv' BY <1>2 DEF RegistryInv, NewInv, redisVars, eventVars
  <2>10. \A p \in Pairs : serving[p] # None =>
           /\ serving[p] \in Reqs /\ serving[p] \in Jobs
           /\ p = <<job[serving[p]].conn, job[serving[p]].sub>>
           /\ subs[p[1]][p[2]] \subseteq job[serving[p]].scope
           /\ job[serving[p]].pc \in {"push", "release", "retain", "eose", "eoseOnly"}
    BY Roles DEF RegistryInv, ServingInv
  <2>11. serving' = serving /\ subs' = subs /\ fan' = fan /\ swept' = swept /\ conn' = conn
    BY <1>2 DEF registryVars, eventVars
  <2>12. ServingInv'
    <3> SUFFICES ASSUME NEW p \in Pairs, serving[p] # None
                 PROVE  /\ serving[p] \in Reqs
                        /\ job'[serving[p]].pc \in {"push", "release", "retain", "eose", "eoseOnly"}
                        /\ p = <<job'[serving[p]].conn, job'[serving[p]].sub>>
                        /\ subs[p[1]][p[2]] \subseteq job'[serving[p]].scope
      BY <2>11 DEF ServingInv
    <3>1. CASE serving[p] = r BY <1>4, <2>4, <2>10, <3>1
    <3>2. CASE serving[p] # r BY <2>4, <2>10, <3>2
    <3> QED BY <3>1, <3>2
  <2>13. DeliveryInv'
    <3> SUFFICES ASSUME NEW p \in Pairs, NEW e \in Events,
                        serving[p] # None, job'[serving[p]].pc = "eose", conn[p[1]] = "open",
                        TopicOf[e] \in subs[p[1]][p[2]], e \notin got'[p]
                 PROVE  \/ <<p, TopicOf[e]>> \in swept
                        \/ \A way \in {"dispatch", "echo"} :
                             \/ fan[<<e, way>>].pc = "none"
                             \/ /\ fan[<<e, way>>].pc = "match"
                                /\ p \in fan[<<e, way>>].cand \cup fan[<<e, way>>].matched
      BY <2>11 DEF DeliveryInv
    <3>1. got[p] \subseteq got'[p] /\ (p = p0 => sent \subseteq got'[p])
      BY <1>1, <1>7 DEF RegistryInv, HistoryTypes
    <3>2. CASE serving[p] = r
      <4>1. p = p0 /\ TopicOf[e] \in job[r].scope BY <2>10, <3>2
      <4>2. event[e] = "new" BY <3>1, <4>1
      <4> QED BY <4>2 DEF RegistryInv, NewInv
    <3>3. CASE serving[p] # r
      <4>1. job[serving[p]].pc = "eose" BY <2>4, <2>10, <3>3
      <4> QED BY <3>1, <4>1 DEF RegistryInv, DeliveryInv
    <3> QED BY <3>2, <3>3
  <2> QED BY <2>1, <2>2, <2>3, <2>5, <2>6, <2>7, <2>8, <2>9, <2>12, <2>13 DEF RegistryInv
<1> QED BY <1>3, <1>6, <1>7

Counts(j, n) ==
    /\ HandlerOK(j, n)
    /\ UNCHANGED <<conn, registryVars, redisVars, eventVars, serving, got, swept, strays>>
    /\ desired' \in [Topics -> Nat] /\ timers' \in [Topics -> Nat]
    /\ n.pc # "unindex"
    /\ j \in Reqs => job[j].pc # "push" /\ Continues(job[j], n)

\* A step that changes the counts and the commands only.
LEMMA CountStep ==
    ASSUME RegistryInv, NEW j \in Jobs, NEW n, Counts(j, n),
           CountCoversRegistry', InterestInv', CommandsOK'
    PROVE  RegistryInv'
<1> USE DEF Counts, HandlerOK
<1>1. JobsOK' /\ \A k \in Jobs : job'[k] \in Jobs_ BY JobsFrame
<1>2. \A i \in DOMAIN commands' : commands'[i] \in {"subscribe", "unsubscribe"} \X Topics
  BY DEF CommandsOK
<1>3. TypeOK' BY <1>1, <1>2 DEF RegistryInv, TypeOK, registryVars, redisVars, eventVars
<1>4. HistoryTypes' BY Spent DEF RegistryInv, HistoryTypes
<1>5. UnindexInv'
  <2>1. UNCHANGED subs BY DEF registryVars
  <2> QED BY <2>1, UnindexFrame
<1>6. \A p \in Pairs : serving[p] = j => j \in Reqs
  BY NamesAssumption, Roles DEF RegistryInv, ServingInv, Jobs
<1>7. ServingInv' /\ NewInv' /\ DeliveryInv'
  <2>1. KeepsServing(j, n) BY <1>6 DEF KeepsServing, registryVars, eventVars, redisVars, Pairs
  <2> QED BY <2>1, ServingFrame
<1>8. IndexInv'
  <2>1. KeepsIndex(j, n) BY <1>6 DEF KeepsIndex, registryVars, Pairs
  <2> QED BY <2>1, IndexFrame
<1> QED BY <1>1, <1>3, <1>4, <1>5, <1>7, <1>8 DEF RegistryInv

\* What Released makes of a handler that has released p is in order.
LEMMA ReleasedOK ==
    ASSUME RegistryInv, NEW j \in Jobs, NEW rec \in Jobs_, job[j].pc = "release",
           rec.pc = "release", rec.conn = job[j].conn, rec.sub = job[j].sub,
           rec.scope = job[j].scope, rec.todo = job[j].todo, rec.post = job[j].post,
           rec.key = job[j].key, rec.drop = job[j].drop,
           job' = [job EXCEPT ![j] = Released(j, rec)],
           UNCHANGED <<conn, registryVars, redisVars, eventVars, serving, got, swept, strays, quota>>,
           desired' \in [Topics -> Nat], timers' \in [Topics -> Nat]
    PROVE  LET n == Released(j, rec) IN
           /\ Counts(j, n) /\ n.rel \subseteq rec.rel
           /\ j \in Reqs => /\ n.post = job[j].post
                            /\ \A t \in Topics : Owes(job[j], t) => Owes(n, t)
<1> DEFINE n == Released(j, rec)
<1>1. job[j].key = None BY DEF RegistryInv, JobsOK
<1>2. CASE j \in Reqs
  <2>1. /\ n \in Jobs_
        /\ n.conn = rec.conn /\ n.sub = rec.sub /\ n.scope = rec.scope /\ n.post = rec.post
        /\ n.rel = rec.rel /\ n.key = rec.key
        /\ \/ n.pc = "release" /\ n.todo = rec.todo
           \/ n.pc = "retain" /\ n.todo = rec.scope
    BY <1>2, ReleasedReq
  <2>2. job' = [job EXCEPT ![j] = n] OBVIOUS
  <2> HIDE DEF n
  <2>3. ReqOK(job[j]) /\ job[j].scope \subseteq Topics
    BY <1>2 DEF RegistryInv, JobsOK, TypeOK, Jobs_
  <2>4. ReqOK(n) BY <2>1, <2>3 DEF ReqOK, ReqPcs
  <2>5. HandlerOK(j, n) BY <1>1, <1>2, <2>1, <2>2, <2>4, Roles DEF HandlerOK
  <2>6. Continues(job[j], n) BY <2>1 DEF Continues
  <2>7. \A t \in Topics : Owes(job[j], t) => Owes(n, t) BY <2>1 DEF Owes
  <2>8. Counts(j, n) BY <2>1, <2>5, <2>6 DEF Counts
  <2> QED BY <2>1, <2>7, <2>8 DEF n
<1>3. CASE j \in Conns
  <2>1. /\ n \in Jobs_ /\ n.rel \subseteq rec.rel
        /\ n.pc \in {"release", "idle"} \/ (n.pc = "deregister" /\ conn[j] # "open")
        /\ n.key = None
    BY <1>1, <1>3, ReleasedReader
  <2>2. job' = [job EXCEPT ![j] = n] OBVIOUS
  <2> HIDE DEF n
  <2>3. ReaderOK(j, conn'[j], n) BY <2>1 DEF ReaderOK
  <2>4. HandlerOK(j, n) BY <1>3, <2>1, <2>2, <2>3, Roles DEF HandlerOK
  <2>5. Counts(j, n) BY <1>3, <2>1, <2>4, Roles DEF Counts
  <2> QED BY <1>3, <2>1, <2>5, Roles DEF n
<1>4. CASE j = Evictor
  <2>1. /\ n \in Jobs_ /\ n.rel = rec.rel /\ n.pc \in {"release", "visit"} /\ n.key = None
        /\ n.conn = rec.conn /\ n.scope = rec.scope
    BY <1>1, <1>4, ReleasedEvictor
  <2>2. job' = [job EXCEPT ![j] = n] OBVIOUS
  <2> HIDE DEF n
  <2>3. EvictorOK(n) BY <1>4, <2>1 DEF RegistryInv, JobsOK, EvictorOK
  <2>4. HandlerOK(j, n) BY <1>4, <2>1, <2>2, <2>3, Roles DEF HandlerOK
  <2>5. Counts(j, n) BY <1>4, <2>1, <2>4, Roles DEF Counts
  <2> QED BY <1>4, <2>1, <2>5, Roles DEF n
<1> QED BY <1>2, <1>3, <1>4, Roles

\* A handler releases a topic.
LEMMA ReleaseKeeps ==
    ASSUME RegistryInv, NEW j \in Jobs, Release(j)
    PROVE  RegistryInv'
<1>1. PICK p \in job[j].rel :
         /\ ReleaseTopic(p[2])
         /\ job' = [job EXCEPT ![j] = Released(j, [job[j] EXCEPT !.rel = job[j].rel \ {p}])]
  BY DEF Release
<1> DEFINE rel == job[j].rel \ {p}
           rec == [job[j] EXCEPT !.rel = rel]
           n == Released(j, rec)
<1>2. /\ job[j] \in Jobs_ /\ job[j].pc = "release" /\ p \in Subs \X Topics
      /\ rel \subseteq Subs \X Topics /\ rel \subseteq job[j].rel /\ p \notin rel
  BY DEF RegistryInv, TypeOK, Jobs_, Release
<1>3. job' = [job EXCEPT ![j] = n] BY <1>1
<1>4. /\ UNCHANGED <<conn, registryVars, redisVars, eventVars, serving, got, swept, strays, quota>>
      /\ UNCHANGED commands
  BY DEF Release, historyVars
<1>5. /\ desired' \in [Topics -> Nat] /\ timers' \in [Topics -> Nat]
      /\ \A t \in Topics : desired'[t] > 0 => desired[t] > 0
      /\ \A t \in Topics : t # p[2] => desired'[t] = desired[t]
      /\ desired'[p[2]] + 1 >= desired[p[2]]
  BY <1>1, <1>2 DEF ReleaseTopic, RegistryInv, TypeOK
<1> HIDE DEF rel
<1>6. /\ rec \in Jobs_ /\ rec.pc = "release" /\ rec.conn = job[j].conn /\ rec.sub = job[j].sub
      /\ rec.scope = job[j].scope /\ rec.todo = job[j].todo /\ rec.post = job[j].post
      /\ rec.key = job[j].key /\ rec.drop = job[j].drop /\ rec.rel = rel
  BY <1>2 DEF Jobs_
<1> HIDE DEF rec
<1>7. /\ Counts(j, n) /\ n.rel \subseteq rel
      /\ j \in Reqs => /\ n.post = job[j].post
                       /\ \A t \in Topics : Owes(job[j], t) => Owes(n, t)
  BY <1>2, <1>3, <1>4, <1>5, <1>6, ReleasedOK
<1> HIDE DEF n
<1>8. InterestInv' /\ CommandsOK'
  <2>1. \A x \in Reqs : job'[x].post = job[x].post BY <1>3, <1>7, JobUpdate, Roles
  <2> QED BY <1>4, <1>5, <2>1, InterestFrame DEF redisVars
<1>9. CountCoversRegistry'
  <2> SUFFICES ASSUME NEW t \in Topics
             PROVE  desired'[t] + Cardinality(OwedRetains(t)') + strays'[t]
                      >= Cardinality(Registered(t)') + Cardinality(OwedReleases(t)')
    BY DEF CountCoversRegistry
  <2>1. strays'[t] = strays[t] /\ desired'[t] \in Nat BY <1>4, <1>5
  <2>2. OwedRetains(t) \subseteq OwedRetains(t)'
    <3>1. /\ OwedRetains(t) \ {j} = OwedRetains(t)' \ {j}
          /\ j \in OwedRetains(t) <=> j \in Reqs /\ Owes(job[j], t)
          /\ j \in OwedRetains(t)' <=> j \in Reqs /\ Owes(n, t)
      BY <1>3, OwedFrame
    <3> QED BY <1>7, <3>1
  <2>3. Registered(t)' \subseteq Registered(t) BY <1>4 DEF Registered, registryVars
  <2>4. OwedReleases(t)' \subseteq OwedReleases(t)
    <3>1. n.rel \subseteq job[j].rel BY <1>2, <1>7
    <3> QED BY <1>3, <3>1, OwedLess
  <2>5. CASE t = p[2]
    <3>1. p = <<p[1], t>> /\ p[1] \in Subs BY <1>2, <2>5
    <3>2. <<j, p[1]>> \in OwedReleases(t) BY <1>3, <3>1, OwedFrame
    <3>3. <<j, p[1]>> \notin OwedReleases(t)' BY <1>2, <1>3, <1>7, <3>1, OwedFrame
    <3>4. OwedReleases(t)' \subseteq OwedReleases(t) \ {<<j, p[1]>>} BY <2>4, <3>3
    <3>5. desired'[t] + 1 >= desired[t] BY <1>5, <2>5
    <3> QED BY <2>1, <2>2, <2>3, <3>2, <3>4, <3>5, CountReleased
  <2>6. CASE t # p[2]
    <3>1. strays'[t] \in Nat /\ strays'[t] >= strays[t] /\ desired'[t] >= desired[t]
      BY <1>5, <2>1, <2>6 DEF RegistryInv, HistoryTypes
    <3> QED BY <2>1, <2>2, <2>3, <2>4, <3>1, CountKeeps
  <2> QED BY <2>5, <2>6
<1> QED BY <1>7, <1>8, <1>9, CountStep

\* A REQ retains a topic, and remembers to send Subscribe when it is the first.
LEMMA RetainKeeps ==
    ASSUME RegistryInv, NEW r \in Reqs, Retain(r)
    PROVE  RegistryInv'
<1>1. PICK t0 \in job[r].todo :
         /\ desired' = [desired EXCEPT ![t0] = @ + 1]
         /\ job' = [job EXCEPT ![r] = [job[r] EXCEPT
                       !.todo = job[r].todo \ {t0},
                       !.post = IF desired[t0] = 0 THEN t0 ELSE None]]
  BY DEF Retain
<1> DEFINE left == job[r].todo \ {t0}
           post == IF desired[t0] = 0 THEN t0 ELSE None
           n == [job[r] EXCEPT !.todo = left, !.post = post]
<1>2. /\ r \in Jobs /\ job[r] \in Jobs_ /\ job[r].pc = "retain" /\ job[r].key = None
      /\ job[r].post = None /\ ReqOK(job[r]) /\ t0 \in Topics
  BY Roles DEF RegistryInv, JobsOK, TypeOK, Retain, ReqOK
<1>3. /\ job' = [job EXCEPT ![r] = n]
      /\ UNCHANGED <<conn, registryVars, redisVars, eventVars, serving, got, swept, strays, quota>>
      /\ UNCHANGED <<commands, timers>>
  BY <1>1 DEF Retain, historyVars
<1>4. /\ left \subseteq Topics /\ left \subseteq job[r].todo /\ post \in Topics \cup {None}
      /\ \A t \in job[r].todo : t = t0 \/ t \in left
      /\ desired[t0] = 0 => post = t0
  BY <1>2 DEF ReqOK
<1> HIDE DEF left, post
<1>5. /\ n \in Jobs_ /\ n.pc = "retain" /\ n.todo = left /\ n.post = post /\ n.key = None
      /\ n.conn = job[r].conn /\ n.sub = job[r].sub /\ n.scope = job[r].scope /\ n.rel = job[r].rel
  BY <1>2, <1>4 DEF Jobs_
<1> HIDE DEF n
<1>6. ReqOK(n) BY <1>2, <1>4, <1>5 DEF ReqOK, ReqPcs
<1>7. HandlerOK(r, n) BY <1>3, <1>5, <1>6, Roles DEF HandlerOK
<1>8. /\ desired' \in [Topics -> Nat] /\ timers' \in [Topics -> Nat]
      /\ desired'[t0] = desired[t0] + 1 /\ \A t \in Topics : t # t0 => desired'[t] = desired[t]
  BY <1>1, <1>2, <1>3 DEF RegistryInv, TypeOK
<1>9. Counts(r, n)
  <2>1. Continues(job[r], n) BY <1>5 DEF Continues
  <2> QED BY <1>2, <1>3, <1>5, <1>7, <1>8, <2>1 DEF Counts
<1>10. job'[r] = n /\ \A k \in Jobs : k # r => job'[k] = job[k] BY <1>2, <1>3, JobUpdate
<1>11. CommandsOK' BY <1>3 DEF RegistryInv, CommandsOK
<1>12. InterestInv'
  <2> SUFFICES ASSUME NEW t \in Topics, link' # "down", desired'[t] > 0,
                      \A x \in Reqs : job'[x].post # t,
                      \A i \in DOMAIN commands' : commands'[i] # <<"subscribe", t>>
               PROVE  t \in active'
    BY DEF InterestInv
  <2>1. \A x \in Reqs : job[x].post # t
    BY <1>2, <1>10, NamesAssumption, Roles
  <2>2. desired[t] > 0
    <3>1. CASE t = t0
      <4>1. desired[t0] # 0 BY <1>4, <1>5, <1>10, <3>1
      <4> QED BY <1>2, <3>1, <4>1 DEF RegistryInv, TypeOK
    <3>2. CASE t # t0 BY <1>8, <3>2
    <3> QED BY <3>1, <3>2
  <2>3. link' = link /\ active' = active BY <1>3 DEF redisVars
  <2> QED BY <1>3, <2>1, <2>2, <2>3 DEF RegistryInv, InterestInv
<1>13. CountCoversRegistry'
  <2> SUFFICES ASSUME NEW t \in Topics
             PROVE  desired'[t] + Cardinality(OwedRetains(t)') + strays'[t]
                      >= Cardinality(Registered(t)') + Cardinality(OwedReleases(t)')
    BY DEF CountCoversRegistry
  <2>1. strays'[t] = strays[t] BY <1>3
  <2>2. /\ OwedRetains(t) \ {r} = OwedRetains(t)' \ {r}
        /\ r \in OwedRetains(t) <=> Owes(job[r], t)
        /\ r \in OwedRetains(t)' <=> Owes(n, t)
    BY <1>2, <1>3, OwedFrame
  <2>3. Registered(t)' \subseteq Registered(t) BY <1>3 DEF Registered, registryVars
  <2>4. OwedReleases(t)' \subseteq OwedReleases(t) BY <1>2, <1>3, <1>5, OwedLess
  <2>5. CASE t = t0
    <3>1. desired'[t] = desired[t] + 1 BY <1>8, <2>5
    <3>2. OwedRetains(t) \subseteq OwedRetains(t)' \cup {r} BY <2>2
    <3> QED BY <2>1, <2>3, <2>4, <3>1, <3>2, CountRetained
  <2>6. CASE t # t0
    <3>1. Owes(job[r], t) => Owes(n, t) BY <1>2, <1>4, <1>5, <2>6 DEF Owes
    <3>2. OwedRetains(t) \subseteq OwedRetains(t)' BY <2>2, <3>1
    <3>3. desired'[t] \in Nat /\ strays'[t] \in Nat /\ strays'[t] >= strays[t] /\ desired'[t] >= desired[t]
      BY <1>8, <2>1, <2>6 DEF RegistryInv, TypeOK, HistoryTypes
    <3> QED BY <2>3, <2>4, <3>2, <3>3, CountKeeps
  <2> QED BY <2>5, <2>6
<1> QED BY <1>2, <1>9, <1>11, <1>12, <1>13, CountStep

\* The Subscribe command of a first retain is sent.
LEMMA PostSubscribeKeeps ==
    ASSUME RegistryInv, NEW r \in Reqs, PostSubscribe(r)
    PROVE  RegistryInv'
<1> DEFINE t0 == job[r].post
           n == [job[r] EXCEPT !.post = None]
           word == <<"subscribe", t0>>
<1>1. /\ r \in Jobs /\ job[r] \in Jobs_ /\ job[r].pc = "retain" /\ job[r].key = None
      /\ ReqOK(job[r]) /\ t0 \in Topics
  BY Roles DEF RegistryInv, JobsOK, TypeOK, PostSubscribe, ReqOK, Jobs_
<1>2. /\ job' = [job EXCEPT ![r] = n] /\ commands' = Append(commands, word)
      /\ UNCHANGED <<conn, registryVars, redisVars, eventVars, serving, got, swept, strays, quota>>
      /\ UNCHANGED <<desired, timers>>
  BY <1>1 DEF PostSubscribe, historyVars, RegistryInv, JobsOK
<1>3. /\ n \in Jobs_ /\ n.pc = "retain" /\ n.todo = job[r].todo /\ n.post = None /\ n.key = None
      /\ n.conn = job[r].conn /\ n.sub = job[r].sub /\ n.scope = job[r].scope /\ n.rel = job[r].rel
  BY <1>1 DEF Jobs_
<1> HIDE DEF n
<1>4. ReqOK(n) BY <1>1, <1>3 DEF ReqOK, ReqPcs
<1>5. HandlerOK(r, n) BY <1>2, <1>3, <1>4, Roles DEF HandlerOK
<1>6. Counts(r, n)
  <2>1. Continues(job[r], n) BY <1>3 DEF Continues
  <2>2. desired' \in [Topics -> Nat] /\ timers' \in [Topics -> Nat] BY <1>2 DEF RegistryInv, TypeOK
  <2> QED BY <1>1, <1>2, <1>3, <1>5, <2>1, <2>2 DEF Counts
<1>7. job'[r] = n /\ \A k \in Jobs : k # r => job'[k] = job[k] BY <1>1, <1>2, JobUpdate
<1>8. word \in {"subscribe", "unsubscribe"} \X Topics BY <1>1
<1>9. commands \in Seq({"subscribe", "unsubscribe"} \X Topics) BY DEF RegistryInv, CommandsOK
<1> HIDE DEF word
<1>10. /\ commands' \in Seq({"subscribe", "unsubscribe"} \X Topics)
       /\ Len(commands) + 1 \in DOMAIN commands' /\ commands'[Len(commands) + 1] = word
       /\ \A i \in DOMAIN commands : i \in DOMAIN commands' /\ commands'[i] = commands[i]
  BY <1>2, <1>8, <1>9
<1>11. CommandsOK' BY <1>10 DEF CommandsOK
<1>12. InterestInv'
  <2> SUFFICES ASSUME NEW t \in Topics, link' # "down", desired'[t] > 0,
                      \A x \in Reqs : job'[x].post # t,
                      \A i \in DOMAIN commands' : commands'[i] # <<"subscribe", t>>
               PROVE  t \in active'
    BY DEF InterestInv
  <2>1. t # t0 BY <1>10 DEF word
  <2>2. \A x \in Reqs : job[x].post # t BY <1>7, <2>1, Roles
  <2>3. \A i \in DOMAIN commands : commands[i] # <<"subscribe", t>> BY <1>10
  <2>4. link' = link /\ active' = active BY <1>2 DEF redisVars
  <2> QED BY <1>2, <2>2, <2>3, <2>4 DEF RegistryInv, InterestInv
<1>13. CountCoversRegistry'
  <2>1. \A t \in Topics : Registered(t)' \subseteq Registered(t) BY <1>2 DEF Registered, registryVars
  <2>2. \A t \in Topics : Owes(job[r], t) => Owes(n, t) BY <1>1, <1>3 DEF Owes
  <2>3. UNCHANGED <<desired, strays>> BY <1>2
  <2> QED BY <1>1, <1>2, <1>3, <2>1, <2>2, <2>3, CountFrame
<1> QED BY <1>1, <1>6, <1>11, <1>12, <1>13, CountStep

-----------------------------------------------------------------------------
(* Redis and the deliveries *)

\* The registry, the counts and the handlers stay.
LEMMA RegistryFrame ==
    ASSUME RegistryInv, UNCHANGED <<conn, registryVars, job, desired, serving, swept, strays>>
    PROVE  /\ JobsOK' /\ CountCoversRegistry' /\ UnindexInv' /\ ServingInv' /\ IndexInv'
           /\ \A k \in Jobs : job'[k] \in Jobs_
<1>1. JobsOK' BY DEF RegistryInv, JobsOK, ReqOK, ReaderOK, EvictorOK
<1>2. \A t \in Topics : /\ Registered(t)' = Registered(t)
                        /\ OwedRetains(t)' = OwedRetains(t) /\ OwedReleases(t)' = OwedReleases(t)
  BY DEF Registered, OwedRetains, OwedReleases, registryVars
<1>3. CountCoversRegistry' BY <1>2 DEF RegistryInv, CountCoversRegistry
<1>4. UnindexInv' BY DEF RegistryInv, UnindexInv, registryVars
<1>5. ServingInv' BY DEF RegistryInv, ServingInv, registryVars
<1>6. IndexInv' BY DEF RegistryInv, IndexInv, registryVars
<1>7. \A k \in Jobs : job'[k] \in Jobs_ BY DEF RegistryInv, TypeOK
<1> QED BY <1>1, <1>3, <1>4, <1>5, <1>6, <1>7

RedisOnly ==
    /\ UNCHANGED <<conn, registryVars, job, desired, eventVars, got, serving, swept, strays>>
    /\ link' \in {"down", "joining", "up"} /\ active' \subseteq Topics /\ stream' \subseteq stream
    /\ timers' \in [Topics -> Nat]
    /\ \/ UNCHANGED quota
       \/ \E w \in {"closes", "drops", "evictions", "joins", "faults"} : Spend(w)

\* A step of the subscriber task delivers nothing.
LEMMA RedisFrame ==
    ASSUME RegistryInv, RedisOnly, InterestInv', CommandsOK'
    PROVE  RegistryInv'
<1> USE DEF RedisOnly
<1>1. /\ JobsOK' /\ CountCoversRegistry' /\ UnindexInv' /\ ServingInv' /\ IndexInv'
      /\ \A k \in Jobs : job'[k] \in Jobs_
  BY RegistryFrame
<1>2. \A i \in DOMAIN commands' : commands'[i] \in {"subscribe", "unsubscribe"} \X Topics
  BY DEF CommandsOK
<1>3. TypeOK' BY <1>1, <1>2 DEF RegistryInv, TypeOK, registryVars, eventVars
<1>4. HistoryTypes' BY Spent DEF RegistryInv, HistoryTypes
<1>5. NewInv' BY DEF RegistryInv, NewInv, eventVars
<1>6. DeliveryInv' BY DEF RegistryInv, DeliveryInv, registryVars, eventVars
<1> QED BY <1>1, <1>3, <1>4, <1>5, <1>6 DEF RegistryInv

\* The topics with interest are read when the connection to Redis is made.
LEMMA JoinKeeps ==
    ASSUME RegistryInv, Join
    PROVE  RegistryInv'
<1>1. RedisOnly
  BY DEF Join, RedisOnly, RegistryInv, TypeOK, topicVars, historyVars
<1>2. UNCHANGED <<desired, commands>> BY DEF Join, topicVars
<1>3. InterestInv' BY <1>2 DEF Join, InterestInv
<1>4. CommandsOK' BY <1>2 DEF RegistryInv, CommandsOK
<1> QED BY <1>1, <1>3, <1>4, RedisFrame

\* The topics are subscribed.
LEMMA JoinedKeeps ==
    ASSUME RegistryInv, Joined
    PROVE  RegistryInv'
<1>1. RedisOnly
  BY DEF Joined, RedisOnly, RegistryInv, TypeOK, topicVars, historyVars
<1>2. InterestInv' BY DEF Joined, RegistryInv, InterestInv, topicVars
<1>3. CommandsOK' BY DEF Joined, RegistryInv, CommandsOK, topicVars
<1> QED BY <1>1, <1>2, <1>3, RedisFrame

\* The connection to Redis fails.
LEMMA LinkFailsKeeps ==
    ASSUME RegistryInv, LinkFails
    PROVE  RegistryInv'
<1>1. RedisOnly
  BY DEF LinkFails, RedisOnly, RegistryInv, TypeOK, topicVars, historyVars
<1>2. InterestInv' BY DEF LinkFails, InterestInv
<1>3. CommandsOK' BY DEF LinkFails, RegistryInv, CommandsOK, topicVars
<1> QED BY <1>1, <1>2, <1>3, RedisFrame

\* A debounce elapses.
LEMMA SendUnsubscribeKeeps ==
    ASSUME RegistryInv, NEW t0 \in Topics, SendUnsubscribe(t0)
    PROVE  RegistryInv'
<1> DEFINE word == <<"unsubscribe", t0>>
<1>1. timers' \in [Topics -> Nat] BY DEF SendUnsubscribe, RegistryInv, TypeOK
<1>2. RedisOnly
  BY <1>1 DEF SendUnsubscribe, RedisOnly, RegistryInv, TypeOK, redisVars, historyVars
<1>3. word \in {"subscribe", "unsubscribe"} \X Topics OBVIOUS
<1>4. commands \in Seq({"subscribe", "unsubscribe"} \X Topics) BY DEF RegistryInv, CommandsOK
<1>5. commands' = Append(commands, word) /\ UNCHANGED <<link, active, desired, job>>
  BY DEF SendUnsubscribe, redisVars
<1> HIDE DEF word
<1>6. /\ commands' \in Seq({"subscribe", "unsubscribe"} \X Topics)
      /\ \A i \in DOMAIN commands : i \in DOMAIN commands' /\ commands'[i] = commands[i]
  BY <1>3, <1>4, <1>5
<1>7. CommandsOK' BY <1>6 DEF CommandsOK
<1>8. InterestInv' BY <1>5, <1>6 DEF RegistryInv, InterestInv
<1> QED BY <1>2, <1>7, <1>8, RedisFrame

\* A command is carried out: an unsubscribe looks at the count again.
LEMMA HandleCommandKeeps ==
    ASSUME RegistryInv, HandleCommand
    PROVE  RegistryInv'
<1> DEFINE word == Head(commands)
<1>1. commands \in Seq({"subscribe", "unsubscribe"} \X Topics) /\ commands # <<>>
  BY DEF HandleCommand, RegistryInv, CommandsOK
<1>2. /\ commands' = Tail(commands) /\ active' = Commanded(word)
      /\ UNCHANGED <<link, desired, job>>
  BY DEF HandleCommand
<1>3. /\ word \in {"subscribe", "unsubscribe"} \X Topics
      /\ commands' \in Seq({"subscribe", "unsubscribe"} \X Topics)
      /\ \A i \in DOMAIN commands : commands[i] = word \/ \E k \in DOMAIN commands' : commands'[k] = commands[i]
  <2>1. /\ word \in {"subscribe", "unsubscribe"} \X Topics
        /\ commands' \in Seq({"subscribe", "unsubscribe"} \X Topics)
        /\ Len(commands) \in Nat /\ Len(commands') = Len(commands) - 1
        /\ word = commands[1] /\ \A k \in 1..Len(commands') : commands'[k] = commands[k + 1]
    BY <1>1, <1>2
  <2>2. ASSUME NEW i \in DOMAIN commands, i # 1
        PROVE  \E k \in DOMAIN commands' : commands'[k] = commands[i]
    <3>1. i \in 2..Len(commands) BY <1>1, <2>2
    <3>2. i - 1 \in 1..Len(commands') /\ (i - 1) + 1 = i BY <2>1, <3>1
    <3>3. commands'[i - 1] = commands[i] /\ i - 1 \in DOMAIN commands' BY <2>1, <3>2
    <3> QED BY <3>3
  <2> QED BY <2>1, <2>2
<1> HIDE DEF word
<1>4. /\ active' \subseteq Topics
      /\ \A t \in Topics : t \in active /\ desired[t] > 0 => t \in active'
      /\ \A t \in Topics : word = <<"subscribe", t>> => t \in active'
  <2>1. word[1] \in {"subscribe", "unsubscribe"} /\ word[2] \in Topics BY <1>3
  <2>2. CASE word[1] = "subscribe"
    <3>1. active' = active \cup {word[2]} BY <1>2, <2>2 DEF Commanded
    <3> QED BY <2>1, <2>2, <3>1 DEF RegistryInv, TypeOK
  <2>3. CASE word[1] = "unsubscribe"
    <3>1. active' = IF desired[word[2]] = 0 THEN active \ {word[2]} ELSE active
      BY <1>2, <2>3 DEF Commanded
    <3> QED BY <2>1, <2>3, <3>1 DEF RegistryInv, TypeOK
  <2> QED BY <2>1, <2>2, <2>3
<1>5. RedisOnly
  BY <1>4 DEF HandleCommand, RedisOnly, RegistryInv, TypeOK, historyVars
<1>6. CommandsOK' BY <1>3 DEF CommandsOK
<1>7. InterestInv'
  <2> SUFFICES ASSUME NEW t \in Topics, link' # "down", desired'[t] > 0,
                      \A x \in Reqs : job'[x].post # t,
                      \A i \in DOMAIN commands' : commands'[i] # <<"subscribe", t>>
               PROVE  t \in active'
    BY DEF InterestInv
  <2>1. CASE word = <<"subscribe", t>> BY <1>4, <2>1
  <2>2. CASE word # <<"subscribe", t>>
    <3>1. \A i \in DOMAIN commands : commands[i] # <<"subscribe", t>> BY <1>3, <2>2
    <3>2. t \in active BY <1>2, <3>1 DEF RegistryInv, InterestInv
    <3> QED BY <1>2, <1>4, <3>2
  <2> QED BY <2>1, <2>2
<1> QED BY <1>5, <1>6, <1>7, RedisFrame

EventsOnly ==
    /\ UNCHANGED <<conn, registryVars, job, topicVars, link, active, serving, swept, strays>>
    /\ stream' \subseteq Events /\ marks' \subseteq Events /\ DOMAIN got' = Pairs
    /\ event' \in [Events -> {"new", "stored", "marked", "published", "dispatched"}]
    /\ fan' \in [Deliveries -> [pc : {"none", "match", "done"}, cand : SUBSET Pairs,
                                matched : SUBSET Pairs]]
    /\ \/ UNCHANGED quota
       \/ \E w \in {"closes", "drops", "evictions", "joins", "faults"} : Spend(w)

\* A step of a delivery changes neither the registry nor the topics.
LEMMA EventFrame ==
    ASSUME RegistryInv, EventsOnly, NewInv', DeliveryInv'
    PROVE  RegistryInv'
<1> USE DEF EventsOnly
<1>1. UNCHANGED desired BY DEF topicVars
<1>2. /\ JobsOK' /\ CountCoversRegistry' /\ UnindexInv' /\ ServingInv' /\ IndexInv'
      /\ \A k \in Jobs : job'[k] \in Jobs_
  BY <1>1, RegistryFrame
<1>3. TypeOK' BY <1>2 DEF RegistryInv, TypeOK, registryVars, topicVars
<1>4. HistoryTypes' BY Spent DEF RegistryInv, HistoryTypes
<1>5. InterestInv' /\ CommandsOK' BY DEF RegistryInv, InterestInv, CommandsOK, topicVars
<1> QED BY <1>2, <1>3, <1>4, <1>5 DEF RegistryInv

\* A step that leaves the deliveries as they are.
LEMMA DeliveryFrame ==
    ASSUME RegistryInv,
           UNCHANGED <<conn, registryVars, job, serving, swept, fan, got>>
    PROVE  DeliveryInv'
BY DEF RegistryInv, DeliveryInv, registryVars

\* An event is committed.
LEMMA StoreEventKeeps ==
    ASSUME RegistryInv, NEW e \in Events, StoreEvent(e)
    PROVE  RegistryInv'
<1>1. /\ event' = [event EXCEPT ![e] = "stored"] /\ event[e] = "new"
      /\ UNCHANGED <<stream, fan>>
  BY DEF StoreEvent, redisVars
<1>2. EventsOnly
  BY <1>1 DEF StoreEvent, EventsOnly, RegistryInv, TypeOK, HistoryTypes, redisVars, historyVars
<1>3. NewInv' BY <1>1 DEF RegistryInv, NewInv, TypeOK
<1>4. DeliveryInv' BY DeliveryFrame DEF StoreEvent, historyVars
<1> QED BY <1>2, <1>3, <1>4, EventFrame

\* An event of this pod is marked.
LEMMA MarkEventKeeps ==
    ASSUME RegistryInv, NEW e \in Events, MarkEvent(e)
    PROVE  RegistryInv'
<1>1. /\ event' = [event EXCEPT ![e] = "marked"] /\ UNCHANGED <<stream, fan>>
  BY DEF MarkEvent, redisVars
<1>2. EventsOnly
  BY <1>1 DEF MarkEvent, EventsOnly, RegistryInv, TypeOK, HistoryTypes, redisVars, historyVars
<1>3. NewInv' BY <1>1 DEF RegistryInv, NewInv, TypeOK
<1>4. DeliveryInv' BY DeliveryFrame DEF MarkEvent, historyVars
<1> QED BY <1>2, <1>3, <1>4, EventFrame

\* The cache drops a mark.
LEMMA MarkLapsesKeeps ==
    ASSUME RegistryInv, NEW e \in Events, MarkLapses(e)
    PROVE  RegistryInv'
<1>1. UNCHANGED <<event, stream, fan>> /\ Spend("faults")
  BY DEF MarkLapses, redisVars
<1>2. /\ marks' \subseteq Events /\ DOMAIN got' = Pairs
      /\ UNCHANGED <<conn, registryVars, job, topicVars, link, active, fan, got, serving, swept, strays>>
  BY DEF MarkLapses, RegistryInv, TypeOK, HistoryTypes, redisVars
<1>3. EventsOnly
  BY <1>1, <1>2 DEF EventsOnly, RegistryInv, TypeOK
<1>4. NewInv' BY <1>1 DEF RegistryInv, NewInv, TypeOK
<1>5. DeliveryInv' BY <1>2, DeliveryFrame
<1> QED BY <1>3, <1>4, <1>5, EventFrame

\* What Redis pushes is what is published.
LEMMA PushedType ==
    ASSUME RegistryInv, NEW e \in Events
    PROVE  Pushed(e) \subseteq stream \cup {e} /\ stream \cup {e} \subseteq Events
BY DEF Pushed, RegistryInv, TypeOK

\* An event of this pod is published.
LEMMA PublishEventKeeps ==
    ASSUME RegistryInv, NEW e \in Events, PublishEvent(e)
    PROVE  RegistryInv'
<1>1. event' = [event EXCEPT ![e] = "published"] /\ stream' \in {stream, Pushed(e)} /\ UNCHANGED fan
  BY DEF PublishEvent
<1>2. /\ marks' \subseteq Events /\ DOMAIN got' = Pairs
      /\ UNCHANGED quota \/ Spend("faults")
      /\ UNCHANGED <<conn, registryVars, job, topicVars, link, active, fan, got, serving, swept, strays>>
  BY DEF PublishEvent, RegistryInv, TypeOK, HistoryTypes
<1>3. EventsOnly
  BY <1>1, <1>2, PushedType DEF EventsOnly, RegistryInv, TypeOK
<1>4. NewInv' BY <1>1, PushedType DEF RegistryInv, NewInv, TypeOK
<1>5. DeliveryInv' BY <1>2, DeliveryFrame
<1> QED BY <1>3, <1>4, <1>5, EventFrame

\* Another pod publishes its event.
LEMMA RemotePublishKeeps ==
    ASSUME RegistryInv, NEW e \in Events, RemotePublish(e)
    PROVE  RegistryInv'
<1>1. event' = [event EXCEPT ![e] = "published"] /\ stream' = Pushed(e) /\ UNCHANGED fan
  BY DEF RemotePublish
<1>2. EventsOnly
  BY <1>1, PushedType
     DEF RemotePublish, EventsOnly, RegistryInv, TypeOK, HistoryTypes, historyVars
<1>3. NewInv' BY <1>1, PushedType DEF RegistryInv, NewInv, TypeOK
<1>4. DeliveryInv' BY DeliveryFrame DEF RemotePublish, historyVars
<1> QED BY <1>2, <1>3, <1>4, EventFrame

\* The snapshot of the index that a delivery takes has every served
\* subscription of the topic, but for the swept ones.
LEMMA SnapshotDelivers ==
    ASSUME RegistryInv, NEW e \in Events, NEW way \in {"dispatch", "echo"},
           fan' = Snapshot(e, way),
           UNCHANGED <<conn, registryVars, job, serving, swept, got>>
    PROVE  /\ DeliveryInv'
           /\ fan' \in [Deliveries -> [pc : {"none", "match", "done"}, cand : SUBSET Pairs,
                                       matched : SUBSET Pairs]]
           /\ \A x \in Events, v \in {"dispatch", "echo"} : x # e => fan'[<<x, v>>] = fan[<<x, v>>]
<1> DEFINE snap == [pc |-> "match", cand |-> index[TopicOf[e]], matched |-> {}]
<1>1. TopicOf[e] \in Topics /\ index[TopicOf[e]] \subseteq Pairs
  BY EventsAssumption DEF RegistryInv, TypeOK
<1>2. fan' = [fan EXCEPT ![<<e, way>>] = snap] BY DEF Snapshot
<1>3. /\ snap \in [pc : {"none", "match", "done"}, cand : SUBSET Pairs, matched : SUBSET Pairs]
      /\ snap.pc = "match" /\ snap.cand = index[TopicOf[e]]
  BY <1>1
<1> HIDE DEF snap
<1>4. <<e, way>> \in Deliveries BY DEF Deliveries
<1>5. fan' \in [Deliveries -> [pc : {"none", "match", "done"}, cand : SUBSET Pairs,
                               matched : SUBSET Pairs]]
  BY <1>2, <1>3 DEF RegistryInv, TypeOK
<1>6. fan'[<<e, way>>] = snap /\ \A d \in Deliveries : d # <<e, way>> => fan'[d] = fan[d]
  BY <1>2, <1>4 DEF RegistryInv, TypeOK
<1>7. \A x \in Events, v \in {"dispatch", "echo"} : <<x, v>> \in Deliveries BY DEF Deliveries
<1>8. DeliveryInv'
  <2> SUFFICES ASSUME NEW p \in Pairs, NEW x \in Events,
                      serving[p] # None, job[serving[p]].pc = "eose", conn[p[1]] = "open",
                      TopicOf[x] \in subs[p[1]][p[2]], x \notin got[p],
                      <<p, TopicOf[x]>> \notin swept,
                      NEW v \in {"dispatch", "echo"}
               PROVE  \/ fan'[<<x, v>>].pc = "none"
                      \/ /\ fan'[<<x, v>>].pc = "match"
                         /\ p \in fan'[<<x, v>>].cand \cup fan'[<<x, v>>].matched
    BY DEF DeliveryInv, registryVars
  <2>1. CASE <<x, v>> = <<e, way>>
    <3>1. p \in index[TopicOf[e]] BY <1>1, <2>1 DEF RegistryInv, IndexInv
    <3> QED BY <1>3, <1>6, <2>1, <3>1
  <2>2. CASE <<x, v>> # <<e, way>>
    <3>1. fan'[<<x, v>>] = fan[<<x, v>>] BY <1>6, <1>7, <2>2
    <3> QED BY <3>1 DEF RegistryInv, DeliveryInv
  <2> QED BY <2>1, <2>2
<1> QED BY <1>5, <1>6, <1>7, <1>8

\* The dispatch of an event begins.
LEMMA StartDispatchKeeps ==
    ASSUME RegistryInv, NEW e \in Events, StartDispatch(e)
    PROVE  RegistryInv'
<1>1. /\ event' = [event EXCEPT ![e] = "dispatched"] /\ UNCHANGED stream
      /\ fan' = Snapshot(e, "dispatch")
      /\ UNCHANGED <<conn, registryVars, job, serving, swept, got>>
  BY DEF StartDispatch, redisVars, historyVars
<1>2. /\ DeliveryInv'
      /\ fan' \in [Deliveries -> [pc : {"none", "match", "done"}, cand : SUBSET Pairs,
                                  matched : SUBSET Pairs]]
      /\ \A x \in Events, v \in {"dispatch", "echo"} : x # e => fan'[<<x, v>>] = fan[<<x, v>>]
  BY <1>1, SnapshotDelivers
<1>3. EventsOnly
  BY <1>1, <1>2 DEF StartDispatch, EventsOnly, RegistryInv, TypeOK, HistoryTypes, redisVars, historyVars
<1>4. NewInv' BY <1>1, <1>2 DEF RegistryInv, NewInv, TypeOK
<1> QED BY <1>2, <1>3, <1>4, EventFrame

\* An event arrives from Redis.
LEMMA ReceiveEventKeeps ==
    ASSUME RegistryInv, NEW e \in Events, ReceiveEvent(e)
    PROVE  RegistryInv'
<1>1. /\ e \in stream /\ stream' = stream \ {e} /\ marks' = marks \ {e}
      /\ UNCHANGED event
      /\ fan' = fan \/ fan' = Snapshot(e, "echo")
      /\ UNCHANGED <<conn, registryVars, job, serving, swept, got>>
  BY DEF ReceiveEvent, historyVars
<1>2. /\ DeliveryInv'
      /\ fan' \in [Deliveries -> [pc : {"none", "match", "done"}, cand : SUBSET Pairs,
                                  matched : SUBSET Pairs]]
      /\ \A x \in Events, v \in {"dispatch", "echo"} : x # e => fan'[<<x, v>>] = fan[<<x, v>>]
  <2>1. CASE fan' = fan BY <1>1, <2>1, DeliveryFrame DEF RegistryInv, TypeOK
  <2>2. CASE fan' = Snapshot(e, "echo") BY <1>1, <2>2, SnapshotDelivers
  <2> QED BY <1>1, <2>1, <2>2
<1>3. EventsOnly
  BY <1>1, <1>2 DEF ReceiveEvent, EventsOnly, RegistryInv, TypeOK, HistoryTypes, historyVars
<1>4. NewInv' BY <1>1, <1>2 DEF RegistryInv, NewInv, TypeOK
<1> QED BY <1>2, <1>3, <1>4, EventFrame

\* A candidate is looked up again; one that still has the topic is matched.
LEMMA MatchCandidateKeeps ==
    ASSUME RegistryInv, NEW d \in Deliveries, NEW p \in Pairs, MatchCandidate(d, p)
    PROVE  RegistryInv'
<1> DEFINE hit == {q \in {p} : TopicOf[d[1]] \in subs[p[1]][p[2]]}
           new == [pc |-> "match", cand |-> fan[d].cand \ {p}, matched |-> fan[d].matched \cup hit]
<1>1. /\ fan[d].pc = "match" /\ fan' = [fan EXCEPT ![d] = new]
      /\ UNCHANGED <<conn, registryVars, job, topicVars, redisVars, event, marks, historyVars, quota>>
  BY DEF MatchCandidate
<1>2. fan[d] \in [pc : {"none", "match", "done"}, cand : SUBSET Pairs, matched : SUBSET Pairs]
  BY DEF RegistryInv, TypeOK
<1>3. /\ new \in [pc : {"none", "match", "done"}, cand : SUBSET Pairs, matched : SUBSET Pairs]
      /\ new.pc = "match"
      /\ \A q \in fan[d].cand \cup fan[d].matched :
           TopicOf[d[1]] \in subs[q[1]][q[2]] => q \in new.cand \cup new.matched
  BY <1>2
<1> HIDE DEF new
<1>4. /\ fan' \in [Deliveries -> [pc : {"none", "match", "done"}, cand : SUBSET Pairs,
                                  matched : SUBSET Pairs]]
      /\ fan'[d] = new /\ \A x \in Deliveries : x # d => fan'[x] = fan[x]
  BY <1>1, <1>3 DEF RegistryInv, TypeOK
<1>5. EventsOnly
  BY <1>1, <1>4 DEF EventsOnly, RegistryInv, TypeOK, HistoryTypes, redisVars, historyVars
<1>6. \A x \in Events, v \in {"dispatch", "echo"} : <<x, v>> \in Deliveries BY DEF Deliveries
<1>7. NewInv'
  <2> SUFFICES ASSUME NEW x \in Events, event[x] \in {"new", "stored"}
               PROVE  x \notin stream /\ \A v \in {"dispatch", "echo"} : fan'[<<x, v>>].pc = "none"
    BY <1>1 DEF NewInv, redisVars
  <2>1. x \notin stream /\ \A v \in {"dispatch", "echo"} : fan[<<x, v>>].pc = "none"
    BY DEF RegistryInv, NewInv
  <2> QED BY <1>1, <1>4, <1>6, <2>1
<1>8. DeliveryInv'
  <2> SUFFICES ASSUME NEW q \in Pairs, NEW x \in Events,
                      serving[q] # None, job[serving[q]].pc = "eose", conn[q[1]] = "open",
                      TopicOf[x] \in subs[q[1]][q[2]], x \notin got[q],
                      <<q, TopicOf[x]>> \notin swept,
                      NEW v \in {"dispatch", "echo"}
               PROVE  \/ fan'[<<x, v>>].pc = "none"
                      \/ /\ fan'[<<x, v>>].pc = "match"
                         /\ q \in fan'[<<x, v>>].cand \cup fan'[<<x, v>>].matched
    BY <1>1 DEF DeliveryInv, registryVars, historyVars
  <2>1. \/ fan[<<x, v>>].pc = "none"
        \/ /\ fan[<<x, v>>].pc = "match"
           /\ q \in fan[<<x, v>>].cand \cup fan[<<x, v>>].matched
    BY DEF RegistryInv, DeliveryInv
  <2>2. CASE <<x, v>> = d
    <3>1. d[1] = x BY <2>2
    <3> QED BY <1>1, <1>3, <1>4, <2>1, <2>2, <3>1
  <2>3. CASE <<x, v>> # d BY <1>4, <1>6, <2>1, <2>3
  <2> QED BY <2>2, <2>3
<1> QED BY <1>5, <1>7, <1>8, EventFrame

\* The frames are sent to the matched subscriptions.
LEMMA SendMatchesKeeps ==
    ASSUME RegistryInv, NEW d \in Deliveries, SendMatches(d)
    PROVE  RegistryInv'
<1> DEFINE new == [fan[d] EXCEPT !.pc = "done"]
<1>1. /\ fan[d].pc = "match" /\ fan[d].cand = {}
      /\ fan' = [fan EXCEPT ![d] = new]
      /\ got' = [p \in Pairs |-> IF p \in fan[d].matched /\ conn[p[1]] # "gone"
                                 THEN got[p] \cup {d[1]} ELSE got[p]]
      /\ UNCHANGED <<conn, registryVars, job, topicVars, redisVars, event, marks, serving, swept,
                     strays, quota>>
  BY DEF SendMatches, RegistryInv, TypeOK
<1>2. fan[d] \in [pc : {"none", "match", "done"}, cand : SUBSET Pairs, matched : SUBSET Pairs]
  BY DEF RegistryInv, TypeOK
<1>3. /\ new \in [pc : {"none", "match", "done"}, cand : SUBSET Pairs, matched : SUBSET Pairs]
  BY <1>2
<1> HIDE DEF new
<1>4. /\ fan' \in [Deliveries -> [pc : {"none", "match", "done"}, cand : SUBSET Pairs,
                                  matched : SUBSET Pairs]]
      /\ \A x \in Deliveries : x # d => fan'[x] = fan[x]
  BY <1>1, <1>3 DEF RegistryInv, TypeOK
<1>5. EventsOnly
  BY <1>1, <1>4 DEF EventsOnly, RegistryInv, TypeOK, HistoryTypes, redisVars
<1>6. \A x \in Events, v \in {"dispatch", "echo"} : <<x, v>> \in Deliveries BY DEF Deliveries
<1>7. NewInv'
  <2> SUFFICES ASSUME NEW x \in Events, event[x] \in {"new", "stored"}
               PROVE  x \notin stream /\ \A v \in {"dispatch", "echo"} : fan'[<<x, v>>].pc = "none"
    BY <1>1 DEF NewInv, redisVars
  <2>1. x \notin stream /\ \A v \in {"dispatch", "echo"} : fan[<<x, v>>].pc = "none"
    BY DEF RegistryInv, NewInv
  <2> QED BY <1>1, <1>4, <1>6, <2>1
<1>8. DeliveryInv'
  <2> SUFFICES ASSUME NEW q \in Pairs, NEW x \in Events,
                      serving[q] # None, job[serving[q]].pc = "eose", conn[q[1]] = "open",
                      TopicOf[x] \in subs[q[1]][q[2]], x \notin got'[q],
                      <<q, TopicOf[x]>> \notin swept,
                      NEW v \in {"dispatch", "echo"}
               PROVE  \/ fan'[<<x, v>>].pc = "none"
                      \/ /\ fan'[<<x, v>>].pc = "match"
                         /\ q \in fan'[<<x, v>>].cand \cup fan'[<<x, v>>].matched
    BY <1>1 DEF DeliveryInv, registryVars
  <2>0. x \notin got[q] BY <1>1
  <2>1. \/ fan[<<x, v>>].pc = "none"
        \/ /\ fan[<<x, v>>].pc = "match"
           /\ q \in fan[<<x, v>>].cand \cup fan[<<x, v>>].matched
    BY <2>0 DEF RegistryInv, DeliveryInv
  <2>2. <<x, v>> # d
    <3> SUFFICES ASSUME <<x, v>> = d PROVE FALSE OBVIOUS
    <3>1. d[1] = x /\ q \in fan[d].matched BY <1>1, <2>1
    <3> QED BY <1>1, <3>1
  <2> QED BY <1>4, <1>6, <2>1, <2>2
<1> QED BY <1>5, <1>7, <1>8, EventFrame

-----------------------------------------------------------------------------
(* The guarantees *)

\* At the start nobody subscribes and nothing is under way.
LEMMA InitRegistry == Init => RegistryInv
<1> SUFFICES ASSUME Init PROVE RegistryInv OBVIOUS
<1>1. \A j \in Jobs : job[j] = IdleJob BY DEF Init
<1>2. TypeOK
  <2>1. \A j \in Jobs : job[j] \in Jobs_ BY <1>1, IdleType
  <2> QED BY <2>1 DEF Init, TypeOK
<1>3. JobsOK
  <2>1. ReqOK(IdleJob) /\ EvictorOK(IdleJob) /\ \A c \in Conns : ReaderOK(c, conn[c], IdleJob)
    BY IdleType DEF ReqOK, ReqPcs, EvictorOK, ReaderOK
  <2>2. DOMAIN job = Jobs BY DEF Init
  <2> QED BY <1>1, <2>1, <2>2, IdleType, Roles DEF JobsOK
<1>4. CommandsOK BY DEF Init, CommandsOK
<1>5. HistoryTypes BY BoundsAssumption DEF Init, HistoryTypes
<1>6. InterestInv BY DEF Init, InterestInv
<1>7. CountCoversRegistry
  <2> SUFFICES ASSUME NEW t \in Topics
               PROVE  desired[t] + Cardinality(OwedRetains(t)) + strays[t]
                        >= Cardinality(Registered(t)) + Cardinality(OwedReleases(t))
    BY DEF CountCoversRegistry
  <2>1. Registered(t) = {} BY DEF Init, Registered, Pairs
  <2>2. OwedReleases(t) = {} BY <1>1, IdleType DEF OwedReleases
  <2>3. OwedRetains(t) = {} BY <1>1, IdleType, Roles DEF OwedRetains
  <2>4. desired[t] = 0 /\ strays[t] = 0 BY DEF Init
  <2> QED BY <2>1, <2>2, <2>3, <2>4, FS_EmptySet
<1>8. UnindexInv BY <1>1, IdleType DEF UnindexInv
<1>9. ServingInv /\ IndexInv /\ DeliveryInv BY DEF Init, ServingInv, IndexInv, DeliveryInv
<1>10. NewInv BY DEF Init, NewInv, Deliveries
<1> QED BY <1>2, <1>3, <1>4, <1>5, <1>6, <1>7, <1>8, <1>9, <1>10 DEF RegistryInv

\* Every step keeps the invariant.
LEMMA NextRegistry == RegistryInv /\ [Next]_vars => RegistryInv'
<1> SUFFICES ASSUME RegistryInv, [Next]_vars PROVE RegistryInv' OBVIOUS
<1>1. ASSUME NEW c \in Conns, NEW s \in Subs, NEW scope \in quota.scopes, NEW r \in Reqs,
             SpawnReq(c, s, scope, r)
      PROVE  RegistryInv'
  BY <1>1, SpawnReqKeeps
<1>2. ASSUME NEW r \in Reqs, ReqStep(r) PROVE RegistryInv'
  BY <1>2, CheckReqKeeps, ReplaceKeeps, InsertKeeps, PushKeeps, RetainKeeps, PostSubscribeKeeps,
     SendHistoryKeeps DEF ReqStep
<1>3. ASSUME NEW c \in Conns, ReaderStep(c) PROVE RegistryInv'
  BY <1>3, CloseKeeps, DisconnectKeeps, RemoveConnectionKeeps, DeregisterKeeps DEF ReaderStep
<1>4. CASE EvictionStep
  BY <1>4, StartEvictionKeeps, VisitConnectionKeeps, EvictKeeps, EndEvictionKeeps,
     FinishConnectionKeeps DEF EvictionStep
<1>5. ASSUME NEW j \in Jobs, RemoveFromIndex(j) \/ RemoveKey(j) \/ Release(j)
      PROVE  RegistryInv'
  BY <1>5, RemoveFromIndexKeeps, RemoveKeyKeeps, ReleaseKeeps
<1>6. CASE RedisStep
  BY <1>6, JoinKeeps, JoinedKeeps, LinkFailsKeeps, HandleCommandKeeps, SendUnsubscribeKeeps
     DEF RedisStep
<1>7. ASSUME NEW e \in Events, EventStep(e) PROVE RegistryInv'
  BY <1>7, StoreEventKeeps, MarkEventKeeps, MarkLapsesKeeps, PublishEventKeeps, StartDispatchKeeps,
     RemotePublishKeeps, ReceiveEventKeeps DEF EventStep
<1>8. ASSUME NEW d \in Deliveries, SendMatches(d) \/ \E p \in Pairs : MatchCandidate(d, p)
      PROVE  RegistryInv'
  BY <1>8, SendMatchesKeeps, MatchCandidateKeeps
<1>9. CASE UNCHANGED vars
  <2>1. EventsOnly
    BY <1>9 DEF vars, EventsOnly, registryVars, topicVars, redisVars, eventVars, historyVars,
                RegistryInv, TypeOK, HistoryTypes
  <2>2. NewInv' BY <1>9 DEF vars, redisVars, eventVars, RegistryInv, NewInv
  <2>3. DeliveryInv' BY <1>9, DeliveryFrame DEF vars, eventVars, historyVars
  <2> QED BY <2>1, <2>2, <2>3, EventFrame
<1> QED BY <1>1, <1>2, <1>3, <1>4, <1>5, <1>6, <1>7, <1>8, <1>9 DEF Next

\* RegistryInv holds throughout every behaviour of the relay.
THEOREM RegistryInvariant == Spec => []RegistryInv
BY InitRegistry, NextRegistry, PTL DEF Spec

\* The types, however the tasks interleave.
THEOREM TypeCorrect == Spec => []TypeOK
<1>1. RegistryInv => TypeOK BY DEF RegistryInv
<1> QED BY <1>1, RegistryInvariant, PTL

\* retain_topic and release_topic never let the count of a topic fall behind the
\* registry by more than the releases remove_channel_subscriptions_scoped has
\* reported for subscriptions that had given the channel up after it noted them.
THEOREM CountsHold == Spec => []CountCoversRegistry
<1>1. RegistryInv => CountCoversRegistry BY DEF RegistryInv
<1> QED BY <1>1, RegistryInvariant, PTL

\* The subscriber task keeps Redis subscribed to every topic with interest once
\* no Subscribe for it is on its way, through debounces and reconnections.
THEOREM InterestHolds == Spec => []InterestIsSubscribed
<1>1. RegistryInv => InterestIsSubscribed
  BY DEF RegistryInv, InterestInv, InterestIsSubscribed
<1> QED BY <1>1, RegistryInvariant, PTL

\* A subscription that had EOSE misses no delivered event of its scope, unless
\* remove_from_index deleted its index entry along with a key.
THEOREM NothingMissed == Spec => []NoGap
<1>1. RegistryInv => NoGap
  BY DEF RegistryInv, DeliveryInv, NoGap, Missed
<1> QED BY <1>1, RegistryInvariant, PTL

=============================================================================
