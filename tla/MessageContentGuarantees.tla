---------------------- MODULE MessageContentGuarantees ----------------------
(***************************************************************************)
(* The rest of what the content vault guarantees, for every value of the   *)
(* constants: rows and R2 objects agree, the commit fence holds against    *)
(* the collector, no wake-up is lost, the history of keys stays within the *)
(* registry's limit, and the vault implements ContentPromise.              *)
(***************************************************************************)
EXTENDS MessageContentProofs, FiniteSetTheorems

\* A row is empty, or holds its key; only a preparation is fenced.
RowShape(t) ==
    \A o \in Operations :
      /\ t[o].status = "absent" => t[o].key = NoKey
      /\ t[o].claimed = 1 => Prepared(t[o])

\* The index of content_versions on the version.
OneRowPerVersion(t) ==
    \A o, p \in Operations :
      o # p /\ Stored(t[o]) /\ Stored(t[p]) => t[o].version # t[p].version

\* No key is drawn twice.
OneRowPerKey ==
    \A o, p \in Operations :
      o # p /\ rows[o].status # "absent" => rows[o].key # rows[p].key

\* Statuses that no step leaves but by destruction.
FinalIn(t, u) ==
    \A o \in Operations :
      /\ t[o].status = "expired" => u[o].status = "expired"
      /\ t[o].status = "finalized" => u[o].status \in {"finalized", "destroyed"}

\* What is final in a point of the present line is still final in the rows, and
\* in the later points of the line, and has its object.
FinalityIsKept ==
    \A i \in line :
      /\ FinalIn(points[i].rows, rows)
      /\ \A j \in line : j <= i => FinalIn(points[j].rows, points[i].rows)
      /\ \A o \in Operations :
           points[i].rows[o].status = "finalized" => rows[o].key \in objects \cup astray

\* What the collector holds in memory across its awaits is never content that
\* was finalized, now or in a past that the present descends from.
CollectorOK ==
    \A o \in gc.due :
      /\ gc.running
      /\ rows[o].status \in {"expiring", "destroyed"}
      /\ \A i \in line : points[i].rows[o].status # "finalized"

\* No row leaves "preparing" while the RPC that writes its object is running.
StagingOK ==
    rpc.at \in {"stage_arm", "put", "mark"} => rows[rpc.op].status = "preparing"

\* GenerationIsErasable, for a table.
KeysWithinLimit(t, limit) ==
    /\ IsFiniteSet(ContentKeyIds(t))
    /\ Cardinality(ContentKeyIds(t)) <= limit

\* No key is drawn twice: two tables that hold a key hold it for one operation.
OwnKeys(t, u) ==
    \A o, p \in Operations :
      o # p /\ t[o].status # "absent" /\ u[p].status # "absent" => t[o].key # u[p].key

\* The tables now and those that a restore returns to, on whatever line.
KnownTables == {rows} \cup {points[i].rows : i \in DOMAIN points}

TableOK(t, limit) == RowShape(t) /\ OneRowPerVersion(t) /\ KeysWithinLimit(t, limit)

TablesOK ==
    /\ \A t \in KnownTables : TableOK(t, MaxKeys)
    /\ \A t, u \in KnownTables : OwnKeys(t, u)

StoreInv ==
    /\ IndInv
    /\ TablesOK
    /\ OneRowPerKey
    /\ FinalityIsKept
    /\ CollectorOK
    /\ StagingOK
    /\ ObjectMatchesStatus
    /\ AlarmArmed

\* What StoreInv says of the present rows.
LEMMA RowsFit ==
    ASSUME StoreInv
    PROVE  RowShape(rows) /\ OneRowPerVersion(rows) /\ KeysWithinLimit(rows, MaxKeys)
BY DEF StoreInv, TablesOK, KnownTables, TableOK

-----------------------------------------------------------------------------
(* How rows move *)

\* One row across a step that neither inserts nor restores it.
Moves(r, s) ==
    /\ s.key = r.key /\ s.version = r.version
    /\ \/ s.status = r.status
       \/ r.status = "preparing" /\ s.status = "staged"
       \/ Prepared(r) /\ s.status = "finalized"
       \/ Collectable(r) /\ s.status = "expiring"
       \/ r.status = "expiring" /\ s.status = "expired"
       \/ Stored(r) /\ s.status = "destroyed" /\ Erased
    /\ s.claimed = 1 => Prepared(s)

\* The objects in R2 across a step: the collector deletes that of a due row, a
\* staging RPC writes that of its own row.
ObjectStep ==
    \/ objects' = objects
    \/ \E o \in Operations :
         /\ rows[o].status = "preparing" /\ rows'[o].status = "preparing"
         /\ objects' = objects \cup {rows[o].key}
    \/ \E o \in gc.due : objects' = objects \ {rows[o].key}

\* Only finalize publishes content.
NothingPublished ==
    \A o \in Operations : rows'[o].status = "finalized" => rows[o].status = "finalized"

\* A step that neither inserts nor restores rows.
Steady ==
    /\ ObjectStep
    /\ \A o \in Operations : Moves(rows[o], rows'[o])
    /\ NothingPublished \/ \E o \in Operations : \E k : Finalize(o, k)

\* The tables a restore returns to are those of before; only the rows are new.
LEMMA NewRows ==
    ASSUME StoreInv, UNCHANGED pitr, TableOK(rows', MaxKeys), OwnKeys(rows', rows'),
           \A i \in DOMAIN points : /\ OwnKeys(rows', points[i].rows)
                                   /\ OwnKeys(points[i].rows, rows')
    PROVE  TablesOK'
<1> DEFINE P == {points[i].rows : i \in DOMAIN points}
<1>1. KnownTables = {rows} \cup P /\ KnownTables' = {rows'} \cup P
  BY DEF KnownTables, pitr
<1>2. MaxKeys' = MaxKeys BY DEF MaxKeys, pitr
<1> HIDE DEF P
<1>3. /\ \A t \in P : TableOK(t, MaxKeys)
      /\ \A t, u \in P : OwnKeys(t, u)
  BY <1>1 DEF StoreInv, TablesOK
<1>4. \A t \in P : OwnKeys(rows', t) /\ OwnKeys(t, rows')
  BY DEF P
<1>5. TablesOK' <=> /\ \A t \in {rows'} \cup P : TableOK(t, MaxKeys)
                    /\ \A t, u \in {rows'} \cup P : OwnKeys(t, u)
  BY <1>1, <1>2 DEF TablesOK, TableOK, RowShape, OneRowPerVersion, KeysWithinLimit, OwnKeys
<1> QED BY <1>3, <1>4, <1>5

\* Rows that move keep the shape, the indexes and the key ids of their table.
LEMMA MovesKeepTable ==
    ASSUME StoreInv, UNCHANGED pitr, \A o \in Operations : Moves(rows[o], rows'[o])
    PROVE  TablesOK' /\ OneRowPerKey'
<1>0. RowShape(rows) /\ OneRowPerVersion(rows) /\ KeysWithinLimit(rows, MaxKeys)
  BY RowsFit
<1>1. RowShape(rows')
  BY <1>0 DEF RowShape, Moves, Prepared, Collectable, Stored
<1>2. \A o \in Operations : /\ Stored(rows'[o]) => Stored(rows[o])
                            /\ rows'[o].status # "absent" <=> rows[o].status # "absent"
                            /\ rows'[o].version = rows[o].version
                            /\ rows'[o].key = rows[o].key
  BY DEF Moves, Prepared, Collectable, Stored
<1>3. OneRowPerVersion(rows') BY <1>0, <1>2 DEF OneRowPerVersion
<1>4. OneRowPerKey' BY <1>2 DEF StoreInv, OneRowPerKey
<1>5. ContentKeyIds(rows') = ContentKeyIds(rows) BY <1>2 DEF ContentKeyIds
<1>6. KeysWithinLimit(rows', MaxKeys) BY <1>0, <1>5 DEF KeysWithinLimit
<1>7. TableOK(rows', MaxKeys) BY <1>1, <1>3, <1>6 DEF TableOK
<1>9. /\ OwnKeys(rows, rows)
      /\ \A i \in DOMAIN points : /\ OwnKeys(rows, points[i].rows)
                                  /\ OwnKeys(points[i].rows, rows)
  BY DEF StoreInv, TablesOK, KnownTables
<1>10. TablesOK'
  <2>1. OwnKeys(rows', rows') BY <1>2, <1>9 DEF OwnKeys
  <2>2. \A i \in DOMAIN points : /\ OwnKeys(rows', points[i].rows)
                                 /\ OwnKeys(points[i].rows, rows')
    BY <1>2, <1>9 DEF OwnKeys
  <2> QED BY <1>7, <2>1, <2>2, NewRows
<1> QED BY <1>4, <1>10

\* Rows that move stay true to their objects, if those that become final do.
LEMMA MovesKeepObjects ==
    ASSUME StoreInv, ObjectStep, UNCHANGED pitr,
           \A o \in Operations :
             /\ Moves(rows[o], rows'[o])
             /\ rows'[o].status = "finalized" /\ rows[o].status # "finalized"
                  => rows[o].key \in objects'
             /\ rows'[o].status = "expired" /\ rows[o].status # "expired"
                  => rows[o].key \notin objects'
    PROVE  ObjectMatchesStatus' /\ FinalityIsKept'
<1>1. gc.due \subseteq Operations BY DEF StoreInv, IndInv, TypeOK
<1>2. \A o, p \in Operations : o # p /\ rows[o].status # "absent" => rows[o].key # rows[p].key
  BY DEF StoreInv, OneRowPerKey
<1>3. \A o \in Operations : /\ rows'[o].key = rows[o].key
                            /\ rows[o].status \in {"expired", "finalized"}
                                 => rows'[o].status \in {rows[o].status, "destroyed"}
                            /\ rows[o].status = "expired" => rows'[o].status = "expired"
                            /\ rows[o].status = "destroyed" => rows'[o].status = "destroyed"
  BY DEF Moves, Prepared, Collectable, Stored
<1>4. \A o \in Operations :
        rows[o].status = "finalized" \/ (\E i \in line : points[i].rows[o].status = "finalized")
          => rows[o].key \in objects' \cup astray
  <2> SUFFICES ASSUME NEW o \in Operations,
                      \/ rows[o].status = "finalized"
                      \/ \E i \in line : points[i].rows[o].status = "finalized"
               PROVE  rows[o].key \in objects' \cup astray
    OBVIOUS
  <2>1. rows[o].key \in objects \cup astray /\ rows[o].status \in {"finalized", "destroyed"}
    BY DEF StoreInv, FinalityIsKept, FinalIn, ObjectMatchesStatus, FinalizedHasObject
  <2>2. o \notin gc.due
    BY DEF StoreInv, CollectorOK
  <2> QED BY <1>1, <1>2, <2>1, <2>2 DEF ObjectStep
<1>5. \A o \in Operations : rows[o].status = "expired" => rows[o].key \notin objects' \ astray
  BY <1>1, <1>2, <1>3 DEF ObjectStep, StoreInv, ObjectMatchesStatus, ExpiredHasNoObject
<1>6. ObjectMatchesStatus'
  BY <1>3, <1>4, <1>5 DEF ObjectMatchesStatus, FinalizedHasObject, ExpiredHasNoObject, pitr
<1>7. FinalityIsKept'
  <2>1. points' = points /\ line' = line /\ astray' = astray BY DEF pitr
  <2>2. \A t : FinalIn(t, rows) => FinalIn(t, rows') BY <1>3 DEF FinalIn
  <2>3. FinalityIsKept' <=> \A i \in line :
          /\ FinalIn(points[i].rows, rows')
          /\ \A j \in line : j <= i => FinalIn(points[j].rows, points[i].rows)
          /\ \A o \in Operations :
               points[i].rows[o].status = "finalized" => rows'[o].key \in objects' \cup astray
    BY <2>1 DEF FinalityIsKept, FinalIn
  <2> QED BY <1>3, <1>4, <2>2, <2>3 DEF StoreInv, FinalityIsKept
<1> QED BY <1>6, <1>7

\* A step that inserts nothing and leaves the points alone preserves the
\* invariant, if it keeps the collector, the staging RPC and the alarm in order.
LEMMA SteadyStep ==
    ASSUME StoreInv, IndInv', ObjectStep, UNCHANGED pitr,
           \A o \in Operations :
             /\ Moves(rows[o], rows'[o])
             /\ rows'[o].status = "finalized" /\ rows[o].status # "finalized"
                  => rows[o].key \in objects'
             /\ rows'[o].status = "expired" /\ rows[o].status # "expired"
                  => rows[o].key \notin objects',
           NothingPublished \/ \E o \in Operations : \E k : Finalize(o, k),
           CollectorOK', StagingOK', AlarmArmed'
    PROVE  StoreInv' /\ Steady
<1>1. TablesOK' /\ OneRowPerKey'
  BY MovesKeepTable
<1>2. ObjectMatchesStatus' /\ FinalityIsKept'
  BY MovesKeepObjects
<1> QED BY <1>1, <1>2 DEF StoreInv, Steady

\* A row that nothing touches.
LEMMA Unmoved ==
    ASSUME StoreInv, NEW o \in Operations
    PROVE  Moves(rows[o], rows[o])
BY RowsFit DEF RowShape, Moves

\* The steps that leave the tables alone: the constructor, an eviction, a replay
\* of stage, the two waits of stage, the registry's decision and the ends of alarm().
LEMMA QuietSteps ==
    ASSUME StoreInv, IndInv',
           \/ Start \/ Crash \/ ScheduleNextGc \/ PutObject
           \/ \E o \in Operations, v \in Versions : StageReplay(o, v)
           \/ \E e \in ErasureCommands, expected \in SUBSET minted : DestroyRecord(e, expected)
           \/ \E e \in ErasureCommands, expected \in SUBSET minted : DestroyReplay(e, expected)
           \/ AlarmFinish
           \/ \E o \in Operations : AlarmBackoff(o)
    PROVE  StoreInv' /\ Steady
<1>1. rows' = rows /\ UNCHANGED pitr
  BY DEF Start, Crash, ScheduleNextGc, PutObject, StageReplay, DestroyRecord, DestroyReplay,
         AlarmFinish, AlarmBackoff, sqlite
<1>2. \A o \in Operations : /\ Moves(rows[o], rows'[o])
                            /\ rows'[o].status = rows[o].status
  BY <1>1, Unmoved
<1>3. ObjectStep
  <2>1. CASE PutObject
    <3>1. rpc.op \in Operations /\ rows[rpc.op].status = "preparing"
      BY <2>1 DEF PutObject, StoreInv, StagingOK, IndInv, RpcOK
    <3>2. objects' \in {objects, objects \cup {rows[rpc.op].key}}
      BY <2>1 DEF PutObject
    <3> QED BY <1>1, <3>1, <3>2 DEF ObjectStep
  <2>2. CASE \E o \in Operations : AlarmBackoff(o)
    BY <2>2 DEF AlarmBackoff, ObjectStep
  <2> QED BY <2>1, <2>2 DEF ObjectStep, Start, Crash, ScheduleNextGc, StageReplay, DestroyRecord,
                            DestroyReplay, AlarmFinish, sqlite
<1>4. gc' = gc \/ gc' = Resting
  BY DEF Start, Crash, ScheduleNextGc, PutObject, StageReplay, DestroyRecord, DestroyReplay,
         AlarmFinish, AlarmBackoff, sqlite
<1>5. CollectorOK'
  BY <1>1, <1>4 DEF StoreInv, CollectorOK, Resting, pitr
<1>6. StagingOK'
  <2>1. CASE ScheduleNextGc \/ PutObject
    <3>1. rpc \in Rpc /\ StagingOK BY DEF StoreInv, IndInv, TypeOK
    <3>2. \/ rpc' = Idle
          \/ /\ rpc.at \in {"stage_arm", "put"} /\ \E a \in {"put", "mark"} : rpc' = [rpc EXCEPT !.at = a]
      BY <2>1, <3>1 DEF ScheduleNextGc, PutObject
    <3>3. rpc'.at = "idle" \/ (rpc.at \in {"stage_arm", "put"} /\ rpc'.op = rpc.op)
      BY <3>1, <3>2 DEF Rpc, Idle
    <3> QED BY <1>1, <3>1, <3>3 DEF StagingOK
  <2>2. ASSUME NEW o \in Operations, NEW v \in Versions, StageReplay(o, v) PROVE StagingOK'
    BY <1>1, <2>2 DEF StageReplay, StagingOK, Idle
  <2>3. ASSUME NEW e \in ErasureCommands, NEW expected \in SUBSET minted,
               DestroyRecord(e, expected) \/ DestroyReplay(e, expected)
        PROVE StagingOK'
    <3> DEFINE nullify(d) == [at |-> "nullify", op |-> NoOperation, decision |-> d]
    <3>0. \A d : nullify(d).at = "nullify" OBVIOUS
    <3>1. rpc' = Idle \/ \E d : rpc' = nullify(d)
      <4>1. CASE DestroyReplay(e, expected) BY <4>1 DEF DestroyReplay, Idle
      <4>2. CASE DestroyRecord(e, expected) BY <4>2 DEF DestroyRecord, Idle
      <4> QED BY <2>3, <4>1, <4>2
    <3> HIDE DEF nullify
    <3>2. rpc'.at \in {"idle", "nullify"} BY <3>0, <3>1 DEF Idle
    <3> QED BY <3>2 DEF StagingOK
  <2>4. CASE Start \/ Crash BY <1>1, <2>4 DEF Start, Crash, StoreInv, StagingOK, Idle
  <2>5. CASE AlarmFinish \/ \E o \in Operations : AlarmBackoff(o)
    BY <2>5 DEF AlarmFinish, AlarmBackoff, Ready, StagingOK
  <2> QED BY <2>1, <2>2, <2>3, <2>4, <2>5
<1>7. AlarmArmed'
  <2> USE DEF AlarmArmed, NextGc
  <2>1. CASE Start BY <1>1, <2>1 DEF Start
  <2>2. CASE Crash BY <2>2 DEF Crash
  <2>3. CASE ScheduleNextGc BY <1>1, <2>3 DEF ScheduleNextGc
  <2>4. CASE PutObject
    BY <1>1, <2>4 DEF PutObject, StoreInv
  <2>5. ASSUME NEW o \in Operations, NEW v \in Versions, StageReplay(o, v) PROVE AlarmArmed'
    BY <1>1, <2>5 DEF StageReplay
  <2>6. ASSUME NEW e \in ErasureCommands, NEW expected \in SUBSET minted,
               DestroyRecord(e, expected) \/ DestroyReplay(e, expected)
        PROVE AlarmArmed'
    BY <1>1, <2>6 DEF DestroyRecord, DestroyReplay, Ready, StoreInv
  <2>7. CASE AlarmFinish BY <1>1, <2>7 DEF AlarmFinish
  <2>8. CASE \E o \in Operations : AlarmBackoff(o) BY <2>8 DEF AlarmBackoff
  <2> QED BY <2>1, <2>2, <2>3, <2>4, <2>5, <2>6, <2>7, <2>8
<1> QED BY <1>1, <1>2, <1>3, <1>5, <1>6, <1>7, SteadyStep DEF NothingPublished

\* A step that rewrites one row.
LEMMA OneRowMoves ==
    ASSUME StoreInv, NEW o \in Operations, NEW new,
           rows' = [rows EXCEPT ![o] = new], Moves(rows[o], new)
    PROVE  /\ rows'[o] = new
           /\ \A p \in Operations : /\ Moves(rows[p], rows'[p])
                                    /\ p # o => rows'[p] = rows[p]
<1>1. rows'[o] = new /\ \A p \in Operations : p # o => rows'[p] = rows[p]
  BY DEF StoreInv, IndInv, TypeOK
<1> QED BY <1>1, Unmoved

\* Whatever moves, the alarm stays armed while the same rows stay collectable.
LEMMA AlarmStaysArmed ==
    ASSUME StoreInv, UNCHANGED <<alarm, up, gc>>,
           rpc.at \notin {"arm", "stage_arm"},
           \A o \in Operations : Collectable(rows'[o]) => Collectable(rows[o])
    PROVE  AlarmArmed'
BY DEF StoreInv, AlarmArmed, NextGc

\* The passing of time, the end of stage, the fence and finalization.
LEMMA RowSteps ==
    ASSUME StoreInv, IndInv', NEW o \in Operations, NEW k,
           \/ Elapse(o) \/ MarkStaged \/ ClaimForCommit(o, k)
           \/ ReleaseCommitClaim(o, k) \/ Finalize(o, k)
    PROVE  StoreInv' /\ Steady
<1>0. rows[o] \in Row /\ rows \in [Operations -> Row] /\ gc.due \subseteq Operations
  BY DEF StoreInv, IndInv, TypeOK
<1>1. rows[o].claimed = 1 => Prepared(rows[o])
  BY RowsFit DEF RowShape
<1>2. CASE Elapse(o)
  <2> DEFINE new == [rows[o] EXCEPT !.expires = "passed"]
  <2>1. /\ new.key = rows[o].key /\ new.status = rows[o].status
        /\ new.version = rows[o].version /\ new.claimed = rows[o].claimed
    BY <1>0 DEF Row
  <2>2. rows' = [rows EXCEPT ![o] = new] BY <1>2 DEF Elapse
  <2> HIDE DEF new
  <2>3. Moves(rows[o], new) BY <1>1, <2>1 DEF Moves, Prepared
  <2>4. \A p \in Operations : /\ Moves(rows[p], rows'[p])
                              /\ rows'[p].status = rows[p].status
                              /\ rows'[p].claimed = rows[p].claimed
    BY <2>1, <2>2, <2>3, OneRowMoves
  <2>5. UNCHANGED <<alarm, pitr, up, rpc, gc, objects>> BY <1>2 DEF Elapse, process
  <2>6. CollectorOK' BY <1>0, <2>4, <2>5 DEF StoreInv, CollectorOK, pitr
  <2>7. StagingOK' BY <2>4, <2>5 DEF StoreInv, StagingOK, IndInv, RpcOK
  <2>8. AlarmArmed' BY <2>4, <2>5 DEF StoreInv, AlarmArmed, NextGc, Collectable
  <2> QED BY <2>4, <2>5, <2>6, <2>7, <2>8, SteadyStep DEF ObjectStep, NothingPublished
<1>3. CASE MarkStaged
  <2>0. rpc.op \in Operations /\ rows[rpc.op].status = "preparing" /\ rows[rpc.op] \in Row
    BY <1>0, <1>3 DEF MarkStaged, StoreInv, StagingOK, IndInv, RpcOK
  <2> DEFINE new == [rows[rpc.op] EXCEPT !.status = "staged"]
  <2>1. /\ new.key = rows[rpc.op].key /\ new.status = "staged"
        /\ new.version = rows[rpc.op].version /\ new.claimed = rows[rpc.op].claimed
    BY <2>0 DEF Row
  <2>2. rows' = [rows EXCEPT ![rpc.op] = new] BY <1>3, <2>0 DEF MarkStaged
  <2> HIDE DEF new
  <2>3. Moves(rows[rpc.op], new) BY <2>0, <2>1 DEF Moves, Prepared
  <2>4. /\ rows'[rpc.op] = new
        /\ \A p \in Operations : /\ Moves(rows[p], rows'[p])
                                 /\ p # rpc.op => rows'[p] = rows[p]
    BY <2>0, <2>2, <2>3, OneRowMoves
  <2>5. UNCHANGED <<alarm, pitr, up, gc, objects>> /\ rpc' = Idle
    BY <1>3 DEF MarkStaged
  <2>6. CollectorOK' BY <1>0, <2>0, <2>4, <2>5 DEF StoreInv, CollectorOK, pitr
  <2>7. StagingOK' BY <2>5 DEF StagingOK, Idle
  <2>8. \A p \in Operations : Collectable(rows'[p]) => Collectable(rows[p])
    BY <2>0, <2>1, <2>4 DEF Collectable
  <2>9. AlarmArmed' BY <1>3, <2>5, <2>8, AlarmStaysArmed DEF MarkStaged
  <2> QED BY <2>0, <2>1, <2>4, <2>5, <2>6, <2>7, <2>9, SteadyStep DEF ObjectStep, NothingPublished
<1>4. CASE ClaimForCommit(o, k) \/ ReleaseCommitClaim(o, k)
  <2>0. PICK c \in {0, 1} :
          rows' = IF Prepared(rows[o]) THEN [rows EXCEPT ![o].claimed = c] ELSE rows
    BY <1>4 DEF ClaimForCommit, ReleaseCommitClaim
  <2> DEFINE new == IF Prepared(rows[o]) THEN [rows[o] EXCEPT !.claimed = c] ELSE rows[o]
  <2>1. /\ new.key = rows[o].key /\ new.status = rows[o].status
        /\ new.version = rows[o].version
    BY <1>0 DEF Row
  <2>2. rows' = [rows EXCEPT ![o] = new]
    <3>1. CASE Prepared(rows[o]) BY <2>0, <3>1
    <3>2. CASE ~Prepared(rows[o])
      <4>1. new = rows[o] /\ rows' = rows BY <2>0, <3>2
      <4> QED BY <1>0, <4>1
    <3> QED BY <3>1, <3>2
  <2>3. Moves(rows[o], new) BY <1>0, <1>1, <2>1 DEF Moves, Prepared
  <2> HIDE DEF new
  <2>4. \A p \in Operations : /\ Moves(rows[p], rows'[p])
                              /\ rows'[p].status = rows[p].status
    BY <2>1, <2>2, <2>3, OneRowMoves
  <2>5. UNCHANGED <<pitr, gc, objects>> /\ rpc'.at = "arm"
    BY <1>4 DEF ClaimForCommit, ReleaseCommitClaim, Idle
  <2>6. CollectorOK' BY <1>0, <2>4, <2>5 DEF StoreInv, CollectorOK, pitr
  <2>7. StagingOK' /\ AlarmArmed' BY <2>5 DEF StagingOK, AlarmArmed
  <2> QED BY <2>4, <2>5, <2>6, <2>7, SteadyStep DEF ObjectStep, NothingPublished
<1>5. CASE Finalize(o, k)
  <2> DEFINE new == [rows[o] EXCEPT !.status = "finalized", !.claimed = 0, !.expires = "null"]
  <2>1. /\ new.key = rows[o].key /\ new.status = "finalized"
        /\ new.version = rows[o].version /\ new.claimed = 0
    BY <1>0 DEF Row
  <2>2. rows' = [rows EXCEPT ![o] = new] BY <1>5 DEF Finalize
  <2> HIDE DEF new
  <2>3. /\ Ready /\ Prepared(rows[o]) /\ UNCHANGED <<alarm, pitr, up, rpc, gc, objects>>
    BY <1>5 DEF Finalize, process
  <2>4. rows[o].key \in objects
    BY <1>5, <2>3 DEF Finalize, FinalizeCode, ClaimCode, Stored, Prepared
  <2>5. Moves(rows[o], new) BY <2>1, <2>3 DEF Moves
  <2>6. /\ rows'[o] = new
        /\ \A p \in Operations : /\ Moves(rows[p], rows'[p])
                                 /\ p # o => rows'[p] = rows[p]
    BY <2>2, <2>5, OneRowMoves
  <2>7. CollectorOK' BY <1>0, <2>3, <2>6 DEF StoreInv, CollectorOK, Prepared, pitr
  <2>8. StagingOK' BY <2>3 DEF Ready, StagingOK
  <2>9. \A p \in Operations : Collectable(rows'[p]) => Collectable(rows[p])
    BY <2>1, <2>6 DEF Collectable
  <2>10. AlarmArmed' BY <2>3, <2>9, AlarmStaysArmed DEF Ready
  <2> QED BY <1>5, <2>1, <2>3, <2>4, <2>6, <2>7, <2>8, <2>10, SteadyStep DEF ObjectStep, NothingPublished
<1> QED BY <1>2, <1>3, <1>4, <1>5

\* The transaction that destroys the key material moves every stored row.
LEMMA NullifyStep ==
    ASSUME StoreInv, IndInv', Nullify
    PROVE  StoreInv' /\ Steady
<1> DEFINE gone(o) == IF Stored(rows[o])
                      THEN [rows[o] EXCEPT !.status = "destroyed",
                                           !.claimed = 0, !.expires = "null"]
                      ELSE rows[o]
<1>1. \A o \in Operations :
        /\ Moves(rows[o], gone(o))
        /\ gone(o).status \in {rows[o].status, "destroyed"}
  <2> TAKE o \in Operations
  <2>1. rows[o] \in Row BY DEF StoreInv, IndInv, TypeOK
  <2>2. CASE Stored(rows[o])
    <3> DEFINE new == [rows[o] EXCEPT !.status = "destroyed", !.claimed = 0, !.expires = "null"]
    <3>1. new.key = rows[o].key /\ new.version = rows[o].version
          /\ new.status = "destroyed" /\ new.claimed = 0
      BY <2>1 DEF Row
    <3>2. gone(o) = new BY <2>2
    <3>3. Erased BY DEF Nullify, StoreInv, IndInv, RpcOK
    <3> HIDE DEF new, gone
    <3> QED BY <2>2, <3>1, <3>2, <3>3 DEF Moves
  <2>3. CASE ~Stored(rows[o]) BY <2>3, Unmoved
  <2> QED BY <2>2, <2>3
<1>2. \A o \in Operations : rows'[o] \in {rows[o], gone(o)}
  BY DEF Nullify, sqlite
<1> HIDE DEF gone
<1>3. \A o \in Operations : /\ Moves(rows[o], rows'[o])
                            /\ rows'[o].status \in {rows[o].status, "destroyed"}
  BY <1>1, <1>2, Unmoved
<1>4. UNCHANGED <<alarm, pitr, up, gc, objects>> /\ rpc' = Idle /\ rpc.at = "nullify"
  BY DEF Nullify
<1>5. CollectorOK'
  BY <1>3, <1>4 DEF StoreInv, IndInv, TypeOK, CollectorOK, pitr
<1>6. StagingOK' BY <1>4 DEF StagingOK, Idle
<1>7. \A o \in Operations : Collectable(rows'[o]) => Collectable(rows[o])
  <2> TAKE o \in Operations
  <2>1. rows[o].claimed = 1 => Prepared(rows[o]) BY RowsFit DEF RowShape
  <2>2. rows'[o].status # "destroyed" => rows'[o] = rows[o]
    <3>1. rows[o] \in Row BY DEF StoreInv, IndInv, TypeOK
    <3>2. Stored(rows[o]) => gone(o).status = "destroyed" BY <3>1 DEF gone, Row
    <3> QED BY <1>2, <3>2 DEF gone
  <2> QED BY <2>2 DEF Collectable
<1>8. AlarmArmed' BY <1>4, <1>7, AlarmStaysArmed
<1> QED BY <1>3, <1>4, <1>5, <1>6, <1>8, SteadyStep DEF ObjectStep, NothingPublished

\* alarm(): marking the due rows, and moving one to the history once R2 has
\* deleted its object.
LEMMA CollectorSteps ==
    ASSUME StoreInv, IndInv', AlarmMark \/ \E o \in Operations : AlarmCollect(o)
    PROVE  StoreInv' /\ Steady
<1>0. rows \in [Operations -> Row] /\ gc.due \subseteq Operations
  BY DEF StoreInv, IndInv, TypeOK
<1>1. CASE AlarmMark
  <2>1. PICK batch \in SUBSET DueRows :
          /\ gc' = [running |-> TRUE, due |-> batch]
          /\ rows' = [o \in Operations |->
                        IF o \in batch THEN [rows[o] EXCEPT !.status = "expiring"]
                                       ELSE rows[o]]
    BY <1>1 DEF AlarmMark
  <2>2. \A o \in batch : o \in Operations /\ Collectable(rows[o]) BY DEF DueRows
  <2>3. \A o \in batch : /\ rows'[o].status = "expiring" /\ rows'[o].claimed = rows[o].claimed
                         /\ rows'[o].key = rows[o].key /\ rows'[o].version = rows[o].version
    <3> TAKE o \in batch
    <3>1. rows[o] \in Row /\ rows'[o] = [rows[o] EXCEPT !.status = "expiring"]
      BY <1>0, <2>1, <2>2
    <3> QED BY <3>1 DEF Row
  <2>4. \A o \in Operations : o \notin batch => rows'[o] = rows[o] BY <2>1
  <2>5. \A o \in batch : Moves(rows[o], rows'[o]) BY <2>2, <2>3 DEF Moves, Collectable
  <2>6. \A o \in Operations : Moves(rows[o], rows'[o]) BY <2>4, <2>5, Unmoved
  <2>7. gc'.running = TRUE /\ gc'.due = batch BY <2>1
  <2>8. UNCHANGED <<pitr, rpc, objects>> /\ rpc.at = "idle" BY <1>1 DEF AlarmMark, Ready
  <2>9. CollectorOK'
    BY <2>2, <2>3, <2>7, <2>8
       DEF CollectorOK, StoreInv, FinalityIsKept, FinalIn, Collectable, pitr
  <2>10. StagingOK' BY <2>8 DEF StagingOK
  <2>11. AlarmArmed' BY <2>7 DEF AlarmArmed
  <2>12. \A o \in Operations : rows'[o].status \in {rows[o].status, "expiring"}
    BY <2>3, <2>4
  <2> QED BY <2>6, <2>8, <2>9, <2>10, <2>11, <2>12, SteadyStep DEF ObjectStep, NothingPublished
<1>2. ASSUME NEW o \in Operations, AlarmCollect(o)
      PROVE  StoreInv' /\ Steady
  <2>0. rows[o] \in Row /\ rows[o].status \in {"expiring", "destroyed"} /\ gc.running
        /\ (rows[o].claimed = 1 => Prepared(rows[o]))
    BY <1>0, <1>2, RowsFit DEF AlarmCollect, StoreInv, CollectorOK, RowShape
  <2> DEFINE new == IF rows[o].status = "expiring"
                    THEN [rows[o] EXCEPT !.status = "expired", !.expires = "null"]
                    ELSE rows[o]
  <2>1. /\ new.key = rows[o].key /\ new.version = rows[o].version
        /\ new.claimed = rows[o].claimed
        /\ new.status = IF rows[o].status = "expiring" THEN "expired" ELSE "destroyed"
    BY <2>0 DEF Row
  <2>2. rows' = [rows EXCEPT ![o] = new] BY <1>0, <1>2 DEF AlarmCollect
  <2> HIDE DEF new
  <2>3. Moves(rows[o], new) BY <2>0, <2>1 DEF Moves, Prepared
  <2>4. /\ rows'[o] = new
        /\ \A p \in Operations : /\ Moves(rows[p], rows'[p])
                                 /\ p # o => rows'[p] = rows[p]
    BY <2>2, <2>3, OneRowMoves
  <2>5. /\ gc' = [gc EXCEPT !.due = gc.due \ {o}] /\ gc.running
        /\ UNCHANGED <<pitr, alarm, up, rpc>> /\ rpc.at = "idle"
        /\ objects' = objects \ {rows[o].key} /\ o \in gc.due
    BY <1>2, <2>0 DEF AlarmCollect, Ready
  <2>6. gc'.due = gc.due \ {o} /\ gc'.running = gc.running
    BY <2>5 DEF StoreInv, IndInv, TypeOK
  <2>7. CollectorOK'
    BY <1>0, <2>4, <2>5, <2>6 DEF CollectorOK, StoreInv, pitr
  <2>8. StagingOK' BY <2>5 DEF StagingOK
  <2>9. AlarmArmed' BY <2>5, <2>6 DEF AlarmArmed
  <2> QED BY <2>1, <2>4, <2>5, <2>7, <2>8, <2>9, SteadyStep DEF ObjectStep, NothingPublished
<1> QED BY <1>1, <1>2

\* stage inserts a row of its own version under a key nobody holds, and the
\* limit is checked before: the history of keys grows by one at most.
LEMMA InsertStep ==
    ASSUME StoreInv, IndInv', NEW o \in Operations, NEW v \in Versions, NEW k \in Keys,
           StageInsert(o, v, k)
    PROVE  StoreInv'
<1> DEFINE new == [status |-> "preparing", version |-> v, key |-> k,
                   claimed |-> 0, expires |-> "ahead"]
<1>1. /\ new.status = "preparing" /\ new.version = v /\ new.key = k /\ new.claimed = 0
  OBVIOUS
<1>2. /\ rows' = [rows EXCEPT ![o] = new]
      /\ rows[o].status = "absent" /\ k \notin minted
      /\ ContentByVersion(rows, v) = {}
      /\ UNCHANGED <<pitr, gc, objects>>
      /\ rpc' = [at |-> "stage_arm", op |-> o, decision |-> NoDecision]
      /\ Cardinality(ContentKeyIds(rows)) < MaxKeys
  BY DEF StageInsert, Idle
<1> HIDE DEF new
<1>3. /\ rows'[o] = new
      /\ \A p \in Operations : p # o => rows'[p] = rows[p]
  BY <1>2 DEF StoreInv, IndInv, TypeOK
<1>4. \A p \in Operations : rows[p].status # "absent" => rows[p].key \in minted
  BY DEF StoreInv, IndInv, RowsOK, KeysDrawn
<1>0. RowShape(rows) /\ OneRowPerVersion(rows) /\ KeysWithinLimit(rows, MaxKeys)
  BY RowsFit
<1>5. RowShape(rows') BY <1>0, <1>1, <1>3 DEF RowShape, Prepared
<1>6. OneRowPerVersion(rows')
  <2>1. \A p \in Operations : Stored(rows[p]) => rows[p].version # v
    BY <1>2 DEF ContentByVersion
  <2> QED BY <1>0, <1>1, <1>3, <2>1 DEF OneRowPerVersion
<1>7. OneRowPerKey'
  <2>1. \A p \in Operations : p # o => rows[p].key # k
    <3> TAKE p \in Operations
    <3>1. CASE rows[p].status = "absent"
      BY <1>0, <3>1, SetsAssumption DEF RowShape
    <3>2. CASE rows[p].status # "absent"
      BY <1>2, <1>4, <3>2
    <3> QED BY <3>1, <3>2
  <2> QED BY <1>1, <1>3, <2>1 DEF StoreInv, OneRowPerKey
<1>8. FinalityIsKept'
  <2>1. points' = points /\ line' = line /\ astray' = astray BY <1>2 DEF pitr
  <2>2. \A i \in line : points[i].rows[o].status = "absent"
    BY <1>2 DEF StoreInv, IndInv, LineIsPast, PastOf
  <2>3. \A i \in line : FinalIn(points[i].rows, rows) => FinalIn(points[i].rows, rows')
    BY <1>3, <2>2 DEF FinalIn
  <2>4. FinalityIsKept' <=> \A i \in line :
          /\ FinalIn(points[i].rows, rows')
          /\ \A j \in line : j <= i => FinalIn(points[j].rows, points[i].rows)
          /\ \A p \in Operations :
               points[i].rows[p].status = "finalized" => rows'[p].key \in objects \cup astray
    BY <1>2, <2>1 DEF FinalityIsKept, FinalIn
  <2> QED BY <1>3, <2>2, <2>3, <2>4 DEF StoreInv, FinalityIsKept
<1>9. CollectorOK'
  <2>1. gc.due \subseteq Operations BY DEF StoreInv, IndInv, TypeOK
  <2> QED BY <1>2, <1>3, <2>1 DEF StoreInv, CollectorOK, pitr
<1>10. StagingOK' BY <1>1, <1>2, <1>3 DEF StagingOK
<1>11. ObjectMatchesStatus'
  BY <1>1, <1>2, <1>3 DEF StoreInv, ObjectMatchesStatus, FinalizedHasObject, ExpiredHasNoObject, pitr
<1>12. AlarmArmed' BY <1>2 DEF AlarmArmed
<1>13. KeysWithinLimit(rows', MaxKeys)
  <2>1. ContentKeyIds(rows') = ContentKeyIds(rows) \cup {k}
    BY <1>1, <1>2, <1>3 DEF ContentKeyIds
  <2>2. IsFiniteSet(ContentKeyIds(rows)) /\ Cardinality(ContentKeyIds(rows)) \in Nat
    BY <1>0, FS_CardinalityType DEF KeysWithinLimit
  <2>3. /\ IsFiniteSet(ContentKeyIds(rows) \cup {k})
        /\ \/ Cardinality(ContentKeyIds(rows) \cup {k}) = Cardinality(ContentKeyIds(rows)) + 1
           \/ Cardinality(ContentKeyIds(rows) \cup {k}) = Cardinality(ContentKeyIds(rows))
    BY <2>2, FS_AddElement
  <2>5. MaxKeys \in Nat BY LimitsAssumption DEF StoreInv, IndInv, TypeOK, MaxKeys
  <2>4. Cardinality(ContentKeyIds(rows) \cup {k}) <= MaxKeys
    BY <1>2, <2>2, <2>3, <2>5
  <2> QED BY <2>1, <2>3, <2>4 DEF KeysWithinLimit
<1>14. TablesOK'
  <2>1. TableOK(rows', MaxKeys) BY <1>5, <1>6, <1>13 DEF TableOK
  <2>2. \A t \in KnownTables : \A p \in Operations : t[p].status # "absent" => t[p].key # k
    <3>1. \A t \in KnownTables : KeysDrawn(t)
      BY DEF KnownTables, StoreInv, IndInv, RowsOK
    <3> QED BY <1>2, <3>1 DEF KeysDrawn
  <2>3. ASSUME NEW t \in KnownTables PROVE OwnKeys(rows', t) /\ OwnKeys(t, rows')
    <3>1. OwnKeys(rows, t) /\ OwnKeys(t, rows)
      BY DEF StoreInv, TablesOK, KnownTables
    <3> QED BY <1>1, <1>3, <2>2, <3>1 DEF OwnKeys
  <2>4. OwnKeys(rows', rows')
    <3>1. OwnKeys(rows, rows) /\ rows \in KnownTables BY DEF StoreInv, TablesOK, KnownTables
    <3> QED BY <1>1, <1>3, <2>2, <3>1 DEF OwnKeys
  <2>5. \A i \in DOMAIN points : points[i].rows \in KnownTables BY DEF KnownTables
  <2>6. UNCHANGED pitr BY <1>2
  <2> QED BY <2>1, <2>3, <2>4, <2>5, <2>6, NewRows
<1> QED BY <1>7, <1>8, <1>9, <1>10, <1>11, <1>12, <1>14 DEF StoreInv

\* Recovery makes no table: it keeps the present one or returns to one it kept.
LEMMA RecoveryKeepsTables ==
    ASSUME StoreInv, IndInv', KeepPoint \/ Restores
    PROVE  TablesOK' /\ OneRowPerKey'
<1>1. /\ points' = Append(points, Tables) \/ points' = points
      /\ rows' \in KnownTables /\ size' = size
  BY DEF KeepPoint, Restores, Restore, KnownTables, sqlite
<1>2. \A i \in DOMAIN points' :
        (i \in DOMAIN points /\ points'[i] = points[i]) \/ points'[i] = Tables
  BY <1>1, PointsGrow DEF StoreInv, IndInv
<1>3. Tables.rows = rows BY DEF Tables
<1>4. \A i \in DOMAIN points' : points'[i].rows \in KnownTables
  BY <1>2, <1>3 DEF KnownTables
<1>5. \A t \in KnownTables' : t \in KnownTables
  BY <1>1, <1>4 DEF KnownTables
<1>6. TablesOK' <=> /\ \A t \in KnownTables' : TableOK(t, MaxKeys)
                    /\ \A t, u \in KnownTables' : OwnKeys(t, u)
  BY <1>1 DEF TablesOK, TableOK, RowShape, OneRowPerVersion, KeysWithinLimit, OwnKeys, MaxKeys
<1>7. TablesOK' BY <1>5, <1>6 DEF StoreInv, TablesOK
<1>8. OneRowPerKey'
  <2>1. RowShape(rows') /\ OwnKeys(rows', rows')
    BY <1>1 DEF StoreInv, TablesOK, TableOK
  <2>2. \A o \in Operations : rows'[o].status # "absent" => rows'[o].key # NoKey
    BY SetsAssumption DEF IndInv, RowsOK, KeysDrawn, TypeOK
  <2> QED BY <2>1, <2>2 DEF RowShape, OwnKeys, OneRowPerKey
<1> QED BY <1>7, <1>8

\* The platform keeps the present state: it is a past of itself.
LEMMA KeepStep ==
    ASSUME StoreInv, IndInv', KeepPoint
    PROVE  StoreInv'
<1>1. /\ points' = Append(points, Tables)
      /\ line' = line \cup {Len(points) + 1}
      /\ UNCHANGED <<rows, proof, alarm, up, rpc, gc, objects, astray>>
  BY DEF KeepPoint, sqlite, process
<1>2. /\ \A j \in line : j \in Nat /\ j <= Len(points) /\ points'[j] = points[j]
      /\ points'[Len(points) + 1] = Tables /\ Len(points) \in Nat
  <2>1. points \in Seq(Kept) /\ line \subseteq DOMAIN points
    BY DEF StoreInv, IndInv, TypeOK, Kept
  <2>2. DOMAIN points = 1..Len(points) /\ Len(points) \in Nat BY <2>1
  <2>3. \A j \in DOMAIN points : points'[j] = points[j]
    BY <1>1, PointsGrow DEF StoreInv, IndInv
  <2>4. points'[Len(points) + 1] = Tables BY <1>1, <2>1
  <2> QED BY <2>1, <2>2, <2>3, <2>4
<1>3. Tables.rows = rows BY DEF Tables
<1>4. \A i \in line' : i \in line \/ (i = Len(points) + 1 /\ points'[i].rows = rows)
  BY <1>1, <1>2, <1>3
<1>5. StagingOK' /\ AlarmArmed' /\ ObjectMatchesStatus'
  BY <1>1 DEF StoreInv, StagingOK, AlarmArmed, NextGc, ObjectMatchesStatus, FinalizedHasObject,
              ExpiredHasNoObject
<1>6. CollectorOK'
  <2>1. \A o \in gc.due : \A i \in line' : points'[i].rows[o].status # "finalized"
    <3> TAKE o \in gc.due
    <3>1. /\ rows[o].status # "finalized"
          /\ \A i \in line : points[i].rows[o].status # "finalized"
      BY DEF StoreInv, CollectorOK
    <3> QED BY <1>2, <1>4, <3>1
  <2> QED BY <1>1, <2>1 DEF StoreInv, CollectorOK
<1>7. FinalityIsKept'
  <2>1. FinalIn(rows, rows) BY DEF FinalIn
  <2>2. FinalityIsKept' <=> \A i \in line' :
          /\ FinalIn(points'[i].rows, rows)
          /\ \A j \in line' : j <= i => FinalIn(points'[j].rows, points'[i].rows)
          /\ \A o \in Operations :
               points'[i].rows[o].status = "finalized" => rows[o].key \in objects \cup astray
    BY <1>1 DEF FinalityIsKept, FinalIn
  <2>3. \A i \in line' : FinalIn(points'[i].rows, rows)
    BY <1>2, <1>4, <2>1 DEF StoreInv, FinalityIsKept
  <2>4. ASSUME NEW i \in line', NEW j \in line', j <= i
        PROVE  FinalIn(points'[j].rows, points'[i].rows)
    <3>1. CASE i \in line
      <4>1. j \in line BY <1>2, <1>4, <2>4, <3>1
      <4> QED BY <1>2, <2>4, <3>1, <4>1 DEF StoreInv, FinalityIsKept
    <3>2. CASE i \notin line BY <1>4, <2>3, <3>2
    <3> QED BY <3>1, <3>2
  <2>5. \A i \in line', o \in Operations :
          points'[i].rows[o].status = "finalized" => rows[o].key \in objects \cup astray
    BY <1>2, <1>4 DEF StoreInv, FinalityIsKept, ObjectMatchesStatus, FinalizedHasObject
  <2> QED BY <2>2, <2>3, <2>4, <2>5
<1> QED BY <1>5, <1>6, <1>7, RecoveryKeepsTables DEF StoreInv

\* A restore: along the present line the rows that come back are as true to R2,
\* which is not restored, as they were; across lines, but for the keys astray.
LEMMA RestoreStep ==
    ASSUME StoreInv, IndInv', NEW i \in DOMAIN points, Restore(i)
    PROVE  StoreInv'
<1>1. /\ rows' = points[i].rows /\ UNCHANGED objects
      /\ up' = FALSE /\ rpc' = Idle /\ gc' = Resting
      /\ points' = Append(points, Tables) \/ points' = points
  BY DEF Restore
<1>2. \A j \in DOMAIN points : points'[j] = points[j]
  BY <1>1, PointsGrow DEF StoreInv, IndInv
<1>3. StagingOK' /\ AlarmArmed' /\ CollectorOK'
  BY <1>1 DEF StagingOK, AlarmArmed, CollectorOK, Idle, Resting
<1>4. FinalityIsKept' <=> \A h \in line' :
        /\ FinalIn(points'[h].rows, rows')
        /\ \A j \in line' : j <= h => FinalIn(points'[j].rows, points'[h].rows)
        /\ \A o \in Operations :
             points'[h].rows[o].status = "finalized" => rows'[o].key \in objects' \cup astray'
  BY DEF FinalityIsKept, FinalIn
<1>5. CASE i \in line
  <2>1. /\ astray' = astray
        /\ \A j \in line' : j \in line /\ j <= i /\ points'[j] = points[j]
    BY <1>2, <1>5 DEF Restore, StoreInv, IndInv, TypeOK
  <2>2. \A o \in Operations :
          rows'[o].status # "absent" => rows[o].status # "absent" /\ rows[o].key = rows'[o].key
    BY <1>1, <1>5 DEF StoreInv, IndInv, LineIsPast, PastOf
  <2>3. ObjectMatchesStatus'
    BY <1>1, <1>5, <2>1, <2>2 DEF StoreInv, ObjectMatchesStatus, FinalizedHasObject,
          ExpiredHasNoObject, FinalityIsKept, FinalIn
  <2>4. \A j \in line', o \in Operations :
          points'[j].rows[o].status = "finalized" => rows'[o].key \in objects' \cup astray'
    <3> TAKE j \in line', o \in Operations
    <3> HAVE points'[j].rows[o].status = "finalized"
    <3>1. /\ points[j].rows[o].status = "finalized" /\ j \in line
          /\ FinalIn(points[j].rows, points[i].rows)
          /\ rows[o].key \in objects \cup astray
      BY <1>5, <2>1 DEF StoreInv, FinalityIsKept
    <3>2. rows'[o].status # "absent" BY <1>1, <3>1 DEF FinalIn
    <3> QED BY <1>1, <2>1, <2>2, <3>1, <3>2
  <2>5. FinalityIsKept'
    BY <1>1, <1>4, <1>5, <2>1, <2>4 DEF StoreInv, FinalityIsKept
  <2> QED BY <1>3, <2>3, <2>5, RecoveryKeepsTables DEF StoreInv, Restores
<1>6. CASE i \notin line
  <2>1. /\ astray' = astray \cup KeysApart(rows, rows')
        /\ \A j \in line' : j = i /\ points'[j].rows = rows'
    BY <1>1, <1>2, <1>6 DEF Restore
  <2>2. ASSUME NEW o \in Operations, rows'[o].status # "absent"
        PROVE  \/ rows'[o].key \in astray'
               \/ rows'[o].status = rows[o].status /\ rows'[o].key = rows[o].key
    <3>1. rows'[o].key # NoKey
      BY <2>2, SetsAssumption DEF IndInv, RowsOK, KeysDrawn, TypeOK
    <3> QED BY <2>1, <3>1, KeysApartAre
  <2>3. ObjectMatchesStatus'
    <3>1. \A o \in Operations :
            rows'[o].status = "finalized" => rows'[o].key \in objects' \cup astray'
      BY <1>1, <2>1, <2>2 DEF StoreInv, ObjectMatchesStatus, FinalizedHasObject
    <3>2. \A o \in Operations :
            rows'[o].status = "expired" => rows'[o].key \notin objects' \ astray'
      BY <1>1, <2>1, <2>2 DEF StoreInv, ObjectMatchesStatus, ExpiredHasNoObject
    <3> QED BY <3>1, <3>2 DEF ObjectMatchesStatus, FinalizedHasObject, ExpiredHasNoObject
  <2>4. FinalityIsKept'
    <3>1. FinalIn(rows', rows') BY DEF FinalIn
    <3>2. \A o \in Operations :
            rows'[o].status = "finalized" => rows'[o].key \in objects' \cup astray'
      BY <2>3 DEF ObjectMatchesStatus, FinalizedHasObject
    <3> QED BY <1>4, <2>1, <3>1, <3>2
  <2> QED BY <1>3, <2>3, <2>4, RecoveryKeepsTables DEF StoreInv, Restores
<1> QED BY <1>5, <1>6

-----------------------------------------------------------------------------
\* A vault that initialize() has just created satisfies the invariant.
LEMMA InitStoreInv == Init => StoreInv
<1> SUFFICES ASSUME Init PROVE StoreInv
    OBVIOUS
<1>1. IndInv BY InitIndInv
<1>2. /\ \A o \in Operations : rows[o] = Absent
      /\ DOMAIN points = {} /\ line = {} /\ MaxKeys \in Nat
  BY LimitsAssumption DEF Init, MaxKeys
<1>3. /\ Absent.status = "absent" /\ Absent.key = NoKey /\ Absent.claimed = 0
  BY DEF Absent
<1>4. RowShape(rows) BY <1>2, <1>3 DEF RowShape
<1>5. OneRowPerVersion(rows) /\ OwnKeys(rows, rows)
  BY <1>2, <1>3 DEF OneRowPerVersion, OwnKeys, Stored
<1>6. OneRowPerKey /\ FinalityIsKept /\ ObjectMatchesStatus
  BY <1>2, <1>3 DEF OneRowPerKey, FinalityIsKept, ObjectMatchesStatus, FinalizedHasObject,
                    ExpiredHasNoObject
<1>7. CollectorOK /\ StagingOK BY DEF Init, CollectorOK, StagingOK, Resting, Idle
<1>8. AlarmArmed BY DEF Init, AlarmArmed
<1>9. ContentKeyIds(rows) = {}
  BY <1>2, <1>3 DEF ContentKeyIds
<1>10. KeysWithinLimit(rows, MaxKeys)
  <2>1. IsFiniteSet({}) /\ Cardinality({}) = 0 BY FS_EmptySet
  <2> QED BY <1>2, <1>9, <2>1 DEF KeysWithinLimit
<1>11. KnownTables = {rows} BY <1>2 DEF KnownTables
<1>12. TablesOK BY <1>4, <1>5, <1>10, <1>11 DEF TablesOK, TableOK
<1> QED BY <1>1, <1>6, <1>7, <1>8, <1>12 DEF StoreInv

\* Every step of the vault preserves the invariant, and moves rows unless it
\* inserts one or belongs to point-in-time recovery.
LEMMA VaultStep ==
    ASSUME StoreInv, Next
    PROVE  /\ StoreInv'
           /\ \/ Steady \/ KeepPoint \/ Restores
              \/ \E o \in Operations, v \in Versions, k \in Keys : StageInsert(o, v, k)
<1>0. IndInv' BY NextIndInv DEF StoreInv
<1>1. CASE \/ Start \/ Crash \/ ScheduleNextGc \/ PutObject
           \/ \E o \in Operations, v \in Versions : StageReplay(o, v)
           \/ \E e \in ErasureCommands, expected \in SUBSET minted : DestroyRecord(e, expected)
           \/ \E e \in ErasureCommands, expected \in SUBSET minted : DestroyReplay(e, expected)
           \/ AlarmFinish
           \/ \E o \in Operations : AlarmBackoff(o)
  BY <1>0, <1>1, QuietSteps
<1>2. CASE KeepPoint \/ Restores BY <1>0, <1>2, KeepStep, RestoreStep DEF Restores
<1>3. CASE \E o \in Operations : Elapse(o) BY <1>0, <1>3, RowSteps
<1>4. CASE \E o \in Operations, v \in Versions, k \in Keys : StageInsert(o, v, k)
  BY <1>0, <1>4, InsertStep
<1>5. CASE MarkStaged
  <2>1. rpc.op \in Operations BY <1>5 DEF MarkStaged, StoreInv, IndInv, RpcOK
  <2> QED BY <1>0, <1>5, <2>1, RowSteps
<1>6. CASE \E o \in Operations, k \in Keys :
             ClaimForCommit(o, k) \/ ReleaseCommitClaim(o, k) \/ Finalize(o, k)
  BY <1>0, <1>6, RowSteps
<1>7. CASE Nullify BY <1>0, <1>7, NullifyStep
<1>8. CASE AlarmMark \/ \E o \in Operations : AlarmCollect(o)
  BY <1>0, <1>8, CollectorSteps
<1> QED BY <1>1, <1>2, <1>3, <1>4, <1>5, <1>6, <1>7, <1>8 DEF Next

\* The invariant is inductive.
LEMMA NextStoreInv == StoreInv /\ [Next]_vars => StoreInv'
<1> SUFFICES ASSUME StoreInv, [Next]_vars PROVE StoreInv'
    OBVIOUS
<1>1. CASE UNCHANGED vars
  <2>1. CollectorOK' /\ StagingOK' /\ AlarmArmed'
    BY <1>1 DEF StoreInv, CollectorOK, StagingOK, AlarmArmed, NextGc, vars
  <2>2. IndInv' BY NextIndInv DEF StoreInv
  <2> QED BY <1>1, <2>1, <2>2, Unmoved, SteadyStep DEF vars, pitr, ObjectStep, NothingPublished
<1>2. CASE Next BY <1>2, VaultStep
<1> QED BY <1>1, <1>2

\* The strengthened invariant holds in every state the vault can reach.
THEOREM StoreInvariant == Spec => []StoreInv
BY InitStoreInv, NextStoreInv, PTL DEF Spec

\* finalize and alarm(): finalized content has its ciphertext and expired content
\* has none, for any interleaving of the collector with the RPCs, across crashes
\* and restores that R2 does not take part in, but for the keys astray.
THEOREM ObjectsMatchRows == Spec => []ObjectMatchesStatus
<1>1. StoreInv => ObjectMatchesStatus BY DEF StoreInv
<1> QED BY <1>1, StoreInvariant, PTL

\* stage: two stored rows never share a version nor two operations a key.
THEOREM VersionsAndKeysAreExclusive == Spec => []VersionSlotExclusive
<1>1. StoreInv => VersionSlotExclusive
  BY RowsFit DEF StoreInv, OneRowPerVersion, OneRowPerKey, VersionSlotExclusive
<1> QED BY <1>1, StoreInvariant, PTL

\* scheduleNextGc: no wake-up of the collector is lost.
THEOREM NoLostWakeup == Spec => []AlarmArmed
<1>1. StoreInv => AlarmArmed BY DEF StoreInv
<1> QED BY <1>1, StoreInvariant, PTL

\* stage counts expired keys too: the registry can always take the whole history
\* of keys in one tombstone.
THEOREM AlwaysErasable == Spec => []GenerationIsErasable
<1>1. StoreInv => GenerationIsErasable
  BY RowsFit DEF KeysWithinLimit, GenerationIsErasable
<1> QED BY <1>1, StoreInvariant, PTL

-----------------------------------------------------------------------------
(* What a step may never do *)

\* claimForCommit is a fence: no step of the collector marks a claimed row or
\* deletes its object, also when a restore brings the claim back.
THEOREM FenceHolds == Spec => FenceKeepsContent
<1> DEFINE Fence == \A o \in Operations :
                      rows[o].claimed = 1 =>
                        /\ Restores \/ rows'[o].status # "expiring"
                        /\ rows[o].key \in objects => rows[o].key \in objects'
<1>1. ASSUME StoreInv, Next PROVE Fence
  <2> SUFFICES ASSUME NEW o \in Operations, rows[o].claimed = 1
               PROVE  /\ Restores \/ rows'[o].status # "expiring"
                      /\ rows[o].key \in objects => rows[o].key \in objects'
    OBVIOUS
  <2>1. Prepared(rows[o]) BY <1>1, RowsFit DEF RowShape
  <2>2. CASE Steady
    <3>1. rows'[o].status # "expiring"
      BY <2>1, <2>2 DEF Steady, Moves, Collectable, Prepared
    <3>2. \A p \in gc.due : p \in Operations /\ p # o
      BY <1>1, <2>1 DEF StoreInv, CollectorOK, Prepared, IndInv, TypeOK
    <3>3. \A p \in gc.due : rows[p].key # rows[o].key
      BY <1>1, <2>1, <3>2 DEF StoreInv, OneRowPerKey, Prepared
    <3> QED BY <2>2, <3>1, <3>3 DEF Steady, ObjectStep
  <2>3. CASE KeepPoint \/ Restores
    BY <2>1, <2>3 DEF KeepPoint, Restores, Restore, Prepared, sqlite
  <2>4. ASSUME NEW q \in Operations, NEW v \in Versions, NEW k \in Keys, StageInsert(q, v, k)
        PROVE  rows'[o].status # "expiring" /\ objects' = objects
    <3>1. rows[q].status = "absent" /\ objects' = objects
      BY <2>4 DEF StageInsert
    <3>2. q # o BY <2>1, <3>1 DEF Prepared
    <3>3. rows'[o] = rows[o] BY <1>1, <2>4, <3>2 DEF StageInsert, StoreInv, IndInv, TypeOK
    <3> QED BY <2>1, <3>1, <3>3 DEF Prepared
  <2> QED BY <1>1, <2>2, <2>3, <2>4, VaultStep
<1>2. StoreInv /\ [Next]_vars => [Fence]_vars BY <1>1
<1> QED BY <1>2, StoreInvariant, PTL DEF Spec, FenceKeepsContent

\* A retry of a command that expired or was destroyed stays terminal, and no key
\* id is forgotten, but by a restore.
THEOREM HistoryHolds == Spec => HistoryIsKept
<1> DEFINE Hist == \/ Restores
                   \/ \A o \in Operations :
                        rows[o].status # "absent" =>
                          /\ rows'[o].key = rows[o].key
                          /\ rows[o].status \in {"expired", "destroyed"}
                               => rows'[o].status = rows[o].status
<1>1. ASSUME StoreInv, Next PROVE Hist
  <2>1. CASE Steady BY <2>1 DEF Steady, Moves, Prepared, Collectable, Stored
  <2>2. CASE KeepPoint BY <2>2 DEF KeepPoint, sqlite
  <2>3. ASSUME NEW q \in Operations, NEW v \in Versions, NEW k \in Keys, StageInsert(q, v, k)
        PROVE  Hist
    BY <1>1, <2>3 DEF StageInsert, StoreInv, IndInv, TypeOK
  <2> QED BY <1>1, <2>1, <2>2, <2>3, VaultStep
<1>2. StoreInv /\ [Next]_vars => [Hist]_vars BY <1>1
<1> QED BY <1>2, StoreInvariant, PTL DEF Spec, HistoryIsKept

-----------------------------------------------------------------------------
(* The vault implements its promise *)

\* The keys of the finalized rows of a table.
Finals(t) == {t[o].key : o \in {p \in Operations : t[p].status = "finalized"}}

\* readAuthorized serves exactly the finalized content, and nothing once the
\* registry has decided: with the invariant it never meets a missing object, but
\* for the keys astray.
LEMMA ReadableIsFinal ==
    StoreInv => Readable = IF Erased THEN {} ELSE Finals(rows) \ astray
<1> SUFFICES ASSUME StoreInv PROVE Readable = IF Erased THEN {} ELSE Finals(rows) \ astray
    OBVIOUS
<1>1. ASSUME NEW k \in Keys \ astray
      PROVE  ReadCode(k, TRUE) = "ok" <=>
               /\ ~Erased
               /\ \E o \in Operations : rows[o].status = "finalized" /\ rows[o].key = k
  <2> DEFINE holders == {o \in Operations : Stored(rows[o]) /\ rows[o].key = k}
             h == CHOOSE o \in holders : TRUE
  <2>1. CASE Erased
    <3>1. ReadCode(k, TRUE) = "generation_destroyed" BY <2>1 DEF ReadCode
    <3> QED BY <2>1, <3>1
  <2>2. CASE ~Erased /\ holders = {}
    <3>1. ReadCode(k, TRUE) = "not_found" BY <2>2 DEF ReadCode
    <3>2. \A o \in Operations : ~(rows[o].status = "finalized" /\ rows[o].key = k)
      BY <2>2 DEF Stored
    <3> QED BY <3>1, <3>2
  <2>3. CASE ~Erased /\ holders # {}
    <3>1. h \in holders BY <2>3
    <3>2. ReadCode(k, TRUE) =
            CASE rows[h].status = "destroyed" -> "generation_destroyed"
              [] rows[h].status \in {"preparing", "staged", "expiring"} -> "not_finalized"
              [] rows[h].status = "finalized" /\ k \notin objects -> "integrity_failure"
              [] OTHER -> "ok"
      BY <2>3 DEF ReadCode
    <3>3. h \in Operations /\ Stored(rows[h]) /\ rows[h].key = k /\ rows[h] \in Row
      BY <3>1 DEF StoreInv, IndInv, TypeOK
    <3> HIDE DEF h, holders
    <3>4. rows[h].status \in {"preparing", "staged", "expiring", "finalized", "destroyed"}
      BY <3>3 DEF Stored, Row, ContentStatus
    <3>5. rows[h].status = "finalized" => k \in objects
      BY <1>1, <3>3 DEF StoreInv, ObjectMatchesStatus, FinalizedHasObject
    <3>6. ReadCode(k, TRUE) = "ok" <=> rows[h].status = "finalized"
      BY <3>2, <3>4, <3>5
    <3>7. \A o \in Operations : rows[o].status = "finalized" /\ rows[o].key = k => o = h
      BY <3>3 DEF StoreInv, OneRowPerKey
    <3> QED BY <2>3, <3>3, <3>6, <3>7
  <2> QED BY <2>1, <2>2, <2>3
<1>2. \A o \in Operations : rows[o].status = "finalized" => rows[o].key \in Keys
  BY DEF StoreInv, IndInv, RowsOK, KeysDrawn, TypeOK
<1>3. \A k : k \in Finals(rows) <=>
               \E o \in Operations : rows[o].status = "finalized" /\ rows[o].key = k
  BY DEF Finals
<1>4. \A k : k \in Readable <=> k \in Keys \ astray /\ ReadCode(k, TRUE) = "ok"
  BY DEF Readable
<1>5. CASE Erased
  <2>1. \A k : k \notin Readable BY <1>1, <1>4, <1>5
  <2> QED BY <1>5, <2>1
<1>6. CASE ~Erased
  <2>1. ASSUME NEW k PROVE k \in Readable <=> k \in Finals(rows) \ astray
    <3>1. CASE k \in Keys \ astray BY <1>1, <1>3, <1>4, <1>6, <3>1
    <3>2. CASE k \notin Keys \ astray BY <1>2, <1>3, <1>4, <3>2
    <3> QED BY <3>1, <3>2
  <2> QED BY <1>6, <2>1
<1> QED BY <1>5, <1>6

\* The content that a restore along the present line would bring back.
LEMMA SavedIsFinal ==
    SavedReadable = IF Erased THEN {} ELSE {Finals(points[i].rows) \ astray : i \in line}
BY DEF SavedReadable, Published, Finals

\* Only recovery touches what it returns to, and keys only ever go astray.
LEMMA OnlyRecovery ==
    ASSUME Next
    PROVE  /\ KeepPoint \/ Restores \/ UNCHANGED pitr
           /\ astray \subseteq astray'
<1>1. CASE KeepPoint \/ Restores BY <1>1 DEF KeepPoint, Restores, Restore
<1>2. CASE ~KeepPoint /\ ~Restores
  <2>1. UNCHANGED pitr
    BY <1>2 DEF Next, Start, Crash, Elapse, StageInsert, StageReplay, ScheduleNextGc,
          PutObject, MarkStaged, ClaimForCommit, ReleaseCommitClaim, Finalize, DestroyRecord,
          DestroyReplay, Nullify, AlarmMark, AlarmFinish, AlarmCollect, AlarmBackoff
  <2> QED BY <2>1 DEF pitr
<1> QED BY <1>1, <1>2

\* Two tables publish the same content, but for the keys they disagree on.
LEMMA FinalsApart ==
    ASSUME NEW t, NEW u, NEW k, k \in Finals(t), k # NoKey, k \notin KeysApart(t, u)
    PROVE  k \in Finals(u)
<1>1. PICK o \in Operations : t[o].status = "finalized" /\ t[o].key = k BY DEF Finals
<1>2. t[o].status = u[o].status /\ t[o].key = u[o].key BY <1>1, KeysApartAre
<1> QED BY <1>1, <1>2 DEF Finals

\* Every step of the vault is a step of the promise or changes nothing that a
\* reader can see: finalize publishes, the platform saves, a restore along the
\* present line rolls back, one to an abandoned line switches, and the registry's
\* decision erases.
LEMMA PromiseStep ==
    ASSUME StoreInv, StoreInv', [Next]_vars
    PROVE  [Promise!Next]_(Promise!vars)
<1>1. /\ Readable = IF Erased THEN {} ELSE Finals(rows) \ astray
      /\ SavedReadable = IF Erased THEN {} ELSE {Finals(points[i].rows) \ astray : i \in line}
  BY ReadableIsFinal, SavedIsFinal
<1>2. /\ Readable' = IF Erased' THEN {} ELSE Finals(rows') \ astray'
      /\ SavedReadable' = IF Erased' THEN {}
                          ELSE {Finals(points'[i].rows) \ astray' : i \in line'}
  <2>1. StoreInv' => (Readable = IF Erased THEN {} ELSE Finals(rows) \ astray)'
    BY ReadableIsFinal, PTL
  <2>2. (SavedReadable = IF Erased THEN {} ELSE {Finals(points[i].rows) \ astray : i \in line})'
    BY SavedIsFinal, PTL
  <2> QED BY <2>1, <2>2 DEF Finals
<1>3. CASE UNCHANGED vars
  <2>1. UNCHANGED <<Readable, SavedReadable, Erased, astray>>
    BY <1>1, <1>2, <1>3 DEF vars, Erased, Finals
  <2> QED BY <2>1 DEF Promise!vars
<1>4. ASSUME NEW e \in ErasureCommands, NEW expected \in SUBSET minted, DestroyRecord(e, expected)
      PROVE  Promise!Next
  <2>1. ~Erased /\ astray' = astray BY <1>4 DEF DestroyRecord, pitr
  <2>2. ContentKeyIds(rows) \subseteq Keys
    BY KeyIdsOfRows DEF StoreInv, IndInv, RowsOK, KeysDrawn, TypeOK
  <2>3. tombstone' \in Decision BY <1>4, <2>2 DEF DestroyRecord, Decision
  <2>4. Erased' BY <2>3, DecisionAssumption DEF Erased
  <2> QED BY <1>1, <1>2, <2>1, <2>4 DEF Promise!Next, Promise!Erase
<1>5. CASE tombstone' = tombstone /\ Erased /\ Next
  <2>1. Readable = {} /\ Readable' = {} /\ SavedReadable' = {} /\ (Erased' = Erased)
    BY <1>1, <1>2, <1>5 DEF Erased
  <2>2. astray \subseteq astray' BY <1>5, OnlyRecovery
  <2> QED BY <2>1, <2>2 DEF Promise!Next, Promise!Switch
<1>6. CASE tombstone' = tombstone /\ ~Erased /\ Next
  <2>0. /\ ~Erased /\ (Erased' = Erased)
        /\ Readable = Finals(rows) \ astray /\ Readable' = Finals(rows') \ astray'
        /\ SavedReadable = {Finals(points[i].rows) \ astray : i \in line}
        /\ SavedReadable' = {Finals(points'[i].rows) \ astray' : i \in line'}
    BY <1>1, <1>2, <1>6 DEF Erased
  <2>1. CASE KeepPoint
    <3>1. /\ rows' = rows /\ astray' = astray
          /\ points' = Append(points, Tables) /\ line' = line \cup {Len(points) + 1}
      BY <2>1 DEF KeepPoint, sqlite
    <3>2. /\ points \in Seq(Kept) /\ line \subseteq DOMAIN points
          /\ \A j \in DOMAIN points : points'[j] = points[j]
      BY <3>1, PointsGrow DEF StoreInv, IndInv, TypeOK, Kept
    <3>3. points'[Len(points) + 1].rows = rows
      BY <3>1, <3>2 DEF Tables
    <3>4. SavedReadable' = SavedReadable \cup {Readable}
      BY <2>0, <3>1, <3>2, <3>3
    <3> QED BY <2>0, <3>1, <3>4 DEF Promise!Next, Promise!Save
  <2>2. ASSUME NEW i \in DOMAIN points, Restore(i)
        PROVE  Promise!Next
    <3>1. /\ rows' = points[i].rows
          /\ points' = Append(points, Tables) \/ points' = points
      BY <2>2 DEF Restore
    <3>2. \A j \in DOMAIN points : points'[j] = points[j]
      BY <3>1, PointsGrow DEF StoreInv, IndInv
    <3>3. CASE i \in line
      <4>1. astray' = astray /\ \A j \in line' : j \in line /\ points'[j] = points[j]
        BY <2>2, <3>2, <3>3 DEF Restore, StoreInv, IndInv, TypeOK
      <4>2. Readable' \in SavedReadable BY <2>0, <3>1, <3>3, <4>1
      <4>3. SavedReadable' \subseteq SavedReadable BY <2>0, <4>1
      <4> QED BY <2>0, <4>1, <4>2, <4>3 DEF Promise!Next, Promise!Rollback
    <3>4. CASE i \notin line
      <4>1. /\ astray' = astray \cup KeysApart(rows, rows')
            /\ \A j \in line' : points'[j].rows = rows'
        BY <2>2, <3>1, <3>2, <3>4 DEF Restore
      <4>2. KeysApart(rows, rows') = KeysApart(rows', rows) BY DEF KeysApart
      <4>3. NoKey \notin Finals(rows) /\ NoKey \notin Finals(rows')
        BY SetsAssumption DEF Finals, StoreInv, IndInv, RowsOK, KeysDrawn, TypeOK
      <4>4. \A k : k \in Finals(rows') \ astray' <=> k \in (Finals(rows) \ astray) \ astray'
        BY <4>1, <4>2, <4>3, FinalsApart
      <4>5. Readable' = Readable \ astray' BY <2>0, <4>4
      <4>6. SavedReadable' \subseteq {Readable'} BY <2>0, <4>1
      <4>7. astray \subseteq astray' BY <4>1
      <4> QED BY <2>0, <4>5, <4>6, <4>7 DEF Promise!Next, Promise!Switch
    <3> QED BY <3>3, <3>4
  <2>3. ASSUME NEW o \in Operations, NEW v \in Versions, NEW k \in Keys, StageInsert(o, v, k)
        PROVE  UNCHANGED Promise!vars
    <3>1. UNCHANGED <<points, line, astray>> BY <2>3 DEF StageInsert, pitr
    <3>2. /\ rows[o].status # "finalized" /\ rows'[o].status # "finalized"
          /\ \A p \in Operations : p # o => rows'[p] = rows[p]
      BY <2>3 DEF StageInsert, StoreInv, IndInv, TypeOK
    <3>3. Finals(rows') = Finals(rows) BY <3>2 DEF Finals
    <3> QED BY <2>0, <3>1, <3>3 DEF Promise!vars
  <2>4. CASE Steady /\ ~KeepPoint /\ ~Restores
    <3>0. UNCHANGED <<points, line, astray>> BY <1>6, <2>4, OnlyRecovery DEF pitr
    <3>1. \A o \in Operations : /\ rows'[o].key = rows[o].key
                                /\ rows[o].status = "finalized" => rows'[o].status = "finalized"
      BY <1>6, <2>4 DEF Steady, Moves, Prepared, Collectable
    <3>2. CASE NothingPublished
      <4>2. Finals(rows') = Finals(rows) BY <3>1, <3>2 DEF Finals, NothingPublished
      <4> QED BY <2>0, <3>0, <4>2 DEF Promise!vars
    <3>3. ASSUME NEW o \in Operations, NEW k, Finalize(o, k)
          PROVE  Promise!Next \/ UNCHANGED Promise!vars
      <4>2. rows[o].key = k /\ Prepared(rows[o])
        BY <3>3 DEF Finalize, FinalizeCode, ClaimCode, Stored, Prepared
      <4>3. k \in Keys BY <4>2 DEF Prepared, StoreInv, IndInv, RowsOK, KeysDrawn, TypeOK
      <4>4. /\ rows'[o].status = "finalized" /\ rows'[o].key = k
            /\ \A p \in Operations : p # o => rows'[p] = rows[p]
        BY <3>1, <3>3, <4>2 DEF Finalize, StoreInv, IndInv, TypeOK, Row
      <4>5. Finals(rows') = Finals(rows) \cup {k}
        BY <4>2, <4>4 DEF Finals, Prepared
      <4>6. CASE k \in astray
        <5>1. Finals(rows') \ astray = Finals(rows) \ astray BY <4>5, <4>6
        <5> QED BY <2>0, <3>0, <5>1 DEF Promise!vars
      <4>7. CASE k \notin astray
        <5>1. Readable' = Readable \cup {k} BY <2>0, <3>0, <4>5, <4>7
        <5>2. SavedReadable' = SavedReadable BY <2>0, <3>0
        <5> QED BY <2>0, <3>0, <4>3, <4>7, <5>1, <5>2 DEF Promise!Next, Promise!Publish
      <4> QED BY <4>6, <4>7
    <3> QED BY <2>4, <3>2, <3>3 DEF Steady
  <2> QED BY <1>6, <2>1, <2>2, <2>3, <2>4, VaultStep DEF Restores
<1>7. ASSUME Next, \A e \in ErasureCommands, expected \in SUBSET minted : ~DestroyRecord(e, expected)
      PROVE  tombstone' = tombstone
  BY <1>7 DEF Next, Start, Crash, KeepPoint, Restores, Restore, Elapse, StageInsert, StageReplay,
        ScheduleNextGc, PutObject, MarkStaged, ClaimForCommit, ReleaseCommitClaim, Finalize,
        DestroyReplay, Nullify, AlarmMark, AlarmFinish, AlarmCollect, AlarmBackoff
<1> QED BY <1>3, <1>4, <1>5, <1>6, <1>7

\* MessageContentDO keeps what ContentPromise promises its readers: published
\* content stays readable until an erasure or a restore, a restore along the
\* present line brings back exactly the content of its moment, one to an abandoned
\* line spoils only the content the two lines disagree on, and nothing is readable
\* after the registry's decision.
THEOREM ImplementsPromise == Spec => KeepsPromise
<1>1. Init => Promise!Init
  <2> SUFFICES ASSUME Init PROVE Promise!Init
    OBVIOUS
  <2>1. StoreInv BY InitStoreInv
  <2>2. ~Erased /\ line = {} /\ astray = {} BY DEF Init, Erased
  <2>3. \A o \in Operations : rows[o].status = "absent"
    BY DEF Init, Absent
  <2>4. Finals(rows) = {} BY <2>3 DEF Finals
  <2>5. Readable = {} /\ SavedReadable = {}
    BY <2>1, <2>2, <2>4, ReadableIsFinal, SavedIsFinal
  <2> QED BY <2>2, <2>5 DEF Promise!Init
<1>2. StoreInv /\ StoreInv' /\ [Next]_vars => [Promise!Next]_(Promise!vars)
  BY PromiseStep
<1> QED BY <1>1, <1>2, StoreInvariant, PTL DEF Spec, KeepsPromise, Promise!Spec

=============================================================================
