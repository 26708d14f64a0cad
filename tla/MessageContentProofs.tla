------------------------ MODULE MessageContentProofs ------------------------
(***************************************************************************)
(* What the content vault guarantees for every set of operations, keys,    *)
(* versions and erasure commands and every limit, through crashes and      *)
(* point-in-time restores.                                                 *)
(***************************************************************************)
EXTENDS MessageContent, TLAPS

\* The key of a row was drawn.
KeysDrawn(t) == \A o \in Operations : t[o].status # "absent" => t[o].key \in minted

\* So it is in the tables and in whatever a restore returns to.
RowsOK == KeysDrawn(rows) /\ \A i \in DOMAIN points : KeysDrawn(points[i].rows)

\* The staging RPC in progress works on a row; nullification carries out the
\* decision that is durable in the registry.
RpcOK ==
    /\ rpc.at \in {"stage_arm", "put", "mark"} =>
         rpc.op \in Operations /\ rows[rpc.op].status # "absent"
    /\ rpc.at = "nullify" => Erased /\ rpc.decision = tombstone

\* One table knows every operation that another knows, under the same key.
PastOf(t, u) ==
    \A o \in Operations :
      t[o].status # "absent" => u[o].status # "absent" /\ u[o].key = t[o].key

\* The points of the present line are earlier states of the rows and of one
\* another: a restore to one of them forgets operations but never brings back
\* one the rows do not know.
LineIsPast ==
    \A i \in line :
      /\ PastOf(points[i].rows, rows)
      /\ \A j \in line : j <= i => PastOf(points[j].rows, points[i].rows)

\* TombstoneCoversKeys, row by row.
RowsCovered ==
    Erased => \A o \in Operations :
                rows[o].status # "absent" => rows[o].key \in tombstone.keys \cup astray

\* ProofMatchesTombstone, for everything a restore returns to.
PointProofs ==
    \A i \in DOMAIN points :
      points[i].proof # NoDecision =>
        points[i].proof = tombstone /\ \A o \in Operations : ~HasKey(points[i].rows[o])

IndInv ==
    /\ TypeOK
    /\ RowsOK
    /\ RpcOK
    /\ LineIsPast
    /\ RowsCovered
    /\ ProofMatchesTombstone
    /\ PointProofs

-----------------------------------------------------------------------------
\* contentKeyIds, the union of two tables in the code: bounding it bounds the
\* key of every row.
LEMMA KeyIdsOfRows ==
    ASSUME NEW t, NEW S
    PROVE  ContentKeyIds(t) \subseteq S <=>
             \A o \in Operations : t[o].status # "absent" => t[o].key \in S
BY DEF ContentKeyIds

\* Changing the status of one row.
LEMMA StatusUpdate ==
    ASSUME NEW r \in Row, NEW s \in ContentStatus
    PROVE  /\ [r EXCEPT !.status = s] \in Row
           /\ [r EXCEPT !.status = s].status = s
           /\ [r EXCEPT !.status = s].key = r.key
BY DEF Row

\* Destroying one row.
LEMMA DestroyedRow ==
    ASSUME NEW r \in Row
    PROVE  LET new == [r EXCEPT !.status = "destroyed", !.claimed = 0, !.expires = "null"]
           IN  new \in Row /\ new.key = r.key /\ new.status = "destroyed"
BY DEF Row, ContentStatus

\* A vault that initialize() has just created satisfies the invariant.
LEMMA InitIndInv == Init => IndInv
<1> SUFFICES ASSUME Init PROVE IndInv
    OBVIOUS
<1>1. Absent \in Row
    BY DEF Absent, Row, ContentStatus
<1>7. points \in Seq([rows : [Operations -> Row], proof : Decision \cup {NoDecision}])
    BY DEF Init
<1>8. rows \in [Operations -> Row] /\ rpc \in Rpc
    BY <1>1 DEF Init, Idle, Rpc
<1>2. TypeOK
    BY <1>7, <1>8 DEF Init, TypeOK, Resting
<1>3. /\ \A o \in Operations : rows[o].status = "absent"
      /\ DOMAIN points = {} /\ line = {}
    BY DEF Init, Absent
<1>4. RowsOK /\ LineIsPast
    BY <1>3 DEF RowsOK, KeysDrawn, LineIsPast
<1>5. RpcOK
    BY DEF Init, RpcOK, Idle
<1>6. RowsCovered /\ ProofMatchesTombstone /\ PointProofs
    BY <1>3 DEF Init, RowsCovered, ProofMatchesTombstone, PointProofs, Erased
<1> QED BY <1>2, <1>4, <1>5, <1>6 DEF IndInv

\* Steps that leave the tables, the points and the tombstone alone.
LEMMA TablesUnchanged ==
    ASSUME IndInv, TypeOK', RpcOK', minted \subseteq minted',
           UNCHANGED <<rows, proof, points, line, astray, tombstone>>
    PROVE  IndInv'
BY DEF IndInv, RowsOK, KeysDrawn, LineIsPast, PastOf, RowsCovered, ProofMatchesTombstone,
       PointProofs, Erased, HasKey

\* Steps that move rows between statuses without creating or forgetting one.
LEMMA StatusChange ==
    ASSUME IndInv, TypeOK', RpcOK',
           UNCHANGED <<proof, points, line, astray, minted, tombstone>>,
           \A o \in Operations :
             /\ rows'[o].key = rows[o].key
             /\ rows'[o].status = "absent" <=> rows[o].status = "absent"
             /\ HasKey(rows'[o]) => HasKey(rows[o])
    PROVE  IndInv'
<1>1. RowsOK' BY DEF IndInv, RowsOK, KeysDrawn
<1>2. LineIsPast' BY DEF IndInv, LineIsPast, PastOf
<1>3. RowsCovered' /\ ProofMatchesTombstone' /\ PointProofs'
  BY DEF IndInv, RowsCovered, ProofMatchesTombstone, PointProofs, Erased, HasKey
<1> QED BY <1>1, <1>2, <1>3 DEF IndInv

\* What the platform may keep.
Kept == [rows : [Operations -> Row], proof : Decision \cup {NoDecision}]

\* Points are only ever appended, and a new one is the present state.
LEMMA PointsGrow ==
    ASSUME TypeOK, points' = Append(points, Tables) \/ points' = points
    PROVE  /\ points' \in Seq(Kept)
           /\ \A j \in DOMAIN points : j \in DOMAIN points' /\ points'[j] = points[j]
           /\ \A j \in DOMAIN points' :
                j \in DOMAIN points \/ (j = Len(points) + 1 /\ points'[j] = Tables)
<1>1. points \in Seq(Kept) /\ Tables \in Kept BY DEF TypeOK, Kept, Tables
<1> HIDE DEF Kept
<1>2. CASE points' = points BY <1>1, <1>2
<1>3. CASE points' = Append(points, Tables)
  <2>1. points' \in Seq(Kept) /\ Len(points') = Len(points) + 1 BY <1>1, <1>3
  <2>2. /\ DOMAIN points = 1..Len(points) /\ DOMAIN points' = 1..Len(points')
        /\ Len(points) \in Nat
    BY <1>1, <2>1
  <2>3. \A j \in 1..(Len(points) + 1) :
          points'[j] = IF j <= Len(points) THEN points[j] ELSE Tables
    BY <1>1, <1>3, <2>2
  <2> QED BY <2>1, <2>2, <2>3
<1> QED BY <1>2, <1>3

\* What holds of the tables and of every point keeps holding of every point.
LEMMA PointsKeep ==
    ASSUME IndInv, minted' = minted, tombstone' = tombstone,
           points' = Append(points, Tables) \/ points' = points,
           \/ rows' = rows /\ proof' = proof
           \/ \E i \in DOMAIN points : rows' = points[i].rows /\ proof' = points[i].proof
    PROVE  RowsOK' /\ ProofMatchesTombstone' /\ PointProofs'
<1>1. \A j \in DOMAIN points' :
        \/ j \in DOMAIN points /\ points'[j] = points[j]
        \/ points'[j] = Tables
  BY PointsGrow DEF IndInv
<1>2. Tables.rows = rows /\ Tables.proof = proof BY DEF Tables
<1>3. RowsOK'
  <2>1. KeysDrawn(rows)' BY DEF IndInv, RowsOK, KeysDrawn
  <2>2. \A j \in DOMAIN points' : KeysDrawn(points[j].rows)'
    BY <1>1, <1>2 DEF IndInv, RowsOK, KeysDrawn
  <2> QED BY <2>1, <2>2 DEF RowsOK
<1>4. ProofMatchesTombstone' BY DEF IndInv, ProofMatchesTombstone, PointProofs, HasKey
<1>5. PointProofs' BY <1>1, <1>2 DEF IndInv, ProofMatchesTombstone, PointProofs, HasKey
<1> QED BY <1>3, <1>4, <1>5

\* The keys that a restore across lines sets astray.
LEMMA KeysApartAre ==
    ASSUME NEW t, NEW u, NEW o \in Operations,
           t[o].status # u[o].status \/ t[o].key # u[o].key
    PROVE  /\ t[o].key # NoKey => t[o].key \in KeysApart(t, u)
           /\ u[o].key # NoKey => u[o].key \in KeysApart(t, u)
BY DEF KeysApart

\* The constructor, eviction, the passing of time and the two halves of
\* point-in-time recovery: within its line a restored table knows nothing that
\* the rows did not, across lines what the two disagree on is set astray.
LEMMA LifeCycleSteps ==
    ASSUME IndInv, Start \/ Crash \/ KeepPoint \/ Restores
    PROVE  IndInv'
<1> USE DEF IndInv, pitr
<1>1. CASE Start
  <2>1. TypeOK' BY <1>1 DEF Start, TypeOK, NextGc, sqlite
  <2>2. RpcOK' BY <1>1 DEF Start, RpcOK, Erased, sqlite
  <2> QED BY <1>1, <2>1, <2>2, TablesUnchanged DEF Start, sqlite
<1>2. CASE Crash
  <2>1. TypeOK' BY <1>2 DEF Crash, TypeOK, Idle, Rpc, Resting, sqlite
  <2>2. RpcOK' BY <1>2 DEF Crash, RpcOK, Idle
  <2> QED BY <1>2, <2>1, <2>2, TablesUnchanged DEF Crash, sqlite
<1>3. CASE KeepPoint
  <2>0. /\ points' = Append(points, Tables)
        /\ line' = line \cup {Len(points) + 1}
        /\ UNCHANGED <<size, rows, proof, alarm, up, rpc, gc, objects, minted, tombstone, astray>>
    BY <1>3 DEF KeepPoint, sqlite, process
  <2>1. /\ points' \in Seq(Kept)
        /\ \A j \in DOMAIN points : j \in DOMAIN points' /\ points'[j] = points[j]
        /\ \A j \in DOMAIN points' :
             j \in DOMAIN points \/ (j = Len(points) + 1 /\ points'[j] = Tables)
    BY <2>0, PointsGrow
  <2>2. /\ Len(points) + 1 \in DOMAIN points' /\ points'[Len(points) + 1] = Tables
        /\ DOMAIN points = 1..Len(points) /\ Len(points) \in Nat
    BY <2>0 DEF TypeOK, Tables
  <2>3. TypeOK' BY <2>0, <2>1, <2>2 DEF TypeOK, Kept
  <2>4. RpcOK' BY <2>0 DEF RpcOK, Erased
  <2>5. \A j \in line : j \in Nat /\ j <= Len(points) /\ points'[j] = points[j]
    BY <2>1, <2>2 DEF TypeOK
  <2>6. LineIsPast'
    <3>1. \A t : PastOf(t, t) BY DEF PastOf
    <3>2. Tables.rows = rows BY DEF Tables
    <3>3. \A i \in line' : i \in line \/ (i = Len(points) + 1 /\ points'[i].rows = rows)
      BY <2>0, <2>2, <3>2
    <3>4. \A i \in line' : PastOf(points'[i].rows, rows)
      BY <2>5, <3>1, <3>3 DEF LineIsPast
    <3>5. ASSUME NEW i \in line', NEW j \in line', j <= i
          PROVE  PastOf(points'[j].rows, points'[i].rows)
      <4>1. CASE i \in line
        <5>1. j \in line BY <2>2, <2>5, <3>3, <3>5, <4>1
        <5> QED BY <2>5, <3>5, <4>1, <5>1 DEF LineIsPast
      <4>2. CASE i \notin line BY <3>3, <3>4, <4>2
      <4> QED BY <4>1, <4>2
    <3>6. LineIsPast' <=> \A i \in line' :
            /\ PastOf(points'[i].rows, rows')
            /\ \A j \in line' : j <= i => PastOf(points'[j].rows, points'[i].rows)
      BY DEF LineIsPast, PastOf
    <3> QED BY <2>0, <3>4, <3>5, <3>6
  <2>7. RowsCovered' BY <2>0 DEF RowsCovered, Erased
  <2> QED BY <2>0, <2>3, <2>4, <2>6, <2>7, PointsKeep
<1>4. ASSUME NEW i \in DOMAIN points, Restore(i)
      PROVE  IndInv'
  <2>0. /\ rows' = points[i].rows /\ proof' = points[i].proof
        /\ points' = Append(points, Tables) \/ points' = points
        /\ UNCHANGED <<size, objects, minted, tombstone>>
    BY <1>4 DEF Restore
  <2>1. /\ points' \in Seq(Kept)
        /\ \A j \in DOMAIN points : j \in DOMAIN points' /\ points'[j] = points[j]
    BY <2>0, PointsGrow
  <2>2. /\ points[i] \in Kept
        /\ rows' \in [Operations -> Row] /\ proof' \in Decision \cup {NoDecision}
    <3>1. points \in Seq(Kept) BY DEF TypeOK, Kept
    <3> HIDE DEF Kept
    <3>2. points[i] \in Kept BY <1>4, <3>1
    <3> QED BY <2>0, <3>2 DEF Kept
  <2>3. KeysApart(rows, points[i].rows) \subseteq Keys
    <3>1. \A o \in Operations : /\ rows[o] \in Row /\ points[i].rows[o] \in Row
                                /\ {rows[o].key, points[i].rows[o].key} \ {NoKey} \subseteq Keys
      BY <2>0, <2>2 DEF TypeOK, Row
    <3> QED BY <3>1 DEF KeysApart
  <2>4. TypeOK'
    <3>1. line' \subseteq DOMAIN points' /\ astray' \subseteq Keys
      BY <1>4, <2>1, <2>3 DEF Restore, TypeOK
    <3> QED BY <1>4, <2>0, <2>1, <2>2, <3>1 DEF Restore, TypeOK, Kept, Idle, Rpc, Resting
  <2>5. RpcOK' BY <1>4 DEF Restore, RpcOK, Idle
  <2>6. LineIsPast'
    <3>1. LineIsPast' <=> \A h \in line' :
            /\ PastOf(points'[h].rows, rows')
            /\ \A j \in line' : j <= h => PastOf(points'[j].rows, points'[h].rows)
      BY DEF LineIsPast, PastOf
    <3>2. CASE i \in line
      <4>1. \A j \in line' : j \in line /\ j <= i /\ points'[j] = points[j]
        BY <1>4, <2>1, <3>2 DEF Restore, TypeOK
      <4> QED BY <2>0, <3>1, <3>2, <4>1 DEF LineIsPast
    <3>3. CASE i \notin line
      <4>1. \A t : PastOf(t, t) BY DEF PastOf
      <4>2. \A j \in line' : j = i /\ points'[j] = points[i]
        BY <1>4, <2>1, <3>3 DEF Restore
      <4> QED BY <2>0, <3>1, <4>1, <4>2
    <3> QED BY <3>2, <3>3
  <2>7. RowsCovered'
    <3> SUFFICES ASSUME Erased, NEW o \in Operations, rows'[o].status # "absent"
                 PROVE  rows'[o].key \in tombstone.keys \cup astray'
      BY <2>0 DEF RowsCovered, Erased
    <3>1. CASE i \in line
      <4>1. astray' = astray BY <1>4, <3>1 DEF Restore
      <4> QED BY <2>0, <3>1, <4>1 DEF LineIsPast, PastOf, RowsCovered
    <3>2. CASE i \notin line
      <4>1. astray' = astray \cup KeysApart(rows, rows') BY <1>4, <2>0, <3>2 DEF Restore
      <4>2. rows'[o].key # NoKey
        BY <1>4, <2>0, SetsAssumption DEF RowsOK, KeysDrawn, TypeOK
      <4>3. CASE rows'[o].status = rows[o].status /\ rows'[o].key = rows[o].key
        BY <4>1, <4>3 DEF RowsCovered
      <4>4. CASE ~(rows'[o].status = rows[o].status /\ rows'[o].key = rows[o].key)
        <5>1. rows'[o].key \in KeysApart(rows, rows') BY <4>2, <4>4, KeysApartAre
        <5> QED BY <4>1, <5>1
      <4> QED BY <4>3, <4>4
    <3> QED BY <3>1, <3>2
  <2> QED BY <2>0, <2>4, <2>5, <2>6, <2>7, PointsKeep
<1> QED BY <1>1, <1>2, <1>3, <1>4 DEF Restores

\* stage: a new key enters the table only while the registry has no decision.
LEMMA StagingSteps ==
    ASSUME IndInv,
           \/ \E o \in Operations, v \in Versions, k \in Keys : StageInsert(o, v, k)
           \/ \E o \in Operations, v \in Versions : StageReplay(o, v)
           \/ ScheduleNextGc \/ PutObject \/ MarkStaged
    PROVE  IndInv'
<1> USE DEF IndInv, pitr
<1>1. ASSUME NEW o \in Operations, NEW v \in Versions, NEW k \in Keys, StageInsert(o, v, k)
      PROVE  IndInv'
  <2> DEFINE new == [status |-> "preparing", version |-> v, key |-> k,
                     claimed |-> 0, expires |-> "ahead"]
  <2>1. new \in Row /\ new.status = "preparing" /\ new.key = k
    BY DEF Row, ContentStatus
  <2>2. rows' = [rows EXCEPT ![o] = new]
    BY <1>1 DEF StageInsert
  <2> HIDE DEF new
  <2>3. /\ rows' \in [Operations -> Row]
        /\ rows'[o].status = "preparing" /\ rows'[o].key = k
        /\ \A p \in Operations : p # o => rows'[p] = rows[p]
    BY <2>1, <2>2 DEF TypeOK
  <2>4. /\ rpc' = [at |-> "stage_arm", op |-> o, decision |-> NoDecision]
        /\ rpc'.at = "stage_arm" /\ rpc'.op = o
    BY <1>1 DEF StageInsert, Idle
  <2>5. rpc' \in Rpc BY <2>4 DEF Rpc
  <2>6. TypeOK' BY <1>1, <2>3, <2>5 DEF StageInsert, TypeOK
  <2>7. RpcOK' BY <2>3, <2>4 DEF RpcOK
  <2>8. RowsOK' BY <1>1, <2>3 DEF StageInsert, RowsOK, KeysDrawn
  <2>9. LineIsPast'
    <3>1. /\ points' = points /\ line' = line
          /\ \A p \in Operations : rows[p].status # "absent" => rows'[p] = rows[p]
      BY <1>1, <2>3 DEF StageInsert
    <3>2. \A t : PastOf(t, rows) => PastOf(t, rows') BY <3>1 DEF PastOf
    <3>3. LineIsPast' <=> \A i \in line :
            /\ PastOf(points[i].rows, rows')
            /\ \A j \in line : j <= i => PastOf(points[j].rows, points[i].rows)
      BY <3>1 DEF LineIsPast, PastOf
    <3> QED BY <3>2, <3>3 DEF LineIsPast
  <2>10. RowsCovered' /\ ProofMatchesTombstone' /\ PointProofs'
    BY <1>1 DEF StageInsert, RowsCovered, ProofMatchesTombstone, PointProofs, Erased, HasKey
  <2> QED BY <2>6, <2>7, <2>8, <2>9, <2>10
<1>2. ASSUME NEW o \in Operations, NEW v \in Versions, StageReplay(o, v)
      PROVE  IndInv'
  <2>1. TypeOK' BY <1>2 DEF StageReplay, TypeOK, NextGc, Idle, Rpc, sqlite
  <2>2. RpcOK' BY <1>2 DEF StageReplay, RpcOK, Idle, sqlite
  <2> QED BY <1>2, <2>1, <2>2, TablesUnchanged DEF StageReplay, sqlite
<1>3. CASE ScheduleNextGc
  <2>1. TypeOK' BY <1>3 DEF ScheduleNextGc, TypeOK, NextGc, Idle, Rpc, sqlite
  <2>2. RpcOK' BY <1>3 DEF ScheduleNextGc, RpcOK, TypeOK, Rpc, Idle, sqlite
  <2> QED BY <1>3, <2>1, <2>2, TablesUnchanged DEF ScheduleNextGc, sqlite
<1>4. CASE PutObject
  <2>1. rows[rpc.op].key \in Keys BY <1>4 DEF PutObject, RpcOK, RowsOK, KeysDrawn, TypeOK
  <2>2. TypeOK' BY <1>4, <2>1 DEF PutObject, TypeOK, Idle, Rpc, sqlite
  <2>3. RpcOK' BY <1>4 DEF PutObject, RpcOK, TypeOK, Rpc, Idle, sqlite
  <2> QED BY <1>4, <2>2, <2>3, TablesUnchanged DEF PutObject, sqlite
<1>5. CASE MarkStaged
  <2>1. rpc.op \in Operations BY <1>5 DEF MarkStaged, RpcOK
  <2> DEFINE new == [rows[rpc.op] EXCEPT !.status = "staged"]
  <2>7. rows[rpc.op] \in Row /\ rows \in [Operations -> Row]
    BY <2>1 DEF TypeOK
  <2>8. new \in Row /\ new.status = "staged" /\ new.key = rows[rpc.op].key
    BY <2>7, StatusUpdate DEF ContentStatus
  <2>9. rows' = rows \/ (rows[rpc.op].status = "preparing" /\ rows' = [rows EXCEPT ![rpc.op] = new])
    BY <1>5 DEF MarkStaged
  <2> HIDE DEF new
  <2>2. rows' \in [Operations -> Row]
    BY <2>7, <2>8, <2>9
  <2>3. TypeOK' BY <1>5, <2>2 DEF MarkStaged, TypeOK, Idle, Rpc
  <2>4. RpcOK' BY <1>5 DEF MarkStaged, RpcOK, Idle
  <2>5. \A o \in Operations :
             /\ rows'[o].key = rows[o].key
             /\ rows'[o].status = rows[o].status
                \/ (rows'[o].status = "staged" /\ rows[o].status = "preparing")
    BY <2>1, <2>7, <2>8, <2>9
  <2>6. \A o \in Operations :
             /\ rows'[o].key = rows[o].key
             /\ rows'[o].status = "absent" <=> rows[o].status = "absent"
             /\ HasKey(rows'[o]) => HasKey(rows[o])
    BY <2>5 DEF HasKey
  <2> QED BY <1>5, <2>3, <2>4, <2>6, StatusChange DEF MarkStaged
<1> QED BY <1>1, <1>2, <1>3, <1>4, <1>5

\* A step that rewrites one row, keeping its key and creating no key material.
LEMMA OneRow ==
    ASSUME IndInv, TypeOK => (rows' \in [Operations -> Row] => TypeOK'), RpcOK',
           UNCHANGED <<proof, points, line, astray, minted, tombstone>>,
           NEW o \in Operations, NEW new \in Row,
           rows' = [rows EXCEPT ![o] = new],
           new.key = rows[o].key,
           new.status = "absent" <=> rows[o].status = "absent",
           HasKey(new) => HasKey(rows[o])
    PROVE  IndInv'
<1>1. rows \in [Operations -> Row] BY DEF IndInv, TypeOK
<1>2. rows' \in [Operations -> Row] BY <1>1
<1>3. rows'[o] = new /\ \A p \in Operations : p # o => rows'[p] = rows[p] BY <1>1
<1>4. TypeOK' BY <1>2 DEF IndInv
<1>5. \A p \in Operations :
             /\ rows'[p].key = rows[p].key
             /\ rows'[p].status = "absent" <=> rows[p].status = "absent"
             /\ HasKey(rows'[p]) => HasKey(rows[p])
    BY <1>3
<1> QED BY <1>4, <1>5, StatusChange

\* claimForCommit, releaseCommitClaim and finalize rewrite one row.
LEMMA FenceSteps ==
    ASSUME IndInv, NEW o \in Operations, NEW k,
           \/ Elapse(o) \/ ClaimForCommit(o, k)
           \/ ReleaseCommitClaim(o, k) \/ Finalize(o, k)
    PROVE  IndInv'
<1> USE DEF IndInv, pitr
<1>0. rows[o] \in Row /\ rows \in [Operations -> Row] BY DEF TypeOK
<1>1. CASE Elapse(o)
  <2> DEFINE new == [rows[o] EXCEPT !.expires = "passed"]
  <2>1. new \in Row /\ new.key = rows[o].key /\ new.status = rows[o].status
    BY <1>0 DEF Row
  <2>2. rows' = [rows EXCEPT ![o] = new] BY <1>1 DEF Elapse
  <2>3. HasKey(new) => HasKey(rows[o]) BY <2>1 DEF HasKey
  <2> HIDE DEF new
  <2>4. rows' \in [Operations -> Row] => TypeOK' BY <1>1 DEF Elapse, TypeOK, process
  <2>5. \A p \in Operations : rows'[p].status = rows[p].status BY <1>0, <2>1, <2>2
  <2>6. RpcOK' BY <1>1, <2>5 DEF Elapse, RpcOK, Erased, process
  <2> QED BY <1>1, <2>1, <2>2, <2>3, <2>4, <2>6, OneRow DEF Elapse
<1>2. CASE ClaimForCommit(o, k)
  <2> DEFINE new == [rows[o] EXCEPT !.claimed = 1]
  <2>1. new \in Row /\ new.key = rows[o].key /\ new.status = rows[o].status
    BY <1>0 DEF Row
  <2>2. rows' = [rows EXCEPT ![o] = new] BY <1>2 DEF ClaimForCommit
  <2>3. HasKey(new) => HasKey(rows[o]) BY <2>1 DEF HasKey
  <2> HIDE DEF new
  <2>4. /\ rpc' = [at |-> "arm", op |-> NoOperation, decision |-> NoDecision]
        /\ rpc'.at = "arm"
    BY <1>2 DEF ClaimForCommit, Idle
  <2>5. rpc' \in Rpc BY <2>4 DEF Rpc
  <2>6. rows' \in [Operations -> Row] => TypeOK' BY <1>2, <2>5 DEF ClaimForCommit, TypeOK
  <2>7. RpcOK' BY <2>4 DEF RpcOK
  <2> QED BY <1>2, <2>1, <2>2, <2>3, <2>6, <2>7, OneRow DEF ClaimForCommit
<1>3. CASE ReleaseCommitClaim(o, k)
  <2> DEFINE new == IF Prepared(rows[o]) THEN [rows[o] EXCEPT !.claimed = 0] ELSE rows[o]
  <2>1. new \in Row /\ new.key = rows[o].key /\ new.status = rows[o].status
    BY <1>0 DEF Row
  <2>2. rows' = [rows EXCEPT ![o] = new] BY <1>0, <1>3 DEF ReleaseCommitClaim
  <2>3. HasKey(new) => HasKey(rows[o]) BY <2>1 DEF HasKey
  <2> HIDE DEF new
  <2>4. /\ rpc' = [at |-> "arm", op |-> NoOperation, decision |-> NoDecision]
        /\ rpc'.at = "arm"
    BY <1>3 DEF ReleaseCommitClaim, Idle
  <2>5. rpc' \in Rpc BY <2>4 DEF Rpc
  <2>6. rows' \in [Operations -> Row] => TypeOK' BY <1>3, <2>5 DEF ReleaseCommitClaim, TypeOK
  <2>7. RpcOK' BY <2>4 DEF RpcOK
  <2> QED BY <1>3, <2>1, <2>2, <2>3, <2>6, <2>7, OneRow DEF ReleaseCommitClaim
<1>4. CASE Finalize(o, k)
  <2> DEFINE new == [rows[o] EXCEPT !.status = "finalized", !.claimed = 0, !.expires = "null"]
  <2>1. new \in Row /\ new.key = rows[o].key /\ new.status = "finalized"
    BY <1>0 DEF Row, ContentStatus
  <2>2. rows' = [rows EXCEPT ![o] = new] BY <1>4 DEF Finalize
  <2>3. HasKey(rows[o]) /\ rows[o].status # "absent" BY <1>4 DEF Finalize, Prepared, HasKey
  <2> HIDE DEF new
  <2>4. rows' \in [Operations -> Row] => TypeOK' BY <1>4 DEF Finalize, TypeOK, process
  <2>5. rpc'.at = "idle" BY <1>4 DEF Finalize, Ready, process
  <2>6. RpcOK' BY <2>5 DEF RpcOK
  <2> QED BY <1>4, <2>1, <2>2, <2>3, <2>4, <2>6, OneRow DEF Finalize
<1> QED BY <1>1, <1>2, <1>3, <1>4

\* destroyGeneration: the registry's create-only decision names every key id
\* at hand, and the transaction after it leaves no key material.
LEMMA DestructionSteps ==
    ASSUME IndInv,
           \/ \E e \in ErasureCommands, expected \in SUBSET minted : DestroyRecord(e, expected)
           \/ \E e \in ErasureCommands, expected \in SUBSET minted : DestroyReplay(e, expected)
           \/ Nullify
    PROVE  IndInv'
<1> USE DEF IndInv, pitr
<1>1. ASSUME NEW e \in ErasureCommands, NEW expected \in SUBSET minted, DestroyRecord(e, expected)
      PROVE  IndInv'
  <2> DEFINE decision == [command |-> e, keys |-> ContentKeyIds(rows)]
  <2>1. \A o \in Operations : rows[o].status # "absent" => rows[o].key \in ContentKeyIds(rows)
    BY DEF ContentKeyIds
  <2>2. ContentKeyIds(rows) \subseteq Keys
    BY KeyIdsOfRows DEF RowsOK, KeysDrawn, TypeOK
  <2>3. decision \in Decision /\ decision.keys = ContentKeyIds(rows)
    BY <2>2 DEF Decision
  <2>4. /\ tombstone' = decision
        /\ rpc' \in {Idle, [Idle EXCEPT !.at = "nullify", !.decision = decision]}
        /\ tombstone = NoDecision
        /\ UNCHANGED <<rows, proof, alarm, size, points, line, astray, up, gc, objects, minted>>
    BY <1>1 DEF DestroyRecord, Erased, sqlite
  <2> HIDE DEF decision
  <2>5. /\ rpc' = Idle \/ rpc' = [at |-> "nullify", op |-> NoOperation, decision |-> decision]
    BY <2>4 DEF Idle
  <2>6. rpc' \in Rpc BY <2>3, <2>5 DEF Rpc, Idle
  <2>7. tombstone' # NoDecision BY <2>3, <2>4, DecisionAssumption
  <2>8. TypeOK' BY <2>3, <2>4, <2>6 DEF TypeOK
  <2>9. RpcOK' BY <2>4, <2>5, <2>7 DEF RpcOK, Erased, Idle
  <2>10. RowsOK' /\ LineIsPast' BY <2>4 DEF RowsOK, KeysDrawn, LineIsPast, PastOf
  <2>11. RowsCovered' BY <2>1, <2>3, <2>4 DEF RowsCovered
  <2>12. proof = NoDecision /\ \A i \in DOMAIN points : points[i].proof = NoDecision
    BY <2>4 DEF ProofMatchesTombstone, PointProofs
  <2>13. ProofMatchesTombstone' /\ PointProofs'
    BY <2>4, <2>12 DEF ProofMatchesTombstone, PointProofs
  <2> QED BY <2>8, <2>9, <2>10, <2>11, <2>13
<1>2. ASSUME NEW e \in ErasureCommands, NEW expected \in SUBSET minted, DestroyReplay(e, expected)
      PROVE  IndInv'
  <2>1. /\ rpc' = [at |-> "nullify", op |-> NoOperation, decision |-> tombstone]
        /\ rpc'.at = "nullify" /\ rpc'.decision = tombstone
    BY <1>2 DEF DestroyReplay, Idle
  <2>2. rpc' \in Rpc BY <2>1 DEF Rpc, TypeOK
  <2>3. TypeOK' BY <1>2, <2>2 DEF DestroyReplay, TypeOK, sqlite
  <2>4. RpcOK' BY <1>2, <2>1 DEF DestroyReplay, RpcOK, Erased
  <2> QED BY <1>2, <2>3, <2>4, TablesUnchanged DEF DestroyReplay, sqlite
<1>3. CASE Nullify
  <2> DEFINE gone(o) == IF Stored(rows[o])
                        THEN [rows[o] EXCEPT !.status = "destroyed",
                                             !.claimed = 0, !.expires = "null"]
                        ELSE rows[o]
  <2>1. \A o \in Operations :
          /\ rows[o] \in Row
          /\ gone(o) \in Row
          /\ gone(o).key = rows[o].key
          /\ gone(o).status = IF Stored(rows[o]) THEN "destroyed" ELSE rows[o].status
    <3> TAKE o \in Operations
    <3>1. rows[o] \in Row BY DEF TypeOK
    <3>2. CASE Stored(rows[o]) BY <3>1, <3>2, DestroyedRow
    <3>3. CASE ~Stored(rows[o]) BY <3>1, <3>3
    <3> QED BY <3>2, <3>3
  <2> HIDE DEF gone
  <2>2. /\ Erased /\ rpc.decision = tombstone
        /\ tombstone \in Decision
    BY <1>3 DEF Nullify, RpcOK, TypeOK, Erased
  <2>3. rpc' = Idle /\ rpc'.at = "idle" /\ rpc' \in Rpc BY <1>3 DEF Nullify, Idle, Rpc
  <2>4. RpcOK' BY <2>3 DEF RpcOK
  <2>5. CASE UNCHANGED sqlite
    <3>1. TypeOK' BY <1>3, <2>3, <2>5 DEF Nullify, TypeOK, sqlite
    <3> QED BY <1>3, <2>4, <2>5, <3>1, TablesUnchanged DEF Nullify, sqlite
  <2>6. CASE /\ rows' = [o \in Operations |-> gone(o)]
             /\ proof' = rpc.decision
    <3>1. rows' \in [Operations -> Row] BY <2>1, <2>6
    <3>2. proof' = tombstone /\ UNCHANGED <<alarm, pitr, up, gc, objects, minted, tombstone>>
      BY <1>3, <2>2, <2>6 DEF Nullify
    <3>3. TypeOK' BY <2>2, <2>3, <3>1, <3>2 DEF TypeOK
    <3>4. \A o \in Operations :
            /\ rows'[o].key = rows[o].key
            /\ rows'[o].status = "absent" <=> rows[o].status = "absent"
            /\ ~HasKey(rows'[o])
      BY <2>1, <2>6 DEF Stored, HasKey, Row, ContentStatus
    <3>5. RowsOK' /\ LineIsPast' BY <3>2, <3>4 DEF RowsOK, KeysDrawn, LineIsPast, PastOf
    <3>6. RowsCovered' BY <3>2, <3>4 DEF RowsCovered, Erased
    <3>7. ProofMatchesTombstone' BY <3>2, <3>4 DEF ProofMatchesTombstone
    <3>8. PointProofs' BY <3>2 DEF PointProofs, HasKey
    <3> QED BY <2>4, <3>3, <3>5, <3>6, <3>7, <3>8
  <2> QED BY <1>3, <2>5, <2>6 DEF Nullify, gone
<1> QED BY <1>1, <1>2, <1>3

\* alarm(): marking, collecting and backing off move rows, keep their key ids.
LEMMA AlarmSteps ==
    ASSUME IndInv,
           \/ AlarmMark \/ AlarmFinish
           \/ \E o \in Operations : AlarmCollect(o)
           \/ \E o \in Operations : AlarmBackoff(o)
    PROVE  IndInv'
<1> USE DEF IndInv, pitr
<1>0. rows \in [Operations -> Row] BY DEF TypeOK
<1>1. CASE AlarmMark
  <2>1. PICK batch \in SUBSET DueRows :
          /\ gc' = [running |-> TRUE, due |-> batch]
          /\ rows' = [o \in Operations |->
                        IF o \in batch THEN [rows[o] EXCEPT !.status = "expiring"]
                                       ELSE rows[o]]
    BY <1>1 DEF AlarmMark
  <2>2. \A o \in Operations : o \in batch => HasKey(rows[o])
    BY DEF DueRows, Collectable, HasKey
  <2>3. \A o \in Operations :
          /\ [rows[o] EXCEPT !.status = "expiring"] \in Row
          /\ [rows[o] EXCEPT !.status = "expiring"].key = rows[o].key
          /\ [rows[o] EXCEPT !.status = "expiring"].status = "expiring"
    BY <1>0, StatusUpdate DEF ContentStatus
  <2>4. rows' \in [Operations -> Row] BY <1>0, <2>1, <2>3
  <2>5. \A o \in Operations :
          /\ rows'[o].key = rows[o].key
          /\ rows'[o].status = rows[o].status
             \/ (o \in batch /\ rows'[o].status = "expiring")
    BY <2>1, <2>3
  <2>6. \A o \in Operations :
          /\ rows'[o].key = rows[o].key
          /\ rows'[o].status = "absent" <=> rows[o].status = "absent"
          /\ HasKey(rows'[o]) => HasKey(rows[o])
    BY <2>2, <2>5 DEF HasKey
  <2>7. gc' \in [running : BOOLEAN, due : SUBSET Operations]
    BY <2>1 DEF DueRows
  <2>8. TypeOK' BY <1>1, <2>4, <2>7 DEF AlarmMark, TypeOK
  <2>9. RpcOK' BY <1>1 DEF AlarmMark, Ready, RpcOK
  <2> QED BY <1>1, <2>6, <2>8, <2>9, StatusChange DEF AlarmMark
<1>2. CASE AlarmFinish
  <2>1. TypeOK' BY <1>2 DEF AlarmFinish, TypeOK, NextGc, Resting, sqlite
  <2>2. RpcOK' BY <1>2 DEF AlarmFinish, Ready, RpcOK
  <2> QED BY <1>2, <2>1, <2>2, TablesUnchanged DEF AlarmFinish, sqlite
<1>3. ASSUME NEW o \in Operations, AlarmCollect(o)
      PROVE  IndInv'
  <2> DEFINE new == IF rows[o].status = "expiring"
                    THEN [rows[o] EXCEPT !.status = "expired", !.expires = "null"]
                    ELSE rows[o]
  <2>1. /\ new \in Row /\ new.key = rows[o].key
        /\ new.status = IF rows[o].status = "expiring" THEN "expired" ELSE rows[o].status
    BY <1>0 DEF Row, ContentStatus
  <2>2. rows' = [rows EXCEPT ![o] = new] BY <1>0, <1>3 DEF AlarmCollect
  <2> HIDE DEF new
  <2>3. HasKey(new) => HasKey(rows[o]) BY <2>1 DEF HasKey
  <2>4. new.status = "absent" <=> rows[o].status = "absent" BY <2>1
  <2>5. gc' \in [running : BOOLEAN, due : SUBSET Operations]
    BY <1>3 DEF AlarmCollect, TypeOK
  <2>6. rows' \in [Operations -> Row] => TypeOK' BY <1>3, <2>5 DEF AlarmCollect, TypeOK
  <2>7. RpcOK' BY <1>3 DEF AlarmCollect, Ready, RpcOK
  <2> QED BY <1>3, <2>1, <2>2, <2>3, <2>4, <2>6, <2>7, OneRow DEF AlarmCollect
<1>4. ASSUME NEW o \in Operations, AlarmBackoff(o)
      PROVE  IndInv'
  <2>1. TypeOK' BY <1>4 DEF AlarmBackoff, TypeOK, Resting, sqlite
  <2>2. RpcOK' BY <1>4 DEF AlarmBackoff, Ready, RpcOK
  <2> QED BY <1>4, <2>1, <2>2, TablesUnchanged DEF AlarmBackoff, sqlite
<1> QED BY <1>1, <1>2, <1>3, <1>4

-----------------------------------------------------------------------------
\* Every step of the vault preserves the invariant.
LEMMA NextIndInv == IndInv /\ [Next]_vars => IndInv'
<1> SUFFICES ASSUME IndInv, [Next]_vars PROVE IndInv'
    OBVIOUS
<1>1. CASE UNCHANGED vars
  <2>1. TypeOK' BY <1>1 DEF IndInv, TypeOK, vars
  <2>2. RpcOK' BY <1>1 DEF IndInv, RpcOK, Erased, vars
  <2> QED BY <1>1, <2>1, <2>2, TablesUnchanged DEF vars
<1>2. CASE Next
  <2>1. CASE Start \/ Crash \/ KeepPoint \/ Restores
    BY <2>1, LifeCycleSteps
  <2>2. CASE \E o \in Operations : Elapse(o)
    BY <2>2, FenceSteps
  <2>3. CASE \/ \E o \in Operations, v \in Versions, k \in Keys : StageInsert(o, v, k)
             \/ \E o \in Operations, v \in Versions : StageReplay(o, v)
             \/ ScheduleNextGc \/ PutObject \/ MarkStaged
    BY <2>3, StagingSteps
  <2>4. CASE \E o \in Operations, k \in Keys :
               ClaimForCommit(o, k) \/ ReleaseCommitClaim(o, k) \/ Finalize(o, k)
    BY <2>4, FenceSteps
  <2>5. CASE \/ \E e \in ErasureCommands, expected \in SUBSET minted : DestroyRecord(e, expected)
             \/ \E e \in ErasureCommands, expected \in SUBSET minted : DestroyReplay(e, expected)
             \/ Nullify
    BY <2>5, DestructionSteps
  <2>6. CASE \/ AlarmMark \/ AlarmFinish
             \/ \E o \in Operations : AlarmCollect(o)
             \/ \E o \in Operations : AlarmBackoff(o)
    BY <2>6, AlarmSteps
  <2> QED BY <1>2, <2>1, <2>2, <2>3, <2>4, <2>5, <2>6 DEF Next
<1> QED BY <1>1, <1>2

\* The inductive invariant holds in every state the vault can reach, restored to
\* any point any number of times: the tombstone covers the rows but for the keys
\* that a restore across lines set astray, and every point of the present line
\* is a past of the rows.
THEOREM InductiveInvariant == Spec => []IndInv
BY InitIndInv, NextIndInv, PTL DEF Spec

\* Type correctness of the vault.
THEOREM TypeCorrect == Spec => []TypeOK
<1>1. IndInv => TypeOK BY DEF IndInv
<1> QED BY <1>1, InductiveInvariant, PTL

\* destroyGeneration: the tombstone covers every key id that the object holds, or
\* that a restore along the present line can bring back, but for the keys whose
\* row a restore across lines took astray.
THEOREM ErasureCoversEveryKey == Spec => []TombstoneCoversKeys
<1>1. IndInv => TombstoneCoversKeys
  <2> SUFFICES ASSUME IndInv, Erased
               PROVE  /\ ContentKeyIds(rows) \subseteq tombstone.keys \cup astray
                      /\ \A i \in line :
                           ContentKeyIds(points[i].rows) \subseteq tombstone.keys \cup astray
    BY DEF TombstoneCoversKeys
  <2>1. ContentKeyIds(rows) \subseteq tombstone.keys \cup astray
    BY KeyIdsOfRows DEF IndInv, RowsCovered
  <2>2. ASSUME NEW i \in line
        PROVE  ContentKeyIds(points[i].rows) \subseteq tombstone.keys \cup astray
    <3>1. \A o \in Operations : points[i].rows[o].status # "absent" =>
                                points[i].rows[o].key \in tombstone.keys \cup astray
      BY <2>2 DEF IndInv, RowsCovered, LineIsPast, PastOf
    <3> QED BY <3>1, KeyIdsOfRows
  <2> QED BY <2>1, <2>2
<1> QED BY <1>1, InductiveInvariant, PTL

\* destroyGeneration: a local proof is backed by the registry's decision and no
\* key material is left beside it, whatever crash or restore came in between.
THEOREM ProofIsBacked == Spec => []ProofMatchesTombstone
<1>1. IndInv => ProofMatchesTombstone BY DEF IndInv
<1> QED BY <1>1, InductiveInvariant, PTL
=============================================================================
