--------------------------- MODULE MessageContent ---------------------------
(***************************************************************************)
(* The content vault of one Message: one MessageContentDO instance (its    *)
(* SQLite tables, its alarm and its single exclusive RPC), the R2 bucket   *)
(* that holds the ciphertext, and the create-only tombstone the erasure    *)
(* registry keeps for the generation.  An instance serves exactly one      *)
(* generation: validScope requires generationId = messageId = ctx.id.name. *)
(*                                                                         *)
(* Every RPC runs inside blockConcurrencyWhile, so no other handler of the *)
(* instance runs between its awaits; only a crash can separate them.  The  *)
(* alarm handler is not exclusive: RPCs run while it awaits R2.            *)
(*                                                                         *)
(* A request that the code refuses (unavailable registry, wrong scope,     *)
(* conflicting replay ...) changes nothing and is therefore no step here;  *)
(* the refusal codes a caller branches on are the operators ClaimCode,     *)
(* FinalizeCode and ReadCode.                                              *)
(***************************************************************************)
EXTENDS Naturals, Sequences, FiniteSets

CONSTANTS
    Operations,       \* command ids that stage content (operation_id)
    Keys,             \* content key ids crypto.randomUUID may return
    Versions,         \* version numbers a command may stage
    ErasureCommands,  \* command ids that may destroy the generation
    NoKey, NoOperation, NoDecision,
    GcBatch,          \* rows one alarm handles (LIMIT 50)
    Sizes             \* the vaults that are considered

ASSUME SetsAssumption ==
    /\ NoKey \notin Keys
    /\ NoOperation \notin Operations
    /\ Versions \subseteq Nat \ {0}

ASSUME LimitsAssumption ==
    /\ GcBatch \in Nat \ {0}
    /\ Sizes \subseteq [stages    : SUBSET (Operations \X Versions), \* the content its commands stage
                       keys      : SUBSET Keys, \* the keys it draws
                       erasers   : SUBSET ErasureCommands, \* and who may destroy it
                       maxKeys   : Nat,   \* historical key ids per generation (1 000 in the code)
                       maxPoints : Nat]   \* points in time the platform keeps (30 days of them)

VARIABLES
    size,       \* which of Sizes this vault has
    rows,       \* content_versions and, as status "expired", expired_content_history
    proof,      \* the destruction_proofs row of the generation
    alarm,      \* is an alarm armed in the object's storage
    points,     \* the states of the tables a PITR can return to, as they were kept
    line,       \* which of them the present tables descend from
    up,         \* is the object instantiated
    rpc,        \* the rest of the exclusive RPC in progress
    gc,         \* the alarm handler in progress: its in-memory "due" rows
    objects,    \* keys whose ciphertext object exists in CONTENT_BUCKET
    minted,     \* content key ids ever drawn
    tombstone,  \* the registry's decision on the generation
    astray      \* history: the keys whose row a restore took off its line

sqlite == <<rows, proof>>
process == <<up, rpc, gc>>
pitr == <<size, points, line, astray>>
vars == <<size, rows, proof, alarm, points, line, up, rpc, gc, objects, minted, tombstone, astray>>

ContentStatus ==
    {"absent", "preparing", "staged", "expiring", "finalized", "expired", "destroyed"}

Row == [status  : ContentStatus,
        version : Versions \cup {0},
        key     : Keys \cup {NoKey},
        claimed : {0, 1},                      \* commit_claimed
        expires : {"null", "ahead", "passed"}] \* expires_at_ms against the clock

Absent == [status |-> "absent", version |-> 0, key |-> NoKey,
           claimed |-> 0, expires |-> "null"]

\* What a tombstone and a destruction proof both record.
Decision == [command : ErasureCommands, keys : SUBSET Keys]

ASSUME DecisionAssumption == NoDecision \notin Decision

Idle == [at |-> "idle", op |-> NoOperation, decision |-> NoDecision]

Rpc == [at : {"idle", "arm", "stage_arm", "put", "mark", "nullify"},
        op : Operations \cup {NoOperation},
        decision : Decision \cup {NoDecision}]

Resting == [running |-> FALSE, due |-> {}]

-----------------------------------------------------------------------------
(* Lookups on the tables *)

\* Rows of the table content_versions (an expired row has left it).
Stored(r) == r.status \notin {"absent", "expired"}

\* The key still exists: the CHECK constraint ties key_material to status.
HasKey(r) == r.status \in {"preparing", "staged", "expiring", "finalized"}

Prepared(r) == r.status \in {"preparing", "staged"}

\* What the alarm and scheduleNextGc select, whatever the time.
Collectable(r) == r.status \in {"preparing", "staged", "expiring"} /\ r.claimed = 0

\* content_key_id of the rows and of the expired history.
ContentKeyIds(t) == {t[o].key : o \in {p \in Operations : t[p].status # "absent"}}

\* scheduleNextGc arms the alarm exactly when there is something to collect.
NextGc(t) == \E o \in Operations : Collectable(t[o])

\* Variant: the version slot of a row still being prepared counts as free.
PreparingSlotFree(t, v) ==
    {o \in Operations : t[o].status \in {"staged", "expiring", "finalized", "destroyed"}
                        /\ t[o].version = v}

ContentByVersion(t, v) == {o \in Operations : Stored(t[o]) /\ t[o].version = v}

Erased == tombstone # NoDecision

MaxKeys == size.maxKeys
MaxPoints == size.maxPoints

-----------------------------------------------------------------------------
(* Answers of the RPCs that a caller branches on.  "available" says whether *)
(* the registry (and R2, where it is read) answered.                        *)

ClaimCode(o, k, available) ==
    CASE ~available                                  -> "storage_unavailable"
      [] available /\ Erased                         -> "generation_destroyed"
      [] available /\ ~Erased /\ ~Stored(rows[o])    -> "not_found"
      [] available /\ ~Erased /\ Stored(rows[o]) ->
           CASE rows[o].key # k                 -> "idempotency_conflict"
             [] rows[o].key = k /\ rows[o].status = "destroyed" -> "generation_destroyed"
             [] rows[o].key = k /\ rows[o].status = "expiring"  -> "preparation_expired"
             [] OTHER                           -> "ok"

FinalizeCode(o, k, available) ==
    LET code == ClaimCode(o, k, available)
    IN  CASE code = "not_found" /\ proof # NoDecision -> "generation_destroyed"
          [] code = "ok" /\ Prepared(rows[o]) /\ k \notin objects -> "not_ready"
          [] OTHER -> code

\* Variant: readAuthorized trusts its tables and skips the registry lookup.
ReadLocally(k, available) ==
    LET holders == {o \in Operations : Stored(rows[o]) /\ rows[o].key = k}
    IN  CASE ~available     -> "storage_unavailable"
          [] available /\ holders = {} -> "not_found"
          [] OTHER ->
               LET row == rows[CHOOSE o \in holders : TRUE]
               IN  CASE row.status = "destroyed" -> "generation_destroyed"
                     [] row.status \in {"preparing", "staged", "expiring"} -> "not_finalized"
                     [] OTHER -> "ok"

ReadCode(k, available) ==
    LET holders == {o \in Operations : Stored(rows[o]) /\ rows[o].key = k}
    IN  CASE ~available                      -> "storage_unavailable"
          [] available /\ Erased             -> "generation_destroyed"
          [] available /\ ~Erased /\ holders = {} -> "not_found"
          [] OTHER ->
               LET row == rows[CHOOSE o \in holders : TRUE]
               IN  CASE row.status = "destroyed" -> "generation_destroyed"
                     [] row.status \in {"preparing", "staged", "expiring"} -> "not_finalized"
                     [] row.status = "finalized" /\ k \notin objects -> "integrity_failure"
                     [] OTHER -> "ok"

-----------------------------------------------------------------------------
(* The object's life cycle *)

Init ==
    /\ size \in Sizes
    /\ rows = [o \in Operations |-> Absent]
    /\ proof = NoDecision
    /\ alarm = FALSE
    /\ points = <<>> /\ line = {} /\ astray = {}
    /\ up = FALSE
    /\ rpc = Idle
    /\ gc = Resting
    /\ objects = {}
    /\ minted = {}
    /\ tombstone = NoDecision

\* constructor: initialize, then scheduleNextGc, before any event.
Start ==
    /\ ~up
    /\ up' = TRUE
    /\ alarm' = NextGc(rows)
    /\ UNCHANGED <<sqlite, pitr, rpc, gc, objects, minted, tombstone>>

\* The instance is evicted or dies; an alarm whose handler did not return is
\* delivered again.
Crash ==
    /\ up
    /\ up' = FALSE
    /\ rpc' = Idle
    /\ gc' = Resting
    /\ alarm' = (alarm \/ gc.running)
    /\ UNCHANGED <<sqlite, pitr, objects, minted, tombstone>>

\* The platform keeps the state of the tables at some moment ...
Tables == [rows |-> rows, proof |-> proof]

KeepPoint ==
    /\ Len(points) < MaxPoints
    /\ points' = Append(points, Tables)
    /\ line' = line \cup {Len(points) + 1}
    /\ UNCHANGED <<size, sqlite, alarm, process, objects, minted, tombstone, astray>>

\* The keys of the operations that two tables do not agree on.
KeysApart(t, u) ==
    UNION {{t[o].key, u[o].key} \ {NoKey} :
             o \in {p \in Operations : t[p].status # u[p].status \/ t[p].key # u[p].key}}

\* ... and an operator restores any of them, for 30 days.  The state that is left
\* can be returned to as well (onNextSessionRestoreBookmark answers its bookmark),
\* but the present then descends from it no longer.  R2 and the registry are not
\* restored.
Restore(i) ==
    /\ rows' = points[i].rows
    /\ proof' = points[i].proof
    /\ points' = IF Len(points) < MaxPoints THEN Append(points, Tables) ELSE points
    /\ line' = IF i \in line THEN {j \in line : j <= i} ELSE {i}
    /\ astray' = IF i \in line THEN astray
                 ELSE astray \cup KeysApart(rows, points[i].rows)
    /\ up' = FALSE
    /\ rpc' = Idle
    /\ gc' = Resting
    /\ alarm' \in BOOLEAN
    /\ UNCHANGED <<size, objects, minted, tombstone>>

Restores == \E i \in DOMAIN points : Restore(i)

\* The 15 minutes of a preparation are over.
Elapse(o) ==
    /\ rows[o].expires = "ahead"
    /\ rows' = [rows EXCEPT ![o].expires = "passed"]
    /\ UNCHANGED <<proof, alarm, pitr, process, objects, minted, tombstone>>

-----------------------------------------------------------------------------
(* Staging *)

Ready == up /\ rpc.at = "idle"

\* crypto.randomUUID never repeats an id, and new ids are interchangeable.
FreshKey == CHOOSE k \in Keys : k \in size.keys \ minted

\* Variant: stage trusts its own tables and skips the registry lookup.
StageWithoutLookup(o, v, k) ==
    /\ Ready
    /\ <<o, v>> \in size.stages
    /\ rows[o].status = "absent"
    /\ proof = NoDecision
    /\ Cardinality(ContentKeyIds(rows)) < MaxKeys
    /\ ContentByVersion(rows, v) = {}
    /\ k \in size.keys \ minted /\ k = FreshKey
    /\ rows' = [rows EXCEPT ![o] = [status |-> "preparing", version |-> v, key |-> k,
                                    claimed |-> 0, expires |-> "ahead"]]
    /\ minted' = minted \cup {k}
    /\ rpc' = [Idle EXCEPT !.at = "stage_arm", !.op = o]
    /\ UNCHANGED <<proof, alarm, pitr, up, gc, objects, tombstone>>

\* Variant: the limit counts the stored rows and forgets the expired history.
StageForgetsHistory(o, v, k) ==
    /\ Ready
    /\ <<o, v>> \in size.stages
    /\ ~Erased
    /\ rows[o].status = "absent"
    /\ proof = NoDecision
    /\ Cardinality({p \in Operations : Stored(rows[p])}) < MaxKeys
    /\ ContentByVersion(rows, v) = {}
    /\ k \in size.keys \ minted /\ k = FreshKey
    /\ rows' = [rows EXCEPT ![o] = [status |-> "preparing", version |-> v, key |-> k,
                                    claimed |-> 0, expires |-> "ahead"]]
    /\ minted' = minted \cup {k}
    /\ rpc' = [Idle EXCEPT !.at = "stage_arm", !.op = o]
    /\ UNCHANGED <<proof, alarm, pitr, up, gc, objects, tombstone>>

\* stageExclusively up to the INSERT of a 'preparing' row under a fresh key.
StageInsert(o, v, k) ==
    /\ Ready
    /\ <<o, v>> \in size.stages
    /\ ~Erased
    /\ rows[o].status = "absent"
    /\ proof = NoDecision
    /\ Cardinality(ContentKeyIds(rows)) < MaxKeys
    /\ ContentByVersion(rows, v) = {}
    /\ k \in size.keys \ minted /\ k = FreshKey
    /\ rows' = [rows EXCEPT ![o] = [status |-> "preparing", version |-> v, key |-> k,
                                    claimed |-> 0, expires |-> "ahead"]]
    /\ minted' = minted \cup {k}
    /\ rpc' = [Idle EXCEPT !.at = "stage_arm", !.op = o]
    /\ UNCHANGED <<proof, alarm, pitr, up, gc, objects, tombstone>>

\* stageExclusively for a known operation: scheduleNextGc, then replayStage,
\* which writes the object again when it may be missing and refuses or answers
\* the others.
StageReplay(o, v) ==
    /\ Ready
    /\ ~Erased
    /\ Stored(rows[o])
    /\ alarm' = NextGc(rows)
    /\ rpc' = IF rows[o].status = "preparing" /\ rows[o].version = v
              THEN [Idle EXCEPT !.at = "put", !.op = o]
              ELSE Idle
    /\ UNCHANGED <<sqlite, pitr, up, gc, objects, minted, tombstone>>

\* scheduleNextGc inside stage, claimForCommit and releaseCommitClaim.
ScheduleNextGc ==
    /\ rpc.at \in {"arm", "stage_arm"}
    /\ alarm' = NextGc(rows)
    /\ rpc' = IF rpc.at = "arm" THEN Idle ELSE [rpc EXCEPT !.at = "put"]
    /\ UNCHANGED <<sqlite, pitr, up, gc, objects, minted, tombstone>>

\* writePreparation: the create-only R2 put.  It may fail before or after it
\* took effect; then stage answers storage_unavailable.
PutObject ==
    /\ rpc.at = "put"
    /\ \/ /\ objects' = objects \cup {rows[rpc.op].key}
          /\ rpc' = [rpc EXCEPT !.at = "mark"]
       \/ /\ objects' \in {objects, objects \cup {rows[rpc.op].key}}
          /\ rpc' = Idle
    /\ UNCHANGED <<sqlite, alarm, pitr, up, gc, minted, tombstone>>

\* writePreparation: 'preparing' becomes 'staged' once the object is durable.
MarkStaged ==
    /\ rpc.at = "mark"
    /\ rows' = IF rows[rpc.op].status = "preparing"
               THEN [rows EXCEPT ![rpc.op].status = "staged"]
               ELSE rows
    /\ rpc' = Idle
    /\ UNCHANGED <<proof, alarm, pitr, up, gc, objects, minted, tombstone>>

-----------------------------------------------------------------------------
(* The commit fence and finalization *)

\* Variant: the fence counts its claims instead of being idempotent.
ClaimCounts(o, k) ==
    /\ Ready
    /\ ClaimCode(o, k, TRUE) = "ok"
    /\ Prepared(rows[o])
    /\ rows' = [rows EXCEPT ![o].claimed = @ + 1]
    /\ rpc' = [Idle EXCEPT !.at = "arm"]
    /\ UNCHANGED <<proof, alarm, pitr, up, gc, objects, minted, tombstone>>

ClaimForCommit(o, k) ==
    /\ Ready
    /\ ClaimCode(o, k, TRUE) = "ok"
    /\ Prepared(rows[o])
    /\ rows' = [rows EXCEPT ![o].claimed = 1]
    /\ rpc' = [Idle EXCEPT !.at = "arm"]
    /\ UNCHANGED <<proof, alarm, pitr, up, gc, objects, minted, tombstone>>

\* No registry lookup here: an unfence is accepted whatever the registry says.
ReleaseCommitClaim(o, k) ==
    /\ Ready
    /\ Stored(rows[o]) /\ rows[o].key = k
    /\ rows[o].status # "destroyed"
    /\ rows' = IF Prepared(rows[o])
               THEN [rows EXCEPT ![o].claimed = 0]
               ELSE rows
    /\ rpc' = [Idle EXCEPT !.at = "arm"]
    /\ UNCHANGED <<proof, alarm, pitr, up, gc, objects, minted, tombstone>>

\* Variant: a row the collector already marked can still be finalized.
FinalizeExpiring(o, k) ==
    /\ Ready
    /\ ~Erased
    /\ rows[o].status \in {"preparing", "staged", "expiring"} /\ rows[o].key = k
    /\ k \in objects
    /\ rows' = [rows EXCEPT ![o].status = "finalized",
                            ![o].claimed = 0,
                            ![o].expires = "null"]
    /\ UNCHANGED <<proof, alarm, pitr, process, objects, minted, tombstone>>

Finalize(o, k) ==
    /\ Ready
    /\ FinalizeCode(o, k, TRUE) = "ok"
    /\ Prepared(rows[o])
    /\ rows' = [rows EXCEPT ![o].status = "finalized",
                            ![o].claimed = 0,
                            ![o].expires = "null"]
    /\ UNCHANGED <<proof, alarm, pitr, process, objects, minted, tombstone>>

-----------------------------------------------------------------------------
(* Destruction of the generation *)

\* destroyGenerationExclusively, the check of an earlier local proof.
AgreesWithProof(e, expected) ==
    proof # NoDecision => proof.command = e /\ expected \subseteq proof.keys

\* The registry has no decision: record one for every key known here.  The
\* answer may be lost after the create-only put took effect.
DestroyRecord(e, expected) ==
    LET current == ContentKeyIds(rows)
        decision == [command |-> e, keys |-> current]
    IN  /\ Ready
        /\ e \in size.erasers
        /\ expected # {}
        /\ AgreesWithProof(e, expected)
        /\ ~Erased
        /\ current # {}
        /\ expected \subseteq current
        /\ Cardinality(current) <= MaxKeys
        /\ tombstone' = decision
        /\ rpc' \in {Idle, [Idle EXCEPT !.at = "nullify", !.decision = decision]}
        /\ UNCHANGED <<sqlite, alarm, pitr, up, gc, objects, minted>>

\* Variant: a replay must find exactly the keys of the decision, although
\* a restore may have taken the table back before some of them.
DestroyExactReplay(e, expected) ==
    /\ Ready
    /\ e \in size.erasers
    /\ expected # {}
    /\ AgreesWithProof(e, expected)
    /\ Erased
    /\ tombstone.command = e
    /\ expected \subseteq tombstone.keys
    /\ ContentKeyIds(rows) = tombstone.keys
    /\ rpc' = [Idle EXCEPT !.at = "nullify", !.decision = tombstone]
    /\ UNCHANGED <<sqlite, alarm, pitr, up, gc, objects, minted, tombstone>>

\* The registry already decided: only the same command continues, and only
\* when the decision covers the caller's keys and the local ones.
DestroyReplay(e, expected) ==
    /\ Ready
    /\ e \in size.erasers
    /\ expected # {}
    /\ AgreesWithProof(e, expected)
    /\ Erased
    /\ tombstone.command = e
    /\ expected \cup ContentKeyIds(rows) \subseteq tombstone.keys
    /\ rpc' = [Idle EXCEPT !.at = "nullify", !.decision = tombstone]
    /\ UNCHANGED <<sqlite, alarm, pitr, up, gc, objects, minted, tombstone>>

\* Variant: only published content is destroyed; preparations keep their key.
NullifyFinalized ==
    /\ rpc.at = "nullify"
    /\ rows' = [o \in Operations |->
                  IF rows[o].status = "finalized"
                  THEN [rows[o] EXCEPT !.status = "destroyed"] ELSE rows[o]]
    /\ proof' = rpc.decision
    /\ rpc' = Idle
    /\ UNCHANGED <<alarm, pitr, up, gc, objects, minted, tombstone>>

\* The transaction that destroys the key material and stores the proof.
Nullify ==
    /\ rpc.at = "nullify"
    /\ IF (proof # NoDecision => proof = rpc.decision)
          /\ ContentKeyIds(rows) \subseteq rpc.decision.keys
       THEN /\ rows' = [o \in Operations |->
                          IF Stored(rows[o])
                          THEN [rows[o] EXCEPT !.status = "destroyed",
                                               !.claimed = 0, !.expires = "null"]
                          ELSE rows[o]]
            /\ proof' = rpc.decision
       ELSE UNCHANGED sqlite
    /\ rpc' = Idle
    /\ UNCHANGED <<alarm, pitr, up, gc, objects, minted, tombstone>>

-----------------------------------------------------------------------------
(* The alarm: garbage collection of preparations that nobody committed *)

\* Variant: the collector's query forgets commit_claimed = 0.
DueIgnoresFence ==
    {o \in Operations : rows[o].status \in {"preparing", "staged", "expiring"}
                        /\ rows[o].expires = "passed"}

DueRows == {o \in Operations : Collectable(rows[o]) /\ rows[o].expires = "passed"}

\* One synchronous stretch: select the due rows and mark them 'expiring'.
AlarmMark ==
    /\ Ready
    /\ alarm
    /\ ~gc.running
    /\ alarm' = FALSE
    /\ \E batch \in SUBSET DueRows :
         /\ Cardinality(batch) <= GcBatch
         /\ batch = DueRows \/ Cardinality(batch) = GcBatch
         /\ gc' = [running |-> TRUE, due |-> batch]
         /\ rows' = [o \in Operations |->
                       IF o \in batch THEN [rows[o] EXCEPT !.status = "expiring"]
                                      ELSE rows[o]]
    /\ UNCHANGED <<proof, pitr, up, rpc, objects, minted, tombstone>>

\* Variant: the row moves to the history although R2 may have failed.
CollectUnchecked(o) ==
    /\ Ready
    /\ o \in gc.due
    /\ objects' \in {objects, objects \ {rows[o].key}}
    /\ rows' = IF rows[o].status = "expiring"
               THEN [rows EXCEPT ![o].status = "expired", ![o].expires = "null"]
               ELSE rows
    /\ gc' = [gc EXCEPT !.due = @ \ {o}]
    /\ UNCHANGED <<proof, alarm, pitr, up, rpc, minted, tombstone>>

\* Variant: the row is deleted and leaves no history.
CollectForgets(o) ==
    /\ Ready
    /\ o \in gc.due
    /\ objects' = objects \ {rows[o].key}
    /\ rows' = IF rows[o].status = "expiring" THEN [rows EXCEPT ![o] = Absent] ELSE rows
    /\ gc' = [gc EXCEPT !.due = @ \ {o}]
    /\ UNCHANGED <<proof, alarm, pitr, up, rpc, minted, tombstone>>

\* R2 deleted the object: the row moves to the history, unless it was
\* destroyed while the handler waited.
AlarmCollect(o) ==
    /\ Ready
    /\ o \in gc.due
    /\ objects' = objects \ {rows[o].key}
    /\ rows' = IF rows[o].status = "expiring"
               THEN [rows EXCEPT ![o].status = "expired", ![o].expires = "null"]
               ELSE rows
    /\ gc' = [gc EXCEPT !.due = @ \ {o}]
    /\ UNCHANGED <<proof, alarm, pitr, up, rpc, minted, tombstone>>

\* Variant: the handler gives up without arming the alarm again.
BackoffUnarmed(o) ==
    /\ Ready
    /\ o \in gc.due
    /\ objects' \in {objects, objects \ {rows[o].key}}
    /\ gc' = Resting
    /\ UNCHANGED <<sqlite, alarm, pitr, up, rpc, minted, tombstone>>

\* R2 failed (before or after deleting): back off and leave the rest.
AlarmBackoff(o) ==
    /\ Ready
    /\ o \in gc.due
    /\ objects' \in {objects, objects \ {rows[o].key}}
    /\ alarm' = TRUE
    /\ gc' = Resting
    /\ UNCHANGED <<sqlite, pitr, up, rpc, minted, tombstone>>

\* Variant: the handler ends without scheduleNextGc.
FinishUnarmed ==
    /\ Ready
    /\ gc.running /\ gc.due = {}
    /\ gc' = Resting
    /\ UNCHANGED <<sqlite, alarm, pitr, up, rpc, objects, minted, tombstone>>

\* scheduleNextGc at the end of the handler.
AlarmFinish ==
    /\ Ready
    /\ gc.running /\ gc.due = {}
    /\ alarm' = NextGc(rows)
    /\ gc' = Resting
    /\ UNCHANGED <<sqlite, pitr, up, rpc, objects, minted, tombstone>>

-----------------------------------------------------------------------------
Next ==
    \/ Start \/ Crash \/ KeepPoint \/ Restores
    \/ \E o \in Operations : Elapse(o)
    \/ \E o \in Operations, v \in Versions, k \in Keys : StageInsert(o, v, k)
    \/ \E o \in Operations, v \in Versions : StageReplay(o, v)
    \/ ScheduleNextGc \/ PutObject \/ MarkStaged
    \/ \E o \in Operations, k \in Keys : ClaimForCommit(o, k)
    \/ \E o \in Operations, k \in Keys : ReleaseCommitClaim(o, k)
    \/ \E o \in Operations, k \in Keys : Finalize(o, k)
    \/ \E e \in ErasureCommands, expected \in SUBSET minted : DestroyRecord(e, expected)
    \/ \E e \in ErasureCommands, expected \in SUBSET minted : DestroyReplay(e, expected)
    \/ Nullify
    \/ AlarmMark \/ AlarmFinish
    \/ \E o \in Operations : AlarmCollect(o)
    \/ \E o \in Operations : AlarmBackoff(o)

Spec == Init /\ [][Next]_vars

\* reconcileDueMessageErasure keeps calling destroyGeneration until a proof comes back.
RetryErasure ==
    /\ Erased
    /\ \E expected \in SUBSET tombstone.keys : DestroyReplay(tombstone.command, expected)

\* The platform starts an object an event is addressed to, finishes an RPC it
\* started and delivers an armed alarm; R2 does not fail a deletion forever;
\* the Conversation retries an erasure the registry has decided.
Fairness ==
    /\ WF_vars(Start)
    /\ WF_vars(ScheduleNextGc \/ PutObject \/ MarkStaged \/ Nullify)
    /\ SF_vars(AlarmMark \/ AlarmFinish)
    /\ \A o \in Operations : SF_vars(AlarmCollect(o))
    /\ SF_vars(RetryErasure)

FairSpec == Spec /\ Fairness

-----------------------------------------------------------------------------
(* Properties *)

\* Every variable has its type.
TypeOK ==
    /\ size \in Sizes
    /\ rows \in [Operations -> Row]
    /\ proof \in Decision \cup {NoDecision}
    /\ alarm \in BOOLEAN
    /\ points \in Seq([rows : [Operations -> Row], proof : Decision \cup {NoDecision}])
    /\ line \subseteq DOMAIN points
    /\ up \in BOOLEAN
    /\ rpc \in Rpc
    /\ gc \in [running : BOOLEAN, due : SUBSET Operations]
    /\ objects \subseteq Keys
    /\ minted \subseteq Keys
    /\ tombstone \in Decision \cup {NoDecision}
    /\ astray \subseteq Keys

\* The tombstone names every key id the object can still hold, and every one a
\* restore to an earlier moment brings back, so that destroyGeneration retried by
\* the command that decided is never answered key_set_mismatch.  The exception
\* is a key that only a restore to an abandoned line brings back: it was not in
\* the tables the decision was taken from.
TombstoneCoversKeys ==
    Erased => /\ ContentKeyIds(rows) \subseteq tombstone.keys \cup astray
              /\ \A i \in line : ContentKeyIds(points[i].rows) \subseteq tombstone.keys \cup astray

\* A local destruction proof is only ever stored after the same decision is
\* durable in the registry, and then no row keeps key material: a crash between
\* recording and nullifying leaves a tombstone without a proof, never the reverse.
ProofMatchesTombstone ==
    proof # NoDecision => proof = tombstone /\ \A o \in Operations : ~HasKey(rows[o])

\* Finalized content always has its ciphertext: the collector, which deletes
\* objects while RPCs run, never deletes that of a row that gets finalized.
FinalizedHasObject ==
    \A o \in Operations :
      rows[o].status = "finalized" => rows[o].key \in objects \cup astray

\* An operation reaches the expired history only once its object is gone.
ExpiredHasNoObject ==
    \A o \in Operations :
      rows[o].status = "expired" => rows[o].key \notin objects \ astray

\* What a row says of its ciphertext is true in R2, in both directions, however
\* the collector's deletions interleave with the RPCs and wherever a restore
\* returns to; only a row of an abandoned line may be out of step with R2, which
\* is never restored.
ObjectMatchesStatus == FinalizedHasObject /\ ExpiredHasNoObject

\* At most one stored row per version and one operation per key, also while an
\* expired operation's version slot is used again by another command.
VersionSlotExclusive ==
    \A o, p \in Operations :
      o # p => /\ Stored(rows[o]) /\ Stored(rows[p]) => rows[o].version # rows[p].version
               /\ rows[o].status # "absent" => rows[o].key # rows[p].key

\* The historical key ids of a generation never outgrow what the registry accepts
\* in one tombstone: expired preparations count too, or erasure would be refused.
GenerationIsErasable == Cardinality(ContentKeyIds(rows)) <= MaxKeys

\* No lost wake-up: outside the stretch between a table write and its
\* scheduleNextGc, an instantiated object with something to collect has an alarm
\* armed or its handler running.
AlarmArmed ==
    up /\ rpc.at \notin {"arm", "stage_arm"} /\ NextGc(rows) => alarm \/ gc.running

\* claimForCommit is a fence: while a row is claimed no step marks it expiring
\* or removes its object.
FenceKeepsContent ==
    [][\A o \in Operations :
         rows[o].claimed = 1 =>
           /\ Restores \/ rows'[o].status # "expiring"
           /\ rows[o].key \in objects => rows[o].key \in objects']_vars

\* Nothing but a restore forgets a key id or revives an operation that expired
\* or was destroyed (a retry of an expired command stays terminal).
HistoryIsKept ==
    [][\/ Restores
       \/ \A o \in Operations :
            rows[o].status # "absent" =>
              /\ rows'[o].key = rows[o].key
              /\ rows[o].status \in {"expired", "destroyed"}
                   => rows'[o].status = rows[o].status]_vars

\* The refinement mapping to the promise: what readAuthorized would serve, and
\* what it would serve again after a restore to a point of the present line.
Readable == {k \in Keys : ReadCode(k, TRUE) = "ok"} \ astray

Published(t) == {t[o].key : o \in {p \in Operations : t[p].status = "finalized"}} \ astray

SavedReadable == IF Erased THEN {} ELSE {Published(points[i].rows) : i \in line}

Promise == INSTANCE ContentPromise
             WITH Contents <- Keys, readable <- Readable, saved <- SavedReadable,
                  erased <- Erased, loose <- astray

\* The vault implements its promise: neither the collector nor a crash takes
\* published content away, no restore makes erased content readable again, and
\* a restore to an earlier moment brings back exactly the content of that moment.
KeepsPromise == Promise!Spec

\* Crashes and restores stop eventually.
Quiet == <>[][~Crash /\ ~Restores]_vars

\* Once crashes stop, a preparation that is due and unclaimed is collected
\* (or claimed, finalized or destroyed first), although R2 may fail meanwhile.
DueIsCollected ==
    Quiet => \A o \in Operations :
               (o \in DueRows) ~> (o \notin DueRows)

\* The tables hold a key the decision does not name: key_set_mismatch.
Mismatch == Erased /\ \E k \in astray : k \in ContentKeyIds(rows) \ tombstone.keys

\* Once crashes stop, a decided erasure ends with a proof and no key left,
\* whatever crash or restore happened between the decision and the proof, unless
\* the last restore left a key of an abandoned line that the decision does not
\* name: that one is refused for good.
ErasureCompletes ==
    Quiet => (Erased ~> (proof # NoDecision \/ Mismatch))
=============================================================================
