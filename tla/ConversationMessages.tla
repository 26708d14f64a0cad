----------------------- MODULE ConversationMessages -----------------------
(***************************************************************************)
(* The write path of one ConversationDO: its durable pending commands, the *)
(* signed journal, the content-finalization ledger, the erasure schedule   *)
(* and the projection outbox, with the content vault, the Workspace's      *)
(* authorizations and the attestation service as seen through their RPCs.  *)
(*                                                                         *)
(* ConversationDO handlers are not exclusive: every await lets another     *)
(* client request or the alarm run.  Each handler is a process with a      *)
(* program counter; one step is the stretch between two awaits, and an RPC *)
(* takes effect at its service before the handler sees the answer.         *)
(*                                                                         *)
(* Left out: awaits of local digests and of ensureJournalCapacity (the     *)
(* code compares its snapshot again after them: one step at the second     *)
(* read); retry counters, which only choose a delay; thread counters and   *)
(* revisions, which change only with the cursor; byte capacities.          *)
(***************************************************************************)
EXTENDS Naturals, Sequences, FiniteSets

CONSTANTS
    Posts,        \* message.post commands; a Message is named by its post
    Edits, Retractions, Restores, Toggles,
    Members,      \* commands of execute(): member and lifecycle changes
    Target,       \* the Message an edit, retraction, restore or toggle is for
    Clients,      \* concurrent client requests
    Alarm,        \* the alarm handler
    None,
    MaxFinalizations,  \* MAXIMUM_CONTENT_FINALIZATION_ROWS
    Workloads     \* what a behaviour may be about, see Workload

Contents == Posts \cup Edits
Commands == Contents \cup Retractions \cup Restores \cup Toggles \cup Members
Handlers == Clients \cup {Alarm}
Tables == {"command", "message", "reaction"}

\* The command id deriveOpaqueUuid gives the final erasure of a retraction.
Erasure(r) == <<"erasure", r>>
Erasures == {Erasure(r) : r \in Retractions}

\* A row of a pending table.
Row == [cmd : Commands \cup Erasures, next : Nat, step : {"intent", "signed"}]

MessageOf(c) == IF c \in Posts THEN c
                ELSE IF c \in Erasures THEN Target[c[2]] ELSE Target[c]

ContentsOf(p) == {c \in Contents : MessageOf(c) = p}

TableOf(c) == IF c \in Members THEN "command"
              ELSE IF c \in Toggles THEN "reaction" ELSE "message"

\* The posts committed and delivered before the behaviour begins, in order;
\* the commands its clients send; the failures the environment has and how
\* many of them may happen.
Workload == [history : Seq(Posts), commands : SUBSET Commands,
             faults : SUBSET {"crash", "revoke", "elapse", "unavailable"}, limit : Nat]

ASSUME WorkloadsAssumption == Workloads \subseteq Workload

\* Command ids are UUIDs, so no two commands share one, a derived one included;
\* an edit, a retraction, a restore or a toggle names its Message.
ASSUME NamesAssumption ==
    /\ Posts \cap Edits = {}
    /\ Contents \cap Retractions = {}
    /\ (Contents \cup Retractions) \cap Restores = {}
    /\ (Contents \cup Retractions \cup Restores) \cap Toggles = {}
    /\ (Contents \cup Retractions \cup Restores \cup Toggles) \cap Members = {}
    /\ Commands \cap Erasures = {}
    /\ None \notin Commands \cup Erasures \cup Row
    /\ Target \in [Edits \cup Retractions \cup Restores \cup Toggles -> Posts]
    /\ Alarm \notin Clients

VARIABLES
    pending,       \* the singleton row of each pending table, or None
    journal,       \* committed command ids; position = cursor
    results,       \* ids in the command-result ledgers
    messages,      \* status, current version and retraction of each Message
    finalization,  \* content_finalization: the content commands in it
    schedule,      \* message_erasure_schedule: the retraction each row names
    enqueued,      \* enqueued_through_cursor
    alarm,         \* the object's alarm: "off", "asked" or "armed"
    up,            \* is the object instantiated
    run,           \* the handlers in progress
    vault,         \* content rows of the vaults, one per content command
    tombstones,    \* what the erasure registry decided for each generation
    allowed,       \* would the Workspace authorize the actor now
    over,          \* retractions whose eraseAfter has passed
    env            \* the workload, and the failures it still has

tables == <<pending, journal, results, messages, finalization, schedule>>
object == <<tables, enqueued, alarm, up, run>>
world == <<vault, tombstones, allowed, over, env>>
vars == <<object, world>>

cursor == Len(journal)

NoMessage == [status |-> "absent", version |-> 0, retraction |-> None]
NoContent == [status |-> "none", version |-> 0, claimed |-> 0, expires |-> "ahead"]

Idle == [at |-> "idle", cmd |-> None, next |-> 0, base |-> 0, seen |-> "new",
         phase |-> "idle", todo |-> {}]

-----------------------------------------------------------------------------
(* Reading the tables *)

\* Variant: the check of the pending tables forgets reactions.
BusyForgetsReactions == \E t \in {"command", "message"} : pending[t] # None

\* hasPendingAggregateMutation
Busy == \E t \in Tables : pending[t] # None

IsPending(c) == pending[TableOf(c)] # None /\ pending[TableOf(c)].cmd = c

\* Only command c itself may be pending; otherwise command_in_progress.
Turn(c) ==
    /\ \A t \in Tables \ {TableOf(c)} : pending[t] = None
    /\ pending[TableOf(c)] # None => IsPending(c)

FinalizationFor(p) == finalization \cap ContentsOf(p) # {}

HasFinalizationCapacity == Cardinality(finalization) + 1 <= MaxFinalizations

Seen(c) == IF c \in results THEN "done" ELSE IF IsPending(c) THEN "pending" ELSE "new"

NextOf(c) == IF IsPending(c) THEN pending[TableOf(c)].next ELSE 0

Scheduled == \E p \in Posts : schedule[p] # None

\* What repairDurableAlarm looks for.
DurableWork ==
    \/ Busy
    \/ finalization # {}
    \/ enqueued < cursor
    \/ Scheduled

\* Variant: the schedule is read without its deadline.
DueAtOnce == {p \in Posts : schedule[p] # None}

DueErasures == {p \in Posts : schedule[p] # None /\ schedule[p] \in over}

-----------------------------------------------------------------------------
(* Handlers *)

Goto(h, at) == run' = [run EXCEPT ![h].at = at]

Become(h, r) == run' = [run EXCEPT ![h] = r]

\* The handler returns: a request ends, the alarm goes on with its next part.
Return(h) == Become(h, [Idle EXCEPT !.at = run[h].phase, !.todo = run[h].todo])

\* scheduleAlarm: setAlarm follows in a promise of its own.
ScheduleAlarm == alarm' = IF alarm = "armed" THEN "armed" ELSE "asked"

\* An exception nobody catches: the platform delivers the alarm again.
Throw(h) ==
    /\ Become(h, Idle)
    /\ alarm' = IF h = Alarm THEN "armed" ELSE alarm

\* Variant: the attempt is counted, the alarm is not armed.
MarkFailureUnarmed(h) == Return(h) /\ UNCHANGED alarm

\* mark...Failure: the attempt is counted and the alarm armed.
MarkFailure(h) == ScheduleAlarm /\ Return(h)

\* scheduleNextMessageErasure, scheduleNextContentFinalization.
ScheduleNext(rows) == IF rows THEN ScheduleAlarm ELSE UNCHANGED alarm

Insert(c, next, step) ==
    pending' = [pending EXCEPT ![TableOf(c)] = [cmd |-> c, next |-> next, step |-> step]]

\* Variant: a refused command keeps its row.
AbandonKeepsRow(c) == UNCHANGED pending

\* abandonPendingMessage, abandonPendingMessageReaction: only the own row.
Abandon(c) ==
    pending' = IF IsPending(c) THEN [pending EXCEPT ![TableOf(c)] = None] ELSE pending

Init ==
    /\ pending = [t \in Tables |-> None]
    /\ env \in {[load |-> w, left |-> w.limit] : w \in Workloads}
    /\ journal = env.load.history
    /\ results = {journal[i] : i \in 1..Len(journal)}
    /\ messages = [p \in Posts |-> IF p \in results
                     THEN [status |-> "active", version |-> 1, retraction |-> None]
                     ELSE NoMessage]
    /\ finalization = {}
    /\ schedule = [p \in Posts |-> None]
    /\ enqueued = cursor
    /\ alarm = "off"
    /\ up = TRUE
    /\ run = [h \in Handlers |-> Idle]
    /\ vault = [c \in Contents |-> IF c \in results
                  THEN [NoContent EXCEPT !.status = "finalized", !.version = 1]
                  ELSE NoContent]
    /\ tombstones = [p \in Posts |-> None]
    /\ allowed = TRUE
    /\ over = {}

-----------------------------------------------------------------------------
(* The environment: crashes, the Workspace's decisions, time, the vault's  *)
(* collector.                                                              *)

Fails(f) ==
    /\ f \in env.load.faults /\ env.left > 0
    /\ env' = [env EXCEPT !.left = env.left - 1]

\* ensureAlarmAt reaches setAlarm.
SetAlarm ==
    /\ alarm = "asked"
    /\ alarm' = "armed"
    /\ UNCHANGED <<tables, enqueued, up, run, world>>

\* The instance is evicted; an alarm that did not return is delivered again.
Crash ==
    /\ Fails("crash")
    /\ up
    /\ up' = FALSE
    /\ run' = [h \in Handlers |-> Idle]
    /\ alarm' = IF alarm = "armed" \/ run[Alarm].at # "idle" THEN "armed" ELSE "off"
    /\ UNCHANGED <<tables, enqueued, vault, tombstones, allowed, over>>

\* constructor: initialize and repairDurableAlarm.
Start ==
    /\ ~up
    /\ up' = TRUE
    /\ alarm' = IF DurableWork THEN "armed" ELSE alarm
    /\ UNCHANGED <<tables, enqueued, run, world>>

\* The Workspace takes the actor's access away, or gives it back.
Reauthorize ==
    /\ Fails("revoke")
    /\ allowed' = ~allowed
    /\ UNCHANGED <<object, vault, tombstones, over>>

\* Fifteen minutes after staging; seven days after a retraction.
PreparationElapses(c) ==
    /\ "elapse" \in env.load.faults
    /\ vault[c].status = "prepared" /\ vault[c].expires = "ahead"
    /\ vault' = [vault EXCEPT ![c].expires = "passed"]
    /\ UNCHANGED <<object, tombstones, allowed, over, env>>

GraceElapses(p) ==
    /\ messages[p].status = "retracted"
    /\ messages[p].retraction \notin over
    /\ over' = over \cup {messages[p].retraction}
    /\ UNCHANGED <<object, vault, tombstones, allowed, env>>

\* The vault's alarm marks an unfenced preparation, then deletes it.
VaultCollects(c) ==
    /\ \/ /\ vault[c].status = "prepared"
          /\ vault[c].expires = "passed" /\ vault[c].claimed = 0
          /\ vault' = [vault EXCEPT ![c].status = "expiring"]
       \/ /\ vault[c].status = "expiring"
          /\ vault' = [vault EXCEPT ![c].status = "expired"]
    /\ UNCHANGED <<object, tombstones, allowed, over, env>>

-----------------------------------------------------------------------------
(* The content vault's RPCs, as the module MessageContent has them: when   *)
(* each is accepted and what it leaves behind.                             *)

CanStage(c, v) ==
    /\ tombstones[MessageOf(c)] = None
    /\ \/ /\ vault[c].status = "none"
          /\ \A d \in ContentsOf(MessageOf(c)) :
               vault[d].status \in {"prepared", "expiring", "finalized"} => vault[d].version # v
       \/ vault[c].status \in {"prepared", "finalized"} /\ vault[c].version = v

AfterStage(c, v) ==
    IF vault[c].status = "none"
    THEN [vault EXCEPT ![c] = [NoContent EXCEPT !.status = "prepared", !.version = v]]
    ELSE vault

\* claimForCommit and finalize share their conditions.
CanClaim(c) ==
    /\ tombstones[MessageOf(c)] = None
    /\ vault[c].status \in {"prepared", "finalized"}

\* Variant: the claim is answered and sets no fence.
ClaimWithoutFence(c) == vault

\* Variant: the fence counts its claims instead of being idempotent.
ClaimCounts(c) ==
    IF vault[c].status = "prepared" THEN [vault EXCEPT ![c].claimed = @ + 1] ELSE vault

AfterClaim(c) ==
    IF vault[c].status = "prepared" THEN [vault EXCEPT ![c].claimed = 1] ELSE vault

AfterFinalize(c) ==
    [vault EXCEPT ![c] = [vault[c] EXCEPT !.status = "finalized", !.claimed = 0]]

CanRelease(c) == vault[c].status \in {"prepared", "expiring", "finalized"}

AfterRelease(c) ==
    IF vault[c].status = "prepared" THEN [vault EXCEPT ![c].claimed = 0] ELSE vault

AfterDestroy(p) ==
    [c \in Contents |->
       IF c \in ContentsOf(p) /\ vault[c].status \in {"prepared", "expiring", "finalized"}
       THEN [vault[c] EXCEPT !.status = "destroyed", !.claimed = 0] ELSE vault[c]]

\* readAuthorized of the version a Message shows.
CanRead(p) ==
    /\ tombstones[p] = None
    /\ \E c \in ContentsOf(p) \cap results :
         vault[c].version = messages[p].version /\ vault[c].status = "finalized"

-----------------------------------------------------------------------------
(* Requests.  A request the code refuses at once is no step.               *)

Accepts(h, c) == up /\ h \in Clients /\ run[h].at = "idle" /\ Turn(c)

Enter(h, c, at, base) ==
    Become(h, [Idle EXCEPT !.at = at, !.cmd = c, !.next = NextOf(c),
                           !.base = base, !.seen = Seen(c)])

NoChange == UNCHANGED <<tables, enqueued, alarm, up, world>>

\* postMessage up to the staging call.
PostMessage(h, c) ==
    /\ Accepts(h, c)
    /\ allowed
    /\ ~(c \in results /\ messages[c].status = "erased")
    /\ Seen(c) = "new" => HasFinalizationCapacity
    /\ Enter(h, c, "stage", 1)
    /\ NoChange

\* mutateMessage reads the Message, then asks for authorization.
MutateMessage(h, c) ==
    /\ up /\ h \in Clients /\ run[h].at = "idle"
    /\ messages[Target[c]].status # "absent"
    /\ Enter(h, c, "admit", messages[Target[c]].version + 1)
    /\ NoChange

\* mutateMessage between authorization and staging: the version of a
\* committed or pending edit is the one it was staged under.
AdmitEdit(h) ==
    LET c == run[h].cmd
    IN  /\ run[h].at = "admit"
        /\ IF /\ allowed
              /\ Turn(c)
              /\ ~(c \in results /\ messages[Target[c]].status = "erased")
              /\ c \notin results => ~FinalizationFor(Target[c])
              /\ Seen(c) = "new" => HasFinalizationCapacity
           THEN Enter(h, c, "stage", IF Seen(c) = "new" THEN run[h].base ELSE vault[c].version)
           ELSE Return(h)
        /\ NoChange

\* mutateMessageState: a retraction takes its snapshot at once, a restore
\* after it has read the content back.
MutateMessageState(h, c) ==
    /\ Accepts(h, c)
    /\ allowed
    /\ messages[Target[c]].status # "absent"
    /\ Seen(c) # "done"
    /\ IF Seen(c) = "pending"
       THEN Enter(h, c, "authorize", 0)
       ELSE Enter(h, c, IF c \in Restores THEN "read" ELSE "decide", cursor)
    /\ NoChange

\* readAuthorized answered: the snapshot the decision is made on.
ReadContent(h) ==
    LET p == MessageOf(run[h].cmd)
    IN  /\ run[h].at = "read"
        /\ IF CanRead(p) /\ (messages[p].status = "retracted" => messages[p].retraction \notin over)
           THEN Become(h, [run[h] EXCEPT !.at = "decide", !.base = cursor])
           ELSE Return(h)
        /\ NoChange

\* mutateMessageReaction up to its second authorization.
MutateMessageReaction(h, c) ==
    /\ Accepts(h, c)
    /\ allowed
    /\ messages[Target[c]].status # "absent"
    /\ Seen(c) # "done"
    /\ Enter(h, c, IF Seen(c) = "pending" THEN "authorize" ELSE "decide", 0)
    /\ NoChange

\* execute up to its authorization.
Execute(h, c) ==
    /\ Accepts(h, c)
    /\ Seen(c) # "done"
    /\ Enter(h, c, IF Seen(c) = "pending" THEN "attest" ELSE "decide", cursor)
    /\ NoChange

-----------------------------------------------------------------------------
(* From a request to a durable pending command *)

\* stageMessageContent, stageEditedMessageContent.
Stage(h) ==
    LET c == run[h].cmd
    IN  /\ run[h].at = "stage"
        /\ IF CanStage(c, run[h].base)
           THEN vault' = AfterStage(c, run[h].base) /\ Goto(h, "staged")
           ELSE UNCHANGED vault /\ Return(h)
        /\ UNCHANGED <<tables, enqueued, alarm, up, tombstones, allowed, over, env>>

\* After staging: recoverCommittedMessage for a command seen completed
\* before the call; postMessage looks for its pending row again, an edit goes
\* on with the row it saw.
Staged(h) ==
    LET c == run[h].cmd
        joins == IF c \in Posts THEN pending["message"] # None ELSE run[h].seen = "pending"
    IN  /\ run[h].at = "staged"
        /\ CASE run[h].seen = "done" ->
                  Goto(h, IF c \in finalization THEN "reclaim" ELSE "refinalize")
             [] run[h].seen # "done" /\ joins /\ c \in Posts /\ ~IsPending(c) -> Return(h)
             [] run[h].seen # "done" /\ joins /\ (c \in Posts => IsPending(c)) ->
                  Become(h, [run[h] EXCEPT !.at = "authorize",
                                           !.next = IF c \in Posts THEN NextOf(c) ELSE run[h].next])
             [] OTHER -> Become(h, [run[h] EXCEPT !.at = "decide", !.base = cursor])
        /\ NoChange

DecidePostMessage(c) == messages[c].status = "absent"

DecideEditMessage(c) ==
    /\ messages[Target[c]].status = "active"
    /\ vault[c].version = messages[Target[c]].version + 1

DecideRetractMessage(c) == messages[Target[c]].status = "active"

\* ReadContent has compared the clock with eraseAfter.
DecideRestoreMessage(c) == messages[Target[c]].status = "retracted"

DecideMessageReaction(c) == messages[Target[c]].status = "active"

DecideFinalizeMessageErasure(c) ==
    LET m == messages[MessageOf(c)]
    IN  m.status = "retracted" /\ m.retraction = c[2]

\* Variant: the snapshot is not compared again after the last await.
DecidesOnSnapshot(c, base) ==
    /\ c \in Posts => DecidePostMessage(c)
    /\ c \in Edits => DecideEditMessage(c)
    /\ c \in Retractions => DecideRetractMessage(c)
    /\ c \in Restores => DecideRestoreMessage(c)
    /\ c \in Toggles => DecideMessageReaction(c)

\* The core's decision, and what the handler compares again after its last
\* await.  A reaction does not look at the results again.
Decides(c, base) ==
    /\ c \in Posts => DecidePostMessage(c)
    /\ c \in Edits => DecideEditMessage(c) /\ ~FinalizationFor(MessageOf(c))
    /\ c \in Retractions => DecideRetractMessage(c)
    /\ c \in Restores => DecideRestoreMessage(c)
    /\ c \in Toggles => DecideMessageReaction(c)
    /\ c \in Contents => HasFinalizationCapacity
    /\ c \notin Posts \cup Toggles => base = cursor

Admitted(h) == allowed /\ ~Busy /\ Decides(run[h].cmd, run[h].base)

\* The decision of a restore changes nothing: the Message is active.
Unchanged(h) ==
    /\ allowed /\ ~Busy
    /\ run[h].cmd \in Restores
    /\ run[h].base = cursor
    /\ messages[Target[run[h].cmd]].status = "active"

\* The authorization answered: INSERT the pending row and arm the alarm ...
Decide(h) ==
    LET c == run[h].cmd
        next == (IF c \in Posts \cup Toggles THEN cursor ELSE run[h].base) + 1
    IN  /\ run[h].at = "decide"
        /\ Admitted(h)
        /\ Insert(c, next, "signed")
        /\ ScheduleAlarm
        /\ Become(h, [run[h] EXCEPT !.at = IF c \in Members THEN "attest" ELSE "authorize",
                                    !.next = next])
        /\ UNCHANGED <<journal, results, messages, finalization, schedule, enqueued, up, world>>

\* ... or record the result of a command without an event ...
DecideIdempotent(h) ==
    /\ run[h].at = "decide"
    /\ Unchanged(h)
    /\ results' = results \cup {run[h].cmd}
    /\ Return(h)
    /\ UNCHANGED <<pending, journal, messages, finalization, schedule, enqueued, alarm, up, world>>

\* ... or refuse.
DecideRefused(h) ==
    /\ run[h].at = "decide"
    /\ ~Admitted(h) /\ ~Unchanged(h)
    /\ Return(h)
    /\ NoChange

-----------------------------------------------------------------------------
(* From a pending command to a committed event.  authorize, claim, attest, *)
(* claim2, authorize2 and commit are the awaits of attestAndFinalize...    *)

\* authorizePendingMessage, authorizePendingMessageMutation and
\* authorizeMessageReaction, before and after the attestation.
Authorize(h) ==
    LET c == run[h].cmd
    IN  /\ run[h].at \in {"authorize", "authorize2"}
        /\ \/ /\ allowed
              /\ run[h].at = "authorize" /\ c \in Retractions
                   => messages[MessageOf(c)].status = "active"
              /\ Become(h, [run[h] EXCEPT
                   !.at = CASE run[h].at = "authorize2"  -> "commit"
                            [] run[h].at = "authorize" /\ c \in Contents -> "claim"
                            [] run[h].at = "authorize" /\ c \in Retractions -> "refresh"
                            [] OTHER -> "attest",
                   !.base = cursor])
              /\ UNCHANGED pending
           \/ /\ ~allowed
              /\ c \in Contents
              /\ Goto(h, "release")
              /\ UNCHANGED pending
           \/ /\ \/ ~allowed /\ c \notin Contents
                 \/ /\ allowed
                    /\ run[h].at = "authorize" /\ c \in Retractions
                    /\ messages[MessageOf(c)].status # "active"
              /\ Abandon(c)
              /\ Return(h)
        /\ UNCHANGED <<journal, results, messages, finalization, schedule,
                       enqueued, alarm, up, world>>

\* refreshPendingRetraction: the deadline restarts at each attempt.
RefreshPendingRetraction(h) ==
    LET c == run[h].cmd
    IN  /\ run[h].at = "refresh"
        /\ IF allowed /\ IsPending(c)
           THEN /\ pending' = IF cursor = run[h].base
                              THEN [pending EXCEPT !["message"].next = cursor + 1] ELSE pending
                /\ Become(h, [run[h] EXCEPT !.at = "attest", !.next = pending'["message"].next])
           ELSE Abandon(c) /\ Return(h)
        /\ UNCHANGED <<journal, results, messages, finalization, schedule,
                       enqueued, alarm, up, world>>

\* claimPendingMessageContent, once before and once after the attestation.
Claim(h) ==
    LET c == run[h].cmd
    IN  /\ run[h].at \in {"claim", "claim2"}
        /\ IF CanClaim(c)
           THEN /\ vault' = AfterClaim(c)
                /\ Goto(h, IF run[h].at = "claim" THEN "attest" ELSE "authorize2")
                /\ UNCHANGED alarm
           ELSE UNCHANGED vault /\ MarkFailure(h)
        /\ UNCHANGED <<tables, enqueued, up, tombstones, allowed, over, env>>

\* releasePendingMessageContentClaim ...
ReleaseClaim(h) ==
    LET c == run[h].cmd
    IN  /\ run[h].at = "release"
        /\ IF CanRelease(c)
           THEN vault' = AfterRelease(c) /\ Goto(h, "released") /\ UNCHANGED alarm
           ELSE UNCHANGED vault /\ MarkFailure(h)
        /\ UNCHANGED <<tables, enqueued, up, tombstones, allowed, over, env>>

\* ... and what follows its answer.
Released(h) ==
    /\ run[h].at = "released"
    /\ Abandon(run[h].cmd)
    /\ Return(h)
    /\ UNCHANGED <<journal, results, messages, finalization, schedule,
                   enqueued, alarm, up, world>>

\* The attestation service signs the event.
Attest(h) ==
    LET c == run[h].cmd
    IN  /\ run[h].at = "attest"
        /\ Goto(h, IF c \in Contents THEN "claim2"
                   ELSE IF c \in Members \cup Erasures THEN "commit" ELSE "authorize2")
        /\ NoChange

-----------------------------------------------------------------------------
(* The commit transactions *)

\* What the transaction checks of the Message once the row is its own.
Fits(c, next) ==
    LET m == messages[MessageOf(c)]
    IN  /\ next = cursor + 1
        /\ c \in Posts    => m.status = "absent"
        /\ c \in Edits    => m.version # 0 /\ m.version + 1 = vault[c].version
        /\ c \in Restores => m.retraction # None /\ m.retraction \notin over
        /\ c \in Erasures => m.status = "retracted" /\ m.retraction = c[2]
        /\ c \in Toggles  => m.status = "active"

\* Variant: the results have no primary key.
OutcomeWithoutKey(h) ==
    LET c == run[h].cmd
    IN  IF ~IsPending(c) THEN IF c \in results THEN "existing" ELSE "return"
        ELSE IF Fits(c, run[h].next) THEN "commit" ELSE "return"

\* How the transaction ends: it commits, finds the work of another handler,
\* throws (a full ledger, or the primary key of the results), or returns.
Outcome(h) ==
    LET c == run[h].cmd
        gone == IF c \in Toggles THEN ~IsPending(c) ELSE pending[TableOf(c)] = None
    IN  IF gone THEN IF c \in results THEN "existing" ELSE "return"
        ELSE IF ~IsPending(c) THEN "return"
        ELSE IF ~Fits(c, run[h].next) THEN IF c \in Toggles THEN "throw" ELSE "return"
        ELSE IF c \in results \/ (c \in Contents /\ ~HasFinalizationCapacity) THEN "throw"
        ELSE "commit"

\* The part every commit transaction shares.
Commits(h, c) ==
    /\ run[h].at = "commit" /\ run[h].cmd = c
    /\ Outcome(h) = "commit"
    /\ journal' = Append(journal, c)
    /\ results' = results \cup {c}
    /\ pending' = [pending EXCEPT ![TableOf(c)] = None]
    /\ UNCHANGED <<enqueued, up, world>>

\* scheduleAlarm(0) and waitUntil(flushOutbox()).
Publish(h) == ScheduleAlarm /\ Goto(h, "flush")

\* attestAndFinalizeMessage
CommitMessage(h, c) ==
    /\ Commits(h, c)
    /\ messages' = [messages EXCEPT ![c] = [status |-> "active", version |-> 1, retraction |-> None]]
    /\ finalization' = finalization \cup {c}
    /\ Goto(h, "reclaim")
    /\ UNCHANGED <<schedule, alarm>>

\* attestAndFinalizeMessageMutation
CommitMessageMutation(h, c) ==
    /\ Commits(h, c)
    /\ messages' = [messages EXCEPT ![MessageOf(c)].version = vault[c].version]
    /\ finalization' = finalization \cup {c}
    /\ Goto(h, "reclaim")
    /\ UNCHANGED <<schedule, alarm>>

\* Variant: a restore leaves the erasure scheduled.
RestoreKeepsSchedule(h, c) ==
    LET p == MessageOf(c)
    IN  /\ Commits(h, c)
        /\ messages' = [messages EXCEPT ![p] = [messages[p] EXCEPT
             !.status = IF c \in Retractions THEN "retracted" ELSE "active",
             !.retraction = IF c \in Retractions THEN c ELSE None]]
        /\ schedule' = IF c \in Retractions THEN [schedule EXCEPT ![p] = c] ELSE schedule
        /\ Publish(h)
        /\ UNCHANGED finalization

\* attestAndFinalizeMessageStateMutation
CommitMessageStateMutation(h, c) ==
    LET p == MessageOf(c)
    IN  /\ Commits(h, c)
        /\ messages' = [messages EXCEPT ![p] = [messages[p] EXCEPT
             !.status = IF c \in Retractions THEN "retracted" ELSE "active",
             !.retraction = IF c \in Retractions THEN c ELSE None]]
        /\ schedule' = CASE c \in Retractions -> [schedule EXCEPT ![p] = c]
                         [] c \in Restores /\ schedule[p] = messages[p].retraction ->
                              [schedule EXCEPT ![p] = None]
                         [] OTHER -> schedule
        /\ Publish(h)
        /\ UNCHANGED finalization

\* attestAndFinalizeMessageErasure
CommitMessageErasure(h, c) ==
    LET p == MessageOf(c)
    IN  /\ Commits(h, c)
        /\ messages' = [messages EXCEPT ![p] = [NoMessage EXCEPT !.status = "erased"]]
        /\ finalization' = finalization \ ContentsOf(p)
        /\ schedule' = IF schedule[p] = c[2] THEN [schedule EXCEPT ![p] = None] ELSE schedule
        /\ Publish(h)

\* attestAndFinalizeMessageReaction
CommitMessageReaction(h, c) ==
    /\ Commits(h, c)
    /\ Publish(h)
    /\ UNCHANGED <<messages, finalization, schedule>>

\* attestAndFinalize
CommitCommand(h, c) ==
    /\ Commits(h, c)
    /\ Publish(h)
    /\ UNCHANGED <<messages, finalization, schedule>>

\* Another handler committed the same command.
CommitExisting(h) ==
    LET c == run[h].cmd
    IN  /\ run[h].at = "commit"
        /\ Outcome(h) = "existing"
        /\ IF c \in Contents
           THEN /\ IF c \in finalization THEN Goto(h, "reclaim") ELSE Return(h)
                /\ UNCHANGED alarm
           ELSE Publish(h)
        /\ UNCHANGED <<tables, enqueued, up, world>>

\* The transaction did not commit.  Only the state changes and the erasure
\* arm the alarm for a plain return; execute lets an exception through.
CommitRefused(h) ==
    LET c == run[h].cmd
    IN  /\ run[h].at = "commit"
        /\ \/ /\ Outcome(h) = "throw"
              /\ IF c \in Members THEN Throw(h) ELSE MarkFailure(h)
           \/ /\ Outcome(h) = "return"
              /\ IF c \in Retractions \cup Restores \cup Erasures
                 THEN MarkFailure(h)
                 ELSE Return(h) /\ UNCHANGED alarm
        /\ UNCHANGED <<tables, enqueued, up, world>>

-----------------------------------------------------------------------------
(* After the commit: finalize the content, then deliver the journal *)

\* reconcileContentFinalization: fence again, finalize, drop the row.
Reclaim(h) ==
    LET c == run[h].cmd
    IN  /\ run[h].at = "reclaim"
        /\ IF CanClaim(c)
           THEN vault' = AfterClaim(c) /\ Goto(h, "finalize") /\ UNCHANGED alarm
           ELSE UNCHANGED vault /\ MarkFailure(h)
        /\ UNCHANGED <<tables, enqueued, up, tombstones, allowed, over, env>>

Finalize(h) ==
    LET c == run[h].cmd
    IN  /\ run[h].at = "finalize"
        /\ IF CanClaim(c)
           THEN vault' = AfterFinalize(c) /\ Goto(h, "finalized") /\ UNCHANGED alarm
           ELSE UNCHANGED vault /\ MarkFailure(h)
        /\ UNCHANGED <<tables, enqueued, up, tombstones, allowed, over, env>>

Finalized(h) ==
    /\ run[h].at = "finalized"
    /\ finalization' = finalization \ {run[h].cmd}
    /\ IF run[h].phase = "ledger" THEN Return(h) ELSE Goto(h, "flush")
    /\ UNCHANGED <<pending, journal, results, messages, schedule, enqueued, alarm, up, world>>

\* recoverCommittedMessage, recoverCommittedMessageMutation without a row.
Refinalize(h) ==
    LET c == run[h].cmd
    IN  /\ run[h].at = "refinalize"
        /\ IF CanClaim(c)
           THEN vault' = AfterFinalize(c) /\ Publish(h)
           ELSE UNCHANGED <<vault, alarm>> /\ Return(h)
        /\ UNCHANGED <<tables, enqueued, up, tombstones, allowed, over, env>>

\* Variant: the outbox does not wait for the content.
FlushEverything == cursor

\* flushOutbox delivers in order and stops before an event whose content is
\* not final.
Flushable ==
    CHOOSE n \in enqueued..cursor :
        /\ \A i \in (enqueued + 1)..n : journal[i] \notin finalization
        /\ n = cursor \/ journal[n + 1] \in finalization


FlushOutbox(h) ==
    /\ run[h].at = "flush"
    /\ \/ enqueued' = Flushable /\ UNCHANGED <<alarm, env>>
       \/ Fails("unavailable") /\ enqueued' \in enqueued..Flushable /\ ScheduleAlarm
    /\ Return(h)
    /\ UNCHANGED <<tables, up, vault, tombstones, allowed, over>>

-----------------------------------------------------------------------------
(* The alarm: "due", "command", "message", "reaction", "ledger" and "tail" *)
(* are the parts of alarm().                                               *)

FireAlarm ==
    /\ up /\ alarm = "armed" /\ run[Alarm].at = "idle"
    /\ alarm' = "off"
    /\ Goto(Alarm, "due")
    /\ UNCHANGED <<tables, enqueued, up, world>>

Resume(c, at, phase) ==
    Become(Alarm, [Idle EXCEPT !.at = at, !.cmd = c, !.next = NextOf(c), !.phase = phase])

\* preemptPendingReactionsForDueMessageErasure and
\* reconcileDueMessageErasure up to the destruction call.
ReconcileDue ==
    /\ run[Alarm].at = "due"
    /\ IF DueErasures = {}
       THEN /\ Goto(Alarm, "command")
            /\ ScheduleNext(pending["message"] = None /\ Scheduled)
            /\ UNCHANGED <<pending, schedule>>
       ELSE LET open == [pending EXCEPT !["reaction"] = None]
            IN \/ /\ open["message"] # None
                  /\ pending' = open
                  /\ Goto(Alarm, "command")
                  /\ UNCHANGED <<schedule, alarm>>
               \/ /\ open["message"] = None
                  /\ \E p \in DueErasures :
                       \/ /\ \/ messages[p].retraction # schedule[p]
                             \/ open["command"] # None
                             \/ FinalizationFor(p)
                          /\ schedule' = IF messages[p].retraction # schedule[p]
                                         THEN [schedule EXCEPT ![p] = None] ELSE schedule
                          /\ pending' = open
                          /\ ScheduleNext(\E q \in Posts : schedule'[q] # None)
                          /\ Goto(Alarm, "command")
                       \/ /\ messages[p].retraction = schedule[p]
                          /\ open["command"] = None /\ ~FinalizationFor(p)
                          /\ pending' = [open EXCEPT !["message"] =
                               [cmd |-> Erasure(schedule[p]), next |-> cursor, step |-> "intent"]]
                          /\ Become(Alarm, [Idle EXCEPT !.at = "destroy", !.phase = "command",
                                                         !.cmd = Erasure(schedule[p])])
                          /\ UNCHANGED <<schedule, alarm>>
    /\ UNCHANGED <<journal, results, messages, finalization, enqueued, up, world>>

\* Variant: a destruction that is already decided is an error.
DestroyOnce(h) ==
    LET c == run[h].cmd
        p == MessageOf(c)
    IN  /\ run[h].at = "destroy"
        /\ IF tombstones[p] = None
           THEN /\ tombstones' = [tombstones EXCEPT ![p] = c[2]]
                /\ vault' = AfterDestroy(p)
                /\ Goto(h, "destroyed")
                /\ UNCHANGED alarm
           ELSE UNCHANGED <<tombstones, vault>> /\ MarkFailure(h)
        /\ UNCHANGED <<tables, enqueued, up, allowed, over, env>>

\* reconcilePendingMessageErasure: the destruction is decided and done ...
DestroyGeneration(h) ==
    LET c == run[h].cmd
        p == MessageOf(c)
    IN  /\ run[h].at = "destroy"
        /\ IF tombstones[p] \in {None, c[2]}
           THEN /\ tombstones' = [tombstones EXCEPT ![p] = c[2]]
                /\ vault' = AfterDestroy(p)
                /\ Goto(h, "destroyed")
                /\ UNCHANGED alarm
           ELSE UNCHANGED <<tombstones, vault>> /\ MarkFailure(h)
        /\ UNCHANGED <<tables, enqueued, up, allowed, over, env>>

\* ... and the row becomes the event to sign.
PrepareErasure(h) ==
    LET c == run[h].cmd
    IN  /\ run[h].at = "destroyed"
        /\ IF DecideFinalizeMessageErasure(c)
           THEN IF IsPending(c)
                THEN /\ Insert(c, cursor + 1, "signed")
                     /\ Become(h, [run[h] EXCEPT !.at = "attest", !.next = cursor + 1])
                ELSE UNCHANGED pending /\ Return(h)
           ELSE Abandon(c) /\ Return(h)
        /\ UNCHANGED <<journal, results, messages, finalization, schedule, enqueued, alarm,
                       up, world>>

ResumeCommand ==
    /\ run[Alarm].at = "command"
    /\ IF pending["command"] = None
       THEN Goto(Alarm, "message")
       ELSE Resume(pending["command"].cmd, "attest", "message")
    /\ NoChange

\* resumePendingMessage
ResumePendingMessage ==
    /\ run[Alarm].at = "message"
    /\ IF pending["message"] = None
       THEN Goto(Alarm, "reaction") /\ UNCHANGED pending
       ELSE LET row == pending["message"]
                m == messages[MessageOf(row.cmd)]
            IN CASE row.cmd \notin Erasures ->
                      Resume(row.cmd, "authorize", "reaction") /\ UNCHANGED pending
                 [] row.cmd \in Erasures /\ row.step = "signed" ->
                      Resume(row.cmd, "attest", "reaction") /\ UNCHANGED pending
                 [] row.cmd \in Erasures /\ row.step = "intent" ->
                      IF m.status = "retracted" /\ m.retraction = row.cmd[2] /\ m.retraction \in over
                      THEN Resume(row.cmd, "destroy", "reaction") /\ UNCHANGED pending
                      ELSE Abandon(row.cmd) /\ Goto(Alarm, "reaction")
    /\ UNCHANGED <<journal, results, messages, finalization, schedule, enqueued, alarm, up, world>>

\* After a reaction the alarm returns early and, once it is gone, comes back.
ResumeReaction ==
    /\ run[Alarm].at = "reaction"
    /\ IF pending["reaction"] = None
       THEN Become(Alarm, [run[Alarm] EXCEPT !.at = "ledger", !.todo = finalization])
       ELSE Resume(pending["reaction"].cmd, "authorize", "reacted")
    /\ NoChange

AfterReaction ==
    /\ run[Alarm].at = "reacted"
    /\ Become(Alarm, Idle)
    /\ alarm' = IF pending["reaction"] = None THEN "armed" ELSE alarm
    /\ UNCHANGED <<tables, enqueued, up, world>>

\* reconcileContentFinalizations, then flushOutbox.
ReconcileContentFinalizations ==
    LET todo == run[Alarm].todo
    IN  /\ run[Alarm].at = "ledger"
        /\ \/ /\ todo = {}
              /\ Become(Alarm, [Idle EXCEPT !.at = "flush", !.phase = "tail"])
              /\ ScheduleNext(finalization # {})
           \/ /\ \E c \in todo :
                   Become(Alarm, [Idle EXCEPT !.at = "reclaim", !.cmd = c, !.phase = "ledger",
                                              !.todo = todo \ {c}])
              /\ UNCHANGED alarm
        /\ UNCHANGED <<tables, enqueued, up, world>>

\* The end of alarm(): scheduleNextMessageErasure.
FinishAlarm ==
    /\ run[Alarm].at = "tail"
    /\ Become(Alarm, Idle)
    /\ ScheduleNext(Scheduled)
    /\ UNCHANGED <<tables, enqueued, up, world>>

-----------------------------------------------------------------------------
(* A call whose answer is lost: the service may or may not have done it.   *)

Effects(h) ==
    LET c == run[h].cmd
    IN  CASE run[h].at = "stage" /\ CanStage(c, run[h].base) -> {vault, AfterStage(c, run[h].base)}
          [] run[h].at \in {"claim", "claim2", "reclaim"} /\ CanClaim(c) -> {vault, AfterClaim(c)}
          [] run[h].at \in {"finalize", "refinalize"} /\ CanClaim(c) -> {vault, AfterFinalize(c)}
          [] run[h].at = "release" /\ CanRelease(c) -> {vault, AfterRelease(c)}
          [] OTHER -> {vault}

Authorizations == {"authorize", "authorize2", "refresh"}
Retried == {"claim", "claim2", "release", "attest", "reclaim", "finalize", "destroy"}
Dropped == {"admit", "stage", "read", "decide", "refinalize"}

\* Outside the alarm's retries the request just fails.  An authorization that
\* throws is caught only for a reaction, where it counts as a refusal.
LoseCall(h) ==
    LET c == run[h].cmd
    IN  /\ Fails("unavailable")
        /\ run[h].at \in Authorizations \cup Retried \cup Dropped
        /\ \/ vault' \in Effects(h) /\ UNCHANGED tombstones
           \/ /\ run[h].at = "destroy"
              /\ tombstones[MessageOf(c)] = None
              /\ tombstones' = [tombstones EXCEPT ![MessageOf(c)] = c[2]]
              /\ vault' \in {vault, AfterDestroy(MessageOf(c))}
        /\ \/ run[h].at \in Dropped /\ Return(h) /\ UNCHANGED <<pending, alarm>>
           \/ run[h].at \in Retried /\ MarkFailure(h) /\ UNCHANGED pending
           \/ /\ run[h].at \in Authorizations
              /\ IF c \in Toggles
                 THEN Abandon(c) /\ Return(h) /\ UNCHANGED alarm
                 ELSE Throw(h) /\ UNCHANGED pending
        /\ UNCHANGED <<journal, results, messages, finalization, schedule, enqueued, up,
                       allowed, over>>

-----------------------------------------------------------------------------

Request(h) ==
    \/ \E c \in Posts \cap env.load.commands : PostMessage(h, c)
    \/ \E c \in Edits \cap env.load.commands : MutateMessage(h, c)
    \/ \E c \in (Retractions \cup Restores) \cap env.load.commands : MutateMessageState(h, c)
    \/ \E c \in Toggles \cap env.load.commands : MutateMessageReaction(h, c)
    \/ \E c \in Members \cap env.load.commands : Execute(h, c)

Step(h) ==
    \/ AdmitEdit(h) \/ ReadContent(h) \/ Stage(h) \/ Staged(h)
    \/ Decide(h) \/ DecideIdempotent(h) \/ DecideRefused(h)
    \/ Authorize(h) \/ RefreshPendingRetraction(h) \/ Claim(h)
    \/ ReleaseClaim(h) \/ Released(h) \/ Attest(h)
    \/ \E c \in Posts : CommitMessage(h, c)
    \/ \E c \in Edits : CommitMessageMutation(h, c)
    \/ \E c \in Retractions \cup Restores : CommitMessageStateMutation(h, c)
    \/ \E c \in Erasures : CommitMessageErasure(h, c)
    \/ \E c \in Toggles : CommitMessageReaction(h, c)
    \/ \E c \in Members : CommitCommand(h, c)
    \/ CommitExisting(h) \/ CommitRefused(h)
    \/ Reclaim(h) \/ Finalize(h) \/ Finalized(h) \/ Refinalize(h) \/ FlushOutbox(h)
    \/ DestroyGeneration(h) \/ PrepareErasure(h)

AlarmStep ==
    \/ ReconcileDue \/ ResumeCommand \/ ResumePendingMessage
    \/ ResumeReaction \/ AfterReaction \/ ReconcileContentFinalizations \/ FinishAlarm

Environment ==
    \/ SetAlarm \/ Crash \/ Start \/ Reauthorize
    \/ \E c \in Contents : PreparationElapses(c) \/ VaultCollects(c)
    \/ \E p \in Posts : GraceElapses(p)

Next ==
    \/ \E h \in Handlers : Request(h) \/ Step(h) \/ LoseCall(h)
    \/ FireAlarm \/ AlarmStep
    \/ Environment

Spec == Init /\ [][Next]_vars

\* The platform starts an evicted object to deliver its alarm; without one only
\* a request does, and none has to come.
StartForAlarm == alarm = "armed" /\ Start

\* A handler that waits for nothing but an answer gets it, an armed alarm is
\* delivered, and an object that has an alarm is started again.
FairSpec ==
    /\ Spec
    /\ \A h \in Handlers : WF_vars(Step(h))
    /\ WF_vars(AlarmStep) /\ WF_vars(SetAlarm) /\ WF_vars(FireAlarm) /\ WF_vars(StartForAlarm)

-----------------------------------------------------------------------------
(* Properties *)

\* The awaits of the requests and of the alarm, and the parts of alarm().
Awaits == {"admit", "stage", "staged", "read", "decide", "authorize", "authorize2",
           "refresh", "claim", "claim2", "release", "released", "attest", "commit",
           "reclaim", "finalize", "finalized", "refinalize", "flush"}
Parts == {"due", "command", "message", "reaction", "reacted", "ledger", "tail"}
Places == Awaits \cup Parts \cup {"idle", "destroy", "destroyed"}

\* A handler: the await it is at, its command, what it read before the await,
\* and for the alarm the part it returns to and the ledger rows it still has.
HandlerState ==
    [at : Places, cmd : Commands \cup Erasures \cup {None}, next : Nat, base : Nat,
     seen : {"new", "pending", "done"}, phase : Places, todo : SUBSET Contents]

MessageState ==
    [status : {"absent", "active", "retracted", "erased"}, version : Nat,
     retraction : Retractions \cup {None}]

ContentState ==
    [status : {"none", "prepared", "expiring", "expired", "finalized", "destroyed"},
     version : Nat, claimed : 0..1, expires : {"ahead", "passed"}]

\* Every variable has its type.
TypeOK ==
    /\ pending \in [Tables -> Row \cup {None}]
    /\ journal \in Seq(Commands \cup Erasures)
    /\ results \subseteq Commands \cup Erasures
    /\ messages \in [Posts -> MessageState]
    /\ finalization \subseteq Contents
    /\ schedule \in [Posts -> Retractions \cup {None}]
    /\ enqueued \in 0..cursor
    /\ alarm \in {"off", "asked", "armed"}
    /\ up \in BOOLEAN /\ allowed \in BOOLEAN
    /\ run \in [Handlers -> HandlerState]
    /\ vault \in [Contents -> ContentState]
    /\ tombstones \in [Posts -> Retractions \cup {None}]
    /\ over \subseteq Retractions
    /\ env \in [load : Workloads, left : Nat] /\ env.left <= env.load.limit

\* One aggregate mutation at a time: the three pending tables are one lock,
\* although each handler checks them on its own between its awaits.
OnePending == \A s, t \in Tables : pending[s] # None /\ pending[t] # None => s = t

\* The event a pending command holds, decided on a snapshot before an await,
\* is still the successor of the journal; otherwise it could never commit.
PendingIsNext ==
    \A t \in Tables : pending[t] # None /\ pending[t].step = "signed"
                       => pending[t].next = cursor + 1

\* The lock the handlers build from their checks is one, and what it protects
\* can be committed.
PendingIsOneSuccessor == OnePending /\ PendingIsNext

\* Content of a committed event stays fenced against the vault's collector
\* until it is final.
CommittedIsFenced ==
    \A c \in Contents : c \in results =>
        \/ vault[c].status \in {"finalized", "destroyed"}
        \/ vault[c].status = "prepared" /\ vault[c].claimed = 1

\* Content of a committed event is never collected by the vault.
CommittedContentKept ==
    \A c \in Contents : c \in results => vault[c].status \notin {"none", "expiring", "expired"}

\* Projections never see an event whose content could still be lost.
ProjectedIsFinal ==
    \A i \in 1..enqueued : journal[i] \in Contents
        => vault[journal[i]].status \in {"finalized", "destroyed"}

\* A generation is destroyed only for a retraction whose grace is over and
\* that no restore can undo any more.
ErasureIsDue ==
    \A p \in Posts : tombstones[p] # None =>
        \/ messages[p].status = "erased"
        \/ /\ messages[p].status = "retracted"
           /\ messages[p].retraction = tombstones[p]
           /\ tombstones[p] \in over

\* Exactly the retracted Messages are scheduled, each for its own retraction,
\* across restores and later retractions of the same Message.
ScheduleMatches == \A p \in Posts : schedule[p] = messages[p].retraction

\* An erasure is only ever planned and decided for the retraction in force.
ErasureFollowsRetraction == ScheduleMatches /\ ErasureIsDue

\* Durable work is never left without an alarm, whatever handler gave up on it.
WorkIsArmed == up /\ DurableWork => alarm # "off" \/ run[Alarm].at # "idle"

\* The journal and its delivery implement the abstract log.
Log == INSTANCE ConversationLog
         WITH log <- journal, delivered <- enqueued, Commands <- Commands \cup Erasures
KeepsLog == Log!Spec

\* An eviction came between scheduleAlarm and its setAlarm: the work waits for
\* the next request.
Forgotten == ~up /\ alarm = "off"

\* The pending command can never commit and nothing abandons it: its content
\* expired before the first fence, its Message's grace ended before the restore
\* was committed, or its result is already in the ledger.
Stranded ==
    \/ \E c \in Contents : IsPending(c) /\ vault[c].status \notin {"prepared", "finalized"}
    \/ \E c \in Restores : IsPending(c) /\ messages[Target[c]].retraction \in over
    \/ \E c \in Toggles : IsPending(c) /\ c \in results


\* A pending command is committed or abandoned, however its calls fail, unless
\* its preparation or the grace it depends on runs out first, or the alarm is
\* lost with an eviction.
PendingResolves == Busy ~> ~Busy \/ Stranded \/ Forgotten

\* A Message whose grace is over is erased, unless a command that can no longer
\* commit holds the lock the erasure needs, or the alarm is lost.
DueIsErased ==
    \A p \in Posts : messages[p].retraction \in over
                       ~> messages[p].status = "erased" \/ Stranded \/ Forgotten
=============================================================================
