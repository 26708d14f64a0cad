------------------------- MODULE ConversationProofs -------------------------
(***************************************************************************)
(* The safety properties of ConversationMessages for any commands, any     *)
(* number of concurrent requests and every failure.                        *)
(*                                                                         *)
(* The argument is the lock.  The three pending tables hold one row at a   *)
(* time, and a commit needs that row and removes it, so nothing else that  *)
(* the row was decided on can change while it is pending: RowOK says of a  *)
(* pending row that its transaction will still find what it needs, and is  *)
(* true for want of a row right after every commit.  What a handler may    *)
(* rely on between two awaits (HandlerOK) is then only what the row or the *)
(* vault keeps for it.                                                     *)
(***************************************************************************)
EXTENDS ConversationMessages, WellFoundedInduction, TLAPS

-----------------------------------------------------------------------------
(* The inductive invariant *)

\* The commands of a part of the alarm and the awaits of its handler.
PartOK(r) ==
    \/ r.at \in Parts \cup {"idle"} /\ r.phase = "idle"
    \/ /\ r.phase = "command" /\ r.cmd \in Erasures
       /\ r.at \in {"destroy", "destroyed", "attest", "commit", "flush"}
    \/ /\ r.phase = "message" /\ r.cmd \in Members
       /\ r.at \in {"attest", "commit", "flush"}
    \/ /\ r.phase = "reaction" /\ r.cmd \in Erasures
       /\ r.at \in {"destroy", "destroyed", "attest", "commit", "flush"}
    \/ /\ r.phase = "reaction" /\ r.cmd \in Contents \cup Retractions \cup Restores
       /\ r.at \in {"authorize", "authorize2", "refresh", "claim", "claim2", "release",
                    "released", "attest", "commit", "reclaim", "finalize", "finalized", "flush"}
    \/ /\ r.phase = "reacted" /\ r.cmd \in Toggles
       /\ r.at \in {"authorize", "authorize2", "attest", "commit", "flush"}
    \/ /\ r.phase = "ledger" /\ r.cmd \in Contents
       /\ r.at \in {"reclaim", "finalize", "finalized"}
    \/ r.phase = "tail" /\ r.at = "flush"

\* The commands each await is for.
AwaitFor(at, c) ==
    /\ at = "admit" => c \in Edits
    /\ at \in {"stage", "staged", "claim", "claim2", "release", "released",
               "reclaim", "finalize", "finalized", "refinalize"} => c \in Contents
    /\ at = "read" => c \in Restores
    /\ at = "refresh" => c \in Retractions
    /\ at \in {"authorize", "authorize2"} => c \in Commands \ Members
    /\ at = "decide" => c \in Commands
    /\ at \in {"attest", "commit"} => c \in Commands \cup Erasures

AwaitOK(r) == AwaitFor(r.at, r.cmd)

\* A client never handles an erasure, and has no part of the alarm to return to.
ClientOK(r) == r.at \in Awaits \cup {"idle"} /\ r.phase = "idle" /\ r.cmd \notin Erasures

Final(v) == v.status \in {"finalized", "destroyed"}

\* What handler h relies on: the row of the erasure it destroys for, and the
\* finalized content whose row it is about to drop.
HandlerOK(h, r, rows, v) ==
    /\ AwaitOK(r)
    /\ h \in Clients => ClientOK(r)
    /\ h = Alarm => PartOK(r)
    /\ r.at \in {"destroy", "destroyed"} =>
         rows["message"] # None /\ rows["message"].cmd = r.cmd
    /\ r.at = "finalized" => Final(v[r.cmd])

\* The rows of a pending table are its own, and only an erasure is ever an intent.
TableOK(t, row) ==
    row # None =>
        /\ TableOf(row.cmd) = t
        /\ row.step = "intent" => row.cmd \in Erasures

\* A pending command finds at its commit what it was decided on.
RowOK(c, m, v, fin, past) ==
    /\ c \in Posts => m[c].status = "absent"
    /\ c \in Edits => m[MessageOf(c)].version # 0 /\ m[MessageOf(c)].version + 1 = v[c].version
    /\ c \in Retractions => m[MessageOf(c)].status = "active"
    /\ c \in Erasures => /\ m[MessageOf(c)].status = "retracted"
                         /\ m[MessageOf(c)].retraction = c[2]
                         /\ c[2] \in past
                         /\ fin \cap ContentsOf(MessageOf(c)) = {}

\* A retracted Message, and only that, has its retraction.
MessageOK(p, m) ==
    /\ m.retraction # None <=> m.status = "retracted"
    /\ m.retraction # None => Target[m.retraction] = p
    /\ m.status \in {"active", "retracted"} => m.version # 0

\* Only staging gives content its version.
ContentOK(v) == v.status = "none" => v.version = 0

\* Committed content is in the ledger until it is final.
LedgerOK(res, fin, v) == \A c \in Contents : c \in res /\ c \notin fin => Final(v[c])

Shape ==
    /\ TypeOK
    /\ \A h \in Handlers : HandlerOK(h, run[h], pending, vault)
    /\ \A t \in Tables : TableOK(t, pending[t])

Locked ==
    /\ OnePending
    /\ PendingIsNext
    /\ \A t \in Tables : pending[t] # None =>
         RowOK(pending[t].cmd, messages, vault, finalization, over)

Recorded ==
    /\ \A p \in Posts : MessageOK(p, messages[p])
    /\ \A c \in Contents : ContentOK(vault[c])
    /\ \A i \in 1..Len(journal) : journal[i] \in results
    /\ LedgerOK(results, finalization, vault)
    /\ ScheduleMatches
    /\ ErasureIsDue
    /\ ProjectedIsFinal

\* The row of a part of the alarm is gone, or the one its handler found.
Mine(r, row) ==
    row # None => row.cmd = r.cmd /\ (r.cmd \in Erasures \/ r.next = row.next)

\* The awaits after the commit.
Done == {"reclaim", "finalize", "finalized", "flush"}

\* While nothing has armed the alarm since it began, its parts leave no work
\* behind: rows is what the tables hold, fin the ledger, e and n the cursors.
Tidy(r, rows, fin, e, n) ==
    /\ r.at = "idle" => (\A t \in Tables : rows[t] = None) /\ fin = {} /\ e = n
    /\ r.phase = "message" => Mine(r, rows["command"])
    /\ r.at \in {"message", "reaction", "ledger", "tail"}
         \/ r.phase \in {"reaction", "ledger", "tail"} => rows["command"] = None
    /\ r.phase = "reaction" => Mine(r, rows["message"])
    /\ r.at \in {"reaction", "ledger", "tail"} \/ r.phase \in {"ledger", "tail"}
         => rows["message"] = None
    /\ r.phase = "reacted" => Mine(r, rows["reaction"])
    /\ r.at \in Done /\ r.phase = "message" => rows["command"] = None
    /\ r.at \in Done /\ r.phase = "reaction" => rows["message"] = None
    /\ r.at \in Done /\ r.phase = "reacted" => rows["reaction"] = None
    /\ r.at \in {"reacted", "ledger", "tail"} \/ r.phase \in {"ledger", "tail"}
         => rows["reaction"] = None
    /\ r.at = "ledger" => fin \subseteq r.todo
    /\ r.phase = "ledger" => fin \subseteq r.todo \cup {r.cmd}
    /\ r.at = "tail" \/ r.phase = "tail" => fin = {}
    /\ r.at = "tail" => e = n

Armed ==
    /\ ~up => run[Alarm].at = "idle"
    /\ alarm = "off" /\ up =>
         /\ Tidy(run[Alarm], pending, finalization, enqueued, Len(journal))
         /\ run[Alarm].at = "idle" => ~Scheduled

RecordInv == Shape /\ Locked /\ Recorded

ConversationInv == RecordInv /\ Armed

\* Content the vault's collector will not take.
Fenced(v) == Final(v) \/ (v.status = "prepared" /\ v.claimed = 1)

\* Without a revocation nobody releases a fence, and a handler that has claimed
\* its content for the second time still has it fenced at its commit.
FenceKept ==
    /\ allowed
    /\ \A h \in Handlers : run[h].at # "release"
    /\ \A h \in Handlers : run[h].at \in {"authorize2", "commit"} /\ run[h].cmd \in Contents
                           => Fenced(vault[run[h].cmd])
    /\ \A c \in Contents : c \in results => Fenced(vault[c])

\* Without a content command nobody handles one.
NoContentHandled ==
    /\ \A h \in Handlers : run[h].cmd \notin Contents /\ run[h].todo = {}
    /\ \A t \in Tables : pending[t] # None => pending[t].cmd \notin Contents
    /\ finalization = {}

FenceInv ==
    /\ "revoke" \notin env.load.faults => FenceKept
    /\ env.load.commands \cap Contents = {} => NoContentHandled

-----------------------------------------------------------------------------
(* Names and records *)

\* Every command has one kind, and its kind decides its table.
LEMMA TableFacts ==
    /\ \A c \in Contents \cup Retractions \cup Restores \cup Erasures : TableOf(c) = "message"
    /\ \A c \in Toggles : TableOf(c) = "reaction"
    /\ \A c \in Members : TableOf(c) = "command"
    /\ \A c : TableOf(c) \in Tables
<1>1. \A c \in Contents \cup Retractions \cup Restores \cup Erasures : c \notin Members \cup Toggles
  BY NamesAssumption DEF Commands, Contents
<1>2. \A c \in Toggles : c \notin Members
  BY NamesAssumption
<1> QED BY <1>1, <1>2 DEF TableOf, Tables

\* The kinds are disjoint.
LEMMA KindFacts ==
    /\ \A c \in Erasures : c \notin Commands
    /\ \A c \in Members : c \notin Contents \cup Retractions \cup Restores \cup Toggles
    /\ \A c \in Toggles : c \notin Contents \cup Retractions \cup Restores
    /\ \A c \in Restores : c \notin Contents \cup Retractions
    /\ \A c \in Retractions : c \notin Contents
    /\ \A c \in Edits : c \notin Posts
BY NamesAssumption DEF Commands, Contents

\* An erasure names its retraction, and every command but a member's a Message.
LEMMA MessageFacts ==
    /\ \A c \in Erasures : c[2] \in Retractions /\ MessageOf(c) = Target[c[2]]
    /\ \A r \in Retractions : Erasure(r) \in Erasures /\ Erasure(r)[2] = r
    /\ \A c \in Erasures : c = Erasure(c[2])
    /\ \A c \in Posts : MessageOf(c) = c
    /\ \A c \in Edits \cup Retractions \cup Restores \cup Toggles : MessageOf(c) = Target[c]
    /\ \A c \in Contents \cup Retractions \cup Restores \cup Toggles \cup Erasures : MessageOf(c) \in Posts
<1>1. \A c \in Erasures : c[2] \in Retractions /\ c = Erasure(c[2])
  BY DEF Erasures, Erasure
<1>2. \A r \in Retractions : Erasure(r) \in Erasures /\ Erasure(r)[2] = r
  BY DEF Erasures, Erasure
<1>3. \A c \in Erasures : c \notin Posts
  BY NamesAssumption DEF Commands, Contents
<1>4. \A c \in Edits \cup Retractions \cup Restores \cup Toggles : c \notin Posts /\ c \notin Erasures
  BY NamesAssumption DEF Commands, Contents
<1>5. \A c \in Erasures : MessageOf(c) = Target[c[2]]
  BY <1>1, <1>3 DEF MessageOf
<1>6. \A c \in Posts : MessageOf(c) = c
  BY DEF MessageOf
<1>7. \A c \in Edits \cup Retractions \cup Restores \cup Toggles : MessageOf(c) = Target[c]
  BY <1>4 DEF MessageOf
<1>8. \A c \in Contents \cup Retractions \cup Restores \cup Toggles \cup Erasures : MessageOf(c) \in Posts
  BY <1>1, <1>5, <1>6, <1>7, NamesAssumption DEF Contents
<1> QED BY <1>1, <1>2, <1>5, <1>6, <1>7, <1>8

\* The types of everything but the handlers.
TypeRest ==
    /\ pending \in [Tables -> Row \cup {None}]
    /\ journal \in Seq(Commands \cup Erasures)
    /\ results \subseteq Commands \cup Erasures
    /\ messages \in [Posts -> MessageState]
    /\ finalization \subseteq Contents
    /\ schedule \in [Posts -> Retractions \cup {None}]
    /\ enqueued \in 0..Len(journal)
    /\ alarm \in {"off", "asked", "armed"}
    /\ up \in BOOLEAN /\ allowed \in BOOLEAN
    /\ vault \in [Contents -> ContentState]
    /\ tombstones \in [Posts -> Retractions \cup {None}]
    /\ over \subseteq Retractions
    /\ env \in [load : Workloads, left : Nat] /\ env.left <= env.load.limit

\* TypeOK in two parts.
LEMMA TypeParts == TypeOK <=> TypeRest /\ run \in [Handlers -> HandlerState]
BY DEF TypeOK, TypeRest, cursor

\* The state a handler returns to fits every table and every vault.
LEMMA ReturnState ==
    ASSUME Shape, NEW h \in Handlers, NEW rows, NEW v
    PROVE  LET r == [Idle EXCEPT !.at = run[h].phase, !.todo = run[h].todo]
           IN  r \in HandlerState /\ HandlerOK(h, r, rows, v)
<1> DEFINE r == [Idle EXCEPT !.at = run[h].phase, !.todo = run[h].todo]
<1>1. run[h] \in HandlerState /\ HandlerOK(h, run[h], pending, vault)
  BY TypeParts DEF Shape
<1>2. /\ r \in HandlerState
      /\ r.at = run[h].phase /\ r.cmd = None /\ r.phase = "idle"
  BY <1>1 DEF HandlerState, Idle, Places
<1>3. None \notin Erasures
  BY NamesAssumption
<1>4. r.at \in Parts \cup {"idle"} /\ (h \in Clients => r.at = "idle")
  <2>1. CASE h = Alarm
    BY <1>1, <1>2, <2>1, NamesAssumption DEF HandlerOK, PartOK, Parts
  <2>2. CASE h \in Clients
    BY <1>1, <1>2, <2>2 DEF HandlerOK, ClientOK
  <2> QED BY <2>1, <2>2 DEF Handlers
<1> HIDE DEF r
<1>5. AwaitOK(r)
  BY <1>4 DEF AwaitOK, AwaitFor, Parts
<1> QED BY <1>2, <1>3, <1>4, <1>5 DEF HandlerOK, ClientOK, PartOK, Parts, r

\* So does an idle handler.
LEMMA IdleState ==
    ASSUME NEW h \in Handlers, NEW rows, NEW v
    PROVE  Idle \in HandlerState /\ HandlerOK(h, Idle, rows, v)
<1>1. Idle \in HandlerState /\ Idle.at = "idle" /\ Idle.phase = "idle" /\ Idle.cmd = None
  BY DEF Idle, HandlerState, Places
<1>2. None \notin Erasures
  BY NamesAssumption
<1> QED BY <1>1, <1>2 DEF HandlerOK, AwaitOK, AwaitFor, ClientOK, PartOK

\* What one handler's step must keep for the others: the row of an erasure is
\* the alarm's alone, and final content stays final.
Respects(h) ==
    /\ h # Alarm /\ pending["message"] # None /\ pending["message"].cmd \in Erasures
         => pending'["message"] # None /\ pending'["message"].cmd = pending["message"].cmd
    /\ \A c \in Contents : Final(vault[c]) => Final(vault'[c])

\* A step that moves one handler and respects the others keeps the shape.
LEMMA Frame ==
    ASSUME Shape, NEW h \in Handlers, NEW r \in HandlerState, Become(h, r),
           HandlerOK(h, r, pending', vault'), TypeRest', Respects(h),
           \A t \in Tables : TableOK(t, pending'[t])
    PROVE  Shape'
<1>1. run' \in [Handlers -> HandlerState]
  BY TypeParts DEF Shape, Become
<1>2. ASSUME NEW g \in Handlers PROVE HandlerOK(g, run'[g], pending', vault')
  <2>1. CASE g = h
    BY <2>1, TypeParts DEF Shape, Become
  <2>2. CASE g # h
    <3>1. run'[g] = run[g] /\ run[g] \in HandlerState /\ HandlerOK(g, run[g], pending, vault)
      BY <2>2, TypeParts DEF Shape, Become
    <3>2. run[g].at = "finalized" => run[g].cmd \in Contents
      BY <3>1 DEF HandlerOK, AwaitOK, AwaitFor
    <3>3. run[g].at = "finalized" => Final(vault'[run[g].cmd])
      BY <3>1, <3>2 DEF HandlerOK, Respects
    <3>4. run[g].at \in {"destroy", "destroyed"} => g = Alarm /\ run[g].cmd \in Erasures
      BY <3>1 DEF HandlerOK, ClientOK, Awaits, PartOK, Parts, Handlers
    <3>5. run[g].at \in {"destroy", "destroyed"} =>
             pending'["message"] # None /\ pending'["message"].cmd = run[g].cmd
      BY <2>2, <3>1, <3>4 DEF HandlerOK, Respects
    <3> QED BY <3>1, <3>3, <3>5 DEF HandlerOK
  <2> QED BY <2>1, <2>2
<1>3. TypeOK'
  BY <1>1 DEF TypeOK, TypeRest, cursor
<1> QED BY <1>2, <1>3 DEF Shape

\* Goto changes where the handler is.
LEMMA GotoState ==
    ASSUME Shape, NEW h \in Handlers, NEW at \in Places
    PROVE  LET r == [run[h] EXCEPT !.at = at]
           IN  /\ Goto(h, at) <=> Become(h, r)
               /\ r \in HandlerState
               /\ r.at = at /\ r.cmd = run[h].cmd /\ r.next = run[h].next /\ r.base = run[h].base
               /\ r.seen = run[h].seen /\ r.phase = run[h].phase /\ r.todo = run[h].todo
<1>1. run \in [Handlers -> HandlerState]
  BY TypeParts DEF Shape
<1> QED BY <1>1 DEF HandlerState, Goto, Become

\* A step that changes one handler, and perhaps the alarm.
LEMMA RunStep ==
    ASSUME Shape, NEW h \in Handlers, NEW r \in HandlerState, Become(h, r),
           HandlerOK(h, r, pending, vault),
           UNCHANGED <<tables, enqueued, up, world>>, alarm' \in {"off", "asked", "armed"}
    PROVE  Shape'
<1>1. TypeRest'
  BY TypeParts DEF Shape, TypeRest, tables, world
<1>2. HandlerOK(h, r, pending', vault') /\ Respects(h)
  BY DEF Respects, tables, world
<1>3. \A t \in Tables : TableOK(t, pending'[t])
  BY DEF Shape, tables
<1> QED BY <1>1, <1>2, <1>3, Frame

\* The alarm's values.
LEMMA AlarmValues ==
    ASSUME Shape
    PROVE  /\ alarm \in {"off", "asked", "armed"}
           /\ ScheduleAlarm => alarm' \in {"asked", "armed"}
           /\ \A rows : ScheduleNext(rows) => alarm' \in {"off", "asked", "armed"}
BY TypeParts DEF Shape, TypeRest, ScheduleAlarm, ScheduleNext

\* A request that ends without an effect.
LEMMA ReturnStep ==
    ASSUME Shape, NEW h \in Handlers, Return(h),
           UNCHANGED <<tables, enqueued, up, world>>, alarm' \in {"off", "asked", "armed"}
    PROVE  Shape'
<1> DEFINE r == [Idle EXCEPT !.at = run[h].phase, !.todo = run[h].todo]
<1>1. r \in HandlerState /\ HandlerOK(h, r, pending, vault)
  BY ReturnState
<1>2. Become(h, r)
  BY DEF Return
<1> HIDE DEF r
<1> QED BY <1>1, <1>2, RunStep

\* An exception leaves the handler idle.
LEMMA IdleStep ==
    ASSUME Shape, NEW h \in Handlers, Become(h, Idle),
           UNCHANGED <<tables, enqueued, up, world>>, alarm' \in {"off", "asked", "armed"}
    PROVE  Shape'
BY IdleState, RunStep

\* What a handler reads of its command.
LEMMA ReadTypes ==
    ASSUME Shape, NEW c \in Commands \cup Erasures
    PROVE  NextOf(c) \in Nat /\ Seen(c) \in {"new", "pending", "done"}
<1>1. pending \in [Tables -> Row \cup {None}] /\ TableOf(c) \in Tables
  BY TypeParts, TableFacts DEF Shape, TypeRest
<1> QED BY <1>1 DEF NextOf, Seen, IsPending, Row

\* A request enters its handler.
LEMMA EnterStep ==
    ASSUME Shape, NEW h \in Clients, NEW c \in Commands, NEW at \in Awaits \ {"finalized"},
           NEW base \in Nat, AwaitFor(at, c), Enter(h, c, at, base), NoChange
    PROVE  Shape'
<1> DEFINE r == [Idle EXCEPT !.at = at, !.cmd = c, !.next = NextOf(c),
                             !.base = base, !.seen = Seen(c)]
<1>1. NextOf(c) \in Nat /\ Seen(c) \in {"new", "pending", "done"}
  BY ReadTypes
<1>2. r \in HandlerState /\ r.at = at /\ r.cmd = c /\ r.phase = "idle"
  BY <1>1 DEF HandlerState, Idle, Places
<1>3. h \in Handlers /\ h # Alarm /\ c \notin Erasures
  BY NamesAssumption DEF Handlers
<1>4. Become(h, r)
  BY DEF Enter
<1> HIDE DEF r
<1>5. HandlerOK(h, r, pending, vault)
  BY <1>2, <1>3 DEF HandlerOK, AwaitOK, ClientOK, Awaits
<1> QED BY <1>2, <1>3, <1>4, <1>5, RunStep, AlarmValues DEF NoChange

\* The types of the Messages and of the content.
LEMMA StateTypes ==
    ASSUME Shape
    PROVE  /\ \A p \in Posts : messages[p] \in MessageState /\ messages[p].version \in Nat
           /\ \A c \in Contents : vault[c] \in ContentState /\ vault[c].version \in Nat
           /\ cursor \in Nat
           /\ \A h \in Handlers : run[h] \in HandlerState /\ HandlerOK(h, run[h], pending, vault)
BY TypeParts DEF Shape, TypeRest, MessageState, ContentState, cursor

\* Every request.
LEMMA RequestShape ==
    ASSUME Shape, NEW h \in Handlers, Request(h)
    PROVE  Shape'
<1>1. ASSUME NEW c \in Posts, PostMessage(h, c) PROVE Shape'
  <2>1. h \in Clients /\ Enter(h, c, "stage", 1) /\ NoChange
    BY <1>1 DEF PostMessage, Accepts
  <2>2. c \in Commands /\ AwaitFor("stage", c)
    BY DEF Commands, Contents, AwaitFor
  <2>3. "stage" \in Awaits \ {"finalized"}
    BY DEF Awaits
  <2> QED BY <2>1, <2>2, <2>3, EnterStep
<1>2. ASSUME NEW c \in Edits, MutateMessage(h, c) PROVE Shape'
  <2>1. h \in Clients /\ Enter(h, c, "admit", messages[Target[c]].version + 1) /\ NoChange
    BY <1>2 DEF MutateMessage
  <2>2. c \in Commands /\ AwaitFor("admit", c)
    BY DEF Commands, Contents, AwaitFor
  <2>3. "admit" \in Awaits \ {"finalized"}
    BY DEF Awaits
  <2>4. messages[Target[c]].version + 1 \in Nat
    BY StateTypes, NamesAssumption
  <2> QED BY <2>1, <2>2, <2>3, <2>4, EnterStep
<1>3. ASSUME NEW c \in Retractions \cup Restores, MutateMessageState(h, c) PROVE Shape'
  <2>1. h \in Clients /\ NoChange
    BY <1>3 DEF MutateMessageState, Accepts
  <2>2. PICK at \in {"authorize", "decide", "read"}, base \in {0, cursor} :
          Enter(h, c, at, base) /\ (at = "read" => c \in Restores)
    BY <1>3 DEF MutateMessageState
  <2>3. c \in Commands /\ AwaitFor(at, c)
    BY <2>2, KindFacts DEF Commands, AwaitFor
  <2>4. at \in Awaits \ {"finalized"} /\ base \in Nat
    BY StateTypes DEF Awaits
  <2> QED BY <2>1, <2>2, <2>3, <2>4, EnterStep
<1>4. ASSUME NEW c \in Toggles, MutateMessageReaction(h, c) PROVE Shape'
  <2>1. h \in Clients /\ NoChange
    BY <1>4 DEF MutateMessageReaction, Accepts
  <2>2. PICK at \in {"authorize", "decide"} : Enter(h, c, at, 0)
    BY <1>4 DEF MutateMessageReaction
  <2>3. c \in Commands /\ AwaitFor(at, c)
    BY <2>2, KindFacts DEF Commands, AwaitFor
  <2>4. at \in Awaits \ {"finalized"}
    BY DEF Awaits
  <2> QED BY <2>1, <2>2, <2>3, <2>4, EnterStep
<1>5. ASSUME NEW c \in Members, Execute(h, c) PROVE Shape'
  <2>1. h \in Clients /\ NoChange
    BY <1>5 DEF Execute, Accepts
  <2>2. PICK at \in {"attest", "decide"} : Enter(h, c, at, cursor)
    BY <1>5 DEF Execute
  <2>3. c \in Commands /\ AwaitFor(at, c)
    BY <2>2 DEF Commands, AwaitFor
  <2>4. at \in Awaits \ {"finalized"} /\ cursor \in Nat
    BY StateTypes DEF Awaits
  <2> QED BY <2>1, <2>2, <2>3, <2>4, EnterStep
<1> QED BY <1>1, <1>2, <1>3, <1>4, <1>5 DEF Request

-----------------------------------------------------------------------------
(* Steps that change a handler only *)

\* A handler at one of the awaits of a request is a client's or, for some, the
\* alarm's.
LEMMA AtFacts ==
    ASSUME Shape, NEW h \in Handlers
    PROVE  /\ h = Alarm \/ h \in Clients
           /\ h \in Clients => h # Alarm
           /\ run[h] \in HandlerState
           /\ AwaitFor(run[h].at, run[h].cmd)
           /\ h \in Clients => ClientOK(run[h])
           /\ h = Alarm => PartOK(run[h])
BY StateTypes, NamesAssumption DEF HandlerOK, AwaitOK, Handlers

\* A step to another await of the same part.
LEMMA MoveOn ==
    ASSUME Shape, NEW h \in Handlers, NEW r \in HandlerState, NEW rows, NEW v,
           r.cmd = run[h].cmd, r.phase = run[h].phase,
           AwaitFor(r.at, r.cmd),
           r.at \in Awaits \ {"finalized"},
           h = Alarm => PartOK(r)
    PROVE  HandlerOK(h, r, rows, v)
<1>1. h \in Clients => ClientOK(r)
  BY AtFacts DEF ClientOK
<1>2. r.at # "finalized" /\ r.at \notin {"destroy", "destroyed"}
  BY DEF Awaits
<1> QED BY <1>1, <1>2 DEF HandlerOK, AwaitOK

\* mutateMessage after its authorization.
LEMMA AdmitEditShape ==
    ASSUME Shape, NEW h \in Handlers, AdmitEdit(h)
    PROVE  Shape'
<1> DEFINE c == run[h].cmd
<1>1. c \in Edits /\ h \in Clients /\ c \in Commands /\ c \in Contents
  BY AtFacts DEF AdmitEdit, AwaitFor, PartOK, Parts, Commands, Contents
<1>2. NoChange /\ alarm' \in {"off", "asked", "armed"} /\ UNCHANGED <<tables, enqueued, up, world>>
  BY AlarmValues DEF AdmitEdit, NoChange
<1>3. CASE Return(h)
  BY <1>2, <1>3, ReturnStep
<1>4. ASSUME NEW base \in {run[h].base, vault[c].version}, Enter(h, c, "stage", base)
      PROVE  Shape'
  <2>1. base \in Nat
    BY <1>1, StateTypes DEF HandlerState
  <2>2. AwaitFor("stage", c) /\ "stage" \in Awaits \ {"finalized"}
    BY <1>1 DEF AwaitFor, Awaits
  <2> QED BY <1>1, <1>2, <1>4, <2>1, <2>2, EnterStep
<1> QED BY <1>3, <1>4 DEF AdmitEdit

\* readAuthorized.
LEMMA ReadContentShape ==
    ASSUME Shape, NEW h \in Handlers, ReadContent(h)
    PROVE  Shape'
<1> DEFINE r == [run[h] EXCEPT !.at = "decide", !.base = cursor]
<1>1. run[h].cmd \in Restores /\ h \in Clients
  BY AtFacts DEF ReadContent, AwaitFor, PartOK, Parts
<1>2. alarm' \in {"off", "asked", "armed"} /\ UNCHANGED <<tables, enqueued, up, world>>
  BY AlarmValues DEF ReadContent, NoChange
<1>3. r \in HandlerState /\ r.at = "decide" /\ r.cmd = run[h].cmd /\ r.phase = run[h].phase
  BY StateTypes DEF HandlerState, Places, Awaits
<1>4. CASE Become(h, r)
  <2> HIDE DEF r
  <2>1. HandlerOK(h, r, pending, vault)
    BY <1>1, <1>3, MoveOn, AtFacts DEF AwaitFor, Awaits, Commands
  <2> QED BY <1>2, <1>3, <1>4, <2>1, RunStep
<1>5. CASE Return(h)
  BY <1>2, <1>5, ReturnStep
<1> QED BY <1>4, <1>5 DEF ReadContent

\* A Goto to an await that has no obligations of its own.
LEMMA GotoStep ==
    ASSUME Shape, NEW h \in Handlers, NEW at \in Awaits \ {"finalized"}, Goto(h, at),
           AwaitFor(at, run[h].cmd),
           \A r \in HandlerState : h = Alarm /\ r.at = at /\ r.cmd = run[h].cmd
                                    /\ r.phase = run[h].phase => PartOK(r),
           UNCHANGED <<tables, enqueued, up, world>>, alarm' \in {"off", "asked", "armed"}
    PROVE  Shape'
<1> DEFINE r == [run[h] EXCEPT !.at = at]
<1>1. at \in Places
  BY DEF Places
<1>2. /\ Become(h, r)
      /\ r \in HandlerState
      /\ r.at = at /\ r.cmd = run[h].cmd /\ r.phase = run[h].phase
  BY <1>1, GotoState
<1> HIDE DEF r
<1>3. HandlerOK(h, r, pending, vault)
  BY <1>2, MoveOn
<1> QED BY <1>2, <1>3, RunStep

\* After staging.
LEMMA StagedShape ==
    ASSUME Shape, NEW h \in Handlers, Staged(h)
    PROVE  Shape'
<1> DEFINE c == run[h].cmd
<1>1. c \in Contents /\ h \in Clients /\ h # Alarm
  BY AtFacts DEF Staged, AwaitFor, PartOK, Parts
<1>2. alarm' \in {"off", "asked", "armed"} /\ UNCHANGED <<tables, enqueued, up, world>>
  BY AlarmValues DEF Staged, NoChange
<1>3. ASSUME NEW at \in {"reclaim", "refinalize"}, Goto(h, at) PROVE Shape'
  BY <1>1, <1>2, <1>3, GotoStep DEF AwaitFor, Awaits
<1>4. CASE Return(h)
  BY <1>2, <1>4, ReturnStep
<1>5. ASSUME NEW at \in {"authorize", "decide"}, NEW next \in Nat, NEW base \in Nat,
             Become(h, [run[h] EXCEPT !.at = at, !.next = next, !.base = base])
      PROVE  Shape'
  <2> DEFINE r == [run[h] EXCEPT !.at = at, !.next = next, !.base = base]
  <2>1. r \in HandlerState /\ r.at = at /\ r.cmd = c /\ r.phase = run[h].phase
    BY StateTypes DEF HandlerState, Places, Awaits
  <2> HIDE DEF r
  <2>2. AwaitFor(at, c) /\ at \in Awaits \ {"finalized"}
    BY <1>1, KindFacts DEF AwaitFor, Awaits, Commands
  <2>3. HandlerOK(h, r, pending, vault)
    BY <1>1, <2>1, <2>2, MoveOn
  <2> QED BY <1>2, <1>5, <2>1, <2>3, RunStep DEF r
<1>6. NextOf(c) \in Nat /\ run[h].next \in Nat /\ run[h].base \in Nat /\ cursor \in Nat
  BY <1>1, ReadTypes, StateTypes DEF HandlerState, Commands
<1>7. ASSUME NEW next \in Nat, Become(h, [run[h] EXCEPT !.at = "authorize", !.next = next])
      PROVE  Shape'
  <2>1. [run[h] EXCEPT !.at = "authorize", !.next = next]
          = [run[h] EXCEPT !.at = "authorize", !.next = next, !.base = run[h].base]
    BY StateTypes DEF HandlerState
  <2> QED BY <1>5, <1>6, <1>7, <2>1
<1>8. ASSUME Become(h, [run[h] EXCEPT !.at = "decide", !.base = cursor])
      PROVE  Shape'
  <2>1. [run[h] EXCEPT !.at = "decide", !.base = cursor]
          = [run[h] EXCEPT !.at = "decide", !.next = run[h].next, !.base = cursor]
    BY StateTypes DEF HandlerState
  <2> QED BY <1>5, <1>6, <1>8, <2>1
<1>9. \/ \E at \in {"reclaim", "refinalize"} : Goto(h, at)
      \/ Return(h)
      \/ \E next \in Nat : Become(h, [run[h] EXCEPT !.at = "authorize", !.next = next])
      \/ Become(h, [run[h] EXCEPT !.at = "decide", !.base = cursor])
  BY <1>6 DEF Staged
<1> QED BY <1>3, <1>4, <1>7, <1>8, <1>9

\* The attestation service.
LEMMA AttestShape ==
    ASSUME Shape, NEW h \in Handlers, Attest(h)
    PROVE  Shape'
<1> DEFINE c == run[h].cmd
<1>1. alarm' \in {"off", "asked", "armed"} /\ UNCHANGED <<tables, enqueued, up, world>>
  BY AlarmValues DEF Attest, NoChange
<1>2. /\ run[h].at = "attest" /\ c \in Commands \cup Erasures
      /\ h = Alarm => PartOK(run[h])
  BY AtFacts DEF Attest, AwaitFor
<1>3. PICK at \in {"claim2", "commit", "authorize2"} :
        /\ Goto(h, at)
        /\ at = "claim2" <=> c \in Contents
        /\ at = "commit" <=> c \in Members \cup Erasures
  BY <1>2, KindFacts DEF Attest, Commands
<1>4. AwaitFor(at, c) /\ at \in Awaits \ {"finalized"}
  BY <1>2, <1>3, KindFacts DEF AwaitFor, Awaits, Commands
<1>5. \A r \in HandlerState : h = Alarm /\ r.at = at /\ r.cmd = c /\ r.phase = run[h].phase => PartOK(r)
  BY <1>2, <1>3, KindFacts DEF PartOK, Parts, Commands
<1> QED BY <1>1, <1>3, <1>4, <1>5, GotoStep

\* Another handler committed the same command.
LEMMA CommitExistingShape ==
    ASSUME Shape, NEW h \in Handlers, CommitExisting(h)
    PROVE  Shape'
<1> DEFINE c == run[h].cmd
<1>1. alarm' \in {"off", "asked", "armed"} /\ UNCHANGED <<tables, enqueued, up, world>>
  BY AlarmValues DEF CommitExisting, Publish
<1>2. run[h].at = "commit" /\ (h = Alarm => PartOK(run[h]))
  BY AtFacts DEF CommitExisting
<1>3. CASE Return(h)
  BY <1>1, <1>3, ReturnStep
<1>4. ASSUME NEW at \in {"reclaim", "flush"}, Goto(h, at), at = "reclaim" => c \in Contents
      PROVE  Shape'
  <2>1. AwaitFor(at, c) /\ at \in Awaits \ {"finalized"}
    BY <1>4 DEF AwaitFor, Awaits
  <2>2. \A r \in HandlerState : h = Alarm /\ r.at = at /\ r.cmd = c /\ r.phase = run[h].phase => PartOK(r)
    BY <1>2, <1>4, KindFacts DEF PartOK, Parts, Commands
  <2> QED BY <1>1, <1>4, <2>1, <2>2, GotoStep
<1> QED BY <1>3, <1>4 DEF CommitExisting, Publish

\* The transaction did not commit.
LEMMA CommitRefusedShape ==
    ASSUME Shape, NEW h \in Handlers, CommitRefused(h)
    PROVE  Shape'
<1>1. alarm' \in {"off", "asked", "armed"} /\ UNCHANGED <<tables, enqueued, up, world>>
  BY AlarmValues DEF CommitRefused, Throw, MarkFailure
<1>2. Return(h) \/ Become(h, Idle)
  BY DEF CommitRefused, Throw, MarkFailure
<1> QED BY <1>1, <1>2, ReturnStep, IdleStep

\* Alarm is a handler and never a client.
LEMMA AlarmIsHandler == Alarm \in Handlers /\ Alarm \notin Clients
BY NamesAssumption DEF Handlers

\* The alarm between two of its parts.
LEMMA PartStep ==
    ASSUME Shape, NEW r \in HandlerState, Become(Alarm, r),
           r.at \in Parts \cup {"idle"}, r.phase = "idle",
           UNCHANGED <<tables, enqueued, up, world>>, alarm' \in {"off", "asked", "armed"}
    PROVE  Shape'
<1>1. HandlerOK(Alarm, r, pending, vault)
  BY AlarmIsHandler DEF HandlerOK, AwaitOK, AwaitFor, PartOK, Parts
<1> QED BY <1>1, AlarmIsHandler, RunStep

\* A Goto between two parts.
LEMMA PartGoto ==
    ASSUME Shape, NEW part \in Parts, Goto(Alarm, part), run[Alarm].at \in Parts \cup {"idle"},
           UNCHANGED <<tables, enqueued, up, world>>, alarm' \in {"off", "asked", "armed"}
    PROVE  Shape'
<1> DEFINE r == [run[Alarm] EXCEPT !.at = part]
<1>1. part \in Places
  BY DEF Places
<1>2. Become(Alarm, r) /\ r \in HandlerState /\ r.at = part /\ r.phase = run[Alarm].phase
  BY <1>1, AlarmIsHandler, GotoState
<1>3. run[Alarm].phase = "idle"
  BY AtFacts, AlarmIsHandler DEF PartOK, Parts
<1> HIDE DEF r
<1> QED BY <1>2, <1>3, PartStep

\* resumePending: the command's row.
LEMMA ResumeCommandShape ==
    ASSUME Shape, ResumeCommand
    PROVE  Shape'
<1>1. alarm' \in {"off", "asked", "armed"} /\ UNCHANGED <<tables, enqueued, up, world>>
  BY AlarmValues DEF ResumeCommand, NoChange
<1>2. CASE pending["command"] = None
  BY <1>1, <1>2, PartGoto DEF ResumeCommand, Parts
<1>3. CASE pending["command"] # None
  <2> DEFINE c == pending["command"].cmd
             r == [Idle EXCEPT !.at = "attest", !.cmd = c, !.next = NextOf(c), !.phase = "message"]
  <2>1. c \in Commands \cup Erasures /\ TableOf(c) = "command"
    BY <1>3, TypeParts DEF Shape, TypeRest, Tables, TableOK, Row
  <2>2. c \in Members
    BY <2>1, TableFacts DEF Commands
  <2>3. Become(Alarm, r) /\ r \in HandlerState /\ r.at = "attest" /\ r.cmd = c /\ r.phase = "message"
    <3>1. NextOf(c) \in Nat
      BY <2>1, ReadTypes
    <3>2. Resume(c, "attest", "message")
      BY <1>3 DEF ResumeCommand
    <3> QED BY <2>1, <3>1, <3>2 DEF Resume, HandlerState, Idle, Places, Awaits, Parts
  <2> HIDE DEF r
  <2>4. HandlerOK(Alarm, r, pending, vault)
    BY <2>1, <2>2, <2>3, AlarmIsHandler DEF HandlerOK, AwaitOK, AwaitFor, PartOK
  <2> QED BY <1>1, <2>3, <2>4, AlarmIsHandler, RunStep
<1> QED BY <1>2, <1>3

\* The reaction's row, or the ledger.
LEMMA ResumeReactionShape ==
    ASSUME Shape, ResumeReaction
    PROVE  Shape'
<1>1. alarm' \in {"off", "asked", "armed"} /\ UNCHANGED <<tables, enqueued, up, world>>
  BY AlarmValues DEF ResumeReaction, NoChange
<1>2. CASE pending["reaction"] = None
  <2> DEFINE r == [run[Alarm] EXCEPT !.at = "ledger", !.todo = finalization]
  <2>1. Become(Alarm, r) /\ run[Alarm].at = "reaction"
    BY <1>2 DEF ResumeReaction
  <2>2. run[Alarm] \in HandlerState /\ finalization \subseteq Contents /\ run[Alarm].phase = "idle"
    BY <2>1, AtFacts, AlarmIsHandler, TypeParts DEF Shape, TypeRest, PartOK, Parts
  <2>3. r \in HandlerState /\ r.at = "ledger" /\ r.phase = "idle"
    BY <2>2 DEF HandlerState, Places, Parts
  <2> HIDE DEF r
  <2> QED BY <1>1, <2>1, <2>3, PartStep DEF Parts
<1>3. CASE pending["reaction"] # None
  <2> DEFINE c == pending["reaction"].cmd
             r == [Idle EXCEPT !.at = "authorize", !.cmd = c, !.next = NextOf(c), !.phase = "reacted"]
  <2>1. c \in Commands \cup Erasures /\ TableOf(c) = "reaction"
    BY <1>3, TypeParts DEF Shape, TypeRest, Tables, TableOK, Row
  <2>2. c \in Toggles /\ c \notin Members
    BY <2>1, TableFacts, KindFacts DEF Commands
  <2>3. Become(Alarm, r) /\ r \in HandlerState /\ r.at = "authorize" /\ r.cmd = c /\ r.phase = "reacted"
    <3>1. NextOf(c) \in Nat
      BY <2>1, ReadTypes
    <3>2. Resume(c, "authorize", "reacted")
      BY <1>3 DEF ResumeReaction
    <3> QED BY <2>1, <3>1, <3>2 DEF Resume, HandlerState, Idle, Places, Awaits, Parts
  <2> HIDE DEF r
  <2>4. HandlerOK(Alarm, r, pending, vault)
    BY <2>1, <2>2, <2>3, AlarmIsHandler DEF HandlerOK, AwaitOK, AwaitFor, PartOK, Commands
  <2> QED BY <1>1, <2>3, <2>4, AlarmIsHandler, RunStep
<1> QED BY <1>2, <1>3

\* The beginning and the end of the alarm.
LEMMA AlarmEndsShape ==
    ASSUME Shape, FireAlarm \/ AfterReaction \/ FinishAlarm
    PROVE  Shape'
<1>1. alarm' \in {"off", "asked", "armed"} /\ UNCHANGED <<tables, enqueued, up, world>>
  BY AlarmValues DEF FireAlarm, AfterReaction, FinishAlarm
<1>2. CASE FireAlarm
  BY <1>1, <1>2, PartGoto DEF FireAlarm, Parts
<1>3. CASE Become(Alarm, Idle)
  BY <1>1, <1>3, IdleStep, AlarmIsHandler
<1> QED BY <1>2, <1>3 DEF AfterReaction, FinishAlarm

\* The ledger's rows, one after the other.
LEMMA ReconcileContentFinalizationsShape ==
    ASSUME Shape, ReconcileContentFinalizations
    PROVE  Shape'
<1> DEFINE todo == run[Alarm].todo
           flush == [Idle EXCEPT !.at = "flush", !.phase = "tail"]
           take(c) == [Idle EXCEPT !.at = "reclaim", !.cmd = c, !.phase = "ledger", !.todo = todo \ {c}]
<1>1. alarm' \in {"off", "asked", "armed"} /\ UNCHANGED <<tables, enqueued, up, world>>
  BY AlarmValues DEF ReconcileContentFinalizations
<1>2. CASE Become(Alarm, flush)
  <2>1. flush \in HandlerState /\ flush.at = "flush" /\ flush.phase = "tail"
    BY DEF HandlerState, Idle, Places, Awaits, Parts
  <2> HIDE DEF flush
  <2>2. HandlerOK(Alarm, flush, pending, vault)
    BY <2>1, AlarmIsHandler DEF HandlerOK, AwaitOK, AwaitFor, PartOK
  <2> QED BY <1>1, <1>2, <2>1, <2>2, AlarmIsHandler, RunStep
<1>3. ASSUME NEW c \in todo, Become(Alarm, take(c)) PROVE Shape'
  <2> DEFINE r == take(c)
  <2>1. todo \subseteq Contents
    BY AtFacts, AlarmIsHandler DEF HandlerState
  <2>2. r \in HandlerState /\ r.at = "reclaim" /\ r.cmd = c /\ r.phase = "ledger" /\ c \in Contents
    BY <2>1 DEF HandlerState, Idle, Places, Awaits, Parts, Commands
  <2> HIDE DEF r
  <2>3. HandlerOK(Alarm, r, pending, vault)
    BY <2>2, AlarmIsHandler DEF HandlerOK, AwaitOK, AwaitFor, PartOK
  <2> QED BY <1>1, <1>3, <2>2, <2>3, AlarmIsHandler, RunStep DEF r
<1> QED BY <1>2, <1>3 DEF ReconcileContentFinalizations

-----------------------------------------------------------------------------
(* The vault *)

\* What every operation of the vault keeps.
VaultMove(v) ==
    /\ v \in [Contents -> ContentState]
    /\ \A c \in Contents :
         /\ vault[c].status # "none" => v[c].version = vault[c].version
         /\ Final(vault[c]) => Final(v[c])
         /\ ContentOK(vault[c]) => ContentOK(v[c])

\* The claim's two values.
LEMMA Bits == 0 \in 0..1 /\ 1 \in 0..1
OBVIOUS

\* The content vault's RPCs.
LEMMA VaultOps ==
    ASSUME Shape, NEW c \in Contents
    PROVE  /\ VaultMove(vault)
           /\ \A n \in Nat : VaultMove(AfterStage(c, n))
           /\ VaultMove(AfterClaim(c))
           /\ CanClaim(c) => VaultMove(AfterFinalize(c)) /\ Final(AfterFinalize(c)[c])
           /\ VaultMove(AfterRelease(c))
           /\ \A p \in Posts : VaultMove(AfterDestroy(p))
<1>1. vault \in [Contents -> ContentState]
  BY TypeParts DEF Shape, TypeRest
<1>2. VaultMove(vault)
  BY <1>1 DEF VaultMove
<1>3. ASSUME NEW n \in Nat PROVE VaultMove(AfterStage(c, n))
  <2> DEFINE e == [NoContent EXCEPT !.status = "prepared", !.version = n]
  <2>1. NoContent \in ContentState
    BY Bits DEF NoContent, ContentState
  <2>2. e \in ContentState /\ e.status = "prepared"
    BY <2>1 DEF ContentState
  <2> HIDE DEF e
  <2> QED BY <1>1, <1>2, <2>2 DEF VaultMove, AfterStage, Final, ContentOK, e
<1>4. VaultMove(AfterClaim(c))
  BY <1>1 DEF VaultMove, AfterClaim, Final, ContentOK, ContentState
<1>5. CanClaim(c) => VaultMove(AfterFinalize(c)) /\ Final(AfterFinalize(c)[c])
  <2> DEFINE e == [vault[c] EXCEPT !.status = "finalized", !.claimed = 0]
  <2>1. e \in ContentState /\ e.status = "finalized" /\ e.version = vault[c].version
    BY <1>1, Bits DEF ContentState
  <2> HIDE DEF e
  <2> QED BY <1>1, <2>1 DEF VaultMove, CanClaim, AfterFinalize, Final, ContentOK, e
<1>6. VaultMove(AfterRelease(c))
  BY <1>1 DEF VaultMove, AfterRelease, Final, ContentOK, ContentState
<1>7. ASSUME NEW p \in Posts PROVE VaultMove(AfterDestroy(p))
  <2> DEFINE e(d) == [vault[d] EXCEPT !.status = "destroyed", !.claimed = 0]
  <2>1. \A d \in Contents : /\ e(d) \in ContentState /\ e(d).status = "destroyed"
                            /\ e(d).version = vault[d].version
    BY <1>1, Bits DEF ContentState
  <2> HIDE DEF e
  <2>2. AfterDestroy(p) \in [Contents -> ContentState]
    BY <1>1, <2>1 DEF AfterDestroy, e
  <2>3. \A d \in Contents : AfterDestroy(p)[d] \in {vault[d], e(d)}
    BY <1>1 DEF AfterDestroy, e
  <2> QED BY <2>1, <2>2, <2>3 DEF VaultMove, Final, ContentOK
<1> QED BY <1>2, <1>3, <1>4, <1>5, <1>6, <1>7

\* A call of the vault moves its handler.
LEMMA VaultStep ==
    ASSUME Shape, NEW h \in Handlers, NEW r \in HandlerState, Become(h, r),
           HandlerOK(h, r, pending, vault'), VaultMove(vault'),
           UNCHANGED <<tables, enqueued, up, tombstones, allowed, over, env>>,
           alarm' \in {"off", "asked", "armed"}
    PROVE  Shape'
<1>1. TypeRest'
  BY TypeParts DEF Shape, TypeRest, tables, VaultMove
<1>2. HandlerOK(h, r, pending', vault') /\ Respects(h)
  BY DEF Respects, tables, VaultMove
<1>3. \A t \in Tables : TableOK(t, pending'[t])
  BY DEF Shape, tables
<1> QED BY <1>1, <1>2, <1>3, Frame

\* A call of the vault after which the handler returns.
LEMMA VaultReturn ==
    ASSUME Shape, NEW h \in Handlers, Return(h), VaultMove(vault'),
           UNCHANGED <<tables, enqueued, up, tombstones, allowed, over, env>>,
           alarm' \in {"off", "asked", "armed"}
    PROVE  Shape'
<1> DEFINE r == [Idle EXCEPT !.at = run[h].phase, !.todo = run[h].todo]
<1>1. r \in HandlerState /\ HandlerOK(h, r, pending, vault')
  BY ReturnState
<1>2. Become(h, r)
  BY DEF Return
<1> HIDE DEF r
<1> QED BY <1>1, <1>2, VaultStep

\* A call of the vault after which the handler goes on.
LEMMA VaultGoto ==
    ASSUME Shape, NEW h \in Handlers, NEW at \in Awaits, Goto(h, at),
           at = "finalized" => Final(vault'[run[h].cmd]),
           AwaitFor(at, run[h].cmd),
           \A r \in HandlerState : h = Alarm /\ r.at = at /\ r.cmd = run[h].cmd
                                    /\ r.phase = run[h].phase => PartOK(r),
           VaultMove(vault'),
           UNCHANGED <<tables, enqueued, up, tombstones, allowed, over, env>>,
           alarm' \in {"off", "asked", "armed"}
    PROVE  Shape'
<1> DEFINE r == [run[h] EXCEPT !.at = at]
<1>1. at \in Places
  BY DEF Places
<1>2. /\ Become(h, r)
      /\ r \in HandlerState
      /\ r.at = at /\ r.cmd = run[h].cmd /\ r.phase = run[h].phase
  BY <1>1, GotoState
<1> HIDE DEF r
<1>3. h \in Clients => ClientOK(r)
  BY <1>2, AtFacts DEF ClientOK
<1>4. HandlerOK(h, r, pending, vault')
  BY <1>2, <1>3 DEF HandlerOK, AwaitOK, Awaits
<1> QED BY <1>2, <1>4, VaultStep

\* Every call of the vault but the destruction.
LEMMA VaultCallShape ==
    ASSUME Shape, NEW h \in Handlers,
           Stage(h) \/ Claim(h) \/ ReleaseClaim(h) \/ Reclaim(h) \/ Finalize(h) \/ Refinalize(h)
    PROVE  Shape'
<1> DEFINE c == run[h].cmd
<1>1. /\ run[h].at \in {"stage", "claim", "claim2", "release", "reclaim", "finalize", "refinalize"}
      /\ c \in Contents
      /\ h = Alarm => PartOK(run[h])
  BY AtFacts DEF Stage, Claim, ReleaseClaim, Reclaim, Finalize, Refinalize, AwaitFor
<1>2. /\ UNCHANGED <<tables, enqueued, up, tombstones, allowed, over, env>>
      /\ alarm' \in {"off", "asked", "armed"}
  BY AlarmValues DEF Stage, Claim, ReleaseClaim, Reclaim, Finalize, Refinalize, MarkFailure, Publish
<1>3. CASE vault' = vault /\ Return(h)
  BY <1>1, <1>2, <1>3, VaultReturn, VaultOps
<1>4. ASSUME NEW at \in {"staged", "attest", "authorize2", "released", "finalize", "finalized", "flush"},
             Goto(h, at), VaultMove(vault'),
             at = "finalized" => Final(vault'[c]),
             at \in {"attest", "authorize2"} => run[h].at \in {"claim", "claim2"},
             at = "staged" => run[h].at = "stage",
             at = "released" => run[h].at = "release",
             at = "finalize" => run[h].at = "reclaim",
             at = "finalized" => run[h].at = "finalize",
             at = "flush" => run[h].at = "refinalize"
      PROVE  Shape'
  <2>1. AwaitFor(at, c) /\ at \in Awaits
    BY <1>1, KindFacts DEF AwaitFor, Awaits, Commands
  <2>2. \A r \in HandlerState : h = Alarm /\ r.at = at /\ r.cmd = c /\ r.phase = run[h].phase => PartOK(r)
    <3> SUFFICES ASSUME NEW r \in HandlerState, h = Alarm, r.at = at, r.cmd = c, r.phase = run[h].phase
                 PROVE  PartOK(r)
      OBVIOUS
    <3>1. run[h].phase \in {"reaction", "ledger"} /\ run[h].at \notin {"stage", "refinalize"}
      BY <1>1, KindFacts DEF PartOK, Parts, Commands
    <3>2. run[h].phase = "ledger" => run[h].at \in {"reclaim", "finalize"}
      BY <1>1, KindFacts DEF PartOK, Parts, Commands
    <3> QED BY <1>1, <1>4, <3>1, <3>2 DEF PartOK
  <2> QED BY <1>2, <1>4, <2>1, <2>2, VaultGoto
<1>5. CASE Stage(h)
  <2>1. CanStage(c, run[h].base) => Goto(h, "staged") /\ vault' = AfterStage(c, run[h].base)
    BY <1>5 DEF Stage
  <2>2. run[h].base \in Nat
    BY AtFacts DEF HandlerState
  <2>3. CASE CanStage(c, run[h].base)
    BY <1>1, <1>4, <1>5, <2>1, <2>2, <2>3, VaultOps DEF Stage
  <2>4. CASE ~CanStage(c, run[h].base)
    BY <1>3, <1>5, <2>4 DEF Stage
  <2> QED BY <2>3, <2>4
<1>6. CASE Claim(h)
  <2>1. CASE CanClaim(c)
    <3>1. PICK at \in {"attest", "authorize2"} : Goto(h, at)
      BY <1>6, <2>1 DEF Claim
    <3>2. VaultMove(vault')
      BY <1>1, <1>6, <2>1, VaultOps DEF Claim
    <3> QED BY <1>4, <1>6, <3>1, <3>2 DEF Claim
  <2>2. CASE ~CanClaim(c)
    BY <1>3, <1>6, <2>2 DEF Claim, MarkFailure
  <2> QED BY <2>1, <2>2
<1>7. CASE ReleaseClaim(h)
  <2>1. CASE CanRelease(c)
    <3>1. Goto(h, "released") /\ VaultMove(vault') /\ run[h].at = "release"
      BY <1>1, <1>7, <2>1, VaultOps DEF ReleaseClaim
    <3> QED BY <1>4, <3>1
  <2>2. CASE ~CanRelease(c)
    BY <1>3, <1>7, <2>2 DEF ReleaseClaim, MarkFailure
  <2> QED BY <2>1, <2>2
<1>8. CASE Reclaim(h)
  <2>1. CASE CanClaim(c)
    <3>1. Goto(h, "finalize") /\ VaultMove(vault') /\ run[h].at = "reclaim"
      BY <1>1, <1>8, <2>1, VaultOps DEF Reclaim
    <3> QED BY <1>4, <3>1
  <2>2. CASE ~CanClaim(c)
    BY <1>3, <1>8, <2>2 DEF Reclaim, MarkFailure
  <2> QED BY <2>1, <2>2
<1>9. CASE Finalize(h)
  <2>1. CASE CanClaim(c)
    <3>1. Goto(h, "finalized") /\ vault' = AfterFinalize(c) /\ run[h].at = "finalize"
      BY <1>1, <1>9, <2>1 DEF Finalize
    <3>2. VaultMove(vault') /\ Final(vault'[c])
      BY <1>1, <2>1, <3>1, VaultOps
    <3> QED BY <1>4, <3>1, <3>2
  <2>2. CASE ~CanClaim(c)
    BY <1>3, <1>9, <2>2 DEF Finalize, MarkFailure
  <2> QED BY <2>1, <2>2
<1>10. CASE Refinalize(h)
  <2>1. CASE CanClaim(c)
    <3>1. Goto(h, "flush") /\ VaultMove(vault') /\ run[h].at = "refinalize"
      BY <1>1, <1>10, <2>1, VaultOps DEF Refinalize, Publish
    <3> QED BY <1>4, <3>1
  <2>2. CASE ~CanClaim(c)
    BY <1>3, <1>10, <2>2 DEF Refinalize
  <2> QED BY <2>1, <2>2
<1> QED BY <1>5, <1>6, <1>7, <1>8, <1>9, <1>10

-----------------------------------------------------------------------------
(* The pending tables *)

\* A step on the pending rows, and perhaps the schedule.
LEMMA PendingStep ==
    ASSUME Shape, NEW h \in Handlers, NEW r \in HandlerState, Become(h, r),
           HandlerOK(h, r, pending', vault),
           pending' \in [Tables -> Row \cup {None}],
           \A t \in Tables : TableOK(t, pending'[t]),
           h # Alarm /\ pending["message"] # None /\ pending["message"].cmd \in Erasures
             => pending'["message"] # None /\ pending'["message"].cmd = pending["message"].cmd,
           schedule' \in [Posts -> Retractions \cup {None}],
           UNCHANGED <<journal, results, messages, finalization, enqueued, up, world>>,
           alarm' \in {"off", "asked", "armed"}
    PROVE  Shape'
<1>1. TypeRest'
  BY TypeParts DEF Shape, TypeRest, world
<1>2. HandlerOK(h, r, pending', vault') /\ Respects(h)
  BY DEF Respects, world
<1> QED BY <1>1, <1>2, Frame

\* Rows that only go.
Drop == \A t \in Tables : pending'[t] \in {pending[t], None}

\* abandonPendingMessage removes the row of its own command only.
LEMMA AbandonFacts ==
    ASSUME Shape, NEW c \in Commands \cup Erasures, Abandon(c)
    PROVE  /\ pending' \in [Tables -> Row \cup {None}]
           /\ Drop
           /\ \A t \in Tables : TableOK(t, pending'[t])
           /\ \A t \in Tables : pending'[t] # pending[t] => pending[t].cmd = c
<1>1. pending \in [Tables -> Row \cup {None}] /\ TableOf(c) \in Tables
  BY TypeParts, TableFacts DEF Shape, TypeRest
<1>2. \A t \in Tables : TableOK(t, pending[t]) /\ TableOK(t, None)
  BY DEF Shape, TableOK
<1> QED BY <1>1, <1>2 DEF Abandon, IsPending, Drop

\* Rows that go while their handler moves on or returns.
LEMMA AbandonStep ==
    ASSUME Shape, NEW h \in Handlers, NEW r \in HandlerState, Become(h, r),
           HandlerOK(h, r, pending', vault), run[h].cmd \in Commands \cup Erasures,
           Abandon(run[h].cmd), run[h].cmd \in Erasures => h = Alarm,
           UNCHANGED <<journal, results, messages, finalization, schedule, enqueued, up, world>>,
           alarm' \in {"off", "asked", "armed"}
    PROVE  Shape'
<1> DEFINE c == run[h].cmd
<1>1. /\ pending' \in [Tables -> Row \cup {None}]
      /\ \A t \in Tables : TableOK(t, pending'[t])
      /\ \A t \in Tables : pending'[t] # pending[t] => pending[t].cmd = c
  BY AbandonFacts
<1>2. "message" \in Tables
  BY DEF Tables
<1>3. h # Alarm /\ pending["message"] # None /\ pending["message"].cmd \in Erasures
        => pending'["message"] # None /\ pending'["message"].cmd = pending["message"].cmd
  BY <1>1, <1>2
<1>4. schedule' \in [Posts -> Retractions \cup {None}]
  BY TypeParts DEF Shape, TypeRest
<1> QED BY <1>1, <1>3, <1>4, PendingStep

\* The same with a return.
LEMMA AbandonReturn ==
    ASSUME Shape, NEW h \in Handlers, Return(h), run[h].cmd \in Commands \cup Erasures,
           Abandon(run[h].cmd), run[h].cmd \in Erasures => h = Alarm,
           UNCHANGED <<journal, results, messages, finalization, schedule, enqueued, up, world>>,
           alarm' \in {"off", "asked", "armed"}
    PROVE  Shape'
<1> DEFINE r == [Idle EXCEPT !.at = run[h].phase, !.todo = run[h].todo]
<1>1. r \in HandlerState /\ HandlerOK(h, r, pending', vault)
  BY ReturnState
<1>2. Become(h, r)
  BY DEF Return
<1> HIDE DEF r
<1> QED BY <1>1, <1>2, AbandonStep

\* The three outcomes of a decision.
LEMMA DecideShape ==
    ASSUME Shape, NEW h \in Handlers, Decide(h)
    PROVE  Shape'
<1> DEFINE c == run[h].cmd
           next == (IF c \in Posts \cup Toggles THEN cursor ELSE run[h].base) + 1
           r == [run[h] EXCEPT !.at = IF c \in Members THEN "attest" ELSE "authorize", !.next = next]
           row == [cmd |-> c, next |-> next, step |-> "signed"]
<1>1. c \in Commands /\ h \in Clients /\ h # Alarm /\ c \notin Erasures
  BY AtFacts, KindFacts DEF Decide, AwaitFor, PartOK, Parts
<1>2. next \in Nat
  BY StateTypes DEF HandlerState
<1>3. /\ r \in HandlerState /\ r.cmd = c /\ r.phase = run[h].phase
      /\ r.at = IF c \in Members THEN "attest" ELSE "authorize"
  <2> DEFINE a == IF c \in Members THEN "attest" ELSE "authorize"
  <2>1. a \in Places
    BY DEF Places, Awaits
  <2> HIDE DEF a, next
  <2>2. [run[h] EXCEPT !.at = a, !.next = next] \in HandlerState
    BY <1>2, <2>1, StateTypes DEF HandlerState
  <2>3. /\ [run[h] EXCEPT !.at = a, !.next = next].cmd = c
        /\ [run[h] EXCEPT !.at = a, !.next = next].phase = run[h].phase
        /\ [run[h] EXCEPT !.at = a, !.next = next].at = a
    BY StateTypes DEF HandlerState
  <2> QED BY <2>2, <2>3 DEF a
<1>4. row \in Row
  BY <1>1, <1>2 DEF Row
<1>5. Become(h, r) /\ pending' = [pending EXCEPT ![TableOf(c)] = row]
  BY DEF Decide, Insert
<1>6. pending \in [Tables -> Row \cup {None}] /\ TableOf(c) \in Tables
  BY TypeParts, TableFacts DEF Shape, TypeRest
<1>7. pending["message"] = None
  BY <1>6 DEF Decide, Admitted, Busy, Tables
<1>8. TableOK(TableOf(c), row)
  BY DEF TableOK
<1>9. \A t \in Tables : TableOK(t, pending'[t])
  BY <1>5, <1>6, <1>8 DEF Shape
<1>10. /\ UNCHANGED <<journal, results, messages, finalization, enqueued, up, world>>
       /\ alarm' \in {"off", "asked", "armed"}
       /\ schedule' \in [Posts -> Retractions \cup {None}]
  BY AlarmValues, TypeParts DEF Decide, Shape, TypeRest
<1> HIDE DEF r, row, next
<1>11. HandlerOK(h, r, pending', vault)
  BY <1>1, <1>3, MoveOn DEF AwaitFor, Awaits
<1>12. pending' \in [Tables -> Row \cup {None}]
  BY <1>4, <1>5, <1>6
<1> QED BY <1>3, <1>5, <1>7, <1>9, <1>10, <1>11, <1>12, PendingStep

\* A restore of an active Message is recorded as done.
LEMMA DecideIdempotentShape ==
    ASSUME Shape, NEW h \in Handlers, DecideIdempotent(h)
    PROVE  Shape'
<1> DEFINE r == [Idle EXCEPT !.at = run[h].phase, !.todo = run[h].todo]
<1>1. r \in HandlerState /\ HandlerOK(h, r, pending', vault')
  BY ReturnState
<1>2. Become(h, r)
  BY DEF DecideIdempotent, Return
<1>3. run[h].cmd \in Commands
  BY DEF DecideIdempotent, Unchanged, Commands
<1> HIDE DEF r
<1>4. TypeRest'
  BY <1>3, TypeParts DEF Shape, TypeRest, DecideIdempotent, world
<1>5. Respects(h) /\ \A t \in Tables : TableOK(t, pending'[t])
  BY DEF Respects, DecideIdempotent, world, Shape
<1> QED BY <1>1, <1>2, <1>4, <1>5, Frame

\* A refused decision.
LEMMA DecideRefusedShape ==
    ASSUME Shape, NEW h \in Handlers, DecideRefused(h)
    PROVE  Shape'
BY ReturnStep, AlarmValues DEF DecideRefused, NoChange

\* authorizePendingMessage and its kind.
LEMMA AuthorizeShape ==
    ASSUME Shape, NEW h \in Handlers, Authorize(h)
    PROVE  Shape'
<1> DEFINE c == run[h].cmd
           a == CASE run[h].at = "authorize2"  -> "commit"
                  [] run[h].at = "authorize" /\ c \in Contents -> "claim"
                  [] run[h].at = "authorize" /\ c \in Retractions -> "refresh"
                  [] OTHER -> "attest"
           r == [run[h] EXCEPT !.at = a, !.base = cursor]
<1>1. /\ run[h].at \in {"authorize", "authorize2"} /\ c \in Commands \ Members
      /\ h = Alarm => PartOK(run[h])
  BY AtFacts DEF Authorize, AwaitFor
<1>2. /\ UNCHANGED <<journal, results, messages, finalization, schedule, enqueued, up, world>>
      /\ alarm' \in {"off", "asked", "armed"}
  BY AlarmValues DEF Authorize
<1>3. CASE Become(h, r) /\ UNCHANGED pending
  <2>1. /\ a \in {"commit", "claim", "refresh", "attest"}
        /\ a = "claim" => c \in Contents
        /\ a = "refresh" => c \in Retractions
        /\ c \in Toggles => a \in {"commit", "attest"}
    BY <1>1, KindFacts DEF Commands
  <2> HIDE DEF a
  <2>2. r \in HandlerState /\ r.at = a /\ r.cmd = c /\ r.phase = run[h].phase
    BY <2>1, StateTypes DEF HandlerState, Places, Awaits
  <2> HIDE DEF r
  <2>3. AwaitFor(a, c) /\ a \in Awaits \ {"finalized"}
    BY <1>1, <2>1 DEF AwaitFor, Awaits
  <2>4. h = Alarm => PartOK(r)
    BY <1>1, <2>1, <2>2, KindFacts DEF PartOK, Parts, Commands
  <2>5. HandlerOK(h, r, pending, vault)
    BY <2>2, <2>3, <2>4, MoveOn
  <2> QED BY <1>2, <1>3, <2>2, <2>5, RunStep DEF tables
<1>4. CASE Goto(h, "release") /\ c \in Contents /\ UNCHANGED pending
  <2>1. \A q \in HandlerState : h = Alarm /\ q.at = "release" /\ q.cmd = c /\ q.phase = run[h].phase => PartOK(q)
    BY <1>1, <1>4, KindFacts DEF PartOK, Parts, Commands
  <2>2. AwaitFor("release", c) /\ "release" \in Awaits \ {"finalized"}
    BY <1>4 DEF AwaitFor, Awaits
  <2> QED BY <1>2, <1>4, <2>1, <2>2, GotoStep DEF tables
<1>5. CASE Abandon(c) /\ Return(h)
  BY <1>1, <1>2, <1>5, KindFacts, AbandonReturn
<1> QED BY <1>3, <1>4, <1>5 DEF Authorize

\* refreshPendingRetraction.
LEMMA RefreshShape ==
    ASSUME Shape, NEW h \in Handlers, RefreshPendingRetraction(h)
    PROVE  Shape'
<1> DEFINE c == run[h].cmd
           r == [run[h] EXCEPT !.at = "attest", !.next = pending'["message"].next]
<1>1. c \in Retractions /\ c \in Commands /\ c \notin Erasures /\ (h = Alarm => PartOK(run[h]))
  BY AtFacts, KindFacts DEF RefreshPendingRetraction, AwaitFor, Commands
<1>2. /\ UNCHANGED <<journal, results, messages, finalization, schedule, enqueued, up, world>>
      /\ alarm' \in {"off", "asked", "armed"}
      /\ schedule' \in [Posts -> Retractions \cup {None}]
  BY AlarmValues, TypeParts DEF RefreshPendingRetraction, Shape, TypeRest
<1>3. CASE Abandon(c) /\ Return(h)
  BY <1>1, <1>2, <1>3, AbandonReturn
<1>4. CASE allowed /\ IsPending(c)
  <2>1. /\ pending' = IF cursor = run[h].base
                      THEN [pending EXCEPT !["message"].next = cursor + 1] ELSE pending
        /\ Become(h, r) /\ run[h].at = "refresh"
    BY <1>4 DEF RefreshPendingRetraction
  <2>2. pending \in [Tables -> Row \cup {None}] /\ "message" \in Tables /\ pending["message"] \in Row
        /\ pending["message"].cmd = c /\ pending["message"] # None
    BY <1>1, <1>4, TypeParts, TableFacts DEF Shape, TypeRest, IsPending, Tables
  <2>3. /\ pending' \in [Tables -> Row \cup {None}] /\ pending'["message"] \in Row
        /\ pending'["message"].cmd = c /\ pending'["message"].step = pending["message"].step
        /\ \A t \in Tables \ {"message"} : pending'[t] = pending[t]
    BY <2>1, <2>2, StateTypes DEF Row
  <2>4. r \in HandlerState /\ r.at = "attest" /\ r.cmd = c /\ r.phase = run[h].phase
    BY <2>3, StateTypes DEF HandlerState, Places, Awaits, Row
  <2> HIDE DEF r
  <2>5. HandlerOK(h, r, pending', vault)
    <3>1. h = Alarm => PartOK(r)
      BY <1>1, <2>1, <2>4, KindFacts DEF PartOK, Parts, Commands
    <3> QED BY <1>1, <2>4, <3>1, MoveOn DEF AwaitFor, Awaits
  <2>6. \A t \in Tables : TableOK(t, pending'[t])
    <3>1. TableOK("message", pending'["message"])
      BY <2>2, <2>3 DEF Shape, TableOK
    <3> QED BY <2>3, <3>1 DEF Shape
  <2> QED BY <1>1, <1>2, <2>1, <2>2, <2>3, <2>4, <2>5, <2>6, PendingStep
<1> QED BY <1>3, <1>4 DEF RefreshPendingRetraction

\* The answer to a release.
LEMMA ReleasedShape ==
    ASSUME Shape, NEW h \in Handlers, Released(h)
    PROVE  Shape'
<1>1. run[h].cmd \in Contents /\ run[h].cmd \in Commands /\ run[h].cmd \notin Erasures
  BY AtFacts, KindFacts DEF Released, AwaitFor, Commands
<1>2. /\ UNCHANGED <<journal, results, messages, finalization, schedule, enqueued, up, world>>
      /\ alarm' \in {"off", "asked", "armed"}
      /\ Abandon(run[h].cmd) /\ Return(h)
  BY AlarmValues DEF Released
<1> QED BY <1>1, <1>2, AbandonReturn

\* Only the alarm destroys.
LEMMA DestroyFacts ==
    ASSUME Shape, NEW h \in Handlers, run[h].at \in {"destroy", "destroyed"}
    PROVE  /\ h = Alarm
           /\ run[h].cmd \in Erasures /\ run[h].phase \in {"command", "reaction"}
           /\ IsPending(run[h].cmd) /\ TableOf(run[h].cmd) = "message"
           /\ pending["message"] \in Row /\ pending["message"].cmd = run[h].cmd
<1>1. h = Alarm
  BY AtFacts DEF ClientOK, Awaits
<1>2. run[h].cmd \in Erasures /\ run[h].phase \in {"command", "reaction"}
  BY <1>1, AtFacts DEF PartOK, Parts
<1>3. pending["message"] # None /\ pending["message"].cmd = run[h].cmd
  BY StateTypes DEF HandlerOK
<1>4. TableOf(run[h].cmd) = "message" /\ "message" \in Tables
  BY <1>2, TableFacts DEF Tables
<1>5. pending["message"] \in Row
  BY <1>3, <1>4, TypeParts DEF Shape, TypeRest
<1> QED BY <1>1, <1>2, <1>3, <1>4, <1>5 DEF IsPending

\* The intent of an erasure becomes the event to sign.
LEMMA PrepareErasureShape ==
    ASSUME Shape, NEW h \in Handlers, PrepareErasure(h)
    PROVE  Shape'
<1> DEFINE c == run[h].cmd
           r == [run[h] EXCEPT !.at = "attest", !.next = cursor + 1]
           row == [cmd |-> c, next |-> cursor + 1, step |-> "signed"]
<1>1. h = Alarm /\ c \in Erasures /\ run[h].phase \in {"command", "reaction"} /\ TableOf(c) = "message"
  BY DestroyFacts DEF PrepareErasure
<1>2. /\ UNCHANGED <<journal, results, messages, finalization, schedule, enqueued, up, world>>
      /\ alarm' \in {"off", "asked", "armed"}
      /\ schedule' \in [Posts -> Retractions \cup {None}]
  BY AlarmValues, TypeParts DEF PrepareErasure, Shape, TypeRest
<1>3. CASE Abandon(c) /\ Return(h)
  BY <1>1, <1>2, <1>3, AbandonReturn
<1>4. CASE UNCHANGED pending /\ Return(h)
  BY <1>2, <1>4, ReturnStep DEF tables
<1>5. CASE Insert(c, cursor + 1, "signed") /\ Become(h, r)
  <2>1. r \in HandlerState /\ r.at = "attest" /\ r.cmd = c /\ r.phase = run[h].phase
    <3>1. cursor + 1 \in Nat
      BY StateTypes
    <3> QED BY <3>1, StateTypes DEF HandlerState, Places, Awaits
  <2> HIDE DEF r
  <2>2. HandlerOK(h, r, pending', vault)
    <3>1. h = Alarm => PartOK(r)
      BY <1>1, <2>1 DEF PartOK
    <3> QED BY <1>1, <2>1, <3>1, MoveOn DEF AwaitFor, Awaits
  <2>3. row \in Row
    BY <1>1, StateTypes DEF Row
  <2>4. pending' = [pending EXCEPT !["message"] = row]
    BY <1>1, <1>5 DEF Insert
  <2>5. pending \in [Tables -> Row \cup {None}]
    BY TypeParts DEF Shape, TypeRest
  <2>6. TableOK("message", row)
    BY <1>1 DEF TableOK
  <2> HIDE DEF row
  <2>7. pending' \in [Tables -> Row \cup {None}] /\ \A t \in Tables : TableOK(t, pending'[t])
    BY <2>3, <2>4, <2>5, <2>6 DEF Shape
  <2> QED BY <1>1, <1>2, <1>5, <2>1, <2>2, <2>7, PendingStep
<1> QED BY <1>3, <1>4, <1>5 DEF PrepareErasure

\* resumePendingMessage.
LEMMA ResumePendingMessageShape ==
    ASSUME Shape, ResumePendingMessage
    PROVE  Shape'
<1> DEFINE c == pending["message"].cmd
<1>1. /\ UNCHANGED <<journal, results, messages, finalization, schedule, enqueued, up, world>>
      /\ alarm' \in {"off", "asked", "armed"}
      /\ run[Alarm].at = "message"
  BY AlarmValues DEF ResumePendingMessage
<1>2. CASE Goto(Alarm, "reaction") /\ UNCHANGED pending
  BY <1>1, <1>2, PartGoto DEF Parts, tables
<1>3. CASE pending["message"] # None
  <2>1. c \in Commands \cup Erasures /\ TableOf(c) = "message"
    BY <1>3, TypeParts DEF Shape, TypeRest, Tables, TableOK, Row
  <2>2. c \in Contents \cup Retractions \cup Restores \cup Erasures /\ NextOf(c) \in Nat
    BY <2>1, TableFacts, ReadTypes DEF Commands
  <2>3. ASSUME NEW at \in {"authorize", "attest", "destroy"}, Resume(c, at, "reaction"), UNCHANGED pending,
               at = "authorize" <=> c \notin Erasures
        PROVE  Shape'
    <3> DEFINE r == [Idle EXCEPT !.at = at, !.cmd = c, !.next = NextOf(c), !.phase = "reaction"]
    <3>1. Become(Alarm, r) /\ r \in HandlerState /\ r.at = at /\ r.cmd = c /\ r.phase = "reaction"
      BY <2>1, <2>2, <2>3 DEF Resume, HandlerState, Idle, Places, Awaits, Parts
    <3> HIDE DEF r
    <3>2. AwaitFor(at, c)
      BY <2>2, <2>3, KindFacts DEF AwaitFor, Commands
    <3>3. PartOK(r)
      BY <2>2, <2>3, <3>1 DEF PartOK
    <3>4. HandlerOK(Alarm, r, pending, vault)
      BY <1>3, <3>1, <3>2, <3>3, AlarmIsHandler DEF HandlerOK, AwaitOK
    <3> QED BY <1>1, <2>3, <3>1, <3>4, RunStep, AlarmIsHandler DEF tables
  <2>4. CASE Abandon(c) /\ Goto(Alarm, "reaction")
    <3> DEFINE r == [run[Alarm] EXCEPT !.at = "reaction"]
    <3>1. Become(Alarm, r) /\ r \in HandlerState /\ r.at = "reaction" /\ r.phase = run[Alarm].phase
      BY <2>4, AlarmIsHandler, GotoState DEF Places, Parts
    <3>2. run[Alarm].phase = "idle"
      BY <1>1, AtFacts, AlarmIsHandler DEF PartOK, Parts
    <3> HIDE DEF r
    <3>3. HandlerOK(Alarm, r, pending', vault)
      BY <3>1, <3>2, AlarmIsHandler DEF HandlerOK, AwaitOK, AwaitFor, PartOK, Parts
    <3>4. /\ pending' \in [Tables -> Row \cup {None}]
          /\ \A t \in Tables : TableOK(t, pending'[t])
          /\ schedule' \in [Posts -> Retractions \cup {None}]
      BY <1>1, <2>1, <2>4, AbandonFacts, TypeParts DEF Shape, TypeRest
    <3> QED BY <1>1, <3>1, <3>3, <3>4, PendingStep, AlarmIsHandler
  <2>5. \/ \E at \in {"authorize", "attest", "destroy"} :
             Resume(c, at, "reaction") /\ UNCHANGED pending /\ (at = "authorize" <=> c \notin Erasures)
        \/ Abandon(c) /\ Goto(Alarm, "reaction")
    <3>1. pending["message"].step \in {"intent", "signed"}
      BY <1>3, TypeParts DEF Shape, TypeRest, Tables, Row
    <3> QED BY <1>3, <3>1 DEF ResumePendingMessage
  <2> QED BY <2>3, <2>4, <2>5
<1> QED BY <1>2, <1>3 DEF ResumePendingMessage

\* The alarm's first part.
LEMMA ReconcileDueShape ==
    ASSUME Shape, ReconcileDue
    PROVE  Shape'
<1> DEFINE open == [pending EXCEPT !["reaction"] = None]
<1>1. /\ UNCHANGED <<journal, results, messages, finalization, enqueued, up, world>>
      /\ run[Alarm].at = "due"
  BY DEF ReconcileDue
<1>2. alarm' \in {"off", "asked", "armed"}
  BY AlarmValues DEF ReconcileDue
<1>3. /\ pending \in [Tables -> Row \cup {None}]
      /\ schedule \in [Posts -> Retractions \cup {None}]
      /\ \A t \in Tables : TableOK(t, pending[t]) /\ TableOK(t, None)
  BY TypeParts DEF Shape, TypeRest, TableOK
<1>4. open \in [Tables -> Row \cup {None}] /\ \A t \in Tables : TableOK(t, open[t])
  BY <1>3
<1>5. CASE pending' \in {pending, open} /\ Goto(Alarm, "command")
  <2> DEFINE r == [run[Alarm] EXCEPT !.at = "command"]
  <2>1. Become(Alarm, r) /\ r \in HandlerState /\ r.at = "command" /\ r.phase = run[Alarm].phase
    BY <1>5, AlarmIsHandler, GotoState DEF Places, Parts
  <2>2. run[Alarm].phase = "idle"
    BY <1>1, AtFacts, AlarmIsHandler DEF PartOK, Parts
  <2> HIDE DEF r
  <2>3. HandlerOK(Alarm, r, pending', vault)
    BY <2>1, <2>2, AlarmIsHandler DEF HandlerOK, AwaitOK, AwaitFor, PartOK, Parts
  <2>4. schedule' \in [Posts -> Retractions \cup {None}]
    BY <1>3 DEF ReconcileDue
  <2>5. pending' \in [Tables -> Row \cup {None}] /\ \A t \in Tables : TableOK(t, pending'[t])
    BY <1>3, <1>4, <1>5
  <2> QED BY <1>1, <1>2, <2>1, <2>3, <2>4, <2>5, PendingStep, AlarmIsHandler
<1>6. ASSUME NEW p \in DueErasures,
             pending' = [open EXCEPT !["message"] =
                           [cmd |-> Erasure(schedule[p]), next |-> cursor, step |-> "intent"]],
             Become(Alarm, [Idle EXCEPT !.at = "destroy", !.phase = "command",
                                        !.cmd = Erasure(schedule[p])]),
             UNCHANGED <<schedule, alarm>>
      PROVE  Shape'
  <2> DEFINE c == Erasure(schedule[p])
             row == [cmd |-> c, next |-> cursor, step |-> "intent"]
             r == [Idle EXCEPT !.at = "destroy", !.phase = "command", !.cmd = c]
  <2>1. schedule[p] \in Retractions
    BY <1>3 DEF DueErasures
  <2>2. c \in Erasures /\ TableOf(c) = "message"
    BY <2>1, MessageFacts, TableFacts
  <2> HIDE DEF c
  <2>3. row \in Row /\ row # None /\ row.cmd = c
    BY <2>2, StateTypes, NamesAssumption DEF Row
  <2>4. TableOK("message", row)
    BY <2>2 DEF TableOK
  <2>5. pending' = [open EXCEPT !["message"] = row] /\ Become(Alarm, r)
    BY <1>6 DEF c
  <2> HIDE DEF row, open
  <2>6. pending' \in [Tables -> Row \cup {None}] /\ (\A t \in Tables : TableOK(t, pending'[t]))
        /\ pending'["message"] = row
    BY <1>4, <2>3, <2>4, <2>5 DEF Tables
  <2>7. r \in HandlerState /\ r.at = "destroy" /\ r.cmd = c /\ r.phase = "command"
    BY <2>2 DEF HandlerState, Idle, Places, Parts
  <2> HIDE DEF r
  <2>8. HandlerOK(Alarm, r, pending', vault)
    BY <2>2, <2>3, <2>6, <2>7, AlarmIsHandler DEF HandlerOK, AwaitOK, AwaitFor, PartOK
  <2> QED BY <1>1, <1>2, <1>3, <1>6, <2>5, <2>6, <2>7, <2>8, PendingStep, AlarmIsHandler
<1>7. \/ pending' \in {pending, open} /\ Goto(Alarm, "command")
      \/ \E p \in DueErasures :
           /\ pending' = [open EXCEPT !["message"] =
                            [cmd |-> Erasure(schedule[p]), next |-> cursor, step |-> "intent"]]
           /\ Become(Alarm, [Idle EXCEPT !.at = "destroy", !.phase = "command",
                                         !.cmd = Erasure(schedule[p])])
           /\ UNCHANGED <<schedule, alarm>>
  BY Zenon DEF ReconcileDue
<1> QED BY <1>5, <1>6, <1>7

\* The destruction of a generation.
LEMMA DestroyGenerationShape ==
    ASSUME Shape, NEW h \in Handlers, DestroyGeneration(h)
    PROVE  Shape'
<1> DEFINE c == run[h].cmd
           p == MessageOf(c)
<1>1. /\ h = Alarm /\ c \in Erasures /\ run[h].phase \in {"command", "reaction"}
      /\ pending["message"] \in Row /\ pending["message"].cmd = c
  BY DestroyFacts DEF DestroyGeneration
<1>2. /\ UNCHANGED <<tables, enqueued, up, allowed, over, env>>
      /\ alarm' \in {"off", "asked", "armed"}
  BY AlarmValues DEF DestroyGeneration, MarkFailure
<1>3. p \in Posts /\ c[2] \in Retractions
  BY <1>1, MessageFacts
<1>4. CASE tombstones[p] \in {None, c[2]}
  <2> DEFINE r == [run[h] EXCEPT !.at = "destroyed"]
  <2>1. tombstones' = [tombstones EXCEPT ![p] = c[2]] /\ vault' = AfterDestroy(p) /\ Goto(h, "destroyed")
    BY <1>4 DEF DestroyGeneration
  <2>2. Become(h, r) /\ r \in HandlerState /\ r.at = "destroyed" /\ r.cmd = c /\ r.phase = run[h].phase
    BY <2>1, GotoState DEF Places
  <2> HIDE DEF r
  <2>3. /\ vault' \in [Contents -> ContentState]
        /\ \A d \in Contents : Final(vault[d]) => Final(vault'[d])
    <3>1. CASE Contents = {}
      <4>1. vault' = [d \in Contents |-> vault[d]]
        BY <2>1, <3>1 DEF AfterDestroy
      <4> QED BY <3>1, <4>1
    <3>2. CASE Contents # {}
      BY <1>3, <2>1, <3>2, VaultOps DEF VaultMove
    <3> QED BY <3>1, <3>2
  <2>4. TypeRest'
    BY <1>2, <1>3, <2>1, <2>3, TypeParts DEF Shape, TypeRest, tables
  <2>5. HandlerOK(h, r, pending', vault')
    <3>1. pending' = pending /\ pending["message"] # None
      BY <1>1, <1>2, NamesAssumption DEF tables
    <3> QED BY <1>1, <2>2, <3>1, AlarmIsHandler DEF HandlerOK, AwaitOK, AwaitFor, PartOK
  <2>6. Respects(h) /\ \A t \in Tables : TableOK(t, pending'[t])
    BY <1>1, <1>2, <2>3 DEF Respects, tables, Shape
  <2> QED BY <2>2, <2>4, <2>5, <2>6, Frame
<1>5. CASE tombstones[p] \notin {None, c[2]}
  BY <1>2, <1>5, ReturnStep DEF DestroyGeneration, MarkFailure, world
<1> QED BY <1>4, <1>5

-----------------------------------------------------------------------------
(* The ledger and the outbox *)

\* A ledger row is dropped.
LEMMA FinalizedShape ==
    ASSUME Shape, NEW h \in Handlers, Finalized(h)
    PROVE  Shape'
<1> DEFINE back == [Idle EXCEPT !.at = run[h].phase, !.todo = run[h].todo]
           on == [run[h] EXCEPT !.at = "flush"]
<1>1. run[h].at = "finalized" /\ (h = Alarm => PartOK(run[h]))
  BY AtFacts DEF Finalized
<1>2. TypeRest'
  BY TypeParts DEF Shape, TypeRest, Finalized, world
<1>3. Respects(h) /\ \A t \in Tables : TableOK(t, pending'[t])
  BY DEF Respects, Finalized, world, Shape
<1>4. CASE run[h].phase = "ledger"
  <2>1. Become(h, back)
    BY <1>4 DEF Finalized, Return
  <2>2. back \in HandlerState /\ HandlerOK(h, back, pending', vault')
    BY ReturnState
  <2> HIDE DEF back
  <2> QED BY <1>2, <1>3, <2>1, <2>2, Frame
<1>5. CASE run[h].phase # "ledger"
  <2>1. Become(h, on) /\ on \in HandlerState /\ on.at = "flush" /\ on.cmd = run[h].cmd
        /\ on.phase = run[h].phase
    BY <1>5, GotoState DEF Finalized, Places, Awaits
  <2> HIDE DEF on
  <2>2. h = Alarm => PartOK(on)
    BY <1>1, <1>5, <2>1 DEF PartOK, Parts
  <2>3. HandlerOK(h, on, pending', vault')
    BY <2>1, <2>2, MoveOn DEF AwaitFor, Awaits
  <2> QED BY <1>2, <1>3, <2>1, <2>3, Frame
<1> QED BY <1>4, <1>5

\* A set of naturals has a smallest member.
LEMMA SmallestOf ==
    ASSUME NEW T, T \subseteq Nat, T # {}
    PROVE  \E x \in T : \A y \in T : x <= y
<1>1. PICK x \in T : \A y \in T : ~(<<y, x>> \in OpToRel(<, Nat))
  BY NatLessThanWellFounded, WFMin
<1>2. ASSUME NEW y \in T PROVE x <= y
  <2>1. ~(<<y, x>> \in OpToRel(<, Nat)) /\ <<y, x>> \in Nat \X Nat
    BY <1>1
  <2>2. ~(y < x)
    BY <2>1 DEF OpToRel
  <2> QED BY <2>2
<1> QED BY <1>2

\* flushOutbox stops at the first event whose content is in the ledger, or at
\* the end of the journal.
LEMMA FlushableFacts ==
    ASSUME Shape
    PROVE  /\ Flushable \in enqueued..Len(journal)
           /\ \A i \in (enqueued + 1)..Flushable : journal[i] \notin finalization
           /\ Flushable = Len(journal) \/ journal[Flushable + 1] \in finalization
<1> DEFINE T == {n \in enqueued..Len(journal) : n = Len(journal) \/ journal[n + 1] \in finalization}
<1>1. enqueued \in Nat /\ Len(journal) \in Nat /\ enqueued <= Len(journal)
  BY TypeParts DEF Shape, TypeRest
<1>2. Len(journal) \in T /\ T \subseteq Nat
  BY <1>1
<1>3. PICK x \in T : \A y \in T : x <= y
  BY <1>2, SmallestOf
<1>4. ASSUME NEW i \in (enqueued + 1)..x PROVE journal[i] \notin finalization
  <2>1. x \in Nat /\ i \in Nat /\ i - 1 \in enqueued..Len(journal) /\ i - 1 < x /\ (i - 1) + 1 = i
    BY <1>1
  <2>2. i - 1 \notin T
    BY <1>3, <2>1
  <2> QED BY <2>1, <2>2
<1>5. \E n \in enqueued..cursor :
        /\ \A i \in (enqueued + 1)..n : journal[i] \notin finalization
        /\ n = cursor \/ journal[n + 1] \in finalization
  BY <1>4 DEF cursor
<1> QED BY <1>5 DEF Flushable, cursor

\* The failures that are left are counted.
LEMMA FailsFacts ==
    ASSUME Shape, NEW f, Fails(f)
    PROVE  env' \in [load : Workloads, left : Nat] /\ env'.left <= env'.load.limit /\ env'.load = env.load
<1>1. env \in [load : Workloads, left : Nat] /\ env.left <= env.load.limit /\ env.left > 0
  BY TypeParts DEF Shape, TypeRest, Fails
<1>2. env.load.limit \in Nat
  BY <1>1, WorkloadsAssumption DEF Workload
<1>3. env' = [env EXCEPT !.left = env.left - 1]
  BY DEF Fails
<1>4. env.left - 1 \in Nat /\ env.left - 1 <= env.load.limit
  BY <1>1, <1>2
<1> QED BY <1>1, <1>3, <1>4

\* flushOutbox.
LEMMA FlushOutboxShape ==
    ASSUME Shape, NEW h \in Handlers, FlushOutbox(h)
    PROVE  Shape'
<1> DEFINE r == [Idle EXCEPT !.at = run[h].phase, !.todo = run[h].todo]
<1>1. Become(h, r)
  BY DEF FlushOutbox, Return
<1>2. r \in HandlerState /\ HandlerOK(h, r, pending', vault')
  BY ReturnState
<1>3. enqueued' \in 0..Len(journal)
  <2>1. Flushable \in enqueued..Len(journal) /\ enqueued \in 0..Len(journal) /\ Len(journal) \in Nat
    BY FlushableFacts, TypeParts DEF Shape, TypeRest
  <2> QED BY <2>1 DEF FlushOutbox
<1>4. alarm' \in {"off", "asked", "armed"} /\ env' \in [load : Workloads, left : Nat]
      /\ env'.left <= env'.load.limit
  <2>1. CASE UNCHANGED <<alarm, env>>
    BY <2>1, TypeParts DEF Shape, TypeRest
  <2>2. CASE Fails("unavailable") /\ ScheduleAlarm
    BY <2>2, FailsFacts, AlarmValues
  <2> QED BY <2>1, <2>2 DEF FlushOutbox
<1>5. TypeRest'
  BY <1>3, <1>4, TypeParts DEF Shape, TypeRest, FlushOutbox, tables
<1>6. Respects(h) /\ \A t \in Tables : TableOK(t, pending'[t])
  BY DEF Respects, FlushOutbox, tables, Shape
<1> HIDE DEF r
<1> QED BY <1>1, <1>2, <1>5, <1>6, Frame

-----------------------------------------------------------------------------
(* The commits *)

\* What a commit needs and does, whatever the command.
LEMMA CommitFacts ==
    ASSUME Shape, NEW h \in Handlers, NEW c, Commits(h, c)
    PROVE  /\ c \in Commands \cup Erasures /\ run[h].cmd = c /\ run[h].at = "commit"
           /\ c \in Erasures => h = Alarm
           /\ IsPending(c) /\ TableOf(c) \in Tables /\ pending[TableOf(c)] \in Row
           /\ Fits(c, run[h].next) /\ c \notin results
           /\ journal' = Append(journal, c) /\ results' = results \cup {c}
           /\ pending' \in [Tables -> Row \cup {None}] /\ Drop
           /\ pending'[TableOf(c)] = None
           /\ \A t \in Tables \ {TableOf(c)} : pending'[t] = pending[t]
           /\ \A t \in Tables : TableOK(t, pending'[t])
           /\ journal' \in Seq(Commands \cup Erasures) /\ results' \subseteq Commands \cup Erasures
           /\ Len(journal') = Len(journal) + 1
           /\ \A i \in 1..Len(journal) : journal'[i] = journal[i]
           /\ journal'[Len(journal) + 1] = c
<1>1. run[h].cmd = c /\ run[h].at = "commit" /\ Outcome(h) = "commit"
  BY DEF Commits
<1>2. c \in Commands \cup Erasures /\ (c \in Erasures => h = Alarm)
  BY <1>1, AtFacts DEF AwaitFor, ClientOK
<1>3. IsPending(c) /\ Fits(c, run[h].next) /\ c \notin results
  BY <1>1 DEF Outcome
<1>4. TableOf(c) \in Tables /\ pending \in [Tables -> Row \cup {None}]
  BY TableFacts, TypeParts DEF Shape, TypeRest
<1>5. pending[TableOf(c)] \in Row
  BY <1>3, <1>4 DEF IsPending
<1>6. pending' = [pending EXCEPT ![TableOf(c)] = None]
  BY DEF Commits
<1>7. pending' \in [Tables -> Row \cup {None}] /\ Drop /\ pending'[TableOf(c)] = None
      /\ \A t \in Tables \ {TableOf(c)} : pending'[t] = pending[t]
  BY <1>4, <1>6 DEF Drop
<1>8. \A t \in Tables : TableOK(t, pending'[t])
  BY <1>7 DEF Drop, Shape, TableOK
<1>9. journal \in Seq(Commands \cup Erasures) /\ results \subseteq Commands \cup Erasures
  BY TypeParts DEF Shape, TypeRest
<1>10. journal' = Append(journal, c) /\ results' = results \cup {c}
  BY DEF Commits
<1>11. /\ journal' \in Seq(Commands \cup Erasures)
       /\ Len(journal') = Len(journal) + 1
       /\ \A i \in 1..Len(journal) : journal'[i] = journal[i]
       /\ journal'[Len(journal) + 1] = c
  BY <1>2, <1>9, <1>10
<1>12. results' \subseteq Commands \cup Erasures
  BY <1>2, <1>9, <1>10
<1> QED BY <1>1, <1>2, <1>3, <1>4, <1>5, <1>7, <1>8, <1>10, <1>11, <1>12

\* The handler after a commit.
LEMMA CommitMoves ==
    ASSUME Shape, NEW h \in Handlers, NEW c, Commits(h, c), NEW at \in {"reclaim", "flush"}, Goto(h, at),
           at = "reclaim" => c \in Contents,
           messages' \in [Posts -> MessageState], finalization' \subseteq Contents,
           schedule' \in [Posts -> Retractions \cup {None}], alarm' \in {"off", "asked", "armed"}
    PROVE  Shape'
<1> DEFINE r == [run[h] EXCEPT !.at = at]
<1>1. /\ Become(h, r) /\ r \in HandlerState /\ r.at = at /\ r.cmd = c /\ r.phase = run[h].phase
  BY GotoState, CommitFacts DEF Places, Awaits
<1>2. run[h].at = "commit" /\ run[h].cmd = c /\ (h = Alarm => PartOK(run[h]))
  BY CommitFacts, AtFacts
<1> HIDE DEF r
<1>3. h = Alarm => PartOK(r)
  BY <1>1, <1>2, KindFacts DEF PartOK, Parts, Commands
<1>4. HandlerOK(h, r, pending', vault')
  BY <1>1, <1>2, <1>3, MoveOn DEF AwaitFor, Awaits
<1>5. TypeRest'
  <2>1. UNCHANGED <<enqueued, up, vault, tombstones, allowed, over, env>>
    BY DEF Commits, world
  <2>2. enqueued' \in 0..Len(journal')
    BY <2>1, CommitFacts, TypeParts DEF Shape, TypeRest
  <2>3. /\ pending' \in [Tables -> Row \cup {None}]
        /\ journal' \in Seq(Commands \cup Erasures) /\ results' \subseteq Commands \cup Erasures
    BY CommitFacts
  <2> QED BY <2>1, <2>2, <2>3, TypeParts DEF Shape, TypeRest
<1>6. Respects(h)
  <2>1. vault' = vault
    BY DEF Commits, world
  <2>2. c \in Erasures => h = Alarm
    BY CommitFacts
  <2>3. pending["message"] # None /\ pending["message"].cmd \in Erasures /\ c \notin Erasures
          => pending'["message"] = pending["message"]
    <3>1. \A t \in Tables \ {TableOf(c)} : pending'[t] = pending[t]
      BY CommitFacts
    <3>2. IsPending(c)
      BY CommitFacts
    <3> QED BY <3>1, <3>2 DEF IsPending, Tables
  <2> QED BY <2>1, <2>2, <2>3 DEF Respects
<1>7. \A t \in Tables : TableOK(t, pending'[t])
  BY CommitFacts
<1> QED BY <1>1, <1>4, <1>5, <1>6, <1>7, Frame

\* The six transactions.
LEMMA CommitShape ==
    ASSUME Shape, NEW h \in Handlers,
           \/ \E c \in Posts : CommitMessage(h, c)
           \/ \E c \in Edits : CommitMessageMutation(h, c)
           \/ \E c \in Retractions \cup Restores : CommitMessageStateMutation(h, c)
           \/ \E c \in Erasures : CommitMessageErasure(h, c)
           \/ \E c \in Toggles : CommitMessageReaction(h, c)
           \/ \E c \in Members : CommitCommand(h, c)
    PROVE  Shape'
<1>1. /\ messages \in [Posts -> MessageState] /\ finalization \subseteq Contents
      /\ schedule \in [Posts -> Retractions \cup {None}]
      /\ vault \in [Contents -> ContentState]
  BY TypeParts DEF Shape, TypeRest
<1>2. ASSUME NEW c \in Posts, CommitMessage(h, c) PROVE Shape'
  <2>1. messages' \in [Posts -> MessageState]
    BY <1>1, <1>2 DEF CommitMessage, MessageState
  <2>2. finalization' \subseteq Contents /\ c \in Contents
    BY <1>1, <1>2 DEF CommitMessage, Contents
  <2> QED BY <1>1, <1>2, <2>1, <2>2, CommitMoves, AlarmValues DEF CommitMessage
<1>3. ASSUME NEW c \in Edits, CommitMessageMutation(h, c) PROVE Shape'
  <2>1. c \in Contents /\ MessageOf(c) \in Posts /\ vault[c].version \in Nat
    BY MessageFacts, StateTypes DEF Contents
  <2>2. messages' \in [Posts -> MessageState]
    BY <1>1, <1>3, <2>1 DEF CommitMessageMutation, MessageState
  <2>3. finalization' \subseteq Contents
    BY <1>1, <1>3, <2>1 DEF CommitMessageMutation
  <2> QED BY <1>1, <1>3, <2>1, <2>2, <2>3, CommitMoves, AlarmValues DEF CommitMessageMutation
<1>4. ASSUME NEW c \in Retractions \cup Restores, CommitMessageStateMutation(h, c) PROVE Shape'
  <2> DEFINE p == MessageOf(c)
             m == [messages[p] EXCEPT !.status = IF c \in Retractions THEN "retracted" ELSE "active",
                                      !.retraction = IF c \in Retractions THEN c ELSE None]
  <2>1. p \in Posts
    BY MessageFacts
  <2>2. m \in MessageState
    BY <1>1, <2>1 DEF MessageState
  <2>3. messages' = [messages EXCEPT ![p] = m] /\ finalization' = finalization
    BY <1>4 DEF CommitMessageStateMutation
  <2> HIDE DEF m
  <2>4. messages' \in [Posts -> MessageState]
    BY <1>1, <2>1, <2>2, <2>3
  <2>5. schedule' \in [Posts -> Retractions \cup {None}]
    BY <1>1, <1>4, <2>1 DEF CommitMessageStateMutation
  <2> QED BY <1>1, <1>4, <2>3, <2>4, <2>5, CommitMoves, AlarmValues DEF CommitMessageStateMutation, Publish
<1>5. ASSUME NEW c \in Erasures, CommitMessageErasure(h, c) PROVE Shape'
  <2> DEFINE p == MessageOf(c)
             m == [NoMessage EXCEPT !.status = "erased"]
  <2>1. p \in Posts
    BY MessageFacts
  <2>2. m \in MessageState
    BY DEF MessageState, NoMessage
  <2>3. messages' = [messages EXCEPT ![p] = m] /\ finalization' = finalization \ ContentsOf(p)
    BY <1>5 DEF CommitMessageErasure
  <2> HIDE DEF m
  <2>4. messages' \in [Posts -> MessageState]
    BY <1>1, <2>1, <2>2, <2>3
  <2>5. schedule' \in [Posts -> Retractions \cup {None}]
    BY <1>1, <1>5, <2>1 DEF CommitMessageErasure
  <2> QED BY <1>1, <1>5, <2>3, <2>4, <2>5, CommitMoves, AlarmValues DEF CommitMessageErasure, Publish
<1>6. ASSUME NEW c \in Toggles, CommitMessageReaction(h, c) PROVE Shape'
  BY <1>1, <1>6, CommitMoves, AlarmValues DEF CommitMessageReaction, Publish
<1>7. ASSUME NEW c \in Members, CommitCommand(h, c) PROVE Shape'
  BY <1>1, <1>7, CommitMoves, AlarmValues DEF CommitCommand, Publish
<1> QED BY <1>2, <1>3, <1>4, <1>5, <1>6, <1>7

-----------------------------------------------------------------------------
(* Lost answers and the environment *)

\* What a lost call may have done to the vault.
LEMMA EffectsMove ==
    ASSUME Shape, NEW h \in Handlers, NEW v \in Effects(h)
    PROVE  VaultMove(v)
<1> DEFINE c == run[h].cmd
<1>1. VaultMove(vault)
  BY TypeParts DEF Shape, TypeRest, VaultMove
<1>2. run[h].base \in Nat
  BY AtFacts DEF HandlerState
<1>3. \/ v = vault
      \/ run[h].at = "stage" /\ v = AfterStage(c, run[h].base)
      \/ run[h].at \in {"claim", "claim2", "reclaim"} /\ v = AfterClaim(c)
      \/ run[h].at \in {"finalize", "refinalize"} /\ CanClaim(c) /\ v = AfterFinalize(c)
      \/ run[h].at = "release" /\ v = AfterRelease(c)
  BY DEF Effects
<1>4. v = vault \/ c \in Contents
  BY <1>3, AtFacts DEF AwaitFor
<1> QED BY <1>1, <1>2, <1>3, <1>4, VaultOps

\* What a lost call leaves of the vault and the registry.
LEMMA LoseCallVault ==
    ASSUME Shape, NEW h \in Handlers, LoseCall(h)
    PROVE  /\ VaultMove(vault')
           /\ tombstones' \in [Posts -> Retractions \cup {None}]
<1> DEFINE c == run[h].cmd
<1>1. tombstones \in [Posts -> Retractions \cup {None}]
  BY TypeParts DEF Shape, TypeRest
<1>2. CASE vault' \in Effects(h) /\ UNCHANGED tombstones
  BY <1>1, <1>2, EffectsMove
<1>3. CASE /\ run[h].at = "destroy"
           /\ tombstones' = [tombstones EXCEPT ![MessageOf(c)] = c[2]]
           /\ vault' \in {vault, AfterDestroy(MessageOf(c))}
  <2>1. c \in Erasures
    BY <1>3, DestroyFacts
  <2>2. MessageOf(c) \in Posts /\ c[2] \in Retractions /\ MessageOf(c) \in Contents
    BY <2>1, MessageFacts DEF Contents
  <2> QED BY <1>1, <1>3, <2>2, VaultOps
<1> QED BY <1>2, <1>3 DEF LoseCall

\* A call whose answer is lost.
LEMMA LoseCallShape ==
    ASSUME Shape, NEW h \in Handlers, LoseCall(h)
    PROVE  Shape'
<1> DEFINE c == run[h].cmd
           back == [Idle EXCEPT !.at = run[h].phase, !.todo = run[h].todo]
<1>1. VaultMove(vault') /\ tombstones' \in [Posts -> Retractions \cup {None}]
  BY LoseCallVault
<1>2. env' \in [load : Workloads, left : Nat] /\ env'.left <= env'.load.limit
  BY FailsFacts DEF LoseCall
<1>3. UNCHANGED <<journal, results, messages, finalization, schedule, enqueued, up, allowed, over>>
  BY DEF LoseCall
<1>4. alarm' \in {"off", "asked", "armed"}
  BY AlarmValues DEF LoseCall, MarkFailure, Throw
<1>5. /\ pending' \in [Tables -> Row \cup {None}]
      /\ \A t \in Tables : TableOK(t, pending'[t])
      /\ pending["message"] # None /\ pending["message"].cmd \in Erasures
           => pending'["message"] = pending["message"]
  <2>1. CASE UNCHANGED pending
    BY <2>1, TypeParts DEF Shape, TypeRest
  <2>2. CASE c \in Toggles /\ Abandon(c)
    <3>1. c \in Commands \cup Erasures /\ c \notin Erasures /\ "message" \in Tables
      BY <2>2, KindFacts DEF Commands, Tables
    <3>2. /\ pending' \in [Tables -> Row \cup {None}]
          /\ \A t \in Tables : TableOK(t, pending'[t])
          /\ \A t \in Tables : pending'[t] # pending[t] => pending[t].cmd = c
      BY <2>2, <3>1, AbandonFacts
    <3> QED BY <3>1, <3>2
  <2> QED BY <2>1, <2>2 DEF LoseCall
<1>6. TypeRest'
  BY <1>1, <1>2, <1>3, <1>4, <1>5, TypeParts DEF Shape, TypeRest, VaultMove
<1>7. Respects(h)
  BY <1>1, <1>5 DEF Respects, VaultMove
<1>8. Become(h, back) \/ Become(h, Idle)
  BY DEF LoseCall, Return, MarkFailure, Throw
<1>9. back \in HandlerState /\ HandlerOK(h, back, pending', vault')
  BY ReturnState
<1>10. Idle \in HandlerState /\ HandlerOK(h, Idle, pending', vault')
  BY IdleState
<1> HIDE DEF back
<1> QED BY <1>5, <1>6, <1>7, <1>8, <1>9, <1>10, Frame

\* A step that leaves handlers and rows alone.
LEMMA WorldStep ==
    ASSUME Shape, UNCHANGED <<pending, run>>, TypeRest',
           \A c \in Contents : Final(vault[c]) => Final(vault'[c])
    PROVE  Shape'
<1>1. TypeOK'
  BY TypeParts DEF TypeOK, TypeRest, Shape, cursor
<1>2. ASSUME NEW h \in Handlers PROVE HandlerOK(h, run'[h], pending', vault')
  <2>1. HandlerOK(h, run[h], pending, vault)
    BY DEF Shape
  <2>2. run[h].at = "finalized" => Final(vault'[run[h].cmd])
    BY <2>1 DEF HandlerOK, AwaitOK, AwaitFor
  <2> QED BY <2>1, <2>2 DEF HandlerOK
<1> QED BY <1>1, <1>2 DEF Shape

\* The collector and the clock keep the vault's promises.
LEMMA CollectorMoves ==
    ASSUME Shape, NEW c \in Contents, PreparationElapses(c) \/ VaultCollects(c)
    PROVE  VaultMove(vault')
<1>1. vault \in [Contents -> ContentState]
  BY TypeParts DEF Shape, TypeRest
<1>2. CASE PreparationElapses(c)
  BY <1>1, <1>2 DEF PreparationElapses, VaultMove, Final, ContentOK, ContentState
<1>3. CASE VaultCollects(c)
  <2>1. PICK s \in {"expiring", "expired"} : vault' = [vault EXCEPT ![c].status = s]
    BY <1>3 DEF VaultCollects
  <2>2. vault[c].status \in {"prepared", "expiring"}
    BY <1>3 DEF VaultCollects
  <2> QED BY <1>1, <2>1, <2>2 DEF VaultMove, Final, ContentOK, ContentState
<1> QED BY <1>2, <1>3

\* Crashes, the Workspace, the clock and the collector.
LEMMA EnvironmentShape ==
    ASSUME Shape, \A p \in Posts : MessageOK(p, messages[p]), Environment
    PROVE  Shape'
<1>1. CASE SetAlarm \/ Start
  <2>1. UNCHANGED <<tables, enqueued, run, world>> /\ alarm' \in {"off", "asked", "armed"} /\ up' \in BOOLEAN
    BY <1>1, AlarmValues, TypeParts DEF SetAlarm, Start, Shape, TypeRest
  <2>2. TypeRest'
    BY <2>1, TypeParts DEF Shape, TypeRest, tables, world
  <2> QED BY <2>1, <2>2, WorldStep DEF tables, world
<1>2. CASE Crash
  <2>1. UNCHANGED <<tables, enqueued, vault, tombstones, allowed, over>> /\ up' = FALSE
        /\ alarm' \in {"off", "asked", "armed"} /\ run' = [h \in Handlers |-> Idle]
    BY <1>2 DEF Crash
  <2>2. env' \in [load : Workloads, left : Nat] /\ env'.left <= env'.load.limit
    BY <1>2, FailsFacts DEF Crash
  <2>3. TypeRest'
    BY <2>1, <2>2, TypeParts DEF Shape, TypeRest, tables
  <2>4. run' \in [Handlers -> HandlerState]
    BY <2>1, IdleState
  <2>5. \A h \in Handlers : HandlerOK(h, run'[h], pending', vault')
    BY <2>1, IdleState
  <2>6. TypeOK'
    BY <2>3, <2>4 DEF TypeOK, TypeRest, cursor
  <2> QED BY <2>1, <2>5, <2>6 DEF Shape, tables
<1>3. CASE Reauthorize
  <2>1. UNCHANGED <<object, vault, tombstones, over>> /\ allowed' \in BOOLEAN
    BY <1>3, TypeParts DEF Reauthorize, Shape, TypeRest
  <2>2. env' \in [load : Workloads, left : Nat] /\ env'.left <= env'.load.limit
    BY <1>3, FailsFacts DEF Reauthorize
  <2>3. TypeRest'
    BY <2>1, <2>2, TypeParts DEF Shape, TypeRest, tables, object
  <2> QED BY <2>1, <2>3, WorldStep DEF tables, object
<1>4. ASSUME NEW c \in Contents, PreparationElapses(c) \/ VaultCollects(c) PROVE Shape'
  <2>1. UNCHANGED <<object, tombstones, allowed, over, env>>
    BY <1>4 DEF PreparationElapses, VaultCollects
  <2>2. VaultMove(vault')
    BY <1>4, CollectorMoves
  <2>3. TypeRest'
    BY <2>1, <2>2, TypeParts DEF Shape, TypeRest, tables, object, VaultMove
  <2> QED BY <2>1, <2>2, <2>3, WorldStep DEF tables, object, VaultMove
<1>5. ASSUME NEW p \in Posts, GraceElapses(p) PROVE Shape'
  <2>1. UNCHANGED <<object, vault, tombstones, allowed, env>> /\ over' = over \cup {messages[p].retraction}
        /\ messages[p].status = "retracted"
    BY <1>5 DEF GraceElapses
  <2>2. messages[p].retraction \in Retractions
    BY <2>1, StateTypes DEF MessageOK, MessageState
  <2>3. TypeRest'
    BY <2>1, <2>2, TypeParts DEF Shape, TypeRest, tables, object
  <2> QED BY <2>1, <2>3, WorldStep DEF tables, object
<1> QED BY <1>1, <1>2, <1>3, <1>4, <1>5 DEF Environment

\* Every step keeps the shape.
LEMMA ShapeStep ==
    ASSUME Shape, \A p \in Posts : MessageOK(p, messages[p]), [Next]_vars
    PROVE  Shape'
<1>1. ASSUME NEW h \in Handlers, Step(h) PROVE Shape'
  BY <1>1, AdmitEditShape, ReadContentShape, StagedShape, VaultCallShape, DecideShape,
     DecideIdempotentShape, DecideRefusedShape, AuthorizeShape, RefreshShape, ReleasedShape,
     AttestShape, CommitShape, CommitExistingShape, CommitRefusedShape, FinalizedShape,
     FlushOutboxShape, DestroyGenerationShape, PrepareErasureShape DEF Step
<1>2. CASE AlarmStep
  BY <1>2, ReconcileDueShape, ResumeCommandShape, ResumePendingMessageShape, ResumeReactionShape,
     AlarmEndsShape, ReconcileContentFinalizationsShape DEF AlarmStep
<1>3. CASE UNCHANGED vars
  <2>1. UNCHANGED <<pending, run>> /\ TypeRest'
    BY <1>3, TypeParts DEF vars, object, world, tables, Shape, TypeRest
  <2> QED BY <1>3, <2>1, WorldStep DEF vars, world
<1> QED BY <1>1, <1>2, <1>3, RequestShape, LoseCallShape, AlarmEndsShape, EnvironmentShape DEF Next

\* The initial shape.
LEMMA InitShape ==
    ASSUME Init
    PROVE  Shape
<1>1. PICK w \in Workloads : env = [load |-> w, left |-> w.limit]
  BY DEF Init
<1>2. w.history \in Seq(Posts) /\ w.limit \in Nat
  BY WorkloadsAssumption DEF Workload
<1>3. /\ journal \in Seq(Posts) /\ env \in [load : Workloads, left : Nat] /\ env.left <= env.load.limit
      /\ journal = w.history
  BY <1>1, <1>2 DEF Init
<1>4. /\ journal \in Seq(Commands \cup Erasures) /\ Len(journal) \in Nat
      /\ \A i \in 1..Len(journal) : journal[i] \in Posts
  BY <1>3 DEF Commands, Contents
<1>5. results = {journal[i] : i \in 1..Len(journal)}
  BY DEF Init
<1>6. results \subseteq Posts
  BY <1>4, <1>5
<1>7. results \subseteq Commands \cup Erasures
  BY <1>6 DEF Commands, Contents
<1>8. messages \in [Posts -> MessageState]
  <2>1. NoMessage \in MessageState
    BY DEF NoMessage, MessageState
  <2>2. [status |-> "active", version |-> 1, retraction |-> None] \in MessageState
    BY DEF MessageState
  <2> QED BY <2>1, <2>2 DEF Init
<1>9. vault \in [Contents -> ContentState]
  <2>1. NoContent \in ContentState
    BY Bits DEF NoContent, ContentState
  <2>2. [NoContent EXCEPT !.status = "finalized", !.version = 1] \in ContentState
    BY <2>1 DEF ContentState
  <2> QED BY <2>1, <2>2 DEF Init
<1>10. run \in [Handlers -> HandlerState] /\ \A h \in Handlers : HandlerOK(h, run[h], pending, vault)
  BY IdleState DEF Init
<1>11. /\ pending \in [Tables -> Row \cup {None}]
       /\ \A t \in Tables : TableOK(t, pending[t])
  BY DEF Init, TableOK
<1>12. enqueued \in 0..Len(journal)
  BY <1>4 DEF Init, cursor
<1>13. TypeRest
  BY <1>3, <1>4, <1>7, <1>8, <1>9, <1>11, <1>12 DEF TypeRest, Init
<1> QED BY <1>10, <1>11, <1>13, TypeParts DEF Shape

-----------------------------------------------------------------------------
(* Steps that commit nothing *)

\* Nothing of the journal, the Messages and the schedule changes, rows only go,
\* and the vault moves as its operations do.
Calm ==
    /\ UNCHANGED <<journal, results, messages, finalization, schedule, enqueued, tombstones>>
    /\ Drop
    /\ over \subseteq over'
    /\ VaultMove(vault')

\* A calm step keeps what a row relies on.
LEMMA RowStays ==
    ASSUME Shape, Recorded, NEW c \in Commands \cup Erasures,
           RowOK(c, messages, vault, finalization, over),
           over \subseteq over', VaultMove(vault')
    PROVE  RowOK(c, messages, vault', finalization, over')
<1>1. ASSUME c \in Edits PROVE vault'[c].version = vault[c].version
  <2>1. MessageOf(c) \in Posts /\ c \in Contents
    BY <1>1, MessageFacts DEF Contents
  <2>2. messages[MessageOf(c)].version \in Nat /\ vault[c].version \in Nat
    BY <2>1, StateTypes
  <2>3. vault[c].version # 0
    BY <1>1, <2>2 DEF RowOK
  <2>4. vault[c].status # "none"
    BY <2>1, <2>3 DEF Recorded, ContentOK
  <2> QED BY <2>1, <2>4 DEF VaultMove
<1> QED BY <1>1 DEF RowOK

\* A calm step keeps the lock and the records.
LEMMA CalmKeeps ==
    ASSUME Shape, Locked, Recorded, Calm
    PROVE  Locked' /\ Recorded'
<1>1. OnePending'
  BY DEF Locked, OnePending, Calm, Drop
<1>2. PendingIsNext'
  BY DEF Locked, PendingIsNext, Calm, Drop, cursor
<1>3. ASSUME NEW t \in Tables, pending'[t] # None
      PROVE  RowOK(pending'[t].cmd, messages', vault', finalization', over')
  <2>1. pending'[t] = pending[t] /\ pending[t] # None
    BY <1>3 DEF Calm, Drop
  <2>2. pending[t].cmd \in Commands \cup Erasures
    BY <2>1, TypeParts DEF Shape, TypeRest, Row
  <2>3. RowOK(pending[t].cmd, messages, vault, finalization, over)
    BY <2>1 DEF Locked
  <2>4. RowOK(pending[t].cmd, messages, vault', finalization, over')
    BY <2>2, <2>3, RowStays DEF Calm
  <2> QED BY <2>1, <2>4 DEF Calm
<1>4. Locked'
  BY <1>1, <1>2, <1>3 DEF Locked
<1>5. UNCHANGED <<journal, results, messages, finalization, schedule, enqueued, tombstones>>
      /\ over \subseteq over' /\ VaultMove(vault')
  BY DEF Calm
<1>6. (\A p \in Posts : MessageOK(p, messages[p]))' /\ (\A i \in 1..Len(journal) : journal[i] \in results)'
  BY <1>5 DEF Recorded
<1>7. (\A c \in Contents : ContentOK(vault[c]))'
  BY <1>5 DEF Recorded, VaultMove
<1>8. LedgerOK(results', finalization', vault')
  BY <1>5 DEF Recorded, LedgerOK, VaultMove
<1>9. ScheduleMatches' /\ ErasureIsDue'
  BY <1>5 DEF Recorded, ScheduleMatches, ErasureIsDue
<1>10. ProjectedIsFinal'
  BY <1>5 DEF Recorded, ProjectedIsFinal, VaultMove, Final
<1> QED BY <1>4, <1>6, <1>7, <1>8, <1>9, <1>10 DEF Recorded

\* A step that changes none of it is calm.
LEMMA StillCalm ==
    ASSUME Shape, UNCHANGED <<tables, enqueued, vault, tombstones, over>>
    PROVE  Calm
<1>1. VaultMove(vault')
  BY TypeParts DEF Shape, TypeRest, VaultMove
<1>2. Drop
  BY DEF Drop, tables
<1> QED BY <1>1, <1>2 DEF Calm, tables

\* So are the requests and most steps of a handler.
LEMMA StepCalm ==
    ASSUME Shape, NEW h \in Handlers,
           \/ Request(h)
           \/ AdmitEdit(h) \/ ReadContent(h) \/ Staged(h) \/ DecideRefused(h) \/ Attest(h)
           \/ CommitExisting(h) \/ CommitRefused(h)
           \/ Stage(h) \/ Claim(h) \/ ReleaseClaim(h) \/ Reclaim(h) \/ Finalize(h) \/ Refinalize(h)
           \/ Authorize(h) \/ Released(h)
    PROVE  Calm
<1> DEFINE c == run[h].cmd
<1>1. CASE \/ Request(h) \/ AdmitEdit(h) \/ ReadContent(h) \/ Staged(h) \/ DecideRefused(h) \/ Attest(h)
           \/ CommitExisting(h) \/ CommitRefused(h)
  <2>1. UNCHANGED <<tables, enqueued, world>>
    <3>1. CASE Request(h)
      BY <3>1 DEF Request, PostMessage, MutateMessage, MutateMessageState, MutateMessageReaction,
                  Execute, NoChange
    <3>2. CASE AdmitEdit(h) \/ ReadContent(h) \/ Staged(h) \/ DecideRefused(h) \/ Attest(h)
      BY <3>2 DEF AdmitEdit, ReadContent, Staged, DecideRefused, Attest, NoChange
    <3>3. CASE CommitExisting(h) \/ CommitRefused(h)
      BY <3>3 DEF CommitExisting, CommitRefused
    <3> QED BY <1>1, <3>1, <3>2, <3>3
  <2> QED BY <2>1, StillCalm DEF world
<1>2. CASE Stage(h) \/ Claim(h) \/ ReleaseClaim(h) \/ Reclaim(h) \/ Finalize(h) \/ Refinalize(h)
  <2>1. UNCHANGED <<tables, enqueued, tombstones, over>>
    BY <1>2 DEF Stage, Claim, ReleaseClaim, Reclaim, Finalize, Refinalize
  <2>2. c \in Contents /\ run[h].base \in Nat
    BY <1>2, AtFacts DEF Stage, Claim, ReleaseClaim, Reclaim, Finalize, Refinalize, AwaitFor, HandlerState
  <2>3. \/ vault' = vault
        \/ vault' = AfterStage(c, run[h].base)
        \/ vault' = AfterClaim(c)
        \/ vault' = AfterFinalize(c) /\ CanClaim(c)
        \/ vault' = AfterRelease(c)
    BY <1>2 DEF Stage, Claim, ReleaseClaim, Reclaim, Finalize, Refinalize
  <2>4. VaultMove(vault')
    BY <2>2, <2>3, VaultOps
  <2> QED BY <2>1, <2>4 DEF Calm, Drop, tables
<1>3. CASE Authorize(h) \/ Released(h)
  <2>1. UNCHANGED <<journal, results, messages, finalization, schedule, enqueued, world>>
    BY <1>3 DEF Authorize, Released
  <2>2. c \in Commands
    BY <1>3, AtFacts DEF Authorize, Released, AwaitFor, Commands
  <2>3. UNCHANGED pending \/ Abandon(c)
    BY <1>3 DEF Authorize, Released
  <2>4. Drop
    BY <2>2, <2>3, AbandonFacts DEF Drop
  <2>5. VaultMove(vault')
    BY <2>1, TypeParts DEF Shape, TypeRest, VaultMove, world
  <2> QED BY <2>1, <2>4, <2>5 DEF Calm, world
<1> QED BY <1>1, <1>2, <1>3

\* And the alarm's own steps, but the one that intends an erasure.
LEMMA AlarmCalm ==
    ASSUME Shape,
           \/ FireAlarm \/ ResumeCommand \/ ResumePendingMessage \/ ResumeReaction \/ AfterReaction
           \/ ReconcileContentFinalizations \/ FinishAlarm
    PROVE  Calm
<1>1. CASE \/ FireAlarm \/ ResumeCommand \/ ResumeReaction \/ AfterReaction
           \/ ReconcileContentFinalizations \/ FinishAlarm
  <2>1. UNCHANGED <<tables, enqueued, world>>
    BY <1>1 DEF FireAlarm, ResumeCommand, ResumeReaction, AfterReaction, ReconcileContentFinalizations,
                FinishAlarm, NoChange
  <2> QED BY <2>1, StillCalm DEF world
<1>2. CASE ResumePendingMessage
  <2> DEFINE c == pending["message"].cmd
  <2>1. UNCHANGED <<journal, results, messages, finalization, schedule, enqueued, world>>
    BY <1>2 DEF ResumePendingMessage
  <2>2. \/ UNCHANGED pending
        \/ pending["message"] # None /\ Abandon(c)
    <3>1. CASE pending["message"] = None
      BY <1>2, <3>1 DEF ResumePendingMessage
    <3>2. CASE pending["message"] # None
      <4>1. pending["message"].step \in {"intent", "signed"}
        BY <3>2, TypeParts DEF Shape, TypeRest, Tables, Row
      <4> QED BY <1>2, <3>2, <4>1 DEF ResumePendingMessage
    <3> QED BY <3>1, <3>2
  <2>3. pending["message"] # None => c \in Commands \cup Erasures
    BY TypeParts DEF Shape, TypeRest, Tables, Row
  <2>4. Drop
    BY <2>2, <2>3, AbandonFacts DEF Drop
  <2>5. VaultMove(vault')
    BY <2>1, TypeParts DEF Shape, TypeRest, VaultMove, world
  <2> QED BY <2>1, <2>4, <2>5 DEF Calm, world
<1> QED BY <1>1, <1>2

\* And the environment.
LEMMA EnvironmentCalm ==
    ASSUME Shape, Environment
    PROVE  Calm
<1>1. CASE SetAlarm \/ Crash \/ Start \/ Reauthorize
  <2>1. UNCHANGED <<tables, enqueued, vault, tombstones, over>>
    BY <1>1 DEF SetAlarm, Crash, Start, Reauthorize, world, object
  <2> QED BY <2>1, StillCalm
<1>2. ASSUME NEW c \in Contents, PreparationElapses(c) \/ VaultCollects(c) PROVE Calm
  <2>1. UNCHANGED <<object, tombstones, over>>
    BY <1>2 DEF PreparationElapses, VaultCollects
  <2> QED BY <1>2, <2>1, CollectorMoves DEF Calm, Drop, object, tables
<1>3. ASSUME NEW p \in Posts, GraceElapses(p) PROVE Calm
  <2>1. UNCHANGED <<object, vault, tombstones>> /\ over \subseteq over'
    BY <1>3 DEF GraceElapses
  <2>2. VaultMove(vault')
    BY <2>1, TypeParts DEF Shape, TypeRest, VaultMove
  <2> QED BY <2>1, <2>2 DEF Calm, Drop, object, tables
<1> QED BY <1>1, <1>2, <1>3 DEF Environment

-----------------------------------------------------------------------------
(* Steps that fill a row *)

\* A row that is alone, next and decided on what holds keeps the lock.
LEMMA InsertKeeps ==
    ASSUME Shape, Recorded, NEW t \in Tables, NEW row \in Row,
           UNCHANGED <<journal, results, messages, finalization, schedule, enqueued, world>>,
           pending'[t] = row, \A s \in Tables \ {t} : pending'[s] = None,
           row.step = "signed" => row.next = cursor + 1,
           RowOK(row.cmd, messages, vault, finalization, over)
    PROVE  Locked' /\ Recorded'
<1>1. UNCHANGED <<vault, tombstones, over>>
  BY DEF world
<1>2. OnePending'
  BY DEF OnePending
<1>3. PendingIsNext'
  BY DEF PendingIsNext, cursor
<1>4. Locked'
  BY <1>1, <1>2, <1>3 DEF Locked
<1>5. Recorded'
  BY <1>1 DEF Recorded, ScheduleMatches, ErasureIsDue, ProjectedIsFinal
<1> QED BY <1>4, <1>5

\* The decision.
LEMMA DecideKeeps ==
    ASSUME Shape, Locked, Recorded, NEW h \in Handlers, Decide(h)
    PROVE  Locked' /\ Recorded'
<1> DEFINE c == run[h].cmd
           next == (IF c \in Posts \cup Toggles THEN cursor ELSE run[h].base) + 1
           row == [cmd |-> c, next |-> next, step |-> "signed"]
<1>1. c \in Commands /\ c \notin Erasures /\ run[h].base \in Nat /\ cursor \in Nat
  BY AtFacts, KindFacts, StateTypes DEF Decide, AwaitFor, HandlerState
<1>2. Decides(c, run[h].base) /\ ~Busy
  BY DEF Decide, Admitted
<1>3. next = cursor + 1
  BY <1>1, <1>2 DEF Decides
<1>4. row \in Row /\ row.cmd = c /\ row.next = cursor + 1
  BY <1>1, <1>3 DEF Row
<1>5. pending \in [Tables -> Row \cup {None}] /\ TableOf(c) \in Tables
  BY TypeParts, TableFacts DEF Shape, TypeRest
<1>6. pending' = [pending EXCEPT ![TableOf(c)] = row]
  BY DEF Decide, Insert
<1>7. pending'[TableOf(c)] = row /\ \A s \in Tables \ {TableOf(c)} : pending'[s] = None
  BY <1>2, <1>5, <1>6 DEF Busy
<1>8. RowOK(c, messages, vault, finalization, over)
  <2>1. CASE c \in Posts
    BY <1>1, <1>2, <2>1, KindFacts DEF RowOK, Decides, DecidePostMessage, Contents
  <2>2. CASE c \in Edits
    <3>1. MessageOf(c) = Target[c] /\ MessageOf(c) \in Posts /\ c \in Contents
      BY <2>2, MessageFacts DEF Contents
    <3>2. messages[MessageOf(c)].status = "active"
          /\ vault[c].version = messages[MessageOf(c)].version + 1
      BY <1>2, <2>2, <3>1 DEF Decides, DecideEditMessage
    <3>3. messages[MessageOf(c)].version # 0
      BY <3>1, <3>2 DEF Recorded, MessageOK
    <3> QED BY <1>1, <2>2, <3>1, <3>2, <3>3, KindFacts DEF RowOK
  <2>3. CASE c \in Retractions
    BY <1>1, <1>2, <2>3, KindFacts, MessageFacts DEF RowOK, Decides, DecideRetractMessage, Contents
  <2>4. CASE c \notin Posts \cup Edits \cup Retractions
    BY <1>1, <2>4 DEF RowOK
  <2> QED BY <2>1, <2>2, <2>3, <2>4
<1>9. UNCHANGED <<journal, results, messages, finalization, schedule, enqueued, world>>
  BY DEF Decide
<1> HIDE DEF row, next
<1> QED BY <1>4, <1>5, <1>7, <1>8, <1>9, InsertKeeps

\* With one row pending the other tables are empty.
LEMMA OthersEmpty ==
    ASSUME Shape, Locked, NEW c \in Commands \cup Erasures, IsPending(c)
    PROVE  /\ pending[TableOf(c)] \in Row /\ pending[TableOf(c)].cmd = c /\ TableOf(c) \in Tables
           /\ pending[TableOf(c)] # None
           /\ \A t \in Tables \ {TableOf(c)} : pending[t] = None
           /\ RowOK(c, messages, vault, finalization, over)
<1>1. pending \in [Tables -> Row \cup {None}] /\ TableOf(c) \in Tables
  BY TypeParts, TableFacts DEF Shape, TypeRest
<1>2. pending[TableOf(c)] # None /\ pending[TableOf(c)].cmd = c
  BY DEF IsPending
<1> QED BY <1>1, <1>2 DEF Locked, OnePending

\* The refreshed retraction.
LEMMA RefreshKeeps ==
    ASSUME Shape, Locked, Recorded, NEW h \in Handlers, RefreshPendingRetraction(h)
    PROVE  Locked' /\ Recorded'
<1> DEFINE c == run[h].cmd
<1>1. c \in Retractions /\ c \in Commands \cup Erasures /\ TableOf(c) = "message"
  BY AtFacts, TableFacts DEF RefreshPendingRetraction, AwaitFor, Commands
<1>2. UNCHANGED <<journal, results, messages, finalization, schedule, enqueued, world>>
  BY DEF RefreshPendingRetraction
<1>3. CASE Abandon(c) \/ UNCHANGED pending
  <2>1. Drop
    BY <1>1, <1>3, AbandonFacts DEF Drop
  <2>2. VaultMove(vault')
    BY <1>2, TypeParts DEF Shape, TypeRest, VaultMove, world
  <2> QED BY <1>2, <2>1, <2>2, CalmKeeps DEF Calm, world
<1>4. CASE IsPending(c) /\ pending' = [pending EXCEPT !["message"].next = cursor + 1]
  <2> DEFINE row == [pending["message"] EXCEPT !.next = cursor + 1]
  <2>1. /\ pending["message"] \in Row /\ pending["message"].cmd = c
        /\ \A t \in Tables \ {"message"} : pending[t] = None
        /\ RowOK(c, messages, vault, finalization, over)
    BY <1>1, <1>4, OthersEmpty
  <2>2. row \in Row /\ row.cmd = c /\ row.next = cursor + 1
    BY <2>1, StateTypes DEF Row
  <2>3. pending \in [Tables -> Row \cup {None}] /\ "message" \in Tables
    BY TypeParts DEF Shape, TypeRest, Tables
  <2>4. pending'["message"] = row /\ \A t \in Tables \ {"message"} : pending'[t] = None
    BY <1>4, <2>1, <2>3
  <2> HIDE DEF row
  <2> QED BY <1>2, <2>1, <2>2, <2>3, <2>4, InsertKeeps
<1> QED BY <1>3, <1>4 DEF RefreshPendingRetraction

\* The signed erasure.
LEMMA PrepareErasureKeeps ==
    ASSUME Shape, Locked, Recorded, NEW h \in Handlers, PrepareErasure(h)
    PROVE  Locked' /\ Recorded'
<1> DEFINE c == run[h].cmd
           row == [cmd |-> c, next |-> cursor + 1, step |-> "signed"]
<1>1. c \in Erasures /\ TableOf(c) = "message" /\ IsPending(c) /\ c \in Commands \cup Erasures
  BY DestroyFacts DEF PrepareErasure
<1>2. UNCHANGED <<journal, results, messages, finalization, schedule, enqueued, world>>
  BY DEF PrepareErasure
<1>3. CASE Abandon(c) \/ UNCHANGED pending
  <2>1. Drop
    BY <1>1, <1>3, AbandonFacts DEF Drop
  <2>2. VaultMove(vault')
    BY <1>2, TypeParts DEF Shape, TypeRest, VaultMove, world
  <2> QED BY <1>2, <2>1, <2>2, CalmKeeps DEF Calm, world
<1>4. CASE Insert(c, cursor + 1, "signed")
  <2>1. /\ \A t \in Tables \ {"message"} : pending[t] = None
        /\ RowOK(c, messages, vault, finalization, over)
    BY <1>1, OthersEmpty
  <2>2. row \in Row /\ row.cmd = c /\ row.next = cursor + 1
    BY <1>1, StateTypes DEF Row
  <2>3. pending \in [Tables -> Row \cup {None}] /\ "message" \in Tables
    BY TypeParts DEF Shape, TypeRest, Tables
  <2>4. pending' = [pending EXCEPT !["message"] = row]
    BY <1>1, <1>4 DEF Insert
  <2> HIDE DEF row
  <2>5. pending'["message"] = row /\ \A t \in Tables \ {"message"} : pending'[t] = None
    BY <2>1, <2>3, <2>4
  <2> QED BY <1>2, <2>1, <2>2, <2>3, <2>5, InsertKeeps
<1> QED BY <1>3, <1>4 DEF PrepareErasure

\* The intent of an erasure that is due.
LEMMA ReconcileDueKeeps ==
    ASSUME Shape, Locked, Recorded, ReconcileDue
    PROVE  Locked' /\ Recorded'
<1> DEFINE open == [pending EXCEPT !["reaction"] = None]
<1>1. UNCHANGED <<journal, results, messages, finalization, enqueued, world>>
  BY DEF ReconcileDue
<1>2. /\ pending \in [Tables -> Row \cup {None}]
      /\ schedule \in [Posts -> Retractions \cup {None}]
  BY TypeParts DEF Shape, TypeRest
<1>3. ASSUME pending' \in {pending, open}, UNCHANGED schedule
      PROVE  Locked' /\ Recorded'
  <2>1. Drop
    BY <1>2, <1>3 DEF Drop
  <2>2. VaultMove(vault')
    BY <1>1, TypeParts DEF Shape, TypeRest, VaultMove, world
  <2> QED BY <1>1, <1>3, <2>1, <2>2, CalmKeeps DEF Calm, world
<1>4. ASSUME NEW p \in DueErasures,
             messages[p].retraction = schedule[p], open["message"] = None,
             open["command"] = None, ~FinalizationFor(p),
             pending' = [open EXCEPT !["message"] =
                           [cmd |-> Erasure(schedule[p]), next |-> cursor, step |-> "intent"]],
             UNCHANGED schedule
      PROVE  Locked' /\ Recorded'
  <2> DEFINE c == Erasure(schedule[p])
             row == [cmd |-> c, next |-> cursor, step |-> "intent"]
  <2>1. p \in Posts /\ schedule[p] \in Retractions /\ schedule[p] # None /\ schedule[p] \in over
    BY <1>2 DEF DueErasures
  <2>2. c \in Erasures /\ c[2] = schedule[p] /\ MessageOf(c) = Target[schedule[p]]
    BY <2>1, MessageFacts
  <2>3. messages[p].status = "retracted" /\ Target[schedule[p]] = p
    BY <1>4, <2>1 DEF Recorded, MessageOK
  <2> HIDE DEF c
  <2>4. RowOK(c, messages, vault, finalization, over)
    BY <1>4, <2>1, <2>2, <2>3, KindFacts DEF RowOK, FinalizationFor, Commands, Contents
  <2>5. row \in Row /\ row.cmd = c /\ row.step = "intent"
    BY <2>2, StateTypes DEF Row
  <2>6. pending' = [open EXCEPT !["message"] = row]
    BY <1>4 DEF c
  <2> HIDE DEF row
  <2>7. pending'["message"] = row /\ \A t \in Tables \ {"message"} : pending'[t] = None
    BY <1>2, <1>4, <2>6 DEF Tables
  <2> QED BY <1>1, <1>4, <2>4, <2>5, <2>7, InsertKeeps DEF Tables
<1>5. \/ pending' \in {pending, open} /\ UNCHANGED schedule
      \/ \E p \in DueErasures :
           /\ messages[p].retraction # schedule[p]
      \/ \E p \in DueErasures :
           /\ messages[p].retraction = schedule[p] /\ open["message"] = None
           /\ open["command"] = None /\ ~FinalizationFor(p)
           /\ pending' = [open EXCEPT !["message"] =
                            [cmd |-> Erasure(schedule[p]), next |-> cursor, step |-> "intent"]]
           /\ UNCHANGED schedule
  BY DEF ReconcileDue
<1>6. \A p \in DueErasures : messages[p].retraction = schedule[p]
  BY DEF Recorded, ScheduleMatches, DueErasures
<1> QED BY <1>3, <1>4, <1>5, <1>6

-----------------------------------------------------------------------------
(* Results, ledger, outbox and destruction *)

\* The result of a command without an event.
LEMMA DecideIdempotentKeeps ==
    ASSUME Shape, Locked, Recorded, NEW h \in Handlers, DecideIdempotent(h)
    PROVE  Locked' /\ Recorded'
<1>1. /\ UNCHANGED <<pending, journal, messages, finalization, schedule, enqueued, world>>
      /\ results' = results \cup {run[h].cmd} /\ run[h].cmd \in Restores
  BY DEF DecideIdempotent, Unchanged
<1>2. UNCHANGED <<vault, tombstones, over>>
  BY <1>1 DEF world
<1>3. Locked'
  BY <1>1, <1>2 DEF Locked, OnePending, PendingIsNext, cursor
<1>4. run[h].cmd \notin Contents
  BY <1>1, KindFacts
<1>5. LedgerOK(results', finalization', vault')
  BY <1>1, <1>2, <1>4 DEF Recorded, LedgerOK
<1>6. Recorded'
  BY <1>1, <1>2, <1>5 DEF Recorded, ScheduleMatches, ErasureIsDue, ProjectedIsFinal
<1> QED BY <1>3, <1>6

\* A ledger row whose content is final is dropped.
LEMMA FinalizedKeeps ==
    ASSUME Shape, Locked, Recorded, NEW h \in Handlers, Finalized(h)
    PROVE  Locked' /\ Recorded'
<1> DEFINE c == run[h].cmd
<1>1. /\ UNCHANGED <<pending, journal, results, messages, schedule, enqueued, world>>
      /\ finalization' = finalization \ {c} /\ run[h].at = "finalized"
  BY DEF Finalized
<1>2. UNCHANGED <<vault, tombstones, over>>
  BY <1>1 DEF world
<1>3. Final(vault[c])
  BY <1>1, StateTypes DEF HandlerOK
<1>4. Locked'
  BY <1>1, <1>2 DEF Locked, OnePending, PendingIsNext, cursor, RowOK
<1>5. LedgerOK(results', finalization', vault')
  BY <1>1, <1>2, <1>3 DEF Recorded, LedgerOK
<1>6. Recorded'
  BY <1>1, <1>2, <1>5 DEF Recorded, ScheduleMatches, ErasureIsDue, ProjectedIsFinal
<1> QED BY <1>4, <1>6

\* The outbox passes only events whose content has left the ledger.
LEMMA FlushOutboxKeeps ==
    ASSUME Shape, Locked, Recorded, NEW h \in Handlers, FlushOutbox(h)
    PROVE  Locked' /\ Recorded'
<1>1. UNCHANGED <<tables, vault, tombstones, over>>
  BY DEF FlushOutbox
<1>2. Locked'
  BY <1>1 DEF Locked, OnePending, PendingIsNext, cursor, tables
<1>3. /\ Flushable \in enqueued..Len(journal) /\ enqueued \in Nat /\ Len(journal) \in Nat
      /\ \A i \in (enqueued + 1)..Flushable : journal[i] \notin finalization
  BY FlushableFacts, TypeParts DEF Shape, TypeRest
<1>4. enqueued' \in enqueued..Flushable
  BY <1>3 DEF FlushOutbox
<1>5. ASSUME NEW i \in 1..enqueued', journal[i] \in Contents
      PROVE  Final(vault[journal[i]])
  <2>1. CASE i <= enqueued
    <3>1. i \in 1..enqueued
      BY <1>3, <1>4, <2>1
    <3> QED BY <1>5, <3>1 DEF Recorded, ProjectedIsFinal, Final
  <2>2. CASE i > enqueued
    <3>1. i \in (enqueued + 1)..Flushable /\ i \in 1..Len(journal)
      BY <1>3, <1>4, <2>2
    <3>2. journal[i] \in results /\ journal[i] \notin finalization
      BY <1>3, <3>1 DEF Recorded
    <3> QED BY <1>5, <3>2 DEF Recorded, LedgerOK
  <2> QED BY <1>3, <1>4, <2>1, <2>2
<1>6. ProjectedIsFinal'
  BY <1>1, <1>5 DEF ProjectedIsFinal, Final, tables
<1>7. Recorded'
  BY <1>1, <1>6 DEF Recorded, ScheduleMatches, ErasureIsDue, LedgerOK, tables
<1> QED BY <1>2, <1>7

\* The destruction is decided for the retraction the alarm's row names, whose
\* grace is over; nothing else can be in force while the row is pending.
LEMMA DestroyKeeps ==
    ASSUME Shape, Locked, Recorded, NEW h \in Handlers, run[h].at = "destroy",
           UNCHANGED <<tables, enqueued, over>>, VaultMove(vault'),
           tombstones' = [tombstones EXCEPT ![MessageOf(run[h].cmd)] = run[h].cmd[2]]
    PROVE  Locked' /\ Recorded'
<1> DEFINE c == run[h].cmd
           p == MessageOf(c)
<1>1. c \in Erasures /\ IsPending(c)
  BY DestroyFacts
<1>2. p \in Posts /\ c[2] \in Retractions
  BY <1>1, MessageFacts
<1>3. RowOK(c, messages, vault, finalization, over)
  BY <1>1, OthersEmpty
<1>4. messages[p].status = "retracted" /\ messages[p].retraction = c[2] /\ c[2] \in over
  BY <1>1, <1>3 DEF RowOK
<1>5. tombstones \in [Posts -> Retractions \cup {None}]
  BY TypeParts DEF Shape, TypeRest
<1>6. UNCHANGED <<pending, journal, results, messages, finalization, schedule, enqueued, over>>
  BY DEF tables
<1>7. ErasureIsDue'
  <2> SUFFICES ASSUME NEW q \in Posts, tombstones'[q] # None
               PROVE  \/ messages[q].status = "erased"
                      \/ /\ messages[q].status = "retracted"
                         /\ messages[q].retraction = tombstones'[q]
                         /\ tombstones'[q] \in over
    BY <1>6 DEF ErasureIsDue
  <2>1. CASE q = p
    BY <1>2, <1>4, <1>5, <2>1
  <2>2. CASE q # p
    BY <1>2, <1>5, <2>2 DEF Recorded, ErasureIsDue
  <2> QED BY <2>1, <2>2
<1>8. Locked'
  <2>1. ASSUME NEW t \in Tables, pending[t] # None
        PROVE  RowOK(pending[t].cmd, messages, vault', finalization, over)
    <3>1. pending[t].cmd \in Commands \cup Erasures
      BY <2>1, TypeParts DEF Shape, TypeRest, Row
    <3>2. RowOK(pending[t].cmd, messages, vault, finalization, over)
      BY <2>1 DEF Locked
    <3> QED BY <1>6, <3>1, <3>2, RowStays
  <2> QED BY <1>6, <2>1 DEF Locked, OnePending, PendingIsNext, cursor
<1>9. LedgerOK(results', finalization', vault') /\ ProjectedIsFinal'
      /\ (\A d \in Contents : ContentOK(vault[d]))'
  BY <1>6 DEF Recorded, LedgerOK, ProjectedIsFinal, VaultMove, Final
<1>10. Recorded'
  BY <1>6, <1>7, <1>9 DEF Recorded, ScheduleMatches
<1> QED BY <1>8, <1>10

\* The destruction call.
LEMMA DestroyGenerationKeeps ==
    ASSUME Shape, Locked, Recorded, NEW h \in Handlers, DestroyGeneration(h)
    PROVE  Locked' /\ Recorded'
<1> DEFINE c == run[h].cmd
           p == MessageOf(c)
<1>1. UNCHANGED <<tables, enqueued, over>> /\ run[h].at = "destroy"
  BY DEF DestroyGeneration
<1>2. CASE UNCHANGED <<tombstones, vault>>
  BY <1>1, <1>2, StillCalm, CalmKeeps
<1>3. CASE tombstones' = [tombstones EXCEPT ![p] = c[2]] /\ vault' = AfterDestroy(p)
  <2>1. p \in Posts /\ p \in Contents
    BY <1>1, DestroyFacts, MessageFacts DEF Contents
  <2>2. VaultMove(vault')
    BY <1>3, <2>1, VaultOps
  <2> QED BY <1>1, <1>3, <2>2, DestroyKeeps
<1> QED BY <1>2, <1>3 DEF DestroyGeneration

\* A lost answer.
LEMMA LoseCallKeeps ==
    ASSUME Shape, Locked, Recorded, NEW h \in Handlers, LoseCall(h)
    PROVE  Locked' /\ Recorded'
<1> DEFINE c == run[h].cmd
<1>1. VaultMove(vault')
  BY LoseCallVault
<1>2. UNCHANGED <<journal, results, messages, finalization, schedule, enqueued, over>>
  BY DEF LoseCall
<1>3. UNCHANGED pending \/ (run[h].at \in Authorizations /\ c \in Toggles /\ Abandon(c))
  BY DEF LoseCall
<1>4. CASE UNCHANGED tombstones
  <2>1. Drop
    <3>1. c \in Toggles => c \in Commands \cup Erasures
      BY DEF Commands
    <3> QED BY <1>3, <3>1, AbandonFacts DEF Drop
  <2> QED BY <1>1, <1>2, <1>4, <2>1, CalmKeeps DEF Calm
<1>5. CASE run[h].at = "destroy" /\ tombstones' = [tombstones EXCEPT ![MessageOf(c)] = c[2]]
  <2>1. UNCHANGED pending
    BY <1>3, <1>5 DEF Authorizations
  <2> QED BY <1>1, <1>2, <1>5, <2>1, DestroyKeeps DEF tables
<1> QED BY <1>4, <1>5 DEF LoseCall

-----------------------------------------------------------------------------
(* The commits: the lock is free afterwards *)

\* After a commit no row is pending.
LEMMA CommitUnlocks ==
    ASSUME Shape, Locked, NEW h \in Handlers, NEW c, Commits(h, c)
    PROVE  /\ \A t \in Tables : pending'[t] = None
           /\ Locked'
           /\ RowOK(c, messages, vault, finalization, over)
           /\ pending[TableOf(c)].cmd = c /\ pending[TableOf(c)] # None
<1>1. c \in Commands \cup Erasures /\ IsPending(c)
  BY CommitFacts
<1>2. \A t \in Tables \ {TableOf(c)} : pending[t] = None
  BY <1>1, OthersEmpty
<1>3. pending'[TableOf(c)] = None /\ \A t \in Tables \ {TableOf(c)} : pending'[t] = pending[t]
  BY CommitFacts
<1>4. \A t \in Tables : pending'[t] = None
  BY <1>2, <1>3
<1>5. Locked'
  BY <1>4 DEF Locked, OnePending, PendingIsNext
<1> QED BY <1>1, <1>4, <1>5, OthersEmpty

\* What a commit records, given the Messages, the ledger and the schedule.
LEMMA CommitRecords ==
    ASSUME Shape, Recorded, NEW h \in Handlers, NEW c, Commits(h, c),
           \A p \in Posts : MessageOK(p, messages'[p]),
           ScheduleMatches', ErasureIsDue',
           finalization \subseteq finalization', c \in Contents => c \in finalization'
    PROVE  Recorded'
<1>1. UNCHANGED <<enqueued, vault, tombstones, over>>
  BY DEF Commits, world
<1>2. /\ results' = results \cup {c}
      /\ Len(journal') = Len(journal) + 1
      /\ \A i \in 1..Len(journal) : journal'[i] = journal[i]
      /\ journal'[Len(journal) + 1] = c
  BY CommitFacts
<1>3. enqueued \in Nat /\ Len(journal) \in Nat /\ enqueued <= Len(journal)
  BY TypeParts DEF Shape, TypeRest
<1>4. ASSUME NEW i \in 1..Len(journal') PROVE journal'[i] \in results'
  <2>1. i \in 1..Len(journal) \/ i = Len(journal) + 1
    BY <1>2, <1>3
  <2> QED BY <1>2, <2>1 DEF Recorded
<1>5. ProjectedIsFinal'
  <2> SUFFICES ASSUME NEW i \in 1..enqueued, journal'[i] \in Contents
               PROVE  vault[journal'[i]].status \in {"finalized", "destroyed"}
    BY <1>1 DEF ProjectedIsFinal
  <2>1. i \in 1..Len(journal) /\ journal'[i] = journal[i]
    BY <1>2, <1>3
  <2> QED BY <2>1 DEF Recorded, ProjectedIsFinal
<1>6. LedgerOK(results', finalization', vault')
  BY <1>1, <1>2 DEF Recorded, LedgerOK
<1>7. (\A d \in Contents : ContentOK(vault[d]))'
  BY <1>1 DEF Recorded
<1> QED BY <1>4, <1>5, <1>6, <1>7 DEF Recorded

\* attestAndFinalizeMessage.
LEMMA CommitMessageKeeps ==
    ASSUME Shape, Locked, Recorded, NEW h \in Handlers, NEW c \in Posts, CommitMessage(h, c)
    PROVE  Locked' /\ Recorded'
<1> DEFINE m == [status |-> "active", version |-> 1, retraction |-> None]
<1>1. Commits(h, c) /\ UNCHANGED schedule
      /\ messages' = [messages EXCEPT ![c] = m] /\ finalization' = finalization \cup {c}
  BY DEF CommitMessage
<1>2. UNCHANGED <<tombstones, over>>
  BY <1>1 DEF Commits, world
<1>3. messages \in [Posts -> MessageState]
  BY TypeParts DEF Shape, TypeRest
<1>4. messages[c].status = "absent" /\ messages[c].retraction = None
  BY <1>1, CommitUnlocks DEF RowOK, Recorded, MessageOK
<1>5. m.status = "active" /\ m.version = 1 /\ m.retraction = None
  OBVIOUS
<1> HIDE DEF m
<1>6. /\ messages'[c] = m /\ \A p \in Posts \ {c} : messages'[p] = messages[p]
  BY <1>1, <1>3
<1>7. \A p \in Posts : MessageOK(p, messages'[p])
  BY <1>5, <1>6 DEF Recorded, MessageOK
<1>8. ScheduleMatches'
  BY <1>1, <1>4, <1>5, <1>6 DEF Recorded, ScheduleMatches
<1>9. ErasureIsDue'
  BY <1>2, <1>4, <1>6 DEF Recorded, ErasureIsDue
<1> QED BY <1>1, <1>7, <1>8, <1>9, CommitUnlocks, CommitRecords

\* attestAndFinalizeMessageMutation.
LEMMA CommitMessageMutationKeeps ==
    ASSUME Shape, Locked, Recorded, NEW h \in Handlers, NEW c \in Edits, CommitMessageMutation(h, c)
    PROVE  Locked' /\ Recorded'
<1> DEFINE p == MessageOf(c)
<1>1. Commits(h, c) /\ UNCHANGED schedule
      /\ messages' = [messages EXCEPT ![p].version = vault[c].version]
      /\ finalization' = finalization \cup {c}
  BY DEF CommitMessageMutation
<1>2. UNCHANGED <<tombstones, over>>
  BY <1>1 DEF Commits, world
<1>3. messages \in [Posts -> MessageState] /\ p \in Posts /\ c \in Contents
  BY TypeParts, MessageFacts DEF Shape, TypeRest, Contents
<1>4. vault[c].version # 0
  <2>1. messages[p].version \in Nat /\ messages[p].version + 1 = vault[c].version
    BY <1>1, <1>3, CommitUnlocks, StateTypes DEF RowOK
  <2> QED BY <2>1
<1>5. /\ messages'[p].version = vault[c].version /\ messages'[p].status = messages[p].status
      /\ messages'[p].retraction = messages[p].retraction
      /\ \A q \in Posts \ {p} : messages'[q] = messages[q]
  BY <1>1, <1>3 DEF MessageState
<1>6. \A q \in Posts : MessageOK(q, messages'[q])
  BY <1>4, <1>5 DEF Recorded, MessageOK
<1>7. ScheduleMatches'
  BY <1>1, <1>5 DEF Recorded, ScheduleMatches
<1>8. ErasureIsDue'
  <2> SUFFICES ASSUME NEW q \in Posts, tombstones[q] # None
               PROVE  \/ messages'[q].status = "erased"
                      \/ /\ messages'[q].status = "retracted"
                         /\ messages'[q].retraction = tombstones[q]
                         /\ tombstones[q] \in over
    BY <1>2 DEF ErasureIsDue
  <2>1. messages'[q].status = messages[q].status /\ messages'[q].retraction = messages[q].retraction
    BY <1>5
  <2> QED BY <2>1 DEF Recorded, ErasureIsDue
<1> QED BY <1>1, <1>6, <1>7, <1>8, CommitUnlocks, CommitRecords

\* attestAndFinalizeMessageStateMutation.
LEMMA CommitStateKeeps ==
    ASSUME Shape, Locked, Recorded, NEW h \in Handlers, NEW c \in Retractions \cup Restores,
           CommitMessageStateMutation(h, c)
    PROVE  Locked' /\ Recorded'
<1> DEFINE p == MessageOf(c)
           m == [messages[p] EXCEPT !.status = IF c \in Retractions THEN "retracted" ELSE "active",
                                    !.retraction = IF c \in Retractions THEN c ELSE None]
<1>1. Commits(h, c) /\ UNCHANGED finalization /\ messages' = [messages EXCEPT ![p] = m]
  BY DEF CommitMessageStateMutation
<1>2. UNCHANGED <<tombstones, over>>
  BY <1>1 DEF Commits, world
<1>3. /\ messages \in [Posts -> MessageState] /\ p \in Posts /\ c \notin Contents
      /\ schedule \in [Posts -> Retractions \cup {None}] /\ p = Target[c]
  BY TypeParts, MessageFacts, KindFacts DEF Shape, TypeRest
<1>4. /\ m.status = IF c \in Retractions THEN "retracted" ELSE "active"
      /\ m.retraction = IF c \in Retractions THEN c ELSE None
      /\ m.version = messages[p].version
  BY <1>3 DEF MessageState
<1> HIDE DEF m
<1>5. messages'[p] = m /\ \A q \in Posts \ {p} : messages'[q] = messages[q]
  BY <1>1, <1>3
<1>6. Fits(c, run[h].next) /\ RowOK(c, messages, vault, finalization, over)
  BY <1>1, CommitFacts, CommitUnlocks
<1>7. None \notin Retractions
  BY NamesAssumption DEF Commands
<1>8. CASE c \in Retractions
  <2>1. messages[p].status = "active"
    BY <1>6, <1>8 DEF RowOK
  <2>2. tombstones[p] = None /\ messages[p].version # 0
    BY <1>3, <2>1 DEF Recorded, ErasureIsDue, MessageOK
  <2>3. schedule' = [schedule EXCEPT ![p] = c]
    <3>1. c \notin Restores
      BY <1>8, KindFacts
    <3> QED BY <1>8, <3>1 DEF CommitMessageStateMutation
  <2>4. m.status = "retracted" /\ m.retraction = c
    BY <1>4, <1>8
  <2>5. \A q \in Posts : MessageOK(q, messages'[q])
    BY <1>3, <1>4, <1>5, <1>7, <1>8, <2>2, <2>4 DEF Recorded, MessageOK
  <2>6. ScheduleMatches'
    BY <1>3, <1>5, <2>3, <2>4 DEF Recorded, ScheduleMatches
  <2>7. ErasureIsDue'
    BY <1>2, <1>5, <2>2 DEF Recorded, ErasureIsDue
  <2> QED BY <1>1, <1>3, <2>5, <2>6, <2>7, CommitUnlocks, CommitRecords
<1>9. CASE c \in Restores
  <2>1. c \notin Retractions
    BY <1>9, KindFacts
  <2>2. messages[p].retraction # None /\ messages[p].retraction \notin over
    BY <1>6, <1>9 DEF Fits
  <2>3. messages[p].status = "retracted" /\ messages[p].version # 0
    BY <1>3, <2>2 DEF Recorded, MessageOK
  <2>4. tombstones[p] = None
    BY <1>3, <2>2, <2>3 DEF Recorded, ErasureIsDue
  <2>5. schedule' = [schedule EXCEPT ![p] = None]
    BY <1>3, <1>9, <2>1 DEF CommitMessageStateMutation, Recorded, ScheduleMatches
  <2>6. m.status = "active" /\ m.retraction = None
    BY <1>4, <2>1
  <2>7. \A q \in Posts : MessageOK(q, messages'[q])
    BY <1>3, <1>4, <1>5, <2>3, <2>6 DEF Recorded, MessageOK
  <2>8. ScheduleMatches'
    BY <1>3, <1>5, <2>5, <2>6 DEF Recorded, ScheduleMatches
  <2>9. ErasureIsDue'
    BY <1>2, <1>5, <2>4 DEF Recorded, ErasureIsDue
  <2> QED BY <1>1, <1>3, <2>7, <2>8, <2>9, CommitUnlocks, CommitRecords
<1> QED BY <1>8, <1>9

\* attestAndFinalizeMessageErasure.
LEMMA CommitErasureKeeps ==
    ASSUME Shape, Locked, Recorded, NEW h \in Handlers, NEW c \in Erasures, CommitMessageErasure(h, c)
    PROVE  Locked' /\ Recorded'
<1> DEFINE p == MessageOf(c)
           m == [NoMessage EXCEPT !.status = "erased"]
<1>1. Commits(h, c) /\ messages' = [messages EXCEPT ![p] = m]
      /\ finalization' = finalization \ ContentsOf(p)
      /\ schedule' = IF schedule[p] = c[2] THEN [schedule EXCEPT ![p] = None] ELSE schedule
  BY DEF CommitMessageErasure
<1>2. UNCHANGED <<tombstones, over>>
  BY <1>1 DEF Commits, world
<1>3. /\ messages \in [Posts -> MessageState] /\ p \in Posts /\ c \notin Contents
      /\ schedule \in [Posts -> Retractions \cup {None}]
  BY TypeParts, MessageFacts, KindFacts DEF Shape, TypeRest, Commands
<1>4. m.status = "erased" /\ m.retraction = None
  BY DEF NoMessage
<1> HIDE DEF m
<1>5. messages'[p] = m /\ \A q \in Posts \ {p} : messages'[q] = messages[q]
  BY <1>1, <1>3
<1>6. messages[p].retraction = c[2] /\ finalization \cap ContentsOf(p) = {}
  BY <1>1, CommitUnlocks DEF RowOK
<1>7. schedule' = [schedule EXCEPT ![p] = None] /\ finalization' = finalization
  BY <1>1, <1>3, <1>6 DEF Recorded, ScheduleMatches
<1>8. \A q \in Posts : MessageOK(q, messages'[q])
  BY <1>4, <1>5 DEF Recorded, MessageOK
<1>9. ScheduleMatches'
  BY <1>3, <1>4, <1>5, <1>7 DEF Recorded, ScheduleMatches
<1>10. ErasureIsDue'
  BY <1>2, <1>4, <1>5 DEF Recorded, ErasureIsDue
<1> QED BY <1>1, <1>3, <1>7, <1>8, <1>9, <1>10, CommitUnlocks, CommitRecords

\* attestAndFinalizeMessageReaction and attestAndFinalize.
LEMMA CommitOtherKeeps ==
    ASSUME Shape, Locked, Recorded, NEW h \in Handlers, NEW c \in Toggles \cup Members, Commits(h, c),
           UNCHANGED <<messages, finalization, schedule>>
    PROVE  Locked' /\ Recorded'
<1>1. UNCHANGED <<tombstones, over>>
  BY DEF Commits, world
<1>2. c \notin Contents
  BY KindFacts
<1>3. (\A p \in Posts : MessageOK(p, messages'[p])) /\ ScheduleMatches' /\ ErasureIsDue'
  BY <1>1 DEF Recorded, ScheduleMatches, ErasureIsDue
<1> QED BY <1>2, <1>3, CommitUnlocks, CommitRecords

\* Every step keeps the lock and the records.
LEMMA KeepsStep ==
    ASSUME Shape, Locked, Recorded, [Next]_vars
    PROVE  Locked' /\ Recorded'
<1>1. ASSUME NEW h \in Handlers,
             \/ Request(h)
             \/ AdmitEdit(h) \/ ReadContent(h) \/ Staged(h) \/ DecideRefused(h) \/ Attest(h)
             \/ CommitExisting(h) \/ CommitRefused(h)
             \/ Stage(h) \/ Claim(h) \/ ReleaseClaim(h) \/ Reclaim(h) \/ Finalize(h) \/ Refinalize(h)
             \/ Authorize(h) \/ Released(h)
      PROVE  Locked' /\ Recorded'
  BY <1>1, StepCalm, CalmKeeps
<1>2. ASSUME NEW h \in Handlers, Step(h) PROVE Locked' /\ Recorded'
  BY <1>1, <1>2, DecideKeeps, DecideIdempotentKeeps, RefreshKeeps, CommitMessageKeeps,
     CommitMessageMutationKeeps, CommitStateKeeps, CommitErasureKeeps, CommitOtherKeeps,
     FinalizedKeeps, FlushOutboxKeeps, DestroyGenerationKeeps, PrepareErasureKeeps
     DEF Step, CommitMessageReaction, CommitCommand
<1>3. CASE FireAlarm \/ AlarmStep
  BY <1>3, AlarmCalm, CalmKeeps, ReconcileDueKeeps DEF AlarmStep
<1>4. CASE Environment
  BY <1>4, EnvironmentCalm, CalmKeeps
<1>5. CASE UNCHANGED vars
  <2>1. UNCHANGED <<tables, enqueued, vault, tombstones, over>>
    BY <1>5 DEF vars, object, world
  <2> QED BY <2>1, StillCalm, CalmKeeps
<1> QED BY <1>1, <1>2, <1>3, <1>4, <1>5, LoseCallKeeps DEF Next

\* The lock is free and the records are consistent at the start.
LEMMA InitKeeps ==
    ASSUME Init
    PROVE  Locked /\ Recorded
<1>1. Shape
  BY InitShape
<1>2. \A t \in Tables : pending[t] = None
  BY DEF Init
<1>3. Locked
  BY <1>2 DEF Locked, OnePending, PendingIsNext
<1>4. /\ journal \in Seq(Commands \cup Erasures)
      /\ results = {journal[i] : i \in 1..Len(journal)} /\ enqueued = Len(journal)
      /\ finalization = {}
  BY <1>1, TypeParts DEF Init, cursor, Shape, TypeRest
<1>5. \A i \in 1..Len(journal) : journal[i] \in results
  BY <1>4
<1>6. \A p \in Posts : MessageOK(p, messages[p]) /\ messages[p].retraction = None
  <2>1. ASSUME NEW p \in Posts
        PROVE  \/ messages[p] = [status |-> "active", version |-> 1, retraction |-> None]
               \/ messages[p] = [status |-> "absent", version |-> 0, retraction |-> None]
    BY DEF Init, NoMessage
  <2> QED BY <2>1 DEF MessageOK
<1>7. \A c \in Contents : ContentOK(vault[c]) /\ (c \in results => vault[c].status = "finalized")
  <2> DEFINE e == [NoContent EXCEPT !.status = "finalized", !.version = 1]
  <2>1. e.status = "finalized" /\ NoContent.status = "none" /\ NoContent.version = 0
    BY DEF NoContent
  <2> HIDE DEF e
  <2>2. \A c \in Contents : vault[c] = IF c \in results THEN e ELSE NoContent
    BY DEF Init, e
  <2> QED BY <2>1, <2>2 DEF ContentOK
<1>8. LedgerOK(results, finalization, vault)
  BY <1>7 DEF LedgerOK, Final
<1>9. ScheduleMatches /\ ErasureIsDue
  BY <1>6 DEF Init, ScheduleMatches, ErasureIsDue
<1>10. ProjectedIsFinal
  BY <1>4, <1>5, <1>7 DEF ProjectedIsFinal
<1> QED BY <1>3, <1>5, <1>6, <1>7, <1>8, <1>9, <1>10 DEF Recorded

-----------------------------------------------------------------------------
(* The theorems about the lock and the records *)

\* The lock, the rows it protects and the records hold in every state.
THEOREM RecordInvariant == Spec => []RecordInv
<1>1. Init => RecordInv
  BY InitShape, InitKeeps DEF RecordInv
<1>2. RecordInv /\ [Next]_vars => RecordInv'
  BY ShapeStep, KeepsStep DEF RecordInv, Recorded
<1> QED BY <1>1, <1>2, PTL DEF Spec

\* Every variable keeps its type.
THEOREM TypeCorrect == Spec => []TypeOK
<1>1. RecordInv => TypeOK
  BY DEF RecordInv, Shape
<1> QED BY <1>1, RecordInvariant, PTL

\* However the handlers interleave between their awaits, the three pending
\* tables hold at most one row, and a signed row is the journal's successor.
THEOREM LockHolds == Spec => []PendingIsOneSuccessor
<1>1. RecordInv => PendingIsOneSuccessor
  BY DEF RecordInv, Locked, PendingIsOneSuccessor
<1> QED BY <1>1, RecordInvariant, PTL

\* An erasure is planned and decided only for the retraction in force, across
\* crashes, restores and later retractions.
THEOREM ErasureInOrder == Spec => []ErasureFollowsRetraction
<1>1. RecordInv => ErasureFollowsRetraction
  BY DEF RecordInv, Recorded, ErasureFollowsRetraction
<1> QED BY <1>1, RecordInvariant, PTL

\* flushOutbox never passes an event whose content is not final.
THEOREM ProjectedHolds == Spec => []ProjectedIsFinal
<1>1. RecordInv => ProjectedIsFinal
  BY DEF RecordInv, Recorded
<1> QED BY <1>1, RecordInvariant, PTL

-----------------------------------------------------------------------------
(* The journal implements the log *)

\* Only a commit and the outbox touch the journal and what was delivered of it.
LEMMA JournalStep ==
    ASSUME Shape, [Next]_vars
    PROVE  \/ UNCHANGED <<journal, enqueued>>
           \/ \E h \in Handlers : \E c : Commits(h, c)
           \/ \E h \in Handlers : FlushOutbox(h)
<1>1. ASSUME NEW h \in Handlers, Step(h)
      PROVE  \/ UNCHANGED <<journal, enqueued>>
             \/ \E c : Commits(h, c)
             \/ FlushOutbox(h)
  <2>1. CASE \/ AdmitEdit(h) \/ ReadContent(h) \/ Staged(h) \/ DecideRefused(h) \/ Attest(h)
             \/ CommitExisting(h) \/ CommitRefused(h)
             \/ Stage(h) \/ Claim(h) \/ ReleaseClaim(h) \/ Reclaim(h) \/ Finalize(h) \/ Refinalize(h)
             \/ Authorize(h) \/ Released(h)
    <3>1. Calm
      BY <2>1, StepCalm
    <3> QED BY <3>1 DEF Calm
  <2>2. CASE \/ Decide(h) \/ DecideIdempotent(h) \/ RefreshPendingRetraction(h) \/ Finalized(h)
             \/ DestroyGeneration(h) \/ PrepareErasure(h)
    BY <2>2 DEF Decide, DecideIdempotent, RefreshPendingRetraction, Finalized, DestroyGeneration,
                PrepareErasure, tables
  <2>3. CASE \/ \E c \in Posts : CommitMessage(h, c)
             \/ \E c \in Edits : CommitMessageMutation(h, c)
             \/ \E c \in Retractions \cup Restores : CommitMessageStateMutation(h, c)
             \/ \E c \in Erasures : CommitMessageErasure(h, c)
             \/ \E c \in Toggles : CommitMessageReaction(h, c)
             \/ \E c \in Members : CommitCommand(h, c)
    BY <2>3 DEF CommitMessage, CommitMessageMutation, CommitMessageStateMutation, CommitMessageErasure,
                CommitMessageReaction, CommitCommand
  <2> QED BY <1>1, <2>1, <2>2, <2>3 DEF Step
<1>2. ASSUME NEW h \in Handlers, Request(h) PROVE UNCHANGED <<journal, enqueued>>
  <2>1. Calm
    BY <1>2, StepCalm
  <2> QED BY <2>1 DEF Calm
<1>3. ASSUME NEW h \in Handlers, LoseCall(h) PROVE UNCHANGED <<journal, enqueued>>
  BY <1>3 DEF LoseCall
<1>4. CASE FireAlarm \/ AlarmStep
  <2>1. CASE ReconcileDue
    BY <2>1 DEF ReconcileDue
  <2>2. CASE \/ FireAlarm \/ ResumeCommand \/ ResumePendingMessage \/ ResumeReaction \/ AfterReaction
             \/ ReconcileContentFinalizations \/ FinishAlarm
    <3>1. Calm
      BY <2>2, AlarmCalm
    <3> QED BY <3>1 DEF Calm
  <2> QED BY <1>4, <2>1, <2>2 DEF AlarmStep
<1>5. CASE Environment
  <2>1. Calm
    BY <1>5, EnvironmentCalm
  <2> QED BY <2>1 DEF Calm
<1>6. CASE UNCHANGED vars
  BY <1>6 DEF vars, object, tables
<1> QED BY <1>1, <1>2, <1>3, <1>4, <1>5, <1>6 DEF Next

\* A step of the write path is a step of the log or none: a command commits
\* only if the ledgers have no result of it, which they have of all the journal.
LEMMA LogStep ==
    ASSUME RecordInv, [Next]_vars
    PROVE  [Log!Next]_(Log!vars)
<1>0. Shape /\ Recorded
  BY DEF RecordInv
<1>1. CASE UNCHANGED <<journal, enqueued>>
  BY <1>1 DEF Log!vars
<1>2. ASSUME NEW h \in Handlers, NEW c, Commits(h, c) PROVE Log!Next
  <2>1. c \in Commands \cup Erasures /\ c \notin results /\ journal' = Append(journal, c)
    BY <1>0, <1>2, CommitFacts
  <2>2. enqueued' = enqueued
    BY <1>2 DEF Commits
  <2>3. c \notin Log!Applied
    BY <1>0, <2>1 DEF Log!Applied, Recorded
  <2> QED BY <2>1, <2>2, <2>3 DEF Log!Next, Log!Apply
<1>3. ASSUME NEW h \in Handlers, FlushOutbox(h) PROVE Log!Next \/ UNCHANGED <<journal, enqueued>>
  <2>1. Flushable \in enqueued..Len(journal) /\ enqueued \in Nat /\ Len(journal) \in Nat
    BY <1>0, FlushableFacts, TypeParts DEF Shape, TypeRest
  <2>2. enqueued' \in enqueued..Len(journal) /\ journal' = journal
    BY <1>3, <2>1 DEF FlushOutbox, tables
  <2>3. enqueued' = enqueued \/ enqueued' \in (enqueued + 1)..Len(journal)
    BY <2>1, <2>2
  <2> QED BY <2>2, <2>3 DEF Log!Next, Log!Deliver
<1> QED BY <1>0, <1>1, <1>2, <1>3, JournalStep

\* The write path implements the log its readers are promised: each command is
\* applied at most once, in one order, delivered in that order without a gap.
THEOREM ImplementsLog == Spec => KeepsLog
<1>1. Init => Log!Init
  <2> SUFFICES ASSUME Init PROVE Log!Init
    OBVIOUS
  <2>1. journal \in Seq(Commands \cup Erasures)
    BY InitShape, TypeParts DEF Shape, TypeRest
  <2> QED BY <2>1 DEF Init, Log!Init, cursor
<1>2. RecordInv /\ [Next]_vars => [Log!Next]_(Log!vars)
  BY LogStep
<1> QED BY <1>1, <1>2, RecordInvariant, PTL DEF Spec, KeepsLog, Log!Spec

-----------------------------------------------------------------------------
(* No durable work without an alarm *)

\* The table of the part the alarm is in is empty.
PartRow(r, rows) ==
    /\ r.phase = "message" => rows["command"] = None
    /\ r.phase = "reaction" => rows["message"] = None
    /\ r.phase = "reacted" => rows["reaction"] = None

\* Work only goes, or an event is committed for the message that was pending.
Settles ==
    /\ UNCHANGED schedule
    /\ Drop
    /\ \/ pending["message"] # None
       \/ /\ finalization' \subseteq finalization
          /\ Len(journal') = Len(journal)
          /\ enqueued = Len(journal) => enqueued' = Len(journal)

\* What one handler does leaves the others where they are.
Others(h) == \A g \in Handlers \ {h} : run'[g] = run[g]

\* Less work is as tidy.
LEMMA TidyDrops ==
    ASSUME NEW r, Settles, Tidy(r, pending, finalization, enqueued, Len(journal))
    PROVE  Tidy(r, pending', finalization', enqueued', Len(journal'))
<1>1. \A t \in Tables : pending[t] = None => pending'[t] = None
  BY DEF Settles, Drop
<1>2. \A t \in Tables : Mine(r, pending[t]) => Mine(r, pending'[t])
  BY DEF Settles, Drop, Mine
<1>3. {"command", "message", "reaction"} \subseteq Tables
  BY DEF Tables
<1>4. CASE pending["message"] # None
  <2>1. /\ r.at \notin {"idle", "reaction", "ledger", "tail"} /\ r.phase \notin {"ledger", "tail"}
    BY <1>3, <1>4 DEF Tidy
  <2> QED BY <1>1, <1>2, <1>3, <2>1 DEF Tidy
<1>5. CASE /\ finalization' \subseteq finalization /\ Len(journal') = Len(journal)
           /\ enqueued = Len(journal) => enqueued' = Len(journal)
  BY <1>1, <1>2, <1>3, <1>5 DEF Tidy
<1> QED BY <1>4, <1>5 DEF Settles

\* The alarm's handler goes on in its part.
LEMMA TidyMoves ==
    ASSUME NEW r, NEW s, NEW rows, NEW fin, NEW e, NEW n, Tidy(r, rows, fin, e, n),
           s.phase = r.phase, s.cmd = r.cmd, s.todo = r.todo, s.next = r.next,
           s.at \notin Parts \cup {"idle"},
           s.at \in Done => r.at \in Done \/ PartRow(r, rows)
    PROVE  Tidy(s, rows, fin, e, n)
<1>1. \A row : Mine(r, row) => Mine(s, row)
  BY DEF Mine
<1>2. s.at \notin {"idle", "message", "reaction", "reacted", "ledger", "tail"}
  BY DEF Parts
<1> QED BY <1>1, <1>2 DEF Tidy, PartRow

\* The alarm's handler returns to its part.
LEMMA TidyReturns ==
    ASSUME NEW r, NEW s, NEW rows, NEW fin, NEW e, NEW n, Tidy(r, rows, fin, e, n),
           s.phase = "idle", s.at = r.phase, s.todo = r.todo,
           r.phase \in {"command", "message", "reaction", "reacted", "ledger", "tail"},
           PartRow(r, rows),
           r.phase = "ledger" => fin \subseteq r.todo,
           r.phase = "tail" => e = n
    PROVE  Tidy(s, rows, fin, e, n)
BY DEF Tidy, PartRow, Done

\* A step that moves only one handler.
LEMMA OthersFacts ==
    ASSUME Shape, NEW h \in Handlers
    PROVE  /\ \A r : Become(h, r) => Others(h)
           /\ \A at : Goto(h, at) => Others(h)
           /\ Return(h) => Others(h)
           /\ Throw(h) => Others(h)
           /\ MarkFailure(h) => Others(h) /\ alarm' # "off"
           /\ ScheduleAlarm => alarm' # "off"
           /\ Publish(h) => Others(h) /\ alarm' # "off"
           /\ Throw(h) => (alarm' = alarm \/ alarm' # "off")
           /\ h = Alarm /\ Throw(h) => alarm' # "off"
<1>1. run \in [Handlers -> HandlerState]
  BY TypeParts DEF Shape
<1>2. \A r : Become(h, r) => Others(h)
  BY <1>1 DEF Become, Others
<1>3. \A at : Goto(h, at) => Others(h)
  BY <1>1 DEF Goto, Others
<1>4. ScheduleAlarm => alarm' # "off"
  BY DEF ScheduleAlarm
<1> QED BY <1>2, <1>3, <1>4 DEF Return, Throw, MarkFailure, Publish

\* Requests and steps move their own handler.
LEMMA StepOthers ==
    ASSUME Shape, NEW h \in Handlers, Request(h) \/ Step(h) \/ LoseCall(h)
    PROVE  Others(h) /\ up' = up
<1>1. CASE Request(h)
  BY <1>1, OthersFacts DEF Request, PostMessage, MutateMessage, MutateMessageState,
     MutateMessageReaction, Execute, Enter, NoChange
<1>2. CASE LoseCall(h)
  BY <1>2, OthersFacts DEF LoseCall
<1>3. CASE \/ AdmitEdit(h) \/ ReadContent(h) \/ Stage(h)
  BY <1>3, OthersFacts DEF AdmitEdit, ReadContent, Stage, Enter, NoChange
<1>4. CASE Staged(h)
  BY <1>4, OthersFacts DEF Staged, NoChange
<1>5. CASE Decide(h) \/ DecideIdempotent(h) \/ DecideRefused(h)
  BY <1>5, OthersFacts DEF Decide, DecideIdempotent, DecideRefused, NoChange
<1>6. CASE Authorize(h) \/ RefreshPendingRetraction(h)
  BY <1>6, OthersFacts DEF Authorize, RefreshPendingRetraction
<1>7. CASE Claim(h) \/ ReleaseClaim(h) \/ Released(h) \/ Attest(h)
  BY <1>7, OthersFacts DEF Claim, ReleaseClaim, Released, Attest, NoChange
<1>8. CASE \/ \E c \in Posts : CommitMessage(h, c)
           \/ \E c \in Edits : CommitMessageMutation(h, c)
           \/ \E c \in Retractions \cup Restores : CommitMessageStateMutation(h, c)
           \/ \E c \in Erasures : CommitMessageErasure(h, c)
           \/ \E c \in Toggles : CommitMessageReaction(h, c)
           \/ \E c \in Members : CommitCommand(h, c)
  BY <1>8, OthersFacts DEF CommitMessage, CommitMessageMutation, CommitMessageStateMutation,
     CommitMessageErasure, CommitMessageReaction, CommitCommand, Commits
<1>9. CASE CommitExisting(h) \/ CommitRefused(h)
  BY <1>9, OthersFacts DEF CommitExisting, CommitRefused
<1>10. CASE Reclaim(h) \/ Finalize(h) \/ Finalized(h) \/ Refinalize(h) \/ FlushOutbox(h)
  BY <1>10, OthersFacts DEF Reclaim, Finalize, Finalized, Refinalize, FlushOutbox
<1>11. CASE DestroyGeneration(h) \/ PrepareErasure(h)
  BY <1>11, OthersFacts DEF DestroyGeneration, PrepareErasure
<1> QED BY <1>1, <1>2, <1>3, <1>4, <1>5, <1>6, <1>7, <1>8, <1>9, <1>10, <1>11 DEF Step

\* A step on nothing but a handler, and perhaps the alarm.
LEMMA StillSettles ==
    ASSUME Shape, UNCHANGED <<journal, finalization, schedule, enqueued>>, Drop
    PROVE  Settles
BY DEF Settles

\* A step that leaves the alarm off leaves no new work behind.
LEMMA HandlerSettles ==
    ASSUME RecordInv, NEW h \in Handlers, Request(h) \/ Step(h) \/ LoseCall(h), ~PrepareErasure(h),
           alarm' = "off"
    PROVE  alarm = "off" /\ Settles
<1> DEFINE c == run[h].cmd
<1>0. Shape /\ Locked /\ Recorded /\ alarm \in {"off", "asked", "armed"}
  BY TypeParts DEF RecordInv, Shape, TypeRest
<1>1. CASE \/ Request(h)
           \/ AdmitEdit(h) \/ ReadContent(h) \/ Staged(h) \/ DecideRefused(h) \/ Attest(h)
           \/ CommitExisting(h) \/ CommitRefused(h)
           \/ Stage(h) \/ Claim(h) \/ ReleaseClaim(h) \/ Reclaim(h) \/ Finalize(h) \/ Refinalize(h)
           \/ Authorize(h) \/ Released(h)
  <2>1. Settles
    BY <1>0, <1>1, StepCalm, StillSettles DEF Calm
  <2>2. CASE Request(h)
    BY <2>1, <2>2 DEF Request, PostMessage, MutateMessage, MutateMessageState, MutateMessageReaction,
                Execute, NoChange
  <2>3. CASE \/ AdmitEdit(h) \/ ReadContent(h) \/ Staged(h) \/ DecideRefused(h) \/ Attest(h) \/ Stage(h)
             \/ Authorize(h) \/ Released(h)
    BY <2>1, <2>3 DEF AdmitEdit, ReadContent, Staged, DecideRefused, Attest, Stage, Authorize, Released, NoChange
  <2>4. CASE CommitExisting(h) \/ CommitRefused(h)
    BY <1>0, <2>1, <2>4, OthersFacts DEF CommitExisting, CommitRefused
  <2>5. CASE Claim(h) \/ ReleaseClaim(h) \/ Reclaim(h) \/ Finalize(h) \/ Refinalize(h)
    BY <1>0, <2>1, <2>5, OthersFacts DEF Claim, ReleaseClaim, Reclaim, Finalize, Refinalize
  <2> QED BY <1>1, <2>1, <2>2, <2>3, <2>4, <2>5
<1>2. CASE Decide(h)
  BY <1>0, <1>2, OthersFacts DEF Decide
<1>3. CASE DecideIdempotent(h)
  BY <1>0, <1>3, StillSettles DEF DecideIdempotent, Drop
<1>4. CASE RefreshPendingRetraction(h)
  <2>1. c \in Retractions /\ c \in Commands \cup Erasures /\ TableOf(c) = "message" /\ c \notin Erasures
    BY <1>0, <1>4, AtFacts, TableFacts, KindFacts DEF RefreshPendingRetraction, AwaitFor, Commands
  <2>2. CASE Abandon(c) \/ UNCHANGED pending
    <3>1. Drop
      BY <1>0, <2>1, <2>2, AbandonFacts DEF Drop
    <3> QED BY <1>0, <1>4, <3>1, StillSettles DEF RefreshPendingRetraction
  <2>3. CASE IsPending(c) /\ pending' = [pending EXCEPT !["message"].next = cursor + 1]
    <3>1. pending["message"] \in Row /\ pending["message"].cmd = c /\ pending["message"] # None
      BY <1>0, <2>1, <2>3, OthersEmpty
    <3>2. "message" \in Tables /\ pending \in [Tables -> Row \cup {None}]
      BY <1>0, TypeParts DEF Tables, Shape, TypeRest
    <3>3. pending["message"].step = "signed"
      BY <1>0, <2>1, <3>1, <3>2 DEF Shape, TableOK, Row
    <3>4. pending["message"].next = cursor + 1
      BY <1>0, <3>1, <3>2, <3>3 DEF Locked, PendingIsNext
    <3>5. [pending["message"] EXCEPT !.next = cursor + 1] = pending["message"]
      BY <3>1, <3>4 DEF Row
    <3>6. pending' = pending
      BY <2>3, <3>2, <3>5
    <3>7. Drop
      BY <3>6 DEF Drop
    <3> QED BY <1>0, <1>4, <3>7, StillSettles DEF RefreshPendingRetraction
  <2> QED BY <1>4, <2>2, <2>3 DEF RefreshPendingRetraction
<1>5. ASSUME NEW d \in Contents, Commits(h, d), UNCHANGED <<schedule, alarm>>
      PROVE  alarm = "off" /\ Settles
  <2>1. IsPending(d) /\ Drop /\ TableOf(d) = "message"
    BY <1>0, <1>5, CommitFacts, TableFacts
  <2> QED BY <1>5, <2>1 DEF Settles, IsPending
<1>6. CASE (\E d \in Posts : CommitMessage(h, d)) \/ (\E d \in Edits : CommitMessageMutation(h, d))
  BY <1>5, <1>6 DEF CommitMessage, CommitMessageMutation, Contents
<1>7. CASE \/ \E d \in Retractions \cup Restores : CommitMessageStateMutation(h, d)
           \/ \E d \in Erasures : CommitMessageErasure(h, d)
           \/ \E d \in Toggles : CommitMessageReaction(h, d)
           \/ \E d \in Members : CommitCommand(h, d)
  BY <1>0, <1>7, OthersFacts DEF CommitMessageStateMutation, CommitMessageErasure, CommitMessageReaction,
     CommitCommand
<1>8. CASE Finalized(h)
  BY <1>8 DEF Finalized, Settles, Drop
<1>9. CASE FlushOutbox(h)
  <2>1. enqueued' = Flushable /\ UNCHANGED <<alarm, tables>>
    BY <1>0, <1>9, OthersFacts DEF FlushOutbox
  <2>2. Flushable \in enqueued..Len(journal) /\ enqueued \in Nat /\ Len(journal) \in Nat
    BY <1>0, FlushableFacts, TypeParts DEF Shape, TypeRest
  <2>3. enqueued = Len(journal) => enqueued' = Len(journal)
    BY <2>1, <2>2
  <2> QED BY <2>1, <2>3 DEF Settles, Drop, tables
<1>10. CASE DestroyGeneration(h)
  <2>1. UNCHANGED tables /\ UNCHANGED <<enqueued, alarm>>
    BY <1>0, <1>10, OthersFacts DEF DestroyGeneration
  <2> QED BY <2>1 DEF Settles, Drop, tables
<1>11. CASE LoseCall(h)
  <2>1. UNCHANGED <<journal, finalization, schedule, enqueued>>
    BY <1>11 DEF LoseCall
  <2>2. alarm = "off" /\ (UNCHANGED pending \/ (c \in Toggles /\ Abandon(c)))
    BY <1>0, <1>11, OthersFacts DEF LoseCall
  <2>3. c \in Toggles => c \in Commands \cup Erasures
    BY DEF Commands
  <2>4. Drop
    BY <1>0, <2>2, <2>3, AbandonFacts DEF Drop
  <2> QED BY <1>0, <2>1, <2>2, <2>4, StillSettles
<1> QED BY <1>1, <1>2, <1>3, <1>4, <1>6, <1>7, <1>8, <1>9, <1>10, <1>11 DEF Step

\* A step that leaves the alarm's handler alone.
LEMMA SettlesArmed ==
    ASSUME Armed, run'[Alarm] = run[Alarm], up' = up, alarm' = "off" => alarm = "off" /\ Settles
    PROVE  Armed'
<1>1. ASSUME alarm' = "off", up'
      PROVE  /\ Tidy(run'[Alarm], pending', finalization', enqueued', Len(journal'))
             /\ run'[Alarm].at = "idle" => ~Scheduled'
  <2>1. alarm = "off" /\ up /\ Settles
    BY <1>1
  <2>2. Tidy(run[Alarm], pending, finalization, enqueued, Len(journal))
        /\ (run[Alarm].at = "idle" => ~Scheduled)
    BY <2>1 DEF Armed
  <2>3. Tidy(run[Alarm], pending', finalization', enqueued', Len(journal'))
    BY <2>1, <2>2, TidyDrops
  <2>4. Scheduled' = Scheduled
    BY <2>1 DEF Settles, Scheduled
  <2> QED BY <2>2, <2>3, <2>4
<1>2. ~up' => run'[Alarm].at = "idle"
  BY DEF Armed
<1> QED BY <1>1, <1>2 DEF Armed

\* The clients.
LEMMA ClientArmed ==
    ASSUME RecordInv, Armed, NEW h \in Clients, Request(h) \/ Step(h) \/ LoseCall(h)
    PROVE  Armed'
<1>1. Shape /\ h \in Handlers /\ h # Alarm /\ Alarm \in Handlers
  BY NamesAssumption DEF RecordInv, Handlers
<1>2. Others(h) /\ up' = up
  BY <1>1, StepOthers
<1>3. run'[Alarm] = run[Alarm]
  BY <1>1, <1>2 DEF Others
<1>4. ~PrepareErasure(h)
  BY <1>1, DestroyFacts DEF PrepareErasure
<1>5. alarm' = "off" => alarm = "off" /\ Settles
  BY <1>1, <1>4, HandlerSettles
<1> QED BY <1>2, <1>3, <1>5, SettlesArmed

\* The environment.
LEMMA EnvironmentArmed ==
    ASSUME RecordInv, Armed, Environment
    PROVE  Armed'
<1>0. Shape /\ Alarm \in Handlers
  BY AlarmIsHandler DEF RecordInv
<1>1. CASE SetAlarm
  BY <1>1, SettlesArmed DEF SetAlarm
<1>2. CASE Crash
  BY <1>0, <1>2 DEF Crash, Armed, Idle
<1>3. CASE Start
  <2>1. /\ UNCHANGED <<tables, enqueued, run>> /\ ~up /\ up' = TRUE
        /\ DurableWork => alarm' = "armed"
    BY <1>3 DEF Start
  <2>2. run[Alarm].at = "idle" /\ PartOK(run[Alarm])
    BY <1>0, <2>1, AtFacts DEF Armed
  <2>3. run[Alarm].phase = "idle"
    BY <2>2 DEF PartOK
  <2>4. ASSUME ~DurableWork
        PROVE  Tidy(run[Alarm], pending, finalization, enqueued, Len(journal)) /\ ~Scheduled
    <3>1. (\A t \in Tables : pending[t] = None) /\ finalization = {} /\ ~Scheduled /\ ~(enqueued < Len(journal))
      BY <2>4 DEF DurableWork, Busy, cursor
    <3>2. enqueued \in 0..Len(journal) /\ Len(journal) \in Nat
      BY <1>0, TypeParts DEF Shape, TypeRest
    <3>3. enqueued = Len(journal)
      BY <3>1, <3>2
    <3> QED BY <2>2, <2>3, <3>1, <3>3 DEF Tidy, Done
  <2>5. alarm' = "off" => ~DurableWork
    BY <2>1
  <2> QED BY <2>1, <2>4, <2>5 DEF Armed, tables, Scheduled
<1>4. CASE \/ Reauthorize
           \/ \E c \in Contents : PreparationElapses(c) \/ VaultCollects(c)
           \/ \E p \in Posts : GraceElapses(p)
  <2>1. UNCHANGED object
    BY <1>4 DEF Reauthorize, PreparationElapses, VaultCollects, GraceElapses
  <2> QED BY <2>1, SettlesArmed DEF object, tables, Settles, Drop
<1> QED BY <1>1, <1>2, <1>3, <1>4 DEF Environment

-----------------------------------------------------------------------------
(* The alarm's handler leaves nothing behind *)

AlarmParts == {"command", "message", "reaction", "reacted", "ledger", "tail"}

TidyNext ==
    /\ Tidy(run'[Alarm], pending', finalization', enqueued', Len(journal'))
    /\ run'[Alarm].at # "idle"

\* The alarm's handler at one of its awaits, with the alarm off.
LEMMA AlarmTidy ==
    ASSUME RecordInv, Armed, Step(Alarm) \/ LoseCall(Alarm), ~PrepareErasure(Alarm), alarm' = "off"
    PROVE  /\ Tidy(run[Alarm], pending, finalization, enqueued, Len(journal))
           /\ Tidy(run[Alarm], pending', finalization', enqueued', Len(journal'))
           /\ run[Alarm].at \notin Parts \cup {"idle"}
           /\ run[Alarm].phase \in AlarmParts
<1>0. Shape /\ Alarm \in Handlers /\ Alarm \notin Clients
  BY AlarmIsHandler DEF RecordInv
<1>1. run[Alarm].at \in Awaits \cup {"destroy", "destroyed"}
  <2>1. CASE LoseCall(Alarm)
    BY <2>1 DEF LoseCall, Authorizations, Retried, Dropped, Awaits
  <2>2. CASE Step(Alarm)
    BY <2>2 DEF Step, AdmitEdit, ReadContent, Stage, Staged, Decide, DecideIdempotent, DecideRefused,
       Authorize, RefreshPendingRetraction, Claim, ReleaseClaim, Released, Attest, CommitMessage,
       CommitMessageMutation, CommitMessageStateMutation, CommitMessageErasure, CommitMessageReaction,
       CommitCommand, Commits, CommitExisting, CommitRefused, Reclaim, Finalize, Finalized, Refinalize,
       FlushOutbox, DestroyGeneration, PrepareErasure, Awaits
  <2> QED BY <2>1, <2>2
<1>2. run[Alarm].at \notin Parts \cup {"idle"}
  BY <1>1 DEF Awaits, Parts
<1>3. run[Alarm].phase \in AlarmParts
  BY <1>0, <1>2, AtFacts DEF PartOK, AlarmParts
<1>4. alarm = "off" /\ Settles /\ up
  BY <1>0, <1>2, HandlerSettles DEF Armed
<1>5. Tidy(run[Alarm], pending, finalization, enqueued, Len(journal))
  BY <1>4 DEF Armed
<1> QED BY <1>2, <1>3, <1>4, <1>5, TidyDrops

\* The command of a part and its table.
LEMMA PartTable ==
    ASSUME Shape, NEW rows
    PROVE  /\ run[Alarm].phase = "message" => TableOf(run[Alarm].cmd) = "command"
           /\ run[Alarm].phase = "reaction" => TableOf(run[Alarm].cmd) = "message"
           /\ run[Alarm].phase = "reacted" => TableOf(run[Alarm].cmd) = "reaction"
           /\ rows[TableOf(run[Alarm].cmd)] = None => PartRow(run[Alarm], rows)
<1>1. PartOK(run[Alarm])
  BY AlarmIsHandler, AtFacts
<1>2. run[Alarm].phase = "message" => TableOf(run[Alarm].cmd) = "command"
  BY <1>1, TableFacts DEF PartOK
<1>3. run[Alarm].phase = "reaction" => TableOf(run[Alarm].cmd) = "message"
  BY <1>1, TableFacts DEF PartOK
<1>4. run[Alarm].phase = "reacted" => TableOf(run[Alarm].cmd) = "reaction"
  BY <1>1, TableFacts DEF PartOK
<1> QED BY <1>2, <1>3, <1>4 DEF PartRow

\* The row of a part is the one its handler works on.
LEMMA PartMine ==
    ASSUME Shape, Tidy(run[Alarm], pending, finalization, enqueued, Len(journal)),
           run[Alarm].phase \in {"message", "reaction", "reacted"}
    PROVE  Mine(run[Alarm], pending[TableOf(run[Alarm].cmd)])
BY PartTable DEF Tidy

\* The alarm's handler goes on.
LEMMA AlarmGoto ==
    ASSUME Shape, NEW at \in Awaits \cup {"destroyed"}, Goto(Alarm, at),
           Tidy(run[Alarm], pending', finalization', enqueued', Len(journal')),
           at \in Done => run[Alarm].at \in Done \/ PartRow(run[Alarm], pending')
    PROVE  TidyNext
<1> DEFINE s == [run[Alarm] EXCEPT !.at = at]
<1>1. at \in Places /\ at \notin Parts \cup {"idle"}
  BY DEF Places, Awaits, Parts
<1>2. /\ Become(Alarm, s) /\ s.at = at /\ s.cmd = run[Alarm].cmd /\ s.next = run[Alarm].next
      /\ s.phase = run[Alarm].phase /\ s.todo = run[Alarm].todo
  BY <1>1, AlarmIsHandler, GotoState
<1>3. run'[Alarm] = s
  BY <1>2, AlarmIsHandler, TypeParts DEF Become, Shape
<1> HIDE DEF s
<1>4. Tidy(s, pending', finalization', enqueued', Len(journal'))
  BY <1>1, <1>2, TidyMoves
<1> QED BY <1>1, <1>2, <1>3, <1>4 DEF TidyNext

\* The alarm's handler returns.
LEMMA AlarmReturn ==
    ASSUME Shape, Return(Alarm), run[Alarm].phase \in AlarmParts,
           Tidy(run[Alarm], pending', finalization', enqueued', Len(journal')),
           PartRow(run[Alarm], pending'),
           run[Alarm].phase = "ledger" => finalization' \subseteq run[Alarm].todo,
           run[Alarm].phase = "tail" => enqueued' = Len(journal')
    PROVE  TidyNext
<1> DEFINE s == [Idle EXCEPT !.at = run[Alarm].phase, !.todo = run[Alarm].todo]
<1>1. s.phase = "idle" /\ s.at = run[Alarm].phase /\ s.todo = run[Alarm].todo
  BY DEF Idle
<1>2. run'[Alarm] = s
  BY AlarmIsHandler, TypeParts DEF Return, Become, Shape
<1> HIDE DEF s
<1>3. Tidy(s, pending', finalization', enqueued', Len(journal'))
  BY <1>1, TidyReturns DEF AlarmParts
<1> QED BY <1>1, <1>2, <1>3 DEF TidyNext, AlarmParts

\* abandonPendingMessage by the alarm's handler empties its part's table.
LEMMA AbandonPart ==
    ASSUME Shape, run[Alarm].cmd \in Commands \cup Erasures, Abandon(run[Alarm].cmd),
           Tidy(run[Alarm], pending, finalization, enqueued, Len(journal))
    PROVE  PartRow(run[Alarm], pending')
<1> DEFINE c == run[Alarm].cmd
<1>1. pending \in [Tables -> Row \cup {None}] /\ TableOf(c) \in Tables
  BY TypeParts, TableFacts DEF Shape, TypeRest
<1>2. CASE run[Alarm].phase \in {"message", "reaction", "reacted"}
  <2>1. Mine(run[Alarm], pending[TableOf(c)])
    BY <1>2, PartMine
  <2>2. pending'[TableOf(c)] = None
    BY <1>1, <2>1 DEF Mine, Abandon, IsPending
  <2> QED BY <2>2, PartTable
<1>3. CASE run[Alarm].phase \notin {"message", "reaction", "reacted"}
  BY <1>3 DEF PartRow
<1> QED BY <1>2, <1>3

\* The alarm's commit finds its row gone, or it commits or throws: what the row
\* was decided on still holds.
LEMMA CommitPart ==
    ASSUME RecordInv, run[Alarm].at = "commit", run[Alarm].phase \in AlarmParts,
           Tidy(run[Alarm], pending, finalization, enqueued, Len(journal)),
           \/ Outcome(Alarm) = "existing" /\ run[Alarm].cmd \notin Toggles
           \/ Outcome(Alarm) = "return" /\ run[Alarm].cmd \notin Retractions \cup Restores \cup Erasures
    PROVE  PartRow(run[Alarm], pending)
<1> DEFINE c == run[Alarm].cmd
<1>0. Shape /\ Locked /\ Recorded /\ PartOK(run[Alarm])
  BY AlarmIsHandler, AtFacts DEF RecordInv
<1>1. CASE run[Alarm].phase \notin {"message", "reaction", "reacted"}
  BY <1>1 DEF PartRow
<1>2. CASE run[Alarm].phase \in {"message", "reaction", "reacted"}
  <2>1. Mine(run[Alarm], pending[TableOf(c)])
    BY <1>0, <1>2, PartMine
  <2>2. CASE pending[TableOf(c)] = None
    BY <1>0, <2>2, PartTable
  <2>3. CASE pending[TableOf(c)] # None
    <3>1. IsPending(c)
      BY <2>1, <2>3 DEF Mine, IsPending
    <3>2. /\ Outcome(Alarm) = "return" /\ ~Fits(c, run[Alarm].next) /\ c \notin Toggles
      BY <2>3, <3>1 DEF Outcome
    <3>3. c \notin Retractions \cup Restores \cup Erasures
      BY <3>2
    <3>4. c \in Contents \cup Members
      BY <1>0, <1>2, <3>2, <3>3 DEF PartOK
    <3>5. c \in Commands \cup Erasures
      BY <3>4 DEF Commands
    <3>6. /\ pending[TableOf(c)] \in Row /\ TableOf(c) \in Tables
          /\ RowOK(c, messages, vault, finalization, over) /\ pending[TableOf(c)].cmd = c
      BY <1>0, <3>1, <3>5, OthersEmpty
    <3>7. pending[TableOf(c)].step = "signed"
      BY <1>0, <2>3, <3>3, <3>6 DEF Shape, TableOK, Row
    <3>8. run[Alarm].next = cursor + 1
      BY <1>0, <2>1, <2>3, <3>3, <3>6, <3>7 DEF Locked, PendingIsNext, Mine
    <3>9. Fits(c, run[Alarm].next)
      <4>1. c \in Posts => MessageOf(c) = c
        BY MessageFacts
      <4> QED BY <3>2, <3>3, <3>6, <3>8, <4>1 DEF Fits, RowOK
    <3> QED BY <3>2, <3>9
  <2> QED BY <2>2, <2>3
<1> QED BY <1>1, <1>2

\* The alarm's handler never serves a client's first awaits.
LEMMA AlarmAwaits ==
    ASSUME Shape
    PROVE  /\ run[Alarm].at \notin {"admit", "stage", "staged", "read", "decide", "refinalize"}
           /\ run[Alarm].at = "flush" => run[Alarm].phase # "ledger"
           /\ run[Alarm].at # "flush" => run[Alarm].phase # "tail"
           /\ run[Alarm].at \in {"authorize", "authorize2", "refresh", "release", "released", "commit", "flush"}
                => run[Alarm].phase # "ledger"
           /\ run[Alarm].at \in {"authorize", "authorize2", "refresh", "released", "commit", "attest"}
                => run[Alarm].cmd \in Commands \cup Erasures
<1>1. PartOK(run[Alarm]) /\ AwaitFor(run[Alarm].at, run[Alarm].cmd)
  BY AlarmIsHandler, AtFacts
<1>2. run[Alarm].at \in {"authorize", "authorize2", "refresh", "released", "commit", "attest"}
        => run[Alarm].cmd \in Commands \cup Erasures
  BY <1>1 DEF AwaitFor, Commands
<1> QED BY <1>1, <1>2 DEF PartOK, Parts

\* Every step of the alarm's handler but the signing of an erasure.
LEMMA AlarmHandlerTidy ==
    ASSUME RecordInv, Armed, Step(Alarm) \/ LoseCall(Alarm), ~PrepareErasure(Alarm), alarm' = "off"
    PROVE  TidyNext
<1> DEFINE c == run[Alarm].cmd
<1>0. Shape /\ Alarm \in Handlers /\ Locked
  BY AlarmIsHandler DEF RecordInv
<1>1. /\ Tidy(run[Alarm], pending, finalization, enqueued, Len(journal))
      /\ Tidy(run[Alarm], pending', finalization', enqueued', Len(journal'))
      /\ run[Alarm].phase \in AlarmParts
  BY AlarmTidy
<1>2. ASSUME Abandon(c), Return(Alarm),
             run[Alarm].at \in {"authorize", "authorize2", "refresh", "released"}
      PROVE  TidyNext
  <2>1. PartRow(run[Alarm], pending')
    BY <1>0, <1>1, <1>2, AbandonPart, AlarmAwaits
  <2>2. run[Alarm].phase \notin {"ledger", "tail"}
    BY <1>0, <1>2, AlarmAwaits
  <2> QED BY <1>0, <1>1, <1>2, <2>1, <2>2, AlarmReturn
<1>3. ASSUME NEW at \in Awaits \cup {"destroyed"}, Goto(Alarm, at), at \notin Done \/ run[Alarm].at \in Done
      PROVE  TidyNext
  BY <1>0, <1>1, <1>3, AlarmGoto
<1>4. CASE AdmitEdit(Alarm) \/ ReadContent(Alarm) \/ Stage(Alarm) \/ Staged(Alarm) \/ Decide(Alarm)
           \/ DecideIdempotent(Alarm) \/ DecideRefused(Alarm) \/ Refinalize(Alarm)
  BY <1>0, <1>4, AlarmAwaits DEF AdmitEdit, ReadContent, Stage, Staged, Decide, DecideIdempotent,
     DecideRefused, Refinalize
<1>5. CASE Authorize(Alarm)
  <2> DEFINE at == CASE run[Alarm].at = "authorize2"  -> "commit"
                     [] run[Alarm].at = "authorize" /\ c \in Contents -> "claim"
                     [] run[Alarm].at = "authorize" /\ c \in Retractions -> "refresh"
                     [] OTHER -> "attest"
             s == [run[Alarm] EXCEPT !.at = at, !.base = cursor]
  <2>1. run[Alarm].at \in {"authorize", "authorize2"}
    BY <1>5 DEF Authorize
  <2>2. CASE Become(Alarm, s)
    <3>1. at \in {"commit", "claim", "refresh", "attest"}
      BY <2>1
    <3> HIDE DEF at
    <3>2. run[Alarm] \in HandlerState
      BY <1>0, AtFacts
    <3>3. /\ s.at = at /\ s.cmd = c /\ s.next = run[Alarm].next
          /\ s.phase = run[Alarm].phase /\ s.todo = run[Alarm].todo
      BY <3>2 DEF HandlerState
    <3>4. run'[Alarm] = s
      BY <1>0, <2>2, TypeParts DEF Become, Shape
    <3> HIDE DEF s
    <3>5. s.at \notin Parts \cup {"idle"} /\ s.at \notin Done
      BY <3>1, <3>3 DEF Parts, Done
    <3>6. Tidy(s, pending', finalization', enqueued', Len(journal'))
      BY <1>1, <3>3, <3>5, TidyMoves
    <3> QED BY <3>4, <3>5, <3>6 DEF TidyNext
  <2>3. CASE Goto(Alarm, "release")
    BY <1>3, <2>3 DEF Awaits, Done
  <2>4. CASE Abandon(c) /\ Return(Alarm)
    BY <1>2, <2>1, <2>4
  <2> QED BY <1>5, <2>2, <2>3, <2>4 DEF Authorize
<1>6. CASE RefreshPendingRetraction(Alarm)
  <2> DEFINE s == [run[Alarm] EXCEPT !.at = "attest", !.next = pending'["message"].next]
  <2>1. run[Alarm].at = "refresh" /\ c \in Retractions
    BY <1>0, <1>6, AtFacts DEF RefreshPendingRetraction, AwaitFor
  <2>2. CASE Abandon(c) /\ Return(Alarm)
    BY <1>2, <2>1, <2>2
  <2>3. CASE Become(Alarm, s)
    <3>1. run[Alarm] \in HandlerState /\ PartOK(run[Alarm])
      BY <1>0, AtFacts
    <3>2. /\ s.at = "attest" /\ s.cmd = c /\ s.next = pending'["message"].next
          /\ s.phase = run[Alarm].phase /\ s.todo = run[Alarm].todo
      BY <3>1 DEF HandlerState
    <3>3. run'[Alarm] = s
      BY <1>0, <2>3, TypeParts DEF Become, Shape
    <3> HIDE DEF s
    <3>4. run[Alarm].phase = "reaction"
      BY <2>1, <3>1, KindFacts DEF PartOK, Parts, Commands, Contents
    <3>5. Tidy(s, pending', finalization', enqueued', Len(journal'))
      BY <1>1, <3>2, <3>4 DEF Tidy, Mine, Done
    <3> QED BY <3>2, <3>3, <3>5 DEF TidyNext
  <2> QED BY <1>6, <2>2, <2>3 DEF RefreshPendingRetraction
<1>7. CASE Claim(Alarm) \/ ReleaseClaim(Alarm) \/ Reclaim(Alarm) \/ Finalize(Alarm)
  <2>1. PICK at \in {"attest", "authorize2", "released", "finalize", "finalized"} :
           Goto(Alarm, at) /\ (at \in Done => run[Alarm].at \in Done)
    BY <1>0, <1>7, OthersFacts DEF Claim, ReleaseClaim, Reclaim, Finalize, Done
  <2> QED BY <1>3, <2>1 DEF Awaits
<1>8. CASE Released(Alarm)
  BY <1>2, <1>8 DEF Released
<1>9. CASE Attest(Alarm)
  <2>1. PICK at \in {"claim2", "commit", "authorize2"} : Goto(Alarm, at)
    BY <1>9 DEF Attest
  <2> QED BY <1>3, <2>1 DEF Awaits, Done
<1>10. ASSUME NEW d \in Contents, Commits(Alarm, d), Goto(Alarm, "reclaim")
       PROVE  TidyNext
  <2>1. pending'[TableOf(c)] = None
    BY <1>0, <1>10, CommitFacts
  <2>2. PartRow(run[Alarm], pending')
    BY <1>0, <2>1, PartTable
  <2> QED BY <1>0, <1>1, <1>10, <2>2, AlarmGoto DEF Awaits
<1>11. CASE \/ \E d \in Posts : CommitMessage(Alarm, d)
            \/ \E d \in Edits : CommitMessageMutation(Alarm, d)
  BY <1>10, <1>11 DEF CommitMessage, CommitMessageMutation, Contents
<1>12. CASE \/ \E d \in Retractions \cup Restores : CommitMessageStateMutation(Alarm, d)
            \/ \E d \in Erasures : CommitMessageErasure(Alarm, d)
            \/ \E d \in Toggles : CommitMessageReaction(Alarm, d)
            \/ \E d \in Members : CommitCommand(Alarm, d)
  BY <1>0, <1>12, OthersFacts DEF CommitMessageStateMutation, CommitMessageErasure, CommitMessageReaction,
     CommitCommand
<1>13. CASE CommitExisting(Alarm)
  <2>1. c \in Contents /\ (Goto(Alarm, "reclaim") \/ Return(Alarm)) /\ run[Alarm].at = "commit"
        /\ Outcome(Alarm) = "existing" /\ UNCHANGED tables
    BY <1>0, <1>13, OthersFacts DEF CommitExisting
  <2>2. PartRow(run[Alarm], pending')
    BY <1>1, <2>1, CommitPart, KindFacts DEF tables
  <2>3. run[Alarm].phase \notin {"ledger", "tail"}
    BY <1>0, <2>1, AlarmAwaits
  <2> QED BY <1>0, <1>1, <2>1, <2>2, <2>3, AlarmGoto, AlarmReturn DEF Awaits
<1>14. CASE CommitRefused(Alarm)
  <2>1. c \notin Retractions \cup Restores \cup Erasures /\ Return(Alarm) /\ run[Alarm].at = "commit"
        /\ Outcome(Alarm) = "return" /\ UNCHANGED tables
    BY <1>0, <1>14, OthersFacts DEF CommitRefused
  <2>2. PartRow(run[Alarm], pending')
    BY <1>1, <2>1, CommitPart DEF tables
  <2>3. run[Alarm].phase \notin {"ledger", "tail"}
    BY <1>0, <2>1, AlarmAwaits
  <2> QED BY <1>0, <1>1, <2>1, <2>2, <2>3, AlarmReturn
<1>15. CASE Finalized(Alarm)
  <2>1. run[Alarm].at = "finalized" /\ finalization' = finalization \ {c} /\ UNCHANGED pending
    BY <1>15 DEF Finalized
  <2>2. CASE run[Alarm].phase = "ledger"
    <3>1. finalization' \subseteq run[Alarm].todo
      BY <1>1, <2>1, <2>2 DEF Tidy
    <3>2. PartRow(run[Alarm], pending')
      BY <2>2 DEF PartRow
    <3>3. Return(Alarm)
      BY <1>15, <2>2 DEF Finalized
    <3> QED BY <1>0, <1>1, <2>2, <3>1, <3>2, <3>3, AlarmReturn
  <2>3. CASE run[Alarm].phase # "ledger"
    <3>1. Goto(Alarm, "flush")
      BY <1>15, <2>3 DEF Finalized
    <3> QED BY <1>3, <2>1, <3>1 DEF Awaits, Done
  <2> QED BY <2>2, <2>3
<1>16. CASE FlushOutbox(Alarm)
  <2>1. run[Alarm].at = "flush" /\ enqueued' = Flushable /\ UNCHANGED tables /\ Return(Alarm)
    BY <1>0, <1>16, OthersFacts DEF FlushOutbox
  <2>2. PartRow(run[Alarm], pending')
    BY <1>1, <2>1 DEF Tidy, PartRow, Done
  <2>3. run[Alarm].phase # "ledger"
    BY <1>0, <2>1, AlarmAwaits
  <2>4. run[Alarm].phase = "tail" => enqueued' = Len(journal')
    <3>1. run[Alarm].phase = "tail" => finalization = {}
      BY <1>1 DEF Tidy
    <3>2. Flushable = Len(journal) \/ journal[Flushable + 1] \in finalization
      BY <1>0, FlushableFacts
    <3> QED BY <2>1, <3>1, <3>2 DEF tables
  <2> QED BY <1>0, <1>1, <2>1, <2>2, <2>3, <2>4, AlarmReturn
<1>17. CASE DestroyGeneration(Alarm)
  <2>1. Goto(Alarm, "destroyed")
    BY <1>0, <1>17, OthersFacts DEF DestroyGeneration
  <2> QED BY <1>3, <2>1 DEF Done
<1>18. CASE LoseCall(Alarm)
  <2>1. run[Alarm].at \notin Dropped
    BY <1>0, AlarmAwaits DEF Dropped
  <2>2. run[Alarm].at \in Authorizations /\ c \in Toggles /\ Abandon(c) /\ Return(Alarm)
    BY <1>0, <1>18, <2>1, OthersFacts DEF LoseCall
  <2> QED BY <1>2, <2>2 DEF Authorizations
<1> QED BY <1>4, <1>5, <1>6, <1>7, <1>8, <1>9, <1>11, <1>12, <1>13, <1>14, <1>15, <1>16, <1>17, <1>18
        DEF Step

\* The alarm signs an erasure: its own row is written again.
LEMMA PrepareErasureTidy ==
    ASSUME RecordInv, Armed, PrepareErasure(Alarm), alarm' = "off"
    PROVE  TidyNext
<1> DEFINE c == run[Alarm].cmd
           s == [run[Alarm] EXCEPT !.at = "attest", !.next = cursor + 1]
           row == [cmd |-> c, next |-> cursor + 1, step |-> "signed"]
<1>0. Shape /\ Alarm \in Handlers /\ run[Alarm] \in HandlerState
  BY AlarmIsHandler, AtFacts DEF RecordInv
<1>1. /\ run[Alarm].at = "destroyed" /\ alarm = "off"
      /\ UNCHANGED <<journal, finalization, enqueued>>
  BY DEF PrepareErasure
<1>2. /\ c \in Erasures /\ TableOf(c) = "message" /\ IsPending(c)
      /\ run[Alarm].phase \in {"command", "reaction"}
  BY <1>0, <1>1, DestroyFacts
<1>3. Tidy(run[Alarm], pending, finalization, enqueued, Len(journal))
  BY <1>1 DEF Armed
<1>4. CASE Abandon(c) /\ Return(Alarm)
  <2>1. PartRow(run[Alarm], pending') /\ Drop
    BY <1>0, <1>2, <1>3, <1>4, AbandonPart, AbandonFacts
  <2>2. Settles
    BY <1>0, <1>1, <2>1, StillSettles DEF PrepareErasure
  <2>3. Tidy(run[Alarm], pending', finalization', enqueued', Len(journal'))
    BY <1>3, <2>2, TidyDrops
  <2> QED BY <1>0, <1>2, <1>4, <2>1, <2>3, AlarmReturn DEF AlarmParts
<1>5. CASE Insert(c, cursor + 1, "signed") /\ Become(Alarm, s)
  <2>1. /\ s.at = "attest" /\ s.cmd = c /\ s.phase = run[Alarm].phase
    BY <1>0 DEF HandlerState
  <2>2. run'[Alarm] = s
    BY <1>0, <1>5, TypeParts DEF Become, Shape
  <2> HIDE DEF s
  <2>3. pending \in [Tables -> Row \cup {None}] /\ {"command", "message"} \subseteq Tables
    BY <1>0, TypeParts DEF Shape, TypeRest, Tables
  <2>4. pending' = [pending EXCEPT !["message"] = row] /\ row.cmd = c
    BY <1>2, <1>5 DEF Insert
  <2> HIDE DEF row
  <2>5. pending'["message"] = row /\ pending'["command"] = pending["command"]
    BY <2>3, <2>4
  <2>6. Mine(s, pending'["message"])
    BY <1>2, <2>1, <2>4, <2>5 DEF Mine
  <2>7. s.phase = "reaction" => pending'["command"] = None
    BY <1>3, <2>1, <2>5 DEF Tidy
  <2>8. Tidy(s, pending', finalization', enqueued', Len(journal'))
    BY <1>2, <2>1, <2>6, <2>7 DEF Tidy, Done
  <2> QED BY <2>1, <2>2, <2>8 DEF TidyNext
<1> QED BY <1>2, <1>4, <1>5 DEF PrepareErasure

\* A part begins or ends: only what it leaves off matters.
LEMMA AlarmBecomes ==
    ASSUME Shape, NEW s, Become(Alarm, s), s.at # "idle",
           Tidy(s, pending', finalization', enqueued', Len(journal'))
    PROVE  TidyNext
<1>1. run'[Alarm] = s
  BY AlarmIsHandler, TypeParts DEF Become, Shape
<1> QED BY <1>1 DEF TidyNext

\* A part that hands over to the next one.
LEMMA PartOver ==
    ASSUME Shape, run[Alarm].at \in Parts \cup {"idle"}, NEW at \in {"due", "command", "message", "reaction"},
           Goto(Alarm, at),
           at \in {"message", "reaction"} => pending'["command"] = None,
           at = "reaction" => pending'["message"] = None
    PROVE  TidyNext
<1> DEFINE s == [run[Alarm] EXCEPT !.at = at]
<1>1. at \in Places
  BY DEF Places, Parts
<1>2. Become(Alarm, s) /\ s.at = at /\ s.phase = run[Alarm].phase
  BY <1>1, AlarmIsHandler, GotoState
<1>3. run[Alarm].phase = "idle"
  BY AlarmIsHandler, AtFacts DEF PartOK, Parts
<1> HIDE DEF s
<1>4. Tidy(s, pending', finalization', enqueued', Len(journal'))
  BY <1>2, <1>3 DEF Tidy, Done
<1> QED BY <1>2, <1>4, AlarmBecomes

\* A part that resumes the command of its row.
LEMMA PartResumes ==
    ASSUME Shape, NEW t \in Tables, pending[t] # None, UNCHANGED pending,
           NEW at \in {"attest", "authorize", "destroy"},
           NEW phase \in {"message", "reaction", "reacted"}, Resume(pending[t].cmd, at, phase),
           phase = "message" => t = "command",
           phase = "reaction" => t = "message" /\ pending["command"] = None,
           phase = "reacted" => t = "reaction"
    PROVE  TidyNext
<1> DEFINE c == pending[t].cmd
           s == [Idle EXCEPT !.at = at, !.cmd = c, !.next = NextOf(c), !.phase = phase]
<1>1. Become(Alarm, s) /\ s.at = at /\ s.cmd = c /\ s.next = NextOf(c) /\ s.phase = phase
  BY DEF Resume, Idle
<1>2. TableOf(c) = t
  BY DEF Shape, TableOK
<1>3. NextOf(c) = pending[t].next
  BY <1>2 DEF NextOf, IsPending
<1> HIDE DEF s
<1>4. Mine(s, pending'[t])
  BY <1>1, <1>3 DEF Mine
<1>5. Tidy(s, pending', finalization', enqueued', Len(journal'))
  BY <1>1, <1>4 DEF Tidy, Done
<1> QED BY <1>1, <1>5, AlarmBecomes

\* The parts of the alarm.
LEMMA PartsTidy ==
    ASSUME RecordInv, Armed, FireAlarm \/ AlarmStep, alarm' = "off"
    PROVE  TidyNext \/ (/\ run'[Alarm].at = "idle" /\ ~Scheduled'
                        /\ Tidy(run'[Alarm], pending', finalization', enqueued', Len(journal')))
<1>0. Shape /\ Alarm \in Handlers /\ run[Alarm] \in HandlerState
  BY AlarmIsHandler, AtFacts DEF RecordInv
<1>1. CASE FireAlarm
  BY <1>0, <1>1, PartOver DEF FireAlarm
<1>2. CASE ReconcileDue
  <2>1. run[Alarm].at = "due"
    BY <1>2 DEF ReconcileDue
  <2>2. CASE Goto(Alarm, "command")
    BY <1>0, <2>1, <2>2, PartOver DEF Parts
  <2>3. ASSUME NEW c, Become(Alarm, [Idle EXCEPT !.at = "destroy", !.phase = "command", !.cmd = c])
        PROVE  TidyNext
    <3> DEFINE s == [Idle EXCEPT !.at = "destroy", !.phase = "command", !.cmd = c]
    <3>1. s.at = "destroy" /\ s.phase = "command" /\ Become(Alarm, s)
      BY <2>3 DEF Idle
    <3> HIDE DEF s
    <3>2. Tidy(s, pending', finalization', enqueued', Len(journal'))
      BY <3>1 DEF Tidy, Done
    <3> QED BY <1>0, <3>1, <3>2, AlarmBecomes
  <2> QED BY <1>2, <2>2, <2>3 DEF ReconcileDue
<1>3. ASSUME run[Alarm].at \in Parts \ {"due"}, alarm = "off"
      PROVE  /\ Tidy(run[Alarm], pending, finalization, enqueued, Len(journal))
             /\ run[Alarm].phase = "idle"
  <2>1. up
    BY <1>3 DEF Armed, Parts
  <2>2. PartOK(run[Alarm])
    BY <1>0, AtFacts
  <2> QED BY <1>3, <2>1, <2>2 DEF Armed, PartOK, Parts
<1>4. CASE ResumeCommand
  <2>1. run[Alarm].at = "command" /\ UNCHANGED pending
    BY <1>4 DEF ResumeCommand, NoChange, tables
  <2>2. CASE pending["command"] = None
    BY <1>0, <1>4, <2>1, <2>2, PartOver DEF ResumeCommand, Parts
  <2>3. CASE pending["command"] # None
    <3>1. Resume(pending["command"].cmd, "attest", "message") /\ "command" \in Tables
      BY <1>4, <2>3 DEF ResumeCommand, Tables
    <3> QED BY <1>0, <2>1, <2>3, <3>1, PartResumes
  <2> QED BY <2>2, <2>3
<1>5. CASE ResumePendingMessage
  <2>1. run[Alarm].at = "message" /\ alarm = "off"
    BY <1>5 DEF ResumePendingMessage
  <2>2. pending["command"] = None
    BY <1>3, <2>1 DEF Parts, Tidy
  <2>3. pending \in [Tables -> Row \cup {None}] /\ {"command", "message"} \subseteq Tables
    BY <1>0, TypeParts DEF Shape, TypeRest, Tables
  <2>4. CASE pending["message"] = None
    <3>1. Goto(Alarm, "reaction") /\ UNCHANGED pending
      BY <1>5, <2>4 DEF ResumePendingMessage
    <3> QED BY <1>0, <2>1, <2>2, <2>4, <3>1, PartOver DEF Parts
  <2>5. CASE pending["message"] # None
    <3> DEFINE c == pending["message"].cmd
    <3>1. c \in Commands \cup Erasures /\ TableOf(c) = "message" /\ IsPending(c)
          /\ pending["message"].step \in {"intent", "signed"}
      BY <1>0, <2>3, <2>5 DEF Row, Shape, TableOK, IsPending
    <3>2. \/ (\E at \in {"attest", "authorize", "destroy"} : Resume(c, at, "reaction")) /\ UNCHANGED pending
          \/ Abandon(c) /\ Goto(Alarm, "reaction")
      BY <1>5, <2>5, <3>1 DEF ResumePendingMessage
    <3>3. CASE (\E at \in {"attest", "authorize", "destroy"} : Resume(c, at, "reaction")) /\ UNCHANGED pending
      BY <1>0, <2>2, <2>3, <2>5, <3>3, PartResumes
    <3>4. CASE Abandon(c) /\ Goto(Alarm, "reaction")
      <4>1. pending'["message"] = None /\ pending'["command"] = None
        BY <2>2, <2>3, <3>1, <3>4 DEF Abandon
      <4> QED BY <1>0, <2>1, <3>4, <4>1, PartOver DEF Parts
    <3> QED BY <3>2, <3>3, <3>4
  <2> QED BY <2>4, <2>5
<1>6. CASE ResumeReaction
  <2>1. run[Alarm].at = "reaction" /\ alarm = "off" /\ UNCHANGED <<pending, finalization>>
    BY <1>6 DEF ResumeReaction, NoChange, tables
  <2>2. pending["command"] = None /\ pending["message"] = None /\ run[Alarm].phase = "idle"
    BY <1>3, <2>1 DEF Parts, Tidy
  <2>3. CASE pending["reaction"] = None
    <3> DEFINE s == [run[Alarm] EXCEPT !.at = "ledger", !.todo = finalization]
    <3>1. Become(Alarm, s)
      BY <1>6, <2>3 DEF ResumeReaction
    <3>2. s.at = "ledger" /\ s.todo = finalization /\ s.phase = "idle"
      BY <1>0, <2>2 DEF HandlerState
    <3> HIDE DEF s
    <3>3. Tidy(s, pending', finalization', enqueued', Len(journal'))
      BY <2>1, <2>2, <2>3, <3>2 DEF Tidy, Done
    <3> QED BY <1>0, <3>1, <3>2, <3>3, AlarmBecomes
  <2>4. CASE pending["reaction"] # None
    <3>1. Resume(pending["reaction"].cmd, "authorize", "reacted") /\ "reaction" \in Tables
      BY <1>6, <2>4 DEF ResumeReaction, Tables
    <3> QED BY <1>0, <2>1, <2>4, <3>1, PartResumes
  <2> QED BY <2>3, <2>4
<1>7. CASE AfterReaction
  <2>1. run[Alarm].at = "reacted" /\ alarm = "off" /\ pending["reaction"] # None
    BY <1>7 DEF AfterReaction
  <2>2. pending["reaction"] = None
    BY <1>3, <2>1 DEF Parts, Tidy
  <2> QED BY <2>1, <2>2
<1>8. CASE ReconcileContentFinalizations
  <2>1. run[Alarm].at = "ledger" /\ UNCHANGED <<pending, finalization>>
    BY <1>8 DEF ReconcileContentFinalizations, tables
  <2>2. alarm = "off"
    BY <1>8 DEF ReconcileContentFinalizations, ScheduleNext, ScheduleAlarm
  <2>3. /\ pending["command"] = None /\ pending["message"] = None /\ pending["reaction"] = None
        /\ finalization \subseteq run[Alarm].todo
    BY <1>3, <2>1, <2>2 DEF Parts, Tidy
  <2>4. CASE /\ run[Alarm].todo = {}
             /\ Become(Alarm, [Idle EXCEPT !.at = "flush", !.phase = "tail"])
    <3> DEFINE s == [Idle EXCEPT !.at = "flush", !.phase = "tail"]
    <3>1. s.at = "flush" /\ s.phase = "tail" /\ Become(Alarm, s)
      BY <2>4 DEF Idle
    <3> HIDE DEF s
    <3>2. finalization = {}
      BY <2>3, <2>4
    <3>3. Tidy(s, pending', finalization', enqueued', Len(journal'))
      BY <2>1, <2>3, <3>1, <3>2 DEF Tidy, Done
    <3> QED BY <1>0, <3>1, <3>3, AlarmBecomes
  <2>5. ASSUME NEW c \in run[Alarm].todo,
               Become(Alarm, [Idle EXCEPT !.at = "reclaim", !.cmd = c, !.phase = "ledger",
                                          !.todo = run[Alarm].todo \ {c}])
        PROVE  TidyNext
    <3> DEFINE s == [Idle EXCEPT !.at = "reclaim", !.cmd = c, !.phase = "ledger",
                                 !.todo = run[Alarm].todo \ {c}]
    <3>1. /\ s.at = "reclaim" /\ s.phase = "ledger" /\ s.cmd = c /\ s.todo = run[Alarm].todo \ {c}
          /\ Become(Alarm, s)
      BY <2>5 DEF Idle
    <3> HIDE DEF s
    <3>2. finalization \subseteq s.todo \cup {s.cmd}
      BY <2>3, <3>1
    <3>3. Tidy(s, pending', finalization', enqueued', Len(journal'))
      BY <2>1, <2>3, <3>1, <3>2 DEF Tidy, Done
    <3> QED BY <1>0, <3>1, <3>3, AlarmBecomes
  <2> QED BY <1>8, <2>4, <2>5 DEF ReconcileContentFinalizations
<1>9. CASE FinishAlarm
  <2>1. run[Alarm].at = "tail" /\ UNCHANGED tables /\ UNCHANGED enqueued /\ Become(Alarm, Idle)
    BY <1>9 DEF FinishAlarm
  <2>2. alarm = "off" /\ ~Scheduled
    BY <1>0, <1>9, OthersFacts DEF FinishAlarm, ScheduleNext
  <2>3. /\ pending["command"] = None /\ pending["message"] = None /\ pending["reaction"] = None
        /\ finalization = {} /\ enqueued = Len(journal)
    BY <1>3, <2>1, <2>2 DEF Parts, Tidy
  <2>4. run'[Alarm] = Idle
    BY <1>0, <2>1, TypeParts DEF Become, Shape
  <2>5. Idle.at = "idle" /\ Idle.phase = "idle"
    BY DEF Idle
  <2>6. Tidy(Idle, pending', finalization', enqueued', Len(journal'))
    BY <2>1, <2>3, <2>5 DEF Tidy, Done, Tables, tables
  <2> QED BY <2>1, <2>2, <2>4, <2>5, <2>6 DEF Scheduled, tables
<1> QED BY <1>1, <1>2, <1>4, <1>5, <1>6, <1>7, <1>8, <1>9 DEF AlarmStep

\* Every step keeps the work armed.
LEMMA ArmedStep ==
    ASSUME RecordInv, Armed, [Next]_vars
    PROVE  Armed'
<1>0. Shape /\ Alarm \in Handlers /\ Alarm \notin Clients
  BY AlarmIsHandler DEF RecordInv
<1>1. ASSUME NEW h \in Clients, Request(h) \/ Step(h) \/ LoseCall(h) PROVE Armed'
  BY <1>1, ClientArmed
<1>2. CASE Request(Alarm)
  BY <1>0, <1>2 DEF Request, PostMessage, MutateMessage, MutateMessageState, MutateMessageReaction,
     Execute, Accepts
<1>3. ASSUME up' = up, up, alarm' = "off" => TidyNext \/ (/\ run'[Alarm].at = "idle" /\ ~Scheduled'
                 /\ Tidy(run'[Alarm], pending', finalization', enqueued', Len(journal')))
      PROVE  Armed'
  BY <1>3 DEF Armed, TidyNext
<1>4. CASE Step(Alarm) \/ LoseCall(Alarm)
  <2>1. up' = up
    BY <1>0, <1>4, StepOthers
  <2>2. run[Alarm].at # "idle"
    <3>1. CASE LoseCall(Alarm)
      BY <3>1 DEF LoseCall, Authorizations, Retried, Dropped
    <3>2. CASE Step(Alarm)
      BY <3>2 DEF Step, AdmitEdit, ReadContent, Stage, Staged, Decide, DecideIdempotent, DecideRefused,
         Authorize, RefreshPendingRetraction, Claim, ReleaseClaim, Released, Attest, CommitMessage,
         CommitMessageMutation, CommitMessageStateMutation, CommitMessageErasure, CommitMessageReaction,
         CommitCommand, Commits, CommitExisting, CommitRefused, Reclaim, Finalize, Finalized, Refinalize,
         FlushOutbox, DestroyGeneration, PrepareErasure
    <3> QED BY <1>4, <3>1, <3>2
  <2>3. up
    BY <2>2 DEF Armed
  <2>4. alarm' = "off" => TidyNext
    BY <1>4, AlarmHandlerTidy, PrepareErasureTidy
  <2> QED BY <1>3, <2>1, <2>3, <2>4
<1>5. CASE FireAlarm \/ AlarmStep
  <2>1. up' = up
    BY <1>5 DEF FireAlarm, AlarmStep, ReconcileDue, ResumeCommand, ResumePendingMessage, ResumeReaction,
       AfterReaction, ReconcileContentFinalizations, FinishAlarm, NoChange
  <2>2. up
    BY <1>5 DEF Armed, FireAlarm, AlarmStep, ReconcileDue, ResumeCommand, ResumePendingMessage,
       ResumeReaction, AfterReaction, ReconcileContentFinalizations, FinishAlarm
  <2> QED BY <1>3, <1>5, <2>1, <2>2, PartsTidy
<1>6. CASE Environment
  BY <1>6, EnvironmentArmed
<1>7. CASE UNCHANGED vars
  <2>1. UNCHANGED object
    BY <1>7 DEF vars
  <2> QED BY <2>1, SettlesArmed DEF object, tables, Settles, Drop
<1> QED BY <1>1, <1>2, <1>4, <1>5, <1>6, <1>7 DEF Next, Handlers

\* Nothing is pending, unfinished or planned at the start.
LEMMA InitArmed ==
    ASSUME Init
    PROVE  Armed
<1>1. run[Alarm] = Idle /\ Idle.at = "idle" /\ Idle.phase = "idle"
  BY AlarmIsHandler DEF Init, Idle
<1>2. /\ \A t \in Tables : pending[t] = None
      /\ finalization = {} /\ enqueued = Len(journal) /\ up /\ ~Scheduled
  BY DEF Init, cursor, Scheduled
<1>3. Tidy(run[Alarm], pending, finalization, enqueued, Len(journal))
  BY <1>1, <1>2 DEF Tidy, Done
<1> QED BY <1>1, <1>2, <1>3 DEF Armed

\* The lock, the records and the alarm hold together in every state.
THEOREM ConversationInvariant == Spec => []ConversationInv
<1>1. Init => ConversationInv
  BY InitShape, InitKeeps, InitArmed DEF ConversationInv, RecordInv
<1>2. ConversationInv /\ [Next]_vars => ConversationInv'
  BY ShapeStep, KeepsStep, ArmedStep DEF ConversationInv, RecordInv, Recorded
<1> QED BY <1>1, <1>2, PTL DEF Spec

\* Durable work never waits without an alarm, whichever handler gave it up, at
\* whichever await, with or without a crash.
THEOREM NoWorkForgotten == Spec => []WorkIsArmed
<1>1. ASSUME ConversationInv PROVE WorkIsArmed
  <2>1. Armed /\ Shape
    BY <1>1 DEF ConversationInv, RecordInv
  <2>2. ASSUME up, alarm = "off", run[Alarm].at = "idle" PROVE ~DurableWork
    <3>1. /\ \A t \in Tables : pending[t] = None
          /\ finalization = {} /\ enqueued = Len(journal) /\ ~Scheduled
      BY <2>1, <2>2 DEF Armed, Tidy
    <3>2. ~(enqueued < cursor)
      <4>1. Len(journal) \in Nat
        BY <2>1, TypeParts DEF Shape, TypeRest
      <4> QED BY <3>1, <4>1 DEF cursor
    <3> QED BY <3>1, <3>2 DEF DurableWork, Busy
  <2> QED BY <2>2 DEF WorkIsArmed
<1> QED BY <1>1, ConversationInvariant, PTL

-----------------------------------------------------------------------------
(* The fence around committed content *)

\* The handler keeps its command or ends it, and has no new ledger row to do.
Moved(h) == run'[h].cmd \in {run[h].cmd, None} /\ run'[h].todo \in {run[h].todo, {}}

Plain(h) == run'[h].at \notin {"release", "authorize2", "commit"}

\* A handler on the way to its commit has claimed its content.
Secured(h) ==
    LET c == run[h].cmd
    IN  /\ run'[h].cmd = c
        /\ run'[h].at = "release" => ~allowed
        /\ run'[h].at \in {"authorize2", "commit"} /\ c \in Contents =>
             \/ run[h].at = "authorize2" /\ UNCHANGED vault
             \/ CanClaim(c) /\ vault' = AfterClaim(c)

\* Where a handler goes.
LEMMA MoveFacts ==
    ASSUME Shape, NEW h \in Handlers
    PROVE  /\ \A r : Become(h, r) => run'[h] = r
           /\ \A at \in Places : Goto(h, at) =>
                run'[h].at = at /\ run'[h].cmd = run[h].cmd /\ run'[h].todo = run[h].todo
           /\ Return(h) => Moved(h) /\ Plain(h)
           /\ MarkFailure(h) => Moved(h) /\ Plain(h)
           /\ Throw(h) => Moved(h) /\ Plain(h)
<1>1. run \in [Handlers -> HandlerState]
  BY TypeParts DEF Shape
<1>2. \A r : Become(h, r) => run'[h] = r
  BY <1>1 DEF Become
<1>3. \A at \in Places : Goto(h, at) =>
        run'[h].at = at /\ run'[h].cmd = run[h].cmd /\ run'[h].todo = run[h].todo
  BY <1>1 DEF Goto, HandlerState
<1>4. ASSUME Return(h) PROVE Moved(h) /\ Plain(h)
  <2> DEFINE r == [Idle EXCEPT !.at = run[h].phase, !.todo = run[h].todo]
  <2>1. r.at = run[h].phase /\ r.cmd = None /\ r.todo = run[h].todo
    BY DEF Idle
  <2>2. run'[h] = r
    BY <1>2, <1>4 DEF Return
  <2> HIDE DEF r
  <2>3. run[h].phase \notin {"release", "authorize2", "commit"}
    BY AtFacts DEF ClientOK, PartOK, Parts, Handlers
  <2> QED BY <2>1, <2>2, <2>3 DEF Moved, Plain
<1>5. ASSUME Throw(h) PROVE Moved(h) /\ Plain(h)
  <2>1. run'[h] = Idle
    BY <1>2, <1>5 DEF Throw
  <2> QED BY <2>1 DEF Idle, Moved, Plain
<1> QED BY <1>2, <1>3, <1>4, <1>5 DEF MarkFailure

\* Goto another await.
LEMMA GotoMoves ==
    ASSUME Shape, NEW h \in Handlers, NEW at \in Places, Goto(h, at)
    PROVE  /\ Moved(h)
           /\ run'[h].at = at /\ run'[h].cmd = run[h].cmd
           /\ at \notin {"release", "authorize2", "commit"} => Plain(h)
BY MoveFacts DEF Moved, Plain

\* Every step of a handler.
LEMMA StepMoves ==
    ASSUME Shape, NEW h \in Handlers, Step(h) \/ LoseCall(h)
    PROVE  Moved(h) /\ (Plain(h) \/ Secured(h))
<1> DEFINE c == run[h].cmd
<1>0. run[h] \in HandlerState /\ run \in [Handlers -> HandlerState]
  BY AtFacts, TypeParts DEF Shape
<1>1. ASSUME NEW at \in Awaits \cup {"destroyed"}, Goto(h, at), at \notin {"release", "authorize2", "commit"}
      PROVE  Moved(h) /\ Plain(h)
  BY <1>1, GotoMoves DEF Places
<1>2. ASSUME NEW r, Become(h, r), r.cmd = c, r.todo \in {run[h].todo, {}},
             r.at \notin {"release", "authorize2", "commit"}
      PROVE  Moved(h) /\ Plain(h)
  <2>1. run'[h] = r
    BY <1>2, MoveFacts
  <2> QED BY <1>2, <2>1 DEF Moved, Plain
<1>3. CASE AdmitEdit(h)
  <2>1. ASSUME NEW base, Enter(h, c, "stage", base) PROVE Moved(h) /\ Plain(h)
    <3> DEFINE r == [Idle EXCEPT !.at = "stage", !.cmd = c, !.next = NextOf(c),
                                 !.base = base, !.seen = Seen(c)]
    <3>1. r.at = "stage" /\ r.cmd = c /\ r.todo = {} /\ Become(h, r)
      BY <2>1 DEF Idle, Enter
    <3> HIDE DEF r
    <3> QED BY <1>2, <3>1
  <2> QED BY <1>3, <2>1, MoveFacts DEF AdmitEdit
<1>4. CASE ReadContent(h)
  <2> DEFINE r == [run[h] EXCEPT !.at = "decide", !.base = cursor]
  <2>1. r.at = "decide" /\ r.cmd = c /\ r.todo = run[h].todo
    BY <1>0 DEF HandlerState
  <2>2. Become(h, r) \/ Return(h)
    BY <1>4 DEF ReadContent
  <2> HIDE DEF r
  <2> QED BY <1>2, <2>1, <2>2, MoveFacts
<1>5. CASE Stage(h) \/ Finalized(h) \/ ReleaseClaim(h) \/ Reclaim(h) \/ Finalize(h) \/ Refinalize(h)
           \/ DestroyGeneration(h)
  <2>1. \/ Return(h) \/ MarkFailure(h)
        \/ \E at \in {"staged", "flush", "released", "finalize", "finalized", "destroyed"} : Goto(h, at)
    BY <1>5 DEF Stage, Finalized, ReleaseClaim, Reclaim, Finalize, Refinalize, DestroyGeneration, Publish
  <2> QED BY <1>1, <2>1, MoveFacts DEF Awaits
<1>6. CASE Staged(h)
  <2> DEFINE n == IF c \in Posts THEN NextOf(c) ELSE run[h].next
             r == [run[h] EXCEPT !.at = "authorize", !.next = n]
             s == [run[h] EXCEPT !.at = "decide", !.base = cursor]
  <2>1. r.at = "authorize" /\ r.cmd = c /\ r.todo = run[h].todo
    <3> HIDE DEF n
    <3> QED BY <1>0 DEF HandlerState
  <2>2. s.at = "decide" /\ s.cmd = c /\ s.todo = run[h].todo
    BY <1>0 DEF HandlerState
  <2>3. Return(h) \/ Goto(h, "reclaim") \/ Goto(h, "refinalize") \/ Become(h, r) \/ Become(h, s)
    BY <1>6 DEF Staged
  <2> HIDE DEF r, s
  <2> QED BY <1>1, <1>2, <2>1, <2>2, <2>3, MoveFacts DEF Awaits
<1>7. CASE Decide(h)
  <2> DEFINE n == (IF c \in Posts \cup Toggles THEN cursor ELSE run[h].base) + 1
             at == IF c \in Members THEN "attest" ELSE "authorize"
             r == [run[h] EXCEPT !.at = at, !.next = n]
  <2>1. Become(h, r)
    BY <1>7 DEF Decide
  <2>2. at \in {"attest", "authorize"}
    OBVIOUS
  <2> HIDE DEF n, at
  <2>3. r.at = at /\ r.cmd = c /\ r.todo = run[h].todo
    BY <1>0 DEF HandlerState
  <2> HIDE DEF r
  <2> QED BY <1>2, <2>1, <2>2, <2>3
<1>8. CASE DecideIdempotent(h) \/ DecideRefused(h) \/ Released(h) \/ FlushOutbox(h)
  BY <1>8, MoveFacts DEF DecideIdempotent, DecideRefused, Released, FlushOutbox
<1>9. CASE Authorize(h)
  <2> DEFINE at == CASE run[h].at = "authorize2"  -> "commit"
                     [] run[h].at = "authorize" /\ c \in Contents -> "claim"
                     [] run[h].at = "authorize" /\ c \in Retractions -> "refresh"
                     [] OTHER -> "attest"
             r == [run[h] EXCEPT !.at = at, !.base = cursor]
  <2>1. run[h].at \in {"authorize", "authorize2"} /\ UNCHANGED vault
    BY <1>9 DEF Authorize, world
  <2>2. at \in {"commit", "claim", "refresh", "attest"} /\ (at = "commit" => run[h].at = "authorize2")
    BY <2>1
  <2>3. Become(h, r) \/ (~allowed /\ Goto(h, "release")) \/ Return(h)
    BY <1>9 DEF Authorize
  <2> HIDE DEF at
  <2>4. r.at = at /\ r.cmd = c /\ r.todo = run[h].todo
    BY <1>0 DEF HandlerState
  <2> HIDE DEF r
  <2>5. CASE Become(h, r)
    <3>1. run'[h] = r
      BY <2>5, MoveFacts
    <3> QED BY <2>1, <2>2, <2>4, <3>1 DEF Moved, Secured
  <2>6. CASE ~allowed /\ Goto(h, "release")
    BY <2>6, GotoMoves DEF Secured, Places, Awaits
  <2> QED BY <2>3, <2>5, <2>6, MoveFacts
<1>10. CASE RefreshPendingRetraction(h)
  <2> DEFINE r == [run[h] EXCEPT !.at = "attest", !.next = pending'["message"].next]
  <2>1. r.at = "attest" /\ r.cmd = c /\ r.todo = run[h].todo
    BY <1>0 DEF HandlerState
  <2>2. Become(h, r) \/ Return(h)
    BY <1>10 DEF RefreshPendingRetraction
  <2> HIDE DEF r
  <2> QED BY <1>2, <2>1, <2>2, MoveFacts
<1>11. CASE Claim(h)
  <2>1. \/ MarkFailure(h) \/ Goto(h, "attest")
        \/ CanClaim(c) /\ vault' = AfterClaim(c) /\ Goto(h, "authorize2")
    BY <1>11 DEF Claim
  <2>2. CASE CanClaim(c) /\ vault' = AfterClaim(c) /\ Goto(h, "authorize2")
    BY <2>2, GotoMoves DEF Secured, Places, Awaits
  <2> QED BY <1>1, <2>1, <2>2, MoveFacts DEF Awaits
<1>12. CASE Attest(h)
  <2>1. \/ Goto(h, "claim2")
        \/ c \notin Contents /\ \E at \in {"commit", "authorize2"} : Goto(h, at)
    BY <1>12 DEF Attest
  <2>2. CASE c \notin Contents /\ \E at \in {"commit", "authorize2"} : Goto(h, at)
    BY <2>2, GotoMoves DEF Secured, Places, Awaits
  <2> QED BY <1>1, <2>1, <2>2 DEF Awaits
<1>13. CASE \/ \E d \in Posts : CommitMessage(h, d)
            \/ \E d \in Edits : CommitMessageMutation(h, d)
            \/ \E d \in Retractions \cup Restores : CommitMessageStateMutation(h, d)
            \/ \E d \in Erasures : CommitMessageErasure(h, d)
            \/ \E d \in Toggles : CommitMessageReaction(h, d)
            \/ \E d \in Members : CommitCommand(h, d)
  <2>1. Goto(h, "reclaim") \/ Goto(h, "flush")
    BY <1>13 DEF CommitMessage, CommitMessageMutation, CommitMessageStateMutation,
       CommitMessageErasure, CommitMessageReaction, CommitCommand, Publish
  <2> QED BY <1>1, <2>1 DEF Awaits
<1>14. CASE CommitExisting(h) \/ CommitRefused(h)
  <2>1. Goto(h, "reclaim") \/ Goto(h, "flush") \/ Return(h) \/ Throw(h) \/ MarkFailure(h)
    BY <1>14 DEF CommitExisting, CommitRefused, Publish
  <2> QED BY <1>1, <2>1, MoveFacts DEF Awaits
<1>15. CASE PrepareErasure(h)
  <2> DEFINE r == [run[h] EXCEPT !.at = "attest", !.next = cursor + 1]
  <2>1. r.at = "attest" /\ r.cmd = c /\ r.todo = run[h].todo
    BY <1>0 DEF HandlerState
  <2>2. Become(h, r) \/ Return(h)
    BY <1>15 DEF PrepareErasure
  <2> HIDE DEF r
  <2> QED BY <1>2, <2>1, <2>2, MoveFacts
<1>16. CASE LoseCall(h)
  BY <1>16, MoveFacts DEF LoseCall
<1> QED BY <1>3, <1>4, <1>5, <1>6, <1>7, <1>8, <1>9, <1>10, <1>11, <1>12, <1>13, <1>14, <1>15, <1>16
        DEF Step

\* A request begins without a claim, with one of the workload's commands.
LEMMA RequestMoves ==
    ASSUME Shape, NEW h \in Handlers, Request(h)
    PROVE  /\ Plain(h)
           /\ run'[h].cmd \in env.load.commands /\ run'[h].todo = {}
<1>1. \E base : \E c \in env.load.commands,
                   at \in {"stage", "admit", "authorize", "read", "decide", "attest"} :
        Enter(h, c, at, base)
  BY DEF Request, PostMessage, MutateMessage, MutateMessageState, MutateMessageReaction, Execute
<1>2. ASSUME NEW c \in env.load.commands, NEW base,
             NEW at \in {"stage", "admit", "authorize", "read", "decide", "attest"}, Enter(h, c, at, base)
      PROVE  Plain(h) /\ run'[h].cmd = c /\ run'[h].todo = {}
  <2> DEFINE r == [Idle EXCEPT !.at = at, !.cmd = c, !.next = NextOf(c), !.base = base, !.seen = Seen(c)]
  <2>1. r.at = at /\ r.cmd = c /\ r.todo = {} /\ Become(h, r)
    BY <1>2 DEF Idle, Enter
  <2> HIDE DEF r
  <2>2. run'[h] = r
    BY <2>1, MoveFacts
  <2> QED BY <2>1, <2>2 DEF Plain
<1> QED BY <1>1, <1>2

KeepsFences(v) == \A d \in Contents : Fenced(vault[d]) => Fenced(v[d])

\* Of the vault's operations only a release takes a fence away, and a claim that
\* is answered leaves one.
LEMMA FenceOps ==
    ASSUME Shape, NEW c \in Contents
    PROVE  /\ KeepsFences(vault)
           /\ \A n \in Nat : KeepsFences(AfterStage(c, n))
           /\ KeepsFences(AfterClaim(c))
           /\ CanClaim(c) => Fenced(AfterClaim(c)[c])
           /\ KeepsFences(AfterFinalize(c))
           /\ \A p \in Posts : KeepsFences(AfterDestroy(p))
<1>1. vault \in [Contents -> ContentState]
  BY TypeParts DEF Shape, TypeRest
<1>2. KeepsFences(vault)
  BY DEF KeepsFences
<1>3. \A n \in Nat : KeepsFences(AfterStage(c, n))
  BY <1>1 DEF KeepsFences, AfterStage, Fenced, Final
<1>4. KeepsFences(AfterClaim(c)) /\ (CanClaim(c) => Fenced(AfterClaim(c)[c]))
  BY <1>1 DEF KeepsFences, AfterClaim, Fenced, Final, ContentState, CanClaim
<1>5. KeepsFences(AfterFinalize(c))
  <2> DEFINE e == [vault[c] EXCEPT !.status = "finalized", !.claimed = 0]
  <2>1. e.status = "finalized"
    BY <1>1 DEF ContentState
  <2> HIDE DEF e
  <2>2. AfterFinalize(c) = [vault EXCEPT ![c] = e]
    BY DEF AfterFinalize, e
  <2>3. \A d \in Contents : AfterFinalize(c)[d] \in {vault[d], e}
    BY <1>1, <2>2
  <2> QED BY <2>1, <2>3 DEF KeepsFences, Fenced, Final
<1>6. ASSUME NEW p \in Posts PROVE KeepsFences(AfterDestroy(p))
  <2> DEFINE e(d) == [vault[d] EXCEPT !.status = "destroyed", !.claimed = 0]
  <2>1. \A d \in Contents : e(d).status = "destroyed"
    BY <1>1 DEF ContentState
  <2> HIDE DEF e
  <2>2. \A d \in Contents : AfterDestroy(p)[d] \in {vault[d], e(d)}
    BY <1>1 DEF AfterDestroy, e
  <2> QED BY <2>1, <2>2 DEF KeepsFences, Fenced, Final
<1> QED BY <1>2, <1>3, <1>4, <1>5, <1>6

\* The collector passes by what is fenced.
LEMMA CollectorKeepsFences ==
    ASSUME Shape, NEW c \in Contents, PreparationElapses(c) \/ VaultCollects(c)
    PROVE  KeepsFences(vault')
<1>1. vault \in [Contents -> ContentState]
  BY TypeParts DEF Shape, TypeRest
<1>2. CASE PreparationElapses(c)
  BY <1>1, <1>2 DEF PreparationElapses, KeepsFences, Fenced, Final, ContentState
<1>3. CASE VaultCollects(c)
  BY <1>1, <1>3 DEF VaultCollects, KeepsFences, Fenced, Final, ContentState
<1> QED BY <1>2, <1>3

\* While nobody is at a release every step keeps every fence.
LEMMA FenceStays ==
    ASSUME Shape, \A h \in Handlers : run[h].at # "release", [Next]_vars
    PROVE  KeepsFences(vault')
<1>1. ASSUME UNCHANGED vault PROVE KeepsFences(vault')
  BY <1>1 DEF KeepsFences
<1>2. ASSUME NEW h \in Handlers, Request(h) PROVE KeepsFences(vault')
  BY <1>1, <1>2 DEF Request, PostMessage, MutateMessage, MutateMessageState, MutateMessageReaction,
     Execute, NoChange, world
<1>3. ASSUME NEW h \in Handlers,
             \/ Stage(h) \/ Claim(h) \/ ReleaseClaim(h) \/ Reclaim(h) \/ Finalize(h) \/ Refinalize(h)
      PROVE  KeepsFences(vault')
  <2> DEFINE c == run[h].cmd
  <2>1. c \in Contents /\ run[h].base \in Nat
    BY <1>3, AtFacts DEF Stage, Claim, ReleaseClaim, Reclaim, Finalize, Refinalize, AwaitFor, HandlerState
  <2>2. \/ vault' = vault
        \/ vault' = AfterStage(c, run[h].base)
        \/ vault' = AfterClaim(c)
        \/ vault' = AfterFinalize(c)
    BY <1>3 DEF Stage, Claim, ReleaseClaim, Reclaim, Finalize, Refinalize
  <2> QED BY <2>1, <2>2, FenceOps
<1>4. ASSUME NEW h \in Handlers, run[h].at = "destroy", NEW v \in {vault, AfterDestroy(MessageOf(run[h].cmd))}
      PROVE  KeepsFences(v)
  <2>1. MessageOf(run[h].cmd) \in Posts /\ MessageOf(run[h].cmd) \in Contents
    BY <1>4, DestroyFacts, MessageFacts DEF Contents
  <2> QED BY <1>4, <2>1, FenceOps
<1>5. ASSUME NEW h \in Handlers, DestroyGeneration(h) PROVE KeepsFences(vault')
  BY <1>4, <1>5 DEF DestroyGeneration
<1>6. ASSUME NEW h \in Handlers, LoseCall(h) PROVE KeepsFences(vault')
  <2> DEFINE c == run[h].cmd
  <2>1. CASE run[h].at = "destroy" /\ vault' \in {vault, AfterDestroy(MessageOf(c))}
    BY <1>4, <2>1
  <2>2. CASE vault' \in Effects(h)
    <3>1. CASE run[h].at \notin {"stage", "claim", "claim2", "reclaim", "finalize", "refinalize"}
      <4>1. vault' = vault
        BY <2>2, <3>1 DEF Effects
      <4> QED BY <1>1, <4>1
    <3>2. CASE run[h].at \in {"stage", "claim", "claim2", "reclaim", "finalize", "refinalize"}
      <4>1. c \in Contents /\ run[h].base \in Nat
        BY <3>2, AtFacts DEF AwaitFor, HandlerState
      <4>2. vault' \in {vault, AfterStage(c, run[h].base), AfterClaim(c), AfterFinalize(c)}
        BY <2>2, <3>2 DEF Effects
      <4> QED BY <4>1, <4>2, FenceOps
    <3> QED BY <3>1, <3>2
  <2> QED BY <1>6, <2>1, <2>2 DEF LoseCall
<1>7. ASSUME NEW h \in Handlers, Step(h) PROVE KeepsFences(vault')
  <2>1. CASE \/ AdmitEdit(h) \/ ReadContent(h) \/ Staged(h) \/ Decide(h) \/ DecideIdempotent(h)
             \/ DecideRefused(h) \/ Authorize(h) \/ RefreshPendingRetraction(h) \/ Released(h) \/ Attest(h)
             \/ CommitExisting(h) \/ CommitRefused(h) \/ Finalized(h) \/ FlushOutbox(h) \/ PrepareErasure(h)
    BY <1>1, <2>1 DEF AdmitEdit, ReadContent, Staged, Decide, DecideIdempotent, DecideRefused, Authorize,
       RefreshPendingRetraction, Released, Attest, CommitExisting, CommitRefused, Finalized, FlushOutbox,
       PrepareErasure, NoChange, world
  <2>2. CASE \/ \E c \in Posts : CommitMessage(h, c)
             \/ \E c \in Edits : CommitMessageMutation(h, c)
             \/ \E c \in Retractions \cup Restores : CommitMessageStateMutation(h, c)
             \/ \E c \in Erasures : CommitMessageErasure(h, c)
             \/ \E c \in Toggles : CommitMessageReaction(h, c)
             \/ \E c \in Members : CommitCommand(h, c)
    BY <1>1, <2>2 DEF CommitMessage, CommitMessageMutation, CommitMessageStateMutation,
       CommitMessageErasure, CommitMessageReaction, CommitCommand, Commits, world
  <2> QED BY <1>3, <1>5, <1>7, <2>1, <2>2 DEF Step
<1>8. CASE FireAlarm \/ AlarmStep
  BY <1>1, <1>8 DEF FireAlarm, AlarmStep, ReconcileDue, ResumeCommand, ResumePendingMessage,
     ResumeReaction, AfterReaction, ReconcileContentFinalizations, FinishAlarm, NoChange, world
<1>9. CASE Environment
  BY <1>1, <1>9, CollectorKeepsFences DEF Environment, SetAlarm, Crash, Start, Reauthorize, GraceElapses, world
<1>10. CASE UNCHANGED vars
  BY <1>1, <1>10 DEF vars, world
<1> QED BY <1>2, <1>6, <1>7, <1>8, <1>9, <1>10 DEF Next

\* The workload never changes, and only a revocation takes access away.
LEMMA LoadStays ==
    ASSUME Shape, [Next]_vars
    PROVE  /\ env'.load = env.load
           /\ "revoke" \notin env.load.faults => allowed' = allowed
<1>1. ASSUME NEW h \in Handlers, Request(h) PROVE UNCHANGED <<allowed, env>>
  BY <1>1 DEF Request, PostMessage, MutateMessage, MutateMessageState, MutateMessageReaction,
     Execute, NoChange, world
<1>2. ASSUME NEW h \in Handlers, LoseCall(h) PROVE UNCHANGED allowed /\ env'.load = env.load
  BY <1>2, FailsFacts DEF LoseCall
<1>3. ASSUME NEW h \in Handlers, Step(h) PROVE UNCHANGED allowed /\ env'.load = env.load
  <2>1. CASE FlushOutbox(h)
    BY <2>1, FailsFacts DEF FlushOutbox
  <2>2. CASE \/ AdmitEdit(h) \/ ReadContent(h) \/ Staged(h) \/ Decide(h) \/ DecideIdempotent(h)
             \/ DecideRefused(h) \/ Authorize(h) \/ RefreshPendingRetraction(h) \/ Released(h) \/ Attest(h)
             \/ CommitExisting(h) \/ CommitRefused(h) \/ Finalized(h) \/ PrepareErasure(h)
    BY <2>2 DEF AdmitEdit, ReadContent, Staged, Decide, DecideIdempotent, DecideRefused, Authorize,
       RefreshPendingRetraction, Released, Attest, CommitExisting, CommitRefused, Finalized,
       PrepareErasure, NoChange, world
  <2>3. CASE \/ Stage(h) \/ Claim(h) \/ ReleaseClaim(h) \/ Reclaim(h) \/ Finalize(h) \/ Refinalize(h)
             \/ DestroyGeneration(h)
    BY <2>3 DEF Stage, Claim, ReleaseClaim, Reclaim, Finalize, Refinalize, DestroyGeneration
  <2>4. CASE \/ \E c \in Posts : CommitMessage(h, c)
             \/ \E c \in Edits : CommitMessageMutation(h, c)
             \/ \E c \in Retractions \cup Restores : CommitMessageStateMutation(h, c)
             \/ \E c \in Erasures : CommitMessageErasure(h, c)
             \/ \E c \in Toggles : CommitMessageReaction(h, c)
             \/ \E c \in Members : CommitCommand(h, c)
    BY <2>4 DEF CommitMessage, CommitMessageMutation, CommitMessageStateMutation,
       CommitMessageErasure, CommitMessageReaction, CommitCommand, Commits, world
  <2> QED BY <1>3, <2>1, <2>2, <2>3, <2>4 DEF Step
<1>4. CASE FireAlarm \/ AlarmStep
  BY <1>4 DEF FireAlarm, AlarmStep, ReconcileDue, ResumeCommand, ResumePendingMessage,
     ResumeReaction, AfterReaction, ReconcileContentFinalizations, FinishAlarm, NoChange, world
<1>5. CASE Environment
  <2>1. CASE Crash
    BY <2>1, FailsFacts DEF Crash
  <2>2. CASE Reauthorize
    BY <2>2, FailsFacts DEF Reauthorize, Fails
  <2> QED BY <1>5, <2>1, <2>2 DEF Environment, SetAlarm, Start, PreparationElapses, VaultCollects,
          GraceElapses, world
<1>6. CASE UNCHANGED vars
  BY <1>6 DEF vars, world
<1> QED BY <1>1, <1>2, <1>3, <1>4, <1>5, <1>6 DEF Next

\* What a handler has fenced when it is about to commit.
FenceOK(r, v) ==
    /\ r.at # "release"
    /\ r.at \in {"authorize2", "commit"} /\ r.cmd \in Contents => Fenced(v[r.cmd])

\* Where a part of the alarm goes, and what it finds to do.
LEMMA PartMoves ==
    ASSUME Shape, FireAlarm \/ AlarmStep
    PROVE  /\ Others(Alarm) /\ Plain(Alarm)
           /\ \/ run'[Alarm].cmd \in {run[Alarm].cmd, None} \cup Erasures
              \/ \E t \in Tables : pending[t] # None /\ run'[Alarm].cmd = pending[t].cmd
              \/ run'[Alarm].cmd \in run[Alarm].todo
           /\ run'[Alarm].todo \subseteq run[Alarm].todo \cup finalization
<1>0. Alarm \in Handlers /\ run[Alarm] \in HandlerState
  BY AlarmIsHandler, AtFacts
<1>1. ASSUME NEW at \in {"due", "command", "message", "reaction"}, Goto(Alarm, at)
      PROVE  /\ Others(Alarm) /\ Plain(Alarm)
             /\ run'[Alarm].cmd = run[Alarm].cmd /\ run'[Alarm].todo = run[Alarm].todo
  BY <1>0, <1>1, MoveFacts, OthersFacts DEF Places, Parts, Plain
<1>2. ASSUME NEW r, Become(Alarm, r), r.at \notin {"release", "authorize2", "commit"}
      PROVE  Others(Alarm) /\ Plain(Alarm) /\ run'[Alarm] = r
  BY <1>0, <1>2, MoveFacts, OthersFacts DEF Plain
<1>3. ASSUME NEW t \in Tables, pending[t] # None, NEW at \in {"attest", "authorize", "destroy"},
             NEW phase, Resume(pending[t].cmd, at, phase)
      PROVE  /\ Others(Alarm) /\ Plain(Alarm)
             /\ run'[Alarm].cmd = pending[t].cmd /\ run'[Alarm].todo = {}
  <2> DEFINE c == pending[t].cmd
             r == [Idle EXCEPT !.at = at, !.cmd = c, !.next = NextOf(c), !.phase = phase]
  <2>1. Become(Alarm, r) /\ r.at = at /\ r.cmd = c /\ r.todo = {}
    BY <1>3 DEF Resume, Idle
  <2> HIDE DEF r
  <2> QED BY <1>2, <2>1
<1>4. CASE FireAlarm
  BY <1>1, <1>4 DEF FireAlarm
<1>5. CASE ReconcileDue
  <2>1. ASSUME NEW p \in DueErasures,
               Become(Alarm, [Idle EXCEPT !.at = "destroy", !.phase = "command",
                                          !.cmd = Erasure(schedule[p])])
        PROVE  Others(Alarm) /\ Plain(Alarm) /\ run'[Alarm].cmd \in Erasures /\ run'[Alarm].todo = {}
    <3> DEFINE c == Erasure(schedule[p])
               r == [Idle EXCEPT !.at = "destroy", !.phase = "command", !.cmd = c]
    <3>1. c \in Erasures
      BY TypeParts, MessageFacts DEF Shape, TypeRest, DueErasures
    <3>2. Become(Alarm, r)
      BY <2>1
    <3> HIDE DEF c
    <3>3. r.at = "destroy" /\ r.cmd = c /\ r.todo = {}
      BY DEF Idle
    <3> HIDE DEF r
    <3> QED BY <1>2, <3>1, <3>2, <3>3
  <2> QED BY <1>1, <1>5, <2>1 DEF ReconcileDue
<1>6. CASE ResumeCommand
  <2>1. CASE pending["command"] = None
    BY <1>1, <1>6, <2>1 DEF ResumeCommand
  <2>2. CASE pending["command"] # None
    BY <1>3, <1>6, <2>2 DEF ResumeCommand, Tables
  <2> QED BY <2>1, <2>2
<1>7. CASE ResumePendingMessage
  <2>1. CASE pending["message"] = None
    BY <1>1, <1>7, <2>1 DEF ResumePendingMessage
  <2>2. CASE pending["message"] # None
    <3>1. "message" \in Tables /\ pending["message"].step \in {"intent", "signed"}
      BY <2>2, TypeParts DEF Shape, TypeRest, Tables, Row
    <3>2. \/ \E at \in {"attest", "authorize", "destroy"} : Resume(pending["message"].cmd, at, "reaction")
          \/ Goto(Alarm, "reaction")
      BY <1>7, <2>2, <3>1 DEF ResumePendingMessage
    <3> QED BY <1>1, <1>3, <2>2, <3>1, <3>2
  <2> QED BY <2>1, <2>2
<1>8. CASE ResumeReaction
  <2>1. CASE pending["reaction"] = None
    <3> DEFINE r == [run[Alarm] EXCEPT !.at = "ledger", !.todo = finalization]
    <3>1. Become(Alarm, r)
      BY <1>8, <2>1 DEF ResumeReaction
    <3>2. r.at = "ledger" /\ r.todo = finalization /\ r.cmd = run[Alarm].cmd
      BY <1>0 DEF HandlerState
    <3> HIDE DEF r
    <3> QED BY <1>2, <3>1, <3>2
  <2>2. CASE pending["reaction"] # None
    BY <1>3, <1>8, <2>2 DEF ResumeReaction, Tables
  <2> QED BY <2>1, <2>2
<1>9. CASE AfterReaction \/ FinishAlarm
  <2>1. Become(Alarm, Idle)
    BY <1>9 DEF AfterReaction, FinishAlarm
  <2>2. Idle.at = "idle" /\ Idle.cmd = None /\ Idle.todo = {}
    BY DEF Idle
  <2> QED BY <1>2, <2>1, <2>2
<1>10. CASE ReconcileContentFinalizations
  <2> DEFINE todo == run[Alarm].todo
  <2>1. CASE Become(Alarm, [Idle EXCEPT !.at = "flush", !.phase = "tail"])
    <3> DEFINE r == [Idle EXCEPT !.at = "flush", !.phase = "tail"]
    <3>1. r.at = "flush" /\ r.cmd = None /\ r.todo = {} /\ Become(Alarm, r)
      BY <2>1 DEF Idle
    <3> HIDE DEF r
    <3> QED BY <1>2, <3>1
  <2>2. ASSUME NEW c \in todo,
               Become(Alarm, [Idle EXCEPT !.at = "reclaim", !.cmd = c, !.phase = "ledger",
                                          !.todo = todo \ {c}])
        PROVE  Others(Alarm) /\ Plain(Alarm) /\ run'[Alarm].cmd \in todo /\ run'[Alarm].todo \subseteq todo
    <3> DEFINE r == [Idle EXCEPT !.at = "reclaim", !.cmd = c, !.phase = "ledger", !.todo = todo \ {c}]
    <3>1. r.at = "reclaim" /\ r.cmd = c /\ r.todo = todo \ {c} /\ Become(Alarm, r)
      BY <2>2 DEF Idle
    <3> HIDE DEF r
    <3> QED BY <1>2, <3>1
  <2> QED BY <1>10, <2>1, <2>2 DEF ReconcileContentFinalizations
<1> QED BY <1>4, <1>5, <1>6, <1>7, <1>8, <1>9, <1>10 DEF AlarmStep

\* A new result is that of a restore without an event, or of a commit.
LEMMA ResultsStep ==
    ASSUME Shape, [Next]_vars
    PROVE  \/ results' = results
           \/ \E c \in Restores : results' = results \cup {c}
           \/ \E h \in Handlers : \E c : Commits(h, c)
<1>1. ASSUME NEW h \in Handlers, Request(h) PROVE UNCHANGED results
  BY <1>1 DEF Request, PostMessage, MutateMessage, MutateMessageState, MutateMessageReaction,
     Execute, NoChange, tables
<1>2. ASSUME NEW h \in Handlers, LoseCall(h) PROVE UNCHANGED results
  BY <1>2 DEF LoseCall
<1>3. ASSUME NEW h \in Handlers, Step(h)
      PROVE  \/ results' = results
             \/ \E c \in Restores : results' = results \cup {c}
             \/ \E c : Commits(h, c)
  <2>1. CASE DecideIdempotent(h)
    BY <2>1 DEF DecideIdempotent, Unchanged
  <2>2. CASE \/ AdmitEdit(h) \/ ReadContent(h) \/ Staged(h) \/ Decide(h) \/ FlushOutbox(h)
             \/ DecideRefused(h) \/ Authorize(h) \/ RefreshPendingRetraction(h) \/ Released(h) \/ Attest(h)
             \/ CommitExisting(h) \/ CommitRefused(h) \/ Finalized(h) \/ PrepareErasure(h)
    BY <2>2 DEF AdmitEdit, ReadContent, Staged, Decide, DecideRefused, Authorize, FlushOutbox,
       RefreshPendingRetraction, Released, Attest, CommitExisting, CommitRefused, Finalized,
       PrepareErasure, NoChange, tables
  <2>3. CASE \/ Stage(h) \/ Claim(h) \/ ReleaseClaim(h) \/ Reclaim(h) \/ Finalize(h) \/ Refinalize(h)
             \/ DestroyGeneration(h)
    BY <2>3 DEF Stage, Claim, ReleaseClaim, Reclaim, Finalize, Refinalize, DestroyGeneration, tables
  <2>4. CASE \/ \E c \in Posts : CommitMessage(h, c)
             \/ \E c \in Edits : CommitMessageMutation(h, c)
             \/ \E c \in Retractions \cup Restores : CommitMessageStateMutation(h, c)
             \/ \E c \in Erasures : CommitMessageErasure(h, c)
             \/ \E c \in Toggles : CommitMessageReaction(h, c)
             \/ \E c \in Members : CommitCommand(h, c)
    BY <2>4 DEF CommitMessage, CommitMessageMutation, CommitMessageStateMutation,
       CommitMessageErasure, CommitMessageReaction, CommitCommand
  <2> QED BY <1>3, <2>1, <2>2, <2>3, <2>4 DEF Step
<1>4. CASE FireAlarm \/ AlarmStep
  BY <1>4 DEF FireAlarm, AlarmStep, ReconcileDue, ResumeCommand, ResumePendingMessage,
     ResumeReaction, AfterReaction, ReconcileContentFinalizations, FinishAlarm, NoChange, tables
<1>5. CASE Environment
  BY <1>5 DEF Environment, SetAlarm, Crash, Start, Reauthorize, PreparationElapses, VaultCollects,
     GraceElapses, tables, object
<1>6. CASE UNCHANGED vars
  BY <1>6 DEF vars, object, tables
<1> QED BY <1>1, <1>2, <1>3, <1>4, <1>5, <1>6 DEF Next

\* Without a revocation the fences hold.
LEMMA FenceKeptStep ==
    ASSUME Shape, FenceKept, "revoke" \notin env.load.faults, [Next]_vars
    PROVE  FenceKept'
<1>1. KeepsFences(vault')
  BY FenceStays DEF FenceKept
<1>2. allowed /\ allowed'
  BY LoadStays DEF FenceKept
<1>3. \A c \in Contents : c \in results' => Fenced(vault'[c])
  <2>1. ASSUME NEW h \in Handlers, NEW d, Commits(h, d), NEW c \in Contents, c \in results'
        PROVE  Fenced(vault'[c])
    <3>1. results' = results \cup {d} /\ run[h].cmd = d /\ run[h].at = "commit"
      BY <2>1, CommitFacts
    <3> QED BY <1>1, <2>1, <3>1 DEF FenceKept, KeepsFences
  <2>2. CASE results' = results
    BY <1>1, <2>2 DEF FenceKept, KeepsFences
  <2>3. ASSUME NEW d \in Restores, results' = results \cup {d}, NEW c \in Contents, c \in results'
        PROVE  Fenced(vault'[c])
    BY <1>1, <2>3, KindFacts DEF FenceKept, KeepsFences
  <2> QED BY <2>1, <2>2, <2>3, ResultsStep
<1>4. ASSUME NEW g \in Handlers, run'[g] = run[g] PROVE FenceOK(run'[g], vault')
  BY <1>1, <1>4 DEF FenceKept, FenceOK, KeepsFences
<1>5. ASSUME NEW g \in Handlers, Plain(g) PROVE FenceOK(run'[g], vault')
  BY <1>5 DEF Plain, FenceOK
<1>6. ASSUME NEW h \in Handlers, Request(h) \/ Step(h) \/ LoseCall(h), NEW g \in Handlers
      PROVE  FenceOK(run'[g], vault')
  <2>1. CASE g # h
    <3>1. run'[g] = run[g]
      BY <1>6, <2>1, StepOthers DEF Others
    <3> QED BY <1>4, <3>1
  <2>2. CASE g = h /\ Request(h)
    BY <1>5, <2>2, RequestMoves
  <2>3. CASE g = h /\ (Step(h) \/ LoseCall(h))
    <3>1. Plain(h) \/ Secured(h)
      BY <2>3, StepMoves
    <3>2. CASE Secured(h)
      <4> DEFINE c == run[h].cmd
      <4>1. run'[h].at # "release" /\ run'[h].cmd = c
        BY <1>2, <3>2 DEF Secured
      <4>2. ASSUME run'[h].at \in {"authorize2", "commit"}, c \in Contents PROVE Fenced(vault'[c])
        <5>1. CASE run[h].at = "authorize2" /\ UNCHANGED vault
          BY <4>2, <5>1 DEF FenceKept
        <5>2. CASE CanClaim(c) /\ vault' = AfterClaim(c)
          BY <4>2, <5>2, FenceOps
        <5> QED BY <3>2, <4>2, <5>1, <5>2 DEF Secured
      <4> QED BY <2>3, <4>1, <4>2 DEF FenceOK
    <3> QED BY <1>5, <2>3, <3>1, <3>2
  <2> QED BY <1>6, <2>1, <2>2, <2>3
<1>7. ASSUME FireAlarm \/ AlarmStep, NEW g \in Handlers PROVE FenceOK(run'[g], vault')
  BY <1>4, <1>5, <1>7, PartMoves DEF Others
<1>8. ASSUME Environment \/ UNCHANGED vars, NEW g \in Handlers PROVE FenceOK(run'[g], vault')
  <2>1. CASE Crash
    <3>1. run'[g].at = "idle"
      BY <2>1 DEF Crash, Idle
    <3> QED BY <3>1 DEF FenceOK
  <2>2. CASE ~Crash
    <3>1. UNCHANGED run
      BY <1>8, <2>2 DEF Environment, SetAlarm, Start, Reauthorize, PreparationElapses, VaultCollects,
         GraceElapses, object, vars
    <3> QED BY <1>4, <3>1
  <2> QED BY <2>1, <2>2
<1>9. \A g \in Handlers : FenceOK(run'[g], vault')
  BY <1>6, <1>7, <1>8 DEF Next
<1> QED BY <1>2, <1>3, <1>9 DEF FenceKept, FenceOK

\* The rows a step leaves are the ones that were there, or its handler's own.
RowsFrom(h) ==
    \A t \in Tables : pending'[t] # None =>
        \/ pending[t] # None /\ pending'[t].cmd = pending[t].cmd
        \/ pending'[t].cmd = run[h].cmd

\* What a step of a handler writes: rows of its command, and ledger rows only
\* for a content command of its own.
LEMMA StepRows ==
    ASSUME Shape, NEW h \in Handlers, Request(h) \/ Step(h) \/ LoseCall(h)
    PROVE  RowsFrom(h) /\ (finalization' \subseteq finalization \/ run[h].cmd \in Contents)
<1> DEFINE c == run[h].cmd
<1>0. pending \in [Tables -> Row \cup {None}]
  BY TypeParts DEF Shape, TypeRest
<1>1. ASSUME Drop PROVE RowsFrom(h)
  BY <1>1 DEF Drop, RowsFrom
<1>2. CASE \/ Request(h)
           \/ AdmitEdit(h) \/ ReadContent(h) \/ Staged(h) \/ DecideRefused(h) \/ Attest(h)
           \/ CommitExisting(h) \/ CommitRefused(h)
           \/ Stage(h) \/ Claim(h) \/ ReleaseClaim(h) \/ Reclaim(h) \/ Finalize(h) \/ Refinalize(h)
           \/ Authorize(h) \/ Released(h)
  BY <1>1, <1>2, StepCalm DEF Calm
<1>3. ASSUME NEW next, NEW step, Insert(c, next, step) PROVE RowsFrom(h)
  <2> DEFINE row == [cmd |-> c, next |-> next, step |-> step]
  <2>1. pending' = [pending EXCEPT ![TableOf(c)] = row] /\ row.cmd = c
    BY <1>3 DEF Insert
  <2> HIDE DEF row
  <2> QED BY <1>0, <2>1 DEF RowsFrom
<1>4. CASE Decide(h)
  BY <1>3, <1>4 DEF Decide
<1>5. CASE DecideIdempotent(h) \/ Finalized(h) \/ FlushOutbox(h) \/ DestroyGeneration(h)
  BY <1>1, <1>5 DEF DecideIdempotent, Finalized, FlushOutbox, DestroyGeneration, Drop, tables
<1>6. CASE RefreshPendingRetraction(h)
  <2>1. c \in Commands \cup Erasures
    BY <1>6, AtFacts DEF RefreshPendingRetraction, AwaitFor, Commands
  <2>2. CASE Abandon(c) \/ UNCHANGED pending
    <3>1. Drop
      BY <2>1, <2>2, AbandonFacts DEF Drop
    <3> QED BY <1>1, <1>6, <3>1 DEF RefreshPendingRetraction
  <2>3. CASE IsPending(c) /\ pending' = [pending EXCEPT !["message"].next = cursor + 1]
    <3>1. c \in Retractions /\ TableOf(c) = "message" /\ "message" \in Tables
      BY <1>6, AtFacts, TableFacts DEF RefreshPendingRetraction, AwaitFor, Tables
    <3>2. pending["message"] \in Row
      BY <1>0, <2>3, <3>1 DEF IsPending
    <3>3. pending'["message"].cmd = pending["message"].cmd /\ pending["message"] # None
      BY <1>0, <2>3, <3>1, <3>2 DEF Row, IsPending
    <3>4. RowsFrom(h)
      BY <1>0, <2>3, <3>3 DEF RowsFrom
    <3> QED BY <1>6, <3>4 DEF RefreshPendingRetraction
  <2> QED BY <1>6, <2>2, <2>3 DEF RefreshPendingRetraction
<1>7. CASE PrepareErasure(h)
  <2>1. c \in Erasures
    BY <1>7, DestroyFacts DEF PrepareErasure
  <2>2. Insert(c, cursor + 1, "signed") \/ UNCHANGED pending \/ Abandon(c)
    BY <1>7 DEF PrepareErasure
  <2>3. RowsFrom(h)
    BY <1>1, <1>3, <2>1, <2>2, AbandonFacts DEF Drop
  <2> QED BY <1>7, <2>3 DEF PrepareErasure
<1>8. ASSUME NEW d, Commits(h, d) PROVE RowsFrom(h) /\ c = d
  BY <1>1, <1>8, CommitFacts
<1>9. CASE \/ \E d \in Posts : CommitMessage(h, d)
           \/ \E d \in Edits : CommitMessageMutation(h, d)
  BY <1>8, <1>9 DEF CommitMessage, CommitMessageMutation, Contents
<1>10. CASE \/ \E d \in Retractions \cup Restores : CommitMessageStateMutation(h, d)
            \/ \E d \in Erasures : CommitMessageErasure(h, d)
            \/ \E d \in Toggles : CommitMessageReaction(h, d)
            \/ \E d \in Members : CommitCommand(h, d)
  BY <1>8, <1>10 DEF CommitMessageStateMutation, CommitMessageErasure, CommitMessageReaction, CommitCommand
<1>11. CASE LoseCall(h)
  <2>1. UNCHANGED pending \/ (c \in Toggles /\ Abandon(c))
    BY <1>11 DEF LoseCall
  <2>2. c \in Toggles => c \in Commands \cup Erasures
    BY DEF Commands
  <2>3. Drop
    BY <2>1, <2>2, AbandonFacts DEF Drop
  <2> QED BY <1>1, <1>11, <2>3 DEF LoseCall
<1> QED BY <1>2, <1>4, <1>5, <1>6, <1>7, <1>9, <1>10, <1>11 DEF Step

\* Without a content command nobody comes to handle one.
LEMMA NoContentStep ==
    ASSUME Shape, NoContentHandled, env.load.commands \cap Contents = {}, [Next]_vars
    PROVE  NoContentHandled'
<1>0. None \notin Contents /\ \A c \in Erasures : c \notin Contents
  BY NamesAssumption, KindFacts DEF Commands
<1>1. ASSUME NEW h \in Handlers, Request(h) \/ Step(h) \/ LoseCall(h) PROVE NoContentHandled'
  <2>1. RowsFrom(h) /\ finalization' = {}
    BY <1>1, StepRows DEF NoContentHandled
  <2>2. \A t \in Tables : pending'[t] # None => pending'[t].cmd \notin Contents
    BY <2>1 DEF NoContentHandled, RowsFrom
  <2>3. ASSUME NEW g \in Handlers PROVE run'[g].cmd \notin Contents /\ run'[g].todo = {}
    <3>1. CASE g # h
      BY <1>1, <3>1, StepOthers DEF Others, NoContentHandled
    <3>2. CASE g = h /\ Request(h)
      BY <3>2, RequestMoves
    <3>3. CASE g = h /\ (Step(h) \/ LoseCall(h))
      BY <1>0, <3>3, StepMoves DEF Moved, NoContentHandled
    <3> QED BY <1>1, <3>1, <3>2, <3>3
  <2> QED BY <2>1, <2>2, <2>3 DEF NoContentHandled
<1>2. CASE FireAlarm \/ AlarmStep
  <2>1. Alarm \in Handlers /\ finalization' = {}
    BY <1>2, AlarmIsHandler DEF NoContentHandled, FireAlarm, AlarmStep, ReconcileDue, ResumeCommand,
       ResumePendingMessage, ResumeReaction, AfterReaction, ReconcileContentFinalizations, FinishAlarm,
       NoChange, tables
  <2>2. ASSUME NEW g \in Handlers PROVE run'[g].cmd \notin Contents /\ run'[g].todo = {}
    <3>1. CASE g # Alarm
      BY <1>2, <3>1, PartMoves DEF Others, NoContentHandled
    <3>2. CASE g = Alarm
      <4>1. /\ run[Alarm].todo = {} /\ finalization = {} /\ run[Alarm].cmd \notin Contents
            /\ \A t \in Tables : pending[t] # None => pending[t].cmd \notin Contents
        BY <2>1 DEF NoContentHandled
      <4>2. run'[Alarm].todo \subseteq run[Alarm].todo \cup finalization
        BY <1>2, PartMoves
      <4>3. \/ run'[Alarm].cmd \in {run[Alarm].cmd, None} \cup Erasures
            \/ \E t \in Tables : pending[t] # None /\ run'[Alarm].cmd = pending[t].cmd
            \/ run'[Alarm].cmd \in run[Alarm].todo
        BY <1>2, PartMoves
      <4>4. run'[Alarm].todo = {}
        BY <4>1, <4>2
      <4>5. run'[Alarm].cmd \notin Contents
        BY <1>0, <4>1, <4>3
      <4> QED BY <3>2, <4>4, <4>5
    <3> QED BY <3>1, <3>2
  <2>3. \A t \in Tables : pending'[t] # None => pending'[t].cmd \notin Contents
    <3>1. CASE ReconcileDue
      <4> DEFINE open == [pending EXCEPT !["reaction"] = None]
      <4>1. pending \in [Tables -> Row \cup {None}]
        BY TypeParts DEF Shape, TypeRest
      <4>2. CASE pending' \in {pending, open}
        BY <4>1, <4>2 DEF NoContentHandled
      <4>3. ASSUME NEW p \in DueErasures,
                   pending' = [open EXCEPT !["message"] =
                     [cmd |-> Erasure(schedule[p]), next |-> cursor, step |-> "intent"]]
            PROVE  \A t \in Tables : pending'[t] # None => pending'[t].cmd \notin Contents
        <5> DEFINE c == Erasure(schedule[p])
                   row == [cmd |-> c, next |-> cursor, step |-> "intent"]
        <5>1. c \in Erasures
          BY TypeParts, MessageFacts DEF Shape, TypeRest, DueErasures
        <5>2. pending' = [open EXCEPT !["message"] = row]
          BY <4>3
        <5> HIDE DEF c
        <5>3. row.cmd = c
          OBVIOUS
        <5> HIDE DEF row
        <5>4. \A t \in Tables : pending'[t] \in {pending[t], None, row}
          BY <4>1, <5>2
        <5> QED BY <1>0, <5>1, <5>3, <5>4 DEF NoContentHandled
      <4> QED BY <3>1, <4>2, <4>3 DEF ReconcileDue
    <3>2. CASE ~ReconcileDue
      <4>1. Drop
        BY <1>2, <3>2, AlarmCalm DEF AlarmStep, Calm
      <4> QED BY <4>1 DEF Drop, NoContentHandled
    <3> QED BY <3>1, <3>2
  <2> QED BY <2>1, <2>2, <2>3 DEF NoContentHandled
<1>3. CASE Environment \/ UNCHANGED vars
  <2>1. UNCHANGED tables
    BY <1>3 DEF Environment, SetAlarm, Crash, Start, Reauthorize, PreparationElapses, VaultCollects,
       GraceElapses, object, vars
  <2>2. ASSUME NEW g \in Handlers PROVE run'[g].cmd \notin Contents /\ run'[g].todo = {}
    <3>1. CASE Crash
      BY <1>0, <3>1 DEF Crash, Idle
    <3>2. CASE ~Crash
      <4>1. UNCHANGED run
        BY <1>3, <3>2 DEF Environment, SetAlarm, Start, Reauthorize, PreparationElapses, VaultCollects,
           GraceElapses, object, vars
      <4> QED BY <4>1 DEF NoContentHandled
    <3> QED BY <3>1, <3>2
  <2> QED BY <2>1, <2>2 DEF NoContentHandled, tables
<1> QED BY <1>1, <1>2, <1>3 DEF Next

\* The fences hold at the start: what the history committed is final.
LEMMA InitFence ==
    ASSUME Init
    PROVE  FenceInv
<1>0. Shape /\ Recorded
  BY InitShape, InitKeeps
<1>1. \A h \in Handlers : run[h].at = "idle" /\ run[h].cmd = None /\ run[h].todo = {}
  BY DEF Init, Idle
<1>2. allowed /\ finalization = {} /\ \A t \in Tables : pending[t] = None
  BY DEF Init
<1>3. \A c \in Contents : c \in results => Fenced(vault[c])
  BY <1>0, <1>2 DEF Recorded, LedgerOK, Fenced
<1>4. None \notin Contents
  BY NamesAssumption DEF Commands
<1> QED BY <1>1, <1>2, <1>3, <1>4 DEF FenceInv, FenceKept, NoContentHandled

\* Every workload keeps revocations and content commands apart.
RevokesApart ==
    \A w \in Workloads : "revoke" \in w.faults => w.commands \cap Contents = {}

\* If no workload revokes access while content commands are under way, content
\* of a committed event stays fenced against the vault's collector until it is
\* final.  attestAndFinalizeMessage commits after claimPendingMessageContent and
\* another authorization; the release of a concurrent handler whose
\* authorization failed is what the hypothesis excludes.
THEOREM FenceHolds == RevokesApart => (Spec => []CommittedIsFenced)
<1> SUFFICES ASSUME RevokesApart PROVE Spec => []CommittedIsFenced
  OBVIOUS
<1>1. Init => FenceInv
  BY InitFence
<1>2. RecordInv /\ FenceInv /\ [Next]_vars => FenceInv'
  <2> SUFFICES ASSUME RecordInv, FenceInv, [Next]_vars PROVE FenceInv'
    OBVIOUS
  <2>1. Shape /\ env'.load = env.load
    BY LoadStays DEF RecordInv
  <2> QED BY <2>1, FenceKeptStep, NoContentStep DEF FenceInv
<1>3. ASSUME RecordInv, FenceInv PROVE CommittedIsFenced
  <2>1. Shape /\ Recorded
    BY <1>3 DEF RecordInv
  <2>2. env.load \in Workloads
    BY <2>1, TypeParts DEF Shape, TypeRest
  <2>3. CASE "revoke" \notin env.load.faults
    BY <1>3, <2>3 DEF FenceInv, FenceKept, CommittedIsFenced, Fenced, Final
  <2>4. CASE env.load.commands \cap Contents = {}
    <3>1. finalization = {}
      BY <1>3, <2>4 DEF FenceInv, NoContentHandled
    <3> QED BY <2>1, <3>1 DEF Recorded, LedgerOK, CommittedIsFenced, Final
  <2> QED BY <2>2, <2>3, <2>4 DEF RevokesApart
<1> QED BY <1>1, <1>2, <1>3, RecordInvariant, PTL DEF Spec

=============================================================================
