---------------------------- MODULE DrizzlePush ----------------------------
(***************************************************************************)
(* The outbound half of the drizzle engine: mutate and transact, which     *)
(* write the domain tables and the outbox in one database transaction, and *)
(* pushOutbox, which sends the outbox to the server of EventLog.  Unlike   *)
(* the collection client it never folds, reserves nothing and has no gate: *)
(* calls of mutate run between any two awaits of a push.                   *)
(*                                                                         *)
(* One engine.  The transaction of the adapter is taken as isolated: no    *)
(* other statement sees it half done or joins it, and a crash undoes it.   *)
(* Both reference adapters fall short of that: their outbox store writes   *)
(* through db, not through the tx it is handed, so on one connection a     *)
(* statement of a push that runs meanwhile is undone with a rolled back    *)
(* transaction, and on a pool the outbox row is not part of it.            *)
(* config is chosen at the start and never changes: what the application   *)
(* does, what the network does and whether versions are kept.              *)
(***************************************************************************)
EXTENDS EventLog, TxGroups, Integers, Sequences

CONSTANTS
  BatchSize,    \* pushBatchSize
  MaxAttempts,  \* retry.maxAttempts
  MaxDelay,     \* retry.maxDelayMs, with baseDelayMs as the unit
  MaxIds,       \* bound: calls of mutate, of all configurations
  ForeignIds,   \* eventIds other devices may use, above MaxIds
  Configs       \* the configurations to explore

FaultKinds == {"transport", "late", "transient", "reject"}

(* keys, ids, runs, depth, crashes: bounds on rows, calls of mutate,       *)
(* transact runs, their nesting, and crashes.  versions: conflictDetection.*)
(* foreign: what other devices write.  busy: the user edits while a sync   *)
(* runs.                                                                   *)
ConfigType ==
  [keys : Nat, ids : 0..MaxIds, runs : Nat, depth : Nat, crashes : Nat, faults : SUBSET FaultKinds,
   versions : BOOLEAN, foreign : SUBSET ForeignIds, busy : BOOLEAN]

ASSUME ConfigsAssumption ==
  /\ BatchSize \in Nat \ {0} /\ MaxAttempts \in Nat \ {0} /\ MaxDelay \in Nat
  /\ MaxIds \in Nat /\ ForeignIds \subseteq Nat \ (0..MaxIds)
  /\ Configs \subseteq ConfigType

VARIABLES
  config,
  rows,       \* key -> [val, live]: the domain table, val names its last writer
  outbox,     \* eventId -> outbox row (persisted)
  dead,       \* eventId -> the outbox row it was (persisted)
  heads,      \* key -> rowversions entry, NoEvent for none or ""
  nextId,     \* the next eventId, which is also its localSeq
  pending,    \* eventId -> outbox row built by a call and not yet inserted
  stack,      \* the ambient transactions, the active one last
  txs,        \* transact runs so far
  unstamped,  \* committed events whose rowversions entry is not written yet
  lost,       \* events whose call failed, or that nobody will ever insert
  cutOff,     \* events a crash kept the rowversions entry of from being written
  push,       \* the push in progress
  late,       \* requests the client gave up on that may still arrive
  replayed,   \* other devices' events this device has replayed
  halfway,    \* the one whose row is written and whose version is not
  crashes

calls == <<pending, stack, txs, unstamped, lost, cutOff>>
vars  == <<log, config, rows, outbox, dead, heads, nextId, calls, push, late,
           replayed, halfway, crashes>>

Keys == 1..config.keys
Ids  == 1..MaxIds

Empty == [e \in {} |-> NoEvent]

PushIn(phase) == [phase |-> phase, due |-> {}, open |-> {}, answer |-> Empty]
Resting == PushIn("idle")
Pulling == PushIn("pull")

Init ==
  /\ LogInit
  /\ config \in Configs
  /\ rows = [k \in Keys |-> [val |-> NoEvent, live |-> FALSE]]
  /\ outbox = Empty /\ dead = Empty
  /\ heads = [k \in Keys |-> NoEvent]
  /\ nextId = 1
  /\ pending = Empty /\ stack = <<>> /\ txs = 0 /\ unstamped = {} /\ lost = {} /\ cutOff = {}
  /\ push = Resting /\ late = {}
  /\ replayed = {} /\ halfway = NoEvent
  /\ crashes = 0

Join(f, g) == [e \in DOMAIN f \cup DOMAIN g |-> IF e \in DOMAIN g THEN g[e] ELSE f[e]]
Without(f, S) == [e \in DOMAIN f \ S |-> f[e]]
Only(f, S) == [e \in DOMAIN f \cap S |-> f[e]]
Last(S) == CHOOSE e \in S : \A f \in S : f <= e

-----------------------------------------------------------------------------
(* mutate: insert, update and delete.                                      *)

Ambient == IF stack = <<>> THEN {} ELSE {stack[Len(stack)]}
Waiting == UNION {t.entries : t \in {stack[i] : i \in DOMAIN stack}}
OfRow(k, S) == {e \in S \cap DOMAIN pending : pending[e].key = k}

(* Mutant: the ambient transaction's own writes are not looked at.         *)
StoredVersion(k) == IF config.versions THEN heads[k] ELSE NoEvent

(* pendingRowVersion, else readRowVersion.                                 *)
BaseVersion(k) ==
  LET mine == UNION {OfRow(k, t.entries) : t \in Ambient}
  IN  IF ~config.versions THEN NoEvent
      ELSE IF mine # {} THEN Last(mine) ELSE heads[k]

(* What the row will be once the writes that wait for their commit are in. *)
Seen(k) ==
  LET mine == OfRow(k, DOMAIN pending)
  IN  IF mine = {} THEN rows[k].live ELSE pending[Last(mine)].type # "delete"

(* A committed event, which a push may have parked already.                *)
RowOf(e) == IF e \in DOMAIN outbox THEN outbox[e] ELSE dead[e]

(* The application awaits an edit of a row before it edits it again, and   *)
(* has the row in one open transaction at a time.                          *)
InHand(k) ==
  \/ OfRow(k, DOMAIN pending \ UNION {t.entries : t \in Ambient}) # {}
  \/ \E e \in unstamped : RowOf(e).key = k

Syncing == push.phase # "idle"

TxName(n) == MaxIds + n

(* A call draws its eventId and localSeq, looks at the ambient transaction *)
(* and reads the base version.                                             *)
Call(k, type) ==
  /\ nextId <= config.ids
  /\ config.busy \/ ~Syncing
  /\ ~InHand(k)
  /\ Seen(k) = (type # "insert")
  /\ pending' = Join(pending, [e \in {nextId} |->
       [tx |-> IF stack = <<>> THEN nextId ELSE stack[Len(stack)].id,
        key |-> k, type |-> type, base |-> BaseVersion(k),
        synced |-> FALSE, attempts |-> 0, wait |-> 0]])
  /\ nextId' = nextId + 1
  /\ UNCHANGED <<log, config, rows, outbox, dead, heads, stack, txs, unstamped, lost, cutOff,
                 push, late, replayed, halfway, crashes>>

(* The database transaction of the events S: each domain write and its     *)
(* outbox row.  An insert of a row that is there fails, and with it all.   *)
Fits(S) ==
  \A e \in S : pending[e].type = "insert" =>
    LET earlier == OfRow(pending[e].key, {f \in S : f < e})
    IN  IF earlier = {} THEN ~rows[pending[e].key].live
        ELSE pending[Last(earlier)].type = "delete"

(* An update or delete of a row that is not there changes no row.          *)
Written(S) ==
  [k \in Keys |->
     LET mine == OfRow(k, S)
     IN  IF mine = {} \/ (~rows[k].live /\ \A e \in mine : pending[e].type # "insert")
         THEN rows[k]
         ELSE [val |-> Last(mine), live |-> pending[Last(mine)].type # "delete"]]

(* One awaited write after the other, in the transaction of the adapter.   *)
InsertAll(S) ==
  /\ rows' = Written(S)
  /\ outbox' = Join(outbox, Only(pending, S))
  /\ pending' = Without(pending, S)
  /\ unstamped' = IF config.versions THEN unstamped \cup S ELSE unstamped
  /\ UNCHANGED lost

FailAll(S) ==
  /\ pending' = Without(pending, S)
  /\ lost' = lost \cup S
  /\ UNCHANGED <<rows, outbox, unstamped>>

Rest == UNCHANGED <<log, config, dead, nextId, cutOff, push, late, replayed, halfway,
                    crashes>>

(* A call outside any transaction commits on its own.                      *)
CommitCall(e) ==
  /\ e \in DOMAIN pending \ Waiting /\ pending[e].tx = e
  /\ IF Fits({e}) THEN InsertAll({e}) ELSE FailAll({e})
  /\ UNCHANGED <<heads, stack, txs>> /\ Rest

Popped(i) == SubSeq(stack, 1, i - 1) \o SubSeq(stack, i + 1, Len(stack))

(* The run whose last version is that of e.                                *)
Ending(e) == {i \in DOMAIN stack : stack[i].phase = "stamping" /\ stack[i].entries = {e}}

(* writeRowVersion follows the commit in a statement of its own.           *)
Stamp(e) ==
  /\ e \in unstamped
  /\ \A f \in unstamped : RowOf(f).tx = RowOf(e).tx => e <= f
  /\ heads' = [heads EXCEPT ![RowOf(e).key] = e]
  /\ unstamped' = unstamped \ {e}
  /\ stack' = IF Ending(e) = {} THEN stack ELSE Popped(CHOOSE i \in Ending(e) : TRUE)
  /\ UNCHANGED <<rows, outbox, pending, txs, lost>> /\ Rest

-----------------------------------------------------------------------------
(* transact().run(callback): a stack of ambient transactions.              *)

At(i, t) == [stack EXCEPT ![i] = t]

BeginTx ==
  /\ Len(stack) < config.depth /\ txs < config.runs /\ nextId <= config.ids
  /\ stack' = Append(stack, [id |-> TxName(txs + 1), phase |-> "open", entries |-> {}])
  /\ txs' = txs + 1
  /\ UNCHANGED <<rows, outbox, heads, pending, unstamped, lost>> /\ Rest

(* A call that found an ambient transaction adds its entry to it.          *)
Found(e, phase) == {i \in DOMAIN stack : stack[i].id = pending[e].tx /\ stack[i].phase = phase}
Arriving(e)     == e \in DOMAIN pending \ Waiting /\ pending[e].tx # e

AddEntry(e) ==
  /\ Arriving(e)
  /\ \E i \in Found(e, "open") : stack' = At(i, [stack[i] EXCEPT !.entries = @ \cup {e}])
  /\ UNCHANGED <<rows, outbox, heads, pending, txs, unstamped, lost>> /\ Rest

(* When that transaction has committed meanwhile, nobody inserts the entry *)
(* any more, although the call succeeds; while it writes its versions, the *)
(* row even gets the version of the event that will never be.              *)
AddTooLate(e) ==
  /\ Arriving(e) /\ Found(e, "open") = {}
  /\ pending' = Without(pending, {e}) /\ lost' = lost \cup {e}
  /\ heads' = IF Found(e, "stamping") = {} THEN heads
              ELSE [heads EXCEPT ![pending[e].key] = e]
  /\ UNCHANGED <<rows, outbox, stack, txs, unstamped>> /\ Rest

(* The callback has returned: all entries in one database transaction.     *)
(* The run stays on the stack until the versions are written.              *)
CommitTx(i) ==
  /\ stack[i].phase = "open"
  /\ LET S == stack[i].entries
     IN  IF Fits(S)
         THEN /\ InsertAll(S)
              /\ stack' = IF config.versions /\ S # {}
                          THEN At(i, [stack[i] EXCEPT !.phase = "stamping",
                                                      !.entries = {Last(S)}])
                          ELSE Popped(i)
         ELSE FailAll(S) /\ stack' = Popped(i)
  /\ UNCHANGED <<heads, txs>> /\ Rest

(* The callback throws: nothing was written, the entries are dropped.      *)
FailTx(i) ==
  /\ stack[i].phase = "open" /\ stack[i].entries # {}
  /\ FailAll(stack[i].entries)
  /\ stack' = Popped(i)
  /\ UNCHANGED <<heads, txs>> /\ Rest

Mutate   == \E k \in Keys, type \in MutationTypes : Call(k, type)
Settling == \E e \in Ids : CommitCall(e) \/ Stamp(e) \/ AddEntry(e) \/ AddTooLate(e)
Finish   == \E i \in DOMAIN stack : CommitTx(i) \/ FailTx(i)

-----------------------------------------------------------------------------
(* pushOutbox.                                                             *)

Unsynced == {e \in DOMAIN outbox : ~outbox[e].synced}

(* Mutant: an event that failed once is never due again.                   *)
DueOnce == {e \in Unsynced : outbox[e].wait = 0 /\ outbox[e].attempts = 0}

(* queryDueOutbox.                                                         *)
Due == {e \in Unsynced : outbox[e].wait = 0}

Body(e) == [eid |-> e, tx |-> outbox[e].tx, key |-> outbox[e].key, type |-> outbox[e].type,
            val |-> e, base |-> outbox[e].base, seq |-> e]

(* batchByTransaction: whole groups while they fit, at least one.          *)
NextBatch(S) ==
  LET groups == Groups({Body(e) : e \in S})
  IN  {g \in groups : g = Head1(groups) \/ Cardinality(Events(UpTo(groups, g))) <= BatchSize}

Delay(n) == LET raw == 2 ^ (IF n >= 1 THEN n - 1 ELSE 0)
            IN  IF raw <= MaxDelay THEN raw ELSE MaxDelay

(* Attempts are counted up to the limit; more are no different.            *)
Charged(row) == [row EXCEPT !.attempts = IF @ < MaxAttempts THEN @ + 1 ELSE @]

(* The next batch is marked: only now is it charged an attempt.            *)
SendBatch(S) ==
  LET batch == NextBatch(S)
      sent  == Eids(Events(batch))
  IN  /\ outbox' = [e \in DOMAIN outbox |->
                      IF e \in sent
                      THEN [Charged(outbox[e]) EXCEPT !.wait = 0]
                      ELSE outbox[e]]
      /\ push' = [phase |-> "waiting", due |-> S \ sent, open |-> batch, answer |-> Empty]

(* The oldest event of another device that is not replayed.                *)
NextForeign ==
  LET new == (config.foreign \cap DOMAIN log) \ replayed
  IN  {f \in new : \A g \in new : log[f].pos <= log[g].pos}

(* An application that does not edit while it syncs.                       *)
MaySync == config.busy \/ (pending = Empty /\ unstamped = {})

Aside == UNCHANGED <<config, rows, nextId, calls, replayed, halfway>>

(* A sync pushes, then it pulls, whatever became of the push.              *)
SendOrPull(S) ==
  IF S = {} THEN push' = Pulling /\ UNCHANGED outbox ELSE SendBatch(S)

StartPush ==
  /\ push.phase = "idle" /\ MaySync
  /\ Due # {} \/ NextForeign # {}
  /\ SendOrPull(Due)
  /\ UNCHANGED <<log, dead, heads, late, crashes>> /\ Aside

ContinuePush ==
  /\ push.phase = "apply" /\ push.answer = Empty
  /\ SendOrPull(push.due)
  /\ UNCHANGED <<log, dead, heads, late, crashes>> /\ Aside

EndSync ==
  /\ push.phase = "pull" /\ halfway = NoEvent
  /\ push' = Resting
  /\ UNCHANGED <<log, outbox, dead, heads, late, crashes>> /\ Aside

(* The server takes the groups of the request one by one.                  *)
ServePush ==
  /\ push.phase = "waiting" /\ push.open # {}
  /\ \E result \in ServerResults(Head1(push.open), config.faults) :
       /\ log' = result.log
       /\ push' = [push EXCEPT !.open = @ \ {Head1(push.open)},
                               !.answer = Join(@, result.answer)]
  /\ UNCHANGED <<outbox, dead, heads, late, crashes>> /\ Aside

ReceiveReply ==
  /\ push.phase = "waiting" /\ push.open = {}
  /\ push' = [push EXCEPT !.phase = "apply"]
  /\ UNCHANGED <<log, outbox, dead, heads, late, crashes>> /\ Aside

Abandoned == IF "late" \in config.faults /\ push.open # {}
             THEN {late, late \cup {push.open}} ELSE {late}

(* The transport throws: backoffBatch for the batch, and the push stops.   *)
TransportError ==
  /\ "transport" \in config.faults
  /\ push.phase = "waiting"
  /\ late' \in Abandoned
  /\ push' = [phase |-> "apply", due |-> {}, open |-> {},
              answer |-> [e \in DOMAIN push.answer \cup Eids(Events(push.open)) |-> "unsent"]]
  /\ UNCHANGED <<log, outbox, dead, heads, crashes>> /\ Aside

ServeLate ==
  /\ \E r \in late :
       /\ late' = (late \ {r}) \cup (IF r = {Head1(r)} THEN {} ELSE {r \ {Head1(r)}})
       /\ \E result \in ServerResults(Head1(r), config.faults) : log' = result.log
  /\ UNCHANGED <<outbox, dead, heads, push, crashes>> /\ Aside

-----------------------------------------------------------------------------
(* The answer, one event after the other: first the confirmations.         *)

ToApply ==
  LET yes == {e \in DOMAIN push.answer : push.answer[e] = "confirmed"}
      S   == IF yes # {} THEN yes ELSE DOMAIN push.answer
  IN  CHOOSE e \in S : \A f \in S : e <= f

Refused(e) == \/ push.answer[e] \in {"rejected", "conflict"}
              \/ push.answer[e] \in {"retry", "unsent"} /\ outbox[e].attempts >= MaxAttempts

Applying(e) == push.phase = "apply" /\ push.answer # Empty /\ e = ToApply

(* Mutant: the answer for an event is not struck off.                      *)
NotApplied(e) == push' = push

Applied(e) == push' = [push EXCEPT !.answer = Without(push.answer, {e})]

(* Mutant: an event that was never answered is marked synced as well.      *)
ConfirmAnyway(e) ==
  /\ Applying(e) /\ push.answer[e] \in {"confirmed", "unsent"}
  /\ outbox' = [outbox EXCEPT ![e].synced = TRUE, ![e].wait = 0]
  /\ Applied(e)
  /\ UNCHANGED <<log, dead, heads, late, crashes>> /\ Aside

(* markOutboxSynced.                                                       *)
Confirm(e) ==
  /\ Applying(e) /\ push.answer[e] = "confirmed"
  /\ outbox' = [outbox EXCEPT ![e].synced = TRUE, ![e].wait = 0]
  /\ Applied(e)
  /\ UNCHANGED <<log, dead, heads, late, crashes>> /\ Aside

BackOff(e) ==
  /\ Applying(e) /\ push.answer[e] \in {"retry", "unsent"} /\ ~Refused(e)
  /\ outbox' = [outbox EXCEPT ![e].wait = Delay(outbox[e].attempts)]
  /\ Applied(e)
  /\ UNCHANGED <<log, dead, heads, late, crashes>> /\ Aside

(* Mutant: the outbox row goes and no dead letter is recorded.             *)
NotRecorded(e) == dead

Recorded(e) == Join(dead, Only(outbox, {e}))

(* restoreRowVersion, without a look at what the entry is by now.          *)
Restored(e) ==
  IF push.answer[e] = "conflict"
  THEN [heads EXCEPT ![outbox[e].key] = outbox[e].base] ELSE heads

(* deadLetter: insert the record, delete the row, restore the version.     *)
Park(e) ==
  /\ Applying(e) /\ Refused(e) /\ e \notin DOMAIN dead
  /\ dead' = Recorded(e)
  /\ outbox' = Without(outbox, {e})
  /\ heads' = Restored(e)
  /\ Applied(e)
  /\ UNCHANGED <<log, late, crashes>> /\ Aside

(* A record that a crash left behind: the insert violates the primary key, *)
(* and the whole push is over.                                             *)
ParkThrows(e) ==
  /\ Applying(e) /\ Refused(e) /\ e \in DOMAIN dead
  /\ push' = Pulling
  /\ UNCHANGED <<log, outbox, dead, heads, late, crashes>> /\ Aside

BackoffTick ==
  /\ push.phase = "idle"
  /\ \E e \in DOMAIN outbox : outbox[e].wait > 0
  /\ outbox' = [e \in DOMAIN outbox |->
                  [outbox[e] EXCEPT !.wait = IF @ > 0 THEN @ - 1 ELSE 0]]
  /\ UNCHANGED <<log, dead, heads, push, late, crashes>> /\ Aside

Apply == \E e \in Ids : Confirm(e) \/ BackOff(e) \/ Park(e) \/ ParkThrows(e)
Pushing == StartPush \/ ContinuePush \/ ServePush \/ ReceiveReply \/ Apply \/ EndSync

-----------------------------------------------------------------------------
(* Other devices, and the pull that follows a push in the same sync.       *)

Foreign(f, k) ==
  /\ f \in config.foreign \ DOMAIN log
  /\ \E type \in MutationTypes :
       /\ (type = "insert") = (\A e \in HeadOf(k) : log[e].type = "delete")
       /\ log' = Appended({[eid |-> f, tx |-> f, key |-> k, type |-> type, val |-> f,
                            base |-> NoEvent, seq |-> f]})
  /\ UNCHANGED <<outbox, dead, heads, push, late, crashes>> /\ Aside

(* replayEvent writes the row and then its version.  An insert of a row    *)
(* that is there fails, and after its attempts the event is parked.        *)
ReplayRow(f) ==
  /\ push.phase = "pull" /\ halfway = NoEvent /\ f \in NextForeign
  /\ LET k == log[f].key
         fits == log[f].type = "insert" => ~rows[k].live
     IN  /\ rows' = IF (log[f].type = "insert") = rows[k].live THEN rows
                    ELSE [rows EXCEPT ![k] = [val |-> f, live |-> log[f].type # "delete"]]
         /\ halfway' = IF fits /\ config.versions THEN f ELSE NoEvent
  /\ replayed' = replayed \cup {f}
  /\ UNCHANGED <<log, config, outbox, dead, heads, nextId, calls, push, late, crashes>>

(* Mutant: a replay leaves the version alone.                              *)
ReplayUnversioned ==
  /\ halfway # NoEvent
  /\ halfway' = NoEvent
  /\ UNCHANGED <<log, config, rows, outbox, dead, heads, nextId, calls, push, late,
                 replayed, crashes>>

ReplayVersion ==
  /\ halfway # NoEvent
  /\ heads' = [heads EXCEPT ![log[halfway].key] = halfway]
  /\ halfway' = NoEvent
  /\ UNCHANGED <<log, config, rows, outbox, dead, nextId, calls, push, late, replayed, crashes>>

Others == \/ \E f \in ForeignIds, k \in Keys : Foreign(f, k)
          \/ \E f \in ForeignIds : ReplayRow(f)
          \/ ReplayVersion

-----------------------------------------------------------------------------
(* A crash, between two writes.  What was not committed is gone.  A crash  *)
(* inside a replay is left to DrizzlePull.                                 *)

Restart ==
  /\ crashes < config.crashes /\ halfway = NoEvent
  /\ crashes' = crashes + 1
  /\ pending' = Empty /\ stack' = <<>>
  /\ unstamped' = {} /\ cutOff' = cutOff \cup unstamped
  /\ lost' = lost \cup DOMAIN pending
  /\ push' = Resting
  /\ late' \in (IF push.phase = "waiting" THEN Abandoned ELSE {late})
  /\ UNCHANGED <<log, config, rows, nextId, txs, replayed, halfway>>

Crash == Restart /\ UNCHANGED <<outbox, dead, heads>>

(* Inside deadLetter: the record is in and the row still there, or the     *)
(* row is gone and the version not restored.                               *)
CrashInPark ==
  /\ \E e \in Ids :
       /\ Applying(e) /\ Refused(e) /\ e \notin DOMAIN dead
       /\ dead' = Recorded(e)
       /\ outbox' \in {outbox, Without(outbox, {e})}
  /\ Restart
  /\ UNCHANGED heads

(* Between the attempts of two events of a batch, the first or a later one.*)
ToMark == IF push.phase = "idle" THEN Due ELSE push.due

CrashInMark ==
  /\ MaySync /\ ToMark # {}
  /\ push.phase = "idle" \/ (push.phase = "apply" /\ push.answer = Empty)
  /\ LET sent == Eids(Events(NextBatch(ToMark)))
     IN  \E e \in sent :
           outbox' = [f \in DOMAIN outbox |->
                        IF f \in sent /\ f <= e THEN Charged(outbox[f])
                        ELSE outbox[f]]
  /\ Restart
  /\ UNCHANGED <<dead, heads>>

-----------------------------------------------------------------------------
Next == \/ Mutate \/ Settling \/ BeginTx \/ Finish \/ Pushing \/ TransportError \/ ServeLate
        \/ BackoffTick \/ Others \/ Crash \/ CrashInPark \/ CrashInMark

Spec == Init /\ [][Next]_vars

(* The application syncs again and again, promises settle, callbacks end,  *)
(* time passes and the server answers; nothing else need ever happen.      *)
Fairness ==
  /\ WF_vars(Pushing)
  /\ WF_vars(Settling)
  /\ WF_vars(Finish)
  /\ WF_vars(ReplayVersion)
  /\ SF_vars(BackoffTick)

FairSpec == Spec /\ Fairness

-----------------------------------------------------------------------------
(* Types.                                                                  *)

EventIds == Ids \cup ForeignIds
Versions == EventIds \cup {NoEvent}
Row == [tx : 1..(MaxIds + config.runs + 1), key : Keys, type : MutationTypes,
        base : Versions, synced : BOOLEAN, attempts : Nat, wait : 0..MaxDelay]

Partial(f, S, T) == DOMAIN f \subseteq S /\ \A e \in DOMAIN f : f[e] \in T

(* Every variable has its type.                                            *)
TypeOK ==
  /\ config \in Configs
  /\ rows \in [Keys -> [val : Versions, live : BOOLEAN]]
  /\ Partial(outbox, Ids, Row) /\ Partial(dead, Ids, Row) /\ Partial(pending, Ids, Row)
  /\ heads \in [Keys -> Versions]
  /\ nextId \in 1..(MaxIds + 1)
  /\ \A i \in DOMAIN stack : /\ stack[i].phase \in {"open", "stamping"}
                              /\ stack[i].entries \subseteq Ids
  /\ unstamped \subseteq DOMAIN outbox \cup DOMAIN dead
  /\ lost \subseteq Ids /\ cutOff \subseteq Ids
  /\ push.phase \in {"idle", "waiting", "apply", "pull"}
  /\ push.due \subseteq Unsynced
  /\ DOMAIN push.answer \subseteq Unsynced
  /\ replayed \subseteq ForeignIds /\ halfway \in Versions

-----------------------------------------------------------------------------
(* Safety.                                                                 *)

Stored == DOMAIN log \cap Ids
Held   == DOMAIN outbox \cup DOMAIN dead \cup Stored

(* The outbox keeps the promise of Delivery.  An id counts as drawn when   *)
(* its event is in the outbox.                                             *)
D == INSTANCE Delivery WITH
       drawn     <- Held,
       queued    <- Unsynced,
       confirmed <- DOMAIN outbox \ Unsynced,
       parked    <- DOMAIN dead,
       stored    <- Stored

(* Every step of the engine is a step of Delivery: an event leaves the     *)
(* outbox only confirmed or parked, and is stored once.                    *)
ImplementsDelivery == D!Spec

(* A mutation whose call succeeded is in the outbox, parked or on the      *)
(* server, or waits in a transaction that is still running; the only       *)
(* exceptions are the calls that joined a transaction too late, that       *)
(* failed, or that a crash cut off.                                        *)
MutationsDurable ==
  \A e \in 1..(nextId - 1) : e \in Held \cup DOMAIN pending \cup lost

(* One transact run is stored whole or not at all, as long as runs do not  *)
(* nest and no crash separates the members of a group.                     *)
TransactionsAtomic ==
  config.depth <= 1 /\ crashes = 0 =>
    \A f \in Stored :
      /\ \A e \in DOMAIN outbox \ Stored : outbox[e].tx # log[f].tx
      /\ \A e \in DOMAIN dead \ Stored : dead[e].tx # log[f].tx

(* A device writing alone, one edit of a row at a time, over a network and *)
(* to a server that do not fail it, is never told that it is in conflict,  *)
(* transactions with several edits of a row included.  A fault breaks it:  *)
(* while an event backs off, or after it was rejected, the next edit of    *)
(* its row is sent with a base the server has not stored.                  *)
NoSelfConflict ==
  /\ config.foreign = {} /\ crashes = 0 /\ lost = {}
  /\ config.versions => config.faults = {}
  => \A e \in DOMAIN push.answer : push.answer[e] # "conflict"

(* The version a row is kept under is the event whose content the row      *)
(* shows, once the writes under way have settled, in four cases with       *)
(* another one: a deleted row has that of an edit that came too late; a    *)
(* call that joined its transaction too late has left its own, which no    *)
(* event will ever have; a crash kept the last one from being written; and *)
(* after a conflict it is the base version of the parked event, whatever   *)
(* the row shows.  An edit and a replay of one row that overlap are left   *)
(* out: each writes the row and then the version, and the version of the   *)
(* one may come after the row of the other.                                *)
Settled(k)  == halfway = NoEvent /\ ~InHand(k)
Reverted(k) == \E e \in DOMAIN dead : dead[e].key = k /\ heads[k] = dead[e].base
VersionsFollowRows ==
  config.versions /\ (config.foreign # {} => ~config.busy) => \A k \in Keys :
    Settled(k) => \/ heads[k] = rows[k].val
                  \/ ~rows[k].live /\ heads[k] \in replayed
                  \/ heads[k] \in lost
                  \/ rows[k].val \in cutOff
                  \/ Reverted(k)

(* With everything sent, confirmed and replayed, the device and the server *)
(* agree on every row, unless the device wrote a row it had never seen and *)
(* others had: an event without a base is not checked.                     *)
Quiescent ==
  /\ pending = Empty /\ Unsynced = {} /\ dead = Empty /\ late = {}
  /\ NextForeign = {} /\ halfway = NoEvent
Unversioned == {e \in Stored \cap DOMAIN outbox : outbox[e].base = NoEvent}
Blind == \E e \in Unversioned, f \in DOMAIN log \ Ids :
           log[f].key = log[e].key /\ log[f].pos < log[e].pos
QuiescentAgreement ==
  Quiescent /\ config.faults = {} /\ (config.foreign # {} => config.versions /\ ~config.busy)
            /\ ~Blind =>
    \A k \in Keys :
      IF rows[k].live THEN \E e \in HeadOf(k) : e = rows[k].val
      ELSE \A e \in HeadOf(k) : log[e].type = "delete"

-----------------------------------------------------------------------------
(* Liveness.  An event does not stay queued for ever, unless a crash left  *)
(* a dead letter and its outbox row side by side: that row is refused      *)
(* again by every push and keeps the failures behind it from being         *)
(* recorded.                                                               *)
Doubled == DOMAIN outbox \cap DOMAIN dead # {}
Drains  == \A e \in Ids : []<>(e \notin Unsynced \/ Doubled)
=============================================================================
