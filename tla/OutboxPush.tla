----------------------------- MODULE OutboxPush -----------------------------
(***************************************************************************)
(* The outbound half of one event-sourced database: the mutation hook that *)
(* appends (or folds) outbox events, the outbox gate, the push pipeline    *)
(* with its batches, retries and dead letters, and manual compaction,      *)
(* talking to the server of EventLog over a network that may lose, delay   *)
(* or cut a request.                                                       *)
(*                                                                         *)
(* The gate runs one job at a time, so a gate job is one action here; a    *)
(* crash inside a job, between two of its separately persisted writes, is  *)
(* an action of its own.  The request itself travels outside the gate.     *)
(***************************************************************************)
EXTENDS EventLog, TxGroups, Integers, Sequences

CONSTANTS
  NumKeys,            \* rows of the one synced collection
  MaxIds,             \* bound: row changes the user makes
  MaxTxRows,          \* bound: rows one user transaction writes
  BatchSize,          \* pushBatchSize, in events
  MaxPushSize,        \* maxPushBytes, counting every event as one unit
  ServerLimit,        \* body limit of the server (HTTP 413), same unit
  MaxAttempts,        \* retry.maxAttempts
  MaxDelay,           \* retry.maxDelayMs, with baseDelayMs as the unit
  MaxCrashes,         \* bound: process crashes
  Faults,             \* subset of FaultKinds that may happen
  CompactOnWrite,     \* fold an update into the row's unsynced tail
  ManualCompact,      \* the application calls compact()
  ConflictDetection   \* stamp baseVersion and keep rowversions

FaultKinds == {"transport", "late", "transient", "reject"}

ASSUME BoundsAssumption ==
  /\ NumKeys \in Nat /\ MaxIds \in Nat /\ MaxTxRows \in Nat /\ MaxCrashes \in Nat
  /\ BatchSize \in Nat \ {0} /\ MaxPushSize \in Nat \ {0} /\ ServerLimit \in Nat
  /\ MaxAttempts \in Nat \ {0} /\ MaxDelay \in Nat
ASSUME SwitchesAssumption ==
  /\ Faults \subseteq FaultKinds
  /\ CompactOnWrite \in BOOLEAN /\ ManualCompact \in BOOLEAN
  /\ ConflictDetection \in BOOLEAN

Keys == 1..NumKeys
Ids  == 1..MaxIds

VARIABLES
  outbox,       \* eventId -> outbox row, a partial function (persisted)
  deadletter,   \* eventId -> the outbox row it was (persisted)
  local,        \* key -> [val, live]: the user's view of the row
  heads,        \* key -> rowversions head, NoEvent when there is none
  nextId,       \* the next fresh eventId
  reserved,     \* eventIds the outbox gate holds for the push in flight
  compacting,   \* keys compact() still has to visit; it holds the gate
  push,         \* the push in progress
  late,         \* requests the client gave up on that may still arrive
  crashes       \* crashes so far

vars == <<log, outbox, deadletter, local, heads, nextId, reserved,
          compacting, push, late, crashes>>

Statuses == {"pending", "synced", "failed"}
Outcomes == {"confirmed", "rejected", "conflict", "retry", "tooLarge", "unsent"}
Phases   == {"idle", "planned", "waiting", "apply", "release"}

NoOutcome == [e \in {} |-> "retry"]

(* A push with nothing in hand: none is running, or it is on its way out.  *)
Resting(ph) == [phase |-> ph, queue |-> {}, oversized |-> {}, todo |-> <<>>,
                sent |-> {}, open |-> {}, answer |-> NoOutcome, acc |-> NoOutcome]
IdlePush    == Resting("idle")

Init ==
  /\ LogInit
  /\ outbox = [e \in {} |-> NoEvent]
  /\ deadletter = [e \in {} |-> NoEvent]
  /\ local = [k \in Keys |-> [val |-> NoEvent, live |-> FALSE]]
  /\ heads = [k \in Keys |-> NoEvent]
  /\ nextId = 1
  /\ reserved = {}
  /\ compacting = {}
  /\ push = IdlePush
  /\ late = {}
  /\ crashes = 0

-----------------------------------------------------------------------------
(* Outbox rows.                                                            *)

Unsynced  == {e \in DOMAIN outbox : outbox[e].status # "synced"}
RowsOf(k) == {e \in DOMAIN outbox : outbox[e].key = k}

(* min(maxDelay, base * 2^max(0, n-1)), in units of the base delay.        *)
BackoffDelay(n) ==
  LET raw == 2 ^ (IF n >= 1 THEN n - 1 ELSE 0)
  IN  IF raw <= MaxDelay THEN raw ELSE MaxDelay

(* Mutant: a failed row is never due again.                                *)
DueUnlessFailed == {e \in Unsynced : outbox[e].status # "failed"}

(* Unsynced rows whose backoff has elapsed.  A failed row that is still in *)
(* the outbox is always retryable, so only the wait decides.               *)
Due == {e \in Unsynced : outbox[e].wait = 0}

Body(e) ==
  [eid |-> e, tx |-> outbox[e].tx, key |-> outbox[e].key,
   type |-> outbox[e].type, val |-> outbox[e].val,
   base |-> outbox[e].base, seq |-> outbox[e].seq]

Newest(ob, S) == CHOOSE e \in S : \A f \in S : ob[f].seq <= ob[e].seq
Oldest(ob, S) == CHOOSE e \in S : \A f \in S : ob[e].seq <= ob[f].seq

UnsyncedRow(tx, seq, key, type, val, base) ==
  [tx |-> tx, seq |-> seq, key |-> key, type |-> type, val |-> val,
   base |-> base, status |-> "pending", attempts |-> 0, wait |-> 0]

(* ob without the rows of gone, and with the rows of new.                  *)
Rewrite(ob, gone, new) ==
  [e \in (DOMAIN ob \ gone) \cup DOMAIN new |->
     IF e \in DOMAIN new THEN new[e] ELSE ob[e]]

One(e, row) == [f \in {e} |-> row]

-----------------------------------------------------------------------------
(* The mutation hook.                                                      *)

(* Mutant: a fold does not look at the reservations.                       *)
FoldTailIgnoringReserved(k) ==
  LET chain == RowsOf(k) \cap Unsynced
  IN  {e \in chain : \A f \in chain : outbox[f].seq >= outbox[e].seq
                        => outbox[f].type # "delete"}

(* The unsynced insert/update run at the end of the row's chain: after the *)
(* last delete and after any row reserved by a push in flight.             *)
FoldTail(k) ==
  LET chain == RowsOf(k) \cap Unsynced
  IN  {e \in chain : \A f \in chain : outbox[f].seq >= outbox[e].seq
                        => outbox[f].type # "delete" /\ f \notin reserved}

(* Mutant: the option compactOnWrite is not looked at.                     *)
FoldedAlways(type, k) == IF type = "update" THEN FoldTail(k) ELSE {}

Folded(type, k) == IF CompactOnWrite /\ type = "update" THEN FoldTail(k) ELSE {}

(* The event whose identity a fold keeps: the newest one that shares its   *)
(* txId with a row that is not being folded, else the oldest.              *)
Anchor(ob, chain) ==
  LET siblingTxs == {ob[e].tx : e \in DOMAIN ob \ chain}
      shared     == {e \in chain : ob[e].tx \in siblingTxs}
  IN  IF shared # {} THEN Newest(ob, shared) ELSE Oldest(ob, chain)

FoldedType(ob, chain) ==
  IF \E e \in chain : ob[e].type = "insert" THEN "insert" ELSE "update"

(* Mutant: the first id of a transaction is skipped.                       *)
IdAfter(ks, k) == nextId + 1 + Cardinality({j \in ks : j < k})

(* Each row change of a transaction draws a fresh id, in key order, and    *)
(* carries a payload nobody wrote before, named by that id.  The first id  *)
(* also names the transaction.                                             *)
IdOf(ks, k) == nextId + Cardinality({j \in ks : j < k})

(* Mutant: a fold takes its base from the rowversions head, as an edit     *)
(* that does not fold does.                                                *)
HeadAsBase(ob, chain) == heads[ob[Oldest(ob, chain)].key]

(* A fold is based on what its oldest event was based on.                  *)
FoldBase(ob, chain) == ob[Oldest(ob, chain)].base

(* The outbox row of one row change.                                       *)
EidFor(ks, type, k) ==
  LET chain == Folded(type, k)
  IN  IF chain # {} /\ Cardinality(ks) = 1 THEN Anchor(outbox, chain) ELSE IdOf(ks, k)

RowFor(ks, type, k) ==
  LET chain == Folded(type, k)
      id    == IdOf(ks, k)
      base  == IF ConflictDetection THEN heads[k] ELSE NoEvent
      place == outbox[Anchor(outbox, chain)]
  IN  IF chain = {}
      THEN UnsyncedRow(nextId, id, k, type, id, base)
      ELSE LET foldType == FoldedType(outbox, chain)
               foldBase == FoldBase(outbox, chain)
           IN  IF Cardinality(ks) = 1
               THEN UnsyncedRow(place.tx, place.seq, k, foldType, id, foldBase)
               ELSE UnsyncedRow(nextId, id, k, foldType, id, foldBase)

HookWrites(ks, type) ==
  LET row(e) == RowFor(ks, type, CHOOSE k \in ks : EidFor(ks, type, k) = e)
  IN  Rewrite(outbox, UNION {Folded(type, k) : k \in ks},
              [e \in {EidFor(ks, type, k) : k \in ks} |-> row(e)])

(* The versions of the rows S point at their new events.                   *)
Stamped(ks, type, S) ==
  [k \in Keys |-> IF ConflictDetection /\ k \in S THEN EidFor(ks, type, k) ELSE heads[k]]

CanMutate(ks, type) ==
  /\ ks # {} /\ Cardinality(ks) <= MaxTxRows
  /\ nextId + Cardinality(ks) <= MaxIds + 1
  /\ \A k \in ks : local[k].live = (type # "insert")

GateFree == compacting = {}

(* One user transaction over the rows ks: the hook's gate job, then the    *)
(* write of the rows themselves.                                           *)
Mutate(ks, type) ==
  /\ GateFree
  /\ CanMutate(ks, type)
  /\ outbox' = HookWrites(ks, type)
  /\ heads' = Stamped(ks, type, ks)
  /\ local' = [k \in Keys |-> IF k \in ks
                              THEN [val |-> IdOf(ks, k), live |-> type # "delete"]
                              ELSE local[k]]
  /\ nextId' = nextId + Cardinality(ks)
  /\ UNCHANGED <<log, deadletter, reserved, compacting, push, late, crashes>>

-----------------------------------------------------------------------------
(* Batches of transaction groups.                                          *)

(* The next batch: the longest run of whole groups within both caps, and   *)
(* at least one group.                                                     *)
NextBatch(groups) ==
  {g \in groups : \/ g = Head1(groups)
                  \/ LET size == Cardinality(Events(UpTo(groups, g)))
                     IN  size <= BatchSize /\ size <= MaxPushSize}

(* Mutant: the second half is sent before the first.                       *)
LastHalf(groups) ==
  {g \in groups : 2 * Cardinality(UpTo(groups, g)) > Cardinality(groups) + 1}

(* postGroups halves a refused request, the first half taking the middle.  *)
FirstHalf(groups) ==
  {g \in groups : 2 * Cardinality(UpTo(groups, g)) <= Cardinality(groups) + 1}

Override(f, g) ==
  [e \in DOMAIN f \cup DOMAIN g |-> IF e \in DOMAIN g THEN g[e] ELSE f[e]]
Same(S, outcome) == [e \in S |-> outcome]

-----------------------------------------------------------------------------
(* pushOutbox.                                                             *)

Oversized(groups) == {g \in groups : Cardinality(g) > MaxPushSize}

(* The rows a plan marks: attempted once more, and pending.                *)
Marked(S) ==
  [e \in DOMAIN outbox |->
     IF e \in S
     THEN [outbox[e] EXCEPT !.status = "pending",
                            !.attempts = outbox[e].attempts + 1,
                            !.wait = 0]
     ELSE outbox[e]]

Planned == Groups({Body(e) : e \in Due})
ToMark  == Eids(Events(Planned \ Oversized(Planned)))

(* First gate job: reserve every due row, batch them and mark all batches. *)
PlanPush ==
  /\ push.phase = "idle" /\ GateFree
  /\ Due # {}
  /\ reserved' = Due
  /\ outbox' = Marked(ToMark)
  /\ push' = [IdlePush EXCEPT !.phase = "planned",
                              !.queue = Planned \ Oversized(Planned),
                              !.oversized = Eids(Events(Oversized(Planned)))]
  /\ UNCHANGED <<log, deadletter, local, heads, nextId, compacting, late, crashes>>

(* The push with its next batch on the wire, or on its way out when there  *)
(* is none left.                                                           *)
Posting(p) ==
  IF p.queue = {} THEN Resting("release")
  ELSE LET batch == NextBatch(p.queue)
       IN  [IdlePush EXCEPT !.phase = "waiting", !.queue = p.queue \ batch,
                            !.sent = batch, !.open = batch]

(* Mutant: the dead letter is not recorded.                                *)
NotParked(S) == deadletter

(* deadLetter: insert the record if absent, delete the outbox row, and     *)
(* after a CONFLICT put the row's version head back to the event's base.   *)
Parked(S) ==
  [e \in DOMAIN deadletter \cup S |->
     IF e \in DOMAIN deadletter THEN deadletter[e] ELSE outbox[e]]

RestoredHeads(S) ==
  [k \in Keys |-> LET mine == {e \in S : outbox[e].key = k}
                  IN  IF mine = {} THEN heads[k] ELSE outbox[Newest(outbox, mine)].base]

(* Second gate job: transactions over maxPushBytes are parked.             *)
ParkOversized ==
  /\ push.phase = "planned" /\ GateFree
  /\ deadletter' = Parked(push.oversized)
  /\ outbox' = Rewrite(outbox, push.oversized, NoOutcome)
  /\ push' = Posting(push)
  /\ UNCHANGED <<log, local, heads, nextId, reserved, compacting, late, crashes>>

RequestSize == Cardinality(Events(push.sent))

(* The server takes the next group of the request on the wire.             *)
ServePush ==
  /\ push.phase = "waiting" /\ push.open # {} /\ RequestSize <= ServerLimit
  /\ LET g == Head1(push.open)
     IN  \E result \in ServerResults(g, Faults) :
           /\ log' = result.log
           /\ push' = [push EXCEPT !.open = push.open \ {g},
                                   !.answer = Override(push.answer, result.answer)]
  /\ UNCHANGED <<outbox, deadletter, local, heads, nextId, reserved, compacting,
                 late, crashes>>

(* After a request is settled: the next half of the batch, or the results. *)
Settled(p, acc) ==
  IF p.todo = <<>>
  THEN [IdlePush EXCEPT !.phase = "apply", !.queue = p.queue, !.acc = acc]
  ELSE [IdlePush EXCEPT !.phase = "waiting", !.queue = p.queue, !.acc = acc,
                        !.todo = Tail(p.todo), !.sent = Head(p.todo), !.open = Head(p.todo)]

(* The whole reply reaches the client.                                     *)
ReceiveReply ==
  /\ push.phase = "waiting" /\ push.open = {}
  /\ push' = Settled(push, Override(push.acc, push.answer))
  /\ UNCHANGED <<log, outbox, deadletter, local, heads, nextId, reserved,
                 compacting, late, crashes>>

(* HTTP 413: halve the request along transaction boundaries; a transaction *)
(* refused alone is too large.                                             *)
RefuseTooLarge ==
  /\ push.phase = "waiting" /\ push.open = push.sent /\ RequestSize > ServerLimit
  /\ push' =
       IF Cardinality(push.sent) = 1
       THEN Settled(push, Override(push.acc, Same(Eids(Events(push.sent)), "tooLarge")))
       ELSE LET half == FirstHalf(push.sent)
            IN  [push EXCEPT !.sent = half, !.open = half,
                             !.todo = <<push.sent \ half>> \o push.todo]
  /\ UNCHANGED <<log, outbox, deadletter, local, heads, nextId, reserved,
                 compacting, late, crashes>>

(* What may be left of an abandoned request: nothing, or it arrives late.  *)
Abandoned == IF "late" \in Faults /\ push.open # {} /\ RequestSize <= ServerLimit
             THEN {late, late \cup {push.open}} ELSE {late}

(* The transport throws, before, during or after the server's work: this   *)
(* request and the halves behind it are unacknowledged.                    *)
TransportError ==
  /\ "transport" \in Faults
  /\ push.phase = "waiting"
  /\ late' \in Abandoned
  /\ LET unsent == Eids(Events(push.sent))
                     \cup UNION {Eids(Events(push.todo[i])) : i \in DOMAIN push.todo}
     IN  push' = [IdlePush EXCEPT !.phase = "apply", !.queue = push.queue,
                                  !.acc = Override(push.acc, Same(unsent, "unsent"))]
  /\ UNCHANGED <<log, outbox, deadletter, local, heads, nextId, reserved,
                 compacting, crashes>>

(* An abandoned request reaches the server; nobody reads the answer.       *)
ServeLate ==
  /\ \E r \in late :
       LET g == Head1(r)
           rest == IF r = {g} THEN {} ELSE {r \ {g}}
       IN  /\ late' = (late \ {r}) \cup rest
           /\ \E result \in ServerResults(g, Faults) : log' = result.log
  /\ UNCHANGED <<outbox, deadletter, local, heads, nextId, reserved, compacting,
                 push, crashes>>

-----------------------------------------------------------------------------
(* The results of a batch, applied in one gate job: confirmations first,   *)
(* then failures, then what was too large, then what was never answered.   *)

Gone(P) == {e \in P : \/ push.acc[e] \in {"rejected", "conflict", "tooLarge"}
                     \/ /\ push.acc[e] \in {"retry", "unsent"}
                        /\ outbox[e].attempts >= MaxAttempts}

(* Mutant: every answered row is taken as confirmed.                       *)
AnsweredRow(e) ==
  IF push.acc[e] # "unsent"
  THEN [outbox[e] EXCEPT !.status = "synced", !.wait = 0]
  ELSE [outbox[e] EXCEPT !.status = "failed", !.wait = BackoffDelay(outbox[e].attempts)]

AppliedRow(e) ==
  IF push.acc[e] = "confirmed"
  THEN [outbox[e] EXCEPT !.status = "synced", !.wait = 0]
  ELSE [outbox[e] EXCEPT !.status = "failed", !.wait = BackoffDelay(outbox[e].attempts)]

(* Mutant: the outbox row of a dead letter is not deleted.                 *)
AppliedKeepingDead(P) ==
  [e \in DOMAIN outbox |-> IF e \in P THEN AppliedRow(e) ELSE outbox[e]]

(* The outbox once the outcomes of the rows P have been applied.           *)
Applied(P) ==
  [e \in DOMAIN outbox \ Gone(P) |-> IF e \in P THEN AppliedRow(e) ELSE outbox[e]]

ConflictsIn(P) == {e \in Gone(P) : push.acc[e] = "conflict"}

TransportFailed == \E e \in DOMAIN push.acc : push.acc[e] = "unsent"

(* After a transport failure the push stops; rows of batches it never sent *)
(* stay marked.                                                            *)
ApplyBatch ==
  /\ push.phase = "apply" /\ GateFree
  /\ LET P == DOMAIN push.acc \cap DOMAIN outbox
     IN  /\ outbox' = Applied(P)
         /\ deadletter' = Parked(Gone(P))
         /\ heads' = RestoredHeads(ConflictsIn(P))
  /\ push' = IF TransportFailed THEN Resting("release")
             ELSE Posting(push)
  /\ UNCHANGED <<log, local, nextId, reserved, compacting, late, crashes>>

(* The finally block.                                                      *)
ReleaseReserved ==
  /\ push.phase = "release" /\ GateFree
  /\ reserved' = {}
  /\ push' = IdlePush
  /\ UNCHANGED <<log, outbox, deadletter, local, heads, nextId, compacting, late,
                 crashes>>

(* One base delay passes.  The clock a push compares with is read when it  *)
(* starts, so time that passes during a push may be counted after it.      *)
BackoffTick ==
  /\ push.phase = "idle"
  /\ \E e \in DOMAIN outbox : outbox[e].wait > 0
  /\ outbox' = [e \in DOMAIN outbox |->
                  [outbox[e] EXCEPT !.wait = IF outbox[e].wait > 0 THEN outbox[e].wait - 1 ELSE 0]]
  /\ UNCHANGED <<log, deadletter, local, heads, nextId, reserved, compacting, push,
                 late, crashes>>

-----------------------------------------------------------------------------
(* compact(): one gate job over every row with outbox events, serialised   *)
(* with pushes.  Its visit of a row is a step of its own, and the gate is  *)
(* closed until all rows are visited.  A row's events split into lives,    *)
(* each ended by a delete.                                                 *)

IsDelete(e) == outbox[e].type = "delete"
LifeNo(k, e) == Cardinality({d \in RowsOf(k) : IsDelete(d) /\ outbox[d].seq < outbox[e].seq})
Lives(k)     == {{f \in RowsOf(k) : LifeNo(k, f) = LifeNo(k, e)} : e \in RowsOf(k)}
ClosedLives(k) == {life \in Lives(k) : \E d \in life : IsDelete(d)}
OpenLife(k)    == RowsOf(k) \ UNION ClosedLives(k)

(* From the first unsynced event of a closed life to its delete.           *)
UnsyncedSuffix(life) ==
  {e \in life : \E f \in life \cap Unsynced : outbox[f].seq <= outbox[e].seq}

Collapsible(life) ==
  LET suffix == UnsyncedSuffix(life)
  IN  suffix # {} /\ suffix \subseteq Unsynced \ reserved

(* Mutant: a life goes even when its first events are on the server.       *)
Forgotten(life) ==
  IF Collapsible(life) THEN [gone |-> UnsyncedSuffix(life), new |-> NoOutcome]
  ELSE [gone |-> {}, new |-> NoOutcome]

(* Nothing synced: the whole life goes.  Otherwise one delete, based on    *)
(* the last synced event, stands for the unsynced events.                  *)
Collapsed(life) ==
  LET suffix == UnsyncedSuffix(life)
      prefix == life \ suffix
      last   == Newest(outbox, suffix)
      row    == outbox[last]
  IN  CASE ~Collapsible(life) -> [gone |-> {}, new |-> NoOutcome]
        [] Collapsible(life) /\ prefix = {} -> [gone |-> suffix, new |-> NoOutcome]
        [] Collapsible(life) /\ prefix # {} /\ Cardinality(suffix) = 1 ->
             [gone |-> {}, new |-> NoOutcome]
        [] OTHER -> [gone |-> suffix,
                     new |-> One(last, UnsyncedRow(row.tx, row.seq, row.key, "delete", row.val,
                                                   Newest(outbox, prefix)))]

AfterClosed(k) ==
  LET gone == UNION {Collapsed(life).gone : life \in ClosedLives(k)}
      news == UNION {DOMAIN Collapsed(life).new : life \in ClosedLives(k)}
      lifeOf(e) == CHOOSE life \in ClosedLives(k) : e \in DOMAIN Collapsed(life).new
  IN  Rewrite(outbox, gone, [e \in news |-> Collapsed(lifeOf(e)).new[e]])

(* The unsynced tail of the life that is still open.                       *)
OpenTail(k) ==
  {e \in OpenLife(k) : \A f \in OpenLife(k) : outbox[f].seq >= outbox[e].seq
                          => f \in Unsynced \ reserved}

Squashed(ob, chain, k) ==
  LET place == Anchor(ob, chain)
      row   == UnsyncedRow(ob[place].tx, ob[place].seq, k, FoldedType(ob, chain),
                           ob[Newest(ob, chain)].val, FoldBase(ob, chain))
  IN  Rewrite(ob, chain, One(place, row))

CompactedOutbox(k) ==
  IF Cardinality(OpenTail(k)) > 1 THEN Squashed(AfterClosed(k), OpenTail(k), k)
  ELSE AfterClosed(k)

StartCompact ==
  /\ ManualCompact /\ GateFree /\ push.phase = "idle" /\ DOMAIN outbox # {}
  /\ compacting' = {outbox[e].key : e \in DOMAIN outbox}
  /\ UNCHANGED <<log, outbox, deadletter, local, heads, nextId, reserved, push, late,
                 crashes>>

CompactKey(k) ==
  /\ k \in compacting
  /\ outbox' = CompactedOutbox(k)
  /\ compacting' = compacting \ {k}
  /\ UNCHANGED <<log, deadletter, local, heads, nextId, reserved, push, late, crashes>>

-----------------------------------------------------------------------------
(* Crashes.  The outbox, the dead letters and the row versions are on      *)
(* disk; the push, the reservations and the gate are not.                  *)

Restart ==
  /\ crashes < MaxCrashes
  /\ crashes' = crashes + 1
  /\ push' = IdlePush
  /\ reserved' = {}
  /\ compacting' = {}
  /\ late' \in (IF push.phase = "waiting" THEN Abandoned ELSE {late})
  /\ UNCHANGED <<log, local>>

(* Between two gate jobs, or while the request is away.                    *)
Crash == Restart /\ UNCHANGED <<outbox, deadletter, heads, nextId>>

(* Between marking one row and the next.                                   *)
CrashInPlan ==
  /\ push.phase = "idle" /\ GateFree
  /\ \E e \in ToMark :
       outbox' = Marked({f \in ToMark : outbox[f].seq <= outbox[e].seq})
  /\ Restart
  /\ UNCHANGED <<deadletter, heads, nextId>>

(* Part of the outbox rewritten as in ob, the rest as it was.              *)
Partly(ob, written, rest) ==
  [e \in written \cup rest |-> IF e \in written THEN ob[e] ELSE outbox[e]]

(* The hook writes one row change after the other: it deletes the events   *)
(* it folds one by one, inserts the new one and writes the row's version.  *)
(* The rows themselves are written after all of that.  An id that was      *)
(* meant for a row it did not come to is not drawn again.                  *)
FoldedUpTo(type, k, n) == {f \in Folded(type, k) : outbox[f].seq <= n}

UpToRow(ks, k) == {{j \in ks : j < k}, {j \in ks : j <= k}}

HalfHook(ks, type, done, gone) ==
  LET ob == HookWrites(ks, type)
  IN  Partly(ob, {e \in DOMAIN ob : ob[e].key \in done},
             {e \in DOMAIN outbox : outbox[e].key \notin done} \ gone)

CrashInMutate ==
  /\ GateFree
  /\ \E ks \in SUBSET Keys, type \in MutationTypes :
       /\ CanMutate(ks, type)
       /\ nextId' = nextId + Cardinality(ks)
       /\ \E k \in ks, n \in 0..MaxIds :
          \E done, stamped \in UpToRow(ks, k) :
             /\ stamped \subseteq done
             /\ outbox' = HalfHook(ks, type, done, FoldedUpTo(type, k, n))
             /\ heads' = Stamped(ks, type, stamped)
  /\ Restart
  /\ UNCHANGED deadletter

(* compact() replaces the events of one life after those of the other:     *)
(* what it replaces is deleted one by one before the new event is          *)
(* inserted.                                                               *)
Squashable(k) == IF Cardinality(OpenTail(k)) > 1 THEN OpenTail(k) ELSE {}
Replaced(k)   == Squashable(k) \cup UNION {Collapsed(life).gone : life \in ClosedLives(k)}

CrashInCompact ==
  /\ \E k \in compacting : \E e \in Replaced(k) :
       LET visited == {f \in RowsOf(k) : outbox[f].seq <= outbox[e].seq}
           deleted == {f \in visited \cap Replaced(k) : LifeNo(k, f) = LifeNo(k, e)}
           ob      == CompactedOutbox(k)
       IN  outbox' = Partly(ob, (visited \cap DOMAIN ob) \ deleted, DOMAIN outbox \ visited)
  /\ Restart
  /\ UNCHANGED <<deadletter, heads, nextId>>

(* Part way through the results: those before some row are applied, and a  *)
(* row on its way to the dead letters may already be recorded there, while *)
(* it is still in the outbox or its version is not restored.               *)
ResultOrder == [confirmed |-> 0, rejected |-> 1, conflict |-> 1, retry |-> 1,
                tooLarge |-> 2, unsent |-> 3]

Before(e, f) ==
  \/ ResultOrder[push.acc[e]] < ResultOrder[push.acc[f]]
  \/ ResultOrder[push.acc[e]] = ResultOrder[push.acc[f]] /\ outbox[e].seq < outbox[f].seq

CrashInApply ==
  /\ push.phase = "apply" /\ GateFree
  /\ \E e \in DOMAIN push.acc \cap DOMAIN outbox :
       LET done == {f \in DOMAIN push.acc \cap DOMAIN outbox : Before(f, e)}
       IN  /\ \E gone \in {done, done \cup {e}} :
                /\ outbox' = Applied(done) \/ outbox' = Applied(gone)
                /\ deadletter' = Parked(Gone(gone))
           /\ heads' = RestoredHeads(ConflictsIn(done))
  /\ Restart
  /\ UNCHANGED nextId

Crashes == Crash \/ CrashInPlan \/ CrashInMutate \/ CrashInCompact \/ CrashInApply

-----------------------------------------------------------------------------
Edit    == \E ks \in SUBSET Keys, type \in MutationTypes : Mutate(ks, type)
Compact == StartCompact \/ \E k \in Keys : CompactKey(k)
Pushing == \/ PlanPush \/ ParkOversized \/ ApplyBatch \/ ReleaseReserved
           \/ ServePush \/ ReceiveReply \/ RefuseTooLarge

Next == \/ Edit \/ Compact \/ Pushing \/ TransportError \/ ServeLate
        \/ BackoffTick \/ Crashes

Spec == Init /\ [][Next]_vars

(* The exclusive queue is first come first served, so a sync waiting       *)
(* behind compactions gets its turn (SF); a gate job, a compaction, time   *)
(* and a server that is asked make progress; faults need not happen.       *)
Fairness ==
  /\ SF_vars(PlanPush)
  /\ WF_vars(ParkOversized \/ ApplyBatch \/ ReleaseReserved)
  /\ WF_vars(ServePush \/ ReceiveReply \/ RefuseTooLarge)
  /\ WF_vars(\E k \in Keys : CompactKey(k))
  /\ WF_vars(BackoffTick)

FairSpec == Spec /\ Fairness

-----------------------------------------------------------------------------
(* Types.                                                                  *)

Row == [tx : Ids, seq : Ids, key : Keys, type : MutationTypes, val : Ids,
        base : Ids \cup {NoEvent}, status : Statuses, attempts : Nat, wait : Nat]

Bodies == [eid : Ids, tx : Ids, key : Keys, type : MutationTypes, val : Ids,
           base : Ids \cup {NoEvent}, seq : Ids]

Stored == [tx : Ids, key : Keys, type : MutationTypes, val : Ids, pos : Nat]

Requests == SUBSET SUBSET Bodies

PartialFunction(f, S, T) == DOMAIN f \subseteq S /\ f \in [DOMAIN f -> T]

PushType(p) ==
  /\ p \in [phase : Phases, queue : Requests, oversized : SUBSET Ids,
            todo : Seq(Requests), sent : Requests, open : Requests,
            answer : {p.answer}, acc : {p.acc}]
  /\ PartialFunction(p.answer, Ids, Outcomes)
  /\ PartialFunction(p.acc, Ids, Outcomes)

(* Every variable has its type.                                            *)
TypeOK ==
  /\ PartialFunction(log, Ids, Stored)
  /\ PartialFunction(outbox, Ids, Row)
  /\ PartialFunction(deadletter, Ids, Row)
  /\ local \in [Keys -> [val : Ids \cup {NoEvent}, live : BOOLEAN]]
  /\ heads \in [Keys -> Ids \cup {NoEvent}]
  /\ nextId \in Nat /\ nextId >= 1 /\ nextId <= MaxIds + 1
  /\ reserved \subseteq Ids
  /\ compacting \subseteq Keys
  /\ PushType(push)
  /\ late \subseteq Requests
  /\ crashes \in Nat

-----------------------------------------------------------------------------
(* Safety.                                                                 *)

(* The groups posted or to be posted for the batch at hand.                *)
Posted   == push.sent \cup UNION {push.todo[i] : i \in DOMAIN push.todo}
InFlight == Events(push.queue \cup Posted)

(* While a push runs, the rows it took stay where they are: whatever the   *)
(* user edits meanwhile, each is still in the outbox, reserved, unsynced   *)
(* and with the body that was sent, so the reply is applied to what it     *)
(* answers (outbox-gate.ts, foldableTail).                                 *)
InFlightStable ==
  \A b \in InFlight : /\ b.eid \in reserved \cap Unsynced
                     /\ b = Body(b.eid)

(* A row is marked synced only if the server holds its event.              *)
SyncedIsStored == \A e \in DOMAIN outbox \ Unsynced : e \in DOMAIN log

(* A synced row and the server's event agree on the payload, so no edit    *)
(* is believed safe that the server never received.                        *)
SyncedPayloadIsStored ==
  \A e \in DOMAIN outbox \ Unsynced :
     e \in DOMAIN log /\ log[e].val = outbox[e].val /\ log[e].type = outbox[e].type

(* The server never holds one half of a transaction whose other half is    *)
(* waiting on the device or was given up.                                  *)
TransactionsAtomic ==
  \A f \in DOMAIN log :
     /\ \A e \in DOMAIN outbox \ DOMAIN log : outbox[e].tx # log[f].tx
     /\ \A e \in DOMAIN deadletter \ DOMAIN log : deadletter[e].tx # log[f].tx

(* The server receives the edits of one row in the order the user made     *)
(* them: the outbox is processed in order.                                 *)
RowOrder ==
  \A e, f \in DOMAIN log :
     log[e].key = log[f].key /\ log[e].val < log[f].val => log[e].pos < log[f].pos

Quiescent == Unsynced = {} /\ deadletter = [e \in {} |-> NoEvent] /\ late = {}

(* With nothing queued, parked or under way, every row on the server is    *)
(* what the user sees: the last edit, or no row after a delete.            *)
QuiescentAgreement ==
  Quiescent => \A k \in Keys :
    IF local[k].live
    THEN \E e \in HeadOf(k) : log[e].type # "delete" /\ log[e].val = local[k].val
    ELSE \A e \in HeadOf(k) : log[e].type = "delete"

(* The last edit of every live row is somewhere it will survive a restart: *)
(* queued on the device, parked where the user can see it, or stored.      *)
NoEditForgotten ==
  \A k \in Keys : local[k].live =>
     \/ \E e \in DOMAIN outbox     : outbox[e].val = local[k].val
     \/ \E e \in DOMAIN deadletter : deadletter[e].val = local[k].val
     \/ \E e \in DOMAIN log        : log[e].val = local[k].val

(* A parked event leaves the queue for good: no request carries it.        *)
ParkedIsNotSent == \A b \in InFlight : b.eid \notin DOMAIN deadletter

(* A parked event is one the server does not have.                         *)
ParkedIsNotStored == DOMAIN deadletter \cap DOMAIN log = {}

(* The outbox keeps the promise of Delivery: queued are its unsynced rows, *)
(* confirmed the synced ones.                                              *)
D == INSTANCE Delivery WITH
       drawn     <- 1..(nextId - 1),
       queued    <- Unsynced,
       confirmed <- DOMAIN outbox \ Unsynced,
       parked    <- DOMAIN deadletter,
       stored    <- DOMAIN log

(* Every step of the outbox is a step of Delivery: an event leaves the     *)
(* queue only confirmed, parked or replaced, and is stored once.           *)
ImplementsDelivery == D!Spec

(* One device writing alone never loses a conflict check to itself.        *)
NoSelfConflict ==
  \A e \in DOMAIN push.acc : push.acc[e] # "conflict"

-----------------------------------------------------------------------------
(* What makes the properties above inductive.                              *)

IdsDrawn      == /\ \A e \in DOMAIN outbox \cup reserved : e < nextId
                 /\ \A e \in DOMAIN outbox : outbox[e].seq = e
WholeGroups   == /\ {} \notin push.queue \cup Posted
                 /\ \A r \in late : r # {} /\ {} \notin r
OversizedHeld == push.oversized \subseteq reserved \cap DOMAIN outbox
AnswersSent   == /\ push.open \subseteq push.sent
                 /\ DOMAIN push.answer \subseteq Eids(Events(push.sent \ push.open))
GroupsApart   == \A g, h \in push.queue : g # h => Eids(g) \cap Eids(h) = {}
QueueApart    == /\ Eids(Events(push.queue)) \cap Eids(Events(Posted)) = {}
                 /\ Eids(Events(push.queue)) \cap (DOMAIN push.acc \cup push.oversized) = {}
ConfirmedIsStored ==
  /\ \A e \in DOMAIN push.answer : push.answer[e] = "confirmed" => e \in DOMAIN log
  /\ \A e \in DOMAIN push.acc : push.acc[e] = "confirmed" => e \in DOMAIN log

Inv == /\ TypeOK /\ IdsDrawn /\ WholeGroups /\ OversizedHeld /\ AnswersSent /\ GroupsApart
       /\ QueueApart /\ ConfirmedIsStored /\ SyncedIsStored /\ InFlightStable

-----------------------------------------------------------------------------
(* Liveness: no event stays queued for ever.  It is confirmed, parked or   *)
(* replaced by a fold, however often the transport and the server fail.    *)
Drains == \A e \in Ids : []<>(e \notin Unsynced)
=============================================================================
