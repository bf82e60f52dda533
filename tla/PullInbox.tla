----------------------------- MODULE PullInbox -----------------------------
(***************************************************************************)
(* The inbound half of one event-sourced database: a sync uploads the      *)
(* outbox, pulls the server's log a page at a time from the saved cursor,  *)
(* records each foreign event in the inbox, replays it into the rows and   *)
(* moves the cursor; a server whose identity changed makes it start over.  *)
(* Events are also written by other devices, the server may be wiped or    *)
(* restored from a backup, and the process may crash between two writes.   *)
(*                                                                         *)
(* Sync, prune and the startup replay exclude each other (runExclusive);   *)
(* the user's edits do not wait for them.                                  *)
(***************************************************************************)
EXTENDS EventLog, Integers, Sequences

CONSTANTS
  NumKeys,      \* rows of the synced collections
  UnknownKeys,  \* rows of collections this build does not know
  MaxEvents,    \* bound: events written by all devices together
  PageSize,     \* PULL_LIMIT of the server
  MaxAttempts,  \* retry.maxAttempts, spent by failing replays
  MaxCrashes,   \* bound: process crashes
  MaxSwaps,     \* bound: times the server is wiped or restored
  Configs,      \* the configurations the database may be opened with
  ReplayFaults, \* a replay may throw
  SwiftEdits,   \* an edit may hit a replayed row before its inbox mark
  TornReset     \* a crash may hit between the two writes ending a reset

Keys == 1..NumKeys
Ids  == 1..MaxEvents

ConfigType == [mismatch : {"resetCursor", "fail", "ignore"},
               unknown : {"skip", "fail"}, echoes : BOOLEAN,
               overlap : Nat, prune : BOOLEAN]

ASSUME PullAssumption ==
  /\ NumKeys \in Nat /\ MaxEvents \in Nat /\ UnknownKeys \subseteq Keys
  /\ PageSize \in Nat \ {0} /\ MaxAttempts \in Nat \ {0}
  /\ MaxCrashes \in Nat /\ MaxSwaps \in Nat
  /\ Configs \subseteq ConfigType
  /\ ReplayFaults \in BOOLEAN /\ SwiftEdits \in BOOLEAN /\ TornReset \in BOOLEAN

VARIABLES
  config,       \* how the database was opened
  backend,      \* identity of the server's store
  mine,         \* eventIds that carry this device's clientId
  rows,         \* key -> the event whose content the row shows
  outbox,       \* eventId -> [key, synced] (persisted)
  inbox,        \* eventId -> [key, pos, sync, attempts] (persisted)
  dead,         \* inbound dead letters (persisted)
  cursor,       \* syncmeta.pullCursor (persisted)
  backendSeen,  \* syncmeta.backendId, 0 for null (persisted)
  settled,      \* history: foreign events ever resolved
  nextId,       \* the next fresh eventId
  sync,         \* the sync in progress
  crashes,      \* crashes so far
  swaps         \* server replacements so far

vars == <<log, config, backend, mine, rows, outbox, inbox, dead, cursor,
          backendSeen, settled, nextId, sync, crashes, swaps>>

device == <<rows, outbox, inbox, dead, cursor, backendSeen, settled>>
outside == <<log, config, backend, mine, nextId, crashes, swaps>>

Phases == {"idle", "push", "ask", "page", "repush", "load", "pending"}

(* The locals of a sync: work is what is left of the page or of the        *)
(* pending inbox rows, applied the event written to its row and not yet    *)
(* marked, top the sequence number the page ends at.                       *)
Idle == [phase |-> "idle", manual |-> FALSE, booting |-> FALSE, since |-> 0,
         unchecked |-> TRUE, requeued |-> FALSE, work |-> <<>>,
         applied |-> NoEvent, top |-> 0, more |-> FALSE]

Init ==
  /\ LogInit
  /\ config \in Configs
  /\ backend = 1 /\ backendSeen = 0
  /\ mine = {} /\ settled = {} /\ dead = {}
  /\ rows = [k \in Keys |-> NoEvent]
  /\ outbox = [e \in {} |-> NoEvent]
  /\ inbox = [e \in {} |-> NoEvent]
  /\ cursor = 0 /\ nextId = 1 /\ crashes = 0 /\ swaps = 0
  /\ sync = Idle

-----------------------------------------------------------------------------
(* Helpers.                                                                *)

Greatest(S) == CHOOSE n \in S : \A m \in S : m <= n

Resolved == {e \in DOMAIN inbox : inbox[e].sync}
Pending  == DOMAIN inbox \ Resolved

(* Mutant: an inbox row counts before it is resolved.                      *)
CursorWithPending == Greatest({cursor} \cup {inbox[e].pos : e \in DOMAIN inbox})

(* The saved cursor, or the newest resolved inbox row if that is further.  *)
EffectiveCursor == Greatest({cursor} \cup {inbox[e].pos : e \in Resolved})

(* Mutant: the overlap may rewind past the start.                          *)
SinceUnclamped == EffectiveCursor - config.overlap

Since == Greatest({0, EffectiveCursor - config.overlap})

(* The members of S in pos order.                                          *)
InOrder(S, posOf(_)) ==
  CHOOSE q \in [1..Cardinality(S) -> S] :
    \A i, j \in 1..Cardinality(S) :
       i < j => q[i] # q[j] /\ posOf(q[i]) <= posOf(q[j])

(* The server's answer: at most PageSize events after the cursor.          *)
After(since) ==
  LET PosOf(e) == log[e].pos
      all == InOrder({e \in DOMAIN log : log[e].pos > since}, PosOf)
  IN  SubSeq(all, 1, Greatest({n \in 0..PageSize : n <= Len(all)}))

Event(e) == [eid |-> e, key |-> log[e].key, pos |-> log[e].pos]
Page     == LET q == After(sync.since) IN [i \in 1..Len(q) |-> Event(q[i])]

(* Unresolved inbox rows in globalSeq order.                               *)
PendingWork ==
  LET PosOf(e) == inbox[e].pos
      q == InOrder(Pending, PosOf)
  IN  [i \in 1..Len(q) |-> [eid |-> q[i], key |-> inbox[q[i]].key, pos |-> inbox[q[i]].pos]]

Put(f, e, row) == [x \in DOMAIN f \cup {e} |-> IF x = e THEN row ELSE f[x]]
Drop(f, S)     == [x \in DOMAIN f \ S |-> f[x]]

-----------------------------------------------------------------------------
(* Edits, here and elsewhere.  Two devices never edit one row at the same  *)
(* time: each edits what the server's newest event of the row shows, or    *)
(* its own last word on it.                                                *)

Body(e, k) == [eid |-> e, tx |-> e, key |-> k, type |-> "update", val |-> e,
               base |-> NoEvent, seq |-> e]

ShowsNewest(k) ==
  \/ {rows[k]} = HeadOf(k)
  \/ HeadOf(k) = {} /\ rows[k] = NoEvent
  \/ rows[k] \in mine \ DOMAIN log
  \/ rows[k] \in mine /\ HeadOf(k) \subseteq mine

BetweenWrites(k) == \E e \in Pending : inbox[e].key = k

Edit(k) ==
  /\ nextId \in Ids
  /\ ~sync.booting
  /\ k \notin UnknownKeys
  /\ ShowsNewest(k)
  /\ SwiftEdits \/ ~BetweenWrites(k)
  /\ rows' = [rows EXCEPT ![k] = nextId]
  /\ outbox' = Put(outbox, nextId, [key |-> k, synced |-> FALSE])
  /\ mine' = mine \cup {nextId}
  /\ nextId' = nextId + 1
  /\ UNCHANGED <<log, config, backend, inbox, dead, cursor, backendSeen, settled,
                 sync, crashes, swaps>>

Foreign(k) ==
  /\ nextId \in Ids
  /\ \A e \in DOMAIN outbox : outbox[e].key = k => e \in DOMAIN log
  /\ log' = Appended({Body(nextId, k)})
  /\ nextId' = nextId + 1
  /\ UNCHANGED <<config, backend, mine, device, sync, crashes, swaps>>

(* The store is wiped (size 0) or restored from a backup, under a new      *)
(* identity.  A client that never pulled could not tell.                   *)
SwapBackend(size) ==
  /\ swaps < MaxSwaps
  /\ backendSeen # 0
  /\ log' = [e \in {f \in DOMAIN log : log[f].pos <= size} |-> log[e]]
  /\ backend' = backend + 1
  /\ swaps' = swaps + 1
  /\ UNCHANGED <<config, mine, device, nextId, sync, crashes>>

-----------------------------------------------------------------------------
(* The sync cycle.                                                         *)

StartSync(manual) ==
  /\ sync.phase = "idle"
  /\ sync' = [Idle EXCEPT !.phase = "push", !.manual = manual]
  /\ UNCHANGED <<device, outside>>

(* manualSync with automatic sync off only replays.                        *)
StartReplay ==
  /\ sync.phase = "idle"
  /\ sync' = [Idle EXCEPT !.phase = "load"]
  /\ UNCHANGED <<device, outside>>

(* What follows the pull: the second push if the reset requeued anything,  *)
(* then the inbox replay of a manual sync, or nothing.                     *)
AfterPush == IF sync.manual THEN [Idle EXCEPT !.phase = "load"] ELSE Idle
AfterPull(requeued) ==
  IF requeued THEN [sync EXCEPT !.phase = "repush", !.work = <<>>] ELSE AfterPush

Unsent == {e \in DOMAIN outbox : ~outbox[e].synced}

(* The push, reduced to what it leaves: the server stores some unsent      *)
(* events, and the replies confirm some of those.  Which ones depends on   *)
(* what each row's own backoff lets through (dueOutboxEntries) and on the  *)
(* answers, so a later edit of a row may be stored before an earlier one.  *)
Upload ==
  /\ sync.phase \in {"push", "repush"}
  /\ \E stored \in SUBSET Unsent : \E confirmed \in SUBSET stored :
       /\ log' = Appended({Body(e, outbox[e].key) : e \in stored})
       /\ outbox' = [e \in DOMAIN outbox |->
                       [outbox[e] EXCEPT !.synced = @ \/ e \in confirmed]]
  /\ sync' = IF sync.phase = "push" THEN [sync EXCEPT !.phase = "ask", !.since = Since]
             ELSE AfterPush
  /\ UNCHANGED <<config, backend, mine, rows, inbox, dead, cursor, backendSeen,
                 settled, nextId, crashes, swaps>>

-----------------------------------------------------------------------------
(* One page: the request, and what its backendId says.                     *)

Mismatch == sync.unchecked /\ backendSeen \notin {0, backend}

(* A page of the same store, of the first one, or of another one that the  *)
(* configuration ignores.                                                  *)
FetchPage ==
  /\ sync.phase = "ask"
  /\ Mismatch => config.mismatch = "ignore"
  /\ backendSeen' = IF backendSeen = 0 THEN backend ELSE backendSeen
  /\ sync' = IF Page = <<>> THEN AfterPull(sync.requeued)
             ELSE [sync EXCEPT !.phase = "page", !.unchecked = FALSE, !.work = Page,
                     !.top = Page[Len(Page)].pos, !.more = Len(Page) = PageSize]
  /\ UNCHANGED <<rows, outbox, inbox, dead, cursor, settled, outside>>

(* Mutant: the confirmed events are not offered again.                     *)
NothingRequeued == outbox

Requeued == [e \in DOMAIN outbox |-> [outbox[e] EXCEPT !.synced = FALSE]]

(* Mutant: the reset leaves the cursor where it was.                       *)
CursorKept == cursor

CursorAfterReset == 0

Resetting == sync.phase = "ask" /\ Mismatch /\ config.mismatch = "resetCursor"

(* Another store: forget the inbox, offer every confirmed event again,     *)
(* remember the new identity and pull from the start.                      *)
ResetCursor ==
  /\ Resetting
  /\ inbox' = Drop(inbox, DOMAIN inbox)
  /\ outbox' = Requeued
  /\ backendSeen' = backend
  /\ cursor' = CursorAfterReset
  /\ sync' = [sync EXCEPT !.unchecked = FALSE, !.since = 0,
                         !.requeued = Unsent # DOMAIN outbox]
  /\ UNCHANGED <<rows, dead, settled, outside>>

(* BackendMismatchError, or a request that fails: the pull throws, and     *)
(* with it goes the count of requeued events.                              *)
PullFails ==
  /\ sync.phase = "ask"
  /\ sync' = AfterPull(FALSE)
  /\ UNCHANGED <<device, outside>>

-----------------------------------------------------------------------------
(* One event of the page, or one pending row of the inbox.                 *)

Item     == Head(sync.work)
NextItem == [sync EXCEPT !.work = Tail(@), !.applied = NoEvent]

AtItem == sync.phase \in {"page", "pending"} /\ sync.work # <<>> /\ sync.applied = NoEvent

(* Mutant: only the outbox tells what this device wrote.                   *)
InOutbox(e) == e \in DOMAIN outbox

IsLocalOrigin(e) == e \in DOMAIN outbox \/ e \in mine

Attempts == IF Item.eid \in DOMAIN inbox THEN inbox[Item.eid].attempts ELSE 0

(* The inbox row of the event at hand becomes resolved, or is left pending *)
(* after n failed attempts.                                                *)
Mark(resolved, n) ==
  inbox' = Put(inbox, Item.eid,
               [key |-> Item.key, pos |-> Item.pos, sync |-> resolved, attempts |-> n])

Settle == settled' = settled \cup {Item.eid}

SkipOwn ==
  /\ AtItem /\ sync.phase = "page" /\ IsLocalOrigin(Item.eid)
  /\ IF config.echoes THEN Mark(TRUE, Attempts) ELSE UNCHANGED inbox
  /\ sync' = NextItem
  /\ UNCHANGED <<rows, outbox, dead, cursor, backendSeen, settled, outside>>

SkipResolved ==
  /\ AtItem /\ sync.phase = "page" /\ ~IsLocalOrigin(Item.eid)
  /\ Item.eid \in Resolved
  /\ sync' = NextItem
  /\ UNCHANGED <<device, outside>>

(* Whatever is pending is replayed; of a page, what is foreign and was not *)
(* resolved before.                                                        *)
ToReplay ==
  /\ AtItem
  /\ sync.phase = "page" => ~IsLocalOrigin(Item.eid) /\ Item.eid \notin Resolved

Unknown == Item.key \in UnknownKeys

(* The replay stops at an event it leaves unresolved; the cursor stays.    *)
Halt == sync' = IF sync.phase = "page" THEN AfterPull(sync.requeued) ELSE Idle

HaltAtUnknown ==
  /\ ToReplay /\ Unknown /\ config.unknown = "fail"
  /\ Mark(FALSE, Attempts)
  /\ Halt
  /\ UNCHANGED <<rows, outbox, dead, cursor, backendSeen, settled, outside>>

SkipUnknown ==
  /\ ToReplay /\ Unknown /\ config.unknown = "skip"
  /\ Mark(TRUE, Attempts) /\ Settle
  /\ sync' = NextItem
  /\ UNCHANGED <<rows, outbox, dead, cursor, backendSeen, outside>>

(* The inbox row is inserted, then the row is written ...                  *)
Apply ==
  /\ ToReplay /\ ~Unknown
  /\ Mark(FALSE, Attempts)
  /\ rows' = [rows EXCEPT ![Item.key] = Item.eid]
  /\ sync' = [sync EXCEPT !.applied = Item.eid]
  /\ UNCHANGED <<outbox, dead, cursor, backendSeen, settled, outside>>

(* ... and then the inbox row is marked.                                   *)
Resolve ==
  /\ sync.applied # NoEvent
  /\ Mark(TRUE, Attempts) /\ Settle
  /\ sync' = NextItem
  /\ UNCHANGED <<rows, outbox, dead, cursor, backendSeen, outside>>

ReplayThrows == ReplayFaults /\ ToReplay /\ ~Unknown

FailAndRetry ==
  /\ ReplayThrows
  /\ Attempts + 1 < MaxAttempts
  /\ Mark(FALSE, Attempts + 1)
  /\ Halt
  /\ UNCHANGED <<rows, outbox, dead, cursor, backendSeen, settled, outside>>

(* Out of attempts: the event is parked and its inbox row resolved.        *)
FailAndPark ==
  /\ ReplayThrows
  /\ Attempts + 1 >= MaxAttempts
  /\ dead' = dead \cup {Item.eid}
  /\ Mark(TRUE, Attempts + 1) /\ Settle
  /\ sync' = NextItem
  /\ UNCHANGED <<rows, outbox, cursor, backendSeen, outside>>

(* Nothing of the page is left: the cursor moves to its end.               *)
FinishPage ==
  /\ sync.phase = "page" /\ sync.work = <<>>
  /\ cursor' = sync.top
  /\ sync' = IF sync.more THEN [sync EXCEPT !.phase = "ask", !.since = sync.top]
             ELSE AfterPull(sync.requeued)
  /\ UNCHANGED <<rows, outbox, inbox, dead, backendSeen, settled, outside>>

(* replayInbox reads its rows once, when it begins.                        *)
LoadPending ==
  /\ sync.phase = "load"
  /\ sync' = [sync EXCEPT !.phase = "pending", !.work = PendingWork]
  /\ UNCHANGED <<device, outside>>

FinishReplay ==
  /\ sync.phase = "pending" /\ sync.work = <<>>
  /\ sync' = Idle
  /\ UNCHANGED <<device, outside>>

-----------------------------------------------------------------------------
(* Pruning: the cursor is saved first, then synced rows go, oldest first;  *)
(* keepLast and olderThanMs decide how many, a crash may cut it short.     *)
Prune(newestOut, newestIn) ==
  /\ config.prune /\ sync.phase = "idle"
  /\ cursor' = EffectiveCursor
  /\ outbox' = Drop(outbox, {e \in DOMAIN outbox \ Unsent : e <= newestOut})
  /\ inbox' = Drop(inbox, {e \in Resolved : inbox[e].pos <= newestIn})
  /\ UNCHANGED <<rows, dead, backendSeen, settled, sync, outside>>

-----------------------------------------------------------------------------
(* Crashes.  The next start replays the pending inbox rows before the user *)
(* can touch the database.                                                 *)

Restart ==
  /\ crashes < MaxCrashes
  /\ crashes' = crashes + 1
  /\ sync' = [Idle EXCEPT !.phase = "load", !.booting = TRUE]
  /\ UNCHANGED <<log, config, backend, mine, nextId, swaps>>

Crash == Restart /\ UNCHANGED device

(* The inbox row is written and its event is not.                          *)
CrashBeforeApply ==
  /\ ToReplay /\ ~Unknown
  /\ Restart
  /\ Mark(FALSE, Attempts)
  /\ UNCHANGED <<rows, outbox, dead, cursor, backendSeen, settled>>

(* The last attempt is counted, the dead letter written or not, and the    *)
(* inbox row is still pending.                                             *)
CrashInPark ==
  /\ ReplayThrows /\ Attempts + 1 >= MaxAttempts
  /\ Restart
  /\ dead' \in {dead, dead \cup {Item.eid}}
  /\ Mark(FALSE, Attempts + 1)
  /\ UNCHANGED <<rows, outbox, cursor, backendSeen, settled>>

(* Some of the inbox is gone, or all of it and some rows are offered       *)
(* again; the old identity is still in place, so the next pull resets too. *)
CrashInReset ==
  /\ Resetting
  /\ Restart
  /\ \E gone \in SUBSET DOMAIN inbox, again \in SUBSET DOMAIN outbox :
       /\ again # {} => gone = DOMAIN inbox
       /\ inbox' = Drop(inbox, gone)
       /\ outbox' = [e \in DOMAIN outbox |->
                       [outbox[e] EXCEPT !.synced = @ /\ e \notin again]]
  /\ UNCHANGED <<rows, dead, cursor, backendSeen, settled>>

(* The new identity is written and the cursor is not.                      *)
CrashAfterIdentity ==
  /\ TornReset
  /\ Resetting
  /\ Restart
  /\ inbox' = Drop(inbox, DOMAIN inbox)
  /\ outbox' = Requeued
  /\ backendSeen' = backend
  /\ UNCHANGED <<rows, dead, cursor, settled>>

-----------------------------------------------------------------------------
Others    == \E k \in Keys : Edit(k) \/ Foreign(k)
Replacing == \E size \in 0..MaxEvents : SwapBackend(size)
Starting  == StartReplay \/ \E manual \in BOOLEAN : StartSync(manual)
Pulling   == FetchPage \/ ResetCursor
Skipping  == SkipOwn \/ SkipResolved \/ SkipUnknown \/ HaltAtUnknown
Failing   == FailAndRetry \/ FailAndPark
Finishing == FinishPage \/ LoadPending \/ FinishReplay
Replaying == Skipping \/ Apply \/ Resolve \/ Failing \/ Finishing
Pruning   == \E o, i \in 0..MaxEvents : Prune(o, i)
Crashing  == \/ Crash \/ CrashBeforeApply \/ CrashInPark \/ CrashInReset
             \/ CrashAfterIdentity

Next == \/ Others \/ Replacing \/ Starting \/ Upload \/ Pulling \/ PullFails
        \/ Replaying \/ Pruning \/ Crashing

Spec == Init /\ [][Next]_vars

(* The application syncs again and again, every step of a sync ends, and   *)
(* not every request fails.                                                *)
Fairness ==
  /\ SF_vars(\E manual \in BOOLEAN : StartSync(manual))
  /\ SF_vars(Pulling)
  /\ WF_vars(Upload \/ Replaying)

FairSpec == Spec /\ Fairness

-----------------------------------------------------------------------------
(* Types.                                                                  *)

Items == [eid : Ids, key : Keys, pos : Ids]

(* Every variable has its type.                                            *)
TypeOK ==
  /\ config \in ConfigType
  /\ backend \in Nat /\ backendSeen \in 0..backend
  /\ mine \subseteq Ids /\ settled \subseteq Ids /\ dead \subseteq Ids
  /\ DOMAIN outbox \subseteq mine
  /\ rows \in [Keys -> Ids \cup {NoEvent}]
  /\ \A e \in DOMAIN outbox : outbox[e] \in [key : Keys, synced : BOOLEAN]
  /\ DOMAIN inbox \subseteq Ids
  /\ \A e \in DOMAIN inbox :
       inbox[e] \in [key : Keys, pos : Ids, sync : BOOLEAN, attempts : Nat]
  /\ cursor \in 0..MaxEvents
  /\ nextId \in 1..MaxEvents + 1
  /\ sync \in [phase : Phases, manual : BOOLEAN, booting : BOOLEAN, since : Nat,
               unchecked : BOOLEAN, requeued : BOOLEAN, work : Seq(Items),
               applied : Ids \cup {NoEvent}, top : 0..MaxEvents, more : BOOLEAN]

-----------------------------------------------------------------------------
(* Safety.                                                                 *)

SameStore == backendSeen = backend

(* The cursor steps over no foreign event: whatever it has passed was      *)
(* applied, skipped or parked, or waits in the inbox (pull.ts stops a page *)
(* at an event it could not resolve; a reset pulls from zero).             *)
NoEventMissed ==
  SameStore =>
    \A e \in DOMAIN log \ mine :
       log[e].pos <= EffectiveCursor => e \in settled \cup DOMAIN inbox

(* A confirmed row of the outbox is held by the store this device talks    *)
(* to: after a reset, what the new store lacks is offered again.           *)
SyncedIsHeld == SameStore => DOMAIN outbox \ Unsent \subseteq DOMAIN log

CaughtUp ==
  /\ sync.phase = "idle" /\ SameStore
  /\ Unsent = {} /\ Pending = {} /\ dead = {}
  /\ \A e \in DOMAIN log : log[e].pos <= EffectiveCursor

(* The server's newest event of the row is this device's, the row shows a  *)
(* later edit of its own, and the server stored that one first.            *)
Overtaken(k) ==
  /\ rows[k] \in mine \cap DOMAIN log /\ log[rows[k]].key = k
  /\ \E e \in HeadOf(k) \cap mine : e < rows[k]

(* A device with nothing left to send, pull or replay shows the server's   *)
(* newest event of every row it knows; all that may come between the two   *)
(* is the backoff of one of its own events, and then the row shows the     *)
(* later edit.                                                             *)
Converges ==
  CaughtUp => \A k \in Keys \ UnknownKeys :
                 \/ HeadOf(k) = IF rows[k] = NoEvent THEN {} ELSE {rows[k]}
                 \/ Overtaken(k)

(* The same for a device whose server was never replaced.                  *)
ConvergesOnOneStore == swaps = 0 => Converges

-----------------------------------------------------------------------------
(* Configurations that may stop for good: at a changed server, at an       *)
(* unknown event, or, while every other request fails, because each pull   *)
(* rewinds as far as its first page went.                                  *)
Stuck == \/ config.mismatch # "resetCursor"
         \/ config.unknown = "fail" /\ UnknownKeys # {}
         \/ config.overlap >= PageSize

(* Liveness: what other devices wrote is applied, skipped or parked in the *)
(* end, and no event that cannot be replayed holds up the ones behind it.  *)
Delivered ==
  []<>(Stuck \/ DOMAIN log \ mine \subseteq settled)
=============================================================================
