# locally-first: a TLA+ model of the event-sourced sync protocol

`packages/event-sourced-collection` gives an application collections that live
in a local SQLite database.  Every edit is also recorded as an event in an
*outbox*; a *push* sends the outbox to a server that appends events to one
global log; a *pull* copies other devices' events into an *inbox* and replays
them into the rows.  The promise is that an edit, once made, is not lost, that
it reaches the server once, and that devices end up showing the same rows
although requests are lost, retried or answered late, and although the process
may die between any two writes.

These modules model that protocol, TLC checks it on small instances, and TLAPS
proves part of it for every instance.  All paths below are relative to `src/`;
`collection/` stands for `packages/event-sourced-collection/src/`, `drizzle/`
for `packages/event-sourced-drizzle/src/`, a second client of the same protocol
over SQL transactions, and `postgres/` for
`packages/event-sourced-collection/examples/postgres-sync-server/`, the
reference server that comes with them.

## 1. Inventory

| component | state it keeps | operations | correct when |
|---|---|---|---|
| mutation hook (`collection/core/event-sourced-db/mutation-hook.ts`) | the outbox row of each edit, the rowversions head | run inside each user transaction: append an event, or fold it into the row's unsynced tail | no edit is left out of the outbox; a fold never touches what left the device |
| compaction (`collection/internal/compact-outbox.ts`) | – | `compact()`: drop closed lives, squash the open tail | the server ends up with the same rows |
| outbox gate (`collection/internal/outbox-gate.ts`, `serial-queue.ts`) | the ids reserved by the push in flight | run one job at a time, reserve, release | a job sees no half of another; reserved rows do not change |
| push (`collection/internal/push.ts`, `collection-queries.ts`) | status, attempt count and next attempt of each outbox row; dead letters | group by transaction, batch, send, halve on 413, apply answers, retry with backoff, park | each event is confirmed, retried or parked by its own outcome; transactions stay whole; every event ends |
| sync server (`apps/example/src/server/sync/remote.ts`) | the event log, a backend identity | append a group idempotently, refuse conflicts, roll back, read a page | an event is stored once, a transaction entirely or not at all |
| pull and inbox (`collection/internal/pull.ts`, `sync-meta.ts`) | inbox rows, `pullCursor`, `backendId` | read pages from the cursor, skip own events, move the cursor, reset on a new identity | no foreign event is stepped over |
| replay (`collection/internal/replay.ts`) | rows, rowversions, inbox marks, inbound dead letters | apply, skip, fail, halt, park | an event is applied once, in order, or visibly given up |
| sync cycle (`collection/core/event-sourced-db/sync-cycle.ts`) | in-flight flag, cross-tab lock, status | push, pull, push again after a reset, replay | cycles exclude each other and always end |
| start-up (`collection/core/create-event-sourced-db.ts`) | – | open, remove leftovers, replay the pending inbox | a crash anywhere before is recovered |
| maintenance (`maintenance.ts`, `dead-letter.ts`) | – | prune, retry or discard dead letters, reset the replica | nothing unsynced is lost |
| sync batch hold (`sync-batch.ts`) | – | decide whether an automatic push waits | a push is not held for ever |
| cross-tab lock (`collection/platforms/web-locks.ts`) | who holds it | take if free, else defer; release | at most one sync or reset at a time, and none is deferred for ever |
| handle, lazy singleton, `useEnsureDb` (`collection/core/create-event-sourced-db-handle.ts`, `lazy-singleton.ts`, `collection/react/use-ensure-db.ts`) | the instance, the opening under way, the platform | ensure, reset, close; an effect per mounted hook | one database at a time, open when handed out, none leaked, every hook settles |
| drizzle mutations (`drizzle/core/create-event-sourced-drizzle.ts`, `transaction.ts`) | domain tables, outbox, rowversions, the stack of ambient transactions | insert, update, delete, nested `transact()` | no mutation that succeeded is lost; runs stay whole; versions follow rows |
| drizzle push (`drizzle/internal/push.ts`) | attempts and waits of outbox rows, dead letters | batch, send, confirm, back off, park | every event is confirmed or parked, and the push ends |
| drizzle pull and replay (`drizzle/internal/pull.ts`, `replay.ts`) | inbox, cursor, identity, dead letters | page, skip, apply, fail, park; replay at start and in `manualSync` | no event is stepped over; rows converge |
| optimistic state (`drizzle/core/optimistic-state.ts`) | keys with a pending edit, in memory | track, confirm, clear | – (see §7) |
| Postgres reference server (`postgres/handlers.ts`) | the log with a sequence number per event | concurrent group transactions under an advisory lock; read below xmin | a reader never passes an uncommitted event; groups are whole |
| adapters, presets, other React hooks, demo applications | none of the protocol's | wiring, shape checks, views | – |

How they meet: the user's transaction calls the mutation hook; the hook, the
push and `compact()` write the outbox only as jobs of the outbox gate; the push
leaves the gate while its request is on the network and re-enters it to apply
the answer; `sync()` runs push, then pull, then perhaps another push, under an
exclusive queue that maintenance also uses; the pull asks the outbox which
events are this device's own.  The two halves of the client share the outbox
rows, the server's log, and nothing else.

**What is hard here.**  The tables are persisted row by row: a fold, a park, an
inbox mark and a cursor reset are several writes, and a crash may fall between
any two.  User edits go on during the request, during the reply and during a
pull.  A request may be stored and its answer lost, or arrive after the client
gave up.  Backoff is per row, while order and transactions span rows.  The
server may be another one than yesterday.  `PROJECT.json` lists each of these
hazards at the line where it bites, with the property that covers it or the
reason none does yet.

## 2. Modules

    Delivery                     what an outbox promises
      ^           ^                (D == INSTANCE Delivery WITH ...)
    OutboxPush    DrizzlePush    the outbound half of the two clients
      |  |          |  |
      |  EventLog --+  |         the SQLite/Turso server (RPC contract)
      |    ^           |
      |    PullInbox   |         the inbound half of the collection client
      TxGroups --------+         cutting events into transaction groups

    PostgresLog                  the Postgres reference server
      ^
    DrizzlePull                  the inbound half of the drizzle client over it

    Tabs                         several tabs, jobs and maintenance over one database
    Lifecycle                    opening and closing the database, React hooks

    MC<module>                   instances for TLC
    <component>Proofs            theorems about OutboxPush, PullInbox, DrizzlePush,
                                 DrizzlePull, Tabs and Lifecycle
    DrizzleOrderProofs           the order of the log, and agreement, of DrizzlePush
    Extrema                      facts about bounded and ordered sets they need

### EventLog

`log` maps an eventId to the stored event, with its place in the global order
(`pos` is `globalSeq`).  `ServerResults(group, faults)` is the set of outcomes
of one transaction group of a push, each a pair of the log it leaves and the
answer it gives: append and confirm (an eventId already stored is confirmed and
keeps its first payload), abort because a `baseVersion` is stale, and, when
faults allow it, a refusal by validation or a `TRANSIENT` exception.  The
server runs one group in one database transaction, so one group is one step.
`TxGroups` has the cutting of events into groups that both clients and the
server share: runs of adjacent events with one `txId`, in `localSeq` order.

### Delivery

The abstract specification of both outboxes, on sets of event ids only: an id
is drawn once, queued, stored at most once and never dropped by the server,
confirmed only when it is stored, parked, or replaced in the queue by a later
edit; what left the queue never comes back.  `ImplementsDelivery` maps the
outbox rows, dead letters and log of `OutboxPush` and of `DrizzlePush` to it.
TLC checks it as a property of `PushFaulty` and `DrizzlePush`, and it is proved
of both (§5).

### OutboxPush: from the edit to the server

| code | model |
|---|---|
| user transaction of one or more rows, through `createMutationHook` | `Mutate(ks, type)`; all its outbox writes are one gate job |
| `foldableTail`, `foldedOutboxBody`, `anchorFoldedEvent` | `FoldTail`, `FoldedType`, `FoldBase`, `Anchor` |
| `compact()` and its visit to each row | `StartCompact`, `CompactKey`; one gate job in a step per row: until the last is visited (`compacting`) no other job of the gate runs |
| `pushOutbox`: due rows, marks, batches | `PlanPush`, with `Due`, `Marked`, `Groups`, `NextBatch` |
| the request on the server, group by group | `ServePush` |
| the answer, the timeout, the 413 | `ReceiveReply`, `TransportError`, `RefuseTooLarge` |
| a request that arrives after the client gave up | `late`, `ServeLate` |
| applying one batch's answers | `ApplyBatch`; parking the oversized first is `ParkOversized` |
| releasing the reservations | `ReleaseReserved` |
| time passing for rows in backoff | `BackoffTick`; waits are counted in base delays |
| process death | `Crash` between jobs; `CrashInMutate`, `CrashInCompact`, `CrashInPlan`, `CrashInApply` between any two persisted writes of one job |

An action is a whole gate job, or a row's part of a compaction: nothing else can
run inside one in one JavaScript context, except a crash, which has its own
actions: between the row changes of a transaction, between the deletes and the
insert of a fold or a collapsed life, between the record, the outbox row and the
restored version of a parked event.  The push is a
record of its local variables (`push`), lost by a crash, while `outbox`,
`deadletter` and `heads` persist.  A payload is the number of the edit that
wrote it (`val`), which is what the properties tell apart; the size of a body
is one unit.  A row of the user (`local`) is whether it lives and which edit it
shows.  An eventId is drawn from `nextId`, so it is also the order of drawing.

### PullInbox: from the server to the rows

| code | model |
|---|---|
| `sync()` / `manualSync()` with and without automatic sync | `StartSync(manual)`, `StartReplay` |
| the push of a cycle, and the one after a reset | `Upload` in phase `push` / `repush` |
| `readPullCursor` with `pullOverlap` | `EffectiveCursor`, `Since` |
| one page and its `backendId` | `FetchPage`, `ResetCursor`, `PullFails` |
| one event of the page or of the inbox replay | `SkipOwn`, `SkipResolved`, `SkipUnknown`, `HaltAtUnknown`, `Apply` then `Resolve`, `FailAndRetry`, `FailAndPark` |
| end of page, start and end of the inbox replay | `FinishPage`, `LoadPending`, `FinishReplay` |
| `pruneSyncedEvents` | `Prune` |
| other devices; a server wiped or restored from a backup | `Foreign`, `SwapBackend` |
| process death | `Crash`, `CrashBeforeApply`, `CrashInPark`, `CrashInReset`, `CrashAfterIdentity` |

A row shows an event (`rows[k]` is the event whose content it shows); inserts,
updates and deletes are all contents. The push is summarised by what it leaves:
the server stores any part of the unsent events, as backoff is per row and every
group has its own answer, and the replies confirm any part of those;
`OutboxPush` is where its steps are. A later edit of a row may so be stored
before an earlier one, which then is the server's newest: `ConvergesOnOneStore`
names that case (`Overtaken`, the row shows the later edit) and no other. An
event is replayed in two steps because the row and its inbox mark are two writes
with user edits and crashes in between. The options the database was opened with
are chosen in `Init` from `Configs`, so one run checks several configurations.

Three restrictions, each a named switch or guard, keep this half to what the
library promises:

* Two devices never edit one row at the same time: edits hand a row over from one
  to the other (`ShowsNewest`, and the guard of `Foreign`).  Concurrent edits diverge, which `ARCHITECTURE.md` documents
  as its open issue 0.
* `SwapBackend` waits for the first pull: until then the client has no identity
  to compare, and a replaced server goes unnoticed.
* `SwiftEdits = FALSE` keeps an edit from falling between a replayed write and
  its mark; `TornReset = FALSE` keeps a crash from falling between the new
  `backendId` and the zero cursor.  Both steps are possible in the code and
  both break a property (§6).

### DrizzlePush: the outbound half of the drizzle client

| code | model |
|---|---|
| `insert`, `update`, `delete` up to their first write | `Call(k, type)`, with `BaseVersion` |
| the database transaction of a single call; `writeRowVersion` after it | `CommitCall`, `Stamp` |
| `transact().run`: push on the ambient stack, entries, commit, failure | `BeginTx`, `AddEntry`, `CommitTx`, `FailTx`; an entry that comes after the commit is `AddTooLate` |
| `pushOutbox`: due rows, batches charged when sent | `StartPush`, `ContinuePush`, `SendBatch` |
| the server, its answer, a failing transport, a late request | `ServePush`, `ReceiveReply`, `TransportError`, `ServeLate` |
| the answer, event by event | `Confirm`, `BackOff`, `Park`, `ParkThrows` (the dead letter is there already) |
| the pull of the same sync, with other devices' events | `Foreign`, `ReplayRow`, `ReplayVersion`, `EndSync` |
| process death | `Crash`, `CrashInPark`, `CrashInMark` |

There is no gate and no reservation: mutations run between any two awaits of a
push.  A call is two steps because it reads the base version before the
transaction that writes the event; the version of the row follows in a write of
its own (`Stamp`), and a crash may come before it (`cutOff`).

The database transaction itself is one step: **the adapter's `transaction` is
assumed to be isolated**.  The reference adapters do not guarantee it, see §6.
What that assumption hides is not claimed: that row and outbox event are written
together is not a property here.

The configuration (rows, nesting, faults,
conflict detection, other devices) is chosen in `Init`.

Restrictions: the application awaits an edit of a row before it edits that row
again, and has a row in one open transaction at a time (`InHand`); without
that, two events carry one base.  A crash inside a replay is left to
`DrizzlePull`.  `lost` names the calls whose entry joined a
transaction too late, failed or were cut off by a crash.  A dead letter beside
its outbox row (`Doubled`, after a crash inside `deadLetter`) stops the row and
whatever fails behind it from ever being recorded, and `Drains` says so.

### PostgresLog and DrizzlePull

| code | model |
|---|---|
| `pushEvents`: BEGIN, advisory lock, one INSERT or lookup per event, COMMIT or ROLLBACK | `Begin`, `TakeLock`, `Insert`, `Dedup`, `Refuse`, `Finish`, `RollBack`, per connection |
| BIGSERIAL and transaction ids | `nextSeq`, `nextXid`: drawn at the insert, never given back |
| `pullEvents`: `global_seq > since`, below `pg_snapshot_xmin`, `LIMIT` | `Visible`, `Page`, `HasMore` |
| `pullInbox`: cursor, pages, identity | `StartPull`, `FetchPage`, `ResetCursor`, `PullFails`, `FinishPage` |
| one event: own, resolved, unknown, given up by the upcaster, applied, failing | `SkipOwn`, `SkipResolved`, `HaltAtUnknown`, `SkipUnknown`, `Apply`, `FailAndRetry`, `FailAndPark`, `ParkThrows` |
| `replayInbox` at startup and in `manualSync`, which then pulls | `Start`, `Started`, `After` |
| process death between two writes | `Crash`, `CrashBeforeApply`, `CrashBeforeMark`, `CrashInPark`, `CrashInReset` |
| a store restored from a backup or emptied | `SwapBackend` |

What an event says is a constant (`Event`), so the log is eventId → sequence
number and a row shows an eventId.  A replay whose row write throws is
`FailAndRetry`; a mark or a version write that throws although the process lives
(`replay.ts:116`, `pull.ts:244`) is not modelled, a crash there is
(`CrashBeforeMark`).  Why the server refuses a member is a free
choice here (`EventLog` decides conflicts).  Ghosts: `torn` (a crash left the
old cursor with the new identity) and `redone` (a crash kept a replay from
being recorded).  A manual sync pushes between its replay and its pull; the
push is `DrizzlePush` and touches none of the tables here.

### Tabs: several tabs over one database

Every tab runs its own engine, so its own serial queue, gate and copy of the
client id, over shared tables.  A push is a request and its reply, a pull one
page; `OutboxPush` and `PullInbox` have the rest.

| code | model |
|---|---|
| the mutation hook in any tab: a new event, or a fold in its writes | `Add`; `BeginFold`, `DropFolded` per row, `InsertFolded`, `AbandonFold` when a write throws |
| `withLock`, deferral | `Take`, `Release`, `Available`; no lock when `config.lock` is off |
| `decideSyncBatch` | `Allowed`, `Waited`, `Hold` |
| `pushPull`: push, pull, second push, outcome | `StartPush`, `Serve`, `FinishPush`, `Pull`, `ReplayPage`, `WriteCursor`, `EndPull`, `Outcome` |
| `retryDeadLetter`, `discardDeadLetter` | `StartRetry`, `Unpark`, `Replay`, `Serve`, `FinishRetry`; `Discard` |
| `pruneSyncedEvents` in its reads and writes | `StartPrune`, `SaveCursor`, `ListSent`, `ListSeen`, `DropSent` and `DropSeen` per row, `EndPrune` |
| `resetLocalReplica` | `StartReset`, `WipeRows`, `WipeTables`, `Forget` |
| a tab is closed or dies and is opened again | `Crash` |
| time, other devices, another store | `Tick`, `Other`, `Swap` |

All edits are of one row; tabs see each other's table writes at once; replies
are not lost here, and the writes of a reset on a new identity are one step
(`Pull`; `PullInbox` has them apart, with a crash between them). No gate, and no
lock in the case of prunes and retries, spans two tabs, so the deletes of a fold
or a prune in one tab fall between any steps of the others. What the code does
lose has a name in the ghosts (`lost`, `spoilt`), so that `NothingLost` and
`CursorHonest` list the exceptions:

| name | what is lost, and how |
|---|---|
| `discarded` | edits of a dead letter discarded, or of a reset told to discard |
| `swept` | edits made while a reset was under way |
| `unsent` | edits folded into an event that another tab was sending or had parked |
| `torn` | edits that a fold had deleted when a crash, or another tab at the same rows, kept it from inserting its row, or that came to a row it had read before |
| `pruned` | edits in a row that another tab requeued or folded into after a prune had listed it as synced |
| `released` | after a change of the server's store only: confirmed edits that left the outbox, or were confirmed by a server of unknown identity |
| `waived` | foreign events: a discarded dead letter, one parked again by another tab while a retry deletes it, and one whose inbox row a retry reopened after a prune had listed it |
| `spoilt` | the cursor after a crash within a reset, a page skipped by a tab with the client id of before a reset, the cursor written by a prune that began before it |

Dead letters are not retried in the instance whose store is replaced (§6).

### Lifecycle: the handle and its hooks

`ensure`, the factory in its steps (`SetUp`, `Created`, `FactoryThrows`), the
`then` and `catch` of the lazy singleton (`Resolved`, `Rejected`), `close()` in
its steps (`Close`, `PlatformClosed`, `PlatformCloseThrows`), and `useEnsureDb`
as an effect per hook (`RunEffect`, `Unmount`, `Ensured`, `ShowReady`,
`ShowError`). `raced` records that a `close()` overlapped an opening, an
`ensure()` or another `close()`: the handle does not guard against those, and
`OneDatabase` claims nothing after one. A platform that will not close does not
set it: the disposed database then stays the instance, and another `close()`
tries the platform again (`CloseFailed`). The guard option of the hook and the
other hooks are view code.

## 3. Runs

Each run is one question.  Most runs set `CHECK_DEADLOCK FALSE`, because the
user may stop editing with everything sent and the bounds reached, or every
hook may have settled; the two pull runs check deadlock, as a device may always
sync once more.

| run | instance | shows |
|---|---|---|
| PushReliable | 2 rows, 5 row changes, transactions of 2, fold, compact, no fault, limit of 2 against batches of 3 | the server gets each row's edits in order through batching, folding, compaction and 413 halving, and ends with the user's rows (`RowOrder`, `QuiescentAgreement`) |
| PushVersioned | the same with conflict detection, no compact | a lone device never conflicts with itself (`NoSelfConflict`) |
| PushFaulty | 1 row, 3 edits, transport and transient faults, crash, fold, compact, fairness | rows in hand stay put (`InFlightStable`), synced means stored (`SyncedIsStored`), nothing is queued for ever (`Drains`), the outbox implements `Delivery` (`ImplementsDelivery`) |
| PushUnfolded | 2 rows, 3 edits, transactions of 2, lost and late requests, crash, no fold | synced rows equal the stored events (`SyncedPayloadIsStored`), no live row's last edit is forgotten (`NoEditForgotten`) |
| PushParked | 3 rows, 4 changes, transactions of 3, batches of 3 against a server limit of 2, refusals, transient failures, conflict detection, attempts of 2 | with mixed answers, rollbacks of siblings and halved requests, a dead letter is not on the server and not sent again (`ParkedIsNotStored`, `ParkedIsNotSent`), transactions stay whole (`TransactionsAtomic`) |
| PullConverges | 2 rows (one unknown), 3 events, pages of 2, crash, swap, failing replays, 4 configurations | whatever part of its edits each push gets stored, a device that caught up shows the server's newest events, or a later edit that was stored too early (`ConvergesOnOneStore`); after a reset, synced means held by the new store (`SyncedIsHeld`) |
| PullDelivers | 2 events, pages of 1, crash, swap, failing replays, 4 configurations, fairness | the cursor steps over nothing (`NoEventMissed`); every foreign event is resolved in the end (`Delivered`) |
| DrizzlePush | five configurations: alone with versions and nested transactions; every fault and a crash; refusals of transactions over two rows; two devices with versions; the same with refusals and a crash | no mutation is lost (`MutationsDurable`), versions follow rows, but in four named cases (`VersionsFollowRows`), no conflict with oneself (`NoSelfConflict`), agreement when quiescent, groups whole, `ImplementsDelivery`, `Drains` |
| DrizzlePull | 4 events in 3 groups (one unreadable, one of this device), 2 connections, pages of 2, 9 configurations: pushes side by side, an old and a new server, failing writes and a crash at any write, a replaced store under each policy, an event given up, an event that stops the pull | `CommitsInOrder`, `GroupsWhole` on the server; `NoEventMissed`, `RowsConverge`, `ParkedIsNotApplied` on the device; everything shown is resolved in the end (`Delivered`) |
| Tabs | 2 tabs, 2 edits, 10 configurations, each with the jobs that meet in it: syncs with faults, with and without lock or syncBatch, retries, resets against prunes, retries and edits, a prune against retries and against a requeue and a fold | `NothingLost`, `CursorHonest`, and pending events drain under the lock and under syncBatch (`Drains`) |
| Lifecycle | 2 hooks, 3 openings, 2 closes, 3 effect runs | until a close overlaps something, one database, shared by the hooks, open when handed out, none leaked, also after a platform that would not close (`OneDatabase`); hooks settle (`HooksSettle`) |
| FoldAfterLostReply | 1 row, 2 edits, lost replies, fold | **violation**: `SyncedPayloadIsStored` (§6) |

Bounds. Two rows are what order within a row, independence of rows and a
transaction over rows need; three, in `PushParked`, let a transaction be too
large for the server while a smaller one and a single event fit. Three edits of
one row give a fold of a fold, and a fold around a request in flight; five give
two lives of a row (insert, delete, insert) with edits of the other row around
them, which is what compaction distinguishes. Batches of two or three against
limits of one or two make batches overflow, requests be halved, and a group be
too large on its own. With three events to a request an answer may confirm one
group, refuse a member of another and undo its siblings. Two attempts separate
the first retry from giving up. One crash, at any write of any run, is followed
by every later behaviour, so each half-written state meets the recovery code; a
crash during recovery itself is not covered by TLC (the theorems of §5 hold for
any number of crashes). Pages of one and two events give empty, full and partial
pages. One swap of any size covers a wiped store and every backup. The bounds
are `MaxIds`, `MaxTxRows`, `MaxEvents`, `MaxCrashes`, `MaxSwaps`, all named
constants in guards.

The drizzle, tab and lifecycle runs multiply more actors, so they use sets of
small configurations instead of one large instance, each with the faults whose
combination matters: two connections are what it takes for sequence numbers to
be committed in another order than they were drawn; a first transaction id
above every sequence number, or below them, are the two ways the comparison of
the two counters can come out; two tabs and two edits are what one tab's job
needs to undo or miss what the other did; three openings let a late failure
meet a newer opening.  Configurations bound edits, groups, faults, crashes and
swaps one by one, in guards.

Sizes: PullConverges 2.2 million states, Lifecycle 600 000, DrizzlePush 370 000,
DrizzlePull 330 000, Tabs 180 000, PullDelivers 130 000, each between half a
minute and three minutes with two workers.

Properties under a restriction say so: `SyncedPayloadIsStored` and
`NoEditForgotten` are checked without folding, since with folding the code
violates them (§6); `ParkedIsNotSent` and `ParkedIsNotStored` are checked
without lost replies and crashes, since an event may be stored and its
confirmations all lost, and `TransactionsAtomic` without folding, since a fold
makes one member of a transaction in backoff due before the others. In
`DrizzlePush`, `NoSelfConflict` is checked without faults where versions are
kept, and `VersionsFollowRows` for a device that writes alone or does not edit
during a sync (§6). `VersionsFollowRows` speaks of every row that no call and no
replay has in hand, after refusals, conflicts, faults and crashes as well, and
allows four versions that are not the shown event's: that of an edit replayed
over a deleted row, that of a call that joined its transaction too late
(`lost`), any one after a crash kept the last from being written (`cutOff`), and
the base of a parked event, which a conflict restores whatever the row shows
(`Reverted`).

The properties of order and content are checked where nothing is sent twice:
`RowOrder`, `QuiescentAgreement` and `NoSelfConflict` of `OutboxPush` in runs
without faults.  That a later edit goes first under backoff is what the code
does, and a lost reply under a fold or `compact()` is in the runs that check
what is still true of it (`PushFaulty`).

## 4. Fairness

`OutboxPush.Fairness`: strong fairness of `PlanPush`, because sync requests
wait in a first-come queue and compaction, which holds the gate again and
again, cannot pass them for ever; weak fairness of the gate jobs, of the server
and its reply, of `CompactKey` and of the clock.  No fairness on edits, faults,
late requests or crashes: a transport may fail every time, and then `Drains`
holds because attempts run out and the event is parked.

`PullInbox.Fairness`: the application syncs again and again (`SF(StartSync)`,
the interval and the online listener), not every request fails (`SF(Pulling)`),
and a replay in progress takes its next step (`WF`).  `Delivered` excludes the
`Stuck` configurations: those told to stop at a changed server or at an unknown
event, and a `pullOverlap` not below the page size, with which a pull whose
second request fails starts over where it started before.

`DrizzlePush.Fairness`: the application syncs again and again and a sync that
has begun goes on (`WF(Pushing)`), promises and callbacks settle
(`WF(Settling)`, `WF(Finish)`, `WF(ReplayVersion)`), time passes between syncs
(`SF(BackoffTick)`: it is enabled only while no push runs).
`DrizzlePull.FairSpec`: the application syncs and is started again after a crash
(`WF(Syncing)`), an open transaction ends (`WF(ServerWorks)`).  `Tabs.FairSpec`:
a job that has begun goes on (`WF(Continue(t))`), syncs keep being asked for and
get their turn in the serial queue (`SF(StartSync)`), time passes.
`Lifecycle.FairSpec`: an awaited promise settles and its continuation runs.
None of them assumes that a request succeeds, that a fault stops, or that
anybody edits.

## 5. Proofs

`OutboxPushProofs` proves, for all constants that satisfy `BoundsAssumption` and
`SwitchesAssumption` (any number of rows, edits, batch and body limits, any
attempt budget, any fault set, any number of crashes, folding, compaction and
conflict detection on or off):

| theorem | statement |
|---|---|
| `Invariance` | `Spec => []Inv` |
| `TypeCorrect` | `Spec => []TypeOK` |
| `SyncedIsSafe` | `Spec => []SyncedIsStored` |
| `InFlightIsSafe` | `Spec => []InFlightStable` |
| `Delivers` | `Spec => ImplementsDelivery` |

`SyncedIsStored` is not inductive.  A row becomes synced when an answer in
`push.acc` says confirmed, so the invariant must know that a confirmed answer
is about a stored event, both in the answer on its way and in the one received
(`ConfirmedIsStored`), which in turn needs answers to be about events that were
sent (`AnswersSent`).  `InFlightStable` says the rows of a running push are
reserved and unsynced with the body that was sent; applying one batch changes
its rows, so the batches must be disjoint and those already decided must not be
queued again (`GroupsApart`, `QueueApart`), groups must not be empty for the
halving to make progress (`WholeGroups`), a row found oversized is held by the
same push (`OversizedHeld`), and a new edit must not take the id of a row in
flight (`IdsDrawn`).  `Inv` is the conjunction of those with `TypeOK`.

The argument is one lemma per action of `Next` (`MutateInv`, `PlanPushInv`, …,
`CrashInApplyInv`), over lemmas on the operators: a fold takes unsynced,
unreserved rows only (`FoldTailUnsynced`), `anchorFoldedEvent` keeps an
identity out of the chain it replaces (`AnchorIn`), compaction leaves synced
and reserved rows alone (`CompactedType`), groups by transaction do not overlap
(`GroupsDisjoint`), the server keeps every event it had and confirms only what
it stores (`ServerKeepsEvents`).  `Extrema` holds the facts about least and
greatest elements, powers of two and ranks that these and the following proofs
need.

`OutboxPushProofs` also proves the properties of the outbox that hold under a
switch. Each theorem assumes only the switch of the runs that check its
property, and everything else (rows, edits, limits, attempts and, where the
switch allows them, faults, crashes, folding and compaction) is arbitrary:

| theorem | statement | assuming |
|---|---|---|
| `ParkedLeavesTheQueue` | `Spec => []ParkedIsNotSent` | `Steady`: no crash |
| `EditsAreKept` | `Spec => []NoEditForgotten` | `Unfolded`: no fold, no compact |
| `SyncedPayloadIsSafe` | `Spec => []SyncedPayloadIsStored` | `Unfolded`, or `Lossless`: no crash, no lost reply |
| `ParkedIsUnknown` | `Spec => []ParkedIsNotStored` | `Lossless` |
| `TransactionsStayWhole` | `Spec => []TransactionsAtomic` | `Unfolded`, `Steady` |
| `EditsArriveInOrder` | `Spec => []RowOrder` | `InTurn`: `Steady`, no fault but refusals |
| `QuietMeansAgreed` | `Spec => []QuiescentAgreement` | `InTurn` |
| `NoConflictWithItself` | `Spec => []NoSelfConflict` | `Unrefused`: `Steady`, no fault, no compact, no transaction above a limit |

The switches are the facts of §6: with a crash an event is parked and queued,
with a lost reply a fold changes what is stored, with a retry a later edit goes
first, with `compact()` a base dangles.  The first theorem shows a little more
than its run: folding, compaction and lost replies are allowed.

The invariants build on each other.  `DeadInv`: an event is queued or parked,
never both.  `WordsInv`: without folds the outbox row, the dead letter, the
stored event and what may arrive late of one id say the same.  `AnswerInv`:
without lost replies a stored event whose row is unsynced has its confirmation
in hand (`StoredAnswered`), so a fold cannot reach it and the stored event
equals the row (`StoredMatches`).  `AtomInv`: rows of one transaction share
status, attempts and wait, answers share their outcome, and every set the push
works on holds whole transactions, which each cut of the queue must keep
(`RowsAlike`, `OneFate`, `WholeTx`).  `OrderInv`: ids order everything: what is
sent next lies below what is sent later, groups are apart as runs of ids
(`SentInOrder`), rows in hand lie below the ones that came since, the log is
below whatever has no answer yet, and edits of a row are numbered like their
ids, also after a fold moved an anchor (`ValsInOrder`); the newest row of a key
is what the user sees (`LastEdit`).  `ChainInv`: every base is the event before
it on its row (`BasesChain`), so when the server comes to an event its base is
the newest stored event of the row.

`DrizzlePullProofs` proves, for every `Event`, set of connections, page size,
transaction id to begin with, attempt budget, set of unreadable events and set
of configurations that satisfy `EventAssumption`, `ServerAssumption` and
`ClientAssumption` (so for any number of devices, failures, crashes and
replaced stores, under each policy):

| theorem | statement |
|---|---|
| `Invariance` | `Spec => []Inv` |
| `TypeCorrect` | `Spec => []TypeOK` |
| `LockOrdersCommits` | `Spec => []CommitsInOrder` |
| `GroupsAreWhole` | `Spec => []GroupsWhole` |
| `NothingIsMissed` | `Spec => []NoEventMissed` |
| `ParkedStaysOut` | `Spec => []ParkedIsNotApplied` |
| `RowsConvergeAlways` | `Spec => []RowsConverge` |

`Inv` is `ServerInv /\ ClientInv`.  On the server the advisory lock lets one
transaction insert (`OneInserts`), every number drawn is below the next one
(`SeqsDrawn`), so what a transaction draws is above what is committed
(`CommitsInOrder`); a transaction that will commit still has all of its group,
in hand or in the log (`GroupKept`), which makes `GroupsWhole` inductive.  A
commit therefore adds rows above everything stored (`StoredGrows`).  On the
client the cursor and the start of a fetch never run ahead of the log
(`NotAhead`), so what is added later is above them too; a page leaves nothing
out below its last event (`PageIsFull`), so every stored event up to an item of
the page is resolved or still on the list (`NoGap`), and when the list is empty
the cursor may move to its end (`FinishPageInv`).  All of this is promised only
while the saved identity is the store's own (`Current`): a swap makes it false,
and a reset starts again from zero.  `Unseen` covers the time before the first
page.  `ParkedIsNotApplied` needs that a row shows, and a dead letter is of,
an event that is resolved or whose replay a crash cut off (`MarksFollow`): an
event to be parked is not resolved, so no row shows it.

`RowsConverge` needs that the device works through the store in its order, also
after a crash.  While there is one store, what the inbox holds unresolved comes
after everything resolved except one event at most, the places in the inbox are
the store's, and so are those of the list in hand (`OneStore`); no two events
have one number (`Distinct`).  A row then shows the resolved events of its key,
or those and one more whose mark a crash kept from being written
(`RowsFollow`): a replay of that one again changes nothing, and it is the next
to be replayed.  `ConvergeInv` is their conjunction with `Inv`.

`PullInboxProofs` proves, for every number of rows and events, page size,
overlap, attempt budget, set of configurations, crashes and swaps that satisfy
`PullAssumption`:

| theorem | statement |
|---|---|
| `Invariance` | `Spec => []Inv` |
| `TypeCorrect` | `Spec => []TypeOK` |
| `ConfirmedIsSafe` | `Spec => []SyncedIsHeld` |
| `NothingIsMissed` | `Spec => []NoEventMissed`, if `~TornReset` |
| `RowsAgree` | `Spec => []ConvergesOnOneStore`, if `~SwiftEdits` and pruning goes without an overlap |

The server numbers its events from one without a gap (`LogNumbered`), also when
a store is restored from a backup; that the greatest number is then the number
of events is what the ranks of `Extrema` are for. `Reached(p)` says that `p` is
not ahead of the log and that every stored event up to `p` is settled, in the
inbox or this device's own. `NoGap` claims it of the saved cursor, of the place
of each inbox row (the effective cursor may be any of them), of the start of a
fetch, and of what a replay at start-up works on; a page in hand is a sorted,
true extract of the log that leaves out nothing up to its end (`PageCovers`), so
that its end is reached when the list is empty. It is promised while the saved
identity is the store's own, and not after a crash between identity and cursor,
which is the assumption of `NothingIsMissed`. `Unseen` covers the device that
never pulled; `ResolvedIsSettled` lets `pruneSyncedEvents` drop inbox rows.
`ConfirmedIsHeld` needs the order of the writes in a reset: flags go back before
the identity is saved, so a crash in between leaves more to send, never less.

`RowsAgree` has two hypotheses because without either the property is false, as
§6 tells: an edit between a replayed row and its mark, followed by a crash
(`SwiftEdits`), and pruned inbox rows pulled again under an overlap. Its
invariant is `AgreeInv`, and it speaks of a device whose server was not replaced
and which parked nothing (`Steady`). The device's own events may be stored in
any order, so what a row shows is told by what does not come after it: no event
of the row that the device knows, its own or settled, has a later place than the
shown one unless both are its own edits, and then the shown one was made later;
an edit that is not stored yet is no later than the shown one, and a shown event
that is not in the log is in the outbox (`RowsShown`, `IdsInUse`). At rest that
is the newest event of the row, or `Overtaken`. To keep it, what has been
replayed must be a prefix of the foreign log: everything settled lies below
everything that waits in the inbox (`SettledInOrder`), a page in hand continues
it without a gap (`PageWhole`), a list in hand is a sorted extract of the log
(`ItemsTold`), and no page goes back to a settled event, except under an
overlap, where the inbox still has them all and skips them (`SettledOnce`). A
foreign event that is not settled comes after everything of this device on its
row (`OwnComesFirst`), and nobody else writes a row between the replay and its
mark (`AppliedShown`). That edits hand a row over from one device to the other
is a guard of the model, so the theorem says nothing of concurrent edits.

`DrizzlePushProofs` proves, for all constants of its module:

| theorem | statement |
|---|---|
| `Invariance` | `Spec => []Inv` |
| `TypeCorrect` | `Spec => []TypeOK` |
| `Durable` | `Spec => []MutationsDurable` |
| `Delivers` | `Spec => ImplementsDelivery` |

| `VersionsFollow` | `Spec => []VersionsFollowRows` |
| `TransactionsStayWhole` | `Spec => []TransactionsAtomic` |

and `DrizzleOrderProofs`, from these:

| theorem | statement |
|---|---|
| `NoConflictWithOneself` | `Spec => []NoSelfConflict` |
| `AllInAgreement` | `Spec => []QuiescentAgreement` |

So both clients implement the abstract outbox. Every action is `D!Write`,
`D!Store`, `D!Settle` or leaves the abstract variables alone, by one lemma per
action. For `OutboxPush` this takes two parts besides `Inv`: what the server
holds or may still receive was drawn on the device (`ServerKnowsDrawn`), and the
rows whose outcome a push has in hand are still queued and reserved
(`DecidedAreHeld`), so that settling them settles queued events. In
`DrizzlePush` nothing is reserved and edits run between any two steps of a push,
so the invariant says what they cannot disturb: the entries of an open
transaction wait for its commit and for no other, however `run()` calls nest and
overlap on the one ambient stack (`StackInOrder`); what waits is nowhere else
and ids are drawn in order (`PendingApart`); the rows a push has due, sent or
answered are queued, the ones not yet sent are apart from the others, and a
confirmed one is stored (`Sending`); a request that was given up carries
committed events (`LateSent`).

The rows and their versions rest on a second invariant, `RowInv`, about the
events that follow each other on one row.  What is queued, parked or stored is
one event with one content (`TablesAgree`), and every run has a name that no
other run and no call outside a run has (`RunNames`).  The events of a row that
wait belong to one run and all but the last have joined it (`OneRunPerRow`), so
they are committed together or not at all; they are newer than what is
committed (`PendingNewer`), and the first of them suits the row as it is
(`Fitting`), so that no insert meets a row and no update misses one.  Hence
every commit writes the newest event of the row (`NewestShown`).  That is a part
of the argument and no property of its own: it holds because the transaction of
the adapter is taken as isolated (§6).  The versions of a row still to be
written come from one run and are written in its order, before anything that
waits can be committed (`OneRunStamps`), so the version ends where the row is,
unless the row is excused (`VersionsInStep`, `Excused`): its version is that of
a call that joined too late, a crash cut off the write of its version (`cutOff`,
and only a crash does: `CutByCrash`), or a conflict put the base of the parked
event there (`Reverted`).  An excuse lasts until the next edit or replay of the
row brings row and version together again, so after conflicts, crashes and lost
calls the theorem still says where the version is.  A replay writes the row
first and is the only one to do so in between (`Halfway`, `Calm`).  TLC checked
`RowInv` before it was proved, and showed what `VersionsFollowRows` must leave
out: an edit that overlaps a replay of the same row (§6).

That a run is stored whole rests on a third one, `RunInv`.  A run commits once
(`RunsCommitOnce`), the server and every request name the run an event belongs
to (`RunsTold`), and as long as runs do not nest and nothing crashes (`Sole`)
its events are drawn one after the other (`RunsInOrder`), so that a batch, cut
where the run changes, never cuts a run in two (`GroupsWhole`).  What is stored,
due, answered or on its way, in a request given up as well, is then made of
whole runs (`RunsWhole`).  The outcome of a push is applied row by row, so what
the tables say of a run differs while that is under way; what stays equal for
all events of a run is what will have become of them once the answers in hand
are applied: parked, synced or queued with one number of attempts and one pause
(`Fate`, `Pause`, `OneFate`).  The server decides a group as one
(`ServerSays`), a transport error charges all of a batch, and applying an
answer changes no fate (`AppliedRuns`).

The theorems of `DrizzleOrderProofs` rest on a fourth, `LineInv`, about the line
in which the events of a row go to the server. It has a part for each thing that
may go wrong.

* Without versions no event has a base (`NoBases`), under every fault.
* As long as no request fails and nothing is parked, and others write only where
  versions are kept and syncs do not overlap edits (`Peaceful`), what the device
  and the server hold is consistent (`Truthful`): they have stored events in
  common (`LogTrue`), a request is a line of whole runs in the order of their
  ids (`GroupsInOrder`, `BodiesWhole`), a base is an older event of the row or
  one that was replayed (`BasesKnown`), within a run each event is based on the
  one before it (`RunChain`), and what others write suits what was stored before
  (`TypesFollow`).  Crashes and failed calls do not disturb this.
* They can leave a base behind that the server will never have at the head of
  the row: the version of a call that failed, say.  An event with such a base
  (`Hopeless`) stays so, and the server refuses every group that holds it
  (`HopelessStays`, `HopelessConflicts`), so a device with one never comes to
  rest with nothing parked.  As long as there is none, and no row was
  written blindly over others' (`Hopeful`), everything is in line (`InLine`): the
  server refuses nothing (`AllConfirming`) and appends a row's events in the
  order of their ids (`LogInOrder`); what is stored, what is stored or on its
  way, and the two with what is due are each closed under older events of the
  row (`SentInOrder`); others' events are replayed in the order of the log
  (`ReplayedInOrder`), before any edit the server places after them
  (`Foreseen`); and a row shows the device's newest event that is not stored,
  or else the newest the device knows of (`RowsShow`).
* A device that writes alone, keeps versions and lost nothing (`Smooth`) has
  every event based on the one before it on its row (`BaseChain`), so that none
  is hopeless; with `NoBases` that is `NoSelfConflict`.

Hope is never regained (`HopefulBefore`), so one lemma per action shows that a
step keeps the four parts (`Advances`).  At rest every event of the outbox is
stored, so none is hopeless; everything of the others is replayed, so a row
shows the newest event of its log, which is `QuiescentAgreement`.  `TLC` checked
every part of `LineInv` on instances before it was proved.

`TabsProofs` proves, for any number of tabs, edits, resets, failures, crashes
and changes of the server's store, whatever jobs run side by side:

| theorem | statement |
|---|---|
| `Invariance` | `Spec => []Inv` |
| `TypeCorrect` | `Spec => []TypeOK` |
| `NothingIsLost` | `Spec => []NothingLost`, if `Guarded` |
| `CursorIsHonest` | `Spec => []CursorHonest`, if `OneHistory` |

`Guarded` says that tabs have a lock or the store of the server is never
replaced; without it `NothingLost` is false (§6).  `OneHistory` says that
inbound dead letters are not retried where the store of the server is replaced;
without it `CursorHonest` is false (§6).

The argument for `NothingLost` is a ledger of what left the device. All copies
of an event, in a request of some tab, on the server or among the dead letters,
and its row in the outbox differ in nothing but edits already known as unsent or
torn (`Apart`, `CopiesAgree`: a fold in one tab beside a send or a fold in
another one is the only way they come apart). A fold that has deleted rows holds
their edits until it inserts its own (`InFolds`), and what it holds agrees with
the copies in the same way (`FoldsAgree`); two tabs may be folding at once, but
one of them at most is going to insert under a given eventId, which is in no row
until then (`ClaimedOnce`). An event that a reply confirms is on the server, or
on one that was replaced and, in a sync, not yet noticed (`AnswersStored`), and
so is a synced row, unless its edits were released (`SyncedHeld`); a device that
knows no server has nothing synced that is not released (`NewcomerReleased`,
which a reset needs). Every edit is in the outbox, among the dead letters, in a
fold or has its reason, the rows deleted by a prune after a requeue or a fold
among them (`Accounted`). With the lock no other tab can be between request and
reply when a pull notices the new store or a reset forgets the old one
(`LockHeld`, `Alone`); a retried dead letter can, because a retry takes no lock,
and it touches no outbox row.

`CursorHonest` follows from `HonestInv`, which says of every place that may
still become the cursor (`Marks`) what the property says of the cursor: the
saved one, those of the inbox rows, done or not, and of the dead letters that
may return, the start of a page in hand and the end of one replayed, and the
cursor that a prune of this epoch has read (`InEpoch`). A page in hand is a part
of the log (`PagesOfLog`). What a prune deletes after a retry has reopened it
stays accounted for as `waived` (`Covered`). A pull skips events of its own
client id, so every event that was ever made under the current one has to be
shown (`Settled`), one that a fold is going to insert as well (`FoldClients`); a
reset draws an id that no event anywhere has (`Clients`), so that nothing is
skipped that the wiped rows do not show. Until the next pull the device knows no
server and its places are all zero (`Newcomer`), and a prune that began before
it is of another epoch (`Clients`, `EpochsPass`). Most actions are instances of
two lemmas (`TableStep`, `PlainStep`: a step that goes nowhere new keeps the
invariant); the page, the pull and the reset have proofs of their own and use
that the lock leaves them alone (`OnlyOne`).

`LifecycleProofs` proves `Invariance` and `OneAtATime` (`Spec => []OneDatabase`)
for any number of hooks, openings, closes and effect runs.  Until a `close()`
overlaps an opening, another `close()` or an `ensure()` (`raced`), one opening
is under way (`OneUnderWay`), nothing is open or closing beside it
(`NotBeside`, `OneClosing`), and the platform of an opening is the one `close()`
will reach, in each step of the factory and of the handlers that settle it
(`PlatformKnown`, `InstanceKnown`, `CloserKnows`).  What a hook awaits or is
about to hand out is under way, has failed, is the instance, or was disposed
(`HookKnows`), so a hook never hands out a second open database.  A platform
that fails to close leaves the disposed database as the instance
(`Orphaned`, `CloseFailed`); that state satisfies the invariant too, and what
follows it is covered.

Every invariant that a run expects to hold is stated by a theorem, some under
the hypotheses their tables name (`RowsAgree`, `QuietMeansAgreed` and those
beside it). Model-checked only: what those hypotheses leave out, and liveness
(`Drains`, `Delivered`, `HooksSettle`), which is out of the prover's reach, as
are ENABLED and induction over data.

## 6. Where the code does not do what its documentation says

* **A fold after a lost reply** (run `FoldAfterLostReply`, a violation) – the
  server stores an event and the reply is lost; the row is unsynced and no
  longer reserved, so the next edit folds into it under the same eventId, the
  server deduplicates it, and the new payload is marked synced and never stored
  (`compact-outbox.ts:111`, against the comment at 106-109).

The following were met while modelling and are described, not run: each is a
step the models have, and the property it breaks is checked in an instance, or
with an exception, that leaves it out.

* Only the rows of a failed batch back off; a later edit of the same row goes
  first (`collection-queries.ts:69`, against `ARCHITECTURE.md:484`): `RowOrder`
  is checked without faults.  The server then ends with the earlier edit and the
  device shows the later one, with everything sent and pulled: `Overtaken` in
  `ConvergesOnOneStore`.
* A fold deletes durable rows before it inserts their replacement
  (`compact-outbox.ts:96-99`, against `README.md:1043`): a crash, or another tab
  at the same rows, in between loses the edits.  `NoEditForgotten` is checked
  without folding, and in `Tabs` they are `torn`.
* `pruneSyncedEvents` lists the synced rows and then deletes them one by one,
  with no lock (`maintenance.ts:193-202`).  A row that another tab puts back to
  unsynced or folds into meanwhile is deleted with what was not sent
  (`pruned`), and so is an inbox row that a retry has reopened (`58-59`), whose
  event is then never shown though the cursor is past it (`waived`).
* `compact()` drops a life that was never synced while a later event keeps its
  delete as `baseVersion`; the only device that writes gets a conflict
  (`compact-outbox.ts:234`, against `README.md:1180`): `NoSelfConflict` is
  checked without `compact()`.
* After a restored server is detected, the pull from zero replays an older
  foreign event over this device's newer edit, whose own event it skips
  (`pull.ts:262`, against `ARCHITECTURE.md:594`): `ConvergesOnOneStore` speaks
  of one store.
* A crash between `pull.ts:259` and the cursor write leaves an old cursor on a
  new store (`TornReset`, `torn`); an edit between a replayed write and its
  mark, then a crash, and the start-up replay puts the older event back
  (`SwiftEdits`); pruned events are replayed over newer ones under
  `pullOverlap`; a fold frees one row of a transaction in backoff.
* A retry of an outbound dead letter sends it directly (`maintenance.ts:104`),
  not through the outbox as `ARCHITECTURE.md:179` says.
* `writeSyncOutcome` moves `lastSyncAt` on a push that had nothing to send or
  whose rows were put off (`sync-cycle.ts:167`); tabs that are open during a
  reset keep the old client id, against the comment at `maintenance.ts:219`.
* `postgres/handlers.ts:207` explains the read ceiling by transaction ids, but
  compares them with `global_seq`, another counter: on a fresh database an
  event stays hidden until enough transactions have begun (`Delivered` speaks
  of what lies below the next transaction id).
* `drizzle/internal/pull.ts:127` announces that the inbox is wiped on a reset;
  it is not, and synced events are not offered again.
* With `lock: null` (`README.md:1528`) and a server store that is replaced: a tab
  sends its rows, the store is replaced, another tab pulls, notices it and puts
  synced rows back (`pull.ts`), and only then the first tab handles the reply of
  the old store and marks its rows synced (`push.ts`).  They are on no server
  and are not sent again.  `NothingLost` is checked and proved with a lock, or
  with one store.
* An inbound dead letter survives the reset after a replaced store (`pull.ts:254`
  empties the inbox, not the dead letters) and keeps the `globalSeq` it had
  there.  A retry gives its inbox row that place (`dead-letter.ts:36`), and once
  it is replayed `readPullCursor` (`sync-meta.ts:95`) takes it for progress on
  the new store, whose events below it are never pulled.  `CursorHonest` is
  checked and proved without that combination; with it TLC finds a violation of
  17 steps.
* A local edit that overlaps a replay of the same row: `mutate` writes the row
  in a transaction and the version after it (`create-event-sourced-drizzle.ts`),
  and so does the replay (`drizzle/internal/replay.ts`), so the version of the
  one may stay beside the row of the other, and the next edit is based on an
  event the row does not show.  `VersionsFollowRows` is checked and proved for
  devices that write alone or do not edit during a sync.
* A conflict parks the drizzle event and puts its base version back
  (`drizzle/internal/push.ts:135-137`) whatever the row shows by then, and the
  row itself is not rolled back; a crash between the commit and
  `writeRowVersion` (`create-event-sourced-drizzle.ts:244-248`) leaves the
  version before it.  Both are cases of `VersionsFollowRows` (`Reverted`,
  `cutOff`).
* The adapters write outbox and rows through `db`, not through the `tx` of their
  `transaction()` (`adapters/sqlite.ts:62, 99-101, 147-151`, `adapters/pg.ts:42,
  78-80`), and `mutate` awaits two writes in it
  (`create-event-sourced-drizzle.ts:244-247`, `transaction.ts:165-170`).  On one
  connection (`examples/sqlite.ts:70-79`) a statement that comes between joins
  the open transaction and is rolled back with it, a dead letter of a push among
  them, and a second `BEGIN` throws; on a pool the outbox row is not part of the
  transaction.  `DrizzlePush` takes the transaction as isolated (`InsertAll`,
  `CommitTx`, `FailTx`), and every theorem about it holds under that assumption.
* With `conflictDetection`, while an event of the drizzle engine backs off, or
  after it was rejected, the next edit of its row is sent with a base the server
  has not stored: the only device that writes is told that it is in conflict.
  `NoSelfConflict` is checked without faults where versions are kept.
* The engine calls `track()` and `clear()` of `drizzle/core/optimistic-state.ts`
  and never `confirm`, `remove` or `loadFromOutbox`, which its comments (lines
  10, 18, 100-105) tie to push and start-up: a row stays pending after it was
  confirmed, and is not pending after a restart.

## 7. Not modelled, and what is left

Not modelled, and why:

* transport presets and normalisation (`sync-presets.ts`, both `sync.ts`): pure
  shape checks and request wiring; the models start from well-formed answers;
* platform adapters and persisted collections: wiring of SQLite drivers and of
  TanStack DB, whose transactions and failures are outside this repository;
* the mock backend: a test double of `EventLog`;
* `useManualSync`, `useSyncStatus`, `useSyncEnabled`: views over the handle;
* the optimistic-state tracker: a set in memory that no part of the protocol
  reads (what is wrong with it is in §6);
* logging, errors, uuids;
* the demo applications, apart from their sync server: user interfaces,
  generated components, seed data.  They are about three quarters of the
  repository's lines, which is why the map covers a small part of the whole and
  most of the two packages' protocol code.

Partly modelled: `replay` of the collection client without its rowversions
write (conflicts with foreign writers are in `DrizzlePush`); start-up without
the removal of local-only rows; SQL adapters as what a call reads and writes.

Left for later: `PullInbox` with rowversions heads and a foreign writer; two
tabs that draw one `localSeq`.
