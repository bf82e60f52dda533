-------------------------------- MODULE Tabs --------------------------------
(***************************************************************************)
(* Several tabs over one database.  Every tab runs its own engine: its own *)
(* serial queue of jobs (sync, retryDeadLetter, discardDeadLetter,         *)
(* pruneSyncedEvents, resetLocalReplica), its own write gate and its own   *)
(* copy of the client id.  The tables are shared, and so is the lock that  *)
(* sync and resetLocalReplica take, and the other jobs do not.             *)
(*                                                                         *)
(* The rows a push marks, the pages of a pull and the server are those of  *)
(* OutboxPush, PullInbox and EventLog; here a push is a request and its    *)
(* reply, a pull one page, and the steps of a job are the places where the *)
(* other tabs get in.  All edits are of one row.                           *)
(***************************************************************************)
EXTENDS Integers, FiniteSets, Sequences

CONSTANTS
  Tab,        \* the tabs
  MaxEdits,   \* bound: edits
  MaxEvents,  \* bound: events on the server, those of other devices included
  MaxDelay,   \* bound: syncBatch.delayMinutes, in ticks
  Configs     \* the configurations to explore

Jobs == {"sync", "retry", "discard", "prune", "reset", "discarding reset"}

(* lock: whether there is one.  minEvents, delay: syncBatch, 0 when unset. *)
(* jobs: what each tab runs.  Bounds: edits, resets, others (events of     *)
(* other devices), swaps (of the server's store), faults, crashes.         *)
ConfigType ==
  [lock : BOOLEAN, minEvents : Nat, delay : 0..MaxDelay, jobs : [Tab -> SUBSET Jobs],
   edits : 0..MaxEdits, resets : Nat, others : Nat, swaps : Nat, faults : Nat, crashes : Nat]

ASSUME TabsAssumption ==
  /\ 0 \notin Tab
  /\ MaxEdits \in Nat /\ MaxEvents \in Nat /\ MaxDelay \in Nat
  /\ Configs \subseteq ConfigType

VARIABLES
  config,
  outbox,      \* eventId -> [edits, by, synced, waits, age] (persisted)
  dead,        \* eventId -> [edits, by]: outbound dead letters (persisted)
  parked,      \* eventId -> globalSeq: inbound dead letters (persisted)
  inbox,       \* eventId -> [seq, done] (persisted)
  meta,        \* [client, cursor, seen, lastSync]: syncmeta (persisted)
  shown,       \* events whose effect the rows of the device have (persisted)
  log,         \* the server's events, [eid, edits, by]
  backend,     \* the server's backendId
  edits,       \* edits made so far
  fold,        \* tab -> the fold its mutation hook is in
  nextEid, nextClient,
  tab,         \* tab -> the job it runs and the client id it has
  holder,      \* the tab that has the lock, None for none
  lost,        \* edits by what became of them, see NothingLost
  spoilt,      \* a known way to lose rows was taken, see CursorHonest
  faults, crashes

tables == <<outbox, dead, parked, inbox, meta, shown>>
server == <<log, backend>>
editing == <<edits, fold, nextEid, nextClient>>
bounds == <<faults, crashes>>
ghosts == <<lost, spoilt>>
vars == <<config, tables, server, editing, tab, holder, ghosts, bounds>>

None == 0
Never == -1
Others == 0   \* the client id of other devices

Empty == [e \in {} |-> None]
Join(f, g) == [e \in DOMAIN f \cup DOMAIN g |-> IF e \in DOMAIN g THEN g[e] ELSE f[e]]
Without(f, S) == [e \in DOMAIN f \ S |-> f[e]]
EditsOf(f) == UNION {f[e].edits : e \in DOMAIN f}
LogEids == {log[i].eid : i \in DOMAIN log}

Resting(client) ==
  [client |-> client, phase |-> "idle", epoch |-> <<>>,
   again |-> FALSE, push |-> "none", wire |-> Empty, answer |-> "none", turned |-> {},
   page |-> <<>>, cursor |-> 0, requeued |-> FALSE, doomed |-> {}, settled |-> {}]

(* into: the event a fold keeps, None outside a fold.  left: the rows it   *)
(* still has to delete.  edits, by, age: of the row it will insert.  gone: *)
(* the edits no row has until then, the new one among them.                *)
NoFold == [into |-> None, left |-> {}, edits |-> {}, by |-> None, age |-> 0, gone |-> {}]

Init ==
  /\ config \in Configs
  /\ outbox = Empty /\ dead = Empty /\ parked = Empty /\ inbox = Empty
  /\ meta = [client |-> 1, cursor |-> 0, seen |-> None, lastSync |-> Never]
  /\ shown = {}
  /\ log = <<>> /\ backend = 1
  /\ edits = 0 /\ fold = [t \in Tab |-> NoFold] /\ nextEid = 1 /\ nextClient = 2
  /\ tab = [t \in Tab |-> Resting(1)]
  /\ holder = None
  /\ lost = [discarded |-> {}, swept |-> {}, unsent |-> {}, torn |-> {}, pruned |-> {},
             released |-> {}, waived |-> {}]
  /\ spoilt = FALSE
  /\ faults = 0 /\ crashes = 0

Pending == {e \in DOMAIN outbox : ~outbox[e].synced}
Synced == DOMAIN outbox \ Pending
Due == {e \in Pending : ~outbox[e].waits}
Unresolved == {e \in DOMAIN inbox : ~inbox[e].done}

At(t, phase) == tab[t].phase = phase
Go(t, phase) == tab' = [tab EXCEPT ![t].phase = phase]
Rest(t) == tab' = [tab EXCEPT ![t] = Resting(@.client)]
Lose(kind, S) == lost' = [lost EXCEPT ![kind] = @ \cup S]

(* A tab starts a job, one at a time (the serial queue).                   *)
Epoch == <<meta.client, meta.seen>>
Starts(t, job) == At(t, "idle") /\ job \in config.jobs[t]
Begin(t, phase) == [Resting(tab[t].client) EXCEPT !.phase = phase]

(* withLock: tryRun does not wait.  A sync or reset that finds the lock    *)
(* taken is deferred: it returns, and nothing changes.                     *)
Available == holder = None \/ ~config.lock
Take(t) == Available /\ holder' = IF config.lock THEN t ELSE holder
Release(t) == holder' = IF holder = t THEN None ELSE holder

-----------------------------------------------------------------------------
(* The mutation hook, at any time in any tab, as a job of its write gate,  *)
(* where the planning and the reply of a push wait for it.  An edit is     *)
(* folded with the pending events at the end of the row's chain, into the  *)
(* oldest of them, unless this tab has them in a request; else it is a new *)
(* event.                                                                  *)

Reserved(t) == IF tab[t].phase \in {"sent", "answered"} THEN DOMAIN tab[t].wire ELSE {}

FoldTail(t) == {e \in Pending : \A f \in Pending : f >= e => f \notin Reserved(t)}

Oldest(S) == CHOOSE e \in S : \A f \in S : e <= f

(* What of the event e has been taken, to be sent, by the server, or as a  *)
(* dead letter.                                                            *)
Sent(e) == {log[i].edits : i \in {j \in DOMAIN log : log[j].eid = e}}
             \cup {tab[u].wire[e].edits : u \in {v \in Tab : e \in DOMAIN tab[v].wire}}
             \cup {dead[f].edits : f \in DOMAIN dead \cap {e}}

Folding(t) == fold[t].into # None

(* The rows are read, deleted one by one, and then the row that stands for *)
(* all of them is inserted: other tabs get in between.  The application's  *)
(* row is written after that.                                              *)
BeginFold(t) ==
  /\ edits < config.edits /\ ~Folding(t) /\ FoldTail(t) # {}
  /\ edits' = edits + 1
  /\ LET anchor == Oldest(FoldTail(t))
     IN  fold' = [fold EXCEPT ![t] =
           [into |-> anchor, left |-> FoldTail(t), by |-> tab[t].client,
            edits |-> {edits'} \cup EditsOf([e \in FoldTail(t) |-> outbox[e]]),
            age |-> outbox[anchor].age, gone |-> {edits'}]]
  /\ UNCHANGED <<config, tables, server, nextEid, nextClient, tab, holder, ghosts, bounds>>

DropFolded(t) ==
  /\ Folding(t) /\ fold[t].left # {}
  /\ LET e == Oldest(fold[t].left)
     IN  /\ e \in DOMAIN outbox
         /\ outbox' = Without(outbox, {e})
         /\ fold' = [fold EXCEPT ![t].left = @ \ {e}, ![t].gone = @ \cup outbox[e].edits]
  /\ UNCHANGED <<config, dead, parked, inbox, meta, shown, server, edits, nextEid, nextClient,
                 tab, holder, ghosts, bounds>>

InsertFolded(t) ==
  /\ Folding(t) /\ fold[t].left = {} /\ fold[t].into \notin DOMAIN outbox
  /\ outbox' = Join(outbox, [e \in {fold[t].into} |->
       [edits |-> fold[t].edits, by |-> fold[t].by, synced |-> FALSE, waits |-> FALSE,
        age |-> fold[t].age]])
  /\ lost' = [lost EXCEPT !.unsent = @ \cup UNION {fold[t].edits \ S : S \in Sent(fold[t].into)},
                          !.torn = @ \cup (fold[t].gone \ fold[t].edits)]
  /\ shown' = shown \cup {fold[t].into}
  /\ fold' = [fold EXCEPT ![t] = NoFold]
  /\ UNCHANGED <<config, dead, parked, inbox, meta, server, edits, nextEid, nextClient,
                 tab, holder, spoilt, bounds>>

(* A row to delete that another tab has deleted, or one to insert that is  *)
(* there, throws: the fold goes no further.                                *)
AbandonFold(t) ==
  /\ Folding(t)
  /\ IF fold[t].left = {} THEN fold[t].into \in DOMAIN outbox
     ELSE Oldest(fold[t].left) \notin DOMAIN outbox
  /\ Lose("torn", fold[t].gone)
  /\ fold' = [fold EXCEPT ![t] = NoFold]
  /\ UNCHANGED <<config, tables, server, edits, nextEid, nextClient, tab, holder, spoilt, bounds>>

Add(t) ==
  /\ edits < config.edits /\ ~Folding(t) /\ FoldTail(t) = {}
  /\ edits' = edits + 1 /\ nextEid' = nextEid + 1
  /\ outbox' = Join(outbox, [e \in {nextEid} |->
       [edits |-> {edits'}, by |-> tab[t].client, synced |-> FALSE, waits |-> FALSE, age |-> 0]])
  /\ shown' = shown \cup {nextEid}
  /\ UNCHANGED <<config, dead, parked, inbox, meta, server, fold, nextClient, tab, holder, ghosts, bounds>>

-----------------------------------------------------------------------------
(* sync, manualSync.                                                       *)

StartSync(t) ==
  /\ Starts(t, "sync") /\ Take(t)
  /\ tab' = [tab EXCEPT ![t] = Begin(t, "decide")]
  /\ UNCHANGED <<config, tables, server, editing, ghosts, bounds>>

(* Mutant: the clock of syncBatch only ever starts at a successful push.   *)
WaitedForNone == meta.lastSync >= config.delay

(* The delay, since the last successful push, or else since the oldest     *)
(* pending event.                                                          *)
Waited == IF meta.lastSync = Never THEN \E e \in Pending : outbox[e].age >= config.delay
          ELSE meta.lastSync >= config.delay

(* decideSyncBatch.                                                        *)
Allowed ==
  \/ config.minEvents = 0 /\ config.delay = 0
  \/ Pending = {}
  \/ config.minEvents > 0 /\ Cardinality(Pending) >= config.minEvents
  \/ config.delay > 0 /\ Waited

(* The first push comes before the pull, the second one after it.          *)
AfterPush(t) == IF tab[t].again THEN "outcome" ELSE "pull"

Hold(t) ==
  /\ At(t, "decide") /\ ~Allowed
  /\ Go(t, AfterPush(t))
  /\ UNCHANGED <<config, tables, server, editing, holder, ghosts, bounds>>

Pushed(t, how) == IF tab[t].push = "failed" THEN "failed" ELSE how

(* pushOutbox with nothing due is a successful push.                       *)
PushNothing(t) ==
  /\ At(t, "decide") /\ ~Folding(t) /\ Allowed /\ Due = {}
  /\ tab' = [tab EXCEPT ![t].phase = AfterPush(t), ![t].push = Pushed(t, "done")]
  /\ UNCHANGED <<config, tables, server, editing, holder, ghosts, bounds>>

Bodies(f, S) == [e \in S |-> [edits |-> f[e].edits, by |-> f[e].by]]

StartPush(t) ==
  /\ At(t, "decide") /\ ~Folding(t) /\ Allowed /\ Due # {}
  /\ tab' = [tab EXCEPT ![t].phase = "sent", ![t].wire = Bodies(outbox, Due)]
  /\ UNCHANGED <<config, tables, server, editing, holder, ghosts, bounds>>

Unstored(t) == DOMAIN tab[t].wire \ LogEids
InOrder(S) == CHOOSE s \in [1..Cardinality(S) -> S] : \A i, j \in DOMAIN s : i < j => s[i] < s[j]
Entry(t, e) == [eid |-> e, edits |-> tab[t].wire[e].edits, by |-> tab[t].wire[e].by]

(* The server: what it has is confirmed whatever becomes of the rest; the  *)
(* rest is stored, refused for good, or refused for now, or the request    *)
(* does not arrive.  Replies are not lost here: OutboxPush loses them.     *)
Serve(t, answer) ==
  /\ tab[t].phase \in {"sent", "resent"}
  /\ IF answer = "stored" THEN UNCHANGED faults
     ELSE faults < config.faults /\ faults' = faults + 1
  /\ Len(log) + Cardinality(Unstored(t)) <= MaxEvents
  /\ log' = IF answer # "stored" THEN log
            ELSE log \o [i \in 1..Cardinality(Unstored(t)) |-> Entry(t, InOrder(Unstored(t))[i])]
  /\ tab' = [tab EXCEPT ![t].answer = answer,
                        ![t].turned = IF answer = "stored" THEN {} ELSE Unstored(t),
                        ![t].phase = IF @ = "sent" THEN "answered" ELSE "reanswered"]
  /\ UNCHANGED <<config, tables, backend, editing, holder, ghosts, crashes>>

(* Mutant: a request that arrived is taken to be stored.                   *)
ConfirmedAll(t) == IF tab[t].answer = "unreached" THEN {} ELSE DOMAIN tab[t].wire

Confirmed(t) == IF tab[t].answer = "unreached" THEN {} ELSE DOMAIN tab[t].wire \ tab[t].turned
Refused(t) == IF tab[t].answer = "refused" THEN tab[t].turned ELSE {}

(* The reply: a row is marked synced, parked with the content that was     *)
(* sent, or left to a later sync (out of attempts it would be parked:      *)
(* OutboxPush).  Only a request that did not arrive, or a row that is gone *)
(* when it is to be put off, makes it a failed push.                       *)
FinishPush(t) ==
  /\ At(t, "answered") /\ ~Folding(t)
  /\ LET later == DOMAIN tab[t].wire \ (Confirmed(t) \cup Refused(t))
         fails == tab[t].answer = "unreached" \/ ~(later \subseteq DOMAIN outbox)
     IN  /\ outbox' = [e \in DOMAIN outbox \ Refused(t) |->
                         [outbox[e] EXCEPT !.synced = @ \/ e \in Confirmed(t),
                                           !.waits = @ \/ e \in later]]
         /\ tab' = [tab EXCEPT ![t] = [Resting(@.client) EXCEPT
                      !.again = tab[t].again, !.phase = AfterPush(t),
                      !.push = Pushed(t, IF fails THEN "failed" ELSE "done")]]
  /\ dead' = Join(Bodies(tab[t].wire, Refused(t)), dead)
  /\ Lose("released", IF meta.seen = None THEN EditsOf(Bodies(tab[t].wire, Confirmed(t))) ELSE {})
  /\ UNCHANGED <<config, parked, inbox, meta, shown, server, editing, holder, spoilt, bounds>>

(* readPullCursor.                                                         *)
CursorOf(m, box) ==
  LET seqs == {m.cursor} \cup {box[e].seq : e \in {f \in DOMAIN box : box[f].done}}
  IN  CHOOSE n \in seqs : \A x \in seqs : x <= n

Page(n) == SubSeq(log, n + 1, Len(log))

Requeued == [e \in DOMAIN outbox |->
               [outbox[e] EXCEPT !.synced = FALSE, !.waits = @ /\ e \in Pending]]

(* pullInbox: the page that comes back.  A server with another identity    *)
(* than the saved one empties the inbox and makes the confirmed events     *)
(* pending again.                                                          *)
Pull(t) ==
  /\ At(t, "pull")
  /\ LET new  == meta.seen \notin {None, backend}
         from == IF new THEN 0 ELSE CursorOf(meta, inbox)
     IN  /\ meta' = [meta EXCEPT !.seen = backend, !.cursor = IF new THEN 0 ELSE @]
         /\ inbox' = IF new THEN Empty ELSE inbox
         /\ outbox' = IF new THEN Requeued ELSE outbox
         /\ tab' = [tab EXCEPT ![t].phase = IF Page(from) = <<>> THEN "pulled" ELSE "page",
                               ![t].page = Page(from), ![t].cursor = from,
                               ![t].requeued = new /\ Synced # {}]
  /\ UNCHANGED <<config, dead, parked, shown, server, editing, holder, ghosts, bounds>>

OnPage(t) == DOMAIN tab[t].page

(* isLocalOrigin, with the id this tab has in memory.                      *)
Own(t, i) == tab[t].page[i].eid \in DOMAIN outbox \/ tab[t].page[i].by = tab[t].client

Resolved(i, t) == LET e == tab[t].page[i].eid IN e \in DOMAIN inbox /\ inbox[e].done
Fresh(t) == {tab[t].page[i].eid : i \in {j \in OnPage(t) : ~Own(t, j) /\ ~Resolved(j, t)}}

(* Replays of S: they are shown, but for one that is perhaps parked.       *)
Replays(S, seq) ==
  \E bad \in SUBSET S :
    /\ Cardinality(bad) <= 1 /\ (bad # {} => faults < config.faults)
    /\ faults' = faults + Cardinality(bad)
    /\ parked' = Join([e \in bad |-> seq[e]], parked)
    /\ shown' = shown \cup (S \ bad)

(* The page is replayed; its own events are skipped.                       *)
ReplayPage(t) ==
  /\ At(t, "page")
  /\ LET eids == {tab[t].page[i].eid : i \in OnPage(t)}
         seq  == [e \in eids |-> tab[t].cursor + CHOOSE i \in OnPage(t) : tab[t].page[i].eid = e]
     IN  /\ Replays(Fresh(t), seq)
         /\ inbox' = Join(inbox, [e \in eids |-> [seq |-> seq[e], done |-> TRUE]])
  /\ spoilt' = \/ spoilt
               \/ /\ tab[t].client # meta.client
                  /\ \E i \in OnPage(t) : Own(t, i) /\ tab[t].page[i].eid \notin shown
  /\ Go(t, "turn")
  /\ UNCHANGED <<config, outbox, dead, meta, server, editing, holder, lost, crashes>>

(* Mutant: off by one.                                                     *)
WriteNext(t) ==
  /\ At(t, "turn")
  /\ meta' = [meta EXCEPT !.cursor = tab[t].cursor + Len(tab[t].page) + 1]
  /\ Go(t, "pulled")
  /\ UNCHANGED <<config, outbox, dead, parked, inbox, shown, server, editing, holder, ghosts, bounds>>

WriteCursor(t) ==
  /\ At(t, "turn")
  /\ meta' = [meta EXCEPT !.cursor = tab[t].cursor + Len(tab[t].page)]
  /\ Go(t, "pulled")
  /\ UNCHANGED <<config, outbox, dead, parked, inbox, shown, server, editing, holder, ghosts, bounds>>

(* The second push, if rows were requeued.                                 *)
EndPull(t) ==
  /\ At(t, "pulled")
  /\ tab' = [tab EXCEPT ![t] = [Resting(@.client) EXCEPT
               !.push = tab[t].push, !.again = tab[t].requeued,
               !.phase = IF tab[t].requeued THEN "decide" ELSE "outcome"]]
  /\ UNCHANGED <<config, tables, server, editing, holder, ghosts, bounds>>

(* writeSyncOutcome.  manualSync replays the inbox before it is done.      *)
Outcome(t) ==
  /\ At(t, "outcome")
  /\ meta' = IF tab[t].push = "done" THEN [meta EXCEPT !.lastSync = 0] ELSE meta
  /\ \/ Rest(t) /\ Release(t)
     \/ Unresolved # {} /\ Go(t, "replay") /\ UNCHANGED holder
  /\ UNCHANGED <<config, outbox, dead, parked, inbox, shown, server, editing, ghosts, bounds>>

-----------------------------------------------------------------------------
(* retryDeadLetter, discardDeadLetter, pruneSyncedEvents: no lock.         *)

(* One event, or all of them.                                              *)
Chosen(S) == S # {} /\ S \subseteq DOMAIN dead \cup DOMAIN parked
             /\ (Cardinality(S) = 1 \/ S = DOMAIN dead \cup DOMAIN parked)

(* The place of an inbound dead letter: that of its inbox row, if there    *)
(* still is one.                                                           *)
PlaceOf(e) == IF e \in DOMAIN inbox THEN inbox[e].seq ELSE parked[e]

(* Inbound ones go back to the inbox, and only then lose their dead        *)
(* letter; outbound ones are sent as they are.                             *)
StartRetry(t) ==
  /\ Starts(t, "retry")
  /\ \E S \in SUBSET (DOMAIN dead \cup DOMAIN parked) :
       /\ Chosen(S)
       /\ inbox' = Join(inbox, [e \in S \cap DOMAIN parked |-> [seq |-> PlaceOf(e), done |-> FALSE]])
       /\ tab' = [tab EXCEPT ![t] = [Begin(t, "unpark") EXCEPT
                    !.doomed = S \cap DOMAIN parked, !.wire = Bodies(dead, S \cap DOMAIN dead)]]
  /\ UNCHANGED <<config, outbox, dead, parked, meta, shown, server, editing, holder, ghosts, bounds>>

Resend(t) == IF tab[t].wire = Empty THEN Rest(t) ELSE Go(t, "resent")

Unpark(t) ==
  /\ At(t, "unpark")
  /\ parked' = Without(parked, tab[t].doomed)
  /\ Lose("waived", tab[t].doomed \ Unresolved)
  /\ IF tab[t].doomed = {} THEN Resend(t) ELSE Go(t, "replay")
  /\ UNCHANGED <<config, outbox, dead, inbox, meta, shown, server, editing, holder, spoilt, bounds>>

(* replayInbox: what is unresolved, in a retry, a manualSync or a start.   *)
Replay(t) ==
  /\ At(t, "replay")
  /\ Replays(Unresolved, [e \in DOMAIN inbox |-> inbox[e].seq])
  /\ inbox' = [e \in DOMAIN inbox |-> [inbox[e] EXCEPT !.done = TRUE]]
  /\ Resend(t) /\ Release(t)
  /\ UNCHANGED <<config, outbox, dead, meta, server, editing, ghosts, crashes>>

FinishRetry(t) ==
  /\ At(t, "reanswered")
  /\ dead' = Without(dead, Confirmed(t))
  /\ Lose("released", EditsOf(Bodies(tab[t].wire, Confirmed(t))))
  /\ Rest(t)
  /\ UNCHANGED <<config, outbox, parked, inbox, meta, shown, server, editing, holder, spoilt, bounds>>

Discard(t) ==
  /\ Starts(t, "discard")
  /\ \E S \in SUBSET (DOMAIN dead \cup DOMAIN parked) :
       /\ Chosen(S)
       /\ dead' = Without(dead, S) /\ parked' = Without(parked, S)
       /\ lost' = [lost EXCEPT !.discarded = @ \cup EditsOf(Bodies(dead, S \cap DOMAIN dead)),
                               !.waived = @ \cup (S \cap DOMAIN parked)]
  /\ UNCHANGED <<config, outbox, inbox, meta, shown, server, editing, tab, holder, spoilt, bounds>>

StartPrune(t) ==
  /\ Starts(t, "prune")
  /\ tab' = [tab EXCEPT ![t] = [Begin(t, "prune") EXCEPT !.epoch = Epoch, !.cursor = CursorOf(meta, inbox)]]
  /\ UNCHANGED <<config, tables, server, editing, holder, ghosts, bounds>>

(* The cursor as it was read is saved, what is synced is listed, and then  *)
(* it is deleted row by row, whatever has become of the rows since.        *)
SaveCursor(t) ==
  /\ At(t, "prune")
  /\ meta' = [meta EXCEPT !.cursor = tab[t].cursor]
  /\ spoilt' = \/ spoilt
               \/ tab[t].epoch # Epoch /\ meta'.cursor > CursorOf(meta, inbox)
  /\ Go(t, "list sent")
  /\ UNCHANGED <<config, outbox, dead, parked, inbox, shown, server, editing, holder, lost, bounds>>

ListSent(t) ==
  /\ At(t, "list sent")
  /\ tab' = [tab EXCEPT ![t].phase = "list seen", ![t].doomed = Synced]
  /\ UNCHANGED <<config, tables, server, editing, holder, ghosts, bounds>>

ListSeen(t) ==
  /\ At(t, "list seen")
  /\ tab' = [tab EXCEPT ![t].phase = "drop", ![t].settled = DOMAIN inbox \ Unresolved]
  /\ UNCHANGED <<config, tables, server, editing, holder, ghosts, bounds>>

DropSent(t) ==
  /\ At(t, "drop")
  /\ \E e \in tab[t].doomed \cap DOMAIN outbox :
       /\ outbox' = Without(outbox, {e})
       /\ Lose(IF outbox[e].synced THEN "released" ELSE "pruned", outbox[e].edits)
       /\ tab' = [tab EXCEPT ![t].doomed = @ \ {e}]
  /\ UNCHANGED <<config, dead, parked, inbox, meta, shown, server, editing, holder, spoilt, bounds>>

DropSeen(t) ==
  /\ At(t, "drop") /\ tab[t].doomed = {}
  /\ \E e \in tab[t].settled \cap DOMAIN inbox :
       /\ inbox' = Without(inbox, {e})
       /\ Lose("waived", {e} \cap Unresolved)
       /\ tab' = [tab EXCEPT ![t].settled = @ \ {e}]
  /\ UNCHANGED <<config, outbox, dead, parked, meta, shown, server, editing, holder, spoilt, bounds>>

(* It is done, or the next row is gone: the delete throws.                 *)
EndPrune(t) ==
  /\ At(t, "drop")
  /\ \/ ~(tab[t].doomed \subseteq DOMAIN outbox)
     \/ tab[t].doomed = {} /\ (tab[t].settled = {} \/ ~(tab[t].settled \subseteq DOMAIN inbox))
  /\ Rest(t)
  /\ UNCHANGED <<config, tables, server, editing, holder, ghosts, bounds>>

-----------------------------------------------------------------------------
(* resetLocalReplica.                                                      *)

(* It throws when something is pending and it may not discard it.          *)
StartReset(t) ==
  /\ \/ Starts(t, "reset") /\ Pending = {}
     \/ Starts(t, "discarding reset")
  /\ nextClient <= config.resets + 1
  /\ Take(t)
  /\ tab' = [tab EXCEPT ![t] = [Begin(t, "wipe rows") EXCEPT
               !.doomed = EditsOf(Bodies(outbox, Pending))]]
  /\ UNCHANGED <<config, tables, server, editing, ghosts, bounds>>

WipeRows(t) ==
  /\ At(t, "wipe rows")
  /\ shown' = {}
  /\ Go(t, "wipe tables")
  /\ UNCHANGED <<config, outbox, dead, parked, inbox, meta, server, editing, holder, ghosts, bounds>>

(* Whatever the outbox holds by now.                                       *)
WipeTables(t) ==
  /\ At(t, "wipe tables")
  /\ outbox' = Empty /\ inbox' = Empty /\ dead' = Empty /\ parked' = Empty
  /\ lost' = [lost EXCEPT !.discarded = @ \cup tab[t].doomed \cup EditsOf(dead),
                          !.swept = @ \cup (EditsOf(Bodies(outbox, Pending)) \ tab[t].doomed),
                          !.released = @ \cup EditsOf(Bodies(outbox, Synced))]
  /\ Go(t, "forget")
  /\ UNCHANGED <<config, meta, shown, server, editing, holder, spoilt, bounds>>

(* Mutant: the client keeps its id.                                        *)
KeepId(t) ==
  /\ At(t, "forget")
  /\ meta' = [meta EXCEPT !.cursor = 0, !.seen = None]
  /\ tab' = [tab EXCEPT ![t] = Resting(meta.client)]
  /\ Release(t)
  /\ UNCHANGED <<config, outbox, dead, parked, inbox, shown, server, editing, ghosts, bounds>>

(* A new client id, for this tab and for those that start later.           *)
Forget(t) ==
  /\ At(t, "forget")
  /\ meta' = [meta EXCEPT !.client = nextClient, !.cursor = 0, !.seen = None]
  /\ nextClient' = nextClient + 1
  /\ tab' = [tab EXCEPT ![t] = Resting(nextClient)]
  /\ Release(t)
  /\ UNCHANGED <<config, outbox, dead, parked, inbox, shown, server, edits, fold, nextEid, ghosts, bounds>>

-----------------------------------------------------------------------------
(* A tab is closed or crashes and is opened again: the lock is let go, the *)
(* saved client id is read, and what is unresolved is replayed.  A fold    *)
(* under way is not finished.                                              *)
Crash(t) ==
  /\ crashes < config.crashes
  /\ crashes' = crashes + 1
  /\ spoilt' = (spoilt \/ tab[t].phase \in {"wipe tables", "forget"})
  /\ tab' = [tab EXCEPT ![t] = [Resting(meta.client) EXCEPT !.phase = "replay"]]
  /\ Release(t)
  /\ fold' = [fold EXCEPT ![t] = NoFold] /\ Lose("torn", fold[t].gone)
  /\ UNCHANGED <<config, tables, server, edits, nextEid, nextClient, faults>>

(* Time: the clock of syncBatch, and the backoff of rows.                  *)
Older(n) == IF n < config.delay THEN n + 1 ELSE n
Tick ==
  /\ outbox' = [e \in DOMAIN outbox |->
       [outbox[e] EXCEPT !.waits = FALSE, !.age = IF outbox[e].synced THEN 0 ELSE Older(@)]]
  /\ meta' = [meta EXCEPT !.lastSync = IF @ = Never THEN @ ELSE Older(@)]
  /\ fold' = [t \in Tab |-> [fold[t] EXCEPT !.age = IF Folding(t) THEN Older(@) ELSE @]]
  /\ UNCHANGED <<config, dead, parked, inbox, shown, server, edits, nextEid, nextClient,
                 tab, holder, ghosts, bounds>>

(* Another device pushes an event.                                         *)
Other ==
  /\ Len(SelectSeq(log, LAMBDA x : x.by = Others)) < config.others /\ Len(log) < MaxEvents
  /\ log' = Append(log, [eid |-> nextEid, edits |-> {}, by |-> Others])
  /\ nextEid' = nextEid + 1
  /\ UNCHANGED <<config, tables, backend, edits, fold, nextClient, tab, holder, ghosts, bounds>>

(* The store of the server is replaced by an empty one.                    *)
Swap ==
  /\ backend <= config.swaps
  /\ log' = <<>> /\ backend' = backend + 1
  /\ UNCHANGED <<config, tables, editing, tab, holder, ghosts, bounds>>

SyncStep(t) == \/ Hold(t) \/ PushNothing(t) \/ StartPush(t) \/ FinishPush(t)
               \/ Pull(t) \/ ReplayPage(t) \/ WriteCursor(t) \/ EndPull(t) \/ Outcome(t)
               \/ \E a \in {"stored", "refused", "later", "unreached"} : Serve(t, a)

ResetStep(t) == WipeRows(t) \/ WipeTables(t) \/ Forget(t)

PruneStep(t) == \/ SaveCursor(t) \/ ListSent(t) \/ ListSeen(t)
                \/ DropSent(t) \/ DropSeen(t) \/ EndPrune(t)

FoldStep(t) == DropFolded(t) \/ InsertFolded(t) \/ AbandonFold(t)

(* The rest of a job that has begun.                                       *)
Continue(t) == SyncStep(t) \/ ResetStep(t) \/ Unpark(t) \/ Replay(t) \/ FinishRetry(t) \/ PruneStep(t)

Start(t) == StartSync(t) \/ StartRetry(t) \/ Discard(t) \/ StartPrune(t) \/ StartReset(t)

Next == \/ \E t \in Tab : \/ BeginFold(t) \/ FoldStep(t) \/ Add(t)
                        \/ Start(t) \/ Continue(t) \/ Crash(t)
        \/ Tick \/ Other \/ Swap

Spec == Init /\ [][Next]_vars

(* What has begun goes on, time passes, and the application syncs again    *)
(* and again: a tab's queue runs jobs in the order they were asked for, so *)
(* a sync gets its turn however many prunes are asked for after it.        *)
FairSpec == /\ Spec
            /\ \A t \in Tab : WF_vars(Continue(t)) /\ WF_vars(FoldStep(t))
            /\ SF_vars(\E t \in Tab : StartSync(t))
            /\ WF_vars(Tick)

-----------------------------------------------------------------------------
(* Types.                                                                  *)

Bodied(f) == \A e \in DOMAIN f : f[e].edits \subseteq 1..MaxEdits /\ f[e].by \in 0..nextClient

TypeOK ==
  /\ Bodied(outbox) /\ Bodied(dead) /\ Bodied(fold)
  /\ \A e \in DOMAIN outbox : outbox[e].age \in 0..config.delay
  /\ \A e \in DOMAIN inbox : inbox[e].seq \in 1..MaxEvents
  /\ meta.cursor \in 0..MaxEvents /\ meta.lastSync \in {Never} \cup (0..config.delay)
  /\ Len(log) <= MaxEvents
  /\ holder \in Tab \cup {None}
  /\ \A t \in Tab : tab[t].push \in {"none", "done", "failed"} /\ Bodied(tab[t].wire)

-----------------------------------------------------------------------------
(* Safety.                                                                 *)

(* Whatever the tabs do at the same time, an edit is waiting to be sent,   *)
(* is a dead letter, is on the server, or is on its way from a row to      *)
(* another in a fold under way.  The exceptions:                           *)
(* discarded: with a dead letter or a reset that was told to;              *)
(* swept: made while a reset was under way;                                *)
(* unsent: folded into an event that another tab was sending or has parked;*)
(* torn: deleted by a fold that a crash, or another tab at the same rows,  *)
(* kept from inserting its row, or whose row had been read before;         *)
(* pruned: in a row that another tab requeued or folded into after a prune *)
(* listed it as synced;                                                    *)
(* after a change of the server's store, released: confirmed events that   *)
(* have left the outbox, or were confirmed by a server of unknown identity,*)
(* and, until the change is noticed, those in it.                          *)
NothingLost ==
  \A n \in 1..edits :
    \/ n \in EditsOf(Bodies(outbox, Pending)) \cup EditsOf(dead)
    \/ \E i \in DOMAIN log : n \in log[i].edits
    \/ \E t \in Tab : n \in fold[t].gone
    \/ n \in lost.discarded \cup lost.swept \cup lost.unsent \cup lost.torn \cup lost.pruned
    \/ backend > 1 /\ n \in lost.released
    \/ backend # meta.seen /\ n \in EditsOf(Bodies(outbox, Synced))

Resetting == \E t \in Tab : tab[t].phase \in {"wipe tables", "forget"}

(* With the lock, the cursor never passes an event that the rows do not    *)
(* show and that no inbox row or dead letter stands for, so that a reset   *)
(* brings everything back.  The exceptions (spoilt): a crash within a      *)
(* reset, a tab that still has the client id of before the reset, and a    *)
(* prune that began before it.  An event counts as stood for all the same  *)
(* (waived) when its dead letter was discarded, when another tab has       *)
(* parked it again as a retry deletes the dead letter, and when a prune    *)
(* that had listed its inbox row deletes it after a retry has opened it.   *)
CursorHonest ==
  (config.lock /\ ~spoilt /\ ~Resetting /\ meta.seen = backend) =>
    \A i \in 1..CursorOf(meta, inbox) :
      i \in DOMAIN log => log[i].eid \in shown \cup Unresolved \cup DOMAIN parked \cup lost.waived

-----------------------------------------------------------------------------
(* Liveness.  A pending event is sent or parked in the end: the tab that   *)
(* does not get the lock leaves it to the one that has it, and syncBatch   *)
(* holds it no longer than its delay.                                      *)
Drains == (Pending # {} /\ (config.delay > 0 \/ config.minEvents = 0)) ~> (Pending = {})
=============================================================================
