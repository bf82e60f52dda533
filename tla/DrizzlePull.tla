---------------------------- MODULE DrizzlePull ----------------------------
(***************************************************************************)
(* The inbound half of the drizzle engine over the Postgres server:        *)
(* pullInbox pages through the log from the saved cursor, keeps every      *)
(* event in the inbox and replays it into the domain tables; replayInbox   *)
(* does the same with what an earlier session left, before the engine      *)
(* exists.  Inbox row, domain write, mark and dead letter are separate     *)
(* writes, and a process may die between any two.                          *)
(*                                                                         *)
(* Unlike the collection client the engine writes the cursor once per      *)
(* page, replays an insert as a plain INSERT, and after a change of the    *)
(* backend keeps its inbox.                                                *)
(***************************************************************************)
EXTENDS PostgresLog, Integers

CONSTANTS
  MaxAttempts,  \* retry.maxAttempts, of replays here
  Unknown,      \* events this version of the application cannot read
  Configs       \* the configurations to explore

(* overlap: pullOverlap.  handling: unknownEventHandling.  policy:         *)
(* backendMismatch.  retired: events upcastEvent answers with null.  xid:  *)
(* the server's first transaction id.  The others are bounds: connections  *)
(* in use, groups begun, replacements of the server's store, pulls and     *)
(* domain writes that throw by chance, crashes.                            *)
ConfigType ==
  [overlap : Nat, handling : {"skip", "fail"}, policy : {"resetCursor", "fail", "ignore"},
   retired : SUBSET (Eids \ Unknown), xid : FirstXids,
   conns : Nat, pushes : Nat, swaps : Nat, failures : Nat, crashes : Nat]

ASSUME ClientAssumption ==
  MaxAttempts \in Nat \ {0} /\ Unknown \subseteq Eids /\ Configs \subseteq ConfigType

VARIABLES
  config,    \* one of Configs, fixed
  backend,   \* the store's backendId
  rows,      \* key -> [val, live]: the domain table
  inbox,     \* eventId -> [seq, sync, skipped, attempts] (persisted)
  dead,      \* eventIds with an inbound dead letter (persisted)
  cursor,    \* the saved cursor (persisted)
  seenBackend,  \* the saved backendId, None for none (persisted)
  sync,      \* the pull or the replay of the inbox in progress
  torn,      \* a crash came between the new identity and the zero cursor
  redone,    \* events whose replay a crash cut off before the mark
  failures, crashes

client == <<rows, inbox, dead, cursor, seenBackend, torn, redone>>
bounds == <<failures, crashes>>
vars   == <<server, config, backend, client, sync, bounds>>

Keys == {Event[e].key : e \in Eids}

Pass(ph, from, checked) ==
  [phase |-> ph, since |-> from, page |-> {}, todo |-> {}, seqs |-> [e \in {} |-> None],
   checked |-> checked]
Phase(ph) == Pass(ph, 0, FALSE)

Init ==
  /\ ServerInit
  /\ config \in Configs /\ nextXid = config.xid
  /\ backend = 1
  /\ rows = [k \in Keys |-> [val |-> None, live |-> FALSE]]
  /\ inbox = [e \in {} |-> None]
  /\ dead = {}
  /\ cursor = 0 /\ seenBackend = None
  /\ sync = Phase("idle")
  /\ torn = FALSE /\ redone = {}
  /\ failures = 0 /\ crashes = 0

(* Mutant: a skipped row does not count as resolved.                       *)
Replayed1 == {e \in DOMAIN inbox : inbox[e].sync /\ ~inbox[e].skipped}

Resolved == {e \in DOMAIN inbox : inbox[e].sync}

With(e, row) == [f \in DOMAIN inbox \cup {e} |-> IF f = e THEN row ELSE inbox[f]]
NewRow(seq) == [seq |-> seq, sync |-> FALSE, skipped |-> FALSE, attempts |-> 0]
Entry(e) == IF e \in DOMAIN inbox THEN inbox[e] ELSE NewRow(sync.seqs[e])

-----------------------------------------------------------------------------
(* pullInbox.                                                              *)

Since == IF cursor > config.overlap THEN cursor - config.overlap ELSE 0

StartPull ==
  /\ sync.phase = "idle"
  /\ sync' = Pass("fetch", Since, FALSE)
  /\ UNCHANGED <<server, config, backend, client, bounds>>

Mismatch == ~sync.checked /\ seenBackend \notin {None, backend}

(* A page arrives.  The identity is looked at once per pull.               *)
FetchPage ==
  /\ sync.phase = "fetch"
  /\ ~Mismatch \/ config.policy = "ignore"
  /\ seenBackend' = IF sync.checked \/ Mismatch THEN seenBackend ELSE backend
  /\ LET page == Page(sync.since)
     IN  sync' = IF page = {} THEN Phase("idle")
                 ELSE [sync EXCEPT !.phase = "items", !.page = page, !.todo = page,
                         !.seqs = [e \in page |-> stored[e]], !.checked = TRUE]
  /\ UNCHANGED <<server, config, backend, rows, inbox, dead, cursor, torn, redone, bounds>>

(* backendMismatch "fail", or the transport throws.                        *)
PullFails ==
  /\ sync.phase = "fetch"
  /\ ~(Mismatch /\ config.policy = "fail") => failures < config.failures
  /\ failures' = IF failures < config.failures THEN failures + 1 ELSE failures
  /\ sync' = Phase("idle")
  /\ UNCHANGED <<server, config, backend, client, crashes>>

(* The new identity, then the zero cursor; the inbox stays as it is.       *)
ResetCursor ==
  /\ sync.phase = "fetch" /\ Mismatch /\ config.policy = "resetCursor"
  /\ seenBackend' = backend
  /\ cursor' = 0
  /\ sync' = Pass("fetch", 0, TRUE)
  /\ torn' = FALSE
  /\ UNCHANGED <<server, config, backend, rows, inbox, dead, redone, bounds>>

(* Mutant: a page is not sorted.                                           *)
AtAnyItem(e) == sync.phase \in {"items", "manual", "boot"} /\ e \in sync.todo

(* The item at hand: the oldest one left, of a page or of the unresolved   *)
(* inbox rows, at startup or in a manualSync.                              *)
AtItem(e) ==
  /\ sync.phase \in {"items", "manual", "boot"} /\ e \in sync.todo
  /\ \A f \in sync.todo : sync.seqs[e] <= sync.seqs[f]

Next1(e) == sync' = [sync EXCEPT !.todo = @ \ {e}]

(* The device's own event: resolved without a replay.                      *)
SkipOwn(e) ==
  /\ AtItem(e) /\ sync.phase = "items" /\ Event[e].mine
  /\ inbox' = With(e, [Entry(e) EXCEPT !.sync = TRUE])
  /\ Next1(e)
  /\ UNCHANGED <<server, config, backend, rows, dead, cursor, seenBackend, torn, redone, bounds>>

SkipResolved(e) ==
  /\ AtItem(e) /\ ~Event[e].mine /\ e \in Resolved
  /\ Next1(e)
  /\ UNCHANGED <<server, config, backend, client, bounds>>

ToReplay(e) == AtItem(e) /\ ~(sync.phase = "items" /\ Event[e].mine) /\ e \notin Resolved

(* Mutant: the loop goes on to the next event.                             *)
GoOn == \E e \in Eids : AtItem(e) /\ Next1(e)

(* The loop ends here.  A manualSync goes on with the pull; otherwise a    *)
(* later sync starts from the saved cursor.                                *)
After(ph) == sync' = IF sync.phase = "manual" THEN Pass("fetch", Since, FALSE) ELSE Phase(ph)
Break == After("idle")

HaltAtUnknown(e) ==
  /\ ToReplay(e) /\ e \in Unknown /\ config.handling = "fail"
  /\ inbox' = With(e, Entry(e))
  /\ Break
  /\ UNCHANGED <<server, config, backend, rows, dead, cursor, seenBackend, torn, redone, bounds>>

(* unknownEventHandling "skip", or upcastEvent gives the event up.         *)
Readable(e) == e \notin Unknown \cup config.retired
SkipUnknown(e) ==
  /\ ToReplay(e) /\ ~Readable(e) /\ ~(e \in Unknown /\ config.handling = "fail")
  /\ inbox' = With(e, [Entry(e) EXCEPT !.sync = TRUE, !.skipped = TRUE])
  /\ Next1(e)
  /\ UNCHANGED <<server, config, backend, rows, dead, cursor, seenBackend, torn, redone, bounds>>

(* domainInsert fails on a row that is there, domainUpdate and             *)
(* domainDelete do nothing to a row that is not.                           *)
Fits(e) == Event[e].type = "insert" => ~rows[Event[e].key].live

Written(e) ==
  IF (Event[e].type = "insert") = rows[Event[e].key].live THEN rows
  ELSE [rows EXCEPT ![Event[e].key] = [val |-> e, live |-> Event[e].type # "delete"]]

Apply(e) ==
  /\ ToReplay(e) /\ Readable(e) /\ Fits(e)
  /\ rows' = Written(e)
  /\ inbox' = With(e, [Entry(e) EXCEPT !.sync = TRUE])
  /\ Next1(e)
  /\ UNCHANGED <<server, config, backend, dead, cursor, seenBackend, torn, redone, bounds>>

(* The domain write throws: it must, or the database is busy.              *)
MayThrow(e) == ToReplay(e) /\ Readable(e) /\ (Fits(e) => failures < config.failures)

Throws(e) ==
  /\ MayThrow(e)
  /\ failures' = IF Fits(e) THEN failures + 1 ELSE failures

(* Mutant: the attempt is not written.                                     *)
NoAttempts(e) == Entry(e).attempts

Attempts(e) == Entry(e).attempts + 1

FailAndRetry(e) ==
  /\ Throws(e) /\ Attempts(e) < MaxAttempts
  /\ inbox' = With(e, [Entry(e) EXCEPT !.attempts = Attempts(e)])
  /\ Break
  /\ UNCHANGED <<server, config, backend, rows, dead, cursor, seenBackend, torn, redone, crashes>>

(* The last attempt: dead letter, then mark.                               *)
FailAndPark(e) ==
  /\ Throws(e) /\ Attempts(e) >= MaxAttempts /\ e \notin dead
  /\ dead' = dead \cup {e}
  /\ inbox' = With(e, [Entry(e) EXCEPT !.sync = TRUE, !.skipped = TRUE, !.attempts = MaxAttempts])
  /\ Next1(e)
  /\ UNCHANGED <<server, config, backend, rows, cursor, seenBackend, torn, redone, crashes>>

(* The dead letter is there already, so its insert throws: the replay or   *)
(* the pull is over, and at startup the engine does not start.             *)
ParkThrows(e) ==
  /\ Throws(e) /\ Attempts(e) >= MaxAttempts /\ e \in dead
  /\ inbox' = With(e, [Entry(e) EXCEPT !.attempts = MaxAttempts])
  /\ After(IF sync.phase = "boot" THEN "down" ELSE "idle")
  /\ UNCHANGED <<server, config, backend, rows, dead, cursor, seenBackend, torn, redone, crashes>>

(* Mutant: off by one.                                                     *)
PastPage == 1 + CHOOSE n \in {sync.seqs[e] : e \in sync.page} :
                  \A e \in sync.page : sync.seqs[e] <= n

NextCursor == CHOOSE n \in {sync.seqs[e] : e \in sync.page} :
                \A e \in sync.page : sync.seqs[e] <= n

FinishPage ==
  /\ sync.phase = "items" /\ sync.todo = {}
  /\ cursor' = NextCursor
  /\ sync' = IF HasMore(sync.page)
             THEN Pass("fetch", NextCursor, sync.checked)
             ELSE Phase("idle")
  /\ UNCHANGED <<server, config, backend, rows, inbox, dead, seenBackend, torn, redone, bounds>>

-----------------------------------------------------------------------------
(* replayInbox over what is unresolved: at startup before anything else,   *)
(* and at the start of a manualSync.                                       *)

Unresolved == DOMAIN inbox \ Resolved

Start ==
  /\ sync.phase \in {"down", "idle"}
  /\ sync' = [sync EXCEPT !.phase = IF @ = "down" THEN "boot" ELSE "manual",
                          !.todo = Unresolved,
                          !.seqs = [e \in Unresolved |-> inbox[e].seq]]
  /\ UNCHANGED <<server, config, backend, client, bounds>>

Started ==
  /\ sync.phase \in {"boot", "manual"} /\ sync.todo = {}
  /\ After("idle")
  /\ UNCHANGED <<server, config, backend, client, bounds>>

Item == \E e \in Eids : \/ SkipOwn(e) \/ SkipResolved(e) \/ HaltAtUnknown(e) \/ SkipUnknown(e)
                        \/ Apply(e) \/ FailAndRetry(e) \/ FailAndPark(e) \/ ParkThrows(e)

Syncing == StartPull \/ FetchPage \/ ResetCursor \/ Item \/ FinishPage \/ Start \/ Started

-----------------------------------------------------------------------------
(* Crashes: between two steps, or between two writes of one.               *)

Restart ==
  /\ crashes < config.crashes
  /\ crashes' = crashes + 1
  /\ sync' = Phase("down")
  /\ UNCHANGED <<server, config, backend, failures>>

Crash == Restart /\ UNCHANGED client

(* The inbox row is in and nothing else.                                   *)
CrashBeforeApply ==
  /\ \E e \in Eids : ToReplay(e) /\ inbox' = With(e, Entry(e))
  /\ Restart
  /\ UNCHANGED <<rows, dead, cursor, seenBackend, torn, redone>>

(* The row is written and the inbox row not marked.                        *)
CrashBeforeMark ==
  /\ \E e \in Eids :
       /\ ToReplay(e) /\ Readable(e) /\ Fits(e)
       /\ inbox' = With(e, Entry(e)) /\ rows' = Written(e) /\ redone' = redone \cup {e}
  /\ Restart
  /\ UNCHANGED <<dead, cursor, seenBackend, torn>>

(* The dead letter is in and the inbox row not marked: the restart replays *)
(* the event once more.                                                    *)
CrashInPark ==
  /\ \E e \in Eids \ dead :
       /\ MayThrow(e) /\ Attempts(e) >= MaxAttempts
       /\ inbox' = With(e, [Entry(e) EXCEPT !.attempts = MaxAttempts])
       /\ dead' = dead \cup {e} /\ redone' = redone \cup {e}
  /\ Restart
  /\ UNCHANGED <<rows, cursor, seenBackend, torn>>

(* The new identity is in and the cursor is the old one.                   *)
CrashInReset ==
  /\ sync.phase = "fetch" /\ Mismatch /\ config.policy = "resetCursor"
  /\ seenBackend' = backend /\ torn' = TRUE
  /\ Restart
  /\ UNCHANGED <<rows, inbox, dead, cursor, redone>>

Crashes == Crash \/ CrashBeforeApply \/ CrashBeforeMark \/ CrashInPark \/ CrashInReset

-----------------------------------------------------------------------------
(* The store is replaced by an older copy of itself, or an empty one.      *)

SwapBackend ==
  /\ backend <= config.swaps
  /\ \E n \in 0..MaxSeq :
       LET kept == {e \in DOMAIN stored : stored[e] <= n}
       IN  /\ \A e \in kept : GroupOf(Event[e].group) \cap DOMAIN stored \subseteq kept
           /\ stored' = [e \in kept |-> stored[e]]
           /\ nextSeq' = n + 1 /\ n < nextSeq
  /\ backend' = backend + 1
  /\ conns' = [c \in Conns |-> Idle]
  /\ UNCHANGED <<nextXid, pushes, config, client, sync, bounds>>

-----------------------------------------------------------------------------
Busy(c) == conns'[c].phase # "idle"

Server == /\ ServerNext
          /\ pushes' <= config.pushes /\ Cardinality({c \in Conns : Busy(c)}) <= config.conns
          /\ UNCHANGED <<config, backend, client, sync, bounds>>

Next == Server \/ SwapBackend \/ Syncing \/ PullFails \/ Crashes

Spec == Init /\ [][Next]_vars

(* The application syncs again and again and is started again after a      *)
(* crash; a transaction that is open ends.                                 *)
ServerWorks == /\ \E c \in Conns : Serve(c) \/ RollBack(c)
               /\ UNCHANGED <<config, backend, client, sync, bounds>>

FairSpec == Spec /\ WF_vars(Syncing) /\ WF_vars(ServerWorks)

-----------------------------------------------------------------------------
(* Types.                                                                  *)

Seqs == 1..MaxSeq
PartialFn(f, S, T) == DOMAIN f \subseteq S /\ \A e \in DOMAIN f : f[e] \in T
InboxRow == [seq : Seqs, sync : BOOLEAN, skipped : BOOLEAN, attempts : 0..MaxAttempts]

TypeOK ==
  /\ PartialFn(stored, Eids, Seqs)
  /\ \A c \in Conns : /\ conns[c].phase \in {"idle", "begun", "inserting"}
                      /\ conns[c].todo \subseteq Eids
                      /\ PartialFn(conns[c].fresh, Eids, Seqs)
  /\ nextSeq \in 1..(MaxSeq + 1) /\ nextXid \in Nat
  /\ rows \in [Keys -> [val : Eids \cup {None}, live : BOOLEAN]]
  /\ PartialFn(inbox, Eids, InboxRow)
  /\ dead \subseteq DOMAIN inbox
  /\ cursor \in 0..MaxSeq
  /\ sync.phase \in {"idle", "fetch", "items", "manual", "boot", "down"}
  /\ sync.todo \subseteq DOMAIN sync.seqs

-----------------------------------------------------------------------------
(* Safety.                                                                 *)

Current == seenBackend = backend /\ ~torn

(* The saved cursor never passes an event that is not resolved: whatever   *)
(* commits when, fails or crashes, every event of the store up to the      *)
(* cursor has been applied, skipped or parked here.                        *)
NoEventMissed ==
  Current => \A e \in DOMAIN stored : stored[e] <= cursor => e \in Resolved

(* On one store, a device that has replayed every event of a row shows the *)
(* newest of them.                                                         *)
Replayed(k) == {e \in Eids : Readable(e) /\ ~Event[e].mine /\ Event[e].key = k}
RowsConverge ==
  backend = 1 => \A k \in Keys :
    LET S == Replayed(k) \cap DOMAIN stored
        exists == \E e \in S : /\ Event[e].type = "insert"
                               /\ \A f \in S : Event[f].type = "delete" => stored[f] < stored[e]
    IN  S \subseteq Resolved \ dead =>
          /\ rows[k].live = exists
          /\ exists => \A e \in S : stored[e] <= stored[rows[k].val]

(* An event the user is told could not be applied has not been applied,    *)
(* unless a crash kept one of its replays from being recorded.             *)
ParkedIsNotApplied == \A e \in dead \ redone : rows[Event[e].key].val # e

-----------------------------------------------------------------------------
(* Liveness.  What the server shows is resolved in the end.  The server    *)
(* shows what lies below the next transaction id; the device is stuck when *)
(* its policy is to stop, or when a crash left a dead letter whose event   *)
(* is still unresolved.                                                    *)
Stuck == \/ torn
         \/ dead \cap Unresolved # {}
         \/ config.policy # "resetCursor" /\ backend # 1
         \/ config.handling = "fail" /\ Unknown \cap DOMAIN stored # {}
Owed == {e \in DOMAIN stored : stored[e] < nextXid} \ Resolved
Delivered == (Owed # {}) ~> (Owed = {} \/ Stuck)
=============================================================================
