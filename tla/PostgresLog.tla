---------------------------- MODULE PostgresLog ----------------------------
(***************************************************************************)
(* The Postgres reference server: the event log of EventLog, on a database *)
(* whose transactions run side by side.  A BIGSERIAL hands out global_seq  *)
(* when a row is inserted, long before the row is visible, and a rolled    *)
(* back transaction leaves a gap.  An advisory lock lets one transaction   *)
(* at a time insert; a pull stays below the oldest open transaction id.    *)
(*                                                                         *)
(* What an event says is fixed (Event), so the log is eventId -> its       *)
(* global_seq.  Why a member of a group is refused (a conflict, a          *)
(* validation) is a choice here; EventLog decides conflicts.               *)
(***************************************************************************)
EXTENDS Naturals, FiniteSets

CONSTANTS
  Event,      \* eventId -> [group, place, key, type, mine]
  Conns,      \* connections of the pool
  PullLimit,  \* PULL_LIMIT
  FirstXids,  \* transaction ids the database may be at to begin with
  MaxPushes,  \* bound: groups begun
  MaxSeq      \* bound: sequence numbers drawn

Eids == DOMAIN Event

Types == {"insert", "update", "delete"}

None == 0

ASSUME EventAssumption ==
  /\ IsFiniteSet(Eids) /\ None \notin Eids
  /\ \A e \in Eids : /\ Event[e].group \in Nat /\ Event[e].place \in Nat
                     /\ Event[e].type \in Types /\ Event[e].mine \in BOOLEAN
ASSUME ServerAssumption ==
  /\ PullLimit \in Nat \ {0} /\ FirstXids \subseteq Nat \ {0}
  /\ MaxPushes \in Nat /\ MaxSeq \in Nat

VARIABLES
  stored,   \* eventId -> global_seq of the committed rows
  conns,    \* connection -> the transaction it runs
  nextSeq,  \* the BIGSERIAL
  nextXid,  \* the next transaction id
  pushes    \* groups begun so far

server == <<stored, conns, nextSeq, nextXid, pushes>>

Tx(phase, todo) == [phase |-> phase, todo |-> todo, fresh |-> [e \in {} |-> None],
                    refused |-> FALSE, xid |-> None]
Idle == Tx("idle", {})

ServerInit ==
  /\ stored = [e \in {} |-> None]
  /\ conns = [c \in Conns |-> Idle]
  /\ nextSeq = 1 /\ nextXid \in FirstXids
  /\ pushes = 0

GroupOf(n) == {e \in Eids : Event[e].group = n}

-----------------------------------------------------------------------------
(* pushEvents, one transaction group on one connection.                    *)

(* pool.connect hands out a connection that is not in use.                 *)
Free == {c \in Conns : conns[c].phase = "idle"}

(* BEGIN.  A device may push a group again, and two tabs may push it at    *)
(* the same time.                                                          *)
Begin(c, e) ==
  /\ pushes < MaxPushes /\ Free # {} /\ c = CHOOSE d \in Free : TRUE
  /\ conns' = [conns EXCEPT ![c] = Tx("begun", GroupOf(Event[e].group))]
  /\ pushes' = pushes + 1
  /\ UNCHANGED <<stored, nextSeq, nextXid>>

(* Mutant: the lock is not taken.                                          *)
StartAnyway(c) ==
  /\ conns[c].phase = "begun"
  /\ conns' = [conns EXCEPT ![c].phase = "inserting"]
  /\ UNCHANGED <<stored, nextSeq, nextXid, pushes>>

(* pg_advisory_xact_lock, held to the end of the transaction.              *)
TakeLock(c) ==
  /\ conns[c].phase = "begun"
  /\ \A d \in Conns : conns[d].phase # "inserting"
  /\ conns' = [conns EXCEPT ![c].phase = "inserting"]
  /\ UNCHANGED <<stored, nextSeq, nextXid, pushes>>

(* The group's events in the order of the request.                         *)
AtEvent(c, e) ==
  /\ conns[c].phase = "inserting" /\ e \in conns[c].todo
  /\ \A f \in conns[c].todo : Event[e].place <= Event[f].place

Done(c, e) == conns[c].todo \ {e}

(* A row that is there already: the sequence number it has is handed back. *)
Dedup(c, e) ==
  /\ AtEvent(c, e) /\ e \in DOMAIN stored
  /\ conns' = [conns EXCEPT ![c].todo = Done(c, e)]
  /\ UNCHANGED <<stored, nextSeq, nextXid, pushes>>

Refuse(c, e) ==
  /\ AtEvent(c, e) /\ e \notin DOMAIN stored
  /\ conns' = [conns EXCEPT ![c].todo = Done(c, e), ![c].refused = TRUE]
  /\ UNCHANGED <<stored, nextSeq, nextXid, pushes>>

(* INSERT ... RETURNING global_seq.  The first one gives the transaction   *)
(* its id.                                                                 *)
NewRows(c, e) == [f \in DOMAIN conns[c].fresh \cup {e} |->
                    IF f = e THEN nextSeq ELSE conns[c].fresh[f]]
NewXid(c) == IF conns[c].xid = None THEN nextXid ELSE conns[c].xid

Insert(c, e) ==
  /\ AtEvent(c, e) /\ e \notin DOMAIN stored /\ nextSeq <= MaxSeq
  /\ conns' = [conns EXCEPT ![c] = [@ EXCEPT !.todo = Done(c, e), !.fresh = NewRows(c, e),
                                             !.xid = NewXid(c)]]
  /\ nextXid' = IF conns[c].xid = None THEN nextXid + 1 ELSE nextXid
  /\ nextSeq' = nextSeq + 1
  /\ UNCHANGED <<stored, pushes>>

Committed(c) == [e \in DOMAIN stored \cup DOMAIN conns[c].fresh |->
                   IF e \in DOMAIN stored THEN stored[e] ELSE conns[c].fresh[e]]

(* Mutant: a refused member does not roll its group back.                  *)
FinishCommitting(c) ==
  /\ conns[c].phase = "inserting" /\ conns[c].todo = {}
  /\ stored' = Committed(c)
  /\ conns' = [conns EXCEPT ![c] = Idle]
  /\ UNCHANGED <<nextSeq, nextXid, pushes>>

(* COMMIT, or ROLLBACK when a member was refused.                          *)
Finish(c) ==
  /\ conns[c].phase = "inserting" /\ conns[c].todo = {}
  /\ stored' = IF conns[c].refused THEN stored ELSE Committed(c)
  /\ conns' = [conns EXCEPT ![c] = Idle]
  /\ UNCHANGED <<nextSeq, nextXid, pushes>>

(* A failing statement, or the connection breaks.                          *)
RollBack(c) ==
  /\ conns[c].phase # "idle"
  /\ conns' = [conns EXCEPT ![c] = Idle]
  /\ UNCHANGED <<stored, nextSeq, nextXid, pushes>>

Serve(c) == \/ TakeLock(c) \/ Finish(c)
            \/ \E e \in Eids : Dedup(c, e) \/ Insert(c, e)

ServerNext ==
  \E c \in Conns : \/ Serve(c) \/ RollBack(c)
                   \/ \E e \in Eids : Begin(c, e) \/ Refuse(c, e)

-----------------------------------------------------------------------------
(* pullEvents, one statement on one snapshot.                              *)

Open == {conns[c].xid : c \in Conns} \ {None}

(* pg_snapshot_xmin: the oldest open transaction id, else the next one.    *)
BelowXmin(n) == n < nextXid /\ \A x \in Open : n < x

Visible(since) == {e \in DOMAIN stored : stored[e] > since /\ BelowXmin(stored[e])}

Page(since) ==
  {e \in Visible(since) :
     Cardinality({f \in Visible(since) : stored[f] <= stored[e]}) <= PullLimit}

HasMore(page) == Cardinality(page) = PullLimit

-----------------------------------------------------------------------------
(* What the lock is for.                                                   *)

(* No open transaction sits on a sequence number below a committed one, so *)
(* whatever a puller has seen, nothing appears behind it later.            *)
CommitsInOrder ==
  \A c \in Conns : \A f \in DOMAIN conns[c].fresh :
    \A e \in DOMAIN stored : stored[e] < conns[c].fresh[f]

(* A transaction group is in the log as a whole or not at all.             *)
GroupsWhole ==
  \A e, f \in Eids : Event[e].group = Event[f].group /\ e \in DOMAIN stored
                       => f \in DOMAIN stored
=============================================================================
