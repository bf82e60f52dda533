-------------------------- MODULE DrizzlePullProofs --------------------------
(***************************************************************************)
(* Proofs about the drizzle engine pulling from the Postgres server, for   *)
(* any events, connections, page size, attempts and configurations.        *)
(***************************************************************************)
EXTENDS DrizzlePull, Extrema

Finite(S) == UNION {[D -> Seqs] : D \in SUBSET S}

-----------------------------------------------------------------------------
(* What makes the server's promises inductive.                             *)

ConnType == [phase : {"idle", "begun", "inserting"}, todo : SUBSET Eids, fresh : Finite(Eids),
             refused : BOOLEAN, xid : Nat]

ServerType ==
  /\ stored \in Finite(Eids)
  /\ conns \in [Conns -> ConnType]
  /\ nextSeq \in 1..(MaxSeq + 1) /\ nextXid \in Nat

(* The advisory lock: one transaction inserts, and only it has new rows.   *)
OneInserts ==
  /\ \A c, d \in Conns : conns[c].phase = "inserting" /\ conns[d].phase = "inserting" => c = d
  /\ \A c \in Conns : DOMAIN conns[c].fresh # {} => conns[c].phase = "inserting"

SeqsDrawn ==
  /\ \A e \in DOMAIN stored : stored[e] < nextSeq
  /\ \A c \in Conns : \A e \in DOMAIN conns[c].fresh : conns[c].fresh[e] < nextSeq

(* A transaction that will commit still has its whole group.               *)
InWork(c) == conns[c].todo \cup DOMAIN conns[c].fresh
GroupKept ==
  \A c \in Conns : ~conns[c].refused =>
    \A e \in InWork(c), f \in Eids : Event[e].group = Event[f].group
                                       => f \in InWork(c) \cup DOMAIN stored

ServerInv == ServerType /\ OneInserts /\ SeqsDrawn /\ CommitsInOrder /\ GroupKept /\ GroupsWhole

LEMMA TxType ==
  ASSUME NEW ph \in {"idle", "begun", "inserting"}, NEW todo \in SUBSET Eids
  PROVE  Tx(ph, todo) \in ConnType
<1>1. [e \in {} |-> None] \in [{} -> Seqs]
  OBVIOUS
<1>2. [e \in {} |-> None] \in Finite(Eids)
  BY <1>1 DEF Finite
<1>3. QED
  BY <1>2 DEF Tx, ConnType, None

LEMMA ServerInitInv == ServerInit => ServerInv
<1> SUFFICES ASSUME ServerInit PROVE ServerInv
  OBVIOUS
<1> USE DEF ServerInit
<1>1. Idle \in ConnType
  BY TxType DEF Idle
<1>2. ServerType
  <2>1. [e \in {} |-> None] \in [{} -> Seqs]
    OBVIOUS
  <2>2. stored \in Finite(Eids)
    BY <2>1 DEF Finite
  <2>3. nextSeq \in 1..(MaxSeq + 1) /\ nextXid \in Nat
    BY ServerAssumption
  <2>4. QED
    BY <1>1, <2>2, <2>3 DEF ServerType
<1>3. \A c \in Conns : /\ conns[c].phase = "idle" /\ conns[c].todo = {}
                       /\ DOMAIN conns[c].fresh = {}
  BY DEF Idle, Tx
<1>4. QED
  BY <1>2, <1>3 DEF ServerInv, OneInserts, SeqsDrawn, CommitsInOrder, GroupKept, InWork, GroupsWhole

-----------------------------------------------------------------------------
(* The server's steps.                                                     *)

LEMMA FiniteType ==
  ASSUME NEW S, NEW f \in Finite(S)
  PROVE  DOMAIN f \subseteq S /\ f \in [DOMAIN f -> Seqs]
BY DEF Finite

LEMMA BeginInv ==
  ASSUME ServerInv, NEW c \in Conns, NEW e \in Eids, Begin(c, e)
  PROVE  ServerInv'
<1> DEFINE new == Tx("begun", GroupOf(Event[e].group))
<1>1. /\ conns' = [conns EXCEPT ![c] = new]
      /\ UNCHANGED <<stored, nextSeq, nextXid>>
  BY DEF Begin
<1>2. /\ new \in ConnType /\ new.phase = "begun" /\ DOMAIN new.fresh = {}
      /\ new.todo = GroupOf(Event[e].group)
  BY TxType DEF GroupOf, Tx
<1> HIDE DEF new
<1>3. conns \in [Conns -> ConnType] /\ conns' \in [Conns -> ConnType]
  BY <1>1, <1>2 DEF ServerInv, ServerType
<1>4. \A d \in Conns : conns'[d] = IF d = c THEN new ELSE conns[d]
  BY <1>1, <1>3
<1>5. OneInserts'
  BY <1>2, <1>4 DEF ServerInv, OneInserts
<1>6. SeqsDrawn' /\ CommitsInOrder'
  BY <1>1, <1>2, <1>4 DEF ServerInv, SeqsDrawn, CommitsInOrder
<1>7. GroupKept'
  BY <1>1, <1>2, <1>4 DEF ServerInv, GroupKept, InWork, GroupOf
<1>8. QED
  BY <1>1, <1>3, <1>5, <1>6, <1>7 DEF ServerInv, ServerType, GroupsWhole

(* A step of one connection that draws no number and commits nothing.      *)
LEMMA QuietInv ==
  ASSUME ServerInv, NEW c \in Conns, NEW r \in ConnType,
         UNCHANGED <<stored, nextSeq, nextXid>>, conns' = [conns EXCEPT ![c] = r],
         r.fresh = conns[c].fresh, r.phase = "inserting",
         \A d \in Conns : conns[d].phase = "inserting" => d = c,
         ~r.refused => ~conns[c].refused,
         ~r.refused => conns[c].todo \subseteq r.todo \cup DOMAIN stored,
         r.todo \subseteq conns[c].todo
  PROVE  ServerInv'
<1>1. conns \in [Conns -> ConnType] /\ conns' \in [Conns -> ConnType]
  BY DEF ServerInv, ServerType
<1>2. \A d \in Conns : conns'[d] = IF d = c THEN r ELSE conns[d]
  BY <1>1
<1>3. \A d \in Conns : conns'[d].fresh = conns[d].fresh
  BY <1>2
<1>4. OneInserts'
  BY <1>2, <1>3 DEF ServerInv, OneInserts
<1>5. SeqsDrawn' /\ CommitsInOrder'
  BY <1>3 DEF ServerInv, SeqsDrawn, CommitsInOrder
<1>6. GroupKept'
  <2> SUFFICES ASSUME NEW d \in Conns, ~conns'[d].refused,
                      NEW e \in InWork(d)', NEW f \in Eids, Event[e].group = Event[f].group
               PROVE  f \in InWork(d)' \cup DOMAIN stored
    BY DEF GroupKept
  <2>1. ~conns[d].refused /\ e \in InWork(d)
    BY <1>2, <1>3 DEF InWork
  <2>2. f \in InWork(d) \cup DOMAIN stored
    BY <2>1 DEF ServerInv, GroupKept
  <2>3. QED
    BY <1>2, <1>3, <2>2 DEF InWork
<1>7. QED
  BY <1>1, <1>4, <1>5, <1>6 DEF ServerInv, ServerType, GroupsWhole

LEMMA TakeLockInv ==
  ASSUME ServerInv, NEW c \in Conns, TakeLock(c)
  PROVE  ServerInv'
<1> DEFINE r == [conns[c] EXCEPT !.phase = "inserting"]
<1>1. conns[c] \in ConnType
  BY DEF ServerInv, ServerType
<1>2. /\ r \in ConnType /\ r.fresh = conns[c].fresh /\ r.phase = "inserting"
      /\ r.todo = conns[c].todo /\ r.refused = conns[c].refused
  BY <1>1 DEF ConnType
<1>3. conns' = [conns EXCEPT ![c] = r] /\ UNCHANGED <<stored, nextSeq, nextXid>>
  BY <1>1 DEF TakeLock
<1>4. \A d \in Conns : conns[d].phase # "inserting"
  BY DEF TakeLock
<1> HIDE DEF r
<1>5. QED
  BY <1>2, <1>3, <1>4, QuietInv

LEMMA DedupInv ==
  ASSUME ServerInv, NEW c \in Conns, NEW e \in Eids, Dedup(c, e)
  PROVE  ServerInv'
<1> DEFINE r == [conns[c] EXCEPT !.todo = conns[c].todo \ {e}]
<1>1. conns[c] \in ConnType /\ conns[c].phase = "inserting" /\ e \in DOMAIN stored
  BY DEF ServerInv, ServerType, Dedup, AtEvent
<1>2. /\ r \in ConnType /\ r.fresh = conns[c].fresh /\ r.phase = "inserting"
      /\ r.todo = conns[c].todo \ {e} /\ r.refused = conns[c].refused
  BY <1>1 DEF ConnType
<1>3. conns' = [conns EXCEPT ![c] = r] /\ UNCHANGED <<stored, nextSeq, nextXid>>
  BY <1>1 DEF Dedup, Done
<1>4. \A d \in Conns : conns[d].phase = "inserting" => d = c
  BY <1>1 DEF ServerInv, OneInserts
<1> HIDE DEF r
<1>5. QED
  BY <1>1, <1>2, <1>3, <1>4, QuietInv

LEMMA RefuseInv ==
  ASSUME ServerInv, NEW c \in Conns, NEW e \in Eids, Refuse(c, e)
  PROVE  ServerInv'
<1> DEFINE r == [conns[c] EXCEPT !.todo = conns[c].todo \ {e}, !.refused = TRUE]
<1>1. conns[c] \in ConnType /\ conns[c].phase = "inserting"
  BY DEF ServerInv, ServerType, Refuse, AtEvent
<1>2. /\ r \in ConnType /\ r.fresh = conns[c].fresh /\ r.phase = "inserting"
      /\ r.todo = conns[c].todo \ {e} /\ r.refused
  BY <1>1 DEF ConnType
<1>3. conns' = [conns EXCEPT ![c] = r] /\ UNCHANGED <<stored, nextSeq, nextXid>>
  BY <1>1 DEF Refuse, Done
<1>4. \A d \in Conns : conns[d].phase = "inserting" => d = c
  BY <1>1 DEF ServerInv, OneInserts
<1> HIDE DEF r
<1>5. QED
  BY <1>1, <1>2, <1>3, <1>4, QuietInv

(* A new row gets a number above every committed one.                      *)
LEMMA InsertInv ==
  ASSUME ServerInv, NEW c \in Conns, NEW e \in Eids, Insert(c, e)
  PROVE  ServerInv'
<1> DEFINE fresh == NewRows(c, e)
           xid == NewXid(c)
           r == [conns[c] EXCEPT !.todo = conns[c].todo \ {e}, !.fresh = fresh, !.xid = xid]
<1>1. /\ conns[c] \in ConnType /\ conns[c].phase = "inserting" /\ e \notin DOMAIN stored
      /\ nextSeq \in 1..MaxSeq /\ nextXid \in Nat
  <2>1. conns[c] \in ConnType /\ nextSeq \in 1..(MaxSeq + 1) /\ nextXid \in Nat
    BY DEF ServerInv, ServerType
  <2>2. conns[c].phase = "inserting" /\ e \notin DOMAIN stored /\ nextSeq <= MaxSeq
    BY DEF Insert, AtEvent
  <2>3. QED
    BY <2>1, <2>2, ServerAssumption
<1>2. fresh \in Finite(Eids) /\ DOMAIN fresh = DOMAIN conns[c].fresh \cup {e}
  <2>1. DOMAIN conns[c].fresh \subseteq Eids /\ \A f \in DOMAIN conns[c].fresh : conns[c].fresh[f] \in Seqs
    BY <1>1, FiniteType DEF ConnType
  <2>2. fresh \in [DOMAIN conns[c].fresh \cup {e} -> Seqs]
    BY <1>1, <2>1 DEF Seqs, NewRows
  <2>3. QED
    BY <2>1, <2>2 DEF Finite
<1>3. \A f \in DOMAIN fresh : fresh[f] = nextSeq \/ (f \in DOMAIN conns[c].fresh /\ fresh[f] = conns[c].fresh[f])
  BY DEF NewRows
<1>4. xid \in Nat
  BY <1>1 DEF ConnType, NewXid
<1>5. /\ conns' = [conns EXCEPT ![c] = r] /\ stored' = stored
      /\ nextSeq' = nextSeq + 1 /\ nextXid' \in Nat
  BY <1>1 DEF Insert, Done
<1> HIDE DEF fresh, xid
<1>6. /\ r \in ConnType /\ r.fresh = fresh /\ r.phase = "inserting"
      /\ r.todo = conns[c].todo \ {e} /\ r.refused = conns[c].refused
  BY <1>1, <1>2, <1>4 DEF ConnType
<1> HIDE DEF r
<1>7. conns \in [Conns -> ConnType] /\ conns' \in [Conns -> ConnType]
  BY <1>5, <1>6 DEF ServerInv, ServerType
<1>8. \A d \in Conns : conns'[d] = IF d = c THEN r ELSE conns[d]
  BY <1>5, <1>7
<1>9. OneInserts'
  BY <1>1, <1>6, <1>8 DEF ServerInv, OneInserts
<1>10. (\A f \in DOMAIN stored : stored[f] \in Nat) /\ \A d \in Conns : \A f \in DOMAIN conns[d].fresh : conns[d].fresh[f] \in Nat
  BY <1>7, FiniteType DEF ServerInv, ServerType, ConnType, Seqs
<1>11. SeqsDrawn' /\ CommitsInOrder'
  <2>1. \A f \in DOMAIN stored : stored[f] < nextSeq
    BY DEF ServerInv, SeqsDrawn
  <2>2. \A d \in Conns : \A f \in DOMAIN conns'[d].fresh :
          \/ conns'[d].fresh[f] = nextSeq
          \/ f \in DOMAIN conns[d].fresh /\ conns'[d].fresh[f] = conns[d].fresh[f]
    BY <1>3, <1>6, <1>8
  <2>3. SeqsDrawn'
    BY <1>1, <1>5, <1>10, <2>1, <2>2 DEF ServerInv, SeqsDrawn
  <2>4. CommitsInOrder'
    BY <1>5, <2>1, <2>2 DEF ServerInv, CommitsInOrder
  <2>5. QED
    BY <2>3, <2>4
<1>12. GroupKept'
  <2>1. \A d \in Conns : /\ InWork(d) \subseteq Eids
                          /\ (InWork(d)' = InWork(d) \/ (d = c /\ InWork(d)' = InWork(d) \cup {e}))
    <3>1. InWork(c)' = InWork(c) \cup {e}
      BY <1>2, <1>6, <1>8 DEF InWork
    <3>2. \A d \in Conns \ {c} : InWork(d)' = InWork(d)
      BY <1>8 DEF InWork
    <3>3. \A d \in Conns : InWork(d) \subseteq Eids
      BY <1>7, FiniteType DEF InWork, ConnType
    <3>4. QED
      BY <3>1, <3>2, <3>3
  <2>2. e \in InWork(c)
    BY DEF Insert, AtEvent, InWork
  <2>3. \A d \in Conns : conns'[d].refused = conns[d].refused
    BY <1>6, <1>8
  <2>4. QED
    BY <1>5, <2>1, <2>2, <2>3 DEF ServerInv, GroupKept
<1>13. nextSeq' \in 1..(MaxSeq + 1)
  BY <1>1, <1>5, ServerAssumption
<1>14. QED
  BY <1>5, <1>7, <1>9, <1>11, <1>12, <1>13 DEF ServerInv, ServerType, GroupsWhole

(* A connection that is given back has nothing in hand.                    *)
LEMMA IdleInv ==
  ASSUME ServerInv, NEW c \in Conns, conns' = [conns EXCEPT ![c] = Idle],
         stored' \in Finite(Eids), UNCHANGED <<nextSeq, nextXid>>,
         DOMAIN stored \subseteq DOMAIN stored',
         \A e \in DOMAIN stored' : stored'[e] < nextSeq,
         \A d \in Conns \ {c} : \A f \in DOMAIN conns[d].fresh :
            \A e \in DOMAIN stored' : stored'[e] < conns[d].fresh[f],
         GroupsWhole'
  PROVE  ServerInv'
<1>1. Idle \in ConnType /\ Idle.phase = "idle" /\ Idle.todo = {} /\ DOMAIN Idle.fresh = {}
  BY TxType DEF Idle, Tx
<1>2. conns \in [Conns -> ConnType] /\ conns' \in [Conns -> ConnType]
  BY <1>1 DEF ServerInv, ServerType
<1>3. \A d \in Conns : conns'[d] = IF d = c THEN Idle ELSE conns[d]
  BY <1>2
<1>4. OneInserts' /\ SeqsDrawn' /\ CommitsInOrder'
  BY <1>1, <1>3 DEF ServerInv, OneInserts, SeqsDrawn, CommitsInOrder
<1>5. GroupKept'
  BY <1>1, <1>3 DEF ServerInv, GroupKept, InWork
<1>6. QED
  BY <1>2, <1>4, <1>5 DEF ServerInv, ServerType

LEMMA RollBackInv ==
  ASSUME ServerInv, NEW c \in Conns, RollBack(c)
  PROVE  ServerInv'
<1>1. conns' = [conns EXCEPT ![c] = Idle] /\ UNCHANGED <<stored, nextSeq, nextXid>>
  BY DEF RollBack
<1>2. GroupsWhole' /\ stored' \in Finite(Eids)
  BY <1>1 DEF ServerInv, ServerType, GroupsWhole
<1>3. QED
  BY <1>1, <1>2, IdleInv DEF ServerInv, SeqsDrawn, CommitsInOrder

(* The rows of a commit come after all that were there.                    *)
LEMMA CommittedType ==
  ASSUME ServerInv, NEW c \in Conns
  PROVE  /\ Committed(c) \in Finite(Eids)
         /\ DOMAIN Committed(c) = DOMAIN stored \cup DOMAIN conns[c].fresh
         /\ \A e \in DOMAIN stored : Committed(c)[e] = stored[e]
         /\ \A e \in DOMAIN conns[c].fresh \ DOMAIN stored : Committed(c)[e] = conns[c].fresh[e]
         /\ \A e \in DOMAIN Committed(c) : Committed(c)[e] < nextSeq
<1>1. DOMAIN stored \subseteq Eids /\ \A e \in DOMAIN stored : stored[e] \in Seqs
  BY FiniteType DEF ServerInv, ServerType
<1>2. DOMAIN conns[c].fresh \subseteq Eids /\ \A e \in DOMAIN conns[c].fresh : conns[c].fresh[e] \in Seqs
  BY FiniteType DEF ServerInv, ServerType, ConnType
<1>3. Committed(c) \in [DOMAIN stored \cup DOMAIN conns[c].fresh -> Seqs]
  BY <1>1, <1>2 DEF Committed
<1>4. Committed(c) \in Finite(Eids)
  BY <1>1, <1>2, <1>3 DEF Finite
<1>5. QED
  BY <1>4 DEF Committed, ServerInv, SeqsDrawn

LEMMA FinishInv ==
  ASSUME ServerInv, NEW c \in Conns, Finish(c)
  PROVE  ServerInv'
<1>1. /\ conns' = [conns EXCEPT ![c] = Idle] /\ UNCHANGED <<nextSeq, nextXid>>
      /\ conns[c].phase = "inserting" /\ conns[c].todo = {}
  BY DEF Finish
<1>2. \A d \in Conns \ {c} : DOMAIN conns[d].fresh = {}
  BY <1>1 DEF ServerInv, OneInserts
<1>3. CASE conns[c].refused
  <2>1. stored' = stored
    BY <1>3 DEF Finish
  <2>2. GroupsWhole' /\ stored' \in Finite(Eids)
    BY <2>1 DEF ServerInv, ServerType, GroupsWhole
  <2>3. QED
    BY <1>1, <1>2, <2>1, <2>2, IdleInv DEF ServerInv, SeqsDrawn
<1>4. CASE ~conns[c].refused
  <2>1. stored' = Committed(c)
    BY <1>4 DEF Finish
  <2>2. GroupsWhole'
    <3> SUFFICES ASSUME NEW e \in Eids, NEW f \in Eids, Event[e].group = Event[f].group,
                        e \in DOMAIN stored'
                 PROVE  f \in DOMAIN stored'
      BY DEF GroupsWhole
    <3>1. CASE e \in DOMAIN stored
      BY <2>1, <3>1, CommittedType DEF ServerInv, GroupsWhole
    <3>2. CASE e \in DOMAIN conns[c].fresh
      <4>1. f \in InWork(c) \cup DOMAIN stored
        BY <1>4, <3>2 DEF ServerInv, GroupKept, InWork
      <4>2. f \in DOMAIN conns[c].fresh \cup DOMAIN stored
        BY <1>1, <4>1 DEF InWork
      <4>3. QED
        BY <2>1, <4>2, CommittedType
    <3>3. QED
      BY <2>1, <3>1, <3>2, CommittedType
  <2>3. QED
    BY <1>1, <1>2, <2>1, <2>2, CommittedType, IdleInv
<1>5. QED
  BY <1>3, <1>4

LEMMA ServerNextInv ==
  ASSUME ServerInv, ServerNext
  PROVE  ServerInv'
BY BeginInv, TakeLockInv, DedupInv, RefuseInv, InsertInv, FinishInv, RollBackInv
   DEF ServerNext, Serve

(* A store replaced by an older copy of itself still has whole groups.     *)
LEMMA SwapInv ==
  ASSUME ServerInv, SwapBackend
  PROVE  ServerInv'
<1>1. PICK n \in 0..MaxSeq :
        LET kept == {e \in DOMAIN stored : stored[e] <= n}
        IN  /\ \A e \in kept : GroupOf(Event[e].group) \cap DOMAIN stored \subseteq kept
            /\ stored' = [e \in kept |-> stored[e]]
            /\ nextSeq' = n + 1 /\ n < nextSeq
  BY DEF SwapBackend
<1> DEFINE kept == {e \in DOMAIN stored : stored[e] <= n}
<1>2. conns' = [c \in Conns |-> Idle] /\ nextXid' = nextXid
  BY DEF SwapBackend
<1>3. DOMAIN stored \subseteq Eids /\ \A e \in DOMAIN stored : stored[e] \in Seqs
  BY FiniteType DEF ServerInv, ServerType
<1>4. kept \subseteq Eids /\ stored' \in [kept -> Seqs] /\ DOMAIN stored' = kept
  BY <1>1, <1>3
<1>5. Idle \in ConnType /\ Idle.phase = "idle" /\ Idle.todo = {} /\ DOMAIN Idle.fresh = {}
  BY TxType DEF Idle, Tx
<1>6. \A c \in Conns : conns'[c] = Idle
  BY <1>2
<1>7. ServerType'
  <2>1. stored' \in Finite(Eids)
    BY <1>4 DEF Finite
  <2>2. nextSeq' \in 1..(MaxSeq + 1)
    BY <1>1, ServerAssumption
  <2>3. QED
    BY <1>2, <1>5, <2>1, <2>2 DEF ServerInv, ServerType
<1>8. OneInserts' /\ CommitsInOrder' /\ GroupKept'
  BY <1>5, <1>6 DEF OneInserts, CommitsInOrder, GroupKept, InWork
<1>9. SeqsDrawn'
  <2>1. \A e \in DOMAIN stored' : stored'[e] \in Seqs /\ stored'[e] <= n
    BY <1>1, <1>4
  <2>2. QED
    BY <1>1, <1>5, <1>6, <2>1, ServerAssumption DEF SeqsDrawn, Seqs
<1>10. GroupsWhole'
  <2> SUFFICES ASSUME NEW e \in Eids, NEW f \in Eids, Event[e].group = Event[f].group, e \in kept
               PROVE  f \in kept
    BY <1>4 DEF GroupsWhole
  <2>1. f \in DOMAIN stored
    BY DEF ServerInv, GroupsWhole
  <2>2. f \in GroupOf(Event[e].group)
    BY DEF GroupOf
  <2>3. QED
    BY <1>1, <2>1, <2>2
<1>11. QED
  BY <1>7, <1>8, <1>9, <1>10 DEF ServerInv

-----------------------------------------------------------------------------
(* What makes the client's promises inductive.                             *)

SyncType ==
  [phase : {"idle", "fetch", "items", "manual", "boot", "down"}, since : Nat, page : SUBSET Eids,
   todo : SUBSET Eids, seqs : Finite(Eids), checked : BOOLEAN]

ClientType ==
  /\ config \in Configs
  /\ backend \in Nat \ {0} /\ seenBackend \in 0..backend
  /\ rows \in [Keys -> [val : Eids \cup {None}, live : BOOLEAN]]
  /\ PartialFn(inbox, Eids, InboxRow)
  /\ dead \subseteq DOMAIN inbox
  /\ cursor \in 0..MaxSeq
  /\ sync \in SyncType
  /\ sync.todo \subseteq DOMAIN sync.seqs
  /\ torn \in BOOLEAN

(* A page in hand has an event, and what is left to do is part of it.      *)
PageInHand ==
  sync.phase = "items" => /\ sync.page # {} /\ sync.page \subseteq DOMAIN sync.seqs

(* Before the first page there is no cursor.                               *)
Unseen == seenBackend = None => /\ cursor = 0 /\ sync.since = 0 /\ ~torn
                                /\ sync.phase # "items" /\ ~sync.checked

(* The cursor does not run ahead of the log.                               *)
Reached(n) == n = 0 \/ \E e \in DOMAIN stored : n <= stored[e]
NotAhead == Current => /\ Reached(cursor)
                       /\ sync.phase = "fetch" => Reached(sync.since)

(* Neither the start of a fetch nor a page in hand leaves a gap.           *)
NoGap ==
  Current =>
    /\ sync.phase = "fetch" =>
         \A e \in DOMAIN stored : stored[e] <= sync.since => e \in Resolved
    /\ sync.phase = "items" =>
         \A f \in sync.page :
           /\ f \in DOMAIN stored /\ sync.seqs[f] = stored[f]
           /\ \A e \in DOMAIN stored : stored[e] <= stored[f] => e \in Resolved \cup sync.todo

(* A dead letter's event is resolved, and one that is shown is, too, unless *)
(* a crash kept its mark from being written.                               *)
MarksFollow ==
  /\ dead \subseteq Resolved \cup redone
  /\ \A k \in Keys : rows[k].val \in {None} \cup Resolved \cup redone

ClientInv == /\ ClientType /\ PageInHand /\ Unseen /\ NotAhead /\ NoGap /\ NoEventMissed
             /\ MarksFollow /\ ParkedIsNotApplied

Inv == ServerInv /\ ClientInv

-----------------------------------------------------------------------------
(* Facts about the operators.                                              *)

LEMMA PassType ==
  ASSUME NEW ph \in {"idle", "fetch", "items", "manual", "boot", "down"}, NEW n \in Nat, NEW b \in BOOLEAN
  PROVE  /\ Pass(ph, n, b) \in SyncType
         /\ Pass(ph, n, b).phase = ph /\ Pass(ph, n, b).since = n
         /\ Pass(ph, n, b).checked = b /\ Pass(ph, n, b).todo = {}
<1>1. [e \in {} |-> None] \in [{} -> Seqs]
  OBVIOUS
<1>2. [e \in {} |-> None] \in Finite(Eids)
  BY <1>1 DEF Finite
<1>3. QED
  BY <1>2 DEF Pass, SyncType

LEMMA InitInv == Init => Inv
<1> SUFFICES ASSUME Init PROVE Inv
  OBVIOUS
<1>1. ServerInv
  BY ServerInitInv DEF Init
<1>2. /\ sync \in SyncType /\ sync.phase = "idle" /\ sync.since = 0 /\ ~sync.checked
      /\ sync.todo = {}
  <2>1. sync = Pass("idle", 0, FALSE)
    BY DEF Init, Phase
  <2>2. Pass("idle", 0, FALSE) \in SyncType
    BY PassType
  <2>3. QED
    BY <2>1, <2>2 DEF Pass
<1>3. DOMAIN inbox = {} /\ dead = {} /\ cursor = 0 /\ DOMAIN stored = {} /\ seenBackend = None
      /\ backend = 1 /\ torn = FALSE /\ config \in Configs
  BY DEF Init, ServerInit
<1>4. rows \in [Keys -> [val : Eids \cup {None}, live : BOOLEAN]] /\ \A k \in Keys : rows[k].val = None
  BY DEF Init
<1>5. ClientType
  <2>1. backend \in Nat \ {0} /\ seenBackend \in 0..backend /\ cursor \in 0..MaxSeq
    BY <1>3, ServerAssumption DEF None
  <2>2. PartialFn(inbox, Eids, InboxRow) /\ dead \subseteq DOMAIN inbox
    BY <1>3 DEF PartialFn
  <2>3. QED
    BY <1>2, <1>3, <1>4, <2>1, <2>2 DEF ClientType
<1>6. PageInHand /\ Unseen /\ NotAhead /\ NoGap /\ NoEventMissed
  BY <1>2, <1>3 DEF PageInHand, Unseen, NotAhead, NoGap, NoEventMissed, Current, Reached
<1>7. MarksFollow /\ ParkedIsNotApplied
  BY <1>3, <1>4 DEF MarksFollow, ParkedIsNotApplied
<1>8. QED
  BY <1>1, <1>5, <1>6, <1>7 DEF Inv, ClientInv

LEMMA StoredType ==
  ASSUME ServerInv
  PROVE  /\ DOMAIN stored \subseteq Eids
         /\ \A e \in DOMAIN stored : stored[e] \in 1..MaxSeq /\ stored[e] \in Nat
         /\ MaxSeq \in Nat
BY FiniteType, ServerAssumption DEF ServerInv, ServerType, Seqs

-----------------------------------------------------------------------------
(* The client while the server works.  A commit puts its rows above        *)
(* everything that was reached.                                            *)

LEMMA StoredGrows ==
  ASSUME ServerInv, ServerNext
  PROVE  \/ stored' = stored
         \/ /\ DOMAIN stored \subseteq DOMAIN stored'
            /\ \A e \in DOMAIN stored : stored'[e] = stored[e]
            /\ \A e \in DOMAIN stored' \ DOMAIN stored :
                 stored'[e] > 0 /\ \A f \in DOMAIN stored : stored[f] < stored'[e]
<1>1. ASSUME NEW c \in Conns, Finish(c), ~conns[c].refused
      PROVE  /\ DOMAIN stored \subseteq DOMAIN stored'
             /\ \A e \in DOMAIN stored : stored'[e] = stored[e]
             /\ \A e \in DOMAIN stored' \ DOMAIN stored :
                  stored'[e] > 0 /\ \A f \in DOMAIN stored : stored[f] < stored'[e]
  <2>1. stored' = Committed(c)
    BY <1>1 DEF Finish
  <2>2. \A e \in DOMAIN conns[c].fresh : conns[c].fresh[e] \in 1..MaxSeq
    BY FiniteType DEF ServerInv, ServerType, ConnType, Seqs
  <2>3. \A e \in DOMAIN conns[c].fresh : conns[c].fresh[e] > 0
    BY <2>2, ServerAssumption
  <2>4. QED
    BY <2>1, <2>3, CommittedType DEF ServerInv, CommitsInOrder
<1>2. QED
  BY <1>1 DEF ServerNext, Serve, Begin, TakeLock, Dedup, Refuse, Insert, Finish, RollBack

LEMMA ServerClientInv ==
  ASSUME Inv, Server
  PROVE  Inv'
<1>1. ServerInv /\ ServerNext /\ UNCHANGED <<config, backend, client, sync, bounds>>
  BY DEF Inv, Server
<1>2. ServerInv'
  BY <1>1, ServerNextInv
<1> USE DEF client, bounds
<1>3. ClientType' /\ PageInHand' /\ Unseen' /\ MarksFollow' /\ ParkedIsNotApplied'
  BY <1>1 DEF Inv, ClientInv, ClientType, PageInHand, Unseen, MarksFollow, ParkedIsNotApplied, Resolved
<1>4. Current' = Current /\ Resolved' = Resolved
  BY <1>1 DEF Current, Resolved
<1>5. (\A e \in DOMAIN stored : stored[e] \in Nat) /\ (\A e \in DOMAIN stored' : stored'[e] \in Nat)
  BY <1>1, <1>2, FiniteType DEF ServerInv, ServerType, Seqs
<1>6. cursor \in Nat /\ sync.since \in Nat
  BY ServerAssumption DEF Inv, ClientInv, ClientType, SyncType
<1>7. CASE stored' = stored
  BY <1>1, <1>2, <1>3, <1>4, <1>7
     DEF Inv, ClientInv, NotAhead, Reached, NoGap, NoEventMissed
<1>8. CASE /\ DOMAIN stored \subseteq DOMAIN stored'
           /\ \A e \in DOMAIN stored : stored'[e] = stored[e]
           /\ \A e \in DOMAIN stored' \ DOMAIN stored :
                stored'[e] > 0 /\ \A f \in DOMAIN stored : stored[f] < stored'[e]
  <2>1. ASSUME NEW n \in Nat, Reached(n)
        PROVE  \A e \in DOMAIN stored' \ DOMAIN stored : ~(stored'[e] <= n)
    BY <1>5, <1>8, <2>1 DEF Reached
  <2>2. ASSUME NEW n \in Nat, Reached(n) PROVE Reached(n)'
    BY <1>8, <2>2 DEF Reached
  <2>3. NotAhead'
    BY <1>1, <1>4, <1>6, <2>2 DEF Inv, ClientInv, NotAhead
  <2>4. NoEventMissed'
    BY <1>1, <1>4, <1>6, <1>8, <2>1 DEF Inv, ClientInv, NoEventMissed, NotAhead
  <2>5. NoGap'
    <3>1. ASSUME Current, sync.phase = "fetch"
          PROVE  \A e \in DOMAIN stored' : stored'[e] <= sync.since => e \in Resolved
      BY <1>6, <1>8, <2>1, <3>1 DEF Inv, ClientInv, NoGap, NotAhead
    <3>2. ASSUME Current, sync.phase = "items", NEW f \in sync.page
          PROVE  /\ f \in DOMAIN stored' /\ sync.seqs[f] = stored'[f]
                 /\ \A e \in DOMAIN stored' : stored'[e] <= stored'[f] => e \in Resolved \cup sync.todo
      <4>1. /\ f \in DOMAIN stored /\ sync.seqs[f] = stored[f] /\ stored'[f] = stored[f]
            /\ \A e \in DOMAIN stored : stored[e] <= stored[f] => e \in Resolved \cup sync.todo
        BY <1>8, <3>2 DEF Inv, ClientInv, NoGap
      <4>2. \A e \in DOMAIN stored' \ DOMAIN stored : ~(stored'[e] <= stored[f])
        BY <1>5, <2>1, <4>1 DEF Reached
      <4>3. QED
        BY <1>8, <4>1, <4>2
    <3>3. QED
      BY <1>1, <1>4, <3>1, <3>2 DEF NoGap
  <2>6. QED
    BY <1>2, <1>3, <2>3, <2>4, <2>5 DEF Inv, ClientInv
<1>9. QED
  BY <1>1, <1>7, <1>8, StoredGrows

(* After a swap the saved identity is an old one.                          *)
LEMMA SwapClientInv ==
  ASSUME Inv, SwapBackend
  PROVE  Inv'
<1>1. ServerInv'
  BY SwapInv DEF Inv
<1>2. backend' = backend + 1 /\ UNCHANGED <<config, client, sync>>
  BY DEF SwapBackend
<1> USE DEF client
<1>3. ClientType'
  <2>1. backend' \in Nat \ {0} /\ seenBackend' \in 0..backend'
    BY <1>2 DEF Inv, ClientInv, ClientType
  <2>2. QED
    BY <1>2, <2>1 DEF Inv, ClientInv, ClientType
<1>4. ~Current'
  BY <1>2 DEF Inv, ClientInv, ClientType, Current
<1>5. PageInHand' /\ Unseen' /\ MarksFollow' /\ ParkedIsNotApplied'
  BY <1>2 DEF Inv, ClientInv, PageInHand, Unseen, MarksFollow, ParkedIsNotApplied, Resolved
<1>6. QED
  BY <1>1, <1>3, <1>4, <1>5 DEF Inv, ClientInv, NotAhead, NoGap, NoEventMissed

-----------------------------------------------------------------------------
(* Pages.                                                                  *)

(* A page leaves nothing out below its last event: what is not on it       *)
(* either was behind the cursor or comes after.                            *)
LEMMA PageIsFull ==
  ASSUME ServerInv, NEW n \in Nat, NEW f \in Page(n), NEW e \in DOMAIN stored,
         stored[e] > n, stored[e] <= stored[f]
  PROVE  e \in Page(n)
<1> DEFINE Upto(x) == {y \in Visible(n) : stored[y] <= stored[x]}
<1>1. /\ f \in Visible(n) /\ Cardinality(Upto(f)) <= PullLimit
  BY DEF Page
<1>2. \A y \in DOMAIN stored : stored[y] \in Nat
  BY StoredType
<1>3. e \in Visible(n)
  <2>1. f \in DOMAIN stored /\ BelowXmin(stored[f])
    BY <1>1 DEF Visible
  <2>2. \A x \in Open : x \in Nat
    <3>1. \A c \in Conns : conns[c].xid \in Nat
      BY DEF ServerInv, ServerType, ConnType
    <3>2. QED
      BY <3>1 DEF Open
  <2>3. nextXid \in Nat
    BY DEF ServerInv, ServerType
  <2>4. BelowXmin(stored[e])
    BY <1>2, <2>1, <2>2, <2>3 DEF BelowXmin
  <2>5. QED
    BY <2>4 DEF Visible
<1>4. Upto(e) \subseteq Upto(f)
  <2> SUFFICES ASSUME NEW y \in Upto(e) PROVE y \in Upto(f)
    OBVIOUS
  <2>1. y \in Visible(n) /\ stored[y] <= stored[e]
    OBVIOUS
  <2>2. stored[y] \in Nat /\ stored[e] \in Nat /\ stored[f] \in Nat
    BY <1>1, <1>2, <2>1 DEF Visible
  <2>3. QED
    BY <2>1, <2>2
<1>5. IsFiniteSet(Upto(f))
  <2>1. Upto(f) \subseteq Eids
    BY StoredType DEF Visible
  <2>2. QED
    BY <2>1, FS_Subset, EventAssumption
<1> HIDE DEF Upto
<1>6. Cardinality(Upto(e)) <= Cardinality(Upto(f)) /\ Cardinality(Upto(e)) \in Nat /\ Cardinality(Upto(f)) \in Nat
  <2>1. IsFiniteSet(Upto(e)) /\ Cardinality(Upto(e)) <= Cardinality(Upto(f))
    BY <1>4, <1>5, FS_Subset
  <2>2. QED
    BY <1>5, <2>1, FS_CardinalityType
<1>7. Cardinality(Upto(e)) <= PullLimit
  BY <1>1, <1>6, ServerAssumption
<1>8. QED
  BY <1>3, <1>7 DEF Page, Upto

(* The cursor after a page is the number of its last event.                *)
LEMMA NextCursorIsLast ==
  ASSUME ServerInv, ClientInv, sync.phase = "items"
  PROVE  /\ NextCursor \in 1..MaxSeq
         /\ \E f \in sync.page : sync.seqs[f] = NextCursor
         /\ \A e \in sync.page : sync.seqs[e] <= NextCursor
<1> DEFINE T == {sync.seqs[e] : e \in sync.page}
<1>1. \A e \in DOMAIN sync.seqs : sync.seqs[e] \in 1..MaxSeq
  BY FiniteType DEF ClientInv, ClientType, SyncType, Seqs
<1>2. sync.page # {} /\ sync.page \subseteq DOMAIN sync.seqs
  BY DEF ClientInv, PageInHand
<1>3. T \subseteq 1..MaxSeq /\ T # {}
  BY <1>1, <1>2
<1> HIDE DEF T
<1>4. \E n \in T : \A m \in T : m <= n
  BY <1>3, MaxExists, ServerAssumption
<1>5. \E n \in T : \A e \in sync.page : sync.seqs[e] <= n
  BY <1>4 DEF T
<1>6. NextCursor \in T /\ \A e \in sync.page : sync.seqs[e] <= NextCursor
  BY <1>5 DEF NextCursor, T
<1>7. QED
  BY <1>3, <1>6 DEF T

-----------------------------------------------------------------------------
(* Steps of the client.                                                    *)

LEMMA SinceType ==
  ASSUME ServerInv, ClientInv
  PROVE  Since \in Nat /\ Since <= cursor /\ cursor \in Nat
<1>1. config.overlap \in Nat
  BY ClientAssumption DEF ClientInv, ClientType, ConfigType
<1>2. cursor \in Nat
  BY ServerAssumption DEF ClientInv, ClientType
<1>3. QED
  BY <1>1, <1>2 DEF Since

(* A step that ends or starts a pass, with nothing in hand afterwards.     *)
LEMMA PassInv ==
  ASSUME Inv, UNCHANGED <<server, config, backend, client>>,
         NEW ph \in {"idle", "boot", "down", "fetch"}, NEW n \in Nat, NEW b \in BOOLEAN,
         sync' = Pass(ph, n, b),
         seenBackend = None => n = 0 /\ b = FALSE,
         ph = "fetch" /\ Current =>
           Reached(n) /\ \A e \in DOMAIN stored : stored[e] <= n => e \in Resolved
  PROVE  Inv'
<1>1. ServerInv'
  BY DEF Inv, ServerInv, server, ServerType, OneInserts, SeqsDrawn, CommitsInOrder, GroupKept,
         InWork, GroupsWhole
<1>2. sync' \in SyncType /\ sync'.phase = ph /\ sync'.since = n /\ sync'.checked = b /\ sync'.todo = {}
  BY PassType
<1>3. UNCHANGED <<stored, config, backend, rows, inbox, dead, cursor, seenBackend, torn, redone>>
  BY DEF server, client
<1>4. ClientType'
  BY <1>2, <1>3 DEF Inv, ClientInv, ClientType
<1>5. PageInHand' /\ Unseen'
  BY <1>2, <1>3 DEF Inv, ClientInv, Unseen, PageInHand
<1>6. NotAhead' /\ NoGap' /\ NoEventMissed'
  BY <1>2, <1>3 DEF Inv, ClientInv, NotAhead, NoGap, NoEventMissed, Current, Reached, Resolved
<1>7. MarksFollow' /\ ParkedIsNotApplied'
  BY <1>3 DEF Inv, ClientInv, MarksFollow, ParkedIsNotApplied, Resolved
<1>8. QED
  BY <1>1, <1>4, <1>5, <1>6, <1>7 DEF Inv, ClientInv

(* A pull starts at or below the cursor, where nothing is missing.         *)
LEMMA PullStart ==
  ASSUME Inv
  PROVE  /\ Since \in Nat /\ (seenBackend = None => Since = 0)
         /\ Current => Reached(Since) /\ \A e \in DOMAIN stored : stored[e] <= Since => e \in Resolved
<1>1. Since \in Nat /\ Since <= cursor /\ cursor \in Nat
  BY SinceType DEF Inv
<1>2. seenBackend = None => Since = 0
  BY <1>1 DEF Inv, ClientInv, Unseen
<1>3. \A e \in DOMAIN stored : stored[e] \in Nat
  BY StoredType DEF Inv
<1>4. Current => Reached(Since) /\ \A e \in DOMAIN stored : stored[e] <= Since => e \in Resolved
  BY <1>1, <1>3 DEF Inv, ClientInv, NotAhead, Reached, NoEventMissed
<1>5. QED
  BY <1>1, <1>2, <1>4

LEMMA StartPullInv ==
  ASSUME Inv, StartPull
  PROVE  Inv'
<1>1. sync' = Pass("fetch", Since, FALSE) /\ UNCHANGED <<server, config, backend, client>>
  BY DEF StartPull
<1>2. QED
  BY <1>1, PullStart, PassInv

LEMMA FetchPageInv ==
  ASSUME Inv, FetchPage
  PROVE  Inv'
<1> DEFINE page == Page(sync.since)
<1>1. /\ sync.phase = "fetch" /\ UNCHANGED <<server, config, backend, rows, inbox, dead, cursor, torn, redone>>
      /\ seenBackend' = IF sync.checked \/ Mismatch THEN seenBackend ELSE backend
      /\ IF page = {} THEN sync' = Phase("idle")
         ELSE sync' = [sync EXCEPT !.phase = "items", !.page = page, !.todo = page,
                         !.seqs = [e \in page |-> stored[e]], !.checked = TRUE]
  BY DEF FetchPage
<1>2. ServerInv'
  BY <1>1 DEF Inv, ServerInv, server, ServerType, OneInserts, SeqsDrawn, CommitsInOrder, GroupKept,
         InWork, GroupsWhole
<1>3. sync \in SyncType /\ sync.since \in Nat
  BY DEF Inv, ClientInv, ClientType, SyncType
<1>4. page \subseteq DOMAIN stored /\ page \subseteq Eids /\ [e \in page |-> stored[e]] \in Finite(Eids)
      /\ \A f \in page : stored[f] > sync.since
  <2>1. page \subseteq DOMAIN stored /\ \A f \in page : stored[f] > sync.since
    BY DEF Page, Visible
  <2>2. page \subseteq Eids /\ \A f \in page : stored[f] \in Seqs
    BY <2>1, StoredType DEF Inv, Seqs
  <2>3. [e \in page |-> stored[e]] \in [page -> Seqs]
    BY <2>2
  <2>4. QED
    BY <2>1, <2>2, <2>3 DEF Finite
<1>5. \A n, e : n \in page /\ e \in DOMAIN stored /\ stored[e] > sync.since /\ stored[e] <= stored[n] => e \in page
  BY <1>3, PageIsFull DEF Inv
<1> HIDE DEF page
(* Whether or not this page was the first to name the store: there was no  *)
(* gap up to where the fetch began.                                        *)
<1>6. Current' => /\ \A e \in DOMAIN stored : stored[e] <= cursor => e \in Resolved
                  /\ \A e \in DOMAIN stored : stored[e] <= sync.since => e \in Resolved
                  /\ Reached(cursor)
  <2> SUFFICES ASSUME Current'
               PROVE  /\ \A e \in DOMAIN stored : stored[e] <= cursor => e \in Resolved
                      /\ \A e \in DOMAIN stored : stored[e] <= sync.since => e \in Resolved
                      /\ Reached(cursor)
    OBVIOUS
  <2>1. ~torn /\ seenBackend' = backend
    BY <1>1 DEF Current
  <2>2. CASE seenBackend = backend
    BY <1>1, <2>1, <2>2 DEF Inv, ClientInv, Current, NoEventMissed, NoGap, NotAhead
  <2>3. CASE seenBackend # backend
    <3>1. seenBackend = None
      BY <1>1, <2>1, <2>3 DEF Mismatch
    <3>2. cursor = 0 /\ sync.since = 0
      BY <3>1 DEF Inv, ClientInv, Unseen
    <3>3. \A e \in DOMAIN stored : ~(stored[e] <= 0)
      BY StoredType DEF Inv
    <3>4. QED
      BY <3>2, <3>3 DEF Reached
  <2>4. QED
    BY <2>2, <2>3
<1>7. seenBackend' \in 0..backend' /\ backend' \in Nat \ {0} /\ (seenBackend' = None => seenBackend = None)
  BY <1>1 DEF Inv, ClientInv, ClientType, None
<1>8. MarksFollow' /\ ParkedIsNotApplied'
  BY <1>1 DEF Inv, ClientInv, MarksFollow, ParkedIsNotApplied, Resolved
<1>9. Resolved' = Resolved /\ stored' = stored /\ cursor' = cursor
  BY <1>1 DEF Resolved, server
<1>10. NoEventMissed' /\ (Current' => Reached(cursor)')
  BY <1>6, <1>9 DEF NoEventMissed, Reached
<1>11. CASE page = {}
  <2>1. sync' = Pass("idle", 0, FALSE)
    BY <1>1, <1>11 DEF Phase
  <2>2. /\ sync' \in SyncType /\ sync'.phase = "idle" /\ sync'.since = 0 /\ sync'.todo = {}
        /\ ~sync'.checked
    <3>1. Pass("idle", 0, FALSE) \in SyncType
      BY PassType
    <3>2. QED
      BY <2>1, <3>1 DEF Pass
  <2>3. ClientType' /\ PageInHand' /\ Unseen' /\ NotAhead' /\ NoGap'
    BY <1>1, <1>7, <1>10, <2>2 DEF Inv, ClientInv, ClientType, PageInHand, Unseen, NotAhead, NoGap
  <2>4. QED
    BY <1>2, <1>8, <1>10, <2>3 DEF Inv, ClientInv
<1>12. CASE page # {}
  <2>1. /\ sync' \in SyncType /\ sync'.phase = "items" /\ sync'.page = page /\ sync'.todo = page
        /\ sync'.seqs = [e \in page |-> stored[e]]
    BY <1>1, <1>3, <1>4, <1>12 DEF SyncType
  <2>2. seenBackend' # None
    <3>1. seenBackend = None => ~sync.checked /\ ~Mismatch
      BY DEF Inv, ClientInv, Unseen, Mismatch
    <3>2. QED
      BY <1>1, <1>7, <3>1 DEF None
  <2>3. ClientType' /\ PageInHand' /\ Unseen' /\ NotAhead'
    <3>1. sync'.todo \subseteq DOMAIN sync'.seqs
      BY <2>1
    <3>2. ClientType'
      BY <1>1, <1>7, <2>1, <3>1 DEF Inv, ClientInv, ClientType
    <3>3. QED
      BY <1>10, <1>12, <2>1, <2>2, <3>2 DEF PageInHand, Unseen, NotAhead
  <2>4. NoGap'
    <3> SUFFICES ASSUME Current', NEW f \in page
                 PROVE  /\ f \in DOMAIN stored /\ sync'.seqs[f] = stored[f]
                        /\ \A e \in DOMAIN stored : stored[e] <= stored[f] => e \in Resolved \cup page
      BY <1>9, <2>1 DEF NoGap
    <3>1. f \in DOMAIN stored /\ sync'.seqs[f] = stored[f]
      BY <1>4, <2>1
    <3>2. ASSUME NEW e \in DOMAIN stored, stored[e] <= stored[f] PROVE e \in Resolved \cup page
      <4>1. stored[e] \in Nat
        BY StoredType DEF Inv
      <4>2. CASE stored[e] <= sync.since
        BY <1>6, <4>2
      <4>3. CASE stored[e] > sync.since
        BY <1>5, <3>2, <4>3
      <4>4. QED
        BY <1>3, <4>1, <4>2, <4>3
    <3>3. QED
      BY <3>1, <3>2
  <2>5. QED
    BY <1>2, <1>8, <1>10, <2>3, <2>4 DEF Inv, ClientInv
<1>13. QED
  BY <1>11, <1>12

LEMMA PullFailsInv ==
  ASSUME Inv, PullFails
  PROVE  Inv'
<1>1. sync' = Pass("idle", 0, FALSE) /\ UNCHANGED <<server, config, backend, client>>
  BY DEF PullFails, Phase
<1>2. QED
  BY <1>1, PassInv

(* Nothing is below the zero cursor.                                       *)
LEMMA ResetCursorInv ==
  ASSUME Inv, ResetCursor
  PROVE  Inv'
<1>1. /\ seenBackend' = backend /\ cursor' = 0 /\ sync' = Pass("fetch", 0, TRUE) /\ torn' = FALSE
      /\ UNCHANGED <<server, config, backend, rows, inbox, dead, redone>>
  BY DEF ResetCursor
<1>2. ServerInv'
  BY <1>1 DEF Inv, ServerInv, server, ServerType, OneInserts, SeqsDrawn, CommitsInOrder, GroupKept,
         InWork, GroupsWhole
<1>3. sync' \in SyncType /\ sync'.phase = "fetch" /\ sync'.since = 0 /\ sync'.todo = {}
  <2>1. Pass("fetch", 0, TRUE) \in SyncType
    BY PassType
  <2>2. QED
    BY <1>1, <2>1 DEF Pass
<1>4. backend \in Nat \ {0} /\ seenBackend' \in 0..backend /\ seenBackend' # None /\ cursor' \in 0..MaxSeq
  BY <1>1, ServerAssumption DEF Inv, ClientInv, ClientType, None
<1>5. ClientType' /\ PageInHand' /\ Unseen'
  BY <1>1, <1>3, <1>4 DEF Inv, ClientInv, ClientType, PageInHand, Unseen
<1>6. stored' = stored /\ \A e \in DOMAIN stored : ~(stored[e] <= 0)
  BY <1>1, StoredType DEF Inv, server
<1>7. NotAhead' /\ NoGap' /\ NoEventMissed'
  BY <1>1, <1>3, <1>6 DEF NotAhead, NoGap, NoEventMissed, Reached
<1>8. MarksFollow' /\ ParkedIsNotApplied'
  BY <1>1 DEF Inv, ClientInv, MarksFollow, ParkedIsNotApplied, Resolved
<1>9. QED
  BY <1>2, <1>5, <1>7, <1>8 DEF Inv, ClientInv

(* After a page the cursor is where the page ended.                        *)
LEMMA FinishPageInv ==
  ASSUME Inv, FinishPage
  PROVE  Inv'
<1>1. /\ sync.phase = "items" /\ sync.todo = {} /\ cursor' = NextCursor
      /\ \/ sync' = Pass("fetch", NextCursor, sync.checked)
         \/ sync' = Pass("idle", 0, FALSE)
      /\ UNCHANGED <<server, config, backend, rows, inbox, dead, seenBackend, torn, redone>>
  BY DEF FinishPage, Phase
<1>2. /\ NextCursor \in 1..MaxSeq /\ \E f \in sync.page : sync.seqs[f] = NextCursor
  BY <1>1, NextCursorIsLast DEF Inv
<1>3. ServerInv'
  BY <1>1 DEF Inv, ServerInv, server, ServerType, OneInserts, SeqsDrawn, CommitsInOrder, GroupKept,
         InWork, GroupsWhole
<1>4. NextCursor \in Nat /\ sync.checked \in BOOLEAN /\ NextCursor \in 0..MaxSeq
  BY <1>2, ServerAssumption DEF Inv, ClientInv, ClientType, SyncType
<1>5. /\ sync' \in SyncType /\ sync'.todo = {} /\ sync'.phase \in {"fetch", "idle"}
      /\ sync'.phase = "fetch" => sync'.since = NextCursor
  <2>1. CASE sync' = Pass("fetch", NextCursor, sync.checked)
    BY <1>4, <2>1, PassType
  <2>2. CASE sync' = Pass("idle", 0, FALSE)
    <3>1. Pass("idle", 0, FALSE) \in SyncType
      BY PassType
    <3>2. QED
      BY <2>2, <3>1 DEF Pass
  <2>3. QED
    BY <1>1, <2>1, <2>2
<1>6. seenBackend' # None
  BY <1>1 DEF Inv, ClientInv, Unseen
<1>7. ClientType' /\ PageInHand' /\ Unseen'
  BY <1>1, <1>4, <1>5, <1>6 DEF Inv, ClientInv, ClientType, PageInHand, Unseen
<1>8. Current' = Current /\ Resolved' = Resolved /\ stored' = stored
  BY <1>1 DEF Current, Resolved, server
<1>9. Current => Reached(NextCursor) /\ \A e \in DOMAIN stored : stored[e] <= NextCursor => e \in Resolved
  <2> SUFFICES ASSUME Current
               PROVE  Reached(NextCursor) /\ \A e \in DOMAIN stored : stored[e] <= NextCursor => e \in Resolved
    OBVIOUS
  <2>1. PICK f \in sync.page : sync.seqs[f] = NextCursor
    BY <1>2
  <2>2. /\ f \in DOMAIN stored /\ stored[f] = NextCursor
        /\ \A e \in DOMAIN stored : stored[e] <= stored[f] => e \in Resolved
    BY <1>1, <2>1 DEF Inv, ClientInv, NoGap
  <2>3. QED
    BY <1>4, <2>2 DEF Reached
<1>10. NotAhead' /\ NoGap' /\ NoEventMissed'
  BY <1>1, <1>5, <1>8, <1>9 DEF NotAhead, NoGap, NoEventMissed, Reached
<1>11. MarksFollow' /\ ParkedIsNotApplied'
  BY <1>1 DEF Inv, ClientInv, MarksFollow, ParkedIsNotApplied, Resolved
<1>12. QED
  BY <1>3, <1>7, <1>10, <1>11 DEF Inv, ClientInv

-----------------------------------------------------------------------------
(* One event of a page, or of the inbox at startup.                        *)

LEMMA EntryType ==
  ASSUME Inv, NEW e \in Eids, AtItem(e)
  PROVE  Entry(e) \in InboxRow /\ (e \notin Resolved => ~Entry(e).sync)
<1>1. sync.seqs[e] \in Seqs
  <2>1. e \in DOMAIN sync.seqs
    BY DEF AtItem, Inv, ClientInv, ClientType
  <2>2. QED
    BY <2>1, FiniteType DEF Inv, ClientInv, ClientType, SyncType
<1>2. NewRow(sync.seqs[e]) \in InboxRow /\ ~NewRow(sync.seqs[e]).sync
  BY <1>1, ClientAssumption DEF NewRow, InboxRow
<1>3. e \in DOMAIN inbox => inbox[e] \in InboxRow
  BY DEF Inv, ClientInv, ClientType, PartialFn
<1>4. QED
  BY <1>2, <1>3 DEF Entry, Resolved

LEMMA WithType ==
  ASSUME Inv, NEW e \in Eids, NEW row \in InboxRow, inbox' = With(e, row),
         row.sync \/ e \notin Resolved
  PROVE  /\ PartialFn(inbox', Eids, InboxRow) /\ DOMAIN inbox' = DOMAIN inbox \cup {e}
         /\ Resolved' = IF row.sync THEN Resolved \cup {e} ELSE Resolved
<1>1. DOMAIN inbox' = DOMAIN inbox \cup {e}
  BY DEF With
<1>2. \A f \in DOMAIN inbox' : inbox'[f] = IF f = e THEN row ELSE inbox[f]
  BY DEF With
<1>3. PartialFn(inbox', Eids, InboxRow)
  BY <1>1, <1>2 DEF Inv, ClientInv, ClientType, PartialFn
<1>4. Resolved' = {f \in DOMAIN inbox \cup {e} : IF f = e THEN row.sync ELSE inbox[f].sync}
  BY <1>1, <1>2 DEF Resolved
<1>5. QED
  BY <1>1, <1>3, <1>4 DEF Resolved

LEMMA NextType ==
  ASSUME Inv, NEW e \in Eids, Next1(e)
  PROVE  /\ sync' \in SyncType /\ sync'.todo = sync.todo \ {e}
         /\ sync'.phase = sync.phase /\ sync'.page = sync.page /\ sync'.seqs = sync.seqs
         /\ sync'.since = sync.since /\ sync'.checked = sync.checked
BY DEF Inv, ClientInv, ClientType, Next1, SyncType

(* An event leaves the list when it is resolved; a pass that stops, or a   *)
(* manualSync that goes on with its pull, leaves the cursor where it was.  *)
LEMMA StepInv ==
  ASSUME Inv, UNCHANGED <<server, config, backend, cursor, seenBackend, torn>>,
         PartialFn(inbox', Eids, InboxRow), Resolved \subseteq Resolved', dead' \subseteq DOMAIN inbox',
         rows' \in [Keys -> [val : Eids \cup {None}, live : BOOLEAN]],
         \/ sync' = Phase("idle") \/ sync' = Phase("down") \/ sync' = Pass("fetch", Since, FALSE)
         \/ \E e \in Eids : Next1(e) /\ AtItem(e) /\ e \in Resolved',
         MarksFollow', ParkedIsNotApplied'
  PROVE  Inv'
<1>1. ServerInv'
  BY DEF Inv, ServerInv, server, ServerType, OneInserts, SeqsDrawn, CommitsInOrder, GroupKept,
         InWork, GroupsWhole
<1>2. Current' = Current /\ stored' = stored
  BY DEF Current, server
<1>3. NoEventMissed'
  BY <1>2 DEF Inv, ClientInv, NoEventMissed
<1>4. CASE sync' = Phase("idle") \/ sync' = Phase("down")
  <2>1. /\ sync' \in SyncType /\ sync'.phase \in {"idle", "down"} /\ sync'.since = 0 /\ sync'.todo = {}
        /\ ~sync'.checked
    <3>1. Pass("idle", 0, FALSE) \in SyncType /\ Pass("down", 0, FALSE) \in SyncType
      BY PassType
    <3>2. sync' = Pass("idle", 0, FALSE) \/ sync' = Pass("down", 0, FALSE)
      BY <1>4 DEF Phase
    <3>3. CASE sync' = Pass("idle", 0, FALSE)
      BY <3>1, <3>3 DEF Pass
    <3>4. CASE sync' = Pass("down", 0, FALSE)
      BY <3>1, <3>4 DEF Pass
    <3>5. QED
      BY <3>2, <3>3, <3>4
  <2>2. ClientType' /\ PageInHand' /\ Unseen' /\ NotAhead' /\ NoGap'
    BY <1>2, <2>1 DEF Inv, ClientInv, ClientType, PageInHand, Unseen, NotAhead, NoGap, Reached
  <2>3. QED
    BY <1>1, <1>3, <2>2 DEF Inv, ClientInv
<1>5. ASSUME NEW e \in Eids, Next1(e), AtItem(e), e \in Resolved'
      PROVE  Inv'
  <2>1. /\ sync' \in SyncType /\ sync'.todo = sync.todo \ {e}
        /\ sync'.phase = sync.phase /\ sync'.page = sync.page /\ sync'.seqs = sync.seqs
        /\ sync'.since = sync.since /\ sync'.checked = sync.checked
    BY <1>5, NextType
  <2>2. sync.phase \in {"items", "manual", "boot"}
    BY <1>5 DEF AtItem
  <2>3. ClientType' /\ PageInHand' /\ Unseen' /\ NotAhead'
    BY <1>2, <2>1, <2>2 DEF Inv, ClientInv, ClientType, PageInHand, Unseen, NotAhead, Reached
  <2>4. NoGap'
    BY <1>2, <1>5, <2>1, <2>2 DEF Inv, ClientInv, NoGap
  <2>5. QED
    BY <1>1, <1>3, <2>3, <2>4 DEF Inv, ClientInv
<1>6. CASE sync' = Pass("fetch", Since, FALSE)
  <2>1. /\ Since \in Nat /\ (seenBackend = None => Since = 0)
        /\ Current => Reached(Since) /\ \A e \in DOMAIN stored : stored[e] <= Since => e \in Resolved
    BY PullStart
  <2>2. /\ sync' \in SyncType /\ sync'.phase = "fetch" /\ sync'.since = Since /\ sync'.todo = {}
        /\ ~sync'.checked
    <3>1. Pass("fetch", Since, FALSE) \in SyncType
      BY <2>1, PassType
    <3>2. QED
      BY <1>6, <3>1 DEF Pass
  <2>3. ClientType' /\ PageInHand' /\ Unseen' /\ NotAhead' /\ NoGap'
    BY <1>2, <2>1, <2>2 DEF Inv, ClientInv, ClientType, PageInHand, Unseen, NotAhead, NoGap, Reached
  <2>4. QED
    BY <1>1, <1>3, <2>3 DEF Inv, ClientInv
<1>7. QED
  BY <1>4, <1>5, <1>6

(* A step that only writes the inbox.                                      *)
LEMMA InboxStepInv ==
  ASSUME Inv, NEW e \in Eids, AtItem(e), NEW row \in InboxRow, inbox' = With(e, row),
         row.sync \/ e \notin Resolved,
         UNCHANGED <<server, config, backend, rows, dead, cursor, seenBackend, torn, redone>>,
         \/ sync' = Phase("idle") \/ sync' = Phase("down") \/ sync' = Pass("fetch", Since, FALSE)
         \/ row.sync /\ Next1(e)
  PROVE  Inv'
<1>1. /\ PartialFn(inbox', Eids, InboxRow) /\ DOMAIN inbox' = DOMAIN inbox \cup {e}
      /\ Resolved' = IF row.sync THEN Resolved \cup {e} ELSE Resolved
  BY WithType
<1>2. dead' \subseteq DOMAIN inbox' /\ rows' \in [Keys -> [val : Eids \cup {None}, live : BOOLEAN]]
  BY <1>1 DEF Inv, ClientInv, ClientType
<1>3. MarksFollow' /\ ParkedIsNotApplied'
  BY <1>1 DEF Inv, ClientInv, MarksFollow, ParkedIsNotApplied
<1>4. QED
  BY <1>1, <1>2, <1>3, StepInv

LEMMA RowTypes ==
  ASSUME NEW row \in InboxRow, NEW n \in 0..MaxAttempts
  PROVE  /\ [row EXCEPT !.sync = TRUE] \in InboxRow /\ [row EXCEPT !.sync = TRUE].sync
         /\ [row EXCEPT !.sync = TRUE, !.skipped = TRUE] \in InboxRow
         /\ [row EXCEPT !.sync = TRUE, !.skipped = TRUE].sync
         /\ [row EXCEPT !.attempts = n] \in InboxRow /\ [row EXCEPT !.attempts = n].sync = row.sync
         /\ [row EXCEPT !.sync = TRUE, !.skipped = TRUE, !.attempts = n] \in InboxRow
         /\ [row EXCEPT !.sync = TRUE, !.skipped = TRUE, !.attempts = n].sync
BY DEF InboxRow

LEMMA SkipOwnInv ==
  ASSUME Inv, NEW e \in Eids, SkipOwn(e)
  PROVE  Inv'
<1>1. Entry(e) \in InboxRow /\ AtItem(e) /\ 0 \in 0..MaxAttempts
  BY EntryType, ClientAssumption DEF SkipOwn
<1> DEFINE row == [Entry(e) EXCEPT !.sync = TRUE]
<1>2. row \in InboxRow /\ row.sync
  BY <1>1, RowTypes
<1>3. inbox' = With(e, row)
  BY DEF SkipOwn
<1> HIDE DEF row
<1>4. QED
  BY <1>1, <1>2, <1>3, InboxStepInv DEF SkipOwn

LEMMA SkipResolvedInv ==
  ASSUME Inv, NEW e \in Eids, SkipResolved(e)
  PROVE  Inv'
<1>1. /\ AtItem(e) /\ e \in Resolved /\ Next1(e) /\ UNCHANGED <<server, config, backend, client>>
  BY DEF SkipResolved
<1>2. Resolved' = Resolved
  BY <1>1 DEF client, Resolved
<1>3. MarksFollow' /\ ParkedIsNotApplied'
  BY <1>1, <1>2 DEF Inv, ClientInv, MarksFollow, ParkedIsNotApplied, client
<1>4. /\ PartialFn(inbox', Eids, InboxRow) /\ dead' \subseteq DOMAIN inbox'
      /\ rows' \in [Keys -> [val : Eids \cup {None}, live : BOOLEAN]]
  BY <1>1 DEF Inv, ClientInv, ClientType, client, PartialFn
<1>5. QED
  BY <1>1, <1>2, <1>3, <1>4, StepInv DEF client

LEMMA HaltInv ==
  ASSUME Inv, NEW e \in Eids, HaltAtUnknown(e)
  PROVE  Inv'
<1>1. AtItem(e) /\ e \notin Resolved /\ Entry(e) \in InboxRow
  BY EntryType DEF HaltAtUnknown, ToReplay
<1>2. QED
  BY <1>1, InboxStepInv DEF HaltAtUnknown, Break, After

LEMMA SkipUnknownInv ==
  ASSUME Inv, NEW e \in Eids, SkipUnknown(e)
  PROVE  Inv'
<1>1. Entry(e) \in InboxRow /\ AtItem(e) /\ 0 \in 0..MaxAttempts
  BY EntryType, ClientAssumption DEF SkipUnknown, ToReplay
<1> DEFINE row == [Entry(e) EXCEPT !.sync = TRUE, !.skipped = TRUE]
<1>2. row \in InboxRow /\ row.sync
  BY <1>1, RowTypes
<1>3. inbox' = With(e, row)
  BY DEF SkipUnknown
<1> HIDE DEF row
<1>4. QED
  BY <1>1, <1>2, <1>3, InboxStepInv DEF SkipUnknown

(* Attempts of an event that is tried once more.                           *)
LEMMA AttemptsType ==
  ASSUME Inv, NEW e \in Eids, ToReplay(e)
  PROVE  Attempts(e) \in Nat /\ MaxAttempts \in 0..MaxAttempts
         /\ (Attempts(e) < MaxAttempts => Attempts(e) \in 0..MaxAttempts)
<1>1. Entry(e).attempts \in 0..MaxAttempts
  BY EntryType DEF ToReplay, InboxRow
<1>2. MaxAttempts \in Nat
  BY ClientAssumption
<1>3. QED
  BY <1>1, <1>2 DEF Attempts

LEMMA FailAndRetryInv ==
  ASSUME Inv, NEW e \in Eids, FailAndRetry(e)
  PROVE  Inv'
<1>1. ToReplay(e) /\ Attempts(e) < MaxAttempts
  BY DEF FailAndRetry, Throws, MayThrow
<1>2. Entry(e) \in InboxRow /\ AtItem(e) /\ e \notin Resolved /\ Attempts(e) \in 0..MaxAttempts
  BY <1>1, EntryType, AttemptsType DEF ToReplay
<1> DEFINE row == [Entry(e) EXCEPT !.attempts = Attempts(e)]
<1>3. row \in InboxRow
  BY <1>2, RowTypes
<1>4. inbox' = With(e, row)
  BY DEF FailAndRetry
<1> HIDE DEF row
<1>5. QED
  BY <1>2, <1>3, <1>4, InboxStepInv DEF FailAndRetry, Break, After

LEMMA ParkThrowsInv ==
  ASSUME Inv, NEW e \in Eids, ParkThrows(e)
  PROVE  Inv'
<1>1. ToReplay(e)
  BY DEF ParkThrows, Throws, MayThrow
<1>2. Entry(e) \in InboxRow /\ AtItem(e) /\ e \notin Resolved /\ MaxAttempts \in 0..MaxAttempts
  BY <1>1, EntryType, AttemptsType DEF ToReplay
<1> DEFINE row == [Entry(e) EXCEPT !.attempts = MaxAttempts]
<1>3. row \in InboxRow
  BY <1>2, RowTypes
<1>4. inbox' = With(e, row)
  BY DEF ParkThrows
<1> HIDE DEF row
<1>5. sync' = Phase("idle") \/ sync' = Phase("down") \/ sync' = Pass("fetch", Since, FALSE)
  BY DEF ParkThrows, After
<1>6. QED
  BY <1>2, <1>3, <1>4, <1>5, InboxStepInv DEF ParkThrows

(* The event to be parked is not shown.                                    *)
LEMMA FailAndParkInv ==
  ASSUME Inv, NEW e \in Eids, FailAndPark(e)
  PROVE  Inv'
<1>1. ToReplay(e) /\ dead' = dead \cup {e} /\ Next1(e)
      /\ UNCHANGED <<server, config, backend, rows, cursor, seenBackend, torn, redone>>
  BY DEF FailAndPark, Throws, MayThrow
<1>2. Entry(e) \in InboxRow /\ AtItem(e) /\ e \notin Resolved /\ MaxAttempts \in 0..MaxAttempts
  BY <1>1, EntryType, AttemptsType DEF ToReplay
<1> DEFINE row == [Entry(e) EXCEPT !.sync = TRUE, !.skipped = TRUE, !.attempts = MaxAttempts]
<1>3. row \in InboxRow /\ row.sync
  BY <1>2, RowTypes
<1>4. inbox' = With(e, row)
  BY DEF FailAndPark
<1> HIDE DEF row
<1>5. /\ PartialFn(inbox', Eids, InboxRow) /\ DOMAIN inbox' = DOMAIN inbox \cup {e}
      /\ Resolved' = Resolved \cup {e}
  BY <1>3, <1>4, WithType
<1>6. dead' \subseteq DOMAIN inbox' /\ rows' \in [Keys -> [val : Eids \cup {None}, live : BOOLEAN]]
  BY <1>1, <1>5 DEF Inv, ClientInv, ClientType
<1>7. MarksFollow'
  BY <1>1, <1>5 DEF Inv, ClientInv, MarksFollow
<1>8. ParkedIsNotApplied'
  <2>1. Event[e].key \in Keys /\ e # None
    BY EventAssumption DEF Keys
  <2>2. e \in redone \/ rows[Event[e].key].val # e
    BY <1>2, <2>1 DEF Inv, ClientInv, MarksFollow
  <2>3. QED
    BY <1>1, <2>2 DEF Inv, ClientInv, ParkedIsNotApplied
<1>9. QED
  BY <1>1, <1>2, <1>5, <1>6, <1>7, <1>8, StepInv

(* A domain write shows the event it is for, or nothing new.               *)
LEMMA WrittenType ==
  ASSUME Inv, NEW e \in Eids
  PROVE  /\ Written(e) \in [Keys -> [val : Eids \cup {None}, live : BOOLEAN]]
         /\ \A k \in Keys : Written(e)[k].val \in {rows[k].val, e}
<1>1. rows \in [Keys -> [val : Eids \cup {None}, live : BOOLEAN]]
  BY DEF Inv, ClientInv, ClientType
<1>2. [val |-> e, live |-> Event[e].type # "delete"] \in [val : Eids \cup {None}, live : BOOLEAN]
  OBVIOUS
<1>3. QED
  BY <1>1, <1>2 DEF Written

LEMMA ApplyInv ==
  ASSUME Inv, NEW e \in Eids, Apply(e)
  PROVE  Inv'
<1>1. ToReplay(e) /\ rows' = Written(e) /\ Next1(e)
      /\ UNCHANGED <<server, config, backend, dead, cursor, seenBackend, torn, redone>>
  BY DEF Apply
<1>2. Entry(e) \in InboxRow /\ AtItem(e) /\ e \notin Resolved /\ 0 \in 0..MaxAttempts
  BY <1>1, EntryType, ClientAssumption DEF ToReplay
<1> DEFINE row == [Entry(e) EXCEPT !.sync = TRUE]
<1>3. row \in InboxRow /\ row.sync
  BY <1>2, RowTypes
<1>4. inbox' = With(e, row)
  BY DEF Apply
<1> HIDE DEF row
<1>5. /\ PartialFn(inbox', Eids, InboxRow) /\ DOMAIN inbox' = DOMAIN inbox \cup {e}
      /\ Resolved' = Resolved \cup {e}
  BY <1>3, <1>4, WithType
<1>6. /\ rows' \in [Keys -> [val : Eids \cup {None}, live : BOOLEAN]]
      /\ \A k \in Keys : rows'[k].val \in {rows[k].val, e}
  BY <1>1, WrittenType
<1>7. dead' \subseteq DOMAIN inbox'
  BY <1>1, <1>5 DEF Inv, ClientInv, ClientType
<1>8. MarksFollow'
  BY <1>1, <1>5, <1>6 DEF Inv, ClientInv, MarksFollow
<1>9. ParkedIsNotApplied'
  <2>1. \A d \in dead \ redone : d # e /\ d \in Eids
    BY <1>2 DEF Inv, ClientInv, MarksFollow, ClientType, PartialFn
  <2>2. \A d \in dead \ redone : Event[d].key \in Keys
    BY <2>1 DEF Keys
  <2>3. QED
    BY <1>1, <1>6, <2>1, <2>2 DEF Inv, ClientInv, ParkedIsNotApplied
<1>10. QED
  BY <1>1, <1>2, <1>5, <1>6, <1>7, <1>8, <1>9, StepInv

LEMMA ItemInv ==
  ASSUME Inv, Item
  PROVE  Inv'
BY SkipOwnInv, SkipResolvedInv, HaltInv, SkipUnknownInv, ApplyInv, FailAndRetryInv, FailAndParkInv,
   ParkThrowsInv DEF Item

-----------------------------------------------------------------------------
(* Startup and crashes.                                                    *)

LEMMA StartInv ==
  ASSUME Inv, Start
  PROVE  Inv'
<1> DEFINE ph == IF sync.phase = "down" THEN "boot" ELSE "manual"
           seqs == [e \in Unresolved |-> inbox[e].seq]
<1>1. /\ sync' = [sync EXCEPT !.phase = ph, !.todo = Unresolved, !.seqs = seqs]
      /\ UNCHANGED <<server, config, backend, client>>
  BY DEF Start
<1>2. Unresolved \subseteq Eids /\ seqs \in Finite(Eids)
  <2>1. Unresolved \subseteq Eids /\ \A e \in Unresolved : inbox[e] \in InboxRow
    BY DEF Inv, ClientInv, ClientType, PartialFn, Unresolved
  <2>2. seqs \in [Unresolved -> Seqs]
    BY <2>1 DEF InboxRow
  <2>3. QED
    BY <2>1, <2>2 DEF Finite
<1>3. DOMAIN seqs = Unresolved
  OBVIOUS
<1>31. ph \in {"boot", "manual"}
  OBVIOUS
<1> HIDE DEF seqs, ph
<1>4. /\ sync' \in SyncType /\ sync'.phase \in {"boot", "manual"} /\ sync'.todo = Unresolved /\ sync'.seqs = seqs
      /\ sync'.since = sync.since /\ sync'.checked = sync.checked
  <2>1. sync \in SyncType
    BY DEF Inv, ClientInv, ClientType
  <2>2. QED
    BY <1>1, <1>2, <1>31, <2>1 DEF SyncType
<1>5. ServerInv'
  BY <1>1 DEF Inv, ServerInv, server, ServerType, OneInserts, SeqsDrawn, CommitsInOrder, GroupKept,
         InWork, GroupsWhole
<1>6. UNCHANGED <<stored, config, backend, rows, inbox, dead, cursor, seenBackend, torn, redone>>
  BY <1>1 DEF server, client
<1>7. ClientType'
  BY <1>3, <1>4, <1>6 DEF Inv, ClientInv, ClientType
<1>8. PageInHand' /\ Unseen'
  BY <1>4, <1>6 DEF Inv, ClientInv, PageInHand, Unseen
<1>9. NotAhead' /\ NoGap' /\ NoEventMissed'
  BY <1>4, <1>6 DEF Inv, ClientInv, NotAhead, NoGap, NoEventMissed, Current, Reached, Resolved
<1>10. MarksFollow' /\ ParkedIsNotApplied'
  BY <1>6 DEF Inv, ClientInv, MarksFollow, ParkedIsNotApplied, Resolved
<1>11. QED
  BY <1>5, <1>7, <1>8, <1>9, <1>10 DEF Inv, ClientInv

LEMMA StartedInv ==
  ASSUME Inv, Started
  PROVE  Inv'
<1>1. /\ sync' = Pass("idle", 0, FALSE) \/ sync' = Pass("fetch", Since, FALSE)
      /\ UNCHANGED <<server, config, backend, client>>
  BY DEF Started, After, Phase
<1>2. CASE sync' = Pass("idle", 0, FALSE)
  BY <1>1, <1>2, PassInv
<1>3. CASE sync' = Pass("fetch", Since, FALSE)
  BY <1>1, <1>3, PullStart, PassInv
<1>4. QED
  BY <1>1, <1>2, <1>3

LEMMA SyncingInv ==
  ASSUME Inv, Syncing
  PROVE  Inv'
BY StartPullInv, FetchPageInv, ResetCursorInv, ItemInv, FinishPageInv, StartInv, StartedInv
   DEF Syncing

LEMMA CrashInv ==
  ASSUME Inv, Crash
  PROVE  Inv'
<1>1. sync' = Pass("down", 0, FALSE) /\ UNCHANGED <<server, config, backend, client>>
  BY DEF Crash, Restart, Phase
<1>2. QED
  BY <1>1, PassInv

LEMMA CrashBeforeApplyInv ==
  ASSUME Inv, CrashBeforeApply
  PROVE  Inv'
<1>1. PICK e \in Eids : ToReplay(e) /\ inbox' = With(e, Entry(e))
  BY DEF CrashBeforeApply
<1>2. Entry(e) \in InboxRow /\ AtItem(e) /\ e \notin Resolved
  BY <1>1, EntryType DEF ToReplay
<1>3. QED
  BY <1>1, <1>2, InboxStepInv DEF CrashBeforeApply, Restart

(* The event is shown and not resolved: redone remembers it.               *)
LEMMA CrashBeforeMarkInv ==
  ASSUME Inv, CrashBeforeMark
  PROVE  Inv'
<1>1. PICK e \in Eids : /\ ToReplay(e) /\ inbox' = With(e, Entry(e)) /\ rows' = Written(e)
                        /\ redone' = redone \cup {e}
  BY DEF CrashBeforeMark
<1>2. sync' = Phase("down") /\ UNCHANGED <<server, config, backend, dead, cursor, seenBackend, torn>>
  BY DEF CrashBeforeMark, Restart
<1>3. Entry(e) \in InboxRow /\ AtItem(e) /\ e \notin Resolved /\ ~Entry(e).sync
  BY <1>1, EntryType DEF ToReplay
<1>4. /\ PartialFn(inbox', Eids, InboxRow) /\ DOMAIN inbox' = DOMAIN inbox \cup {e}
      /\ Resolved' = Resolved
  BY <1>1, <1>3, WithType
<1>5. /\ rows' \in [Keys -> [val : Eids \cup {None}, live : BOOLEAN]]
      /\ \A k \in Keys : rows'[k].val \in {rows[k].val, e}
  BY <1>1, WrittenType
<1>6. dead' \subseteq DOMAIN inbox'
  BY <1>2, <1>4 DEF Inv, ClientInv, ClientType
<1>7. MarksFollow'
  BY <1>1, <1>2, <1>4, <1>5 DEF Inv, ClientInv, MarksFollow
<1>8. ParkedIsNotApplied'
  <2>1. \A d \in dead : d \in Eids
    BY DEF Inv, ClientInv, ClientType, PartialFn
  <2>2. \A d \in dead : Event[d].key \in Keys
    BY <2>1 DEF Keys
  <2>3. QED
    BY <1>1, <1>2, <1>5, <2>2 DEF Inv, ClientInv, ParkedIsNotApplied
<1>9. QED
  BY <1>2, <1>4, <1>5, <1>6, <1>7, <1>8, StepInv

LEMMA CrashInParkInv ==
  ASSUME Inv, CrashInPark
  PROVE  Inv'
<1>1. PICK e \in Eids \ dead :
        /\ MayThrow(e) /\ inbox' = With(e, [Entry(e) EXCEPT !.attempts = MaxAttempts])
        /\ dead' = dead \cup {e} /\ redone' = redone \cup {e}
  BY DEF CrashInPark
<1>2. sync' = Phase("down") /\ UNCHANGED <<server, config, backend, rows, cursor, seenBackend, torn>>
  BY DEF CrashInPark, Restart
<1>3. ToReplay(e) /\ MaxAttempts \in 0..MaxAttempts
  BY <1>1, ClientAssumption DEF MayThrow
<1>4. Entry(e) \in InboxRow /\ AtItem(e) /\ e \notin Resolved /\ ~Entry(e).sync
  BY <1>3, EntryType DEF ToReplay
<1> DEFINE row == [Entry(e) EXCEPT !.attempts = MaxAttempts]
<1>5. row \in InboxRow /\ ~row.sync
  BY <1>3, <1>4, RowTypes
<1>6. inbox' = With(e, row)
  BY <1>1
<1> HIDE DEF row
<1>7. /\ PartialFn(inbox', Eids, InboxRow) /\ DOMAIN inbox' = DOMAIN inbox \cup {e}
      /\ Resolved' = Resolved
  BY <1>4, <1>5, <1>6, WithType
<1>8. dead' \subseteq DOMAIN inbox' /\ rows' \in [Keys -> [val : Eids \cup {None}, live : BOOLEAN]]
  BY <1>1, <1>2, <1>7 DEF Inv, ClientInv, ClientType
<1>9. MarksFollow' /\ ParkedIsNotApplied'
  BY <1>1, <1>2, <1>7 DEF Inv, ClientInv, MarksFollow, ParkedIsNotApplied
<1>10. QED
  BY <1>2, <1>7, <1>8, <1>9, StepInv

(* Between the new identity and the zero cursor nothing is promised.       *)
LEMMA CrashInResetInv ==
  ASSUME Inv, CrashInReset
  PROVE  Inv'
<1>1. /\ seenBackend' = backend /\ torn' = TRUE /\ sync' = Pass("down", 0, FALSE)
      /\ UNCHANGED <<server, config, backend, rows, inbox, dead, cursor, redone>>
  BY DEF CrashInReset, Restart, Phase
<1>2. ServerInv'
  BY <1>1 DEF Inv, ServerInv, server, ServerType, OneInserts, SeqsDrawn, CommitsInOrder, GroupKept,
         InWork, GroupsWhole
<1>3. sync' \in SyncType /\ sync'.phase = "down" /\ sync'.todo = {}
  <2>1. Pass("down", 0, FALSE) \in SyncType
    BY PassType
  <2>2. QED
    BY <1>1, <2>1 DEF Pass
<1>4. backend \in Nat \ {0} /\ seenBackend' \in 0..backend /\ seenBackend' # None
  BY <1>1 DEF Inv, ClientInv, ClientType, None
<1>5. ClientType' /\ PageInHand' /\ Unseen'
  BY <1>1, <1>3, <1>4 DEF Inv, ClientInv, ClientType, PageInHand, Unseen
<1>6. NotAhead' /\ NoGap' /\ NoEventMissed'
  BY <1>1 DEF NotAhead, NoGap, NoEventMissed, Current
<1>7. MarksFollow' /\ ParkedIsNotApplied'
  BY <1>1 DEF Inv, ClientInv, MarksFollow, ParkedIsNotApplied, Resolved
<1>8. QED
  BY <1>2, <1>5, <1>6, <1>7 DEF Inv, ClientInv

-----------------------------------------------------------------------------
(* The invariant.                                                          *)

LEMMA StutterInv ==
  ASSUME Inv, UNCHANGED vars
  PROVE  Inv'
<1>1. UNCHANGED <<stored, conns, nextSeq, nextXid, config, backend, rows, inbox, dead, cursor,
                  seenBackend, torn, redone, sync>>
  BY DEF vars, server, client
<1>2. ServerInv'
  BY <1>1 DEF Inv, ServerInv, ServerType, OneInserts, SeqsDrawn, CommitsInOrder, GroupKept,
         InWork, GroupsWhole
<1>3. ClientType' /\ PageInHand' /\ Unseen'
  BY <1>1 DEF Inv, ClientInv, ClientType, PageInHand, Unseen
<1>4. NotAhead' /\ NoGap' /\ NoEventMissed'
  BY <1>1 DEF Inv, ClientInv, NotAhead, NoGap, NoEventMissed, Current, Reached, Resolved
<1>5. MarksFollow' /\ ParkedIsNotApplied'
  BY <1>1 DEF Inv, ClientInv, MarksFollow, ParkedIsNotApplied, Resolved
<1>6. QED
  BY <1>2, <1>3, <1>4, <1>5 DEF Inv, ClientInv

LEMMA NextInv ==
  ASSUME Inv, [Next]_vars
  PROVE  Inv'
<1>1. CASE Server
  BY <1>1, ServerClientInv
<1>2. CASE SwapBackend
  BY <1>2, SwapClientInv
<1>3. CASE Syncing
  BY <1>3, SyncingInv
<1>4. CASE PullFails
  BY <1>4, PullFailsInv
<1>5. CASE Crashes
  BY <1>5, CrashInv, CrashBeforeApplyInv, CrashBeforeMarkInv, CrashInParkInv, CrashInResetInv
     DEF Crashes
<1>6. CASE UNCHANGED vars
  BY <1>6, StutterInv
<1>7. QED
  BY <1>1, <1>2, <1>3, <1>4, <1>5, <1>6 DEF Next

(* Inv holds in every reachable state, for the safety of the server        *)
(* (pushEvents, handlers.ts) and of the client (pullInbox, pull.ts).       *)
THEOREM Invariance == Spec => []Inv
<1>1. Init => Inv
  BY InitInv
<1>2. Inv /\ [Next]_vars => Inv'
  BY NextInv
<1>3. QED
  BY <1>1, <1>2, PTL DEF Spec

-----------------------------------------------------------------------------
(* The promises.                                                           *)

(* Every variable of the server and of the client keeps its type: no row   *)
(* without an inbox entry has a dead letter, no event is in the list of a   *)
(* pass without its sequence number.                                       *)
THEOREM TypeCorrect == Spec => []TypeOK
<1>1. Inv => TypeOK
  <2> SUFFICES ASSUME Inv PROVE TypeOK
    OBVIOUS
  <2>1. PartialFn(stored, Eids, Seqs) /\ nextSeq \in 1..(MaxSeq + 1) /\ nextXid \in Nat
    BY FiniteType DEF Inv, ServerInv, ServerType, PartialFn
  <2>2. ASSUME NEW c \in Conns
        PROVE  /\ conns[c].phase \in {"idle", "begun", "inserting"}
               /\ conns[c].todo \subseteq Eids
               /\ PartialFn(conns[c].fresh, Eids, Seqs)
    <3>1. conns[c] \in ConnType
      BY DEF Inv, ServerInv, ServerType
    <3>2. QED
      BY <3>1, FiniteType DEF ConnType, PartialFn
  <2>3. /\ rows \in [Keys -> [val : Eids \cup {None}, live : BOOLEAN]]
        /\ PartialFn(inbox, Eids, InboxRow) /\ dead \subseteq DOMAIN inbox
        /\ cursor \in 0..MaxSeq
        /\ sync.phase \in {"idle", "fetch", "items", "manual", "boot", "down"}
        /\ sync.todo \subseteq DOMAIN sync.seqs
    BY DEF Inv, ClientInv, ClientType, SyncType
  <2>4. QED
    BY <2>1, <2>2, <2>3 DEF TypeOK
<1>2. QED
  BY <1>1, Invariance, PTL

(* What the advisory lock is taken for: no open transaction sits on a      *)
(* global_seq below a committed one, so a puller that has seen a row will  *)
(* not have one appear behind it.                                          *)
THEOREM LockOrdersCommits == Spec => []CommitsInOrder
<1>1. Inv => CommitsInOrder
  BY DEF Inv, ServerInv
<1>2. QED
  BY <1>1, Invariance, PTL

(* pushEvents stores a transaction group as a whole or not at all, however *)
(* pushes of it overlap and whichever of its members are there already.    *)
THEOREM GroupsAreWhole == Spec => []GroupsWhole
<1>1. Inv => GroupsWhole
  BY DEF Inv, ServerInv
<1>2. QED
  BY <1>1, Invariance, PTL

(* The saved cursor of pullInbox never passes an event that is neither     *)
(* applied, skipped nor parked, whatever fails or crashes.                 *)
THEOREM NothingIsMissed == Spec => []NoEventMissed
<1>1. Inv => NoEventMissed
  BY DEF Inv, ClientInv
<1>2. QED
  BY <1>1, Invariance, PTL

(* An event with an inbound dead letter is not what a row shows, unless a  *)
(* crash kept its replay or its dead letter from being recorded.           *)
THEOREM ParkedStaysOut == Spec => []ParkedIsNotApplied
<1>1. Inv => ParkedIsNotApplied
  BY DEF Inv, ClientInv
<1>2. QED
  BY <1>1, Invariance, PTL

-----------------------------------------------------------------------------
(* What makes the rows converge on one store.                              *)

(* The BIGSERIAL hands out no number twice.                                *)
Distinct ==
  /\ \A e, f \in DOMAIN stored : stored[e] = stored[f] => e = f
  /\ \A c \in Conns : \A e, f \in DOMAIN conns[c].fresh :
       conns[c].fresh[e] = conns[c].fresh[f] => e = f

(* The inbox holds events of the store, under the store's numbers; what is *)
(* left of it to replay is of other devices.                               *)
InboxOfStore ==
  \A e \in DOMAIN inbox : /\ e \in DOMAIN stored /\ inbox[e].seq = stored[e]
                          /\ e \notin Resolved => ~Event[e].mine

(* Events enter the inbox in the order of the store: nothing below one is  *)
(* left.                                                                   *)
KeptInOrder ==
  \A f \in DOMAIN inbox, e \in DOMAIN stored : stored[e] < stored[f] => e \in Resolved

ListOfStore ==
  /\ sync.phase = "items" => sync.todo \subseteq sync.page
  /\ sync.phase \in {"manual", "boot"} =>
       \A e \in sync.todo : /\ e \in DOMAIN inbox /\ sync.seqs[e] = stored[e]
                            /\ ~Event[e].mine

OneStore == backend = 1 => ~torn /\ InboxOfStore /\ KeptInOrder /\ ListOfStore

(* The row of k is what the events of T make of it, in the store's order.  *)
Exists(T) == \E e \in T : /\ Event[e].type = "insert"
                          /\ \A f \in T : Event[f].type = "delete" => stored[f] < stored[e]
Shows(k, T) ==
  /\ rows[k].live = Exists(T)
  /\ Exists(T) => rows[k].val \in T /\ \A e \in T : stored[e] <= stored[rows[k].val]

(* A row shows the events that are resolved, and maybe one more, whose     *)
(* mark a crash kept from being written.                                   *)
Seen(k) == Replayed(k) \cap Resolved
Follows(k) ==
  Seen(k) \cap dead = {} =>
    \/ Shows(k, Seen(k))
    \/ \E d \in Replayed(k) \cap Unresolved : Shows(k, Seen(k) \cup {d})
RowsFollow == backend = 1 => \A k \in Keys : Follows(k)

ConvergeInv == Inv /\ Distinct /\ OneStore /\ RowsFollow

-----------------------------------------------------------------------------
(* No number is given out twice.                                           *)

LEMMA DistinctInit == Init => Distinct
BY DEF Init, ServerInit, Distinct, Idle, Tx

(* A step after which every connection has the new rows it had, or none.   *)
LEMMA DistinctKept ==
  ASSUME Distinct, stored' = stored,
         \A c \in Conns : conns'[c].fresh = conns[c].fresh \/ DOMAIN conns'[c].fresh = {}
  PROVE  Distinct'
<1>1. \A e, f \in DOMAIN stored' : stored'[e] = stored'[f] => e = f
  BY DEF Distinct
<1>2. ASSUME NEW c \in Conns, NEW e \in DOMAIN conns'[c].fresh, NEW f \in DOMAIN conns'[c].fresh,
             conns'[c].fresh[e] = conns'[c].fresh[f]
      PROVE  e = f
  BY <1>2 DEF Distinct
<1>3. QED
  BY <1>1, <1>2 DEF Distinct

LEMMA DistinctInsert ==
  ASSUME ServerInv, Distinct, NEW c \in Conns, NEW e \in Eids, Insert(c, e)
  PROVE  Distinct'
<1>1. conns \in [Conns -> ConnType] /\ conns[c] \in ConnType /\ nextSeq \in Nat
  BY DEF ServerInv, ServerType
<1> DEFINE r == [conns[c] EXCEPT !.todo = Done(c, e), !.fresh = NewRows(c, e), !.xid = NewXid(c)]
<1>2. conns' = [conns EXCEPT ![c] = r] /\ stored' = stored
  BY <1>1 DEF Insert
<1>3. r.fresh = NewRows(c, e)
  BY <1>1 DEF ConnType
<1> HIDE DEF r
<1>4. \A d \in Conns : conns'[d] = IF d = c THEN r ELSE conns[d]
  BY <1>1, <1>2
<1>5. \A d \in Conns \ {c} : conns'[d].fresh = conns[d].fresh
  BY <1>4
<1>6. conns'[c].fresh = NewRows(c, e)
  BY <1>3, <1>4
<1>7. \A f \in DOMAIN conns[c].fresh : conns[c].fresh[f] \in Nat /\ conns[c].fresh[f] < nextSeq
  <2>1. \A f \in DOMAIN conns[c].fresh : conns[c].fresh[f] \in Seqs
    BY <1>1, FiniteType DEF ConnType
  <2>2. QED
    BY <2>1 DEF Seqs, ServerInv, SeqsDrawn
<1>8. ASSUME NEW f \in DOMAIN NewRows(c, e), NEW g \in DOMAIN NewRows(c, e),
             NewRows(c, e)[f] = NewRows(c, e)[g]
      PROVE  f = g
  <2>1. \A h \in DOMAIN NewRows(c, e) :
          IF h = e THEN NewRows(c, e)[h] = nextSeq
          ELSE h \in DOMAIN conns[c].fresh /\ NewRows(c, e)[h] = conns[c].fresh[h]
    BY DEF NewRows
  <2>2. QED
    BY <1>1, <1>7, <1>8, <2>1 DEF Distinct
<1>9. \A d \in Conns : \A f, g \in DOMAIN conns'[d].fresh :
        conns'[d].fresh[f] = conns'[d].fresh[g] => f = g
  BY <1>5, <1>6, <1>8 DEF Distinct
<1>10. QED
  BY <1>2, <1>9 DEF Distinct

LEMMA DistinctFinish ==
  ASSUME ServerInv, Distinct, NEW c \in Conns, Finish(c)
  PROVE  Distinct'
<1>1. conns \in [Conns -> ConnType]
  BY DEF ServerInv, ServerType
<1>2. conns' = [conns EXCEPT ![c] = Idle] /\ DOMAIN Idle.fresh = {}
  BY DEF Finish, Idle, Tx
<1>3. \A d \in Conns : conns'[d].fresh = conns[d].fresh \/ DOMAIN conns'[d].fresh = {}
  BY <1>1, <1>2
<1>4. CASE conns[c].refused
  <2>1. stored' = stored
    BY <1>4 DEF Finish
  <2>2. QED
    BY <1>3, <2>1, DistinctKept
<1>5. CASE ~conns[c].refused
  <2>1. stored' = Committed(c)
    BY <1>5 DEF Finish
  <2>2. /\ DOMAIN Committed(c) = DOMAIN stored \cup DOMAIN conns[c].fresh
        /\ \A e \in DOMAIN stored : Committed(c)[e] = stored[e]
        /\ \A e \in DOMAIN conns[c].fresh \ DOMAIN stored : Committed(c)[e] = conns[c].fresh[e]
    BY CommittedType
  <2>3. \A f \in DOMAIN conns[c].fresh : \A e \in DOMAIN stored :
          stored[e] \in Nat /\ conns[c].fresh[f] \in Nat /\ stored[e] < conns[c].fresh[f]
    <3>1. \A f \in DOMAIN conns[c].fresh : conns[c].fresh[f] \in Seqs
      BY <1>1, FiniteType DEF ConnType
    <3>2. QED
      BY <3>1, StoredType DEF Seqs, ServerInv, CommitsInOrder
  <2>4. ASSUME NEW e \in DOMAIN stored', NEW f \in DOMAIN stored', stored'[e] = stored'[f]
        PROVE  e = f
    <3>1. CASE e \in DOMAIN stored /\ f \in DOMAIN stored
      BY <2>1, <2>2, <2>4, <3>1 DEF Distinct
    <3>2. CASE e \in DOMAIN stored /\ f \notin DOMAIN stored
      BY <2>1, <2>2, <2>3, <2>4, <3>2
    <3>3. CASE e \notin DOMAIN stored /\ f \in DOMAIN stored
      BY <2>1, <2>2, <2>3, <2>4, <3>3
    <3>4. CASE e \notin DOMAIN stored /\ f \notin DOMAIN stored
      <4>1. e \in DOMAIN conns[c].fresh /\ f \in DOMAIN conns[c].fresh
        BY <2>1, <2>2, <3>4
      <4>2. conns[c].fresh[e] = conns[c].fresh[f]
        BY <2>1, <2>2, <2>4, <3>4, <4>1
      <4>3. QED
        BY <4>1, <4>2 DEF Distinct
    <3>5. QED
      BY <3>1, <3>2, <3>3, <3>4
  <2>5. \A d \in Conns : \A f, g \in DOMAIN conns'[d].fresh :
          conns'[d].fresh[f] = conns'[d].fresh[g] => f = g
    BY <1>3 DEF Distinct
  <2>6. QED
    BY <2>4, <2>5 DEF Distinct
<1>6. QED
  BY <1>4, <1>5

LEMMA DistinctServer ==
  ASSUME ServerInv, Distinct, ServerNext
  PROVE  Distinct'
<1>1. conns \in [Conns -> ConnType]
  BY DEF ServerInv, ServerType
<1>2. ASSUME NEW c \in Conns, TakeLock(c) \/ RollBack(c) \/ \E e \in Eids : Begin(c, e)
      PROVE  Distinct'
  <2>1. stored' = stored /\ \A d \in Conns : conns'[d].fresh = conns[d].fresh \/ DOMAIN conns'[d].fresh = {}
    BY <1>1, <1>2 DEF TakeLock, RollBack, Begin, Idle, Tx, ConnType
  <2>2. QED
    BY <2>1, DistinctKept
<1>3. ASSUME NEW c \in Conns, NEW e \in Eids, Dedup(c, e) \/ Refuse(c, e)
      PROVE  Distinct'
  <2>1. stored' = stored /\ \A d \in Conns : conns'[d].fresh = conns[d].fresh
    BY <1>1, <1>3 DEF Dedup, Refuse, ConnType
  <2>2. QED
    BY <2>1, DistinctKept
<1>4. QED
  BY <1>2, <1>3, DistinctInsert, DistinctFinish DEF ServerNext, Serve

LEMMA DistinctSwap ==
  ASSUME ServerInv, Distinct, SwapBackend
  PROVE  Distinct'
<1>1. PICK n \in 0..MaxSeq : stored' = [e \in {x \in DOMAIN stored : stored[x] <= n} |-> stored[e]]
  BY DEF SwapBackend
<1>2. conns' = [c \in Conns |-> Idle] /\ DOMAIN Idle.fresh = {}
  BY DEF SwapBackend, Idle, Tx
<1>3. \A e \in DOMAIN stored' : e \in DOMAIN stored /\ stored'[e] = stored[e]
  BY <1>1
<1>4. \A c \in Conns : DOMAIN conns'[c].fresh = {}
  BY <1>2
<1>5. QED
  BY <1>3, <1>4 DEF Distinct

LEMMA DistinctNext ==
  ASSUME Inv, Distinct, [Next]_vars
  PROVE  Distinct'
<1>1. CASE Server
  BY <1>1, DistinctServer DEF Inv, Server
<1>2. CASE SwapBackend
  BY <1>2, DistinctSwap DEF Inv
<1>3. CASE Syncing \/ PullFails \/ Crashes \/ UNCHANGED vars
  <2>1. UNCHANGED server
    BY <1>3 DEF Syncing, StartPull, FetchPage, ResetCursor, Item, SkipOwn, SkipResolved,
         HaltAtUnknown, SkipUnknown, Apply, FailAndRetry, FailAndPark, ParkThrows, FinishPage,
         Start, Started, PullFails, Crashes, Crash, CrashBeforeApply, CrashBeforeMark,
         CrashInPark, CrashInReset, Restart, vars
  <2>2. stored' = stored /\ conns' = conns
    BY <2>1 DEF server
  <2>3. QED
    BY <2>2, DistinctKept
<1>4. QED
  BY <1>1, <1>2, <1>3 DEF Next

-----------------------------------------------------------------------------
(* One store.                                                              *)

(* On its first store the device does not find a new identity.             *)
LEMMA FirstStore ==
  ASSUME Inv, backend = 1
  PROVE  ~Mismatch /\ (sync.phase = "items" => seenBackend = 1)
<1>1. seenBackend \in {None, 1}
  BY DEF Inv, ClientInv, ClientType, None
<1>2. QED
  BY <1>1 DEF Mismatch, Inv, ClientInv, Unseen

(* The event at hand: everything below it is resolved.                     *)
LEMMA AtHand ==
  ASSUME Inv, OneStore, backend = 1, NEW e \in Eids, AtItem(e)
  PROVE  /\ e \in DOMAIN stored /\ sync.seqs[e] = stored[e] /\ Entry(e).seq = stored[e]
         /\ \A g \in DOMAIN stored : stored[g] < stored[e] => g \in Resolved
         /\ ToReplay(e) => ~Event[e].mine
<1>1. ~torn /\ InboxOfStore /\ KeptInOrder /\ ListOfStore
  BY DEF OneStore
<1>2. e \in sync.todo /\ sync.phase \in {"items", "manual", "boot"} /\ \A f \in sync.todo : sync.seqs[e] <= sync.seqs[f]
  BY DEF AtItem
<1>3. /\ e \in DOMAIN stored /\ sync.seqs[e] = stored[e]
      /\ \A g \in DOMAIN stored : stored[g] < stored[e] => g \in Resolved
  <2>1. CASE sync.phase = "items"
    <3>1. Current
      BY <1>1, <2>1, FirstStore DEF Current
    <3>2. e \in sync.page /\ sync.todo \subseteq sync.page
      BY <1>1, <1>2, <2>1 DEF ListOfStore
    <3>3. \A f \in sync.page :
            /\ f \in DOMAIN stored /\ sync.seqs[f] = stored[f]
            /\ \A g \in DOMAIN stored : stored[g] <= stored[f] => g \in Resolved \cup sync.todo
      BY <2>1, <3>1 DEF Inv, ClientInv, NoGap
    <3>4. ASSUME NEW g \in DOMAIN stored, stored[g] < stored[e] PROVE g \in Resolved
      <4>1. stored[g] \in Nat /\ stored[e] \in Nat
        BY <3>2, <3>3, StoredType DEF Inv
      <4>2. g \in Resolved \cup sync.todo
        BY <3>2, <3>3, <3>4, <4>1
      <4>3. g \in sync.todo => stored[e] <= stored[g]
        BY <1>2, <3>2, <3>3
      <4>4. QED
        BY <3>4, <4>1, <4>2, <4>3
    <3>5. QED
      BY <3>2, <3>3, <3>4
  <2>2. CASE sync.phase \in {"manual", "boot"}
    <3>1. e \in DOMAIN inbox /\ sync.seqs[e] = stored[e]
      BY <1>1, <1>2, <2>2 DEF ListOfStore
    <3>2. QED
      BY <1>1, <3>1 DEF InboxOfStore, KeptInOrder
  <2>3. QED
    BY <1>2, <2>1, <2>2
<1>4. Entry(e).seq = stored[e]
  BY <1>1, <1>3 DEF Entry, NewRow, InboxOfStore
<1>5. ToReplay(e) => ~Event[e].mine
  BY <1>1, <1>2 DEF ToReplay, ListOfStore
<1>6. QED
  BY <1>3, <1>4, <1>5

(* An unresolved event at hand comes after all that is in the inbox.       *)
LEMMA AtHandIsLast ==
  ASSUME Inv, Distinct, OneStore, backend = 1, NEW e \in Eids, AtItem(e), e \notin Resolved
  PROVE  \A f \in DOMAIN inbox : f # e => f \in Resolved /\ stored[f] < stored[e]
<1> SUFFICES ASSUME NEW f \in DOMAIN inbox, f # e
             PROVE  f \in Resolved /\ stored[f] < stored[e]
  OBVIOUS
<1>1. e \in DOMAIN stored /\ \A g \in DOMAIN stored : stored[g] < stored[e] => g \in Resolved
  BY AtHand
<1>2. InboxOfStore /\ KeptInOrder
  BY DEF OneStore
<1>3. f \in DOMAIN stored
  BY <1>2 DEF InboxOfStore
<1>4. stored[e] \in Nat /\ stored[f] \in Nat /\ stored[e] # stored[f]
  BY <1>1, <1>3, StoredType DEF Inv, Distinct
<1>5. ~(stored[e] < stored[f])
  BY <1>1, <1>2 DEF KeptInOrder
<1>6. stored[f] < stored[e]
  BY <1>4, <1>5
<1>7. QED
  BY <1>1, <1>3, <1>6

(* What enters the inbox is of the store and in its order.                 *)
LEMMA InboxKept ==
  ASSUME Inv, OneStore, backend = 1, NEW e \in Eids, AtItem(e), NEW row \in InboxRow,
         row.seq = stored[e], inbox' = With(e, row), stored' = stored,
         row.sync \/ (e \notin Resolved /\ ~Event[e].mine)
  PROVE  InboxOfStore' /\ KeptInOrder'
<1>1. InboxOfStore /\ KeptInOrder
  BY DEF OneStore
<1>2. e \in DOMAIN stored /\ \A g \in DOMAIN stored : stored[g] < stored[e] => g \in Resolved
  BY AtHand
<1>3. \A f \in DOMAIN inbox' : inbox'[f] = IF f = e THEN row ELSE inbox[f]
  BY DEF With
<1>4. /\ DOMAIN inbox' = DOMAIN inbox \cup {e}
      /\ Resolved' = IF row.sync THEN Resolved \cup {e} ELSE Resolved
  BY WithType
<1>5. InboxOfStore'
  <2> SUFFICES ASSUME NEW f \in DOMAIN inbox'
               PROVE  /\ f \in DOMAIN stored /\ inbox'[f].seq = stored[f]
                      /\ f \notin Resolved' => ~Event[f].mine
    BY DEF InboxOfStore
  <2>1. CASE f = e
    BY <1>2, <1>3, <1>4, <2>1
  <2>2. CASE f # e
    BY <1>1, <1>3, <1>4, <2>2 DEF InboxOfStore
  <2>3. QED
    BY <2>1, <2>2
<1>6. KeptInOrder'
  BY <1>1, <1>2, <1>4 DEF KeptInOrder
<1>7. QED
  BY <1>5, <1>6

LEMMA InboxSame ==
  ASSUME InboxOfStore, KeptInOrder, UNCHANGED <<stored, inbox>>
  PROVE  InboxOfStore' /\ KeptInOrder'
BY DEF InboxOfStore, KeptInOrder, Resolved

(* What is left to do after an event, or when a pass ends.                 *)
LEMMA ListKept ==
  ASSUME Inv, ListOfStore, UNCHANGED stored, DOMAIN inbox \subseteq DOMAIN inbox',
         \/ \E e \in Eids : Next1(e)
         \/ \E n \in Nat, b \in BOOLEAN, ph \in {"idle", "down", "fetch"} : sync' = Pass(ph, n, b)
  PROVE  ListOfStore'
<1>1. ASSUME NEW e \in Eids, Next1(e) PROVE ListOfStore'
  <2>1. /\ sync'.todo = sync.todo \ {e} /\ sync'.phase = sync.phase
        /\ sync'.page = sync.page /\ sync'.seqs = sync.seqs
    BY <1>1, NextType
  <2>2. QED
    BY <2>1 DEF ListOfStore
<1>2. ASSUME NEW n \in Nat, NEW b \in BOOLEAN, NEW ph \in {"idle", "down", "fetch"},
             sync' = Pass(ph, n, b)
      PROVE  ListOfStore'
  <2>1. sync'.phase = ph
    BY <1>2, PassType
  <2>2. QED
    BY <2>1 DEF ListOfStore
<1>3. QED
  BY <1>1, <1>2

LEMMA EndsPass ==
  ASSUME Inv, NEW ph \in {"idle", "down"}, After(ph) \/ sync' = Phase(ph)
  PROVE  \E n \in Nat, b \in BOOLEAN, p \in {"idle", "down", "fetch"} : sync' = Pass(p, n, b)
<1>1. Since \in Nat /\ 0 \in Nat
  BY SinceType DEF Inv
<1>2. sync' = Pass(ph, 0, FALSE) \/ sync' = Pass("fetch", Since, FALSE)
  BY DEF After, Phase
<1>3. CASE sync' = Pass(ph, 0, FALSE)
  BY <1>1, <1>3
<1>4. CASE sync' = Pass("fetch", Since, FALSE)
  BY <1>1, <1>4
<1>5. QED
  BY <1>2, <1>3, <1>4

(* A step on the inbox row of the event at hand.                           *)
LEMMA StoreItem ==
  ASSUME Inv, OneStore, NEW e \in Eids, AtItem(e), NEW row \in InboxRow,
         row.seq = Entry(e).seq, inbox' = With(e, row), UNCHANGED <<stored, backend, torn>>,
         row.sync \/ ToReplay(e),
         \/ Next1(e)
         \/ \E n \in Nat, b \in BOOLEAN, ph \in {"idle", "down", "fetch"} : sync' = Pass(ph, n, b)
  PROVE  OneStore'
<1> SUFFICES ASSUME backend = 1
             PROVE  ~torn /\ InboxOfStore' /\ KeptInOrder' /\ ListOfStore'
  BY DEF OneStore
<1>1. ~torn /\ ListOfStore
  BY DEF OneStore
<1>2. row.seq = stored[e] /\ (row.sync \/ (e \notin Resolved /\ ~Event[e].mine))
  BY AtHand DEF ToReplay
<1>3. InboxOfStore' /\ KeptInOrder'
  BY <1>2, InboxKept
<1>4. DOMAIN inbox \subseteq DOMAIN inbox'
  BY DEF With
<1>5. ListOfStore'
  BY <1>1, <1>4, ListKept
<1>6. QED
  BY <1>1, <1>3, <1>5

(* A step that leaves the inbox alone.                                     *)
LEMMA StorePass ==
  ASSUME Inv, OneStore, UNCHANGED <<stored, inbox, backend>>, torn' => torn,
         \/ \E e \in Eids : Next1(e)
         \/ \E n \in Nat, b \in BOOLEAN, ph \in {"idle", "down", "fetch"} : sync' = Pass(ph, n, b)
  PROVE  OneStore'
<1> SUFFICES ASSUME backend = 1
             PROVE  ~torn' /\ InboxOfStore' /\ KeptInOrder' /\ ListOfStore'
  BY DEF OneStore
<1>1. ~torn /\ InboxOfStore /\ KeptInOrder /\ ListOfStore
  BY DEF OneStore
<1>2. ListOfStore'
  BY <1>1, ListKept
<1>3. QED
  BY <1>1, <1>2, InboxSame

(* The fields of the rows a step writes.                                   *)
LEMMA RowFields ==
  ASSUME NEW r \in InboxRow, NEW n \in 0..MaxAttempts
  PROVE  /\ [r EXCEPT !.sync = TRUE] \in InboxRow /\ [r EXCEPT !.sync = TRUE].seq = r.seq
         /\ [r EXCEPT !.sync = TRUE].sync
         /\ [r EXCEPT !.sync = TRUE, !.skipped = TRUE] \in InboxRow
         /\ [r EXCEPT !.sync = TRUE, !.skipped = TRUE].seq = r.seq
         /\ [r EXCEPT !.sync = TRUE, !.skipped = TRUE].sync
         /\ [r EXCEPT !.attempts = n] \in InboxRow /\ [r EXCEPT !.attempts = n].seq = r.seq
         /\ [r EXCEPT !.sync = TRUE, !.skipped = TRUE, !.attempts = n] \in InboxRow
         /\ [r EXCEPT !.sync = TRUE, !.skipped = TRUE, !.attempts = n].seq = r.seq
         /\ [r EXCEPT !.sync = TRUE, !.skipped = TRUE, !.attempts = n].sync
BY DEF InboxRow

LEMMA OneStoreItem ==
  ASSUME Inv, OneStore, Item
  PROVE  OneStore'
<1>1. PICK e \in Eids : \/ SkipOwn(e) \/ SkipResolved(e) \/ HaltAtUnknown(e) \/ SkipUnknown(e)
                        \/ Apply(e) \/ FailAndRetry(e) \/ FailAndPark(e) \/ ParkThrows(e)
  BY DEF Item
<1>0. UNCHANGED <<stored, backend, torn>>
  BY <1>1 DEF SkipOwn, SkipResolved, HaltAtUnknown, SkipUnknown, Apply, FailAndRetry, FailAndPark,
              ParkThrows, server, client
<1>2. AtItem(e) /\ Entry(e) \in InboxRow /\ MaxAttempts \in 0..MaxAttempts
  <2>1. AtItem(e)
    BY <1>1 DEF SkipOwn, SkipResolved, HaltAtUnknown, SkipUnknown, Apply, FailAndRetry, FailAndPark,
                ParkThrows, Throws, MayThrow, ToReplay
  <2>2. QED
    BY <2>1, EntryType, ClientAssumption
<1>3. CASE SkipOwn(e)
  <2>1. inbox' = With(e, [Entry(e) EXCEPT !.sync = TRUE]) /\ Next1(e)
    BY <1>3 DEF SkipOwn
  <2>2. [Entry(e) EXCEPT !.sync = TRUE] \in InboxRow /\ [Entry(e) EXCEPT !.sync = TRUE].seq = Entry(e).seq
        /\ [Entry(e) EXCEPT !.sync = TRUE].sync
    BY <1>2, RowFields
  <2>3. QED
    BY <1>0, <1>2, <2>1, <2>2, StoreItem
<1>4. CASE SkipResolved(e)
  <2>1. inbox' = inbox /\ Next1(e)
    BY <1>4 DEF SkipResolved, client
  <2>2. QED
    BY <1>0, <2>1, StorePass
<1>5. CASE HaltAtUnknown(e)
  <2>1. inbox' = With(e, Entry(e)) /\ ToReplay(e) /\ After("idle")
    BY <1>5 DEF HaltAtUnknown, Break
  <2>2. QED
    BY <1>0, <1>2, <2>1, EndsPass, StoreItem
<1>6. CASE SkipUnknown(e)
  <2>1. inbox' = With(e, [Entry(e) EXCEPT !.sync = TRUE, !.skipped = TRUE]) /\ Next1(e)
    BY <1>6 DEF SkipUnknown
  <2>2. /\ [Entry(e) EXCEPT !.sync = TRUE, !.skipped = TRUE] \in InboxRow
        /\ [Entry(e) EXCEPT !.sync = TRUE, !.skipped = TRUE].seq = Entry(e).seq
        /\ [Entry(e) EXCEPT !.sync = TRUE, !.skipped = TRUE].sync
    BY <1>2, RowFields
  <2>3. QED
    BY <1>0, <1>2, <2>1, <2>2, StoreItem
<1>7. CASE Apply(e)
  <2>1. inbox' = With(e, [Entry(e) EXCEPT !.sync = TRUE]) /\ Next1(e)
    BY <1>7 DEF Apply
  <2>2. [Entry(e) EXCEPT !.sync = TRUE] \in InboxRow /\ [Entry(e) EXCEPT !.sync = TRUE].seq = Entry(e).seq
        /\ [Entry(e) EXCEPT !.sync = TRUE].sync
    BY <1>2, RowFields
  <2>3. QED
    BY <1>0, <1>2, <2>1, <2>2, StoreItem
<1>8. CASE FailAndRetry(e)
  <2>1. inbox' = With(e, [Entry(e) EXCEPT !.attempts = Attempts(e)]) /\ ToReplay(e) /\ After("idle")
        /\ Attempts(e) < MaxAttempts
    BY <1>8 DEF FailAndRetry, Throws, MayThrow, Break
  <2>2. /\ [Entry(e) EXCEPT !.attempts = Attempts(e)] \in InboxRow
        /\ [Entry(e) EXCEPT !.attempts = Attempts(e)].seq = Entry(e).seq
    BY <1>2, <2>1, AttemptsType, RowFields
  <2>3. QED
    BY <1>0, <1>2, <2>1, <2>2, EndsPass, StoreItem
<1>9. CASE FailAndPark(e)
  <2> DEFINE row == [Entry(e) EXCEPT !.sync = TRUE, !.skipped = TRUE, !.attempts = MaxAttempts]
  <2>1. inbox' = With(e, row) /\ Next1(e)
    BY <1>9 DEF FailAndPark
  <2>2. row \in InboxRow /\ row.seq = Entry(e).seq /\ row.sync
    BY <1>2, RowFields
  <2> HIDE DEF row
  <2>3. QED
    BY <1>0, <1>2, <2>1, <2>2, StoreItem
<1>10. CASE ParkThrows(e)
  <2> DEFINE ph == IF sync.phase = "boot" THEN "down" ELSE "idle"
  <2>1. inbox' = With(e, [Entry(e) EXCEPT !.attempts = MaxAttempts]) /\ ToReplay(e) /\ After(ph)
    BY <1>10 DEF ParkThrows, Throws, MayThrow
  <2>2. /\ [Entry(e) EXCEPT !.attempts = MaxAttempts] \in InboxRow
        /\ [Entry(e) EXCEPT !.attempts = MaxAttempts].seq = Entry(e).seq
    BY <1>2, RowFields
  <2>3. ph \in {"idle", "down"}
    OBVIOUS
  <2> HIDE DEF ph
  <2>4. QED
    BY <1>0, <1>2, <2>1, <2>2, <2>3, EndsPass, StoreItem
<1>11. QED
  BY <1>1, <1>3, <1>4, <1>5, <1>6, <1>7, <1>8, <1>9, <1>10

(* A page is of the store, and what is left of the inbox too.              *)
LEMMA OneStoreSyncing ==
  ASSUME Inv, OneStore, Syncing
  PROVE  OneStore'
<1>1. CASE StartPull
  <2>1. sync' = Pass("fetch", Since, FALSE) /\ UNCHANGED <<stored, inbox, backend, torn>> /\ Since \in Nat
    BY <1>1, SinceType DEF StartPull, Inv, server, client
  <2>2. QED
    BY <2>1, StorePass
<1>2. CASE FetchPage
  <2>1. UNCHANGED <<stored, inbox, backend, torn>>
    BY <1>2 DEF FetchPage, server
  <2>2. sync' = Pass("idle", 0, FALSE) \/ (sync'.phase = "items" /\ sync'.todo = sync'.page)
    <3>1. sync \in SyncType
      BY DEF Inv, ClientInv, ClientType
    <3>2. QED
      BY <1>2, <3>1 DEF FetchPage, Phase, SyncType
  <2>3. CASE sync' = Pass("idle", 0, FALSE)
    BY <2>1, <2>3, StorePass
  <2>4. CASE sync'.phase = "items" /\ sync'.todo = sync'.page
    BY <2>1, <2>4, InboxSame DEF OneStore, ListOfStore
  <2>5. QED
    BY <2>2, <2>3, <2>4
<1>3. CASE ResetCursor
  <2>1. /\ sync' = Pass("fetch", 0, TRUE) /\ UNCHANGED <<stored, inbox, backend>> /\ torn' = FALSE
    BY <1>3 DEF ResetCursor, server
  <2>2. QED
    BY <2>1, StorePass
<1>4. CASE Item
  BY <1>4, OneStoreItem
<1>5. CASE FinishPage
  <2>1. /\ sync.phase = "items" /\ UNCHANGED <<stored, inbox, backend, torn>>
        /\ sync' = Pass("fetch", NextCursor, sync.checked) \/ sync' = Pass("idle", 0, FALSE)
    BY <1>5 DEF FinishPage, Phase, server
  <2>2. NextCursor \in Nat /\ sync.checked \in BOOLEAN
    BY <2>1, NextCursorIsLast, ServerAssumption DEF Inv, ClientInv, ClientType, SyncType
  <2>3. CASE sync' = Pass("fetch", NextCursor, sync.checked)
    BY <2>1, <2>2, <2>3, StorePass
  <2>4. CASE sync' = Pass("idle", 0, FALSE)
    BY <2>1, <2>4, StorePass
  <2>5. QED
    BY <2>1, <2>3, <2>4
<1>6. CASE Start
  <2> DEFINE ph == IF sync.phase = "down" THEN "boot" ELSE "manual"
             seqs == [e \in Unresolved |-> inbox[e].seq]
  <2>1. /\ sync' = [sync EXCEPT !.phase = ph, !.todo = Unresolved, !.seqs = seqs]
        /\ UNCHANGED <<stored, inbox, backend, torn>>
    BY <1>6 DEF Start, server, client
  <2>2. sync'.phase = ph /\ sync'.todo = Unresolved /\ sync'.seqs = seqs
    BY <2>1 DEF Inv, ClientInv, ClientType, SyncType
  <2>3. backend = 1 => ListOfStore'
    <3>1. ASSUME backend = 1, NEW e \in Unresolved
          PROVE  e \in DOMAIN inbox /\ seqs[e] = stored[e] /\ ~Event[e].mine
      BY <3>1 DEF Unresolved, OneStore, InboxOfStore
    <3>2. QED
      BY <2>1, <2>2, <3>1 DEF ListOfStore
  <2>4. QED
    BY <2>1, <2>3, InboxSame DEF OneStore
<1>7. CASE Started
  <2>1. After("idle") /\ UNCHANGED <<stored, inbox, backend, torn>>
    BY <1>7 DEF Started, server, client
  <2>2. QED
    BY <2>1, EndsPass, StorePass
<1>8. QED
  BY <1>1, <1>2, <1>3, <1>4, <1>5, <1>6, <1>7 DEF Syncing

LEMMA OneStoreCrashes ==
  ASSUME Inv, OneStore, Crashes
  PROVE  OneStore'
<1>1. sync' = Pass("down", 0, FALSE) /\ UNCHANGED <<stored, backend>>
  BY DEF Crashes, Crash, CrashBeforeApply, CrashBeforeMark, CrashInPark, CrashInReset, Restart, Phase,
         server
<1>2. CASE Crash
  <2>1. inbox' = inbox /\ torn' = torn
    BY <1>2 DEF Crash, client
  <2>2. QED
    BY <1>1, <2>1, StorePass
<1>3. CASE CrashBeforeApply \/ CrashBeforeMark
  <2>1. PICK e \in Eids : ToReplay(e) /\ inbox' = With(e, Entry(e)) /\ torn' = torn
    BY <1>3 DEF CrashBeforeApply, CrashBeforeMark
  <2>2. AtItem(e) /\ Entry(e) \in InboxRow
    BY <2>1, EntryType DEF ToReplay
  <2>3. QED
    BY <1>1, <2>1, <2>2, StoreItem
<1>4. CASE CrashInPark
  <2>1. PICK e \in Eids : /\ ToReplay(e) /\ torn' = torn
                          /\ inbox' = With(e, [Entry(e) EXCEPT !.attempts = MaxAttempts])
    BY <1>4 DEF CrashInPark, MayThrow
  <2>2. AtItem(e) /\ Entry(e) \in InboxRow /\ MaxAttempts \in 0..MaxAttempts
    BY <2>1, EntryType, ClientAssumption DEF ToReplay
  <2>3. /\ [Entry(e) EXCEPT !.attempts = MaxAttempts] \in InboxRow
        /\ [Entry(e) EXCEPT !.attempts = MaxAttempts].seq = Entry(e).seq
    BY <2>2, RowFields
  <2>4. QED
    BY <1>1, <2>1, <2>2, <2>3, StoreItem
<1>5. CASE CrashInReset
  BY <1>1, <1>5, FirstStore DEF CrashInReset, OneStore
<1>6. QED
  BY <1>2, <1>3, <1>4, <1>5 DEF Crashes

(* A commit puts its rows above everything in the inbox.                   *)
LEMMA OneStoreServer ==
  ASSUME Inv, OneStore, Server
  PROVE  OneStore'
<1> SUFFICES ASSUME backend = 1
             PROVE  ~torn /\ InboxOfStore' /\ KeptInOrder' /\ ListOfStore'
  BY DEF Server, client, OneStore
<1>1. ServerInv /\ ServerNext /\ UNCHANGED <<inbox, sync, torn>>
  BY DEF Inv, Server, client
<1>2. ~torn /\ InboxOfStore /\ KeptInOrder /\ ListOfStore
  BY DEF OneStore
<1>3. Resolved' = Resolved
  BY <1>1 DEF Resolved
<1>4. CASE stored' = stored
  BY <1>1, <1>2, <1>4, InboxSame DEF ListOfStore
<1>5. CASE /\ DOMAIN stored \subseteq DOMAIN stored'
           /\ \A e \in DOMAIN stored : stored'[e] = stored[e]
           /\ \A e \in DOMAIN stored' \ DOMAIN stored :
                stored'[e] > 0 /\ \A f \in DOMAIN stored : stored[f] < stored'[e]
  <2>1. InboxOfStore'
    BY <1>1, <1>2, <1>3, <1>5 DEF InboxOfStore
  <2>2. KeptInOrder'
    <3> SUFFICES ASSUME NEW f \in DOMAIN inbox, NEW e \in DOMAIN stored', stored'[e] < stored'[f]
                 PROVE  e \in Resolved
      BY <1>1, <1>3 DEF KeptInOrder
    <3>1. f \in DOMAIN stored /\ stored'[f] = stored[f] /\ stored[f] \in Nat
      BY <1>1, <1>2, <1>5, StoredType DEF InboxOfStore
    <3>2. stored'[e] \in Nat
      <4>1. ServerInv'
        BY <1>1, ServerNextInv
      <4>2. stored' \in Finite(Eids)
        BY <4>1 DEF ServerInv, ServerType
      <4>3. QED
        BY <4>2, FiniteType DEF Seqs
    <3>3. e \in DOMAIN stored
      BY <1>5, <3>1, <3>2
    <3>4. QED
      BY <1>2, <1>5, <3>1, <3>3 DEF KeptInOrder
  <2>3. ListOfStore'
    BY <1>1, <1>2, <1>5 DEF ListOfStore, InboxOfStore
  <2>4. QED
    BY <1>2, <2>1, <2>2, <2>3
<1>6. QED
  BY <1>1, <1>4, <1>5, StoredGrows

LEMMA OneStoreNext ==
  ASSUME Inv, OneStore, [Next]_vars
  PROVE  OneStore'
<1>1. CASE Server
  BY <1>1, OneStoreServer
<1>2. CASE SwapBackend
  <2>1. backend' = backend + 1 /\ backend \in Nat \ {0}
    BY <1>2 DEF SwapBackend, Inv, ClientInv, ClientType
  <2>2. QED
    BY <2>1 DEF OneStore
<1>3. CASE Syncing
  BY <1>3, OneStoreSyncing
<1>4. CASE PullFails
  <2>1. sync' = Pass("idle", 0, FALSE) /\ UNCHANGED <<stored, inbox, backend, torn>>
    BY <1>4 DEF PullFails, Phase, server, client
  <2>2. QED
    BY <2>1, StorePass
<1>5. CASE Crashes
  BY <1>5, OneStoreCrashes
<1>6. CASE UNCHANGED vars
  BY <1>6 DEF vars, server, client, OneStore, InboxOfStore, KeptInOrder, ListOfStore, Resolved
<1>7. QED
  BY <1>1, <1>2, <1>3, <1>4, <1>5, <1>6 DEF Next

-----------------------------------------------------------------------------
(* The rows.                                                               *)

(* A row that is not written, and whose events stay as resolved as they    *)
(* were.                                                                   *)
LEMMA RowKept ==
  ASSUME NEW k \in Keys, Follows(k), rows'[k] = rows[k], config' = config, dead \subseteq dead',
         \A e \in DOMAIN inbox : stored'[e] = stored[e],
         Replayed(k) \cap Resolved' = Replayed(k) \cap Resolved,
         Replayed(k) \cap Unresolved \subseteq Unresolved'
  PROVE  Follows(k)'
<1>1. Replayed(k)' = Replayed(k)
  BY DEF Replayed, Readable
<1>2. Seen(k)' = Seen(k)
  BY <1>1 DEF Seen
<1>3. ASSUME NEW T, T \subseteq DOMAIN inbox, Shows(k, T) PROVE Shows(k, T)'
  <2>1. Exists(T)' = Exists(T)
    BY <1>3 DEF Exists
  <2>2. Exists(T) => rows[k].val \in T /\ \A e \in T : stored'[e] <= stored'[rows[k].val]
    BY <1>3 DEF Shows
  <2>3. QED
    BY <1>3, <2>1, <2>2 DEF Shows
<1>4. SUFFICES ASSUME Seen(k)' \cap dead' = {}
               PROVE  \/ Shows(k, Seen(k))'
                      \/ \E d \in (Replayed(k) \cap Unresolved)' : Shows(k, Seen(k) \cup {d})'
  BY DEF Follows
<1>5. Seen(k) \cap dead = {} /\ Seen(k) \subseteq DOMAIN inbox
  BY <1>2, <1>4 DEF Seen, Resolved
<1>6. PICK S : S = Seen(k)
  OBVIOUS
<1>7. CASE Shows(k, S)
  <2>1. Shows(k, S)'
    BY <1>3, <1>5, <1>6, <1>7
  <2>2. QED
    BY <1>2, <1>6, <2>1 DEF Shows, Exists
<1>8. CASE \E d \in Replayed(k) \cap Unresolved : Shows(k, S \cup {d})
  <2>1. PICK d \in Replayed(k) \cap Unresolved : Shows(k, S \cup {d})
    BY <1>8
  <2>2. d \in DOMAIN inbox /\ d \in (Replayed(k) \cap Unresolved)'
    BY <1>1, <2>1 DEF Unresolved
  <2>3. Shows(k, S \cup {d})'
    BY <1>3, <1>5, <1>6, <2>1, <2>2
  <2>4. QED
    BY <1>2, <1>6, <2>2, <2>3 DEF Shows, Exists
<1>9. QED
  BY <1>5, <1>6, <1>7, <1>8 DEF Follows

LEMMA WrittenRow ==
  ASSUME Inv, NEW e \in Eids
  PROVE  /\ Event[e].type = "insert" /\ ~rows[Event[e].key].live =>
              Written(e)[Event[e].key].val = e /\ Written(e)[Event[e].key].live = TRUE
         /\ Event[e].type = "update" /\ rows[Event[e].key].live =>
              Written(e)[Event[e].key].val = e /\ Written(e)[Event[e].key].live = TRUE
         /\ Event[e].type = "update" /\ ~rows[Event[e].key].live => Written(e) = rows
         /\ Event[e].type = "delete" => Written(e)[Event[e].key].live = FALSE
<1> DEFINE k == Event[e].key
           b == Event[e].type # "delete"
           c == Event[e].type = "insert"
           row == [val |-> e, live |-> b]
<1>1. k \in Keys
  BY DEF Keys
<1>2. rows \in [Keys -> [val : Eids \cup {None}, live : BOOLEAN]]
  BY DEF Inv, ClientInv, ClientType
<1>3. b \in BOOLEAN /\ c \in BOOLEAN /\ rows[k].live \in BOOLEAN
  BY <1>1, <1>2
<1>4. Written(e) = IF c = rows[k].live THEN rows ELSE [rows EXCEPT ![k] = row]
  BY DEF Written
<1>5. Event[e].type = "insert" => b = TRUE /\ c = TRUE
  OBVIOUS
<1>6. Event[e].type = "update" => b = TRUE /\ c = FALSE
  OBVIOUS
<1>7. Event[e].type = "delete" => b = FALSE /\ c = FALSE
  OBVIOUS
<1> HIDE DEF b, c
<1>8. row.val = e /\ row.live = b
  OBVIOUS
<1> HIDE DEF row, k
<1>9. [rows EXCEPT ![k] = row][k] = row
  BY <1>1, <1>2
<1>10. Event[e].type = "delete" => Written(e)[k].live = FALSE
  BY <1>3, <1>4, <1>7, <1>8, <1>9
<1>11. Event[e].type = "insert" /\ ~rows[k].live => Written(e)[k].val = e /\ Written(e)[k].live = TRUE
  BY <1>3, <1>4, <1>5, <1>8, <1>9
<1>12. Event[e].type = "update" /\ rows[k].live => Written(e)[k].val = e /\ Written(e)[k].live = TRUE
  BY <1>3, <1>4, <1>6, <1>8, <1>9
<1>13. Event[e].type = "update" /\ ~rows[k].live => Written(e) = rows
  BY <1>3, <1>4, <1>6
<1>14. QED
  BY <1>10, <1>11, <1>12, <1>13 DEF k

(* A write shows its event, when all that was shown before comes earlier.  *)
LEMMA WriteShows ==
  ASSUME Inv, NEW e \in Eids, e \in DOMAIN stored, NEW T, T \subseteq DOMAIN stored,
         \A f \in T : stored[f] < stored[e],
         Shows(Event[e].key, T) \/ Shows(Event[e].key, T \cup {e}),
         Fits(e), rows' = Written(e), stored' = stored
  PROVE  Shows(Event[e].key, T \cup {e})'
<1> DEFINE k == Event[e].key
           U == T \cup {e}
<1>1. k \in Keys /\ Event[e].type \in Types
  BY EventAssumption DEF Keys
<1>2. \A f \in U : stored[f] \in Nat /\ stored[f] <= stored[e]
  BY StoredType DEF Inv
<1>4. rows' = Written(e) /\ stored' = stored
  OBVIOUS
<1>5. Exists(U)' = Exists(U)
  BY <1>4 DEF Exists
<1>6. CASE Event[e].type = "insert"
  <2>1. Exists(U)
    <3>1. \A f \in U : Event[f].type = "delete" => stored[f] < stored[e]
      BY <1>6
    <3>2. QED
      BY <1>6, <3>1 DEF Exists
  <2>2. rows'[k].val = e /\ rows'[k].live = TRUE
    BY <1>4, <1>6, WrittenRow DEF Fits
  <2>4. \A f \in U : stored'[f] <= stored'[rows'[k].val]
    BY <1>2, <1>4, <2>2
  <2>5. Exists(U)' = TRUE
    BY <1>5, <2>1 DEF Exists
  <2>6. QED
    BY <2>2, <2>4, <2>5 DEF Shows
<1>7. CASE Event[e].type = "update"
  <2>1. Exists(T) = Exists(U)
    <3>1. Exists(T) => Exists(U)
      BY <1>7 DEF Exists
    <3>2. Exists(U) => Exists(T)
      BY <1>7 DEF Exists
    <3>3. QED
      BY <3>1, <3>2 DEF Exists
  <2>2. rows[k].live = Exists(U)
    BY <2>1 DEF Shows
  <2>3. CASE rows[k].live
    <3>1. rows'[k].val = e /\ rows'[k].live = TRUE
      BY <1>4, <1>7, <2>3, WrittenRow
    <3>2. \A f \in U : stored'[f] <= stored'[rows'[k].val]
      BY <1>2, <1>4, <3>1
    <3>3. Exists(U)' = TRUE
      BY <1>5, <2>2, <2>3 DEF Exists
    <3>4. QED
      BY <3>1, <3>2, <3>3 DEF Shows
  <2>4. CASE ~rows[k].live
    <3>1. rows' = rows
      BY <1>4, <1>7, <2>4, WrittenRow
    <3>2. ~Exists(U)
      BY <2>2, <2>4
    <3>3. QED
      BY <1>5, <2>2, <3>1, <3>2 DEF Shows
  <2>5. QED
    BY <2>3, <2>4
<1>8. CASE Event[e].type = "delete"
  <2>1. ~Exists(U)
    BY <1>2, <1>8 DEF Exists
  <2>2. rows'[k].live = FALSE
    BY <1>4, <1>8, WrittenRow
  <2>3. Exists(U) = FALSE
    BY <2>1 DEF Exists
  <2>4. QED
    BY <1>5, <2>2, <2>3 DEF Shows
<1>9. QED
  BY <1>1, <1>6, <1>7, <1>8 DEF Types

(* The events a row shows come before one at hand that is unresolved; that *)
(* one is the only event whose mark may be missing.                        *)
LEMMA ShownBefore ==
  ASSUME Inv, Distinct, OneStore, RowsFollow, backend = 1, NEW e \in Eids, AtItem(e), e \notin Resolved,
         Seen(Event[e].key) \cap dead = {}
  PROVE  /\ e \in DOMAIN stored /\ Seen(Event[e].key) \subseteq DOMAIN stored
         /\ \A f \in Seen(Event[e].key) : stored[f] < stored[e]
         /\ \/ Shows(Event[e].key, Seen(Event[e].key))
            \/ Shows(Event[e].key, Seen(Event[e].key) \cup {e})
<1>1. e \in DOMAIN stored /\ Event[e].key \in Keys
  BY AtHand DEF Keys
<1>2. \A f \in DOMAIN inbox : f # e => f \in Resolved /\ stored[f] < stored[e]
  BY AtHandIsLast
<1>3. DOMAIN inbox \subseteq DOMAIN stored
  BY DEF OneStore, InboxOfStore
<1>4. Seen(Event[e].key) \subseteq DOMAIN inbox /\ e \notin Seen(Event[e].key)
  BY DEF Seen, Resolved
<1>5. Follows(Event[e].key)
  BY <1>1 DEF RowsFollow
<1>6. \A d \in Unresolved : d = e
  BY <1>2 DEF Unresolved
<1>7. \/ Shows(Event[e].key, Seen(Event[e].key))
      \/ Shows(Event[e].key, Seen(Event[e].key) \cup {e})
  BY <1>5, <1>6 DEF Follows
<1>8. QED
  BY <1>1, <1>2, <1>3, <1>4, <1>7

(* A write that is marked.                                                 *)
LEMMA RowApplied ==
  ASSUME Inv, Distinct, OneStore, RowsFollow, backend = 1, NEW e \in Eids, Apply(e)
  PROVE  Follows(Event[e].key)'
<1>1. ToReplay(e) /\ AtItem(e) /\ e \notin Resolved /\ Readable(e) /\ Fits(e) /\ rows' = Written(e)
      /\ UNCHANGED <<stored, config, dead>>
  BY DEF Apply, ToReplay, server
<1>2. Resolved' = Resolved \cup {e}
  <2>1. Entry(e) \in InboxRow /\ 0 \in 0..MaxAttempts
    BY <1>1, EntryType, ClientAssumption
  <2>2. [Entry(e) EXCEPT !.sync = TRUE] \in InboxRow /\ [Entry(e) EXCEPT !.sync = TRUE].sync
    BY <2>1, RowTypes
  <2>3. inbox' = With(e, [Entry(e) EXCEPT !.sync = TRUE])
    BY DEF Apply
  <2>4. QED
    BY <1>1, <2>2, <2>3, WithType
<1>3. PICK k : k = Event[e].key
  OBVIOUS
<1>4. e \in Replayed(k) /\ Replayed(k)' = Replayed(k)
  BY <1>1, <1>3, AtHand DEF Replayed, Readable
<1>5. PICK T : T = Seen(k)
  OBVIOUS
<1>6. PICK U : U = T \cup {e}
  OBVIOUS
<1>7. Seen(k)' = U
  BY <1>2, <1>4, <1>5, <1>6 DEF Seen
<1>8. SUFFICES ASSUME Seen(k)' \cap dead' = {} PROVE Shows(k, U)'
  BY <1>3, <1>7 DEF Follows, Shows, Exists
<1>9. Seen(k) \cap dead = {}
  BY <1>1, <1>5, <1>6, <1>7, <1>8
<1>10. /\ e \in DOMAIN stored /\ T \subseteq DOMAIN stored /\ \A f \in T : stored[f] < stored[e]
       /\ Shows(k, T) \/ Shows(k, T \cup {e})
  BY <1>1, <1>3, <1>5, <1>9, ShownBefore
<1>11. Shows(k, T \cup {e})'
  BY <1>1, <1>3, <1>10, WriteShows
<1>12. QED
  BY <1>6, <1>11 DEF Shows, Exists

(* A write whose mark a crash cut off.                                     *)
LEMMA RowUnmarked ==
  ASSUME Inv, Distinct, OneStore, RowsFollow, backend = 1, NEW e \in Eids,
         ToReplay(e), Readable(e), Fits(e), rows' = Written(e), inbox' = With(e, Entry(e)),
         UNCHANGED <<stored, config, dead>>
  PROVE  Follows(Event[e].key)'
<1>1. AtItem(e) /\ e \notin Resolved
  BY DEF ToReplay
<1>2. Entry(e) \in InboxRow /\ ~Entry(e).sync
  BY <1>1, EntryType
<1>3. Resolved' = Resolved /\ e \in DOMAIN inbox'
  <2>1. DOMAIN inbox' = DOMAIN inbox \cup {e} /\ Resolved' = Resolved
    BY <1>1, <1>2, WithType
  <2>2. QED
    BY <2>1
<1>4. PICK k : k = Event[e].key
  OBVIOUS
<1>5. e \in Replayed(k) /\ Replayed(k)' = Replayed(k)
  BY <1>1, <1>4, AtHand DEF Replayed, Readable
<1>6. PICK T : T = Seen(k)
  OBVIOUS
<1>7. PICK U : U = T \cup {e}
  OBVIOUS
<1>8. Seen(k)' = T /\ e \in (Replayed(k) \cap Unresolved)'
  BY <1>1, <1>3, <1>5, <1>6 DEF Seen, Unresolved
<1>9. SUFFICES ASSUME Seen(k)' \cap dead' = {} PROVE Shows(k, U)'
  <2>1. Shows(k, U)' => Shows(k, Seen(k) \cup {e})'
    BY <1>7, <1>8 DEF Shows, Exists
  <2>2. QED
    BY <1>4, <1>8, <2>1 DEF Follows
<1>10. Seen(k) \cap dead = {}
  BY <1>6, <1>8, <1>9
<1>11. /\ e \in DOMAIN stored /\ T \subseteq DOMAIN stored /\ \A f \in T : stored[f] < stored[e]
       /\ Shows(k, T) \/ Shows(k, T \cup {e})
  BY <1>1, <1>4, <1>6, <1>10, ShownBefore
<1>12. Shows(k, T \cup {e})'
  BY <1>4, <1>11, WriteShows
<1>13. QED
  BY <1>7, <1>12 DEF Shows, Exists

(* A step on an event that is not one of k, or that leaves it unresolved.  *)
LEMMA RowAside ==
  ASSUME Inv, RowsFollow, backend = 1, NEW k \in Keys, NEW e \in Eids, AtItem(e),
         NEW row \in InboxRow, inbox' = With(e, row), row.sync \/ e \notin Resolved,
         e \in Replayed(k) => ~row.sync,
         rows'[k] = rows[k], UNCHANGED <<stored, config>>, dead \subseteq dead'
  PROVE  Follows(k)'
<1>1. /\ DOMAIN inbox' = DOMAIN inbox \cup {e}
      /\ Resolved' = IF row.sync THEN Resolved \cup {e} ELSE Resolved
  BY WithType
<1>2. Replayed(k) \cap Resolved' = Replayed(k) \cap Resolved
  BY <1>1
<1>3. Replayed(k) \cap Unresolved \subseteq Unresolved'
  BY <1>1 DEF Unresolved
<1>4. Follows(k)
  BY DEF RowsFollow
<1>5. QED
  BY <1>2, <1>3, <1>4, RowKept

LEMMA RowsSame ==
  ASSUME RowsFollow, UNCHANGED <<stored, config, backend, rows, inbox, dead>>
  PROVE  RowsFollow'
<1> SUFFICES ASSUME backend = 1, NEW k \in Keys PROVE Follows(k)'
  BY DEF RowsFollow
<1>1. Follows(k) /\ Resolved' = Resolved /\ Unresolved' = Unresolved
  BY DEF RowsFollow, Resolved, Unresolved
<1>2. QED
  BY <1>1, RowKept

LEMMA RowsFollowItem ==
  ASSUME Inv, Distinct, OneStore, RowsFollow, Item
  PROVE  RowsFollow'
<1>1. PICK e \in Eids : \/ SkipOwn(e) \/ SkipResolved(e) \/ HaltAtUnknown(e) \/ SkipUnknown(e)
                        \/ Apply(e) \/ FailAndRetry(e) \/ FailAndPark(e) \/ ParkThrows(e)
  BY DEF Item
<1>2. UNCHANGED <<stored, config, backend>>
  BY <1>1 DEF SkipOwn, SkipResolved, HaltAtUnknown, SkipUnknown, Apply, FailAndRetry, FailAndPark,
              ParkThrows, server, client
<1>3. AtItem(e) /\ Entry(e) \in InboxRow /\ MaxAttempts \in 0..MaxAttempts
  <2>1. AtItem(e)
    BY <1>1 DEF SkipOwn, SkipResolved, HaltAtUnknown, SkipUnknown, Apply, FailAndRetry, FailAndPark,
                ParkThrows, Throws, MayThrow, ToReplay
  <2>2. QED
    BY <2>1, EntryType, ClientAssumption
<1>4. CASE SkipResolved(e)
  BY <1>2, <1>4, RowsSame DEF SkipResolved, client
<1> SUFFICES ASSUME ~SkipResolved(e), backend = 1, NEW k \in Keys PROVE Follows(k)'
  BY <1>2, <1>4 DEF RowsFollow
<1>5. CASE SkipOwn(e)
  <2>1. /\ inbox' = With(e, [Entry(e) EXCEPT !.sync = TRUE]) /\ e \notin Replayed(k)
        /\ rows' = rows /\ dead' = dead
    BY <1>5 DEF SkipOwn, Replayed
  <2>2. [Entry(e) EXCEPT !.sync = TRUE] \in InboxRow /\ [Entry(e) EXCEPT !.sync = TRUE].sync
    BY <1>3, RowFields
  <2>3. QED
    BY <1>2, <1>3, <2>1, <2>2, RowAside
<1>6. CASE HaltAtUnknown(e)
  <2>1. inbox' = With(e, Entry(e)) /\ e \notin Resolved /\ rows' = rows /\ dead' = dead
    BY <1>6 DEF HaltAtUnknown, ToReplay
  <2>2. ~Entry(e).sync
    BY <1>3, <2>1, EntryType
  <2>3. QED
    BY <1>2, <1>3, <2>1, <2>2, RowAside
<1>7. CASE SkipUnknown(e)
  <2>1. /\ inbox' = With(e, [Entry(e) EXCEPT !.sync = TRUE, !.skipped = TRUE]) /\ e \notin Replayed(k)
        /\ rows' = rows /\ dead' = dead
    BY <1>7 DEF SkipUnknown, Replayed
  <2>2. /\ [Entry(e) EXCEPT !.sync = TRUE, !.skipped = TRUE] \in InboxRow
        /\ [Entry(e) EXCEPT !.sync = TRUE, !.skipped = TRUE].sync
    BY <1>3, RowFields
  <2>3. QED
    BY <1>2, <1>3, <2>1, <2>2, RowAside
<1>8. CASE Apply(e)
  <2>1. CASE k = Event[e].key
    BY <1>8, <2>1, RowApplied
  <2>2. CASE k # Event[e].key
    <3>1. inbox' = With(e, [Entry(e) EXCEPT !.sync = TRUE]) /\ rows' = Written(e) /\ dead' = dead
      BY <1>8 DEF Apply
    <3>2. [Entry(e) EXCEPT !.sync = TRUE] \in InboxRow /\ [Entry(e) EXCEPT !.sync = TRUE].sync
      BY <1>3, RowFields
    <3>3. rows'[k] = rows[k] /\ e \notin Replayed(k)
      BY <2>2, <3>1 DEF Written, Inv, ClientInv, ClientType, Replayed
    <3>4. QED
      BY <1>2, <1>3, <3>1, <3>2, <3>3, RowAside
  <2>3. QED
    BY <2>1, <2>2
<1>9. CASE FailAndRetry(e)
  <2>1. /\ inbox' = With(e, [Entry(e) EXCEPT !.attempts = Attempts(e)])
        /\ ToReplay(e) /\ Attempts(e) < MaxAttempts /\ rows' = rows /\ dead' = dead
    BY <1>9 DEF FailAndRetry, Throws, MayThrow
  <2>2. e \notin Resolved /\ ~Entry(e).sync /\ Attempts(e) \in 0..MaxAttempts
    BY <1>3, <2>1, EntryType, AttemptsType DEF ToReplay
  <2>3. /\ [Entry(e) EXCEPT !.attempts = Attempts(e)] \in InboxRow
        /\ ~[Entry(e) EXCEPT !.attempts = Attempts(e)].sync
    BY <1>3, <2>2, RowTypes
  <2>4. QED
    BY <1>2, <1>3, <2>1, <2>2, <2>3, RowAside
<1>10. CASE FailAndPark(e)
  <2> DEFINE row == [Entry(e) EXCEPT !.sync = TRUE, !.skipped = TRUE, !.attempts = MaxAttempts]
  <2>1. inbox' = With(e, row) /\ rows' = rows /\ dead' = dead \cup {e}
    BY <1>10 DEF FailAndPark
  <2>2. row \in InboxRow /\ row.sync
    BY <1>3, RowFields
  <2> HIDE DEF row
  <2>3. CASE e \notin Replayed(k)
    BY <1>2, <1>3, <2>1, <2>2, <2>3, RowAside
  <2>4. CASE e \in Replayed(k)
    <3>1. Resolved' = Resolved \cup {e}
      BY <1>3, <2>1, <2>2, WithType
    <3>2. Replayed(k)' = Replayed(k)
      BY <1>2 DEF Replayed, Readable
    <3>3. QED
      BY <2>1, <2>4, <3>1, <3>2 DEF Follows, Seen
  <2>5. QED
    BY <2>3, <2>4
<1>11. CASE ParkThrows(e)
  <2>1. /\ inbox' = With(e, [Entry(e) EXCEPT !.attempts = MaxAttempts])
        /\ ToReplay(e) /\ rows' = rows /\ dead' = dead
    BY <1>11 DEF ParkThrows, Throws, MayThrow
  <2>2. e \notin Resolved /\ ~Entry(e).sync
    BY <1>3, <2>1, EntryType DEF ToReplay
  <2>3. /\ [Entry(e) EXCEPT !.attempts = MaxAttempts] \in InboxRow
        /\ ~[Entry(e) EXCEPT !.attempts = MaxAttempts].sync
    BY <1>3, <2>2, RowTypes
  <2>4. QED
    BY <1>2, <1>3, <2>1, <2>2, <2>3, RowAside
<1>12. QED
  BY <1>1, <1>5, <1>6, <1>7, <1>8, <1>9, <1>10, <1>11

LEMMA RowsFollowCrashes ==
  ASSUME Inv, Distinct, OneStore, RowsFollow, Crashes
  PROVE  RowsFollow'
<1>1. UNCHANGED <<stored, backend, config>>
  BY DEF Crashes, Crash, CrashBeforeApply, CrashBeforeMark, CrashInPark, CrashInReset, Restart, server
<1>2. CASE Crash \/ CrashInReset
  BY <1>1, <1>2, RowsSame DEF Crash, CrashInReset, client
<1> SUFFICES ASSUME ~(Crash \/ CrashInReset), backend = 1, NEW k \in Keys PROVE Follows(k)'
  BY <1>1, <1>2 DEF RowsFollow
<1>3. CASE CrashBeforeApply
  <2>1. PICK e \in Eids : ToReplay(e) /\ inbox' = With(e, Entry(e)) /\ rows' = rows /\ dead' = dead
    BY <1>3 DEF CrashBeforeApply
  <2>2. AtItem(e) /\ Entry(e) \in InboxRow /\ e \notin Resolved /\ ~Entry(e).sync
    BY <2>1, EntryType DEF ToReplay
  <2>3. QED
    BY <1>1, <2>1, <2>2, RowAside
<1>4. CASE CrashBeforeMark
  <2>1. PICK e \in Eids : /\ ToReplay(e) /\ Readable(e) /\ Fits(e)
                          /\ inbox' = With(e, Entry(e)) /\ rows' = Written(e)
    BY <1>4 DEF CrashBeforeMark
  <2>2. dead' = dead
    BY <1>4 DEF CrashBeforeMark
  <2>3. AtItem(e) /\ Entry(e) \in InboxRow /\ e \notin Resolved /\ ~Entry(e).sync
    BY <2>1, EntryType DEF ToReplay
  <2>4. CASE k = Event[e].key
    BY <1>1, <2>1, <2>2, <2>4, RowUnmarked
  <2>5. CASE k # Event[e].key
    <3>1. rows'[k] = rows[k]
      BY <2>1, <2>5 DEF Written, Inv, ClientInv, ClientType
    <3>2. QED
      BY <1>1, <2>1, <2>2, <2>3, <3>1, RowAside
  <2>6. QED
    BY <2>4, <2>5
<1>5. CASE CrashInPark
  <2>1. PICK e \in Eids : /\ ToReplay(e) /\ rows' = rows /\ dead' = dead \cup {e}
                          /\ inbox' = With(e, [Entry(e) EXCEPT !.attempts = MaxAttempts])
    BY <1>5 DEF CrashInPark, MayThrow
  <2>2. AtItem(e) /\ Entry(e) \in InboxRow /\ MaxAttempts \in 0..MaxAttempts /\ e \notin Resolved
        /\ ~Entry(e).sync
    BY <2>1, EntryType, ClientAssumption DEF ToReplay
  <2>3. /\ [Entry(e) EXCEPT !.attempts = MaxAttempts] \in InboxRow
        /\ ~[Entry(e) EXCEPT !.attempts = MaxAttempts].sync
    BY <2>2, RowTypes
  <2>4. QED
    BY <1>1, <2>1, <2>2, <2>3, RowAside
<1>6. QED
  BY <1>3, <1>4, <1>5 DEF Crashes

LEMMA RowsFollowServer ==
  ASSUME Inv, OneStore, RowsFollow, Server
  PROVE  RowsFollow'
<1>1. /\ ServerInv /\ ServerNext
      /\ UNCHANGED <<config, backend, rows, inbox, dead>>
  BY DEF Inv, Server, client
<1> SUFFICES ASSUME backend = 1, NEW k \in Keys PROVE Follows(k)'
  BY <1>1 DEF RowsFollow
<1>2. \A e \in DOMAIN inbox : e \in DOMAIN stored
  BY DEF OneStore, InboxOfStore
<1>3. \A e \in DOMAIN inbox : stored'[e] = stored[e]
  BY <1>1, <1>2, StoredGrows
<1>4. Follows(k) /\ Resolved' = Resolved /\ Unresolved' = Unresolved
  BY <1>1 DEF RowsFollow, Resolved, Unresolved
<1>5. QED
  BY <1>1, <1>3, <1>4, RowKept

LEMMA RowsFollowNext ==
  ASSUME Inv, Distinct, OneStore, RowsFollow, [Next]_vars
  PROVE  RowsFollow'
<1>1. CASE Server
  BY <1>1, RowsFollowServer
<1>2. CASE SwapBackend
  <2>1. backend' = backend + 1 /\ backend \in Nat \ {0}
    BY <1>2 DEF SwapBackend, Inv, ClientInv, ClientType
  <2>2. QED
    BY <2>1 DEF RowsFollow
<1>3. CASE Item
  BY <1>3, RowsFollowItem
<1>4. CASE StartPull \/ FetchPage \/ ResetCursor \/ FinishPage \/ Start \/ Started \/ PullFails
           \/ UNCHANGED vars
  <2>1. UNCHANGED <<stored, config, backend, rows, inbox, dead>>
    BY <1>4 DEF StartPull, FetchPage, ResetCursor, FinishPage, Start, Started, PullFails, vars,
                server, client
  <2>2. QED
    BY <2>1, RowsSame
<1>5. CASE Crashes
  BY <1>5, RowsFollowCrashes
<1>6. QED
  BY <1>1, <1>2, <1>3, <1>4, <1>5 DEF Next, Syncing

LEMMA ConvergeInit == Init => ConvergeInv
<1> SUFFICES ASSUME Init PROVE ConvergeInv
  OBVIOUS
<1>1. Inv /\ Distinct
  BY InitInv, DistinctInit
<1>2. DOMAIN inbox = {} /\ torn = FALSE /\ sync.phase = "idle" /\ dead = {}
  BY DEF Init, Phase, Pass
<1>3. OneStore
  BY <1>2 DEF OneStore, InboxOfStore, KeptInOrder, ListOfStore
<1>4. ASSUME NEW k \in Keys PROVE Follows(k)
  <2>1. rows[k].live = FALSE
    BY DEF Init
  <2>2. Seen(k) = {}
    BY <1>2 DEF Seen, Resolved
  <2>3. PICK T : T = {}
    OBVIOUS
  <2>4. Exists(T) = FALSE
    BY <2>3 DEF Exists
  <2>5. Shows(k, T)
    BY <2>1, <2>4 DEF Shows
  <2>6. QED
    BY <2>2, <2>3, <2>5 DEF Follows
<1>5. QED
  BY <1>1, <1>3, <1>4 DEF ConvergeInv, RowsFollow

(* On one store, whatever fails, crashes or is redone, once every event    *)
(* of a row that the device replays is resolved and none is parked, the    *)
(* domain table shows the newest of them (replayEvent, pull.ts, over       *)
(* pages in global_seq order and the restart's replayInbox).               *)
THEOREM RowsConvergeAlways == Spec => []RowsConverge
<1>1. Init => ConvergeInv
  BY ConvergeInit
<1>2. ConvergeInv /\ [Next]_vars => ConvergeInv'
  BY NextInv, DistinctNext, OneStoreNext, RowsFollowNext DEF ConvergeInv
<1>3. ConvergeInv => RowsConverge
  <2> SUFFICES ASSUME ConvergeInv, backend = 1, NEW k \in Keys,
                      Replayed(k) \cap DOMAIN stored \subseteq Resolved \ dead
               PROVE  LET S == Replayed(k) \cap DOMAIN stored
                      IN  /\ rows[k].live = Exists(S)
                          /\ Exists(S) => \A e \in S : stored[e] <= stored[rows[k].val]
    BY DEF RowsConverge, Exists
  <2>1. DOMAIN inbox \subseteq DOMAIN stored /\ Follows(k)
    BY DEF ConvergeInv, OneStore, InboxOfStore, RowsFollow
  <2>2. Seen(k) = Replayed(k) \cap DOMAIN stored
    BY <2>1 DEF Seen, Resolved
  <2>3. Seen(k) \cap dead = {} /\ Replayed(k) \cap Unresolved = {}
    BY <2>1, <2>2 DEF Unresolved
  <2>4. Shows(k, Seen(k))
    BY <2>1, <2>3 DEF Follows
  <2>5. QED
    BY <2>2, <2>4 DEF Shows
<1>4. QED
  BY <1>1, <1>2, <1>3, PTL DEF Spec
=============================================================================
