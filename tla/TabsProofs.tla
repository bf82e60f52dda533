----------------------------- MODULE TabsProofs -----------------------------
(***************************************************************************)
(* Proofs about several tabs over one database: for any number of tabs,    *)
(* edits, resets, failures and crashes, and any jobs side by side, no edit *)
(* is lost but by the ways NothingLost names, and the cursor of the pull   *)
(* passes no event that the device does not have.                          *)
(***************************************************************************)
EXTENDS Tabs, Extrema, SequenceTheorems

-----------------------------------------------------------------------------
(* Types.                                                                  *)

Stored == [eid : Nat, edits : SUBSET (1..MaxEdits), by : Nat]

Has(r, F) == DOMAIN r = F /\ r = [x \in F |-> r[x]]

Fields == {"client", "phase", "epoch", "again", "push", "wire", "answer", "turned",
           "page", "cursor", "requeued", "doomed", "settled"}
JobShape(j) == Has(j, Fields)

(* A page ends within the log it was read from.                            *)
JobOK(j, n) ==
  /\ JobShape(j)
  /\ j.client \in 0..n /\ j.push \in {"none", "done", "failed"}
  /\ \A e \in DOMAIN j.wire : j.wire[e].edits \subseteq 1..MaxEdits /\ j.wire[e].by \in 0..n
  /\ j.cursor \in 0..MaxEvents /\ j.page \in Seq(Stored) /\ j.cursor + Len(j.page) <= MaxEvents

JobsOK == tab = [t \in Tab |-> tab[t]] /\ \A t \in Tab : JobOK(tab[t], nextClient)

RowOK(r) ==
  /\ Has(r, {"edits", "by", "synced", "waits", "age"})
  /\ r.edits \subseteq 1..MaxEdits /\ r.by \in 0..nextClient
  /\ r.synced \in BOOLEAN /\ r.age \in 0..config.delay

FoldOK(r) ==
  /\ Has(r, {"into", "left", "edits", "by", "age", "gone"})
  /\ r.edits \subseteq 1..MaxEdits /\ r.gone \subseteq 1..MaxEdits
  /\ r.by \in 0..nextClient /\ r.age \in 0..config.delay
  /\ r.into = None => r.gone = {}

FoldsOK == fold = [t \in Tab |-> fold[t]] /\ \A t \in Tab : FoldOK(fold[t])

TablesOK ==
  /\ config \in Configs
  /\ FoldsOK
  /\ \A e \in DOMAIN outbox : RowOK(outbox[e])
  /\ Bodied(dead)
  /\ \A e \in DOMAIN parked : parked[e] \in 1..MaxEvents
  /\ \A e \in DOMAIN inbox : Has(inbox[e], {"seq", "done"}) /\ inbox[e].seq \in 1..MaxEvents
  /\ Has(meta, {"client", "cursor", "seen", "lastSync"})
  /\ meta.client \in 0..nextClient /\ meta.cursor \in 0..MaxEvents
  /\ meta.lastSync \in {Never} \cup (0..config.delay)
  /\ log \in Seq(Stored) /\ Len(log) <= MaxEvents
  /\ backend \in Nat /\ backend >= 1 /\ meta.seen \in 0..backend
  /\ edits \in 0..MaxEdits /\ nextEid \in Nat /\ nextEid >= 1
  /\ nextClient \in Nat /\ nextClient >= 1
  /\ holder \in Tab \cup {None}
  /\ Has(lost, {"discarded", "swept", "unsent", "torn", "pruned", "released", "waived"})

-----------------------------------------------------------------------------
(* What makes NothingLost inductive.                                       *)

(* With a lock, a tab in a sync or a reset has it.                         *)
Locked == {"decide", "sent", "answered", "pull", "page", "turn", "pulled", "outcome",
           "wipe rows", "wipe tables", "forget"}
LockHeld == config.lock => \A t \in Tab : tab[t].phase \in Locked => holder = t

(* Ids are drawn once.                                                     *)
Known == 1..(nextEid - 1)
Drawn ==
  /\ DOMAIN outbox \cup DOMAIN dead \cup LogEids \subseteq Known
  /\ \A t \in Tab : /\ DOMAIN tab[t].wire \subseteq Known
                    /\ Folding(t) => fold[t].into \in Known /\ fold[t].left \subseteq Known
  /\ \A t \in Tab : tab[t].phase \in {"answered", "reanswered"} =>
                      tab[t].turned \subseteq DOMAIN tab[t].wire

(* A fold that has deleted the row it is going to insert: no other can     *)
(* have that event as long.                                                *)
Claims(t) == Folding(t) /\ fold[t].into \notin fold[t].left
ClaimedOnce ==
  \A t \in Tab : Claims(t) =>
    /\ fold[t].into \notin DOMAIN outbox
    /\ \A u \in Tab : Claims(u) /\ fold[u].into = fold[t].into => u = t

(* What was taken of an event at some time, to be sent, by the server or   *)
(* as a dead letter (Sent), and what the outbox has of it differ in        *)
(* nothing but edits known to be unsent or torn; so does what a fold is    *)
(* going to insert.                                                        *)
Apart == lost.unsent \cup lost.torn
CopiesAgree ==
  \A e \in Known : \A s \in Sent(e) :
    /\ \A r \in Sent(e) : r \ s \subseteq Apart
    /\ e \in DOMAIN outbox => /\ s \ outbox[e].edits \subseteq Apart
                              /\ outbox[e].edits \ s \subseteq Apart
FoldsAgree ==
  \A t \in Tab : Claims(t) => \A s \in Sent(fold[t].into) : s \ fold[t].gone \subseteq Apart

(* A confirmed event is on the server, or was on a server that has since   *)
(* been replaced, and in a sync that is going to be noticed.               *)
AnswersStored ==
  \A t \in Tab : tab[t].phase \in {"answered", "reanswered"} => \A e \in Confirmed(t) :
    \/ e \in LogEids
    \/ backend > 1 /\ (tab[t].phase = "reanswered" \/ meta.seen # backend)

Away == lost.released \cup Apart

(* So is a synced row, or what it has was released.                        *)
SyncedHeld ==
  \A e \in Synced : \/ e \in LogEids
                    \/ backend > 1 /\ meta.seen \notin {None, backend}
                    \/ backend > 1 /\ outbox[e].edits \subseteq Away

(* A device that knows no server has nothing synced that is not released.  *)
NewcomerReleased ==
  config.lock =>
    /\ meta.seen = None => \A e \in Synced : outbox[e].edits \subseteq Away
    /\ \A t \in Tab : tab[t].phase = "forget" => Synced = {}

(* Every edit is in the outbox or a dead letter, or in a fold, or has a    *)
(* reason not to be.                                                       *)
InFolds == UNION {fold[t].gone : t \in Tab}
Accounted ==
  1..edits \subseteq EditsOf(outbox) \cup EditsOf(dead) \cup InFolds
                       \cup lost.discarded \cup lost.swept \cup lost.pruned \cup Away

(* What was released is on the server, unless it was replaced.             *)
LogEdits == UNION {log[i].edits : i \in DOMAIN log}
ReleasedHeld == backend = 1 => lost.released \subseteq LogEdits \cup Apart

(* The store is not replaced under tabs that sync side by side.            *)
Guarded == \A c \in Configs : c.lock \/ c.swaps = 0
OneSyncs == config.lock \/ backend = 1

Ledger == /\ CopiesAgree /\ FoldsAgree /\ AnswersStored /\ SyncedHeld /\ NewcomerReleased
          /\ Accounted /\ ReleasedHeld /\ OneSyncs

Inv == TablesOK /\ JobsOK /\ LockHeld /\ Drawn /\ ClaimedOnce /\ (Guarded => Ledger)

-----------------------------------------------------------------------------
(* Operators.                                                              *)

LEMMA InvTypes == Inv => TypeOK
BY DEF Inv, TablesOK, FoldsOK, FoldOK, JobsOK, JobOK, RowOK, TypeOK, Bodied

LEMMA EditsIn ==
  ASSUME NEW f, NEW e \in DOMAIN f
  PROVE  f[e].edits \subseteq EditsOf(f)
BY DEF EditsOf

LEMMA EditsFrom ==
  ASSUME NEW f, NEW n \in EditsOf(f)
  PROVE  \E e \in DOMAIN f : n \in f[e].edits
BY DEF EditsOf

LEMMA BodiesAre ==
  ASSUME NEW f, NEW S
  PROVE  /\ DOMAIN Bodies(f, S) = S
         /\ \A e \in S : Bodies(f, S)[e].edits = f[e].edits /\ Bodies(f, S)[e].by = f[e].by
BY DEF Bodies

LEMMA EmptyIs == DOMAIN Empty = {} /\ EditsOf(Empty) = {} /\ Bodied(Empty)
BY DEF Empty, EditsOf, Bodied

LEMMA JoinIs ==
  ASSUME NEW f, NEW g
  PROVE  /\ DOMAIN Join(f, g) = DOMAIN f \cup DOMAIN g
         /\ \A e \in DOMAIN g : Join(f, g)[e] = g[e]
         /\ \A e \in DOMAIN f \ DOMAIN g : Join(f, g)[e] = f[e]
BY DEF Join

LEMMA WithoutIs ==
  ASSUME NEW f, NEW S
  PROVE  /\ DOMAIN Without(f, S) = DOMAIN f \ S
         /\ \A e \in DOMAIN f \ S : Without(f, S)[e] = f[e]
BY DEF Without

(* A set of ids can be listed in order, and the list has all of them.      *)
LEMMA InOrderLists ==
  ASSUME NEW n \in Nat, NEW S, S \subseteq 1..n
  PROVE  /\ Cardinality(S) \in Nat
         /\ InOrder(S) \in [1..Cardinality(S) -> S]
         /\ \A e \in S : \E i \in 1..Cardinality(S) : InOrder(S)[i] = e
<1>1. IsFiniteSet(S) /\ Cardinality(S) \in Nat
  <2>1. IsFiniteSet(1..n)
    BY FS_Interval
  <2>2. IsFiniteSet(S)
    BY <2>1, FS_Subset
  <2>3. QED
    BY <2>2, FS_CardinalityType
<1> DEFINE before == {x \in S \X S : x[1] <= x[2]}
<1>2. \A e, f \in S : e \in Int /\ f \in Int /\ (<<e, f>> \in before <=> e <= f)
  OBVIOUS
<1> HIDE DEF before
<1>3. PICK q \in [1..Cardinality(S) -> S] :
        \A i, j \in 1..Cardinality(S) : i < j => q[i] # q[j] /\ <<q[i], q[j]>> \in before
  <2>1. TotalOrder(S, before)
    BY <1>2 DEF TotalOrder
  <2>2. QED
    BY <1>1, <2>1, ListExists
<1>4. \A i, j \in DOMAIN q : i < j => q[i] < q[j]
  <2>1. ASSUME NEW i \in 1..Cardinality(S), NEW j \in 1..Cardinality(S), i < j
        PROVE  q[i] < q[j]
    <3>1. q[i] \in S /\ q[j] \in S
      BY <1>1, <1>3
    <3>2. q[i] # q[j] /\ <<q[i], q[j]>> \in before
      BY <1>3, <2>1
    <3>3. q[i] \in Int /\ q[j] \in Int /\ q[i] <= q[j]
      BY <1>2, <3>1, <3>2
    <3>4. QED
      BY <3>2, <3>3
  <2>2. DOMAIN q = 1..Cardinality(S)
    BY <1>3
  <2>3. QED
    BY <2>1, <2>2
<1>5. /\ InOrder(S) \in [1..Cardinality(S) -> S]
      /\ \A i, j \in DOMAIN InOrder(S) : i < j => InOrder(S)[i] < InOrder(S)[j]
  <2>1. \E r \in [1..Cardinality(S) -> S] : \A i, j \in DOMAIN r : i < j => r[i] < r[j]
    BY <1>4
  <2>2. QED
    BY <2>1 DEF InOrder
<1>6. \A i, j \in 1..Cardinality(S) : i < j => InOrder(S)[i] # InOrder(S)[j]
  <2>1. ASSUME NEW i \in 1..Cardinality(S), NEW j \in 1..Cardinality(S), i < j
        PROVE  InOrder(S)[i] # InOrder(S)[j]
    <3>1. InOrder(S)[i] \in S /\ InOrder(S)[j] \in S
      BY <1>1, <1>5
    <3>2. InOrder(S)[i] < InOrder(S)[j]
      BY <1>5, <2>1
    <3>3. InOrder(S)[i] \in Int /\ InOrder(S)[j] \in Int
      BY <1>2, <3>1
    <3>4. QED
      BY <3>2, <3>3
  <2>2. QED
    BY <2>1
<1>7. \A e \in S : \E i \in 1..Cardinality(S) : InOrder(S)[i] = e
  BY <1>1, <1>5, <1>6, ListIsFull
<1>8. QED
  BY <1>1, <1>5, <1>7

(* The cursor is the furthest place there is: of a done row, or the saved. *)
LEMMA CursorIs ==
  ASSUME NEW m, NEW box, m.cursor \in 0..MaxEvents,
         \A e \in DOMAIN box : box[e].seq \in 0..MaxEvents
  PROVE  /\ CursorOf(m, box) \in 0..MaxEvents /\ m.cursor <= CursorOf(m, box)
         /\ \A e \in DOMAIN box : box[e].done => box[e].seq <= CursorOf(m, box)
         /\ \/ CursorOf(m, box) = m.cursor
            \/ \E e \in DOMAIN box : box[e].done /\ CursorOf(m, box) = box[e].seq
<1> DEFINE seqs == {m.cursor} \cup {box[e].seq : e \in {f \in DOMAIN box : box[f].done}}
<1>1. seqs \subseteq 0..MaxEvents /\ seqs # {} /\ MaxEvents \in Nat
  BY TabsAssumption
<1>2. /\ m.cursor \in seqs
      /\ \A e \in DOMAIN box : box[e].done => box[e].seq \in seqs
      /\ \A x \in seqs : x = m.cursor \/ \E e \in DOMAIN box : box[e].done /\ x = box[e].seq
  OBVIOUS
<1> HIDE DEF seqs
<1>3. \E n \in seqs : \A x \in seqs : x <= n
  <2>0. \A n \in seqs : n \in Int /\ n + 1 \in 1..(MaxEvents + 1)
    <3>1. \A n \in seqs : n \in 0..MaxEvents
      BY <1>1
    <3>2. \A n \in 0..MaxEvents : n \in Int /\ n + 1 \in 1..(MaxEvents + 1)
      BY <1>1
    <3>3. QED
      BY <3>1, <3>2
  <2> DEFINE ups == {n + 1 : n \in seqs}
  <2>1. ups \subseteq 1..(MaxEvents + 1) /\ ups # {} /\ MaxEvents + 1 \in Nat
    <3>1. ups \subseteq 1..(MaxEvents + 1)
      BY <2>0
    <3>2. PICK n \in seqs : TRUE
      BY <1>1
    <3>3. n + 1 \in ups
      OBVIOUS
    <3>4. MaxEvents + 1 \in Nat
      BY <1>1
    <3>5. QED
      BY <3>1, <3>3, <3>4
  <2> HIDE DEF ups
  <2>2. PICK u \in ups : \A v \in ups : v <= u
    BY <2>1, MaxExists
  <2>3. PICK n \in seqs : u = n + 1
    BY DEF ups
  <2>4. ASSUME NEW x \in seqs PROVE x <= n
    <3>1. x + 1 \in ups
      BY DEF ups
    <3>2. x + 1 <= n + 1
      BY <2>2, <2>3, <3>1
    <3>3. x \in Int /\ n \in Int
      BY <2>0
    <3>4. QED
      BY <3>2, <3>3
  <2>5. QED
    BY <2>4
<1> DEFINE top == CHOOSE n \in seqs : \A x \in seqs : x <= n
<1>4. top \in seqs /\ \A x \in seqs : x <= top
  BY <1>3
<1>5. CursorOf(m, box) = top
  BY DEF CursorOf, seqs
<1> HIDE DEF top
<1>6. QED
  BY <1>1, <1>2, <1>4, <1>5

LEMMA CursorType ==
  ASSUME TablesOK
  PROVE  CursorOf(meta, inbox) \in 0..MaxEvents
<1>1. meta.cursor \in 0..MaxEvents /\ \A e \in DOMAIN inbox : inbox[e].seq \in 0..MaxEvents
  BY TabsAssumption DEF TablesOK
<1>2. QED
  BY <1>1, CursorIs

-----------------------------------------------------------------------------
(* A step of one tab.                                                      *)

LEMMA TabSet ==
  ASSUME JobsOK, NEW t \in Tab, NEW j, tab' = [tab EXCEPT ![t] = j]
  PROVE  /\ tab'[t] = j /\ tab' = [u \in Tab |-> tab'[u]]
         /\ \A u \in Tab : u # t => tab'[u] = tab[u]
BY DEF JobsOK

(* Jobs have their types when the job of one tab has, and clients are only *)
(* added.                                                                  *)
LEMMA JobsKept ==
  ASSUME JobsOK, TablesOK, NEW t \in Tab, tab' = [u \in Tab |-> tab'[u]],
         \A u \in Tab : u # t => tab'[u] = tab[u],
         JobOK(tab'[t], nextClient'), nextClient' \in Nat, nextClient <= nextClient'
  PROVE  JobsOK'
<1>1. ASSUME NEW u \in Tab, u # t PROVE JobOK(tab'[u], nextClient')
  <2>1. JobOK(tab[u], nextClient) /\ tab'[u] = tab[u]
    BY <1>1 DEF JobsOK
  <2>2. 0..nextClient \subseteq 0..nextClient'
    BY DEF TablesOK
  <2>3. QED
    BY <2>1, <2>2 DEF JobOK, JobShape, Bodied
<1>2. QED
  BY <1>1 DEF JobsOK

(* The lock of a tab is only let go by that tab, and taken when it is free.*)
LEMMA LockKept ==
  ASSUME LockHeld, config' = config, NEW t \in Tab,
         \A u \in Tab : u # t => tab'[u] = tab[u] /\ (holder = u => holder' = u),
         config.lock /\ tab'[t].phase \in Locked => holder' = t
  PROVE  LockHeld'
BY DEF LockHeld

LEMMA TakesLock ==
  ASSUME NEW t \in Tab, Take(t)
  PROVE  /\ config.lock => holder' = t
         /\ \A u \in Tab : u # t => (holder = u => holder' = u)
BY TabsAssumption DEF Take, Available, None

LEMMA ReleasesLock ==
  ASSUME NEW t \in Tab, Release(t)
  PROVE  \A u \in Tab : u # t => (holder = u => holder' = u)
BY DEF Release

(* What is a copy.                                                         *)
LEMMA CopiesAre ==
  /\ \A u \in Tab : \A e \in DOMAIN tab[u].wire : tab[u].wire[e].edits \in Sent(e)
  /\ \A i \in DOMAIN log : log[i].edits \in Sent(log[i].eid)
  /\ \A e \in DOMAIN dead : dead[e].edits \in Sent(e)
BY DEF Sent

(* Copies of copies are no new ones.                                       *)
LEMMA CopiesShrink ==
  ASSUME \A u \in Tab : \A e \in DOMAIN tab'[u].wire : tab'[u].wire[e].edits \in Sent(e),
         \A i \in DOMAIN log' : log'[i].edits \in Sent(log'[i].eid),
         \A e \in DOMAIN dead' : dead'[e].edits \in Sent(e),
         NEW e
  PROVE  Sent(e)' \subseteq Sent(e)
<1> SUFFICES ASSUME NEW s \in Sent(e)' PROVE s \in Sent(e)
  OBVIOUS
<1>1. \/ \E i \in DOMAIN log' : log'[i].eid = e /\ s = log'[i].edits
      \/ \E u \in Tab : e \in DOMAIN tab'[u].wire /\ s = tab'[u].wire[e].edits
      \/ e \in DOMAIN dead' /\ s = dead'[e].edits
  BY DEF Sent
<1>2. QED
  BY <1>1

LEMMA AgreeKept ==
  ASSUME CopiesAgree, Known' = Known, Apart \subseteq Apart',
         \A e \in Known : Sent(e)' \subseteq Sent(e),
         \A e \in DOMAIN outbox' : e \in DOMAIN outbox /\ outbox'[e].edits = outbox[e].edits
  PROVE  CopiesAgree'
BY DEF CopiesAgree

(* Folds under way are as they were.                                       *)
LEMMA FoldsStill ==
  ASSUME fold' = fold
  PROVE  /\ \A u \in Tab : Folding(u)' = Folding(u) /\ Claims(u)' = Claims(u)
         /\ InFolds' = InFolds
BY DEF Folding, Claims, InFolds

LEMMA FoldsKept ==
  ASSUME FoldsAgree, Drawn, fold' = fold, Apart \subseteq Apart',
         \A e \in Known : \A u \in Tab :
           Claims(u) /\ fold[u].into = e => Sent(e)' \subseteq Sent(e)
  PROVE  FoldsAgree'
<1> SUFFICES ASSUME NEW t \in Tab, Claims(t)', NEW s \in Sent(fold[t].into)'
             PROVE  s \ fold[t].gone \subseteq Apart'
  BY DEF FoldsAgree
<1>1. Claims(t)
  BY FoldsStill
<1>2. fold[t].into \in Known
  BY <1>1 DEF Drawn, Claims
<1>3. s \in Sent(fold[t].into)
  BY <1>1, <1>2
<1>4. QED
  BY <1>1, <1>3 DEF FoldsAgree

LEMMA ClaimsKept ==
  ASSUME ClaimedOnce, fold' = fold,
         \A u \in Tab : Claims(u) => fold[u].into \notin DOMAIN outbox'
  PROVE  ClaimedOnce'
BY FoldsStill DEF ClaimedOnce

(* Steps that leave the outbox, the dead letters and the server alone.     *)
LEMMA CalmLedger ==
  ASSUME Ledger, NEW t \in Tab,
         UNCHANGED <<config, outbox, dead, log, backend, edits, fold>>,
         meta'.seen = meta.seen, lost'.discarded = lost.discarded, lost'.swept = lost.swept,
         lost'.unsent = lost.unsent, lost'.torn = lost.torn, lost'.pruned = lost.pruned,
         lost'.released = lost.released,
         \A u \in Tab : u # t => tab'[u] = tab[u],
         tab'[t].phase \notin {"answered", "reanswered", "forget"},
         CopiesAgree', FoldsAgree'
  PROVE  Ledger'
<1>1. LogEids' = LogEids /\ LogEdits' = LogEdits
  BY DEF LogEids, LogEdits
<1>2. AnswersStored'
  <2>1. ASSUME NEW u \in Tab, tab'[u].phase \in {"answered", "reanswered"}
        PROVE  tab'[u] = tab[u]
    BY <2>1
  <2>2. QED
    BY <1>1, <2>1 DEF Ledger, AnswersStored, Confirmed
<1>3. SyncedHeld' /\ NewcomerReleased'
  <2>1. Synced' = Synced /\ Away' = Away
    BY DEF Synced, Pending, Away, Apart
  <2>2. QED
    BY <1>1, <2>1 DEF Ledger, SyncedHeld, NewcomerReleased
<1>4. Accounted'
  <2>1. EditsOf(outbox)' = EditsOf(outbox) /\ EditsOf(dead)' = EditsOf(dead) /\ Away' = Away
    BY DEF EditsOf, Away, Apart
  <2>2. QED
    BY <2>1, FoldsStill DEF Ledger, Accounted
<1>5. ReleasedHeld' /\ OneSyncs'
  BY <1>1 DEF Ledger, ReleasedHeld, OneSyncs, Apart
<1>6. QED
  BY <1>2, <1>3, <1>4, <1>5 DEF Ledger

LEMMA Calm ==
  ASSUME Inv, NEW t \in Tab,
         UNCHANGED <<config, outbox, dead, log, backend, edits, fold, nextEid>>,
         meta'.seen = meta.seen, lost'.discarded = lost.discarded, lost'.swept = lost.swept,
         lost'.unsent = lost.unsent, lost'.torn = lost.torn, lost'.pruned = lost.pruned,
         lost'.released = lost.released,
         \A u \in Tab : u # t => tab'[u] = tab[u],
         \A e \in DOMAIN tab'[t].wire :
           \/ e \in DOMAIN tab[t].wire /\ tab'[t].wire[e].edits = tab[t].wire[e].edits
           \/ e \in DOMAIN dead /\ tab'[t].wire[e].edits = dead[e].edits,
         tab'[t].phase \notin {"answered", "reanswered", "forget"}
  PROVE  Drawn' /\ ClaimedOnce' /\ (Guarded => Ledger')
<1>1. Drawn /\ Known' = Known /\ LogEids' = LogEids /\ Apart' = Apart
  BY DEF Inv, Known, LogEids, Apart
<1>2. Drawn' /\ ClaimedOnce'
  <2>1. Drawn'
    BY <1>1, FoldsStill DEF Drawn
  <2>2. QED
    BY <2>1, ClaimsKept DEF Inv, ClaimedOnce
<1> SUFFICES ASSUME Guarded, Ledger PROVE Ledger'
  BY <1>2 DEF Inv
<1>3. CopiesAgree' /\ FoldsAgree'
  <2>1. \A u \in Tab : \A e \in DOMAIN tab'[u].wire : tab'[u].wire[e].edits \in Sent(e)
    BY CopiesAre
  <2>2. \A e \in Known : Sent(e)' \subseteq Sent(e)
    BY <2>1, CopiesAre, CopiesShrink
  <2>3. QED
    BY <1>1, <2>2, AgreeKept, FoldsKept DEF Ledger
<1>4. QED
  BY <1>3, CalmLedger

(* A job at rest, or just begun.                                           *)
LEMMA RestingIs ==
  ASSUME NEW n \in Nat, NEW c \in 0..n
  PROVE  /\ JobOK(Resting(c), n) /\ DOMAIN Resting(c).wire = {}
         /\ Resting(c).phase = "idle" /\ Resting(c).client = c
<1>1. <<>> \in Seq(Stored) /\ Len(<<>>) = 0 /\ 0 \in 0..MaxEvents /\ 0 + 0 <= MaxEvents
  BY TabsAssumption
<1>2. JobShape(Resting(c)) /\ Resting(c).client = c /\ Resting(c).phase = "idle"
      /\ Resting(c).push = "none" /\ Resting(c).wire = Empty /\ Resting(c).page = <<>>
      /\ Resting(c).cursor = 0
  BY DEF Resting, JobShape, Has, Fields
<1>3. QED
  BY <1>1, <1>2, EmptyIs DEF JobOK

LEMMA BeginIs ==
  ASSUME TablesOK, JobsOK, NEW t \in Tab, NEW p
  PROVE  /\ JobOK(Begin(t, p), nextClient) /\ DOMAIN Begin(t, p).wire = {}
         /\ Begin(t, p).phase = p /\ Begin(t, p).client = tab[t].client
<1>1. JobOK(tab[t], nextClient) /\ nextClient \in Nat
  BY DEF JobsOK, TablesOK
<1>2. JobOK(Resting(tab[t].client), nextClient) /\ DOMAIN Resting(tab[t].client).wire = {}
      /\ Resting(tab[t].client).client = tab[t].client
  BY <1>1, RestingIs DEF JobOK
<1>3. QED
  BY <1>2 DEF Begin, JobOK, JobShape, Has, Fields

(* The next step of a job.                                                 *)
LEMMA GoIs ==
  ASSUME JobsOK, NEW t \in Tab, NEW p, Go(t, p)
  PROVE  LET j == [tab[t] EXCEPT !.phase = p]
         IN  /\ tab' = [tab EXCEPT ![t] = j] /\ JobOK(j, nextClient)
             /\ j.phase = p /\ j.wire = tab[t].wire /\ j.answer = tab[t].answer
             /\ j.turned = tab[t].turned
BY DEF JobsOK, Go, JobOK, JobShape, Has, Fields

LEMMA RestIs ==
  ASSUME TablesOK, JobsOK, NEW t \in Tab, Rest(t)
  PROVE  LET j == Resting(tab[t].client)
         IN  /\ tab' = [tab EXCEPT ![t] = j] /\ JobOK(j, nextClient)
             /\ j.phase = "idle" /\ DOMAIN j.wire = {}
<1>1. JobOK(tab[t], nextClient) /\ nextClient \in Nat
  BY DEF JobsOK, TablesOK
<1>2. QED
  BY <1>1, RestingIs DEF JobOK, JobsOK, Rest

LEMMA TablesSame ==
  ASSUME TablesOK, UNCHANGED <<config, tables, server, editing, lost>>, holder' \in Tab \cup {None}
  PROVE  TablesOK'
BY DEF TablesOK, FoldsOK, FoldOK, RowOK, Bodied, tables, server, editing

(* A step of a job that leaves the outbox, the dead letters and the server *)
(* alone.                                                                  *)
LEMMA CalmStep ==
  ASSUME Inv, NEW t \in Tab, NEW j, tab' = [tab EXCEPT ![t] = j], JobOK(j, nextClient),
         UNCHANGED <<config, outbox, dead, log, backend, editing>>,
         meta'.seen = meta.seen, lost'.discarded = lost.discarded, lost'.swept = lost.swept,
         lost'.unsent = lost.unsent, lost'.torn = lost.torn, lost'.pruned = lost.pruned,
         lost'.released = lost.released, TablesOK',
         \A u \in Tab : u # t => (holder = u => holder' = u),
         config.lock /\ j.phase \in Locked => holder' = t,
         \A e \in DOMAIN j.wire :
           \/ e \in DOMAIN tab[t].wire /\ j.wire[e].edits = tab[t].wire[e].edits
           \/ e \in DOMAIN dead /\ j.wire[e].edits = dead[e].edits,
         j.phase \notin {"answered", "reanswered", "forget"}
  PROVE  Inv'
<1>1. TablesOK /\ JobsOK /\ LockHeld
  BY DEF Inv
<1>2. /\ tab'[t] = j /\ tab' = [u \in Tab |-> tab'[u]]
      /\ \A u \in Tab : u # t => tab'[u] = tab[u]
  BY <1>1, TabSet
<1>3. JobsOK'
  <2>1. nextClient' \in Nat /\ nextClient <= nextClient' /\ JobOK(tab'[t], nextClient')
    BY <1>1, <1>2 DEF TablesOK, editing
  <2>2. QED
    BY <1>1, <1>2, <2>1, JobsKept
<1>4. LockHeld'
  BY <1>1, <1>2, LockKept
<1>5. Drawn' /\ ClaimedOnce' /\ (Guarded => Ledger')
  BY <1>2, Calm DEF editing
<1>6. QED
  BY <1>3, <1>4, <1>5 DEF Inv

(* A step of a job that touches nothing shared but the lock.               *)
LEMMA JobStep ==
  ASSUME Inv, NEW t \in Tab, NEW j, tab' = [tab EXCEPT ![t] = j], JobOK(j, nextClient),
         UNCHANGED <<config, tables, server, editing, lost>>, holder' \in Tab \cup {None},
         \A u \in Tab : u # t => (holder = u => holder' = u),
         config.lock /\ j.phase \in Locked => holder' = t,
         \A e \in DOMAIN j.wire : e \in DOMAIN tab[t].wire /\ j.wire[e].edits = tab[t].wire[e].edits,
         j.phase \notin {"answered", "reanswered", "forget"}
  PROVE  Inv'
<1>1. TablesOK'
  BY TablesSame DEF Inv
<1>2. QED
  BY <1>1, CalmStep DEF tables, server, editing

-----------------------------------------------------------------------------
(* The actions: jobs that begin, or go on without a write.                 *)

LEMMA HolderType == Inv => holder \in Tab \cup {None}
BY DEF Inv, TablesOK

LEMMA StartSyncInv ==
  ASSUME Inv, NEW t \in Tab, StartSync(t)
  PROVE  Inv'
<1>1. tab' = [tab EXCEPT ![t] = Begin(t, "decide")] /\ JobOK(Begin(t, "decide"), nextClient)
      /\ Begin(t, "decide").phase = "decide" /\ DOMAIN Begin(t, "decide").wire = {}
  BY BeginIs DEF Inv, StartSync
<1>2. holder' \in Tab \cup {None} /\ (config.lock => holder' = t)
      /\ \A u \in Tab : u # t => (holder = u => holder' = u)
  BY TakesLock, HolderType DEF StartSync, Take
<1>3. QED
  BY <1>1, <1>2, JobStep DEF StartSync, ghosts

LEMMA StartResetInv ==
  ASSUME Inv, NEW t \in Tab, StartReset(t)
  PROVE  Inv'
<1> DEFINE j == [Begin(t, "wipe rows") EXCEPT !.doomed = EditsOf(Bodies(outbox, Pending))]
<1>1. tab' = [tab EXCEPT ![t] = j] /\ JobOK(j, nextClient)
      /\ j.phase = "wipe rows" /\ DOMAIN j.wire = {}
  <2>1. JobOK(Begin(t, "wipe rows"), nextClient) /\ DOMAIN Begin(t, "wipe rows").wire = {}
        /\ Begin(t, "wipe rows").phase = "wipe rows"
    BY BeginIs DEF Inv
  <2>2. tab' = [tab EXCEPT ![t] = j]
    BY DEF StartReset
  <2>3. QED
    BY <2>1, <2>2 DEF JobOK, JobShape, Has, Fields
<1>2. holder' \in Tab \cup {None} /\ (config.lock => holder' = t)
      /\ \A u \in Tab : u # t => (holder = u => holder' = u)
  BY TakesLock, HolderType DEF StartReset, Take
<1> HIDE DEF j
<1>3. QED
  BY <1>1, <1>2, JobStep DEF StartReset, ghosts

LEMMA StartPruneInv ==
  ASSUME Inv, NEW t \in Tab, StartPrune(t)
  PROVE  Inv'
<1> DEFINE j == [Begin(t, "prune") EXCEPT !.epoch = Epoch, !.cursor = CursorOf(meta, inbox)]
<1>1. CursorOf(meta, inbox) \in 0..MaxEvents
  BY CursorType DEF Inv
<1>2. tab' = [tab EXCEPT ![t] = j] /\ JobOK(j, nextClient)
      /\ j.phase = "prune" /\ DOMAIN j.wire = {}
  <2>1. Begin(t, "prune").page = <<>>
    BY DEF Begin, Resting
  <2>2. CursorOf(meta, inbox) + Len(<<>>) <= MaxEvents
    BY <1>1, TabsAssumption
  <2>3. JobOK(Begin(t, "prune"), nextClient) /\ DOMAIN Begin(t, "prune").wire = {}
        /\ Begin(t, "prune").phase = "prune"
    BY BeginIs DEF Inv
  <2>4. tab' = [tab EXCEPT ![t] = j]
    BY DEF StartPrune
  <2>5. QED
    BY <1>1, <2>1, <2>2, <2>3, <2>4 DEF JobOK, JobShape, Has, Fields
<1> HIDE DEF j
<1>3. QED
  BY <1>2, HolderType, JobStep DEF StartPrune, ghosts, Locked

LEMMA HoldInv ==
  ASSUME Inv, NEW t \in Tab, Hold(t)
  PROVE  Inv'
<1>1. AfterPush(t) \in {"outcome", "pull"} /\ (config.lock => holder = t)
  BY DEF Inv, Hold, AfterPush, LockHeld, At, Locked
<1> DEFINE j == [tab[t] EXCEPT !.phase = AfterPush(t)]
<1>2. tab' = [tab EXCEPT ![t] = j] /\ JobOK(j, nextClient)
      /\ j.phase = AfterPush(t) /\ j.wire = tab[t].wire
  BY GoIs DEF Inv, Hold
<1> HIDE DEF j
<1>3. QED
  BY <1>1, <1>2, HolderType, JobStep DEF Hold, ghosts

LEMMA PushNothingInv ==
  ASSUME Inv, NEW t \in Tab, PushNothing(t)
  PROVE  Inv'
<1>1. AfterPush(t) \in {"outcome", "pull"} /\ (config.lock => holder = t)
  BY DEF Inv, PushNothing, AfterPush, LockHeld, At, Locked
<1> DEFINE j == [tab[t] EXCEPT !.phase = AfterPush(t), !.push = Pushed(t, "done")]
<1>2. tab' = [tab EXCEPT ![t] = j] /\ JobOK(j, nextClient)
      /\ j.phase = AfterPush(t) /\ j.wire = tab[t].wire
  BY DEF Inv, PushNothing, JobsOK, JobOK, JobShape, Has, Fields, Pushed
<1> HIDE DEF j
<1>3. QED
  BY <1>1, <1>2, HolderType, JobStep DEF PushNothing, ghosts

LEMMA EndPullInv ==
  ASSUME Inv, NEW t \in Tab, EndPull(t)
  PROVE  Inv'
<1>1. config.lock => holder = t
  BY DEF Inv, EndPull, LockHeld, At, Locked
<1> DEFINE p == IF tab[t].requeued THEN "decide" ELSE "outcome"
           j == [Resting(tab[t].client) EXCEPT !.push = tab[t].push, !.again = tab[t].requeued,
                                               !.phase = p]
<1>2. tab' = [tab EXCEPT ![t] = j] /\ JobOK(j, nextClient) /\ j.phase = p /\ DOMAIN j.wire = {}
  <2>1. JobOK(tab[t], nextClient) /\ nextClient \in Nat
    BY DEF Inv, JobsOK, TablesOK
  <2>2. JobOK(Resting(tab[t].client), nextClient) /\ DOMAIN Resting(tab[t].client).wire = {}
    BY <2>1, RestingIs DEF JobOK
  <2>3. QED
    BY <2>1, <2>2 DEF Inv, JobsOK, EndPull, JobOK, JobShape, Has, Fields
<1>3. p \in {"decide", "outcome"}
  OBVIOUS
<1> HIDE DEF p, j
<1>4. QED
  BY <1>1, <1>2, <1>3, HolderType, JobStep DEF EndPull, ghosts

-----------------------------------------------------------------------------
(* The actions: what the outbox and the server do not see.                 *)

LEMMA WriteCursorInv ==
  ASSUME Inv, NEW t \in Tab, WriteCursor(t)
  PROVE  Inv'
<1> DEFINE j == [tab[t] EXCEPT !.phase = "pulled"]
<1>1. tab' = [tab EXCEPT ![t] = j] /\ JobOK(j, nextClient)
      /\ j.phase = "pulled" /\ j.wire = tab[t].wire
  BY GoIs DEF Inv, WriteCursor
<1>2. TablesOK'
  <2>1. tab[t].cursor + Len(tab[t].page) \in 0..MaxEvents
    BY TabsAssumption DEF Inv, JobsOK, JobOK
  <2>2. QED
    BY <2>1 DEF WriteCursor, Inv, TablesOK, RowOK, FoldsOK, FoldOK, Bodied, Has, server, editing, ghosts
<1>3. meta'.seen = meta.seen
  BY DEF Inv, TablesOK, Has, WriteCursor
<1>4. config.lock => holder = t
  BY DEF Inv, WriteCursor, LockHeld, At, Locked
<1> HIDE DEF j
<1>5. QED
  BY <1>1, <1>2, <1>3, <1>4, CalmStep DEF WriteCursor, server, editing, ghosts

LEMMA OutcomeInv ==
  ASSUME Inv, NEW t \in Tab, Outcome(t)
  PROVE  Inv'
<1>1. PICK j : /\ tab' = [tab EXCEPT ![t] = j] /\ JobOK(j, nextClient)
               /\ j.phase \in {"idle", "replay"}
               /\ DOMAIN j.wire = {} \/ j.wire = tab[t].wire
  <2>1. CASE Rest(t)
    BY <2>1, RestIs DEF Inv
  <2>2. CASE Go(t, "replay")
    <3> DEFINE j == [tab[t] EXCEPT !.phase = "replay"]
    <3>1. tab' = [tab EXCEPT ![t] = j] /\ JobOK(j, nextClient)
          /\ j.phase = "replay" /\ j.wire = tab[t].wire
      BY <2>2, GoIs DEF Inv
    <3> HIDE DEF j
    <3>2. QED
      BY <3>1
  <2>3. QED
    BY <2>1, <2>2 DEF Outcome
<1>2. holder' \in Tab \cup {None} /\ \A u \in Tab : u # t => (holder = u => holder' = u)
  BY HolderType, ReleasesLock DEF Outcome, Release
<1>3. meta'.seen = meta.seen
  BY DEF Inv, TablesOK, Has, Outcome
<1>4. TablesOK'
  <2>1. 0 \in 0..config.delay
    BY TabsAssumption DEF Inv, TablesOK, ConfigType
  <2>2. /\ Has(meta', {"client", "cursor", "seen", "lastSync"})
        /\ meta'.client = meta.client /\ meta'.cursor = meta.cursor /\ meta'.seen = meta.seen
        /\ meta'.lastSync \in {meta.lastSync, 0}
    BY DEF Outcome, Inv, TablesOK, Has
  <2>3. QED
    BY <1>2, <2>1, <2>2 DEF Outcome, Inv, TablesOK, RowOK, FoldsOK, FoldOK, Bodied, server, editing, ghosts
<1>5. QED
  BY <1>1, <1>2, <1>3, <1>4, CalmStep DEF Outcome, server, editing, ghosts, Locked

LEMMA WipeRowsInv ==
  ASSUME Inv, NEW t \in Tab, WipeRows(t)
  PROVE  Inv'
<1> DEFINE j == [tab[t] EXCEPT !.phase = "wipe tables"]
<1>1. tab' = [tab EXCEPT ![t] = j] /\ JobOK(j, nextClient)
      /\ j.phase = "wipe tables" /\ j.wire = tab[t].wire
  BY GoIs DEF Inv, WipeRows
<1>2. TablesOK'
  BY DEF WipeRows, Inv, TablesOK, RowOK, FoldsOK, FoldOK, Bodied, server, editing, ghosts
<1>3. config.lock => holder = t
  BY DEF Inv, WipeRows, LockHeld, At, Locked
<1> HIDE DEF j
<1>4. QED
  BY <1>1, <1>2, <1>3, CalmStep DEF WipeRows, server, editing, ghosts

LEMMA StartRetryInv ==
  ASSUME Inv, NEW t \in Tab, StartRetry(t)
  PROVE  Inv'
<1>1. PICK S \in SUBSET (DOMAIN dead \cup DOMAIN parked) :
        /\ inbox' = Join(inbox, [e \in S \cap DOMAIN parked |-> [seq |-> PlaceOf(e), done |-> FALSE]])
        /\ tab' = [tab EXCEPT ![t] = [Begin(t, "unpark") EXCEPT
                     !.doomed = S \cap DOMAIN parked, !.wire = Bodies(dead, S \cap DOMAIN dead)]]
  BY DEF StartRetry
<1> DEFINE j == [Begin(t, "unpark") EXCEPT
                     !.doomed = S \cap DOMAIN parked, !.wire = Bodies(dead, S \cap DOMAIN dead)]
<1>2. tab' = [tab EXCEPT ![t] = j] /\ JobOK(j, nextClient)
      /\ j.phase = "unpark" /\ j.wire = Bodies(dead, S \cap DOMAIN dead)
  <2>1. JobOK(Begin(t, "unpark"), nextClient) /\ Begin(t, "unpark").phase = "unpark"
    BY BeginIs DEF Inv
  <2>2. tab' = [tab EXCEPT ![t] = j]
    BY <1>1
  <2>3. JobShape(j) /\ j.phase = "unpark" /\ j.wire = Bodies(dead, S \cap DOMAIN dead)
        /\ j.client = Begin(t, "unpark").client /\ j.push = Begin(t, "unpark").push
        /\ j.page = Begin(t, "unpark").page /\ j.cursor = Begin(t, "unpark").cursor
    BY <2>1 DEF JobOK, JobShape, Has, Fields
  <2>4. \A e \in DOMAIN j.wire : j.wire[e].edits \subseteq 1..MaxEdits /\ j.wire[e].by \in 0..nextClient
    BY <2>3, BodiesAre DEF Inv, TablesOK, Bodied
  <2> HIDE DEF j
  <2>5. QED
    BY <2>1, <2>2, <2>3, <2>4 DEF JobOK
<1>3. TablesOK'
  <2>1. \A e \in DOMAIN inbox' : Has(inbox'[e], {"seq", "done"}) /\ inbox'[e].seq \in 1..MaxEvents
    <3> DEFINE back == [e \in S \cap DOMAIN parked |-> [seq |-> PlaceOf(e), done |-> FALSE]]
    <3>1. \A e \in DOMAIN back : Has(back[e], {"seq", "done"}) /\ back[e].seq \in 1..MaxEvents
      <4>1. \A e \in DOMAIN parked : PlaceOf(e) \in 1..MaxEvents
        BY DEF Inv, TablesOK, PlaceOf
      <4>2. QED
        BY <4>1 DEF Has
    <3>2. \A e \in DOMAIN inbox : Has(inbox[e], {"seq", "done"}) /\ inbox[e].seq \in 1..MaxEvents
      BY DEF Inv, TablesOK
    <3>3. inbox' = Join(inbox, back)
      BY <1>1
    <3> HIDE DEF back
    <3>4. ASSUME NEW e \in DOMAIN inbox'
          PROVE  \/ e \in DOMAIN back /\ inbox'[e] = back[e]
                 \/ e \in DOMAIN inbox /\ inbox'[e] = inbox[e]
      BY <3>3 DEF Join
    <3>5. QED
      BY <3>1, <3>2, <3>4
  <2>2. QED
    BY <2>1 DEF StartRetry, Inv, TablesOK, RowOK, FoldsOK, FoldOK, Bodied, server, editing, ghosts
<1>4. \A e \in DOMAIN j.wire : e \in DOMAIN dead /\ j.wire[e].edits = dead[e].edits
  BY <1>2, BodiesAre
<1> HIDE DEF j
<1>5. QED
  BY <1>2, <1>3, <1>4, CalmStep DEF StartRetry, server, editing, ghosts, Locked

LEMMA ReplaysPark ==
  ASSUME TablesOK, NEW S, NEW seq, Replays(S, seq), \A e \in S : seq[e] \in 1..MaxEvents
  PROVE  \A e \in DOMAIN parked' : parked'[e] \in 1..MaxEvents
<1>1. PICK bad \in SUBSET S : parked' = Join([e \in bad |-> seq[e]], parked)
  BY DEF Replays
<1>2. ASSUME NEW e \in DOMAIN parked'
      PROVE  \/ e \in bad /\ parked'[e] = seq[e]
             \/ e \in DOMAIN parked /\ parked'[e] = parked[e]
  BY <1>1 DEF Join
<1>3. QED
  BY <1>2 DEF TablesOK

(* After a replay a retry sends what it took, and any other job ends.      *)
LEMMA ResendIs ==
  ASSUME TablesOK, JobsOK, NEW t \in Tab, Resend(t)
  PROVE  \E j : /\ tab' = [tab EXCEPT ![t] = j] /\ JobOK(j, nextClient)
                /\ j.phase \in {"idle", "resent"}
                /\ DOMAIN j.wire = {} \/ j.wire = tab[t].wire
<1>1. CASE Rest(t)
  BY <1>1, RestIs
<1>2. CASE Go(t, "resent")
  <2> DEFINE j == [tab[t] EXCEPT !.phase = "resent"]
  <2>1. tab' = [tab EXCEPT ![t] = j] /\ JobOK(j, nextClient)
        /\ j.phase = "resent" /\ j.wire = tab[t].wire
    BY <1>2, GoIs
  <2> HIDE DEF j
  <2>2. QED
    BY <2>1
<1>3. QED
  BY <1>1, <1>2 DEF Resend

LEMMA ReplayInv ==
  ASSUME Inv, NEW t \in Tab, Replay(t)
  PROVE  Inv'
<1>1. PICK j : /\ tab' = [tab EXCEPT ![t] = j] /\ JobOK(j, nextClient)
               /\ j.phase \in {"idle", "resent"}
               /\ DOMAIN j.wire = {} \/ j.wire = tab[t].wire
  BY ResendIs DEF Inv, Replay
<1>2. holder' \in Tab \cup {None} /\ \A u \in Tab : u # t => (holder = u => holder' = u)
  BY HolderType, ReleasesLock DEF Replay, Release
<1>3. TablesOK'
  <2>1. \A e \in DOMAIN parked' : parked'[e] \in 1..MaxEvents
    <3> DEFINE seq == [e \in DOMAIN inbox |-> inbox[e].seq]
    <3>1. \A e \in Unresolved : seq[e] \in 1..MaxEvents
      BY DEF Unresolved, Inv, TablesOK
    <3>2. Replays(Unresolved, seq)
      BY DEF Replay
    <3> HIDE DEF seq
    <3>3. QED
      BY <3>1, <3>2, ReplaysPark DEF Inv
  <2>2. \A e \in DOMAIN inbox' : Has(inbox'[e], {"seq", "done"}) /\ inbox'[e].seq \in 1..MaxEvents
    BY DEF Replay, Inv, TablesOK, Has
  <2>3. QED
    BY <1>2, <2>1, <2>2 DEF Replay, Inv, TablesOK, RowOK, FoldsOK, FoldOK, Bodied, server, editing, ghosts
<1>4. QED
  BY <1>1, <1>2, <1>3, CalmStep DEF Replay, server, editing, ghosts, Locked

LEMMA ReplayPageInv ==
  ASSUME Inv, NEW t \in Tab, ReplayPage(t)
  PROVE  Inv'
<1> DEFINE j == [tab[t] EXCEPT !.phase = "turn"]
           eids == {tab[t].page[i].eid : i \in OnPage(t)}
           place(e) == tab[t].cursor + CHOOSE i \in OnPage(t) : tab[t].page[i].eid = e
           seq == [e \in eids |-> place(e)]
<1>1. tab' = [tab EXCEPT ![t] = j] /\ JobOK(j, nextClient)
      /\ j.phase = "turn" /\ j.wire = tab[t].wire
  BY GoIs DEF Inv, ReplayPage
<1>2. \A e \in eids : seq[e] \in 1..MaxEvents
  <2> SUFFICES ASSUME NEW e \in eids PROVE place(e) \in 1..MaxEvents
    OBVIOUS
  <2>1. (CHOOSE i \in OnPage(t) : tab[t].page[i].eid = e) \in OnPage(t)
    OBVIOUS
  <2>2. /\ OnPage(t) = 1..Len(tab[t].page) /\ Len(tab[t].page) \in Nat
        /\ tab[t].cursor \in 0..MaxEvents /\ tab[t].cursor + Len(tab[t].page) <= MaxEvents
    BY DEF Inv, JobsOK, JobOK, OnPage
  <2> DEFINE i == CHOOSE i \in OnPage(t) : tab[t].page[i].eid = e
  <2>3. place(e) = tab[t].cursor + i
    OBVIOUS
  <2>4. i \in OnPage(t)
    BY <2>1
  <2> HIDE DEF i, place
  <2>5. QED
    BY <2>2, <2>3, <2>4, TabsAssumption
<1>3. Fresh(t) \subseteq eids
  BY DEF Fresh
<1>4. /\ Replays(Fresh(t), seq)
      /\ inbox' = Join(inbox, [e \in eids |-> [seq |-> seq[e], done |-> TRUE]])
  BY DEF ReplayPage
<1> HIDE DEF j, eids, seq
<1>5. \A e \in DOMAIN parked' : parked'[e] \in 1..MaxEvents
  BY <1>2, <1>3, <1>4, ReplaysPark DEF Inv
<1>6. \A e \in DOMAIN inbox' : Has(inbox'[e], {"seq", "done"}) /\ inbox'[e].seq \in 1..MaxEvents
  <2>1. ASSUME NEW e \in DOMAIN inbox'
        PROVE  \/ e \in eids /\ inbox'[e] = [seq |-> seq[e], done |-> TRUE]
               \/ e \in DOMAIN inbox /\ inbox'[e] = inbox[e]
    BY <1>4 DEF Join
  <2>2. QED
    BY <1>2, <2>1 DEF Inv, TablesOK, Has
<1>7. TablesOK'
  BY <1>5, <1>6 DEF ReplayPage, Inv, TablesOK, RowOK, FoldsOK, FoldOK, Bodied, server, editing
<1>8. config.lock => holder = t
  BY DEF Inv, ReplayPage, LockHeld, At, Locked
<1>9. QED
  BY <1>1, <1>7, <1>8, CalmStep DEF ReplayPage, server, editing

LEMMA UnparkInv ==
  ASSUME Inv, NEW t \in Tab, Unpark(t)
  PROVE  Inv'
<1>1. PICK j : /\ tab' = [tab EXCEPT ![t] = j] /\ JobOK(j, nextClient)
               /\ j.phase \in {"idle", "resent", "replay"}
               /\ DOMAIN j.wire = {} \/ j.wire = tab[t].wire
  <2>1. CASE Resend(t)
    BY <2>1, ResendIs DEF Inv
  <2>2. CASE Go(t, "replay")
    <3> DEFINE j == [tab[t] EXCEPT !.phase = "replay"]
    <3>1. tab' = [tab EXCEPT ![t] = j] /\ JobOK(j, nextClient)
          /\ j.phase = "replay" /\ j.wire = tab[t].wire
      BY <2>2, GoIs DEF Inv
    <3> HIDE DEF j
    <3>2. QED
      BY <3>1
  <2>3. QED
    BY <2>1, <2>2 DEF Unpark
<1>2. /\ Has(lost', {"discarded", "swept", "unsent", "torn", "pruned", "released", "waived"})
      /\ lost'.discarded = lost.discarded /\ lost'.swept = lost.swept
      /\ lost'.unsent = lost.unsent /\ lost'.torn = lost.torn /\ lost'.pruned = lost.pruned
      /\ lost'.released = lost.released
  BY DEF Unpark, Lose, Inv, TablesOK, Has
<1>3. TablesOK'
  <2>1. \A e \in DOMAIN parked' : parked'[e] \in 1..MaxEvents
    <3>1. parked' = Without(parked, tab[t].doomed)
      BY DEF Unpark
    <3>2. QED
      BY <3>1 DEF Without, Inv, TablesOK
  <2>2. QED
    BY <1>2, <2>1 DEF Unpark, Inv, TablesOK, RowOK, FoldsOK, FoldOK, Bodied, server, editing
<1>4. QED
  BY <1>1, <1>2, <1>3, CalmStep DEF Unpark, server, editing, Locked

-----------------------------------------------------------------------------
(* The parts of the ledger, through steps that do not work against them.   *)

LEMMA TabStep ==
  ASSUME Inv, NEW t \in Tab, NEW j, tab' = [tab EXCEPT ![t] = j], JobOK(j, nextClient'),
         config' = config, nextClient' \in Nat, nextClient <= nextClient',
         \A u \in Tab : u # t => (holder = u => holder' = u),
         config.lock /\ j.phase \in Locked => holder' = t
  PROVE  /\ tab'[t] = j /\ \A u \in Tab : u # t => tab'[u] = tab[u]
         /\ JobsOK' /\ LockHeld'
<1>1. TablesOK /\ JobsOK /\ LockHeld
  BY DEF Inv
<1>2. /\ tab'[t] = j /\ tab' = [u \in Tab |-> tab'[u]]
      /\ \A u \in Tab : u # t => tab'[u] = tab[u]
  BY <1>1, TabSet
<1>3. JobsOK'
  BY <1>1, <1>2, JobsKept
<1>4. LockHeld'
  BY <1>1, <1>2, LockKept
<1>5. QED
  BY <1>2, <1>3, <1>4

LEMMA CopiesAgreeStill ==
  ASSUME Drawn, CopiesAgree, FoldsAgree, Known' = Known, fold' = fold, Apart \subseteq Apart',
         \A u \in Tab : \A e \in DOMAIN tab'[u].wire : tab'[u].wire[e].edits \in Sent(e),
         \A i \in DOMAIN log' : log'[i].edits \in Sent(log'[i].eid),
         \A e \in DOMAIN dead' : dead'[e].edits \in Sent(e),
         \A e \in DOMAIN outbox' : e \in DOMAIN outbox /\ outbox'[e].edits = outbox[e].edits
  PROVE  CopiesAgree' /\ FoldsAgree'
<1>1. \A e \in Known : Sent(e)' \subseteq Sent(e)
  BY CopiesShrink
<1>2. QED
  BY <1>1, AgreeKept, FoldsKept

LEMMA AnswersStill ==
  ASSUME AnswersStored, LogEids \subseteq LogEids', backend' = backend, meta'.seen = meta.seen,
         \A u \in Tab : tab'[u].phase \in {"answered", "reanswered"} => tab'[u] = tab[u]
  PROVE  AnswersStored'
BY DEF AnswersStored, Confirmed

LEMMA HeldStill ==
  ASSUME SyncedHeld, LogEids \subseteq LogEids', backend' = backend, meta'.seen = meta.seen,
         Away \subseteq Away',
         \A e \in Synced' : e \in Synced /\ outbox'[e].edits = outbox[e].edits
  PROVE  SyncedHeld'
<1> SUFFICES ASSUME NEW e \in Synced'
             PROVE  \/ e \in LogEids'
                    \/ backend' > 1 /\ meta'.seen \notin {None, backend'}
                    \/ backend' > 1 /\ outbox'[e].edits \subseteq Away'
  BY DEF SyncedHeld
<1>1. e \in Synced /\ outbox'[e].edits = outbox[e].edits
  OBVIOUS
<1>2. \/ e \in LogEids
      \/ backend > 1 /\ meta.seen \notin {None, backend}
      \/ backend > 1 /\ outbox[e].edits \subseteq Away
  BY <1>1 DEF SyncedHeld
<1>3. QED
  BY <1>1, <1>2

LEMMA NewcomerStill ==
  ASSUME NewcomerReleased, config' = config, meta'.seen = meta.seen, Away \subseteq Away',
         \A e \in Synced' : e \in Synced /\ outbox'[e].edits = outbox[e].edits,
         \A u \in Tab : tab'[u].phase = "forget" => tab[u].phase = "forget"
  PROVE  NewcomerReleased'
<1> SUFFICES ASSUME config.lock
             PROVE  /\ meta'.seen = None => \A e \in Synced' : outbox'[e].edits \subseteq Away'
                    /\ \A u \in Tab : tab'[u].phase = "forget" => Synced' = {}
  BY DEF NewcomerReleased
<1>1. ASSUME meta'.seen = None, NEW e \in Synced' PROVE outbox'[e].edits \subseteq Away'
  <2>1. e \in Synced /\ outbox'[e].edits = outbox[e].edits /\ meta.seen = None
    BY <1>1
  <2>2. outbox[e].edits \subseteq Away
    BY <2>1 DEF NewcomerReleased
  <2>3. QED
    BY <2>1, <2>2
<1>2. ASSUME NEW u \in Tab, tab'[u].phase = "forget" PROVE Synced' = {}
  <2>1. Synced = {}
    BY <1>2 DEF NewcomerReleased
  <2>2. QED
    BY <2>1
<1>3. QED
  BY <1>1, <1>2

(* The server has what an event it knows holds, but for edits known to be  *)
(* unsent.                                                                 *)
LEMMA StoredEdits ==
  ASSUME Drawn, CopiesAgree, NEW e \in LogEids, NEW s,
         s \in Sent(e) \/ (e \in DOMAIN outbox /\ s = outbox[e].edits)
  PROVE  s \subseteq LogEdits \cup Apart
<1>1. PICK i \in DOMAIN log : log[i].eid = e
  BY DEF LogEids
<1>2. log[i].edits \in Sent(e) /\ log[i].edits \subseteq LogEdits
  BY <1>1, CopiesAre DEF LogEdits
<1>3. e \in Known
  BY DEF Drawn
<1>4. s \ log[i].edits \subseteq Apart
  BY <1>2, <1>3 DEF CopiesAgree
<1>5. QED
  BY <1>2, <1>4

(* Events of the outbox or the dead letters are accounted for when they    *)
(* are kept or there is a reason.                                          *)
LEMMA AccountedStill ==
  ASSUME Accounted, edits' = edits,
         lost.discarded \subseteq lost'.discarded, lost.swept \subseteq lost'.swept,
         lost.pruned \subseteq lost'.pruned, Away \subseteq Away', NEW reasons,
         reasons = EditsOf(outbox') \cup EditsOf(dead') \cup InFolds' \cup lost'.discarded
                     \cup lost'.swept \cup lost'.pruned \cup Away',
         InFolds \subseteq reasons,
         \A e \in DOMAIN outbox : outbox[e].edits \subseteq reasons,
         \A e \in DOMAIN dead : dead[e].edits \subseteq reasons
  PROVE  Accounted'
<1>1. EditsOf(outbox) \subseteq reasons /\ EditsOf(dead) \subseteq reasons
  BY EditsFrom
<1>2. 1..edits \subseteq reasons
  BY <1>1 DEF Accounted
<1>3. EditsOf(outbox)' = EditsOf(outbox') /\ EditsOf(dead)' = EditsOf(dead')
  BY DEF EditsOf
<1>4. QED
  BY <1>2, <1>3 DEF Accounted

-----------------------------------------------------------------------------
(* The actions: pushes.                                                    *)

LEMMA StartPushInv ==
  ASSUME Inv, NEW t \in Tab, StartPush(t)
  PROVE  Inv'
<1> DEFINE j == [tab[t] EXCEPT !.phase = "sent", !.wire = Bodies(outbox, Due)]
<1>0. TablesOK /\ JobsOK /\ LockHeld /\ Drawn
  BY DEF Inv
<1>1. Due \subseteq DOMAIN outbox
  BY DEF Due, Pending
<1>2. tab' = [tab EXCEPT ![t] = j] /\ JobOK(j, nextClient)
      /\ j.phase = "sent" /\ j.wire = Bodies(outbox, Due)
  <2>1. tab' = [tab EXCEPT ![t] = j]
    BY DEF StartPush
  <2>2. JobOK(tab[t], nextClient)
    BY <1>0 DEF JobsOK
  <2>3. JobShape(j) /\ j.phase = "sent" /\ j.wire = Bodies(outbox, Due)
        /\ j.client = tab[t].client /\ j.push = tab[t].push
        /\ j.page = tab[t].page /\ j.cursor = tab[t].cursor
    BY <2>2 DEF JobOK, JobShape, Has, Fields
  <2>4. \A e \in DOMAIN j.wire : j.wire[e].edits \subseteq 1..MaxEdits /\ j.wire[e].by \in 0..nextClient
    BY <1>0, <1>1, <2>3, BodiesAre DEF TablesOK, RowOK
  <2> HIDE DEF j
  <2>5. QED
    BY <2>1, <2>2, <2>3, <2>4 DEF JobOK
<1> HIDE DEF j
<1>3. /\ tab'[t] = j /\ tab' = [u \in Tab |-> tab'[u]]
      /\ \A u \in Tab : u # t => tab'[u] = tab[u]
  BY <1>0, <1>2, TabSet
<1>4. TablesOK'
  BY <1>0, HolderType, TablesSame DEF StartPush, ghosts
<1>5. JobsOK'
  <2>1. nextClient' \in Nat /\ nextClient <= nextClient'
    BY <1>0 DEF TablesOK, StartPush, editing
  <2>2. QED
    BY <1>0, <1>2, <1>3, <2>1, JobsKept DEF StartPush, editing
<1>6. LockHeld'
  <2>1. config.lock => holder = t
    BY <1>0 DEF StartPush, LockHeld, At, Locked
  <2>2. QED
    BY <1>0, <1>3, <2>1, LockKept DEF StartPush
<1>7. Known' = Known /\ LogEids' = LogEids
  BY DEF StartPush, server, editing, Known, LogEids
<1>8. DOMAIN tab'[t].wire = Due /\ \A e \in Due : tab'[t].wire[e].edits = outbox[e].edits
  BY <1>2, <1>3, BodiesAre
<1>9. Drawn'
  <2>1. outbox' = outbox /\ dead' = dead /\ tab'[t].phase = "sent"
    BY <1>2, <1>3 DEF StartPush, tables
  <2>2. \A u \in Tab : DOMAIN tab'[u].wire \subseteq Known
    BY <1>0, <1>1, <1>3, <1>8 DEF Drawn
  <2>3. \A u \in Tab : tab'[u].phase \in {"answered", "reanswered"} =>
                         tab'[u].turned \subseteq DOMAIN tab'[u].wire
    BY <1>0, <1>3, <2>1 DEF Drawn
  <2>4. \A u \in Tab : Folding(u)' => fold'[u].into \in Known /\ fold'[u].left \subseteq Known
    BY <1>0, FoldsStill DEF Drawn, StartPush, editing
  <2>5. QED
    BY <1>0, <1>7, <2>1, <2>2, <2>3, <2>4 DEF Drawn
<1>12. ClaimedOnce'
  BY ClaimsKept DEF Inv, ClaimedOnce, StartPush, tables, editing
<1>10. ASSUME Guarded PROVE Ledger'
  <2>1. Ledger
    BY <1>10 DEF Inv
  <2>2. ASSUME NEW e, NEW s \in Sent(e)'
        PROVE  \/ s \in Sent(e)
               \/ e \in Due /\ s = outbox[e].edits
    <3>1. \/ \E i \in DOMAIN log' : log'[i].eid = e /\ s = log'[i].edits
          \/ \E u \in Tab : e \in DOMAIN tab'[u].wire /\ s = tab'[u].wire[e].edits
          \/ e \in DOMAIN dead' /\ s = dead'[e].edits
      BY DEF Sent
    <3>2. log' = log /\ dead' = dead
      BY DEF StartPush, tables, server
    <3>3. CASE \E i \in DOMAIN log' : log'[i].eid = e /\ s = log'[i].edits
      BY <3>2, <3>3, CopiesAre
    <3>4. CASE e \in DOMAIN dead' /\ s = dead'[e].edits
      BY <3>2, <3>4, CopiesAre
    <3>5. CASE \E u \in Tab : e \in DOMAIN tab'[u].wire /\ s = tab'[u].wire[e].edits
      <4>1. PICK u \in Tab : e \in DOMAIN tab'[u].wire /\ s = tab'[u].wire[e].edits
        BY <3>5
      <4>2. CASE u = t
        BY <1>8, <4>1, <4>2
      <4>3. CASE u # t
        <5>1. tab'[u] = tab[u]
          BY <1>3, <4>3
        <5>2. QED
          BY <4>1, <5>1, CopiesAre
      <4>4. QED
        BY <4>2, <4>3
    <3>6. QED
      BY <3>1, <3>3, <3>4, <3>5
  <2>3. CopiesAgree'
    <3>1. outbox' = outbox /\ lost' = lost
      BY DEF StartPush, tables, ghosts
    <3>2. ASSUME NEW e \in Known, NEW s \in Sent(e)', NEW r \in Sent(e)'
          PROVE  /\ r \ s \subseteq Apart
                 /\ e \in DOMAIN outbox => /\ s \ outbox[e].edits \subseteq Apart
                                           /\ outbox[e].edits \ s \subseteq Apart
      BY <1>1, <2>1, <2>2 DEF Ledger, CopiesAgree
    <3>3. QED
      BY <1>7, <3>1, <3>2 DEF CopiesAgree, Apart
  <2>6. FoldsAgree'
    <3>1. ASSUME NEW e \in Known, NEW u \in Tab, Claims(u) /\ fold[u].into = e
          PROVE  Sent(e)' \subseteq Sent(e)
      <4>1. e \notin Due
        BY <1>1, <3>1 DEF Inv, ClaimedOnce
      <4>2. QED
        BY <2>2, <4>1
    <3>2. fold' = fold /\ Apart \subseteq Apart'
      BY DEF StartPush, editing, ghosts, Apart
    <3>3. QED
      BY <1>0, <2>1, <3>1, <3>2, FoldsKept DEF Ledger
  <2>4. tab'[t].phase \notin {"answered", "reanswered", "forget"}
    BY <1>2, <1>3
  <2>5. QED
    BY <1>3, <2>1, <2>3, <2>4, <2>6, CalmLedger DEF StartPush, tables, server, editing, ghosts
<1>11. QED
  BY <1>4, <1>5, <1>6, <1>9, <1>10, <1>12 DEF Inv

(* The server stores what it does not have, all of it or nothing.          *)
LEMMA ServedLog ==
  ASSUME TablesOK, JobsOK, Drawn, NEW t \in Tab, NEW a, Serve(t, a)
  PROVE  /\ log' \in Seq(Stored) /\ Len(log') <= MaxEvents
         /\ \A i \in DOMAIN log : i \in DOMAIN log' /\ log'[i] = log[i]
         /\ \A i \in DOMAIN log' :
              \/ i \in DOMAIN log /\ log'[i] = log[i]
              \/ \E e \in DOMAIN tab[t].wire : log'[i] = Entry(t, e)
         /\ a = "stored" => DOMAIN tab[t].wire \subseteq LogEids'
<1> DEFINE U == Unstored(t)
           n == Cardinality(U)
           new == [i \in 1..n |-> Entry(t, InOrder(U)[i])]
<1>0. log \in Seq(Stored) /\ Len(log) \in Nat /\ Len(log) <= MaxEvents
  BY DEF TablesOK
<1>1. CASE a # "stored"
  BY <1>0, <1>1 DEF Serve
<1>2. CASE a = "stored"
  <2>1. /\ n \in Nat /\ InOrder(U) \in [1..n -> U]
        /\ \A e \in U : \E i \in 1..n : InOrder(U)[i] = e
    <3>1. nextEid - 1 \in Nat /\ U \subseteq 1..(nextEid - 1)
      BY DEF TablesOK, Drawn, Unstored, Known
    <3>2. QED
      BY <3>1, InOrderLists
  <2>2. log' = log \o new /\ Len(log) + n <= MaxEvents
    BY <1>2 DEF Serve
  <2>3. U \subseteq DOMAIN tab[t].wire /\ DOMAIN tab[t].wire \subseteq U \cup LogEids
    BY DEF Unstored
  <2>4. \A e \in U : Entry(t, e) \in Stored /\ Entry(t, e).eid = e
    <3>1. JobOK(tab[t], nextClient)
      BY DEF JobsOK
    <3>2. \A e \in DOMAIN tab[t].wire : e \in Nat
      BY DEF Drawn, Known, TablesOK
    <3>3. 0..nextClient \subseteq Nat
      OBVIOUS
    <3>4. QED
      BY <2>3, <3>1, <3>2, <3>3 DEF Entry, Stored, JobOK
  <2> HIDE DEF U, n
  <2>5. new \in Seq(Stored) /\ Len(new) = n /\ \A i \in 1..n : new[i] = Entry(t, InOrder(U)[i])
    <3>1. \A i \in 1..n : InOrder(U)[i] \in U
      BY <2>1
    <3>2. new \in [1..n -> Stored]
      BY <2>4, <3>1
    <3>3. new \in Seq(Stored)
      BY <2>1, <3>2, SeqDef
    <3>4. Len(new) = n
      BY <2>1, <3>3, LenProperties
    <3>5. QED
      BY <3>3, <3>4
  <2> HIDE DEF new
  <2>6. log' \in Seq(Stored) /\ Len(log') = Len(log) + n
    BY <1>0, <2>2, <2>5, ConcatProperties
  <2>7. \A i \in 1..(Len(log) + n) :
          log'[i] = IF i <= Len(log) THEN log[i] ELSE new[i - Len(log)]
    BY <1>0, <2>2, <2>5, ConcatProperties
  <2>8. DOMAIN log' = 1..(Len(log) + n) /\ DOMAIN log = 1..Len(log)
    BY <1>0, <2>6
  <2>9. ASSUME NEW i \in DOMAIN log'
        PROVE  \/ i \in DOMAIN log /\ log'[i] = log[i]
               \/ \E e \in DOMAIN tab[t].wire : log'[i] = Entry(t, e)
    <3>1. CASE i <= Len(log)
      BY <1>0, <2>1, <2>7, <2>8, <2>9, <3>1
    <3>2. CASE ~(i <= Len(log))
      <4>1. i - Len(log) \in 1..n /\ log'[i] = new[i - Len(log)]
        BY <1>0, <2>1, <2>7, <2>8, <2>9, <3>2
      <4>2. InOrder(U)[i - Len(log)] \in U
        BY <2>1, <4>1
      <4>3. QED
        BY <2>3, <2>5, <4>1, <4>2
    <3>3. QED
      BY <3>1, <3>2
  <2>10. ASSUME NEW i \in DOMAIN log PROVE i \in DOMAIN log' /\ log'[i] = log[i]
    BY <1>0, <2>1, <2>7, <2>8, <2>10
  <2>11. ASSUME NEW e \in DOMAIN tab[t].wire PROVE e \in LogEids'
    <3>1. CASE e \in LogEids
      <4>1. PICK i \in DOMAIN log : log[i].eid = e
        BY <3>1 DEF LogEids
      <4>2. QED
        BY <2>10, <4>1 DEF LogEids
    <3>2. CASE e \in U
      <4>1. PICK i \in 1..n : InOrder(U)[i] = e
        BY <2>1, <3>2
      <4>2. Len(log) + i \in DOMAIN log' /\ log'[Len(log) + i] = new[i]
        <5>1. i \in Int /\ 1 <= i /\ i <= n
          BY <2>1
        <5>2. Len(log) + i \in 1..(Len(log) + n) /\ ~(Len(log) + i <= Len(log))
              /\ (Len(log) + i) - Len(log) = i
          BY <1>0, <2>1, <5>1
        <5>3. QED
          BY <2>7, <2>8, <5>2
      <4>3. new[i] = Entry(t, e)
        BY <2>5, <4>1
      <4>4. log'[Len(log) + i].eid = e
        BY <2>4, <3>2, <4>2, <4>3
      <4>5. QED
        BY <4>2, <4>4 DEF LogEids
    <3>3. QED
      BY <2>3, <3>1, <3>2
  <2>12. QED
    BY <2>2, <2>6, <2>9, <2>10, <2>11
<1>3. QED
  BY <1>1, <1>2

LEMMA ServeInv ==
  ASSUME Inv, NEW t \in Tab, NEW a, Serve(t, a)
  PROVE  Inv'
<1> DEFINE turned == IF a = "stored" THEN {} ELSE Unstored(t)
           j == [tab[t] EXCEPT !.answer = a, !.turned = turned,
                               !.phase = IF @ = "sent" THEN "answered" ELSE "reanswered"]
<1>0. TablesOK /\ JobsOK /\ LockHeld /\ Drawn
  BY DEF Inv
<1>1. /\ tab' = [tab EXCEPT ![t] = j] /\ JobOK(j, nextClient)
      /\ j.phase \in {"answered", "reanswered"} /\ j.wire = tab[t].wire
      /\ j.answer = a /\ j.turned = turned
      /\ j.phase = "answered" => tab[t].phase = "sent"
  <2>1. JobOK(tab[t], nextClient)
    BY <1>0 DEF JobsOK
  <2>2. tab' = [tab EXCEPT ![t] = j]
    BY DEF Serve
  <2>3. QED
    BY <2>1, <2>2 DEF JobOK, JobShape, Has, Fields
<1> HIDE DEF j
<1>2. /\ tab'[t] = j /\ \A u \in Tab : u # t => tab'[u] = tab[u]
      /\ JobsOK' /\ LockHeld'
  <2>1. nextClient' \in Nat /\ nextClient' = nextClient /\ config' = config /\ holder' = holder
    BY <1>0 DEF Serve, TablesOK, editing
  <2>2. config.lock /\ j.phase \in Locked => holder' = t
    <3>1. j.phase \in Locked => tab[t].phase = "sent"
      BY <1>1 DEF Locked
    <3>2. QED
      BY <1>0, <2>1, <3>1 DEF LockHeld, Locked
  <2>3. JobOK(j, nextClient') /\ nextClient <= nextClient'
        /\ \A u \in Tab : u # t => (holder = u => holder' = u)
    BY <1>0, <1>1, <2>1 DEF TablesOK
  <2>4. QED
    BY <1>1, <2>1, <2>2, <2>3, TabStep
<1>3. /\ log' \in Seq(Stored) /\ Len(log') <= MaxEvents
      /\ \A i \in DOMAIN log : i \in DOMAIN log' /\ log'[i] = log[i]
      /\ \A i \in DOMAIN log' : \/ i \in DOMAIN log /\ log'[i] = log[i]
                                \/ \E e \in DOMAIN tab[t].wire : log'[i] = Entry(t, e)
      /\ a = "stored" => DOMAIN tab[t].wire \subseteq LogEids'
  BY <1>0, ServedLog
<1>4. TablesOK'
  BY <1>0, <1>3 DEF Serve, TablesOK, RowOK, FoldsOK, FoldOK, Bodied, tables, editing, ghosts
<1>5. Known' = Known /\ LogEids \subseteq LogEids' /\ LogEids' \subseteq LogEids \cup DOMAIN tab[t].wire
  <2>1. nextEid' = nextEid
    BY DEF Serve, editing
  <2>2. ASSUME NEW i \in DOMAIN log'
        PROVE  log'[i].eid \in LogEids \cup DOMAIN tab[t].wire
    BY <1>3 DEF LogEids, Entry
  <2>3. \A i \in DOMAIN log : i \in DOMAIN log' /\ log'[i] = log[i]
    BY <1>3
  <2>4. QED
    BY <2>1, <2>2, <2>3 DEF Known, LogEids
<1>6. /\ \A u \in Tab : tab'[u].wire = tab[u].wire
      /\ outbox' = outbox /\ dead' = dead /\ lost' = lost /\ meta' = meta
      /\ backend' = backend /\ edits' = edits /\ config' = config /\ fold' = fold
  BY <1>1, <1>2 DEF Serve, tables, editing, ghosts
<1>7. turned \subseteq DOMAIN tab[t].wire
  BY DEF Unstored
<1>8. Drawn'
  <2>1. \A u \in Tab : tab'[u].phase \in {"answered", "reanswered"} =>
                         tab'[u].turned \subseteq DOMAIN tab'[u].wire
    BY <1>0, <1>1, <1>2, <1>7 DEF Drawn
  <2>3. \A u \in Tab : Folding(u)' => fold'[u].into \in Known /\ fold'[u].left \subseteq Known
    BY <1>0, <1>6, FoldsStill DEF Drawn
  <2> HIDE DEF turned
  <2>2. QED
    BY <1>0, <1>5, <1>6, <2>1, <2>3 DEF Drawn
<1>11. ClaimedOnce'
  BY <1>6, ClaimsKept DEF Inv, ClaimedOnce
<1>9. ASSUME Guarded PROVE Ledger'
  <2>1. Ledger
    BY <1>9 DEF Inv
  <2>2. CopiesAgree' /\ FoldsAgree'
    <3>1. \A i \in DOMAIN log' : log'[i].edits \in Sent(log'[i].eid)
      BY <1>3, CopiesAre DEF Entry
    <3>2. \A u \in Tab : \A e \in DOMAIN tab'[u].wire : tab'[u].wire[e].edits \in Sent(e)
      BY <1>6, CopiesAre
    <3>3. QED
      BY <1>0, <1>5, <1>6, <2>1, <3>1, <3>2, CopiesAre, CopiesAgreeStill DEF Ledger, Apart
  <2>3. AnswersStored'
    <3>1. ASSUME NEW u \in Tab, tab'[u].phase \in {"answered", "reanswered"},
                 NEW e \in Confirmed(u)'
          PROVE  \/ e \in LogEids'
                 \/ backend' > 1 /\ (tab'[u].phase = "reanswered" \/ meta'.seen # backend')
      <4>1. CASE u # t
        <5>1. tab'[u] = tab[u]
          BY <1>2, <4>1
        <5>2. e \in Confirmed(u)
          BY <3>1, <5>1 DEF Confirmed
        <5>3. QED
          BY <1>5, <1>6, <2>1, <3>1, <5>1, <5>2 DEF Ledger, AnswersStored
      <4>2. CASE u = t
        <5>1. e \in DOMAIN tab[t].wire \ turned
          BY <1>1, <1>2, <3>1, <4>2 DEF Confirmed
        <5>2. e \in LogEids'
          BY <1>3, <1>5, <5>1 DEF Unstored
        <5>3. QED
          BY <5>2
      <4>3. QED
        BY <4>1, <4>2
    <3>2. QED
      BY <3>1 DEF AnswersStored
  <2>4. \A e \in Synced' : e \in Synced /\ outbox'[e].edits = outbox[e].edits
    BY <1>6 DEF Synced, Pending
  <2>5. Away' = Away
    BY <1>6 DEF Away, Apart
  <2>6. SyncedHeld'
    BY <1>5, <1>6, <2>1, <2>4, <2>5, HeldStill DEF Ledger
  <2>7. NewcomerReleased'
    <3>1. \A u \in Tab : tab'[u].phase = "forget" => tab[u].phase = "forget"
      BY <1>1, <1>2
    <3>2. QED
      BY <1>6, <2>1, <2>4, <2>5, <3>1, NewcomerStill DEF Ledger
  <2>8. Accounted'
    BY <1>6, <2>1, <2>5, FoldsStill DEF Ledger, Accounted, EditsOf
  <2>9. ReleasedHeld'
    <3>1. LogEdits \subseteq LogEdits'
      BY <1>3 DEF LogEdits
    <3>2. QED
      BY <1>6, <2>1, <3>1 DEF Ledger, ReleasedHeld, Apart
  <2>10. OneSyncs'
    BY <1>6, <2>1 DEF Ledger, OneSyncs
  <2>11. QED
    BY <2>2, <2>3, <2>6, <2>7, <2>8, <2>9, <2>10 DEF Ledger
<1>10. QED
  BY <1>2, <1>4, <1>8, <1>9, <1>11 DEF Inv

(* What a reply confirms or refuses was in the request.                    *)
LEMMA ReplyIs ==
  ASSUME Drawn, NEW t \in Tab, tab[t].phase \in {"answered", "reanswered"}
  PROVE  /\ Confirmed(t) \subseteq DOMAIN tab[t].wire /\ Refused(t) \subseteq DOMAIN tab[t].wire
         /\ \A e \in Confirmed(t) \cup Refused(t) : tab[t].wire[e].edits \in Sent(e)
<1>1. Confirmed(t) \subseteq DOMAIN tab[t].wire /\ Refused(t) \subseteq DOMAIN tab[t].wire
  BY DEF Drawn, Confirmed, Refused
<1>2. QED
  BY <1>1, CopiesAre

(* The confirmed edits are on the server while it is the first one.        *)
LEMMA ConfirmedHeld ==
  ASSUME Drawn, CopiesAgree, AnswersStored, NEW t \in Tab, backend = 1,
         tab[t].phase \in {"answered", "reanswered"}
  PROVE  EditsOf(Bodies(tab[t].wire, Confirmed(t))) \subseteq LogEdits \cup Apart
<1> SUFFICES ASSUME NEW e \in Confirmed(t)
             PROVE  tab[t].wire[e].edits \subseteq LogEdits \cup Apart
  BY EditsFrom, BodiesAre
<1>1. e \in LogEids
  BY DEF AnswersStored
<1>2. tab[t].wire[e].edits \in Sent(e)
  BY ReplyIs
<1>3. QED
  BY <1>1, <1>2, StoredEdits

LEMMA FinishPushInv ==
  ASSUME Inv, NEW t \in Tab, FinishPush(t)
  PROVE  Inv'
<1> DEFINE later == DOMAIN tab[t].wire \ (Confirmed(t) \cup Refused(t))
           fails == tab[t].answer = "unreached" \/ ~(later \subseteq DOMAIN outbox)
           j == [Resting(tab[t].client) EXCEPT
                   !.again = tab[t].again, !.phase = AfterPush(t),
                   !.push = Pushed(t, IF fails THEN "failed" ELSE "done")]
           got == EditsOf(Bodies(tab[t].wire, Confirmed(t)))
           known == IF meta.seen = None THEN got ELSE {}
<1>0. TablesOK /\ JobsOK /\ LockHeld /\ Drawn
  BY DEF Inv
<1>1. /\ tab' = [tab EXCEPT ![t] = j] /\ JobOK(j, nextClient)
      /\ j.phase \in {"outcome", "pull"} /\ DOMAIN j.wire = {}
  <2>1. JobOK(tab[t], nextClient) /\ nextClient \in Nat /\ tab[t].client \in 0..nextClient
    BY <1>0 DEF JobsOK, JobOK, TablesOK
  <2>2. JobOK(Resting(tab[t].client), nextClient) /\ DOMAIN Resting(tab[t].client).wire = {}
    BY <2>1, RestingIs
  <2>3. tab' = [tab EXCEPT ![t] = j]
    BY DEF FinishPush
  <2>4. /\ AfterPush(t) \in {"outcome", "pull"}
        /\ Pushed(t, IF fails THEN "failed" ELSE "done") \in {"none", "done", "failed"}
    BY DEF AfterPush, Pushed
  <2> HIDE DEF fails
  <2>5. QED
    BY <2>2, <2>3, <2>4 DEF JobOK, JobShape, Has, Fields
<1>2. tab[t].phase = "answered" /\ (config.lock => holder = t)
  BY <1>0 DEF FinishPush, At, LockHeld, Locked
<1> HIDE DEF j, fails
<1>3. UNCHANGED <<config, parked, inbox, meta, shown, log, backend, editing, holder>>
  BY DEF FinishPush, server
<1>4. /\ tab'[t] = j /\ \A u \in Tab : u # t => tab'[u] = tab[u]
      /\ JobsOK' /\ LockHeld'
  <2>1. nextClient' \in Nat /\ JobOK(j, nextClient') /\ nextClient <= nextClient'
        /\ \A u \in Tab : u # t => (holder = u => holder' = u)
    BY <1>0, <1>1, <1>3 DEF TablesOK, editing
  <2>2. QED
    BY <1>1, <1>2, <1>3, <2>1, TabStep
<1>5. /\ DOMAIN outbox' = DOMAIN outbox \ Refused(t)
      /\ \A e \in DOMAIN outbox' :
           /\ outbox'[e] = [outbox[e] EXCEPT !.synced = @ \/ e \in Confirmed(t),
                                             !.waits = @ \/ e \in later]
           /\ RowOK(outbox'[e]) /\ outbox'[e].edits = outbox[e].edits
           /\ outbox'[e].synced => outbox[e].synced \/ e \in Confirmed(t)
  <2>1. outbox' = [e \in DOMAIN outbox \ Refused(t) |->
                         [outbox[e] EXCEPT !.synced = @ \/ e \in Confirmed(t),
                                           !.waits = @ \/ e \in later]]
    BY DEF FinishPush
  <2> HIDE DEF later
  <2>2. ASSUME NEW e \in DOMAIN outbox
        PROVE  LET r == [outbox[e] EXCEPT !.synced = @ \/ e \in Confirmed(t),
                                          !.waits = @ \/ e \in later]
               IN  /\ RowOK(r) /\ r.edits = outbox[e].edits
                   /\ r.synced => outbox[e].synced \/ e \in Confirmed(t)
    <3> DEFINE r == [outbox[e] EXCEPT !.synced = @ \/ e \in Confirmed(t),
                                      !.waits = @ \/ e \in later]
    <3>1. RowOK(outbox[e])
      BY <1>0 DEF TablesOK
    <3>2. /\ DOMAIN r = {"edits", "by", "synced", "waits", "age"}
          /\ r.edits = outbox[e].edits /\ r.by = outbox[e].by /\ r.age = outbox[e].age
          /\ r.synced = (outbox[e].synced \/ e \in Confirmed(t))
      BY <3>1 DEF RowOK, Has
    <3>3. r = [x \in DOMAIN r |-> r[x]]
      OBVIOUS
    <3> HIDE DEF r
    <3>4. RowOK(r)
      BY <3>1, <3>2, <3>3 DEF RowOK, Has
    <3>5. QED
      BY <3>2, <3>4 DEF r
  <2>3. QED
    BY <2>1, <2>2
<1>6. /\ DOMAIN dead' = DOMAIN dead \cup Refused(t)
      /\ \A e \in DOMAIN dead : dead'[e] = dead[e]
      /\ \A e \in Refused(t) \ DOMAIN dead :
           dead'[e].edits = tab[t].wire[e].edits /\ dead'[e].by = tab[t].wire[e].by
  <2> DEFINE b == Bodies(tab[t].wire, Refused(t))
  <2>1. dead' = Join(b, dead)
    BY DEF FinishPush
  <2>2. DOMAIN b = Refused(t) /\ \A e \in Refused(t) : b[e].edits = tab[t].wire[e].edits
                                                       /\ b[e].by = tab[t].wire[e].by
    BY BodiesAre
  <2> HIDE DEF b
  <2>3. /\ DOMAIN dead' = DOMAIN dead \cup Refused(t)
        /\ \A e \in DOMAIN dead : dead'[e] = dead[e]
        /\ \A e \in Refused(t) \ DOMAIN dead : dead'[e] = b[e]
    BY <2>1, <2>2 DEF Join
  <2>4. \A e \in Refused(t) \ DOMAIN dead :
          dead'[e].edits = tab[t].wire[e].edits /\ dead'[e].by = tab[t].wire[e].by
    BY <2>2, <2>3
  <2>5. QED
    BY <2>3, <2>4
<1>7. /\ lost' = [lost EXCEPT !["released"] = @ \cup known]
      /\ Has(lost', {"discarded", "swept", "unsent", "torn", "pruned", "released", "waived"})
      /\ lost'.discarded = lost.discarded /\ lost'.swept = lost.swept
      /\ lost'.unsent = lost.unsent /\ lost'.torn = lost.torn /\ lost'.pruned = lost.pruned
      /\ lost'.released = lost.released \cup known
  BY <1>0 DEF FinishPush, Lose, TablesOK, Has
<1>8. /\ Confirmed(t) \subseteq DOMAIN tab[t].wire /\ Refused(t) \subseteq DOMAIN tab[t].wire
      /\ \A e \in Confirmed(t) \cup Refused(t) : tab[t].wire[e].edits \in Sent(e)
  BY <1>0, <1>2, ReplyIs
<1> HIDE DEF later, got, known
<1>9. TablesOK'
  <2>1. (\A e \in DOMAIN outbox : RowOK(outbox[e]))'
    BY <1>3, <1>5 DEF RowOK, editing
  <2>2. Bodied(dead)'
    <3>1. JobOK(tab[t], nextClient)
      BY <1>0 DEF JobsOK
    <3>2. QED
      BY <1>0, <1>3, <1>6, <1>8, <3>1 DEF TablesOK, JobOK, Bodied, editing
  <2>3. FoldsOK'
    BY <1>0, <1>3 DEF TablesOK, FoldsOK, FoldOK, editing
  <2>4. QED
    BY <1>0, <1>3, <1>7, <2>1, <2>2, <2>3 DEF TablesOK, editing
<1>10. Known' = Known /\ LogEids' = LogEids /\ LogEdits' = LogEdits
  BY <1>3 DEF Known, LogEids, LogEdits, editing
<1>11. tab'[t].phase \in {"outcome", "pull"} /\ DOMAIN tab'[t].wire = {}
  BY <1>1, <1>4
<1>12. Drawn'
  <2>1. DOMAIN outbox' \cup DOMAIN dead' \cup LogEids' \subseteq Known'
    BY <1>0, <1>5, <1>6, <1>8, <1>10 DEF Drawn
  <2>2. \A u \in Tab : DOMAIN tab'[u].wire \subseteq Known'
    BY <1>0, <1>4, <1>10, <1>11 DEF Drawn
  <2>3. \A u \in Tab : Folding(u)' => fold'[u].into \in Known /\ fold'[u].left \subseteq Known
    BY <1>0, <1>3, FoldsStill DEF Drawn, editing
  <2>4. \A u \in Tab : tab'[u].phase \in {"answered", "reanswered"} =>
                         tab'[u].turned \subseteq DOMAIN tab'[u].wire
    BY <1>0, <1>4, <1>11 DEF Drawn
  <2>5. QED
    BY <1>10, <2>1, <2>2, <2>3, <2>4 DEF Drawn
<1>15. ClaimedOnce'
  BY <1>3, <1>5, ClaimsKept DEF Inv, ClaimedOnce, editing
<1>13. ASSUME Guarded PROVE Ledger'
  <2>1. Ledger
    BY <1>13 DEF Inv
  <2>2. CopiesAgree' /\ FoldsAgree'
    <3>1. \A u \in Tab : \A e \in DOMAIN tab'[u].wire : tab'[u].wire[e].edits \in Sent(e)
      BY <1>4, <1>11, CopiesAre
    <3>2. \A i \in DOMAIN log' : log'[i].edits \in Sent(log'[i].eid)
      BY <1>3, CopiesAre
    <3>3. \A e \in DOMAIN dead' : dead'[e].edits \in Sent(e)
      BY <1>6, <1>8, CopiesAre
    <3>4. QED
      BY <1>0, <1>3, <1>5, <1>7, <1>10, <2>1, <3>1, <3>2, <3>3, CopiesAgreeStill DEF Ledger, Apart, editing
  <2>3. AnswersStored'
    <3>1. \A u \in Tab : tab'[u].phase \in {"answered", "reanswered"} => tab'[u] = tab[u]
      BY <1>4, <1>11
    <3>2. QED
      BY <1>3, <1>10, <2>1, <3>1, AnswersStill DEF Ledger
  <2>4. Away \subseteq Away'
    BY <1>7 DEF Away, Apart
  <2>5. ASSUME NEW e \in Synced'
        PROVE  /\ e \in DOMAIN outbox /\ outbox'[e].edits = outbox[e].edits
               /\ e \in Synced \/ e \in Confirmed(t)
    BY <1>5, <2>5 DEF Synced, Pending
  <2>6. ASSUME NEW e \in Confirmed(t), e \in DOMAIN outbox, meta.seen = None
        PROVE  outbox[e].edits \subseteq Away'
    <3>1. tab[t].wire[e].edits \subseteq lost'.released
      <4>1. tab[t].wire[e].edits \subseteq got
        BY BodiesAre, EditsIn DEF got
      <4>2. QED
        BY <1>7, <2>6, <4>1 DEF known
    <3>2. outbox[e].edits \ tab[t].wire[e].edits \subseteq Apart
      BY <1>0, <1>8, <2>1, <2>6 DEF Ledger, CopiesAgree, Drawn
    <3>3. QED
      BY <1>7, <3>1, <3>2 DEF Away, Apart
  <2>7. SyncedHeld'
    <3>1. ASSUME NEW e \in Synced'
          PROVE  \/ e \in LogEids
                 \/ backend > 1 /\ meta.seen \notin {None, backend}
                 \/ backend > 1 /\ outbox'[e].edits \subseteq Away'
      <4>1. CASE e \in Synced
        BY <2>1, <2>4, <2>5, <3>1, <4>1 DEF Ledger, SyncedHeld
      <4>2. CASE e \in Confirmed(t)
        <5>1. \/ e \in LogEids
              \/ backend > 1 /\ meta.seen # backend
          BY <1>2, <2>1, <4>2 DEF Ledger, AnswersStored
        <5>2. QED
          BY <2>5, <2>6, <3>1, <4>2, <5>1
      <4>3. QED
        BY <2>5, <3>1, <4>1, <4>2
    <3>2. QED
      BY <1>3, <1>10, <3>1 DEF SyncedHeld
  <2>8. NewcomerReleased'
    <3>1. ASSUME config.lock, meta.seen = None, NEW e \in Synced'
          PROVE  outbox'[e].edits \subseteq Away'
      <4>1. CASE e \in Synced
        <5>1. outbox[e].edits \subseteq Away
          BY <2>1, <3>1, <4>1 DEF Ledger, NewcomerReleased
        <5>2. QED
          BY <2>4, <2>5, <3>1, <5>1
      <4>2. CASE e \in Confirmed(t)
        BY <2>5, <2>6, <3>1, <4>2
      <4>3. QED
        BY <2>5, <3>1, <4>1, <4>2
    <3>2. ASSUME config.lock, NEW u \in Tab, tab'[u].phase = "forget" PROVE FALSE
      <4>1. u # t /\ tab[u].phase = "forget"
        BY <1>4, <1>11, <3>2
      <4>2. holder = u
        BY <1>0, <3>2, <4>1 DEF LockHeld, Locked
      <4>3. QED
        BY <1>2, <3>2, <4>1, <4>2
    <3>3. QED
      BY <1>3, <3>1, <3>2 DEF NewcomerReleased
  <2>9. Accounted'
    <3> DEFINE reasons == EditsOf(outbox') \cup EditsOf(dead') \cup InFolds' \cup lost'.discarded
                            \cup lost'.swept \cup lost'.pruned \cup Away'
    <3>1. ASSUME NEW e \in DOMAIN dead' PROVE dead'[e].edits \subseteq reasons
      BY EditsIn
    <3>2. ASSUME NEW e \in DOMAIN outbox PROVE outbox[e].edits \subseteq reasons
      <4>1. CASE e \notin Refused(t)
        <5>1. e \in DOMAIN outbox' /\ outbox'[e].edits = outbox[e].edits
          BY <1>5, <4>1
        <5>2. outbox'[e].edits \subseteq EditsOf(outbox')
          BY <5>1, EditsIn
        <5>3. QED
          BY <5>1, <5>2
      <4>2. CASE e \in Refused(t)
        <5>2. e \in DOMAIN dead' /\ dead'[e].edits \in Sent(e)
          BY <1>6, <1>8, <4>2, CopiesAre
        <5>3. outbox[e].edits \ dead'[e].edits \subseteq Apart
          BY <1>0, <2>1, <3>2, <5>2 DEF Ledger, CopiesAgree, Drawn
        <5>4. Apart \subseteq Away'
          BY <1>7 DEF Away, Apart
        <5>5. dead'[e].edits \subseteq reasons
          BY <3>1, <5>2
        <5> HIDE DEF reasons
        <5>6. Away' \subseteq reasons
          BY DEF reasons
        <5>7. QED
          BY <5>2, <5>3, <5>4, <5>5, <5>6
      <4>3. QED
        BY <4>1, <4>2
    <3>3. ASSUME NEW e \in DOMAIN dead PROVE dead[e].edits \subseteq reasons
      <4>1. e \in DOMAIN dead' /\ dead'[e] = dead[e]
        BY <1>6
      <4>2. dead'[e].edits \subseteq reasons
        BY <3>1, <4>1
      <4> HIDE DEF reasons
      <4>3. QED
        BY <4>1, <4>2
    <3>4. reasons = EditsOf(outbox') \cup EditsOf(dead') \cup InFolds' \cup lost'.discarded
                            \cup lost'.swept \cup lost'.pruned \cup Away'
      OBVIOUS
    <3> HIDE DEF reasons
    <3>5. QED
      BY <1>3, <1>7, <2>1, <2>4, <3>2, <3>3, <3>4, AccountedStill, FoldsStill DEF Ledger, editing
  <2>10. ReleasedHeld'
    <3>1. ASSUME backend = 1 PROVE lost'.released \subseteq LogEdits \cup Apart
      <4>1. got \subseteq LogEdits \cup Apart
        BY <1>0, <1>2, <2>1, <3>1, ConfirmedHeld DEF Ledger, got
      <4>2. lost.released \subseteq LogEdits \cup Apart
        BY <2>1, <3>1 DEF Ledger, ReleasedHeld
      <4>3. QED
        BY <1>7, <4>1, <4>2 DEF known
    <3>2. QED
      BY <1>3, <1>7, <1>10, <3>1 DEF ReleasedHeld, Apart
  <2>11. OneSyncs'
    BY <1>3, <2>1 DEF Ledger, OneSyncs
  <2>12. QED
    BY <2>2, <2>3, <2>7, <2>8, <2>9, <2>10, <2>11 DEF Ledger
<1>14. QED
  BY <1>4, <1>9, <1>12, <1>13, <1>15 DEF Inv

LEMMA FinishRetryInv ==
  ASSUME Inv, NEW t \in Tab, FinishRetry(t)
  PROVE  Inv'
<1> DEFINE j == Resting(tab[t].client)
           got == EditsOf(Bodies(tab[t].wire, Confirmed(t)))
<1>0. TablesOK /\ JobsOK /\ LockHeld /\ Drawn
  BY DEF Inv
<1>1. /\ tab' = [tab EXCEPT ![t] = j] /\ JobOK(j, nextClient)
      /\ j.phase = "idle" /\ DOMAIN j.wire = {}
  BY <1>0, RestIs DEF FinishRetry
<1> HIDE DEF j
<1>2. tab[t].phase = "reanswered"
  BY DEF FinishRetry, At
<1>3. UNCHANGED <<config, outbox, parked, inbox, meta, shown, log, backend, editing, holder>>
  BY DEF FinishRetry, server
<1>4. /\ tab'[t] = j /\ \A u \in Tab : u # t => tab'[u] = tab[u]
      /\ JobsOK' /\ LockHeld'
  <2>1. nextClient' \in Nat /\ JobOK(j, nextClient') /\ nextClient <= nextClient'
        /\ \A u \in Tab : u # t => (holder = u => holder' = u)
    BY <1>0, <1>1, <1>3 DEF TablesOK, editing
  <2>2. j.phase \notin Locked
    BY <1>1 DEF Locked
  <2>3. QED
    BY <1>1, <1>3, <2>1, <2>2, TabStep
<1>5. /\ DOMAIN dead' = DOMAIN dead \ Confirmed(t)
      /\ \A e \in DOMAIN dead' : dead'[e] = dead[e]
  BY DEF FinishRetry, Without
<1>6. /\ lost' = [lost EXCEPT !["released"] = @ \cup got]
      /\ Has(lost', {"discarded", "swept", "unsent", "torn", "pruned", "released", "waived"})
      /\ lost'.discarded = lost.discarded /\ lost'.swept = lost.swept
      /\ lost'.unsent = lost.unsent /\ lost'.torn = lost.torn /\ lost'.pruned = lost.pruned
      /\ lost'.released = lost.released \cup got
  BY <1>0 DEF FinishRetry, Lose, TablesOK, Has
<1> HIDE DEF got
<1>7. TablesOK'
  <2>1. (\A e \in DOMAIN outbox : RowOK(outbox[e]))' /\ Bodied(dead)' /\ FoldsOK'
    BY <1>0, <1>3, <1>5 DEF TablesOK, RowOK, FoldsOK, FoldOK, Bodied, editing
  <2>2. QED
    BY <1>0, <1>3, <1>6, <2>1 DEF TablesOK, editing
<1>8. Known' = Known /\ LogEids' = LogEids /\ LogEdits' = LogEdits
  BY <1>3 DEF Known, LogEids, LogEdits, editing
<1>9. tab'[t].phase = "idle" /\ DOMAIN tab'[t].wire = {}
  BY <1>1, <1>4
<1>10. Drawn'
  <2>1. \A u \in Tab : DOMAIN tab'[u].wire \subseteq Known'
    BY <1>0, <1>4, <1>8, <1>9 DEF Drawn
  <2>2. \A u \in Tab : tab'[u].phase \in {"answered", "reanswered"} =>
                         tab'[u].turned \subseteq DOMAIN tab'[u].wire
    BY <1>0, <1>4, <1>9 DEF Drawn
  <2>4. \A u \in Tab : Folding(u)' => fold'[u].into \in Known /\ fold'[u].left \subseteq Known
    BY <1>0, <1>3, FoldsStill DEF Drawn, editing
  <2>3. QED
    BY <1>0, <1>3, <1>5, <1>8, <2>1, <2>2, <2>4 DEF Drawn
<1>13. ClaimedOnce'
  BY <1>3, ClaimsKept DEF Inv, ClaimedOnce, editing
<1>11. ASSUME Guarded PROVE Ledger'
  <2>1. Ledger
    BY <1>11 DEF Inv
  <2>2. CopiesAgree' /\ FoldsAgree'
    <3>1. \A u \in Tab : \A e \in DOMAIN tab'[u].wire : tab'[u].wire[e].edits \in Sent(e)
      BY <1>4, <1>9, CopiesAre
    <3>2. \A i \in DOMAIN log' : log'[i].edits \in Sent(log'[i].eid)
      BY <1>3, CopiesAre
    <3>3. \A e \in DOMAIN dead' : dead'[e].edits \in Sent(e)
      BY <1>5, CopiesAre
    <3>4. QED
      BY <1>0, <1>3, <1>6, <1>8, <2>1, <3>1, <3>2, <3>3, CopiesAgreeStill DEF Ledger, Apart, editing
  <2>3. AnswersStored'
    <3>1. \A u \in Tab : tab'[u].phase \in {"answered", "reanswered"} => tab'[u] = tab[u]
      BY <1>4, <1>9
    <3>2. QED
      BY <1>3, <1>8, <2>1, <3>1, AnswersStill DEF Ledger
  <2>4. Away \subseteq Away' /\ got \subseteq Away'
    BY <1>6 DEF Away, Apart
  <2>5. \A e \in Synced' : e \in Synced /\ outbox'[e].edits = outbox[e].edits
    BY <1>3 DEF Synced, Pending
  <2>6. SyncedHeld'
    BY <1>3, <1>8, <2>1, <2>4, <2>5, HeldStill DEF Ledger
  <2>7. NewcomerReleased'
    <3>1. \A u \in Tab : tab'[u].phase = "forget" => tab[u].phase = "forget"
      BY <1>4, <1>9
    <3>2. QED
      BY <1>3, <2>1, <2>4, <2>5, <3>1, NewcomerStill DEF Ledger
  <2>8. Accounted'
    <3> DEFINE reasons == EditsOf(outbox') \cup EditsOf(dead') \cup InFolds' \cup lost'.discarded
                            \cup lost'.swept \cup lost'.pruned \cup Away'
    <3>1. /\ Away' \subseteq reasons /\ EditsOf(outbox') \subseteq reasons
          /\ EditsOf(dead') \subseteq reasons
          /\ reasons = EditsOf(outbox') \cup EditsOf(dead') \cup InFolds' \cup lost'.discarded
                            \cup lost'.swept \cup lost'.pruned \cup Away'
      OBVIOUS
    <3> HIDE DEF reasons
    <3>2. \A e \in DOMAIN outbox : outbox[e].edits \subseteq reasons
      BY <1>3, <3>1, EditsIn
    <3>3. ASSUME NEW e \in DOMAIN dead PROVE dead[e].edits \subseteq reasons
      <4>1. CASE e \notin Confirmed(t)
        <5>1. e \in DOMAIN dead' /\ dead'[e] = dead[e]
          BY <1>5, <4>1
        <5>2. dead'[e].edits \subseteq EditsOf(dead')
          BY <5>1, EditsIn
        <5>3. QED
          BY <3>1, <5>1, <5>2
      <4>2. CASE e \in Confirmed(t)
        <5>1. tab[t].wire[e].edits \subseteq got
          BY <4>2, BodiesAre, EditsIn DEF got
        <5>2. tab[t].wire[e].edits \in Sent(e) /\ dead[e].edits \in Sent(e) /\ e \in Known
          BY <1>0, <1>2, <4>2, CopiesAre, ReplyIs DEF Drawn
        <5>3. dead[e].edits \ tab[t].wire[e].edits \subseteq Apart
          BY <2>1, <5>2 DEF Ledger, CopiesAgree
        <5>4. Apart \subseteq Away'
          BY <1>6 DEF Away, Apart
        <5>5. QED
          BY <2>4, <3>1, <5>1, <5>3, <5>4
      <4>3. QED
        BY <4>1, <4>2
    <3>4. QED
      BY <1>3, <1>6, <2>1, <2>4, <3>1, <3>2, <3>3, AccountedStill, FoldsStill DEF Ledger, editing
  <2>9. ReleasedHeld'
    <3>1. ASSUME backend = 1 PROVE lost'.released \subseteq LogEdits \cup Apart
      <4>1. got \subseteq LogEdits \cup Apart
        BY <1>0, <1>2, <2>1, <3>1, ConfirmedHeld DEF Ledger, got
      <4>2. lost.released \subseteq LogEdits \cup Apart
        BY <2>1, <3>1 DEF Ledger, ReleasedHeld
      <4>3. QED
        BY <1>6, <4>1, <4>2
    <3>2. QED
      BY <1>3, <1>6, <1>8, <3>1 DEF ReleasedHeld, Apart
  <2>10. OneSyncs'
    BY <1>3, <2>1 DEF Ledger, OneSyncs
  <2>11. QED
    BY <2>2, <2>3, <2>6, <2>7, <2>8, <2>9, <2>10 DEF Ledger
<1>12. QED
  BY <1>4, <1>7, <1>10, <1>11, <1>13 DEF Inv

-----------------------------------------------------------------------------
(* The actions: what takes rows away.                                      *)

(* Tables with fewer rows, and the rows that are gone accounted for.       *)
LEMMA ClearedLedger ==
  ASSUME Inv, Guarded, NEW t \in Tab,
         UNCHANGED <<config, log, backend, edits, fold, nextEid>>, meta'.seen = meta.seen,
         \A u \in Tab : u # t => tab'[u] = tab[u],
         DOMAIN tab'[t].wire = {} \/ tab'[t].wire = tab[t].wire,
         tab'[t].phase \notin {"answered", "reanswered"} \/ tab'[t] = tab[t],
         tab'[t].phase = "forget" => DOMAIN outbox' = {} \/ tab'[t] = tab[t],
         \A e \in DOMAIN dead' : e \in DOMAIN dead /\ dead'[e] = dead[e],
         \A e \in DOMAIN outbox' : e \in DOMAIN outbox /\ outbox'[e] = outbox[e],
         lost.discarded \subseteq lost'.discarded, lost.swept \subseteq lost'.swept,
         lost'.unsent = lost.unsent, lost'.torn = lost.torn, lost.pruned \subseteq lost'.pruned,
         lost.released \subseteq lost'.released,
         backend = 1 => lost'.released \subseteq LogEdits \cup Apart,
         \A e \in DOMAIN outbox \ DOMAIN outbox' :
           outbox[e].edits \subseteq lost'.discarded \cup lost'.swept \cup lost'.pruned \cup lost'.released,
         \A e \in DOMAIN dead \ DOMAIN dead' : dead[e].edits \subseteq lost'.discarded
  PROVE  Ledger'
<1>1. Ledger
  BY DEF Inv
<1>2. Known' = Known /\ LogEids' = LogEids /\ LogEdits' = LogEdits
  BY DEF Known, LogEids, LogEdits
<1>3. CopiesAgree' /\ FoldsAgree'
  <2>1. \A u \in Tab : \A e \in DOMAIN tab'[u].wire : tab'[u].wire[e].edits \in Sent(e)
    BY CopiesAre
  <2>2. \A i \in DOMAIN log' : log'[i].edits \in Sent(log'[i].eid)
    BY CopiesAre
  <2>3. \A e \in DOMAIN dead' : dead'[e].edits \in Sent(e)
    BY CopiesAre
  <2>4. QED
    BY <1>1, <1>2, <2>1, <2>2, <2>3, CopiesAgreeStill DEF Inv, Ledger, Apart
<1>4. AnswersStored'
  <2>1. \A u \in Tab : tab'[u].phase \in {"answered", "reanswered"} => tab'[u] = tab[u]
    OBVIOUS
  <2>2. QED
    BY <1>1, <1>2, <2>1, AnswersStill DEF Ledger
<1>5. Away \subseteq Away' /\ lost'.released \subseteq Away'
  BY DEF Away, Apart
<1>6. \A e \in Synced' : e \in Synced /\ outbox'[e].edits = outbox[e].edits
  BY DEF Synced, Pending
<1>7. SyncedHeld'
  BY <1>1, <1>2, <1>5, <1>6, HeldStill DEF Ledger
<1>8. NewcomerReleased'
  <2>1. CASE tab'[t].phase = "forget" => tab'[t] = tab[t]
    <3>1. \A u \in Tab : tab'[u].phase = "forget" => tab[u].phase = "forget"
      BY <2>1
    <3>2. QED
      BY <1>1, <1>5, <1>6, <3>1, NewcomerStill DEF Ledger
  <2>2. CASE DOMAIN outbox' = {}
    <3>1. Synced' = {}
      BY <2>2 DEF Synced, Pending
    <3>2. QED
      BY <3>1 DEF NewcomerReleased
  <2>3. QED
    BY <2>1, <2>2
<1>9. Accounted'
  <2> DEFINE reasons == EditsOf(outbox') \cup EditsOf(dead') \cup InFolds' \cup lost'.discarded
                            \cup lost'.swept \cup lost'.pruned \cup Away'
  <2>1. /\ lost'.discarded \cup lost'.swept \cup lost'.pruned \cup lost'.released \subseteq reasons
        /\ EditsOf(outbox') \subseteq reasons /\ EditsOf(dead') \subseteq reasons
        /\ InFolds' \subseteq reasons
        /\ reasons = EditsOf(outbox') \cup EditsOf(dead') \cup InFolds' \cup lost'.discarded
                            \cup lost'.swept \cup lost'.pruned \cup Away'
    BY <1>5
  <2> HIDE DEF reasons
  <2>2. ASSUME NEW e \in DOMAIN outbox PROVE outbox[e].edits \subseteq reasons
    <3>1. CASE e \in DOMAIN outbox'
      <4>1. outbox'[e].edits \subseteq EditsOf(outbox')
        BY <3>1, EditsIn
      <4>2. QED
        BY <2>1, <3>1, <4>1
    <3>2. CASE e \notin DOMAIN outbox'
      BY <2>1, <2>2, <3>2
    <3>3. QED
      BY <3>1, <3>2
  <2>3. ASSUME NEW e \in DOMAIN dead PROVE dead[e].edits \subseteq reasons
    <3>1. CASE e \in DOMAIN dead'
      <4>1. dead'[e].edits \subseteq EditsOf(dead')
        BY <3>1, EditsIn
      <4>2. QED
        BY <2>1, <3>1, <4>1
    <3>2. CASE e \notin DOMAIN dead'
      BY <2>1, <2>3, <3>2
    <3>3. QED
      BY <3>1, <3>2
  <2>4. QED
    BY <1>1, <1>5, <2>1, <2>2, <2>3, AccountedStill, FoldsStill DEF Ledger
<1>10. ReleasedHeld'
  BY <1>2 DEF ReleasedHeld, Apart
<1>11. OneSyncs'
  BY <1>1 DEF Ledger, OneSyncs
<1>12. QED
  BY <1>3, <1>4, <1>7, <1>8, <1>9, <1>10, <1>11 DEF Ledger

LEMMA ClearedDrawn ==
  ASSUME Drawn, ClaimedOnce, NEW t \in Tab, log' = log, nextEid' = nextEid, fold' = fold,
         \A u \in Tab : u # t => tab'[u] = tab[u],
         DOMAIN tab'[t].wire = {} \/ tab'[t].wire = tab[t].wire,
         tab'[t].phase \notin {"answered", "reanswered"} \/ tab'[t] = tab[t],
         DOMAIN dead' \subseteq DOMAIN dead, DOMAIN outbox' \subseteq DOMAIN outbox
  PROVE  Drawn' /\ ClaimedOnce'
<1>1. Known' = Known /\ LogEids' = LogEids
  BY DEF Known, LogEids
<1>2. \A u \in Tab : DOMAIN tab'[u].wire \subseteq Known
  BY DEF Drawn
<1>3. \A u \in Tab : tab'[u].phase \in {"answered", "reanswered"} =>
                       tab'[u].turned \subseteq DOMAIN tab'[u].wire
  BY DEF Drawn
<1>4. \A u \in Tab : Folding(u)' => fold'[u].into \in Known /\ fold'[u].left \subseteq Known
  BY FoldsStill DEF Drawn
<1>5. Drawn'
  BY <1>1, <1>2, <1>3, <1>4 DEF Drawn
<1>6. QED
  BY <1>5, ClaimsKept DEF ClaimedOnce

LEMMA DiscardInv ==
  ASSUME Inv, NEW t \in Tab, Discard(t)
  PROVE  Inv'
<1>0. TablesOK /\ JobsOK /\ LockHeld /\ Drawn
  BY DEF Inv
<1>1. PICK S \in SUBSET (DOMAIN dead \cup DOMAIN parked) :
        /\ dead' = Without(dead, S) /\ parked' = Without(parked, S)
        /\ lost' = [lost EXCEPT !.discarded = @ \cup EditsOf(Bodies(dead, S \cap DOMAIN dead)),
                                !.waived = @ \cup (S \cap DOMAIN parked)]
  BY DEF Discard
<1> DEFINE gone == EditsOf(Bodies(dead, S \cap DOMAIN dead))
<1>2. UNCHANGED <<config, outbox, inbox, meta, log, backend, editing, tab, holder>>
  BY DEF Discard, server
<1>3. /\ Has(lost', {"discarded", "swept", "unsent", "torn", "pruned", "released", "waived"})
      /\ lost'.discarded = lost.discarded \cup gone /\ lost'.swept = lost.swept
      /\ lost'.unsent = lost.unsent /\ lost'.torn = lost.torn /\ lost'.pruned = lost.pruned
      /\ lost'.released = lost.released
  BY <1>0, <1>1 DEF TablesOK, Has
<1>4. /\ DOMAIN dead' = DOMAIN dead \ S /\ \A e \in DOMAIN dead' : dead'[e] = dead[e]
      /\ DOMAIN parked' = DOMAIN parked \ S /\ \A e \in DOMAIN parked' : parked'[e] = parked[e]
  BY <1>1 DEF Without
<1>5. \A e \in S \cap DOMAIN dead : dead[e].edits \subseteq gone
  BY BodiesAre, EditsIn
<1> HIDE DEF gone
<1>6. TablesOK'
  BY <1>0, <1>2, <1>3, <1>4 DEF editing, TablesOK, RowOK, FoldsOK, FoldOK, Bodied
<1>7. JobsOK' /\ LockHeld'
  BY <1>0, <1>2 DEF editing, JobsOK, LockHeld
<1>8. Drawn' /\ ClaimedOnce'
  BY <1>0, <1>2, <1>4, ClearedDrawn DEF Inv, editing
<1>9. ASSUME Guarded PROVE Ledger'
  <2>1. backend = 1 => lost'.released \subseteq LogEdits \cup Apart
    BY <1>3, <1>9 DEF Inv, Ledger, ReleasedHeld, Apart
  <2>2. \A e \in DOMAIN dead \ DOMAIN dead' : dead[e].edits \subseteq lost'.discarded
    BY <1>3, <1>4, <1>5
  <2>3. QED
    BY <1>2, <1>3, <1>4, <1>9, <2>1, <2>2, ClearedLedger DEF editing
<1>10. QED
  BY <1>6, <1>7, <1>8, <1>9 DEF Inv

LEMMA SaveCursorInv ==
  ASSUME Inv, NEW t \in Tab, SaveCursor(t)
  PROVE  Inv'
<1> DEFINE j == [tab[t] EXCEPT !.phase = "list sent"]
<1>1. tab' = [tab EXCEPT ![t] = j] /\ JobOK(j, nextClient)
      /\ j.phase = "list sent" /\ j.wire = tab[t].wire
  BY GoIs DEF Inv, SaveCursor
<1>2. TablesOK'
  <2>1. tab[t].cursor \in 0..MaxEvents
    BY DEF Inv, JobsOK, JobOK
  <2>2. QED
    BY <2>1 DEF SaveCursor, Inv, TablesOK, RowOK, FoldsOK, FoldOK, Bodied, Has, server, editing
<1>3. meta'.seen = meta.seen
  BY DEF Inv, TablesOK, Has, SaveCursor
<1> HIDE DEF j
<1>4. QED
  BY <1>1, <1>2, <1>3, CalmStep DEF SaveCursor, server, editing, Locked

LEMMA ListSentInv ==
  ASSUME Inv, NEW t \in Tab, ListSent(t)
  PROVE  Inv'
<1> DEFINE j == [tab[t] EXCEPT !.phase = "list seen", !.doomed = Synced]
<1>1. tab' = [tab EXCEPT ![t] = j] /\ JobOK(j, nextClient)
      /\ j.phase = "list seen" /\ j.wire = tab[t].wire
  BY DEF Inv, ListSent, JobsOK, JobOK, JobShape, Has, Fields
<1> HIDE DEF j
<1>2. QED
  BY <1>1, HolderType, JobStep DEF ListSent, ghosts, Locked

LEMMA ListSeenInv ==
  ASSUME Inv, NEW t \in Tab, ListSeen(t)
  PROVE  Inv'
<1> DEFINE j == [tab[t] EXCEPT !.phase = "drop", !.settled = DOMAIN inbox \ Unresolved]
<1>1. tab' = [tab EXCEPT ![t] = j] /\ JobOK(j, nextClient)
      /\ j.phase = "drop" /\ j.wire = tab[t].wire
  BY DEF Inv, ListSeen, JobsOK, JobOK, JobShape, Has, Fields
<1> HIDE DEF j
<1>2. QED
  BY <1>1, HolderType, JobStep DEF ListSeen, ghosts, Locked

LEMMA EndPruneInv ==
  ASSUME Inv, NEW t \in Tab, EndPrune(t)
  PROVE  Inv'
<1> DEFINE j == Resting(tab[t].client)
<1>1. /\ tab' = [tab EXCEPT ![t] = j] /\ JobOK(j, nextClient)
      /\ j.phase = "idle" /\ DOMAIN j.wire = {}
  BY RestIs DEF Inv, EndPrune
<1> HIDE DEF j
<1>2. QED
  BY <1>1, HolderType, JobStep DEF EndPrune, ghosts, Locked

LEMMA DropSeenInv ==
  ASSUME Inv, NEW t \in Tab, DropSeen(t)
  PROVE  Inv'
<1>1. PICK e \in tab[t].settled \cap DOMAIN inbox :
        /\ inbox' = Without(inbox, {e})
        /\ Lose("waived", {e} \cap Unresolved)
        /\ tab' = [tab EXCEPT ![t].settled = @ \ {e}]
  BY DEF DropSeen
<1> DEFINE j == [tab[t] EXCEPT !.settled = @ \ {e}]
<1>2. tab' = [tab EXCEPT ![t] = j] /\ JobOK(j, nextClient)
      /\ j.phase = "drop" /\ j.wire = tab[t].wire
  BY <1>1 DEF Inv, DropSeen, At, JobsOK, JobOK, JobShape, Has, Fields
<1>3. /\ Has(lost', {"discarded", "swept", "unsent", "torn", "pruned", "released", "waived"})
      /\ lost'.discarded = lost.discarded /\ lost'.swept = lost.swept
      /\ lost'.unsent = lost.unsent /\ lost'.torn = lost.torn /\ lost'.pruned = lost.pruned
      /\ lost'.released = lost.released
  BY <1>1 DEF Lose, Inv, TablesOK, Has
<1>4. TablesOK'
  <2>1. \A f \in DOMAIN inbox' : f \in DOMAIN inbox /\ inbox'[f] = inbox[f]
    BY <1>1 DEF Without
  <2>2. QED
    BY <1>3, <2>1 DEF DropSeen, Inv, TablesOK, RowOK, FoldsOK, FoldOK, Bodied, server, editing
<1> HIDE DEF j
<1>5. QED
  BY <1>2, <1>3, <1>4, CalmStep DEF DropSeen, server, editing, Locked

LEMMA DropSentInv ==
  ASSUME Inv, NEW t \in Tab, DropSent(t)
  PROVE  Inv'
<1>0. TablesOK /\ JobsOK /\ LockHeld /\ Drawn
  BY DEF Inv
<1>1. PICK e \in tab[t].doomed \cap DOMAIN outbox :
        /\ outbox' = Without(outbox, {e})
        /\ Lose(IF outbox[e].synced THEN "released" ELSE "pruned", outbox[e].edits)
        /\ tab' = [tab EXCEPT ![t].doomed = @ \ {e}]
  BY DEF DropSent
<1> DEFINE j == [tab[t] EXCEPT !.doomed = @ \ {e}]
<1>2. tab' = [tab EXCEPT ![t] = j] /\ JobOK(j, nextClient)
      /\ j.phase = "drop" /\ j.wire = tab[t].wire
  BY <1>1 DEF Inv, DropSent, At, JobsOK, JobOK, JobShape, Has, Fields
<1> HIDE DEF j
<1>3. UNCHANGED <<config, dead, parked, inbox, meta, log, backend, editing, holder>>
  BY DEF DropSent, server
<1>4. /\ tab'[t] = j /\ \A u \in Tab : u # t => tab'[u] = tab[u]
      /\ JobsOK' /\ LockHeld'
  <2>1. nextClient' \in Nat /\ JobOK(j, nextClient') /\ nextClient <= nextClient'
        /\ \A u \in Tab : u # t => (holder = u => holder' = u)
    BY <1>0, <1>2, <1>3 DEF TablesOK, editing
  <2>2. j.phase \notin Locked
    BY <1>2 DEF Locked
  <2>3. QED
    BY <1>2, <1>3, <2>1, <2>2, TabStep
<1>5. /\ DOMAIN outbox' = DOMAIN outbox \ {e}
      /\ \A f \in DOMAIN outbox' : outbox'[f] = outbox[f]
  BY <1>1 DEF Without
<1>6. /\ Has(lost', {"discarded", "swept", "unsent", "torn", "pruned", "released", "waived"})
      /\ lost'.discarded = lost.discarded /\ lost'.swept = lost.swept
      /\ lost'.unsent = lost.unsent /\ lost'.torn = lost.torn
      /\ \/ /\ e \in Synced
            /\ lost'.released = lost.released \cup outbox[e].edits /\ lost'.pruned = lost.pruned
         \/ lost'.released = lost.released /\ lost'.pruned = lost.pruned \cup outbox[e].edits
  <2>1. CASE outbox[e].synced
    <3>1. lost' = [lost EXCEPT !["released"] = @ \cup outbox[e].edits]
      BY <1>1, <2>1 DEF Lose
    <3>2. e \in Synced
      BY <1>1, <2>1 DEF Synced, Pending
    <3>3. QED
      BY <1>0, <3>1, <3>2 DEF TablesOK, Has
  <2>2. CASE ~outbox[e].synced
    <3>1. lost' = [lost EXCEPT !["pruned"] = @ \cup outbox[e].edits]
      BY <1>1, <2>2 DEF Lose
    <3>2. QED
      BY <1>0, <3>1 DEF TablesOK, Has
  <2>3. QED
    BY <2>1, <2>2
<1>7. TablesOK'
  BY <1>0, <1>3, <1>5, <1>6 DEF editing, TablesOK, RowOK, FoldsOK, FoldOK, Bodied
<1>8. tab'[t].phase = "drop" /\ tab'[t].wire = tab[t].wire
  BY <1>2, <1>4
<1>9. Drawn' /\ ClaimedOnce'
  BY <1>0, <1>3, <1>4, <1>5, <1>8, ClearedDrawn DEF Inv, editing
<1>10. ASSUME Guarded PROVE Ledger'
  <2>1. Ledger
    BY <1>10 DEF Inv
  <2>2. ASSUME backend = 1 PROVE lost'.released \subseteq LogEdits \cup Apart
    <3>1. lost.released \subseteq LogEdits \cup Apart
      BY <2>1, <2>2 DEF Ledger, ReleasedHeld
    <3>2. ASSUME e \in Synced PROVE outbox[e].edits \subseteq LogEdits \cup Apart
      <4>1. e \in LogEids /\ e \in DOMAIN outbox
        BY <2>1, <2>2, <3>2 DEF Ledger, SyncedHeld, Synced
      <4>2. QED
        BY <1>0, <2>1, <4>1, StoredEdits DEF Ledger
    <3>3. QED
      BY <1>6, <3>1, <3>2
  <2>3. \A f \in DOMAIN outbox \ DOMAIN outbox' :
           outbox[f].edits \subseteq lost'.discarded \cup lost'.swept \cup lost'.pruned \cup lost'.released
    BY <1>5, <1>6
  <2>4. lost.released \subseteq lost'.released /\ lost.pruned \subseteq lost'.pruned
    BY <1>6
  <2>5. QED
    BY <1>3, <1>4, <1>5, <1>6, <1>8, <1>10, <2>2, <2>3, <2>4, ClearedLedger DEF editing
<1>11. QED
  BY <1>4, <1>7, <1>9, <1>10 DEF Inv

LEMMA WipeTablesInv ==
  ASSUME Inv, NEW t \in Tab, WipeTables(t)
  PROVE  Inv'
<1> DEFINE j == [tab[t] EXCEPT !.phase = "forget"]
           late == EditsOf(Bodies(outbox, Pending)) \ tab[t].doomed
           got == EditsOf(Bodies(outbox, Synced))
<1>0. TablesOK /\ JobsOK /\ LockHeld /\ Drawn
  BY DEF Inv
<1>1. tab' = [tab EXCEPT ![t] = j] /\ JobOK(j, nextClient)
      /\ j.phase = "forget" /\ j.wire = tab[t].wire
  BY <1>0, GoIs DEF WipeTables
<1> HIDE DEF j
<1>2. UNCHANGED <<config, meta, log, backend, editing, holder>>
  BY DEF WipeTables, server
<1>3. /\ tab'[t] = j /\ \A u \in Tab : u # t => tab'[u] = tab[u]
      /\ JobsOK' /\ LockHeld'
  <2>1. nextClient' \in Nat /\ JobOK(j, nextClient') /\ nextClient <= nextClient'
        /\ \A u \in Tab : u # t => (holder = u => holder' = u)
    BY <1>0, <1>1, <1>2 DEF TablesOK, editing
  <2>2. config.lock => holder' = t
    BY <1>0, <1>2 DEF WipeTables, At, LockHeld, Locked
  <2>3. QED
    BY <1>1, <1>2, <2>1, <2>2, TabStep
<1>4. DOMAIN outbox' = {} /\ DOMAIN dead' = {} /\ DOMAIN parked' = {} /\ DOMAIN inbox' = {}
  BY EmptyIs DEF WipeTables
<1>5. /\ lost' = [lost EXCEPT !.discarded = @ \cup tab[t].doomed \cup EditsOf(dead),
                              !.swept = @ \cup late, !.released = @ \cup got]
      /\ Has(lost', {"discarded", "swept", "unsent", "torn", "pruned", "released", "waived"})
      /\ lost'.discarded = lost.discarded \cup tab[t].doomed \cup EditsOf(dead)
      /\ lost'.swept = lost.swept \cup late
      /\ lost'.unsent = lost.unsent /\ lost'.torn = lost.torn /\ lost'.pruned = lost.pruned
      /\ lost'.released = lost.released \cup got
  BY <1>0 DEF WipeTables, TablesOK, Has
<1>6. /\ \A e \in Synced : outbox[e].edits \subseteq got
      /\ \A e \in Pending : outbox[e].edits \subseteq late \cup tab[t].doomed
      /\ \A e \in DOMAIN dead : dead[e].edits \subseteq EditsOf(dead)
  <2>1. \A e \in Pending : outbox[e].edits \subseteq EditsOf(Bodies(outbox, Pending))
    BY BodiesAre, EditsIn
  <2>2. \A e \in Synced : outbox[e].edits \subseteq got
    BY BodiesAre, EditsIn
  <2>3. QED
    BY <2>1, <2>2, EditsIn
<1>7. \A n \in got : \E e \in Synced : n \in outbox[e].edits
  BY BodiesAre, EditsFrom
<1> HIDE DEF got, late
<1>8. TablesOK'
  BY <1>0, <1>2, <1>4, <1>5 DEF editing, TablesOK, RowOK, FoldsOK, FoldOK, Bodied
<1>9. tab'[t].phase = "forget" /\ tab'[t].wire = tab[t].wire
  BY <1>1, <1>3
<1>10. Drawn' /\ ClaimedOnce'
  BY <1>0, <1>2, <1>3, <1>4, <1>9, ClearedDrawn DEF Inv, editing
<1>11. ASSUME Guarded PROVE Ledger'
  <2>1. Ledger
    BY <1>11 DEF Inv
  <2>2. ASSUME backend = 1 PROVE lost'.released \subseteq LogEdits \cup Apart
    <3>1. \A e \in Synced : e \in LogEids /\ e \in DOMAIN outbox
      BY <2>1, <2>2 DEF Ledger, SyncedHeld, Synced
    <3>2. \A e \in Synced : outbox[e].edits \subseteq LogEdits \cup Apart
      BY <1>0, <2>1, <3>1, StoredEdits DEF Ledger
    <3>3. lost.released \subseteq LogEdits \cup Apart
      BY <2>1, <2>2 DEF Ledger, ReleasedHeld
    <3>4. QED
      BY <1>5, <1>7, <3>2, <3>3
  <2>3. \A e \in DOMAIN outbox \ DOMAIN outbox' :
           outbox[e].edits \subseteq lost'.discarded \cup lost'.swept \cup lost'.pruned \cup lost'.released
    BY <1>5, <1>6 DEF Synced
  <2>4. \A e \in DOMAIN dead \ DOMAIN dead' : dead[e].edits \subseteq lost'.discarded
    BY <1>5, <1>6
  <2>5. QED
    BY <1>2, <1>3, <1>4, <1>5, <1>9, <1>11, <2>2, <2>3, <2>4, ClearedLedger DEF editing
<1>12. QED
  BY <1>3, <1>8, <1>10, <1>11 DEF Inv

-----------------------------------------------------------------------------
(* The actions: the client and the server change.                          *)

(* The tab in a reset has the lock, and without one there is one server.   *)
LEMMA Alone ==
  ASSUME LockHeld, OneSyncs, NEW t \in Tab, tab[t].phase \in Locked
  PROVE  backend = 1 \/ (config.lock /\ \A u \in Tab : u # t => tab[u].phase \notin Locked)
BY DEF LockHeld, OneSyncs

LEMMA ForgetInv ==
  ASSUME Inv, NEW t \in Tab, Forget(t)
  PROVE  Inv'
<1> DEFINE j == Resting(nextClient)
<1>0. TablesOK /\ JobsOK /\ LockHeld /\ Drawn
  BY DEF Inv
<1>1. /\ tab' = [tab EXCEPT ![t] = j] /\ JobOK(j, nextClient')
      /\ j.phase = "idle" /\ DOMAIN j.wire = {}
      /\ nextClient' = nextClient + 1 /\ nextClient \in Nat
  <2>1. nextClient + 1 \in Nat /\ nextClient \in 0..(nextClient + 1) /\ nextClient \in Nat
    BY <1>0 DEF TablesOK
  <2>2. JobOK(j, nextClient + 1) /\ j.phase = "idle" /\ DOMAIN j.wire = {}
    BY <2>1, RestingIs
  <2> HIDE DEF j
  <2>3. tab' = [tab EXCEPT ![t] = j] /\ nextClient' = nextClient + 1
    BY DEF Forget, j
  <2>4. QED
    BY <2>1, <2>2, <2>3
<1> HIDE DEF j
<1>2. UNCHANGED <<config, outbox, dead, parked, inbox, log, backend, edits, fold, nextEid, lost>>
  BY DEF Forget, server, ghosts
<1>3. holder' \in Tab \cup {None} /\ \A u \in Tab : u # t => (holder = u => holder' = u)
  BY HolderType, ReleasesLock DEF Forget, Release
<1>4. /\ tab'[t] = j /\ \A u \in Tab : u # t => tab'[u] = tab[u]
      /\ JobsOK' /\ LockHeld'
  <2>1. nextClient' \in Nat /\ nextClient <= nextClient' /\ j.phase \notin Locked
    BY <1>1 DEF Locked
  <2>2. QED
    BY <1>1, <1>2, <1>3, <2>1, TabStep
<1>5. /\ Has(meta', {"client", "cursor", "seen", "lastSync"})
      /\ meta'.client = nextClient /\ meta'.cursor = 0
      /\ meta'.seen = None /\ meta'.lastSync = meta.lastSync
  BY <1>0 DEF Forget, TablesOK, Has
<1>6. TablesOK'
  <2>1. 0..nextClient \subseteq 0..nextClient' /\ nextClient \in 0..nextClient'
        /\ nextClient' \in Nat /\ nextClient' >= 1 /\ 0 \in 0..MaxEvents /\ None \in 0..backend
    BY <1>0, <1>1, TabsAssumption DEF TablesOK, None
  <2>2. /\ (\A e \in DOMAIN outbox : RowOK(outbox[e]))' /\ Bodied(dead)' /\ FoldsOK'
    BY <1>0, <1>2, <2>1 DEF TablesOK, RowOK, FoldsOK, FoldOK, Bodied
  <2>3. QED
    BY <1>0, <1>2, <1>3, <1>5, <2>1, <2>2 DEF TablesOK
<1>7. tab'[t].phase = "idle" /\ DOMAIN tab'[t].wire = {}
  BY <1>1, <1>4
<1>8. Drawn' /\ ClaimedOnce'
  BY <1>0, <1>2, <1>4, <1>7, ClearedDrawn DEF Inv
<1>9. tab[t].phase = "forget" /\ tab[t].phase \in Locked
  BY DEF Forget, At, Locked
<1>10. ASSUME Guarded PROVE Ledger'
  <2>1. Ledger
    BY <1>10 DEF Inv
  <2>2. Known' = Known /\ LogEids' = LogEids /\ LogEdits' = LogEdits
        /\ Synced' = Synced /\ Away' = Away
    BY <1>2 DEF Known, LogEids, LogEdits, Synced, Pending, Away, Apart
  <2>3. backend = 1 \/ (config.lock /\ \A u \in Tab : u # t => tab[u].phase \notin Locked)
    BY <1>0, <1>9, <2>1, Alone DEF Ledger
  <2>4. CopiesAgree' /\ FoldsAgree'
    <3>1. \A u \in Tab : \A e \in DOMAIN tab'[u].wire : tab'[u].wire[e].edits \in Sent(e)
      BY <1>4, <1>7, CopiesAre
    <3>2. \A i \in DOMAIN log' : log'[i].edits \in Sent(log'[i].eid)
      BY <1>2, CopiesAre
    <3>3. \A e \in DOMAIN dead' : dead'[e].edits \in Sent(e)
      BY <1>2, CopiesAre
    <3>4. QED
      BY <1>0, <1>2, <2>1, <2>2, <3>1, <3>2, <3>3, CopiesAgreeStill DEF Ledger, Apart
  <2>5. AnswersStored'
    <3>1. ASSUME NEW u \in Tab, tab'[u].phase \in {"answered", "reanswered"},
                 NEW e \in Confirmed(u)'
          PROVE  e \in LogEids \/ (backend > 1 /\ tab'[u].phase = "reanswered")
      <4>1. u # t /\ tab'[u] = tab[u] /\ e \in Confirmed(u)
        BY <1>4, <1>7, <3>1 DEF Confirmed
      <4>2. \/ e \in LogEids
            \/ backend > 1 /\ (tab[u].phase = "reanswered" \/ meta.seen # backend)
        BY <2>1, <3>1, <4>1 DEF Ledger, AnswersStored
      <4>3. backend > 1 => tab[u].phase # "answered"
        <5>1. backend \in Nat
          BY <1>0 DEF TablesOK
        <5>2. tab[u].phase = "answered" => tab[u].phase \in Locked
          BY DEF Locked
        <5>3. QED
          BY <2>3, <4>1, <5>1, <5>2
      <4>4. QED
        BY <3>1, <4>1, <4>2, <4>3
    <3>2. QED
      BY <1>2, <2>2, <3>1 DEF AnswersStored
  <2>6. SyncedHeld'
    <3>1. CASE backend = 1
      <4>1. \A e \in Synced : e \in LogEids
        BY <2>1, <3>1 DEF Ledger, SyncedHeld
      <4>2. QED
        BY <2>2, <4>1 DEF SyncedHeld
    <3>2. CASE config.lock
      <4>1. Synced = {}
        BY <1>9, <2>1, <3>2 DEF Ledger, NewcomerReleased
      <4>2. QED
        BY <2>2, <4>1 DEF SyncedHeld
    <3>3. QED
      BY <2>3, <3>1, <3>2
  <2>7. NewcomerReleased'
    <3>1. config.lock => Synced = {}
      BY <1>9, <2>1 DEF Ledger, NewcomerReleased
    <3>2. QED
      BY <1>2, <2>2, <3>1 DEF NewcomerReleased
  <2>8. Accounted' /\ ReleasedHeld' /\ OneSyncs'
    BY <1>2, <2>1, <2>2, FoldsStill DEF Ledger, Accounted, ReleasedHeld, OneSyncs, EditsOf, Apart
  <2>9. QED
    BY <2>4, <2>5, <2>6, <2>7, <2>8 DEF Ledger
<1>11. QED
  BY <1>4, <1>6, <1>8, <1>10 DEF Inv

LEMMA PullInv ==
  ASSUME Inv, NEW t \in Tab, Pull(t)
  PROVE  Inv'
<1> DEFINE new  == meta.seen \notin {None, backend}
           from == IF new THEN 0 ELSE CursorOf(meta, inbox)
           j == [tab[t] EXCEPT !.phase = IF Page(from) = <<>> THEN "pulled" ELSE "page",
                               !.page = Page(from), !.cursor = from,
                               !.requeued = new /\ Synced # {}]
<1>0. TablesOK /\ JobsOK /\ LockHeld /\ Drawn
  BY DEF Inv
<1>1. from \in 0..MaxEvents
  BY <1>0, CursorType, TabsAssumption
<1>2. Page(from) \in Seq(Stored) /\ from + Len(Page(from)) <= MaxEvents
  <2> HIDE DEF from
  <2>1. log \in Seq(Stored) /\ Len(log) \in Nat /\ Len(log) <= MaxEvents
        /\ from \in Nat /\ from <= MaxEvents /\ MaxEvents \in Nat
    BY <1>0, <1>1, TabsAssumption DEF TablesOK
  <2>2. \A i \in (from + 1)..Len(log) : log[i] \in Stored
    <3>1. \A i \in 1..Len(log) : log[i] \in Stored
      BY <2>1, ElementOfSeq
    <3>2. (from + 1)..Len(log) \subseteq 1..Len(log)
      BY <2>1
    <3>3. QED
      BY <3>1, <3>2
  <2>3. /\ SubSeq(log, from + 1, Len(log)) \in Seq(Stored)
        /\ Len(SubSeq(log, from + 1, Len(log))) =
             IF from + 1 <= Len(log) THEN Len(log) - (from + 1) + 1 ELSE 0
    BY <2>1, <2>2, SubSeqProperties
  <2>4. QED
    BY <2>1, <2>3 DEF Page
<1>3. /\ tab' = [tab EXCEPT ![t] = j] /\ JobOK(j, nextClient)
      /\ j.phase \in {"pulled", "page"} /\ j.wire = tab[t].wire
  <2>1. JobOK(tab[t], nextClient)
    BY <1>0 DEF JobsOK
  <2>2. tab' = [tab EXCEPT ![t] = j]
    BY DEF Pull
  <2> HIDE DEF new, from
  <2>3. QED
    BY <1>1, <1>2, <2>1, <2>2 DEF JobOK, JobShape, Has, Fields
<1> HIDE DEF j
<1>4. UNCHANGED <<config, dead, parked, log, backend, editing, holder, lost>>
  BY DEF Pull, server, ghosts
<1>5. tab[t].phase = "pull" /\ tab[t].phase \in Locked /\ (config.lock => holder = t)
  BY <1>0 DEF Pull, At, Locked, LockHeld
<1>6. /\ tab'[t] = j /\ \A u \in Tab : u # t => tab'[u] = tab[u]
      /\ JobsOK' /\ LockHeld'
  <2>1. nextClient' \in Nat /\ JobOK(j, nextClient') /\ nextClient <= nextClient'
        /\ \A u \in Tab : u # t => (holder = u => holder' = u)
    BY <1>0, <1>3, <1>4 DEF TablesOK, editing
  <2>2. QED
    BY <1>3, <1>4, <1>5, <2>1, TabStep
<1>7. /\ Has(meta', {"client", "cursor", "seen", "lastSync"})
      /\ meta'.client = meta.client /\ meta'.cursor \in {meta.cursor, 0}
      /\ meta'.seen = backend /\ meta'.lastSync = meta.lastSync
  BY <1>0 DEF Pull, TablesOK, Has
<1>8. /\ DOMAIN outbox' = DOMAIN outbox
      /\ \A e \in DOMAIN outbox : RowOK(outbox'[e]) /\ outbox'[e].edits = outbox[e].edits
      /\ new => \A e \in DOMAIN outbox : ~outbox'[e].synced
      /\ ~new => outbox' = outbox
  <2>1. outbox' = IF new THEN Requeued ELSE outbox
    BY DEF Pull
  <2>2. DOMAIN Requeued = DOMAIN outbox
    BY DEF Requeued
  <2>3. ASSUME NEW e \in DOMAIN outbox
        PROVE  RowOK(Requeued[e]) /\ Requeued[e].edits = outbox[e].edits /\ ~Requeued[e].synced
    <3> DEFINE r == [outbox[e] EXCEPT !.synced = FALSE, !.waits = @ /\ e \in Pending]
    <3>1. RowOK(outbox[e])
      BY <1>0 DEF TablesOK
    <3>2. /\ DOMAIN r = {"edits", "by", "synced", "waits", "age"}
          /\ r.edits = outbox[e].edits /\ r.by = outbox[e].by /\ r.age = outbox[e].age
          /\ r.synced = FALSE
      BY <3>1 DEF RowOK, Has
    <3>3. r = [x \in DOMAIN r |-> r[x]] /\ Requeued[e] = r
      BY DEF Requeued
    <3> HIDE DEF r
    <3>4. QED
      BY <3>1, <3>2, <3>3 DEF RowOK, Has
  <2>4. \A e \in DOMAIN outbox : RowOK(outbox[e])
    BY <1>0 DEF TablesOK
  <2> HIDE DEF new, from
  <2>5. QED
    BY <2>1, <2>2, <2>3, <2>4
<1>9. new => backend > 1
  BY <1>0 DEF TablesOK, None
<1>10. inbox' = inbox \/ DOMAIN inbox' = {}
  BY EmptyIs DEF Pull
<1>11. TablesOK'
  <2>1. (\A e \in DOMAIN outbox : RowOK(outbox[e]))'
    BY <1>4, <1>8 DEF RowOK, editing
  <2>2. (\A e \in DOMAIN inbox : Has(inbox[e], {"seq", "done"}) /\ inbox[e].seq \in 1..MaxEvents)'
    BY <1>0, <1>10 DEF TablesOK
  <2>3. meta'.cursor \in 0..MaxEvents /\ backend \in 0..backend
    BY <1>0, <1>7, TabsAssumption DEF TablesOK
  <2>4. Bodied(dead)'
    BY <1>0, <1>4 DEF TablesOK, Bodied, editing
  <2>6. FoldsOK'
    BY <1>0, <1>4 DEF TablesOK, FoldsOK, FoldOK, editing
  <2>5. QED
    BY <1>0, <1>4, <1>7, <2>1, <2>2, <2>3, <2>4, <2>6 DEF TablesOK, editing
<1>12. tab'[t].phase \in {"pulled", "page"} /\ tab'[t].wire = tab[t].wire
  BY <1>3, <1>6
<1> HIDE DEF new, from
<1>13. Drawn' /\ ClaimedOnce'
  BY <1>0, <1>4, <1>6, <1>8, <1>12, ClearedDrawn DEF Inv, editing
<1>14. ASSUME Guarded PROVE Ledger'
  <2>1. Ledger
    BY <1>14 DEF Inv
  <2>2. Known' = Known /\ LogEids' = LogEids /\ LogEdits' = LogEdits /\ Away' = Away
    BY <1>4 DEF Known, LogEids, LogEdits, Away, Apart, editing
  <2>3. backend = 1 \/ (config.lock /\ \A u \in Tab : u # t => tab[u].phase \notin Locked)
    BY <1>0, <1>5, <2>1, Alone DEF Ledger
  <2>4. CopiesAgree' /\ FoldsAgree'
    <3>1. \A u \in Tab : \A e \in DOMAIN tab'[u].wire : tab'[u].wire[e].edits \in Sent(e)
      BY <1>6, <1>12, CopiesAre
    <3>2. \A i \in DOMAIN log' : log'[i].edits \in Sent(log'[i].eid)
      BY <1>4, CopiesAre
    <3>3. \A e \in DOMAIN dead' : dead'[e].edits \in Sent(e)
      BY <1>4, CopiesAre
    <3>4. QED
      BY <1>0, <1>4, <1>8, <2>1, <2>2, <3>1, <3>2, <3>3, CopiesAgreeStill DEF Ledger, Apart, editing
  <2>5. AnswersStored'
    <3>1. ASSUME NEW u \in Tab, tab'[u].phase \in {"answered", "reanswered"},
                 NEW e \in Confirmed(u)'
          PROVE  e \in LogEids \/ (backend > 1 /\ tab'[u].phase = "reanswered")
      <4>1. u # t /\ tab'[u] = tab[u] /\ e \in Confirmed(u)
        BY <1>6, <1>12, <3>1 DEF Confirmed
      <4>2. \/ e \in LogEids
            \/ backend > 1 /\ (tab[u].phase = "reanswered" \/ meta.seen # backend)
        BY <2>1, <3>1, <4>1 DEF Ledger, AnswersStored
      <4>3. backend > 1 => tab[u].phase # "answered"
        <5>1. backend \in Nat
          BY <1>0 DEF TablesOK
        <5>2. tab[u].phase = "answered" => tab[u].phase \in Locked
          BY DEF Locked
        <5>3. QED
          BY <2>3, <4>1, <5>1, <5>2
      <4>4. QED
        BY <3>1, <4>1, <4>2, <4>3
    <3>2. QED
      BY <1>4, <2>2, <3>1 DEF AnswersStored
  <2>6. \A e \in Synced' : ~new /\ e \in Synced /\ outbox'[e].edits = outbox[e].edits
    BY <1>8 DEF Synced, Pending
  <2>7. SyncedHeld'
    <3>1. ASSUME NEW e \in Synced'
          PROVE  \/ e \in LogEids
                 \/ backend > 1 /\ outbox'[e].edits \subseteq Away
      <4>1. e \in Synced /\ outbox'[e].edits = outbox[e].edits /\ meta.seen \in {None, backend}
        BY <2>6, <3>1 DEF new
      <4>2. \/ e \in LogEids
            \/ backend > 1 /\ meta.seen \notin {None, backend}
            \/ backend > 1 /\ outbox[e].edits \subseteq Away
        BY <2>1, <4>1 DEF Ledger, SyncedHeld
      <4>3. QED
        BY <4>1, <4>2
    <3>2. QED
      BY <1>4, <2>2, <3>1 DEF SyncedHeld
  <2>8. NewcomerReleased'
    <3>1. meta'.seen # None
      BY <1>0, <1>7 DEF TablesOK, None
    <3>2. ASSUME config.lock, NEW u \in Tab, tab'[u].phase = "forget" PROVE FALSE
      <4>1. u # t /\ tab[u].phase = "forget"
        BY <1>6, <1>12, <3>2
      <4>2. holder = u
        BY <1>0, <3>2, <4>1 DEF LockHeld, Locked
      <4>3. QED
        BY <1>5, <3>2, <4>1, <4>2
    <3>3. QED
      BY <1>4, <3>1, <3>2 DEF NewcomerReleased
  <2>9. Accounted'
    <3>1. EditsOf(outbox)' = EditsOf(outbox) /\ EditsOf(dead)' = EditsOf(dead)
      BY <1>4, <1>8 DEF EditsOf
    <3>2. QED
      BY <1>4, <2>1, <2>2, <3>1, FoldsStill DEF Ledger, Accounted, editing
  <2>10. ReleasedHeld' /\ OneSyncs'
    BY <1>4, <2>1, <2>2 DEF Ledger, ReleasedHeld, OneSyncs, Apart
  <2>11. QED
    BY <2>4, <2>5, <2>7, <2>8, <2>9, <2>10 DEF Ledger
<1>15. QED
  BY <1>6, <1>11, <1>13, <1>14 DEF Inv

LEMMA SwapInv ==
  ASSUME Inv, Swap
  PROVE  Inv'
<1>0. TablesOK /\ JobsOK /\ LockHeld /\ Drawn
  BY DEF Inv
<1>1. UNCHANGED <<config, outbox, dead, parked, inbox, meta, edits, fold, nextEid, nextClient,
                  tab, holder, lost>>
  BY DEF Swap, tables, editing, ghosts
<1>2. log' = <<>> /\ backend' = backend + 1 /\ backend <= config.swaps /\ backend \in Nat
      /\ backend >= 1 /\ meta.seen \in 0..backend
  BY <1>0 DEF Swap, TablesOK
<1>3. DOMAIN log' = {} /\ log' \in Seq(Stored) /\ Len(log') = 0
  BY <1>2
<1>4. TablesOK'
  <2>1. 0 <= MaxEvents /\ backend' \in Nat /\ backend' >= 1 /\ meta.seen \in 0..backend'
    BY <1>2, TabsAssumption
  <2>2. (\A e \in DOMAIN outbox : RowOK(outbox[e]))' /\ Bodied(dead)' /\ FoldsOK'
    BY <1>0, <1>1 DEF TablesOK, RowOK, FoldsOK, FoldOK, Bodied
  <2>3. QED
    BY <1>0, <1>1, <1>3, <2>1, <2>2 DEF TablesOK
<1>5. JobsOK' /\ LockHeld'
  BY <1>0, <1>1 DEF JobsOK, LockHeld
<1>6. Known' = Known /\ LogEids' = {} /\ Synced' = Synced /\ Away' = Away
  BY <1>1, <1>3 DEF Known, LogEids, Synced, Pending, Away, Apart
<1>7. Drawn' /\ ClaimedOnce'
  BY <1>0, <1>1, <1>6, FoldsStill DEF Inv, Drawn, ClaimedOnce
<1>8. ASSUME Guarded PROVE Ledger'
  <2>1. Ledger
    BY <1>8 DEF Inv
  <2>2. config.lock
    <3>1. config \in Configs /\ config.swaps \in Nat
      BY <1>0, TabsAssumption DEF TablesOK, ConfigType
    <3>2. config.swaps # 0
      BY <1>2, <3>1
    <3>3. QED
      BY <1>8, <3>1, <3>2 DEF Guarded
  <2>3. backend' > 1 /\ meta'.seen # backend'
    BY <1>1, <1>2
  <2>4. CopiesAgree' /\ FoldsAgree'
    <3>1. \A u \in Tab : \A e \in DOMAIN tab'[u].wire : tab'[u].wire[e].edits \in Sent(e)
      BY <1>1, CopiesAre
    <3>2. \A e \in DOMAIN dead' : dead'[e].edits \in Sent(e)
      BY <1>1, CopiesAre
    <3>3. QED
      BY <1>0, <1>1, <1>3, <1>6, <2>1, <3>1, <3>2, CopiesAgreeStill DEF Ledger, Apart
  <2>5. AnswersStored'
    BY <2>3 DEF AnswersStored
  <2>6. NewcomerReleased'
    BY <1>1, <1>6, <2>1 DEF Ledger, NewcomerReleased
  <2>7. SyncedHeld'
    <3>1. CASE meta.seen = None
      <4>1. \A e \in Synced : outbox[e].edits \subseteq Away
        BY <2>1, <2>2, <3>1 DEF Ledger, NewcomerReleased
      <4>2. QED
        BY <1>1, <1>6, <2>3, <4>1 DEF SyncedHeld
    <3>2. CASE meta.seen # None
      BY <1>1, <2>3, <3>2 DEF SyncedHeld
    <3>3. QED
      BY <3>1, <3>2
  <2>8. Accounted'
    BY <1>1, <1>6, <2>1, FoldsStill DEF Ledger, Accounted, EditsOf
  <2>9. ReleasedHeld' /\ OneSyncs'
    BY <1>1, <2>2, <2>3 DEF ReleasedHeld, OneSyncs
  <2>10. QED
    BY <2>4, <2>5, <2>6, <2>7, <2>8, <2>9 DEF Ledger
<1>9. QED
  BY <1>4, <1>5, <1>7, <1>8 DEF Inv

-----------------------------------------------------------------------------
(* The actions: time, and new events.                                      *)

(* What keeps an edit that is neither confirmed nor a dead letter.         *)
Kept == EditsOf(outbox) \cup InFolds \cup Apart

(* The ledger through steps that confirm nothing and keep what is not.     *)
LEMMA GrownLedger ==
  ASSUME Ledger, UNCHANGED <<config, dead, backend>>, meta'.seen = meta.seen,
         \A u \in Tab : tab'[u].phase \in {"answered", "reanswered", "forget"} => tab'[u] = tab[u],
         lost'.discarded = lost.discarded, lost'.swept = lost.swept, lost'.pruned = lost.pruned,
         Apart \subseteq Apart', lost'.released = lost.released,
         LogEids \subseteq LogEids', LogEdits \subseteq LogEdits',
         \A e \in Synced' : e \in Synced /\ outbox'[e].edits = outbox[e].edits,
         EditsOf(outbox) \subseteq Kept', InFolds \subseteq Kept',
         \A n \in 1..edits' : n \in 1..edits \/ n \in Kept',
         CopiesAgree', FoldsAgree'
  PROVE  Ledger'
<1>1. Away \subseteq Away'
  BY DEF Away
<1>2. AnswersStored'
  BY AnswersStill DEF Ledger
<1>3. SyncedHeld'
  BY <1>1, HeldStill DEF Ledger
<1>4. NewcomerReleased'
  BY <1>1, NewcomerStill DEF Ledger
<1>5. Accounted'
  <2>1. EditsOf(dead)' = EditsOf(dead)
    BY DEF EditsOf
  <2>2. ASSUME NEW n \in 1..edits'
        PROVE  n \in Kept' \cup EditsOf(dead) \cup lost.discarded \cup lost.swept
                            \cup lost.pruned \cup Away'
    BY <1>1 DEF Ledger, Accounted
  <2>3. QED
    BY <2>1, <2>2 DEF Accounted, Kept, Away
<1>6. ReleasedHeld' /\ OneSyncs'
  BY DEF Ledger, ReleasedHeld, OneSyncs
<1>7. QED
  BY <1>2, <1>3, <1>4, <1>5, <1>6 DEF Ledger

(* Rows that are kept.                                                     *)
LEMMA RowsKept ==
  ASSUME \A e \in DOMAIN outbox : e \in DOMAIN outbox' /\ outbox'[e].edits = outbox[e].edits
  PROVE  EditsOf(outbox) \subseteq Kept'
<1>1. ASSUME NEW e \in DOMAIN outbox PROVE outbox[e].edits \subseteq EditsOf(outbox')
  <2>1. outbox'[e].edits \subseteq EditsOf(outbox')
    BY <1>1, EditsIn
  <2>2. QED
    BY <2>1
<1>2. EditsOf(outbox) \subseteq EditsOf(outbox')
  BY <1>1, EditsFrom
<1>3. EditsOf(outbox)' = EditsOf(outbox')
  BY DEF EditsOf
<1>4. QED
  BY <1>2, <1>3 DEF Kept

LEMMA TickInv ==
  ASSUME Inv, Tick
  PROVE  Inv'
<1>0. TablesOK /\ JobsOK /\ LockHeld /\ Drawn
  BY DEF Inv
<1>1. UNCHANGED <<config, dead, parked, inbox, log, backend, edits, nextEid, nextClient,
                  tab, holder, lost>>
  BY DEF Tick, server, ghosts
<1>2. config.delay \in Nat /\ \A n \in 0..config.delay : Older(n) \in 0..config.delay
  <2>1. config.delay \in 0..MaxDelay /\ MaxDelay \in Nat
    BY <1>0, TabsAssumption DEF TablesOK, ConfigType
  <2>2. QED
    BY <2>1 DEF Older
<1>3. /\ DOMAIN outbox' = DOMAIN outbox
      /\ \A e \in DOMAIN outbox : /\ RowOK(outbox'[e]) /\ outbox'[e].edits = outbox[e].edits
                                  /\ outbox'[e].synced = outbox[e].synced
  <2>1. outbox' = [e \in DOMAIN outbox |->
                     [outbox[e] EXCEPT !.waits = FALSE,
                                       !.age = IF outbox[e].synced THEN 0 ELSE Older(@)]]
    BY DEF Tick
  <2>2. ASSUME NEW e \in DOMAIN outbox
        PROVE  LET r == [outbox[e] EXCEPT !.waits = FALSE,
                                          !.age = IF outbox[e].synced THEN 0 ELSE Older(@)]
               IN  RowOK(r) /\ r.edits = outbox[e].edits /\ r.synced = outbox[e].synced
    <3> DEFINE r == [outbox[e] EXCEPT !.waits = FALSE,
                                      !.age = IF outbox[e].synced THEN 0 ELSE Older(@)]
    <3>1. RowOK(outbox[e])
      BY <1>0 DEF TablesOK
    <3>2. /\ DOMAIN r = {"edits", "by", "synced", "waits", "age"}
          /\ r.edits = outbox[e].edits /\ r.by = outbox[e].by /\ r.synced = outbox[e].synced
          /\ r.age \in {0, Older(outbox[e].age)}
      BY <3>1 DEF RowOK, Has
    <3>3. r = [x \in DOMAIN r |-> r[x]]
      OBVIOUS
    <3> HIDE DEF r
    <3>4. r.age \in 0..config.delay
      BY <1>2, <3>1, <3>2 DEF RowOK
    <3>5. RowOK(r)
      BY <3>1, <3>2, <3>3, <3>4 DEF RowOK, Has
    <3>6. QED
      BY <3>2, <3>5 DEF r
  <2>3. QED
    BY <2>1, <2>2
<1>4. /\ Has(meta', {"client", "cursor", "seen", "lastSync"})
      /\ meta'.client = meta.client /\ meta'.cursor = meta.cursor /\ meta'.seen = meta.seen
      /\ meta'.lastSync = IF meta.lastSync = Never THEN Never ELSE Older(meta.lastSync)
  BY <1>0 DEF Tick, TablesOK, Has
<1>11. /\ fold' = [u \in Tab |-> fold'[u]]
       /\ \A u \in Tab : /\ FoldOK(fold'[u]) /\ fold'[u].into = fold[u].into
                          /\ fold'[u].left = fold[u].left /\ fold'[u].gone = fold[u].gone
  <2>1. fold' = [u \in Tab |-> [fold[u] EXCEPT !.age = IF Folding(u) THEN Older(@) ELSE @]]
    BY DEF Tick
  <2>2. ASSUME NEW u \in Tab
        PROVE  LET r == [fold[u] EXCEPT !.age = IF Folding(u) THEN Older(@) ELSE @]
               IN  FoldOK(r) /\ r.into = fold[u].into /\ r.left = fold[u].left /\ r.gone = fold[u].gone
    <3> DEFINE r == [fold[u] EXCEPT !.age = IF Folding(u) THEN Older(@) ELSE @]
    <3>1. FoldOK(fold[u])
      BY <1>0 DEF TablesOK, FoldsOK
    <3>2. /\ DOMAIN r = {"into", "left", "edits", "by", "age", "gone"}
          /\ r.into = fold[u].into /\ r.left = fold[u].left /\ r.gone = fold[u].gone
          /\ r.edits = fold[u].edits /\ r.by = fold[u].by
          /\ r.age \in {fold[u].age, Older(fold[u].age)}
      BY <3>1 DEF FoldOK, Has
    <3>3. r = [y \in DOMAIN r |-> r[y]]
      OBVIOUS
    <3> HIDE DEF r
    <3>4. r.age \in 0..config.delay
      BY <1>2, <3>1, <3>2 DEF FoldOK
    <3>5. FoldOK(r)
      BY <3>1, <3>2, <3>3, <3>4 DEF FoldOK, Has
    <3>6. QED
      BY <3>2, <3>5 DEF r
  <2>3. QED
    BY <2>1, <2>2
<1>12. /\ \A u \in Tab : Folding(u)' = Folding(u) /\ Claims(u)' = Claims(u)
       /\ InFolds' = InFolds
  BY <1>11 DEF Folding, Claims, InFolds
<1>5. TablesOK'
  <2>1. (\A e \in DOMAIN outbox : RowOK(outbox[e]))' /\ Bodied(dead)'
    BY <1>0, <1>1, <1>3 DEF TablesOK, RowOK, FoldsOK, FoldOK, Bodied
  <2>2. meta'.lastSync \in {Never} \cup (0..config.delay)
    BY <1>0, <1>2, <1>4 DEF TablesOK
  <2>4. FoldsOK'
    BY <1>1, <1>11 DEF FoldsOK, FoldOK
  <2>3. QED
    BY <1>0, <1>1, <1>4, <2>1, <2>2, <2>4 DEF TablesOK
<1>6. JobsOK' /\ LockHeld'
  BY <1>0, <1>1 DEF JobsOK, LockHeld
<1>7. Known' = Known /\ LogEids' = LogEids /\ LogEdits' = LogEdits
  BY <1>1 DEF Known, LogEids, LogEdits
<1>8. Drawn' /\ ClaimedOnce'
  BY <1>0, <1>1, <1>3, <1>7, <1>11, <1>12 DEF Inv, Drawn, ClaimedOnce
<1>9. ASSUME Guarded PROVE Ledger'
  <2>1. Ledger
    BY <1>9 DEF Inv
  <2>2. CopiesAgree' /\ FoldsAgree'
    <3>1. \A e : Sent(e)' = Sent(e)
      BY <1>1 DEF Sent
    <3>2. Apart' = Apart
      BY <1>1 DEF Apart
    <3>3. FoldsAgree'
      BY <1>11, <1>12, <2>1, <3>1, <3>2 DEF Ledger, FoldsAgree
    <3>4. QED
      BY <1>1, <1>3, <1>7, <2>1, <3>1, <3>2, <3>3, AgreeKept DEF Ledger
  <2>3. \A e \in Synced' : e \in Synced /\ outbox'[e].edits = outbox[e].edits
    BY <1>3 DEF Synced, Pending
  <2>4. EditsOf(outbox) \subseteq Kept'
    BY <1>3, RowsKept
  <2>5. InFolds \subseteq Kept'
    BY <1>12 DEF Kept
  <2>6. QED
    BY <1>1, <1>4, <1>7, <2>1, <2>2, <2>3, <2>4, <2>5, GrownLedger DEF Apart
<1>10. QED
  BY <1>5, <1>6, <1>8, <1>9 DEF Inv

LEMMA OtherInv ==
  ASSUME Inv, Other
  PROVE  Inv'
<1> DEFINE x == [eid |-> nextEid, edits |-> {}, by |-> Others]
<1>0. TablesOK /\ JobsOK /\ LockHeld /\ Drawn
  BY DEF Inv
<1>1. UNCHANGED <<config, outbox, dead, parked, inbox, meta, backend, edits, fold, nextClient,
                  tab, holder, lost>>
  BY DEF Other, tables, ghosts
<1>2. nextEid \in Nat /\ nextEid >= 1 /\ nextEid' = nextEid + 1
      /\ log \in Seq(Stored) /\ Len(log) \in Nat
  BY <1>0 DEF Other, TablesOK
<1>3. x \in Stored
  BY <1>2 DEF Stored, Others
<1> HIDE DEF x
<1>4. log' = Append(log, x) /\ Len(log) < MaxEvents
  BY DEF Other, x
<1>5. /\ log' \in Seq(Stored) /\ Len(log') = Len(log) + 1
      /\ \A i \in 1..Len(log) : log'[i] = log[i]
      /\ log'[Len(log) + 1] = x
  BY <1>2, <1>3, <1>4, AppendProperties
<1>6. DOMAIN log = 1..Len(log) /\ DOMAIN log' = 1..(Len(log) + 1)
  BY <1>2, <1>5
<1>7. /\ \A i \in DOMAIN log : i \in DOMAIN log' /\ log'[i] = log[i]
      /\ \A i \in DOMAIN log' : (i \in DOMAIN log /\ log'[i] = log[i]) \/ log'[i] = x
  BY <1>2, <1>5, <1>6
<1>8. x.eid = nextEid /\ x.edits = {}
  BY DEF x
<1>9. Known \subseteq Known' /\ nextEid \in Known' /\ (\A e \in Known' : e \in Known \/ e = nextEid)
      /\ nextEid \notin Known
  BY <1>2 DEF Known
<1>10. LogEids \subseteq LogEids' /\ LogEids' \subseteq LogEids \cup {nextEid}
  BY <1>7, <1>8 DEF LogEids
<1>11. TablesOK'
  <2>1. (\A e \in DOMAIN outbox : RowOK(outbox[e]))' /\ Bodied(dead)' /\ FoldsOK'
    BY <1>0, <1>1 DEF TablesOK, RowOK, FoldsOK, FoldOK, Bodied
  <2>2. Len(log') <= MaxEvents /\ nextEid' \in Nat /\ nextEid' >= 1
    BY <1>2, <1>4, <1>5, TabsAssumption
  <2>3. QED
    BY <1>0, <1>1, <1>5, <2>1, <2>2 DEF TablesOK
<1>12. JobsOK' /\ LockHeld'
  BY <1>0, <1>1 DEF JobsOK, LockHeld
<1>13. Drawn' /\ ClaimedOnce'
  BY <1>0, <1>1, <1>9, <1>10, FoldsStill DEF Inv, Drawn, ClaimedOnce
<1>14. ASSUME Guarded PROVE Ledger'
  <2>1. Ledger
    BY <1>14 DEF Inv
  <2>2. ASSUME NEW e, NEW s \in Sent(e)'
        PROVE  \/ s \in Sent(e)
               \/ e = nextEid /\ s = {}
    <3>1. \/ \E i \in DOMAIN log' : log'[i].eid = e /\ s = log'[i].edits
          \/ \E u \in Tab : e \in DOMAIN tab[u].wire /\ s = tab[u].wire[e].edits
          \/ e \in DOMAIN dead /\ s = dead[e].edits
      BY <1>1 DEF Sent
    <3>2. CASE \E i \in DOMAIN log' : log'[i].eid = e /\ s = log'[i].edits
      <4>1. PICK i \in DOMAIN log' : log'[i].eid = e /\ s = log'[i].edits
        BY <3>2
      <4>2. CASE i \in DOMAIN log /\ log'[i] = log[i]
        BY <4>1, <4>2, CopiesAre
      <4>3. CASE log'[i] = x
        BY <1>8, <4>1, <4>3
      <4>4. QED
        BY <1>7, <4>2, <4>3
    <3>3. QED
      BY <3>1, <3>2, CopiesAre
  <2>3. Sent(nextEid) = {}
    BY <1>0, <1>9 DEF Sent, Drawn, LogEids
  <2>4. CopiesAgree'
    <3>1. ASSUME NEW e \in Known', NEW s \in Sent(e)'
          PROVE  /\ \A r \in Sent(e)' : r \ s \subseteq Apart
                 /\ e \in DOMAIN outbox => /\ s \ outbox[e].edits \subseteq Apart
                                           /\ outbox[e].edits \ s \subseteq Apart
      <4>1. CASE e = nextEid
        <5>1. s = {} /\ \A r \in Sent(e)' : r = {}
          BY <2>2, <2>3, <3>1, <4>1
        <5>2. e \notin DOMAIN outbox
          BY <1>0, <1>9, <4>1 DEF Drawn
        <5>3. QED
          BY <5>1, <5>2
      <4>2. CASE e # nextEid
        <5>1. s \in Sent(e) /\ Sent(e)' \subseteq Sent(e) /\ e \in Known
          BY <1>9, <2>2, <3>1, <4>2
        <5>2. QED
          BY <2>1, <5>1 DEF Ledger, CopiesAgree
      <4>3. QED
        BY <4>1, <4>2
    <3>2. QED
      BY <1>1, <3>1 DEF CopiesAgree, Apart
  <2>9. FoldsAgree'
    <3>1. \A e \in Known : Sent(e)' \subseteq Sent(e)
      BY <1>9, <2>2
    <3>2. QED
      BY <1>0, <1>1, <2>1, <3>1, FoldsKept DEF Ledger, Apart
  <2>5. LogEdits \subseteq LogEdits'
    BY <1>7 DEF LogEdits
  <2>6. \A e \in Synced' : e \in Synced /\ outbox'[e].edits = outbox[e].edits
    BY <1>1 DEF Synced, Pending
  <2>7. EditsOf(outbox) \subseteq Kept' /\ InFolds \subseteq Kept'
    BY <1>1, RowsKept, FoldsStill DEF Kept
  <2>8. QED
    BY <1>1, <1>10, <2>1, <2>4, <2>5, <2>6, <2>7, <2>9, GrownLedger DEF Apart
<1>15. QED
  BY <1>11, <1>12, <1>13, <1>14 DEF Inv

LEMMA AddInv ==
  ASSUME Inv, NEW t \in Tab, Add(t)
  PROVE  Inv'
<1> DEFINE x == [edits |-> {edits'}, by |-> tab[t].client, synced |-> FALSE,
                 waits |-> FALSE, age |-> 0]
<1>0. TablesOK /\ JobsOK /\ LockHeld /\ Drawn
  BY DEF Inv
<1>1. UNCHANGED <<config, dead, parked, inbox, meta, log, backend, fold, nextClient, tab, holder, lost>>
  BY DEF Add, server, ghosts
<1>2. /\ nextEid \in Nat /\ nextEid >= 1 /\ nextEid' = nextEid + 1
      /\ edits \in Nat /\ edits' = edits + 1 /\ edits' \in 1..MaxEdits
  <2>1. config.edits \in 0..MaxEdits /\ edits \in 0..MaxEdits /\ MaxEdits \in Nat
    BY <1>0, TabsAssumption DEF TablesOK, ConfigType
  <2>2. edits < config.edits /\ edits' = edits + 1 /\ nextEid' = nextEid + 1
    BY DEF Add
  <2>3. QED
    BY <1>0, <2>1, <2>2 DEF TablesOK
<1>3. RowOK(x) /\ x.edits = {edits'} /\ x.synced = FALSE
  <2>1. tab[t].client \in 0..nextClient /\ 0 \in 0..config.delay
    BY <1>0, TabsAssumption DEF JobsOK, JobOK, TablesOK, ConfigType
  <2>2. {edits'} \subseteq 1..MaxEdits
    BY <1>2
  <2>3. QED
    BY <2>1, <2>2 DEF RowOK, Has
<1>4. nextEid \notin DOMAIN outbox /\ nextEid \notin Known
      /\ Known \subseteq Known' /\ nextEid \in Known'
      /\ \A e \in Known' : e \in Known \/ e = nextEid
  BY <1>0, <1>2 DEF Drawn, Known
<1>5. /\ DOMAIN outbox' = DOMAIN outbox \cup {nextEid}
      /\ outbox'[nextEid] = x /\ \A e \in DOMAIN outbox : outbox'[e] = outbox[e]
  <2>1. outbox' = Join(outbox, [e \in {nextEid} |-> x])
    BY DEF Add
  <2> HIDE DEF x
  <2>2. QED
    BY <1>4, <2>1 DEF Join
<1> HIDE DEF x
<1>6. TablesOK'
  <2>1. (\A e \in DOMAIN outbox : RowOK(outbox[e]))' /\ Bodied(dead)' /\ FoldsOK'
    BY <1>0, <1>1, <1>3, <1>5 DEF TablesOK, RowOK, FoldsOK, FoldOK, Bodied
  <2>2. nextEid' \in Nat /\ nextEid' >= 1 /\ edits' \in 0..MaxEdits
    BY <1>2, TabsAssumption
  <2>3. QED
    BY <1>0, <1>1, <2>1, <2>2 DEF TablesOK
<1>7. JobsOK' /\ LockHeld'
  BY <1>0, <1>1 DEF JobsOK, LockHeld
<1>8. LogEids' = LogEids /\ LogEdits' = LogEdits
  BY <1>1 DEF LogEids, LogEdits
<1>9. Drawn' /\ ClaimedOnce'
  <2>1. Drawn'
    BY <1>0, <1>1, <1>4, <1>5, <1>8, FoldsStill DEF Drawn
  <2>2. \A u \in Tab : Claims(u) => fold[u].into \notin DOMAIN outbox'
    BY <1>0, <1>4, <1>5 DEF Inv, Drawn, ClaimedOnce, Claims
  <2>3. QED
    BY <1>1, <2>1, <2>2, ClaimsKept DEF Inv
<1>10. ASSUME Guarded PROVE Ledger'
  <2>1. Ledger
    BY <1>10 DEF Inv
  <2>2. \A e : Sent(e)' = Sent(e)
    BY <1>1 DEF Sent
  <2>3. Sent(nextEid) = {}
    BY <1>0, <1>4 DEF Sent, Drawn, LogEids
  <2>4. CopiesAgree'
    <3>1. ASSUME NEW e \in Known', NEW s \in Sent(e)'
          PROVE  /\ \A r \in Sent(e)' : r \ s \subseteq Apart
                 /\ e \in DOMAIN outbox' => /\ s \ outbox'[e].edits \subseteq Apart
                                            /\ outbox'[e].edits \ s \subseteq Apart
      <4>1. s \in Sent(e) /\ Sent(e)' = Sent(e)
        BY <2>2, <3>1
      <4>2. e # nextEid /\ e \in Known
        BY <1>4, <2>3, <3>1, <4>1
      <4>3. e \in DOMAIN outbox' => e \in DOMAIN outbox /\ outbox'[e] = outbox[e]
        BY <1>5, <4>2
      <4>4. QED
        BY <2>1, <4>1, <4>2, <4>3 DEF Ledger, CopiesAgree
    <3>2. QED
      BY <1>1, <3>1 DEF CopiesAgree, Apart
  <2>9. FoldsAgree'
    BY <1>0, <1>1, <2>1, <2>2, FoldsKept DEF Ledger, Apart
  <2>5. \A e \in Synced' : e \in Synced /\ outbox'[e].edits = outbox[e].edits
    BY <1>3, <1>5 DEF Synced, Pending
  <2>6. EditsOf(outbox) \subseteq Kept' /\ InFolds \subseteq Kept' /\ edits' \in Kept'
    <3>1. nextEid \in DOMAIN outbox' /\ edits' \in outbox'[nextEid].edits
      BY <1>3, <1>5
    <3>2. edits' \in EditsOf(outbox)'
      BY <3>1 DEF EditsOf
    <3>3. EditsOf(outbox) \subseteq Kept'
      BY <1>5, RowsKept
    <3>4. QED
      BY <1>1, <3>2, <3>3, FoldsStill DEF Kept
  <2>7. \A n \in 1..edits' : n \in 1..edits \/ n = edits'
    BY <1>2
  <2>8. QED
    BY <1>1, <1>8, <2>1, <2>4, <2>5, <2>6, <2>7, <2>9, GrownLedger DEF Apart
<1>11. QED
  BY <1>6, <1>7, <1>9, <1>10 DEF Inv

-----------------------------------------------------------------------------
(* The actions: folds, and the crash that ends one.                        *)

LEMMA OldestIs ==
  ASSUME NEW S, S \subseteq Nat, S # {}
  PROVE  Oldest(S) \in S
<1>1. \E e \in S : \A f \in S : e <= f
  BY MinExists
<1>2. QED
  BY <1>1 DEF Oldest

LEMMA NoFoldIs ==
  ASSUME TablesOK
  PROVE  FoldOK(NoFold) /\ NoFold.into = None /\ NoFold.gone = {}
<1>1. 0 \in 0..nextClient /\ 0 \in 0..config.delay
  BY TabsAssumption DEF TablesOK, ConfigType
<1>2. QED
  BY <1>1 DEF NoFold, None, FoldOK, Has

(* The fold of one tab takes a step.                                       *)
LEMMA FoldSet ==
  ASSUME TablesOK, NEW t \in Tab, NEW r, fold' = [fold EXCEPT ![t] = r], FoldOK(r),
         config' = config, nextClient' = nextClient
  PROVE  /\ FoldsOK' /\ fold'[t] = r
         /\ \A u \in Tab : u # t => /\ fold'[u] = fold[u] /\ Folding(u)' = Folding(u)
                                    /\ Claims(u)' = Claims(u)
<1>1. fold'[t] = r /\ fold' = [u \in Tab |-> fold'[u]] /\ \A u \in Tab : u # t => fold'[u] = fold[u]
  BY DEF TablesOK, FoldsOK
<1>2. FoldsOK'
  BY <1>1 DEF TablesOK, FoldsOK, FoldOK
<1>3. QED
  BY <1>1, <1>2 DEF Folding, Claims

(* The folds of the other tabs keep their events.                          *)
LEMMA OthersClaim ==
  ASSUME ClaimedOnce, NEW t \in Tab, ~Claims(t)',
         \A u \in Tab : u # t => fold'[u] = fold[u] /\ Claims(u)' = Claims(u),
         \A u \in Tab : u # t /\ Claims(u) => fold[u].into \notin DOMAIN outbox'
  PROVE  ClaimedOnce'
BY DEF ClaimedOnce

LEMMA OthersAgree ==
  ASSUME FoldsAgree, NEW t \in Tab, ~Claims(t)', Apart \subseteq Apart',
         \A u \in Tab : u # t => fold'[u] = fold[u] /\ Claims(u)' = Claims(u),
         \A e : Sent(e)' \subseteq Sent(e)
  PROVE  FoldsAgree'
<1> SUFFICES ASSUME NEW u \in Tab, Claims(u)', NEW s \in Sent(fold[u].into)'
             PROVE  s \ fold'[u].gone \subseteq Apart'
  BY DEF FoldsAgree
<1>1. u # t /\ Claims(u) /\ fold'[u] = fold[u]
  OBVIOUS
<1>2. s \in Sent(fold[u].into)
  BY <1>1
<1>3. QED
  BY <1>1, <1>2 DEF FoldsAgree

(* What is gone stays accounted for.                                       *)
LEMMA GonesKept ==
  ASSUME NEW t \in Tab, \A u \in Tab : u # t => fold'[u] = fold[u],
         fold[t].gone \subseteq Kept'
  PROVE  InFolds \subseteq Kept'
<1> SUFFICES ASSUME NEW u \in Tab PROVE fold[u].gone \subseteq Kept'
  BY DEF InFolds
<1>1. CASE u = t
  BY <1>1
<1>2. CASE u # t
  BY <1>2 DEF Kept, InFolds
<1>3. QED
  BY <1>1, <1>2

LEMMA BeginFoldInv ==
  ASSUME Inv, NEW t \in Tab, BeginFold(t)
  PROVE  Inv'
<1> DEFINE tail == FoldTail(t)
           all == {edits'} \cup EditsOf([e \in tail |-> outbox[e]])
           r == [into |-> Oldest(tail), left |-> tail, by |-> tab[t].client, edits |-> all,
                 age |-> outbox[Oldest(tail)].age, gone |-> {edits'}]
<1>0. TablesOK /\ JobsOK /\ LockHeld /\ Drawn /\ ClaimedOnce
  BY DEF Inv
<1>1. UNCHANGED <<config, outbox, dead, parked, inbox, meta, log, backend, nextEid, nextClient,
                  tab, holder, lost>>
  BY DEF BeginFold, tables, server, ghosts
<1>2. /\ edits \in Nat /\ edits' = edits + 1 /\ edits' \in 1..MaxEdits
  <2>1. config.edits \in 0..MaxEdits /\ edits \in 0..MaxEdits /\ MaxEdits \in Nat
    BY <1>0, TabsAssumption DEF TablesOK, ConfigType
  <2>2. edits < config.edits /\ edits' = edits + 1
    BY DEF BeginFold
  <2>3. QED
    BY <2>1, <2>2
<1>3. tail # {} /\ tail \subseteq DOMAIN outbox /\ tail \subseteq Known
  BY <1>0 DEF BeginFold, FoldTail, Pending, Drawn
<1>4. Oldest(tail) \in tail
  <2>1. tail \subseteq Nat
    BY <1>0, <1>3 DEF Known, TablesOK
  <2>2. QED
    BY <1>3, <2>1, OldestIs
<1>5. fold' = [fold EXCEPT ![t] = r]
  BY DEF BeginFold
<1>6. all \subseteq 1..MaxEdits
  <2>1. \A e \in tail : outbox[e].edits \subseteq 1..MaxEdits
    BY <1>0, <1>3 DEF TablesOK, RowOK
  <2> HIDE DEF tail
  <2> DEFINE g == [e \in tail |-> outbox[e]]
  <2>2. DOMAIN g = tail /\ \A e \in tail : g[e] = outbox[e]
    OBVIOUS
  <2> HIDE DEF g
  <2>3. \A n \in EditsOf(g) : n \in 1..MaxEdits
    BY <2>1, <2>2, EditsFrom
  <2>4. all = {edits'} \cup EditsOf(g)
    BY DEF g
  <2> HIDE DEF all
  <2>5. QED
    BY <1>2, <2>3, <2>4
<1> HIDE DEF tail, all
<1>7. FoldOK(r) /\ r.into = Oldest(tail) /\ r.left = tail /\ r.gone = {edits'}
  <2>1. tab[t].client \in 0..nextClient
    BY <1>0 DEF JobsOK, JobOK
  <2>2. outbox[Oldest(tail)].age \in 0..config.delay
    BY <1>0, <1>3, <1>4 DEF TablesOK, RowOK
  <2>3. {edits'} \subseteq 1..MaxEdits
    BY <1>2
  <2>4. Oldest(tail) # None
    BY <1>3, <1>4 DEF Known, None
  <2>5. QED
    BY <1>6, <2>1, <2>2, <2>3, <2>4 DEF FoldOK, Has
<1> HIDE DEF r
<1>8. /\ FoldsOK' /\ fold'[t] = r
      /\ \A u \in Tab : u # t => /\ fold'[u] = fold[u] /\ Folding(u)' = Folding(u)
                                 /\ Claims(u)' = Claims(u)
  BY <1>0, <1>1, <1>5, <1>7, FoldSet
<1>9. TablesOK'
  <2>1. (\A e \in DOMAIN outbox : RowOK(outbox[e]))' /\ Bodied(dead)'
    BY <1>0, <1>1 DEF TablesOK, RowOK, Bodied
  <2>2. edits' \in 0..MaxEdits
    BY <1>2
  <2>3. QED
    BY <1>0, <1>1, <1>8, <2>1, <2>2 DEF TablesOK
<1>10. JobsOK' /\ LockHeld'
  BY <1>0, <1>1 DEF JobsOK, LockHeld
<1>11. Known' = Known /\ LogEids' = LogEids /\ LogEdits' = LogEdits /\ Apart' = Apart
  BY <1>1 DEF Known, LogEids, LogEdits, Apart
<1>12. ~Claims(t)'
  BY <1>4, <1>7, <1>8 DEF Claims
<1>13. Drawn' /\ ClaimedOnce'
  <2>1. \A u \in Tab : Folding(u)' => fold'[u].into \in Known /\ fold'[u].left \subseteq Known
    BY <1>0, <1>3, <1>4, <1>7, <1>8 DEF Drawn
  <2>2. Drawn'
    BY <1>0, <1>1, <1>11, <2>1 DEF Drawn
  <2>3. ClaimedOnce'
    BY <1>0, <1>1, <1>8, <1>12, OthersClaim DEF ClaimedOnce
  <2>4. QED
    BY <2>2, <2>3
<1>14. ASSUME Guarded PROVE Ledger'
  <2>1. Ledger
    BY <1>14 DEF Inv
  <2>2. \A e : Sent(e)' = Sent(e)
    BY <1>1 DEF Sent
  <2>3. CopiesAgree'
    BY <1>1, <1>11, <2>1, <2>2, AgreeKept DEF Ledger
  <2>4. FoldsAgree'
    BY <1>8, <1>11, <1>12, <2>1, <2>2, OthersAgree DEF Ledger
  <2>5. \A e \in Synced' : e \in Synced /\ outbox'[e].edits = outbox[e].edits
    BY <1>1 DEF Synced, Pending
  <2>6. fold[t].gone \subseteq Kept'
    <3>1. ~Folding(t)
      BY DEF BeginFold
    <3>2. fold[t].gone = {}
      BY <1>0, <3>1 DEF TablesOK, FoldsOK, FoldOK, Folding
    <3>3. QED
      BY <3>2
  <2>7. EditsOf(outbox) \subseteq Kept' /\ InFolds \subseteq Kept'
    BY <1>1, <1>8, <2>6, RowsKept, GonesKept
  <2>8. edits' \in Kept'
    BY <1>7, <1>8 DEF Kept, InFolds
  <2>9. \A n \in 1..edits' : n \in 1..edits \/ n = edits'
    BY <1>2
  <2>10. QED
    BY <1>1, <1>11, <2>1, <2>3, <2>4, <2>5, <2>7, <2>8, <2>9, GrownLedger
<1>15. QED
  BY <1>9, <1>10, <1>13, <1>14 DEF Inv

LEMMA DropFoldedInv ==
  ASSUME Inv, NEW t \in Tab, DropFolded(t)
  PROVE  Inv'
<1> DEFINE e == Oldest(fold[t].left)
           r == [fold[t] EXCEPT !.left = @ \ {e}, !.gone = @ \cup outbox[e].edits]
<1>0. TablesOK /\ JobsOK /\ LockHeld /\ Drawn /\ ClaimedOnce
  BY DEF Inv
<1>1. UNCHANGED <<config, dead, parked, inbox, meta, log, backend, edits, nextEid, nextClient,
                  tab, holder, lost>>
  BY DEF DropFolded, server, ghosts
<1>2. /\ Folding(t) /\ e \in DOMAIN outbox /\ outbox' = Without(outbox, {e})
      /\ fold' = [fold EXCEPT ![t] = r]
  BY <1>0 DEF DropFolded, TablesOK, FoldsOK
<1>3. e \in fold[t].left /\ e \in Known
  <2>1. fold[t].left \subseteq Known /\ fold[t].left # {}
    BY <1>0 DEF DropFolded, Drawn
  <2>2. Known \subseteq Nat
    BY <1>0 DEF Known, TablesOK
  <2>3. QED
    BY <2>1, <2>2, OldestIs
<1> HIDE DEF e
<1>4. FoldOK(r) /\ r.into = fold[t].into /\ r.left = fold[t].left \ {e}
      /\ r.gone = fold[t].gone \cup outbox[e].edits
  <2>1. FoldOK(fold[t]) /\ outbox[e].edits \subseteq 1..MaxEdits
    BY <1>0, <1>2 DEF TablesOK, FoldsOK, RowOK
  <2>2. /\ DOMAIN r = {"into", "left", "edits", "by", "age", "gone"}
        /\ r.into = fold[t].into /\ r.left = fold[t].left \ {e} /\ r.edits = fold[t].edits
        /\ r.by = fold[t].by /\ r.age = fold[t].age /\ r.gone = fold[t].gone \cup outbox[e].edits
    BY <2>1 DEF FoldOK, Has
  <2>3. r = [y \in DOMAIN r |-> r[y]]
    OBVIOUS
  <2> HIDE DEF r
  <2>4. r.into # None
    BY <1>2, <2>2 DEF Folding
  <2>5. Has(r, {"into", "left", "edits", "by", "age", "gone"})
    BY <2>2, <2>3 DEF Has
  <2>6. /\ r.edits \subseteq 1..MaxEdits /\ r.gone \subseteq 1..MaxEdits
        /\ r.by \in 0..nextClient /\ r.age \in 0..config.delay
    BY <2>1, <2>2 DEF FoldOK
  <2>7. QED
    BY <2>2, <2>4, <2>5, <2>6 DEF FoldOK
<1> HIDE DEF r
<1>5. /\ FoldsOK' /\ fold'[t] = r
      /\ \A u \in Tab : u # t => /\ fold'[u] = fold[u] /\ Folding(u)' = Folding(u)
                                 /\ Claims(u)' = Claims(u)
  BY <1>0, <1>1, <1>2, <1>4, FoldSet
<1>6. DOMAIN outbox' = DOMAIN outbox \ {e} /\ \A f \in DOMAIN outbox' : outbox'[f] = outbox[f]
  BY <1>2 DEF Without
<1>7. TablesOK'
  <2>1. (\A f \in DOMAIN outbox : RowOK(outbox[f]))' /\ Bodied(dead)'
    BY <1>0, <1>1, <1>6 DEF TablesOK, RowOK, Bodied
  <2>2. QED
    BY <1>0, <1>1, <1>5, <2>1 DEF TablesOK
<1>8. JobsOK' /\ LockHeld'
  BY <1>0, <1>1 DEF JobsOK, LockHeld
<1>9. Known' = Known /\ LogEids' = LogEids /\ LogEdits' = LogEdits /\ Apart' = Apart
  BY <1>1 DEF Known, LogEids, LogEdits, Apart
(* What it claims it had, or it has just deleted.                          *)
<1>10. Claims(t)' => Claims(t) \/ fold[t].into = e
  BY <1>2, <1>4, <1>5 DEF Claims, Folding
<1>11. \A u \in Tab : Claims(u) => fold[u].into # e
  BY <1>0, <1>2 DEF ClaimedOnce
<1>12. Drawn' /\ ClaimedOnce'
  <2>1. \A u \in Tab : Folding(u)' => fold'[u].into \in Known /\ fold'[u].left \subseteq Known
    BY <1>0, <1>2, <1>4, <1>5 DEF Drawn
  <2>2. Drawn'
    BY <1>0, <1>1, <1>6, <1>9, <2>1 DEF Drawn
  <2>3. \A u \in Tab : Claims(u)' => fold'[u].into = fold[u].into
    BY <1>4, <1>5
  <2>4. \A u \in Tab : Claims(u)' => Claims(u) \/ (u = t /\ fold[u].into = e)
    BY <1>5, <1>10
  <2>5. ClaimedOnce'
    BY <1>0, <1>6, <1>11, <2>3, <2>4 DEF ClaimedOnce
  <2>6. QED
    BY <2>2, <2>5
<1>13. ASSUME Guarded PROVE Ledger'
  <2>1. Ledger
    BY <1>13 DEF Inv
  <2>2. \A f : Sent(f)' = Sent(f)
    BY <1>1 DEF Sent
  <2>3. CopiesAgree'
    BY <1>6, <1>9, <2>1, <2>2, AgreeKept DEF Ledger
  <2>4. FoldsAgree'
    <3>1. ASSUME NEW u \in Tab, Claims(u)', NEW s \in Sent(fold[u].into)
          PROVE  s \ fold'[u].gone \subseteq Apart
      <4>1. CASE Claims(u)
        <5>1. s \ fold[u].gone \subseteq Apart
          BY <2>1, <3>1, <4>1 DEF Ledger, FoldsAgree
        <5>2. fold[u].gone \subseteq fold'[u].gone
          BY <1>4, <1>5
        <5>3. QED
          BY <5>1, <5>2
      <4>2. CASE ~Claims(u)
        <5>1. u = t /\ fold[t].into = e
          BY <1>5, <1>10, <3>1, <4>2
        <5>2. s \ outbox[e].edits \subseteq Apart
          BY <1>2, <1>3, <2>1, <3>1, <5>1 DEF Ledger, CopiesAgree
        <5>3. QED
          BY <1>4, <1>5, <5>1, <5>2
      <4>3. QED
        BY <4>1, <4>2
    <3>2. \A u \in Tab : fold'[u].into = fold[u].into
      BY <1>4, <1>5
    <3>3. QED
      BY <1>9, <2>2, <3>1, <3>2 DEF FoldsAgree
  <2>5. \A f \in Synced' : f \in Synced /\ outbox'[f].edits = outbox[f].edits
    BY <1>6 DEF Synced, Pending
  <2>6. fold[t].gone \subseteq InFolds' /\ outbox[e].edits \subseteq InFolds'
    BY <1>4, <1>5 DEF InFolds
  <2>7. InFolds \subseteq Kept'
    BY <1>5, <2>6, GonesKept DEF Kept
  <2>8. EditsOf(outbox) \subseteq Kept'
    <3>1. ASSUME NEW f \in DOMAIN outbox PROVE outbox[f].edits \subseteq EditsOf(outbox)' \cup InFolds'
      <4>1. CASE f = e
        BY <2>6, <4>1
      <4>2. CASE f # e
        <5>1. f \in DOMAIN outbox' /\ outbox'[f] = outbox[f]
          BY <1>6, <4>2
        <5>2. outbox'[f].edits \subseteq EditsOf(outbox')
          BY <5>1, EditsIn
        <5>3. EditsOf(outbox') = EditsOf(outbox)'
          BY DEF EditsOf
        <5>4. QED
          BY <5>1, <5>2, <5>3
      <4>3. QED
        BY <4>1, <4>2
    <3>2. EditsOf(outbox) \subseteq EditsOf(outbox)' \cup InFolds'
      BY <3>1, EditsFrom
    <3>3. QED
      BY <3>2 DEF Kept
  <2>9. QED
    BY <1>1, <1>9, <2>1, <2>3, <2>4, <2>5, <2>7, <2>8, GrownLedger
<1>14. QED
  BY <1>7, <1>8, <1>12, <1>13 DEF Inv

LEMMA InsertFoldedInv ==
  ASSUME Inv, NEW t \in Tab, InsertFolded(t)
  PROVE  Inv'
<1> DEFINE e == fold[t].into
           all == fold[t].edits
           x == [edits |-> all, by |-> fold[t].by, synced |-> FALSE, waits |-> FALSE,
                 age |-> fold[t].age]
           late == UNION {all \ S : S \in Sent(e)}
<1>0. TablesOK /\ JobsOK /\ LockHeld /\ Drawn /\ ClaimedOnce
  BY DEF Inv
<1>1. UNCHANGED <<config, dead, parked, inbox, meta, log, backend, edits, nextEid, nextClient,
                  tab, holder>>
  BY DEF InsertFolded, server
<1>2. /\ Folding(t) /\ fold[t].left = {} /\ e \notin DOMAIN outbox
      /\ outbox' = Join(outbox, [f \in {e} |-> x]) /\ fold' = [fold EXCEPT ![t] = NoFold]
      /\ lost' = [lost EXCEPT !.unsent = @ \cup late, !.torn = @ \cup (fold[t].gone \ all)]
  BY DEF InsertFolded
<1>3. Claims(t) /\ e \in Known
  BY <1>0, <1>2 DEF Claims, Drawn
<1>4. RowOK(x) /\ x.edits = all /\ x.synced = FALSE
  <2>1. FoldOK(fold[t])
    BY <1>0 DEF TablesOK, FoldsOK
  <2>2. QED
    BY <2>1 DEF FoldOK, RowOK, Has
<1> HIDE DEF x, all, late
<1>5. /\ DOMAIN outbox' = DOMAIN outbox \cup {e} /\ outbox'[e] = x
      /\ \A f \in DOMAIN outbox : outbox'[f] = outbox[f]
  BY <1>2 DEF Join
<1> HIDE DEF e
<1>6. /\ Has(lost', {"discarded", "swept", "unsent", "torn", "pruned", "released", "waived"})
      /\ lost'.discarded = lost.discarded /\ lost'.swept = lost.swept
      /\ lost'.pruned = lost.pruned /\ lost'.released = lost.released
      /\ lost'.unsent = lost.unsent \cup late
      /\ lost'.torn = lost.torn \cup (fold[t].gone \ all)
  BY <1>0, <1>2 DEF TablesOK, Has
<1>7. /\ FoldsOK' /\ fold'[t] = NoFold
      /\ \A u \in Tab : u # t => /\ fold'[u] = fold[u] /\ Folding(u)' = Folding(u)
                                 /\ Claims(u)' = Claims(u)
  BY <1>0, <1>1, <1>2, NoFoldIs, FoldSet
<1>8. ~Folding(t)' /\ ~Claims(t)'
  BY <1>0, <1>7, NoFoldIs DEF Folding, Claims
<1>9. TablesOK'
  <2>1. (\A f \in DOMAIN outbox : RowOK(outbox[f]))' /\ Bodied(dead)'
    BY <1>0, <1>1, <1>4, <1>5 DEF TablesOK, RowOK, Bodied
  <2>2. QED
    BY <1>0, <1>1, <1>6, <1>7, <2>1 DEF TablesOK
<1>10. JobsOK' /\ LockHeld'
  BY <1>0, <1>1 DEF JobsOK, LockHeld
<1>11. Known' = Known /\ LogEids' = LogEids /\ LogEdits' = LogEdits
  BY <1>1 DEF Known, LogEids, LogEdits
<1>12. Drawn' /\ ClaimedOnce'
  <2>1. \A u \in Tab : Folding(u)' => fold'[u].into \in Known /\ fold'[u].left \subseteq Known
    BY <1>0, <1>7, <1>8 DEF Drawn
  <2>2. Drawn'
    BY <1>0, <1>1, <1>3, <1>5, <1>11, <2>1 DEF Drawn
  <2>3. \A u \in Tab : u # t /\ Claims(u) => fold[u].into \notin DOMAIN outbox'
    BY <1>0, <1>3, <1>5 DEF ClaimedOnce, e
  <2>4. QED
    BY <1>0, <1>7, <1>8, <2>2, <2>3, OthersClaim
<1>13. Apart' = Apart \cup late \cup (fold[t].gone \ all)
  BY <1>6 DEF Apart
<1>14. ASSUME Guarded PROVE Ledger'
  <2>1. Ledger
    BY <1>14 DEF Inv
  <2>2. \A f : Sent(f)' = Sent(f)
    BY <1>1 DEF Sent
  <2>3. CopiesAgree'
    <3>1. ASSUME NEW f \in Known, NEW s \in Sent(f)
          PROVE  /\ \A r \in Sent(f) : r \ s \subseteq Apart'
                 /\ f \in DOMAIN outbox' => /\ s \ outbox'[f].edits \subseteq Apart'
                                            /\ outbox'[f].edits \ s \subseteq Apart'
      <4>1. \A r \in Sent(f) : r \ s \subseteq Apart'
        BY <1>13, <2>1, <3>1 DEF Ledger, CopiesAgree
      <4>2. CASE f # e
        <5>1. f \in DOMAIN outbox' => /\ s \ outbox[f].edits \subseteq Apart
                                      /\ outbox[f].edits \ s \subseteq Apart
                                      /\ outbox'[f] = outbox[f]
          BY <1>5, <2>1, <3>1, <4>2 DEF Ledger, CopiesAgree
        <5>2. QED
          BY <1>13, <4>1, <5>1
      <4>3. CASE f = e
        <5>1. s \in Sent(e) /\ s \in Sent(fold[t].into)
          BY <3>1, <4>3 DEF e
        <5>2. s \ fold[t].gone \subseteq Apart
          BY <1>3, <2>1, <5>1 DEF Ledger, FoldsAgree
        <5>3. all \ s \subseteq late
          BY <5>1 DEF late
        <5>4. outbox'[f].edits = all
          BY <1>4, <1>5, <4>3
        <5>5. QED
          BY <1>13, <4>1, <5>2, <5>3, <5>4
      <4>4. QED
        BY <4>2, <4>3
    <3>2. QED
      BY <1>11, <2>2, <3>1 DEF CopiesAgree
  <2>4. FoldsAgree'
    BY <1>7, <1>8, <1>13, <2>1, <2>2, OthersAgree DEF Ledger
  <2>5. \A f \in Synced' : f \in Synced /\ outbox'[f].edits = outbox[f].edits
    BY <1>2, <1>4, <1>5 DEF Synced, Pending
  <2>6. EditsOf(outbox) \subseteq Kept'
    BY <1>5, RowsKept
  <2>7. fold[t].gone \subseteq Kept'
    <3>1. all \subseteq EditsOf(outbox)'
      BY <1>4, <1>5 DEF EditsOf
    <3>2. QED
      BY <1>13, <3>1 DEF Kept
  <2>8. InFolds \subseteq Kept'
    BY <1>7, <2>7, GonesKept
  <2>9. QED
    BY <1>1, <1>6, <1>11, <1>13, <2>1, <2>3, <2>4, <2>5, <2>6, <2>8, GrownLedger
<1>15. QED
  BY <1>9, <1>10, <1>12, <1>14 DEF Inv

(* A fold that goes no further: what it deleted is torn.                   *)
LEMMA TornLedger ==
  ASSUME Inv, Guarded, NEW t \in Tab, fold' = [fold EXCEPT ![t] = NoFold],
         UNCHANGED <<config, outbox, dead, meta, log, backend, edits, nextEid, nextClient>>,
         lost' = [lost EXCEPT !["torn"] = @ \cup fold[t].gone],
         \A u \in Tab : tab'[u].phase \in {"answered", "reanswered", "forget"} => tab'[u] = tab[u],
         \A u \in Tab : \A e \in DOMAIN tab'[u].wire : tab'[u].wire[e].edits \in Sent(e)
  PROVE  Ledger'
<1>1. Ledger /\ TablesOK /\ Drawn
  BY DEF Inv
<1>2. /\ fold'[t] = NoFold
      /\ \A u \in Tab : u # t => fold'[u] = fold[u] /\ Claims(u)' = Claims(u)
  BY <1>1, NoFoldIs, FoldSet
<1>3. ~Claims(t)'
  BY <1>1, <1>2, NoFoldIs DEF Folding, Claims
<1>4. /\ lost'.discarded = lost.discarded /\ lost'.swept = lost.swept
      /\ lost'.pruned = lost.pruned /\ lost'.released = lost.released
      /\ lost'.unsent = lost.unsent /\ lost'.torn = lost.torn \cup fold[t].gone
  BY <1>1 DEF TablesOK, Has
<1>5. Apart' = Apart \cup fold[t].gone
  BY <1>4 DEF Apart
<1>6. Known' = Known /\ LogEids' = LogEids /\ LogEdits' = LogEdits
  BY DEF Known, LogEids, LogEdits
<1>7. \A e : Sent(e)' \subseteq Sent(e)
  BY CopiesAre, CopiesShrink
<1>8. CopiesAgree'
  BY <1>1, <1>5, <1>6, <1>7, AgreeKept DEF Ledger
<1>9. FoldsAgree'
  BY <1>1, <1>2, <1>3, <1>5, <1>7, OthersAgree DEF Ledger
<1>10. \A e \in Synced' : e \in Synced /\ outbox'[e].edits = outbox[e].edits
  BY DEF Synced, Pending
<1>11. EditsOf(outbox) \subseteq Kept'
  BY RowsKept
<1>12. InFolds \subseteq Kept'
  BY <1>2, <1>5, GonesKept DEF Kept
<1>13. QED
  BY <1>1, <1>4, <1>5, <1>6, <1>8, <1>9, <1>10, <1>11, <1>12, GrownLedger

LEMMA TornDrawn ==
  ASSUME Inv, NEW t \in Tab, fold' = [fold EXCEPT ![t] = NoFold],
         UNCHANGED <<config, outbox, dead, log, nextEid, nextClient>>,
         \A u \in Tab : u # t => tab'[u] = tab[u],
         DOMAIN tab'[t].wire = {} \/ tab'[t] = tab[t],
         tab'[t].phase \notin {"answered", "reanswered"} \/ tab'[t] = tab[t]
  PROVE  FoldsOK' /\ Drawn' /\ ClaimedOnce'
<1>1. TablesOK /\ Drawn /\ ClaimedOnce
  BY DEF Inv
<1>2. /\ FoldsOK' /\ fold'[t] = NoFold
      /\ \A u \in Tab : u # t => /\ fold'[u] = fold[u] /\ Folding(u)' = Folding(u)
                                 /\ Claims(u)' = Claims(u)
  BY <1>1, NoFoldIs, FoldSet
<1>3. ~Folding(t)' /\ ~Claims(t)'
  BY <1>1, <1>2, NoFoldIs DEF Folding, Claims
<1>4. Known' = Known /\ LogEids' = LogEids
  BY DEF Known, LogEids
<1>5. \A u \in Tab : Folding(u)' => fold'[u].into \in Known /\ fold'[u].left \subseteq Known
  BY <1>1, <1>2, <1>3 DEF Drawn
<1>6. \A u \in Tab : /\ DOMAIN tab'[u].wire \subseteq Known
                     /\ tab'[u].phase \in {"answered", "reanswered"} =>
                          tab'[u].turned \subseteq DOMAIN tab'[u].wire
  BY <1>1 DEF Drawn
<1>7. Drawn'
  BY <1>1, <1>4, <1>5, <1>6 DEF Drawn
<1>8. ClaimedOnce'
  BY <1>1, <1>2, <1>3, OthersClaim DEF ClaimedOnce
<1>9. QED
  BY <1>2, <1>7, <1>8

LEMMA AbandonFoldInv ==
  ASSUME Inv, NEW t \in Tab, AbandonFold(t)
  PROVE  Inv'
<1>0. TablesOK /\ JobsOK /\ LockHeld /\ Drawn
  BY DEF Inv
<1>1. UNCHANGED <<config, outbox, dead, parked, inbox, meta, log, backend, edits, nextEid,
                  nextClient, tab, holder>>
  BY DEF AbandonFold, tables, server
<1>2. /\ fold' = [fold EXCEPT ![t] = NoFold]
      /\ lost' = [lost EXCEPT !["torn"] = @ \cup fold[t].gone]
  BY DEF AbandonFold, Lose
<1>3. FoldsOK' /\ Drawn' /\ ClaimedOnce'
  BY <1>1, <1>2, TornDrawn
<1>4. TablesOK'
  <2>1. Has(lost', {"discarded", "swept", "unsent", "torn", "pruned", "released", "waived"})
    BY <1>0, <1>2 DEF TablesOK, Has
  <2>2. QED
    BY <1>0, <1>1, <1>3, <2>1 DEF TablesOK, RowOK, Bodied
<1>5. JobsOK' /\ LockHeld'
  BY <1>0, <1>1 DEF JobsOK, LockHeld
<1>6. ASSUME Guarded PROVE Ledger'
  BY <1>1, <1>2, <1>6, CopiesAre, TornLedger
<1>7. QED
  BY <1>3, <1>4, <1>5, <1>6 DEF Inv

LEMMA CrashInv ==
  ASSUME Inv, NEW t \in Tab, Crash(t)
  PROVE  Inv'
<1> DEFINE j == [Resting(meta.client) EXCEPT !.phase = "replay"]
<1>0. TablesOK /\ JobsOK /\ LockHeld /\ Drawn
  BY DEF Inv
<1>1. tab' = [tab EXCEPT ![t] = j] /\ JobOK(j, nextClient) /\ j.phase = "replay"
      /\ DOMAIN j.wire = {}
  <2>1. meta.client \in 0..nextClient /\ nextClient \in Nat
    BY DEF Inv, TablesOK
  <2>2. JobOK(Resting(meta.client), nextClient) /\ DOMAIN Resting(meta.client).wire = {}
    BY <2>1, RestingIs
  <2>3. QED
    BY <2>2 DEF Crash, JobOK, JobShape, Has, Fields
<1>2. holder' \in Tab \cup {None} /\ \A u \in Tab : u # t => (holder = u => holder' = u)
  BY ReleasesLock, HolderType DEF Crash, Release
<1> HIDE DEF j
<1>3. UNCHANGED <<config, outbox, dead, parked, inbox, meta, log, backend, edits, nextEid, nextClient>>
  BY DEF Crash, tables, server
<1>4. /\ fold' = [fold EXCEPT ![t] = NoFold]
      /\ lost' = [lost EXCEPT !["torn"] = @ \cup fold[t].gone]
  BY DEF Crash, Lose
<1>5. /\ tab'[t] = j /\ \A u \in Tab : u # t => tab'[u] = tab[u]
      /\ JobsOK' /\ LockHeld'
  <2>1. nextClient' \in Nat /\ JobOK(j, nextClient') /\ nextClient <= nextClient'
    BY <1>0, <1>1, <1>3 DEF TablesOK
  <2>2. j.phase \notin Locked
    BY <1>1 DEF Locked
  <2>3. QED
    BY <1>1, <1>2, <1>3, <2>1, <2>2, TabStep
<1>6. FoldsOK' /\ Drawn' /\ ClaimedOnce'
  BY <1>1, <1>3, <1>4, <1>5, TornDrawn
<1>7. TablesOK'
  <2>1. Has(lost', {"discarded", "swept", "unsent", "torn", "pruned", "released", "waived"})
    BY <1>0, <1>4 DEF TablesOK, Has
  <2>2. QED
    BY <1>0, <1>2, <1>3, <1>6, <2>1 DEF TablesOK, RowOK, Bodied
<1>8. ASSUME Guarded PROVE Ledger'
  <2>1. \A u \in Tab : \A e \in DOMAIN tab'[u].wire : tab'[u].wire[e].edits \in Sent(e)
    BY <1>1, <1>5, CopiesAre
  <2>2. \A u \in Tab : tab'[u].phase \in {"answered", "reanswered", "forget"} => tab'[u] = tab[u]
    BY <1>1, <1>5
  <2>3. QED
    BY <1>3, <1>4, <1>8, <2>1, <2>2, TornLedger
<1>9. QED
  BY <1>5, <1>6, <1>7, <1>8 DEF Inv

-----------------------------------------------------------------------------
(* The invariant, and what follows from it.                                *)

LEMMA InitInv == Init => Inv
<1> SUFFICES ASSUME Init PROVE Inv
  OBVIOUS
<1>1. /\ DOMAIN outbox = {} /\ DOMAIN dead = {} /\ DOMAIN parked = {} /\ DOMAIN inbox = {}
      /\ EditsOf(outbox) = {} /\ Bodied(dead)
  BY EmptyIs DEF Init
<1>2. config \in Configs /\ config.delay \in Nat /\ 0 \in 0..MaxEdits /\ 0 \in 0..MaxEvents
  BY TabsAssumption DEF Init, ConfigType
<1>3. TablesOK
  <2>1. /\ Has(meta, {"client", "cursor", "seen", "lastSync"})
        /\ meta.client = 1 /\ meta.cursor = 0 /\ meta.seen = None /\ meta.lastSync = Never
    BY DEF Init, Has
  <2>2. /\ Has(lost, {"discarded", "swept", "unsent", "torn", "pruned", "released", "waived"})
    BY DEF Init, Has
  <2>3. log \in Seq(Stored) /\ Len(log) = 0 /\ Len(log) <= MaxEvents
    BY TabsAssumption DEF Init
  <2>5. FoldOK(NoFold)
    BY <1>2 DEF Init, NoFold, FoldOK, Has, None
  <2>6. FoldsOK
    BY <2>5 DEF Init, FoldsOK
  <2>4. QED
    BY <1>1, <1>2, <2>1, <2>2, <2>3, <2>6 DEF Init, TablesOK, None
<1>4. JobsOK
  <2>1. nextClient \in Nat /\ 1 \in 0..nextClient
    BY DEF Init
  <2>2. JobOK(Resting(1), nextClient)
    BY <2>1, RestingIs
  <2>3. QED
    BY <2>2 DEF Init, JobsOK
<1>5. \A t \in Tab : tab[t].phase = "idle" /\ DOMAIN tab[t].wire = {}
  <2>1. 2 \in Nat /\ 1 \in 0..2
    OBVIOUS
  <2>2. Resting(1).phase = "idle" /\ DOMAIN Resting(1).wire = {}
    BY <2>1, RestingIs
  <2>3. QED
    BY <2>2 DEF Init
<1>6. LockHeld
  BY <1>5 DEF LockHeld, Locked
<1>7. LogEids = {} /\ Synced = {} /\ DOMAIN log = {}
  BY <1>1 DEF Init, LogEids, Synced, Pending
<1>11. \A t \in Tab : ~Folding(t) /\ ~Claims(t)
  BY DEF Init, Folding, Claims, NoFold
<1>8. Drawn /\ ClaimedOnce
  BY <1>1, <1>5, <1>7, <1>11 DEF Drawn, ClaimedOnce
<1>9. Ledger
  <2>1. \A e : Sent(e) = {}
    BY <1>1, <1>5, <1>7 DEF Sent
  <2>2. CopiesAgree /\ FoldsAgree
    BY <1>11, <2>1 DEF CopiesAgree, FoldsAgree
  <2>3. AnswersStored /\ SyncedHeld /\ NewcomerReleased
    BY <1>5, <1>7 DEF AnswersStored, SyncedHeld, NewcomerReleased
  <2>4. Accounted
    BY DEF Init, Accounted
  <2>5. ReleasedHeld /\ OneSyncs
    BY DEF Init, ReleasedHeld, OneSyncs
  <2>6. QED
    BY <2>2, <2>3, <2>4, <2>5 DEF Ledger
<1>10. QED
  BY <1>3, <1>4, <1>6, <1>8, <1>9 DEF Inv

LEMMA NextInv == Inv /\ [Next]_vars => Inv'
<1> SUFFICES ASSUME Inv, [Next]_vars PROVE Inv'
  OBVIOUS
<1>1. ASSUME NEW t \in Tab, SyncStep(t) PROVE Inv'
  BY <1>1, HoldInv, PushNothingInv, StartPushInv, FinishPushInv, PullInv, ReplayPageInv,
     WriteCursorInv, EndPullInv, OutcomeInv, ServeInv DEF SyncStep
<1>8. ASSUME NEW t \in Tab, PruneStep(t) PROVE Inv'
  BY <1>8, SaveCursorInv, ListSentInv, ListSeenInv, DropSentInv, DropSeenInv, EndPruneInv DEF PruneStep
<1>9. ASSUME NEW t \in Tab, FoldStep(t) PROVE Inv'
  BY <1>9, DropFoldedInv, InsertFoldedInv, AbandonFoldInv DEF FoldStep
<1>2. ASSUME NEW t \in Tab, ResetStep(t) PROVE Inv'
  BY <1>2, WipeRowsInv, WipeTablesInv, ForgetInv DEF ResetStep
<1>3. ASSUME NEW t \in Tab, Continue(t) PROVE Inv'
  BY <1>1, <1>2, <1>3, <1>8, UnparkInv, ReplayInv, FinishRetryInv DEF Continue
<1>4. ASSUME NEW t \in Tab, Start(t) PROVE Inv'
  BY <1>4, StartSyncInv, StartRetryInv, DiscardInv, StartPruneInv, StartResetInv DEF Start
<1>5. CASE Next
  BY <1>3, <1>4, <1>5, <1>9, BeginFoldInv, AddInv, CrashInv, TickInv, OtherInv, SwapInv DEF Next
<1>6. CASE UNCHANGED vars
  <2>1. UNCHANGED <<config, outbox, dead, parked, inbox, meta, shown, log, backend, edits, fold,
                    nextEid, nextClient, tab, holder, lost>>
    BY <1>6 DEF vars, tables, server, editing, ghosts
  <2>2. TablesOK' /\ JobsOK' /\ LockHeld'
    BY <2>1 DEF Inv, TablesOK, FoldsOK, FoldOK, RowOK, Bodied, JobsOK, LockHeld
  <2>3. Known' = Known /\ LogEids' = LogEids /\ LogEdits' = LogEdits /\ Synced' = Synced
        /\ Apart' = Apart
    BY <2>1 DEF Known, LogEids, LogEdits, Synced, Pending, Apart
  <2>4. Drawn' /\ ClaimedOnce'
    BY <2>1, <2>3, FoldsStill DEF Inv, Drawn, ClaimedOnce
  <2>5. ASSUME Guarded PROVE Ledger'
    <3>1. Ledger
      BY <2>5 DEF Inv
    <3>2. \A e : Sent(e)' = Sent(e)
      BY <2>1 DEF Sent
    <3>3. CopiesAgree' /\ FoldsAgree'
      BY <2>1, <2>3, <3>1, <3>2, AgreeKept, FoldsKept DEF Inv, Ledger
    <3>4. EditsOf(outbox) \subseteq Kept' /\ InFolds \subseteq Kept'
      BY <2>1, RowsKept, FoldsStill DEF Kept
    <3>5. QED
      BY <2>1, <2>3, <3>1, <3>3, <3>4, GrownLedger
  <2>6. QED
    BY <2>2, <2>4, <2>5 DEF Inv
<1>7. QED
  BY <1>5, <1>6

(* Every reachable state satisfies the invariant: rows, jobs, the lock and *)
(* ids for any instance, and the ledger when the server's store is not     *)
(* replaced under tabs that sync side by side.                             *)
THEOREM Invariance == Spec => []Inv
<1>1. Init => Inv
  BY InitInv
<1>2. Inv /\ [Next]_vars => Inv'
  BY NextInv
<1>3. QED
  BY <1>1, <1>2, PTL DEF Spec

(* The tables and the jobs keep their types, for any number of tabs.       *)
THEOREM TypeCorrect == Spec => []TypeOK
BY Invariance, InvTypes, PTL

LEMMA InvKeepsEdits ==
  ASSUME Guarded, Inv
  PROVE  NothingLost
<1>0. Drawn /\ Ledger
  BY DEF Inv
<1> SUFFICES ASSUME NEW n \in 1..edits
             PROVE  \/ n \in EditsOf(Bodies(outbox, Pending)) \cup EditsOf(dead)
                    \/ \E i \in DOMAIN log : n \in log[i].edits
                    \/ \E t \in Tab : n \in fold[t].gone
                    \/ n \in lost.discarded \cup lost.swept \cup lost.unsent \cup lost.torn \cup lost.pruned
                    \/ backend > 1 /\ n \in lost.released
                    \/ backend # meta.seen /\ n \in EditsOf(Bodies(outbox, Synced))
  BY DEF NothingLost
<1>1. n \in LogEdits => \E i \in DOMAIN log : n \in log[i].edits
  BY DEF LogEdits
<1>2. backend \in Nat /\ backend >= 1
  BY DEF Inv, TablesOK
<1>3. CASE n \in Away
  BY <1>0, <1>1, <1>2, <1>3 DEF Away, Apart, Ledger, ReleasedHeld
<1>4. CASE n \in EditsOf(outbox)
  <2>1. PICK e \in DOMAIN outbox : n \in outbox[e].edits
    BY <1>4, EditsFrom
  <2>2. CASE e \in Pending
    <3>1. outbox[e].edits \subseteq EditsOf(Bodies(outbox, Pending))
      BY <2>2, BodiesAre, EditsIn
    <3>2. QED
      BY <2>1, <3>1
  <2>3. CASE e \in Synced
    <3>1. outbox[e].edits \subseteq EditsOf(Bodies(outbox, Synced))
      BY <2>3, BodiesAre, EditsIn
    <3>2. CASE e \in LogEids
      <4>1. outbox[e].edits \subseteq LogEdits \cup Apart
        BY <1>0, <3>2, StoredEdits DEF Ledger
      <4>2. QED
        BY <1>1, <2>1, <4>1 DEF Apart
    <3>3. CASE meta.seen \notin {None, backend}
      BY <2>1, <3>1, <3>3
    <3>4. CASE outbox[e].edits \subseteq Away
      BY <1>3, <2>1, <3>4
    <3>5. QED
      BY <1>0, <2>3, <3>2, <3>3, <3>4 DEF Ledger, SyncedHeld
  <2>4. QED
    BY <2>2, <2>3 DEF Synced
<1>5. CASE n \in EditsOf(dead) \cup lost.discarded \cup lost.swept \cup lost.pruned \cup InFolds
  BY <1>5 DEF InFolds
<1>6. QED
  BY <1>0, <1>3, <1>4, <1>5 DEF Ledger, Accounted

(* Whatever any number of tabs do side by side, no edit is lost but by the *)
(* ways NothingLost names: without a lock, as long as the store of the     *)
(* server is not replaced.                                                 *)
THEOREM NothingIsLost ==
  ASSUME Guarded
  PROVE  Spec => []NothingLost
<1>1. Inv => NothingLost
  BY InvKeepsEdits
<1>2. QED
  BY <1>1, Invariance, PTL

-----------------------------------------------------------------------------
(* What makes CursorHonest inductive.                                      *)

(* An event that CursorHonest accounts for; and a cursor that is honest.   *)
Covered    == shown \cup Unresolved \cup DOMAIN parked \cup lost.waived
Reached(p) == p <= Len(log) /\ \A i \in 1..p : log[i].eid \in Covered

(* The event e was made, or last folded, under the client id c.            *)
IsOf(e, c) ==
  \/ e \in DOMAIN outbox /\ outbox[e].by = c
  \/ e \in DOMAIN dead /\ dead[e].by = c
  \/ \E t \in Tab : e \in DOMAIN tab[t].wire /\ tab[t].wire[e].by = c
  \/ \E i \in DOMAIN log : log[i].eid = e /\ log[i].by = c
  \/ \E t \in Tab : \E i \in DOMAIN tab[t].page : tab[t].page[i].eid = e /\ tab[t].page[i].by = c

(* A client id is new when it is drawn, and a store is seen in its turn.   *)
Clients ==
  /\ meta.client \in Nat /\ 0 < meta.client /\ meta.client < nextClient
  /\ \A t \in Tab : tab[t].client \in Nat /\ 0 < tab[t].client /\ tab[t].client < nextClient
  /\ \A t \in Tab : fold[t].by \in Nat /\ fold[t].by < nextClient
  /\ \A c \in Nat : nextClient <= c => \A e : ~IsOf(e, c)
  /\ \A t \in Tab : At(t, "prune") =>
       /\ tab[t].epoch[1] \in Nat /\ tab[t].epoch[1] <= meta.client
       /\ tab[t].epoch[1] = meta.client => tab[t].epoch[2] \in Nat /\ tab[t].epoch[2] <= meta.seen
  /\ backend <= config.swaps + 1

(* No dead letter of a replaced store is retried.                          *)
Retries(c) == \E t \in Tab : "retry" \in c.jobs[t]
OneHistory == \A c \in Configs : Retries(c) => c.swaps = 0

(* Whatever may become the cursor while the server and the client id stay. *)
InEpoch(t) == At(t, "prune") /\ tab[t].epoch = Epoch
Marks ==
  {meta.cursor} \cup {inbox[e].seq : e \in DOMAIN inbox}
    \cup {parked[e] : e \in IF Retries(config) THEN DOMAIN parked ELSE {}}
    \cup {tab[t].cursor : t \in {u \in Tab : At(u, "page") \/ InEpoch(u)}}
    \cup {tab[t].cursor + Len(tab[t].page) : t \in {u \in Tab : At(u, "turn")}}

PagesOfLog ==
  \A t \in Tab : At(t, "page") =>
    /\ tab[t].cursor + Len(tab[t].page) <= Len(log)
    /\ \A i \in OnPage(t) : log[tab[t].cursor + i].eid = tab[t].page[i].eid

(* A device that knows no server, one that has just been wiped, and one    *)
(* that is neither nor being reset.                                        *)
Newcomer ==
  /\ DOMAIN inbox = {} /\ DOMAIN parked = {} /\ Marks \subseteq {0}
  /\ \A t \in Tab : ~At(t, "page") /\ ~At(t, "turn")
Wiped == DOMAIN inbox = {} /\ DOMAIN parked = {} /\ DOMAIN outbox \subseteq shown
Settled ==
  /\ DOMAIN outbox \subseteq shown /\ \A e : IsOf(e, meta.client) => e \in shown
  /\ DOMAIN inbox \subseteq Covered
  /\ meta.seen = backend => PagesOfLog /\ \A p \in Marks : Reached(p)

Honest ==
  (config.lock /\ ~spoilt) =>
    /\ meta.seen = None => Newcomer
    /\ (\E t \in Tab : At(t, "forget")) => Wiped
    /\ ~Resetting => Settled

HonestInv == Inv /\ Clients /\ Honest

-----------------------------------------------------------------------------
(* Who has an event, and what a step may do to a job.                      *)

LEMMA Holders ==
  /\ \A e \in DOMAIN outbox : IsOf(e, outbox[e].by)
  /\ \A e \in DOMAIN dead : IsOf(e, dead[e].by)
  /\ \A i \in DOMAIN log : IsOf(log[i].eid, log[i].by)
  /\ \A t \in Tab : /\ \A e \in DOMAIN tab[t].wire : IsOf(e, tab[t].wire[e].by)
                    /\ \A i \in OnPage(t) : IsOf(tab[t].page[i].eid, tab[t].page[i].by)
BY DEF IsOf, OnPage

(* A fold keeps the client id it has, or takes that of its tab.            *)
FoldClients ==
  fold' = fold \/ \A u \in Tab : fold'[u].by \in {None, fold[u].by, tab[u].client}

(* The job has taken nothing that was not there.                           *)
Takes(u) ==
  /\ \A e \in DOMAIN tab'[u].wire : IsOf(e, tab'[u].wire[e].by)
  /\ \A i \in DOMAIN tab'[u].page : IsOf(tab'[u].page[i].eid, tab'[u].page[i].by)

LEMMA TakesSame ==
  ASSUME NEW u \in Tab, tab'[u].wire = tab[u].wire, tab'[u].page = tab[u].page
  PROVE  Takes(u)
BY Holders DEF Takes, OnPage

LEMMA TakesNone ==
  ASSUME NEW u \in Tab, DOMAIN tab'[u].wire = {}, tab'[u].page = <<>>
  PROVE  Takes(u)
BY DEF Takes

(* What one tab does to its job: no page, no turn and no wiping begins.    *)
Resets == {"wipe tables", "forget"}
Special == Resets \cup {"page", "turn"}
Tame(t) ==
  /\ \A u \in Tab : u # t => tab'[u] = tab[u]
  /\ tab[t].phase \in Resets => spoilt'
  /\ tab'[t].phase \notin Special
  /\ tab'[t].phase = "prune" => tab'[t].epoch = Epoch /\ tab'[t].cursor \in Marks
  /\ tab'[t].client \in {tab[t].client, meta.client}
  /\ Takes(t)

LEMMA GoTame ==
  ASSUME JobsOK, NEW t \in Tab, NEW p, Go(t, p), p \notin Special \cup {"prune"},
         tab[t].phase \notin Resets
  PROVE  Tame(t) /\ tab'[t].phase = p
<1>1. JobShape(tab[t]) /\ tab' = [tab EXCEPT ![t].phase = p]
  BY DEF JobsOK, JobOK, Go
<1>2. /\ \A u \in Tab : u # t => tab'[u] = tab[u]
      /\ tab'[t] = [tab[t] EXCEPT !.phase = p]
  BY <1>1 DEF JobsOK
<1>3. /\ tab'[t].phase = p /\ tab'[t].client = tab[t].client /\ tab'[t].page = tab[t].page
      /\ tab'[t].wire = tab[t].wire
  BY <1>1, <1>2 DEF JobShape, Has, Fields
<1>4. QED
  BY <1>2, <1>3, TakesSame DEF Tame

LEMMA RestTame ==
  ASSUME JobsOK, NEW t \in Tab, Rest(t), tab[t].phase \notin Resets
  PROVE  Tame(t) /\ tab'[t].phase = "idle"
<1>1. /\ \A u \in Tab : u # t => tab'[u] = tab[u]
      /\ tab'[t] = Resting(tab[t].client)
  BY DEF JobsOK, Rest
<1>2. /\ tab'[t].phase = "idle" /\ tab'[t].client = tab[t].client /\ tab'[t].page = <<>>
      /\ DOMAIN tab'[t].wire = {}
  BY <1>1, EmptyIs DEF Resting
<1>3. QED
  BY <1>1, <1>2, TakesNone DEF Tame, Special, Resets

(* A job begins anew, with nothing.                                        *)
LEMMA BeginTame ==
  ASSUME JobsOK, NEW t \in Tab, NEW c \in {tab[t].client, meta.client}, NEW j,
         tab' = [tab EXCEPT ![t] = j], tab[t].phase \in Resets => spoilt',
         j.client = c, j.page = <<>>, DOMAIN j.wire = {}, j.phase \notin Special \cup {"prune"}
  PROVE  Tame(t)
<1>1. tab'[t] = j /\ \A u \in Tab : u # t => tab'[u] = tab[u]
  BY DEF JobsOK
<1>2. QED
  BY <1>1, TakesNone DEF Tame

(* Where the events of the outbox, the dead letters and the server are     *)
(* from: they were there, a tab has made them or another device has.       *)
Sourced ==
  /\ \A e \in DOMAIN outbox' :
       \/ IsOf(e, outbox'[e].by)
       \/ /\ \E u \in Tab : outbox'[e].by \in {tab[u].client, fold[u].by}
          /\ e \in DOMAIN outbox \cup shown'
  /\ \A e \in DOMAIN dead' : IsOf(e, dead'[e].by)
  /\ \A i \in DOMAIN log' : log'[i].by = Others \/ IsOf(log'[i].eid, log'[i].by)

LEMMA SourcedSame ==
  ASSUME log' = log, dead' = dead,
         \A e \in DOMAIN outbox' : e \in DOMAIN outbox /\ outbox'[e].by = outbox[e].by
  PROVE  Sourced
BY Holders DEF Sourced

(* The client c has what it had, and what it has made now.                 *)
LEMMA Origins ==
  ASSUME Sourced, \A u \in Tab : tab'[u] = tab[u] \/ Takes(u), NEW c, NEW e, IsOf(e, c)'
  PROVE  \/ IsOf(e, c)
         \/ c = Others
         \/ /\ \E u \in Tab : c \in {tab[u].client, fold[u].by}
            /\ e \in DOMAIN outbox \cup shown'
<1>1. \A u \in Tab : Takes(u)
  BY TakesSame
<1>2. \/ e \in DOMAIN outbox' /\ outbox'[e].by = c
      \/ e \in DOMAIN dead' /\ dead'[e].by = c
      \/ \E t \in Tab : e \in DOMAIN tab'[t].wire /\ tab'[t].wire[e].by = c
      \/ \E i \in DOMAIN log' : log'[i].eid = e /\ log'[i].by = c
      \/ \E t \in Tab : \E i \in DOMAIN tab'[t].page : tab'[t].page[i].eid = e /\ tab'[t].page[i].by = c
  BY DEF IsOf
<1>3. QED
  BY <1>1, <1>2 DEF Sourced, Takes

(* What may become the cursor is a place.                                  *)
LEMMA MarksType ==
  ASSUME TablesOK, JobsOK
  PROVE  \A p \in Marks : p \in Nat
<1>1. meta.cursor \in Nat /\ \A e \in DOMAIN inbox : inbox[e].seq \in Nat
  BY TabsAssumption DEF TablesOK
<1>2. \A e \in DOMAIN parked : parked[e] \in Nat
  BY TabsAssumption DEF TablesOK
<1>3. \A t \in Tab : tab[t].cursor \in Nat /\ tab[t].cursor + Len(tab[t].page) \in Nat
  BY TabsAssumption DEF JobsOK, JobOK
<1>4. QED
  BY <1>1, <1>2, <1>3 DEF Marks

LEMMA MarksTypeNext ==
  ASSUME TablesOK', JobsOK'
  PROVE  \A p \in Marks' : p \in Nat
<1>1. meta'.cursor \in Nat /\ \A e \in DOMAIN inbox' : inbox'[e].seq \in Nat
  BY TabsAssumption DEF TablesOK
<1>2. \A e \in DOMAIN parked' : parked'[e] \in Nat
  BY TabsAssumption DEF TablesOK
<1>3. \A t \in Tab : tab'[t].cursor \in Nat /\ tab'[t].cursor + Len(tab'[t].page) \in Nat
  BY TabsAssumption DEF JobsOK, JobOK
<1>4. QED
  BY <1>1, <1>2, <1>3 DEF Marks

(* What comes before an honest cursor is an honest cursor, and the log may *)
(* grow meanwhile.                                                         *)
LogGrows == Len(log) <= Len(log') /\ \A i \in 1..Len(log) : log'[i] = log[i]

LEMMA ReachedKept ==
  ASSUME TablesOK, TablesOK', LogGrows, Covered \subseteq Covered',
         NEW q \in Nat, Reached(q), NEW p \in Nat, p <= q
  PROVE  Reached(p)'
<1>1. Len(log) \in Nat /\ Len(log') \in Nat
  BY DEF TablesOK
<1>2. p <= Len(log')
  BY <1>1 DEF Reached, LogGrows
<1>3. ASSUME NEW i \in 1..p PROVE log'[i].eid \in Covered'
  <2>1. i \in 1..q /\ i \in 1..Len(log)
    BY <1>1 DEF Reached
  <2>2. QED
    BY <2>1 DEF Reached, LogGrows
<1>4. QED
  BY <1>2, <1>3 DEF Reached

(* A step that takes back nothing.                                         *)
Keeps ==
  /\ config' = config /\ (spoilt => spoilt')
  /\ meta'.client = meta.client /\ meta'.seen = meta.seen
  /\ shown \subseteq shown' /\ Covered \subseteq Covered'
  /\ DOMAIN outbox' \subseteq DOMAIN outbox \cup shown'
  /\ \A e : IsOf(e, meta.client)' => IsOf(e, meta.client) \/ e \in DOMAIN outbox \cup shown'
  /\ DOMAIN inbox' \subseteq DOMAIN inbox \cup Covered'
  /\ DOMAIN inbox' \cup DOMAIN parked' \subseteq DOMAIN inbox \cup DOMAIN parked
  /\ \A p \in Marks' : \E q \in Marks : p <= q
  /\ meta.seen = backend' => backend' = backend /\ LogGrows
  /\ \A u \in Tab : \/ tab'[u] = tab[u]
                    \/ /\ tab'[u].phase \notin Resets \cup {"page", "turn"}
                       /\ tab[u].phase \in Resets => spoilt'

LEMMA KeepsHonest ==
  ASSUME Inv, Inv', Honest, Keeps
  PROVE  Honest'
<1> SUFFICES ASSUME config.lock, ~spoilt'
             PROVE  /\ meta'.seen = None => Newcomer'
                    /\ (\E t \in Tab : At(t, "forget")') => Wiped'
                    /\ ~Resetting' => Settled'
  BY DEF Honest, Keeps
<1>0. TablesOK /\ JobsOK /\ TablesOK' /\ JobsOK' /\ ~spoilt
  BY DEF Inv, Keeps
<1>1. /\ meta.seen = None => Newcomer
      /\ (\E t \in Tab : At(t, "forget")) => Wiped
      /\ ~Resetting => Settled
  BY <1>0 DEF Honest
<1>2. /\ \A p \in Marks : p \in Nat
      /\ \A p \in Marks' : p \in Nat /\ \E q \in Marks : p <= q
  BY <1>0, MarksType, MarksTypeNext DEF Keeps
<1>3. ASSUME meta'.seen = None PROVE Newcomer'
  <2>1. Newcomer
    BY <1>1, <1>3 DEF Keeps
  <2>2. Marks' \subseteq {0}
    BY <1>2, <2>1 DEF Newcomer
  <2>3. DOMAIN inbox' = {} /\ DOMAIN parked' = {}
    BY <2>1 DEF Newcomer, Keeps
  <2>4. \A t \in Tab : ~(tab'[t].phase = "page") /\ ~(tab'[t].phase = "turn")
    BY <2>1 DEF Newcomer, Keeps, At
  <2>5. QED
    BY <2>2, <2>3, <2>4 DEF Newcomer, At
<1>4. ASSUME NEW t \in Tab, At(t, "forget")' PROVE Wiped'
  <2>1. At(t, "forget")
    BY <1>4 DEF At, Keeps, Resets
  <2>2. Wiped
    BY <1>1, <2>1
  <2>3. QED
    BY <2>2 DEF Wiped, Keeps
<1>5. ASSUME ~Resetting' PROVE Settled'
  <2>1. ~Resetting
    BY <1>5 DEF Resetting, Keeps, Resets
  <2>2. Settled
    BY <1>1, <2>1
  <2>3. DOMAIN outbox' \subseteq shown' /\ \A e : IsOf(e, meta.client)' => e \in shown'
    BY <2>2 DEF Settled, Keeps
  <2>4. DOMAIN inbox' \subseteq Covered'
    BY <2>2 DEF Settled, Keeps
  <2>5. ASSUME meta'.seen = backend' PROVE PagesOfLog' /\ \A p \in Marks' : Reached(p)'
    <3>1. meta.seen = backend /\ LogGrows
      BY <2>5 DEF Keeps
    <3>2. PagesOfLog /\ \A p \in Marks : Reached(p)
      BY <2>2, <3>1 DEF Settled
    <3>3. ASSUME NEW p \in Marks' PROVE Reached(p)'
      <4>1. PICK q \in Marks : p <= q
        BY <1>2
      <4>2. p \in Nat /\ q \in Nat /\ Reached(q) /\ Covered \subseteq Covered'
        BY <1>2, <3>2, <4>1 DEF Keeps
      <4>3. QED
        BY <1>0, <3>1, <4>1, <4>2, ReachedKept
    <3>4. ASSUME NEW t \in Tab, tab'[t].phase = "page"
          PROVE  /\ tab'[t].cursor + Len(tab'[t].page) <= Len(log')
                 /\ \A i \in DOMAIN tab'[t].page : log'[tab'[t].cursor + i].eid = tab'[t].page[i].eid
      <4>1. tab'[t] = tab[t]
        BY <3>4 DEF Keeps
      <4>2. /\ tab[t].cursor + Len(tab[t].page) <= Len(log)
            /\ \A i \in DOMAIN tab[t].page : log[tab[t].cursor + i].eid = tab[t].page[i].eid
        BY <3>2, <3>4, <4>1 DEF PagesOfLog, At, OnPage
      <4>3. /\ Len(log) \in Nat /\ Len(log') \in Nat /\ tab[t].cursor \in Nat
            /\ DOMAIN tab[t].page = 1..Len(tab[t].page) /\ Len(tab[t].page) \in Nat
        <5>1. Len(log) \in Nat /\ Len(log') \in Nat
          BY <1>0 DEF TablesOK
        <5>2. tab[t].page \in Seq(Stored) /\ tab[t].cursor \in Nat
          BY <1>0, TabsAssumption DEF JobsOK, JobOK
        <5>3. QED
          BY <5>1, <5>2
      <4>4. \A i \in DOMAIN tab[t].page : tab[t].cursor + i \in 1..Len(log)
        BY <4>2, <4>3
      <4>5. QED
        BY <3>1, <4>1, <4>2, <4>3, <4>4 DEF LogGrows
    <3>5. QED
      BY <3>3, <3>4 DEF PagesOfLog, At, OnPage
  <2>6. QED
    BY <2>3, <2>4, <2>5 DEF Settled
<1>6. QED
  BY <1>3, <1>4, <1>5

(* The places of a step are those before it, or come before one of them.   *)
LEMMA MarksBelow ==
  ASSUME TablesOK, JobsOK, config' = config,
         meta'.client = meta.client, meta'.seen = meta.seen,
         \E q \in Marks : meta'.cursor <= q,
         \A e \in DOMAIN inbox' : \E q \in Marks : inbox'[e].seq <= q,
         Retries(config) => \A e \in DOMAIN parked' : \E q \in Marks : parked'[e] <= q,
         \A u \in Tab : \/ tab'[u] = tab[u]
                        \/ tab'[u].phase \notin {"page", "turn", "prune"}
                        \/ tab'[u].phase = "prune" /\ \E q \in Marks : tab'[u].cursor <= q
  PROVE  \A p \in Marks' : \E q \in Marks : p <= q
<1> SUFFICES ASSUME NEW p \in Marks' PROVE \E q \in Marks : p <= q
  OBVIOUS
<1>1. \A q \in Marks : q <= q
  BY MarksType
<1>2. \/ p = meta'.cursor \/ \E e \in DOMAIN inbox' : p = inbox'[e].seq
      \/ Retries(config) /\ \E e \in DOMAIN parked' : p = parked'[e]
      \/ \E u \in Tab : (At(u, "page")' \/ InEpoch(u)') /\ p = tab'[u].cursor
      \/ \E u \in Tab : At(u, "turn")' /\ p = tab'[u].cursor + Len(tab'[u].page)
  BY DEF Marks
<1>3. ASSUME NEW u \in Tab, At(u, "page")' \/ InEpoch(u)', p = tab'[u].cursor
      PROVE  \E q \in Marks : p <= q
  <2>1. CASE tab'[u] = tab[u]
    <3>1. At(u, "page") \/ InEpoch(u)
      BY <1>3, <2>1 DEF At, InEpoch, Epoch
    <3>2. p \in Marks
      BY <1>3, <2>1, <3>1 DEF Marks
    <3>3. QED
      BY <1>1, <3>2
  <2>2. CASE tab'[u] # tab[u]
    BY <1>3, <2>2 DEF At, InEpoch
  <2>3. QED
    BY <2>1, <2>2
<1>4. ASSUME NEW u \in Tab, At(u, "turn")', p = tab'[u].cursor + Len(tab'[u].page)
      PROVE  \E q \in Marks : p <= q
  <2>1. tab'[u] = tab[u]
    BY <1>4 DEF At
  <2>2. At(u, "turn")
    BY <1>4, <2>1 DEF At
  <2>3. p \in Marks
    BY <1>4, <2>1, <2>2 DEF Marks
  <2>4. QED
    BY <1>1, <2>3
<1>5. QED
  BY <1>2, <1>3, <1>4

LEMMA MarksHave ==
  /\ meta.cursor \in Marks
  /\ \A e \in DOMAIN inbox : inbox[e].seq \in Marks
  /\ Retries(config) => \A e \in DOMAIN parked : parked[e] \in Marks
BY DEF Marks

(* The cursor that is read is one of the places.                           *)
LEMMA CursorMarked ==
  ASSUME TablesOK
  PROVE  CursorOf(meta, inbox) \in Marks
<1>1. meta.cursor \in 0..MaxEvents /\ \A e \in DOMAIN inbox : inbox[e].seq \in 0..MaxEvents
  BY TabsAssumption DEF TablesOK
<1>2. \/ CursorOf(meta, inbox) = meta.cursor
      \/ \E e \in DOMAIN inbox : CursorOf(meta, inbox) = inbox[e].seq
  BY <1>1, CursorIs
<1>3. QED
  BY <1>2, MarksHave

(* A step that is not special, as far as clients go.                       *)
LEMMA ClientsKept ==
  ASSUME Inv, Inv', Clients, Sourced, FoldClients, config' = config, nextClient' = nextClient,
         meta'.client = meta.client, meta.seen <= meta'.seen, backend' <= config.swaps + 1,
         \A u \in Tab : \/ tab'[u] = tab[u]
                        \/ /\ tab'[u].client \in {tab[u].client, meta.client}
                           /\ tab'[u].phase = "prune" => tab'[u].epoch = Epoch
                           /\ Takes(u)
  PROVE  Clients'
<1>1. nextClient \in Nat /\ meta.seen \in Nat /\ meta'.seen \in Nat
  BY DEF Inv, TablesOK
<1>2. meta'.client \in Nat /\ 0 < meta'.client /\ meta'.client < nextClient'
  BY DEF Clients
<1>3. \A t \in Tab : tab'[t].client \in Nat /\ 0 < tab'[t].client /\ tab'[t].client < nextClient'
  BY DEF Clients
<1>4. ASSUME NEW c \in Nat, nextClient' <= c, NEW e PROVE ~IsOf(e, c)'
  <2>1. ~IsOf(e, c)
    BY <1>4 DEF Clients
  <2>2. c # Others /\ \A u \in Tab : tab[u].client # c /\ fold[u].by # c
    BY <1>1, <1>4 DEF Clients, Others
  <2>3. QED
    BY <2>1, <2>2, Origins
<1>5. ASSUME NEW t \in Tab, tab'[t].phase = "prune"
      PROVE  /\ tab'[t].epoch[1] \in Nat /\ tab'[t].epoch[1] <= meta'.client
             /\ tab'[t].epoch[1] = meta'.client =>
                  tab'[t].epoch[2] \in Nat /\ tab'[t].epoch[2] <= meta'.seen
  <2>1. CASE tab'[t] = tab[t]
    BY <1>1, <1>5, <2>1 DEF Clients, At
  <2>2. CASE tab'[t].epoch = Epoch
    BY <1>1, <2>2 DEF Clients, Epoch
  <2>3. QED
    BY <1>5, <2>1, <2>2
<1>6. \A t \in Tab : fold'[t].by \in Nat /\ fold'[t].by < nextClient'
  BY <1>1 DEF Clients, FoldClients, None
<1>7. QED
  BY <1>2, <1>3, <1>4, <1>5, <1>6 DEF Clients, At

(* The client of the device has what it had, and what it has made now.     *)
LEMMA OwnKept ==
  ASSUME Clients, Sourced, \A u \in Tab : tab'[u] = tab[u] \/ Takes(u),
         meta'.client = meta.client
  PROVE  \A e : IsOf(e, meta.client)' => IsOf(e, meta.client) \/ e \in DOMAIN outbox \cup shown'
<1>1. PICK c : c = meta.client
  OBVIOUS
<1>2. c # Others /\ c = meta'.client
  BY <1>1 DEF Clients, Others
<1>3. \A e : IsOf(e, c)' => IsOf(e, c) \/ e \in DOMAIN outbox \cup shown'
  BY <1>2, Origins
<1>4. \A e : IsOf(e, meta.client)' => IsOf(e, c)'
  BY <1>2 DEF IsOf
<1>5. \A e : IsOf(e, c) => IsOf(e, meta.client)
  BY <1>1
<1>6. QED
  BY <1>3, <1>4, <1>5

(* A step of the tables that goes nowhere new.                             *)
LEMMA TableStep ==
  ASSUME HonestInv, Inv', Sourced, FoldClients, tab' = tab \/ \E t \in Tab : Tame(t),
         config' = config, spoilt => spoilt', nextClient' = nextClient,
         meta'.client = meta.client, meta'.seen = meta.seen,
         backend' <= config.swaps + 1, meta.seen = backend' => backend' = backend /\ LogGrows,
         shown \subseteq shown', Covered \subseteq Covered',
         DOMAIN outbox' \subseteq DOMAIN outbox \cup shown',
         DOMAIN inbox' \subseteq DOMAIN inbox \cup Covered',
         DOMAIN inbox' \cup DOMAIN parked' \subseteq DOMAIN inbox \cup DOMAIN parked,
         spoilt' \/ \E q \in Marks : meta'.cursor <= q,
         \A e \in DOMAIN inbox' : inbox'[e].seq \in Marks,
         Retries(config) => \A e \in DOMAIN parked' : parked'[e] \in Marks
  PROVE  HonestInv'
<1>1. Inv /\ Clients /\ Honest /\ TablesOK /\ JobsOK
  BY DEF HonestInv, Inv
<1>2. \A u \in Tab : \/ tab'[u] = tab[u]
                     \/ /\ tab'[u].client \in {tab[u].client, meta.client}
                        /\ tab'[u].phase \notin Special
                        /\ tab[u].phase \in Resets => spoilt'
                        /\ tab'[u].phase = "prune" => tab'[u].epoch = Epoch /\ tab'[u].cursor \in Marks
                        /\ Takes(u)
  BY DEF Tame
<1>3. Clients'
  <2>1. meta.seen <= meta'.seen
    BY <1>1 DEF TablesOK
  <2>2. QED
    BY <1>1, <1>2, <2>1, ClientsKept
<1>4. CASE spoilt'
  BY <1>3, <1>4 DEF HonestInv, Honest
<1>5. CASE ~spoilt'
  <2>1. \A q \in Marks : q <= q
    BY <1>1, MarksType
  <2>2. \A p \in Marks' : \E q \in Marks : p <= q
    BY <1>1, <1>2, <1>5, <2>1, MarksBelow DEF Special
  <2>3. \A e : IsOf(e, meta.client)' => IsOf(e, meta.client) \/ e \in DOMAIN outbox \cup shown'
    BY <1>1, <1>2, OwnKept
  <2>4. \A u \in Tab : \/ tab'[u] = tab[u]
                       \/ /\ tab'[u].phase \notin Resets \cup {"page", "turn"}
                          /\ tab[u].phase \in Resets => spoilt'
    BY <1>2 DEF Special
  <2>5. Keeps
    BY <2>2, <2>3, <2>4 DEF Keeps
  <2>6. QED
    BY <1>1, <1>3, <2>5, KeepsHonest DEF HonestInv
<1>6. QED
  BY <1>4, <1>5

(* A step that leaves what was pulled alone.                               *)
LEMMA PlainStep ==
  ASSUME HonestInv, Inv', Sourced, FoldClients, tab' = tab \/ \E t \in Tab : Tame(t),
         UNCHANGED <<config, inbox, parked, backend, nextClient>>,
         spoilt => spoilt', LogGrows,
         meta'.client = meta.client, meta'.seen = meta.seen, meta'.cursor = meta.cursor,
         shown \subseteq shown', lost'.waived = lost.waived,
         DOMAIN outbox' \subseteq DOMAIN outbox \cup shown'
  PROVE  HonestInv'
<1>1. TablesOK /\ JobsOK /\ backend <= config.swaps + 1
  BY DEF HonestInv, Inv, Clients
<1>2. Covered \subseteq Covered'
  BY DEF Covered, Unresolved
<1>3. \E q \in Marks : meta'.cursor <= q
  BY <1>1, MarksType, MarksHave
<1>4. /\ \A e \in DOMAIN inbox' : inbox'[e].seq \in Marks
      /\ Retries(config) => \A e \in DOMAIN parked' : parked'[e] \in Marks
  BY MarksHave
<1>5. QED
  BY <1>1, <1>2, <1>3, <1>4, TableStep

(* A step of a job that touches no table, no id and not the server.        *)
LEMMA JobHonest ==
  ASSUME HonestInv, Inv', NEW t \in Tab, Tame(t), UNCHANGED <<config, tables, server, fold, nextClient>>,
         spoilt => spoilt', lost'.waived = lost.waived
  PROVE  HonestInv'
<1>1. UNCHANGED <<config, outbox, dead, parked, inbox, meta, shown, log, backend, nextClient>>
  BY DEF tables, server
<1>2. TablesOK
  BY DEF HonestInv, Inv
<1>3. LogGrows
  <2>1. Len(log) \in Nat
    BY <1>2 DEF TablesOK
  <2>2. QED
    BY <1>1, <2>1 DEF LogGrows
<1>4. Sourced
  BY <1>1, SourcedSame
<1>5. QED
  BY <1>1, <1>3, <1>4, PlainStep DEF FoldClients

(* The jobs at rest, or that have just begun.                              *)
LEMMA RestingHas ==
  ASSUME NEW c
  PROVE  /\ DOMAIN Resting(c) = Fields
         /\ Resting(c).client = c /\ Resting(c).page = <<>> /\ DOMAIN Resting(c).wire = {}
BY EmptyIs DEF Resting, Fields

LEMMA BeginHas ==
  ASSUME NEW t \in Tab, NEW p
  PROVE  /\ DOMAIN Begin(t, p) = Fields /\ Begin(t, p).phase = p
         /\ Begin(t, p).client = tab[t].client /\ Begin(t, p).page = <<>>
         /\ DOMAIN Begin(t, p).wire = {}
<1>1. /\ DOMAIN Resting(tab[t].client) = Fields
      /\ Resting(tab[t].client).client = tab[t].client
      /\ Resting(tab[t].client).page = <<>> /\ DOMAIN Resting(tab[t].client).wire = {}
  BY RestingHas
<1>2. QED
  BY <1>1 DEF Begin, Fields

LEMMA JobsOf == HonestInv => JobsOK /\ TablesOK
BY DEF HonestInv, Inv

LEMMA StartSyncHonest ==
  ASSUME HonestInv, Inv', NEW t \in Tab, StartSync(t)
  PROVE  HonestInv'
<1> DEFINE j == Begin(t, "decide")
<1>1. Tame(t)
  <2>1. tab[t].phase \notin Resets /\ "decide" \notin Special \cup {"prune"}
    BY DEF StartSync, Starts, At, Resets, Special
  <2>2. tab' = [tab EXCEPT ![t] = j]
    BY DEF StartSync
  <2>3. j.client = tab[t].client /\ j.page = <<>> /\ DOMAIN j.wire = {} /\ j.phase = "decide"
    BY BeginHas
  <2> HIDE DEF j
  <2>4. QED
    BY <2>1, <2>2, <2>3, JobsOf, BeginTame
<1>2. QED
  BY <1>1, JobHonest DEF StartSync, editing, ghosts

LEMMA StartResetHonest ==
  ASSUME HonestInv, Inv', NEW t \in Tab, StartReset(t)
  PROVE  HonestInv'
<1> DEFINE j == [Begin(t, "wipe rows") EXCEPT !.doomed = EditsOf(Bodies(outbox, Pending))]
<1>1. Tame(t)
  <2>1. tab[t].phase \notin Resets /\ "wipe rows" \notin Special \cup {"prune"}
    BY DEF StartReset, Starts, At, Resets, Special
  <2>2. j.client = tab[t].client /\ j.page = <<>> /\ DOMAIN j.wire = {} /\ j.phase = "wipe rows"
    BY BeginHas DEF Fields
  <2>3. tab' = [tab EXCEPT ![t] = j]
    BY DEF StartReset
  <2> HIDE DEF j
  <2>4. QED
    BY <2>1, <2>2, <2>3, JobsOf, BeginTame
<1>2. QED
  BY <1>1, JobHonest DEF StartReset, editing, ghosts

LEMMA StartPruneHonest ==
  ASSUME HonestInv, Inv', NEW t \in Tab, StartPrune(t)
  PROVE  HonestInv'
<1> DEFINE j == [Begin(t, "prune") EXCEPT !.epoch = Epoch, !.cursor = CursorOf(meta, inbox)]
<1>1. Tame(t)
  <2>1. tab[t].phase \notin Resets /\ "prune" \notin Special
    BY DEF StartPrune, Starts, At, Resets, Special
  <2>2. /\ j.client = tab[t].client /\ j.page = <<>> /\ DOMAIN j.wire = {} /\ j.phase = "prune"
        /\ j.epoch = Epoch /\ j.cursor = CursorOf(meta, inbox)
    BY BeginHas DEF Fields
  <2>3. tab' = [tab EXCEPT ![t] = j]
    BY DEF StartPrune
  <2> HIDE DEF j
  <2>4. CursorOf(meta, inbox) \in Marks
    BY JobsOf, CursorMarked
  <2>5. tab'[t] = j /\ \A u \in Tab : u # t => tab'[u] = tab[u]
    BY <2>3, JobsOf DEF JobsOK
  <2>6. QED
    BY <2>1, <2>2, <2>4, <2>5, TakesNone DEF Tame
<1>2. QED
  BY <1>1, JobHonest DEF StartPrune, editing, ghosts

LEMMA HoldHonest ==
  ASSUME HonestInv, Inv', NEW t \in Tab, Hold(t)
  PROVE  HonestInv'
<1>1. Tame(t)
  <2>1. tab[t].phase \notin Resets /\ AfterPush(t) \notin Special \cup {"prune"}
    BY DEF Hold, At, Resets, Special, AfterPush
  <2>2. QED
    BY <2>1, JobsOf, GoTame DEF Hold
<1>2. QED
  BY <1>1, JobHonest DEF Hold, editing, ghosts

LEMMA PushNothingHonest ==
  ASSUME HonestInv, Inv', NEW t \in Tab, PushNothing(t)
  PROVE  HonestInv'
<1> DEFINE j == [tab[t] EXCEPT !.phase = AfterPush(t), !.push = Pushed(t, "done")]
<1>1. Tame(t)
  <2>1. tab[t].phase \notin Resets /\ AfterPush(t) \notin Special \cup {"prune"}
    BY DEF PushNothing, At, Resets, Special, AfterPush
  <2>2. j.client = tab[t].client /\ j.page = tab[t].page /\ j.wire = tab[t].wire
        /\ j.phase = AfterPush(t)
    BY JobsOf DEF JobsOK, JobOK, JobShape, Has, Fields
  <2>3. tab'[t] = j /\ \A u \in Tab : u # t => tab'[u] = tab[u]
    BY JobsOf DEF PushNothing, JobsOK
  <2> HIDE DEF j
  <2>4. QED
    BY <2>1, <2>2, <2>3, TakesSame DEF Tame
<1>2. QED
  BY <1>1, JobHonest DEF PushNothing, editing, ghosts

LEMMA StartPushHonest ==
  ASSUME HonestInv, Inv', NEW t \in Tab, StartPush(t)
  PROVE  HonestInv'
<1> DEFINE w == Bodies(outbox, Due)
           j == [tab[t] EXCEPT !.phase = "sent", !.wire = w]
<1>1. Tame(t)
  <2>1. tab[t].phase \notin Resets /\ "sent" \notin Special \cup {"prune"}
    BY DEF StartPush, At, Resets, Special
  <2>2. j.client = tab[t].client /\ j.page = tab[t].page /\ j.wire = w /\ j.phase = "sent"
    BY JobsOf DEF JobsOK, JobOK, JobShape, Has, Fields
  <2>3. tab'[t] = j /\ \A u \in Tab : u # t => tab'[u] = tab[u]
    BY JobsOf DEF StartPush, JobsOK
  <2> HIDE DEF j
  <2>4. Due \subseteq DOMAIN outbox
    BY DEF Due, Pending
  <2>5. \A e \in DOMAIN w : e \in DOMAIN outbox /\ w[e].by = outbox[e].by
    BY <2>4, BodiesAre
  <2> HIDE DEF w
  <2>6. Takes(t)
    BY <2>2, <2>3, <2>5, Holders DEF Takes, OnPage
  <2>7. QED
    BY <2>1, <2>2, <2>3, <2>6 DEF Tame
<1>2. QED
  BY <1>1, JobHonest DEF StartPush, editing, ghosts

LEMMA EndPullHonest ==
  ASSUME HonestInv, Inv', NEW t \in Tab, EndPull(t)
  PROVE  HonestInv'
<1> DEFINE p == IF tab[t].requeued THEN "decide" ELSE "outcome"
           j == [Resting(tab[t].client) EXCEPT !.push = tab[t].push, !.again = tab[t].requeued,
                                               !.phase = p]
<1>1. Tame(t)
  <2>1. tab[t].phase \notin Resets /\ p \notin Special \cup {"prune"}
    BY DEF EndPull, At, Resets, Special
  <2> HIDE DEF p
  <2>2. j.client = tab[t].client /\ j.page = <<>> /\ DOMAIN j.wire = {} /\ j.phase = p
    BY RestingHas DEF Fields
  <2>3. tab' = [tab EXCEPT ![t] = j]
    BY DEF EndPull, p
  <2> HIDE DEF j
  <2>4. QED
    BY <2>1, <2>2, <2>3, JobsOf, BeginTame
<1>2. QED
  BY <1>1, JobHonest DEF EndPull, editing, ghosts

(* A tab that has no fold any more.                                        *)
LEMMA DropsFold ==
  ASSUME TablesOK, NEW t \in Tab, fold' = [fold EXCEPT ![t] = NoFold]
  PROVE  FoldClients
<1>1. fold'[t] = NoFold /\ \A u \in Tab : u # t => fold'[u] = fold[u]
  BY DEF TablesOK, FoldsOK
<1>2. NoFold.by = None
  BY DEF NoFold
<1>3. QED
  BY <1>1, <1>2 DEF FoldClients

LEMMA CrashHonest ==
  ASSUME HonestInv, Inv', NEW t \in Tab, Crash(t)
  PROVE  HonestInv'
<1> DEFINE j == [Resting(meta.client) EXCEPT !.phase = "replay"]
<1>1. Tame(t)
  <2>1. "replay" \notin Special \cup {"prune"} /\ (tab[t].phase \in Resets => spoilt')
    BY DEF Crash, Resets, Special
  <2>2. j.client = meta.client /\ j.page = <<>> /\ DOMAIN j.wire = {} /\ j.phase = "replay"
    BY RestingHas DEF Fields
  <2>3. tab' = [tab EXCEPT ![t] = j]
    BY DEF Crash
  <2> HIDE DEF j
  <2>4. QED
    BY <2>1, <2>2, <2>3, JobsOf, BeginTame
<1>2. UNCHANGED <<config, outbox, dead, parked, inbox, meta, shown, log, backend, nextClient>>
      /\ (spoilt => spoilt')
  BY DEF Crash, tables, server
<1>3. lost'.waived = lost.waived
  <2>1. Has(lost, {"discarded", "swept", "unsent", "torn", "pruned", "released", "waived"})
    BY JobsOf DEF TablesOK
  <2>2. QED
    BY <2>1 DEF Crash, Lose, Has
<1>4. FoldClients
  BY JobsOf, DropsFold DEF Crash
<1>5. LogGrows
  BY <1>2, JobsOf DEF LogGrows, TablesOK
<1>6. QED
  BY <1>1, <1>2, <1>3, <1>4, <1>5, SourcedSame, PlainStep

LEMMA OutcomeHonest ==
  ASSUME HonestInv, Inv', NEW t \in Tab, Outcome(t)
  PROVE  HonestInv'
<1>1. tab[t].phase \notin Resets /\ "replay" \notin Special \cup {"prune"}
  BY DEF Outcome, At, Resets, Special
<1>2. Tame(t)
  BY <1>1, JobsOf, GoTame, RestTame DEF Outcome
<1>3. /\ UNCHANGED <<config, outbox, dead, parked, inbox, shown, log, backend, fold, nextClient, lost, spoilt>>
      /\ meta'.client = meta.client /\ meta'.seen = meta.seen /\ meta'.cursor = meta.cursor
  <2>1. Has(meta, {"client", "cursor", "seen", "lastSync"})
    BY JobsOf DEF TablesOK
  <2>2. QED
    BY <2>1 DEF Outcome, server, editing, ghosts, Has
<1>4. LogGrows
  BY <1>3, JobsOf DEF LogGrows, TablesOK
<1>5. QED
  BY <1>2, <1>3, <1>4, SourcedSame, PlainStep DEF FoldClients

LEMMA ServeHonest ==
  ASSUME HonestInv, Inv', NEW t \in Tab, NEW a, Serve(t, a)
  PROVE  HonestInv'
<1> DEFINE q == IF tab[t].phase = "sent" THEN "answered" ELSE "reanswered"
           j == [tab[t] EXCEPT !.answer = a,
                               !.turned = IF a = "stored" THEN {} ELSE Unstored(t), !.phase = q]
<1>1. Tame(t)
  <2>1. tab[t].phase \notin Resets /\ q \notin Special \cup {"prune"}
    BY DEF Serve, Resets, Special
  <2>2. tab'[t] = j /\ \A u \in Tab : u # t => tab'[u] = tab[u]
    BY JobsOf DEF Serve, JobsOK
  <2> HIDE DEF q
  <2>3. j.client = tab[t].client /\ j.page = tab[t].page /\ j.wire = tab[t].wire /\ j.phase = q
    BY JobsOf DEF JobsOK, JobOK, JobShape, Has, Fields
  <2> HIDE DEF j
  <2>4. QED
    BY <2>1, <2>2, <2>3, TakesSame DEF Tame
<1>2. UNCHANGED <<config, outbox, dead, parked, inbox, meta, shown, backend, fold, nextClient,
                  lost, spoilt>>
  BY DEF Serve, tables, editing, ghosts
<1>3. /\ log \in Seq(Stored) /\ log' \in Seq(Stored)
      /\ \A i \in DOMAIN log : i \in DOMAIN log' /\ log'[i] = log[i]
      /\ \A i \in DOMAIN log' :
           \/ i \in DOMAIN log /\ log'[i] = log[i]
           \/ \E e \in DOMAIN tab[t].wire : log'[i] = Entry(t, e)
  BY JobsOf, ServedLog DEF HonestInv, Inv, TablesOK
<1>4. LogGrows
  <2>1. /\ Len(log) \in Nat /\ DOMAIN log = 1..Len(log)
        /\ Len(log') \in Nat /\ DOMAIN log' = 1..Len(log')
    BY <1>3
  <2>2. Len(log) <= Len(log')
    BY <1>3, <2>1
  <2>3. QED
    BY <1>3, <2>1, <2>2 DEF LogGrows
<1>5. Sourced
  <2>1. \A i \in DOMAIN log' : IsOf(log'[i].eid, log'[i].by)
    BY <1>3, Holders DEF Entry
  <2>2. QED
    BY <1>2, <2>1, Holders DEF Sourced
<1>6. QED
  BY <1>1, <1>2, <1>4, <1>5, PlainStep DEF FoldClients

LEMMA FinishPushHonest ==
  ASSUME HonestInv, Inv', NEW t \in Tab, FinishPush(t)
  PROVE  HonestInv'
<1> DEFINE later == DOMAIN tab[t].wire \ (Confirmed(t) \cup Refused(t))
           fails == tab[t].answer = "unreached" \/ ~(later \subseteq DOMAIN outbox)
           j == [Resting(tab[t].client) EXCEPT
                   !.again = tab[t].again, !.phase = AfterPush(t),
                   !.push = Pushed(t, IF fails THEN "failed" ELSE "done")]
<1>1. Tame(t)
  <2>1. tab[t].phase \notin Resets /\ AfterPush(t) \notin Special \cup {"prune"}
    BY DEF FinishPush, At, Resets, Special, AfterPush
  <2>2. tab' = [tab EXCEPT ![t] = j]
    BY DEF FinishPush
  <2> HIDE DEF fails
  <2>3. j.client = tab[t].client /\ j.page = <<>> /\ DOMAIN j.wire = {} /\ j.phase = AfterPush(t)
    BY RestingHas DEF Fields
  <2> HIDE DEF j
  <2>4. QED
    BY <2>1, <2>2, <2>3, JobsOf, BeginTame
<1>2. UNCHANGED <<config, parked, inbox, meta, shown, log, backend, fold, nextClient, spoilt>>
  BY DEF FinishPush, server, editing
<1>3. lost'.waived = lost.waived
  <2>1. Has(lost, {"discarded", "swept", "unsent", "torn", "pruned", "released", "waived"})
    BY JobsOf DEF TablesOK
  <2>2. QED
    BY <2>1 DEF FinishPush, Lose, Has
<1>4. \A e \in DOMAIN outbox' : e \in DOMAIN outbox /\ outbox'[e].by = outbox[e].by
  <2>1. \A e \in DOMAIN outbox : Has(outbox[e], {"edits", "by", "synced", "waits", "age"})
    BY JobsOf DEF TablesOK, RowOK
  <2>2. outbox' = [e \in DOMAIN outbox \ Refused(t) |->
                     [outbox[e] EXCEPT !.synced = @ \/ e \in Confirmed(t), !.waits = @ \/ e \in later]]
    BY DEF FinishPush
  <2> HIDE DEF later
  <2>3. QED
    BY <2>1, <2>2 DEF Has
<1>5. \A e \in DOMAIN dead' : IsOf(e, dead'[e].by)
  <2>1. Refused(t) \subseteq DOMAIN tab[t].wire
    BY DEF HonestInv, Inv, Drawn, FinishPush, At, Refused
  <2>2. dead' = Join(Bodies(tab[t].wire, Refused(t)), dead)
    BY DEF FinishPush
  <2> DEFINE b == Bodies(tab[t].wire, Refused(t))
  <2>3. DOMAIN b = Refused(t) /\ \A e \in Refused(t) : b[e].by = tab[t].wire[e].by
    BY BodiesAre
  <2> HIDE DEF b
  <2>4. dead' = Join(b, dead)
    BY <2>2 DEF b
  <2>5. \A e \in DOMAIN dead' : \/ e \in DOMAIN dead /\ dead'[e] = dead[e]
                                \/ e \in DOMAIN b /\ dead'[e] = b[e]
    BY <2>4 DEF Join
  <2>6. QED
    BY <2>1, <2>3, <2>5, Holders
<1>6. LogGrows
  BY <1>2, JobsOf DEF LogGrows, TablesOK
<1>7. Sourced
  BY <1>2, <1>4, <1>5, Holders DEF Sourced
<1>8. QED
  BY <1>1, <1>2, <1>3, <1>4, <1>6, <1>7, PlainStep DEF FoldClients

LEMMA FinishRetryHonest ==
  ASSUME HonestInv, Inv', NEW t \in Tab, FinishRetry(t)
  PROVE  HonestInv'
<1>1. Tame(t)
  <2>1. tab[t].phase \notin Resets
    BY DEF FinishRetry, At, Resets
  <2>2. QED
    BY <2>1, JobsOf, RestTame DEF FinishRetry
<1>2. UNCHANGED <<config, outbox, parked, inbox, meta, shown, log, backend, fold, nextClient, spoilt>>
  BY DEF FinishRetry, server, editing
<1>3. lost'.waived = lost.waived
  <2>1. Has(lost, {"discarded", "swept", "unsent", "torn", "pruned", "released", "waived"})
    BY JobsOf DEF TablesOK
  <2>2. QED
    BY <2>1 DEF FinishRetry, Lose, Has
<1>4. \A e \in DOMAIN dead' : IsOf(e, dead'[e].by)
  <2>1. dead' = Without(dead, Confirmed(t))
    BY DEF FinishRetry
  <2>2. \A e \in DOMAIN dead' : e \in DOMAIN dead /\ dead'[e] = dead[e]
    BY <2>1 DEF Without
  <2>3. QED
    BY <2>2, Holders
<1>5. LogGrows
  BY <1>2, JobsOf DEF LogGrows, TablesOK
<1>6. Sourced
  BY <1>2, <1>4, Holders DEF Sourced
<1>7. QED
  BY <1>1, <1>2, <1>3, <1>5, <1>6, PlainStep DEF FoldClients

LEMMA TickHonest ==
  ASSUME HonestInv, Inv', Tick
  PROVE  HonestInv'
<1>1. UNCHANGED <<config, dead, parked, inbox, shown, log, backend, nextClient, tab, lost, spoilt>>
  BY DEF Tick, server, editing, ghosts
<1>2. /\ meta'.client = meta.client /\ meta'.seen = meta.seen /\ meta'.cursor = meta.cursor
  <2>1. Has(meta, {"client", "cursor", "seen", "lastSync"})
    BY JobsOf DEF TablesOK
  <2>2. QED
    BY <2>1 DEF Tick, Has
<1>3. \A e \in DOMAIN outbox' : e \in DOMAIN outbox /\ outbox'[e].by = outbox[e].by
  <2>1. \A e \in DOMAIN outbox : Has(outbox[e], {"edits", "by", "synced", "waits", "age"})
    BY JobsOf DEF TablesOK, RowOK
  <2>2. QED
    BY <2>1 DEF Tick, Has
<1>4. LogGrows
  BY <1>1, JobsOf DEF LogGrows, TablesOK
<1>5. FoldClients
  <2>1. FoldsOK
    BY JobsOf DEF TablesOK
  <2>2. fold' = [u \in Tab |-> [fold[u] EXCEPT !.age = IF Folding(u) THEN Older(@) ELSE @]]
    BY DEF Tick
  <2>3. \A u \in Tab : fold'[u].by = fold[u].by
    BY <2>1, <2>2 DEF FoldsOK, FoldOK, Has
  <2>4. QED
    BY <2>3 DEF FoldClients
<1>6. QED
  BY <1>1, <1>2, <1>3, <1>4, <1>5, SourcedSame, PlainStep

LEMMA OtherHonest ==
  ASSUME HonestInv, Inv', Other
  PROVE  HonestInv'
<1> DEFINE x == [eid |-> nextEid, edits |-> {}, by |-> Others]
<1>1. UNCHANGED <<config, outbox, dead, parked, inbox, meta, shown, backend, fold, nextClient, tab,
                  lost, spoilt>>
  BY DEF Other, tables, ghosts
<1>2. log \in Seq(Stored) /\ x \in Stored /\ log' = Append(log, x) /\ x.by = Others
  BY JobsOf DEF TablesOK, Stored, Others, Other
<1> HIDE DEF x
<1>3. /\ Len(log) \in Nat /\ Len(log') = Len(log) + 1 /\ DOMAIN log' = 1..Len(log')
      /\ DOMAIN log = 1..Len(log)
      /\ \A i \in 1..Len(log) : log'[i] = log[i]
      /\ log'[Len(log) + 1] = x
  BY <1>2
<1>4. LogGrows
  BY <1>3 DEF LogGrows
<1>5. \A i \in DOMAIN log' : log'[i].by = Others \/ IsOf(log'[i].eid, log'[i].by)
  <2>1. \A i \in DOMAIN log' : i \in DOMAIN log \/ i = Len(log) + 1
    BY <1>3
  <2>2. QED
    BY <1>2, <1>3, <2>1, Holders
<1>6. Sourced
  BY <1>1, <1>5, Holders DEF Sourced
<1>7. QED
  BY <1>1, <1>4, <1>6, PlainStep DEF FoldClients

LEMMA AddHonest ==
  ASSUME HonestInv, Inv', NEW t \in Tab, Add(t)
  PROVE  HonestInv'
<1> DEFINE x == [edits |-> {edits'}, by |-> tab[t].client, synced |-> FALSE,
                 waits |-> FALSE, age |-> 0]
<1>1. UNCHANGED <<config, dead, parked, inbox, meta, log, backend, fold, nextClient, tab, lost, spoilt>>
      /\ shown' = shown \cup {nextEid}
  BY DEF Add, server, ghosts
<1>2. outbox' = Join(outbox, [e \in {nextEid} |-> x]) /\ x.by = tab[t].client
  BY DEF Add
<1> HIDE DEF x
<1>3. \A e \in DOMAIN outbox' : \/ e \in DOMAIN outbox /\ outbox'[e] = outbox[e]
                                \/ e = nextEid /\ outbox'[e].by = tab[t].client
  <2> DEFINE g == [e \in {nextEid} |-> x]
  <2>1. DOMAIN g = {nextEid} /\ g[nextEid] = x
    OBVIOUS
  <2>2. outbox' = Join(outbox, g)
    BY <1>2
  <2> HIDE DEF g
  <2>3. \A e \in DOMAIN outbox' : \/ e \in DOMAIN outbox /\ outbox'[e] = outbox[e]
                                  \/ e \in DOMAIN g /\ outbox'[e] = g[e]
    BY <2>2 DEF Join
  <2>4. PICK i : i = nextEid
    OBVIOUS
  <2>5. \A e \in DOMAIN outbox' : \/ e \in DOMAIN outbox /\ outbox'[e] = outbox[e]
                                  \/ e = i /\ outbox'[e] = x
    BY <2>1, <2>3, <2>4
  <2>6. QED
    BY <1>2, <2>4, <2>5
<1>4. LogGrows
  BY <1>1, JobsOf DEF LogGrows, TablesOK
<1>5. Sourced
  BY <1>1, <1>3, Holders DEF Sourced
<1>6. QED
  BY <1>1, <1>3, <1>4, <1>5, PlainStep DEF FoldClients

(* An edit that is folded: the event stays one of this device, and one     *)
(* that its rows show.                                                     *)
LEMMA BeginFoldHonest ==
  ASSUME HonestInv, Inv', NEW t \in Tab, BeginFold(t)
  PROVE  HonestInv'
<1>1. UNCHANGED <<config, outbox, dead, parked, inbox, meta, shown, log, backend, nextClient, tab,
                  lost, spoilt>>
  BY DEF BeginFold, tables, server, ghosts
<1>2. FoldClients
  <2> DEFINE f == [into |-> Oldest(FoldTail(t)), left |-> FoldTail(t), by |-> tab[t].client,
                   edits |-> {edits'} \cup EditsOf([e \in FoldTail(t) |-> outbox[e]]),
                   age |-> outbox[Oldest(FoldTail(t))].age, gone |-> {edits'}]
  <2>1. fold' = [fold EXCEPT ![t] = f] /\ f.by = tab[t].client
    BY DEF BeginFold
  <2> HIDE DEF f
  <2>2. fold'[t] = f /\ \A u \in Tab : u # t => fold'[u] = fold[u]
    BY <2>1, JobsOf DEF TablesOK, FoldsOK
  <2>3. QED
    BY <2>1, <2>2 DEF FoldClients
<1>3. LogGrows
  BY <1>1, JobsOf DEF LogGrows, TablesOK
<1>4. QED
  BY <1>1, <1>2, <1>3, SourcedSame, PlainStep

LEMMA DropFoldedHonest ==
  ASSUME HonestInv, Inv', NEW t \in Tab, DropFolded(t)
  PROVE  HonestInv'
<1>1. UNCHANGED <<config, dead, parked, inbox, meta, shown, log, backend, nextClient, tab, lost, spoilt>>
  BY DEF DropFolded, server, ghosts
<1>2. PICK e : /\ outbox' = Without(outbox, {e})
               /\ fold' = [fold EXCEPT ![t].left = @ \ {e}, ![t].gone = @ \cup outbox[e].edits]
  BY DEF DropFolded
<1>3. FoldClients
  <2>1. Has(fold[t], {"into", "left", "edits", "by", "age", "gone"})
    BY JobsOf DEF TablesOK, FoldsOK, FoldOK
  <2>2. /\ fold'[t] = [fold[t] EXCEPT !.left = @ \ {e}, !.gone = @ \cup outbox[e].edits]
        /\ \A u \in Tab : u # t => fold'[u] = fold[u]
    BY <1>2, JobsOf DEF TablesOK, FoldsOK
  <2>3. fold'[t].by = fold[t].by
    BY <2>1, <2>2 DEF Has
  <2>4. QED
    BY <2>2, <2>3 DEF FoldClients
<1>4. \A f \in DOMAIN outbox' : f \in DOMAIN outbox /\ outbox'[f].by = outbox[f].by
  BY <1>2 DEF Without
<1>5. LogGrows
  BY <1>1, JobsOf DEF LogGrows, TablesOK
<1>6. QED
  BY <1>1, <1>3, <1>4, <1>5, SourcedSame, PlainStep

LEMMA InsertFoldedHonest ==
  ASSUME HonestInv, Inv', NEW t \in Tab, InsertFolded(t)
  PROVE  HonestInv'
<1> DEFINE x == [edits |-> fold[t].edits, by |-> fold[t].by, synced |-> FALSE, waits |-> FALSE,
                 age |-> fold[t].age]
           g == [e \in {fold[t].into} |-> x]
<1>1. UNCHANGED <<config, dead, parked, inbox, meta, log, backend, nextClient, tab, spoilt>>
      /\ shown' = shown \cup {fold[t].into}
  BY DEF InsertFolded, server
<1>2. lost'.waived = lost.waived
  <2>1. Has(lost, {"discarded", "swept", "unsent", "torn", "pruned", "released", "waived"})
    BY JobsOf DEF TablesOK
  <2>2. QED
    BY <2>1 DEF InsertFolded, Has
<1>3. outbox' = Join(outbox, g)
  BY DEF InsertFolded
<1>4. DOMAIN g = {fold[t].into} /\ g[fold[t].into].by = fold[t].by
  OBVIOUS
<1> HIDE DEF g
<1>5. \A e \in DOMAIN outbox' : \/ e \in DOMAIN outbox /\ outbox'[e] = outbox[e]
                                \/ e = fold[t].into /\ outbox'[e].by = fold[t].by
  BY <1>3, <1>4 DEF Join
<1>6. Sourced
  BY <1>1, <1>5, Holders DEF Sourced
<1>7. FoldClients
  BY JobsOf, DropsFold DEF InsertFolded
<1>8. LogGrows
  BY <1>1, JobsOf DEF LogGrows, TablesOK
<1>9. DOMAIN outbox' \subseteq DOMAIN outbox \cup shown'
  BY <1>1, <1>5
<1>10. QED
  BY <1>1, <1>2, <1>6, <1>7, <1>8, <1>9, PlainStep

LEMMA AbandonFoldHonest ==
  ASSUME HonestInv, Inv', NEW t \in Tab, AbandonFold(t)
  PROVE  HonestInv'
<1>1. UNCHANGED <<config, outbox, dead, parked, inbox, meta, shown, log, backend, nextClient, tab, spoilt>>
  BY DEF AbandonFold, tables, server
<1>2. lost'.waived = lost.waived
  <2>1. Has(lost, {"discarded", "swept", "unsent", "torn", "pruned", "released", "waived"})
    BY JobsOf DEF TablesOK
  <2>2. QED
    BY <2>1 DEF AbandonFold, Lose, Has
<1>3. FoldClients
  BY JobsOf, DropsFold DEF AbandonFold
<1>4. LogGrows
  BY <1>1, JobsOf DEF LogGrows, TablesOK
<1>5. QED
  BY <1>1, <1>2, <1>3, <1>4, SourcedSame, PlainStep

-----------------------------------------------------------------------------
(* The jobs without the lock, the cursor of a pull and a new store.        *)

LEMMA ResendTame ==
  ASSUME JobsOK, NEW t \in Tab, Resend(t), tab[t].phase \notin Resets
  PROVE  Tame(t)
<1>1. "resent" \notin Special \cup {"prune"}
  BY DEF Special, Resets
<1>2. QED
  BY <1>1, GoTame, RestTame DEF Resend

LEMMA StartRetryHonest ==
  ASSUME HonestInv, Inv', NEW t \in Tab, StartRetry(t)
  PROVE  HonestInv'
<1>1. PICK S \in SUBSET (DOMAIN dead \cup DOMAIN parked) :
        /\ inbox' = Join(inbox, [e \in S \cap DOMAIN parked |-> [seq |-> PlaceOf(e), done |-> FALSE]])
        /\ tab' = [tab EXCEPT ![t] = [Begin(t, "unpark") EXCEPT
                     !.doomed = S \cap DOMAIN parked, !.wire = Bodies(dead, S \cap DOMAIN dead)]]
  BY DEF StartRetry
<1> DEFINE w == Bodies(dead, S \cap DOMAIN dead)
           j == [Begin(t, "unpark") EXCEPT !.doomed = S \cap DOMAIN parked, !.wire = w]
           back == [e \in S \cap DOMAIN parked |-> [seq |-> PlaceOf(e), done |-> FALSE]]
<1>2. Tame(t)
  <2>1. tab[t].phase \notin Resets /\ "unpark" \notin Special \cup {"prune"}
    BY DEF StartRetry, Starts, At, Resets, Special
  <2>2. j.client = tab[t].client /\ j.page = <<>> /\ j.wire = w /\ j.phase = "unpark"
    BY BeginHas DEF Fields
  <2>3. tab'[t] = j /\ \A u \in Tab : u # t => tab'[u] = tab[u]
    BY <1>1, JobsOf DEF JobsOK
  <2> HIDE DEF j
  <2>4. \A e \in DOMAIN w : e \in DOMAIN dead /\ w[e].by = dead[e].by
    BY BodiesAre
  <2> HIDE DEF w
  <2>5. Takes(t)
    BY <2>2, <2>3, <2>4, Holders DEF Takes
  <2>6. QED
    BY <2>1, <2>2, <2>3, <2>5 DEF Tame
<1>3. UNCHANGED <<config, outbox, dead, parked, meta, shown, log, backend, fold, nextClient, lost, spoilt>>
      /\ Retries(config)
  BY DEF StartRetry, Starts, Retries, server, editing, ghosts
<1>4. \A e \in DOMAIN back : e \in DOMAIN parked /\ back[e].seq = PlaceOf(e) /\ ~back[e].done
  OBVIOUS
<1>5. inbox' = Join(inbox, back)
  BY <1>1
<1> HIDE DEF j, w, back
<1>6. \A e \in DOMAIN inbox' : \/ e \in DOMAIN back /\ inbox'[e] = back[e]
                               \/ e \in DOMAIN inbox /\ inbox'[e] = inbox[e]
  BY <1>5 DEF Join
<1>7. DOMAIN inbox' = DOMAIN inbox \cup DOMAIN back
  BY <1>5 DEF Join
<1>8. \A e \in DOMAIN inbox' : inbox'[e].seq \in Marks
  <2>1. \A e \in DOMAIN parked : PlaceOf(e) \in Marks
    BY <1>3, MarksHave DEF PlaceOf
  <2>2. QED
    BY <1>4, <1>6, <2>1, MarksHave
<1>9. Unresolved \subseteq Unresolved' /\ DOMAIN back \subseteq Unresolved'
  <2>1. \A e \in DOMAIN back : inbox'[e] = back[e]
    BY <1>5 DEF Join
  <2>2. QED
    BY <1>4, <1>6, <1>7, <2>1 DEF Unresolved
<1>10. Covered \subseteq Covered' /\ DOMAIN back \subseteq Covered'
  BY <1>3, <1>9 DEF Covered
<1>11. LogGrows
  BY <1>3, JobsOf DEF LogGrows, TablesOK
<1>12. DOMAIN inbox' \cup DOMAIN parked' \subseteq DOMAIN inbox \cup DOMAIN parked
       /\ DOMAIN inbox' \subseteq DOMAIN inbox \cup Covered'
  BY <1>3, <1>4, <1>7, <1>10
<1>13. \E q \in Marks : meta'.cursor <= q
  BY <1>3, JobsOf, MarksType, MarksHave
<1>14. \A e \in DOMAIN parked' : Retries(config) => parked'[e] \in Marks
  BY <1>3, MarksHave
<1>15. backend' <= config.swaps + 1 /\ Sourced
  BY <1>3, SourcedSame DEF HonestInv, Clients
<1>16. QED
  BY <1>2, <1>3, <1>8, <1>10, <1>11, <1>12, <1>13, <1>14, <1>15, TableStep DEF FoldClients

(* What a replay does to the dead letters.                                 *)
LEMMA ReplaysTo ==
  ASSUME NEW S, NEW seq, Replays(S, seq)
  PROVE  /\ shown \subseteq shown' /\ DOMAIN parked \subseteq DOMAIN parked'
         /\ S \subseteq shown' \cup DOMAIN parked'
         /\ DOMAIN parked' \subseteq DOMAIN parked \cup S
         /\ \A e \in DOMAIN parked' : \/ e \in DOMAIN parked /\ parked'[e] = parked[e]
                                      \/ e \in S /\ parked'[e] = seq[e]
<1>1. PICK bad \in SUBSET S : /\ parked' = Join([e \in bad |-> seq[e]], parked)
                              /\ shown' = shown \cup (S \ bad)
  BY DEF Replays
<1> DEFINE f == [e \in bad |-> seq[e]]
<1>2. DOMAIN f = bad /\ \A e \in bad : f[e] = seq[e]
  OBVIOUS
<1>3. parked' = Join(f, parked)
  BY <1>1
<1> HIDE DEF f
<1>4. DOMAIN parked' = bad \cup DOMAIN parked
  BY <1>2, <1>3 DEF Join
<1>5. \A e \in DOMAIN parked' : \/ e \in DOMAIN parked /\ parked'[e] = parked[e]
                                \/ e \in bad /\ parked'[e] = f[e]
  BY <1>2, <1>3 DEF Join
<1>6. QED
  BY <1>1, <1>2, <1>4, <1>5

LEMMA ReplayHonest ==
  ASSUME HonestInv, Inv', NEW t \in Tab, Replay(t)
  PROVE  HonestInv'
<1> DEFINE seq == [e \in DOMAIN inbox |-> inbox[e].seq]
<1>1. Tame(t)
  <2>1. tab[t].phase \notin Resets
    BY DEF Replay, At, Resets
  <2>2. QED
    BY <2>1, JobsOf, ResendTame DEF Replay
<1>2. UNCHANGED <<config, outbox, dead, meta, log, backend, fold, nextClient, lost, spoilt>>
  BY DEF Replay, server, editing, ghosts
<1>3. DOMAIN inbox' = DOMAIN inbox /\ \A e \in DOMAIN inbox' : inbox'[e].seq = inbox[e].seq
  BY JobsOf DEF Replay, TablesOK, Has
<1>4. \A e \in DOMAIN inbox : seq[e] = inbox[e].seq
  OBVIOUS
<1>5. Replays(Unresolved, seq)
  BY DEF Replay
<1> HIDE DEF seq
<1>6. Unresolved \subseteq DOMAIN inbox
  BY DEF Unresolved
<1>7. Covered \subseteq Covered' /\ shown \subseteq shown'
  BY <1>2, <1>5, ReplaysTo DEF Covered
<1>8. \A e \in DOMAIN inbox' : inbox'[e].seq \in Marks
  BY <1>3, MarksHave
<1>9. Retries(config) => \A e \in DOMAIN parked' : parked'[e] \in Marks
  BY <1>4, <1>5, <1>6, ReplaysTo, MarksHave
<1>10. DOMAIN inbox' \cup DOMAIN parked' \subseteq DOMAIN inbox \cup DOMAIN parked
       /\ DOMAIN inbox' \subseteq DOMAIN inbox \cup Covered'
  BY <1>3, <1>5, <1>6, ReplaysTo
<1>11. LogGrows
  BY <1>2, JobsOf DEF LogGrows, TablesOK
<1>12. \E q \in Marks : meta'.cursor <= q
  BY <1>2, JobsOf, MarksType, MarksHave
<1>13. backend' <= config.swaps + 1 /\ Sourced
  BY <1>2, SourcedSame DEF HonestInv, Clients
<1>14. QED
  BY <1>1, <1>2, <1>7, <1>8, <1>9, <1>10, <1>11, <1>12, <1>13, TableStep DEF FoldClients

(* A step that only takes dead letters and rows of the inbox away, and     *)
(* waives what they stood for.                                             *)
LEMMA ClearingStep ==
  ASSUME HonestInv, Inv', tab' = tab \/ \E t \in Tab : Tame(t),
         UNCHANGED <<config, shown, log, backend, fold, nextClient>>, spoilt => spoilt',
         meta'.client = meta.client, meta'.seen = meta.seen,
         spoilt' \/ \E q \in Marks : meta'.cursor <= q,
         \A e \in DOMAIN outbox' : e \in DOMAIN outbox /\ outbox'[e] = outbox[e],
         \A e \in DOMAIN dead' : e \in DOMAIN dead /\ dead'[e] = dead[e],
         \A e \in DOMAIN parked' : e \in DOMAIN parked /\ parked'[e] = parked[e],
         \A e \in DOMAIN inbox' : e \in DOMAIN inbox /\ inbox'[e] = inbox[e],
         Unresolved \subseteq DOMAIN inbox', lost.waived \subseteq lost'.waived,
         DOMAIN parked \subseteq DOMAIN parked' \cup Unresolved \cup lost'.waived
  PROVE  HonestInv'
<1>1. Unresolved \subseteq Unresolved'
  BY DEF Unresolved
<1>2. Covered \subseteq Covered'
  BY <1>1 DEF Covered
<1>3. \A e \in DOMAIN inbox' : inbox'[e].seq \in Marks
  BY MarksHave
<1>4. Retries(config) => \A e \in DOMAIN parked' : parked'[e] \in Marks
  BY MarksHave
<1>5. DOMAIN inbox' \cup DOMAIN parked' \subseteq DOMAIN inbox \cup DOMAIN parked
      /\ DOMAIN inbox' \subseteq DOMAIN inbox \cup Covered'
      /\ DOMAIN outbox' \subseteq DOMAIN outbox \cup shown'
  OBVIOUS
<1>6. LogGrows
  BY JobsOf DEF LogGrows, TablesOK
<1>7. Sourced
  BY Holders DEF Sourced
<1>8. backend' <= config.swaps + 1
  BY DEF HonestInv, Clients
<1>9. QED
  BY <1>2, <1>3, <1>4, <1>5, <1>6, <1>7, <1>8, TableStep DEF FoldClients

LEMMA UnparkHonest ==
  ASSUME HonestInv, Inv', NEW t \in Tab, Unpark(t)
  PROVE  HonestInv'
<1>1. Tame(t)
  <2>1. tab[t].phase \notin Resets /\ "replay" \notin Special \cup {"prune"}
    BY DEF Unpark, At, Resets, Special
  <2>2. QED
    BY <2>1, JobsOf, ResendTame, GoTame DEF Unpark
<1>2. UNCHANGED <<config, outbox, dead, inbox, meta, shown, log, backend, fold, nextClient, spoilt>>
  BY DEF Unpark, server, editing
<1>3. parked' = Without(parked, tab[t].doomed)
  BY DEF Unpark
<1>4. /\ DOMAIN parked' = DOMAIN parked \ tab[t].doomed
      /\ \A e \in DOMAIN parked' : e \in DOMAIN parked /\ parked'[e] = parked[e]
  BY <1>3 DEF Without
<1>5. lost'.waived = lost.waived \cup (tab[t].doomed \ Unresolved)
  <2>1. Has(lost, {"discarded", "swept", "unsent", "torn", "pruned", "released", "waived"})
    BY JobsOf DEF TablesOK
  <2>2. QED
    BY <2>1 DEF Unpark, Lose, Has
<1>6. \E q \in Marks : meta'.cursor <= q
  BY <1>2, JobsOf, MarksType, MarksHave
<1>7. Unresolved \subseteq DOMAIN inbox'
  BY <1>2 DEF Unresolved
<1>8. QED
  BY <1>1, <1>2, <1>4, <1>5, <1>6, <1>7, ClearingStep

LEMMA DiscardHonest ==
  ASSUME HonestInv, Inv', NEW t \in Tab, Discard(t)
  PROVE  HonestInv'
<1>1. PICK S \in SUBSET (DOMAIN dead \cup DOMAIN parked) :
        /\ dead' = Without(dead, S) /\ parked' = Without(parked, S)
        /\ lost' = [lost EXCEPT !.discarded = @ \cup EditsOf(Bodies(dead, S \cap DOMAIN dead)),
                                !.waived = @ \cup (S \cap DOMAIN parked)]
  BY DEF Discard
<1>2. UNCHANGED <<config, outbox, inbox, meta, shown, log, backend, fold, nextClient, spoilt, tab>>
  BY DEF Discard, server, editing
<1>3. \A e \in DOMAIN dead' : e \in DOMAIN dead /\ dead'[e] = dead[e]
  BY <1>1 DEF Without
<1>4. /\ DOMAIN parked' = DOMAIN parked \ S
      /\ \A e \in DOMAIN parked' : e \in DOMAIN parked /\ parked'[e] = parked[e]
  BY <1>1 DEF Without
<1>5. lost'.waived = lost.waived \cup (S \cap DOMAIN parked)
  <2>1. Has(lost, {"discarded", "swept", "unsent", "torn", "pruned", "released", "waived"})
    BY JobsOf DEF TablesOK
  <2>2. QED
    BY <1>1, <2>1 DEF Has
<1>6. \E q \in Marks : meta'.cursor <= q
  BY <1>2, JobsOf, MarksType, MarksHave
<1>7. Unresolved \subseteq DOMAIN inbox'
  BY <1>2 DEF Unresolved
<1>8. QED
  BY <1>2, <1>3, <1>4, <1>5, <1>6, <1>7, ClearingStep

LEMMA SaveCursorHonest ==
  ASSUME HonestInv, Inv', NEW t \in Tab, SaveCursor(t)
  PROVE  HonestInv'
<1>1. Tame(t)
  <2>1. tab[t].phase \notin Resets /\ "list sent" \notin Special \cup {"prune"}
    BY DEF SaveCursor, At, Resets, Special
  <2>2. QED
    BY <2>1, JobsOf, GoTame DEF SaveCursor
<1>2. UNCHANGED <<config, outbox, dead, parked, inbox, shown, log, backend, fold, nextClient, lost>>
  BY DEF SaveCursor, server, editing
<1>3. /\ meta'.client = meta.client /\ meta'.seen = meta.seen /\ meta'.cursor = tab[t].cursor
      /\ spoilt => spoilt'
      /\ tab[t].epoch # Epoch /\ meta'.cursor > CursorOf(meta, inbox) => spoilt'
  <2>1. Has(meta, {"client", "cursor", "seen", "lastSync"})
    BY JobsOf DEF TablesOK
  <2>2. QED
    BY <2>1 DEF SaveCursor, Has
<1>4. spoilt' \/ \E q \in Marks : meta'.cursor <= q
  <2>1. CASE tab[t].epoch = Epoch
    <3>1. tab[t].cursor \in Marks
      BY <2>1 DEF Marks, InEpoch, SaveCursor
    <3>2. QED
      BY <1>3, <3>1, JobsOf, MarksType
  <2>2. CASE tab[t].epoch # Epoch /\ ~spoilt'
    <3>1. CursorOf(meta, inbox) \in Marks /\ CursorOf(meta, inbox) \in Nat
      BY JobsOf, CursorMarked, MarksType
    <3>2. meta'.cursor \in Nat
      BY TabsAssumption DEF Inv, TablesOK
    <3>3. ~(meta'.cursor > CursorOf(meta, inbox))
      BY <1>3, <2>2
    <3>4. QED
      BY <3>1, <3>2, <3>3
  <2>3. QED
    BY <2>1, <2>2
<1>5. Unresolved \subseteq DOMAIN inbox'
  BY <1>2 DEF Unresolved
<1>6. QED
  BY <1>1, <1>2, <1>3, <1>4, <1>5, ClearingStep

(* The job of a prune goes on, and has nothing but what it listed.         *)
LEMMA ListsTame ==
  ASSUME JobsOK, NEW t \in Tab, NEW p, NEW f \in {"doomed", "settled"}, NEW x,
         tab' = [tab EXCEPT ![t] = [tab[t] EXCEPT !.phase = p, ![f] = x]],
         p \notin Special \cup {"prune"}, tab[t].phase \notin Resets
  PROVE  Tame(t)
<1>1. tab'[t] = [tab[t] EXCEPT !.phase = p, ![f] = x] /\ \A u \in Tab : u # t => tab'[u] = tab[u]
  BY DEF JobsOK
<1>2. /\ tab'[t].phase = p /\ tab'[t].client = tab[t].client /\ tab'[t].page = tab[t].page
      /\ tab'[t].wire = tab[t].wire
  BY <1>1 DEF JobsOK, JobOK, JobShape, Has, Fields
<1>3. QED
  BY <1>1, <1>2, TakesSame DEF Tame

LEMMA ListSentHonest ==
  ASSUME HonestInv, Inv', NEW t \in Tab, ListSent(t)
  PROVE  HonestInv'
<1>1. Tame(t)
  <2>1. tab' = [tab EXCEPT ![t] = [tab[t] EXCEPT !.phase = "list seen", !["doomed"] = Synced]]
    BY DEF ListSent
  <2>2. tab[t].phase \notin Resets /\ "list seen" \notin Special \cup {"prune"}
    BY DEF ListSent, At, Resets, Special
  <2>3. QED
    BY <2>1, <2>2, JobsOf, ListsTame
<1>2. QED
  BY <1>1, JobHonest DEF ListSent, editing, ghosts

LEMMA ListSeenHonest ==
  ASSUME HonestInv, Inv', NEW t \in Tab, ListSeen(t)
  PROVE  HonestInv'
<1>1. Tame(t)
  <2>1. tab' = [tab EXCEPT ![t] = [tab[t] EXCEPT !.phase = "drop",
                                                 !["settled"] = DOMAIN inbox \ Unresolved]]
    BY DEF ListSeen
  <2>2. tab[t].phase \notin Resets /\ "drop" \notin Special \cup {"prune"}
    BY DEF ListSeen, At, Resets, Special
  <2>3. QED
    BY <2>1, <2>2, JobsOf, ListsTame
<1>2. QED
  BY <1>1, JobHonest DEF ListSeen, editing, ghosts

LEMMA DropSentHonest ==
  ASSUME HonestInv, Inv', NEW t \in Tab, DropSent(t)
  PROVE  HonestInv'
<1>1. PICK e \in DOMAIN outbox :
        /\ outbox' = Without(outbox, {e})
        /\ Lose(IF outbox[e].synced THEN "released" ELSE "pruned", outbox[e].edits)
        /\ tab' = [tab EXCEPT ![t].doomed = @ \ {e}]
  BY DEF DropSent
<1>2. Tame(t)
  <2>1. tab[t].phase = "drop" /\ JobShape(tab[t])
    BY JobsOf DEF DropSent, At, JobsOK, JobOK
  <2>2. tab' = [tab EXCEPT ![t] = [tab[t] EXCEPT !.phase = "drop", !["doomed"] = @ \ {e}]]
    BY <1>1, <2>1, JobsOf DEF JobShape, Has, Fields, JobsOK
  <2>3. "drop" \notin Special \cup {"prune"} /\ tab[t].phase \notin Resets
    BY <2>1 DEF Resets, Special
  <2>4. QED
    BY <2>2, <2>3, JobsOf, ListsTame
<1>3. UNCHANGED <<config, dead, parked, inbox, meta, shown, log, backend, fold, nextClient, spoilt>>
  BY DEF DropSent, server, editing
<1>4. lost'.waived = lost.waived
  <2>1. Has(lost, {"discarded", "swept", "unsent", "torn", "pruned", "released", "waived"})
    BY JobsOf DEF TablesOK
  <2>2. QED
    BY <1>1, <2>1 DEF Lose, Has
<1>5. \A f \in DOMAIN outbox' : f \in DOMAIN outbox /\ outbox'[f] = outbox[f]
  BY <1>1 DEF Without
<1>6. LogGrows
  BY <1>3, JobsOf DEF LogGrows, TablesOK
<1>7. QED
  BY <1>2, <1>3, <1>4, <1>5, <1>6, SourcedSame, PlainStep DEF FoldClients

(* A row of the inbox that a retry has opened is waived.                   *)
LEMMA DropSeenHonest ==
  ASSUME HonestInv, Inv', NEW t \in Tab, DropSeen(t)
  PROVE  HonestInv'
<1>1. PICK e \in DOMAIN inbox :
        /\ inbox' = Without(inbox, {e})
        /\ Lose("waived", {e} \cap Unresolved)
        /\ tab' = [tab EXCEPT ![t].settled = @ \ {e}]
  BY DEF DropSeen
<1>2. Tame(t)
  <2>1. tab[t].phase = "drop" /\ JobShape(tab[t])
    BY JobsOf DEF DropSeen, At, JobsOK, JobOK
  <2>2. tab' = [tab EXCEPT ![t] = [tab[t] EXCEPT !.phase = "drop", !["settled"] = @ \ {e}]]
    BY <1>1, <2>1, JobsOf DEF JobShape, Has, Fields, JobsOK
  <2>3. "drop" \notin Special \cup {"prune"} /\ tab[t].phase \notin Resets
    BY <2>1 DEF Resets, Special
  <2>4. QED
    BY <2>2, <2>3, JobsOf, ListsTame
<1>3. UNCHANGED <<config, outbox, dead, parked, meta, shown, log, backend, fold, nextClient, spoilt>>
  BY DEF DropSeen, server, editing
<1>4. lost'.waived = lost.waived \cup ({e} \cap Unresolved)
  <2>1. Has(lost, {"discarded", "swept", "unsent", "torn", "pruned", "released", "waived"})
    BY JobsOf DEF TablesOK
  <2>2. QED
    BY <1>1, <2>1 DEF Lose, Has
<1>5. /\ \A f \in DOMAIN inbox' : f \in DOMAIN inbox /\ inbox'[f] = inbox[f]
      /\ Unresolved \subseteq Unresolved' \cup ({e} \cap Unresolved)
  BY <1>1 DEF Without, Unresolved
<1>6. Covered \subseteq Covered'
  BY <1>3, <1>4, <1>5 DEF Covered
<1>7. \E q \in Marks : meta'.cursor <= q
  BY <1>3, JobsOf, MarksType, MarksHave
<1>8. /\ \A f \in DOMAIN inbox' : inbox'[f].seq \in Marks
      /\ Retries(config) => \A f \in DOMAIN parked' : parked'[f] \in Marks
  BY <1>3, <1>5, MarksHave
<1>9. DOMAIN inbox' \cup DOMAIN parked' \subseteq DOMAIN inbox \cup DOMAIN parked
      /\ DOMAIN inbox' \subseteq DOMAIN inbox \cup Covered'
  BY <1>3, <1>5
<1>10. LogGrows
  BY <1>3, JobsOf DEF LogGrows, TablesOK
<1>11. backend' <= config.swaps + 1 /\ Sourced
  BY <1>3, SourcedSame DEF HonestInv, Clients
<1>12. QED
  BY <1>2, <1>3, <1>6, <1>7, <1>8, <1>9, <1>10, <1>11, TableStep DEF FoldClients

LEMMA EndPruneHonest ==
  ASSUME HonestInv, Inv', NEW t \in Tab, EndPrune(t)
  PROVE  HonestInv'
<1>1. Tame(t)
  <2>1. tab[t].phase \notin Resets
    BY DEF EndPrune, At, Resets
  <2>2. QED
    BY <2>1, JobsOf, RestTame DEF EndPrune
<1>2. QED
  BY <1>1, JobHonest DEF EndPrune, editing, ghosts

LEMMA WriteCursorHonest ==
  ASSUME HonestInv, Inv', NEW t \in Tab, WriteCursor(t)
  PROVE  HonestInv'
<1>1. Tame(t)
  <2>1. tab[t].phase \notin Resets /\ "pulled" \notin Special \cup {"prune"}
    BY DEF WriteCursor, At, Resets, Special
  <2>2. QED
    BY <2>1, JobsOf, GoTame DEF WriteCursor
<1>2. UNCHANGED <<config, outbox, dead, parked, inbox, shown, log, backend, fold, nextClient, lost, spoilt>>
  BY DEF WriteCursor, server, editing, ghosts
<1>3. /\ meta'.client = meta.client /\ meta'.seen = meta.seen
      /\ meta'.cursor = tab[t].cursor + Len(tab[t].page)
  <2>1. Has(meta, {"client", "cursor", "seen", "lastSync"})
    BY JobsOf DEF TablesOK
  <2>2. QED
    BY <2>1 DEF WriteCursor, Has
<1>4. meta'.cursor \in Marks
  BY <1>3 DEF Marks, WriteCursor
<1>5. \E q \in Marks : meta'.cursor <= q
  BY <1>4, JobsOf, MarksType
<1>6. Unresolved \subseteq DOMAIN inbox'
  BY <1>2 DEF Unresolved
<1>7. QED
  BY <1>1, <1>2, <1>3, <1>5, <1>6, ClearingStep

LEMMA SwapHonest ==
  ASSUME HonestInv, Inv', Swap
  PROVE  HonestInv'
<1>1. UNCHANGED <<config, outbox, dead, parked, inbox, meta, shown, fold, nextClient, tab, lost, spoilt>>
  BY DEF Swap, tables, editing, ghosts
<1>2. log' = <<>> /\ backend' = backend + 1 /\ backend <= config.swaps
  BY DEF Swap
<1>3. /\ meta.seen \in 0..backend /\ backend \in Nat /\ config.swaps \in Nat
  BY JobsOf, TabsAssumption DEF TablesOK, ConfigType
<1>4. meta.seen # backend' /\ backend' <= config.swaps + 1
  BY <1>2, <1>3
<1>5. Sourced
  BY <1>1, <1>2, Holders DEF Sourced
<1>6. Covered \subseteq Covered'
  BY <1>1 DEF Covered, Unresolved
<1>7. \E q \in Marks : meta'.cursor <= q
  BY <1>1, JobsOf, MarksType, MarksHave
<1>8. /\ \A e \in DOMAIN inbox' : inbox'[e].seq \in Marks
      /\ Retries(config) => \A e \in DOMAIN parked' : parked'[e] \in Marks
  BY <1>1, MarksHave
<1>9. QED
  BY <1>1, <1>4, <1>5, <1>6, <1>7, <1>8, TableStep DEF FoldClients

-----------------------------------------------------------------------------
(* The pull and the reset, which have the lock.                            *)

LEMMA OnlyOne ==
  ASSUME LockHeld, config.lock, NEW t \in Tab, tab[t].phase \in Locked
  PROVE  \A u \in Tab : u # t => tab[u].phase \notin Locked
BY DEF LockHeld

LEMMA ReachedBelow ==
  ASSUME NEW q \in Nat, NEW p \in Nat, p <= q, q <= Len(log'), TablesOK',
         \A i \in 1..q : log'[i].eid \in Covered'
  PROVE  Reached(p)'
<1>1. Len(log') \in Nat
  BY DEF TablesOK
<1>2. p <= Len(log') /\ 1..p \subseteq 1..q
  BY <1>1
<1>3. QED
  BY <1>2 DEF Reached

(* The place of an event of the page is within the page.                   *)
LEMMA PagePlaces ==
  ASSUME JobsOK, NEW t \in Tab
  PROVE  LET eids == {tab[t].page[i].eid : i \in OnPage(t)}
             seq  == [e \in eids |-> tab[t].cursor + CHOOSE i \in OnPage(t) : tab[t].page[i].eid = e]
         IN  \A e \in eids : seq[e] <= tab[t].cursor + Len(tab[t].page)
<1> DEFINE eids == {tab[t].page[i].eid : i \in OnPage(t)}
           place(e) == CHOOSE i \in OnPage(t) : tab[t].page[i].eid = e
<1>1. /\ OnPage(t) = 1..Len(tab[t].page) /\ Len(tab[t].page) \in Nat /\ tab[t].cursor \in Nat
  BY TabsAssumption DEF JobsOK, JobOK, OnPage
<1>2. \A e \in eids : place(e) \in OnPage(t)
  OBVIOUS
<1> HIDE DEF place
<1>3. \A e \in eids : tab[t].cursor + place(e) <= tab[t].cursor + Len(tab[t].page)
  BY <1>1, <1>2
<1>4. QED
  BY <1>3 DEF place

LEMMA ReplayPageHonest ==
  ASSUME HonestInv, Inv', NEW t \in Tab, ReplayPage(t)
  PROVE  HonestInv'
<1> DEFINE eids == {tab[t].page[i].eid : i \in OnPage(t)}
           seq  == [e \in eids |-> tab[t].cursor + CHOOSE i \in OnPage(t) : tab[t].page[i].eid = e]
           end  == tab[t].cursor + Len(tab[t].page)
<1>1. UNCHANGED <<config, outbox, dead, meta, log, backend, fold, nextClient, lost>>
      /\ (spoilt => spoilt')
  BY DEF ReplayPage, server, editing
<1>2. /\ Replays(Fresh(t), seq)
      /\ inbox' = Join(inbox, [e \in eids |-> [seq |-> seq[e], done |-> TRUE]])
  BY DEF ReplayPage
<1>3. \A i \in OnPage(t) : Own(t, i) /\ tab[t].page[i].eid \notin shown =>
                             spoilt' \/ tab[t].client = meta.client
  BY DEF ReplayPage
<1>4. \A e \in eids : seq[e] <= end
  BY JobsOf, PagePlaces
<1>5. Fresh(t) \subseteq eids
  BY DEF Fresh
<1>6. /\ \A e \in DOMAIN inbox' : \/ e \in eids /\ inbox'[e].seq = seq[e]
                                  \/ e \in DOMAIN inbox /\ inbox'[e] = inbox[e]
      /\ DOMAIN inbox' = DOMAIN inbox \cup eids
      /\ \A e \in DOMAIN inbox \ eids : inbox'[e] = inbox[e]
  <2> DEFINE f == [e \in eids |-> [seq |-> seq[e], done |-> TRUE]]
  <2>1. DOMAIN f = eids /\ \A e \in eids : f[e].seq = seq[e]
    OBVIOUS
  <2>2. inbox' = Join(inbox, f)
    BY <1>2
  <2> HIDE DEF f, eids, seq
  <2>3. DOMAIN inbox' = DOMAIN inbox \cup eids
    BY <2>1, <2>2 DEF Join
  <2>4. /\ \A e \in eids : inbox'[e] = f[e]
        /\ \A e \in DOMAIN inbox \ eids : inbox'[e] = inbox[e]
    BY <2>1, <2>2 DEF Join
  <2>5. QED
    BY <2>1, <2>3, <2>4
<1>7. /\ \A u \in Tab : u # t => tab'[u] = tab[u]
      /\ tab[t].phase = "page" /\ tab'[t].phase = "turn" /\ tab'[t].client = tab[t].client
      /\ tab'[t].page = tab[t].page /\ tab'[t].cursor = tab[t].cursor /\ Takes(t)
  <2>1. JobShape(tab[t]) /\ tab' = [tab EXCEPT ![t].phase = "turn"]
    BY JobsOf DEF JobsOK, JobOK, Go, ReplayPage
  <2>2. /\ \A u \in Tab : u # t => tab'[u] = tab[u]
        /\ tab'[t] = [tab[t] EXCEPT !.phase = "turn"]
    BY <2>1, JobsOf DEF JobsOK
  <2>3. /\ tab'[t].phase = "turn" /\ tab'[t].client = tab[t].client /\ tab'[t].page = tab[t].page
        /\ tab'[t].wire = tab[t].wire /\ tab'[t].cursor = tab[t].cursor
    BY <2>1, <2>2 DEF JobShape, Has, Fields
  <2>4. tab[t].phase = "page"
    BY DEF ReplayPage, At
  <2>5. QED
    BY <2>2, <2>3, <2>4, TakesSame
<1> HIDE DEF eids, seq, end
<1>8. Sourced
  BY <1>1, SourcedSame
<1>9. Clients'
  <2>1. meta.seen <= meta'.seen /\ backend' <= config.swaps + 1
    BY <1>1, JobsOf DEF TablesOK, HonestInv, Clients
  <2>2. QED
    BY <1>1, <1>7, <1>8, <2>1, ClientsKept DEF HonestInv, FoldClients
<1>10. ASSUME config.lock, ~spoilt' PROVE /\ meta'.seen = None => Newcomer'
                                          /\ (\E u \in Tab : At(u, "forget")') => Wiped'
                                          /\ ~Resetting' => Settled'
  <2>1. \A u \in Tab : u # t => tab[u].phase \notin Locked
    BY <1>7, <1>10, OnlyOne DEF HonestInv, Inv, Locked
  <2>2. \A u \in Tab : /\ tab[u].phase \notin Resets /\ tab'[u].phase \notin Resets
                       /\ tab'[u].phase # "page" /\ (tab'[u].phase = "turn" => u = t)
    BY <1>7, <2>1 DEF Locked, Resets
  <2>3. Settled /\ (meta.seen = None => Newcomer)
    BY <1>1, <1>10, <2>2 DEF HonestInv, Honest, Resetting, Resets
  <2>4. meta'.seen # None
    BY <1>1, <1>7, <2>3 DEF Newcomer, At
  <2>5. eids \subseteq shown' \cup DOMAIN parked' \cup lost.waived
    <3> SUFFICES ASSUME NEW i \in OnPage(t)
                 PROVE  tab[t].page[i].eid \in shown' \cup DOMAIN parked' \cup lost.waived
      BY DEF eids
    <3>1. CASE Own(t, i)
      <4>1. tab[t].client = meta.client => tab[t].page[i].eid \in shown
        <5>1. IsOf(tab[t].page[i].eid, tab[t].page[i].by)
          BY Holders
        <5>2. QED
          BY <2>3, <3>1, <5>1 DEF Settled, Own
      <4>2. tab[t].page[i].eid \in shown
        BY <1>3, <1>10, <3>1, <4>1
      <4>3. QED
        BY <1>2, <4>2, ReplaysTo
    <3>2. CASE ~Own(t, i) /\ Resolved(i, t)
      <4>1. tab[t].page[i].eid \in DOMAIN inbox /\ tab[t].page[i].eid \notin Unresolved
        BY <3>2 DEF Resolved, Unresolved
      <4>2. tab[t].page[i].eid \in shown \cup DOMAIN parked \cup lost.waived
        BY <2>3, <4>1 DEF Settled, Covered
      <4>3. QED
        BY <1>2, <4>2, ReplaysTo
    <3>3. CASE ~Own(t, i) /\ ~Resolved(i, t)
      <4>1. tab[t].page[i].eid \in Fresh(t)
        BY <3>3 DEF Fresh
      <4>2. QED
        BY <1>2, <4>1, ReplaysTo
    <3>4. QED
      BY <3>1, <3>2, <3>3
  <2>6. Covered \subseteq Covered' /\ eids \subseteq Covered'
    <3>1. Unresolved \subseteq eids \cup Unresolved'
      BY <1>6 DEF Unresolved
    <3>2. shown \subseteq shown' /\ DOMAIN parked \subseteq DOMAIN parked'
      BY <1>2, ReplaysTo
    <3>3. QED
      BY <1>1, <2>5, <3>1, <3>2 DEF Covered
  <2>7. DOMAIN outbox' \subseteq shown' /\ \A e : IsOf(e, meta.client)' => e \in shown'
    <3>1. shown \subseteq shown'
      BY <1>2, ReplaysTo
    <3>2. \A e : IsOf(e, meta.client)' => IsOf(e, meta.client) \/ e \in DOMAIN outbox \cup shown'
      BY <1>1, <1>7, <1>8, OwnKept DEF HonestInv
    <3>3. QED
      BY <1>1, <2>3, <3>1, <3>2 DEF Settled
  <2>8. DOMAIN inbox' \subseteq Covered'
    BY <1>6, <2>3, <2>6 DEF Settled
  <2>9. ASSUME meta'.seen = backend' PROVE PagesOfLog' /\ \A p \in Marks' : Reached(p)'
    <3>1. /\ PagesOfLog /\ (\A p \in Marks : Reached(p)) /\ tab[t].cursor \in Marks
      BY <1>1, <1>7, <2>3, <2>9 DEF Settled, Marks, At
    <3>2. PagesOfLog'
      BY <2>2 DEF PagesOfLog, At
    <3>3. /\ tab[t].cursor \in Nat /\ Len(tab[t].page) \in Nat /\ OnPage(t) = 1..Len(tab[t].page)
          /\ end \in Nat
      BY JobsOf, TabsAssumption DEF JobsOK, JobOK, OnPage, end
    <3>4. /\ end <= Len(log)
          /\ \A i \in OnPage(t) : log[tab[t].cursor + i].eid \in eids
      BY <1>7, <3>1 DEF PagesOfLog, At, end, eids
    <3>5. \A i \in 1..end : log'[i].eid \in Covered'
      <4> SUFFICES ASSUME NEW i \in 1..end PROVE log[i].eid \in Covered'
        BY <1>1
      <4>1. CASE i \in 1..tab[t].cursor
        BY <2>6, <3>1, <4>1 DEF Reached
      <4>2. CASE i \notin 1..tab[t].cursor
        <5>1. i - tab[t].cursor \in OnPage(t) /\ tab[t].cursor + (i - tab[t].cursor) = i
          BY <3>3, <4>2 DEF end
        <5>2. QED
          BY <2>6, <3>4, <5>1
      <4>3. QED
        BY <4>1, <4>2
    <3>6. \A p \in Nat : p <= end => Reached(p)'
      BY <1>1, <3>3, <3>4, <3>5, ReachedBelow DEF Inv
    <3>7. ASSUME NEW p \in Marks' PROVE p \in Marks \/ p <= end
      <4>1. \/ p = meta'.cursor \/ \E e \in DOMAIN inbox' : p = inbox'[e].seq
            \/ Retries(config) /\ \E e \in DOMAIN parked' : p = parked'[e]
            \/ \E u \in Tab : (At(u, "page")' \/ InEpoch(u)') /\ p = tab'[u].cursor
            \/ \E u \in Tab : At(u, "turn")' /\ p = tab'[u].cursor + Len(tab'[u].page)
        BY <1>1 DEF Marks
      <4>2. CASE \E e \in DOMAIN inbox' : p = inbox'[e].seq
        BY <1>4, <1>6, <4>2, MarksHave
      <4>3. CASE Retries(config) /\ \E e \in DOMAIN parked' : p = parked'[e]
        <5>1. \A e \in DOMAIN parked' : \/ e \in DOMAIN parked /\ parked'[e] = parked[e]
                                        \/ e \in Fresh(t) /\ parked'[e] = seq[e]
          BY <1>2, ReplaysTo
        <5>2. QED
          BY <1>4, <1>5, <4>3, <5>1, MarksHave
      <4>4. CASE \E u \in Tab : (At(u, "page")' \/ InEpoch(u)') /\ p = tab'[u].cursor
        <5>1. PICK u \in Tab : (At(u, "page")' \/ InEpoch(u)') /\ p = tab'[u].cursor
          BY <4>4
        <5>2. u # t /\ InEpoch(u)'
          BY <1>7, <2>2, <5>1 DEF At, InEpoch
        <5>3. InEpoch(u) /\ p = tab[u].cursor
          BY <1>1, <1>7, <5>1, <5>2 DEF InEpoch, At, Epoch
        <5>4. QED
          BY <5>3 DEF Marks
      <4>5. CASE \E u \in Tab : At(u, "turn")' /\ p = tab'[u].cursor + Len(tab'[u].page)
        <5>1. p = end
          BY <1>7, <2>2, <4>5 DEF At, end
        <5>2. QED
          BY <3>3, <5>1
      <4>6. QED
        BY <1>1, <4>1, <4>2, <4>3, <4>4, <4>5, MarksHave
    <3>8. ASSUME NEW p \in Marks' PROVE Reached(p)'
      <4>1. p \in Nat
        BY MarksTypeNext DEF Inv
      <4>2. CASE p <= end
        BY <3>6, <4>1, <4>2
      <4>3. CASE p \in Marks
        <5>1. Reached(p)
          BY <3>1, <4>3
        <5>2. QED
          BY <1>1, <2>6, <5>1 DEF Reached
      <4>4. QED
        BY <3>7, <4>2, <4>3
    <3>9. QED
      BY <3>2, <3>8
  <2>10. QED
    BY <2>2, <2>4, <2>7, <2>8, <2>9 DEF Settled, At, Resets
<1>11. Honest'
  BY <1>1, <1>10 DEF Honest
<1>12. QED
  BY <1>9, <1>11 DEF HonestInv

(* What a pull brings is what the server has after the cursor.             *)
LEMMA PageIs ==
  ASSUME TablesOK, NEW n \in Nat
  PROVE  /\ DOMAIN Page(n) = 1..Len(Page(n)) /\ Len(Page(n)) \in Nat
         /\ \A i \in DOMAIN Page(n) : n + i \in DOMAIN log /\ Page(n)[i] = log[n + i]
         /\ Page(n) # <<>> => n + Len(Page(n)) <= Len(log)
<1>1. log \in Seq(Stored) /\ Len(log) \in Nat /\ DOMAIN log = 1..Len(log)
  BY DEF TablesOK
<1>2. \A i \in (n + 1)..Len(log) : log[i] \in Stored
  <2>1. (n + 1)..Len(log) \subseteq 1..Len(log)
    BY <1>1
  <2>2. QED
    BY <1>1, <2>1, ElementOfSeq
<1>3. /\ Page(n) \in Seq(Stored)
      /\ Len(Page(n)) = IF n + 1 <= Len(log) THEN Len(log) - (n + 1) + 1 ELSE 0
      /\ \A i \in 1..Len(Page(n)) : Page(n)[i] = log[(n + 1) + i - 1]
  BY <1>1, <1>2, SubSeqProperties DEF Page
<1> DEFINE k == Len(Page(n))
           m == Len(log)
<1>31. k = IF n + 1 <= m THEN m - (n + 1) + 1 ELSE 0
  BY <1>3
<1>4. DOMAIN Page(n) = 1..k /\ k \in Nat
  BY <1>3, LenProperties
<1>32. m \in Nat /\ k \in Nat
  BY <1>1, <1>4
<1>5. ASSUME NEW i \in DOMAIN Page(n) PROVE n + i \in DOMAIN log /\ Page(n)[i] = log[n + i]
  <2> HIDE DEF k, m
  <2>0. i \in 1..k
    BY <1>4
  <2>1. n + 1 <= m /\ (n + 1) + i - 1 = n + i
    BY <1>31, <1>32, <2>0
  <2>2. n + i \in 1..m
    BY <1>31, <1>32, <2>0, <2>1
  <2> USE DEF k, m
  <2>3. QED
    BY <1>1, <1>3, <2>0, <2>1, <2>2
<1>6. Page(n) # <<>> => n + Len(Page(n)) <= Len(log)
  <2>1. Page(n) # <<>> => k # 0
    BY <1>3, EmptySeq
  <2> HIDE DEF k, m
  <2>2. k # 0 => n + k <= m
    BY <1>31, <1>32
  <2> USE DEF k, m
  <2>3. QED
    BY <2>1, <2>2
<1>7. QED
  BY <1>4, <1>5, <1>6

(* A prune that read its cursor before the server was known, or when it    *)
(* was another one, is of another epoch.                                   *)
LEMMA EpochsPass ==
  ASSUME Clients, TablesOK, meta.seen < backend, meta'.client = meta.client, meta'.seen = backend,
         NEW u \in Tab, tab'[u] = tab[u]
  PROVE  ~InEpoch(u)'
<1> SUFFICES ASSUME At(u, "prune"), tab[u].epoch = <<meta.client, backend>> PROVE FALSE
  BY DEF InEpoch, At, Epoch
<1>1. tab[u].epoch[1] = meta.client /\ tab[u].epoch[2] = backend
  OBVIOUS
<1>2. backend <= meta.seen /\ backend \in Nat /\ meta.seen \in Nat
  BY <1>1 DEF Clients, TablesOK
<1>3. QED
  BY <1>2

LEMMA PullHonest ==
  ASSUME OneHistory, HonestInv, Inv', NEW t \in Tab, Pull(t)
  PROVE  HonestInv'
<1> DEFINE new  == meta.seen \notin {None, backend}
           from == IF new THEN 0 ELSE CursorOf(meta, inbox)
           ph   == IF Page(from) = <<>> THEN "pulled" ELSE "page"
           j    == [tab[t] EXCEPT !.phase = ph, !.page = Page(from), !.cursor = from,
                                  !.requeued = new /\ Synced # {}]
<1>0. TablesOK /\ JobsOK /\ Clients /\ meta.seen \in 0..backend /\ backend \in Nat /\ backend >= 1
  BY DEF HonestInv, Inv, TablesOK
<1>1. UNCHANGED <<config, dead, parked, shown, log, backend, fold, nextClient, holder, lost, spoilt>>
  BY DEF Pull, server, editing, ghosts
<1>2. /\ meta'.client = meta.client /\ meta'.seen = backend
      /\ meta'.cursor = IF new THEN 0 ELSE meta.cursor
      /\ inbox' = IF new THEN Empty ELSE inbox
  <2>1. Has(meta, {"client", "cursor", "seen", "lastSync"})
    BY <1>0 DEF TablesOK
  <2>2. QED
    BY <2>1 DEF Pull, Has
<1>3. DOMAIN outbox' = DOMAIN outbox /\ \A e \in DOMAIN outbox : outbox'[e].by = outbox[e].by
  <2>1. \A e \in DOMAIN outbox : Has(outbox[e], {"edits", "by", "synced", "waits", "age"})
    BY <1>0 DEF TablesOK, RowOK
  <2>2. DOMAIN Requeued = DOMAIN outbox /\ \A e \in DOMAIN outbox : Requeued[e].by = outbox[e].by
    BY <2>1 DEF Requeued, Has
  <2>3. outbox' = IF new THEN Requeued ELSE outbox
    BY DEF Pull
  <2>4. QED
    BY <2>2, <2>3
<1>4. from \in Nat /\ (new => from = 0) /\ (~new => from \in Marks)
  BY <1>0, CursorMarked, MarksType
<1>5. tab' = [tab EXCEPT ![t] = j]
  BY DEF Pull
<1> HIDE DEF from
<1>6. /\ \A u \in Tab : u # t => tab'[u] = tab[u]
      /\ tab[t].phase = "pull" /\ tab'[t].phase = ph /\ tab'[t].client = tab[t].client
      /\ tab'[t].page = Page(from) /\ tab'[t].cursor = from /\ tab'[t].wire = tab[t].wire
  <2>1. JobShape(tab[t])
    BY <1>0 DEF JobsOK, JobOK
  <2>2. tab'[t] = j /\ \A u \in Tab : u # t => tab'[u] = tab[u]
    BY <1>0, <1>5 DEF JobsOK
  <2>3. tab[t].phase = "pull"
    BY DEF Pull, At
  <2> HIDE DEF ph, new
  <2>4. QED
    BY <2>1, <2>2, <2>3 DEF JobShape, Has, Fields
<1> HIDE DEF new, j
<1>7. /\ \A i \in DOMAIN Page(from) : from + i \in DOMAIN log /\ Page(from)[i] = log[from + i]
      /\ Page(from) # <<>> => from + Len(Page(from)) <= Len(log)
  BY <1>0, <1>4, PageIs
<1>8. Takes(t)
  BY <1>6, <1>7, Holders DEF Takes
<1>9. Sourced
  <2>1. \A e \in DOMAIN outbox' : IsOf(e, outbox'[e].by)
    BY <1>3, Holders
  <2>2. QED
    BY <1>1, <2>1, Holders DEF Sourced
<1>10. ph # "prune" /\ ph \notin Resets /\ ph # "turn"
  BY DEF Resets
<1>11. Clients'
  <2>1. meta.seen <= meta'.seen /\ backend' <= config.swaps + 1
    BY <1>0, <1>1, <1>2 DEF Clients
  <2>2. QED
    BY <1>1, <1>2, <1>6, <1>8, <1>9, <1>10, <2>1, ClientsKept DEF HonestInv, FoldClients
<1>12. ASSUME config.lock, ~spoilt PROVE /\ meta'.seen # None
                                         /\ \A u \in Tab : ~At(u, "forget")'
                                         /\ Settled'
  <2>1. \A u \in Tab : u # t => tab[u].phase \notin Locked
    BY <1>6, <1>12, OnlyOne DEF HonestInv, Inv, Locked
  <2>2. \A u \in Tab : /\ tab[u].phase \notin Resets /\ tab'[u].phase \notin Resets
                       /\ tab'[u].phase # "turn" /\ (tab'[u].phase = "page" => u = t)
    BY <1>6, <1>10, <2>1 DEF Locked, Resets
  <2>3. Settled /\ (meta.seen = None => Newcomer)
    BY <1>12, <2>2 DEF HonestInv, Honest, Resetting, Resets
  <2>4. DOMAIN outbox' \subseteq shown' /\ \A e : IsOf(e, meta.client)' => e \in shown'
    <3>1. \A e : IsOf(e, meta.client)' => IsOf(e, meta.client) \/ e \in DOMAIN outbox \cup shown'
      BY <1>0, <1>2, <1>6, <1>8, <1>9, OwnKept
    <3>2. QED
      BY <1>1, <1>3, <2>3, <3>1 DEF Settled
  <2>5. DOMAIN inbox' \subseteq Covered'
    <3>1. CASE new
      BY <1>2, <3>1, EmptyIs
    <3>2. CASE ~new
      <4>1. inbox' = inbox /\ Covered' = Covered
        BY <1>1, <1>2, <3>2 DEF Covered, Unresolved
      <4>2. QED
        BY <2>3, <4>1 DEF Settled
    <3>3. QED
      BY <3>1, <3>2
  <2>6. ASSUME NEW p \in Marks'
        PROVE  \/ p = meta'.cursor \/ \E e \in DOMAIN inbox' : p = inbox'[e].seq
               \/ Retries(config) /\ \E e \in DOMAIN parked : p = parked[e]
               \/ p = from
               \/ \E u \in Tab : tab'[u] = tab[u] /\ InEpoch(u)' /\ p = tab[u].cursor
    <3>1. \/ p = meta'.cursor \/ \E e \in DOMAIN inbox' : p = inbox'[e].seq
          \/ Retries(config) /\ \E e \in DOMAIN parked : p = parked[e]
          \/ \E u \in Tab : (At(u, "page")' \/ InEpoch(u)') /\ p = tab'[u].cursor
          \/ \E u \in Tab : At(u, "turn")' /\ p = tab'[u].cursor + Len(tab'[u].page)
      BY <1>1 DEF Marks
    <3>2. ASSUME NEW u \in Tab, (At(u, "page")' \/ InEpoch(u)'), p = tab'[u].cursor
          PROVE  p = from \/ (tab'[u] = tab[u] /\ InEpoch(u)' /\ p = tab[u].cursor)
      <4>1. CASE u = t
        BY <1>6, <3>2, <4>1
      <4>2. CASE u # t
        BY <1>6, <2>2, <3>2, <4>2 DEF At
      <4>3. QED
        BY <4>1, <4>2
    <3>3. QED
      BY <2>2, <3>1, <3>2 DEF At
  <2>7. ASSUME meta.seen = backend PROVE \A p \in Marks' : Reached(p)'
    <3>1. ~new /\ inbox' = inbox /\ meta'.cursor = meta.cursor /\ Covered' = Covered
      BY <1>1, <1>2, <2>7 DEF new, Covered, Unresolved
    <3>2. \A u \in Tab : tab'[u] = tab[u] /\ InEpoch(u)' => InEpoch(u)
      BY <1>2, <2>7 DEF InEpoch, At, Epoch
    <3>3. \A p \in Marks' : p \in Marks
      BY <1>4, <2>6, <3>1, <3>2, MarksHave DEF Marks
    <3>4. \A p \in Marks' : Reached(p)'
      BY <1>1, <2>3, <2>7, <3>1, <3>3 DEF Settled, Reached
    <3>5. QED
      BY <3>4
  <2>8. ASSUME meta.seen # backend PROVE \A p \in Marks' : Reached(p)'
    <3>1. meta.seen < backend
      BY <1>0, <2>8
    <3>2. \A u \in Tab : tab'[u] = tab[u] => ~InEpoch(u)'
      BY <1>0, <1>2, <3>1, EpochsPass
    <3>3. ASSUME new PROVE Marks' \subseteq {0}
      <4>1. ~Retries(config)
        <5>1. backend >= 2 /\ backend <= config.swaps + 1
          BY <1>0, <3>1, <3>3 DEF new, None, Clients
        <5>2. config \in Configs /\ config.swaps \in Nat
          BY <1>0, TabsAssumption DEF TablesOK, ConfigType
        <5>3. config.swaps # 0
          BY <1>0, <5>1, <5>2
        <5>4. QED
          BY <5>2, <5>3 DEF OneHistory
      <4>2. Marks' \subseteq {0}
        BY <1>2, <1>4, <2>6, <3>2, <3>3, <4>1, EmptyIs
      <4>3. QED
        BY <4>2
    <3>4. ASSUME ~new PROVE Marks' \subseteq {0}
      <4>1. meta.seen = None
        BY <2>8, <3>4 DEF new
      <4>2. Newcomer
        BY <2>3, <4>1
      <4>3. meta.cursor = 0 /\ from = 0 /\ DOMAIN inbox' = {} /\ DOMAIN parked = {}
        BY <1>2, <1>4, <3>4, <4>2, MarksHave DEF Newcomer
      <4>4. Marks' \subseteq {0}
        BY <1>2, <2>6, <3>2, <3>4, <4>3
      <4>5. QED
        BY <4>4
    <3>5. Marks' \subseteq {0}
      BY <3>3, <3>4
    <3>6. \A p \in Marks' : Reached(p)'
      <4>1. Len(log') \in Nat
        BY <1>0, <1>1 DEF TablesOK
      <4>2. 0 <= Len(log') /\ 1..0 = {}
        BY <4>1
      <4>3. \A p \in Marks' : p = 0
        BY <3>5
      <4>4. QED
        BY <4>2, <4>3 DEF Reached
    <3>7. QED
      BY <3>6
  <2>9. PagesOfLog'
    <3> SUFFICES ASSUME NEW u \in Tab, tab'[u].phase = "page"
                 PROVE  /\ tab'[u].cursor + Len(tab'[u].page) <= Len(log')
                        /\ \A i \in DOMAIN tab'[u].page :
                             log'[tab'[u].cursor + i].eid = tab'[u].page[i].eid
      BY DEF PagesOfLog, At, OnPage
    <3>1. u = t /\ Page(from) # <<>>
      BY <1>6, <2>2
    <3>2. QED
      BY <1>1, <1>6, <1>7, <3>1
  <2>10. \A p \in Marks' : Reached(p)'
    BY <2>7, <2>8
  <2>11. meta'.seen # None
    BY <1>0, <1>2 DEF None
  <2>12. Settled'
    BY <2>4, <2>5, <2>9, <2>10 DEF Settled
  <2>13. QED
    BY <2>2, <2>11, <2>12 DEF At, Resets
<1>13. Honest'
  BY <1>1, <1>12 DEF Honest
<1>14. QED
  BY <1>11, <1>13 DEF HonestInv

(* A reset that goes on: the tab keeps its job, but for the phase.         *)
LEMMA WipeStep ==
  ASSUME HonestInv, Inv', NEW t \in Tab, NEW p \in Resets, Go(t, p), tab[t].phase \in Locked,
         UNCHANGED <<config, meta, log, backend, fold, nextClient, spoilt>>, Sourced,
         tab[t].phase \notin {"page", "turn"},
         \A e \in DOMAIN inbox' : e \in DOMAIN inbox /\ inbox'[e] = inbox[e],
         \A e \in DOMAIN parked' : e \in DOMAIN parked /\ parked'[e] = parked[e],
         p = "forget" => Wiped'
  PROVE  HonestInv'
<1>1. JobsOK /\ TablesOK /\ Clients
  BY DEF HonestInv, Inv
<1>2. /\ \A u \in Tab : u # t => tab'[u] = tab[u]
      /\ tab'[t].phase = p /\ tab'[t].client = tab[t].client /\ Takes(t)
  <2>1. JobShape(tab[t]) /\ tab' = [tab EXCEPT ![t].phase = p]
    BY <1>1 DEF JobsOK, JobOK, Go
  <2>2. /\ \A u \in Tab : u # t => tab'[u] = tab[u]
        /\ tab'[t] = [tab[t] EXCEPT !.phase = p]
    BY <1>1, <2>1 DEF JobsOK
  <2>3. /\ tab'[t].phase = p /\ tab'[t].client = tab[t].client /\ tab'[t].page = tab[t].page
        /\ tab'[t].wire = tab[t].wire
    BY <2>1, <2>2 DEF JobShape, Has, Fields
  <2>4. QED
    BY <2>2, <2>3, TakesSame
<1>3. p \notin {"prune", "page", "turn"}
  BY DEF Resets
<1>4. Clients'
  <2>1. meta.seen <= meta'.seen /\ backend' <= config.swaps + 1
    BY <1>1 DEF TablesOK, Clients
  <2>2. QED
    BY <1>1, <1>2, <1>3, <2>1, ClientsKept DEF HonestInv, FoldClients
<1>5. ASSUME config.lock, ~spoilt PROVE /\ meta.seen = None => Newcomer'
                                        /\ (\E u \in Tab : At(u, "forget")') => Wiped'
                                        /\ Resetting'
  <2>1. \A u \in Tab : u # t => tab[u].phase \notin Locked
    BY <1>5, OnlyOne DEF HonestInv, Inv
  <2>2. Resetting'
    BY <1>2 DEF Resetting, Resets
  <2>3. ASSUME NEW u \in Tab, At(u, "forget")' PROVE Wiped'
    <3>1. u = t
      BY <1>2, <2>1, <2>3 DEF At, Locked
    <3>2. QED
      BY <1>2, <2>3, <3>1 DEF At
  <2>4. ASSUME meta.seen = None PROVE Newcomer'
    <3>1. Newcomer
      BY <1>5, <2>4 DEF HonestInv, Honest
    <3>2. Marks' \subseteq Marks
      <4> SUFFICES ASSUME NEW q \in Marks' PROVE q \in Marks
        OBVIOUS
      <4>1. \/ q = meta'.cursor \/ \E e \in DOMAIN inbox' : q = inbox'[e].seq
            \/ Retries(config) /\ \E e \in DOMAIN parked' : q = parked'[e]
            \/ \E u \in Tab : (At(u, "page")' \/ InEpoch(u)') /\ q = tab'[u].cursor
            \/ \E u \in Tab : At(u, "turn")' /\ q = tab'[u].cursor + Len(tab'[u].page)
        BY DEF Marks
      <4>2. CASE \E u \in Tab : (At(u, "page")' \/ InEpoch(u)') /\ q = tab'[u].cursor
        <5>1. PICK u \in Tab : (At(u, "page")' \/ InEpoch(u)') /\ q = tab'[u].cursor
          BY <4>2
        <5>2. u # t
          BY <1>2, <1>3, <5>1 DEF At, InEpoch
        <5>3. (At(u, "page") \/ InEpoch(u)) /\ q = tab[u].cursor
          BY <1>2, <5>1, <5>2 DEF At, InEpoch, Epoch
        <5>4. QED
          BY <5>3 DEF Marks
      <4>3. CASE \E u \in Tab : At(u, "turn")' /\ q = tab'[u].cursor + Len(tab'[u].page)
        <5>1. PICK u \in Tab : At(u, "turn")' /\ q = tab'[u].cursor + Len(tab'[u].page)
          BY <4>3
        <5>2. u # t
          BY <1>2, <1>3, <5>1 DEF At
        <5>3. At(u, "turn") /\ q = tab[u].cursor + Len(tab[u].page)
          BY <1>2, <5>1, <5>2 DEF At
        <5>4. QED
          BY <5>3 DEF Marks
      <4>4. QED
        BY <4>1, <4>2, <4>3, MarksHave
    <3>3. DOMAIN inbox' = {} /\ DOMAIN parked' = {}
      BY <3>1 DEF Newcomer
    <3>4. \A u \in Tab : tab'[u].phase # "page" /\ tab'[u].phase # "turn"
      BY <1>2, <1>3, <3>1 DEF Newcomer, At
    <3>5. QED
      BY <3>1, <3>2, <3>3, <3>4 DEF Newcomer, At
  <2>5. QED
    BY <2>2, <2>3, <2>4
<1>6. Honest'
  BY <1>5 DEF Honest
<1>7. QED
  BY <1>4, <1>6 DEF HonestInv

LEMMA WipeRowsHonest ==
  ASSUME HonestInv, Inv', NEW t \in Tab, WipeRows(t)
  PROVE  HonestInv'
<1> DEFINE p == "wipe tables"
<1>1. UNCHANGED <<config, outbox, dead, parked, inbox, meta, log, backend, fold, nextClient, spoilt>>
      /\ Go(t, p)
  BY DEF WipeRows, server, editing, ghosts
<1>2. tab[t].phase \in Locked /\ tab[t].phase \notin {"page", "turn"} /\ p \in Resets /\ p # "forget"
  BY DEF WipeRows, At, Locked, Resets
<1>3. Sourced
  BY <1>1, SourcedSame
<1> HIDE DEF p
<1>4. QED
  BY <1>1, <1>2, <1>3, WipeStep

LEMMA WipeTablesHonest ==
  ASSUME HonestInv, Inv', NEW t \in Tab, WipeTables(t)
  PROVE  HonestInv'
<1> DEFINE p == "forget"
<1>1. UNCHANGED <<config, meta, log, backend, fold, nextClient, spoilt>> /\ Go(t, p)
  BY DEF WipeTables, server, editing
<1>2. tab[t].phase \in Locked /\ tab[t].phase \notin {"page", "turn"} /\ p \in Resets
  BY DEF WipeTables, At, Locked, Resets
<1>3. DOMAIN outbox' = {} /\ DOMAIN inbox' = {} /\ DOMAIN dead' = {} /\ DOMAIN parked' = {}
  BY EmptyIs DEF WipeTables
<1>4. Sourced
  BY <1>1, <1>3, Holders DEF Sourced
<1>5. Wiped'
  BY <1>3 DEF Wiped
<1> HIDE DEF p
<1>6. QED
  BY <1>1, <1>2, <1>3, <1>4, <1>5, WipeStep

(* The new id is nobody's, so nothing that is its own can be missing.      *)
LEMMA ForgetHonest ==
  ASSUME HonestInv, Inv', NEW t \in Tab, Forget(t)
  PROVE  HonestInv'
<1> DEFINE j == Resting(nextClient)
<1>0. JobsOK /\ TablesOK /\ Clients /\ nextClient \in Nat /\ nextClient' = nextClient + 1
  BY DEF HonestInv, Inv, TablesOK, Forget
<1>1. UNCHANGED <<config, outbox, dead, parked, inbox, shown, log, backend, fold, lost, spoilt>>
  BY DEF Forget, server, ghosts
<1>2. meta'.client = nextClient /\ meta'.cursor = 0 /\ meta'.seen = None
  <2>1. Has(meta, {"client", "cursor", "seen", "lastSync"})
    BY <1>0 DEF TablesOK
  <2>2. QED
    BY <2>1 DEF Forget, Has
<1>3. /\ \A u \in Tab : u # t => tab'[u] = tab[u]
      /\ tab'[t].phase = "idle" /\ tab'[t].client = nextClient /\ Takes(t)
  <2>1. tab'[t] = j /\ \A u \in Tab : u # t => tab'[u] = tab[u]
    BY <1>0 DEF Forget, JobsOK
  <2>2. DOMAIN j.wire = {} /\ j.page = <<>> /\ j.client = nextClient /\ j.phase = "idle"
    BY RestingHas DEF Resting
  <2> HIDE DEF j
  <2>3. QED
    BY <2>1, <2>2, TakesNone
<1>4. tab[t].phase = "forget" /\ tab[t].phase \in Locked
  BY DEF Forget, At, Locked
<1>5. Sourced
  BY <1>1, SourcedSame
<1>6. \A c \in Nat : nextClient <= c => \A e : ~IsOf(e, c)'
  <2> SUFFICES ASSUME NEW c \in Nat, nextClient <= c, NEW e, IsOf(e, c)' PROVE FALSE
    OBVIOUS
  <2>1. \/ IsOf(e, c) \/ c = Others \/ \E u \in Tab : c \in {tab[u].client, fold[u].by}
    BY <1>3, <1>5, Origins
  <2>2. c # Others /\ \A u \in Tab : tab[u].client # c /\ fold[u].by # c
    BY <1>0 DEF Clients, Others
  <2>3. QED
    BY <1>0, <2>1, <2>2 DEF Clients
<1>7. Clients'
  <2>1. meta'.client \in Nat /\ 0 < meta'.client /\ meta'.client < nextClient'
    BY <1>0, <1>2 DEF Clients
  <2>2. ASSUME NEW u \in Tab
        PROVE  tab'[u].client \in Nat /\ 0 < tab'[u].client /\ tab'[u].client < nextClient'
    <3>1. CASE u = t
      BY <1>0, <1>3, <3>1 DEF Clients
    <3>2. CASE u # t
      BY <1>0, <1>3, <3>2 DEF Clients
    <3>3. QED
      BY <3>1, <3>2
  <2>3. \A c \in Nat : nextClient' <= c => \A e : ~IsOf(e, c)'
    BY <1>0, <1>6
  <2>4. ASSUME NEW u \in Tab, tab'[u].phase = "prune"
        PROVE  tab'[u].epoch[1] \in Nat /\ tab'[u].epoch[1] < meta'.client
    <3>1. At(u, "prune") /\ tab'[u] = tab[u]
      BY <1>3, <2>4 DEF At
    <3>2. QED
      BY <1>0, <1>2, <3>1 DEF Clients
  <2>5. backend' <= config'.swaps + 1
    BY <1>0, <1>1 DEF Clients
  <2>6. \A u \in Tab : tab'[u].phase = "prune" =>
          /\ tab'[u].epoch[1] \in Nat /\ tab'[u].epoch[1] <= meta'.client
          /\ tab'[u].epoch[1] # meta'.client
    BY <1>0, <1>2, <2>4
  <2>7. \A u \in Tab : fold'[u].by \in Nat /\ fold'[u].by < nextClient'
    BY <1>0, <1>1 DEF Clients
  <2>8. QED
    BY <2>1, <2>2, <2>3, <2>5, <2>6, <2>7 DEF Clients, At
<1>8. ASSUME config.lock, ~spoilt PROVE /\ Newcomer' /\ Settled'
                                        /\ \A u \in Tab : ~At(u, "forget")'
  <2>1. \A u \in Tab : u # t => tab[u].phase \notin Locked
    BY <1>4, <1>8, OnlyOne DEF HonestInv, Inv
  <2>2. \A u \in Tab : tab'[u].phase \notin {"page", "turn", "forget"}
    BY <1>3, <2>1 DEF Locked
  <2>3. Wiped
    BY <1>4, <1>8 DEF HonestInv, Honest, At
  <2>4. \A u \in Tab : ~InEpoch(u)'
    <3> SUFFICES ASSUME NEW u \in Tab, tab'[u].phase = "prune", tab'[u].epoch = <<nextClient, None>>
                 PROVE  FALSE
      BY <1>2 DEF InEpoch, At, Epoch
    <3>1. At(u, "prune") /\ tab'[u] = tab[u]
      BY <1>3 DEF At
    <3>2. tab[u].epoch[1] = nextClient
      BY <3>1
    <3>3. QED
      BY <1>0, <3>1, <3>2 DEF Clients
  <2>5. DOMAIN inbox' = {} /\ DOMAIN parked' = {} /\ DOMAIN outbox' \subseteq shown'
    BY <1>1, <2>3 DEF Wiped
  <2>6. Marks' \subseteq {0}
    BY <1>2, <2>2, <2>4, <2>5 DEF Marks, At
  <2>7. Newcomer'
    BY <2>2, <2>5, <2>6 DEF Newcomer, At
  <2>8. \A e : IsOf(e, meta.client)' => e \in shown'
    <3>1. PICK c : c = nextClient
      OBVIOUS
    <3>2. c \in Nat /\ nextClient <= c /\ c = meta'.client
      BY <1>0, <1>2, <3>1
    <3>3. \A e : ~IsOf(e, c)'
      BY <1>6, <3>2
    <3>4. \A e : IsOf(e, meta.client)' => IsOf(e, c)'
      BY <3>2 DEF IsOf
    <3>5. QED
      BY <3>3, <3>4
  <2>9. meta'.seen # backend'
    BY <1>0, <1>1, <1>2 DEF TablesOK, None
  <2>10. Settled'
    BY <2>5, <2>8, <2>9 DEF Settled
  <2>11. QED
    BY <2>2, <2>7, <2>10 DEF At
<1>9. Honest'
  BY <1>1, <1>8 DEF Honest
<1>10. QED
  BY <1>7, <1>9 DEF HonestInv

-----------------------------------------------------------------------------
(* The theorem.                                                            *)

LEMMA InitHonest == Init => HonestInv
<1> SUFFICES ASSUME Init PROVE HonestInv
  OBVIOUS
<1>1. Inv
  BY InitInv
<1>2. /\ DOMAIN outbox = {} /\ DOMAIN dead = {} /\ DOMAIN parked = {} /\ DOMAIN inbox = {}
      /\ log = <<>> /\ DOMAIN log = {} /\ backend = 1 /\ nextClient = 2
      /\ meta.client = 1 /\ meta.cursor = 0 /\ meta.seen = None
  BY EmptyIs DEF Init
<1>3. \A t \in Tab : /\ DOMAIN tab[t].wire = {} /\ DOMAIN tab[t].page = {}
                     /\ tab[t].phase = "idle" /\ tab[t].client = 1
  BY EmptyIs DEF Init, Resting
<1>4. \A e, c : ~IsOf(e, c)
  BY <1>2, <1>3 DEF IsOf
<1>5. Clients
  <2>1. config.swaps \in Nat
    BY TabsAssumption DEF Init, ConfigType
  <2>2. \A t \in Tab : fold[t].by = 0
    BY DEF Init, NoFold, None
  <2>3. QED
    BY <1>2, <1>3, <1>4, <2>1, <2>2 DEF Clients, At
<1>6. Newcomer
  BY <1>2, <1>3 DEF Newcomer, Marks, InEpoch, At
<1>7. Settled
  BY <1>2, <1>4 DEF Settled, None
<1>8. \A t \in Tab : ~At(t, "forget")
  BY <1>3 DEF At
<1>9. QED
  BY <1>1, <1>5, <1>6, <1>7, <1>8 DEF HonestInv, Honest

LEMMA NextHonest ==
  ASSUME OneHistory, HonestInv, [Next]_vars
  PROVE  HonestInv'
<1>0. Inv'
  BY NextInv DEF HonestInv
<1>1. ASSUME NEW t \in Tab, SyncStep(t) PROVE HonestInv'
  BY <1>0, <1>1, HoldHonest, PushNothingHonest, StartPushHonest, FinishPushHonest, PullHonest,
     ReplayPageHonest, WriteCursorHonest, EndPullHonest, OutcomeHonest, ServeHonest DEF SyncStep
<1>2. ASSUME NEW t \in Tab, ResetStep(t) PROVE HonestInv'
  BY <1>0, <1>2, WipeRowsHonest, WipeTablesHonest, ForgetHonest DEF ResetStep
<1>3. ASSUME NEW t \in Tab, Continue(t) PROVE HonestInv'
  BY <1>0, <1>1, <1>2, <1>3, UnparkHonest, ReplayHonest, FinishRetryHonest, SaveCursorHonest,
     ListSentHonest, ListSeenHonest, DropSentHonest, DropSeenHonest, EndPruneHonest
     DEF Continue, PruneStep
<1>4. ASSUME NEW t \in Tab, Start(t) PROVE HonestInv'
  BY <1>0, <1>4, StartSyncHonest, StartRetryHonest, DiscardHonest, StartPruneHonest,
     StartResetHonest DEF Start
<1>5. CASE Next
  BY <1>0, <1>3, <1>4, <1>5, BeginFoldHonest, DropFoldedHonest, InsertFoldedHonest,
     AbandonFoldHonest, AddHonest, CrashHonest, TickHonest, OtherHonest, SwapHonest
     DEF Next, FoldStep
<1>6. CASE UNCHANGED vars
  <2>1. UNCHANGED <<config, outbox, dead, parked, inbox, meta, shown, log, backend, fold, nextClient,
                    tab, lost, spoilt>>
    BY <1>6 DEF vars, tables, server, editing, ghosts
  <2>2. LogGrows
    BY <2>1, JobsOf DEF LogGrows, TablesOK
  <2>3. QED
    BY <1>0, <2>1, <2>2, SourcedSame, PlainStep DEF FoldClients
<1>7. QED
  BY <1>5, <1>6

LEMMA HonestCursor == HonestInv => CursorHonest
<1> SUFFICES ASSUME HonestInv, config.lock, ~spoilt, ~Resetting, meta.seen = backend,
                    NEW i \in 1..CursorOf(meta, inbox)
             PROVE  log[i].eid \in Covered
  BY DEF CursorHonest, Covered
<1>1. \A p \in Marks : Reached(p)
  BY DEF HonestInv, Honest, Settled
<1>2. Reached(CursorOf(meta, inbox))
  BY <1>1, JobsOf, CursorMarked
<1>3. QED
  BY <1>2 DEF Reached

(* With the lock the cursor never passes an event that the rows of the     *)
(* device do not show and that nothing stands for, whatever the tabs do    *)
(* at the same time.  It takes that the store of the server is not         *)
(* replaced where inbound dead letters are retried: a retry brings back    *)
(* the place an event had in the old store.                                *)
THEOREM CursorIsHonest ==
  ASSUME OneHistory
  PROVE  Spec => []CursorHonest
<1>1. Init => HonestInv
  BY InitHonest
<1>2. HonestInv /\ [Next]_vars => HonestInv'
  BY NextHonest
<1>3. HonestInv => CursorHonest
  BY HonestCursor
<1>4. QED
  BY <1>1, <1>2, <1>3, PTL DEF Spec
=============================================================================
